--------------------------- MODULE CrashUploads_proofs ---------------------------
(***************************************************************************)
(* For any requests and file names: the id a client was answered with      *)
(* never shows the crash of another, a row describes no dump but that of   *)
(* its own upload unless the file name was shared, and the pages of the    *)
(* list miss no more crashes than were deleted under the reader.           *)
(***************************************************************************)
EXTENDS CrashUploads, FiniteSetTheorems, SequenceTheorems, TLAPS

\* The table's counter is ahead of every id that was ever given, also of those
\* whose rows are gone: AUTOINCREMENT.  Without it the next row might get the
\* id of a link that is still out.
IInv ==
    /\ lastId \in Nat
    /\ answer \in [Requests -> 0..lastId]
    /\ \A row \in rows : row.id \in 1..lastId
    /\ AnswersStayOwn

\* No row has been inserted and nobody answered.
LEMMA InitIInv == Init => IInv
BY DEF Init, IInv, AnswersStayOwn

\* A new row has an id no request was given before.
LEMMA InsertIInv == ASSUME NEW r \in Requests, IInv, InsertCrash(r) PROVE IInv'
<1> DEFINE new == [id |-> NextId, by |-> r, ts |-> ts[r], report |-> report[r],
                   signature |-> SignatureOf(report[r]), dmp |-> PathOf(r)]
<1>1. /\ rows' = rows \cup {new} /\ lastId' = lastId + 1
      /\ answer' = [answer EXCEPT ![r] = lastId + 1]
    BY DEF InsertCrash, NextId
<1>2. new.id = lastId + 1 /\ new.by = r
    BY DEF NextId
<1> HIDE DEF new
<1>3. lastId' \in Nat /\ answer' \in [Requests -> 0..lastId']
    BY <1>1 DEF IInv
<1>4. \A row \in rows' : row.id \in 1..lastId'
    BY <1>1, <1>2 DEF IInv
<1>5. ASSUME NEW q \in Requests, NEW row \in rows', row.id = answer'[q]
      PROVE  row.by = q
    <2>1. CASE row = new
        <3>1. answer'[q] = lastId + 1
            BY <1>2, <1>5, <2>1
        <3>2. q = r
            BY <1>1, <3>1 DEF IInv
        <3> QED
            BY <1>2, <2>1, <3>2
    <2>2. CASE row \in rows
        <3>1. row.id \in 1..lastId
            BY <2>2 DEF IInv
        <3>2. q # r /\ answer'[q] = answer[q]
            BY <1>1, <1>5, <3>1 DEF IInv
        <3> QED
            BY <1>5, <2>2, <3>2 DEF IInv, AnswersStayOwn
    <2> QED
        BY <1>1, <2>1, <2>2
<1> QED
    BY <1>3, <1>4, <1>5 DEF IInv, AnswersStayOwn

\* The link a client was given shows its own crash or nothing, for ever
\* (insert_crash and delete_crash).
THEOREM UploadsAnswersStayOwn == Spec => []AnswersStayOwn
<1>1. IInv /\ [Next]_vars => IInv'
    <2> SUFFICES ASSUME IInv, [Next]_vars PROVE IInv'
        OBVIOUS
    <2>1. ASSUME UNCHANGED <<rows, lastId, answer>> PROVE IInv'
        BY <2>1 DEF IInv, AnswersStayOwn
    <2>2. CASE Tick \/ crashes \/ UNCHANGED vars
        BY <2>1, <2>2 DEF Tick, crashes, vars
    <2>3. ASSUME NEW r \in Requests, Serve(r), ~InsertCrash(r) PROVE IInv'
        <3>1. UNCHANGED <<rows, lastId, answer>>
            BY <2>3 DEF Serve, Receive, OpenFile, WriteFile, SaveFails, Import, Discard, Analyze, InsertFails
        <3> QED
            BY <2>1, <3>1
    <2>4. ASSUME NEW id \in 1..lastId, DeleteCrash(id) PROVE IInv'
        BY <2>4 DEF DeleteCrash, IInv, AnswersStayOwn
    <2> QED
        BY <2>2, <2>3, <2>4, InsertIInv DEF Next
<1>2. IInv => AnswersStayOwn
    BY DEF IInv
<1> QED
    BY InitIInv, <1>1, <1>2, PTL DEF Spec

--------------------------------------------------------------------------------
(* Types, and the key of the table *)

\* An id is given once, so that it stays a key whatever is deleted; the reader
\* waits for rows whose ids were given.
TInv ==
    /\ pc \in [Requests -> {"idle", "open", "write", "import", "discard", "analyze", "insert", "done"}]
    /\ file \in [Names -> Requests \cup {NoFile, "partial"}]
    /\ \A r \in writing : r \in Requests /\ pc[r] = "write"
    /\ report \in [Requests -> Requests \cup {Failed}]
    /\ lastId \in Nat
    /\ \A row \in rows : row.id \in 1..lastId
    /\ \A row, other \in rows : row.id = other.id => row = other
    /\ walk \in [page : Nat, has_next : BOOLEAN, unseen : SUBSET (1..lastId), deleted : Nat]

\* No request has begun.
LEMMA InitTInv == Init => TInv
BY DEF Init, TInv, Failed

\* What a request does to the file of its name and to its own report.
LEMMA RequestTInv == ASSUME NEW r \in Requests, TInv, Serve(r), ~InsertCrash(r) PROVE TInv'
<1> USE DEF TInv, Goes, PathOf
<1>1. PathOf(r) \in Names
    BY DEF Names
<1>2. CASE Receive(r)
    BY <1>2 DEF Receive
<1>3. CASE OpenFile(r)
    BY <1>3, ZenonT(40) DEF OpenFile
<1>4. CASE WriteFile(r)
    <2>1. file' \in [Names -> Requests \cup {NoFile, "partial"}]
        BY <1>4 DEF WriteFile
    <2>2. \A q \in writing' : q \in Requests /\ pc'[q] = "write"
        BY <1>4 DEF WriteFile
    <2>3. pc' \in [Requests -> {"idle", "open", "write", "import", "discard", "analyze", "insert", "done"}]
        BY <1>4 DEF WriteFile
    <2> QED
        BY <1>4, <2>1, <2>2, <2>3 DEF WriteFile
<1>5. CASE Discard(r)
    BY <1>5 DEF Discard
<1>6. CASE Analyze(r) \/ Import(r)
    <2>1. \A kinds : Readings(r, kinds) \subseteq Requests \cup {Failed}
        BY DEF Readings
    <2>2. PICK reading \in Requests \cup {Failed} : report' = [report EXCEPT ![r] = reading]
        BY <1>6, <2>1 DEF Analyze, Import
    <2> QED
        BY <1>6, <2>2 DEF Analyze, Import
<1>8. CASE SaveFails(r)
    <2>1. file' \in [Names -> Requests \cup {NoFile, "partial"}]
        BY <1>1, <1>8 DEF SaveFails
    <2> QED
        BY <1>8, <2>1 DEF SaveFails
<1>7. CASE InsertFails(r)
    BY <1>7 DEF InsertFails
<1> QED
    BY <1>2, <1>3, <1>4, <1>5, <1>6, <1>7, <1>8 DEF Serve

\* A new row has an id that no row has.
LEMMA InsertTInv == ASSUME NEW r \in Requests, TInv, InsertCrash(r) PROVE TInv'
<1> DEFINE new == [id |-> NextId, by |-> r, ts |-> ts[r], report |-> report[r],
                   signature |-> SignatureOf(report[r]), dmp |-> PathOf(r)]
<1>1. /\ rows' = rows \cup {new} /\ lastId' = lastId + 1 /\ pc' = [pc EXCEPT ![r] = "done"]
      /\ pc[r] = "insert" /\ UNCHANGED <<file, writing, report, walk>>
    BY DEF InsertCrash, NextId, Goes
<1>2. new.id = lastId + 1
    BY DEF NextId
<1> HIDE DEF new
<1>3. /\ lastId' \in Nat /\ \A row \in rows' : row.id \in 1..lastId'
      /\ \A row, other \in rows' : row.id = other.id => row = other
    BY <1>1, <1>2 DEF TInv
<1>4. walk' \in [page : Nat, has_next : BOOLEAN, unseen : SUBSET (1..lastId'), deleted : Nat]
    <2>1. SUBSET (1..lastId) \subseteq SUBSET (1..lastId')
        BY <1>1 DEF TInv
    <2> QED
        BY <1>1, <2>1 DEF TInv
<1> QED
    BY <1>1, <1>3, <1>4 DEF TInv

\* The record of the reader keeps its fields.
LEMMA WalkFields ==
    ASSUME NEW T, NEW w \in [page : Nat, has_next : BOOLEAN, unseen : SUBSET T, deleted : Nat],
           NEW more \in BOOLEAN, NEW left \in SUBSET T
    PROVE  /\ [w EXCEPT !.page = w.page + 1, !.has_next = more, !.unseen = left]
                  \in [page : Nat, has_next : BOOLEAN, unseen : SUBSET T, deleted : Nat]
           /\ [w EXCEPT !.unseen = left, !.deleted = w.deleted + 1]
                  \in [page : Nat, has_next : BOOLEAN, unseen : SUBSET T, deleted : Nat]
<1> DEFINE W == [page : Nat, has_next : BOOLEAN, unseen : SUBSET T, deleted : Nat]
<1>1. ASSUME NEW v \in W, NEW p \in Nat PROVE [v EXCEPT !.page = p] \in W
    OBVIOUS
<1>2. ASSUME NEW v \in W PROVE [v EXCEPT !.has_next = more] \in W
    OBVIOUS
<1>3. ASSUME NEW v \in W PROVE [v EXCEPT !.unseen = left] \in W
    OBVIOUS
<1>4. ASSUME NEW v \in W, NEW d \in Nat PROVE [v EXCEPT !.deleted = d] \in W
    OBVIOUS
<1>5. w.page + 1 \in Nat /\ w.deleted + 1 \in Nat
    OBVIOUS
<1>6. [w EXCEPT !.page = w.page + 1, !.has_next = more, !.unseen = left]
          = [[[w EXCEPT !.page = w.page + 1] EXCEPT !.has_next = more] EXCEPT !.unseen = left]
    OBVIOUS
<1>7. [w EXCEPT !.unseen = left, !.deleted = w.deleted + 1]
          = [[w EXCEPT !.unseen = left] EXCEPT !.deleted = w.deleted + 1]
    OBVIOUS
<1> HIDE DEF W
<1>8. [w EXCEPT !.page = w.page + 1] \in W /\ [w EXCEPT !.unseen = left] \in W
    BY <1>1, <1>3, <1>5 DEF W
<1>9. [[w EXCEPT !.page = w.page + 1] EXCEPT !.has_next = more] \in W
    BY <1>2, <1>8
<1>10. [[[w EXCEPT !.page = w.page + 1] EXCEPT !.has_next = more] EXCEPT !.unseen = left] \in W
    BY <1>3, <1>9
<1>11. [[w EXCEPT !.unseen = left] EXCEPT !.deleted = w.deleted + 1] \in W
    BY <1>4, <1>5, <1>8
<1> QED
    BY <1>6, <1>7, <1>10, <1>11 DEF W

\* The reader only ever waits for rows it has met in the table.
LEMMA WalkTInv == ASSUME TInv, crashes PROVE TInv'
<1> DEFINE there == IF walk.page = 0 THEN {row.id : row \in rows} ELSE walk.unseen
<1>1. PICK more \in BOOLEAN, left \in SUBSET there :
          walk' = [walk EXCEPT !.page = walk.page + 1, !.has_next = more, !.unseen = left]
    <2>1. PICK order \in Orders :
              LET found == get_crashes(order, Limit, walk.page * per_page)
                  shown == SubSeq(found, 1, IF Len(found) < per_page THEN Len(found) ELSE per_page)
              IN walk' = [walk EXCEPT !.page = walk.page + 1, !.has_next = Len(found) > per_page,
                              !.unseen = (there \ {shown[i].id : i \in DOMAIN shown}) \ Tied]
        BY Zenon DEF crashes
    <2> DEFINE found == get_crashes(order, Limit, walk.page * per_page)
               shown == SubSeq(found, 1, IF Len(found) < per_page THEN Len(found) ELSE per_page)
               left == (there \ {shown[i].id : i \in DOMAIN shown}) \ Tied
    <2>2. left \in SUBSET there
        OBVIOUS
    <2>3. (Len(found) > per_page) \in BOOLEAN
        OBVIOUS
    <2>4. walk' = [walk EXCEPT !.page = walk.page + 1, !.has_next = Len(found) > per_page, !.unseen = left]
        BY <2>1
    <2> HIDE DEF found, left
    <2> QED
        BY <2>2, <2>3, <2>4, ZenonT(40)
<1>2. there \subseteq 1..lastId
    BY DEF TInv
<1> HIDE DEF there
<1>3. left \in SUBSET (1..lastId)
    BY <1>2
<1>4. walk' \in [page : Nat, has_next : BOOLEAN, unseen : SUBSET (1..lastId), deleted : Nat]
    <2> DEFINE T == 1..lastId
    <2>1. walk \in [page : Nat, has_next : BOOLEAN, unseen : SUBSET T, deleted : Nat]
        BY DEF TInv
    <2>2. left \in SUBSET T
        BY <1>3
    <2> HIDE DEF T
    <2>3. walk' \in [page : Nat, has_next : BOOLEAN, unseen : SUBSET T, deleted : Nat]
        BY <1>1, <2>1, <2>2, WalkFields, ZenonT(40)
    <2> QED
        BY <2>3 DEF T
<1> QED
    BY <1>4, ZenonT(40) DEF crashes, TInv

\* Every step keeps the types.
LEMMA StepTInv == TInv /\ [Next]_vars => TInv'
<1> SUFFICES ASSUME TInv, [Next]_vars PROVE TInv'
    OBVIOUS
<1>1. CASE Tick \/ UNCHANGED vars
    BY <1>1 DEF Tick, vars, TInv
<1>2. ASSUME NEW id \in 1..lastId, DeleteCrash(id) PROVE TInv'
    <2>1. rows' \subseteq rows
        BY <1>2 DEF DeleteCrash
    <2>2. walk' \in [page : Nat, has_next : BOOLEAN, unseen : SUBSET (1..lastId), deleted : Nat]
        <3>1. \/ walk' = walk
              \/ walk' = [walk EXCEPT !.unseen = walk.unseen \ {id}, !.deleted = walk.deleted + 1]
            BY <1>2 DEF DeleteCrash
        <3> DEFINE T == 1..lastId
        <3>2. walk \in [page : Nat, has_next : BOOLEAN, unseen : SUBSET T, deleted : Nat]
            BY DEF TInv
        <3>3. walk.unseen \ {id} \in SUBSET T
            BY <3>2
        <3> HIDE DEF T
        <3>4. [walk EXCEPT !.unseen = walk.unseen \ {id}, !.deleted = walk.deleted + 1]
                  \in [page : Nat, has_next : BOOLEAN, unseen : SUBSET T, deleted : Nat]
            BY <3>2, <3>3, WalkFields
        <3>5. walk' \in [page : Nat, has_next : BOOLEAN, unseen : SUBSET T, deleted : Nat]
            BY <3>1, <3>2, <3>4
        <3> QED
            BY <3>5, <1>2 DEF T, DeleteCrash
    <2> QED
        BY <1>2, <2>1, <2>2 DEF DeleteCrash, TInv
<1> QED
    BY <1>1, <1>2, WalkTInv, InsertTInv, RequestTInv DEF Next

\* The types, and that the id is a key, hold in every reachable state.
THEOREM UploadsTypeOK == Spec => []TypeOK
<1>1. TInv => TypeOK
    BY DEF TInv, TypeOK
<1> QED
    BY InitTInv, StepTInv, <1>1, PTL DEF Spec

--------------------------------------------------------------------------------
(* Whose dump a row describes *)

\* A request that has its file name to itself finds what it wrote at every
\* stage, and its dump stays where its row says.
Undisturbed(r) ==
    /\ pc[r] = "write" => r \in writing /\ file[Name[r]] = "partial"
    /\ pc[r] \in {"import", "analyze", "insert"} => file[Name[r]] = r
    /\ pc[r] = "insert" \/ Kind[r] = "symbols" => report[r] \in {r, Failed}
    /\ \A row \in rows : row.by = r => row.report \in {r, Failed} /\ file[Name[r]] = r

OwnInv ==
    /\ \A r \in Requests : pc[r] \in {"analyze", "insert"} => Kind[r] # "symbols"
    /\ \A row \in rows : row.by \in Requests /\ row.dmp = Name[row.by] /\ pc[row.by] = "done"
                         /\ Kind[row.by] # "symbols"
    /\ \A r \in Requests : pc[r] \in {"import", "discard"} => Kind[r] = "symbols"
    /\ \A r \in Requests : Shared(r) \/ Undisturbed(r)

\* No request has begun.
LEMMA InitOwn == Init => OwnInv
BY DEF Init, OwnInv, Undisturbed

\* Once a name is shared it stays so, and what a request does to its file
\* disturbs only those that share its name.
LEMMA ServeOwn == ASSUME TInv, OwnInv, NEW r \in Requests, Serve(r) PROVE OwnInv'
<1> USE DEF Goes, PathOf
<1>1. \A q \in Requests : pc[q] # "idle" => pc'[q] # "idle"
    BY DEF Serve, Receive, OpenFile, WriteFile, SaveFails, Import, Discard, Analyze, InsertCrash, InsertFails, TInv
<1>2. \A q \in Requests : Shared(q) => Shared(q)'
    BY <1>1 DEF Shared
<1>3. pc'[r] # "idle"
    BY DEF Serve, Receive, OpenFile, WriteFile, SaveFails, Import, Discard, Analyze, InsertCrash, InsertFails, TInv
<1>n. \A q \in Requests : Name[q] \in Names
    BY DEF Names
<1>4. ASSUME NEW q \in Requests, q # r, Name[q] # Name[r], Undisturbed(q) PROVE Undisturbed(q)'
    <2>1. pc'[q] = pc[q] /\ file'[Name[q]] = file[Name[q]] /\ report'[q] = report[q]
        BY <1>4, <1>n DEF Serve, Receive, OpenFile, WriteFile, SaveFails, Import, Discard, Analyze, InsertCrash, InsertFails, TInv
    <2>2. q \in writing => q \in writing'
        BY <1>4 DEF Serve, Receive, OpenFile, WriteFile, SaveFails, Import, Discard, Analyze, InsertCrash, InsertFails
    <2>3. \A row \in rows' : row.by = q => row \in rows
        BY <1>4 DEF Serve, Receive, OpenFile, WriteFile, SaveFails, Import, Discard, Analyze, InsertCrash, InsertFails
    <2> QED
        BY <1>4, <2>1, <2>2, <2>3 DEF Undisturbed
<1>5. ASSUME Undisturbed(r) PROVE Undisturbed(r)'
    <2>1. CASE Receive(r)
        BY <1>5, <2>1 DEF Receive, Undisturbed, TInv
    <2>2. CASE OpenFile(r)
        <3>1. \A row \in rows : row.by # r
            BY <2>2 DEF OpenFile, OwnInv
        <3> QED
            BY <1>5, <2>2, <3>1, <1>n DEF OpenFile, Undisturbed, TInv
    <2>3. CASE WriteFile(r)
        <3>1. \A row \in rows : row.by # r
            BY <2>3 DEF WriteFile, OwnInv
        <3>2. r \in writing /\ file[Name[r]] = "partial"
            BY <1>5, <2>3 DEF WriteFile, Undisturbed
        <3>3. file' = [file EXCEPT ![Name[r]] = r] /\ pc'[r] \in {"import", "analyze"}
              /\ rows' = rows /\ report' = report
            BY <2>3, <3>2 DEF WriteFile, TInv
        <3>4. file'[Name[r]] = r
            BY <3>3, <1>n DEF TInv
        <3> QED
            BY <1>5, <3>1, <3>3, <3>4 DEF Undisturbed
    <2>4. CASE Discard(r)
        <3>1. \A row \in rows : row.by # r
            BY <2>4 DEF Discard, OwnInv
        <3> QED
            BY <1>5, <2>4, <3>1 DEF Discard, Undisturbed, TInv
    <2>5. CASE Analyze(r) \/ Import(r)
        <3>1. file[Name[r]] = r
            BY <1>5, <2>5 DEF Analyze, Import, Undisturbed
        <3>2. \A kinds : Readings(r, kinds) \subseteq {r, Failed}
            BY <3>1 DEF Readings
        <3>3. PICK reading \in {r, Failed} : report' = [report EXCEPT ![r] = reading]
            BY <2>5, <3>2 DEF Analyze, Import
        <3>4. /\ UNCHANGED <<file, writing, rows>> /\ pc'[r] \in {"insert", "discard"}
              /\ report'[r] \in {r, Failed}
            BY <2>5, <3>3 DEF Analyze, Import, TInv
        <3> QED
            <4>1. \A row \in rows' : row.by = r => row.report \in {r, Failed} /\ file'[Name[r]] = r
                BY <1>5, <3>1, <3>4 DEF Undisturbed
            <4> QED
                BY <3>1, <3>4, <4>1 DEF Undisturbed
    <2>6. CASE InsertCrash(r)
        <3>1. file[Name[r]] = r /\ report[r] \in {r, Failed}
            BY <1>5, <2>6 DEF InsertCrash, Undisturbed
        <3>2. \A row \in rows' : row \in rows \/ row.report \in {r, Failed}
            BY <2>6, <3>1 DEF InsertCrash
        <3> QED
            BY <1>5, <2>6, <3>1, <3>2 DEF InsertCrash, Undisturbed, TInv
    <2>7. CASE InsertFails(r)
        BY <1>5, <2>7 DEF InsertFails, Undisturbed, TInv
    <2>8. CASE SaveFails(r)
        <3>1. \A row \in rows : row.by # r
            BY <2>8 DEF SaveFails, OwnInv
        <3> QED
            BY <1>5, <2>8, <3>1 DEF SaveFails, Undisturbed, TInv
    <2> QED
        BY <2>1, <2>2, <2>3, <2>4, <2>5, <2>6, <2>7, <2>8 DEF Serve
<1>6. ASSUME NEW q \in Requests PROVE Shared(q)' \/ Undisturbed(q)'
    <2>1. CASE Shared(q)
        BY <1>2, <2>1
    <2>2. CASE Undisturbed(q) /\ q # r /\ Name[q] = Name[r]
        BY <1>3, <2>2 DEF Shared
    <2> QED
        BY <1>4, <1>5, <2>1, <2>2 DEF OwnInv
<1>7. \A q \in Requests : pc'[q] \in {"analyze", "insert"} => Kind[q] # "symbols"
    BY DEF Serve, Receive, OpenFile, WriteFile, SaveFails, Import, Discard, Analyze, InsertCrash, InsertFails, TInv, OwnInv
<1>8. \A q \in Requests : pc'[q] \in {"import", "discard"} => Kind[q] = "symbols"
    BY DEF Serve, Receive, OpenFile, WriteFile, SaveFails, Import, Discard, Analyze, InsertCrash, InsertFails, TInv, OwnInv
<1>9. \A row \in rows' : row.by \in Requests /\ row.dmp = Name[row.by] /\ pc'[row.by] = "done"
                         /\ Kind[row.by] # "symbols"
    <2>1. CASE InsertCrash(r)
        BY <2>1 DEF InsertCrash, OwnInv, TInv
    <2>2. CASE rows' = rows
        BY <2>2 DEF Serve, Receive, OpenFile, WriteFile, SaveFails, Import, Discard, Analyze, InsertCrash, InsertFails, TInv, OwnInv
    <2> QED
        BY <2>1, <2>2 DEF Serve, Receive, OpenFile, WriteFile, SaveFails, Import, Discard, Analyze, InsertFails
<1> QED
    BY <1>6, <1>7, <1>8, <1>9 DEF OwnInv

\* A row shows the dump of its own upload or a failed symbolication, the dump
\* stays on disk, and a symbol upload imports nobody else's archive, unless
\* another request came with the same file name (upload_crash keeps the name
\* its client gave).
THEOREM UploadsOwnUnlessNameShared == Spec => []OwnUnlessNameShared
<1>1. TInv /\ OwnInv /\ [Next]_vars => OwnInv'
    <2> SUFFICES ASSUME TInv, OwnInv, [Next]_vars PROVE OwnInv'
        OBVIOUS
    <2>1. ASSUME UNCHANGED <<pc, file, writing, report>>, rows' \subseteq rows PROVE OwnInv'
        BY <2>1 DEF OwnInv, Shared, Undisturbed
    <2>2. CASE Tick \/ crashes \/ UNCHANGED vars
        BY <2>1, <2>2 DEF Tick, crashes, vars
    <2>3. ASSUME NEW id \in 1..lastId, DeleteCrash(id) PROVE OwnInv'
        BY <2>1, <2>3 DEF DeleteCrash
    <2> QED
        BY <2>2, <2>3, ServeOwn DEF Next
<1>2. OwnInv => OwnUnlessNameShared
    BY DEF OwnInv, OwnUnlessNameShared, Shared, Undisturbed
<1> QED
    BY InitTInv, StepTInv, InitOwn, <1>1, <1>2, PTL DEF Spec

--------------------------------------------------------------------------------
(* What the pages miss *)

\* Of a table R: the rows that come before a time, and the times of the rows
\* whose ids are in u that are among the first n.
Above(R, t) == {x \in R : x.ts > t}
Early(R, u, n) == {x \in R : x.id \in u /\ Cardinality(Above(R, x.ts)) < n}
Passed(R, u, n) == {x.ts : x \in Early(R, u, n)}

\* They are finite.
LEMMA PassedFinite ==
    ASSUME NEW R, IsFiniteSet(R), NEW u, NEW n
    PROVE  /\ IsFiniteSet(Passed(R, u, n)) /\ Cardinality(Passed(R, u, n)) \in Nat
           /\ \A t : IsFiniteSet(Above(R, t)) /\ Cardinality(Above(R, t)) \in Nat
<1>1. IsFiniteSet(Early(R, u, n))
    BY FS_Subset DEF Early
<1>2. [x \in Early(R, u, n) |-> x.ts] \in Surjection(Early(R, u, n), Passed(R, u, n))
    BY DEF Surjection, Passed
<1>3. IsFiniteSet(Passed(R, u, n))
    BY <1>1, <1>2, FS_Surjection
<1>4. ASSUME NEW t PROVE IsFiniteSet(Above(R, t))
    BY FS_Subset DEF Above
<1> QED
    BY <1>3, <1>4, FS_CardinalityType

\* A new row moves others towards later pages only.
LEMMA PassedInsert ==
    ASSUME NEW R, IsFiniteSet(R), NEW new, NEW u, new.id \notin u, NEW n \in Nat
    PROVE  Cardinality(Passed(R \cup {new}, u, n)) <= Cardinality(Passed(R, u, n))
<1>1. IsFiniteSet(R \cup {new})
    BY FS_AddElement
<1>2. ASSUME NEW t PROVE Cardinality(Above(R, t)) <= Cardinality(Above(R \cup {new}, t))
    <2>1. Above(R, t) \subseteq Above(R \cup {new}, t)
        BY DEF Above
    <2>2. IsFiniteSet(Above(R \cup {new}, t))
        BY <1>1, PassedFinite
    <2> QED
        BY <2>1, <2>2, FS_Subset
<1>3. ASSUME NEW x \in Early(R \cup {new}, u, n) PROVE x \in Early(R, u, n)
    <2>1. x \in R /\ x.id \in u /\ Cardinality(Above(R \cup {new}, x.ts)) < n
        BY <1>3 DEF Early
    <2>2. /\ Cardinality(Above(R, x.ts)) <= Cardinality(Above(R \cup {new}, x.ts))
          /\ Cardinality(Above(R, x.ts)) \in Nat /\ Cardinality(Above(R \cup {new}, x.ts)) \in Nat
        BY <1>1, <1>2, PassedFinite
    <2>3. Cardinality(Above(R, x.ts)) < n
        BY <2>1, <2>2
    <2> QED
        BY <2>1, <2>3 DEF Early
<1>4. Passed(R \cup {new}, u, n) \subseteq Passed(R, u, n)
    BY <1>3 DEF Passed
<1>5. IsFiniteSet(Passed(R, u, n))
    BY PassedFinite
<1> QED
    BY <1>4, <1>5, FS_Subset

\* Rows of different times have different numbers of rows before them.
LEMMA AboveStrict ==
    ASSUME NEW R, IsFiniteSet(R), \A x \in R : x.ts \in Nat,
           NEW x \in R, NEW y \in R, x.ts < y.ts
    PROVE  Cardinality(Above(R, y.ts)) < Cardinality(Above(R, x.ts))
<1>1. Above(R, y.ts) \cup {y} \subseteq Above(R, x.ts) /\ y \notin Above(R, y.ts)
    BY DEF Above
<1>2. /\ IsFiniteSet(Above(R, y.ts)) /\ Cardinality(Above(R, y.ts)) \in Nat
      /\ IsFiniteSet(Above(R, x.ts)) /\ Cardinality(Above(R, x.ts)) \in Nat
    BY PassedFinite
<1>3. Cardinality(Above(R, y.ts) \cup {y}) = Cardinality(Above(R, y.ts)) + 1
    BY <1>1, <1>2, FS_AddElement
<1>4. Cardinality(Above(R, y.ts) \cup {y}) <= Cardinality(Above(R, x.ts))
    BY <1>1, <1>2, FS_Subset
<1> QED
    BY <1>2, <1>3, <1>4

\* A deletion moves the rows of one time at most to a page that was read.
LEMMA PassedDelete ==
    ASSUME NEW R, IsFiniteSet(R), \A x \in R : x.ts \in Nat, NEW d \in R, NEW u, NEW n \in Nat
    PROVE  Cardinality(Passed(R \ {d}, u \ {d.id}, n)) <= Cardinality(Passed(R, u, n)) + 1
<1> DEFINE Q == R \ {d}
           v == u \ {d.id}
<1>1. IsFiniteSet(Q)
    BY FS_RemoveElement
<1>2. ASSUME NEW t PROVE Cardinality(Above(R, t)) <= Cardinality(Above(Q, t)) + 1
    <2>1. Above(Q, t) = Above(R, t) \ {d}
        BY DEF Above
    <2>2. IsFiniteSet(Above(R, t)) /\ Cardinality(Above(R, t)) \in Nat
        BY PassedFinite
    <2>3. CASE d \in Above(R, t)
        <3>1. Cardinality(Above(R, t) \ {d}) = Cardinality(Above(R, t)) - 1
            BY <2>2, <2>3, FS_RemoveElement
        <3>2. Cardinality(Above(Q, t)) = Cardinality(Above(R, t)) - 1
            BY <2>1, <3>1
        <3> HIDE DEF Q
        <3> QED
            BY <2>2, <3>2
    <2>4. CASE d \notin Above(R, t)
        <3>1. Above(Q, t) = Above(R, t)
            BY <2>1, <2>4
        <3> QED
            BY <2>2, <3>1
    <2> QED
        BY <2>3, <2>4
<1> HIDE DEF Q, v
<1>3. ASSUME NEW x \in Early(Q, v, n)
      PROVE  x \in R /\ x.id \in u /\ Cardinality(Above(R, x.ts)) <= n
    <2>1. x \in R /\ x.id \in u /\ Cardinality(Above(Q, x.ts)) < n
        BY <1>3 DEF Early, Q, v
    <2>2. /\ Cardinality(Above(R, x.ts)) <= Cardinality(Above(Q, x.ts)) + 1
          /\ Cardinality(Above(R, x.ts)) \in Nat /\ Cardinality(Above(Q, x.ts)) \in Nat
        BY <1>1, <1>2, PassedFinite
    <2> QED
        BY <2>1, <2>2
<1>4. ASSUME NEW x \in Early(Q, v, n), NEW y \in Early(Q, v, n),
             x.ts \notin Passed(R, u, n), y.ts \notin Passed(R, u, n)
      PROVE  x.ts = y.ts
    <2>1. ASSUME NEW z \in Early(Q, v, n), z.ts \notin Passed(R, u, n)
          PROVE  z \in R /\ z.ts \in Nat /\ Cardinality(Above(R, z.ts)) = n
        <3>1. z \in R /\ z.id \in u /\ Cardinality(Above(R, z.ts)) <= n
            BY <1>3
        <3>2. ~(Cardinality(Above(R, z.ts)) < n)
            BY <2>1, <3>1 DEF Passed, Early
        <3>3. Cardinality(Above(R, z.ts)) \in Nat
            BY PassedFinite
        <3> QED
            BY <3>1, <3>2, <3>3
    <2>2. x \in R /\ x.ts \in Nat /\ Cardinality(Above(R, x.ts)) = n
          /\ y \in R /\ y.ts \in Nat /\ Cardinality(Above(R, y.ts)) = n
        BY <1>4, <2>1
    <2>3. ~(x.ts < y.ts) /\ ~(y.ts < x.ts)
        BY <2>2, AboveStrict
    <2> QED
        BY <2>2, <2>3
<1>5. \E t : Passed(Q, v, n) \subseteq Passed(R, u, n) \cup {t}
    <2>1. CASE \A x \in Early(Q, v, n) : x.ts \in Passed(R, u, n)
        BY <2>1 DEF Passed
    <2>2. CASE \E x \in Early(Q, v, n) : x.ts \notin Passed(R, u, n)
        <3>1. PICK x \in Early(Q, v, n) : x.ts \notin Passed(R, u, n)
            BY <2>2
        <3>2. \A y \in Early(Q, v, n) : y.ts \in Passed(R, u, n) \cup {x.ts}
            BY <1>4, <3>1
        <3>3. Passed(Q, v, n) \subseteq Passed(R, u, n) \cup {x.ts}
            BY <3>2 DEF Passed
        <3> QED
            BY <3>3
    <2> QED
        BY <2>1, <2>2
<1>6. IsFiniteSet(Passed(R, u, n)) /\ Cardinality(Passed(R, u, n)) \in Nat
      /\ Cardinality(Passed(Q, v, n)) \in Nat
    BY <1>1, PassedFinite
<1>7. PICK t : Passed(Q, v, n) \subseteq Passed(R, u, n) \cup {t}
    BY <1>5
<1>8. /\ IsFiniteSet(Passed(R, u, n) \cup {t})
      /\ Cardinality(Passed(R, u, n) \cup {t}) <= Cardinality(Passed(R, u, n)) + 1
      /\ Cardinality(Passed(R, u, n) \cup {t}) \in Nat
    <2> DEFINE P == Passed(R, u, n)
    <2> HIDE DEF P
    <2>1. IsFiniteSet(P) /\ Cardinality(P) \in Nat
        BY <1>6 DEF P
    <2>2. IsFiniteSet(P \cup {t})
          /\ Cardinality(P \cup {t}) = IF t \in P THEN Cardinality(P) ELSE Cardinality(P) + 1
        BY <2>1, FS_AddElement
    <2>3. Cardinality(P \cup {t}) \in Nat /\ Cardinality(P \cup {t}) <= Cardinality(P) + 1
        BY <2>1, <2>2
    <2> QED
        BY <2>2, <2>3 DEF P
<1>9. Cardinality(Passed(Q, v, n)) <= Cardinality(Passed(R, u, n) \cup {t})
    BY <1>7, <1>8, FS_Subset
<1> QED
    BY <1>6, <1>8, <1>9 DEF Q, v

\* An order of the table by time lists every row, and a row that shares its time
\* with no other after those before it.
LEMMA OrderPosition ==
    ASSUME NEW R, IsFiniteSet(R), \A x \in R : x.ts \in Nat, NEW s \in [1..Cardinality(R) -> R],
           \A i, j \in DOMAIN s : i < j => s[i] # s[j] /\ s[i].ts >= s[j].ts
    PROVE  /\ \A x \in R : \E k \in 1..Cardinality(R) : s[k] = x
           /\ \A k \in 1..Cardinality(R) :
                 (\A x \in R : x.ts = s[k].ts => x = s[k]) => Cardinality(Above(R, s[k].ts)) = k - 1
<1> DEFINE n == Cardinality(R)
<1>1. n \in Nat /\ IsFiniteSet(1..n) /\ Cardinality(1..n) = n
    BY FS_CardinalityType, FS_Interval
<1> HIDE DEF n
<1>2. s \in [1..n -> R] /\ \A i, j \in 1..n : i < j => s[i] # s[j] /\ s[i].ts >= s[j].ts
    BY DEF n
<1>3. \A i, j \in 1..n : s[i] = s[j] => i = j
    BY <1>1, <1>2
<1>4. s \in Injection(1..n, R)
    BY <1>2, <1>3 DEF Injection, IsInjective
<1>5. s \in Surjection(1..n, R)
    BY <1>1, <1>4, FS_Injection DEF n
<1>6. \A x \in R : \E k \in 1..n : s[k] = x
    BY <1>5 DEF Surjection
<1>7. ASSUME NEW k \in 1..n, \A x \in R : x.ts = s[k].ts => x = s[k]
      PROVE  Cardinality(Above(R, s[k].ts)) = k - 1
    <2> DEFINE A == Above(R, s[k].ts)
               f == [i \in 1..(k - 1) |-> s[i]]
    <2>1. k \in Nat /\ k - 1 \in Nat /\ 1..(k - 1) \subseteq 1..n
        BY <1>1
    <2>2. ASSUME NEW i \in 1..(k - 1) PROVE s[i] \in A
        <3>1. i \in 1..n /\ i < k
            BY <1>1
        <3>2. s[i] \in R /\ s[i] # s[k] /\ s[i].ts >= s[k].ts /\ s[i].ts \in Nat /\ s[k].ts \in Nat
            BY <1>2, <3>1
        <3>3. s[i].ts > s[k].ts
            BY <1>7, <3>2
        <3> QED
            BY <3>2, <3>3 DEF Above
    <2>3. ASSUME NEW x \in A PROVE \E i \in 1..(k - 1) : s[i] = x
        <3>1. x \in R /\ x.ts > s[k].ts
            BY <2>3 DEF Above
        <3>2. PICK i \in 1..n : s[i] = x
            BY <1>6, <3>1
        <3>3. x.ts \in Nat /\ s[k].ts \in Nat
            BY <1>2, <3>1
        <3>4. ~(k < i) /\ i # k
            BY <1>2, <3>1, <3>2, <3>3
        <3>5. i \in 1..(k - 1)
            BY <1>1, <2>1, <3>4
        <3> QED
            BY <3>2, <3>5
    <2> HIDE DEF A
    <2>4. f \in Injection(1..(k - 1), A) /\ f \in Surjection(1..(k - 1), A)
        BY <1>3, <2>1, <2>2, <2>3 DEF Injection, IsInjective, Surjection
    <2>5. ExistsBijection(1..(k - 1), A)
        BY <2>4 DEF ExistsBijection, Bijection
    <2> QED
        BY <2>1, <2>5, FS_CountingElements DEF A
<1> QED
    BY <1>6, <1>7 DEF n

\* A page shows the rows of its places, and the last page is the last.
LEMMA PageShows ==
    ASSUME IsFiniteSet(rows), NEW order \in Orders, NEW offset \in Nat
    PROVE  LET found == get_crashes(order, Limit, offset)
               shown == SubSeq(found, 1, IF Len(found) < per_page THEN Len(found) ELSE per_page)
           IN  /\ \A k \in 1..Cardinality(rows) :
                     offset < k /\ k <= offset + per_page => \E i \in DOMAIN shown : shown[i] = order[k]
               /\ Len(found) <= per_page => Cardinality(rows) <= offset + per_page
<1> DEFINE n == Cardinality(rows)
           m == IF offset + Limit < n THEN offset + Limit ELSE n
           found == get_crashes(order, Limit, offset)
           l == IF Len(found) < per_page THEN Len(found) ELSE per_page
           shown == SubSeq(found, 1, l)
<1>1. n \in Nat /\ per_page \in Nat \ {0} /\ Limit = per_page + 1 /\ m \in Nat /\ m <= n
    BY FS_CardinalityType, UploadsAssumption DEF Limit
<1>2. order \in [1..n -> rows]
    BY DEF Orders
<1>3. order \in Seq(rows) /\ Len(order) = n
    BY <1>1, <1>2
<1>4. found = SubSeq(order, offset + 1, m)
    BY <1>3 DEF get_crashes
<1> HIDE DEF n, found
<1>5. (m = offset + per_page + 1 /\ m <= n) \/ (m = n /\ n <= offset + per_page + 1)
    BY <1>1
<1> HIDE DEF m
<1>6. /\ found \in Seq(rows)
      /\ Len(found) = IF offset + 1 <= m THEN m - (offset + 1) + 1 ELSE 0
      /\ \A i \in 1..(m - (offset + 1) + 1) : found[i] = order[offset + 1 + i - 1]
    <2>1. \A i \in (offset + 1)..m : order[i] \in rows
        BY <1>1, <1>2
    <2>2. offset + 1 \in Int /\ m \in Int
        BY <1>1
    <2> QED
        BY <1>4, <2>1, <2>2, SubSeqProperties
<1>7. Len(found) \in Nat /\ l \in Nat /\ l <= Len(found) /\ l <= per_page
      /\ (l = Len(found) \/ l = per_page)
    BY <1>1, <1>6
<1> HIDE DEF l
<1>8. /\ shown \in Seq(rows) /\ Len(shown) = l
      /\ \A i \in 1..l : shown[i] = found[i]
    <2>1. \A i \in 1..l : found[i] \in rows
        BY <1>6, <1>7
    <2>2. /\ shown \in Seq(rows) /\ Len(shown) = IF 1 <= l THEN l - 1 + 1 ELSE 0
          /\ \A i \in 1..(l - 1 + 1) : shown[i] = found[1 + i - 1]
        BY <1>7, <2>1, SubSeqProperties
    <2> QED
        BY <1>7, <2>2
<1>9. ASSUME NEW k \in 1..n, offset < k, k <= offset + per_page
      PROVE  \E i \in DOMAIN shown : shown[i] = order[k]
    <2>1. k <= m
        BY <1>1, <1>5, <1>9
    <2>2. Len(found) = m - offset
        BY <1>1, <1>6, <1>9, <2>1
    <2>3. k - offset \in 1..l /\ k - offset \in 1..(m - (offset + 1) + 1)
        BY <1>1, <1>7, <1>9, <2>1, <2>2
    <2>4. found[k - offset] = order[offset + 1 + (k - offset) - 1]
        BY <1>6, <2>3
    <2>5. offset + 1 + (k - offset) - 1 = k
        BY <1>1
    <2>6. shown[k - offset] = order[k]
        BY <1>8, <2>3, <2>4, <2>5
    <2>7. DOMAIN shown = 1..l
        BY <1>8
    <2> QED
        BY <2>3, <2>6, <2>7
<1>10. ASSUME Len(found) <= per_page PROVE n <= offset + per_page
    BY <1>1, <1>5, <1>6, <1>10
<1> QED
    BY <1>9, <1>10 DEF n, found, l

\* Of the rows that the reader has still to see, those that moved to a page
\* already read have at most as many times as there were deletions.
PageInv ==
    /\ clock \in Nat /\ ts \in [Requests -> Nat]
    /\ IsFiniteSet(rows) /\ \A row \in rows : row.ts \in Nat
    /\ walk.page = 0 => walk.has_next
    /\ Walking => /\ walk.unseen \subseteq {row.id : row \in rows}
                  /\ Cardinality(Passed(rows, walk.unseen, walk.page * per_page)) <= walk.deleted
    /\ PagesMissNothing

\* The list has not been opened.
LEMMA InitPages == Init => PageInv
<1> SUFFICES ASSUME Init PROVE PageInv
    OBVIOUS
<1>1. IsFiniteSet({})
    BY FS_EmptySet
<1> QED
    BY <1>1 DEF Init, PageInv, Walking, PagesMissNothing

\* What a page leaves unseen: rows of untied times, which are not on it.
LEMMA PageLeaves ==
    ASSUME TInv, PageInv, NEW order \in Orders, NEW offset \in Nat, NEW there,
           there \subseteq {row.id : row \in rows}
    PROVE  LET found == get_crashes(order, Limit, offset)
               shown == SubSeq(found, 1, IF Len(found) < per_page THEN Len(found) ELSE per_page)
               left == (there \ {shown[i].id : i \in DOMAIN shown}) \ Tied
           IN  /\ Cardinality(Passed(rows, left, offset + per_page)) <= Cardinality(Passed(rows, there, offset))
               /\ Len(found) <= per_page => Cardinality(left) <= Cardinality(Passed(rows, there, offset))
<1> DEFINE found == get_crashes(order, Limit, offset)
           shown == SubSeq(found, 1, IF Len(found) < per_page THEN Len(found) ELSE per_page)
           left == (there \ {shown[i].id : i \in DOMAIN shown}) \ Tied
           n == Cardinality(rows)
           place(x) == Cardinality(Above(rows, x.ts))
<1>1. /\ IsFiniteSet(rows) /\ \A x \in rows : x.ts \in Nat
      /\ \A x, y \in rows : x.id = y.id => x = y
    BY DEF PageInv, TInv
<1>2. n \in Nat /\ per_page \in Nat
    BY <1>1, FS_CardinalityType, UploadsAssumption
<1>3. /\ \A k \in 1..n : offset < k /\ k <= offset + per_page => \E i \in DOMAIN shown : shown[i] = order[k]
      /\ Len(found) <= per_page => n <= offset + per_page
    BY <1>1, PageShows
<1>4. /\ \A x \in rows : \E k \in 1..n : order[k] = x
      /\ \A k \in 1..n : (\A x \in rows : x.ts = order[k].ts => x = order[k]) => place(order[k]) = k - 1
    <2>1. order \in [1..n -> rows] /\ \A i, j \in DOMAIN order : i < j => order[i] # order[j] /\ order[i].ts >= order[j].ts
        BY DEF Orders
    <2> QED
        BY <1>1, <2>1, OrderPosition, ZenonT(40)
<1>5. ASSUME NEW x \in rows, x.id \in left
      PROVE  /\ \A y \in rows : y.ts = x.ts => y = x
             /\ \E k \in 1..n : order[k] = x /\ place(x) = k - 1 /\ ~(offset < k /\ k <= offset + per_page)
    <2>1. \A y \in rows : y.ts = x.ts => y = x
        BY <1>5 DEF Tied
    <2>2. PICK k \in 1..n : order[k] = x
        BY <1>4
    <2>3. place(x) = k - 1
        BY <1>4, <2>1, <2>2
    <2>4. ~\E i \in DOMAIN shown : shown[i] = x
        BY <1>5
    <2> QED
        BY <1>3, <2>1, <2>2, <2>3, <2>4
<1>6. left \subseteq there
    OBVIOUS
<1> HIDE DEF left, found, n
<1>7. ASSUME NEW x \in rows, x.id \in left, place(x) < offset + per_page \/ Len(found) <= per_page
      PROVE  x \in Early(rows, there, offset)
    <2>1. PICK k \in 1..n : order[k] = x /\ place(x) = k - 1 /\ ~(offset < k /\ k <= offset + per_page)
        BY <1>5, <1>7
    <2>2. k - 1 < offset + per_page
        BY <1>2, <1>3, <1>7, <2>1
    <2>3. place(x) < offset
        BY <1>2, <2>1, <2>2
    <2> QED
        BY <1>6, <1>7, <2>3 DEF Early
<1>8. IsFiniteSet(Passed(rows, there, offset))
    BY <1>1, PassedFinite
<1>9. Passed(rows, left, offset + per_page) \subseteq Passed(rows, there, offset)
    BY <1>7 DEF Passed, Early
<1>10. ASSUME Len(found) <= per_page
       PROVE  Cardinality(left) <= Cardinality(Passed(rows, there, offset))
    <2> DEFINE rowOf(id) == CHOOSE x \in rows : x.id = id
               f == [id \in left |-> rowOf(id).ts]
    <2>1. ASSUME NEW id \in left PROVE rowOf(id) \in rows /\ rowOf(id).id = id
        BY <1>6
    <2>2. ASSUME NEW id \in left PROVE rowOf(id).ts \in Passed(rows, there, offset)
        BY <1>7, <1>10, <2>1 DEF Passed
    <2>3. ASSUME NEW a \in left, NEW b \in left, rowOf(a).ts = rowOf(b).ts PROVE a = b
        BY <1>5, <2>1, <2>3
    <2> HIDE DEF rowOf
    <2>4. f \in Injection(left, Passed(rows, there, offset))
        BY <2>2, <2>3 DEF Injection, IsInjective
    <2> QED
        BY <1>8, <2>4, FS_Injection
<1> QED
    BY <1>8, <1>9, <1>10, FS_Subset DEF left, found

\* The next page is read: what it leaves has no more times on the pages read
\* than there were before.
LEMMA WalkPages == ASSUME TInv, PageInv, crashes PROVE PageInv'
<1> DEFINE offset == walk.page * per_page
           there == IF walk.page = 0 THEN {row.id : row \in rows} ELSE walk.unseen
<1>1. PICK order \in Orders :
          LET found == get_crashes(order, Limit, offset)
              shown == SubSeq(found, 1, IF Len(found) < per_page THEN Len(found) ELSE per_page)
          IN walk' = [walk EXCEPT !.page = walk.page + 1, !.has_next = Len(found) > per_page,
                          !.unseen = (there \ {shown[i].id : i \in DOMAIN shown}) \ Tied]
    BY Zenon DEF crashes
<1> DEFINE found == get_crashes(order, Limit, offset)
           shown == SubSeq(found, 1, IF Len(found) < per_page THEN Len(found) ELSE per_page)
           left == (there \ {shown[i].id : i \in DOMAIN shown}) \ Tied
<1>2. /\ walk.page \in Nat /\ walk.deleted \in Nat /\ per_page \in Nat \ {0}
      /\ walk \in [page : Nat, has_next : BOOLEAN, unseen : SUBSET (1..lastId), deleted : Nat]
    BY UploadsAssumption DEF TInv
<1>3. offset \in Nat /\ (walk.page + 1) * per_page = offset + per_page
    BY <1>2
<1>4. there \subseteq {row.id : row \in rows}
    BY <1>2 DEF crashes, PageInv, Walking
<1>5. Cardinality(Passed(rows, there, offset)) <= walk.deleted
    <2>1. CASE walk.page = 0
        <3>1. offset = 0
            BY <1>2, <2>1
        <3>2. \A x \in rows : Cardinality(Above(rows, x.ts)) \in Nat
            BY PassedFinite DEF PageInv
        <3>3. Early(rows, there, offset) = {}
            BY <3>1, <3>2 DEF Early
        <3>4. Passed(rows, there, offset) = {}
            BY <3>3 DEF Passed
        <3>5. Cardinality(Passed(rows, there, offset)) = 0
            BY <3>4, FS_EmptySet
        <3> QED
            BY <1>2, <3>5
    <2>2. CASE walk.page # 0
        BY <1>2, <2>2 DEF crashes, PageInv, Walking
    <2> QED
        BY <2>1, <2>2
<1>6. left \subseteq there
    OBVIOUS
<1> HIDE DEF offset, there
<1>7. /\ Cardinality(Passed(rows, left, offset + per_page)) <= Cardinality(Passed(rows, there, offset))
      /\ Len(found) <= per_page => Cardinality(left) <= Cardinality(Passed(rows, there, offset))
    BY <1>3, <1>4, PageLeaves
<1>8. Len(found) \in Nat
    <2>1. order \in [1..Cardinality(rows) -> rows] /\ Cardinality(rows) \in Nat
        BY FS_CardinalityType DEF Orders, PageInv
    <2>2. order \in Seq(rows) /\ Len(order) = Cardinality(rows)
        BY <2>1
    <2> DEFINE m == IF offset + Limit < Len(order) THEN offset + Limit ELSE Len(order)
    <2>3. m \in Int /\ offset + 1 \in Int /\ \A i \in (offset + 1)..m : order[i] \in rows
        BY <1>2, <1>3, <2>1, <2>2 DEF Limit
    <2>4. found = SubSeq(order, offset + 1, m)
        BY DEF get_crashes
    <2> HIDE DEF m
    <2>5. SubSeq(order, offset + 1, m) \in Seq(rows)
        BY <2>3, SubSeqProperties
    <2> QED
        BY <2>4, <2>5
<1>9. /\ walk'.page = walk.page + 1 /\ walk'.has_next = (Len(found) > per_page)
      /\ walk'.unseen = left /\ walk'.deleted = walk.deleted
    <2> HIDE DEF found, left
    <2>1. walk' = [walk EXCEPT !.page = walk.page + 1, !.has_next = Len(found) > per_page, !.unseen = left]
        BY <1>1 DEF found, left
    <2> QED
        BY <1>2, <2>1
<1> HIDE DEF found, left
<1>10. IsFiniteSet(Passed(rows, left, offset + per_page))
       /\ Cardinality(Passed(rows, left, offset + per_page)) \in Nat
       /\ Cardinality(Passed(rows, there, offset)) \in Nat
    BY PassedFinite DEF PageInv
<1>11. UNCHANGED <<rows, clock, ts>>
    BY DEF crashes
<1>12. Cardinality(Passed(rows', walk'.unseen, walk'.page * per_page)) <= walk'.deleted
    BY <1>2, <1>3, <1>5, <1>7, <1>9, <1>10, <1>11
<1>13. walk'.unseen \subseteq {row.id : row \in rows'}
    BY <1>4, <1>6, <1>9, <1>11
<1>14. walk'.page # 0
    BY <1>2, <1>9
<1>15. PagesMissNothing'
    <2>1. ASSUME Len(found) <= per_page PROVE Cardinality(left) <= walk.deleted
        <3>1. left \subseteq there /\ Cardinality(left) <= Cardinality(Passed(rows, there, offset))
            BY <1>6, <1>7, <2>1
        <3>2. IsFiniteSet(left)
            <4>1. IsFiniteSet(1..lastId)
                BY FS_Interval DEF TInv
            <4>2. {row.id : row \in rows} \subseteq 1..lastId
                BY DEF TInv
            <4> QED
                BY <1>4, <3>1, <4>1, <4>2, FS_Subset
        <3>3. Cardinality(left) \in Nat
            BY <3>2, FS_CardinalityType
        <3> QED
            BY <1>2, <1>5, <1>10, <3>1, <3>3
    <2>2. ~walk'.has_next => ~(Len(found) > per_page)
        BY <1>9
    <2>3. ~walk'.has_next => Len(found) <= per_page
        BY <1>2, <1>8, <2>2
    <2>4. ~walk'.has_next => Cardinality(walk'.unseen) <= walk'.deleted
        BY <1>9, <2>1, <2>3
    <2> QED
        BY <2>4 DEF PagesMissNothing
<1> QED
    BY <1>11, <1>12, <1>13, <1>14, <1>15 DEF PageInv

\* A crash is inserted: rows move to later pages only.
LEMMA InsertPages == ASSUME NEW r \in Requests, TInv, PageInv, InsertCrash(r) PROVE PageInv'
<1> DEFINE new == [id |-> NextId, by |-> r, ts |-> ts[r], report |-> report[r],
                   signature |-> SignatureOf(report[r]), dmp |-> PathOf(r)]
           N == walk.page * per_page
<1>1. rows' = rows \cup {new} /\ UNCHANGED <<walk, clock, ts>>
    BY DEF InsertCrash
<1>2. new.ts \in Nat /\ new.id \notin walk.unseen
    BY DEF NextId, PageInv, TInv
<1>3. N \in Nat
    BY UploadsAssumption DEF TInv
<1> HIDE DEF new, N
<1>4. IsFiniteSet(rows') /\ \A row \in rows' : row.ts \in Nat
    BY <1>1, <1>2, FS_AddElement DEF PageInv
<1>5. ASSUME Walking PROVE Cardinality(Passed(rows', walk.unseen, N)) <= walk.deleted
    <2>1. Cardinality(Passed(rows', walk.unseen, N)) <= Cardinality(Passed(rows, walk.unseen, N))
        BY <1>1, <1>2, <1>3, PassedInsert DEF PageInv
    <2>2. Cardinality(Passed(rows', walk.unseen, N)) \in Nat
          /\ Cardinality(Passed(rows, walk.unseen, N)) \in Nat /\ walk.deleted \in Nat
        BY <1>4, PassedFinite DEF PageInv, TInv
    <2> QED
        BY <1>5, <2>1, <2>2 DEF PageInv, N
<1> QED
    BY <1>1, <1>4, <1>5 DEF PageInv, Walking, PagesMissNothing, N

\* A crash is deleted: at most one time moves to a page that was read, and one
\* deletion is counted.
LEMMA DeletePages == ASSUME NEW id \in 1..lastId, TInv, PageInv, DeleteCrash(id) PROVE PageInv'
<1> DEFINE N == walk.page * per_page
<1>1. PICK d \in rows : d.id = id
    BY DEF DeleteCrash
<1>2. rows' = rows \ {d} /\ UNCHANGED <<clock, ts>>
    BY <1>1 DEF DeleteCrash, TInv
<1>3. N \in Nat /\ walk.deleted \in Nat
    BY UploadsAssumption DEF TInv
<1> HIDE DEF N
<1>4. IsFiniteSet(rows') /\ \A row \in rows' : row.ts \in Nat
    BY <1>2, FS_RemoveElement DEF PageInv
<1>5. CASE ~Walking
    <2>1. walk' = walk
        BY <1>5 DEF DeleteCrash
    <2> QED
        BY <1>2, <1>4, <1>5, <2>1 DEF PageInv, Walking, PagesMissNothing
<1>6. CASE Walking
    <2>1. walk' = [walk EXCEPT !.unseen = walk.unseen \ {id}, !.deleted = walk.deleted + 1]
        BY <1>6 DEF DeleteCrash
    <2>2. /\ walk'.page = walk.page /\ walk'.has_next = walk.has_next
          /\ walk'.unseen = walk.unseen \ {id} /\ walk'.deleted = walk.deleted + 1
        BY <2>1 DEF TInv
    <2>3. Cardinality(Passed(rows', walk'.unseen, N)) <= Cardinality(Passed(rows, walk.unseen, N)) + 1
        BY <1>1, <1>2, <1>3, <2>2, PassedDelete DEF PageInv
    <2>4. Cardinality(Passed(rows', walk'.unseen, N)) \in Nat
          /\ Cardinality(Passed(rows, walk.unseen, N)) \in Nat
        BY <1>4, PassedFinite DEF PageInv
    <2>5. Cardinality(Passed(rows, walk.unseen, N)) <= walk.deleted
        BY <1>6 DEF PageInv, N
    <2>6. Cardinality(Passed(rows', walk'.unseen, N)) <= walk'.deleted
        BY <1>3, <2>2, <2>3, <2>4, <2>5
    <2>7. walk'.unseen \subseteq {row.id : row \in rows'}
        BY <1>1, <1>2, <1>6, <2>2 DEF PageInv
    <2> QED
        BY <1>2, <1>4, <1>6, <2>2, <2>6, <2>7 DEF PageInv, Walking, PagesMissNothing, N
<1> QED
    BY <1>5, <1>6

\* The links from page to page (crashes, get_crashes) miss no more crashes than
\* were deleted under the reader.
THEOREM UploadsPagesMissNothing == Spec => []PagesMissNothing
<1>1. TInv /\ PageInv /\ [Next]_vars => PageInv'
    <2> SUFFICES ASSUME TInv, PageInv, [Next]_vars PROVE PageInv'
        OBVIOUS
    <2>1. ASSUME UNCHANGED <<rows, walk>>, clock' \in Nat, ts' \in [Requests -> Nat] PROVE PageInv'
        BY <2>1 DEF PageInv, Walking, PagesMissNothing
    <2>2. CASE Tick \/ UNCHANGED vars
        BY <2>1, <2>2 DEF Tick, vars, PageInv
    <2>3. ASSUME NEW r \in Requests, Serve(r), ~InsertCrash(r) PROVE PageInv'
        <3>1. UNCHANGED <<rows, walk, clock>> /\ ts' \in [Requests -> Nat]
            BY <2>3 DEF Serve, Receive, OpenFile, WriteFile, SaveFails, Import, Discard, Analyze, InsertFails, PageInv
        <3> QED
            BY <2>1, <3>1 DEF PageInv
    <2> QED
        BY <2>2, <2>3, InsertPages, DeletePages, WalkPages DEF Next
<1>2. PageInv => PagesMissNothing
    BY DEF PageInv
<1> QED
    BY InitTInv, StepTInv, InitPages, <1>1, <1>2, PTL DEF Spec
================================================================================
