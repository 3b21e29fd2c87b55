------------------------------ MODULE CrashUploads ------------------------------
(***************************************************************************)
(* The crash history of the web service (web/app.py, web/models.py): a     *)
(* minidump is saved in a directory of uploads under the name its client   *)
(* gave it, symbolicated by a subprocess, and recorded as a row of an      *)
(* SQLite table.  Requests are served by several workers at a time; uploads *)
(* of symbols put their file in the same directory and remove it.  Someone *)
(* follows the "next" links through the pages of the list meanwhile.       *)
(***************************************************************************)
EXTENDS Integers, Sequences, FiniteSets

CONSTANTS
    Requests,
    Name,        \* request -> secure_filename() of its file
    Kind,        \* request -> "form", "api" (a minidump) or "symbols"
    Signature,   \* request -> compute_signature() of the report of its dump
    NoFile,
    per_page,    \* crashes on a page
    MaxClock     \* bound of the clock, in seconds

Names == {Name[r] : r \in Requests}

ASSUME UploadsAssumption ==
    /\ Kind \in [Requests -> {"form", "api", "symbols"}]
    /\ NoFile \notin Requests /\ MaxClock \in Nat /\ per_page \in Nat \ {0}
    /\ {NoFile, "partial"} \cap Requests = {}

VARIABLES
    pc,       \* where each request is
    ts,       \* the time stamp it took
    file,     \* whose bytes each file of the upload directory has
    writing,  \* requests whose open file is the one their name leads to
    report,   \* whose dump the report of a request describes, whose archive or
              \* binary a symbol upload imported
    rows,     \* the table crashes
    lastId,   \* the largest id ever given
    answer,   \* the id a request answered with, or 0
    walk,     \* the reader: its page and has_next; observers: what it has not seen
              \* of the rows that were there when it began, but for those with a
              \* time another has as well, and how many rows went since
    clock

vars == <<pc, ts, file, writing, report, rows, lastId, answer, walk, clock>>

Failed == "failed"        \* the report of a failed symbolication or import

Init ==
    /\ pc = [r \in Requests |-> "idle"] /\ ts = [r \in Requests |-> 0]
    /\ file = [n \in Names |-> NoFile] /\ writing = {}
    /\ report = [r \in Requests |-> Failed]
    /\ rows = {} /\ lastId = 0
    /\ answer = [r \in Requests |-> 0]
    /\ walk = [page |-> 0, has_next |-> TRUE, unseen |-> {}, deleted |-> 0]
    /\ clock = 0

Goes(r, label) == pc' = [pc EXCEPT ![r] = label]

--------------------------------------------------------------------------------
\* upload_crash takes the time first, api_upload_crash after it saved the file.
Receive(r) ==
    /\ pc[r] = "idle"
    /\ Goes(r, "open")
    /\ ts' = IF Kind[r] = "form" THEN [ts EXCEPT ![r] = clock] ELSE ts
    /\ UNCHANGED <<file, writing, report, rows, lastId, answer, walk, clock>>

\* Mutant: every upload goes through one temporary name.
OneName(r) == CHOOSE n \in Names : TRUE
PathOf(r) == Name[r]

\* FileStorage.save() truncates what is there.
OpenFile(r) ==
    /\ pc[r] = "open"
    /\ file' = [file EXCEPT ![PathOf(r)] = "partial"]
    /\ writing' = writing \cup {r}
    /\ Goes(r, "write")
    /\ UNCHANGED <<ts, report, rows, lastId, answer, walk, clock>>

\* Over the bytes of another writer the file may become a mixture.
WriteFile(r) ==
    /\ pc[r] = "write"
    /\ IF r \in writing
       THEN \E bytes \in IF file[PathOf(r)] = "partial" THEN {r} ELSE {r, "partial"} :
               file' = [file EXCEPT ![PathOf(r)] = bytes]
       ELSE UNCHANGED file
    /\ writing' = writing \ {r}
    /\ ts' = IF Kind[r] = "api" THEN [ts EXCEPT ![r] = clock] ELSE ts
    /\ Goes(r, IF Kind[r] = "symbols" THEN "import" ELSE "analyze")
    /\ UNCHANGED <<report, rows, lastId, answer, walk, clock>>

\* The disk is full: what was written stays, and the request ends without a row.
SaveFails(r) ==
    /\ pc[r] = "write"
    /\ file' \in {file, IF r \in writing THEN [file EXCEPT ![PathOf(r)] = "partial"] ELSE file}
    /\ writing' = writing \ {r}
    /\ Goes(r, "done")
    /\ UNCHANGED <<ts, report, rows, lastId, answer, walk, clock>>

\* What is read by the name of a file: the bytes of a request that brought such a
\* file, or nothing; also because the tool is missing, fails or takes too long.
Readings(r, kinds) ==
    {Failed} \cup {q \in Requests : Kind[q] \in kinds /\ file[PathOf(r)] = q}

\* add_archive and add_binary (the store itself is SymbolStore).
Import(r) ==
    /\ pc[r] = "import"
    /\ \E reading \in Readings(r, {"symbols"}) : report' = [report EXCEPT ![r] = reading]
    /\ Goes(r, "discard")
    /\ UNCHANGED <<ts, file, writing, rows, lastId, answer, walk, clock>>

\* upload_symbols and api_upload_symbols unlink their file, whatever came of it.
Discard(r) ==
    /\ pc[r] = "discard"
    /\ file' = [file EXCEPT ![PathOf(r)] = NoFile]
    /\ writing' = {q \in writing : PathOf(q) # PathOf(r)}
    /\ Goes(r, "done")
    /\ UNCHANGED <<ts, report, rows, lastId, answer, walk, clock>>

\* The subprocess reads the file by its name; a RuntimeError becomes the report
\* "(symbolication failed)".
Analyze(r) ==
    /\ pc[r] = "analyze"
    /\ \E reading \in Readings(r, {"form", "api"}) : report' = [report EXCEPT ![r] = reading]
    /\ Goes(r, "insert")
    /\ UNCHANGED <<ts, file, writing, rows, lastId, answer, walk, clock>>

\* A report without frames has no signature.
SignatureOf(rep) == IF rep = Failed THEN "" ELSE Signature[rep]

Largest(S) == CHOOSE x \in S : \A y \in S : y <= x

\* Mutants: an id counted from the rows; INTEGER PRIMARY KEY without
\* AUTOINCREMENT, which gives the largest id in the table plus one.
CountPlusOne == Cardinality(rows) + 1
LargestPlusOne == IF rows = {} THEN 1 ELSE Largest({row.id : row \in rows}) + 1
NextId == lastId + 1

InsertCrash(r) ==
    /\ pc[r] = "insert"
    /\ rows' = rows \cup {[id |-> NextId, by |-> r, ts |-> ts[r], report |-> report[r],
                           signature |-> SignatureOf(report[r]), dmp |-> PathOf(r)]}
    /\ lastId' = NextId
    /\ answer' = [answer EXCEPT ![r] = NextId]
    /\ Goes(r, "done")
    /\ UNCHANGED <<ts, file, writing, report, walk, clock>>

\* The database stays locked longer than the connection waits.
InsertFails(r) ==
    /\ pc[r] = "insert"
    /\ Goes(r, "done")
    /\ UNCHANGED <<ts, file, writing, report, rows, lastId, answer, walk, clock>>

Walking == walk.page > 0 /\ walk.has_next

\* The row goes; its dump stays in the upload directory.
DeleteCrash(id) ==
    /\ rows' = {row \in rows : row.id # id}
    /\ rows' # rows
    /\ walk' = IF Walking THEN [walk EXCEPT !.unseen = @ \ {id}, !.deleted = @ + 1] ELSE walk
    /\ UNCHANGED <<pc, ts, file, writing, report, lastId, answer, clock>>

\* ORDER BY ts DESC, in any order among equal times.
Orders ==
    {s \in [1..Cardinality(rows) -> rows] :
        \A i, j \in DOMAIN s : i < j => s[i] # s[j] /\ s[i].ts >= s[j].ts}

get_crashes(order, limit, offset) ==
    SubSeq(order, offset + 1, IF offset + limit < Len(order) THEN offset + limit ELSE Len(order))

\* Mutant: the page alone is asked for, and there is never a next one.
PageAlone == per_page
Limit == per_page + 1

Tied == {row.id : row \in {x \in rows : \E other \in rows \ {x} : other.ts = x.ts}}

\* The list of crashes, page after page.
crashes ==
    /\ walk.has_next
    /\ \E order \in Orders :
          LET found == get_crashes(order, Limit, walk.page * per_page)
              there == IF walk.page = 0 THEN {row.id : row \in rows} ELSE walk.unseen
              shown == SubSeq(found, 1, IF Len(found) < per_page THEN Len(found) ELSE per_page)
          IN walk' = [walk EXCEPT !.page = @ + 1, !.has_next = Len(found) > per_page,
                          !.unseen = (there \ {shown[i].id : i \in DOMAIN shown}) \ Tied]
    /\ UNCHANGED <<pc, ts, file, writing, report, rows, lastId, answer, clock>>

Tick ==
    /\ clock < MaxClock
    /\ clock' = clock + 1
    /\ UNCHANGED <<pc, ts, file, writing, report, rows, lastId, answer, walk>>

Serve(r) == Receive(r) \/ OpenFile(r) \/ WriteFile(r) \/ SaveFails(r) \/ Import(r) \/ Discard(r)
                \/ Analyze(r) \/ InsertCrash(r) \/ InsertFails(r)

Next == Tick \/ crashes \/ (\E r \in Requests : Serve(r)) \/ \E id \in 1..lastId : DeleteCrash(id)

Spec == Init /\ [][Next]_vars

--------------------------------------------------------------------------------
(* Properties *)

\* Type invariant; the table's key is a key.
TypeOK ==
    /\ pc \in [Requests -> {"idle", "open", "write", "import", "discard", "analyze", "insert", "done"}]
    /\ file \in [Names -> Requests \cup {NoFile, "partial"}]
    /\ \A r \in writing : pc[r] = "write"
    /\ walk.unseen \subseteq 1..lastId
    /\ \A row, other \in rows : row.id = other.id => row = other

\* The link a client was given (the redirect of upload_crash, the crash_id of
\* api_upload_crash) shows its own crash or nothing, for ever: no later upload
\* takes the id of a deleted row.
AnswersStayOwn ==
    \A r \in Requests : \A row \in rows : row.id = answer[r] => row.by = r

Shared(r) == \E q \in Requests \ {r} : Name[q] = Name[r] /\ pc[q] # "idle"

\* A row shows the dump of its own upload or that its symbolication failed, never
\* the crash of another, and that dump stays on disk; a symbol upload imports its
\* own archive or nothing: unless another request used the same file name.
OwnUnlessNameShared ==
    /\ \A row \in rows :
           \/ row.report \in {row.by, Failed} /\ file[row.dmp] = row.by
           \/ Shared(row.by)
    /\ \A r \in Requests : Kind[r] = "symbols" => report[r] \in {r, Failed} \/ Shared(r)

\* Who follows the links to the last page has seen every crash that was there
\* from the first page to the last, whatever is uploaded meanwhile, but for as
\* many as were deleted meanwhile (each moves one row from the next page to a
\* page already read), and for rows with the same time, whose order SQLite may
\* choose anew for every page.
PagesMissNothing ==
    walk.page > 0 /\ ~walk.has_next => Cardinality(walk.unseen) <= walk.deleted
================================================================================
