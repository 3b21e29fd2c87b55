------------------------------ MODULE Annotations ------------------------------
(***************************************************************************)
(* The annotations of a monitored process (lib/crashomon.cpp): its threads *)
(* write tags into Crashpad's SimpleStringDictionary without a lock, some  *)
(* of them because they fail, and the crash of one of them ends them all   *)
(* wherever they are.  A text is a record of who wrote it and of what kind *)
(* it is.                                                                  *)
(***************************************************************************)
EXTENDS Naturals, Sequences, FiniteSets

CONSTANTS
    Threads,
    UserKeys,    \* tags the program sets itself
    Capacity,    \* entries of the dictionary
    Free,        \* the key of an entry not in use
    Garbled      \* what two writers at once leave

ASSUME AnnotationsAssumption ==
    /\ UserKeys \cap {"abort_message", "terminate_type", Free, Garbled} = {}
    /\ Capacity \in Nat \ {0} /\ Free # Garbled
    /\ {Free, Garbled} \cap (Threads \cup {"abort_message", "terminate_type"}) = {}

VARIABLES
    setup,    \* how far DoInit is: "registered", "attached" or "hooked"
    slots,    \* the dictionary
    thread,   \* thread -> where it is, its failure, and what it has to write
    missed,   \* observer: threads whose tag went nowhere
    disturbed, \* observer: failing threads that another has since written over
    clash     \* observer: two new keys were given the same entry

annotVars == <<setup, slots, thread, missed, disturbed, clash>>

Terminating == {"exception", "silent_exception", "no_exception"}
Aborting == Terminating \cup {"assert"}

\* The keys the tombstone shows.
Reported == {"abort_message", "terminate_type"}

NoText == [by |-> Free, kind |-> ""]
Text(t, kind) == [by |-> t, kind |-> kind]
Tag(key, t, kind) == [key |-> key, text |-> Text(t, kind)]

\* said: the tag the thread set of its own accord; how: the way it failed.
Idle == [at |-> "run", said |-> Free, how |-> "none", todo |-> <<>>, slot |-> 0]

Empty == [i \in 1..Capacity |-> [key |-> Free, text |-> NoText]]

AnnotInit ==
    /\ setup = "registered"
    /\ slots = Empty
    /\ thread = [t \in Threads |-> Idle]
    /\ missed = {} /\ disturbed = {} /\ clash = FALSE

--------------------------------------------------------------------------------
\* set_simple_annotations and set_terminate, after SetHandlerSocket.
Setup ==
    /\ setup # "hooked"
    /\ setup' = IF setup = "registered" THEN "attached" ELSE "hooked"
    /\ UNCHANGED <<slots, thread, missed, disturbed, clash>>

CaptureCurrentExceptionMessage(how) == IF how = "exception" THEN "what" ELSE ""

WriteAssertAnnotation(t) == <<Tag("abort_message", t, "reason")>>

\* Mutants: the message before the type; an empty what() is passed on.
WriteMessageFirst(t, how) ==
    IF how = "no_exception" THEN <<Tag("abort_message", t, "reason")>>
    ELSE <<Tag("abort_message", t, "unhandled"), Tag("terminate_type", t, "type")>>
WriteWhatAsIs(t, how) ==
    IF how = "no_exception" THEN <<Tag("abort_message", t, "reason")>>
    ELSE <<Tag("terminate_type", t, "type"),
           Tag("abort_message", t, CaptureCurrentExceptionMessage(how))>>
WriteTerminateAnnotation(t, how) ==
    LET what == CaptureCurrentExceptionMessage(how)
    IN IF how = "no_exception" THEN <<Tag("abort_message", t, "reason")>>
       ELSE <<Tag("terminate_type", t, "type"),
              Tag("abort_message", t, IF what # "" THEN what ELSE "unhandled")>>

\* The program calls crashomon_set_tag or crashomon_set_abort_message.
SetTag(t) ==
    /\ thread[t].at = "run" /\ thread[t].said = Free
    /\ \E key \in UserKeys \cup {"abort_message"} :
          thread' = [thread EXCEPT ![t].at = "find", ![t].said = key,
                                   ![t].todo = <<Tag(key, t, "said")>>]
    /\ UNCHANGED <<setup, slots, missed, disturbed, clash>>

\* assert() fails, std::terminate() is called, or a signal comes.  Before
\* set_terminate the default handler aborts and writes nothing.
Fail(t) ==
    /\ thread[t].at = "run"
    /\ \E how \in Aborting \cup {"signal"} :
          LET work == CASE how = "assert" -> WriteAssertAnnotation(t)
                        [] how \in Terminating /\ setup = "hooked" -> WriteTerminateAnnotation(t, how)
                        [] OTHER -> <<>>
          IN /\ thread' = [thread EXCEPT ![t].at = IF work = <<>> THEN "abort" ELSE "find",
                                         ![t].how = how, ![t].todo = work]
             /\ missed' = IF how \in Aborting /\ work = <<>> THEN missed \cup {t} ELSE missed
    /\ UNCHANGED <<setup, slots, disturbed, clash>>

--------------------------------------------------------------------------------
(* crashomon_set_tag, and SetKeyValue in its three parts *)

Entry(t) == Head(thread[t].todo)

\* After one tag comes the next one, or abort(), or the program.
AfterTag(t) ==
    LET rest == Tail(thread[t].todo)
    IN [thread[t] EXCEPT !.todo = rest, !.slot = 0,
            !.at = IF rest # <<>> THEN "find" ELSE IF thread[t].how # "none" THEN "abort" ELSE "run"]

EntriesOf(key) == {i \in 1..Capacity : slots[i].key = key}

\* Mutant: a tag is always appended.
AlwaysNew(key) == {}
OwnEntry(key) == EntriesOf(key)

First(S) == CHOOSE i \in S : \A j \in S : i <= j

\* The entry of the key, or else the first free one; without a dictionary or
\* without room the tag is dropped.
FindEntry(t) ==
    /\ thread[t].at = "find"
    /\ LET own == OwnEntry(Entry(t).key)  free == EntriesOf(Free)
       IN IF setup = "registered" \/ (own = {} /\ free = {})
          THEN /\ thread' = [thread EXCEPT ![t] = AfterTag(t)]
               /\ missed' = missed \cup {t}
               /\ UNCHANGED clash
          ELSE /\ thread' = [thread EXCEPT ![t].at = IF own # {} THEN "value" ELSE "key",
                                           ![t].slot = First(IF own # {} THEN own ELSE free)]
               /\ clash' = (clash \/ (own = {} /\ \E u \in Threads \ {t} :
                                          thread[u].at = "key" /\ thread[u].slot = First(free)))
               /\ UNCHANGED missed
    /\ UNCHANGED <<setup, slots, disturbed>>

\* Whoever copies into the same bytes at the same time.
Rivals(t, label) == {u \in Threads \ {t} : thread[u].at = label /\ thread[u].slot = thread[t].slot}

WriteKey(t) ==
    /\ thread[t].at = "key"
    /\ \E key \in {Entry(t).key} \cup (IF Rivals(t, "key") = {} THEN {} ELSE {Garbled}) :
          slots' = [slots EXCEPT ![thread[t].slot].key = key]
    /\ thread' = [thread EXCEPT ![t].at = "value"]
    /\ UNCHANGED <<setup, missed, disturbed, clash>>

WriteValue(t) ==
    /\ thread[t].at = "value"
    /\ \E text \in {Entry(t).text}
                       \cup (IF Rivals(t, "value") = {} THEN {} ELSE {Text(Garbled, "garbled")}) :
          slots' = [slots EXCEPT ![thread[t].slot].text = text]
    /\ thread' = [thread EXCEPT ![t] = AfterTag(t)]
    /\ disturbed' = IF Entry(t).key \in Reported
                    THEN disturbed \cup {u \in Threads \ {t} : thread[u].how \in Aborting}
                    ELSE disturbed
    /\ UNCHANGED <<setup, missed, clash>>

ThreadStep(t) == SetTag(t) \/ Fail(t) \/ FindEntry(t) \/ WriteKey(t) \/ WriteValue(t)

AnnotNext == Setup \/ \E t \in Threads : ThreadStep(t)

--------------------------------------------------------------------------------
\* What Crashpad copies of the dictionary when it stops the process: for each
\* key the text of an entry that has it, torn if a thread is writing it.
TextsOf(key) ==
    {slots[i].text : i \in EntriesOf(key)}
    \cup {Text(Garbled, "garbled") : u \in {v \in Threads : thread[v].at = "value"
                                               /\ thread[v].slot \in EntriesOf(key)}}

\* What the reader makes of an absent key or an empty text is the same.
Captured(key) == IF EntriesOf(key) = {} THEN {NoText} ELSE TextsOf(key)

\* Since the thread failed no other has written to what the tombstone shows, and
\* none is about to: it has the report to itself, whatever was said before.
Undisturbed(t) ==
    /\ t \notin missed \cup disturbed /\ ~clash
    /\ \A u \in Threads \ {t} : ~(thread[u].at = "value" /\ Entry(u).key \in Reported)

\* An exception that nobody catches: its type is written.
Typed(t) == thread[t].how \in {"exception", "silent_exception"}

\* Type invariant; without a clash of two insertions the dictionary is a map.
AnnotTypeOK ==
    /\ setup \in {"registered", "attached", "hooked"}
    /\ missed \cup disturbed \subseteq Threads /\ clash \in BOOLEAN
    /\ \A t \in Threads : /\ thread[t].at \in {"run", "find", "key", "value", "abort"}
                         /\ (thread[t].at \in {"key", "value"}) = (thread[t].slot \in 1..Capacity)
                         /\ (thread[t].at \in {"run", "abort"}) = (thread[t].todo = <<>>)
    /\ ~clash => \A i, j \in 1..Capacity : slots[i].key = slots[j].key /\ slots[i].key # Free => i = j
================================================================================
