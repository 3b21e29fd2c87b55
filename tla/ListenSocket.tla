------------------------------ MODULE ListenSocket ------------------------------
(***************************************************************************)
(* The registration socket between daemons that share its path             *)
(* (CreateListenSocket of daemon/crash_socket.cpp, the rest of             *)
(* InitWatcherFds, and the end of RunWatcher).  A start probes the path,   *)
(* unlinks it, binds, makes it connectable for every user, and listens:    *)
(* five system calls, between which another daemon, or the next instance   *)
(* of the service, makes its own.  "missed" is history: the daemons that   *)
(* listen and that the start under way has not met.                        *)
(***************************************************************************)
EXTENDS Integers

CONSTANTS
    Daemons,
    NoSocket,
    MaxStarts   \* bound on the starts of all daemons together

ASSUME SocketAssumption == NoSocket \notin Daemons /\ MaxStarts \in Nat

VARIABLES
    sockPc,     \* where each daemon is
    path,       \* whose socket the path names
    open,       \* whether every user may connect to it
    listening,  \* daemons whose socket listens
    missed,     \* of each start between probe and unlink, whom it has not met
    starts      \* how many starts there were

sockVars == <<sockPc, path, open, listening, missed, starts>>

SockInit ==
    /\ sockPc = [d \in Daemons |-> "down"]
    /\ path = NoSocket /\ open = FALSE /\ listening = {}
    /\ missed = [d \in Daemons |-> {}]
    /\ starts = 0

Starting(d) == sockPc[d] \in {"probe", "unlink", "bind", "chmod", "listen", "init"}

Goes(d, to) == sockPc' = [sockPc EXCEPT ![d] = to]

\* What connect() to the path answers a process; only the daemon's own user may
\* write to a socket that is not open to all.
ConnectResult(sameUser) ==
    IF path = NoSocket THEN "ENOENT"
    ELSE IF ~sameUser /\ ~open THEN "EACCES"
    ELSE IF path \notin listening THEN "ECONNREFUSED"
    ELSE "connected"

--------------------------------------------------------------------------------
(* CreateListenSocket *)

StartDaemon(d) ==
    /\ sockPc[d] = "down"
    /\ starts < MaxStarts /\ starts' = starts + 1
    /\ Goes(d, "probe")
    /\ UNCHANGED <<path, open, listening, missed>>

PathIsFree == ConnectResult(TRUE) # "connected"

\* A live daemon answers: refuse.  Any error counts as a stale socket.
Refused(d) ==
    /\ sockPc[d] = "probe" /\ ~PathIsFree
    /\ Goes(d, "down")
    /\ UNCHANGED <<path, open, listening, missed, starts>>

Proceeds(d, unmet) ==
    /\ sockPc[d] = "probe"
    /\ Goes(d, "unlink")
    /\ missed' = [missed EXCEPT ![d] = unmet]
    /\ UNCHANGED <<path, open, listening, starts>>

\* The error may be the starter's own: no descriptor for the probe's socket, or
\* a signal (their handlers are installed by now) while connect() waits for
\* room in the queue of a live daemon.
Probe(d) == Refused(d) \/ (PathIsFree /\ Proceeds(d, {})) \/ Proceeds(d, listening)

Unlink(d) ==
    /\ sockPc[d] = "unlink"
    /\ path' = NoSocket /\ open' = FALSE
    /\ Goes(d, "bind")
    /\ missed' = [missed EXCEPT ![d] = {}]
    /\ UNCHANGED <<listening, starts>>

\* EADDRINUSE if another daemon has bound the path meanwhile; or another error.
Bind(d) ==
    /\ sockPc[d] = "bind"
    /\ \/ path = NoSocket /\ path' = d /\ open' = FALSE /\ Goes(d, "chmod")
       \/ UNCHANGED <<path, open>> /\ Goes(d, "down")
    /\ UNCHANGED <<listening, missed, starts>>

\* Mutant: only the daemon's user may connect.
KeepMode(d) ==
    /\ sockPc[d] = "chmod"
    /\ Goes(d, "listen")
    /\ UNCHANGED <<path, open, listening, missed, starts>>

\* chmod() works on whatever the path names by now.
Chmod(d) ==
    /\ sockPc[d] = "chmod"
    /\ open' = (path # NoSocket)
    /\ Goes(d, "listen")
    /\ UNCHANGED <<path, listening, missed, starts>>

Listen(d) ==
    /\ sockPc[d] = "listen"
    /\ \/ /\ listening' = listening \cup {d} /\ Goes(d, "init")
          /\ missed' = [e \in Daemons |-> IF sockPc[e] = "unlink" THEN missed[e] \cup {d} ELSE missed[e]]
       \/ Goes(d, "down") /\ UNCHANGED <<listening, missed>>
    /\ UNCHANGED <<path, open, starts>>

\* The rest of InitWatcherFds; when a call fails the descriptors close and the
\* socket file stays.
InitDone(d) ==
    /\ sockPc[d] = "init"
    /\ \/ Goes(d, "serving") /\ UNCHANGED listening
       \/ Goes(d, "down") /\ listening' = listening \ {d}
    /\ UNCHANGED <<path, open, missed, starts>>

--------------------------------------------------------------------------------
(* The end of RunWatcher: unlink, and the descriptors close as the function
   returns *)

\* Mutant: the descriptors are closed before the path is removed.
CloseThenUnlink(d) ==
    \/ /\ sockPc[d] = "ending" /\ Goes(d, "unlinked")
       /\ listening' = listening \ {d} /\ UNCHANGED <<path, open>>
    \/ /\ sockPc[d] = "unlinked" /\ Goes(d, "down")
       /\ path' = NoSocket /\ open' = FALSE /\ UNCHANGED listening

UnlinkThenClose(d) ==
    \/ /\ sockPc[d] = "ending" /\ Goes(d, "unlinked")
       /\ path' = NoSocket /\ open' = FALSE /\ UNCHANGED listening
    \/ /\ sockPc[d] = "unlinked" /\ Goes(d, "down")
       /\ listening' = listening \ {d} /\ UNCHANGED <<path, open>>

EndOfRun(d) == UnlinkThenClose(d) /\ UNCHANGED <<missed, starts>>

\* The shutdown sequence is over; Registration says when.
ShutDown(d) ==
    /\ sockPc[d] = "serving"
    /\ Goes(d, "ending")
    /\ UNCHANGED <<path, open, listening, missed, starts>>

\* A kill leaves the socket file behind.
KillDaemon(d) ==
    /\ sockPc[d] # "down"
    /\ Goes(d, "down")
    /\ listening' = listening \ {d}
    /\ missed' = [missed EXCEPT ![d] = {}]
    /\ UNCHANGED <<path, open, starts>>

Create(d) == StartDaemon(d) \/ Probe(d) \/ Unlink(d) \/ Bind(d) \/ Chmod(d) \/ Listen(d) \/ InitDone(d)

SockNext == \E d \in Daemons : Create(d) \/ ShutDown(d) \/ EndOfRun(d) \/ KillDaemon(d)

SockSpec == SockInit /\ [][SockNext]_sockVars

--------------------------------------------------------------------------------
SockTypeOK ==
    /\ sockPc \in [Daemons -> {"down", "probe", "unlink", "bind", "chmod", "listen", "init",
                               "serving", "ending", "unlinked"}]
    /\ path \in Daemons \cup {NoSocket}
    /\ open \in BOOLEAN /\ listening \subseteq Daemons
    /\ missed \in [Daemons -> SUBSET Daemons]
    /\ starts \in 0..MaxStarts

\* A daemon in its event loop whose socket the path still names is reached by
\* every user, whichever daemon's chmod() met whose socket.
ServingIsReachable ==
    \A d \in Daemons : sockPc[d] = "serving" /\ path = d =>
        ConnectResult(FALSE) = "connected"

\* The path is taken from a daemon that serves in two cases only: by a start that
\* probed before this daemon listened or got no answer of its own fault, and by
\* the end of a daemon that had lost the path itself.  No kill, restart, failed
\* start or end of another one does.
TakenOnlyUnmet ==
    [][\A d \in Daemons : sockPc[d] = "serving" /\ path = d /\ path' # d =>
          \E e \in Daemons \ {d} :
              \/ sockPc[e] = "unlink" /\ d \in missed[e]
              \/ sockPc[e] = "ending"]_sockVars

--------------------------------------------------------------------------------
(* What the source says of the program *)

\* crash_socket.h, of CreateListenSocket: "Refuses to start if a live daemon
\* already owns the path", so no start removes the socket of one that serves.
RefusesLiveOwner ==
    [][\A e \in Daemons : sockPc[e] = "unlink" /\ sockPc'[e] = "bind" =>
          path = NoSocket \/ sockPc[path] # "serving"]_sockVars
================================================================================
