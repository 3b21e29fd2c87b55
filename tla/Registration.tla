------------------------------ MODULE Registration ------------------------------
(***************************************************************************)
(* How a process comes under crash monitoring and how long it stays so:    *)
(* DoInit of lib/crashomon.cpp (connect with retries, then a blocking      *)
(* receive), AcceptAndShareSocket of daemon/crash_socket.cpp, which passes *)
(* the shared Crashpad descriptor by SCM_RIGHTS, and the shutdown of       *)
(* RunWatcher, which waits until every copy of that descriptor is closed.  *)
(* The daemons and the path they share are those of ListenSocket; the      *)
(* worker thread, which the shutdown joins last, is in CrashPipeline.      *)
(***************************************************************************)
EXTENDS ListenSocket, Sequences

CONSTANTS
    Clients,
    SameUser,       \* clients that run as the daemon's user
    Retries,        \* attempts of each that fit in connect_timeout_sec after the first
    Backlog         \* kListenBacklog

ASSUME RegistrationAssumption ==
    /\ Clients \cap Daemons = {} /\ SameUser \subseteq Clients
    /\ Retries \in [Clients -> Nat] /\ Backlog \in Nat \ {0}

VARIABLES
    client,    \* where each process is
    budget,    \* retries left
    peer,      \* the daemon a process is connected to or shares a socket with
    link,      \* its connection: "none", "queued", "sent", "closed"
    backlog,   \* connections each daemon has not accepted; probes are dead ones
    ownFd,     \* daemons that hold their own copy of the shared client end
    handler,   \* the handler thread of each daemon
    atLimit    \* daemons that cannot open one more descriptor

clientVars == <<client, budget, peer, link>>
daemonVars == <<backlog, ownFd, handler, atLimit>>
vars == <<sockVars, clientVars, daemonVars>>

Init ==
    /\ SockInit
    /\ client = [c \in Clients |-> "start"]
    /\ budget = Retries
    /\ peer = [c \in Clients |-> NoSocket]
    /\ link = [c \in Clients |-> "none"]
    /\ backlog = [d \in Daemons |-> <<>>]
    /\ ownFd = {}
    /\ handler = [d \in Daemons |-> "none"]
    /\ atLimit = {}

\* The processes, other than the daemon, that keep its handler running: those
\* that received the shared descriptor, and those in whose connection it waits.
Holders(d) == {c \in Clients : peer[c] = d /\ (client[c] = "monitored" \/ link[c] = "sent")}

Room(d) == Len(backlog[d]) < Backlog

--------------------------------------------------------------------------------
(* The process: DoInit *)

\* DoInit ends at once if it gets no socket.
Load(c) ==
    /\ client[c] = "start"
    /\ \E next \in {"connect", "failed"} : client' = [client EXCEPT ![c] = next]
    /\ UNCHANGED <<sockVars, budget, peer, link, daemonVars>>

GivesUp(c) == client' = [client EXCEPT ![c] = "unmonitored"]

Answer(c) == ConnectResult(c \in SameUser)

\* connect() blocks, without a timeout, while the queue is full.
Connect(c) ==
    /\ client[c] = "connect" /\ Answer(c) = "connected" /\ Room(path)
    /\ client' = [client EXCEPT ![c] = "receive"]
    /\ peer' = [peer EXCEPT ![c] = path]
    /\ link' = [link EXCEPT ![c] = "queued"]
    /\ backlog' = [backlog EXCEPT ![path] = Append(@, c)]
    /\ UNCHANGED <<sockVars, budget, ownFd, handler, atLimit>>

Transient == {"ENOENT", "ECONNREFUSED"}

\* Mutant: the deadline is not tested.
RetryForever(c) ==
    /\ client[c] = "connect" /\ Answer(c) \in Transient
    /\ budget' = [budget EXCEPT ![c] = @ - 1]
    /\ UNCHANGED <<sockVars, client, peer, link, daemonVars>>

Retry(c) ==
    /\ client[c] = "connect" /\ Answer(c) \in Transient /\ budget[c] > 0
    /\ budget' = [budget EXCEPT ![c] = @ - 1]
    /\ UNCHANGED <<sockVars, client, peer, link, daemonVars>>

\* The deadline is reached, or the error is not one of a daemon that is absent
\* or not listening yet.
ConnectFails(c) ==
    /\ client[c] = "connect" /\ Answer(c) # "connected"
    /\ Answer(c) \in Transient => budget[c] = 0
    /\ GivesUp(c)
    /\ UNCHANGED <<sockVars, budget, peer, link, daemonVars>>

Receive(c) ==
    /\ client[c] = "receive" /\ link[c] = "sent"
    /\ client' = [client EXCEPT ![c] = "monitored"]
    /\ link' = [link EXCEPT ![c] = "none"]
    /\ UNCHANGED <<sockVars, budget, peer, daemonVars>>

\* recvmsg() returns nothing, for the daemon went or its sendmsg() failed; or
\* the message has come and recvmsg() or SetHandlerSocket() fails.  Either way
\* the process holds nothing of the daemon.
ReceiveFails(c) ==
    /\ client[c] = "receive" /\ link[c] \in {"closed", "sent"}
    /\ link' = [link EXCEPT ![c] = "none"]
    /\ peer' = [peer EXCEPT ![c] = NoSocket]
    /\ client' = [client EXCEPT ![c] = "failed"]
    /\ UNCHANGED <<sockVars, budget, daemonVars>>

\* The process ends, by itself or by a crash, which closes what it holds.
End(c) ==
    /\ client[c] \notin {"start", "gone"}
    /\ client' = [client EXCEPT ![c] = "gone"]
    /\ peer' = [peer EXCEPT ![c] = NoSocket]
    /\ link' = [link EXCEPT ![c] = "none"]
    /\ UNCHANGED <<sockVars, budget, daemonVars>>

--------------------------------------------------------------------------------
(* The daemon *)

\* A probe that finds a live daemon leaves it a dead connection to accept, if
\* there is room for one; one that comes to nothing leaves none.
ProbePath(d) ==
    /\ Probe(d)
    /\ IF sockPc'[d] = "down"
       THEN Room(path) /\ backlog' = [backlog EXCEPT ![path] = Append(@, d)]
       ELSE UNCHANGED backlog
    /\ UNCHANGED <<clientVars, ownFd, handler, atLimit>>

\* A bound socket is a new one: nothing waits on it.
BindPath(d) ==
    /\ Bind(d)
    /\ backlog' = [backlog EXCEPT ![d] = <<>>]
    /\ UNCHANGED <<clientVars, ownFd, handler, atLimit>>

OtherSteps(d) ==
    /\ StartDaemon(d) \/ Unlink(d) \/ Chmod(d) \/ Listen(d)
    /\ UNCHANGED <<clientVars, daemonVars>>

\* Mutant: a copy of the listening descriptor stays open.
QueueStays(d) == UNCHANGED <<backlog, link>>

\* The connections nobody accepted are closed with the socket.
QueueCloses(d) ==
    /\ backlog' = [backlog EXCEPT ![d] = <<>>]
    /\ link' = [c \in Clients |-> IF peer[c] = d /\ link[c] = "queued" THEN "closed" ELSE link[c]]

\* The handler thread ends at once if InitializeWithClient fails.
Initialized(d) ==
    /\ InitDone(d)
    /\ IF sockPc'[d] = "serving"
       THEN /\ ownFd' = ownFd \cup {d}
            /\ \E h \in {"running", "failed"} : handler' = [handler EXCEPT ![d] = h]
            /\ UNCHANGED <<backlog, link>>
       ELSE QueueCloses(d) /\ UNCHANGED <<ownFd, handler>>
    /\ UNCHANGED <<client, budget, peer, atLimit>>

InLoop(d) == sockPc[d] = "serving" /\ d \in ownFd

\* Mutant: the connection is not closed after a failed sendmsg().
ConnectionKept == {"sent", "queued"}
SendResults == {"sent", "closed"}

\* accept4() fails while the daemon can open no descriptor, and the connection
\* stays where it is.  sendmsg() may fail, with EPIPE for a process that is gone;
\* the connection is closed in any case.
AcceptAndShareSocket(d) ==
    /\ InLoop(d) /\ backlog[d] # <<>> /\ d \notin atLimit
    /\ backlog' = [backlog EXCEPT ![d] = Tail(@)]
    /\ LET c == Head(backlog[d])
       IN IF c \in Clients /\ peer[c] = d /\ link[c] = "queued"
          THEN \E result \in SendResults : link' = [link EXCEPT ![c] = result]
          ELSE UNCHANGED link
    /\ UNCHANGED <<sockVars, client, budget, peer, ownFd, handler, atLimit>>

\* Descriptors of the daemon's process, or of the system, run out or are freed.
LimitChanges(d) ==
    /\ InLoop(d)
    /\ atLimit' = IF d \in atLimit THEN atLimit \ {d} ELSE atLimit \cup {d}
    /\ UNCHANGED <<sockVars, clientVars, backlog, ownFd, handler>>

\* SIGTERM ends the loop, and client_fd is reset.
LeaveLoop(d) ==
    /\ InLoop(d)
    /\ ownFd' = ownFd \ {d} /\ atLimit' = atLimit \ {d}
    /\ UNCHANGED <<sockVars, clientVars, backlog, handler>>

\* Crashpad's Run() returns when nobody holds the client end.
HandlerExit(d) ==
    /\ handler[d] = "running" /\ d \notin ownFd /\ Holders(d) = {}
    /\ handler' = [handler EXCEPT ![d] = "exited"]
    /\ UNCHANGED <<sockVars, clientVars, backlog, ownFd, atLimit>>

HandlerDetached(d) == TRUE             \* mutant: detach() for join()

\* Mutant: the registrations still queued are waited for as well.
QueueDrained(d) == handler[d] # "running" /\ backlog[d] = <<>>
HandlerJoined(d) == handler[d] # "running"

\* handler_thread.join()
JoinHandler(d) ==
    /\ ~InLoop(d) /\ HandlerJoined(d)
    /\ ShutDown(d)
    /\ UNCHANGED <<clientVars, daemonVars>>

\* The copies of the descriptor that outlive the daemon lead nowhere.
HandlerGone(d) ==
    /\ handler' = [handler EXCEPT ![d] = "none"]
    /\ peer' = [c \in Clients |-> IF c \in Holders(d) THEN NoSocket ELSE peer[c]]

\* unlink(), then the return that closes the listening socket.
Leave(d) ==
    /\ EndOfRun(d)
    /\ IF sockPc'[d] = "down"
       THEN QueueCloses(d) /\ HandlerGone(d)
       ELSE UNCHANGED <<backlog, link, handler, peer>>
    /\ UNCHANGED <<client, budget, ownFd, atLimit>>

KillsDaemon(d) ==
    /\ KillDaemon(d)
    /\ QueueCloses(d) /\ HandlerGone(d)
    /\ ownFd' = ownFd \ {d} /\ atLimit' = atLimit \ {d}
    /\ UNCHANGED <<client, budget>>

ClientStep(c) == Connect(c) \/ Retry(c) \/ ConnectFails(c) \/ Receive(c) \/ ReceiveFails(c)

DaemonStep(d) == \/ ProbePath(d) \/ BindPath(d) \/ Initialized(d)
                 \/ OtherSteps(d)
                 \/ AcceptAndShareSocket(d) \/ JoinHandler(d) \/ Leave(d)

Next == \/ \E c \in Clients : Load(c) \/ ClientStep(c) \/ End(c)
        \/ \E d \in Daemons : \/ DaemonStep(d) \/ LeaveLoop(d) \/ HandlerExit(d)
                             \/ KillsDaemon(d) \/ LimitChanges(d)

Spec == Init /\ [][Next]_vars

\* Processes and daemons run when they can; nothing obliges a process to end,
\* a signal to come, or a daemon to be started.
DaemonRuns(d) == sockPc[d] # "down" /\ DaemonStep(d)

Fairness ==
    /\ \A c \in Clients : WF_vars(ClientStep(c))
    /\ \A d \in Daemons : WF_vars(DaemonRuns(d)) /\ WF_vars(HandlerExit(d))

FairSpec == Spec /\ Fairness

--------------------------------------------------------------------------------
(* Properties *)

TypeOK ==
    /\ SockTypeOK
    /\ client \in [Clients -> {"start", "connect", "receive", "monitored", "unmonitored", "failed",
                           "gone"}]
    /\ budget \in [Clients -> Nat] /\ \A c \in Clients : budget[c] <= Retries[c]
    /\ peer \in [Clients -> Daemons \cup {NoSocket}]
    /\ link \in [Clients -> {"none", "queued", "sent", "closed"}]
    /\ backlog \in [Daemons -> Seq(Clients \cup Daemons)]
    /\ ownFd \subseteq Daemons
    /\ handler \in [Daemons -> {"none", "running", "exited", "failed"}]
    /\ atLimit \subseteq ownFd

\* A process that was given the shared descriptor by a daemon still alive has a
\* handler to crash into, through the whole shutdown of that daemon: no order
\* of registrations, process ends and signals makes the handler leave first
\* (unless it never came up).
RegisteredIsServed ==
    \A d \in Daemons : Holders(d) # {} =>
        handler[d] = "failed" \/ (handler[d] = "running" /\ sockPc[d] = "serving")

\* A process waits for an answer only from a daemon that can still give one or
\* will close the connection when it goes: the connection is in its queue.
WaitsOnLiveQueue ==
    \A c \in Clients : link[c] = "queued" =>
        /\ peer[c] \in listening
        /\ c \in {backlog[peer[c]][i] : i \in DOMAIN backlog[peer[c]]}

InShutdown(d) == sockPc[d] = "serving" /\ ~InLoop(d)

\* A registration ends, one way or the other, unless its daemon stays in its
\* shutdown or runs out of descriptors for good: recvmsg() has no timeout, and
\* nobody accepts.
RegistrationEnds ==
    \A c \in Clients :
        client[c] = "receive" ~>
            (client[c] # "receive" \/ \E d \in Daemons : peer[c] = d /\ (InShutdown(d) \/ d \in atLimit))

\* A shutdown completes when no process holds the descriptor, even if others
\* wait in the queue of the socket.
ShutdownEnds ==
    \A d \in Daemons : InShutdown(d) ~> (sockPc[d] = "down" \/ Holders(d) # {})

PathIsServed == path \in Daemons /\ InLoop(path)

\* While the daemon the path names stays in its event loop and has descriptors,
\* every process that tries gets its own, whoever it runs as and whatever fills
\* the queue before it: others, processes that have ended, probes.  Only a call
\* that fails it in the exchange itself turns it away.  (Starts are bounded:
\* daemons that probe for ever could keep the queue full.)
ServedRegisters ==
    \A c \in Clients :
        (client[c] = "connect" /\ PathIsServed) ~>
            (client[c] \in {"monitored", "failed", "gone"} \/ ~PathIsServed \/ path \in atLimit)

--------------------------------------------------------------------------------
(* What the source says of the program *)

\* crashomon.cpp: DoInit retries for up to connect_timeout_sec "to tolerate
\* watcherd still starting up", so a process does not give up with time left
\* while a daemon is starting.
StartupTolerated ==
    [][\A c \in Clients : client[c] = "connect" /\ client'[c] = "unmonitored" =>
          budget[c] = 0 \/ \A d \in Daemons : ~Starting(d)]_vars
================================================================================
