--------------------------- MODULE Registration_proofs ---------------------------
(***************************************************************************)
(* For any processes, daemons, queues and numbers of retries, however the  *)
(* starts overlap and whatever fails: who holds the descriptor of a daemon *)
(* that lives has a handler, who waits for one waits in a queue that is    *)
(* served or closed, and the path of a daemon that serves is taken only by *)
(* a start that has not met it, or by one that lost the path before.       *)
(***************************************************************************)
EXTENDS Registration, TLAPS

--------------------------------------------------------------------------------
(* The socket: ListenSocket *)

Ready == {"init", "serving", "ending"}

\* Whose socket the path names, it is open to all from the chmod() on; and a
\* start about to unlink has not met the daemon that listens there: it can have
\* come to the path only after the probe, for a bind comes before its listen().
StartInv ==
    /\ SockTypeOK
    /\ \A d \in Daemons : sockPc[d] \in Ready => d \in listening
    /\ \A d \in Daemons : d \in listening => sockPc[d] \in Ready \cup {"unlinked"}
    /\ \A d \in Daemons : path = d /\ sockPc[d] \in Ready \cup {"listen"} => open
    /\ \A e \in Daemons : sockPc[e] = "unlink" /\ path \in listening => path \in missed[e]

\* The inductive invariant holds when every daemon is down.
LEMMA InitStartInv == SockInit => StartInv
<1> SUFFICES ASSUME SockInit PROVE StartInv
    OBVIOUS
<1>1. SockTypeOK
    <2>1. starts \in 0..MaxStarts
        BY SocketAssumption DEF SockInit
    <2> QED
        BY <2>1 DEF SockInit, SockTypeOK
<1> QED
    BY <1>1 DEF SockInit, StartInv, Ready

\* Every system call of every daemon preserves it.
LEMMA StepStartInv == StartInv /\ [SockNext]_sockVars => StartInv'
<1> SUFFICES ASSUME StartInv, [SockNext]_sockVars PROVE StartInv'
    OBVIOUS
<1> USE SocketAssumption DEF StartInv, SockTypeOK, Ready, Goes
<1>1. ASSUME NEW d \in Daemons, StartDaemon(d) PROVE StartInv'
    BY <1>1 DEF StartDaemon
<1>2. ASSUME NEW d \in Daemons, Probe(d) PROVE StartInv'
    <2>1. CASE Refused(d)
        BY <2>1 DEF Refused
    <2>2. CASE PathIsFree /\ Proceeds(d, {})
        <3>1. path \notin listening
            BY <2>2 DEF PathIsFree, ConnectResult
        <3> QED
            BY <2>2, <3>1 DEF Proceeds
    <2>3. CASE Proceeds(d, listening)
        BY <2>3 DEF Proceeds
    <2> QED
        BY <1>2, <2>1, <2>2, <2>3 DEF Probe
<1>3. ASSUME NEW d \in Daemons, Unlink(d) PROVE StartInv'
    BY <1>3 DEF Unlink
<1>4. ASSUME NEW d \in Daemons, Bind(d) PROVE StartInv'
    <2>1. CASE path = NoSocket /\ path' = d /\ open' = FALSE /\ Goes(d, "chmod")
        BY <1>4, <2>1 DEF Bind
    <2>2. CASE UNCHANGED <<path, open>> /\ Goes(d, "down")
        BY <1>4, <2>2 DEF Bind
    <2> QED
        BY <1>4, <2>1, <2>2 DEF Bind
<1>5. ASSUME NEW d \in Daemons, Chmod(d) PROVE StartInv'
    BY <1>5 DEF Chmod
<1>6. ASSUME NEW d \in Daemons, Listen(d) PROVE StartInv'
    BY <1>6 DEF Listen
<1>7. ASSUME NEW d \in Daemons, InitDone(d) PROVE StartInv'
    BY <1>7 DEF InitDone
<1>8. ASSUME NEW d \in Daemons, ShutDown(d) PROVE StartInv'
    BY <1>8 DEF ShutDown
<1>9. ASSUME NEW d \in Daemons, EndOfRun(d) PROVE StartInv'
    <2>1. CASE sockPc[d] = "ending"
        BY <1>9, <2>1, ZenonT(40) DEF EndOfRun, UnlinkThenClose
    <2>2. CASE sockPc[d] = "unlinked"
        BY <1>9, <2>2 DEF EndOfRun, UnlinkThenClose
    <2> QED
        BY <1>9, <2>1, <2>2 DEF EndOfRun, UnlinkThenClose
<1>10. ASSUME NEW d \in Daemons, KillDaemon(d) PROVE StartInv'
    BY <1>10 DEF KillDaemon
<1>11. CASE UNCHANGED sockVars
    BY <1>11 DEF sockVars
<1> QED
    BY <1>1, <1>2, <1>3, <1>4, <1>5, <1>6, <1>7, <1>8, <1>9, <1>10, <1>11 DEF SockNext, Create

\* A serving daemon that the path names answers every user.
THEOREM SocketServingIsReachable == SockSpec => []ServingIsReachable
<1>1. StartInv => ServingIsReachable
    BY SocketAssumption DEF StartInv, ServingIsReachable, ConnectResult, Ready
<1> QED
    BY InitStartInv, StepStartInv, <1>1, PTL DEF SockSpec

\* Nobody takes the path from a daemon that serves but a start that has not met
\* it (CreateListenSocket) and the end of a daemon that had lost the path
\* (RunWatcher).
THEOREM SocketTakenOnlyUnmet == SockSpec => TakenOnlyUnmet
<1>1. StartInv /\ [SockNext]_sockVars =>
        [\A d \in Daemons : sockPc[d] = "serving" /\ path = d /\ path' # d =>
            \E e \in Daemons \ {d} :
                \/ sockPc[e] = "unlink" /\ d \in missed[e]
                \/ sockPc[e] = "ending"]_sockVars
    <2> SUFFICES ASSUME StartInv, SockNext,
                        NEW d \in Daemons, sockPc[d] = "serving", path = d, path' # d
                 PROVE  \E e \in Daemons \ {d} : \/ sockPc[e] = "unlink" /\ d \in missed[e]
                                                 \/ sockPc[e] = "ending"
        BY DEF sockVars
    <2>1. PICK e \in Daemons : Create(e) \/ ShutDown(e) \/ EndOfRun(e) \/ KillDaemon(e)
        BY DEF SockNext
    <2>2. sockPc[e] = "unlink" \/ sockPc[e] = "ending"
        BY <2>1, SocketAssumption
        DEF Create, StartDaemon, Probe, Refused, Proceeds, Unlink, Bind, Chmod, Listen, InitDone,
            ShutDown, EndOfRun, UnlinkThenClose, KillDaemon
    <2>3. d \in listening /\ e # d
        BY <2>2 DEF StartInv, Ready
    <2> QED
        BY <2>2, <2>3 DEF StartInv
<1> QED
    BY InitStartInv, StepStartInv, <1>1, PTL DEF SockSpec, TakenOnlyUnmet

--------------------------------------------------------------------------------
(* The processes and the daemons: Registration *)

SocketInv ==
    /\ sockPc \in [Daemons -> {"down", "probe", "unlink", "bind", "chmod", "listen", "init",
                               "serving", "ending", "unlinked"}]
    /\ path \in Daemons \cup {NoSocket}
    /\ listening \subseteq Daemons
    /\ \A d \in listening : sockPc[d] \in {"init", "serving", "ending", "unlinked"}

ProcessInv ==
    /\ peer \in [Clients -> Daemons \cup {NoSocket}]
    /\ link \in [Clients -> {"none", "queued", "sent", "closed"}]
    /\ client \in [Clients -> {"start", "connect", "receive", "monitored", "unmonitored", "failed",
                           "gone"}]

HandlerInv ==
    /\ ownFd \subseteq Daemons
    /\ handler \in [Daemons -> {"none", "running", "exited", "failed"}]
    /\ atLimit \subseteq ownFd
    /\ \A d \in ownFd : sockPc[d] = "serving" /\ handler[d] \in {"running", "failed"}

IsIn(c, queue) == \E i \in 1..Len(queue) : queue[i] = c

QueueInv ==
    /\ backlog \in [Daemons -> Seq(Clients \cup Daemons)]
    /\ \A c \in Clients : link[c] = "queued" => peer[c] \in listening /\ IsIn(c, backlog[peer[c]])

\* Only a daemon that has bound its path and not yet closed its socket listens,
\* so a bind, which empties the queue, meets no process in it; and a daemon
\* that can share its descriptor has started its handler, which cannot have
\* ended before.
IInv == SocketInv /\ ProcessInv /\ HandlerInv /\ QueueInv /\ RegisteredIsServed

\* Nobody runs yet.
LEMMA InitIInv == Init => IInv
BY DEF Init, SockInit, IInv, SocketInv, ProcessInv, HandlerInv, QueueInv, RegisteredIsServed, Holders

--------------------------------------------------------------------------------
(* Queues *)

\* Who comes last stands in the queue, and so does who stood there before.
LEMMA AppendIsIn ==
    ASSUME NEW S, NEW queue \in Seq(S), NEW e \in S
    PROVE  /\ Append(queue, e) \in Seq(S)
           /\ IsIn(e, Append(queue, e))
           /\ \A x : IsIn(x, queue) => IsIn(x, Append(queue, e))
<1>1. /\ Append(queue, e) \in Seq(S)
      /\ Len(queue) \in Nat /\ Len(Append(queue, e)) = Len(queue) + 1
      /\ Append(queue, e)[Len(queue) + 1] = e
      /\ \A i \in 1..Len(queue) : Append(queue, e)[i] = queue[i]
    OBVIOUS
<1>2. Len(queue) + 1 \in 1..Len(Append(queue, e))
    BY <1>1
<1>3. \A i \in 1..Len(queue) : i \in 1..Len(Append(queue, e))
    BY <1>1
<1> QED
    BY <1>1, <1>2, <1>3 DEF IsIn

\* Who does not come first stays in the queue.
LEMMA TailIsIn ==
    ASSUME NEW S, NEW queue \in Seq(S), queue # <<>>
    PROVE  /\ Tail(queue) \in Seq(S)
           /\ \A x : IsIn(x, queue) /\ x # Head(queue) => IsIn(x, Tail(queue))
<1>1. /\ Tail(queue) \in Seq(S)
      /\ Len(queue) \in Nat \ {0} /\ Len(Tail(queue)) = Len(queue) - 1
      /\ Head(queue) = queue[1]
      /\ \A i \in 1..Len(Tail(queue)) : Tail(queue)[i] = queue[i + 1]
    OBVIOUS
<1>2. ASSUME NEW x, NEW i \in 1..Len(queue), queue[i] = x, x # Head(queue)
      PROVE  IsIn(x, Tail(queue))
    <2>1. i # 1 /\ i - 1 \in 1..Len(Tail(queue))
        BY <1>1, <1>2
    <2>2. Tail(queue)[i - 1] = x
        BY <1>1, <1>2, <2>1
    <2> QED
        BY <2>1, <2>2 DEF IsIn
<1> QED
    BY <1>1, <1>2 DEF IsIn

--------------------------------------------------------------------------------
(* The process *)

\* Connecting, receiving and ending: a process becomes a holder only of what
\* was sent to it.
LEMMA ClientIInv ==
    ASSUME IInv, NEW c \in Clients, Load(c) \/ ClientStep(c) \/ End(c)
    PROVE  IInv'
<1>1. UNCHANGED <<sockPc, path, listening, ownFd, handler, atLimit>>
    BY DEF Load, ClientStep, End, Connect, Retry, ConnectFails, Receive, ReceiveFails,
           sockVars, daemonVars
<1>2. SocketInv' /\ HandlerInv'
    BY <1>1 DEF IInv, SocketInv, HandlerInv
<1>3. CASE Connect(c)
    <2>1. /\ client' = [client EXCEPT ![c] = "receive"] /\ peer' = [peer EXCEPT ![c] = path]
          /\ link' = [link EXCEPT ![c] = "queued"]
          /\ backlog' = [backlog EXCEPT ![path] = Append(backlog[path], c)]
        BY <1>3 DEF Connect
    <2>2. path \in listening
        BY <1>3 DEF Connect, Answer, ConnectResult
    <2>3. path \in Daemons /\ backlog \in [Daemons -> Seq(Clients \cup Daemons)]
        BY <2>2 DEF IInv, SocketInv, QueueInv
    <2>4. /\ backlog'[path] = Append(backlog[path], c)
          /\ \A e \in Daemons \ {path} : backlog'[e] = backlog[e]
        BY <2>1, <2>3
    <2>5. /\ backlog'[path] \in Seq(Clients \cup Daemons)
          /\ IsIn(c, backlog'[path])
          /\ \A x : IsIn(x, backlog[path]) => IsIn(x, backlog'[path])
        BY <2>3, <2>4, AppendIsIn
    <2>6. ProcessInv'
        BY <2>1, <2>3 DEF IInv, ProcessInv
    <2>7. backlog' \in [Daemons -> Seq(Clients \cup Daemons)]
        BY <2>1, <2>3, <2>5, <2>4
    <2>8. ASSUME NEW x \in Clients, link'[x] = "queued"
          PROVE  peer'[x] \in listening /\ IsIn(x, backlog'[peer'[x]])
        <3>1. CASE x = c
            <4>1. peer'[x] = path
                BY <2>1, <3>1 DEF IInv, ProcessInv
            <4> QED
                BY <2>2, <2>5, <3>1, <4>1
        <3>2. CASE x # c
            <4>1. peer'[x] = peer[x] /\ link[x] = "queued"
                BY <2>1, <2>8, <3>2 DEF IInv, ProcessInv
            <4>2. peer[x] \in listening /\ IsIn(x, backlog[peer[x]])
                BY <4>1 DEF IInv, QueueInv
            <4>3. peer[x] \in Daemons
                BY <4>2 DEF IInv, SocketInv
            <4> QED
                BY <2>4, <2>5, <4>1, <4>2, <4>3
        <3> QED
            BY <3>1, <3>2
    <2>9. QueueInv'
        BY <1>1, <2>7, <2>8 DEF QueueInv
    <2>10. \A d \in Daemons : Holders(d)' \subseteq Holders(d)
        BY <2>1 DEF Holders, IInv, ProcessInv
    <2>11. RegisteredIsServed'
        BY <1>1, <2>10 DEF IInv, RegisteredIsServed
    <2> QED
        BY <1>2, <2>6, <2>9, <2>11 DEF IInv
<1>4. CASE ~Connect(c)
    <2>1. backlog' = backlog
        BY <1>4 DEF Load, ClientStep, End, Retry, ConnectFails, Receive, ReceiveFails, daemonVars
    <2>2. /\ ProcessInv'
          /\ \A x \in Clients : link'[x] = "queued" => link[x] = "queued" /\ peer'[x] = peer[x]
          /\ \A d \in Daemons : Holders(d)' \subseteq Holders(d)
        BY <1>4 DEF Load, ClientStep, End, Retry, ConnectFails, Receive, ReceiveFails, GivesUp,
                    Holders, IInv, ProcessInv
    <2>3. QueueInv'
        BY <1>1, <2>1, <2>2 DEF IInv, QueueInv
    <2>4. RegisteredIsServed'
        BY <1>1, <2>2 DEF IInv, RegisteredIsServed
    <2> QED
        BY <1>2, <2>2, <2>3, <2>4 DEF IInv
<1> QED
    BY <1>3, <1>4

--------------------------------------------------------------------------------
(* The daemon *)

\* A start leaves connections and handlers alone, and takes no daemon from the
\* state it serves in.
LEMMA SockIInv ==
    ASSUME IInv, NEW d \in Daemons, ProbePath(d) \/ BindPath(d) \/ OtherSteps(d)
    PROVE  IInv'
<1>1. UNCHANGED <<client, peer, link, ownFd, handler, atLimit>>
    BY DEF ProbePath, BindPath, OtherSteps, clientVars, daemonVars
<1>2. /\ SocketInv' /\ listening \subseteq listening'
      /\ \A e \in Daemons : sockPc[e] = "serving" => sockPc'[e] = "serving"
    BY SocketAssumption
    DEF Refused, Proceeds, ProbePath, BindPath, OtherSteps, Probe, Bind, StartDaemon, Unlink, Chmod, Listen, Goes,
        IInv, SocketInv
<1>3. backlog \in [Daemons -> Seq(Clients \cup Daemons)]
    BY DEF IInv, QueueInv
<1>4. /\ backlog' \in [Daemons -> Seq(Clients \cup Daemons)]
      /\ \A e \in listening : \A x : IsIn(x, backlog[e]) => IsIn(x, backlog'[e])
    <2>1. CASE backlog' = backlog
        BY <1>3, <2>1
    <2>2. CASE path \in listening /\ backlog' = [backlog EXCEPT ![path] = Append(backlog[path], d)]
        <3>1. path \in Daemons
            BY <2>2 DEF IInv, SocketInv
        <3>2. /\ backlog'[path] = Append(backlog[path], d)
              /\ \A e \in Daemons \ {path} : backlog'[e] = backlog[e]
            BY <1>3, <2>2, <3>1
        <3>3. /\ backlog'[path] \in Seq(Clients \cup Daemons)
              /\ \A x : IsIn(x, backlog[path]) => IsIn(x, backlog'[path])
            BY <1>3, <3>1, <3>2, AppendIsIn
        <3>4. listening \subseteq Daemons
            BY DEF IInv, SocketInv
        <3> QED
            BY <1>3, <2>2, <3>1, <3>2, <3>3, <3>4
    <2>3. CASE BindPath(d)
        <3>1. d \notin listening /\ backlog' = [backlog EXCEPT ![d] = <<>>]
            BY <2>3 DEF BindPath, Bind, IInv, SocketInv
        <3>2. \A e \in listening : backlog'[e] = backlog[e]
            BY <1>3, <3>1 DEF IInv, SocketInv
        <3> QED
            BY <1>3, <3>1, <3>2
    <2>4. ASSUME Refused(d) PROVE path \in listening
        BY <2>4 DEF Refused, PathIsFree, ConnectResult
    <2>5. ASSUME Proceeds(d, {}) \/ Proceeds(d, listening) PROVE sockPc'[d] # "down"
        BY <2>5 DEF Proceeds, Goes, IInv, SocketInv
    <2> QED
        BY <2>1, <2>2, <2>3, <2>4, <2>5 DEF ProbePath, Probe, OtherSteps, daemonVars
<1>5. SocketInv' /\ ProcessInv' /\ HandlerInv'
    BY <1>1, <1>2 DEF IInv, ProcessInv, HandlerInv
<1>6. QueueInv'
    BY <1>1, <1>2, <1>4 DEF IInv, QueueInv
<1>7. RegisteredIsServed'
    BY <1>1, <1>2 DEF IInv, RegisteredIsServed, Holders
<1> QED
    BY <1>5, <1>6, <1>7 DEF IInv

\* When a socket closes, the processes in its queue see their connection
\* closed, and those of another daemon do not.
LEMMA QueueClosed ==
    ASSUME SocketInv, ProcessInv, QueueInv, NEW d \in Daemons, QueueCloses(d),
           listening' = listening \ {d}
    PROVE  /\ backlog' \in [Daemons -> Seq(Clients \cup Daemons)]
           /\ link' \in [Clients -> {"none", "queued", "sent", "closed"}]
           /\ \A c \in Clients : link'[c] = "queued" =>
                  link[c] = "queued" /\ peer[c] \in listening' /\ IsIn(c, backlog'[peer[c]])
           /\ \A c \in Clients : link'[c] = "sent" <=> link[c] = "sent"
<1>1. /\ backlog' = [backlog EXCEPT ![d] = <<>>]
      /\ link' = [c \in Clients |-> IF peer[c] = d /\ link[c] = "queued" THEN "closed" ELSE link[c]]
    BY DEF QueueCloses
<1>2. \A e \in Daemons \ {d} : backlog'[e] = backlog[e]
    BY <1>1 DEF QueueInv
<1>3. ASSUME NEW c \in Clients, link'[c] = "queued"
      PROVE  link[c] = "queued" /\ peer[c] \in listening' /\ IsIn(c, backlog'[peer[c]])
    <2>1. link[c] = "queued" /\ peer[c] # d
        BY <1>1, <1>3
    <2>2. peer[c] \in listening /\ IsIn(c, backlog[peer[c]])
        BY <2>1 DEF QueueInv
    <2>3. peer[c] \in Daemons \ {d}
        BY <2>1, <2>2 DEF SocketInv
    <2> QED
        BY <1>2, <2>1, <2>2, <2>3
<1>4. backlog' \in [Daemons -> Seq(Clients \cup Daemons)]
    BY <1>1 DEF QueueInv
<1> QED
    BY <1>1, <1>3, <1>4 DEF ProcessInv

\* A daemon that comes up starts its handler; one that does not closes.
LEMMA InitializedIInv == ASSUME IInv, NEW d \in Daemons, Initialized(d) PROVE IInv'
<1>1. sockPc[d] = "init" /\ UNCHANGED <<client, peer, path>>
    BY DEF Initialized, InitDone
<1> atLimit' = atLimit
    BY DEF Initialized
<1>2. d \notin ownFd
    BY <1>1 DEF IInv, HandlerInv
<1>3. CASE sockPc' = [sockPc EXCEPT ![d] = "serving"] /\ listening' = listening
    <2>1. sockPc'[d] = "serving"
        BY <1>3 DEF IInv, SocketInv
    <2>2. PICK h \in {"running", "failed"} :
              ownFd' = ownFd \cup {d} /\ handler' = [handler EXCEPT ![d] = h]
              /\ UNCHANGED <<backlog, link>>
        BY <2>1 DEF Initialized
    <2>3. SocketInv' /\ ProcessInv' /\ HandlerInv' /\ QueueInv'
        BY <1>1, <1>3, <2>2 DEF IInv, SocketInv, ProcessInv, HandlerInv, QueueInv
    <2>4. RegisteredIsServed'
        BY <1>1, <1>3, <2>1, <2>2 DEF IInv, RegisteredIsServed, Holders, SocketInv, HandlerInv
    <2> QED
        BY <2>3, <2>4 DEF IInv
<1>4. CASE sockPc' = [sockPc EXCEPT ![d] = "down"] /\ listening' = listening \ {d}
    <2>1. sockPc'[d] # "serving"
        BY <1>4 DEF IInv, SocketInv
    <2>2. QueueCloses(d) /\ UNCHANGED <<ownFd, handler>>
        BY <2>1 DEF Initialized
    <2>3. /\ backlog' \in [Daemons -> Seq(Clients \cup Daemons)]
          /\ link' \in [Clients -> {"none", "queued", "sent", "closed"}]
          /\ \A c \in Clients : link'[c] = "queued" =>
                 link[c] = "queued" /\ peer[c] \in listening' /\ IsIn(c, backlog'[peer[c]])
          /\ \A c \in Clients : link'[c] = "sent" <=> link[c] = "sent"
        BY <1>4, <2>2, QueueClosed DEF IInv
    <2>4. SocketInv' /\ ProcessInv' /\ HandlerInv' /\ QueueInv'
        BY <1>1, <1>2, <1>4, <2>2, <2>3 DEF IInv, SocketInv, ProcessInv, HandlerInv, QueueInv
    <2>5. RegisteredIsServed'
        BY <1>1, <1>4, <2>2, <2>3 DEF IInv, RegisteredIsServed, Holders, SocketInv
    <2> QED
        BY <2>4, <2>5 DEF IInv
<1> QED
    BY <1>3, <1>4 DEF Initialized, InitDone, Goes

\* What the daemon shares makes a holder, while its handler runs.
LEMMA AcceptIInv == ASSUME IInv, NEW d \in Daemons, AcceptAndShareSocket(d) PROVE IInv'
<1> DEFINE c == Head(backlog[d])
<1>1. /\ sockPc[d] = "serving" /\ d \in ownFd /\ backlog[d] # <<>>
      /\ backlog' = [backlog EXCEPT ![d] = Tail(backlog[d])]
      /\ \/ /\ c \in Clients /\ peer[c] = d
            /\ \E result \in {"sent", "closed"} : link' = [link EXCEPT ![c] = result]
         \/ ~(c \in Clients /\ peer[c] = d /\ link[c] = "queued") /\ link' = link
      /\ UNCHANGED <<sockPc, path, listening, client, peer, ownFd, handler, atLimit>>
    BY DEF AcceptAndShareSocket, InLoop, SendResults, sockVars
<1>2. backlog \in [Daemons -> Seq(Clients \cup Daemons)]
    BY DEF IInv, QueueInv
<1>3. /\ Tail(backlog[d]) \in Seq(Clients \cup Daemons)
      /\ \A x : IsIn(x, backlog[d]) /\ x # c => IsIn(x, Tail(backlog[d]))
    BY <1>1, <1>2, TailIsIn
<1>4. /\ backlog'[d] = Tail(backlog[d])
      /\ \A e \in Daemons \ {d} : backlog'[e] = backlog[e]
    BY <1>1, <1>2
<1> HIDE DEF c
<1>5. SocketInv' /\ ProcessInv' /\ HandlerInv'
    BY <1>1 DEF IInv, SocketInv, ProcessInv, HandlerInv
<1>6. QueueInv'
    <2>1. ASSUME NEW x \in Clients, link'[x] = "queued"
          PROVE  peer[x] \in listening /\ IsIn(x, backlog'[peer[x]])
        <3>1. link[x] = "queued" /\ (peer[x] = d => x # c)
            BY <1>1, <2>1 DEF IInv, ProcessInv
        <3>2. peer[x] \in listening /\ IsIn(x, backlog[peer[x]])
            BY <3>1 DEF IInv, QueueInv
        <3>3. peer[x] \in Daemons
            BY <3>2 DEF IInv, SocketInv
        <3> QED
            BY <1>3, <1>4, <3>1, <3>2, <3>3
    <2>2. backlog' \in [Daemons -> Seq(Clients \cup Daemons)]
        BY <1>1, <1>2, <1>3
    <2> QED
        BY <1>1, <2>1, <2>2 DEF QueueInv
<1>7. \A e \in Daemons \ {d} : Holders(e)' \subseteq Holders(e)
    BY <1>1 DEF Holders, IInv, ProcessInv
<1>8. RegisteredIsServed'
    BY <1>1, <1>7 DEF IInv, RegisteredIsServed, HandlerInv
<1> QED
    BY <1>5, <1>6, <1>8 DEF IInv

\* The handler leaves when nobody holds the descriptor, and the daemon when the
\* handler has left or never came up.
LEMMA ShutdownIInv ==
    ASSUME IInv, NEW d \in Daemons, LeaveLoop(d) \/ HandlerExit(d) \/ JoinHandler(d) \/ LimitChanges(d)
    PROVE  IInv'
<1>1. UNCHANGED <<client, peer, link, backlog, path, listening>>
    BY DEF LeaveLoop, HandlerExit, JoinHandler, LimitChanges, ShutDown, clientVars, daemonVars, sockVars
<1>2. ProcessInv' /\ QueueInv' /\ \A e \in Daemons : Holders(e)' = Holders(e)
    BY <1>1 DEF IInv, ProcessInv, QueueInv, Holders
<1>3. CASE LeaveLoop(d)
    <2>1. ownFd' = ownFd \ {d} /\ atLimit' = atLimit \ {d} /\ UNCHANGED <<sockPc, handler>>
        BY <1>3 DEF LeaveLoop, sockVars
    <2> QED
        BY <1>1, <1>2, <2>1 DEF IInv, SocketInv, HandlerInv, RegisteredIsServed
<1>4. CASE HandlerExit(d)
    <2>1. /\ handler' = [handler EXCEPT ![d] = "exited"] /\ UNCHANGED <<sockPc, ownFd, atLimit>>
          /\ d \notin ownFd /\ Holders(d) = {}
        BY <1>4 DEF HandlerExit, sockVars
    <2> QED
        BY <1>1, <1>2, <2>1 DEF IInv, SocketInv, HandlerInv, RegisteredIsServed
<1>5. CASE JoinHandler(d)
    <2>1. /\ sockPc' = [sockPc EXCEPT ![d] = "ending"] /\ UNCHANGED <<handler, ownFd, atLimit>>
          /\ d \notin ownFd /\ handler[d] # "running"
        BY <1>5 DEF JoinHandler, ShutDown, Goes, InLoop, HandlerJoined, daemonVars
    <2> QED
        BY <1>1, <1>2, <2>1 DEF IInv, SocketInv, HandlerInv, RegisteredIsServed
<1>6. CASE LimitChanges(d)
    BY <1>1, <1>2, <1>6
    DEF LimitChanges, InLoop, sockVars, IInv, SocketInv, HandlerInv, RegisteredIsServed
<1> QED
    BY <1>3, <1>4, <1>5, <1>6

\* With the daemon go its socket and its handler: who held the descriptor holds
\* nothing of a daemon that lives.
LEMMA GoneIInv ==
    ASSUME IInv, NEW d \in Daemons, QueueCloses(d), HandlerGone(d),
           sockPc' = [sockPc EXCEPT ![d] = "down"], listening' = listening \ {d},
           path' \in {path, NoSocket}, client' = client, ownFd' = ownFd \ {d},
           atLimit' = atLimit \ {d}
    PROVE  IInv'
<1>1. /\ backlog' \in [Daemons -> Seq(Clients \cup Daemons)]
      /\ link' \in [Clients -> {"none", "queued", "sent", "closed"}]
      /\ \A c \in Clients : link'[c] = "queued" =>
             link[c] = "queued" /\ peer[c] \in listening' /\ IsIn(c, backlog'[peer[c]])
      /\ \A c \in Clients : link'[c] = "sent" <=> link[c] = "sent"
    BY QueueClosed DEF IInv
<1>2. /\ handler' = [handler EXCEPT ![d] = "none"]
      /\ peer' = [c \in Clients |-> IF c \in Holders(d) THEN NoSocket ELSE peer[c]]
    BY DEF HandlerGone
<1>3. SocketInv' /\ ProcessInv' /\ HandlerInv'
    BY <1>1, <1>2 DEF IInv, SocketInv, ProcessInv, HandlerInv
<1>4. ASSUME NEW c \in Clients, link'[c] = "queued"
      PROVE  peer'[c] \in listening' /\ IsIn(c, backlog'[peer'[c]])
    <2>1. peer[c] # d
        BY <1>1, <1>4
    <2>2. peer'[c] = peer[c]
        BY <1>2, <2>1 DEF Holders
    <2> QED
        BY <1>1, <1>4, <2>2
<1>5. QueueInv'
    BY <1>1, <1>4 DEF QueueInv
<1>6. /\ Holders(d)' = {}
      /\ \A e \in Daemons : Holders(e)' \subseteq Holders(e)
    BY <1>1, <1>2, SocketAssumption DEF Holders
<1>7. RegisteredIsServed'
    BY <1>2, <1>6 DEF IInv, RegisteredIsServed, SocketInv, HandlerInv
<1> QED
    BY <1>3, <1>5, <1>7 DEF IInv

\* The end of the function and a kill.
LEMMA LeaveIInv ==
    ASSUME IInv, NEW d \in Daemons, Leave(d) \/ KillsDaemon(d)
    PROVE  IInv'
<1>1. CASE KillsDaemon(d)
    BY <1>1, GoneIInv DEF KillsDaemon, KillDaemon, Goes
<1>2. CASE Leave(d) /\ sockPc[d] = "ending"
    <2>1. sockPc' = [sockPc EXCEPT ![d] = "unlinked"] /\ path' = NoSocket /\ listening' = listening
        BY <1>2 DEF Leave, EndOfRun, UnlinkThenClose, Goes
    <2>2. sockPc'[d] # "down"
        BY <2>1 DEF IInv, SocketInv
    <2>3. UNCHANGED <<backlog, link, handler, peer, client, ownFd, atLimit>>
        BY <1>2, <2>2 DEF Leave
    <2> QED
        BY <1>2, <2>1, <2>3
        DEF IInv, SocketInv, ProcessInv, HandlerInv, QueueInv, RegisteredIsServed, Holders
<1>3. CASE Leave(d) /\ sockPc[d] = "unlinked"
    <2>1. /\ sockPc' = [sockPc EXCEPT ![d] = "down"] /\ path' = path
          /\ listening' = listening \ {d}
        BY <1>3 DEF Leave, EndOfRun, UnlinkThenClose, Goes
    <2>2. sockPc'[d] = "down"
        BY <2>1 DEF IInv, SocketInv
    <2>3. d \notin ownFd /\ d \notin atLimit
        BY <1>3 DEF IInv, HandlerInv
    <2>4. /\ QueueCloses(d) /\ HandlerGone(d) /\ client' = client
          /\ ownFd' = ownFd \ {d} /\ atLimit' = atLimit \ {d}
        BY <1>3, <2>2, <2>3 DEF Leave
    <2> QED
        BY <2>1, <2>4, GoneIInv
<1> QED
    BY <1>1, <1>2, <1>3 DEF Leave, EndOfRun, UnlinkThenClose

--------------------------------------------------------------------------------
\* Every step of a process or a daemon preserves the invariant.
LEMMA StepIInv == IInv /\ [Next]_vars => IInv'
<1> SUFFICES ASSUME IInv, [Next]_vars PROVE IInv'
    OBVIOUS
<1>1. ASSUME NEW c \in Clients, Load(c) \/ ClientStep(c) \/ End(c) PROVE IInv'
    BY <1>1, ClientIInv
<1>2. ASSUME NEW d \in Daemons,
             DaemonStep(d) \/ LeaveLoop(d) \/ HandlerExit(d) \/ KillsDaemon(d) \/ LimitChanges(d)
      PROVE  IInv'
    BY <1>2, SockIInv, InitializedIInv, AcceptIInv, ShutdownIInv, LeaveIInv DEF DaemonStep
<1>3. CASE UNCHANGED vars
    BY <1>3 DEF vars, sockVars, clientVars, daemonVars, IInv, SocketInv, ProcessInv, HandlerInv,
                QueueInv, RegisteredIsServed, Holders
<1> QED
    BY <1>1, <1>2, <1>3 DEF Next

\* A process with the descriptor of a daemon that lives has a handler, through
\* the whole shutdown (the ownership of the shared client end in RunWatcher).
THEOREM RegistrationRegisteredIsServed == Spec => []RegisteredIsServed
<1>1. IInv => RegisteredIsServed
    BY DEF IInv
<1> QED
    BY InitIInv, StepIInv, <1>1, PTL DEF Spec

\* A process waits for an answer only in the queue of a socket that is open
\* (DoInit against the end of RunWatcher).
THEOREM RegistrationWaitsOnLiveQueue == Spec => []WaitsOnLiveQueue
<1>1. IInv => WaitsOnLiveQueue
    <2> SUFFICES ASSUME IInv, NEW c \in Clients, link[c] = "queued"
                 PROVE  /\ peer[c] \in listening
                        /\ c \in {backlog[peer[c]][i] : i \in DOMAIN backlog[peer[c]]}
        BY DEF WaitsOnLiveQueue
    <2>1. peer[c] \in listening /\ IsIn(c, backlog[peer[c]])
        BY DEF IInv, QueueInv
    <2>2. backlog[peer[c]] \in Seq(Clients \cup Daemons)
        BY <2>1 DEF IInv, SocketInv, QueueInv
    <2>3. DOMAIN backlog[peer[c]] = 1..Len(backlog[peer[c]])
        BY <2>2
    <2> QED
        BY <2>1, <2>3 DEF IsIn
<1> QED
    BY InitIInv, StepIInv, <1>1, PTL DEF Spec

\* The processes, the queues and the shutdown add no step to the socket that
\* CreateListenSocket and the end of RunWatcher do not have.
LEMMA StepIsSocketStep == [Next]_vars => [SockNext]_sockVars
<1> SUFFICES ASSUME [Next]_vars PROVE SockNext \/ UNCHANGED sockVars
    OBVIOUS
<1>1. CASE UNCHANGED vars
    BY <1>1 DEF vars
<1>2. ASSUME NEW c \in Clients, Load(c) \/ ClientStep(c) \/ End(c) PROVE UNCHANGED sockVars
    BY <1>2 DEF Load, ClientStep, End, Connect, Retry, ConnectFails, Receive, ReceiveFails
<1>3. ASSUME NEW d \in Daemons,
             DaemonStep(d) \/ LeaveLoop(d) \/ HandlerExit(d) \/ KillsDaemon(d) \/ LimitChanges(d)
      PROVE  Create(d) \/ ShutDown(d) \/ EndOfRun(d) \/ KillDaemon(d) \/ UNCHANGED sockVars
    BY <1>3 DEF DaemonStep, ProbePath, BindPath, OtherSteps, Initialized, AcceptAndShareSocket,
                JoinHandler, Leave, LeaveLoop, HandlerExit, KillsDaemon, LimitChanges, Create
<1> QED
    BY <1>1, <1>2, <1>3 DEF Next, SockNext

\* So what is proved of the socket alone (CreateListenSocket and the end of
\* RunWatcher) holds of the daemon with its processes and queues.
THEOREM RegistrationImplementsSocket == Spec => SockSpec
<1>1. Init => SockInit
    BY DEF Init
<1> QED
    BY StepIsSocketStep, <1>1, PTL DEF Spec, SockSpec

\* The rest of the state: a retry is counted only while one is left.
BudgetInv == budget \in [Clients -> Nat] /\ \A c \in Clients : budget[c] <= Retries[c]

LEMMA StepBudgetInv == BudgetInv /\ [Next]_vars => BudgetInv'
<1> SUFFICES ASSUME BudgetInv, [Next]_vars PROVE BudgetInv'
    OBVIOUS
<1>1. ASSUME NEW c \in Clients, Retry(c) PROVE BudgetInv'
    <2>1. Retries[c] \in Nat /\ budget[c] \in Nat /\ budget[c] > 0 /\ budget[c] <= Retries[c]
        BY <1>1, RegistrationAssumption DEF Retry, BudgetInv
    <2>2. budget[c] - 1 \in Nat /\ budget[c] - 1 <= Retries[c]
        BY <2>1
    <2> QED
        BY <1>1, <2>2 DEF Retry, BudgetInv
<1>2. ASSUME NEW c \in Clients, Load(c) \/ ClientStep(c) \/ End(c), ~Retry(c) PROVE BudgetInv'
    BY <1>2 DEF Load, ClientStep, Connect, ConnectFails, Receive, ReceiveFails, End, BudgetInv
<1>3. ASSUME NEW d \in Daemons,
             DaemonStep(d) \/ LeaveLoop(d) \/ HandlerExit(d) \/ KillsDaemon(d) \/ LimitChanges(d)
      PROVE  BudgetInv'
    BY <1>3 DEF DaemonStep, ProbePath, BindPath, OtherSteps, Initialized, AcceptAndShareSocket,
                JoinHandler, Leave, LeaveLoop, HandlerExit, KillsDaemon, LimitChanges, clientVars,
                BudgetInv
<1>4. CASE UNCHANGED vars
    BY <1>4 DEF vars, clientVars, BudgetInv
<1> QED
    BY <1>1, <1>2, <1>3, <1>4 DEF Next

\* Every variable keeps to its values; the budget of DoInit's retries never
\* goes below zero.
THEOREM RegistrationTypeOK == Spec => []TypeOK
<1>1. Init => BudgetInv
    BY RegistrationAssumption DEF Init, BudgetInv
<1>2. IInv /\ BudgetInv /\ StartInv => TypeOK
    BY DEF IInv, BudgetInv, StartInv, TypeOK, ProcessInv, HandlerInv, QueueInv
<1>3. Init => StartInv
    BY InitStartInv DEF Init
<1> QED
    BY InitIInv, StepIInv, StepBudgetInv, StepStartInv, StepIsSocketStep, <1>1, <1>2, <1>3, PTL
    DEF Spec
================================================================================
