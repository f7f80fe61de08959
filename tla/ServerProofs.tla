---------------------------- MODULE ServerProofs ----------------------------
(***************************************************************************)
(* Proofs about SocketServer, for any clients, number of polls and, but    *)
(* for one theorem, any moments at which workers may be signalled: the     *)
(* safety properties of ServerSafety.                                      *)
(***************************************************************************)
EXTENDS ServerSafety, SequenceTheorems, TLAPS

(* A queue in which nobody is twice.                                       *)
Single(s) == \A i, j \in 1..Len(s) : s[i] = s[j] => i = j

LEMMA Joined ==
  ASSUME NEW S, NEW s \in Seq(S), NEW e \in S, Single(s), ~Contains(s, e)
  PROVE  /\ Append(s, e) \in Seq(S) /\ Single(Append(s, e))
         /\ \A x \in S : Contains(Append(s, e), x) <=> Contains(s, x) \/ x = e
<1>1. /\ Append(s, e) \in Seq(S) /\ Len(Append(s, e)) = Len(s) + 1 /\ Len(s) \in Nat
      /\ \A i \in 1..Len(s) : Append(s, e)[i] = s[i]
      /\ Append(s, e)[Len(s) + 1] = e
  BY AppendProperties
<1>2. 1..(Len(s) + 1) = 1..Len(s) \cup {Len(s) + 1}
  BY <1>1
<1>3. Single(Append(s, e))
  BY <1>1, <1>2 DEF Single, Contains
<1>4. \A x \in S : Contains(Append(s, e), x) <=> Contains(s, x) \/ x = e
  BY <1>1, <1>2 DEF Contains
<1>. QED
  BY <1>1, <1>3, <1>4

LEMMA Advanced ==
  ASSUME NEW S, NEW s \in Seq(S), s # <<>>, Single(s)
  PROVE  /\ Head(s) \in S /\ Contains(s, Head(s))
         /\ Tail(s) \in Seq(S) /\ Single(Tail(s))
         /\ \A x \in S : Contains(Tail(s), x) <=> Contains(s, x) /\ x # Head(s)
<1>1. /\ Head(s) \in S /\ Tail(s) \in Seq(S) /\ Len(Tail(s)) = Len(s) - 1
      /\ \A i \in 1..Len(Tail(s)) : Tail(s)[i] = s[i + 1]
  BY HeadTailProperties
<1>2. Len(s) \in Nat /\ Len(s) >= 1 /\ Head(s) = s[1]
  OBVIOUS
<1>3. Single(Tail(s))
  BY <1>1, <1>2 DEF Single
<1>4. ASSUME NEW x \in S, Contains(Tail(s), x) PROVE Contains(s, x) /\ x # Head(s)
  <2>1. PICK i \in 1..Len(Tail(s)) : Tail(s)[i] = x
    BY <1>4 DEF Contains
  <2>2. i + 1 \in 1..Len(s) /\ s[i + 1] = x /\ i + 1 # 1 /\ 1 \in 1..Len(s)
    BY <1>1, <1>2, <2>1
  <2>. QED
    BY <1>2, <2>2 DEF Contains, Single
<1>5. ASSUME NEW x \in S, Contains(s, x), x # Head(s) PROVE Contains(Tail(s), x)
  <2>1. PICK i \in 1..Len(s) : s[i] = x
    BY <1>5 DEF Contains
  <2>2. i # 1 /\ i \in Nat
    BY <1>2, <1>5, <2>1
  <2>3. i - 1 \in 1..Len(Tail(s)) /\ (i - 1) + 1 = i
    BY <1>1, <1>2, <2>2
  <2>4. Tail(s)[i - 1] = x
    BY <1>1, <2>1, <2>3
  <2>. QED
    BY <2>3, <2>4 DEF Contains
<1>6. Contains(s, Head(s))
  BY <1>2 DEF Contains
<1>. QED
  BY <1>1, <1>3, <1>4, <1>5, <1>6

LEMMA Emptied ==
  /\ \A S : <<>> \in Seq(S)
  /\ Single(<<>>) /\ \A x : ~Contains(<<>>, x)
<1>1. Len(<<>>) = 0
  OBVIOUS
<1>. QED
  BY <1>1 DEF Single, Contains

LEMMA Queueing ==
  ASSUME NEW S, NEW s \in Seq(S)
  PROVE  \A x : x \in ToSet(s) <=> Contains(s, x)
  BY DEF ToSet, Contains

-----------------------------------------------------------------------------
(* The inductive invariant.                                                *)
Ranges ==
    /\ socketFile \in BOOLEAN /\ running \in BOOLEAN /\ sigterm \in BOOLEAN
    /\ listener \in {"none", "starting", "bound", "listening", "accepting", "forking", "exited"}
    /\ backlog \in Seq(Client) /\ peer \in SUBSET Client
    /\ client \in [Client -> {"new", "polling", "connecting", "connected", "failed",
                              "closed", "terminating", "cleaning", "stopped"}]
    /\ polls \in 0..MaxPolls
    /\ connection \in [Client -> {"none", "queued", "accepted", "open", "reset"}]
    /\ request \in [Client -> {"none", "sent", "answered"}]
    /\ worker \in [Client -> {"none", "forked", "quiet", "loop", "tested", "reading",
                              "handling", "exiting", "exited"}]
    /\ childRunning \in [Client -> BOOLEAN]
    /\ exitFlag \in [Client -> BOOLEAN]
    /\ signalled \in SUBSET Client

(* A connection is in one place: the backlog, the listener's hands, or     *)
(* those of a worker.                                                      *)
Queued ==
    /\ Single(backlog)
    /\ \A c \in Client : connection[c] = "queued" <=> Contains(backlog, c)
Passed ==
    /\ IF listener = "forking" THEN \E c \in Client : peer = {c} ELSE peer = {}
    /\ \A c \in Client : connection[c] = "accepted" <=> c \in peer
Served ==
    \A c \in Client : /\ connection[c] = "open" => worker[c] # "none"
                      /\ worker[c] # "none" => connection[c] \in {"open", "reset"}
                      /\ connection[c] = "reset" => worker[c] \in {"none", "exited"}

(* A client has one connection in its life, and is connected as long as it *)
(* waits for a response.                                                   *)
Asking ==
    \A c \in Client : /\ client[c] \in {"new", "polling", "connecting"} => connection[c] = "none"
                      /\ request[c] # "none" => client[c] = "connected"
                      /\ worker[c] = "handling" => request[c] = "sent"

(* The listener is not older than its owner, and does not survive it.      *)
Owned ==
    /\ running => listener \in {"accepting", "forking"}
    /\ client[Owner] = "new" => listener = "none"
    /\ client[Owner] \in {"cleaning", "stopped"} => listener = "exited"
    /\ client[Owner] = "stopped" => ~socketFile

ServerInv == Ranges /\ Queued /\ Passed /\ Served /\ Asking /\ Owned

LEMMA InvTypes ==
  ServerInv => TypeOK
  BY DEF ServerInv, Ranges, Queued, Passed, Served, Asking, Owned, TypeOK

LEMMA InitHolds ==
  Init => ServerInv
<1>. SUFFICES ASSUME Init PROVE ServerInv
  OBVIOUS
<1>1. Ranges
  <2>1. backlog \in Seq(Client) /\ peer \in SUBSET Client /\ signalled \in SUBSET Client
    BY DEF Init
  <2>2. polls \in 0..MaxPolls
    BY ServerAssumption DEF Init
  <2>. QED
    BY <2>1, <2>2 DEF Init, Ranges
<1>2. Queued /\ Passed
  BY Emptied DEF Init, Queued, Passed
<1>. QED
  BY <1>1, <1>2, ServerAssumption DEF Init, ServerInv, Served, Asking, Owned

LEMMA NextHolds ==
  ServerInv /\ [Next]_vars => ServerInv'
<1>. SUFFICES ASSUME ServerInv, [Next]_vars PROVE ServerInv'
  OBVIOUS
<1>. USE DEF ServerInv, Ranges, Queued, Passed, Served, Asking, Owned, listening, calling, working, vars
<1>1. CASE Spawn
  BY <1>1, ServerAssumption DEF Spawn
<1>2. CASE PollAgain
  BY <1>2, ServerAssumption DEF PollAgain
<1>3. CASE Terminate
  BY <1>3, ServerAssumption DEF Terminate
<1>4. CASE Awaited
  BY <1>4, ServerAssumption DEF Awaited
<1>5. CASE Kill
  <2>1. /\ listener' = "exited" /\ ~running' /\ backlog' = <<>> /\ peer' = {}
        /\ client' = [client EXCEPT ![Owner] = "cleaning"] /\ client[Owner] = "terminating"
        /\ connection' = Dropped(ToSet(backlog) \cup peer)
        /\ UNCHANGED <<socketFile, polls, request, worker, childRunning, exitFlag, signalled>>
        /\ sigterm' = FALSE /\ running' = FALSE
    BY <1>5 DEF Kill
  <2>2. \A c \in Client : connection'[c] = IF connection[c] \in {"queued", "accepted"}
                                          THEN "reset" ELSE connection[c]
    BY <2>1, Queueing DEF Dropped
  <2>3. backlog' \in Seq(Client) /\ Single(backlog') /\ \A c \in Client : ~Contains(backlog', c)
    BY <2>1, Emptied
  <2>4. connection' \in [Client -> {"none", "queued", "accepted", "open", "reset"}]
    BY <2>1, <2>2 DEF Dropped
  <2>5. Ranges'
    BY <2>1, <2>3, <2>4
  <2>6. Queued' /\ Passed'
    BY <2>1, <2>2, <2>3
  <2>7. Served'
    BY <2>1, <2>2
  <2>8. Asking'
    <3>. SUFFICES ASSUME NEW c \in Client
                  PROVE  /\ client'[c] \in {"new", "polling", "connecting"} => connection'[c] = "none"
                         /\ request'[c] # "none" => client'[c] = "connected"
                         /\ worker'[c] = "handling" => request'[c] = "sent"
      OBVIOUS
    <3>1. CASE c = Owner
      <4>1. client'[c] = "cleaning" /\ request[c] = "none" /\ request' = request /\ worker' = worker
        BY <2>1, <3>1
      <4>. QED
        BY <4>1
    <3>2. CASE c # Owner
      <4>1. /\ client'[c] = client[c] /\ request' = request /\ worker' = worker
            /\ connection[c] = "none" => connection'[c] = "none"
        BY <2>1, <2>2, <3>2
      <4>. QED
        BY <4>1
    <3>. QED
      BY <3>1, <3>2
  <2>9. Owned'
    BY <2>1
  <2>. QED
    BY <2>5, <2>6, <2>7, <2>8, <2>9
<1>6. CASE Cleanup
  <2>1. /\ client[Owner] = "cleaning" /\ client' = [client EXCEPT ![Owner] = "stopped"]
        /\ ~socketFile' /\ socketFile' \in BOOLEAN
        /\ UNCHANGED <<listening, polls, request, connection, working>>
    BY <1>6 DEF Cleanup
  <2>2. Ranges' /\ Queued' /\ Passed' /\ Served'
    BY <2>1
  <2>3. Asking'
    BY <2>1
  <2>4. Owned'
    BY <2>1
  <2>. QED
    BY <2>2, <2>3, <2>4
<1>7. CASE Bind
  BY <1>7, ServerAssumption DEF Bind
<1>8. CASE Listen
  BY <1>8, ServerAssumption DEF Listen
<1>9. CASE FailToStart
  BY <1>9, ServerAssumption DEF FailToStart
<1>10. CASE Run
  BY <1>10, ServerAssumption DEF Run
<1>11. CASE HandleSignal
  <2>1. CASE ~running
    <3>1. /\ sigterm' = FALSE
          /\ UNCHANGED <<running, socketFile, backlog, connection, listener, peer, calling, working>>
      BY <1>11, <2>1 DEF HandleSignal
    <3>2. Ranges'
      BY <3>1
    <3>3. Queued' /\ Passed' /\ Served' /\ Asking' /\ Owned'
      BY <3>1
    <3>. QED
      BY <3>2, <3>3
  <2>2. CASE running
    <3>1. /\ running' = FALSE /\ socketFile' = FALSE /\ sigterm' = FALSE /\ backlog' = <<>>
          /\ connection' = Dropped(ToSet(backlog))
          /\ UNCHANGED <<listener, peer, calling, working>>
      BY <1>11, <2>2 DEF HandleSignal
    <3>2. \A c \in Client : connection'[c] = IF connection[c] = "queued" THEN "reset" ELSE connection[c]
      BY <3>1, Queueing DEF Dropped
    <3>3. backlog' \in Seq(Client) /\ Single(backlog') /\ \A c \in Client : ~Contains(backlog', c)
      BY <3>1, Emptied
    <3>4. connection' \in [Client -> {"none", "queued", "accepted", "open", "reset"}]
      BY <3>1, <3>2 DEF Dropped
    <3>5. Ranges'
      BY <3>1, <3>3, <3>4
    <3>6. Queued' /\ Passed'
      BY <3>1, <3>2, <3>3
    <3>7. Served' /\ Asking'
      BY <3>1, <3>2
    <3>8. Owned'
      BY <3>1
    <3>. QED
      BY <3>5, <3>6, <3>7, <3>8
  <2>. QED
    BY <2>1, <2>2
<1>12. CASE Accept
  <2> DEFINE first == Head(backlog)
  <2>1. /\ first \in Client /\ Contains(backlog, first)
        /\ Tail(backlog) \in Seq(Client) /\ Single(Tail(backlog))
        /\ \A c \in Client : Contains(Tail(backlog), c) <=> Contains(backlog, c) /\ c # first
    BY <1>12, Advanced DEF Accept
  <2>2. /\ listener = "accepting" /\ running /\ listener' = "forking"
        /\ peer' = {first} /\ backlog' = Tail(backlog)
        /\ connection' = [connection EXCEPT ![first] = "accepted"]
        /\ UNCHANGED <<socketFile, running, sigterm, calling, working>>
    BY <1>12 DEF Accept
  <2>. HIDE DEF first
  <2>3. connection[first] = "queued"
    BY <2>1
  <2>4. Ranges'
    BY <2>1, <2>2
  <2>5. Queued' /\ Passed'
    BY <2>1, <2>2
  <2>6. Served' /\ Asking'
    BY <2>1, <2>2, <2>3
  <2>7. Owned'
    BY <2>2
  <2>. QED
    BY <2>4, <2>5, <2>6, <2>7
<1>13. CASE Fork
  BY <1>13, ServerAssumption DEF Fork
<1>14. CASE ForkFails
  <2>1. /\ listener = "forking" /\ listener' = "accepting" /\ peer' = {}
        /\ connection' = Dropped(peer)
        /\ UNCHANGED <<socketFile, running, sigterm, backlog, calling, working>>
    BY <1>14 DEF ForkFails
  <2>2. /\ connection' \in [Client -> {"none", "queued", "accepted", "open", "reset"}]
        /\ \A c \in Client : connection'[c] = IF c \in peer THEN "reset" ELSE connection[c]
    BY <2>1 DEF Dropped
  <2>3. Ranges'
    BY <2>1, <2>2
  <2>4. Queued' /\ Passed'
    BY <2>1, <2>2
  <2>5. Served' /\ Asking'
    BY <2>1, <2>2
  <2>6. Owned'
    BY <2>1
  <2>. QED
    BY <2>3, <2>4, <2>5, <2>6
<1>15. CASE Exit
  BY <1>15, ServerAssumption DEF Exit
<1>16. ASSUME NEW c \in Client, SeeSocket(c) PROVE ServerInv'
  BY <1>16, ServerAssumption DEF SeeSocket, To, Hung
<1>17. ASSUME NEW c \in Client, GiveUp(c) PROVE ServerInv'
  BY <1>17, ServerAssumption DEF GiveUp, To, Hung
<1>18. ASSUME NEW c \in Client, Connect(c) PROVE ServerInv'
  <2>1. CASE ~(socketFile /\ Accepts)
    BY <1>18, <2>1, ServerAssumption DEF Connect
  <2>2. CASE socketFile /\ Accepts
    <3>1. /\ client[c] = "connecting" /\ client' = [client EXCEPT ![c] = "connected"]
          /\ connection' = [connection EXCEPT ![c] = "queued"] /\ backlog' = Append(backlog, c)
          /\ UNCHANGED <<socketFile, listener, running, sigterm, peer, polls, request, working>>
      BY <1>18, <2>2 DEF Connect
    <3>2. connection[c] = "none" /\ worker[c] = "none" /\ ~Contains(backlog, c) /\ c \notin peer
      BY <3>1
    <3>3. /\ backlog' \in Seq(Client) /\ Single(backlog')
          /\ \A d \in Client : Contains(backlog', d) <=> Contains(backlog, d) \/ d = c
      BY <3>1, <3>2, Joined
    <3>4. Ranges'
      BY <3>1, <3>3
    <3>5. Queued' /\ Passed'
      BY <3>1, <3>2, <3>3
    <3>6. Served' /\ Asking'
      BY <3>1, <3>2
    <3>7. Owned'
      BY <3>1, ServerAssumption
    <3>. QED
      BY <3>4, <3>5, <3>6, <3>7
  <2>. QED
    BY <2>1, <2>2
<1>19. ASSUME NEW c \in Client, Send(c) PROVE ServerInv'
  BY <1>19, ServerAssumption DEF Send, To, Hung
<1>20. ASSUME NEW c \in Client, Return(c) PROVE ServerInv'
  BY <1>20, ServerAssumption DEF Return, To, Hung
<1>21. ASSUME NEW c \in Client, Stop(c) PROVE ServerInv'
  BY <1>21, ServerAssumption DEF Stop, To, Hung
<1>22. ASSUME NEW c \in Client, Disown(c) PROVE ServerInv'
  BY <1>22, ServerAssumption DEF Disown, To, Hung
<1>23. ASSUME NEW c \in Client, InstallHandler(c) PROVE ServerInv'
  BY <1>23, ServerAssumption DEF InstallHandler, To, Hung
<1>24. ASSUME NEW c \in Client, TestFlag(c) PROVE ServerInv'
  BY <1>24, ServerAssumption DEF TestFlag, To, Hung
<1>25. ASSUME NEW c \in Client, Read(c) PROVE ServerInv'
  BY <1>25, ServerAssumption DEF Read, To, Hung
<1>26. ASSUME NEW c \in Client, Receive(c) PROVE ServerInv'
  BY <1>26, ServerAssumption DEF Receive, To, Hung
<1>27. ASSUME NEW c \in Client, Respond(c) PROVE ServerInv'
  BY <1>27, ServerAssumption DEF Respond, To, Hung
<1>28. ASSUME NEW c \in Client, End(c) PROVE ServerInv'
  BY <1>28, ServerAssumption DEF End, To, Hung
<1>29. ASSUME NEW c \in Client, Signal(c) PROVE ServerInv'
  <2>1. CASE worker[c] \in {"forked", "quiet"}
    <3>1. /\ childRunning' = [childRunning EXCEPT ![c] = FALSE]
          /\ signalled' = signalled \cup {c}
          /\ socketFile' = (socketFile /\ ~childRunning[c])
          /\ UNCHANGED <<worker, exitFlag, listening, calling, connection>>
      BY <1>29, <2>1 DEF Signal
    <3>2. socketFile' \in BOOLEAN /\ (~socketFile => ~socketFile')
      BY <3>1
    <3>3. Ranges'
      BY <3>1, <3>2
    <3>4. Queued' /\ Passed' /\ Served' /\ Asking'
      BY <3>1
    <3>5. Owned'
      BY <3>1, <3>2
    <3>. QED
      BY <3>3, <3>4, <3>5
  <2>2. CASE worker[c] \notin {"forked", "quiet"}
    <3>1. /\ exitFlag' = [exitFlag EXCEPT ![c] = TRUE] /\ signalled' = signalled \cup {c}
          /\ \/ worker[c] = "reading" /\ worker' = [worker EXCEPT ![c] = "exiting"]
             \/ UNCHANGED worker
          /\ UNCHANGED <<socketFile, childRunning, listening, calling, connection>>
      BY <1>29, <2>2 DEF Signal, To
    <3>. QED
      BY <3>1
  <2>. QED
    BY <2>1, <2>2
<1>30. CASE UNCHANGED vars
  BY <1>30
<1>. QED
  BY <1>1, <1>2, <1>3, <1>4, <1>5, <1>6, <1>7, <1>8, <1>9, <1>10, <1>11, <1>12, <1>13, <1>14, <1>15, <1>16, <1>17, <1>18, <1>19, <1>20, <1>21, <1>22, <1>23, <1>24, <1>25, <1>26, <1>27, <1>28, <1>29, <1>30 DEF Next, Owns, Listens, Starts, Works

-----------------------------------------------------------------------------
(* What keeps the file: until the listener runs it may not be told to go,  *)
(* and a worker's copy of it has disowned the file before the worker does  *)
(* anything else.                                                          *)
SocketKept ==
    /\ listener \in {"bound", "listening"} \/ running => socketFile
    /\ \A c \in Client : childRunning[c] => worker[c] = "forked"

LEMMA SocketKeptInit ==
  Init => SocketKept
  BY DEF Init, SocketKept

LEMMA SocketKeptNext ==
  ASSUME "forked" \notin SignalPhases
  PROVE  ServerInv /\ SocketKept /\ [Next]_vars => SocketKept'
<1>. SUFFICES ASSUME ServerInv, SocketKept, [Next]_vars PROVE SocketKept'
  OBVIOUS
<1>0. Ranges /\ Owned
  BY DEF ServerInv
<1>. USE <1>0 DEF Ranges, Owned, SocketKept, listening, calling, working, vars
<1>1. CASE Owns
  BY <1>1, ServerAssumption DEF Owns, Spawn, PollAgain, Terminate, Awaited, Kill, Cleanup
<1>2. CASE Bind \/ Listen \/ FailToStart \/ Run \/ HandleSignal \/ Accept \/ ForkFails \/ Exit
  BY <1>2 DEF Bind, Listen, FailToStart, Run, HandleSignal, Accept, ForkFails, Exit
<1>3. CASE Fork
  BY <1>3 DEF Fork
<1>4. ASSUME NEW c \in Client, Starts(c) \/ Send(c) \/ Return(c) \/ Stop(c) PROVE SocketKept'
  BY <1>4 DEF Starts, SeeSocket, GiveUp, Connect, Send, Return, Stop
<1>5. ASSUME NEW c \in Client, Works(c) PROVE SocketKept'
  BY <1>5 DEF Works, To, Disown, InstallHandler, TestFlag, Read, Receive, Respond, End
<1>6. ASSUME NEW c \in Client, Signal(c) PROVE SocketKept'
  <2>1. ~childRunning[c] /\ worker[c] # "forked"
    BY <1>6 DEF Signal
  <2>2. socketFile' = socketFile /\ UNCHANGED listening
    BY <1>6, <2>1 DEF Signal
  <2>3. \A d \in Client : /\ childRunning'[d] => childRunning[d]
                          /\ d # c => worker'[d] = worker[d]
    BY <1>6 DEF Signal, To
  <2>. QED
    BY <2>1, <2>2, <2>3
<1>7. CASE UNCHANGED vars
  BY <1>7
<1>. QED
  BY <1>1, <1>2, <1>3, <1>4, <1>5, <1>6, <1>7 DEF Next, Listens

-----------------------------------------------------------------------------
(* The inductive invariant holds in every reachable state of the           *)
(* processes.                                                              *)
THEOREM Invariance == Spec => []ServerInv
<1>1. Init => ServerInv
  BY InitHolds
<1>2. ServerInv /\ [Next]_vars => ServerInv'
  BY NextHolds
<1>. QED
  BY <1>1, <1>2, PTL DEF Spec

(* A connection is where its state says: in the backlog, with the listener *)
(* that has accepted it, with a worker, or closed; and only one who is     *)
(* connected waits for a response (unix_socket_server.cpp, client.py).     *)
THEOREM TypeCorrect == Spec => []TypeOK
  BY Invariance, InvTypes, PTL

(* When the owner's stop() has returned, there is no listener and no       *)
(* socket file, whatever the signal met (SaengraClient.stop).              *)
THEOREM OwnerCleansUp == Spec => []NothingLeftBehind
<1>1. ServerInv => NothingLeftBehind
  BY DEF ServerInv, Owned, NothingLeftBehind
<1>. QED
  BY <1>1, Invariance, PTL

(* Nothing that a client who does not own the server does changes the      *)
(* listener or the socket file (SaengraClient, _owns_server).              *)
THEOREM AttachedClientsKeepOut == Spec => AttachedLeavesServer
<1>. DEFINE KeepsOut == \A c \in Client \ {Owner} :
                           client'[c] # client[c] => UNCHANGED <<socketFile, listener, running, sigterm>>
<1>1. ServerInv /\ [Next]_vars => [KeepsOut]_vars
  <2>. SUFFICES ASSUME Ranges, Next PROVE KeepsOut
    BY DEF ServerInv
  <2>. USE DEF Ranges, listening, calling, working
  <2>1. CASE Owns
    <3>1. \A c \in Client \ {Owner} : client'[c] = client[c]
      BY <2>1 DEF Owns, Spawn, PollAgain, Terminate, Awaited, Kill, Cleanup
    <3>. QED
      BY <3>1
  <2>2. CASE Listens
    <3>1. UNCHANGED client
      BY <2>2 DEF Listens, Bind, Listen, FailToStart, Run, HandleSignal, Accept, Fork, ForkFails, Exit
    <3>. QED
      BY <3>1
  <2>3. ASSUME NEW c \in Client, Starts(c) \/ Send(c) \/ Return(c) \/ Stop(c) PROVE KeepsOut
    BY <2>3 DEF Starts, SeeSocket, GiveUp, Connect, Send, Return, Stop
  <2>4. ASSUME NEW c \in Client, Works(c) \/ Signal(c) PROVE KeepsOut
    <3>1. UNCHANGED client
      BY <2>4 DEF Works, To, Disown, InstallHandler, TestFlag, Read, Receive, Respond, End, Signal
    <3>. QED
      BY <3>1
  <2>. QED
    BY <2>1, <2>2, <2>3, <2>4 DEF Next
<1>2. [][KeepsOut]_vars => AttachedLeavesServer
  BY DEF AttachedLeavesServer
<1>. QED
  BY <1>1, <1>2, Invariance, PTL DEF Spec

(* The socket file is there as long as the listener runs, if nobody        *)
(* signals a worker between its fork and its running_ = false: whatever    *)
(* else is signalled, ends, fails to start or is killed                    *)
(* (unix_socket_server.cpp:start, ~UnixSocketServer, stop).                *)
THEOREM SocketOfTheRunning ==
  ASSUME "forked" \notin SignalPhases
  PROVE  Spec => []SocketWhileRunning
<1>1. Init => SocketKept
  BY SocketKeptInit
<1>2. ServerInv /\ SocketKept /\ [Next]_vars => SocketKept'
  BY SocketKeptNext
<1>3. SocketKept => SocketWhileRunning
  BY DEF SocketKept, SocketWhileRunning
<1>. QED
  BY <1>1, <1>2, <1>3, Invariance, PTL DEF Spec

=============================================================================
