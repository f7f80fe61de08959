---------------------------- MODULE SocketServer ----------------------------
(***************************************************************************)
(* The processes behind a SaengraClient (client.py): the listener, which   *)
(* forks one worker for every connection (unix_socket_server.cpp, main     *)
(* .cpp), and the workers (worker.cpp).  A client either owns the listener *)
(* (starts it, and stops it at the end) or is attached to one that exists. *)
(*                                                                         *)
(* A request is only a token here: what requests do to a graph, and what a *)
(* failing one does to its worker, is in module Session.                   *)
(***************************************************************************)
EXTENDS Naturals, Sequences, SequencesExt, FiniteSets

CONSTANTS Client,        \* those who connect
          Owner,         \* the one of them who starts the listener
          MaxPolls,      \* max_wait / wait_interval
          SignalPhases   \* when somebody may send a worker SIGTERM

ASSUME ServerAssumption ==
    /\ IsFiniteSet(Client) /\ Owner \in Client
    /\ MaxPolls \in Nat
    /\ SignalPhases \subseteq {"forked", "quiet", "loop", "tested", "reading", "handling"}

VARIABLES
    socketFile,    \* whether the path of the socket exists
    listener,      \* how far the listener is in start()
    running,       \* running_ of the listener
    sigterm,       \* a SIGTERM to the listener that is not delivered yet
    backlog,       \* connections to be accepted
    peer,          \* the set of the connection accepted last, if not yet passed on
    client,        \* how far each client is in start() or stop()
    polls,         \* the rounds of the owner's waiting loop
    connection,    \* the server's end of each client's connection
    request,       \* the request of each client, which waits for the response
    worker,        \* how far each client's worker is
    childRunning,  \* running_ in the worker's copy of the listener
    exitFlag,      \* worker_should_exit
    signalled      \* the workers that somebody sent SIGTERM

listening == <<listener, running, sigterm, backlog, peer>>
calling   == <<client, polls, request>>
working   == <<worker, childRunning, exitFlag, signalled>>
vars == <<socketFile, listener, running, sigterm, backlog, peer, client, polls,
          connection, request, worker, childRunning, exitFlag, signalled>>

TypeOK ==
    /\ socketFile \in BOOLEAN /\ running \in BOOLEAN /\ sigterm \in BOOLEAN
    /\ listener \in {"none", "starting", "bound", "listening", "accepting", "forking", "exited"}
    /\ backlog \in Seq(Client) /\ peer \in SUBSET Client
    /\ IF listener = "forking" THEN \E c \in Client : peer = {c} ELSE peer = {}
    /\ client \in [Client -> {"new", "polling", "connecting", "connected", "failed",
                              "closed", "terminating", "cleaning", "stopped"}]
    /\ polls \in 0..MaxPolls
    /\ connection \in [Client -> {"none", "queued", "accepted", "open", "reset"}]
    /\ request \in [Client -> {"none", "sent", "answered"}]
    /\ worker \in [Client -> {"none", "forked", "quiet", "loop", "tested", "reading",
                              "handling", "exiting", "exited"}]
    /\ childRunning \in [Client -> BOOLEAN]
    /\ exitFlag \in [Client -> BOOLEAN]
    /\ signalled \in SUBSET Client
    \* what can be said of them together
    /\ \A c \in Client : /\ connection[c] = "queued" <=> Contains(backlog, c)
                         /\ connection[c] = "accepted" <=> c \in peer
                         /\ connection[c] = "open" => worker[c] # "none"
                         /\ request[c] # "none" => client[c] = "connected"
    /\ running => listener \in {"accepting", "forking"}

(* listen() has been called, and the descriptor is not closed. *)
Accepts == listener = "listening" \/ running

(***************************************************************************)
(* Clients                                                                 *)
(***************************************************************************)
Spawn ==
    /\ client[Owner] = "new"
    /\ client' = [client EXCEPT ![Owner] = "polling"]
    /\ listener' = "starting"
    /\ UNCHANGED <<socketFile, running, sigterm, backlog, peer, polls, request, connection, working>>

PollAgain ==
    /\ client[Owner] = "polling" /\ ~socketFile /\ listener # "exited" /\ polls < MaxPolls
    /\ polls' = polls + 1
    /\ UNCHANGED <<socketFile, listening, client, request, connection, working>>

SeeSocket(c) ==
    /\ socketFile
    /\ client[c] = IF c = Owner THEN "polling" ELSE "new"
    /\ client' = [client EXCEPT ![c] = "connecting"]
    /\ UNCHANGED <<socketFile, listening, polls, request, connection, working>>

GiveUp(c) ==
    /\ ~socketFile
    /\ IF c = Owner THEN client[c] = "polling" /\ (listener = "exited" \/ polls = MaxPolls)
                    ELSE client[c] = "new"
    /\ client' = [client EXCEPT ![c] = "failed"]
    /\ UNCHANGED <<socketFile, listening, polls, request, connection, working>>

Connect(c) ==
    /\ client[c] = "connecting"
    /\ IF socketFile /\ Accepts
       THEN /\ client' = [client EXCEPT ![c] = "connected"]
            /\ connection' = [connection EXCEPT ![c] = "queued"]
            /\ backlog' = Append(backlog, c)
       ELSE /\ client' = [client EXCEPT ![c] = "failed"]
            /\ UNCHANGED <<connection, backlog>>
    /\ UNCHANGED <<socketFile, listener, running, sigterm, peer, polls, request, working>>

Send(c) ==
    /\ client[c] = "connected" /\ connection[c] # "reset" /\ request[c] = "none"
    /\ request' = [request EXCEPT ![c] = "sent"]
    /\ UNCHANGED <<socketFile, listening, client, polls, connection, working>>

(* The response, or the exception that the connection is closed. *)
Return(c) ==
    /\ request[c] = "answered" \/ (request[c] = "sent" /\ connection[c] = "reset")
    /\ request' = [request EXCEPT ![c] = "none"]
    /\ UNCHANGED <<socketFile, listening, client, polls, connection, working>>

(* Without `if self._owns_server'.                                         *)
StopWithoutOwnership(c) ==
    /\ client[c] = "connected" /\ request[c] = "none"
    /\ client' = [client EXCEPT ![c] = IF c = Owner THEN "closed" ELSE "stopped"]
    /\ sigterm' = (c # Owner)
    /\ socketFile' = (socketFile /\ c = Owner)
    /\ UNCHANGED <<listener, running, backlog, peer, polls, request, connection, working>>

Stop(c) ==
    /\ client[c] = "connected" /\ request[c] = "none"
    /\ client' = [client EXCEPT ![c] = IF c = Owner THEN "closed" ELSE "stopped"]
    /\ UNCHANGED <<socketFile, listening, polls, request, connection, working>>

Terminate ==
    /\ client[Owner] = "closed"
    /\ client' = [client EXCEPT ![Owner] = "terminating"]
    /\ sigterm' = (listener # "exited")
    /\ UNCHANGED <<socketFile, listener, running, backlog, peer, polls, request, connection, working>>

(* What is left of the listener's connections when it closes its socket.   *)
Dropped(cs) == [c \in Client |-> IF c \in cs THEN "reset" ELSE connection[c]]

Awaited ==
    /\ client[Owner] = "terminating" /\ listener = "exited"
    /\ client' = [client EXCEPT ![Owner] = "cleaning"]
    /\ UNCHANGED <<socketFile, listening, polls, request, connection, working>>

(* Without the `except subprocess.TimeoutExpired' that kills the process.  *)
KillNobody ==
    /\ client[Owner] = "terminating" /\ listener # "exited"
    /\ client' = [client EXCEPT ![Owner] = "cleaning"]
    /\ UNCHANGED <<socketFile, listening, polls, request, connection, working>>

(* TimeoutExpired *)
Kill ==
    /\ client[Owner] = "terminating" /\ listener # "exited"
    /\ client' = [client EXCEPT ![Owner] = "cleaning"]
    /\ listener' = "exited" /\ running' = FALSE /\ sigterm' = FALSE
    /\ backlog' = <<>> /\ peer' = {}
    /\ connection' = Dropped(ToSet(backlog) \cup peer)
    /\ UNCHANGED <<socketFile, polls, request, working>>

Cleanup ==
    /\ client[Owner] = "cleaning"
    /\ client' = [client EXCEPT ![Owner] = "stopped"]
    /\ socketFile' = FALSE
    /\ UNCHANGED <<listening, polls, request, connection, working>>

(***************************************************************************)
(* The listener                                                            *)
(***************************************************************************)
Bind ==
    /\ listener = "starting" /\ listener' = "bound"
    /\ socketFile' = TRUE
    /\ UNCHANGED <<running, sigterm, backlog, peer, calling, connection, working>>

Listen ==
    /\ listener = "bound" /\ listener' = "listening"
    /\ UNCHANGED <<socketFile, running, sigterm, backlog, peer, calling, connection, working>>

(* bind() or listen() returned an error, and main() returns 1.             *)
FailToStart ==
    /\ listener \in {"starting", "bound"} /\ listener' = "exited"
    /\ UNCHANGED <<socketFile, running, sigterm, backlog, peer, calling, connection, working>>

Run ==
    /\ listener = "listening" /\ listener' = "accepting"
    /\ running' = TRUE
    /\ UNCHANGED <<socketFile, sigterm, backlog, peer, calling, connection, working>>

(* signalHandler, which calls stop(); before running_ is set it has no     *)
(* effect, and the signal is lost.                                         *)
HandleSignal ==
    /\ sigterm /\ sigterm' = FALSE
    /\ IF running
       THEN /\ running' = FALSE
            /\ socketFile' = FALSE
            /\ backlog' = <<>>
            /\ connection' = Dropped(ToSet(backlog))
       ELSE UNCHANGED <<running, socketFile, backlog, connection>>
    /\ UNCHANGED <<listener, peer, calling, working>>

(* With waitpid(..., 0) instead of WNOHANG.                                *)
AcceptAfterReaping ==
    /\ listener = "accepting" /\ running /\ backlog # <<>>
    /\ \A c \in Client : worker[c] \in {"none", "exited"}
    /\ listener' = "forking"
    /\ peer' = {Head(backlog)} /\ backlog' = Tail(backlog)
    /\ connection' = [connection EXCEPT ![Head(backlog)] = "accepted"]
    /\ UNCHANGED <<socketFile, running, sigterm, calling, working>>

Accept ==
    /\ listener = "accepting" /\ running /\ backlog # <<>>
    /\ listener' = "forking"
    /\ peer' = {Head(backlog)} /\ backlog' = Tail(backlog)
    /\ connection' = [connection EXCEPT ![Head(backlog)] = "accepted"]
    /\ UNCHANGED <<socketFile, running, sigterm, calling, working>>

Fork ==
    /\ listener = "forking" /\ listener' = "accepting"
    /\ peer' = {}
    /\ connection' = [c \in Client |-> IF c \in peer THEN "open" ELSE connection[c]]
    /\ worker' = [c \in Client |-> IF c \in peer THEN "forked" ELSE worker[c]]
    /\ childRunning' = [c \in Client |-> IF c \in peer THEN running ELSE childRunning[c]]
    /\ UNCHANGED <<socketFile, running, sigterm, backlog, calling, exitFlag, signalled>>

(* Without close(client_fd).                                               *)
ForkFailsLeaking ==
    /\ listener = "forking" /\ listener' = "accepting"
    /\ peer' = {}
    /\ UNCHANGED <<socketFile, running, sigterm, backlog, connection, calling, working>>

ForkFails ==
    /\ listener = "forking" /\ listener' = "accepting"
    /\ peer' = {}
    /\ connection' = Dropped(peer)
    /\ UNCHANGED <<socketFile, running, sigterm, backlog, calling, working>>

Exit ==
    /\ listener = "accepting" /\ ~running
    /\ listener' = "exited" /\ sigterm' = FALSE
    /\ UNCHANGED <<socketFile, running, backlog, peer, calling, connection, working>>

(***************************************************************************)
(* The worker of client c                                                  *)
(***************************************************************************)
To(c, phase) == worker' = [worker EXCEPT ![c] = phase]

(* Without running_ = false in the child.                                  *)
DisownNothing(c) ==
    /\ worker[c] = "forked" /\ To(c, "quiet")
    /\ UNCHANGED <<socketFile, listening, calling, connection, childRunning, exitFlag, signalled>>

(* The child's running_ = false: what its copy of the listener does when   *)
(* the process ends, or is signalled, is none of its business.             *)
Disown(c) ==
    /\ worker[c] = "forked" /\ To(c, "quiet")
    /\ childRunning' = [childRunning EXCEPT ![c] = FALSE]
    /\ UNCHANGED <<socketFile, listening, calling, connection, exitFlag, signalled>>

InstallHandler(c) ==
    /\ worker[c] = "quiet" /\ To(c, "loop")
    /\ UNCHANGED <<socketFile, listening, calling, connection, childRunning, exitFlag, signalled>>

TestFlag(c) ==
    /\ worker[c] = "loop"
    /\ To(c, IF exitFlag[c] THEN "exiting" ELSE "tested")
    /\ UNCHANGED <<socketFile, listening, calling, connection, childRunning, exitFlag, signalled>>

(* read() is called, and blocks if there is nothing to read.               *)
Read(c) ==
    /\ worker[c] = "tested" /\ To(c, "reading")
    /\ UNCHANGED <<socketFile, listening, calling, connection, childRunning, exitFlag, signalled>>

Hung(c) == client[c] \notin {"connecting", "connected"}

(* With `continue' instead of `break' when receiveMessage() returns "".    *)
ReceiveForever(c) ==
    /\ worker[c] = "reading"
    /\ \/ request[c] = "sent" /\ To(c, "handling")
       \/ Hung(c) /\ To(c, "loop")
    /\ UNCHANGED <<socketFile, listening, calling, connection, childRunning, exitFlag, signalled>>

Receive(c) ==
    /\ worker[c] = "reading"
    /\ \/ request[c] = "sent" /\ To(c, "handling")
       \/ Hung(c) /\ To(c, "exiting")
    /\ UNCHANGED <<socketFile, listening, calling, connection, childRunning, exitFlag, signalled>>

Respond(c) ==
    /\ worker[c] = "handling" /\ To(c, "loop")
    /\ request' = [request EXCEPT ![c] = "answered"]
    /\ UNCHANGED <<socketFile, listening, client, polls, connection, childRunning, exitFlag, signalled>>

(* close(client_fd), and exit(0), which destroys the copy of g_server.     *)
End(c) ==
    /\ worker[c] = "exiting" /\ To(c, "exited")
    /\ connection' = [connection EXCEPT ![c] = "reset"]
    /\ socketFile' = (socketFile /\ ~childRunning[c])
    /\ UNCHANGED <<listening, calling, childRunning, exitFlag, signalled>>

(* SIGTERM to a worker: until sigaction() it is the listener's handler     *)
(* that runs, on the copy of the listener; later worker_signal_handler,    *)
(* and a read() that is blocked fails with EINTR.                          *)
Signal(c) ==
    /\ worker[c] \in SignalPhases /\ c \notin signalled
    /\ signalled' = signalled \cup {c}
    /\ IF worker[c] \in {"forked", "quiet"}
       THEN /\ childRunning' = [childRunning EXCEPT ![c] = FALSE]
            /\ socketFile' = (socketFile /\ ~childRunning[c])
            /\ UNCHANGED <<worker, exitFlag>>
       ELSE /\ exitFlag' = [exitFlag EXCEPT ![c] = TRUE]
            /\ IF worker[c] = "reading" /\ request[c] # "sent" /\ ~Hung(c)
               THEN To(c, "exiting") ELSE UNCHANGED worker
            /\ UNCHANGED <<socketFile, childRunning>>
    /\ UNCHANGED <<listening, calling, connection>>
-----------------------------------------------------------------------------
Init ==
    /\ socketFile = FALSE /\ listener = "none" /\ running = FALSE /\ sigterm = FALSE
    /\ backlog = <<>> /\ peer = {} /\ polls = 0 /\ signalled = {}
    /\ client = [c \in Client |-> "new"]
    /\ connection = [c \in Client |-> "none"]
    /\ request = [c \in Client |-> "none"]
    /\ worker = [c \in Client |-> "none"]
    /\ childRunning = [c \in Client |-> FALSE]
    /\ exitFlag = [c \in Client |-> FALSE]

Starts(c) == SeeSocket(c) \/ GiveUp(c) \/ Connect(c)
Owns == Spawn \/ PollAgain \/ Terminate \/ Awaited \/ Kill \/ Cleanup
Listens == Bind \/ Listen \/ FailToStart \/ Run \/ HandleSignal \/ Accept \/ Fork \/ ForkFails \/ Exit
Works(c) == \/ Disown(c) \/ InstallHandler(c) \/ TestFlag(c) \/ Read(c) \/ Receive(c)
            \/ Respond(c) \/ End(c)

Next == \/ Owns
        \/ Listens
        \/ \E c \in Client : \/ Starts(c) \/ Send(c) \/ Return(c) \/ Stop(c)
                             \/ Works(c) \/ Signal(c)

(* The kernel schedules the listener and the workers.  A client may stop   *)
(* calling, and the one that started to stop waits at most five seconds.   *)
Spec == Init /\ [][Next]_vars

Fair == /\ WF_vars(Listens)
        /\ \A c \in Client : WF_vars(Works(c))

FairSpec == Spec /\ Fair
=============================================================================
