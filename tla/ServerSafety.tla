---------------------------- MODULE ServerSafety ----------------------------
(***************************************************************************)
(* What clients rely on in the processes of the server.                    *)
(***************************************************************************)
EXTENDS SocketServer

(* As long as the listener runs, clients find its socket: a worker, which  *)
(* has a copy of the listener, does not remove the file of the listener    *)
(* when it ends (running_ = false in the child, ~UnixSocketServer, stop).  *)
SocketWhileRunning == running => socketFile

(* "Stop the server process and cleanup" (SaengraClient.stop): the         *)
(* listener is gone, and so is its socket, even if the listener is told to *)
(* terminate before it has noticed that it runs.                           *)
NothingLeftBehind ==
    client[Owner] = "stopped" => listener = "exited" /\ ~socketFile

(* "When using an existing socket, the client will not start or stop the   *)
(* server process, and will not clean up the socket file" (saengra/        *)
(* README.md): nor does it in whatever else it does.                       *)
AttachedLeavesServer ==
    [][\A c \in Client \ {Owner} :
          client'[c] # client[c] => UNCHANGED <<socketFile, listener, running, sigterm>>]_vars

(* Every connection is accepted and gets a worker that handles requests,   *)
(* or is refused, however long the other clients keep theirs (the fork in  *)
(* UnixSocketServer::start, and WNOHANG).                                  *)
ConnectedIsServed ==
    \A c \in Client :
        client[c] = "connected"
            ~> connection[c] = "reset" \/ worker[c] = "reading" \/ client[c] # "connected"

(* "Process messages until SIGTERM or connection closes" (Worker::run): a  *)
(* client that has gone leaves no process behind.                          *)
ClosedConnectionsEnd ==
    \A c \in Client :
        Hung(c) /\ worker[c] # "none" ~> worker[c] = "exited"

(* "Start the server and connect" (SaengraClient.__enter__): the owner,    *)
(* once it sees the socket of the listener that it started, is not refused *)
(* while that listener is on its way.                                      *)
OwnerIsNotRefused ==
    [][client[Owner] = "connecting" /\ listener # "exited"
          => client'[Owner] # "failed"]_vars
=============================================================================
