--------------------------- MODULE SessionSafety ---------------------------
(***************************************************************************)
(* What the users of a SocketAdapter and a SaengraClient rely on.          *)
(***************************************************************************)
EXTENDS Session

(* Each response answers the request that the client waits for.            *)
TypeOK ==
    \A c \in Client :
        /\ buffer[c] \in Seq(Change(Vertex))
        /\ call[c] \in Call \cup {"none"}
        /\ requests[c] \in Seq(Request) /\ Len(requests[c]) <= 2
        /\ requests[c] = <<>> <=> call[c] = "none"
        /\ \/ wire[c] \in {Nothing, Closed}
           \/ wire[c] \in Request /\ wire[c] = Head(requests[c])
           \/ wire[c] \in Response /\ wire[c].answer = Head(requests[c]).kind
        /\ alive[c] \in BOOLEAN
        /\ envs[c] \in [Graph -> Env]
        /\ current[c] \in Graph \cup {NoGraph}
        /\ current[c] # NoGraph => here(c).made

(* The response to `kind' has been sent: what the client does with it is   *)
(* as good as done.                                                        *)
Answered(c, kind) ==
    IsResponse(wire[c]) /\ wire[c].answer = kind /\ wire[c].status # "NOT_CONNECTED"

Unsent(c) ==
    IF \E kind \in {"apply_updates", "rollback"} : Answered(c, kind) THEN <<>> ELSE buffer[c]

(* Every update reaches the worker once, and in the order of updates:      *)
(* whatever calls fail in between, those that have not are in the buffer   *)
(* (SocketAdapter.flush, which clears it after the response only).         *)
ExactlyOnce ==
    \A c \in Client :
        call[c] # "rollback" => issued[c] = received[c] \o Unsent(c)

(* Every call ends, also in a worker that is not connected to a graph or   *)
(* about to die (_send_request, Worker::run).                              *)
CallsEnd == \A c \in Client : (call[c] # "none") ~> (call[c] = "none")

-----------------------------------------------------------------------------
Working(c) ==
    [g \in Graph |-> IF g = current[c] THEN Updated(envs[c][g].present, Unsent(c))
                                       ELSE envs[c][g].present]

Result(c) ==
    IF wire[c] = Closed THEN [failed |-> TRUE]
    ELSE IF ~IsResponse(wire[c]) THEN [none |-> TRUE]
    ELSE IF wire[c].status = "NOT_CONNECTED" THEN [failed |-> TRUE]
    ELSE IF Len(requests[c]) = 1 THEN [status |-> wire[c].status, found |-> wire[c].found]
    ELSE [none |-> TRUE]

AnyClient == CHOOSE c \in Client : TRUE

Promise == INSTANCE PrivateGraphs WITH
    working <- Working(AnyClient),
    durable <- [g \in Graph |-> envs[AnyClient][g].committed],
    open <- current[AnyClient], doing <- call[AnyClient], answer <- Result(AnyClient)

(* A client that does not switch between graphs with updates in its buffer *)
(* sees graphs of its own, whose calls are atomic: it finds what it has    *)
(* updated, what it has committed stays, and what it has rolled back does  *)
(* not come back from the buffer, until it asks the worker to match what   *)
(* cannot be parsed (SocketAdapter, Worker's handlers).                    *)
ActsAsPrivateGraphs == Promise!Spec
=============================================================================
