------------------------------ MODULE Session ------------------------------
(***************************************************************************)
(* The calls of a SocketAdapter (socket_adapter.py) over a SaengraClient   *)
(* (client.py), the requests they consist of, and the worker at the other  *)
(* end of the connection (worker.cpp), which keeps the graphs, and loses   *)
(* them when it dies of an exception that nobody catches.                  *)
(*                                                                         *)
(* Graphs consist of vertices and have the three layers of module          *)
(* GraphTransactions.  What observers observe is module ObserverContainer: *)
(* here, registered ones may or may not have something to say.             *)
(***************************************************************************)
EXTENDS UndoLog, FiniteSets

CONSTANTS Client, Graph, Vertex,
          NoGraph,        \* current_env_ = nullptr
          MaxPending,     \* bound on the length of the buffer
          MaxIssued,      \* bound on the updates of a client
          SwitchAnytime   \* whether clients update before they connect, and
                          \* connect to another graph with a filled buffer

ASSUME SessionAssumption ==
    /\ IsFiniteSet(Client) /\ IsFiniteSet(Graph) /\ IsFiniteSet(Vertex)
    /\ NoGraph \notin Graph
    /\ MaxPending \in Nat /\ MaxIssued \in Nat /\ SwitchAnytime \in BOOLEAN

VARIABLES buffer,    \* _pending_updates
          call,      \* the call of the adapter or client in progress
          requests,  \* those it still has to send or has no response for
          wire,      \* what is on its way or has arrived, at either end
          alive,     \* whether the worker is
          envs,      \* envs_ of the worker
          current,   \* current_env_
          issued,    \* history: the updates made, without those taken back
          received   \* history: the updates the worker has carried out

clientVars == <<buffer, call, requests, issued>>
workerVars == <<alive, envs, current, received>>
vars == <<buffer, call, requests, wire, alive, envs, current, issued, received>>

NoEnv   == [made |-> FALSE, present |-> {}, applied |-> {}, committed |-> {}, observed |-> FALSE]
Env     == [made : BOOLEAN, present : SUBSET Vertex, applied : SUBSET Vertex,
            committed : SUBSET Vertex, observed : BOOLEAN]

Pattern == {"observe", "match"}    \* calls that come with a pattern
Flushed == {"commit", "apply", "find"} \cup Pattern
Call    == Flushed \cup {"rollback", "connect"}

Request ==
    [kind : {"apply_updates"}, updates : Seq(Change(Vertex))]
    \cup [kind : {"connect"}, graph : Graph]
    \cup [kind : Pattern, parses : BOOLEAN]
    \cup [kind : {"commit", "apply", "find", "rollback"}]

Response ==
    [answer : Call \cup {"apply_updates"}, status : {"OK", "NOT_CONNECTED", "AGAIN"},
     found : SUBSET Vertex, created : BOOLEAN]

Nothing == [nothing |-> TRUE]
Closed  == [closed |-> TRUE]
IsRequest(m)  == "kind" \in DOMAIN m
IsResponse(m) == "answer" \in DOMAIN m
-----------------------------------------------------------------------------
Init ==
    /\ buffer = [c \in Client |-> <<>>]
    /\ call = [c \in Client |-> "none"]
    /\ requests = [c \in Client |-> <<>>]
    /\ wire = [c \in Client |-> Nothing]
    /\ alive = [c \in Client |-> TRUE]
    /\ envs = [c \in Client |-> [g \in Graph |-> NoEnv]]
    /\ current = [c \in Client |-> NoGraph]
    /\ issued = [c \in Client |-> <<>>]
    /\ received = [c \in Client |-> <<>>]

(***************************************************************************)
(* The client                                                              *)
(***************************************************************************)
Update(c, change) ==
    /\ call[c] = "none"
    /\ SwitchAnytime \/ current[c] # NoGraph \/ ~alive[c]
    /\ Len(buffer[c]) < MaxPending /\ Len(issued[c]) < MaxIssued
    /\ buffer' = [buffer EXCEPT ![c] = Append(@, change)]
    /\ issued' = [issued EXCEPT ![c] = Append(@, change)]
    /\ UNCHANGED <<call, requests, wire, workerVars>>

(* flush(), where the call begins with it. *)
Flush(c, kind) ==
    IF kind \in Flushed /\ buffer[c] # <<>>
    THEN <<[kind |-> "apply_updates", updates |-> buffer[c]]>> ELSE <<>>

Begin(c, request) ==
    /\ call[c] = "none"
    /\ request.kind = "connect" /\ ~SwitchAnytime => buffer[c] = <<>>
    /\ call' = [call EXCEPT ![c] = request.kind]
    /\ requests' = [requests EXCEPT ![c] = Append(Flush(c, request.kind), request)]
    /\ UNCHANGED <<buffer, wire, issued, workerVars>>

(* _send_request up to sendall(), which fails if the worker is gone. *)
Send(c) ==
    /\ requests[c] # <<>> /\ wire[c] = Nothing
    /\ wire' = [wire EXCEPT ![c] = IF alive[c] THEN Head(requests[c]) ELSE Closed]
    /\ UNCHANGED <<clientVars, workerVars>>

(* The call ends, with the buffer as it may be by then. *)
End(c) ==
    /\ call' = [call EXCEPT ![c] = "none"]
    /\ requests' = [requests EXCEPT ![c] = <<>>]

(* A response with a status of success. *)
Advance(c) ==
    /\ IsResponse(wire[c]) /\ wire[c].status # "NOT_CONNECTED"
    /\ wire' = [wire EXCEPT ![c] = Nothing]
    /\ buffer' = [buffer EXCEPT ![c] =
                    IF wire[c].answer \in {"apply_updates", "rollback"} THEN <<>> ELSE @]
    /\ issued' = [issued EXCEPT ![c] = IF wire[c].answer = "rollback" THEN received[c] ELSE @]
    /\ IF Len(requests[c]) = 1
       THEN End(c)
       ELSE requests' = [requests EXCEPT ![c] = Tail(@)] /\ UNCHANGED call
    /\ UNCHANGED workerVars

(* If the buffer were cleared before the updates are sent. *)
RaiseWithoutBuffer(c) ==
    /\ wire[c] = Closed \/ (IsResponse(wire[c]) /\ wire[c].status = "NOT_CONNECTED")
    /\ wire' = [wire EXCEPT ![c] = Nothing]
    /\ buffer' = [buffer EXCEPT ![c] =
                    IF Head(requests[c]).kind = "apply_updates" THEN <<>> ELSE @]
    /\ End(c)
    /\ UNCHANGED <<issued, workerVars>>

(* UpdateError, CommitError etc., or the ConnectionError of _recv_exact. *)
Raise(c) ==
    /\ wire[c] = Closed \/ (IsResponse(wire[c]) /\ wire[c].status = "NOT_CONNECTED")
    /\ wire' = [wire EXCEPT ![c] = Nothing]
    /\ End(c)
    /\ UNCHANGED <<buffer, issued, workerVars>>

(***************************************************************************)
(* The worker                                                              *)
(***************************************************************************)
RespondWith(c, status, found, created) ==
    wire' = [wire EXCEPT ![c] = [answer |-> wire[c].kind, status |-> status,
                                 found |-> found, created |-> created]]
Respond(c, status) == RespondWith(c, status, {}, FALSE)

here(c) == envs[c][current[c]]

Put(c, env) == envs' = [envs EXCEPT ![c][current[c]] = env]

(* Without the make_unique of a graph that does not exist. *)
ConnectWithoutCreating(c) ==
    /\ IsRequest(wire[c]) /\ wire[c].kind = "connect"
    /\ current' = [current EXCEPT ![c] = wire[c].graph]
    /\ RespondWith(c, "OK", {}, ~envs[c][wire[c].graph].made)
    /\ UNCHANGED <<clientVars, alive, envs, received>>

Connect(c) ==
    /\ IsRequest(wire[c]) /\ wire[c].kind = "connect"
    /\ LET g == wire[c].graph IN
       /\ current' = [current EXCEPT ![c] = g]
       /\ envs' = [envs EXCEPT ![c][g].made = TRUE]
       /\ RespondWith(c, "OK", {}, ~envs[c][g].made)
    /\ UNCHANGED <<clientVars, alive, received>>

(* With `return false' and `continue' for NOT_CONNECTED. *)
NotConnectedInSilence(c) ==
    /\ IsRequest(wire[c]) /\ wire[c].kind # "connect"
    /\ current[c] = NoGraph
    /\ UNCHANGED vars

NotConnected(c) ==
    /\ IsRequest(wire[c]) /\ wire[c].kind # "connect"
    /\ current[c] = NoGraph
    /\ Respond(c, "NOT_CONNECTED")
    /\ UNCHANGED <<clientVars, workerVars>>

Receives(c, kind) ==
    IsRequest(wire[c]) /\ wire[c].kind = kind /\ current[c] # NoGraph

ApplyUpdates(c) ==
    /\ Receives(c, "apply_updates")
    /\ Put(c, [here(c) EXCEPT !.present = Updated(@, wire[c].updates)])
    /\ received' = [received EXCEPT ![c] = @ \o wire[c].updates]
    /\ Respond(c, "OK")
    /\ UNCHANGED <<clientVars, alive, current>>

(* Without the commit() of handleCommit when the graph has not changed.    *)
CommitChangesOnly(c) ==
    /\ Receives(c, "commit")
    /\ \E observation \in {FALSE, here(c).observed /\ here(c).present # here(c).applied} :
          /\ Put(c, [here(c) EXCEPT
                       !.applied = here(c).present,
                       !.committed = IF observation \/ here(c).present = here(c).applied
                                     THEN @ ELSE here(c).present])
          /\ Respond(c, IF observation THEN "AGAIN" ELSE "OK")
    /\ UNCHANGED <<clientVars, alive, current, received>>

(* The changes are applied; without changes, or if nothing is observed,    *)
(* they are committed.                                                     *)
Commit(c) ==
    /\ Receives(c, "commit")
    /\ \E observation \in {FALSE, here(c).observed /\ here(c).present # here(c).applied} :
          /\ Put(c, [here(c) EXCEPT
                       !.applied = here(c).present,
                       !.committed = IF observation THEN @ ELSE here(c).present])
          /\ Respond(c, IF observation THEN "AGAIN" ELSE "OK")
    /\ UNCHANGED <<clientVars, alive, current, received>>

Apply(c) ==
    /\ Receives(c, "apply")
    /\ Put(c, [here(c) EXCEPT !.applied = here(c).present])
    /\ Respond(c, "OK")
    /\ UNCHANGED <<clientVars, alive, current, received>>

Rollback(c) ==
    /\ Receives(c, "rollback")
    /\ Put(c, [here(c) EXCEPT !.present = here(c).committed, !.applied = here(c).committed])
    /\ Respond(c, "OK")
    /\ UNCHANGED <<clientVars, alive, current, received>>

Find(c) ==
    /\ Receives(c, "find")
    /\ RespondWith(c, "OK", here(c).present, FALSE)
    /\ UNCHANGED <<clientVars, workerVars>>

Observe(c) ==
    /\ Receives(c, "observe") /\ wire[c].parses
    /\ Put(c, [here(c) EXCEPT !.observed = TRUE])
    /\ Respond(c, "OK")
    /\ UNCHANGED <<clientVars, alive, current, received>>

Match(c) ==
    /\ Receives(c, "match") /\ wire[c].parses
    /\ RespondWith(c, "OK", here(c).present, FALSE)
    /\ UNCHANGED <<clientVars, workerVars>>

(* The parser throws, and nothing between handleObserve or handleMatch and *)
(* main() catches it.                                                      *)
Die(c) ==
    /\ \E kind \in Pattern : Receives(c, kind)
    /\ ~wire[c].parses
    /\ alive' = [alive EXCEPT ![c] = FALSE]
    /\ envs' = [envs EXCEPT ![c] = [g \in Graph |-> NoEnv]]
    /\ current' = [current EXCEPT ![c] = NoGraph]
    /\ received' = [received EXCEPT ![c] = <<>>]
    /\ issued' = [issued EXCEPT ![c] = buffer[c]]
    /\ wire' = [wire EXCEPT ![c] = Closed]
    /\ UNCHANGED <<buffer, call, requests>>
-----------------------------------------------------------------------------
Handle(c) ==
    \/ Connect(c) \/ NotConnected(c) \/ ApplyUpdates(c) \/ Commit(c) \/ Apply(c)
    \/ Rollback(c) \/ Find(c) \/ Observe(c) \/ Match(c) \/ Die(c)

Proceed(c) == Send(c) \/ Advance(c) \/ Raise(c) \/ Handle(c)

Next ==
    \E c \in Client :
        \/ \E change \in Change(Vertex) : Update(c, change)
        \/ \E request \in [kind : {"connect"}, graph : Graph]
                          \cup [kind : Pattern, parses : BOOLEAN]
                          \cup [kind : {"commit", "apply", "find", "rollback"}] : Begin(c, request)
        \/ Proceed(c)

Spec == Init /\ [][Next]_vars

(* A call goes on without the client's doing, and so does the worker.      *)
FairSpec == Spec /\ \A c \in Client : WF_vars(Proceed(c))
=============================================================================
