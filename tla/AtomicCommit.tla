---------------------------- MODULE AtomicCommit ----------------------------
(***************************************************************************)
(* What Environment.apply() and commit() promise to the code that calls    *)
(* them and to the handlers they call: whatever client and handlers have   *)
(* done to the graph becomes durable when a commit returns, all of it and  *)
(* only then, and is gone when a call raises.                              *)
(***************************************************************************)
CONSTANT Vertex

VARIABLES durable,   \* what rollback() would return to
          working,   \* what a query would find
          running,   \* the call in progress: "none", "apply" or "commit"
          outcome    \* how the latest call ended: "returned" or "raised"

promiseVars == <<durable, working, running, outcome>>

Init ==
    /\ durable = {} /\ working = {}
    /\ running = "none" /\ outcome = "none"

(* Client or handler adds or removes a vertex. *)
Edit(v) ==
    /\ working' \in {working \cup {v}, working \ {v}}
    /\ UNCHANGED <<durable, running, outcome>>

Abandon ==
    /\ working' = durable
    /\ UNCHANGED <<durable, running, outcome>>

Begin(kind) ==
    /\ running = "none"
    /\ running' = kind
    /\ outcome' = "none"
    /\ UNCHANGED <<durable, working>>

Return ==
    /\ running # "none"
    /\ durable' = IF running = "commit" THEN working ELSE durable
    /\ running' = "none"
    /\ outcome' = "returned"
    /\ UNCHANGED working

Raise ==
    /\ running # "none"
    /\ working' = durable
    /\ running' = "none"
    /\ outcome' = "raised"
    /\ UNCHANGED durable

Next ==
    \/ \E v \in Vertex : Edit(v)
    \/ \E kind \in {"apply", "commit"} : Begin(kind)
    \/ Abandon \/ Return \/ Raise

Spec == Init /\ [][Next]_promiseVars
=============================================================================
