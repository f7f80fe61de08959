--------------------------- MODULE PrivateGraphs ---------------------------
(***************************************************************************)
(* What a client may think it talks to: graphs of its own, one of them     *)
(* open, in which every call takes effect at one moment between its begin  *)
(* and its end, or fails without any.                                      *)
(***************************************************************************)
CONSTANTS Graph, Vertex, NoGraph

VARIABLES working,   \* what find() would return, of each graph
          durable,   \* what rollback() would return to
          open,      \* the graph that calls are about
          doing,     \* the call in progress
          answer     \* its answer, once it has had its effect

promiseVars == <<working, durable, open, doing, answer>>

Failed == [failed |-> TRUE]
None   == [none |-> TRUE]
Answer(status, found) == [status |-> status, found |-> found]

Init ==
    /\ working = [g \in Graph |-> {}] /\ durable = [g \in Graph |-> {}]
    /\ open = NoGraph /\ doing = "none" /\ answer = None

Edit(v) ==
    /\ doing = "none" /\ open # NoGraph
    /\ \E vs \in {working[open] \cup {v}, working[open] \ {v}} :
          working' = [working EXCEPT ![open] = vs]
    /\ UNCHANGED <<durable, open, doing, answer>>

Call(kind) ==
    /\ doing = "none" /\ doing' = kind
    /\ UNCHANGED <<working, durable, open, answer>>

Pending(kinds) == doing \in kinds /\ answer = None

Open(g) ==
    /\ Pending({"connect"})
    /\ open' = g
    /\ answer' = Answer("OK", {})
    /\ UNCHANGED <<working, durable, doing>>

Commit ==
    /\ Pending({"commit"}) /\ open # NoGraph
    /\ durable' = [durable EXCEPT ![open] = working[open]]
    /\ answer' = Answer("OK", {})
    /\ UNCHANGED <<working, open, doing>>

(* Also a commit, whose observations are to be handled before. *)
Apply ==
    /\ Pending({"apply", "observe", "commit"}) /\ open # NoGraph
    /\ answer' = Answer(IF doing = "commit" THEN "AGAIN" ELSE "OK", {})
    /\ UNCHANGED <<working, durable, open, doing>>

Rollback ==
    /\ Pending({"rollback"}) /\ open # NoGraph
    /\ working' = [working EXCEPT ![open] = durable[open]]
    /\ answer' = Answer("OK", {})
    /\ UNCHANGED <<durable, open, doing>>

Find ==
    /\ Pending({"find", "match"}) /\ open # NoGraph
    /\ answer' = Answer("OK", working[open])
    /\ UNCHANGED <<working, durable, open, doing>>

Fail ==
    /\ doing # "none" /\ answer = None
    /\ answer' = Failed
    /\ UNCHANGED <<working, durable, open, doing>>

(* The worker dies, and all graphs with it. *)
Lose ==
    /\ Pending({"observe", "match"})
    /\ working' = [g \in Graph |-> {}] /\ durable' = [g \in Graph |-> {}]
    /\ open' = NoGraph
    /\ answer' = Failed
    /\ UNCHANGED doing

Return ==
    /\ answer # None
    /\ doing' = "none" /\ answer' = None
    /\ UNCHANGED <<working, durable, open>>

Next ==
    \/ \E v \in Vertex : Edit(v)
    \/ \E kind \in {"connect", "commit", "apply", "rollback", "find", "observe", "match"} : Call(kind)
    \/ \E g \in Graph : Open(g)
    \/ Commit \/ Apply \/ Rollback \/ Find \/ Fail \/ Lose \/ Return

Spec == Init /\ [][Next]_promiseVars
=============================================================================
