----------------------------- MODULE Rematching -----------------------------
(***************************************************************************)
(* What observers promise (docs/usage_observers.md), without dependencies, *)
(* subscriptions or memory: apply() and commit() match every pattern in    *)
(* the whole graph, as it was at the last apply and as it is now, and      *)
(* return in which way the results differ; on_change if a subgraph         *)
(* "identified by start position and refs" is not the same anymore.        *)
(***************************************************************************)
EXTENDS FiniteSets

CONSTANTS Vertex, Edge, Observer, EventsOf,
          Found(_, _)   \* what an observer's pattern matches in a graph

VARIABLES present, applied, committed, registered, events

promiseVars == <<present, applied, committed, registered, events>>

Init ==
    /\ present = [vertices |-> {}, edges |-> {}]
    /\ applied = present /\ committed = present
    /\ registered = {}
    /\ events = {}

Alike(s, ss) == {t \in ss : t.start = s.start /\ t.refs = s.refs}

(* s, in ss, has come from, or will go to, a single one of tt. *)
Single(s, ss, tt) == Cardinality(Alike(s, ss)) = 1 /\ Cardinality(Alike(s, tt)) = 1

Happened(o) ==
    LET before == Found(o, applied)
        after  == Found(o, present)
    IN  {<<o, "on_create", s>> : s \in {t \in after \ before : ~Single(t, after, before)}}
          \cup {<<o, "on_change", s>> : s \in {t \in after \ before : Single(t, after, before)}}
          \cup {<<o, "on_delete", s>> : s \in {t \in before \ after : ~Single(t, before, after)}}

Update ==
    /\ \/ \E v \in Vertex : present'.vertices \in {present.vertices \cup {v}, present.vertices \ {v}}
       \/ present'.vertices = present.vertices
    /\ present' \in [vertices : SUBSET Vertex, edges : SUBSET Edge]
    /\ events' = {}
    /\ UNCHANGED <<applied, committed, registered>>

Register(o) ==
    /\ registered' = registered \cup {o}
    /\ events' = {}
    /\ UNCHANGED <<present, applied, committed>>

Apply ==
    /\ events' = {e \in UNION {Happened(o) : o \in registered} : e[2] \in EventsOf[e[1]]}
    /\ applied' = present
    /\ committed' \in {committed, IF events' = {} THEN present ELSE committed}
    /\ UNCHANGED <<present, registered>>

Rollback ==
    /\ present' = committed /\ applied' = committed
    /\ events' = {}
    /\ UNCHANGED <<committed, registered>>

Next == Update \/ (\E o \in Observer : Register(o)) \/ Apply \/ Rollback

Spec == Init /\ [][Next]_promiseVars
=============================================================================
