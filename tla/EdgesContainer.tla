--------------------------- MODULE EdgesContainer ---------------------------
(***************************************************************************)
(* MutableEdgesContainer (edges_container.h, edges_container.cpp): the     *)
(* edges of a graph in two trunks, one indexed by source and one by        *)
(* target, and the undo log.                                               *)
(*                                                                         *)
(* A trunk holds a branch per vertex and a branch a leaf per label; all    *)
(* that can be read from them is which <<vertex, label, other>> triples    *)
(* they hold, so a trunk is a set of such triples.  In `inverse' the first *)
(* component is the edge's target.                                         *)
(***************************************************************************)
EXTENDS UndoLog, VertexData, Functions

CONSTANTS Label,       \* edge labels
          MaxEdgeLog   \* bound on the length of the undo log

ASSUME EdgeAssumption == /\ IsFiniteSet(Label)
                         /\ MaxEdgeLog \in Nat

VARIABLES forward,   \* forward_: <<from, label, to>>
          inverse,   \* inverse_: <<to, label, from>>
          elog,      \* log_
          eapplied   \* applied_

edgesVars == <<forward, inverse, elog, eapplied>>

Edge == Vertex \X Label \X Vertex

(* The same edge as the other trunk stores it. *)
Mirror(e) == <<e[3], e[2], e[1]>>
Mirrored(es) == {Mirror(e) : e \in es}

EdgesTypeOK ==
    /\ forward \in SUBSET Edge
    /\ inverse \in SUBSET Edge
    /\ elog \in Seq(Change(Edge))
    /\ eapplied \in 0..Len(elog)

EdgesInit ==
    /\ forward = {}
    /\ inverse = {}
    /\ elog = <<>>
    /\ eapplied = 0

-----------------------------------------------------------------------------
(* The triples of a trunk under a vertex, or under a vertex and a label. *)
Branch(trunk, v)  == {e \in trunk : e[1] = v}
Leaf(trunk, v, l) == {e \in trunk : e[1] = v /\ e[2] = l}

(* The orders in which a hash table may enumerate the set es. *)
Orders(es) == Bijection(1..Cardinality(es), es)

(* add_edge: insert() into both trunks, logged if forward_ changed. *)
EdgesAdd(e) ==
    /\ \/ e \in forward /\ UNCHANGED <<forward, inverse, elog>>
       \/ /\ e \notin forward
          /\ Len(elog) < MaxEdgeLog
          /\ forward' = forward \cup {e}
          /\ inverse' = inverse \cup {Mirror(e)}
          /\ elog' = Append(elog, [item |-> e, added |-> TRUE])
    /\ UNCHANGED eapplied

(* remove_edge: erase() from both trunks, logged if forward_ changed. *)
EdgesRemove(e) ==
    /\ \/ e \notin forward /\ UNCHANGED <<forward, inverse, elog>>
       \/ /\ e \in forward
          /\ Len(elog) < MaxEdgeLog
          /\ forward' = forward \ {e}
          /\ inverse' = inverse \ {Mirror(e)}
          /\ elog' = Append(elog, [item |-> e, added |-> FALSE])
    /\ UNCHANGED eapplied

(* A variant that leaves the inverse trunk alone. *)
EdgesRemoveViaForward(v, l) ==
    LET removed == Leaf(forward, v, l) IN
    /\ Len(elog) + Cardinality(removed) <= MaxEdgeLog
    /\ forward' = forward \ removed
    /\ \E order \in Orders(removed) : elog' = elog \o Removals(order)
    /\ UNCHANGED <<inverse, eapplied>>

(* remove_edges_from_via_label: the whole leaf goes, in the leaf's order. *)
EdgesRemoveVia(v, l) ==
    LET removed == Leaf(forward, v, l) IN
    /\ Len(elog) + Cardinality(removed) <= MaxEdgeLog
    /\ forward' = forward \ removed
    /\ inverse' = inverse \ Mirrored(removed)
    /\ \E order \in Orders(removed) : elog' = elog \o Removals(order)
    /\ UNCHANGED eapplied

(* remove_edges_of_vertex: first the forward branch (which takes the loops *)
(* along), then what is left of the inverse branch.                        *)
EdgesRemoveOf(v) ==
    LET outgoing == Branch(forward, v)
        incoming == Mirrored(Branch(inverse \ Mirrored(outgoing), v))
    IN
    /\ Len(elog) + Cardinality(outgoing) + Cardinality(incoming) <= MaxEdgeLog
    /\ forward' = (forward \ outgoing) \ incoming
    /\ inverse' = (inverse \ Mirrored(outgoing)) \ Mirrored(incoming)
    /\ \E first \in Orders(outgoing), second \in Orders(incoming) :
          elog' = (elog \o Removals(first)) \o Removals(second)
    /\ UNCHANGED eapplied

EdgesApply ==
    /\ eapplied' = Len(elog)
    /\ UNCHANGED <<forward, inverse, elog>>

EdgesCommit ==
    /\ elog' = DropApplied(elog, eapplied)
    /\ eapplied' = 0
    /\ UNCHANGED <<forward, inverse>>

(* The undo loop changes inverse_ only where insert() or erase() really    *)
(* changed forward_: for an edge some entry of which disagrees with what   *)
(* undoing it would leave in forward_.                                     *)
Toggled == {elog[j].item : j \in {i \in 1..Len(elog) :
                elog[i].added = (elog[i].item \in forward)}}

EdgesRollback ==
    /\ forward' = Undo(forward, elog, 0)
    /\ inverse' = (inverse \ Mirrored(Toggled))
                    \cup Mirrored(Toggled \cap Undo(forward, elog, 0))
    /\ elog' = <<>>
    /\ eapplied' = 0

EdgesUnapplied   == eapplied < Len(elog)             \* has_unapplied_changes()
JustAddedEdges   == JustChanged(elog, eapplied, TRUE)   \* iter_just_added()
JustRemovedEdges == JustChanged(elog, eapplied, FALSE)  \* iter_just_removed()
=============================================================================
