------------------------------- MODULE Graph -------------------------------
(***************************************************************************)
(* Graph (graph.h, graph.cpp): the two containers behind the five kinds of *)
(* updates a client may send, and the transaction control (apply, commit,  *)
(* rollback) that keeps the containers in step.  A batch of updates is     *)
(* executed one by one with nothing in between, so a step is one update.   *)
(***************************************************************************)
EXTENDS VerticesContainer, EdgesContainer

VARIABLE changes   \* GraphChanges returned by the latest call, if it was apply()

vars == <<known, present, byType, vlog, vapplied,
          forward, inverse, elog, eapplied, changes>>

GraphChanges == [addedVertices : SUBSET Vertex, removedVertices : SUBSET Vertex,
                 addedEdges    : SUBSET Edge,   removedEdges    : SUBSET Edge]

NoChanges == [addedVertices |-> {}, removedVertices |-> {},
              addedEdges    |-> {}, removedEdges    |-> {}]

TypeOK == VerticesTypeOK /\ EdgesTypeOK /\ changes \in GraphChanges

Init == VerticesInit /\ EdgesInit /\ changes = NoChanges

-----------------------------------------------------------------------------
(* Updates. An end is looked up by get_vertex_id: it has to be known, and  *)
(* for a new edge also present, as removed vertices keep their IDs.        *)

AddVertex(v) ==
    /\ VerticesAdd(v)
    /\ changes' = NoChanges
    /\ UNCHANGED edgesVars

RemoveVertex(v) ==
    /\ v \in known
    /\ EdgesRemoveOf(v)
    /\ VerticesDiscard(v)
    /\ changes' = NoChanges

(* A variant that only asks whether the ends have IDs. *)
AddEdgeOfKnown(v, l, w) ==
    /\ {v, w} \subseteq known
    /\ EdgesAdd(<<v, l, w>>)
    /\ changes' = NoChanges
    /\ UNCHANGED verticesVars

AddEdge(v, l, w) ==
    /\ {v, w} \subseteq known
    /\ {v, w} \subseteq present
    /\ EdgesAdd(<<v, l, w>>)
    /\ changes' = NoChanges
    /\ UNCHANGED verticesVars

RemoveEdge(v, l, w) ==
    /\ {v, w} \subseteq known
    /\ EdgesRemove(<<v, l, w>>)
    /\ changes' = NoChanges
    /\ UNCHANGED verticesVars

RemoveEdgesToAll(v, l) ==
    /\ v \in known
    /\ EdgesRemoveVia(v, l)
    /\ changes' = NoChanges
    /\ UNCHANGED verticesVars

(* Transaction control. apply() has an early return that leaves both       *)
(* containers alone when neither has changes to report.                    *)

Apply ==
    \/ /\ VerticesUnapplied \/ EdgesUnapplied
       /\ changes' = [addedVertices   |-> JustAddedVertices,
                      removedVertices |-> JustRemovedVertices,
                      addedEdges      |-> JustAddedEdges,
                      removedEdges    |-> JustRemovedEdges]
       /\ VerticesApply
       /\ EdgesApply
    \/ /\ ~VerticesUnapplied /\ ~EdgesUnapplied
       /\ changes' = NoChanges
       /\ UNCHANGED <<verticesVars, edgesVars>>

Commit == VerticesCommit /\ EdgesCommit /\ changes' = NoChanges

Rollback == VerticesRollback /\ EdgesRollback /\ changes' = NoChanges

Next ==
    \/ \E v \in Vertex : AddVertex(v) \/ RemoveVertex(v)
    \/ \E v, w \in Vertex, l \in Label : AddEdge(v, l, w) \/ RemoveEdge(v, l, w)
    \/ \E v \in Vertex, l \in Label : RemoveEdgesToAll(v, l)
    \/ Apply \/ Commit \/ Rollback

Spec == Init /\ [][Next]_vars
=============================================================================
