------------------------- MODULE VerticesContainer -------------------------
(***************************************************************************)
(* MutableVerticesContainer (vertices_container.h, vertices_container.cpp): *)
(* the vertices of a graph, their index by type name, and the undo log.    *)
(***************************************************************************)
EXTENDS UndoLog, VertexData

CONSTANT MaxVertexLog   \* bound on the length of the undo log

ASSUME VertexLogAssumption == MaxVertexLog \in Nat

VARIABLES known,    \* domain of vertex_id_by_vertex: data that has an ID
          present,  \* the present vertices (set `present', flag `present')
          byType,   \* vertices_by_type_name; no entry is the empty set
          vlog,     \* log_
          vapplied  \* applied_

verticesVars == <<known, present, byType, vlog, vapplied>>

VerticesTypeOK ==
    /\ known \in SUBSET Vertex
    /\ present \in SUBSET known
    /\ byType \in [TypeName -> SUBSET Vertex]
    /\ vlog \in Seq(Change(known))
    /\ vapplied \in 0..Len(vlog)

VerticesInit ==
    /\ known = {}
    /\ present = {}
    /\ byType = [t \in TypeName |-> {}]
    /\ vlog = <<>>
    /\ vapplied = 0

-----------------------------------------------------------------------------
(* set_present(v, isPresent), with the log entry its callers push. *)
SetPresent(v, isPresent) ==
    /\ Len(vlog) < MaxVertexLog
    /\ IF isPresent
         THEN /\ present' = present \cup {v}
              /\ byType' = [byType EXCEPT ![TypeOf[v]] = @ \cup {v}]
         ELSE /\ present' = present \ {v}
              /\ byType' = [byType EXCEPT ![TypeOf[v]] = @ \ {v}]
    /\ vlog' = Append(vlog, [item |-> v, added |-> isPresent])

(* A variant that logs an addition without looking at the present flag. *)
VerticesAddAlways(v) ==
    /\ known' = known \cup {v}
    /\ SetPresent(v, TRUE)
    /\ UNCHANGED vapplied

VerticesAdd(v) ==
    /\ known' = known \cup {v}
    /\ \/ v \in present /\ UNCHANGED <<present, byType, vlog>>
       \/ v \notin present /\ SetPresent(v, TRUE)
    /\ UNCHANGED vapplied

VerticesDiscard(v) ==
    /\ \/ v \notin present /\ UNCHANGED <<present, byType, vlog>>
       \/ v \in known /\ v \in present /\ SetPresent(v, FALSE)
    /\ UNCHANGED <<known, vapplied>>

VerticesApply ==
    /\ vapplied' = Len(vlog)
    /\ UNCHANGED <<known, present, byType, vlog>>

(* Variants: one that keeps applied_, and one that clears the whole log. *)
VerticesCommitKeepingApplied ==
    /\ vlog' = DropApplied(vlog, vapplied)
    /\ UNCHANGED <<known, present, byType, vapplied>>
VerticesCommitAll ==
    /\ vlog' = <<>>
    /\ vapplied' = 0
    /\ UNCHANGED <<known, present, byType>>

VerticesCommit ==
    /\ vlog' = DropApplied(vlog, vapplied)
    /\ vapplied' = 0
    /\ UNCHANGED <<known, present, byType>>

(* A variant that forgets the index by type name. *)
VerticesRollbackPresentOnly ==
    /\ present' = Undo(present, vlog, 0)
    /\ vlog' = <<>>
    /\ vapplied' = 0
    /\ UNCHANGED <<known, byType>>

(* The loop calls set_present for every entry: each call updates the set   *)
(* of present vertices and the index entry of the vertex's own type.       *)
VerticesRollback ==
    /\ present' = Undo(present, vlog, 0)
    /\ byType' = [t \in TypeName |->
                    (byType[t] \ ItemsAfter(vlog, 0))
                      \cup {v \in FirstItems(vlog, 0, FALSE) : TypeOf[v] = t}]
    /\ vlog' = <<>>
    /\ vapplied' = 0
    /\ UNCHANGED known

VerticesUnapplied  == vapplied < Len(vlog)          \* has_unapplied_changes()
JustAddedVertices   == JustChanged(vlog, vapplied, TRUE)   \* iter_just_added()
JustRemovedVertices == JustChanged(vlog, vapplied, FALSE)  \* iter_just_removed()
=============================================================================
