------------------------- MODULE GraphTransactions -------------------------
(***************************************************************************)
(* What a graph promises, without logs and indexes: three copies of the    *)
(* set of vertices and of the set of edges, as ReferenceGraph in           *)
(* tests/test_transactions.cpp keeps them.  Updates change the present     *)
(* copy, apply() reports how it differs from the applied one, commit()     *)
(* makes the applied copy the committed one, and rollback() returns all    *)
(* three to the committed one.                                             *)
(***************************************************************************)
CONSTANTS Vertex, Label

VARIABLES present, applied, committed,   \* [vertices, edges] each
          changes                        \* the answer of the latest call

abstractVars == <<present, applied, committed, changes>>

Nothing == [addedVertices |-> {}, removedVertices |-> {},
            addedEdges    |-> {}, removedEdges    |-> {}]

Empty == [vertices |-> {}, edges |-> {}]

Init ==
    /\ present = Empty /\ applied = Empty /\ committed = Empty
    /\ changes = Nothing

(* An update leaves the present copy as given and answers nothing. *)
Becomes(vertices, edges) ==
    /\ present' = [vertices |-> vertices, edges |-> edges]
    /\ changes' = Nothing
    /\ UNCHANGED <<applied, committed>>

AddVertex(v) == Becomes(present.vertices \cup {v}, present.edges)

RemoveVertex(v) ==
    Becomes(present.vertices \ {v},
            {e \in present.edges : e[1] # v /\ e[3] # v})

AddEdge(v, l, w) ==
    /\ {v, w} \subseteq present.vertices
    /\ Becomes(present.vertices, present.edges \cup {<<v, l, w>>})

RemoveEdge(v, l, w) == Becomes(present.vertices, present.edges \ {<<v, l, w>>})

RemoveEdgesToAll(v, l) ==
    Becomes(present.vertices, {e \in present.edges : e[1] # v \/ e[2] # l})

Apply ==
    /\ changes' = [addedVertices   |-> present.vertices \ applied.vertices,
                   removedVertices |-> applied.vertices \ present.vertices,
                   addedEdges      |-> present.edges \ applied.edges,
                   removedEdges    |-> applied.edges \ present.edges]
    /\ applied' = present
    /\ UNCHANGED <<present, committed>>

Commit ==
    /\ committed' = applied
    /\ changes' = Nothing
    /\ UNCHANGED <<present, applied>>

Rollback ==
    /\ present' = committed /\ applied' = committed
    /\ changes' = Nothing
    /\ UNCHANGED committed

Next ==
    \/ \E v \in Vertex : AddVertex(v) \/ RemoveVertex(v)
    \/ \E v, w \in Vertex, l \in Label : AddEdge(v, l, w) \/ RemoveEdge(v, l, w)
    \/ \E v \in Vertex, l \in Label : RemoveEdgesToAll(v, l)
    \/ Apply \/ Commit \/ Rollback

Spec == Init /\ [][Next]_abstractVars
=============================================================================
