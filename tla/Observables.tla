---------------------------- MODULE Observables ----------------------------
(***************************************************************************)
(* What observers can wait for (observable.h, observable.cpp) and the      *)
(* positions from which they match: <<kind, vertex>>, kind being "core"    *)
(* for a pattern that begins with a vertex and "orbit" for one that begins *)
(* with an edge.  The other ObservableStartPositions of queryset.h are not *)
(* positions themselves, but stand for some.                               *)
(***************************************************************************)
EXTENDS VertexData, SequencesExt

CONSTANT Anything   \* `*' for a vertex or for the labels of an edge

NewVertex               == <<"NewVertex">>
NewVertexOfType(t)      == <<"NewVertexOfType", t>>
ParticularVertex(v)     == <<"ParticularVertex", v>>
NewEdge                 == <<"NewEdge">>
NewEdgeWithLabel(l)     == <<"NewEdgeWithLabel", l>>
EdgeFrom(v)             == <<"EdgeFrom", v>>
EdgeFromWithLabel(v, l) == <<"EdgeFromWithLabel", v, l>>
EdgeTo(v)               == <<"EdgeTo", v>>
EdgeToWithLabel(v, l)   == <<"EdgeToWithLabel", v, l>>
ParticularEdge(e)       == <<"ParticularEdge", e>>

(* The subgraphs of a nested expression from <<expression, position,       *)
(* refs>>, a NestedExpressionStart.                                        *)
NestedSubgraphs(start)  == <<"NestedExpressionSubgraph", start>>
StartsIn(observables)   == {d[2] : d \in {o \in observables : o[1] = "NestedExpressionSubgraph"}}

EveryAddedVertex  == <<"every added vertex">>
EveryAddedEdge    == <<"every added edge">>
AbsentPosition(v) == <<"absent", v>>

Core(v)  == <<"core", v>>
Orbit(v) == <<"orbit", v>>
Position == {"core", "orbit"} \X Vertex
=============================================================================
