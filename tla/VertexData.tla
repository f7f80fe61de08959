----------------------------- MODULE VertexData -----------------------------
(***************************************************************************)
(* The vertices both containers of a graph are about (vertex.h).  A        *)
(* vertex's data (type name and value) is one element of Vertex, TypeOf    *)
(* giving its type name.  A VertexID is a pointer to the stored data; it   *)
(* is allocated once per data and never freed, so it is its data.          *)
(***************************************************************************)
EXTENDS FiniteSets

CONSTANTS Vertex,     \* vertex data that clients may send
          TypeName,   \* vertex type names
          TypeOf      \* the type name of each vertex

ASSUME VertexAssumption == /\ IsFiniteSet(Vertex)
                           /\ TypeOf \in [Vertex -> TypeName]
=============================================================================
