--------------------------- MODULE EntitiesSafety ---------------------------
(***************************************************************************)
(* What the users of entities rely on.                                     *)
(***************************************************************************)
EXTENDS Entities

(* "Fetching the same entity multiple times will return the same object"   *)
(* (docs/usage_entities.md): whatever is constructed, added, removed,      *)
(* forgotten and rolled back, no two objects stand for one primitive, the  *)
(* environment knows all of them, and those that are alive are the ones    *)
(* whose vertices are in the graph (Environment.add, remove, sync).        *)
OneObjectEach ==
    /\ \A o1, o2 \in heap.objects : o1[1] = o2[1] => o1 = o2
    /\ heap.objects = heap.entities \cup heap.temporary
    /\ heap.entities = heap.alive
    /\ heap.temporary \cap heap.alive = {}
    /\ {o[1] : o \in heap.alive} = present.vertices \cap Primitive

(* "`None' is handled as the absence of an edge" (docs/usage_entities.md): *)
(* what the fields of an entity hold are the ends of its edges, although   *)
(* no field is ever read from the graph but by sync.                       *)
FieldsMirrorEdges ==
    \A o \in heap.objects, l \in Label :
        {UnwrapPrimitive(i) : i \in heap.cache[o][l]}
          = {e[3] : e \in {f \in present.edges : f[1] = o[1] /\ f[2] = l}}

(* An entity knows whose fields hold it, so that _after_remove can empty   *)
(* them, and none of its remove() of a pair or an item misses.             *)
InverseMirrorsFields ==
    \A o \in Object :
        heap.inverse[o] = {r \in Object \X Label : o \in heap.cache[r[1]][r[2]]}

(* To its client, the environment is a store of objects. *)
FieldsOf(p) ==
    LET o == CHOOSE x \in heap.alive : x[1] = p
    IN  [l \in Label |-> {UnwrapPrimitive(i) : i \in heap.cache[o][l]}]
EdgesAsFields(g) ==
    [p \in g.vertices \cap Primitive |->
        [l \in Label |-> {e[3] : e \in {f \in g.edges : f[1] = p /\ f[2] = l}}]]

Store == INSTANCE ObjectStore WITH
    fields <- [p \in {o[1] : o \in heap.alive} |-> FieldsOf(p)],
    saved  <- EdgesAsFields(committed)

(* What clients read from fields is what they have set since the last      *)
(* rollback, and what had been committed before; what is removed is gone   *)
(* from all fields at once (RelatedEntitiesSet, RelatedEntityProperty).    *)
ActsAsObjectStore == Store!Spec
=============================================================================
