------------------------------ MODULE Entities ------------------------------
(***************************************************************************)
(* Entities (entity.py), their fields (utilities/properties.py, containers *)
(* .py) and the part of Environment that keeps them: Python objects which  *)
(* stand for vertices and cache the edges that leave them.  The graph is   *)
(* changed by updates sent beside; objects never look at it, except when   *)
(* rollback() makes all of them anew.                                      *)
(*                                                                         *)
(* The graph is what it will be once the buffer of updates is flushed      *)
(* (Environment has the buffer).  An object is <<primitive, n>>, n telling *)
(* apart objects of one primitive.  create() and get_or_create() construct,*)
(* add and set fields, one after the other, as the actions here do.        *)
(* Clients do not use objects from before a rollback, nor fields of a      *)
(* temporary entity, and assign living entities only but in CarelessSpec.  *)
(***************************************************************************)
EXTENDS FiniteSets, Integers

CONSTANTS Primitive,     \* primitives of entities
          Plain,         \* other vertices: strings, dates
          Label,
          LabelsOf,      \* the fields of an entity, by its primitive
          Collections,   \* the labels of fields that are sets
          Optional,      \* the labels of fields that may be None
          RangeOf        \* what a field may hold

ASSUME EntitiesAssumption ==
    /\ Collections \subseteq Label /\ Optional \subseteq Label \ Collections
    /\ LabelsOf \in [Primitive -> SUBSET Label]
    /\ RangeOf \in [Label -> SUBSET (Primitive \cup Plain)]
    /\ Primitive \cap Plain = {}
    /\ (Primitive \cup Plain) \cap (Primitive \X {1, 2}) = {}

Object == Primitive \X {1, 2}

VARIABLES present, committed,   \* the graph, now and at the last commit
          heap                  \* the objects

vars == <<present, committed, heap>>

(* What is known of objects: objects that exist, _entities, the weak       *)
(* _temporary_entities, alive, and the fields' caches and _inverse.        *)
EmptyHeap == [objects   |-> {},
              entities  |-> {},
              temporary |-> {},
              alive     |-> {},
              cache     |-> [o \in Object |-> [l \in Label |-> {}]],
              inverse   |-> [o \in Object |-> {}]]

Init ==
    /\ present = [vertices |-> {}, edges |-> {}]
    /\ committed = present
    /\ heap = EmptyHeap

TypeOK ==
    /\ {present, committed} \subseteq
          [vertices : SUBSET (Primitive \cup Plain),
           edges    : SUBSET (Primitive \X Label \X (Primitive \cup Plain))]
    /\ heap.objects \subseteq Object
    /\ heap.entities \cup heap.temporary \cup heap.alive \subseteq heap.objects
    /\ heap.cache \in [Object -> [Label -> SUBSET (Object \cup Plain)]]
    /\ heap.inverse \in [Object -> SUBSET (Object \X Label)]

-----------------------------------------------------------------------------
(* The graph: edges to what is not there are dropped. *)
UnwrapPrimitive(item) == IF item \in Object THEN item[1] ELSE item

WithVertices(g, vs)   == [g EXCEPT !.vertices = @ \cup vs]
WithoutVertex(g, v)   == [vertices |-> g.vertices \ {v},
                          edges    |-> {e \in g.edges : v \notin {e[1], e[3]}}]
WithEdges(g, p, l, items) ==
    [g EXCEPT !.edges = @ \cup
        {e \in {p} \X {l} \X {UnwrapPrimitive(i) : i \in items} : {e[1], e[3]} \subseteq g.vertices}]
WithoutEdges(g, p, l, items) ==
    [g EXCEPT !.edges = @ \ ({p} \X {l} \X {UnwrapPrimitive(i) : i \in items})]
WithoutEdgesToAll(g, p, l) == [g EXCEPT !.edges = {e \in @ : e[1] # p \/ e[2] # l}]

-----------------------------------------------------------------------------
(* Objects. *)

OfPrimitive(objects, p) == {o \in objects : o[1] = p}

(* __new__ of what is neither living nor temporary. *)
Constructed(h, o) == [h EXCEPT !.objects = @ \cup {o}, !.temporary = @ \cup {o}]

(* Environment.add: a temporary entity comes alive. *)
Added(h, o) ==
    [h EXCEPT !.alive     = @ \cup {o},
              !.entities  = (@ \ OfPrimitive(@, o[1])) \cup {o},
              !.temporary = @ \ OfPrimitive(@, o[1])]

(* add_to_cache, _add_to_cache, _add_many. *)
Related(h, o, l, items) ==
    [h EXCEPT !.cache[o][l] = @ \cup items,
              !.inverse = [x \in Object |-> IF x \in items THEN @[x] \cup {<<o, l>>} ELSE @[x]]]

(* A variant of discard() and clear() that forgets the inverse relations. *)
UnrelatedOneWay(h, o, l, items) == [h EXCEPT !.cache[o][l] = @ \ items]

Unrelated(h, o, l, items) ==
    [h EXCEPT !.cache[o][l] = @ \ items,
              !.inverse = [x \in Object |-> IF x \in items THEN @[x] \ {<<o, l>>} ELSE @[x]]]

(* A variant that leaves the fields of others alone. *)
AfterRemoveOwnFields(h, o) ==
    [h EXCEPT !.alive = @ \ {o},
              !.cache[o] = [l \in Label |-> {}],
              !.inverse  = [x \in Object |-> {r \in @[x] : r[1] # o /\ x # o}]]

(* _after_remove: the fields of the entity are emptied, then those that    *)
(* hold it.                                                                *)
AfterRemove(h, o) ==
    [h EXCEPT !.alive   = @ \ {o},
              !.cache   = [x \in Object |-> [l \in Label |->
                              IF x = o THEN {}
                              ELSE IF <<x, l>> \notin h.inverse[o] THEN @[x][l]
                              ELSE IF l \in Collections THEN @[x][l] \ {o} ELSE {}]],
              !.inverse = [x \in Object |->
                              IF x = o THEN {} ELSE {r \in @[x] : r[1] # o \/ x \notin h.cache[o][r[2]]}]]

(* A variant in which the object is not a temporary entity afterwards. *)
RemovedForGood(h, o) == [AfterRemove(h, o) EXCEPT !.entities = @ \ {o}]

(* Environment.remove: a living entity becomes temporary. *)
Removed(h, o) == [AfterRemove(h, o) EXCEPT !.entities = @ \ {o}, !.temporary = @ \cup {o}]

(* sync: an object for each vertex, with fields as the edges say.  A       *)
(* variant leaves the fields empty.                                        *)
Existing(v) == IF v \in Primitive THEN <<v, 1>> ELSE v
SyncedWithoutFields(g) ==
    LET objects == {Existing(v) : v \in g.vertices \cap Primitive}
    IN  [EmptyHeap EXCEPT !.objects = objects, !.entities = objects, !.alive = objects]
Synced(g) ==
    LET objects == {Existing(v) : v \in g.vertices \cap Primitive}
    IN  [objects   |-> objects,
         entities  |-> objects,
         temporary |-> {},
         alive     |-> objects,
         cache     |-> [o \in Object |-> [l \in Label |->
                           {Existing(e[3]) : e \in {f \in g.edges : <<f[1], 1>> = o /\ f[2] = l}}]],
         inverse   |-> [o \in Object |->
                           {<<Existing(e[1]), e[2]>> : e \in {f \in g.edges : Existing(f[3]) = o}}]]

-----------------------------------------------------------------------------
(* What clients do. *)

(* Entity.__new__ and __init__ without fields; nothing happens to an       *)
(* object that is there.                                                   *)
Construct(p) ==
    /\ OfPrimitive(heap.entities \cup heap.temporary, p) = {}
    /\ \E o \in OfPrimitive(Object \ heap.objects, p) : heap' = Constructed(heap, o)
    /\ UNCHANGED <<present, committed>>

(* The client lets go of an object that nothing else refers to.  A variant *)
(* leaves its name in the registry, whose references are weak.             *)
ForgetKeepingName(o) ==
    /\ o \in heap.objects \ heap.entities
    /\ \A x \in Object, l \in Label : o \notin heap.cache[x][l] /\ <<o, l>> \notin heap.inverse[x]
    /\ heap' = [heap EXCEPT !.objects = @ \ {o}]
    /\ UNCHANGED <<present, committed>>

Forget(o) ==
    /\ o \in heap.objects \ heap.entities
    /\ \A x \in Object, l \in Label : o \notin heap.cache[x][l] /\ <<o, l>> \notin heap.inverse[x]
    /\ heap' = [heap EXCEPT !.objects = @ \ {o}, !.temporary = @ \ {o}]
    /\ UNCHANGED <<present, committed>>

Add(o) ==
    /\ o \in heap.objects \ heap.alive
    /\ heap' = Added(heap, o)
    /\ present' = WithVertices(present, {o[1]})
    /\ UNCHANGED committed

Remove(o) ==
    /\ o \in heap.alive
    /\ heap' = Removed(heap, o)
    /\ present' = WithoutVertex(present, o[1])
    /\ UNCHANGED committed

(* A living entity with such a field. *)
HasField(o, l) == o \in heap.alive /\ l \in LabelsOf[o[1]]

(* What a client may put into a field, entities that are not alive         *)
(* included.                                                               *)
Items(l) == {i \in heap.objects \cup Plain : UnwrapPrimitive(i) \in RangeOf[l]}
Living(items) == items \cap Object \subseteq heap.alive

(* __set__ of a field with at most one value.  A variant leaves the edge   *)
(* to the value before.                                                    *)
SetFieldOnTop(o, l, items) ==
    /\ HasField(o, l) /\ l \notin Collections
    /\ Living(items) /\ items # heap.cache[o][l]
    /\ present' = WithEdges(WithVertices(present, items \cap Plain), o[1], l, items)
    /\ heap' = Related(Unrelated(heap, o, l, heap.cache[o][l]), o, l, items)
    /\ UNCHANGED committed

SetField(o, l, items) ==
    /\ HasField(o, l) /\ l \notin Collections
    /\ Living(items) /\ items # heap.cache[o][l]
    /\ LET unlinked == IF heap.cache[o][l] = {} THEN present
                       ELSE WithoutEdgesToAll(present, o[1], l)
       IN  present' = WithEdges(WithVertices(unlinked, items \cap Plain), o[1], l, items)
    /\ heap' = Related(Unrelated(heap, o, l, heap.cache[o][l]), o, l, items)
    /\ UNCHANGED committed

(* add() of a set, which adds the item itself if need be. *)
AddToSet(o, l, item) ==
    /\ HasField(o, l) /\ l \in Collections
    /\ LET dead == {item} \cap (Object \ heap.alive)
           h    == IF dead = {} THEN heap ELSE Added(heap, item)
       IN  /\ heap' = Related(h, o, l, {item})
           /\ present' = WithEdges(WithVertices(present, {UnwrapPrimitive(item)}), o[1], l, {item})
    /\ UNCHANGED committed

(* update() raises before it does anything if an item is not alive. *)
UpdateSet(o, l, items) ==
    /\ HasField(o, l) /\ l \in Collections
    /\ Living(items)
    /\ heap' = Related(heap, o, l, items)
    /\ present' = WithEdges(WithVertices(present, items \cap Plain), o[1], l, items)
    /\ UNCHANGED committed

(* discard(), difference_update(). *)
DiscardFromSet(o, l, items) ==
    /\ HasField(o, l) /\ l \in Collections
    /\ heap' = Unrelated(heap, o, l, items)
    /\ present' = WithoutEdges(present, o[1], l, items)
    /\ UNCHANGED committed

(* assign(): clear(), which alone remains if update() raises. *)
AssignSet(o, l, items) ==
    /\ HasField(o, l) /\ l \in Collections
    /\ LET added   == IF Living(items) THEN items ELSE {}
           cleared == WithoutEdgesToAll(present, o[1], l)
       IN  /\ heap' = Related(Unrelated(heap, o, l, heap.cache[o][l]), o, l, added)
           /\ present' = WithEdges(WithVertices(cleared, added \cap Plain), o[1], l, added)
    /\ UNCHANGED committed

Commit ==
    /\ committed' = present
    /\ UNCHANGED <<present, heap>>

Rollback ==
    /\ present' = committed
    /\ heap' = Synced(committed)
    /\ UNCHANGED committed

Next ==
    \/ \E p \in Primitive : Construct(p)
    \/ \E o \in Object : Forget(o) \/ Add(o) \/ Remove(o)
    \/ \E o \in Object, l \in Label, i \in heap.objects \cup Plain :
          /\ i \in Items(l)
          /\ SetField(o, l, {i}) \/ AddToSet(o, l, i)
    \/ \E o \in Object, l \in Optional : SetField(o, l, {})
    \/ \E o \in Object, l \in Collections : \E items \in SUBSET Items(l) :
          UpdateSet(o, l, items) \/ DiscardFromSet(o, l, items) \/ AssignSet(o, l, items)
    \/ Commit \/ Rollback

Spec == Init /\ [][Next]_vars

-----------------------------------------------------------------------------
(* Clients that also assign entities that are not alive: the RuntimeError  *)
(* of __set__ comes after the first update.                                *)
SetFieldRaises(o, l, items) ==
    /\ HasField(o, l) /\ l \notin Collections
    /\ ~Living(items)
    /\ present' = IF heap.cache[o][l] = {} THEN present ELSE WithoutEdgesToAll(present, o[1], l)
    /\ UNCHANGED <<committed, heap>>

CarelessNext ==
    Next \/ \E o \in Object, l \in Label, i \in heap.objects : i \in Items(l) /\ SetFieldRaises(o, l, {i})

CarelessSpec == Init /\ [][CarelessNext]_vars
=============================================================================
