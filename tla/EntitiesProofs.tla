--------------------------- MODULE EntitiesProofs ---------------------------
(***************************************************************************)
(* Proofs about Entities, for any primitives, values and labels: the       *)
(* invariants of EntitiesSafety, and that the environment is a store of    *)
(* objects.  What operations do to objects and to the graph are operators  *)
(* without variables, and most lemmas are about a heap h and a graph g     *)
(* that belong together.                                                   *)
(***************************************************************************)
EXTENDS EntitiesSafety, TLAPS

HeapRecord == [objects   : SUBSET Object,
               entities  : SUBSET Object,
               temporary : SUBSET Object,
               alive     : SUBSET Object,
               cache     : [Object -> [Label -> SUBSET (Object \cup Plain)]],
               inverse   : [Object -> SUBSET (Object \X Label)]]

GraphRecord == [vertices : SUBSET (Primitive \cup Plain),
                edges    : SUBSET (Primitive \X Label \X (Primitive \cup Plain))]

(* A graph without dangling edges, and with one edge at most for a field   *)
(* that holds one value.                                                   *)
Whole(g) ==
    /\ g \in GraphRecord
    /\ \A e \in g.edges : e[1] \in g.vertices /\ e[3] \in g.vertices
    /\ \A e, f \in g.edges :
          e[1] = f[1] /\ e[2] = f[2] /\ e[2] \notin Collections => e[3] = f[3]

(* OneObjectEach, of a heap and a graph. *)
Identified(h, g) ==
    /\ \A o1, o2 \in h.objects : o1[1] = o2[1] => o1 = o2
    /\ h.objects = h.entities \cup h.temporary
    /\ h.entities = h.alive
    /\ h.temporary \cap h.alive = {}
    /\ \A o \in h.alive : o[1] \in g.vertices
    /\ \A p \in g.vertices \cap Primitive : \E o \in h.alive : o[1] = p

(* Only fields of living entities hold anything, and of entities only      *)
(* living ones.                                                            *)
Held(h) ==
    /\ \A x \in Object, l \in Label : h.cache[x][l] \subseteq h.alive \cup Plain
    /\ \A x \in Object \ h.alive, l \in Label : h.cache[x][l] = {}
    /\ \A x \in Object, l \in Label \ Collections : \A i, j \in h.cache[x][l] : i = j

(* InverseMirrorsFields. *)
Mirrored(h) ==
    \A o, x \in Object, l \in Label : <<x, l>> \in h.inverse[o] <=> o \in h.cache[x][l]

(* FieldsMirrorEdges, where a field could hold something. *)
Drawn(h, g) ==
    \A o \in h.alive, l \in Label, i \in h.alive \cup Plain :
        i \in h.cache[o][l] <=> <<o[1], l, UnwrapPrimitive(i)>> \in g.edges

Belong(h, g) ==
    /\ h \in HeapRecord
    /\ Identified(h, g)
    /\ Held(h)
    /\ Mirrored(h)
    /\ Drawn(h, g)

EntitiesInv == Whole(present) /\ Whole(committed) /\ Belong(heap, present)

-----------------------------------------------------------------------------
(* What stands for an object in the graph, and for nothing else.           *)
LEMMA Unwrapped ==
  /\ \A o \in Object : UnwrapPrimitive(o) = o[1] /\ o[1] \in Primitive
  /\ \A v \in Plain : UnwrapPrimitive(v) = v /\ v \notin Primitive /\ v \notin Object
  /\ \A p \in Primitive : p \notin Object /\ <<p, 1>> \in Object /\ <<p, 1>>[1] = p
  BY EntitiesAssumption DEF UnwrapPrimitive, Object

LEMMA UnwrapInjective ==
  ASSUME NEW h \in HeapRecord, NEW g, Identified(h, g),
         NEW i \in h.objects \cup Plain, NEW j \in h.objects \cup Plain,
         UnwrapPrimitive(i) = UnwrapPrimitive(j)
  PROVE  i = j
<1>1. h.objects \subseteq Object
  BY DEF HeapRecord
<1>. QED
  BY <1>1, Unwrapped DEF Identified

Ends(items) == {UnwrapPrimitive(i) : i \in items}

(* From h to k, or from g to n, nothing happens but that a field is given  *)
(* other items.                                                            *)
Assigns(h, k, o, l, items) ==
    /\ k \in HeapRecord
    /\ k.objects = h.objects /\ k.entities = h.entities
    /\ k.temporary = h.temporary /\ k.alive = h.alive
    /\ \A x \in Object, m \in Label :
          k.cache[x][m] = IF x = o /\ m = l THEN items ELSE h.cache[x][m]
    /\ \A x, y \in Object, m \in Label :
          <<y, m>> \in k.inverse[x] <=>
             IF y = o /\ m = l THEN x \in items ELSE <<y, m>> \in h.inverse[x]

Links(g, n, p, l, items) ==
    /\ n \in GraphRecord
    /\ g.vertices \subseteq n.vertices /\ n.vertices \subseteq g.vertices \cup Plain
    /\ Ends(items) \subseteq n.vertices
    /\ \A q \in Primitive, m \in Label, v \in Primitive \cup Plain :
          <<q, m, v>> \in n.edges <=>
             IF q = p /\ m = l THEN v \in Ends(items) ELSE <<q, m, v>> \in g.edges

LEMMA LinksWhole ==
  ASSUME NEW g, NEW n, Whole(g), NEW p \in Primitive, p \in g.vertices, NEW l \in Label,
         NEW items \in SUBSET (Object \cup Plain),
         l \notin Collections => \A i, j \in items : i = j,
         Links(g, n, p, l, items)
  PROVE  Whole(n)
<1> DEFINE Triple == Primitive \X Label \X (Primitive \cup Plain)
<1>1. n.edges \in SUBSET Triple /\ g.edges \in SUBSET Triple
  BY DEF Links, Whole, GraphRecord
<1>2. l \notin Collections => \A u, v \in Ends(items) : u = v
  BY DEF Ends
<1>3. ASSUME NEW e \in n.edges
      PROVE  /\ e \in Triple
             /\ IF e[1] = p /\ e[2] = l THEN e[3] \in Ends(items) ELSE e \in g.edges
  <2>1. e \in Triple /\ e = <<e[1], e[2], e[3]>>
    BY <1>1
  <2>2. e[1] \in Primitive /\ e[2] \in Label /\ e[3] \in Primitive \cup Plain
    BY <2>1
  <2>3. <<e[1], e[2], e[3]>> \in n.edges <=>
           IF e[1] = p /\ e[2] = l THEN e[3] \in Ends(items) ELSE <<e[1], e[2], e[3]>> \in g.edges
    BY <2>2 DEF Links
  <2>. QED
    BY <2>1, <2>3
<1>4. \A e \in n.edges : e[1] \in n.vertices /\ e[3] \in n.vertices
  BY <1>3 DEF Links, Whole
<1>5. \A e, f \in n.edges :
         e[1] = f[1] /\ e[2] = f[2] /\ e[2] \notin Collections => e[3] = f[3]
  BY <1>2, <1>3 DEF Whole
<1>. QED
  BY <1>4, <1>5 DEF Whole, Links

LEMMA AssignsMirrored ==
  ASSUME NEW h, NEW k, NEW o \in Object, NEW l \in Label, NEW items,
         Mirrored(h), Assigns(h, k, o, l, items)
  PROVE  Mirrored(k)
<1>. SUFFICES ASSUME NEW z \in Object, NEW x \in Object, NEW m \in Label
              PROVE  <<x, m>> \in k.inverse[z] <=> z \in k.cache[x][m]
  BY DEF Mirrored
<1>1. k.cache[x][m] = IF x = o /\ m = l THEN items ELSE h.cache[x][m]
  BY DEF Assigns
<1>2. <<x, m>> \in k.inverse[z] <=>
         IF x = o /\ m = l THEN z \in items ELSE <<x, m>> \in h.inverse[z]
  BY DEF Assigns
<1>3. <<x, m>> \in h.inverse[z] <=> z \in h.cache[x][m]
  BY DEF Mirrored
<1>. QED
  BY <1>1, <1>2, <1>3

(* Whatever a field is given, objects and graph still belong together.     *)
LEMMA AssignsBelongs ==
  ASSUME NEW h, NEW g, NEW k, NEW n, Whole(g), Belong(h, g), NEW o \in h.alive, NEW l \in Label,
         NEW items \in SUBSET (h.alive \cup Plain),
         l \notin Collections => \A i, j \in items : i = j,
         Assigns(h, k, o, l, items), Links(g, n, o[1], l, items)
  PROVE  Whole(n) /\ Belong(k, n)
<1>1. h \in HeapRecord /\ Identified(h, g) /\ Held(h) /\ Mirrored(h) /\ Drawn(h, g)
  BY DEF Belong
<1>2. /\ h.alive \subseteq Object /\ o \in Object /\ items \in SUBSET (Object \cup Plain)
      /\ h.alive \subseteq h.objects
      /\ o[1] \in Primitive /\ o[1] \in g.vertices
  BY <1>1, Unwrapped DEF HeapRecord, Identified
<1>3. Whole(n)
  BY <1>2, LinksWhole
<1>4. Identified(k, n)
  <2>1. n.vertices \cap Primitive = g.vertices \cap Primitive
    BY EntitiesAssumption DEF Links
  <2>2. k.objects = h.objects /\ k.entities = h.entities
        /\ k.temporary = h.temporary /\ k.alive = h.alive
    BY DEF Assigns
  <2>. QED
    BY <1>1, <2>1, <2>2 DEF Identified, Links
<1>5. Held(k)
  <2>1. k.alive = h.alive /\ \A x \in Object, m \in Label :
           k.cache[x][m] = IF x = o /\ m = l THEN items ELSE h.cache[x][m]
    BY DEF Assigns
  <2>. QED
    BY <1>1, <1>2, <2>1 DEF Held
<1>6. Mirrored(k)
  BY <1>1, <1>2, AssignsMirrored
<1>7. Drawn(k, n)
  <2>1. k.alive = h.alive /\ \A x \in Object, m \in Label :
           k.cache[x][m] = IF x = o /\ m = l THEN items ELSE h.cache[x][m]
    BY DEF Assigns
  <2>. SUFFICES ASSUME NEW x \in h.alive, NEW m \in Label, NEW i \in h.alive \cup Plain
                PROVE  i \in k.cache[x][m] <=> <<x[1], m, UnwrapPrimitive(i)>> \in n.edges
    BY <2>1 DEF Drawn
  <2>2. /\ x \in Object /\ x[1] \in Primitive /\ UnwrapPrimitive(i) \in Primitive \cup Plain
        /\ x[1] = o[1] => x = o
    BY <1>1, <1>2, Unwrapped DEF Identified
  <2>3. UnwrapPrimitive(i) \in Ends(items) <=> i \in items
    <3>1. ASSUME NEW j \in items, UnwrapPrimitive(i) = UnwrapPrimitive(j) PROVE i = j
      BY <1>1, <1>2, <3>1, UnwrapInjective
    <3>. QED
      BY <3>1 DEF Ends
  <2>4. i \in h.cache[x][m] <=> <<x[1], m, UnwrapPrimitive(i)>> \in g.edges
    BY <1>1 DEF Drawn
  <2>5. <<x[1], m, UnwrapPrimitive(i)>> \in n.edges <=>
           IF x[1] = o[1] /\ m = l THEN UnwrapPrimitive(i) \in Ends(items)
                                   ELSE <<x[1], m, UnwrapPrimitive(i)>> \in g.edges
    BY <2>2 DEF Links
  <2>. QED
    BY <1>2, <2>1, <2>2, <2>3, <2>4, <2>5
<1>. QED
  BY <1>3, <1>4, <1>5, <1>6, <1>7 DEF Belong, Assigns

-----------------------------------------------------------------------------
(* What the steps of assignments do to the objects ...                     *)
LEMMA AssignsTwice ==
  ASSUME NEW h, NEW k, NEW k2, NEW o, NEW l, NEW a, NEW b,
         Assigns(h, k, o, l, a), Assigns(k, k2, o, l, b)
  PROVE  Assigns(h, k2, o, l, b)
  BY DEF Assigns

LEMMA RelatedAssigns ==
  ASSUME NEW h \in HeapRecord, Mirrored(h), NEW o \in Object, NEW l \in Label,
         NEW items \in SUBSET (Object \cup Plain)
  PROVE  Assigns(h, Related(h, o, l, items), o, l, h.cache[o][l] \cup items)
<1> DEFINE cache == [h.cache EXCEPT ![o][l] = @ \cup items]
           inverse == [x \in Object |-> IF x \in items THEN h.inverse[x] \cup {<<o, l>>}
                                                       ELSE h.inverse[x]]
           k == [h EXCEPT !.cache = cache, !.inverse = inverse]
<1>1. /\ h.cache \in [Object -> [Label -> SUBSET (Object \cup Plain)]]
      /\ h.inverse \in [Object -> SUBSET (Object \X Label)]
  BY DEF HeapRecord
<1>2. /\ cache \in [Object -> [Label -> SUBSET (Object \cup Plain)]]
      /\ \A x \in Object, m \in Label :
            cache[x][m] = IF x = o /\ m = l THEN h.cache[o][l] \cup items ELSE h.cache[x][m]
  BY <1>1
<1>3. /\ inverse \in [Object -> SUBSET (Object \X Label)]
      /\ \A x \in Object :
            inverse[x] = IF x \in items THEN h.inverse[x] \cup {<<o, l>>} ELSE h.inverse[x]
  BY <1>1
<1>4. \A x, y \in Object, m \in Label :
         <<y, m>> \in inverse[x] <=>
            IF y = o /\ m = l THEN x \in h.cache[o][l] \cup items ELSE <<y, m>> \in h.inverse[x]
  BY <1>3 DEF Mirrored
<1>5. Related(h, o, l, items) = k
  BY DEF Related
<1>. HIDE DEF cache, inverse
<1>6. /\ k \in HeapRecord
      /\ k.objects = h.objects /\ k.entities = h.entities /\ k.temporary = h.temporary
      /\ k.alive = h.alive /\ k.cache = cache /\ k.inverse = inverse
  BY <1>2, <1>3 DEF HeapRecord
<1>. HIDE DEF k
<1>. QED
  BY <1>2, <1>4, <1>5, <1>6 DEF Assigns

LEMMA UnrelatedAssigns ==
  ASSUME NEW h \in HeapRecord, Mirrored(h), NEW o \in Object, NEW l \in Label,
         NEW items \in SUBSET (Object \cup Plain)
  PROVE  Assigns(h, Unrelated(h, o, l, items), o, l, h.cache[o][l] \ items)
<1> DEFINE cache == [h.cache EXCEPT ![o][l] = @ \ items]
           inverse == [x \in Object |-> IF x \in items THEN h.inverse[x] \ {<<o, l>>}
                                                       ELSE h.inverse[x]]
           k == [h EXCEPT !.cache = cache, !.inverse = inverse]
<1>1. /\ h.cache \in [Object -> [Label -> SUBSET (Object \cup Plain)]]
      /\ h.inverse \in [Object -> SUBSET (Object \X Label)]
  BY DEF HeapRecord
<1>2. /\ cache \in [Object -> [Label -> SUBSET (Object \cup Plain)]]
      /\ \A x \in Object, m \in Label :
            cache[x][m] = IF x = o /\ m = l THEN h.cache[o][l] \ items ELSE h.cache[x][m]
  BY <1>1
<1>3. /\ inverse \in [Object -> SUBSET (Object \X Label)]
      /\ \A x \in Object :
            inverse[x] = IF x \in items THEN h.inverse[x] \ {<<o, l>>} ELSE h.inverse[x]
  BY <1>1
<1>4. \A x, y \in Object, m \in Label :
         <<y, m>> \in inverse[x] <=>
            IF y = o /\ m = l THEN x \in h.cache[o][l] \ items ELSE <<y, m>> \in h.inverse[x]
  BY <1>3 DEF Mirrored
<1>5. Unrelated(h, o, l, items) = k
  BY DEF Unrelated
<1>. HIDE DEF cache, inverse
<1>6. /\ k \in HeapRecord
      /\ k.objects = h.objects /\ k.entities = h.entities /\ k.temporary = h.temporary
      /\ k.alive = h.alive /\ k.cache = cache /\ k.inverse = inverse
  BY <1>2, <1>3 DEF HeapRecord
<1>. HIDE DEF k
<1>. QED
  BY <1>2, <1>4, <1>5, <1>6 DEF Assigns

(* ... and to the graph.                                                   *)
LEMMA LinksTwice ==
  ASSUME NEW g, NEW n, NEW n2, NEW p, NEW l, NEW a, NEW b,
         Links(g, n, p, l, a), Links(n, n2, p, l, b)
  PROVE  Links(g, n2, p, l, b)
  BY DEF Links

LEMMA EndsOfItems ==
  ASSUME NEW items \in SUBSET (Object \cup Plain)
  PROVE  Ends(items) \subseteq Primitive \cup Plain
  BY Unwrapped DEF Ends

LEMMA WithEdgesLinks ==
  ASSUME NEW g \in GraphRecord, NEW p \in Primitive, p \in g.vertices, NEW l \in Label,
         NEW items \in SUBSET (Object \cup Plain), NEW new \in SUBSET (Primitive \cup Plain),
         new \subseteq g.vertices \cup Plain,
         NEW old \in SUBSET (Object \cup Plain), Ends(old) \subseteq g.vertices,
         \A v \in Primitive \cup Plain : <<p, l, v>> \in g.edges <=> v \in Ends(old),
         Ends(items) \subseteq g.vertices \cup new
  PROVE  Links(g, WithEdges(WithVertices(g, new), p, l, items), p, l, old \cup items)
<1> DEFINE n == WithEdges(WithVertices(g, new), p, l, items)
           Triple == Primitive \X Label \X (Primitive \cup Plain)
           vertices == g.vertices \cup new
           edges == g.edges \cup {e \in {p} \X {l} \X Ends(items) : {e[1], e[3]} \subseteq vertices}
<1>1. /\ g.vertices \in SUBSET (Primitive \cup Plain)
      /\ g.edges \in SUBSET Triple
  BY DEF GraphRecord
<1>2. n = [vertices |-> vertices, edges |-> edges]
  <2> DEFINE w == WithVertices(g, new)
  <2>1. w = [vertices |-> vertices, edges |-> g.edges]
    <3>1. w = [g EXCEPT !.vertices = vertices]
      BY DEF WithVertices
    <3>. HIDE DEF w, vertices
    <3>. QED
      BY <3>1 DEF GraphRecord
  <2>2. w.vertices = vertices /\ w.edges = g.edges
    BY <2>1
  <2>. HIDE DEF w, vertices
  <2>3. n = [w EXCEPT !.edges = edges]
    BY <2>2 DEF WithEdges, Ends, w
  <2>. HIDE DEF edges
  <2>. QED
    BY <2>1, <2>3
<1>3. Ends(items) \subseteq Primitive \cup Plain
  BY EndsOfItems
<1>4. /\ vertices \in SUBSET (Primitive \cup Plain)
      /\ edges \in SUBSET Triple
  BY <1>1, <1>3
<1>5. Ends(old \cup items) = Ends(old) \cup Ends(items)
  BY DEF Ends
<1>6. ASSUME NEW q \in Primitive, NEW m \in Label, NEW v \in Primitive \cup Plain
      PROVE  <<q, m, v>> \in edges <=>
                IF q = p /\ m = l THEN v \in Ends(old \cup items) ELSE <<q, m, v>> \in g.edges
  BY <1>5
<1>7. Ends(old \cup items) \subseteq vertices
  BY <1>5
<1>8. g.vertices \subseteq vertices /\ vertices \subseteq g.vertices \cup Plain
  OBVIOUS
<1>. HIDE DEF vertices, edges
<1>9. n \in GraphRecord /\ n.vertices = vertices /\ n.edges = edges
  BY <1>2, <1>4 DEF GraphRecord
<1>. HIDE DEF n
<1>10. Links(g, n, p, l, old \cup items)
  BY <1>6, <1>7, <1>8, <1>9 DEF Links
<1>. QED
  BY <1>10 DEF n

LEMMA WithoutEdgesToAllLinks ==
  ASSUME NEW g \in GraphRecord, NEW p \in Primitive, NEW l \in Label
  PROVE  Links(g, WithoutEdgesToAll(g, p, l), p, l, {})
<1> DEFINE n == WithoutEdgesToAll(g, p, l)
           edges == {e \in g.edges : e[1] # p \/ e[2] # l}
<1>1. n = [vertices |-> g.vertices, edges |-> edges]
  <2>1. n = [g EXCEPT !.edges = edges]
    BY DEF WithoutEdgesToAll
  <2>. HIDE DEF edges, n
  <2>. QED
    BY <2>1 DEF GraphRecord
<1>2. \A q \in Primitive, m \in Label, v \in Primitive \cup Plain :
         <<q, m, v>> \in edges <=>
            IF q = p /\ m = l THEN v \in Ends({}) ELSE <<q, m, v>> \in g.edges
  BY DEF Ends
<1>3. /\ g.vertices \in SUBSET (Primitive \cup Plain)
      /\ edges \in SUBSET (Primitive \X Label \X (Primitive \cup Plain))
      /\ Ends({}) \subseteq g.vertices
  BY DEF GraphRecord, Ends
<1>. HIDE DEF edges
<1>4. n \in GraphRecord /\ n.vertices = g.vertices /\ n.edges = edges
  BY <1>1, <1>3 DEF GraphRecord
<1>. HIDE DEF n
<1>5. Links(g, n, p, l, {})
  BY <1>2, <1>3, <1>4 DEF Links
<1>. QED
  BY <1>5 DEF n

LEMMA WithoutEdgesLinks ==
  ASSUME NEW g \in GraphRecord, NEW p \in Primitive, NEW l \in Label,
         NEW items \in SUBSET (Object \cup Plain), NEW old \in SUBSET (Object \cup Plain),
         Ends(old) \subseteq g.vertices,
         \A v \in Primitive \cup Plain : <<p, l, v>> \in g.edges <=> v \in Ends(old),
         \A i \in items, j \in old : UnwrapPrimitive(i) = UnwrapPrimitive(j) => i = j
  PROVE  Links(g, WithoutEdges(g, p, l, items), p, l, old \ items)
<1> DEFINE n == WithoutEdges(g, p, l, items)
           edges == g.edges \ ({p} \X {l} \X Ends(items))
<1>1. n = [vertices |-> g.vertices, edges |-> edges]
  BY DEF WithoutEdges, GraphRecord, Ends
<1>2. Ends(old \ items) = Ends(old) \ Ends(items)
  BY DEF Ends
<1>3. \A q \in Primitive, m \in Label, v \in Primitive \cup Plain :
         <<q, m, v>> \in edges <=>
            IF q = p /\ m = l THEN v \in Ends(old \ items) ELSE <<q, m, v>> \in g.edges
  BY <1>2
<1>4. /\ g.vertices \in SUBSET (Primitive \cup Plain)
      /\ edges \in SUBSET (Primitive \X Label \X (Primitive \cup Plain))
      /\ Ends(old \ items) \subseteq g.vertices
  BY <1>2 DEF GraphRecord
<1>. HIDE DEF edges
<1>5. n \in GraphRecord /\ n.vertices = g.vertices /\ n.edges = edges
  BY <1>1, <1>4 DEF GraphRecord
<1>. HIDE DEF n
<1>6. Links(g, n, p, l, old \ items)
  BY <1>3, <1>4, <1>5 DEF Links
<1>. QED
  BY <1>6 DEF n

(* The edges of a living entity lead where its fields do.                  *)
LEMMA EndsOfField ==
  ASSUME NEW h, NEW g, Whole(g), Belong(h, g), NEW o \in h.alive, NEW l \in Label
  PROVE  /\ h.cache[o][l] \in SUBSET (Object \cup Plain)
         /\ Ends(h.cache[o][l]) \subseteq g.vertices
         /\ \A v \in Primitive \cup Plain :
               <<o[1], l, v>> \in g.edges <=> v \in Ends(h.cache[o][l])
<1>1. h \in HeapRecord /\ Identified(h, g) /\ Held(h) /\ Drawn(h, g)
  BY DEF Belong
<1>2. /\ o \in Object /\ h.alive \subseteq Object
      /\ h.cache[o][l] \subseteq h.alive \cup Plain
      /\ \A i \in h.alive \cup Plain :
            i \in h.cache[o][l] <=> <<o[1], l, UnwrapPrimitive(i)>> \in g.edges
      /\ \A p \in g.vertices \cap Primitive : \E x \in h.alive : x[1] = p
  BY <1>1 DEF HeapRecord, Held, Drawn, Identified
<1>3. \A v \in Primitive \cup Plain : <<o[1], l, v>> \in g.edges => v \in g.vertices
  <2>1. \A e \in g.edges : e[3] \in g.vertices
    BY DEF Whole
  <2>. QED
    BY <2>1
<1>4. ASSUME NEW v \in Primitive \cup Plain, <<o[1], l, v>> \in g.edges
      PROVE  v \in Ends(h.cache[o][l])
  <2>1. CASE v \in Plain
    BY <1>2, <1>4, <2>1, Unwrapped DEF Ends
  <2>2. CASE v \in Primitive
    <3>1. PICK x \in h.alive : x[1] = v
      BY <1>2, <1>3, <1>4, <2>2
    <3>2. UnwrapPrimitive(x) = v
      BY <1>2, <3>1, Unwrapped
    <3>. QED
      BY <1>2, <1>4, <3>2 DEF Ends
  <2>. QED
    BY <2>1, <2>2
<1>5. ASSUME NEW v \in Ends(h.cache[o][l])
      PROVE  <<o[1], l, v>> \in g.edges
  BY <1>2 DEF Ends
<1>6. h.cache[o][l] \in SUBSET (Object \cup Plain)
  BY <1>2
<1>7. Ends(h.cache[o][l]) \subseteq Primitive \cup Plain
  BY <1>6, EndsOfItems
<1>. QED
  BY <1>3, <1>4, <1>5, <1>6, <1>7

-----------------------------------------------------------------------------
(* Operations of fields: clear() or its like, then what is added.          *)
LEMMA ReassignedHeap ==
  ASSUME NEW h \in HeapRecord, Mirrored(h), NEW o \in Object, NEW l \in Label,
         NEW items \in SUBSET (Object \cup Plain)
  PROVE  Assigns(h, Related(Unrelated(h, o, l, h.cache[o][l]), o, l, items), o, l, items)
<1> DEFINE k == Unrelated(h, o, l, h.cache[o][l])
<1>1. h.cache[o][l] \in SUBSET (Object \cup Plain)
  BY DEF HeapRecord
<1>2. Assigns(h, k, o, l, h.cache[o][l] \ h.cache[o][l])
  BY <1>1, UnrelatedAssigns
<1>. HIDE DEF k
<1>3. k \in HeapRecord /\ k.cache[o][l] = {}
  BY <1>2 DEF Assigns
<1>4. Mirrored(k)
  BY <1>2, AssignsMirrored
<1>5. Assigns(k, Related(k, o, l, items), o, l, k.cache[o][l] \cup items)
  BY <1>3, <1>4, RelatedAssigns
<1>6. Assigns(k, Related(k, o, l, items), o, l, items)
  BY <1>3, <1>5
<1>. QED
  BY <1>2, <1>6, AssignsTwice DEF k

LEMMA RelinkedGraph ==
  ASSUME NEW g, NEW n, NEW p \in Primitive, p \in g.vertices, NEW l \in Label,
         Links(g, n, p, l, {}), NEW items \in SUBSET (Object \cup Plain),
         \A i \in items : i \in Object => i[1] \in g.vertices
  PROVE  Links(g, WithEdges(WithVertices(n, items \cap Plain), p, l, items), p, l, items)
<1> DEFINE n2 == WithEdges(WithVertices(n, items \cap Plain), p, l, items)
<1>1. n \in GraphRecord /\ p \in n.vertices
  BY DEF Links
<1>2. Ends({}) = {}
  BY DEF Ends
<1>3. \A v \in Primitive \cup Plain : <<p, l, v>> \in n.edges <=> v \in Ends({})
  BY DEF Links
<1>4. Ends(items) \subseteq n.vertices \cup (items \cap Plain)
  <2>1. g.vertices \subseteq n.vertices
    BY DEF Links
  <2>. QED
    BY <2>1, Unwrapped DEF Ends
<1>5. {} \in SUBSET (Object \cup Plain) /\ Ends({}) \subseteq n.vertices
      /\ items \cap Plain \in SUBSET (Primitive \cup Plain)
      /\ items \cap Plain \subseteq n.vertices \cup Plain
  BY <1>2
<1>6. Links(n, n2, p, l, {} \cup items)
  BY <1>1, <1>3, <1>4, <1>5, WithEdgesLinks
<1>7. {} \cup items = items
  OBVIOUS
<1>8. Links(n, n2, p, l, items)
  BY <1>6, <1>7
<1>. QED
  BY <1>8, LinksTwice

(* What a client puts into fields exists, and has an object for each       *)
(* primitive.                                                              *)
LEMMA ItemsOfField ==
  ASSUME EntitiesInv, NEW o \in Object, NEW l \in Label, HasField(o, l)
  PROVE  /\ Whole(present) /\ Belong(heap, present)
         /\ heap \in HeapRecord /\ Mirrored(heap) /\ present \in GraphRecord
         /\ o \in heap.alive /\ o[1] \in Primitive /\ o[1] \in present.vertices
         /\ Items(l) \subseteq heap.objects \cup Plain /\ heap.objects \subseteq Object
         /\ heap.alive \subseteq heap.objects
         /\ \A i \in heap.alive : i[1] \in present.vertices
  BY Unwrapped DEF EntitiesInv, Whole, Belong, HasField, Items, HeapRecord, Identified

LEMMA SetFieldAssigns ==
  ASSUME EntitiesInv, NEW o \in Object, NEW l \in Label, NEW items \in SUBSET Items(l),
         SetField(o, l, items)
  PROVE  /\ items \in SUBSET (heap.alive \cup Plain)
         /\ Assigns(heap, heap', o, l, items)
         /\ Links(present, present', o[1], l, items)
<1> USE DEF SetField
<1>1. HasField(o, l) /\ Living(items)
  OBVIOUS
<1>2. /\ Whole(present) /\ Belong(heap, present)
      /\ heap \in HeapRecord /\ Mirrored(heap) /\ present \in GraphRecord
      /\ o \in heap.alive /\ o[1] \in Primitive /\ o[1] \in present.vertices
      /\ Items(l) \subseteq heap.objects \cup Plain /\ heap.objects \subseteq Object
      /\ \A i \in heap.alive : i[1] \in present.vertices
  BY <1>1, ItemsOfField
<1>3. /\ items \in SUBSET (Object \cup Plain)
      /\ items \in SUBSET (heap.alive \cup Plain)
      /\ \A i \in items : i \in Object => i[1] \in present.vertices
  BY <1>1, <1>2 DEF Living
<1>4. Assigns(heap, heap', o, l, items)
  BY <1>2, <1>3, ReassignedHeap
<1> DEFINE unlinked == IF heap.cache[o][l] = {} THEN present
                       ELSE WithoutEdgesToAll(present, o[1], l)
<1>5. Links(present, unlinked, o[1], l, {})
  <2>1. CASE heap.cache[o][l] = {}
    <3>1. \A v \in Primitive \cup Plain : <<o[1], l, v>> \in present.edges <=> v \in Ends({})
      BY <1>2, <2>1, EndsOfField
    <3>. QED
      BY <1>2, <2>1, <3>1 DEF Links, Ends
  <2>2. CASE heap.cache[o][l] # {}
    BY <1>2, <2>2, WithoutEdgesToAllLinks
  <2>. QED
    BY <2>1, <2>2
<1>6. present' = WithEdges(WithVertices(unlinked, items \cap Plain), o[1], l, items)
  OBVIOUS
<1>. HIDE DEF unlinked
<1>7. Links(present, present', o[1], l, items)
  BY <1>2, <1>3, <1>5, <1>6, RelinkedGraph
<1>. QED
  BY <1>3, <1>4, <1>7

LEMMA AssignSetAssigns ==
  ASSUME EntitiesInv, NEW o \in Object, NEW l \in Label, NEW items \in SUBSET Items(l),
         AssignSet(o, l, items)
  PROVE  \E added \in SUBSET (heap.alive \cup Plain) :
            /\ Assigns(heap, heap', o, l, added)
            /\ Links(present, present', o[1], l, added)
<1> USE DEF AssignSet
<1> DEFINE added == IF Living(items) THEN items ELSE {}
           cleared == WithoutEdgesToAll(present, o[1], l)
<1>1. HasField(o, l)
  OBVIOUS
<1>2. /\ Whole(present) /\ Belong(heap, present)
      /\ heap \in HeapRecord /\ Mirrored(heap) /\ present \in GraphRecord
      /\ o \in heap.alive /\ o[1] \in Primitive /\ o[1] \in present.vertices
      /\ Items(l) \subseteq heap.objects \cup Plain /\ heap.objects \subseteq Object
      /\ \A i \in heap.alive : i[1] \in present.vertices
  BY <1>1, ItemsOfField
<1>3. /\ added \in SUBSET (Object \cup Plain)
      /\ added \in SUBSET (heap.alive \cup Plain)
      /\ \A i \in added : i \in Object => i[1] \in present.vertices
  BY <1>2 DEF Living
<1>4. /\ heap' = Related(Unrelated(heap, o, l, heap.cache[o][l]), o, l, added)
      /\ present' = WithEdges(WithVertices(cleared, added \cap Plain), o[1], l, added)
  OBVIOUS
<1>5. Links(present, cleared, o[1], l, {})
  BY <1>2, WithoutEdgesToAllLinks
<1>. HIDE DEF added, cleared
<1>6. Assigns(heap, heap', o, l, added)
  BY <1>2, <1>3, <1>4, ReassignedHeap
<1>7. Links(present, present', o[1], l, added)
  BY <1>2, <1>3, <1>4, <1>5, RelinkedGraph
<1>. QED
  BY <1>3, <1>6, <1>7

LEMMA UpdateSetAssigns ==
  ASSUME EntitiesInv, NEW o \in Object, NEW l \in Label, NEW items \in SUBSET Items(l),
         UpdateSet(o, l, items)
  PROVE  \E all \in SUBSET (heap.alive \cup Plain) :
            /\ Assigns(heap, heap', o, l, all)
            /\ Links(present, present', o[1], l, all)
<1> USE DEF UpdateSet
<1> DEFINE old == heap.cache[o][l]
<1>1. HasField(o, l) /\ Living(items)
  OBVIOUS
<1>2. /\ Whole(present) /\ Belong(heap, present)
      /\ heap \in HeapRecord /\ Mirrored(heap) /\ present \in GraphRecord
      /\ o \in heap.alive /\ o[1] \in Primitive /\ o[1] \in present.vertices
      /\ Items(l) \subseteq heap.objects \cup Plain /\ heap.objects \subseteq Object
      /\ \A i \in heap.alive : i[1] \in present.vertices
  BY <1>1, ItemsOfField
<1>3. /\ items \in SUBSET (Object \cup Plain)
      /\ items \in SUBSET (heap.alive \cup Plain)
      /\ \A i \in items : i \in Object => i[1] \in present.vertices
      /\ items \cap Plain \in SUBSET (Primitive \cup Plain)
      /\ items \cap Plain \subseteq present.vertices \cup Plain
  BY <1>1, <1>2 DEF Living
<1>4. /\ old \in SUBSET (Object \cup Plain) /\ Ends(old) \subseteq present.vertices
      /\ \A v \in Primitive \cup Plain : <<o[1], l, v>> \in present.edges <=> v \in Ends(old)
      /\ old \subseteq heap.alive \cup Plain
  BY <1>2, EndsOfField DEF Belong, Held
<1>5. /\ heap' = Related(heap, o, l, items)
      /\ present' = WithEdges(WithVertices(present, items \cap Plain), o[1], l, items)
  OBVIOUS
<1>6. Assigns(heap, heap', o, l, old \cup items)
  BY <1>2, <1>3, <1>5, RelatedAssigns
<1>7. Ends(items) \subseteq present.vertices \cup (items \cap Plain)
  BY <1>3, Unwrapped DEF Ends
<1>. HIDE DEF old
<1>8. Links(present, present', o[1], l, old \cup items)
  BY <1>2, <1>3, <1>4, <1>5, <1>7, WithEdgesLinks
<1>. QED
  BY <1>3, <1>4, <1>6, <1>8

LEMMA DiscardFromSetAssigns ==
  ASSUME EntitiesInv, NEW o \in Object, NEW l \in Label, NEW items \in SUBSET Items(l),
         DiscardFromSet(o, l, items)
  PROVE  \E rest \in SUBSET (heap.alive \cup Plain) :
            /\ Assigns(heap, heap', o, l, rest)
            /\ Links(present, present', o[1], l, rest)
<1> USE DEF DiscardFromSet
<1> DEFINE old == heap.cache[o][l]
<1>1. HasField(o, l)
  OBVIOUS
<1>2. /\ Whole(present) /\ Belong(heap, present)
      /\ heap \in HeapRecord /\ Mirrored(heap) /\ present \in GraphRecord
      /\ o \in heap.alive /\ o[1] \in Primitive /\ o[1] \in present.vertices
      /\ Items(l) \subseteq heap.objects \cup Plain /\ heap.objects \subseteq Object
      /\ heap.alive \subseteq heap.objects
  BY <1>1, ItemsOfField
<1>3. items \in SUBSET (Object \cup Plain)
  BY <1>2
<1>4. /\ old \in SUBSET (Object \cup Plain) /\ Ends(old) \subseteq present.vertices
      /\ \A v \in Primitive \cup Plain : <<o[1], l, v>> \in present.edges <=> v \in Ends(old)
      /\ old \subseteq heap.alive \cup Plain
  BY <1>2, EndsOfField DEF Belong, Held
<1>5. /\ heap' = Unrelated(heap, o, l, items)
      /\ present' = WithoutEdges(present, o[1], l, items)
  OBVIOUS
<1>6. Assigns(heap, heap', o, l, old \ items)
  BY <1>2, <1>3, <1>5, UnrelatedAssigns
<1>7. \A i \in items, j \in old : UnwrapPrimitive(i) = UnwrapPrimitive(j) => i = j
  <2>1. Identified(heap, present)
    BY <1>2 DEF Belong
  <2>2. items \subseteq heap.objects \cup Plain /\ old \subseteq heap.objects \cup Plain
    BY <1>2, <1>4
  <2>. QED
    BY <1>2, <2>1, <2>2, UnwrapInjective
<1>. HIDE DEF old
<1>8. Links(present, present', o[1], l, old \ items)
  BY <1>2, <1>3, <1>4, <1>5, <1>7, WithoutEdgesLinks
<1>. QED
  BY <1>4, <1>6, <1>8

-----------------------------------------------------------------------------
(* Entities come alive and are removed.                                    *)
LEMMA GraphWithVertices ==
  ASSUME NEW g, Whole(g), NEW vs \in SUBSET (Primitive \cup Plain)
  PROVE  /\ Whole(WithVertices(g, vs))
         /\ WithVertices(g, vs).vertices = g.vertices \cup vs
         /\ WithVertices(g, vs).edges = g.edges
<1> DEFINE vertices == g.vertices \cup vs
           n == [g EXCEPT !.vertices = vertices]
<1>1. g \in GraphRecord /\ vertices \in SUBSET (Primitive \cup Plain)
  BY DEF Whole, GraphRecord
<1>2. WithVertices(g, vs) = n /\ g.vertices \subseteq vertices
  BY DEF WithVertices
<1>. HIDE DEF vertices
<1>3. n \in GraphRecord /\ n.vertices = vertices /\ n.edges = g.edges
  BY <1>1 DEF GraphRecord
<1>. HIDE DEF n
<1>4. Whole(n)
  BY <1>2, <1>3 DEF Whole
<1>. QED
  BY <1>2, <1>3, <1>4 DEF vertices

LEMMA AddedHeap ==
  ASSUME NEW h, NEW g, Belong(h, g), NEW o \in h.objects \ h.alive
  PROVE  /\ Added(h, o) \in HeapRecord
         /\ Added(h, o).objects = h.objects
         /\ Added(h, o).entities = h.alive \cup {o}
         /\ Added(h, o).alive = h.alive \cup {o}
         /\ Added(h, o).temporary = h.temporary \ {o}
         /\ Added(h, o).cache = h.cache
         /\ Added(h, o).inverse = h.inverse
<1>1. h \in HeapRecord /\ Identified(h, g)
  BY DEF Belong
<1> DEFINE alive == h.alive \cup {o}
           entities == (h.entities \ OfPrimitive(h.entities, o[1])) \cup {o}
           temporary == h.temporary \ OfPrimitive(h.temporary, o[1])
           k == [h EXCEPT !.alive = alive, !.entities = entities, !.temporary = temporary]
<1>2. entities = alive
  BY <1>1 DEF Identified, OfPrimitive
<1>3. temporary = h.temporary \ {o}
  BY <1>1 DEF Identified, OfPrimitive
<1>4. /\ alive \in SUBSET Object /\ entities \in SUBSET Object /\ temporary \in SUBSET Object
  BY <1>1, <1>2, <1>3 DEF HeapRecord
<1>5. Added(h, o) = k
  BY DEF Added
<1>. HIDE DEF alive, entities, temporary
<1>6. /\ k \in HeapRecord
      /\ k.objects = h.objects /\ k.entities = entities /\ k.temporary = temporary
      /\ k.alive = alive /\ k.cache = h.cache /\ k.inverse = h.inverse
  BY <1>1, <1>4 DEF HeapRecord
<1>. HIDE DEF k
<1>. QED
  BY <1>2, <1>3, <1>5, <1>6 DEF alive

LEMMA NotInTheGraph ==
  ASSUME NEW h, NEW g, Belong(h, g), NEW o \in h.objects \ h.alive
  PROVE  o \in Object /\ o[1] \in Primitive /\ o[1] \notin g.vertices
<1>1. h \in HeapRecord /\ Identified(h, g)
  BY DEF Belong
<1>2. o \in Object /\ o[1] \in Primitive
  BY <1>1, Unwrapped DEF HeapRecord
<1>. QED
  BY <1>1, <1>2 DEF Identified

LEMMA AddedBelongs ==
  ASSUME NEW h, NEW g, Whole(g), Belong(h, g), NEW o \in h.objects \ h.alive
  PROVE  Whole(WithVertices(g, {o[1]})) /\ Belong(Added(h, o), WithVertices(g, {o[1]}))
<1> DEFINE k == Added(h, o)
           n == WithVertices(g, {o[1]})
<1>1. h \in HeapRecord /\ Identified(h, g) /\ Held(h) /\ Mirrored(h) /\ Drawn(h, g)
  BY DEF Belong
<1>2. o \in Object /\ o[1] \in Primitive /\ o[1] \notin g.vertices
  BY NotInTheGraph
<1>3. Whole(n) /\ n.vertices = g.vertices \cup {o[1]} /\ n.edges = g.edges
  BY <1>2, GraphWithVertices
<1>4. /\ k \in HeapRecord /\ k.objects = h.objects
      /\ k.entities = h.alive \cup {o} /\ k.alive = h.alive \cup {o}
      /\ k.temporary = h.temporary \ {o}
      /\ k.cache = h.cache /\ k.inverse = h.inverse
  BY AddedHeap
<1>. HIDE DEF k, n
<1>5. Identified(k, n)
  <2>1. \A x \in k.alive : x[1] \in n.vertices
    BY <1>1, <1>3, <1>4 DEF Identified
  <2>2. \A p \in n.vertices \cap Primitive : \E x \in k.alive : x[1] = p
    BY <1>1, <1>3, <1>4 DEF Identified
  <2>3. k.objects = k.entities \cup k.temporary
    BY <1>1, <1>4 DEF Identified
  <2>4. k.temporary \cap k.alive = {}
    BY <1>1, <1>4 DEF Identified
  <2>5. \A x, y \in k.objects : x[1] = y[1] => x = y
    BY <1>1, <1>4 DEF Identified
  <2>. QED
    BY <1>4, <2>1, <2>2, <2>3, <2>4, <2>5 DEF Identified
<1>6. Held(k)
  BY <1>1, <1>2, <1>4 DEF Held
<1>7. Mirrored(k)
  BY <1>1, <1>4 DEF Mirrored
<1>8. Drawn(k, n)
  <2>. SUFFICES ASSUME NEW x \in k.alive, NEW m \in Label, NEW i \in k.alive \cup Plain
                PROVE  i \in h.cache[x][m] <=> <<x[1], m, UnwrapPrimitive(i)>> \in g.edges
    BY <1>3, <1>4 DEF Drawn
  <2>1. \A e \in g.edges : e[1] # o[1] /\ e[3] # o[1]
    BY <1>2 DEF Whole
  <2>2. CASE x = o
    <3>1. h.cache[x][m] = {}
      BY <1>1, <1>2, <2>2 DEF Held
    <3>2. <<x[1], m, UnwrapPrimitive(i)>>[1] = o[1]
      BY <2>2
    <3>. QED
      BY <2>1, <3>1, <3>2
  <2>3. CASE i = o
    <3>1. <<x[1], m, UnwrapPrimitive(i)>>[3] = o[1]
      BY <1>2, <2>3, Unwrapped
    <3>2. x \in Object
      BY <1>1, <1>2, <1>4 DEF HeapRecord
    <3>3. i \notin h.cache[x][m]
      BY <1>1, <1>2, <2>3, <3>2, Unwrapped DEF Held
    <3>. QED
      BY <2>1, <3>1, <3>3
  <2>4. CASE x # o /\ i # o
    BY <1>1, <1>4, <2>4 DEF Drawn
  <2>. QED
    BY <2>2, <2>3, <2>4
<1>. QED
  BY <1>3, <1>4, <1>5, <1>6, <1>7, <1>8 DEF Belong, k, n

LEMMA AddToSetAssigns ==
  ASSUME EntitiesInv, NEW o \in Object, NEW l \in Label, NEW item \in Items(l),
         AddToSet(o, l, item)
  PROVE  \E h, g :
            /\ \/ h = heap /\ g = present
               \/ /\ item \in heap.objects \ heap.alive
                  /\ h = Added(heap, item) /\ g = WithVertices(present, {item[1]})
            /\ Whole(g) /\ Belong(h, g) /\ o \in h.alive
            /\ h.cache = heap.cache /\ item \in h.alive \cup Plain
            /\ Assigns(h, heap', o, l, h.cache[o][l] \cup {item})
            /\ Links(g, present', o[1], l, h.cache[o][l] \cup {item})
<1> USE DEF AddToSet
<1> DEFINE dead == {item} \cap (Object \ heap.alive)
           h == IF dead = {} THEN heap ELSE Added(heap, item)
           g == IF dead = {} THEN present ELSE WithVertices(present, {item[1]})
           old == h.cache[o][l]
<1>1. HasField(o, l)
  OBVIOUS
<1>2. /\ Whole(present) /\ Belong(heap, present)
      /\ heap \in HeapRecord /\ Mirrored(heap) /\ present \in GraphRecord
      /\ o \in heap.alive /\ o[1] \in Primitive /\ o[1] \in present.vertices
      /\ Items(l) \subseteq heap.objects \cup Plain /\ heap.objects \subseteq Object
      /\ heap.alive \subseteq heap.objects
  BY <1>1, ItemsOfField
<1>3. dead # {} => /\ item \in heap.objects \ heap.alive
                   /\ UnwrapPrimitive(item) = item[1] /\ item[1] \in Primitive
  BY <1>2, Unwrapped
<1>4. dead = {} => item \in heap.alive \cup Plain
  BY <1>2
<1>5. /\ Whole(g) /\ Belong(h, g) /\ o \in h.alive /\ h.cache = heap.cache
      /\ item \in h.alive \cup Plain
  <2>1. CASE dead = {}
    BY <1>2, <1>4, <2>1
  <2>2. CASE dead # {}
    <3>1. /\ Whole(WithVertices(present, {item[1]}))
          /\ Belong(Added(heap, item), WithVertices(present, {item[1]}))
      BY <1>2, <1>3, <2>2, AddedBelongs
    <3>2. /\ Added(heap, item).alive = heap.alive \cup {item}
          /\ Added(heap, item).cache = heap.cache
      BY <1>2, <1>3, <2>2, AddedHeap
    <3>. QED
      BY <1>2, <2>2, <3>1, <3>2
  <2>. QED
    BY <2>1, <2>2
<1>6. heap' = Related(h, o, l, {item})
  OBVIOUS
<1>7. \E vs \in SUBSET (Primitive \cup Plain) :
         /\ vs \subseteq g.vertices \cup Plain
         /\ UnwrapPrimitive(item) \in g.vertices \cup vs
         /\ present' = WithEdges(WithVertices(g, vs), o[1], l, {item})
  <2>1. present' = WithEdges(WithVertices(present, {UnwrapPrimitive(item)}), o[1], l, {item})
    OBVIOUS
  <2>2. CASE dead = {}
    <3>1. UnwrapPrimitive(item) \in present.vertices \cup Plain
      BY <1>2, <1>4, <2>2, Unwrapped DEF Belong, Identified
    <3>2. UnwrapPrimitive(item) \in Primitive \cup Plain
      BY <1>2, Unwrapped
    <3>. QED
      BY <2>1, <2>2, <3>1, <3>2
  <2>3. CASE dead # {}
    <3>1. /\ g.vertices = present.vertices \cup {item[1]}
          /\ Whole(g)
      BY <1>2, <1>3, <2>3, GraphWithVertices
    <3>2. WithVertices(g, {}) = g
      <4>1. g \in GraphRecord /\ g.vertices \cup {} = g.vertices
        BY <3>1 DEF Whole
      <4>. QED
        BY <4>1 DEF WithVertices, GraphRecord
    <3>3. present' = WithEdges(WithVertices(g, {}), o[1], l, {item})
      BY <1>3, <2>1, <2>3, <3>2
    <3>4. UnwrapPrimitive(item) \in g.vertices
      BY <1>3, <2>3, <3>1
    <3>5. {} \in SUBSET (Primitive \cup Plain) /\ {} \subseteq g.vertices \cup Plain
      OBVIOUS
    <3>. HIDE DEF g
    <3>. QED
      BY <3>3, <3>4, <3>5
  <2>. QED
    BY <2>2, <2>3
<1>8. \/ h = heap /\ g = present
      \/ /\ item \in heap.objects \ heap.alive
         /\ h = Added(heap, item) /\ g = WithVertices(present, {item[1]})
  BY <1>3
<1>. HIDE DEF h, g, dead
<1>9. /\ old \in SUBSET (Object \cup Plain) /\ Ends(old) \subseteq g.vertices
      /\ \A v \in Primitive \cup Plain : <<o[1], l, v>> \in g.edges <=> v \in Ends(old)
  BY <1>5, EndsOfField
<1>10. /\ h \in HeapRecord /\ Mirrored(h) /\ g \in GraphRecord
       /\ {item} \in SUBSET (Object \cup Plain) /\ o[1] \in g.vertices
  BY <1>2, <1>5 DEF Belong, Whole, Identified
<1>11. Assigns(h, heap', o, l, old \cup {item})
  BY <1>6, <1>10, RelatedAssigns
<1>. HIDE DEF old
<1>12. Links(g, present', o[1], l, old \cup {item})
  <2>1. PICK vs \in SUBSET (Primitive \cup Plain) :
           /\ vs \subseteq g.vertices \cup Plain
           /\ UnwrapPrimitive(item) \in g.vertices \cup vs
           /\ present' = WithEdges(WithVertices(g, vs), o[1], l, {item})
    BY <1>7
  <2>2. Ends({item}) \subseteq g.vertices \cup vs
    BY <2>1 DEF Ends
  <2>3. /\ o[1] \in Primitive /\ o[1] \in g.vertices /\ g \in GraphRecord
        /\ {item} \in SUBSET (Object \cup Plain) /\ vs \subseteq g.vertices \cup Plain
    BY <1>2, <1>10, <2>1
  <2>4. Links(g, WithEdges(WithVertices(g, vs), o[1], l, {item}), o[1], l, old \cup {item})
    BY <1>9, <2>2, <2>3, WithEdgesLinks
  <2>. QED
    BY <2>1, <2>4
<1>. QED
  BY <1>5, <1>8, <1>11, <1>12 DEF old

(* A field loses what is removed, whether it holds one value or a set.     *)
LEMMA RemovedHeap ==
  ASSUME NEW h, NEW g, Belong(h, g), NEW o \in h.alive
  PROVE  /\ Removed(h, o) \in HeapRecord
         /\ Removed(h, o).objects = h.objects
         /\ Removed(h, o).entities = h.alive \ {o}
         /\ Removed(h, o).alive = h.alive \ {o}
         /\ Removed(h, o).temporary = h.temporary \cup {o}
         /\ \A x \in Object, l \in Label, i \in Object \cup Plain :
               i \in Removed(h, o).cache[x][l] <=> x # o /\ i # o /\ i \in h.cache[x][l]
         /\ \A x, y \in Object, l \in Label :
               <<y, l>> \in Removed(h, o).inverse[x] <=>
                  x # o /\ y # o /\ <<y, l>> \in h.inverse[x]
<1> DEFINE cache == [x \in Object |-> [l \in Label |->
                        IF x = o THEN {}
                        ELSE IF <<x, l>> \notin h.inverse[o] THEN h.cache[x][l]
                        ELSE IF l \in Collections THEN h.cache[x][l] \ {o} ELSE {}]]
           inverse == [x \in Object |->
                        IF x = o THEN {}
                        ELSE {r \in h.inverse[x] : r[1] # o \/ x \notin h.cache[o][r[2]]}]
           k == [h EXCEPT !.alive = h.alive \ {o}, !.cache = cache, !.inverse = inverse]
           k2 == [k EXCEPT !.entities = h.entities \ {o}, !.temporary = h.temporary \cup {o}]
<1>1. h \in HeapRecord /\ Identified(h, g) /\ Held(h) /\ Mirrored(h)
  BY DEF Belong
<1>2. /\ h.cache \in [Object -> [Label -> SUBSET (Object \cup Plain)]]
      /\ h.inverse \in [Object -> SUBSET (Object \X Label)]
      /\ o \in Object
  BY <1>1 DEF HeapRecord
<1>3. cache \in [Object -> [Label -> SUBSET (Object \cup Plain)]]
  BY <1>2
<1>4. inverse \in [Object -> SUBSET (Object \X Label)]
  BY <1>2
<1>5. ASSUME NEW x \in Object, NEW l \in Label, NEW i \in Object \cup Plain
      PROVE  i \in cache[x][l] <=> x # o /\ i # o /\ i \in h.cache[x][l]
  <2>1. <<x, l>> \in h.inverse[o] <=> o \in h.cache[x][l]
    BY <1>1, <1>2 DEF Mirrored
  <2>2. l \notin Collections => \A j, m \in h.cache[x][l] : j = m
    BY <1>1 DEF Held
  <2>3. cache[x][l] = IF x = o THEN {}
                      ELSE IF <<x, l>> \notin h.inverse[o] THEN h.cache[x][l]
                      ELSE IF l \in Collections THEN h.cache[x][l] \ {o} ELSE {}
    OBVIOUS
  <2>. HIDE DEF cache
  <2>. QED
    BY <2>1, <2>2, <2>3
<1>6. ASSUME NEW x \in Object, NEW y \in Object, NEW l \in Label
      PROVE  <<y, l>> \in inverse[x] <=> x # o /\ y # o /\ <<y, l>> \in h.inverse[x]
  <2>1. <<y, l>> \in h.inverse[x] <=> x \in h.cache[y][l]
    BY <1>1 DEF Mirrored
  <2>2. inverse[x] = IF x = o THEN {}
                     ELSE {r \in h.inverse[x] : r[1] # o \/ x \notin h.cache[o][r[2]]}
    OBVIOUS
  <2>. HIDE DEF inverse
  <2>. QED
    BY <2>1, <2>2
<1>7. AfterRemove(h, o) = k
  BY DEF AfterRemove
<1>. HIDE DEF cache, inverse
<1>8. /\ k \in HeapRecord
      /\ k.objects = h.objects /\ k.entities = h.entities /\ k.temporary = h.temporary
      /\ k.alive = h.alive \ {o} /\ k.cache = cache /\ k.inverse = inverse
  BY <1>1, <1>3, <1>4 DEF HeapRecord
<1>9. Removed(h, o) = k2
  <2>. HIDE DEF k
  <2>. QED
    BY <1>7, <1>8 DEF Removed
<1>. HIDE DEF k
<1>10. /\ k2 \in HeapRecord
       /\ k2.objects = h.objects /\ k2.entities = h.entities \ {o}
       /\ k2.temporary = h.temporary \cup {o}
       /\ k2.alive = h.alive \ {o} /\ k2.cache = cache /\ k2.inverse = inverse
  <2>1. h.entities \in SUBSET Object /\ h.temporary \in SUBSET Object
    BY <1>1 DEF HeapRecord
  <2>. QED
    BY <1>2, <1>8, <2>1 DEF HeapRecord
<1>11. h.entities = h.alive
  BY <1>1 DEF Identified
<1>. HIDE DEF k2
<1>12. /\ Removed(h, o) \in HeapRecord
       /\ Removed(h, o).objects = h.objects
       /\ Removed(h, o).entities = h.alive \ {o}
       /\ Removed(h, o).alive = h.alive \ {o}
       /\ Removed(h, o).temporary = h.temporary \cup {o}
       /\ Removed(h, o).cache = cache /\ Removed(h, o).inverse = inverse
  BY <1>9, <1>10, <1>11
<1>. QED
  BY <1>5, <1>6, <1>12

LEMMA GraphWithoutVertex ==
  ASSUME NEW g, Whole(g), NEW p
  PROVE  /\ Whole(WithoutVertex(g, p))
         /\ WithoutVertex(g, p).vertices = g.vertices \ {p}
         /\ \A q, l, v : <<q, l, v>> \in WithoutVertex(g, p).edges <=>
                            q # p /\ v # p /\ <<q, l, v>> \in g.edges
<1> DEFINE n == WithoutVertex(g, p)
<1>1. /\ n.vertices = g.vertices \ {p}
      /\ n.edges = {e \in g.edges : p \notin {e[1], e[3]}}
      /\ n \in GraphRecord
  BY DEF WithoutVertex, Whole, GraphRecord
<1>. HIDE DEF n
<1>2. Whole(n)
  BY <1>1 DEF Whole
<1>3. \A q, l, v : <<q, l, v>> \in n.edges <=> q # p /\ v # p /\ <<q, l, v>> \in g.edges
  BY <1>1
<1>. QED
  BY <1>1, <1>2, <1>3 DEF n

LEMMA RemovedBelongs ==
  ASSUME NEW h, NEW g, Whole(g), Belong(h, g), NEW o \in h.alive
  PROVE  Whole(WithoutVertex(g, o[1])) /\ Belong(Removed(h, o), WithoutVertex(g, o[1]))
<1> DEFINE k == Removed(h, o)
           n == WithoutVertex(g, o[1])
<1>1. h \in HeapRecord /\ Identified(h, g) /\ Held(h) /\ Mirrored(h) /\ Drawn(h, g)
  BY DEF Belong
<1>2. /\ o \in Object /\ o \in h.objects /\ h.alive \subseteq h.objects /\ h.objects \subseteq Object
      /\ UnwrapPrimitive(o) = o[1]
      /\ \A x \in h.objects : x[1] = o[1] => x = o
  BY <1>1, Unwrapped DEF HeapRecord, Identified
<1>3. /\ Whole(n) /\ n.vertices = g.vertices \ {o[1]}
      /\ \A q, l, v : <<q, l, v>> \in n.edges <=>
                         q # o[1] /\ v # o[1] /\ <<q, l, v>> \in g.edges
  BY GraphWithoutVertex
<1>4. /\ k \in HeapRecord /\ k.objects = h.objects
      /\ k.entities = h.alive \ {o} /\ k.alive = h.alive \ {o}
      /\ k.temporary = h.temporary \cup {o}
      /\ \A x \in Object, l \in Label, i \in Object \cup Plain :
            i \in k.cache[x][l] <=> x # o /\ i # o /\ i \in h.cache[x][l]
      /\ \A x, y \in Object, l \in Label :
            <<y, l>> \in k.inverse[x] <=> x # o /\ y # o /\ <<y, l>> \in h.inverse[x]
  BY RemovedHeap
<1>. HIDE DEF k, n
<1>5. Identified(k, n)
  <2>1. \A x \in k.alive : x[1] \in n.vertices
    BY <1>1, <1>2, <1>3, <1>4 DEF Identified
  <2>2. \A p \in n.vertices \cap Primitive : \E x \in k.alive : x[1] = p
    BY <1>1, <1>3, <1>4 DEF Identified
  <2>3. k.objects = k.entities \cup k.temporary
    BY <1>1, <1>2, <1>4 DEF Identified
  <2>4. k.temporary \cap k.alive = {}
    BY <1>1, <1>4 DEF Identified
  <2>. QED
    BY <1>1, <1>4, <2>1, <2>2, <2>3, <2>4 DEF Identified
<1>6. Held(k)
  <2>0. \A x \in Object, l \in Label : k.cache[x][l] \subseteq Object \cup Plain
    BY <1>4 DEF HeapRecord
  <2>1. \A x \in Object, l \in Label : k.cache[x][l] \subseteq k.alive \cup Plain
    BY <1>1, <1>4, <2>0 DEF Held
  <2>2. \A x \in Object \ k.alive, l \in Label : k.cache[x][l] = {}
    BY <1>1, <1>4, <2>0 DEF Held
  <2>3. \A x \in Object, l \in Label \ Collections : \A i, j \in k.cache[x][l] : i = j
    BY <1>1, <1>4, <2>0 DEF Held
  <2>. QED
    BY <2>1, <2>2, <2>3 DEF Held
<1>7. Mirrored(k)
  <2>. SUFFICES ASSUME NEW z \in Object, NEW x \in Object, NEW l \in Label
                PROVE  <<x, l>> \in k.inverse[z] <=> z \in k.cache[x][l]
    BY DEF Mirrored
  <2>1. <<x, l>> \in h.inverse[z] <=> z \in h.cache[x][l]
    BY <1>1 DEF Mirrored
  <2>. QED
    BY <1>4, <2>1
<1>8. Drawn(k, n)
  <2>. SUFFICES ASSUME NEW x \in k.alive, NEW l \in Label, NEW i \in k.alive \cup Plain
                PROVE  i \in k.cache[x][l] <=> <<x[1], l, UnwrapPrimitive(i)>> \in n.edges
    BY DEF Drawn
  <2>1. x # o /\ x \in Object /\ x \in h.alive /\ x[1] # o[1]
    BY <1>2, <1>4
  <2>2. /\ i # o /\ i \in h.alive \cup Plain /\ i \in Object \cup Plain
        /\ UnwrapPrimitive(i) # o[1]
    BY <1>2, <1>4, Unwrapped
  <2>3. i \in h.cache[x][l] <=> <<x[1], l, UnwrapPrimitive(i)>> \in g.edges
    BY <1>1, <2>1, <2>2 DEF Drawn
  <2>. QED
    BY <1>3, <1>4, <2>1, <2>2, <2>3
<1>. QED
  BY <1>3, <1>4, <1>5, <1>6, <1>7, <1>8 DEF Belong, k, n

-----------------------------------------------------------------------------
(* rollback() and sync().                                                  *)
LEMMA ExistingObjects ==
  /\ \A p \in Primitive : Existing(p) = <<p, 1>> /\ Existing(p) \in Object
  /\ \A v \in Plain : Existing(v) = v
  /\ \A v \in Primitive \cup Plain : UnwrapPrimitive(Existing(v)) = v
  BY Unwrapped DEF Existing, Object

LEMMA SyncedHeap ==
  ASSUME NEW g, Whole(g)
  PROVE  /\ Synced(g) \in HeapRecord
         /\ Synced(g).objects = {<<p, 1>> : p \in g.vertices \cap Primitive}
         /\ Synced(g).entities = Synced(g).objects
         /\ Synced(g).alive = Synced(g).objects
         /\ Synced(g).temporary = {}
         /\ \A x \in Object, l \in Label, i \in Object \cup Plain :
               i \in Synced(g).cache[x][l] <=>
                  \E e \in g.edges : x = <<e[1], 1>> /\ l = e[2] /\ i = Existing(e[3])
         /\ \A x, y \in Object, l \in Label :
               <<y, l>> \in Synced(g).inverse[x] <=>
                  \E e \in g.edges : y = <<e[1], 1>> /\ l = e[2] /\ x = Existing(e[3])
<1> DEFINE objects == {Existing(v) : v \in g.vertices \cap Primitive}
           cache == [o \in Object |-> [l \in Label |->
                        {Existing(e[3]) : e \in {f \in g.edges : <<f[1], 1>> = o /\ f[2] = l}}]]
           inverse == [o \in Object |->
                        {<<Existing(e[1]), e[2]>> : e \in {f \in g.edges : Existing(f[3]) = o}}]
           k == Synced(g)
<1>1. /\ \A e \in g.edges : /\ e[1] \in Primitive /\ e[2] \in Label /\ e[3] \in Primitive \cup Plain
      /\ g.vertices \in SUBSET (Primitive \cup Plain)
  BY DEF Whole, GraphRecord
<1>2. objects = {<<p, 1>> : p \in g.vertices \cap Primitive} /\ objects \in SUBSET Object
  BY ExistingObjects DEF Existing
<1>3. \A e \in g.edges : /\ Existing(e[3]) \in Object \cup Plain
                         /\ Existing(e[1]) = <<e[1], 1>> /\ <<e[1], 1>> \in Object
  BY <1>1, ExistingObjects
<1>4. cache \in [Object -> [Label -> SUBSET (Object \cup Plain)]]
  BY <1>3
<1>5. inverse \in [Object -> SUBSET (Object \X Label)]
  <2>1. \A e \in g.edges : <<Existing(e[1]), e[2]>> \in Object \X Label
    BY <1>1, <1>3
  <2>. QED
    BY <2>1
<1>6. ASSUME NEW x \in Object, NEW l \in Label, NEW i \in Object \cup Plain
      PROVE  i \in cache[x][l] <=>
                \E e \in g.edges : x = <<e[1], 1>> /\ l = e[2] /\ i = Existing(e[3])
  BY <1>3
<1>7. ASSUME NEW x \in Object, NEW y \in Object, NEW l \in Label
      PROVE  <<y, l>> \in inverse[x] <=>
                \E e \in g.edges : y = <<e[1], 1>> /\ l = e[2] /\ x = Existing(e[3])
  BY <1>3
<1>8. k = [objects |-> objects, entities |-> objects, temporary |-> {}, alive |-> objects,
           cache |-> cache, inverse |-> inverse]
  BY DEF Synced
<1>. HIDE DEF objects, cache, inverse, k
<1>9. /\ k \in HeapRecord /\ k.objects = objects /\ k.entities = objects
      /\ k.alive = objects /\ k.temporary = {} /\ k.cache = cache /\ k.inverse = inverse
  BY <1>2, <1>4, <1>5, <1>8 DEF HeapRecord
<1>. QED
  BY <1>2, <1>6, <1>7, <1>9 DEF k

LEMMA SyncedBelongs ==
  ASSUME NEW g, Whole(g)
  PROVE  Belong(Synced(g), g)
<1> DEFINE k == Synced(g)
<1>1. /\ k \in HeapRecord
      /\ k.objects = {<<p, 1>> : p \in g.vertices \cap Primitive}
      /\ k.entities = k.objects /\ k.alive = k.objects /\ k.temporary = {}
      /\ \A x \in Object, l \in Label, i \in Object \cup Plain :
            i \in k.cache[x][l] <=>
               \E e \in g.edges : x = <<e[1], 1>> /\ l = e[2] /\ i = Existing(e[3])
      /\ \A x, y \in Object, l \in Label :
            <<y, l>> \in k.inverse[x] <=>
               \E e \in g.edges : y = <<e[1], 1>> /\ l = e[2] /\ x = Existing(e[3])
  BY SyncedHeap
<1>. HIDE DEF k
<1>2. /\ \A e \in g.edges : /\ e[1] \in Primitive /\ e[2] \in Label /\ e[3] \in Primitive \cup Plain
                            /\ e[1] \in g.vertices /\ e[3] \in g.vertices
      /\ \A e, f \in g.edges :
            e[1] = f[1] /\ e[2] = f[2] /\ e[2] \notin Collections => e[3] = f[3]
  BY DEF Whole, GraphRecord
<1>3. \A e \in g.edges : <<e[1], 1>> \in k.alive /\ Existing(e[3]) \in k.alive \cup Plain
  BY <1>1, <1>2, ExistingObjects
<1>4. k.cache \in [Object -> [Label -> SUBSET (Object \cup Plain)]]
  BY <1>1 DEF HeapRecord
<1>5. Identified(k, g)
  <2>1. \A x \in k.alive : x[1] \in g.vertices
    BY <1>1
  <2>2. ASSUME NEW p \in g.vertices \cap Primitive PROVE \E x \in k.alive : x[1] = p
    <3>1. <<p, 1>> \in k.alive /\ <<p, 1>>[1] = p
      BY <1>1
    <3>. QED
      BY <3>1
  <2>3. \A x, y \in k.objects : x[1] = y[1] => x = y
    BY <1>1
  <2>. QED
    BY <1>1, <2>1, <2>2, <2>3 DEF Identified
<1>6. Held(k)
  <2>1. \A x \in Object, l \in Label : k.cache[x][l] \subseteq k.alive \cup Plain
    BY <1>1, <1>3, <1>4
  <2>2. \A x \in Object \ k.alive, l \in Label : k.cache[x][l] = {}
    BY <1>1, <1>3, <1>4
  <2>3. ASSUME NEW x \in Object, NEW l \in Label \ Collections,
               NEW i \in k.cache[x][l], NEW j \in k.cache[x][l]
        PROVE  i = j
    <3>1. i \in Object \cup Plain /\ j \in Object \cup Plain
      BY <1>4
    <3>2. PICK e \in g.edges : x = <<e[1], 1>> /\ l = e[2] /\ i = Existing(e[3])
      BY <1>1, <3>1
    <3>3. PICK f \in g.edges : x = <<f[1], 1>> /\ l = f[2] /\ j = Existing(f[3])
      BY <1>1, <3>1
    <3>4. e[1] = x[1] /\ f[1] = x[1]
      BY <3>2, <3>3
    <3>5. e[3] = f[3]
      BY <1>2, <3>2, <3>3, <3>4
    <3>. QED
      BY <3>2, <3>3, <3>5
  <2>. QED
    BY <2>1, <2>2, <2>3 DEF Held
<1>7. Mirrored(k)
  <2>. SUFFICES ASSUME NEW z \in Object, NEW x \in Object, NEW l \in Label
                PROVE  <<x, l>> \in k.inverse[z] <=> z \in k.cache[x][l]
    BY DEF Mirrored
  <2>1. z \in k.cache[x][l] <=>
           \E e \in g.edges : x = <<e[1], 1>> /\ l = e[2] /\ z = Existing(e[3])
    BY <1>1
  <2>2. <<x, l>> \in k.inverse[z] <=>
           \E e \in g.edges : x = <<e[1], 1>> /\ l = e[2] /\ z = Existing(e[3])
    BY <1>1
  <2>. QED
    BY <2>1, <2>2
<1>8. Drawn(k, g)
  <2>. SUFFICES ASSUME NEW x \in k.alive, NEW l \in Label, NEW i \in k.alive \cup Plain
                PROVE  i \in k.cache[x][l] <=> <<x[1], l, UnwrapPrimitive(i)>> \in g.edges
    BY DEF Drawn
  <2>1. /\ x \in Object /\ x = <<x[1], 1>> /\ x[1] \in Primitive
        /\ i \in Object \cup Plain
    BY <1>1, Unwrapped
  <2>2. i = Existing(UnwrapPrimitive(i)) /\ UnwrapPrimitive(i) \in Primitive \cup Plain
    BY <1>1, Unwrapped, ExistingObjects
  <2>3. ASSUME i \in k.cache[x][l] PROVE <<x[1], l, UnwrapPrimitive(i)>> \in g.edges
    <3>1. PICK e \in g.edges : x = <<e[1], 1>> /\ l = e[2] /\ i = Existing(e[3])
      BY <1>1, <2>1, <2>3
    <3>2. UnwrapPrimitive(i) = e[3] /\ x[1] = e[1]
      BY <1>2, <3>1, ExistingObjects
    <3>3. e = <<e[1], e[2], e[3]>>
      BY DEF Whole, GraphRecord
    <3>. QED
      BY <3>1, <3>2, <3>3
  <2>4. ASSUME <<x[1], l, UnwrapPrimitive(i)>> \in g.edges PROVE i \in k.cache[x][l]
    <3> DEFINE e == <<x[1], l, UnwrapPrimitive(i)>>
    <3>1. e \in g.edges /\ x = <<e[1], 1>> /\ l = e[2] /\ i = Existing(e[3])
      BY <2>1, <2>2, <2>4
    <3>. QED
      BY <1>1, <2>1, <3>1
  <2>. QED
    BY <2>3, <2>4
<1>. QED
  BY <1>1, <1>5, <1>6, <1>7, <1>8 DEF Belong, k

-----------------------------------------------------------------------------
(* Objects that are not alive come and go.                                 *)
LEMMA ConstructedBelongs ==
  ASSUME NEW h, NEW g, Belong(h, g), NEW o \in Object \ h.objects,
         OfPrimitive(h.entities \cup h.temporary, o[1]) = {}
  PROVE  Belong(Constructed(h, o), g)
<1> DEFINE k == [h EXCEPT !.objects = h.objects \cup {o}, !.temporary = h.temporary \cup {o}]
<1>1. h \in HeapRecord /\ Identified(h, g) /\ Held(h) /\ Mirrored(h) /\ Drawn(h, g)
  BY DEF Belong
<1>2. Constructed(h, o) = k
  BY DEF Constructed
<1>3. /\ k \in HeapRecord /\ k.objects = h.objects \cup {o} /\ k.entities = h.entities
      /\ k.temporary = h.temporary \cup {o} /\ k.alive = h.alive
      /\ k.cache = h.cache /\ k.inverse = h.inverse
  BY <1>1 DEF HeapRecord
<1>. HIDE DEF k
<1>4. \A x \in h.objects : x[1] # o[1]
  BY <1>1 DEF Identified, OfPrimitive
<1>5. Identified(k, g)
  <2>1. \A x, y \in k.objects : x[1] = y[1] => x = y
    BY <1>1, <1>3, <1>4 DEF Identified
  <2>2. k.objects = k.entities \cup k.temporary /\ k.temporary \cap k.alive = {}
    BY <1>1, <1>3 DEF Identified
  <2>. QED
    BY <1>1, <1>3, <2>1, <2>2 DEF Identified
<1>6. Held(k) /\ Mirrored(k) /\ Drawn(k, g)
  BY <1>1, <1>3 DEF Held, Mirrored, Drawn
<1>. QED
  BY <1>2, <1>3, <1>5, <1>6 DEF Belong

LEMMA ForgottenBelongs ==
  ASSUME NEW h, NEW g, Belong(h, g), NEW o \in h.objects \ h.entities
  PROVE  Belong([h EXCEPT !.objects = h.objects \ {o}, !.temporary = h.temporary \ {o}], g)
<1> DEFINE k == [h EXCEPT !.objects = h.objects \ {o}, !.temporary = h.temporary \ {o}]
<1>1. h \in HeapRecord /\ Identified(h, g) /\ Held(h) /\ Mirrored(h) /\ Drawn(h, g)
  BY DEF Belong
<1>2. /\ k \in HeapRecord /\ k.objects = h.objects \ {o} /\ k.entities = h.entities
      /\ k.temporary = h.temporary \ {o} /\ k.alive = h.alive
      /\ k.cache = h.cache /\ k.inverse = h.inverse
  BY <1>1 DEF HeapRecord
<1>. HIDE DEF k
<1>3. Identified(k, g)
  <2>1. k.objects = k.entities \cup k.temporary /\ k.temporary \cap k.alive = {}
    BY <1>1, <1>2 DEF Identified
  <2>. QED
    BY <1>1, <1>2, <2>1 DEF Identified
<1>4. Held(k) /\ Mirrored(k) /\ Drawn(k, g)
  BY <1>1, <1>2 DEF Held, Mirrored, Drawn
<1>. QED
  BY <1>2, <1>3, <1>4 DEF Belong, k

-----------------------------------------------------------------------------
(* The invariant.                                                          *)
LEMMA InitHolds ==
  Init => EntitiesInv
<1>. SUFFICES ASSUME Init PROVE EntitiesInv
  OBVIOUS
<1>1. /\ present = [vertices |-> {}, edges |-> {}] /\ committed = present
      /\ heap = EmptyHeap
  BY DEF Init
<1>2. Whole(present)
  BY <1>1 DEF Whole, GraphRecord
<1>3. /\ heap \in HeapRecord
      /\ heap.objects = {} /\ heap.entities = {} /\ heap.temporary = {} /\ heap.alive = {}
      /\ \A o \in Object, l \in Label : heap.cache[o][l] = {}
      /\ \A o \in Object : heap.inverse[o] = {}
  BY <1>1 DEF EmptyHeap, HeapRecord
<1>4. Belong(heap, present)
  BY <1>1, <1>3 DEF Belong, Identified, Held, Mirrored, Drawn
<1>. QED
  BY <1>1, <1>2, <1>4 DEF EntitiesInv

(* A field is assigned by an operation that gives the items either as they *)
(* are or one by one.                                                      *)
LEMMA AssignmentHolds ==
  ASSUME EntitiesInv, committed' = committed, NEW o \in heap.alive, NEW l \in Label,
         NEW items \in SUBSET (heap.alive \cup Plain),
         l \notin Collections => \A i, j \in items : i = j,
         Assigns(heap, heap', o, l, items), Links(present, present', o[1], l, items)
  PROVE  EntitiesInv'
<1>1. Whole(present) /\ Belong(heap, present) /\ Whole(committed)
  BY DEF EntitiesInv
<1>2. Whole(present') /\ Belong(heap', present')
  BY <1>1, AssignsBelongs
<1>. QED
  BY <1>1, <1>2 DEF EntitiesInv

LEMMA AddToSetHolds ==
  ASSUME EntitiesInv, NEW o \in Object, NEW l \in Label, NEW item \in Items(l),
         AddToSet(o, l, item)
  PROVE  EntitiesInv'
<1>1. PICK h, g :
         /\ Whole(g) /\ Belong(h, g) /\ o \in h.alive /\ item \in h.alive \cup Plain
         /\ Assigns(h, heap', o, l, h.cache[o][l] \cup {item})
         /\ Links(g, present', o[1], l, h.cache[o][l] \cup {item})
  BY AddToSetAssigns
<1>2. /\ h.cache[o][l] \cup {item} \in SUBSET (h.alive \cup Plain)
  BY <1>1 DEF Belong, Held
<1>3. l \in Collections /\ committed' = committed
  BY DEF AddToSet
<1>4. Whole(present') /\ Belong(heap', present')
  BY <1>1, <1>2, <1>3, AssignsBelongs
<1>. QED
  BY <1>3, <1>4 DEF EntitiesInv

LEMMA NextHolds ==
  EntitiesInv /\ [Next]_vars => EntitiesInv'
<1>. SUFFICES ASSUME EntitiesInv, [Next]_vars PROVE EntitiesInv'
  OBVIOUS
<1>0. Whole(present) /\ Whole(committed) /\ Belong(heap, present)
  BY DEF EntitiesInv
<1>1. ASSUME NEW p \in Primitive, Construct(p) PROVE EntitiesInv'
  <2>1. PICK o \in OfPrimitive(Object \ heap.objects, p) : heap' = Constructed(heap, o)
    BY <1>1 DEF Construct
  <2>2. o \in Object \ heap.objects /\ o[1] = p
    BY <2>1 DEF OfPrimitive
  <2>3. Belong(heap', present)
    BY <1>0, <1>1, <2>1, <2>2, ConstructedBelongs DEF Construct
  <2>. QED
    BY <1>0, <1>1, <2>3 DEF Construct, EntitiesInv
<1>2. ASSUME NEW o \in Object, Forget(o) PROVE EntitiesInv'
  BY <1>0, <1>2, ForgottenBelongs DEF Forget, EntitiesInv
<1>3. ASSUME NEW o \in Object, Add(o) PROVE EntitiesInv'
  BY <1>0, <1>3, AddedBelongs DEF Add, EntitiesInv
<1>4. ASSUME NEW o \in Object, Remove(o) PROVE EntitiesInv'
  BY <1>0, <1>4, RemovedBelongs DEF Remove, EntitiesInv
<1>5. ASSUME NEW o \in Object, NEW l \in Label, NEW items \in SUBSET Items(l),
             \A i, j \in items : i = j, SetField(o, l, items)
      PROVE  EntitiesInv'
  <2>1. o \in heap.alive /\ committed' = committed
    BY <1>5 DEF SetField, HasField
  <2>. QED
    BY <1>5, <2>1, SetFieldAssigns, AssignmentHolds
<1>6. ASSUME NEW o \in Object, NEW l \in Label, NEW i \in Items(l), AddToSet(o, l, i)
      PROVE  EntitiesInv'
  BY <1>6, AddToSetHolds
<1>7. ASSUME NEW o \in Object, NEW l \in Collections, NEW items \in SUBSET Items(l),
             UpdateSet(o, l, items) \/ DiscardFromSet(o, l, items) \/ AssignSet(o, l, items)
      PROVE  EntitiesInv'
  <2>1. /\ l \in Label /\ o \in heap.alive /\ committed' = committed
    BY <1>7, EntitiesAssumption DEF UpdateSet, DiscardFromSet, AssignSet, HasField
  <2>2. PICK all \in SUBSET (heap.alive \cup Plain) :
           Assigns(heap, heap', o, l, all) /\ Links(present, present', o[1], l, all)
    BY <1>7, <2>1, UpdateSetAssigns, DiscardFromSetAssigns, AssignSetAssigns
  <2>. QED
    BY <2>1, <2>2, AssignmentHolds
<1>8. CASE Commit
  BY <1>0, <1>8 DEF Commit, EntitiesInv
<1>9. CASE Rollback
  BY <1>0, <1>9, SyncedBelongs DEF Rollback, EntitiesInv
<1>10. CASE UNCHANGED vars
  BY <1>10 DEF vars, EntitiesInv
<1>11. ASSUME NEW o \in Object, NEW l \in Label, NEW i \in Items(l),
              SetField(o, l, {i}) \/ AddToSet(o, l, i)
       PROVE  EntitiesInv'
  <2>1. {i} \in SUBSET Items(l) /\ \A j, m \in {i} : j = m
    OBVIOUS
  <2>. QED
    BY <1>5, <1>6, <1>11, <2>1
<1>12. ASSUME NEW o \in Object, NEW l \in Optional, SetField(o, l, {}) PROVE EntitiesInv'
  <2>1. l \in Label /\ {} \in SUBSET Items(l)
    BY EntitiesAssumption
  <2>. QED
    BY <1>5, <1>12, <2>1
<1>. QED
  BY <1>1, <1>2, <1>3, <1>4, <1>7, <1>8, <1>9, <1>10, <1>11, <1>12 DEF Next

-----------------------------------------------------------------------------
(* The store of objects: its fields are what the edges say.                *)
Values(g, p, l) == {e[3] : e \in {f \in g.edges : f[1] = p /\ f[2] = l}}

LEMMA ValuesAreEnds ==
  ASSUME NEW g \in GraphRecord, NEW p \in Primitive, NEW l \in Label
  PROVE  /\ Values(g, p, l) \subseteq Primitive \cup Plain
         /\ \A v \in Primitive \cup Plain : v \in Values(g, p, l) <=> <<p, l, v>> \in g.edges
<1>1. g.edges \in SUBSET (Primitive \X Label \X (Primitive \cup Plain))
  BY DEF GraphRecord
<1>2. Values(g, p, l) \subseteq Primitive \cup Plain
  BY <1>1 DEF Values
<1>3. ASSUME NEW v \in Values(g, p, l) PROVE <<p, l, v>> \in g.edges
  <2>1. PICK e \in g.edges : e[1] = p /\ e[2] = l /\ e[3] = v
    BY DEF Values
  <2>2. e = <<e[1], e[2], e[3]>>
    BY <1>1
  <2>. QED
    BY <2>1, <2>2
<1>4. ASSUME NEW v, <<p, l, v>> \in g.edges PROVE v \in Values(g, p, l)
  <2>1. <<p, l, v>>[1] = p /\ <<p, l, v>>[2] = l /\ <<p, l, v>>[3] = v
    OBVIOUS
  <2>. QED
    BY <1>4, <2>1 DEF Values
<1>. QED
  BY <1>2, <1>3, <1>4

LEMMA FieldsAreValues ==
  ASSUME NEW h, NEW g, Whole(g), Belong(h, g), NEW o \in h.alive, NEW l \in Label
  PROVE  Ends(h.cache[o][l]) = Values(g, o[1], l)
<1>1. /\ g \in GraphRecord /\ h.cache[o][l] \in SUBSET (Object \cup Plain)
      /\ \A v \in Primitive \cup Plain : <<o[1], l, v>> \in g.edges <=> v \in Ends(h.cache[o][l])
  BY EndsOfField DEF Whole
<1>2. o[1] \in Primitive
  BY Unwrapped DEF Belong, HeapRecord
<1>. QED
  BY <1>1, <1>2, ValuesAreEnds, EndsOfItems

LEMMA StoreOfGraph ==
  ASSUME NEW g
  PROVE  /\ EdgesAsFields(g) = [p \in g.vertices \cap Primitive |-> [l \in Label |-> Values(g, p, l)]]
         /\ DOMAIN EdgesAsFields(g) = g.vertices \cap Primitive
  BY DEF EdgesAsFields, Values

Stored(h, p) ==
    LET o == CHOOSE x \in h.alive : x[1] = p
    IN  [l \in Label |-> {UnwrapPrimitive(i) : i \in h.cache[o][l]}]

LEMMA StoreOfHeap ==
  ASSUME NEW h, NEW g, Whole(g), Belong(h, g)
  PROVE  [p \in {o[1] : o \in h.alive} |-> Stored(h, p)] = EdgesAsFields(g)
<1>1. {o[1] : o \in h.alive} = g.vertices \cap Primitive
  <2>1. \A o \in h.alive : o[1] \in Primitive
    BY Unwrapped DEF Belong, HeapRecord
  <2>. QED
    BY <2>1 DEF Belong, Identified
<1>2. ASSUME NEW p \in g.vertices \cap Primitive
      PROVE  Stored(h, p) = [l \in Label |-> Values(g, p, l)]
  <2> DEFINE o == CHOOSE x \in h.alive : x[1] = p
  <2>1. o \in h.alive /\ o[1] = p
    BY DEF Belong, Identified
  <2>2. Stored(h, p) = [l \in Label |-> Ends(h.cache[o][l])]
    BY DEF Stored, Ends
  <2>. HIDE DEF o
  <2>3. \A l \in Label : Ends(h.cache[o][l]) = Values(g, p, l)
    BY <2>1, FieldsAreValues
  <2>. QED
    BY <2>2, <2>3
<1> DEFINE D == g.vertices \cap Primitive
           V(p) == [l \in Label |-> Values(g, p, l)]
<1>3. EdgesAsFields(g) = [p \in D |-> V(p)]
  BY StoreOfGraph
<1>4. \A p \in D : Stored(h, p) = V(p)
  BY <1>2
<1>5. {o[1] : o \in h.alive} = D
  BY <1>1
<1>. HIDE DEF V, D
<1>. QED
  BY <1>3, <1>4, <1>5

LEMMA LinksStore ==
  ASSUME NEW g, NEW n, Whole(g), NEW p \in Primitive, p \in g.vertices, NEW l \in Label,
         NEW items \in SUBSET (Object \cup Plain), Links(g, n, p, l, items)
  PROVE  EdgesAsFields(n) = [EdgesAsFields(g) EXCEPT ![p][l] = Ends(items)]
<1>1. n.vertices \cap Primitive = g.vertices \cap Primitive
  BY EntitiesAssumption DEF Links
<1>2. n \in GraphRecord /\ g \in GraphRecord
  BY DEF Links, Whole
<1>3. ASSUME NEW q \in Primitive, NEW m \in Label
      PROVE  Values(n, q, m) = IF q = p /\ m = l THEN Ends(items) ELSE Values(g, q, m)
  <2>1. \A v \in Primitive \cup Plain :
           <<q, m, v>> \in n.edges <=>
              IF q = p /\ m = l THEN v \in Ends(items) ELSE <<q, m, v>> \in g.edges
    BY DEF Links
  <2>2. /\ Values(n, q, m) \subseteq Primitive \cup Plain
        /\ Values(g, q, m) \subseteq Primitive \cup Plain
        /\ \A v \in Primitive \cup Plain : v \in Values(n, q, m) <=> <<q, m, v>> \in n.edges
        /\ \A v \in Primitive \cup Plain : v \in Values(g, q, m) <=> <<q, m, v>> \in g.edges
        /\ Ends(items) \subseteq Primitive \cup Plain
    BY <1>2, ValuesAreEnds, EndsOfItems
  <2>3. CASE q = p /\ m = l
    BY <2>1, <2>2, <2>3
  <2>4. CASE ~(q = p /\ m = l)
    BY <2>1, <2>2, <2>4
  <2>. QED
    BY <2>3, <2>4
<1> DEFINE D == g.vertices \cap Primitive
<1>4. /\ EdgesAsFields(n) = [q \in D |-> [m \in Label |-> Values(n, q, m)]]
      /\ EdgesAsFields(g) = [q \in D |-> [m \in Label |-> Values(g, q, m)]]
  BY <1>1, StoreOfGraph
<1>5. p \in D /\ D \subseteq Primitive
  OBVIOUS
<1>. HIDE DEF D
<1>6. [EdgesAsFields(g) EXCEPT ![p][l] = Ends(items)]
         = [q \in D |-> [m \in Label |-> IF q = p /\ m = l THEN Ends(items) ELSE Values(g, q, m)]]
  <2> DEFINE F == [q \in D |-> [m \in Label |-> Values(g, q, m)]]
             X == Ends(items)
             f == [F[p] EXCEPT ![l] = X]
  <2>1. F[p] = [m \in Label |-> Values(g, p, m)]
    BY <1>5
  <2>2. f = [m \in Label |-> IF m = l THEN X ELSE Values(g, p, m)]
    BY <2>1
  <2>3. [EdgesAsFields(g) EXCEPT ![p][l] = X] = [F EXCEPT ![p] = f]
    BY <1>4
  <2>. HIDE DEF f, X
  <2>4. [F EXCEPT ![p] = f] = [q \in D |-> IF q = p THEN f ELSE F[q]]
    BY <1>5
  <2>5. \A q \in D : (IF q = p THEN f ELSE F[q])
                      = [m \in Label |-> IF q = p /\ m = l THEN X ELSE Values(g, q, m)]
    BY <2>2
  <2>6. [EdgesAsFields(g) EXCEPT ![p][l] = X]
           = [q \in D |-> [m \in Label |-> IF q = p /\ m = l THEN X ELSE Values(g, q, m)]]
    BY <2>3, <2>4, <2>5
  <2>. QED
    BY <2>6 DEF X
<1>. QED
  BY <1>3, <1>4, <1>5, <1>6

LEMMA AddedStore ==
  ASSUME NEW g, Whole(g), NEW p \in Primitive, p \notin g.vertices
  PROVE  EdgesAsFields(WithVertices(g, {p})) = Store!WithObject(EdgesAsFields(g), p)
<1> DEFINE n == WithVertices(g, {p})
           D == g.vertices \cap Primitive
           F == EdgesAsFields(g)
           V(q) == [l \in Label |-> Values(g, q, l)]
           V2(q) == [l \in Label |-> Values(n, q, l)]
<1>1. n.vertices \cap Primitive = D \cup {p} /\ n.edges = g.edges
  BY GraphWithVertices
<1>2. \A q : V2(q) = V(q)
  BY <1>1 DEF Values
<1>3. V(p) = Store!Blank
  <2>1. \A e \in g.edges : e[1] # p
    BY DEF Whole
  <2>. QED
    BY <2>1 DEF Values, Store!Blank
<1>4. /\ F = [q \in D |-> V(q)]
      /\ EdgesAsFields(n) = [q \in D \cup {p} |-> V2(q)]
  BY <1>1, StoreOfGraph
<1>5. p \notin D
  OBVIOUS
<1>. HIDE DEF V, V2, D, F, n
<1>6. EdgesAsFields(n) = [q \in DOMAIN F \cup {p} |-> IF q = p THEN Store!Blank ELSE F[q]]
  BY <1>2, <1>3, <1>4, <1>5
<1>. QED
  BY <1>6 DEF Store!WithObject, F, n

LEMMA RemovedStore ==
  ASSUME NEW g, Whole(g), NEW p \in Primitive, p \in g.vertices
  PROVE  EdgesAsFields(WithoutVertex(g, p)) = Store!WithoutObject(EdgesAsFields(g), p)
<1> DEFINE n == WithoutVertex(g, p)
           D == g.vertices \cap Primitive
           F == EdgesAsFields(g)
<1>1. /\ n.vertices \cap Primitive = D \ {p}
      /\ \A q, l, v : <<q, l, v>> \in n.edges <=> q # p /\ v # p /\ <<q, l, v>> \in g.edges
      /\ n \in GraphRecord /\ g \in GraphRecord
  BY GraphWithoutVertex DEF Whole
<1>. HIDE DEF n
<1>2. ASSUME NEW q \in D \ {p}, NEW l \in Label
      PROVE  Values(n, q, l) = Values(g, q, l) \ {p}
  <2>1. /\ Values(n, q, l) \subseteq Primitive \cup Plain
        /\ Values(g, q, l) \subseteq Primitive \cup Plain
        /\ \A v \in Primitive \cup Plain : v \in Values(n, q, l) <=> <<q, l, v>> \in n.edges
        /\ \A v \in Primitive \cup Plain : v \in Values(g, q, l) <=> <<q, l, v>> \in g.edges
    BY <1>1, ValuesAreEnds
  <2>. QED
    BY <1>1, <2>1
<1>3. /\ F = [q \in D |-> [l \in Label |-> Values(g, q, l)]]
      /\ EdgesAsFields(n) = [q \in D \ {p} |-> [l \in Label |-> Values(n, q, l)]]
  BY <1>1, StoreOfGraph
<1>. HIDE DEF D, F
<1>4. \A q \in D \ {p} : [l \in Label |-> Values(n, q, l)] = [l \in Label |-> F[q][l] \ {p}]
  BY <1>2, <1>3
<1>5. EdgesAsFields(n) = [q \in DOMAIN F \ {p} |-> [l \in Label |-> F[q][l] \ {p}]]
  <2> DEFINE A(q) == [l \in Label |-> Values(n, q, l)]
             B(q) == [l \in Label |-> F[q][l] \ {p}]
  <2>1. /\ DOMAIN F = D /\ EdgesAsFields(n) = [q \in D \ {p} |-> A(q)]
        /\ \A q \in D \ {p} : A(q) = B(q)
    BY <1>3, <1>4
  <2>. HIDE DEF A, B
  <2>2. EdgesAsFields(n) = [q \in DOMAIN F \ {p} |-> B(q)]
    BY <2>1
  <2>. QED
    BY <2>2 DEF B
<1>. QED
  BY <1>5 DEF F, n, Store!WithoutObject

-----------------------------------------------------------------------------
(* Steps of the store.                                                     *)
LEMMA StoreNow ==
  ASSUME EntitiesInv
  PROVE  [p \in {o[1] : o \in heap.alive} |-> FieldsOf(p)] = EdgesAsFields(present)
<1>1. [p \in {o[1] : o \in heap.alive} |-> Stored(heap, p)] = EdgesAsFields(present)
  BY StoreOfHeap DEF EntitiesInv
<1>. QED
  BY <1>1 DEF Stored, FieldsOf

LEMMA StoreNext ==
  ASSUME EntitiesInv'
  PROVE  [p \in {o[1] : o \in heap.alive} |-> FieldsOf(p)]' = EdgesAsFields(present)'
<1>1. Whole(present') /\ Belong(heap', present')
  BY DEF EntitiesInv
<1>2. [p \in {o[1] : o \in heap'.alive} |-> Stored(heap', p)] = EdgesAsFields(present')
  BY <1>1, StoreOfHeap
<1>. QED
  BY <1>2 DEF Stored, FieldsOf

LEMMA AssignmentInStore ==
  ASSUME EntitiesInv, EntitiesInv', committed' = committed,
         NEW o \in heap.alive, NEW l \in Label, l \in LabelsOf[o[1]],
         NEW items \in SUBSET (heap.alive \cup Plain),
         l \notin Collections => \A i, j \in items : i = j,
         Links(present, present', o[1], l, items)
  PROVE  Store!Next
<1> DEFINE p == o[1]
           F == EdgesAsFields(present)
           values == Ends(items)
<1>1. /\ Whole(present) /\ Belong(heap, present) /\ heap.alive \subseteq Object
  BY DEF EntitiesInv, Belong, HeapRecord
<1>2. /\ p \in Primitive /\ p \in present.vertices
      /\ items \in SUBSET (Object \cup Plain) /\ o \in Object
      /\ \A i \in heap.alive : i[1] \in present.vertices
  BY <1>1, Unwrapped DEF Belong, Identified
<1>3. DOMAIN F = present.vertices \cap Primitive
  BY StoreOfGraph
<1>4. values \cap Primitive \subseteq DOMAIN F /\ values \in SUBSET (Primitive \cup Plain)
  <2>1. \A i \in items : UnwrapPrimitive(i) \in Primitive => UnwrapPrimitive(i) \in present.vertices
    BY <1>1, <1>2, Unwrapped
  <2>2. values \in SUBSET (Primitive \cup Plain)
    BY <1>2, EndsOfItems
  <2>. QED
    BY <1>3, <2>1, <2>2 DEF Ends
<1>5. l \in Collections \/ \A u, v \in values : u = v
  BY DEF Ends
<1>6. EdgesAsFields(present') = [F EXCEPT ![p][l] = values]
  BY <1>1, <1>2, LinksStore
<1>7. /\ [q \in {x[1] : x \in heap.alive} |-> FieldsOf(q)] = F
      /\ [q \in {x[1] : x \in heap.alive} |-> FieldsOf(q)]' = EdgesAsFields(present')
  BY StoreNow, StoreNext
<1>8. EdgesAsFields(committed)' = EdgesAsFields(committed)
  BY DEF EdgesAsFields
<1>9. p \in DOMAIN F /\ l \in LabelsOf[p]
  BY <1>2, <1>3
<1>. HIDE DEF F, values, p
<1>10. Store!Assign(p, l, values)
  BY <1>4, <1>5, <1>6, <1>7, <1>8, <1>9 DEF Store!Assign
<1>. QED
  BY <1>2, <1>4, <1>10 DEF Store!Next

LEMMA AddToSetInStore ==
  ASSUME EntitiesInv, EntitiesInv', NEW o \in Object, NEW l \in Label, NEW item \in Items(l),
         AddToSet(o, l, item)
  PROVE  Store!Next
<1>1. /\ committed' = committed /\ o \in heap.alive /\ l \in LabelsOf[o[1]] /\ l \in Collections
  BY DEF AddToSet, HasField
<1>2. PICK h, g :
         /\ \/ h = heap /\ g = present
            \/ /\ item \in heap.objects \ heap.alive
               /\ h = Added(heap, item) /\ g = WithVertices(present, {item[1]})
         /\ Whole(g) /\ Belong(h, g) /\ o \in h.alive
         /\ h.cache = heap.cache /\ item \in h.alive \cup Plain
         /\ Links(g, present', o[1], l, h.cache[o][l] \cup {item})
  BY AddToSetAssigns
<1>3. Whole(present) /\ Belong(heap, present) /\ heap.alive \subseteq Object
  BY DEF EntitiesInv, Belong, HeapRecord
<1> DEFINE all == heap.cache[o][l] \cup {item}
<1>4. heap.cache[o][l] \in SUBSET (heap.alive \cup Plain)
  BY <1>3 DEF Belong, Held
<1>5. CASE h = heap /\ g = present
  <2>1. all \in SUBSET (heap.alive \cup Plain) /\ Links(present, present', o[1], l, all)
    BY <1>2, <1>4, <1>5
  <2>. QED
    BY <1>1, <2>1, AssignmentInStore
<1>6. CASE /\ item \in heap.objects \ heap.alive
           /\ h = Added(heap, item) /\ g = WithVertices(present, {item[1]})
  <2> DEFINE p == o[1]
             q == item[1]
             F == EdgesAsFields(present)
             F2 == Store!WithObject(F, q)
  <2>1. /\ item \in Object /\ q \in Primitive /\ q \notin present.vertices
    BY <1>3, <1>6, NotInTheGraph
  <2>2. p \in Primitive /\ p \in present.vertices /\ all \in SUBSET (Object \cup Plain)
    BY <1>1, <1>3, <1>4, <2>1, Unwrapped DEF Belong, Identified
  <2>3. EdgesAsFields(g) = F2
    BY <1>3, <1>6, <2>1, AddedStore
  <2>4. EdgesAsFields(present') = [F2 EXCEPT ![p][l] = Ends(all)]
    <3>1. Links(g, present', p, l, all) /\ p \in g.vertices
      BY <1>2, <1>3, <2>1, <2>2, GraphWithVertices DEF Belong, Identified
    <3>. QED
      BY <1>2, <2>2, <2>3, <3>1, LinksStore
  <2>5. Ends(all) = F[p][l] \cup {q}
    <3>1. Ends(heap.cache[o][l]) = Values(present, p, l)
      BY <1>1, <1>3, FieldsAreValues
    <3>2. F[p][l] = Values(present, p, l)
      <4>1. F = [x \in present.vertices \cap Primitive |->
                   [m \in Label |-> Values(present, x, m)]]
        BY StoreOfGraph
      <4>. HIDE DEF F
      <4>. QED
        BY <2>2, <4>1
    <3>3. Ends(all) = Ends(heap.cache[o][l]) \cup {q}
      BY <2>1, Unwrapped DEF Ends
    <3>. QED
      BY <3>1, <3>2, <3>3
  <2>6. /\ DOMAIN F = present.vertices \cap Primitive
        /\ F = [x \in present.vertices \cap Primitive |-> [m \in Label |-> Values(present, x, m)]]
    BY StoreOfGraph
  <2>7. /\ [x \in {y[1] : y \in heap.alive} |-> FieldsOf(x)] = F
        /\ [x \in {y[1] : y \in heap.alive} |-> FieldsOf(x)]' = EdgesAsFields(present')
    BY StoreNow, StoreNext
  <2>8. EdgesAsFields(committed)' = EdgesAsFields(committed)
    BY <1>1 DEF EdgesAsFields
  <2>9. p \in DOMAIN F /\ q \notin DOMAIN F /\ p # q
    BY <2>1, <2>2, <2>6
  <2>10. [F2 EXCEPT ![p][l] = Ends(all)]
            = Store!WithObject([F EXCEPT ![p][l] = @ \cup {q}], q)
    <3> DEFINE e == F[p][l] \cup {q}
               f == [F[p] EXCEPT ![l] = e]
               G == [F EXCEPT ![p] = f]
    <3>1. F2 = [x \in DOMAIN F \cup {q} |-> IF x = q THEN Store!Blank ELSE F[x]]
      BY DEF Store!WithObject
    <3>2. F2[p] = F[p]
      BY <2>9, <3>1
    <3>3. [F2 EXCEPT ![p][l] = Ends(all)] = [F2 EXCEPT ![p] = f]
      BY <2>5, <3>2
    <3>4. [F EXCEPT ![p][l] = @ \cup {q}] = G
      OBVIOUS
    <3>5. Store!WithObject(G, q) = [x \in DOMAIN G \cup {q} |-> IF x = q THEN Store!Blank ELSE G[x]]
      BY DEF Store!WithObject
    <3>. HIDE DEF f, F2, F
    <3>6. DOMAIN G = DOMAIN F /\ \A x \in DOMAIN F : G[x] = IF x = p THEN f ELSE F[x]
      OBVIOUS
    <3>. HIDE DEF G
    <3>7. [F2 EXCEPT ![p] = f] = [x \in DOMAIN G \cup {q} |-> IF x = q THEN Store!Blank ELSE G[x]]
      BY <2>9, <3>1, <3>6
    <3>. QED
      BY <3>3, <3>4, <3>5, <3>7
  <2>. HIDE DEF F, F2, p, q, all
  <2>11. EdgesAsFields(present') = Store!WithObject([F EXCEPT ![p][l] = @ \cup {q}], q)
    BY <2>4, <2>10
  <2>12. l \in LabelsOf[p]
    BY <1>1 DEF p
  <2>13. Store!CreateIn(p, l, q)
    BY <1>1, <2>7, <2>8, <2>9, <2>11, <2>12 DEF Store!CreateIn
  <2>. QED
    BY <2>1, <2>2, <2>13 DEF Store!Next
<1>. QED
  BY <1>2, <1>5, <1>6

LEMMA InitStore ==
  Init => Store!Init
<1>. SUFFICES ASSUME Init PROVE Store!Init
  OBVIOUS
<1>1. EntitiesInv /\ present.vertices = {} /\ committed = present
  BY InitHolds DEF Init
<1>2. [p \in {o[1] : o \in heap.alive} |-> FieldsOf(p)] = EdgesAsFields(present)
  BY <1>1, StoreNow
<1>3. EdgesAsFields(present) = [p \in {} |-> Store!Blank]
  <2> DEFINE V(p) == [l \in Label |-> Values(present, p, l)]
  <2>1. EdgesAsFields(present) = [p \in {} |-> V(p)]
    <3>1. present.vertices \cap Primitive = {}
      BY <1>1
    <3>. QED
      BY <3>1, StoreOfGraph
  <2>. HIDE DEF V
  <2>. QED
    BY <2>1
<1>4. EdgesAsFields(committed) = EdgesAsFields(present)
  BY <1>1
<1>. QED
  BY <1>2, <1>3, <1>4 DEF Store!Init

LEMMA NextStore ==
  EntitiesInv /\ EntitiesInv' /\ [Next]_vars => [Store!Next]_(Store!storeVars)
<1>. SUFFICES ASSUME EntitiesInv, EntitiesInv', [Next]_vars
              PROVE  [Store!Next]_(Store!storeVars)
  OBVIOUS
<1> DEFINE F == EdgesAsFields(present)
           F2 == EdgesAsFields(present')
           C == EdgesAsFields(committed)
<1>1. /\ [p \in {o[1] : o \in heap.alive} |-> FieldsOf(p)] = F
      /\ [p \in {o[1] : o \in heap.alive} |-> FieldsOf(p)]' = F2
  BY StoreNow, StoreNext
<1>2. /\ Whole(present) /\ Whole(committed) /\ Belong(heap, present)
      /\ heap.alive \subseteq heap.objects
  BY DEF EntitiesInv, Belong, Identified
<1>3. committed' = committed => EdgesAsFields(committed)' = C
  BY DEF EdgesAsFields
<1>4. present' = present => F2 = F
  OBVIOUS
<1>5. DOMAIN F = present.vertices \cap Primitive
  BY StoreOfGraph
<1>6. ASSUME present' = present, committed' = committed
      PROVE  [Store!Next]_(Store!storeVars)
  BY <1>1, <1>3, <1>4, <1>6 DEF Store!storeVars
<1>7. ASSUME NEW o \in Object, Add(o) PROVE Store!Next
  <2>1. /\ o \in heap.objects \ heap.alive /\ committed' = committed
        /\ present' = WithVertices(present, {o[1]})
    BY <1>7 DEF Add
  <2>2. o[1] \in Primitive /\ o[1] \notin present.vertices
    BY <1>2, <2>1, NotInTheGraph
  <2>3. F2 = Store!WithObject(F, o[1])
    BY <1>2, <2>1, <2>2, AddedStore
  <2>4. o[1] \notin DOMAIN F
    BY <1>5, <2>2
  <2>. HIDE DEF F, F2, C
  <2>5. Store!Create(o[1])
    BY <1>1, <1>3, <2>1, <2>3, <2>4 DEF Store!Create, C
  <2>. QED
    BY <2>2, <2>5 DEF Store!Next
<1>8. ASSUME NEW o \in Object, Remove(o) PROVE Store!Next
  <2>1. /\ o \in heap.alive /\ committed' = committed
        /\ present' = WithoutVertex(present, o[1])
    BY <1>8 DEF Remove
  <2>2. o[1] \in Primitive /\ o[1] \in present.vertices
    BY <1>2, <2>1, Unwrapped DEF Belong, Identified
  <2>3. F2 = Store!WithoutObject(F, o[1])
    BY <1>2, <2>1, <2>2, RemovedStore
  <2>4. o[1] \in DOMAIN F
    BY <1>5, <2>2
  <2>. HIDE DEF F, F2, C
  <2>5. Store!Delete(o[1])
    BY <1>1, <1>3, <2>1, <2>3, <2>4 DEF Store!Delete, C
  <2>. QED
    BY <2>2, <2>5 DEF Store!Next
<1>9. ASSUME NEW o \in Object, NEW l \in Label, NEW items \in SUBSET Items(l),
             \A i, j \in items : i = j, SetField(o, l, items)
      PROVE  Store!Next
  <2>1. o \in heap.alive /\ l \in LabelsOf[o[1]] /\ committed' = committed
    BY <1>9 DEF SetField, HasField
  <2>2. /\ items \in SUBSET (heap.alive \cup Plain)
        /\ Links(present, present', o[1], l, items)
    BY <1>9, SetFieldAssigns
  <2>. QED
    BY <1>9, <2>1, <2>2, AssignmentInStore
<1>10. ASSUME NEW o \in Object, NEW l \in Label, NEW i \in Items(l), AddToSet(o, l, i)
       PROVE  Store!Next
  BY <1>10, AddToSetInStore
<1>11. ASSUME NEW o \in Object, NEW l \in Collections, NEW items \in SUBSET Items(l),
              UpdateSet(o, l, items) \/ DiscardFromSet(o, l, items) \/ AssignSet(o, l, items)
       PROVE  Store!Next
  <2>1. /\ l \in Label /\ o \in heap.alive /\ l \in LabelsOf[o[1]] /\ committed' = committed
    BY <1>11, EntitiesAssumption DEF UpdateSet, DiscardFromSet, AssignSet, HasField
  <2>2. PICK all \in SUBSET (heap.alive \cup Plain) : Links(present, present', o[1], l, all)
    BY <1>11, <2>1, UpdateSetAssigns, DiscardFromSetAssigns, AssignSetAssigns
  <2>. QED
    BY <2>1, <2>2, AssignmentInStore
<1>12. CASE Commit
  <2>1. F2 = F /\ EdgesAsFields(committed)' = F
    BY <1>12 DEF Commit, EdgesAsFields
  <2>. HIDE DEF F, F2
  <2>. QED
    BY <1>1, <2>1 DEF Store!Save, Store!Next
<1>13. CASE Rollback
  <2>1. F2 = C /\ EdgesAsFields(committed)' = C
    BY <1>13 DEF Rollback, EdgesAsFields
  <2>. HIDE DEF F, F2
  <2>. QED
    BY <1>1, <2>1 DEF Store!Restore, Store!Next
<1>14. ASSUME \/ \E p \in Primitive : Construct(p)
              \/ \E o \in Object : Forget(o)
              \/ UNCHANGED vars
       PROVE  present' = present /\ committed' = committed
  BY <1>14 DEF Construct, Forget, vars
<1>15. ASSUME NEW o \in Object, NEW l \in Label, NEW i \in Items(l),
              SetField(o, l, {i}) \/ AddToSet(o, l, i)
       PROVE  Store!Next
  <2>1. {i} \in SUBSET Items(l) /\ \A j, m \in {i} : j = m
    OBVIOUS
  <2>. QED
    BY <1>9, <1>10, <1>15, <2>1
<1>16. ASSUME NEW o \in Object, NEW l \in Optional, SetField(o, l, {}) PROVE Store!Next
  <2>1. l \in Label /\ {} \in SUBSET Items(l)
    BY EntitiesAssumption
  <2>. QED
    BY <1>9, <1>16, <2>1
<1>. QED
  BY <1>6, <1>7, <1>8, <1>11, <1>12, <1>13, <1>14, <1>15, <1>16 DEF Next

-----------------------------------------------------------------------------
(* The theorems.                                                           *)

(* Objects and graph belong together in every reachable state. *)
THEOREM Invariance == Spec => []EntitiesInv
<1>1. Init => EntitiesInv
  BY InitHolds
<1>2. EntitiesInv /\ [Next]_vars => EntitiesInv'
  BY NextHolds
<1>. QED
  BY <1>1, <1>2, PTL DEF Spec

(* The types of the graph and of the objects, caches and inverse relations *)
(* included.                                                               *)
THEOREM TypeCorrect == Spec => []TypeOK
<1>1. EntitiesInv => TypeOK
  <2>. SUFFICES ASSUME EntitiesInv PROVE TypeOK
    OBVIOUS
  <2>1. present \in GraphRecord /\ committed \in GraphRecord
    BY DEF EntitiesInv, Whole
  <2>2. heap \in HeapRecord /\ Identified(heap, present)
    BY DEF EntitiesInv, Belong
  <2>. QED
    BY <2>1, <2>2 DEF TypeOK, GraphRecord, HeapRecord, Identified
<1>. QED
  BY <1>1, Invariance, PTL

(* No primitive ever has two objects, and the living ones are those in the *)
(* graph (Environment.add, remove, sync, Entity.__new__).                  *)
THEOREM ObjectsAreUnique == Spec => []OneObjectEach
<1>1. EntitiesInv => OneObjectEach
  <2>. SUFFICES ASSUME EntitiesInv PROVE OneObjectEach
    OBVIOUS
  <2>1. Belong(heap, present) /\ Identified(heap, present)
    BY DEF EntitiesInv, Belong
  <2>2. {o[1] : o \in heap.alive} = present.vertices \cap Primitive
    <3>1. \A o \in heap.alive : o[1] \in Primitive
      BY <2>1, Unwrapped DEF Belong, HeapRecord
    <3>. QED
      BY <2>1, <3>1 DEF Identified
  <2>. QED
    BY <2>1, <2>2 DEF Identified, OneObjectEach
<1>. QED
  BY <1>1, Invariance, PTL

(* Fields hold what the edges of the graph say, those of temporary         *)
(* entities nothing.                                                       *)
THEOREM FieldsFollowEdges == Spec => []FieldsMirrorEdges
<1>1. EntitiesInv => FieldsMirrorEdges
  <2>. SUFFICES ASSUME EntitiesInv, NEW o \in heap.objects, NEW l \in Label
                PROVE  Ends(heap.cache[o][l]) = Values(present, o[1], l)
    BY DEF FieldsMirrorEdges, Ends, Values
  <2>1. Whole(present) /\ Belong(heap, present)
    BY DEF EntitiesInv
  <2>2. CASE o \in heap.alive
    BY <2>1, <2>2, FieldsAreValues
  <2>3. CASE o \notin heap.alive
    <3>1. o \in Object /\ o[1] \notin present.vertices
      BY <2>1, <2>3, NotInTheGraph
    <3>2. heap.cache[o][l] = {}
      BY <2>1, <2>3, <3>1 DEF Belong, Held
    <3>3. Values(present, o[1], l) = {}
      BY <2>1, <3>1 DEF Whole, Values
    <3>. QED
      BY <3>2, <3>3 DEF Ends
  <2>. QED
    BY <2>2, <2>3
<1>. QED
  BY <1>1, Invariance, PTL

(* What a field holds knows it (_inverse).                                 *)
THEOREM InverseFollowsFields == Spec => []InverseMirrorsFields
<1>1. EntitiesInv => InverseMirrorsFields
  <2>. SUFFICES ASSUME EntitiesInv, NEW o \in Object
                PROVE  heap.inverse[o] = {r \in Object \X Label : o \in heap.cache[r[1]][r[2]]}
    BY DEF InverseMirrorsFields
  <2>1. heap.inverse[o] \in SUBSET (Object \X Label) /\ Mirrored(heap)
    BY DEF EntitiesInv, Belong, HeapRecord
  <2>2. ASSUME NEW r \in Object \X Label
        PROVE  r \in heap.inverse[o] <=> o \in heap.cache[r[1]][r[2]]
    <3>1. r = <<r[1], r[2]>> /\ r[1] \in Object /\ r[2] \in Label
      OBVIOUS
    <3>2. <<r[1], r[2]>> \in heap.inverse[o] <=> o \in heap.cache[r[1]][r[2]]
      BY <2>1, <3>1 DEF Mirrored
    <3>. QED
      BY <3>1, <3>2
  <2>. QED
    BY <2>1, <2>2
<1>. QED
  BY <1>1, Invariance, PTL

(* To its client the environment is a store of objects: fields, removals,  *)
(* commit() and rollback() do what they would do to values.                *)
THEOREM EntitiesAreAStore == Spec => ActsAsObjectStore
<1>1. Init => Store!Init
  BY InitStore
<1>2. EntitiesInv /\ EntitiesInv' /\ [Next]_vars => [Store!Next]_(Store!storeVars)
  BY NextStore
<1>. QED
  BY <1>1, <1>2, Invariance, PTL DEF Spec, ActsAsObjectStore, Store!Spec

=============================================================================
