--------------------------- MODULE MatchingProofs ---------------------------
(***************************************************************************)
(* Proofs about the algebra of refs, what a set of literals, and what a    *)
(* union of such sets, says of the values of names; and that patterns      *)
(* which are vertices and edges one after the other are matched soundly.   *)
(***************************************************************************)
EXTENDS SoundMatching, FiniteSetTheorems, WellFoundedInduction, TLAPS

(* What Refs::normalized makes of literals. *)
Normal(r) ==
    /\ \A l, m \in r : ~Contradict(l, m)
    /\ \A l, m \in r : l.negative /\ m.name = l.name => m.negative

Region  == {r \in SUBSET Literal : IsFiniteSet(r) /\ Normal(r)}
Regions == {T \in SUBSET Region : IsFiniteSet(T)}

(* Ways to give every name a value, and where they are. *)
Assignment       == [RefName -> Vertex]
Meets(a, l)      == l.negative <=> a[l.name] # l.value
Agrees(a, r)     == \A l \in r : Meets(a, l)
Within(a, terms) == \E t \in terms : Agrees(a, t)

-----------------------------------------------------------------------------
(* Induction, over numbers that form a set. *)

NatLess == OpToRel(<, Nat)

(* A set of numbers that is not empty has a least one. *)
LEMMA LeastNumber ==
    ASSUME NEW T \in SUBSET Nat, T # {}
    PROVE  \E n \in T : \A m \in T : n <= m
<1>1. PICK n \in T : \A m \in T : <<m, n>> \notin NatLess
  BY NatLessThanWellFounded, WFMin DEF NatLess
<1>2. ASSUME NEW m \in T, ~(n <= m) PROVE FALSE
  <2>1. <<m, n>> \in Nat \X Nat /\ m < n
    BY <1>2
  <2>2. <<m, n>> \in NatLess
    BY <2>1 DEF NatLess, OpToRel
  <2> QED BY <1>1, <2>2
<1> QED BY <1>2

(* What holds at 0, and of n + 1 if of n, holds up to m. *)
LEMMA UpTo ==
    ASSUME NEW m \in Nat, NEW T, 0 \in T,
           \A n \in 0 .. m - 1 : n \in T => n + 1 \in T
    PROVE  \A n \in 0 .. m : n \in T
<1> SUFFICES ASSUME NEW k \in 0 .. m, k \notin T PROVE FALSE
  OBVIOUS
<1> DEFINE F == {n \in 0 .. m : n \notin T}
<1>1. PICK n \in F : \A l \in F : n <= l
  <2>1. F \in SUBSET Nat /\ k \in F
    OBVIOUS
  <2> HIDE DEF F
  <2> QED BY <2>1, LeastNumber
<1>2. n # 0 /\ n \in 0 .. m /\ n \notin T
  OBVIOUS
<1>3. n - 1 \in 0 .. m - 1 /\ n - 1 \in 0 .. m
  BY <1>2
<1>4. n - 1 \in T
  BY <1>1, <1>3
<1>5. n - 1 + 1 = n
  BY <1>2
<1> QED BY <1>2, <1>3, <1>4, <1>5

-----------------------------------------------------------------------------
(* Literals. *)

LEMMA SameLiteral ==
    ASSUME NEW l \in Literal, NEW m \in Literal,
           l.name = m.name, l.negative = m.negative, l.value = m.value
    PROVE  l = m
BY DEF Literal

LEMMA LiteralsAre ==
    ASSUME NEW n \in RefName, NEW v \in Vertex
    PROVE  /\ Is(n, v) \in Literal /\ IsNot(n, v) \in Literal
           /\ Is(n, v).name = n /\ ~Is(n, v).negative /\ Is(n, v).value = v
           /\ IsNot(n, v).name = n /\ IsNot(n, v).negative /\ IsNot(n, v).value = v
BY DEF Is, IsNot, Literal

LEMMA NegatedIs ==
    ASSUME NEW l \in Literal
    PROVE  /\ Negated(l) \in Literal
           /\ Negated(l).name = l.name /\ Negated(l).value = l.value
           /\ Negated(l).negative = ~l.negative
           /\ \A a \in Assignment : Meets(a, Negated(l)) <=> ~Meets(a, l)
<1>1. /\ Negated(l) \in Literal
      /\ Negated(l).name = l.name /\ Negated(l).value = l.value
      /\ Negated(l).negative = ~l.negative
  BY DEF Negated, Literal
<1>2. l.negative \in BOOLEAN
  BY DEF Literal
<1> QED BY <1>1, <1>2 DEF Meets

LEMMA ContradictionIsMet ==
    ASSUME NEW l \in Literal, NEW m \in Literal, NEW a \in Assignment,
           Meets(a, l), Meets(a, m)
    PROVE  ~Contradict(l, m)
BY DEF Contradict, Meets, Literal

(* A literal alone, as the negation of one in subtract(), is a region. *)
LEMMA LiteralIsRegion ==
    ASSUME NEW l \in Literal
    PROVE  {l} \in Region /\ \A a \in Assignment : Agrees(a, {l}) <=> Meets(a, l)
<1>1. IsFiniteSet({l})
  BY FS_Singleton
<1>2. ~Contradict(l, l)
  BY DEF Contradict, Literal
<1> QED BY <1>1, <1>2 DEF Region, Normal, Agrees

-----------------------------------------------------------------------------
(* Normalization and intersection. *)

LEMMA NormalizedIs ==
    ASSUME NEW S \in SUBSET Literal, IsFiniteSet(S)
    PROVE  /\ Normalized(S) \in SUBSET Region
           /\ IsFiniteSet(Normalized(S))
           /\ \A a \in Assignment : Within(a, Normalized(S)) <=> Agrees(a, S)
<1> DEFINE kept == {l \in S : l.negative => \A m \in S : m.name = l.name => m.negative}
<1>1. CASE \E l, m \in S : Contradict(l, m)
  <2>1. Normalized(S) = {}
    BY <1>1 DEF Normalized
  <2>2. ASSUME NEW a \in Assignment PROVE ~Agrees(a, S)
    BY <1>1, ContradictionIsMet DEF Agrees
  <2> QED BY <2>1, <2>2, FS_EmptySet DEF Within
<1>2. CASE \A l, m \in S : ~Contradict(l, m)
  <2>1. Normalized(S) = {kept}
    BY <1>2 DEF Normalized
  <2>2. kept \in Region
    <3>1. kept \in SUBSET S /\ IsFiniteSet(kept)
      BY FS_Subset
    <3>2. Normal(kept)
      BY <1>2 DEF Normal
    <3> HIDE DEF kept
    <3> QED BY <3>1, <3>2 DEF Region
  <2>3. IsFiniteSet({kept})
    BY FS_Singleton
  <2>4. ASSUME NEW a \in Assignment, Agrees(a, kept), NEW l \in S
        PROVE  Meets(a, l)
    <3>1. CASE l \in kept
      BY <2>4, <3>1 DEF Agrees
    <3>2. CASE l \notin kept
      <4>1. PICK m \in S : m.name = l.name /\ ~m.negative /\ l.negative
        BY <3>2
      <4>2. Meets(a, m)
        BY <2>4, <4>1 DEF Agrees
      <4>3. ~Contradict(m, l)
        BY <1>2
      <4> QED BY <4>1, <4>2, <4>3 DEF Contradict, Meets, Literal
    <3> QED BY <3>1, <3>2
  <2>5. ASSUME NEW a \in Assignment PROVE Agrees(a, S) <=> Agrees(a, kept)
    <3>1. Agrees(a, S) => Agrees(a, kept)
      BY DEF Agrees
    <3> HIDE DEF kept
    <3> QED BY <2>4, <3>1 DEF Agrees
  <2> HIDE DEF kept
  <2> QED BY <2>1, <2>2, <2>3, <2>5 DEF Within
<1> QED BY <1>1, <1>2

(* Where two regions overlap is the region of both sets of literals, and   *)
(* none only if they do not (Refs::intersect_with).                        *)
THEOREM IntersectionIs ==
    ASSUME NEW r \in Region, NEW s \in Region
    PROVE  /\ IntersectWith(r, s) \in SUBSET Region
           /\ IsFiniteSet(IntersectWith(r, s))
           /\ \A a \in Assignment :
                 Within(a, IntersectWith(r, s)) <=> Agrees(a, r) /\ Agrees(a, s)
<1>1. r \cup s \in SUBSET Literal /\ IsFiniteSet(r \cup s)
  BY FS_Union DEF Region
<1>2. \A a \in Assignment : Agrees(a, r \cup s) <=> Agrees(a, r) /\ Agrees(a, s)
  BY DEF Agrees
<1> QED BY <1>1, <1>2, NormalizedIs DEF IntersectWith

-----------------------------------------------------------------------------
(* Containment. *)

LEMMA ImpliesIsReflexive ==
    ASSUME NEW r \in Region
    PROVE  Implies(r, r)
<1> SUFFICES ASSUME NEW l \in r
             PROVE  IF l.negative THEN l.negative = (l.value = l.value) ELSE l = l
  BY DEF Implies
<1> QED BY DEF Region, Literal

LEMMA ImpliesIsTransitive ==
    ASSUME NEW r \in Region, NEW s \in Region, NEW t \in Region,
           Implies(r, s), Implies(s, t)
    PROVE  Implies(r, t)
<1> SUFFICES ASSUME NEW n \in t
             PROVE  \E l \in r : /\ l.name = n.name
                                 /\ IF n.negative THEN l.negative = (l.value = n.value) ELSE l = n
  BY DEF Implies
<1>1. PICK m \in s : /\ m.name = n.name
                     /\ IF n.negative THEN m.negative = (m.value = n.value) ELSE m = n
  BY DEF Implies
<1>2. PICK l \in r : /\ l.name = m.name
                     /\ IF m.negative THEN l.negative = (l.value = m.value) ELSE l = m
  BY DEF Implies
<1>3. l \in Literal /\ m \in Literal /\ n \in Literal
  BY DEF Region
<1> QED BY <1>1, <1>2, <1>3 DEF Literal

(* No two different regions contain each other, so removing contained ones *)
(* from a union never removes both.                                        *)
LEMMA ImpliesIsAntisymmetric ==
    ASSUME NEW r \in Region, NEW s \in Region, Implies(r, s), Implies(s, r)
    PROVE  r = s
<1>1. ASSUME NEW p \in Region, NEW q \in Region, Implies(p, q), Implies(q, p), NEW m \in q
      PROVE  m \in p
  <2>1. PICK l \in p : /\ l.name = m.name
                       /\ IF m.negative THEN l.negative = (l.value = m.value) ELSE l = m
    BY <1>1 DEF Implies
  <2>2. l \in Literal /\ m \in Literal
    BY <1>1 DEF Region
  <2>3. CASE ~m.negative
    BY <2>1, <2>3
  <2>4. CASE m.negative /\ l.negative
    <3>1. l.value = m.value
      BY <2>1, <2>2, <2>4 DEF Literal
    <3>2. l = m
      BY <2>1, <2>2, <2>4, <3>1 DEF Literal
    <3> QED BY <3>2
  <2>5. CASE m.negative /\ ~l.negative
    <3>1. l \in q
      BY <1>1, <2>5 DEF Implies
    <3>2. Normal(q)
      BY <1>1 DEF Region
    <3> QED BY <2>1, <2>5, <3>1, <3>2 DEF Normal
  <2> QED BY <2>2, <2>3, <2>4, <2>5
<1>2. r \subseteq s /\ s \subseteq r
  BY <1>1
<1> QED BY <1>2

(* What Refs::implies says is so. *)
THEOREM ImpliesIsSound ==
    ASSUME NEW r \in Region, NEW s \in Region, Implies(r, s),
           NEW a \in Assignment, Agrees(a, r)
    PROVE  Agrees(a, s)
<1> SUFFICES ASSUME NEW m \in s PROVE Meets(a, m)
  BY DEF Agrees
<1>1. PICK l \in r : /\ l.name = m.name
                     /\ IF m.negative THEN l.negative = (l.value = m.value) ELSE l = m
  BY DEF Implies
<1>2. Meets(a, l)
  BY DEF Agrees
<1>3. l \in Literal /\ m \in Literal
  BY DEF Region
<1> QED BY <1>1, <1>2, <1>3 DEF Meets, Literal

-----------------------------------------------------------------------------
(* Unions of regions. *)

LEMMA FiniteImage ==
    ASSUME NEW S, IsFiniteSet(S), NEW f, f = [x \in S |-> f[x]]
    PROVE  IsFiniteSet({f[x] : x \in S})
<1> DEFINE T == {f[x] : x \in S}
<1>1. f \in Surjection(S, T)
  BY DEF Surjection
<1> QED BY <1>1, FS_Surjection

LEMMA FiniteUnionOfImage ==
    ASSUME NEW S, IsFiniteSet(S), NEW f, f = [x \in S |-> f[x]],
           \A x \in S : IsFiniteSet(f[x])
    PROVE  IsFiniteSet(UNION {f[x] : x \in S})
<1>1. IsFiniteSet({f[x] : x \in S})
  BY FiniteImage
<1> QED BY <1>1, FS_UNION

(* Simplification leaves, for every region of a union, one that contains   *)
(* it: otherwise take a region without, contained in as few as possible.   *)
LEMMA SimplifyUnionCovers ==
    ASSUME NEW T \in Regions, NEW t \in T
    PROVE  \E s \in SimplifyUnion(T) : Implies(t, s)
<1> DEFINE Above(r) == {s \in T : Implies(r, s)}
           Lost     == {r \in T : \A s \in SimplifyUnion(T) : ~Implies(r, s)}
           Counts   == {Cardinality(Above(r)) : r \in Lost}
<1>0. T \in SUBSET Region /\ IsFiniteSet(T)
  BY DEF Regions
<1>1. ASSUME NEW r \in T PROVE IsFiniteSet(Above(r)) /\ Cardinality(Above(r)) \in Nat
  <2>1. Above(r) \in SUBSET T
    OBVIOUS
  <2> HIDE DEF Above
  <2> QED BY <1>0, <2>1, FS_Subset, FS_CardinalityType
<1> SUFFICES ASSUME t \in Lost PROVE FALSE
  OBVIOUS
<1>2. PICK r \in Lost : \A s \in Lost : Cardinality(Above(r)) <= Cardinality(Above(s))
  <2>1. Counts \in SUBSET Nat /\ Counts # {}
    <3> HIDE DEF Above
    <3> QED BY <1>1
  <2>2. PICK n \in Counts : \A m \in Counts : n <= m
    <3> HIDE DEF Counts
    <3> QED BY <2>1, LeastNumber
  <2> HIDE DEF Above
  <2> QED BY <2>2
<1>3. r \in T /\ r \in Region
  BY <1>0
<1>4. r \notin SimplifyUnion(T)
  BY <1>3, ImpliesIsReflexive
<1>5. PICK s \in T : s # r /\ Implies(r, s)
  BY <1>3, <1>4 DEF SimplifyUnion
<1>6. s \in Lost
  <2>1. ASSUME NEW u \in SimplifyUnion(T), Implies(s, u) PROVE FALSE
    <3>1. u \in Region /\ s \in Region
      BY <1>0 DEF SimplifyUnion
    <3>2. Implies(r, u)
      BY <1>3, <1>5, <2>1, <3>1, ImpliesIsTransitive
    <3> QED BY <3>2
  <2> QED BY <2>1
<1>7. Above(s) \in SUBSET Above(r) /\ r \in Above(r) /\ r \notin Above(s)
  <2>1. ASSUME NEW u \in T, Implies(s, u) PROVE Implies(r, u)
    BY <1>0, <1>3, <1>5, <2>1, ImpliesIsTransitive
  <2>2. Implies(r, r)
    BY <1>3, ImpliesIsReflexive
  <2>3. ~Implies(s, r)
    BY <1>0, <1>3, <1>5, ImpliesIsAntisymmetric
  <2> QED BY <1>3, <2>1, <2>2, <2>3
<1>8. Cardinality(Above(s)) < Cardinality(Above(r))
  <2>1. IsFiniteSet(Above(r)) /\ Cardinality(Above(r)) \in Nat /\ Cardinality(Above(s)) \in Nat
    BY <1>1, <1>3
  <2> HIDE DEF Above
  <2>2. Cardinality(Above(s)) <= Cardinality(Above(r)) /\ Cardinality(Above(r)) # Cardinality(Above(s))
    BY <1>7, <2>1, FS_Subset
  <2> QED BY <2>1, <2>2
<1>9. Cardinality(Above(r)) <= Cardinality(Above(s))
  BY <1>2, <1>6
<1>10. Cardinality(Above(r)) \in Nat /\ Cardinality(Above(s)) \in Nat
  BY <1>1, <1>3
<1> HIDE DEF Above
<1> QED BY <1>8, <1>9, <1>10

(* Simplification keeps some of the regions, none of them in another, and  *)
(* loses nothing of their union (simplify_union).                          *)
THEOREM SimplifyUnionIs ==
    ASSUME NEW T \in Regions
    PROVE  /\ SimplifyUnion(T) \in SUBSET T /\ SimplifyUnion(T) \in Regions
           /\ \A r, s \in SimplifyUnion(T) : Implies(r, s) => r = s
           /\ \A a \in Assignment : Within(a, SimplifyUnion(T)) <=> Within(a, T)
<1>0. T \in SUBSET Region /\ IsFiniteSet(T)
  BY DEF Regions
<1>1. SimplifyUnion(T) \in SUBSET T
  BY DEF SimplifyUnion
<1>2. SimplifyUnion(T) \in Regions
  BY <1>0, <1>1, FS_Subset DEF Regions
<1>3. ASSUME NEW a \in Assignment, NEW t \in T, Agrees(a, t)
      PROVE  Within(a, SimplifyUnion(T))
  <2>1. PICK s \in SimplifyUnion(T) : Implies(t, s)
    BY SimplifyUnionCovers
  <2>2. Agrees(a, s)
    BY <1>0, <1>1, <1>3, <2>1, ImpliesIsSound
  <2> QED BY <2>1, <2>2 DEF Within
<1>4. \A r, s \in SimplifyUnion(T) : Implies(r, s) => r = s
  BY DEF SimplifyUnion
<1> QED BY <1>1, <1>2, <1>3, <1>4 DEF Within

(* A region without another one, as a union of regions (Refs::subtract).   *)
THEOREM SubtractIs ==
    ASSUME NEW r \in Region, NEW s \in Region
    PROVE  /\ Subtract(r, s) \in Regions
           /\ \A a \in Assignment : Within(a, Subtract(r, s)) <=> Agrees(a, r) /\ ~Agrees(a, s)
<1>0. /\ r \in SUBSET Literal /\ s \in SUBSET Literal /\ IsFiniteSet(s)
      /\ \A a \in Assignment : Within(a, {r}) <=> Agrees(a, r)
  BY DEF Region, Within
<1>1. CASE IntersectWith(r, s) = {}
  <2>1. Subtract(r, s) = {r}
    BY <1>1 DEF Subtract
  <2>2. {r} \in Regions
    BY FS_Singleton DEF Regions
  <2>3. \A a \in Assignment : ~(Agrees(a, r) /\ Agrees(a, s))
    BY <1>1, IntersectionIs DEF Within
  <2> QED BY <1>0, <2>1, <2>2, <2>3
<1>2. CASE IntersectWith(r, s) # {}
  <2> DEFINE part == [l \in s |-> IntersectWith(r, {Negated(l)})]
             rest == UNION {part[l] : l \in s}
  <2>1. Subtract(r, s) = SimplifyUnion(rest)
    BY <1>2 DEF Subtract
  <2>2. ASSUME NEW l \in s
        PROVE  /\ part[l] \in Regions
               /\ \A a \in Assignment : Within(a, part[l]) <=> Agrees(a, r) /\ ~Meets(a, l)
    <3>1. /\ {Negated(l)} \in Region
          /\ \A a \in Assignment : Agrees(a, {Negated(l)}) <=> ~Meets(a, l)
      BY <1>0, NegatedIs, LiteralIsRegion
    <3>2. part[l] = IntersectWith(r, {Negated(l)})
      OBVIOUS
    <3> QED BY <3>1, <3>2, IntersectionIs DEF Regions
  <2>3. part = [l \in s |-> part[l]]
    OBVIOUS
  <2> HIDE DEF part
  <2>4. rest \in Regions
    <3>1. IsFiniteSet(rest)
      BY <1>0, <2>2, <2>3, FiniteUnionOfImage DEF Regions
    <3> QED BY <2>2, <3>1 DEF Regions
  <2>5. ASSUME NEW a \in Assignment
        PROVE  Within(a, rest) <=> Agrees(a, r) /\ ~Agrees(a, s)
    <3>1. Within(a, rest) <=> \E l \in s : Within(a, part[l])
      BY DEF Within
    <3>2. (\E l \in s : ~Meets(a, l)) <=> ~Agrees(a, s)
      BY DEF Agrees
    <3> QED BY <2>2, <3>1, <3>2
  <2> HIDE DEF rest
  <2> QED BY <2>1, <2>4, <2>5, SimplifyUnionIs
<1> QED BY <1>1, <1>2

(* A union of regions without another region (subtract_from_union).        *)
LEMMA SubtractFromUnionIs ==
    ASSUME NEW T \in Regions, NEW s \in Region
    PROVE  /\ SubtractFromUnion(T, s) \in Regions
           /\ \A a \in Assignment :
                 Within(a, SubtractFromUnion(T, s)) <=> Within(a, T) /\ ~Agrees(a, s)
<1> DEFINE part == [t \in T |-> Subtract(t, s)]
           rest == UNION {part[t] : t \in T}
<1>0. T \in SUBSET Region /\ IsFiniteSet(T)
  BY DEF Regions
<1>1. SubtractFromUnion(T, s) = SimplifyUnion(rest)
  BY DEF SubtractFromUnion
<1>2. ASSUME NEW t \in T
      PROVE  /\ part[t] \in Regions
             /\ \A a \in Assignment : Within(a, part[t]) <=> Agrees(a, t) /\ ~Agrees(a, s)
  BY <1>0, SubtractIs
<1>3. part = [t \in T |-> part[t]]
  OBVIOUS
<1> HIDE DEF part
<1>4. rest \in Regions
  <2>1. IsFiniteSet(rest)
    BY <1>0, <1>2, <1>3, FiniteUnionOfImage DEF Regions
  <2> QED BY <1>2, <2>1 DEF Regions
<1>5. ASSUME NEW a \in Assignment
      PROVE  Within(a, rest) <=> Within(a, T) /\ ~Agrees(a, s)
  <2>1. Within(a, rest) <=> \E t \in T : Within(a, part[t])
    BY DEF Within
  <2>2. Within(a, T) <=> \E t \in T : Agrees(a, t)
    BY DEF Within
  <2> QED BY <1>2, <2>1, <2>2
<1> HIDE DEF rest
<1> QED BY <1>1, <1>4, <1>5, SimplifyUnionIs

-----------------------------------------------------------------------------
(* The loops over a list of regions are what they are defined to be. *)

(* What the n-th region has that none before it has. *)
FreshIn(regions, n) == Remainders({regions[n]}, regions)[n - 1]

LEMMA RemaindersDefined ==
    ASSUME NEW terms, NEW regions, Len(regions) \in Nat
    PROVE  LET after == Remainders(terms, regions)
           IN  /\ after[0] = terms
               /\ \A n \in 0 .. Len(regions) - 1 : after[n + 1] = SubtractFromUnion(after[n], regions[n + 1])
<1>0. PICK size \in Nat : size = Len(regions)
  OBVIOUS
<1> DEFINE Obeys(f, m) == f = [n \in 0 .. m |-> IF n = 0 THEN terms ELSE SubtractFromUnion(f[n - 1], regions[n])]
           T == {m \in 0 .. size : \E f : Obeys(f, m)}
<1>1. 0 \in T
  <2> DEFINE f == [n \in 0 .. 0 |-> terms]
  <2>1. Obeys(f, 0)
    OBVIOUS
  <2> HIDE DEF f, Obeys
  <2> QED BY <2>1, <1>0
<1>2. ASSUME NEW m \in 0 .. size - 1, m \in T PROVE m + 1 \in T
  <2>1. PICK f : Obeys(f, m)
    BY <1>2
  <2> DEFINE h == [n \in 0 .. m + 1 |-> IF n = m + 1 THEN SubtractFromUnion(f[m], regions[m + 1]) ELSE f[n]]
  <2>2. ASSUME NEW n \in 0 .. m + 1
        PROVE  h[n] = IF n = 0 THEN terms ELSE SubtractFromUnion(h[n - 1], regions[n])
    <3>1. CASE n = m + 1
      <4>1. h[n - 1] = f[m] /\ n # 0
        BY <3>1, <1>0
      <4>2. h[n] = SubtractFromUnion(f[m], regions[n])
        BY <3>1
      <4> QED BY <4>1, <4>2
    <3>2. CASE n # m + 1
      <4>1. n \in 0 .. m /\ h[n] = f[n]
        BY <3>2, <1>0
      <4>2. n # 0 => h[n - 1] = f[n - 1]
        BY <4>1, <1>0
      <4>3. f[n] = IF n = 0 THEN terms ELSE SubtractFromUnion(f[n - 1], regions[n])
        BY <2>1, <4>1
      <4> QED BY <4>1, <4>2, <4>3
    <3> QED BY <3>1, <3>2
  <2>3. Obeys(h, m + 1)
    BY <2>2
  <2> HIDE DEF h, Obeys
  <2> QED BY <2>3, <1>0
<1>3. size \in T
  <2> HIDE DEF T
  <2> QED BY <1>0, <1>1, <1>2, UpTo
<1>4. Obeys(Remainders(terms, regions), size)
  <2>1. \E f : Obeys(f, size)
    BY <1>3
  <2>2. Remainders(terms, regions) = CHOOSE f : Obeys(f, size)
    BY <1>0 DEF Remainders
  <2> QED BY <2>1, <2>2
<1>5. ASSUME NEW f, Obeys(f, size)
      PROVE  /\ f[0] = terms
             /\ \A n \in 0 .. size - 1 : f[n + 1] = SubtractFromUnion(f[n], regions[n + 1])
  <2>1. f[0] = terms
    BY <1>0, <1>5
  <2>2. ASSUME NEW n \in 0 .. size - 1 PROVE f[n + 1] = SubtractFromUnion(f[n], regions[n + 1])
    <3>1. n \in Nat /\ n + 1 \in 0 .. size /\ n + 1 # 0 /\ (n + 1) - 1 = n
      <4> HIDE DEF T, Obeys
      <4> QED BY <1>0
    <3> QED BY <1>5, <3>1
  <2> QED BY <2>1, <2>2
<1> QED BY <1>0, <1>4, <1>5

LEMMA ArrangementsDefined ==
    ASSUME NEW regions, Len(regions) \in Nat
    PROVE  LET after == Arrangements(regions)
           IN  /\ after[0] = {}
               /\ \A n \in 0 .. Len(regions) - 1 : after[n + 1] = ArrangeNext(after[n], regions[n + 1], FreshIn(regions, n + 1))
<1>0. PICK size \in Nat : size = Len(regions)
  OBVIOUS
<1> DEFINE Obeys(f, m) == f = [n \in 0 .. m |-> IF n = 0 THEN {} ELSE ArrangeNext(f[n - 1], regions[n], FreshIn(regions, n))]
           T == {m \in 0 .. size : \E f : Obeys(f, m)}
<1>1. 0 \in T
  <2> DEFINE f == [n \in 0 .. 0 |-> {}]
  <2>1. Obeys(f, 0)
    OBVIOUS
  <2> HIDE DEF f, Obeys
  <2> QED BY <2>1, <1>0
<1>2. ASSUME NEW m \in 0 .. size - 1, m \in T PROVE m + 1 \in T
  <2>1. PICK f : Obeys(f, m)
    BY <1>2
  <2> DEFINE h == [n \in 0 .. m + 1 |-> IF n = m + 1 THEN ArrangeNext(f[m], regions[m + 1], FreshIn(regions, m + 1)) ELSE f[n]]
  <2>2. ASSUME NEW n \in 0 .. m + 1
        PROVE  h[n] = IF n = 0 THEN {} ELSE ArrangeNext(h[n - 1], regions[n], FreshIn(regions, n))
    <3>1. CASE n = m + 1
      <4>1. h[n - 1] = f[m] /\ n # 0
        BY <3>1, <1>0
      <4>2. h[n] = ArrangeNext(f[m], regions[n], FreshIn(regions, n))
        BY <3>1
      <4> QED BY <4>1, <4>2
    <3>2. CASE n # m + 1
      <4>1. n \in 0 .. m /\ h[n] = f[n]
        BY <3>2, <1>0
      <4>2. n # 0 => h[n - 1] = f[n - 1]
        BY <4>1, <1>0
      <4>3. f[n] = IF n = 0 THEN {} ELSE ArrangeNext(f[n - 1], regions[n], FreshIn(regions, n))
        BY <2>1, <4>1
      <4> QED BY <4>1, <4>2, <4>3
    <3> QED BY <3>1, <3>2
  <2>3. Obeys(h, m + 1)
    BY <2>2
  <2> HIDE DEF h, Obeys
  <2> QED BY <2>3, <1>0
<1>3. size \in T
  <2> HIDE DEF T
  <2> QED BY <1>0, <1>1, <1>2, UpTo
<1>4. Obeys(Arrangements(regions), size)
  <2>1. \E f : Obeys(f, size)
    BY <1>3
  <2>2. Arrangements(regions) = CHOOSE f : Obeys(f, size)
    BY <1>0 DEF Arrangements
  <2> QED BY <2>1, <2>2
<1>5. ASSUME NEW f, Obeys(f, size)
      PROVE  /\ f[0] = {}
             /\ \A n \in 0 .. size - 1 : f[n + 1] = ArrangeNext(f[n], regions[n + 1], FreshIn(regions, n + 1))
  <2>1. f[0] = {}
    BY <1>0, <1>5
  <2>2. ASSUME NEW n \in 0 .. size - 1 PROVE f[n + 1] = ArrangeNext(f[n], regions[n + 1], FreshIn(regions, n + 1))
    <3>1. n \in Nat /\ n + 1 \in 0 .. size /\ n + 1 # 0 /\ (n + 1) - 1 = n
      <4> HIDE DEF T, Obeys
      <4> QED BY <1>0
    <3> QED BY <1>5, <3>1
  <2> QED BY <2>1, <2>2
<1> QED BY <1>0, <1>4, <1>5

LEMMA RemaindersAre ==
    ASSUME NEW T \in Regions, NEW regions \in Seq(Region)
    PROVE  \A n \in 0 .. Len(regions) :
              /\ Remainders(T, regions)[n] \in Regions
              /\ \A a \in Assignment :
                    Within(a, Remainders(T, regions)[n]) <=>
                        Within(a, T) /\ \A i \in 1 .. n : ~Agrees(a, regions[i])
<1>0. PICK size \in Nat : size = Len(regions)
  OBVIOUS
<1>1. \A i \in 1 .. size : regions[i] \in Region
  BY <1>0
<1> DEFINE after == Remainders(T, regions)
           Right(n) == /\ after[n] \in Regions
                       /\ \A a \in Assignment :
                             Within(a, after[n]) <=>
                                 Within(a, T) /\ \A i \in 1 .. n : ~Agrees(a, regions[i])
           N == {n \in 0 .. size : Right(n)}
<1>2. after[0] = T /\ \A n \in 0 .. size - 1 : after[n + 1] = SubtractFromUnion(after[n], regions[n + 1])
  BY <1>0, RemaindersDefined
<1> HIDE DEF after
<1>3. 0 \in N
  BY <1>2
<1>4. ASSUME NEW n \in 0 .. size - 1, n \in N PROVE n + 1 \in N
  <2>1. n + 1 \in 1 .. size /\ n + 1 \in 0 .. size /\ Right(n)
    BY <1>4
  <2>2. regions[n + 1] \in Region
    BY <1>1, <2>1
  <2>3. after[n + 1] = SubtractFromUnion(after[n], regions[n + 1])
    BY <1>2
  <2>4. /\ after[n + 1] \in Regions
        /\ \A a \in Assignment :
              Within(a, after[n + 1]) <=> Within(a, after[n]) /\ ~Agrees(a, regions[n + 1])
    BY <2>1, <2>2, <2>3, SubtractFromUnionIs
  <2>5. ASSUME NEW a \in Assignment
        PROVE  (\A i \in 1 .. n + 1 : ~Agrees(a, regions[i]))
                  <=> (\A i \in 1 .. n : ~Agrees(a, regions[i])) /\ ~Agrees(a, regions[n + 1])
    <3>1. \A i : i \in 1 .. n + 1 <=> i \in 1 .. n \/ i = n + 1
      OBVIOUS
    <3> QED BY <3>1
  <2>6. Right(n + 1)
    BY <2>1, <2>4, <2>5
  <2> HIDE DEF Right
  <2> QED BY <2>1, <2>6
<1>5. \A n \in 0 .. size : n \in N
  <2> HIDE DEF N
  <2> QED BY <1>3, <1>4, UpTo
<1> QED BY <1>0, <1>5 DEF after

(* What is left of a union when regions are subtracted from it one by one  *)
(* (arrange(), and the matches of a negation).                             *)
THEOREM SubtractAllIs ==
    ASSUME NEW T \in Regions, NEW regions \in Seq(Region)
    PROVE  /\ SubtractAll(T, regions) \in Regions
           /\ \A a \in Assignment :
                 Within(a, SubtractAll(T, regions)) <=>
                     Within(a, T) /\ \A r \in ToSet(regions) : ~Agrees(a, r)
<1>0. PICK size \in Nat : size = Len(regions)
  OBVIOUS
<1>1. size \in 0 .. size
  OBVIOUS
<1>2. ToSet(regions) = {regions[i] : i \in 1 .. size}
  BY <1>0 DEF ToSet
<1>3. SubtractAll(T, regions) = Remainders(T, regions)[size]
  BY <1>0 DEF SubtractAll
<1> QED BY <1>0, <1>1, <1>2, <1>3, RemaindersAre

-----------------------------------------------------------------------------
(* The arrangement of regions. *)

Over(a, S) == {r \in S : Agrees(a, r)}

(* A cell is where just its members overlap, and wherever there is any of  *)
(* the regions there is a cell, the only one with its members.             *)
CellOf(c, S) ==
    /\ c.terms \in Regions /\ c.terms # {}
    /\ c.members \in SUBSET S /\ c.members # {}
    /\ \A a \in Assignment : Within(a, c.terms) <=> c.members = Over(a, S)

IsArrangement(cells, S) ==
    /\ \A c \in cells : CellOf(c, S)
    /\ \A c, d \in cells : c.members = d.members => c = d
    /\ \A a \in Assignment : Over(a, S) # {} => \E c \in cells : Within(a, c.terms)

LEMMA OverOneMore ==
    ASSUME NEW S, NEW r, r \notin S, NEW M \in SUBSET S, NEW a \in Assignment
    PROVE  /\ M = Over(a, S \cup {r}) <=> M = Over(a, S) /\ ~Agrees(a, r)
           /\ M \cup {r} = Over(a, S \cup {r}) <=> M = Over(a, S) /\ Agrees(a, r)
<1>1. CASE Agrees(a, r)
  <2>1. Over(a, S \cup {r}) = Over(a, S) \cup {r}
    BY <1>1 DEF Over
  <2>2. r \notin M /\ r \notin Over(a, S)
    BY DEF Over
  <2> QED BY <1>1, <2>1, <2>2
<1>2. CASE ~Agrees(a, r)
  <2>1. Over(a, S \cup {r}) = Over(a, S)
    BY <1>2 DEF Over
  <2>2. r \notin Over(a, S)
    BY DEF Over
  <2> QED BY <1>2, <2>1, <2>2
<1> QED BY <1>1, <1>2

(* Splitting a cell by one more region loses none of it and makes cells.   *)
LEMMA SplitCellIs ==
    ASSUME NEW S, NEW c, CellOf(c, S), NEW r \in Region, r \notin S
    PROVE  /\ \A d \in SplitCell(c, r) :
                 CellOf(d, S \cup {r}) /\ d.members \in {c.members, c.members \cup {r}}
           /\ \A d, e \in SplitCell(c, r) : d.members = e.members => d = e
           /\ \A a \in Assignment :
                 Within(a, c.terms) => \E d \in SplitCell(c, r) : Within(a, d.terms)
<1> DEFINE part    == [t \in c.terms |-> IntersectWith(t, r)]
           common  == UNION {part[t] : t \in c.terms}
           inside  == [terms |-> SimplifyUnion(common), members |-> c.members \cup {r}]
           outside == [terms |-> SubtractFromUnion(c.terms, r), members |-> c.members]
<1>1. /\ c.terms \in Regions /\ c.terms \in SUBSET Region /\ IsFiniteSet(c.terms) /\ c.terms # {}
      /\ c.members \in SUBSET S /\ c.members # {} /\ r \notin c.members
      /\ \A a \in Assignment : Within(a, c.terms) <=> c.members = Over(a, S)
  BY DEF CellOf, Regions
<1>2. SplitCell(c, r) = IF common = {} THEN {c} ELSE {inside} \cup {d \in {outside} : d.terms # {}}
  BY DEF SplitCell
<1>3. ASSUME NEW t \in c.terms
      PROVE  /\ part[t] \in Regions
             /\ \A a \in Assignment : Within(a, part[t]) <=> Agrees(a, t) /\ Agrees(a, r)
  <2>1. part[t] = IntersectWith(t, r)
    OBVIOUS
  <2>2. t \in Region
    BY <1>1
  <2> HIDE DEF part
  <2> QED BY <2>1, <2>2, IntersectionIs DEF Regions
<1>4. part = [t \in c.terms |-> part[t]]
  OBVIOUS
<1> HIDE DEF part
<1>5. common \in Regions
  <2>1. IsFiniteSet(common)
    <3>1. PICK T : T = c.terms
      OBVIOUS
    <3>2. IsFiniteSet(T) /\ part = [t \in T |-> part[t]] /\ \A t \in T : IsFiniteSet(part[t])
      BY <1>1, <1>3, <1>4, <3>1 DEF Regions
    <3>3. IsFiniteSet(UNION {part[t] : t \in T})
      BY <3>2, FiniteUnionOfImage
    <3> QED BY <3>1, <3>3
  <2> QED BY <1>3, <2>1 DEF Regions
<1>6. ASSUME NEW a \in Assignment
      PROVE  Within(a, common) <=> Within(a, c.terms) /\ Agrees(a, r)
  <2>1. Within(a, common) <=> \E t \in c.terms : Within(a, part[t])
    BY DEF Within
  <2>2. Within(a, c.terms) <=> \E t \in c.terms : Agrees(a, t)
    BY DEF Within
  <2> QED BY <1>3, <2>1, <2>2
<1> HIDE DEF common
<1>7. /\ inside.terms = SimplifyUnion(common) /\ inside.members = c.members \cup {r}
      /\ outside.terms = SubtractFromUnion(c.terms, r) /\ outside.members = c.members
  OBVIOUS
<1> HIDE DEF inside, outside
<1>8. c.members \in SUBSET S
  BY <1>1
<1>9. CASE common = {}
  <2>1. \A a \in Assignment : ~(Within(a, c.terms) /\ Agrees(a, r))
    BY <1>6, <1>9 DEF Within
  <2>2. ASSUME NEW a \in Assignment
        PROVE  Within(a, c.terms) <=> c.members = Over(a, S \cup {r})
    <3>1. c.members = Over(a, S \cup {r}) <=> c.members = Over(a, S) /\ ~Agrees(a, r)
      BY <1>8, OverOneMore
    <3>2. Within(a, c.terms) <=> c.members = Over(a, S) /\ ~Agrees(a, r)
      BY <1>1, <2>1
    <3> QED BY <3>1, <3>2
  <2>3. CellOf(c, S \cup {r})
    BY <1>1, <2>2 DEF CellOf
  <2>4. SplitCell(c, r) = {c}
    BY <1>2, <1>9
  <2> QED BY <2>3, <2>4
<1>10. CASE common # {}
  <2>1. SplitCell(c, r) = {inside} \cup {d \in {outside} : d.terms # {}}
    BY <1>2, <1>10
  <2>2. CellOf(inside, S \cup {r})
    <3>1. inside.terms \in Regions
      BY <1>5, <1>7, SimplifyUnionIs
    <3>2. inside.terms # {}
      BY <1>5, <1>7, <1>10, SimplifyUnionCovers
    <3>3. ASSUME NEW a \in Assignment
          PROVE  Within(a, inside.terms) <=> inside.members = Over(a, S \cup {r})
      <4>1. Within(a, inside.terms) <=> Within(a, c.terms) /\ Agrees(a, r)
        BY <1>5, <1>6, <1>7, SimplifyUnionIs
      <4>2. c.members \cup {r} = Over(a, S \cup {r}) <=> c.members = Over(a, S) /\ Agrees(a, r)
        BY <1>8, OverOneMore
      <4>3. Within(a, inside.terms) <=> c.members = Over(a, S) /\ Agrees(a, r)
        BY <1>1, <4>1
      <4> QED BY <1>7, <4>2, <4>3
    <3> QED BY <1>1, <1>7, <3>1, <3>2, <3>3 DEF CellOf
  <2>3. ASSUME outside.terms # {} PROVE CellOf(outside, S \cup {r})
    <3>1. /\ outside.terms \in Regions
          /\ \A a \in Assignment : Within(a, outside.terms) <=> Within(a, c.terms) /\ ~Agrees(a, r)
      BY <1>1, <1>7, SubtractFromUnionIs
    <3>2. ASSUME NEW a \in Assignment
          PROVE  Within(a, outside.terms) <=> outside.members = Over(a, S \cup {r})
      <4>1. c.members = Over(a, S \cup {r}) <=> c.members = Over(a, S) /\ ~Agrees(a, r)
        BY <1>8, OverOneMore
      <4>2. Within(a, outside.terms) <=> c.members = Over(a, S) /\ ~Agrees(a, r)
        BY <1>1, <3>1
      <4> QED BY <1>7, <4>1, <4>2
    <3> QED BY <1>1, <1>7, <2>3, <3>1, <3>2 DEF CellOf
  <2>4. inside.members # outside.members
    BY <1>1, <1>7
  <2>5. ASSUME NEW a \in Assignment, Within(a, c.terms)
        PROVE  \E d \in SplitCell(c, r) : Within(a, d.terms)
    <3>1. CASE Agrees(a, r)
      <4>1. Within(a, inside.terms)
        BY <1>5, <1>6, <1>7, <2>5, <3>1, SimplifyUnionIs
      <4> QED BY <2>1, <4>1
    <3>2. CASE ~Agrees(a, r)
      <4>1. Within(a, outside.terms)
        BY <1>1, <1>7, <2>5, <3>2, SubtractFromUnionIs
      <4>2. outside.terms # {}
        BY <4>1 DEF Within
      <4> QED BY <2>1, <4>1, <4>2
    <3> QED BY <3>1, <3>2
  <2> QED BY <1>7, <2>1, <2>2, <2>3, <2>4, <2>5
<1> QED BY <1>9, <1>10

(* The next region splits the cells, and adds what no region before has.   *)
LEMMA ArrangeNextIs ==
    ASSUME NEW S, NEW r \in Region, r \notin S,
           NEW cells, IsArrangement(cells, S),
           NEW fresh \in Regions,
           \A a \in Assignment : Within(a, fresh) <=> Agrees(a, r) /\ Over(a, S) = {}
    PROVE  IsArrangement(ArrangeNext(cells, r, fresh), S \cup {r})
<1> DEFINE new   == [terms |-> fresh, members |-> {r}]
           parts == UNION {SplitCell(c, r) : c \in cells}
           next  == parts \cup {c \in {new} : c.terms # {}}
<1>3. ArrangeNext(cells, r, fresh) = next
  BY DEF ArrangeNext
<1>4. new.terms = fresh /\ new.members = {r}
  OBVIOUS
<1> HIDE DEF new
<1>6. ASSUME NEW c \in cells
      PROVE  CellOf(c, S) /\ r \notin c.members
  BY <1>4 DEF IsArrangement, CellOf
<1>7. ASSUME NEW c \in cells
      PROVE  /\ \A d \in SplitCell(c, r) :
                   CellOf(d, S \cup {r}) /\ d.members \in {c.members, c.members \cup {r}}
             /\ \A d, e \in SplitCell(c, r) : d.members = e.members => d = e
             /\ \A a \in Assignment :
                   Within(a, c.terms) => \E d \in SplitCell(c, r) : Within(a, d.terms)
  <2>1. CellOf(c, S) /\ r \notin S
    BY <1>6
  <2> QED BY <2>1, SplitCellIs
<1>8. ASSUME fresh # {} PROVE CellOf(new, S \cup {r})
  <2>1. ASSUME NEW a \in Assignment
        PROVE  Within(a, new.terms) <=> new.members = Over(a, S \cup {r})
    <3>1. PICK M \in SUBSET S : M = {}
      OBVIOUS
    <3>2. M \cup {r} = Over(a, S \cup {r}) <=> M = Over(a, S) /\ Agrees(a, r)
      BY OverOneMore
    <3>3. new.members = M \cup {r}
      BY <1>4, <3>1
    <3>4. Within(a, new.terms) <=> M = Over(a, S) /\ Agrees(a, r)
      BY <1>4, <3>1
    <3> QED BY <3>2, <3>3, <3>4
  <2> QED BY <1>4, <1>8, <2>1 DEF CellOf
<1>9. ASSUME NEW d \in next PROVE CellOf(d, S \cup {r})
  <2>1. CASE d \in parts
    BY <1>7, <2>1
  <2>2. CASE d \notin parts
    BY <1>4, <1>8, <2>2
  <2> QED BY <2>1, <2>2
<1>10. ASSUME NEW d \in next, NEW e \in next, d.members = e.members PROVE d = e
  <2>1. ASSUME NEW c \in cells, NEW x \in SplitCell(c, r) PROVE x.members # {r}
    <3>1. c.members # {} /\ r \notin c.members
      BY <1>6 DEF CellOf
    <3>2. x.members \in {c.members, c.members \cup {r}}
      BY <1>7
    <3> QED BY <3>1, <3>2
  <2>2. CASE d \in parts /\ e \in parts
    <3>1. PICK c \in cells : d \in SplitCell(c, r)
      BY <2>2
    <3>2. PICK b \in cells : e \in SplitCell(b, r)
      BY <2>2
    <3>3. d.members \in {c.members, c.members \cup {r}} /\ e.members \in {b.members, b.members \cup {r}}
      BY <1>7, <3>1, <3>2
    <3>4. r \notin c.members /\ r \notin b.members
      BY <1>6
    <3>5. c.members = d.members \ {r} /\ b.members = e.members \ {r}
      BY <3>3, <3>4
    <3>6. c = b
      BY <1>10, <3>5 DEF IsArrangement
    <3> QED BY <1>7, <1>10, <3>1, <3>2, <3>6
  <2>3. CASE d \notin parts
    <3>1. d = new
      BY <2>3
    <3>2. e \notin parts
      BY <1>4, <1>10, <2>1, <3>1
    <3> QED BY <3>1, <3>2
  <2>4. CASE e \notin parts
    <3>1. e = new
      BY <2>4
    <3>2. d \notin parts
      BY <1>4, <1>10, <2>1, <3>1
    <3> QED BY <3>1, <3>2
  <2> QED BY <2>2, <2>3, <2>4
<1>11. ASSUME NEW a \in Assignment, Over(a, S \cup {r}) # {}
       PROVE  \E d \in next : Within(a, d.terms)
  <2>1. CASE Over(a, S) # {}
    <3>1. PICK c \in cells : Within(a, c.terms)
      BY <2>1 DEF IsArrangement
    <3>2. PICK d \in SplitCell(c, r) : Within(a, d.terms)
      BY <1>7, <3>1
    <3> QED BY <3>2
  <2>2. CASE Over(a, S) = {}
    <3>1. Agrees(a, r)
      BY <1>11, <2>2 DEF Over
    <3>2. Within(a, new.terms)
      BY <1>4, <2>2, <3>1
    <3>3. new.terms # {}
      BY <3>2 DEF Within
    <3> QED BY <3>2, <3>3
  <2> QED BY <2>1, <2>2
<1> HIDE DEF next
<1> QED BY <1>3, <1>9, <1>10, <1>11 DEF IsArrangement

-----------------------------------------------------------------------------
(* arrange(). *)

(* Its lists of regions are of distinct ones. *)
Distinct(regions) == \A i, j \in DOMAIN regions : regions[i] = regions[j] => i = j

First(regions, n) == {regions[i] : i \in 1 .. n}

LEMMA FreshIs ==
    ASSUME NEW regions \in Seq(Region), NEW n \in 0 .. Len(regions) - 1
    PROVE  /\ FreshIn(regions, n + 1) \in Regions
           /\ \A a \in Assignment :
                 Within(a, FreshIn(regions, n + 1)) <=>
                     Agrees(a, regions[n + 1]) /\ Over(a, First(regions, n)) = {}
<1>0. PICK size \in Nat : size = Len(regions)
  OBVIOUS
<1>1. n \in 0 .. size /\ n + 1 \in 1 .. size /\ (n + 1) - 1 = n
  BY <1>0
<1>2. PICK r : r = regions[n + 1]
  OBVIOUS
<1>3. r \in Region
  BY <1>0, <1>1, <1>2
<1>4. FreshIn(regions, n + 1) = Remainders({r}, regions)[n]
  BY <1>1, <1>2 DEF FreshIn
<1>5. {r} \in Regions
  BY <1>3, FS_Singleton DEF Regions
<1>6. \A a \in Assignment : Within(a, {r}) <=> Agrees(a, r)
  BY DEF Within
<1>7. \A a \in Assignment : (\A i \in 1 .. n : ~Agrees(a, regions[i])) <=> Over(a, First(regions, n)) = {}
  BY DEF Over, First
<1>8. /\ Remainders({r}, regions)[n] \in Regions
      /\ \A a \in Assignment :
            Within(a, Remainders({r}, regions)[n]) <=>
                Within(a, {r}) /\ \A i \in 1 .. n : ~Agrees(a, regions[i])
  BY <1>0, <1>1, <1>5, RemaindersAre
<1> QED BY <1>2, <1>4, <1>6, <1>7, <1>8

(* Splitting cells by every region in turn arranges the regions so far.    *)
LEMMA ArrangementsAre ==
    ASSUME NEW regions \in Seq(Region), Distinct(regions)
    PROVE  \A n \in 0 .. Len(regions) : IsArrangement(Arrangements(regions)[n], First(regions, n))
<1>0. PICK size \in Nat : size = Len(regions)
  OBVIOUS
<1> DEFINE after == Arrangements(regions)
           N == {n \in 0 .. size : IsArrangement(after[n], First(regions, n))}
<1>1. /\ after[0] = {}
      /\ \A n \in 0 .. size - 1 : after[n + 1] = ArrangeNext(after[n], regions[n + 1], FreshIn(regions, n + 1))
  BY <1>0, ArrangementsDefined
<1> HIDE DEF after
<1>2. 0 \in N
  <2>1. First(regions, 0) = {}
    BY DEF First
  <2>2. IsArrangement({}, {})
    BY DEF IsArrangement, Over
  <2>3. IsArrangement(after[0], First(regions, 0))
    BY <1>1, <2>1, <2>2
  <2> QED BY <2>3
<1>3. ASSUME NEW n \in 0 .. size - 1, n \in N PROVE n + 1 \in N
  <2>1. n + 1 \in 1 .. size /\ n + 1 \in 0 .. size /\ n \in 0 .. Len(regions) - 1
    BY <1>0
  <2>2. regions[n + 1] \in Region
    BY <1>0, <2>1
  <2>3. regions[n + 1] \notin First(regions, n)
    <3> SUFFICES ASSUME NEW i \in 1 .. n, regions[i] = regions[n + 1] PROVE FALSE
      BY DEF First
    <3>1. i \in DOMAIN regions /\ n + 1 \in DOMAIN regions /\ i # n + 1
      BY <1>0, <2>1
    <3> QED BY <3>1 DEF Distinct
  <2>4. First(regions, n + 1) = First(regions, n) \cup {regions[n + 1]}
    <3>1. 1 .. n + 1 = (1 .. n) \cup {n + 1}
      OBVIOUS
    <3> QED BY <3>1 DEF First
  <2>5. IsArrangement(after[n], First(regions, n))
    BY <1>3
  <2>6. /\ FreshIn(regions, n + 1) \in Regions
        /\ \A a \in Assignment :
              Within(a, FreshIn(regions, n + 1)) <=>
                  Agrees(a, regions[n + 1]) /\ Over(a, First(regions, n)) = {}
    BY <2>1, FreshIs
  <2>7. IsArrangement(ArrangeNext(after[n], regions[n + 1], FreshIn(regions, n + 1)),
                      First(regions, n) \cup {regions[n + 1]})
    BY <2>2, <2>3, <2>5, <2>6, ArrangeNextIs
  <2>8. IsArrangement(after[n + 1], First(regions, n + 1))
    BY <1>1, <2>4, <2>7
  <2> QED BY <2>1, <2>8
<1>4. \A n \in 0 .. size : n \in N
  <2> HIDE DEF N
  <2> QED BY <1>2, <1>3, UpTo
<1> QED BY <1>0, <1>4 DEF after

(* Different regions that set the same names and exclude nothing do not    *)
(* overlap, as a comment in arrange() says.                                *)
LEMMA DisjointRegions ==
    ASSUME NEW r \in Region, NEW s \in Region, r # s,
           ~HasNegatives(r), ~HasNegatives(s), PositiveNames(r) = PositiveNames(s)
    PROVE  IntersectWith(r, s) = {}
<1>1. ASSUME NEW p \in Region, NEW q \in Region, ~HasNegatives(p), ~HasNegatives(q),
             PositiveNames(p) = PositiveNames(q), NEW l \in p, l \notin q
      PROVE  \E m \in q : Contradict(l, m)
  <2>1. ~l.negative /\ l.name \in PositiveNames(q)
    <3>1. ~l.negative
      BY <1>1 DEF HasNegatives
    <3> QED BY <1>1, <3>1 DEF PositiveNames
  <2>2. PICK m \in q : m.name = l.name /\ ~m.negative
    BY <2>1 DEF PositiveNames
  <2>3. l \in Literal /\ m \in Literal /\ m # l
    BY <1>1 DEF Region
  <2>4. m.negative = FALSE /\ l.negative = FALSE
    BY <2>1, <2>2, <2>3 DEF Literal
  <2>5. m.value # l.value
    BY <2>2, <2>3, <2>4, SameLiteral
  <2> QED BY <2>1, <2>2, <2>4, <2>5 DEF Contradict
<1>2. CASE \E l \in r : l \notin s
  BY <1>1, <1>2 DEF IntersectWith, Normalized
<1>3. CASE \E l \in s : l \notin r
  BY <1>1, <1>3 DEF IntersectWith, Normalized
<1> QED BY <1>2, <1>3

(* The shortcut of arrange() gives the cells that splitting would give.    *)
THEOREM ShortcutIsTheSame ==
    ASSUME NEW regions \in Seq(Region), Distinct(regions), Disjoint(regions)
    PROVE  Arrangements(regions)[Len(regions)] = {Cell(r) : r \in ToSet(regions)}
<1>0. PICK size \in Nat : size = Len(regions)
  OBVIOUS
<1>1. ASSUME NEW i \in 1 .. size
      PROVE  regions[i] \in Region
  BY <1>0
<1>2. ASSUME NEW i \in 1 .. size, NEW j \in 1 .. size, i # j
      PROVE  IntersectWith(regions[i], regions[j]) = {}
  <2>1. i \in DOMAIN regions /\ j \in DOMAIN regions
    BY <1>0
  <2>2. regions[i] # regions[j]
    BY <1>2, <2>1 DEF Distinct
  <2>3. /\ ~HasNegatives(regions[i]) /\ ~HasNegatives(regions[j])
        /\ PositiveNames(regions[i]) = PositiveNames(regions[j])
    BY <2>1 DEF Disjoint
  <2> QED BY <1>1, <2>2, <2>3, DisjointRegions
<1>3. ASSUME NEW i \in 1 .. size, NEW j \in 1 .. size, i # j
      PROVE  SubtractFromUnion({regions[i]}, regions[j]) = {regions[i]}
  <2>1. Subtract(regions[i], regions[j]) = {regions[i]}
    BY <1>2, <1>3 DEF Subtract
  <2>2. UNION {Subtract(t, regions[j]) : t \in {regions[i]}} = {regions[i]}
    BY <2>1
  <2> QED BY <2>2 DEF SubtractFromUnion, SimplifyUnion
<1>4. ASSUME NEW n \in 0 .. size - 1
      PROVE  FreshIn(regions, n + 1) = {regions[n + 1]}
  <2>0. n + 1 \in 1 .. size /\ (n + 1) - 1 = n
    OBVIOUS
  <2>1. PICK r : r = regions[n + 1]
    OBVIOUS
  <2> DEFINE rest == Remainders({r}, regions)
             N == {m \in 0 .. n : rest[m] = {r}}
  <2>2. rest[0] = {r} /\ \A m \in 0 .. size - 1 : rest[m + 1] = SubtractFromUnion(rest[m], regions[m + 1])
    BY <1>0, RemaindersDefined
  <2> HIDE DEF rest
  <2>3. 0 \in N
    BY <2>2
  <2>4. ASSUME NEW m \in 0 .. n - 1, m \in N PROVE m + 1 \in N
    <3>1. m \in 0 .. size - 1 /\ m + 1 \in 1 .. size /\ m + 1 \in 0 .. n /\ n + 1 # m + 1
      OBVIOUS
    <3>2. rest[m + 1] = SubtractFromUnion({r}, regions[m + 1])
      BY <2>2, <2>4, <3>1
    <3>3. SubtractFromUnion({regions[n + 1]}, regions[m + 1]) = {regions[n + 1]}
      BY <1>3, <2>0, <3>1
    <3> QED BY <2>1, <3>1, <3>2, <3>3
  <2>5. n \in Nat /\ \A m \in 0 .. n : m \in N
    <3>1. n \in Nat
      OBVIOUS
    <3> HIDE DEF N
    <3> QED BY <2>3, <2>4, <3>1, UpTo
  <2>6. rest[n] = {r}
    BY <2>5
  <2> QED BY <2>0, <2>1, <2>6 DEF FreshIn, rest
<1> DEFINE after == Arrangements(regions)
           N == {n \in 0 .. size : after[n] = {Cell(regions[i]) : i \in 1 .. n}}
<1>5. /\ after[0] = {}
      /\ \A n \in 0 .. size - 1 : after[n + 1] = ArrangeNext(after[n], regions[n + 1], FreshIn(regions, n + 1))
  BY <1>0, ArrangementsDefined
<1> HIDE DEF after
<1>6. 0 \in N
  BY <1>5
<1>7. ASSUME NEW n \in 0 .. size - 1, n \in N PROVE n + 1 \in N
  <2>0. n + 1 \in 1 .. size /\ n + 1 \in 0 .. size /\ 1 .. n + 1 = (1 .. n) \cup {n + 1}
    OBVIOUS
  <2>1. PICK r : r = regions[n + 1]
    OBVIOUS
  <2>2. FreshIn(regions, n + 1) = {r}
    BY <1>4, <2>1
  <2>3. ASSUME NEW c \in after[n] PROVE SplitCell(c, r) = {c}
    <3>1. PICK i \in 1 .. n : c = Cell(regions[i])
      BY <1>7, <2>3
    <3>2. i \in 1 .. size /\ i # n + 1
      OBVIOUS
    <3>3. IntersectWith(regions[i], r) = {}
      BY <1>2, <2>0, <2>1, <3>2
    <3>4. c.terms = {regions[i]}
      BY <3>1 DEF Cell
    <3>5. UNION {IntersectWith(t, r) : t \in c.terms} = {}
      BY <3>3, <3>4
    <3> QED BY <3>5 DEF SplitCell
  <2>4. ArrangeNext(after[n], r, {r}) = after[n] \cup {Cell(r)}
    <3>1. UNION {SplitCell(c, r) : c \in after[n]} = after[n]
      BY <2>3
    <3>2. Cell(r) = [terms |-> {r}, members |-> {r}] /\ Cell(r).terms # {}
      BY DEF Cell
    <3>3. {c \in {Cell(r)} : c.terms # {}} = {Cell(r)}
      BY <3>2
    <3> QED BY <3>1, <3>2, <3>3 DEF ArrangeNext
  <2>5. after[n + 1] = after[n] \cup {Cell(regions[n + 1])}
    BY <1>5, <2>1, <2>2, <2>4
  <2>6. after[n] = {Cell(regions[i]) : i \in 1 .. n}
    BY <1>7
  <2>7. after[n + 1] = {Cell(regions[i]) : i \in 1 .. n + 1}
    BY <2>0, <2>5, <2>6
  <2> QED BY <2>0, <2>7
<1>8. \A n \in 0 .. size : n \in N
  <2> HIDE DEF N
  <2> QED BY <1>6, <1>7, UpTo
<1>9. after[size] = {Cell(regions[i]) : i \in 1 .. size}
  BY <1>8
<1>10. ToSet(regions) = {regions[i] : i \in 1 .. size}
  BY <1>0 DEF ToSet
<1>11. {Cell(r) : r \in ToSet(regions)} = {Cell(regions[i]) : i \in 1 .. size}
  BY <1>10
<1> QED BY <1>0, <1>9, <1>11 DEF after

(* Whatever the list, each cell is where just its members overlap, and     *)
(* there is one cell, and only one, for every set of regions that do.      *)
THEOREM ArrangeIs ==
    ASSUME NEW regions \in Seq(Region), Distinct(regions)
    PROVE  /\ IsArrangement(Arrange(regions), ToSet(regions))
           /\ \A a \in Assignment :
                 Over(a, ToSet(regions)) # {} =>
                     \E c \in Arrange(regions) :
                         /\ Within(a, c.terms) /\ c.members = Over(a, ToSet(regions))
                         /\ \A d \in Arrange(regions) : Within(a, d.terms) => d = c
<1>0. PICK size \in Nat : size = Len(regions)
  OBVIOUS
<1>1. Arrange(regions) = Arrangements(regions)[size]
  BY <1>0, ShortcutIsTheSame DEF Arrange
<1>2. ToSet(regions) = First(regions, size)
  BY <1>0 DEF ToSet, First
<1>3. IsArrangement(Arrange(regions), ToSet(regions))
  BY <1>0, <1>1, <1>2, ArrangementsAre
<1>4. ASSUME NEW a \in Assignment, Over(a, ToSet(regions)) # {}
      PROVE  \E c \in Arrange(regions) :
                 /\ Within(a, c.terms) /\ c.members = Over(a, ToSet(regions))
                 /\ \A d \in Arrange(regions) : Within(a, d.terms) => d = c
  <2>1. PICK c \in Arrange(regions) : Within(a, c.terms)
    BY <1>3, <1>4 DEF IsArrangement
  <2>2. \A d \in Arrange(regions) : Within(a, d.terms) => d.members = Over(a, ToSet(regions))
    BY <1>3 DEF IsArrangement, CellOf
  <2> QED BY <1>3, <2>1, <2>2 DEF IsArrangement
<1> QED BY <1>3, <1>4

-----------------------------------------------------------------------------
(* Names given values. *)

(* No literals are a region, everything, and so are those of some names of *)
(* a region, which says more.                                              *)
LEMMA RestrictedToIs ==
    ASSUME NEW r \in Region, NEW names
    PROVE  /\ {} \in Region
           /\ RestrictedTo(r, names) \in Region
           /\ \A a \in Assignment : Agrees(a, {}) /\ (Agrees(a, r) => Agrees(a, RestrictedTo(r, names)))
<1>1. {} \in Region
  BY FS_EmptySet DEF Region, Normal
<1>2. RestrictedTo(r, names) \in SUBSET r
  BY DEF RestrictedTo
<1>3. IsFiniteSet(RestrictedTo(r, names))
  BY <1>2, FS_Subset DEF Region
<1>4. Normal(RestrictedTo(r, names))
  BY <1>2 DEF Region, Normal
<1> QED BY <1>1, <1>2, <1>3, <1>4 DEF Region, Agrees

(* A name is set only where it may be: binding() tells what a region says  *)
(* of a name and a vertex, and copy_and_set() makes the region where the   *)
(* name has that value.                                                    *)
THEOREM BindingIs ==
    ASSUME NEW r \in Region, NEW n \in RefName, NEW v \in Vertex
    PROVE  /\ Binding(r, n, v) = "already set" => \A a \in Assignment : Agrees(a, r) => a[n] = v
           /\ Binding(r, n, v) = "impossible"  => \A a \in Assignment : Agrees(a, r) => a[n] # v
           /\ Binding(r, n, v) = "possible"    =>
                 /\ CopyAndSet(r, n, v) \in Region
                 /\ \A a \in Assignment :
                       Agrees(a, CopyAndSet(r, n, v)) <=> Agrees(a, r) /\ a[n] = v
<1>0. r \in SUBSET Literal /\ IsFiniteSet(r) /\ Normal(r)
  BY DEF Region
<1>1. /\ Is(n, v) \in Literal /\ IsNot(n, v) \in Literal
      /\ Is(n, v).name = n /\ ~Is(n, v).negative /\ Is(n, v).value = v
      /\ IsNot(n, v).name = n /\ IsNot(n, v).negative /\ IsNot(n, v).value = v
  BY LiteralsAre
<1>2. CASE Is(n, v) \in r
  <2>1. \A a \in Assignment : Agrees(a, r) => a[n] = v
    BY <1>1, <1>2 DEF Agrees, Meets
  <2>2. IsNot(n, v) \notin r /\ \A l \in r : l.name = n /\ ~l.negative => l.value = v
    <3>1. \A m \in r : m.name = n => ~(m.negative = (m.value = v))
      BY <1>0, <1>1, <1>2 DEF Normal, Contradict
    <3>2. \A l \in r : l.negative \in BOOLEAN
      BY <1>0 DEF Literal
    <3> QED BY <1>1, <3>1, <3>2
  <2>3. Binding(r, n, v) = "already set"
    BY <1>2, <2>2 DEF Binding
  <2> QED BY <2>1, <2>3
<1>3. CASE Is(n, v) \notin r /\ IsNot(n, v) \in r
  <2>1. \A a \in Assignment : Agrees(a, r) => a[n] # v
    BY <1>1, <1>3 DEF Agrees, Meets
  <2>2. Binding(r, n, v) = "impossible"
    BY <1>3 DEF Binding
  <2> QED BY <2>1, <2>2
<1>4. CASE /\ Is(n, v) \notin r /\ IsNot(n, v) \notin r
           /\ \E l \in r : l.name = n /\ ~l.negative /\ l.value # v
  <2>1. PICK l \in r : l.name = n /\ ~l.negative /\ l.value # v
    BY <1>4
  <2>2. \A a \in Assignment : Agrees(a, r) => a[n] # v
    BY <2>1 DEF Agrees, Meets
  <2>3. Binding(r, n, v) = "impossible"
    BY <1>4 DEF Binding
  <2> QED BY <2>2, <2>3
<1>5. CASE /\ Is(n, v) \notin r /\ IsNot(n, v) \notin r
           /\ \A l \in r : l.name = n => l.negative \/ l.value = v
  <2> DEFINE others == {l \in r : l.name # n}
             set    == CopyAndSet(r, n, v)
  <2>1. set = others \cup {Is(n, v)}
    BY DEF CopyAndSet
  <2>2. ASSUME NEW l \in r, l.name = n PROVE l.negative /\ l.value # v
    <3>1. l \in Literal
      BY <1>0
    <3>2. l # Is(n, v) /\ l # IsNot(n, v)
      BY <1>5
    <3>3. CASE l.negative
      <4>1. l.negative = TRUE /\ IsNot(n, v).negative = TRUE
        BY <1>1, <3>1, <3>3 DEF Literal
      <4>2. l.value # v
        BY <1>1, <2>2, <3>1, <3>2, <4>1, SameLiteral
      <4> QED BY <3>3, <4>2
    <3>4. CASE ~l.negative
      <4>1. l.negative = FALSE /\ Is(n, v).negative = FALSE
        BY <1>1, <3>1, <3>4 DEF Literal
      <4>2. l.value = v
        BY <1>5, <2>2, <3>4
      <4> QED BY <1>1, <2>2, <3>1, <3>2, <4>1, <4>2, SameLiteral
    <3> QED BY <3>3, <3>4
  <2>3. set \in SUBSET Literal /\ IsFiniteSet(set)
    <3>1. IsFiniteSet(others) /\ others \in SUBSET Literal
      BY <1>0, FS_Subset
    <3> HIDE DEF others
    <3> QED BY <1>1, <2>1, <3>1, FS_AddElement
  <2>4. Normal(set)
    <3>1. \A l \in set : l \in Literal /\ ((l \in r /\ l.name # n) \/ l = Is(n, v))
      BY <1>0, <1>1, <2>1
    <3>2. ASSUME NEW l \in set, NEW m \in set PROVE ~Contradict(l, m)
      <4>1. CASE l \in r /\ m \in r
        BY <1>0, <4>1 DEF Normal
      <4>2. CASE l.name # m.name
        BY <4>2 DEF Contradict
      <4>3. CASE l = m
        BY <3>1, <4>3 DEF Contradict, Literal
      <4> QED BY <1>1, <3>1, <4>1, <4>2, <4>3
    <3>3. ASSUME NEW l \in set, NEW m \in set, l.negative, m.name = l.name PROVE m.negative
      <4>1. l \in r /\ l.name # n
        BY <1>1, <3>1, <3>3
      <4>2. m \in r
        BY <1>1, <3>1, <3>3, <4>1
      <4> QED BY <1>0, <3>3, <4>1, <4>2 DEF Normal
    <3> QED BY <3>2, <3>3 DEF Normal
  <2>5. ASSUME NEW a \in Assignment
        PROVE  Agrees(a, set) <=> Agrees(a, r) /\ a[n] = v
    <3>1. Meets(a, Is(n, v)) <=> a[n] = v
      BY <1>1 DEF Meets
    <3>2. a[n] = v => \A l \in r : l.name = n => Meets(a, l)
      BY <2>2 DEF Meets
    <3>3. Agrees(a, set) <=> Agrees(a, others) /\ a[n] = v
      BY <2>1, <3>1 DEF Agrees
    <3>4. Agrees(a, r) <=> Agrees(a, others) /\ \A l \in r : l.name = n => Meets(a, l)
      BY DEF Agrees
    <3> QED BY <3>2, <3>3, <3>4
  <2>6. Binding(r, n, v) = "possible"
    BY <1>5, <2>2 DEF Binding
  <2>7. set \in Region
    BY <2>3, <2>4 DEF Region
  <2> HIDE DEF set
  <2>8. set = CopyAndSet(r, n, v)
    BY DEF set
  <2> QED BY <2>5, <2>6, <2>7, <2>8
<1> QED BY <1>2, <1>3, <1>4, <1>5

-----------------------------------------------------------------------------
(* The shortcut of a negation. *)

(* Where two regions overlap implies both.                                 *)
LEMMA IntersectionImplies ==
    ASSUME NEW r \in Region, NEW s \in Region, NEW t \in IntersectWith(r, s)
    PROVE  t \in Region /\ Implies(t, r) /\ Implies(t, s)
<1> DEFINE S == r \cup s
<1>1. /\ \A l, m \in S : ~Contradict(l, m)
      /\ t = {l \in S : l.negative => \A m \in S : m.name = l.name => m.negative}
  BY DEF IntersectWith, Normalized
<1>2. S \in SUBSET Literal
  BY DEF Region
<1> HIDE DEF S
<1>3. ASSUME NEW n \in S
      PROVE  \E l \in t : /\ l.name = n.name
                          /\ IF n.negative THEN l.negative = (l.value = n.value) ELSE l = n
  <2>1. CASE n \in t
    <3>1. n.negative \in BOOLEAN
      BY <1>2 DEF Literal
    <3> QED BY <2>1, <3>1
  <2>2. CASE n \notin t
    <3>1. PICK m \in S : m.name = n.name /\ ~m.negative /\ n.negative
      BY <1>1, <2>2
    <3>2. m \in t
      BY <1>1, <3>1
    <3>3. ~Contradict(m, n)
      BY <1>1
    <3>4. n.negative = TRUE /\ m.negative = FALSE
      BY <1>2, <3>1 DEF Literal
    <3>5. m.value # n.value
      BY <3>1, <3>3, <3>4 DEF Contradict
    <3> QED BY <3>1, <3>2, <3>4, <3>5
  <2> QED BY <2>1, <2>2
<1>4. \A n \in r \cup s : n \in S
  BY DEF S
<1>5. Implies(t, r) /\ Implies(t, s)
  BY <1>3, <1>4 DEF Implies
<1> QED BY <1>5, IntersectionIs

LEMMA SubtractImplies ==
    ASSUME NEW r \in Region, NEW s \in Region, NEW t \in Subtract(r, s)
    PROVE  t \in Region /\ Implies(t, r)
<1>1. CASE IntersectWith(r, s) = {}
  BY <1>1, ImpliesIsReflexive DEF Subtract
<1>2. CASE IntersectWith(r, s) # {}
  <2>1. PICK l \in s : t \in IntersectWith(r, {Negated(l)})
    BY <1>2 DEF Subtract, SimplifyUnion
  <2>2. l \in Literal
    BY DEF Region
  <2>3. {Negated(l)} \in Region
    BY <2>2, NegatedIs, LiteralIsRegion
  <2> QED BY <2>1, <2>3, IntersectionImplies
<1> QED BY <1>1, <1>2

(* No term is left, not even one without any assignments, of a region that *)
(* implies what is subtracted from it.                                     *)
LEMMA NothingLeft ==
    ASSUME NEW r \in Region, NEW s \in Region, Implies(r, s)
    PROVE  Subtract(r, s) = {}
<1>0. r \in SUBSET Literal /\ s \in SUBSET Literal /\ Normal(r) /\ Normal(s)
  BY DEF Region
<1>1. ASSUME NEW l \in s
      PROVE  \E m \in r : /\ m.name = l.name
                          /\ IF l.negative THEN m.negative = (m.value = l.value) ELSE m = l
  BY DEF Implies
<1>2. \A l \in r \cup s : l.negative \in BOOLEAN
  BY <1>0 DEF Literal
<1>3. ASSUME NEW l \in s, NEW k \in r PROVE ~Contradict(l, k) /\ ~Contradict(k, l)
  <2>1. PICK m \in r : /\ m.name = l.name
                       /\ IF l.negative THEN m.negative = (m.value = l.value) ELSE m = l
    BY <1>1
  <2>2. ~Contradict(m, k) /\ ~Contradict(k, m)
    BY <1>0 DEF Normal
  <2>3. CASE ~l.negative
    BY <2>1, <2>2, <2>3
  <2>4. CASE l.negative
    <3>1. ~Contradict(l, k)
      BY <2>4 DEF Contradict
    <3>2. ~Contradict(k, l)
      <4> SUFFICES ASSUME k.name = l.name, ~k.negative, k.value = l.value PROVE FALSE
        BY <1>2, <2>4 DEF Contradict
      <4>1. m.negative = (m.value = l.value) /\ m.name = k.name
        BY <2>1, <2>4
      <4> QED BY <1>2, <2>2, <4>1 DEF Contradict
    <3> QED BY <3>1, <3>2
  <2> QED BY <2>3, <2>4
<1>4. IntersectWith(r, s) # {}
  <2>1. \A l, m \in r \cup s : ~Contradict(l, m)
    BY <1>0, <1>3 DEF Normal
  <2> QED BY <2>1 DEF IntersectWith, Normalized
<1>5. ASSUME NEW l \in s PROVE IntersectWith(r, {Negated(l)}) = {}
  <2>1. PICK m \in r : /\ m.name = l.name
                       /\ IF l.negative THEN m.negative = (m.value = l.value) ELSE m = l
    BY <1>1
  <2>2. /\ Negated(l).name = l.name /\ Negated(l).value = l.value
        /\ Negated(l).negative = ~l.negative
    BY <1>0, NegatedIs
  <2>3. Contradict(m, Negated(l)) \/ Contradict(Negated(l), m)
    <3>1. CASE l.negative
      BY <1>2, <2>1, <2>2, <3>1 DEF Contradict
    <3>2. CASE ~l.negative
      BY <1>2, <2>1, <2>2, <3>2 DEF Contradict
    <3> QED BY <3>1, <3>2
  <2> QED BY <2>1, <2>3 DEF IntersectWith, Normalized
<1>6. UNION {IntersectWith(r, {Negated(l)}) : l \in s} = {}
  BY <1>5
<1> QED BY <1>4, <1>6 DEF Subtract, SimplifyUnion

(* A match of its operand that narrows no name refutes a negation: what    *)
(* the code answers at once is what subtracting all matches, in whatever   *)
(* order, would come to (MatchUnless).                                     *)
THEOREM RefutedAtOnce ==
    ASSUME NEW r \in Region, NEW names, NEW regions \in Seq(Region),
           RestrictedTo(r, names) \in ToSet(regions)
    PROVE  SubtractAll({r}, regions) = {}
<1>0. PICK size \in Nat : size = Len(regions)
  OBVIOUS
<1>1. \A i \in 1 .. size : regions[i] \in Region
  BY <1>0
<1>2. PICK last \in 1 .. size : regions[last] = RestrictedTo(r, names)
  BY <1>0 DEF ToSet
<1> DEFINE rest == Remainders({r}, regions)
<1>3. rest[0] = {r} /\ \A n \in 0 .. size - 1 : rest[n + 1] = SubtractFromUnion(rest[n], regions[n + 1])
  BY <1>0, RemaindersDefined
<1>4. SubtractAll({r}, regions) = rest[size]
  BY <1>0 DEF SubtractAll
<1> HIDE DEF rest
<1> DEFINE Part(n) == \A t \in rest[n] : t \in Region /\ Implies(t, r)
           N == {n \in 0 .. size : Part(n) /\ (n >= last => rest[n] = {})}
<1>5. 0 \in N
  BY <1>3, ImpliesIsReflexive
<1>6. ASSUME NEW n \in 0 .. size - 1, n \in N PROVE n + 1 \in N
  <2>1. n + 1 \in 1 .. size /\ n + 1 \in 0 .. size /\ regions[n + 1] \in Region
    BY <1>1
  <2>2. Part(n) /\ (n >= last => rest[n] = {})
    BY <1>6
  <2>3. rest[n + 1] = SubtractFromUnion(rest[n], regions[n + 1])
    BY <1>3
  <2>4. ASSUME NEW u \in rest[n + 1] PROVE \E t \in rest[n] : u \in Subtract(t, regions[n + 1])
    BY <2>3, <2>4 DEF SubtractFromUnion, SimplifyUnion
  <2>5. ASSUME NEW u \in rest[n + 1] PROVE u \in Region /\ Implies(u, r)
    <3>1. PICK t \in rest[n] : u \in Subtract(t, regions[n + 1])
      BY <2>4
    <3>2. t \in Region /\ Implies(t, r)
      BY <2>2
    <3>3. u \in Region /\ Implies(u, t)
      BY <2>1, <3>1, <3>2, SubtractImplies
    <3> QED BY <3>2, <3>3, ImpliesIsTransitive
  <2>6. ASSUME n + 1 >= last, NEW u \in rest[n + 1] PROVE FALSE
    <3>1. PICK t \in rest[n] : u \in Subtract(t, regions[n + 1])
      BY <2>4, <2>6
    <3>2. n + 1 = last
      BY <2>2, <2>6, <3>1
    <3>3. t \in Region /\ Implies(t, r)
      BY <2>2
    <3>4. RestrictedTo(r, names) \in Region /\ Implies(r, RestrictedTo(r, names))
      <4>1. Implies(r, r) /\ RestrictedTo(r, names) \in SUBSET r
        BY ImpliesIsReflexive DEF RestrictedTo
      <4> QED BY <4>1, RestrictedToIs DEF Implies
    <3>5. Subtract(t, regions[n + 1]) = {}
      BY <1>2, <3>2, <3>3, <3>4, ImpliesIsTransitive, NothingLeft
    <3> QED BY <3>1, <3>5
  <2>7. Part(n + 1)
    BY <2>5
  <2>8. n + 1 >= last => rest[n + 1] = {}
    BY <2>6
  <2> HIDE DEF Part
  <2> QED BY <2>1, <2>7, <2>8
<1>7. \A n \in 0 .. size : n \in N
  <2> HIDE DEF N
  <2> QED BY <1>5, <1>6, UpTo
<1> QED BY <1>4, <1>7

-----------------------------------------------------------------------------
(* Positions, and what is observed of a change. *)

StartPosition == Position \cup {EveryAddedVertex, EveryAddedEdge}
                   \cup {AbsentPosition(v) : v \in Vertex}

LEMMA SpecialKinds ==
    /\ EveryAddedVertex[1] \notin {"core", "orbit"} /\ EveryAddedEdge[1] \notin {"core", "orbit"}
    /\ \A v : AbsentPosition(v)[1] \notin {"core", "orbit"}
BY DEF EveryAddedVertex, EveryAddedEdge, AbsentPosition

LEMMA PositionKinds ==
    /\ \A at \in Position : at[1] \in {"core", "orbit"}
    /\ \A at \in StartPosition : at[1] \in {"core", "orbit"} => at \in Position
    /\ \A v \in Vertex : Core(v) \in Position /\ Orbit(v) \in Position
<1>1. \A at \in StartPosition : at[1] \in {"core", "orbit"} => at \in Position
  BY SpecialKinds DEF StartPosition
<1> QED BY <1>1 DEF Position, Core, Orbit

(* Only special start positions are exchanged for others. *)
LEMMA PositionsOfIs ==
    ASSUME NEW d, NEW c
    PROVE  /\ PositionsOf(EveryAddedVertex, d, c) = {Core(v) : v \in AddedVertices(d, c)}
           /\ PositionsOf(EveryAddedEdge, d, c)
                = {Orbit(v) : v \in UNION {{e[1], e[3]} : e \in AddedEdges(d, c)}}
           /\ \A v : PositionsOf(AbsentPosition(v), d, c) = {}
           /\ \A at \in Position : PositionsOf(at, d, c) = {at}
<1>1. /\ EveryAddedVertex # EveryAddedEdge
      /\ EveryAddedVertex[1] # "absent" /\ EveryAddedEdge[1] # "absent"
  BY DEF EveryAddedVertex, EveryAddedEdge
<1>2. \A v : /\ AbsentPosition(v) # EveryAddedVertex /\ AbsentPosition(v) # EveryAddedEdge
             /\ AbsentPosition(v)[1] = "absent"
  BY DEF EveryAddedVertex, EveryAddedEdge, AbsentPosition
<1>3. \A at \in Position : at # EveryAddedVertex /\ at # EveryAddedEdge /\ at[1] # "absent"
  BY SpecialKinds, PositionKinds
<1>4. PositionsOf(EveryAddedVertex, d, c) = {Core(v) : v \in AddedVertices(d, c)}
  BY <1>1 DEF PositionsOf
<1>5. PositionsOf(EveryAddedEdge, d, c) = {Orbit(v) : v \in UNION {{e[1], e[3]} : e \in AddedEdges(d, c)}}
  BY <1>1 DEF PositionsOf
<1>6. \A v : PositionsOf(AbsentPosition(v), d, c) = {}
  BY <1>2 DEF PositionsOf
<1>7. \A at \in Position : PositionsOf(at, d, c) = {at}
  BY <1>3 DEF PositionsOf
<1> QED BY <1>4, <1>5, <1>6, <1>7

(* What has changed between graphs is of the graphs. *)
LEMMA DifferenceOfGraphs ==
    ASSUME NEW g \in GraphState, NEW h \in GraphState
    PROVE  LET c == Difference(g, h)
           IN  /\ c.addedVertices = h.vertices \ g.vertices /\ c.removedVertices = g.vertices \ h.vertices
               /\ c.addedEdges = h.edges \ g.edges /\ c.removedEdges = g.edges \ h.edges
               /\ c.addedVertices \subseteq Vertex /\ c.removedVertices \subseteq Vertex
               /\ c.addedEdges \subseteq Edge /\ c.removedEdges \subseteq Edge
               /\ \A e \in c.addedEdges : {e[1], e[3]} \subseteq Vertex
BY DEF Difference, GraphState

LEMMA GraphStateIs ==
    \A g : g \in GraphState <=>
              /\ g = [vertices |-> g.vertices, edges |-> g.edges]
              /\ g.vertices \subseteq Vertex /\ g.edges \subseteq Edge
              /\ \A e \in g.edges : e[1] \in g.vertices /\ e[3] \in g.vertices
BY DEF GraphState

LEMMA ObservationsAre ==
    ASSUME NEW c, NEW d
    PROVE  d \in Observations(c) <=>
              \/ \E v \in c.addedVertices : d \in {NewVertex, NewVertexOfType(TypeOf[v])}
              \/ \E v \in c.addedVertices \cup c.removedVertices : d = ParticularVertex(v)
              \/ \E e \in c.addedEdges : d \in {NewEdge, NewEdgeWithLabel(e[2])}
              \/ \E e \in c.addedEdges \cup c.removedEdges :
                    d \in {EdgeFrom(e[1]), EdgeFromWithLabel(e[1], e[2]),
                           EdgeTo(e[3]), EdgeToWithLabel(e[3], e[2]), ParticularEdge(e)}
<1> DEFINE V == UNION {{NewVertex, NewVertexOfType(TypeOf[v])} : v \in c.addedVertices}
           P == {ParticularVertex(v) : v \in c.addedVertices \cup c.removedVertices}
           E == UNION {{NewEdge, NewEdgeWithLabel(e[2])} : e \in c.addedEdges}
           A(e) == {EdgeFrom(e[1]), EdgeFromWithLabel(e[1], e[2]),
                    EdgeTo(e[3]), EdgeToWithLabel(e[3], e[2]), ParticularEdge(e)}
           Q == UNION {A(e) : e \in c.addedEdges \cup c.removedEdges}
<1>1. Observations(c) = V \cup P \cup E \cup Q
  BY DEF Observations
<1>2. d \in V <=> \E v \in c.addedVertices : d \in {NewVertex, NewVertexOfType(TypeOf[v])}
  OBVIOUS
<1>3. d \in P <=> \E v \in c.addedVertices \cup c.removedVertices : d = ParticularVertex(v)
  OBVIOUS
<1>4. d \in E <=> \E e \in c.addedEdges : d \in {NewEdge, NewEdgeWithLabel(e[2])}
  OBVIOUS
<1>5. d \in Q <=> \E e \in c.addedEdges \cup c.removedEdges : d \in A(e)
  <2> HIDE DEF A
  <2> QED OBVIOUS
<1> HIDE DEF V, P, E, Q
<1> QED BY <1>1, <1>2, <1>3, <1>4, <1>5

LEMMA NothingObserved ==
    ASSUME NEW g \in GraphState
    PROVE  Observations(Difference(g, g)) = {}
<1> DEFINE c == Difference(g, g)
<1>1. c.addedVertices = {} /\ c.removedVertices = {} /\ c.addedEdges = {} /\ c.removedEdges = {}
  BY DEF Difference
<1> HIDE DEF c
<1>2. \A d : d \notin Observations(c)
  BY <1>1, ObservationsAre
<1> QED BY <1>2 DEF c

LEMMA StartsInIs ==
    ASSUME NEW deps, NEW s
    PROVE  s \in StartsIn(deps) <=> \E d \in deps : d[1] = "NestedExpressionSubgraph" /\ d[2] = s
BY DEF StartsIn

LEMMA NestedSubgraphsIs ==
    ASSUME NEW s
    PROVE  NestedSubgraphs(s)[1] = "NestedExpressionSubgraph" /\ NestedSubgraphs(s)[2] = s
BY DEF NestedSubgraphs

-----------------------------------------------------------------------------
(* What is found in turn. *)

(* The elements of a finite set one after the other. *)
LEMMA SetToSeqIs ==
    ASSUME NEW S, IsFiniteSet(S)
    PROVE  \E n \in Nat : SetToSeq(S) \in [1 .. n -> S] /\ Len(SetToSeq(S)) = n
<1>1. PICK n \in Nat : n = Cardinality(S)
  BY FS_CardinalityType
<1>2. \E f \in [1 .. n -> S] : IsInjective(f)
  <2>1. PICK f : f \in Bijection(1 .. n, S)
    BY <1>1, FS_CardinalityType DEF ExistsBijection
  <2>2. f \in [1 .. n -> S] /\ IsInjective(f)
    BY <2>1 DEF Bijection, Injection
  <2> QED BY <2>2
<1>3. SetToSeq(S) \in [1 .. n -> S]
  BY <1>1, <1>2 DEF SetToSeq
<1>4. \A f \in [1 .. n -> S] : Len(f) = n
  OBVIOUS
<1> QED BY <1>3, <1>4

LEMMA LengthIs ==
    ASSUME NEW n \in Nat, NEW s, s = [i \in 1 .. n |-> s[i]]
    PROVE  Len(s) = n
<1> DEFINE S == {s[i] : i \in 1 .. n}
<1>1. s \in [1 .. n -> S]
  OBVIOUS
<1>2. \A f \in [1 .. n -> S] : Len(f) = n
  OBVIOUS
<1> QED BY <1>1, <1>2

(* InTurn is what it is defined to be. *)
OneMore(first, before, next) ==
    IF first /\ before.found # {}
      THEN before
      ELSE Found(before.found \cup next.found, before.deps \cup next.deps)

InTurnSofar(first, size, results, sofar) ==
    /\ InTurn(first, results) = sofar[size]
    /\ sofar[0] = Nothing
    /\ \A n \in 0 .. size - 1 : sofar[n + 1] = OneMore(first, sofar[n], results[n + 1])

LEMMA InTurnDefined ==
    ASSUME NEW first, NEW size \in Nat, NEW results, Len(results) = size
    PROVE  \E sofar : InTurnSofar(first, size, results, sofar)
<1> DEFINE Obeys(f, m) == f = [n \in 0 .. m |-> IF n = 0 THEN Nothing
                                                  ELSE OneMore(first, f[n - 1], results[n])]
           T == {m \in 0 .. size : \E f : Obeys(f, m)}
<1>1. 0 \in T
  <2> DEFINE f == [n \in 0 .. 0 |-> Nothing]
  <2>1. Obeys(f, 0)
    OBVIOUS
  <2> HIDE DEF f, Obeys
  <2> QED BY <2>1
<1>2. ASSUME NEW m \in 0 .. size - 1, m \in T PROVE m + 1 \in T
  <2>1. PICK f : Obeys(f, m)
    BY <1>2
  <2> DEFINE h == [n \in 0 .. m + 1 |-> IF n = m + 1 THEN OneMore(first, f[m], results[m + 1]) ELSE f[n]]
  <2>2. ASSUME NEW n \in 0 .. m + 1
        PROVE  h[n] = IF n = 0 THEN Nothing ELSE OneMore(first, h[n - 1], results[n])
    <3>1. CASE n = m + 1
      <4>1. h[n - 1] = f[m] /\ n # 0
        BY <3>1
      <4>2. h[n] = OneMore(first, f[m], results[n])
        BY <3>1
      <4> QED BY <4>1, <4>2
    <3>2. CASE n # m + 1
      <4>1. n \in 0 .. m /\ h[n] = f[n]
        BY <3>2
      <4>2. n # 0 => h[n - 1] = f[n - 1]
        BY <4>1
      <4>3. f[n] = IF n = 0 THEN Nothing ELSE OneMore(first, f[n - 1], results[n])
        BY <2>1, <4>1
      <4> QED BY <4>1, <4>2, <4>3
    <3> QED BY <3>1, <3>2
  <2>3. Obeys(h, m + 1)
    BY <2>2
  <2> HIDE DEF h, Obeys
  <2> QED BY <2>3
<1>3. size \in T
  <2> HIDE DEF T, Obeys
  <2>1. \A n \in 0 .. size : n \in T
    BY <1>1, <1>2, UpTo
  <2> QED BY <2>1
<1>4. PICK sofar : Obeys(sofar, size) /\ InTurn(first, results) = sofar[size]
  <2>1. \E f : Obeys(f, size)
    BY <1>3
  <2>2. InTurn(first, results) = (CHOOSE f : Obeys(f, size))[size]
    BY DEF InTurn, OneMore
  <2> QED BY <2>1, <2>2
<1>5. sofar[0] = Nothing
  BY <1>4
<1>6. ASSUME NEW n \in 0 .. size - 1
      PROVE  sofar[n + 1] = OneMore(first, sofar[n], results[n + 1])
  <2>1. n + 1 \in 0 .. size /\ n + 1 # 0 /\ (n + 1) - 1 = n
    OBVIOUS
  <2> QED BY <1>4, <2>1
<1> QED BY <1>4, <1>5, <1>6 DEF InTurnSofar

-----------------------------------------------------------------------------
(* Matching from one position in two graphs. *)

(* Two contexts with the same start position, but different graphs and     *)
(* vertices with an ID.                                                    *)
Views(c, e) ==
    /\ c.graph \in GraphState /\ c.ids \in Ids(c.graph)
    /\ e.graph \in GraphState /\ e.ids \in Ids(e.graph)
    /\ c.origin \in Position /\ e.origin = c.origin
    /\ e.first = c.first

Seen(c, e) == Observations(Difference(c.graph, e.graph))

(* Positions that matching may reach in both of them.                      *)
Steady(c, e) ==
    {p \in Position : \/ p[1] = "orbit"
                      \/ p[2] \in c.graph.vertices \cap e.graph.vertices
                      \/ p = c.origin /\ p[2] \notin e.graph.vertices \ c.graph.vertices}

Positive == {refs \in SUBSET Literal : ~HasNegatives(refs)}

(* What was found is found again if none of its deps is seen.              *)
FoundAgain(c, e, r, s) ==
    r.deps \cap Seen(c, e) = {} =>
        /\ s.found = r.found
        /\ IsFiniteSet(r.found)
        /\ \A d \in r.found : /\ d.refs \in Positive /\ d.ends \subseteq Steady(c, e)
                              /\ IsFiniteSet(d.ends)
        /\ \A x \in r.deps : x[1] # "NestedExpressionSubgraph"

SameRest(c, e, R, S) == \A at \in Steady(c, e), refs \in Positive : FoundAgain(c, e, R[at][refs], S[at][refs])

LEMMA FoundIs ==
    ASSUME NEW drafts, NEW deps
    PROVE  Found(drafts, deps).found = drafts /\ Found(drafts, deps).deps = deps
BY DEF Found

LEMMA NothingFoundAgain ==
    ASSUME NEW c, NEW e PROVE FoundAgain(c, e, Nothing, Nothing)
BY FS_EmptySet, FoundIs DEF FoundAgain, Nothing

LEMMA AlsoFoundAgain ==
    ASSUME NEW c, NEW e, NEW r, NEW s, NEW deps, NEW others,
           deps \cap Seen(c, e) = {} => FoundAgain(c, e, r, s),
           \A x \in deps : x[1] # "NestedExpressionSubgraph"
    PROVE  FoundAgain(c, e, Also(deps, r), Also(others, s))
<1>1. /\ Also(deps, r).found = r.found /\ Also(deps, r).deps = deps \cup r.deps
      /\ Also(others, s).found = s.found
  BY FoundIs DEF Also
<1> QED BY <1>1 DEF FoundAgain

LEMMA WithFoundAgain ==
    ASSUME NEW c, NEW e, NEW r, NEW s, NEW vertices, NEW edges, FoundAgain(c, e, r, s)
    PROVE  FoundAgain(c, e, With(vertices, edges, r), With(vertices, edges, s))
<1> DEFINE plus(d) == [d EXCEPT !.vertices = @ \cup vertices, !.edges = @ \cup edges]
<1>1. /\ With(vertices, edges, r).found = {plus(d) : d \in r.found}
      /\ With(vertices, edges, s).found = {plus(d) : d \in s.found}
      /\ With(vertices, edges, r).deps = r.deps
  BY FoundIs DEF With
<1>2. \A d : plus(d).refs = d.refs /\ plus(d).ends = d.ends
  OBVIOUS
<1>3. ASSUME IsFiniteSet(r.found) PROVE IsFiniteSet({plus(d) : d \in r.found})
  <2> DEFINE f == [d \in r.found |-> plus(d)]
  <2>1. IsFiniteSet({f[d] : d \in r.found})
    <3> HIDE DEF plus
    <3> QED BY <1>3, FiniteImage
  <2>2. {f[d] : d \in r.found} = {plus(d) : d \in r.found}
    <3> HIDE DEF plus
    <3> QED OBVIOUS
  <2> QED BY <2>1, <2>2
<1> HIDE DEF plus
<1> QED BY <1>1, <1>2, <1>3 DEF FoundAgain

LEMMA OneMoreFoundAgain ==
    ASSUME NEW c, NEW e, NEW first, NEW r, NEW s, NEW x, NEW y,
           FoundAgain(c, e, r, s), FoundAgain(c, e, x, y)
    PROVE  FoundAgain(c, e, OneMore(first, r, x), OneMore(first, s, y))
<1>1. CASE first /\ r.found # {}
  <2>1. OneMore(first, r, x) = r
    BY <1>1 DEF OneMore
  <2>2. r.deps \cap Seen(c, e) = {} => OneMore(first, s, y) = s
    BY <1>1 DEF OneMore, FoundAgain
  <2> QED BY <2>1, <2>2 DEF FoundAgain
<1>2. CASE ~(first /\ r.found # {})
  <2>1. /\ OneMore(first, r, x).found = r.found \cup x.found
        /\ OneMore(first, r, x).deps = r.deps \cup x.deps
    BY <1>2, FoundIs DEF OneMore
  <2>2. r.deps \cap Seen(c, e) = {} => OneMore(first, s, y).found = s.found \cup y.found
    BY <1>2, FoundIs DEF OneMore, FoundAgain
  <2>3. IsFiniteSet(r.found) /\ IsFiniteSet(x.found) => IsFiniteSet(r.found \cup x.found)
    BY FS_Union
  <2> QED BY <2>1, <2>2, <2>3 DEF FoundAgain
<1> QED BY <1>1, <1>2

LEMMA InTurnFoundAgain ==
    ASSUME NEW c, NEW e, NEW first, NEW size \in Nat, NEW R, NEW S,
           Len(R) = size, Len(S) = size,
           \A i \in 1 .. size : FoundAgain(c, e, R[i], S[i])
    PROVE  FoundAgain(c, e, InTurn(first, R), InTurn(first, S))
<1>1. PICK a : InTurnSofar(first, size, R, a)
  BY InTurnDefined
<1>2. PICK b : InTurnSofar(first, size, S, b)
  BY InTurnDefined
<1> DEFINE N == {n \in 0 .. size : FoundAgain(c, e, a[n], b[n])}
<1>3. 0 \in N
  BY <1>1, <1>2, NothingFoundAgain DEF InTurnSofar
<1>4. ASSUME NEW n \in 0 .. size - 1, n \in N PROVE n + 1 \in N
  <2>1. n + 1 \in 1 .. size /\ n + 1 \in 0 .. size
    OBVIOUS
  <2>2. FoundAgain(c, e, OneMore(first, a[n], R[n + 1]), OneMore(first, b[n], S[n + 1]))
    BY <1>4, <2>1, OneMoreFoundAgain
  <2> QED BY <1>1, <1>2, <2>1, <2>2 DEF InTurnSofar
<1>5. \A n \in 0 .. size : n \in N
  <2> HIDE DEF N
  <2> QED BY <1>3, <1>4, UpTo
<1> QED BY <1>1, <1>2, <1>5 DEF InTurnSofar

LEMMA InTurnFinds ==
    ASSUME NEW first, NEW size \in Nat, NEW R, Len(R) = size, InTurn(first, R).found # {}
    PROVE  \E i \in 1 .. size : R[i].found # {}
<1>1. PICK a : InTurnSofar(first, size, R, a)
  BY InTurnDefined
<1>2. SUFFICES ASSUME \A i \in 1 .. size : R[i].found = {} PROVE FALSE
  OBVIOUS
<1> DEFINE N == {n \in 0 .. size : a[n].found = {}}
<1>3. 0 \in N
  BY <1>1, FoundIs DEF Nothing, InTurnSofar
<1>4. ASSUME NEW n \in 0 .. size - 1, n \in N PROVE n + 1 \in N
  <2>1. n + 1 \in 1 .. size /\ n + 1 \in 0 .. size
    OBVIOUS
  <2>2. OneMore(first, a[n], R[n + 1]).found = {}
    BY <1>2, <1>4, <2>1, FoundIs DEF OneMore
  <2> QED BY <1>1, <2>1, <2>2 DEF InTurnSofar
<1>5. \A n \in 0 .. size : n \in N
  <2> HIDE DEF N
  <2> QED BY <1>3, <1>4, UpTo
<1> QED BY <1>1, <1>5 DEF InTurnSofar

LEMMA WithFinds ==
    ASSUME NEW vertices, NEW edges, NEW r
    PROVE  With(vertices, edges, r).found # {} => r.found # {}
<1> DEFINE plus(d) == [d EXCEPT !.vertices = @ \cup vertices, !.edges = @ \cup edges]
<1>1. With(vertices, edges, r).found = {plus(d) : d \in r.found}
  BY FoundIs DEF With
<1> HIDE DEF plus
<1> QED BY <1>1

LEMMA AlsoFinds ==
    ASSUME NEW deps, NEW r
    PROVE  Also(deps, r).found = r.found
BY FoundIs DEF Also

-----------------------------------------------------------------------------
(* The edges by which an edge may be followed. *)

LEMMA ViewsSee ==
    ASSUME NEW c, NEW e, Views(c, e)
    PROVE  /\ \A f : ~(f \in c.graph.edges <=> f \in e.graph.edges) =>
                  {EdgeFrom(f[1]), EdgeFromWithLabel(f[1], f[2]), EdgeTo(f[3]),
                   EdgeToWithLabel(f[3], f[2]), ParticularEdge(f)} \subseteq Seen(c, e)
           /\ \A v : ~(v \in c.graph.vertices <=> v \in e.graph.vertices) =>
                  ParticularVertex(v) \in Seen(c, e)
<1> DEFINE x == Difference(c.graph, e.graph)
<1>1. /\ x.addedVertices = e.graph.vertices \ c.graph.vertices
      /\ x.removedVertices = c.graph.vertices \ e.graph.vertices
      /\ x.addedEdges = e.graph.edges \ c.graph.edges
      /\ x.removedEdges = c.graph.edges \ e.graph.edges
  BY DifferenceOfGraphs DEF Views
<1> HIDE DEF x
<1>2. ASSUME NEW f, ~(f \in c.graph.edges <=> f \in e.graph.edges), 
             NEW d \in {EdgeFrom(f[1]), EdgeFromWithLabel(f[1], f[2]), EdgeTo(f[3]),
                        EdgeToWithLabel(f[3], f[2]), ParticularEdge(f)}
      PROVE  d \in Observations(x)
  <2>1. f \in x.addedEdges \cup x.removedEdges
    BY <1>1, <1>2
  <2> QED BY <1>2, <2>1, ObservationsAre
<1>3. ASSUME NEW v, ~(v \in c.graph.vertices <=> v \in e.graph.vertices)
      PROVE  ParticularVertex(v) \in Observations(x)
  <2>1. v \in x.addedVertices \cup x.removedVertices
    BY <1>1, <1>3
  <2> QED BY <2>1, ObservationsAre
<1> QED BY <1>2, <1>3 DEF Seen, x

LEMMA EdgesOf ==
    ASSUME NEW g \in GraphState
    PROVE  /\ IsFiniteSet(g.edges) /\ IsFiniteSet(g.vertices) /\ g.vertices \subseteq Vertex
           /\ \A f \in g.edges : /\ f[1] \in g.vertices /\ f[3] \in g.vertices
                                 /\ f[2] \in Label /\ f = <<f[1], f[2], f[3]>>
<1>1. /\ g.edges \subseteq Edge /\ g.vertices \subseteq Vertex
      /\ \A f \in g.edges : f[1] \in g.vertices /\ f[3] \in g.vertices
  BY GraphStateIs
<1>2. IsFiniteSet(g.edges) /\ IsFiniteSet(g.vertices)
  BY <1>1, ObserverAssumption, VertexAssumption, FS_Subset
<1>3. \A f \in Edge : f[2] \in Label /\ f = <<f[1], f[2], f[3]>>
  BY ObserverAssumption
<1> QED BY <1>1, <1>2, <1>3

NoNested(deps) == \A x \in deps : x[1] # "NestedExpressionSubgraph"

LEMMA Kinds ==
    /\ \A v, l : /\ EdgeFrom(v)[1] # "NestedExpressionSubgraph"
                 /\ EdgeTo(v)[1] # "NestedExpressionSubgraph"
                 /\ EdgeFromWithLabel(v, l)[1] # "NestedExpressionSubgraph"
                 /\ EdgeToWithLabel(v, l)[1] # "NestedExpressionSubgraph"
                 /\ ParticularVertex(v)[1] # "NestedExpressionSubgraph"
                 /\ ParticularEdge(v)[1] # "NestedExpressionSubgraph"
BY DEF EdgeFrom, EdgeTo, EdgeFromWithLabel, EdgeToWithLabel, ParticularVertex, ParticularEdge

LEMMA EdgesAgain ==
    ASSUME NEW c, NEW e, Views(c, e), NEW edge, NEW v
    PROVE  /\ OutDeps(edge, v) \cap Seen(c, e) = {} => Out(e, edge, v) = Out(c, edge, v)
           /\ IntoDeps(edge, v) \cap Seen(c, e) = {} => Into(e, edge, v) = Into(c, edge, v)
           /\ NoNested(OutDeps(edge, v)) /\ NoNested(IntoDeps(edge, v))
<1>1. ASSUME OutDeps(edge, v) \cap Seen(c, e) = {} PROVE Out(e, edge, v) = Out(c, edge, v)
  <2>1. SUFFICES ASSUME NEW f, ~(f \in Out(c, edge, v) <=> f \in Out(e, edge, v)) PROVE FALSE
    OBVIOUS
  <2>2. /\ ~(f \in c.graph.edges <=> f \in e.graph.edges)
        /\ edge.forward = Anything \/ f[2] \in edge.forward
        /\ f[1] = v
    BY <2>1 DEF Out, Labelled
  <2>3. \E d \in OutDeps(edge, v) : d \in {EdgeFrom(f[1]), EdgeFromWithLabel(f[1], f[2])}
    BY <2>2 DEF OutDeps
  <2> QED BY <1>1, <2>2, <2>3, ViewsSee
<1>2. ASSUME IntoDeps(edge, v) \cap Seen(c, e) = {} PROVE Into(e, edge, v) = Into(c, edge, v)
  <2>1. SUFFICES ASSUME NEW f, ~(f \in Into(c, edge, v) <=> f \in Into(e, edge, v)) PROVE FALSE
    OBVIOUS
  <2>2. /\ ~(f \in c.graph.edges <=> f \in e.graph.edges)
        /\ edge.backward = Anything \/ f[2] \in edge.backward
        /\ f[3] = v
    BY <2>1 DEF Into, Labelled
  <2>3. \E d \in IntoDeps(edge, v) : d \in {EdgeTo(f[3]), EdgeToWithLabel(f[3], f[2])}
    BY <2>2 DEF IntoDeps
  <2> QED BY <1>2, <2>2, <2>3, ViewsSee
<1>3. NoNested(OutDeps(edge, v)) /\ NoNested(IntoDeps(edge, v))
  BY Kinds DEF OutDeps, IntoDeps, NoNested
<1> QED BY <1>1, <1>2, <1>3

Ahead(c, edge, v)  == [deps |-> OutDeps(edge, v),
                       steps |-> {[edges |-> {f}, to |-> f[3]] : f \in Out(c, edge, v)}]
Behind(c, edge, v) == [deps |-> IntoDeps(edge, v),
                       steps |-> {[edges |-> {f}, to |-> f[1]] : f \in Into(c, edge, v)}]
Pairs(edge, v, S)  == [deps |-> OutDeps(edge, v) \cup IntoDeps(edge, v),
                       steps |-> {[edges |-> {p[1], p[2]}, to |-> p[1][3]] : p \in S}]
Couples(c, edge, v) ==
    {p \in Out(c, edge, v) \X Into(c, edge, v) :
        p[1][3] = p[2][1] /\ (edge.direction = "both symmetric" => p[1][2] = p[2][2])}

LEMMA WaysAre ==
    ASSUME NEW c, NEW edge \in EdgeItem, NEW v
    PROVE  \/ edge.direction = "forward" /\ Ways(c, edge, v) = <<Ahead(c, edge, v)>>
           \/ edge.direction = "backward" /\ Ways(c, edge, v) = <<Behind(c, edge, v)>>
           \/ edge.direction = "any" /\ Ways(c, edge, v) = <<Ahead(c, edge, v), Behind(c, edge, v)>>
           \/ /\ edge.direction \in {"both", "both symmetric"}
              /\ Ways(c, edge, v) = <<Pairs(edge, v, Couples(c, edge, v))>>
<1>1. edge.direction \in {"forward", "backward", "any", "both", "both symmetric"}
  BY DEF EdgeItem
<1>2. CASE edge.direction = "forward"
  BY <1>2 DEF Ways, Ahead
<1>3. CASE edge.direction = "backward"
  BY <1>3 DEF Ways, Behind
<1>4. CASE edge.direction = "any"
  BY <1>4 DEF Ways, Ahead, Behind
<1>5. CASE edge.direction = "both"
  <2>1. Couples(c, edge, v) = {p \in Out(c, edge, v) \X Into(c, edge, v) : p[1][3] = p[2][1]}
    BY <1>5 DEF Couples
  <2> QED BY <1>5, <2>1 DEF Ways, Pairs
<1>6. CASE edge.direction = "both symmetric"
  <2>1. Couples(c, edge, v) = {p \in Out(c, edge, v) \X Into(c, edge, v) :
                                  p[1][3] = p[2][1] /\ p[1][2] = p[2][2]}
    BY <1>6 DEF Couples
  <2> QED BY <1>6, <2>1 DEF Ways, Pairs
<1> QED BY <1>1, <1>2, <1>3, <1>4, <1>5, <1>6

(* Steps that lead to vertices of a graph. *)
StepsIn(g, way) ==
    /\ IsFiniteSet(way.steps)
    /\ \A s \in way.steps : s.to \in g.vertices

(* A way is the same if its deps are not seen. *)
SameWay(c, e, w, u) ==
    /\ u.deps = w.deps /\ NoNested(w.deps)
    /\ StepsIn(c.graph, w) /\ StepsIn(e.graph, u)
    /\ w.deps \cap Seen(c, e) = {} => u.steps = w.steps

LEMMA AheadIs ==
    ASSUME NEW c, c.graph \in GraphState, NEW edge, NEW v
    PROVE  StepsIn(c.graph, Ahead(c, edge, v))
<1> DEFINE S == Out(c, edge, v)
           F == [f \in S |-> [edges |-> {f}, to |-> f[3]]]
<1>1. IsFiniteSet(S) /\ \A f \in S : f \in c.graph.edges
  <2>1. S \in SUBSET c.graph.edges
    BY DEF Out, Labelled
  <2> QED BY <2>1, EdgesOf, FS_Subset
<1>2. IsFiniteSet({F[f] : f \in S})
  <2> HIDE DEF S
  <2> QED BY <1>1, FiniteImage
<1>3. Ahead(c, edge, v).steps = {F[f] : f \in S}
  BY DEF Ahead
<1>4. \A f \in S : F[f].to \in c.graph.vertices
  BY <1>1, EdgesOf
<1> HIDE DEF F, S
<1> QED BY <1>2, <1>3, <1>4 DEF StepsIn

LEMMA BehindIs ==
    ASSUME NEW c, c.graph \in GraphState, NEW edge, NEW v
    PROVE  StepsIn(c.graph, Behind(c, edge, v))
<1> DEFINE S == Into(c, edge, v)
           F == [f \in S |-> [edges |-> {f}, to |-> f[1]]]
<1>1. IsFiniteSet(S) /\ \A f \in S : f \in c.graph.edges
  <2>1. S \in SUBSET c.graph.edges
    BY DEF Into, Labelled
  <2> QED BY <2>1, EdgesOf, FS_Subset
<1>2. IsFiniteSet({F[f] : f \in S})
  <2> HIDE DEF S
  <2> QED BY <1>1, FiniteImage
<1>3. Behind(c, edge, v).steps = {F[f] : f \in S}
  BY DEF Behind
<1>4. \A f \in S : F[f].to \in c.graph.vertices
  BY <1>1, EdgesOf
<1> HIDE DEF F, S
<1> QED BY <1>2, <1>3, <1>4 DEF StepsIn

LEMMA PairsIs ==
    ASSUME NEW c, c.graph \in GraphState, NEW edge, NEW v
    PROVE  StepsIn(c.graph, Pairs(edge, v, Couples(c, edge, v)))
<1> DEFINE S == Couples(c, edge, v)
           F == [p \in S |-> [edges |-> {p[1], p[2]}, to |-> p[1][3]]]
<1>1. IsFiniteSet(S) /\ \A p \in S : p[1] \in c.graph.edges
  <2>1. S \in SUBSET (c.graph.edges \X c.graph.edges)
    BY DEF Couples, Out, Into, Labelled
  <2>2. IsFiniteSet(c.graph.edges \X c.graph.edges)
    BY EdgesOf, FS_Product
  <2>3. IsFiniteSet(S)
    BY <2>1, <2>2, FS_Subset
  <2> HIDE DEF S
  <2> QED BY <2>1, <2>3
<1>2. IsFiniteSet({F[p] : p \in S})
  <2>1. F = [p \in S |-> F[p]]
    OBVIOUS
  <2> HIDE DEF F, S
  <2> QED BY <1>1, <2>1, FiniteImage
<1>3. Pairs(edge, v, S).steps = {F[p] : p \in S}
  BY DEF Pairs
<1>4. \A p \in S : F[p].to \in c.graph.vertices
  BY <1>1, EdgesOf
<1> HIDE DEF F, S
<1>5. StepsIn(c.graph, Pairs(edge, v, S))
  BY <1>2, <1>3, <1>4 DEF StepsIn
<1> QED BY <1>5 DEF S

LEMMA WaysAgain ==
    ASSUME NEW c, NEW e, Views(c, e), NEW edge \in EdgeItem, NEW v
    PROVE  \E n \in Nat :
              /\ Ways(c, edge, v) = [i \in 1 .. n |-> Ways(c, edge, v)[i]]
              /\ Ways(e, edge, v) = [i \in 1 .. n |-> Ways(e, edge, v)[i]]
              /\ \A i \in 1 .. n : SameWay(c, e, Ways(c, edge, v)[i], Ways(e, edge, v)[i])
<1> DEFINE A(x) == Ahead(x, edge, v)
           B(x) == Behind(x, edge, v)
           P(x) == Pairs(edge, v, Couples(x, edge, v))
<1>1. c.graph \in GraphState /\ e.graph \in GraphState
  BY DEF Views
<1>2. SameWay(c, e, A(c), A(e))
  <2>1. A(c).deps = OutDeps(edge, v) /\ A(e).deps = OutDeps(edge, v)
    BY DEF Ahead
  <2>2. A(c).deps \cap Seen(c, e) = {} => A(e).steps = A(c).steps
    BY <2>1, EdgesAgain DEF Ahead
  <2>3. NoNested(A(c).deps)
    BY <2>1, EdgesAgain
  <2>4. StepsIn(c.graph, A(c)) /\ StepsIn(e.graph, A(e))
    BY <1>1, AheadIs
  <2> HIDE DEF A
  <2> QED BY <2>1, <2>2, <2>3, <2>4 DEF SameWay
<1>3. SameWay(c, e, B(c), B(e))
  <2>1. B(c).deps = IntoDeps(edge, v) /\ B(e).deps = IntoDeps(edge, v)
    BY DEF Behind
  <2>2. B(c).deps \cap Seen(c, e) = {} => B(e).steps = B(c).steps
    BY <2>1, EdgesAgain DEF Behind
  <2>3. NoNested(B(c).deps)
    BY <2>1, EdgesAgain
  <2>4. StepsIn(c.graph, B(c)) /\ StepsIn(e.graph, B(e))
    BY <1>1, BehindIs
  <2> HIDE DEF B
  <2> QED BY <2>1, <2>2, <2>3, <2>4 DEF SameWay
<1>4. SameWay(c, e, P(c), P(e))
  <2>1. /\ P(c).deps = OutDeps(edge, v) \cup IntoDeps(edge, v)
        /\ P(e).deps = OutDeps(edge, v) \cup IntoDeps(edge, v)
    BY DEF Pairs
  <2>2. NoNested(P(c).deps)
    BY <2>1, EdgesAgain DEF NoNested
  <2>3. ASSUME P(c).deps \cap Seen(c, e) = {} PROVE P(e).steps = P(c).steps
    <3>1. Out(e, edge, v) = Out(c, edge, v) /\ Into(e, edge, v) = Into(c, edge, v)
      BY <2>1, <2>3, EdgesAgain
    <3>2. Couples(e, edge, v) = Couples(c, edge, v)
      BY <3>1 DEF Couples
    <3> QED BY <3>2
  <2>4. StepsIn(c.graph, P(c)) /\ StepsIn(e.graph, P(e))
    BY <1>1, PairsIs
  <2> HIDE DEF P
  <2> QED BY <2>1, <2>2, <2>3, <2>4 DEF SameWay
<1> HIDE DEF A, B, P
<1>5. CASE edge.direction = "forward"
  <2>1. Ways(c, edge, v) = <<A(c)>> /\ Ways(e, edge, v) = <<A(e)>>
    BY <1>5, WaysAre DEF A
  <2> WITNESS 1 \in Nat
  <2> QED BY <1>2, <2>1
<1>6. CASE edge.direction = "backward"
  <2>1. Ways(c, edge, v) = <<B(c)>> /\ Ways(e, edge, v) = <<B(e)>>
    BY <1>6, WaysAre DEF B
  <2> WITNESS 1 \in Nat
  <2> QED BY <1>3, <2>1
<1>7. CASE edge.direction = "any"
  <2>1. Ways(c, edge, v) = <<A(c), B(c)>> /\ Ways(e, edge, v) = <<A(e), B(e)>>
    BY <1>7, WaysAre DEF A, B
  <2> WITNESS 2 \in Nat
  <2> QED BY <1>2, <1>3, <2>1
<1>8. CASE edge.direction \in {"both", "both symmetric"}
  <2>1. Ways(c, edge, v) = <<P(c)>> /\ Ways(e, edge, v) = <<P(e)>>
    BY <1>8, WaysAre DEF P
  <2> WITNESS 1 \in Nat
  <2> QED BY <1>4, <2>1
<1> QED BY <1>5, <1>6, <1>7, <1>8, WaysAre

LEMMA FollowAgain ==
    ASSUME NEW c, NEW e, Views(c, e), NEW w, NEW u, SameWay(c, e, w, u),
           NEW R, NEW S, SameRest(c, e, R, S), NEW refs \in Positive
    PROVE  FoundAgain(c, e, Follow(c, w, refs, R), Follow(e, u, refs, S))
<1> DEFINE turns(steps, rest) ==
              [i \in DOMAIN steps |-> With({}, steps[i].edges, rest[Core(steps[i].to)][refs])]
<1>1. /\ Follow(c, w, refs, R) = Also(w.deps, InTurn(c.first, turns(SetToSeq(w.steps), R)))
      /\ Follow(e, u, refs, S) = Also(u.deps, InTurn(e.first, turns(SetToSeq(u.steps), S)))
  BY DEF Follow
<1>2. ASSUME w.deps \cap Seen(c, e) = {}
      PROVE  FoundAgain(c, e, InTurn(c.first, turns(SetToSeq(w.steps), R)),
                              InTurn(e.first, turns(SetToSeq(u.steps), S)))
  <2>1. u.steps = w.steps /\ IsFiniteSet(w.steps)
    BY <1>2 DEF SameWay, StepsIn
  <2>2. \A s \in w.steps : Core(s.to) \in Steady(c, e)
    <3>1. \A s \in w.steps : s.to \in c.graph.vertices \cap e.graph.vertices
      BY <2>1 DEF SameWay, StepsIn
    <3>2. \A v \in c.graph.vertices : Core(v) \in Position /\ Core(v)[2] = v
      BY PositionKinds, EdgesOf DEF Views, Core
    <3> QED BY <3>1, <3>2 DEF Steady
  <2>3. PICK n \in Nat : SetToSeq(w.steps) \in [1 .. n -> w.steps] /\ Len(SetToSeq(w.steps)) = n
    BY <2>1, SetToSeqIs
  <2>4. PICK steps : steps = SetToSeq(w.steps)
    OBVIOUS
  <2>5. DOMAIN steps = 1 .. n /\ \A i \in 1 .. n : steps[i] \in w.steps
    BY <2>3, <2>4
  <2>6. \A rest : turns(steps, rest) = [i \in 1 .. n |-> turns(steps, rest)[i]]
    BY <2>5
  <2>7. ASSUME NEW i \in 1 .. n PROVE FoundAgain(c, e, turns(steps, R)[i], turns(steps, S)[i])
    <3>1. FoundAgain(c, e, R[Core(steps[i].to)][refs], S[Core(steps[i].to)][refs])
      BY <2>2, <2>5 DEF SameRest
    <3>2. \A rest : turns(steps, rest)[i] = With({}, steps[i].edges, rest[Core(steps[i].to)][refs])
      BY <2>5
    <3> HIDE DEF turns
    <3> QED BY <3>1, <3>2, WithFoundAgain
  <2> HIDE DEF turns
  <2>8. Len(turns(steps, R)) = n /\ Len(turns(steps, S)) = n
    BY <2>6, LengthIs
  <2>9. e.first = c.first
    BY DEF Views
  <2> QED BY <2>1, <2>4, <2>7, <2>8, <2>9, InTurnFoundAgain
<1> HIDE DEF turns
<1> QED BY <1>1, <1>2, AlsoFoundAgain DEF SameWay, NoNested

-----------------------------------------------------------------------------
(* Vertices and edges. *)

LEMMA SteadyIs ==
    ASSUME NEW c, NEW e, Views(c, e), NEW at \in Steady(c, e)
    PROVE  /\ at \in Position /\ at = <<at[1], at[2]>> /\ at[1] \in {"core", "orbit"} /\ at[2] \in Vertex
           /\ Orbit(at[2]) \in Steady(c, e)
<1>1. at \in Position /\ at = <<at[1], at[2]>> /\ at[1] \in {"core", "orbit"} /\ at[2] \in Vertex
  BY DEF Steady, Position
<1>2. Orbit(at[2]) \in Position /\ Orbit(at[2])[1] = "orbit"
  BY <1>1, PositionKinds DEF Orbit
<1> QED BY <1>1, <1>2 DEF Steady

LEMMA StaysPositive ==
    ASSUME NEW refs \in Positive, NEW name, NEW v \in Vertex
    PROVE  name \in RefName => CopyAndSet(refs, name, v) \in Positive
<1>1. SUFFICES ASSUME name \in RefName
               PROVE  CopyAndSet(refs, name, v) \in SUBSET Literal /\ ~HasNegatives(CopyAndSet(refs, name, v))
  BY DEF Positive
<1>2. Is(name, v) \in Literal /\ ~Is(name, v).negative
  BY <1>1, LiteralsAre
<1>3. refs \in SUBSET Literal /\ \A l \in refs : ~l.negative
  BY DEF Positive, HasNegatives
<1> QED BY <1>2, <1>3 DEF CopyAndSet, HasNegatives

(* match_vertex *)
VertexBinding(item, refs, v) ==
    IF item.ref = Unnamed THEN "already set" ELSE Binding(refs, item.ref, v)
VertexRefs(item, refs, v) ==
    IF VertexBinding(item, refs, v) = "possible" THEN CopyAndSet(refs, item.ref, v) ELSE refs
AtVertex(c, item, at, refs) ==
    /\ at = Core(at[2]) /\ at[2] \in c.graph.vertices
    /\ Satisfies(at[2], item.test) /\ VertexBinding(item, refs, at[2]) # "impossible"
VertexDeps(c, at) == IF at = c.origin THEN {ParticularVertex(at[2])} ELSE {}
OnVertex(c, item, rest, at, refs) ==
    Also(VertexDeps(c, at), With({at[2]}, {}, rest[Orbit(at[2])][VertexRefs(item, refs, at[2])]))

LEMMA VertexThenIs ==
    ASSUME NEW c, NEW item, NEW rest, NEW at \in Position, NEW refs \in Positive
    PROVE  VertexThen(c, item, rest)[at][refs] =
              IF AtVertex(c, item, at, refs) THEN OnVertex(c, item, rest, at, refs) ELSE Nothing
BY DEF VertexThen, AtVertex, OnVertex, VertexDeps, VertexRefs, VertexBinding, Positive

LEMMA VertexAgain ==
    ASSUME NEW c, NEW e, Views(c, e), NEW item \in VertexItem, NEW R, NEW S, SameRest(c, e, R, S)
    PROVE  SameRest(c, e, VertexThen(c, item, R), VertexThen(e, item, S))
<1> SUFFICES ASSUME NEW at \in Steady(c, e), NEW refs \in Positive
             PROVE  FoundAgain(c, e, VertexThen(c, item, R)[at][refs], VertexThen(e, item, S)[at][refs])
  BY DEF SameRest
<1>1. at \in Position /\ at[1] \in {"core", "orbit"} /\ at[2] \in Vertex /\ Orbit(at[2]) \in Steady(c, e)
  BY SteadyIs
<1>2. VertexThen(c, item, R)[at][refs] = IF AtVertex(c, item, at, refs) THEN OnVertex(c, item, R, at, refs) ELSE Nothing
  BY <1>1, VertexThenIs
<1>3. VertexThen(e, item, S)[at][refs] = IF AtVertex(e, item, at, refs) THEN OnVertex(e, item, S, at, refs) ELSE Nothing
  BY <1>1, VertexThenIs
<1>4. FoundAgain(c, e, OnVertex(c, item, R, at, refs), OnVertex(e, item, S, at, refs))
  <2> DEFINE next == VertexRefs(item, refs, at[2])
             r == With({at[2]}, {}, R[Orbit(at[2])][next])
             s == With({at[2]}, {}, S[Orbit(at[2])][next])
  <2>1. next \in Positive
    <3>1. item.ref \in RefName \cup {Unnamed}
      BY DEF VertexItem
    <3> QED BY <1>1, <3>1, StaysPositive DEF VertexRefs, VertexBinding
  <2>2. FoundAgain(c, e, r, s)
    BY <1>1, <2>1, WithFoundAgain DEF SameRest
  <2>3. \A x \in VertexDeps(c, at) : x[1] # "NestedExpressionSubgraph"
    BY Kinds DEF VertexDeps
  <2>4. FoundAgain(c, e, Also(VertexDeps(c, at), r), Also(VertexDeps(e, at), s))
    <3> HIDE DEF r, s
    <3> QED BY <2>2, <2>3, AlsoFoundAgain
  <2> QED BY <2>4 DEF OnVertex
<1>5. CASE AtVertex(c, item, at, refs) <=> AtVertex(e, item, at, refs)
  <2>1. CASE AtVertex(c, item, at, refs)
    BY <1>2, <1>3, <1>4, <1>5, <2>1
  <2>2. CASE ~AtVertex(c, item, at, refs)
    BY <1>2, <1>3, <1>5, <2>2, NothingFoundAgain
  <2> QED BY <2>1, <2>2
<1>6. CASE ~(AtVertex(c, item, at, refs) <=> AtVertex(e, item, at, refs))
  <2>1. at = Core(at[2]) /\ ~(at[2] \in c.graph.vertices <=> at[2] \in e.graph.vertices)
    BY <1>6 DEF AtVertex
  <2>2. at[1] = "core"
    BY <2>1 DEF Core
  <2>3. at = c.origin /\ at[2] \in c.graph.vertices \ e.graph.vertices
    BY <2>1, <2>2 DEF Steady
  <2>4. ParticularVertex(at[2]) \in Seen(c, e)
    BY <2>3, ViewsSee
  <2>5. AtVertex(c, item, at, refs)
    BY <1>6, <2>3 DEF AtVertex
  <2>6. ParticularVertex(at[2]) \in VertexThen(c, item, R)[at][refs].deps
    <3>1. VertexThen(c, item, R)[at][refs] = OnVertex(c, item, R, at, refs)
      BY <1>2, <2>5
    <3>2. ParticularVertex(at[2]) \in VertexDeps(c, at)
      BY <2>3 DEF VertexDeps
    <3>3. VertexDeps(c, at) \subseteq OnVertex(c, item, R, at, refs).deps
      BY FoundIs DEF OnVertex, Also
    <3> QED BY <3>1, <3>2, <3>3
  <2> QED BY <2>4, <2>6 DEF FoundAgain
<1> QED BY <1>5, <1>6

(* for_each_edge_match *)
Followed(c, ways, refs, rest) == [i \in DOMAIN ways |-> Follow(c, ways[i], refs, rest)]

LEMMA FollowedAgain ==
    ASSUME NEW c, NEW e, Views(c, e), NEW n \in Nat, NEW W, NEW U,
           W = [i \in 1 .. n |-> W[i]], U = [i \in 1 .. n |-> U[i]],
           \A i \in 1 .. n : SameWay(c, e, W[i], U[i]),
           NEW R, NEW S, SameRest(c, e, R, S), NEW refs \in Positive
    PROVE  FoundAgain(c, e, InTurn(c.first, Followed(c, W, refs, R)), InTurn(e.first, Followed(e, U, refs, S)))
<1>1. DOMAIN W = 1 .. n /\ DOMAIN U = 1 .. n
  OBVIOUS
<1>2. ASSUME NEW i \in 1 .. n
      PROVE  FoundAgain(c, e, Followed(c, W, refs, R)[i], Followed(e, U, refs, S)[i])
  <2>1. /\ Followed(c, W, refs, R)[i] = Follow(c, W[i], refs, R)
        /\ Followed(e, U, refs, S)[i] = Follow(e, U[i], refs, S)
    BY <1>1 DEF Followed
  <2> QED BY <2>1, FollowAgain
<1>3. /\ Followed(c, W, refs, R) = [i \in 1 .. n |-> Followed(c, W, refs, R)[i]]
      /\ Followed(e, U, refs, S) = [i \in 1 .. n |-> Followed(e, U, refs, S)[i]]
  BY <1>1 DEF Followed
<1>4. Len(Followed(c, W, refs, R)) = n /\ Len(Followed(e, U, refs, S)) = n
  BY <1>3, LengthIs
<1>5. e.first = c.first
  BY DEF Views
<1> QED BY <1>2, <1>4, <1>5, InTurnFoundAgain

LEMMA EdgeAgain ==
    ASSUME NEW c, NEW e, Views(c, e), NEW edge \in EdgeItem, NEW R, NEW S, SameRest(c, e, R, S)
    PROVE  SameRest(c, e, EdgeThen(c, edge, R), EdgeThen(e, edge, S))
<1> SUFFICES ASSUME NEW at \in Steady(c, e), NEW refs \in Positive
             PROVE  FoundAgain(c, e, EdgeThen(c, edge, R)[at][refs], EdgeThen(e, edge, S)[at][refs])
  BY DEF SameRest
<1>1. at \in Position /\ refs \in SUBSET Literal
  BY SteadyIs DEF Positive
<1>2. /\ EdgeThen(c, edge, R)[at][refs] = IF at[1] = "orbit"
            THEN InTurn(c.first, Followed(c, Ways(c, edge, at[2]), refs, R)) ELSE Nothing
      /\ EdgeThen(e, edge, S)[at][refs] = IF at[1] = "orbit"
            THEN InTurn(e.first, Followed(e, Ways(e, edge, at[2]), refs, S)) ELSE Nothing
  BY <1>1 DEF EdgeThen, Followed
<1> DEFINE W == Ways(c, edge, at[2])
           U == Ways(e, edge, at[2])
<1>3. PICK n \in Nat : /\ W = [i \in 1 .. n |-> W[i]] /\ U = [i \in 1 .. n |-> U[i]]
                       /\ \A i \in 1 .. n : SameWay(c, e, W[i], U[i])
  BY WaysAgain
<1> HIDE DEF W, U
<1>4. FoundAgain(c, e, InTurn(c.first, Followed(c, W, refs, R)), InTurn(e.first, Followed(e, U, refs, S)))
  BY <1>3, FollowedAgain
<1> QED BY <1>2, <1>4, NothingFoundAgain DEF W, U

-----------------------------------------------------------------------------
(* Edges to known vertices. *)

(* match_edge_to_vertex: the deps on the edges between two vertices. *)
LEMMA BetweenAgain ==
    ASSUME NEW c, NEW e, Views(c, e), NEW edge \in EdgeItem, NEW v, NEW w,
           ParticularEdgeDeps(edge, v, w) \cap Seen(c, e) = {}
    PROVE  /\ edge.direction # "backward" =>
                {f \in Out(e, edge, v) : f[3] = w} = {f \in Out(c, edge, v) : f[3] = w}
           /\ edge.direction # "forward" =>
                {f \in Into(e, edge, v) : f[1] = w} = {f \in Into(c, edge, v) : f[1] = w}
<1>1. \A g \in {c.graph, e.graph} : \A f \in g.edges : f = <<f[1], f[2], f[3]>>
  BY EdgesOf DEF Views
<1>2. ASSUME edge.direction # "backward", NEW f,
             ~(f \in {x \in Out(e, edge, v) : x[3] = w} <=> f \in {x \in Out(c, edge, v) : x[3] = w})
      PROVE  FALSE
  <2>1. /\ ~(f \in c.graph.edges <=> f \in e.graph.edges)
        /\ edge.forward = Anything \/ f[2] \in edge.forward
        /\ f[1] = v /\ f[3] = w
    BY <1>2 DEF Out, Labelled
  <2>2. f = <<v, f[2], w>>
    BY <1>1, <2>1
  <2>3. \E d \in ParticularEdgeDeps(edge, v, w) : d \in {EdgeFrom(v), ParticularEdge(f)}
    <3>1. CASE edge.forward = Anything
      <4>1. EdgeFrom(v) \in ParticularEdgeDeps(edge, v, w)
        BY <1>2, <3>1 DEF ParticularEdgeDeps
      <4> QED BY <4>1
    <3>2. CASE edge.forward # Anything
      <4>1. \A l \in edge.forward : ParticularEdge(<<v, l, w>>) \in ParticularEdgeDeps(edge, v, w)
        BY <1>2, <3>2 DEF ParticularEdgeDeps
      <4>2. ParticularEdge(f) \in ParticularEdgeDeps(edge, v, w)
        BY <2>1, <2>2, <3>2, <4>1
      <4> QED BY <4>2
    <3> QED BY <3>1, <3>2
  <2> QED BY <2>1, <2>3, ViewsSee
<1>3. ASSUME edge.direction # "forward", NEW f,
             ~(f \in {x \in Into(e, edge, v) : x[1] = w} <=> f \in {x \in Into(c, edge, v) : x[1] = w})
      PROVE  FALSE
  <2>1. /\ ~(f \in c.graph.edges <=> f \in e.graph.edges)
        /\ edge.backward = Anything \/ f[2] \in edge.backward
        /\ f[3] = v /\ f[1] = w
    BY <1>3 DEF Into, Labelled
  <2>2. f = <<w, f[2], v>>
    BY <1>1, <2>1
  <2>3. \E d \in ParticularEdgeDeps(edge, v, w) : d \in {EdgeTo(v), ParticularEdge(f)}
    <3>1. CASE edge.backward = Anything
      <4>1. EdgeTo(v) \in ParticularEdgeDeps(edge, v, w)
        BY <1>3, <3>1 DEF ParticularEdgeDeps
      <4> QED BY <4>1
    <3>2. CASE edge.backward # Anything
      <4>1. \A l \in edge.backward : ParticularEdge(<<w, l, v>>) \in ParticularEdgeDeps(edge, v, w)
        BY <1>3, <3>2 DEF ParticularEdgeDeps
      <4>2. ParticularEdge(f) \in ParticularEdgeDeps(edge, v, w)
        BY <2>1, <2>2, <3>2, <4>1
      <4> QED BY <4>2
    <3> QED BY <3>1, <3>2
  <2> QED BY <2>1, <2>3, ViewsSee
<1> QED BY <1>2, <1>3

LEMMA ParticularEdgePlain ==
    ASSUME NEW edge, NEW v, NEW w PROVE NoNested(ParticularEdgeDeps(edge, v, w))
BY Kinds DEF ParticularEdgeDeps, NoNested

LEMMA BetweenIs ==
    ASSUME NEW way, NEW w, NEW g, StepsIn(g, way)
    PROVE  /\ Between(way, w).deps = {} /\ StepsIn(g, Between(way, w))
           /\ Between(way, w).steps = {s \in way.steps : s.to = w}
           /\ w \notin g.vertices => Between(way, w).steps = {}
<1>1. /\ Between(way, w).deps = {}
      /\ Between(way, w).steps = {s \in way.steps : s.to = w}
  BY DEF Between
<1>2. IsFiniteSet(Between(way, w).steps)
  BY <1>1, FS_Subset DEF StepsIn
<1> QED BY <1>1, <1>2 DEF StepsIn

(* The ways from v, restricted to those to w. *)
BetweenAll(ways, w) == [i \in DOMAIN ways |-> Between(ways[i], w)]

LEMMA WaysBetweenAgain ==
    ASSUME NEW c, NEW e, Views(c, e), NEW edge \in EdgeItem, NEW v, NEW w,
           ParticularEdgeDeps(edge, v, w) \cap Seen(c, e) = {}
    PROVE  \E n \in Nat :
              /\ Ways(c, edge, v) = [i \in 1 .. n |-> Ways(c, edge, v)[i]]
              /\ Ways(e, edge, v) = [i \in 1 .. n |-> Ways(e, edge, v)[i]]
              /\ \A i \in 1 .. n : SameWay(c, e, Between(Ways(c, edge, v)[i], w), Between(Ways(e, edge, v)[i], w))
<1>1. PICK n \in Nat :
         /\ Ways(c, edge, v) = [i \in 1 .. n |-> Ways(c, edge, v)[i]]
         /\ Ways(e, edge, v) = [i \in 1 .. n |-> Ways(e, edge, v)[i]]
         /\ \A i \in 1 .. n : SameWay(c, e, Ways(c, edge, v)[i], Ways(e, edge, v)[i])
  BY WaysAgain
<1>2. /\ edge.direction # "backward" =>
           {f \in Out(e, edge, v) : f[3] = w} = {f \in Out(c, edge, v) : f[3] = w}
      /\ edge.direction # "forward" =>
           {f \in Into(e, edge, v) : f[1] = w} = {f \in Into(c, edge, v) : f[1] = w}
  BY BetweenAgain
<1>3. ASSUME edge.direction # "backward"
      PROVE  {s \in Ahead(e, edge, v).steps : s.to = w} = {s \in Ahead(c, edge, v).steps : s.to = w}
  <2>1. \A x : {s \in Ahead(x, edge, v).steps : s.to = w}
                = {[edges |-> {f}, to |-> f[3]] : f \in {k \in Out(x, edge, v) : k[3] = w}}
    BY DEF Ahead
  <2> QED BY <1>2, <1>3, <2>1
<1>4. ASSUME edge.direction # "forward"
      PROVE  {s \in Behind(e, edge, v).steps : s.to = w} = {s \in Behind(c, edge, v).steps : s.to = w}
  <2>1. \A x : {s \in Behind(x, edge, v).steps : s.to = w}
                = {[edges |-> {f}, to |-> f[1]] : f \in {k \in Into(x, edge, v) : k[1] = w}}
    BY DEF Behind
  <2> QED BY <1>2, <1>4, <2>1
<1>5. ASSUME edge.direction \in {"both", "both symmetric"}
      PROVE  {s \in Pairs(edge, v, Couples(e, edge, v)).steps : s.to = w}
               = {s \in Pairs(edge, v, Couples(c, edge, v)).steps : s.to = w}
  <2>1. \A x : {s \in Pairs(edge, v, Couples(x, edge, v)).steps : s.to = w}
                = {[edges |-> {p[1], p[2]}, to |-> p[1][3]] : p \in {q \in Couples(x, edge, v) : q[1][3] = w}}
    BY DEF Pairs
  <2>2. \A x : {q \in Couples(x, edge, v) : q[1][3] = w}
                = {p \in {f \in Out(x, edge, v) : f[3] = w} \X {f \in Into(x, edge, v) : f[1] = w} :
                     edge.direction = "both symmetric" => p[1][2] = p[2][2]}
    BY DEF Couples
  <2>3. {q \in Couples(e, edge, v) : q[1][3] = w} = {q \in Couples(c, edge, v) : q[1][3] = w}
    BY <1>2, <1>5, <2>2
  <2> QED BY <2>1, <2>3
<1>6. ASSUME NEW i \in 1 .. n
      PROVE  {s \in Ways(e, edge, v)[i].steps : s.to = w} = {s \in Ways(c, edge, v)[i].steps : s.to = w}
  <2>1. DOMAIN Ways(c, edge, v) = 1 .. n
    BY <1>1
  <2>2. CASE edge.direction = "forward"
    <3>1. Ways(c, edge, v) = <<Ahead(c, edge, v)>> /\ Ways(e, edge, v) = <<Ahead(e, edge, v)>>
      BY <2>2, WaysAre
    <3>2. i = 1
      BY <2>1, <3>1
    <3> QED BY <1>3, <2>2, <3>1, <3>2
  <2>3. CASE edge.direction = "backward"
    <3>1. Ways(c, edge, v) = <<Behind(c, edge, v)>> /\ Ways(e, edge, v) = <<Behind(e, edge, v)>>
      BY <2>3, WaysAre
    <3>2. i = 1
      BY <2>1, <3>1
    <3> QED BY <1>4, <2>3, <3>1, <3>2
  <2>4. CASE edge.direction = "any"
    <3>1. /\ Ways(c, edge, v) = <<Ahead(c, edge, v), Behind(c, edge, v)>>
          /\ Ways(e, edge, v) = <<Ahead(e, edge, v), Behind(e, edge, v)>>
      BY <2>4, WaysAre
    <3>2. i \in {1, 2}
      BY <2>1, <3>1
    <3> QED BY <1>3, <1>4, <2>4, <3>1, <3>2
  <2>5. CASE edge.direction \in {"both", "both symmetric"}
    <3>1. /\ Ways(c, edge, v) = <<Pairs(edge, v, Couples(c, edge, v))>>
          /\ Ways(e, edge, v) = <<Pairs(edge, v, Couples(e, edge, v))>>
      BY <2>5, WaysAre
    <3>2. i = 1
      BY <2>1, <3>1
    <3>3. /\ Ways(c, edge, v)[i] = Pairs(edge, v, Couples(c, edge, v))
          /\ Ways(e, edge, v)[i] = Pairs(edge, v, Couples(e, edge, v))
      BY <3>1, <3>2
    <3> QED BY <1>5, <2>5, <3>3
  <2>6. edge.direction \in {"forward", "backward", "any", "both", "both symmetric"}
    BY DEF EdgeItem
  <2> QED BY <2>2, <2>3, <2>4, <2>5, <2>6
<1>7. ASSUME NEW i \in 1 .. n
      PROVE  SameWay(c, e, Between(Ways(c, edge, v)[i], w), Between(Ways(e, edge, v)[i], w))
  <2>1. StepsIn(c.graph, Ways(c, edge, v)[i]) /\ StepsIn(e.graph, Ways(e, edge, v)[i])
    BY <1>1 DEF SameWay
  <2>2. /\ Between(Ways(c, edge, v)[i], w).deps = {} /\ Between(Ways(e, edge, v)[i], w).deps = {}
        /\ StepsIn(c.graph, Between(Ways(c, edge, v)[i], w)) /\ StepsIn(e.graph, Between(Ways(e, edge, v)[i], w))
    BY <2>1, BetweenIs
  <2>3. Between(Ways(e, edge, v)[i], w).steps = Between(Ways(c, edge, v)[i], w).steps
    BY <1>6 DEF Between
  <2> QED BY <2>2, <2>3 DEF SameWay, NoNested
<1> QED BY <1>1, <1>7

(* A way is followed only if it leads somewhere. *)
LEMMA FollowFinds ==
    ASSUME NEW c, NEW way, StepsIn(c.graph, way), NEW refs, NEW rest,
           Follow(c, way, refs, rest).found # {}
    PROVE  way.steps # {}
<1> SUFFICES ASSUME way.steps = {} PROVE FALSE
  OBVIOUS
<1> DEFINE turns(steps) == [i \in DOMAIN steps |-> With({}, steps[i].edges, rest[Core(steps[i].to)][refs])]
<1>1. PICK n \in Nat : SetToSeq(way.steps) \in [1 .. n -> way.steps] /\ Len(SetToSeq(way.steps)) = n
  BY SetToSeqIs DEF StepsIn
<1>2. n = 0
  BY <1>1
<1>3. PICK steps : steps = SetToSeq(way.steps)
  OBVIOUS
<1>4. turns(steps) = [i \in 1 .. n |-> turns(steps)[i]]
  BY <1>1, <1>3
<1>5. Follow(c, way, refs, rest) = Also(way.deps, InTurn(c.first, turns(steps)))
  BY <1>3 DEF Follow
<1> HIDE DEF turns
<1>6. Len(turns(steps)) = n
  BY <1>4, LengthIs
<1>7. InTurn(c.first, turns(steps)).found # {}
  BY <1>5, AlsoFinds
<1>8. \E i \in 1 .. n : turns(steps)[i].found # {}
  BY <1>6, <1>7, InTurnFinds
<1> QED BY <1>2, <1>8

LEMMA FollowedFinds ==
    ASSUME NEW c, NEW n \in Nat, NEW W, W = [i \in 1 .. n |-> W[i]],
           \A i \in 1 .. n : StepsIn(c.graph, W[i]),
           NEW refs, NEW rest, InTurn(c.first, Followed(c, W, refs, rest)).found # {}
    PROVE  \E i \in 1 .. n : W[i].steps # {}
<1>1. DOMAIN W = 1 .. n
  OBVIOUS
<1>2. /\ Followed(c, W, refs, rest) = [i \in 1 .. n |-> Followed(c, W, refs, rest)[i]]
      /\ \A i \in 1 .. n : Followed(c, W, refs, rest)[i] = Follow(c, W[i], refs, rest)
  BY <1>1 DEF Followed
<1> DEFINE results == Followed(c, W, refs, rest)
<1>3. InTurn(c.first, results).found # {} /\ Len(results) = n
  BY <1>2, LengthIs
<1>4. PICK i \in 1 .. n : Followed(c, W, refs, rest)[i].found # {}
  <2> HIDE DEF results
  <2>1. \E i \in 1 .. n : results[i].found # {}
    BY <1>3, InTurnFinds, Zenon
  <2> QED BY <2>1 DEF results
<1>5. Follow(c, W[i], refs, rest).found # {}
  BY <1>2, <1>4
<1> QED BY <1>5, FollowFinds

(* match_edge_to_vertex *)
IsAbsent(c, item) == item.vertex.test \in Vertex \ c.ids
Meant(item, refs) ==
    IF item.vertex.test \in Vertex
      THEN {item.vertex.test}
      ELSE {l.value : l \in {m \in refs : m.name = item.vertex.ref /\ ~m.negative}}
ToVertex(c, item, rest, at, refs, w) ==
    Also(ParticularEdgeDeps(item.edge, at[2], w),
         InTurn(c.first, Followed(c, BetweenAll(Ways(c, item.edge, at[2]), w), refs,
                                  VertexThen(c, item.vertex, rest))))
ToAny(c, item, rest, at, refs) == EdgeThen(c, item.edge, VertexThen(c, item.vertex, rest))[at][refs]
ToNobody(item) == Found({}, {ParticularVertex(item.vertex.test)})
OneOf(S) == CHOOSE x \in S : TRUE

LEMMA EdgeToThenIs ==
    ASSUME NEW c, NEW item, NEW rest, NEW at \in Position, NEW refs \in Positive
    PROVE  EdgeToThen(c, item, rest)[at][refs] =
              IF at[1] = "core" THEN Nothing
              ELSE IF IsAbsent(c, item) THEN ToNobody(item)
              ELSE IF Meant(item, refs) = {} THEN ToAny(c, item, rest, at, refs)
              ELSE ToVertex(c, item, rest, at, refs, OneOf(Meant(item, refs)))
<1>1. refs \in SUBSET Literal
  BY DEF Positive
<1>2. at[1] \in {"core", "orbit"}
  BY PositionKinds
<1> DEFINE ways == Ways(c, item.edge, at[2])
           after == VertexThen(c, item.vertex, rest)
           to == Meant(item, refs)
           w == OneOf(to)
           some == Also(ParticularEdgeDeps(item.edge, at[2], w),
                        InTurn(c.first, [i \in DOMAIN ways |-> Follow(c, Between(ways[i], w), refs, after)]))
<1>3. EdgeToThen(c, item, rest)[at][refs] =
         CASE at[1] = "core" -> Nothing
           [] at[1] = "orbit" /\ IsAbsent(c, item) -> ToNobody(item)
           [] at[1] = "orbit" /\ ~IsAbsent(c, item) /\ to = {} -> EdgeThen(c, item.edge, after)[at][refs]
           [] at[1] = "orbit" /\ ~IsAbsent(c, item) /\ to # {} -> some
  BY <1>1 DEF EdgeToThen, IsAbsent, Meant, OneOf, ToNobody
<1>4. some = ToVertex(c, item, rest, at, refs, w)
  <2>1. Followed(c, BetweenAll(ways, w), refs, after) = [i \in DOMAIN ways |-> Follow(c, Between(ways[i], w), refs, after)]
    <3> HIDE DEF ways, after, w
    <3> QED BY DEF Followed, BetweenAll
  <2> HIDE DEF ways, after, w
  <2>2. some = Also(ParticularEdgeDeps(item.edge, at[2], w), InTurn(c.first, Followed(c, BetweenAll(ways, w), refs, after)))
    BY <2>1
  <2> QED BY <2>2 DEF ToVertex, ways, after
<1>5. EdgeThen(c, item.edge, after)[at][refs] = ToAny(c, item, rest, at, refs)
  BY DEF ToAny
<1> HIDE DEF some, after, to, w
<1>6. CASE at[1] = "core"
  BY <1>3, <1>6
<1>7. CASE at[1] = "orbit" /\ IsAbsent(c, item)
  BY <1>3, <1>7
<1>8. CASE at[1] = "orbit" /\ ~IsAbsent(c, item) /\ to = {}
  BY <1>3, <1>5, <1>8 DEF to
<1>9. CASE at[1] = "orbit" /\ ~IsAbsent(c, item) /\ to # {}
  BY <1>3, <1>4, <1>9 DEF to, w
<1> QED BY <1>2, <1>6, <1>7, <1>8, <1>9

LEMMA BetweenAllIs ==
    ASSUME NEW n \in Nat, NEW W, W = [i \in 1 .. n |-> W[i]], NEW w
    PROVE  /\ BetweenAll(W, w) = [i \in 1 .. n |-> BetweenAll(W, w)[i]]
           /\ \A i \in 1 .. n : BetweenAll(W, w)[i] = Between(W[i], w)
<1>1. DOMAIN W = 1 .. n
  OBVIOUS
<1>2. BetweenAll(W, w) = [i \in 1 .. n |-> Between(W[i], w)]
  BY <1>1 DEF BetweenAll
<1> QED BY <1>2

LEMMA ToVertexAgain ==
    ASSUME NEW c, NEW e, Views(c, e), NEW item \in EdgeToItem, NEW R, NEW S, SameRest(c, e, R, S),
           NEW at, NEW refs \in Positive, NEW w
    PROVE  FoundAgain(c, e, ToVertex(c, item, R, at, refs, w), ToVertex(e, item, S, at, refs, w))
<1>1. item.edge \in EdgeItem /\ item.vertex \in VertexItem
  BY DEF EdgeToItem
<1> DEFINE deps == ParticularEdgeDeps(item.edge, at[2], w)
           W == Ways(c, item.edge, at[2])
           U == Ways(e, item.edge, at[2])
           A == VertexThen(c, item.vertex, R)
           B == VertexThen(e, item.vertex, S)
           r == InTurn(c.first, Followed(c, BetweenAll(W, w), refs, A))
           s == InTurn(e.first, Followed(e, BetweenAll(U, w), refs, B))
<1>2. SameRest(c, e, A, B)
  BY <1>1, VertexAgain
<1>3. ASSUME deps \cap Seen(c, e) = {} PROVE FoundAgain(c, e, r, s)
  <2>1. PICK n \in Nat : /\ W = [i \in 1 .. n |-> W[i]] /\ U = [i \in 1 .. n |-> U[i]]
                         /\ \A i \in 1 .. n : SameWay(c, e, Between(W[i], w), Between(U[i], w))
    BY <1>1, <1>3, WaysBetweenAgain
  <2> HIDE DEF W, U, A, B
  <2>2. W = [i \in 1 .. n |-> W[i]]
    BY <2>1
  <2>3. U = [i \in 1 .. n |-> U[i]]
    BY <2>1
  <2>4. /\ BetweenAll(W, w) = [i \in 1 .. n |-> BetweenAll(W, w)[i]]
        /\ \A i \in 1 .. n : BetweenAll(W, w)[i] = Between(W[i], w)
    BY <2>2, BetweenAllIs
  <2>5. /\ BetweenAll(U, w) = [i \in 1 .. n |-> BetweenAll(U, w)[i]]
        /\ \A i \in 1 .. n : BetweenAll(U, w)[i] = Between(U[i], w)
    BY <2>3, BetweenAllIs
  <2>6. \A i \in 1 .. n : SameWay(c, e, BetweenAll(W, w)[i], BetweenAll(U, w)[i])
    BY <2>1, <2>4, <2>5
  <2> QED BY <1>2, <2>4, <2>5, <2>6, FollowedAgain
<1>4. NoNested(deps)
  BY ParticularEdgePlain
<1>5. ToVertex(c, item, R, at, refs, w) = Also(deps, r) /\ ToVertex(e, item, S, at, refs, w) = Also(deps, s)
  BY DEF ToVertex
<1> HIDE DEF r, s, deps
<1> QED BY <1>3, <1>4, <1>5, AlsoFoundAgain DEF NoNested

LEMMA ToVertexFinds ==
    ASSUME NEW c, c.graph \in GraphState, c.ids \in Ids(c.graph), c.origin \in Position,
           NEW item \in EdgeToItem, NEW rest, NEW at, NEW refs, NEW w,
           ToVertex(c, item, rest, at, refs, w).found # {}
    PROVE  /\ w \in c.graph.vertices
           /\ \E i \in DOMAIN Ways(c, item.edge, at[2]) : Ways(c, item.edge, at[2])[i].steps # {}
<1>1. item.edge \in EdgeItem
  BY DEF EdgeToItem
<1> DEFINE W == Ways(c, item.edge, at[2])
           after == VertexThen(c, item.vertex, rest)
<1>2. Views(c, c)
  BY DEF Views
<1>3. PICK n \in Nat : /\ W = [i \in 1 .. n |-> W[i]]
                       /\ \A i \in 1 .. n : SameWay(c, c, W[i], W[i])
  BY <1>1, <1>2, WaysAgain
<1>4. InTurn(c.first, Followed(c, BetweenAll(W, w), refs, after)).found # {}
  BY AlsoFinds DEF ToVertex
<1> HIDE DEF W, after
<1>5. W = [i \in 1 .. n |-> W[i]]
  BY <1>3
<1>6. /\ BetweenAll(W, w) = [i \in 1 .. n |-> BetweenAll(W, w)[i]]
      /\ \A i \in 1 .. n : BetweenAll(W, w)[i] = Between(W[i], w)
  BY <1>5, BetweenAllIs, SMTT(20)
<1>7. \A i \in 1 .. n : StepsIn(c.graph, W[i])
  BY <1>3 DEF SameWay
<1>8. \A i \in 1 .. n : StepsIn(c.graph, BetweenAll(W, w)[i])
  BY <1>6, <1>7, BetweenIs
<1>9. PICK i \in 1 .. n : BetweenAll(W, w)[i].steps # {}
  BY <1>4, <1>6, <1>8, FollowedFinds
<1>10. Between(W[i], w).steps # {} /\ StepsIn(c.graph, W[i])
  BY <1>6, <1>7, <1>9
<1>11. w \in c.graph.vertices /\ W[i].steps # {}
  <2>1. PICK s \in Between(W[i], w).steps : TRUE
    BY <1>10
  <2>2. s \in W[i].steps /\ s.to = w
    BY <2>1 DEF Between
  <2> QED BY <1>10, <2>2 DEF StepsIn
<1>12. i \in DOMAIN W
  BY <1>3
<1> QED BY <1>11, <1>12 DEF W

-----------------------------------------------------------------------------
(* Items, and paths. *)

LEMMA EdgeToAgain ==
    ASSUME NEW c, NEW e, Views(c, e), NEW item \in EdgeToItem, NEW R, NEW S, SameRest(c, e, R, S)
    PROVE  SameRest(c, e, EdgeToThen(c, item, R), EdgeToThen(e, item, S))
<1> SUFFICES ASSUME NEW at \in Steady(c, e), NEW refs \in Positive
             PROVE  FoundAgain(c, e, EdgeToThen(c, item, R)[at][refs], EdgeToThen(e, item, S)[at][refs])
  BY DEF SameRest
<1> DEFINE w == OneOf(Meant(item, refs))
           t == item.vertex.test
           r == EdgeToThen(c, item, R)[at][refs]
           s == EdgeToThen(e, item, S)[at][refs]
<1>1. /\ item.edge \in EdgeItem /\ item.vertex \in VertexItem /\ at \in Position
      /\ c.graph \in GraphState /\ c.ids \in Ids(c.graph) /\ c.origin \in Position
      /\ e.graph \in GraphState /\ e.ids \in Ids(e.graph) /\ e.origin \in Position
  BY SteadyIs DEF EdgeToItem, Views
<1>2. r = IF at[1] = "core" THEN Nothing
          ELSE IF IsAbsent(c, item) THEN ToNobody(item)
          ELSE IF Meant(item, refs) = {} THEN ToAny(c, item, R, at, refs)
          ELSE ToVertex(c, item, R, at, refs, w)
  BY <1>1, EdgeToThenIs
<1>3. s = IF at[1] = "core" THEN Nothing
          ELSE IF IsAbsent(e, item) THEN ToNobody(item)
          ELSE IF Meant(item, refs) = {} THEN ToAny(e, item, S, at, refs)
          ELSE ToVertex(e, item, S, at, refs, w)
  BY <1>1, EdgeToThenIs
<1>4. FoundAgain(c, e, ToAny(c, item, R, at, refs), ToAny(e, item, S, at, refs))
  <2>1. SameRest(c, e, VertexThen(c, item.vertex, R), VertexThen(e, item.vertex, S))
    BY <1>1, VertexAgain
  <2>2. SameRest(c, e, EdgeThen(c, item.edge, VertexThen(c, item.vertex, R)),
                       EdgeThen(e, item.edge, VertexThen(e, item.vertex, S)))
    BY <1>1, <2>1, EdgeAgain
  <2> QED BY <2>2 DEF SameRest, ToAny
<1>5. FoundAgain(c, e, ToVertex(c, item, R, at, refs, w), ToVertex(e, item, S, at, refs, w))
  BY ToVertexAgain
<1>6. /\ ToNobody(item).found = {} /\ ToNobody(item).deps = {ParticularVertex(t)}
      /\ ParticularVertex(t)[1] # "NestedExpressionSubgraph"
  BY FoundIs, Kinds DEF ToNobody
<1>7. FoundAgain(c, e, ToNobody(item), ToNobody(item))
  BY <1>6, FS_EmptySet DEF FoundAgain
<1>8. t \in Vertex => w = t /\ Meant(item, refs) # {}
  BY DEF Meant, OneOf
<1> HIDE DEF w, r, s
<1>9. CASE at[1] = "core" \/ (IsAbsent(c, item) <=> IsAbsent(e, item))
  <2>1. CASE at[1] = "core"
    BY <1>2, <1>3, <2>1, NothingFoundAgain DEF r, s
  <2>2. CASE at[1] # "core" /\ IsAbsent(c, item) /\ IsAbsent(e, item)
    BY <1>2, <1>3, <1>7, <2>2 DEF r, s
  <2>3. CASE at[1] # "core" /\ ~IsAbsent(c, item) /\ ~IsAbsent(e, item) /\ Meant(item, refs) = {}
    BY <1>2, <1>3, <1>4, <2>3 DEF r, s
  <2>4. CASE at[1] # "core" /\ ~IsAbsent(c, item) /\ ~IsAbsent(e, item) /\ Meant(item, refs) # {}
    BY <1>2, <1>3, <1>5, <2>4 DEF r, s
  <2> QED BY <1>9, <2>1, <2>2, <2>3, <2>4
<1>10. CASE at[1] # "core" /\ IsAbsent(c, item) /\ ~IsAbsent(e, item)
  <2>1. r = ToNobody(item) /\ t \in Vertex /\ t \notin c.graph.vertices
    BY <1>1, <1>2, <1>10 DEF IsAbsent, Ids
  <2>2. s = ToVertex(e, item, S, at, refs, w) /\ w = t
    BY <1>3, <1>8, <1>10, <2>1
  <2>3. ASSUME ParticularVertex(t) \notin Seen(c, e) PROVE s.found = {}
    <3>1. w \notin e.graph.vertices
      BY <2>1, <2>2, <2>3, ViewsSee
    <3> QED BY <1>1, <2>2, <3>1, ToVertexFinds
  <2>4. r.deps \cap Seen(c, e) = {} => ParticularVertex(t) \notin Seen(c, e)
    BY <1>6, <2>1
  <2>5. r.found = {} /\ IsFiniteSet(r.found) /\ \A x \in r.deps : x[1] # "NestedExpressionSubgraph"
    BY <1>6, <2>1, FS_EmptySet
  <2>6. FoundAgain(c, e, r, s)
    BY <2>3, <2>4, <2>5 DEF FoundAgain
  <2> QED BY <2>6 DEF r, s
<1>11. CASE at[1] # "core" /\ ~IsAbsent(c, item) /\ IsAbsent(e, item)
  <2>1. s = ToNobody(item) /\ t \in Vertex /\ t \notin e.graph.vertices
    BY <1>1, <1>3, <1>11 DEF IsAbsent, Ids
  <2>2. r = ToVertex(c, item, R, at, refs, w) /\ w = t
    BY <1>2, <1>8, <1>11, <2>1
  <2>3. ToVertex(e, item, S, at, refs, w).found = {}
    BY <1>1, <2>1, <2>2, ToVertexFinds
  <2> QED BY <1>5, <1>6, <2>1, <2>2, <2>3, FS_EmptySet DEF FoundAgain, r, s
<1> QED BY <1>9, <1>10, <1>11 DEF r, s

LEMMA ItemAgain ==
    ASSUME NEW c, NEW e, Views(c, e), NEW item \in PathItem, NEW R, NEW S, SameRest(c, e, R, S)
    PROVE  SameRest(c, e, ItemThen(c, item, R), ItemThen(e, item, S))
<1>1. CASE item \in VertexItem
  <2>1. item.op = "vertex"
    BY <1>1 DEF VertexItem
  <2> QED BY <1>1, <2>1, VertexAgain DEF ItemThen
<1>2. CASE item \in EdgeItem
  <2>1. item.op = "edge"
    BY <1>2 DEF EdgeItem
  <2> QED BY <1>2, <2>1, EdgeAgain DEF ItemThen
<1>3. CASE item \in EdgeToItem
  <2>1. item.op = "edge to"
    BY <1>3 DEF EdgeToItem
  <2> QED BY <1>3, <2>1, EdgeToAgain DEF ItemThen
<1> QED BY <1>1, <1>2, <1>3 DEF PathItem

-----------------------------------------------------------------------------
(* What the last items of a path find is what it is defined to be. *)

EndOfPath == [at \in Position |-> [refs \in SUBSET Literal |-> Found({Draft(at, refs)}, {})]]

LastItemsAre(c, items, size, last) ==
    /\ last[0] = EndOfPath
    /\ \A n \in 0 .. size - 1 : last[n + 1] = ItemThen(c, items[size - n], last[n])

LEMMA LastItemsDefined ==
    ASSUME NEW c, NEW size \in Nat, NEW items, Len(items) = size
    PROVE  LastItemsAre(c, items, size, LastItems(c, items))
<1> DEFINE Obeys(f, m) == f = [n \in 0 .. m |-> IF n = 0 THEN EndOfPath
                                                  ELSE ItemThen(c, items[size - (n - 1)], f[n - 1])]
           T == {m \in 0 .. size : \E f : Obeys(f, m)}
<1>1. 0 \in T
  <2> DEFINE f == [n \in 0 .. 0 |-> EndOfPath]
  <2>1. Obeys(f, 0)
    OBVIOUS
  <2> HIDE DEF f, Obeys
  <2> QED BY <2>1
<1>2. ASSUME NEW m \in 0 .. size - 1, m \in T PROVE m + 1 \in T
  <2>1. PICK f : Obeys(f, m)
    BY <1>2
  <2> DEFINE h == [n \in 0 .. m + 1 |-> IF n = m + 1 THEN ItemThen(c, items[size - m], f[m]) ELSE f[n]]
  <2>2. ASSUME NEW n \in 0 .. m + 1
        PROVE  h[n] = IF n = 0 THEN EndOfPath ELSE ItemThen(c, items[size - (n - 1)], h[n - 1])
    <3>1. CASE n = m + 1
      <4>1. h[n - 1] = f[m] /\ n # 0 /\ n - 1 = m
        BY <3>1
      <4>2. h[n] = ItemThen(c, items[size - m], f[m])
        BY <3>1
      <4> QED BY <4>1, <4>2
    <3>2. CASE n # m + 1
      <4>1. n \in 0 .. m /\ h[n] = f[n]
        BY <3>2
      <4>2. n # 0 => h[n - 1] = f[n - 1]
        BY <4>1
      <4>3. f[n] = IF n = 0 THEN EndOfPath ELSE ItemThen(c, items[size - (n - 1)], f[n - 1])
        BY <2>1, <4>1
      <4> QED BY <4>1, <4>2, <4>3
    <3> QED BY <3>1, <3>2
  <2>3. Obeys(h, m + 1)
    BY <2>2
  <2> HIDE DEF h, Obeys
  <2> QED BY <2>3
<1>3. \A m \in 0 .. size : m \in T
  <2> HIDE DEF T, Obeys
  <2> QED BY <1>1, <1>2, UpTo
<1>4. Obeys(LastItems(c, items), size)
  <2>1. \E f : Obeys(f, size)
    BY <1>3
  <2>2. LastItems(c, items) = CHOOSE f : Obeys(f, size)
    BY DEF LastItems, EndOfPath
  <2> QED BY <2>1, <2>2
<1> HIDE DEF T
<1>5. PICK last : last = LastItems(c, items)
  OBVIOUS
<1>6. last[0] = EndOfPath
  BY <1>4, <1>5
<1>7. ASSUME NEW n \in 0 .. size - 1 PROVE last[n + 1] = ItemThen(c, items[size - n], last[n])
  <2>1. n + 1 \in 0 .. size /\ n + 1 # 0 /\ (n + 1) - 1 = n
    OBVIOUS
  <2> QED BY <1>4, <1>5, <2>1
<1> QED BY <1>5, <1>6, <1>7 DEF LastItemsAre

LEMMA PathAgain ==
    ASSUME NEW c, NEW e, Views(c, e), NEW items \in Seq(PathItem)
    PROVE  SameRest(c, e, LastItems(c, items)[Len(items)], LastItems(e, items)[Len(items)])
<1>1. PICK size \in Nat : size = Len(items)
  OBVIOUS
<1>2. \A i \in 1 .. size : items[i] \in PathItem
  BY <1>1
<1>3. PICK a : a = LastItems(c, items) /\ LastItemsAre(c, items, size, a)
  BY <1>1, LastItemsDefined
<1>4. PICK b : b = LastItems(e, items) /\ LastItemsAre(e, items, size, b)
  BY <1>1, LastItemsDefined
<1> DEFINE N == {n \in 0 .. size : SameRest(c, e, a[n], b[n])}
<1>5. 0 \in N
  <2>1. ASSUME NEW at \in Steady(c, e), NEW refs \in Positive
        PROVE  FoundAgain(c, e, EndOfPath[at][refs], EndOfPath[at][refs])
    <3>1. at \in Position /\ refs \in SUBSET Literal
      BY SteadyIs DEF Positive
    <3>2. EndOfPath[at][refs] = Found({Draft(at, refs)}, {})
      BY <3>1 DEF EndOfPath
    <3>3. Draft(at, refs).refs = refs /\ Draft(at, refs).ends = {at}
      BY DEF Draft
    <3>4. EndOfPath[at][refs].found = {Draft(at, refs)} /\ EndOfPath[at][refs].deps = {}
      BY <3>2, FoundIs
    <3>5. IsFiniteSet({Draft(at, refs)}) /\ IsFiniteSet({at})
      BY FS_Singleton
    <3> QED BY <3>3, <3>4, <3>5 DEF FoundAgain
  <2> QED BY <1>3, <1>4, <2>1 DEF LastItemsAre, SameRest
<1>6. ASSUME NEW n \in 0 .. size - 1, n \in N PROVE n + 1 \in N
  <2>1. n + 1 \in 0 .. size /\ items[size - n] \in PathItem
    BY <1>2
  <2>2. /\ a[n + 1] = ItemThen(c, items[size - n], a[n])
        /\ b[n + 1] = ItemThen(e, items[size - n], b[n])
    BY <1>3, <1>4 DEF LastItemsAre
  <2> QED BY <1>6, <2>1, <2>2, ItemAgain
<1>7. \A n \in 0 .. size : n \in N
  <2> HIDE DEF N
  <2> QED BY <1>5, <1>6, UpTo
<1> QED BY <1>1, <1>3, <1>4, <1>7

-----------------------------------------------------------------------------
(* Operands one after the other. *)

(* match_concatenation_tail: what operands one after the other find. *)
Continuations(found) ==
    {next \in found \X UNION {d.ends : d \in found} : next[2] \in next[1].ends}
Continued(next, rest) == With(next[1].vertices, next[1].edges, rest[next[2]][next[1].refs])
AfterFirst(first, head, rest) ==
    Also(head.deps, InTurn(first, [i \in DOMAIN SetToSeq(Continuations(head.found)) |->
                                     Continued(SetToSeq(Continuations(head.found))[i], rest)]))
OperandThen(first, operand, rest) ==
    [at \in Position |-> [refs \in SUBSET Literal |-> AfterFirst(first, operand[at][refs], rest)]]

LastOperandsAre(first, operands, size, last) ==
    /\ last[1] = operands[size]
    /\ \A n \in 1 .. size - 1 : last[n + 1] = OperandThen(first, operands[size - n], last[n])

LEMMA LastOperandsDefined ==
    ASSUME NEW first, NEW size \in Nat, NEW operands, Len(operands) = size, size >= 1
    PROVE  LastOperandsAre(first, operands, size, LastOperands(first, operands))
<1> DEFINE Obeys(f, m) == f = [n \in 1 .. m + 1 |-> IF n = 1 THEN operands[size]
                                     ELSE OperandThen(first, operands[size - (n - 1)], f[n - 1])]
           T == {m \in 0 .. size - 1 : \E f : Obeys(f, m)}
<1>1. size - 1 \in Nat
  OBVIOUS
<1>2. 0 \in T
  <2> DEFINE f == [n \in 1 .. 1 |-> operands[size]]
  <2>1. Obeys(f, 0)
    OBVIOUS
  <2> HIDE DEF f, Obeys
  <2> QED BY <2>1
<1>3. ASSUME NEW m \in 0 .. (size - 1) - 1, m \in T PROVE m + 1 \in T
  <2>1. PICK f : Obeys(f, m)
    BY <1>3
  <2> DEFINE h == [n \in 1 .. (m + 1) + 1 |->
                     IF n = m + 2 THEN OperandThen(first, operands[size - (m + 1)], f[m + 1]) ELSE f[n]]
  <2>2. ASSUME NEW n \in 1 .. (m + 1) + 1
        PROVE  h[n] = IF n = 1 THEN operands[size]
                      ELSE OperandThen(first, operands[size - (n - 1)], h[n - 1])
    <3>1. CASE n = m + 2
      <4>1. h[n - 1] = f[m + 1] /\ n # 1 /\ n - 1 = m + 1
        BY <3>1
      <4>2. h[n] = OperandThen(first, operands[size - (m + 1)], f[m + 1])
        BY <3>1
      <4> QED BY <4>1, <4>2
    <3>2. CASE n # m + 2
      <4>1. n \in 1 .. m + 1 /\ h[n] = f[n]
        BY <3>2
      <4>2. n # 1 => h[n - 1] = f[n - 1]
        BY <4>1
      <4>3. f[n] = IF n = 1 THEN operands[size] ELSE OperandThen(first, operands[size - (n - 1)], f[n - 1])
        BY <2>1, <4>1
      <4> QED BY <4>1, <4>2, <4>3
    <3> QED BY <3>1, <3>2
  <2>3. Obeys(h, m + 1)
    BY <2>2
  <2> HIDE DEF h, Obeys
  <2> QED BY <2>3
<1>4. \A m \in 0 .. size - 1 : m \in T
  <2> HIDE DEF T, Obeys
  <2> QED BY <1>1, <1>2, <1>3, UpTo
<1>5. LastOperands(first, operands)
        = [n \in 1 .. size |-> IF n = 1 THEN operands[size]
              ELSE OperandThen(first, operands[size - (n - 1)], LastOperands(first, operands)[n - 1])]
  <2> DEFINE Follows(f) == f = [n \in 1 .. size |-> IF n = 1 THEN operands[size]
                                  ELSE OperandThen(first, operands[size - (n - 1)], f[n - 1])]
  <2>1. PICK f : Obeys(f, size - 1)
    <3>1. size - 1 \in 0 .. size - 1
      BY <1>1
    <3> HIDE DEF Obeys
    <3> QED BY <1>4, <3>1
  <2>2. Follows(f)
    BY <2>1
  <2>3. LastOperands(first, operands) = CHOOSE x : Follows(x)
    BY DEF LastOperands, OperandThen, AfterFirst, Continued, Continuations
  <2>4. Follows(CHOOSE x : Follows(x))
    <3> HIDE DEF Follows
    <3> QED BY <2>2
  <2> QED BY <2>3, <2>4
<1> HIDE DEF T, Obeys
<1>6. PICK last : last = LastOperands(first, operands)
  OBVIOUS
<1>7. last[1] = operands[size]
  BY <1>5, <1>6
<1>8. ASSUME NEW n \in 1 .. size - 1 PROVE last[n + 1] = OperandThen(first, operands[size - n], last[n])
  <2>1. n + 1 \in 1 .. size /\ n + 1 # 1 /\ (n + 1) - 1 = n
    OBVIOUS
  <2> QED BY <1>5, <1>6, <2>1
<1> QED BY <1>6, <1>7, <1>8 DEF LastOperandsAre

LEMMA ContinuationsAre ==
    ASSUME NEW found, IsFiniteSet(found), \A d \in found : IsFiniteSet(d.ends)
    PROVE  IsFiniteSet(Continuations(found))
<1> DEFINE F == [d \in found |-> d.ends]
<1>1. IsFiniteSet(UNION {F[d] : d \in found})
  <2>1. F = [d \in found |-> F[d]] /\ \A d \in found : IsFiniteSet(F[d])
    OBVIOUS
  <2> HIDE DEF F
  <2> QED BY <2>1, FiniteUnionOfImage
<1>2. UNION {F[d] : d \in found} = UNION {d.ends : d \in found}
  OBVIOUS
<1>3. IsFiniteSet(found \X UNION {d.ends : d \in found})
  BY <1>1, <1>2, FS_Product
<1> QED BY <1>3, FS_Subset DEF Continuations

LEMMA OperandAgain ==
    ASSUME NEW c, NEW e, NEW first, NEW P, NEW Q, SameRest(c, e, P, Q),
           NEW R, NEW S, SameRest(c, e, R, S)
    PROVE  SameRest(c, e, OperandThen(first, P, R), OperandThen(first, Q, S))
<1> SUFFICES ASSUME NEW at \in Steady(c, e), NEW refs \in Positive
             PROVE  FoundAgain(c, e, OperandThen(first, P, R)[at][refs], OperandThen(first, Q, S)[at][refs])
  BY DEF SameRest
<1>1. at \in Position /\ refs \in SUBSET Literal
  BY DEF Positive, Steady
<1>2. PICK r, s : r = P[at][refs] /\ s = Q[at][refs]
  OBVIOUS
<1>3. FoundAgain(c, e, r, s)
  BY <1>2 DEF SameRest
<1> DEFINE turns(nexts, rest) == [i \in DOMAIN nexts |-> Continued(nexts[i], rest)]
           nexts(x) == SetToSeq(Continuations(x.found))
<1>4. /\ OperandThen(first, P, R)[at][refs] = Also(r.deps, InTurn(first, turns(nexts(r), R)))
      /\ OperandThen(first, Q, S)[at][refs] = Also(s.deps, InTurn(first, turns(nexts(s), S)))
  BY <1>1, <1>2 DEF OperandThen, AfterFirst
<1>5. ASSUME r.deps \cap Seen(c, e) = {}
      PROVE  /\ FoundAgain(c, e, InTurn(first, turns(nexts(r), R)), InTurn(first, turns(nexts(s), S)))
             /\ \A x \in r.deps : x[1] # "NestedExpressionSubgraph"
  <2>1. /\ s.found = r.found /\ IsFiniteSet(r.found)
        /\ \A d \in r.found : d.refs \in Positive /\ d.ends \subseteq Steady(c, e) /\ IsFiniteSet(d.ends)
        /\ \A x \in r.deps : x[1] # "NestedExpressionSubgraph"
    BY <1>3, <1>5 DEF FoundAgain
  <2>2. PICK seq : seq = nexts(r)
    OBVIOUS
  <2>3. PICK n \in Nat : seq \in [1 .. n -> Continuations(r.found)] /\ Len(seq) = n
    BY <2>1, <2>2, ContinuationsAre, SetToSeqIs
  <2>4. ASSUME NEW i \in 1 .. n
        PROVE  /\ seq[i][2] \in Steady(c, e) /\ seq[i][1].refs \in Positive
    <3>1. seq[i] \in Continuations(r.found)
      BY <2>3
    <3>2. seq[i][1] \in r.found /\ seq[i][2] \in seq[i][1].ends
      BY <3>1 DEF Continuations
    <3> QED BY <2>1, <3>2
  <2>5. DOMAIN seq = 1 .. n
    BY <2>3
  <2>6. \A rest : /\ turns(seq, rest) = [i \in 1 .. n |-> turns(seq, rest)[i]]
                  /\ \A i \in 1 .. n : turns(seq, rest)[i] = Continued(seq[i], rest)
    BY <2>5
  <2>7. ASSUME NEW i \in 1 .. n PROVE FoundAgain(c, e, turns(seq, R)[i], turns(seq, S)[i])
    <3>1. FoundAgain(c, e, R[seq[i][2]][seq[i][1].refs], S[seq[i][2]][seq[i][1].refs])
      BY <2>4 DEF SameRest
    <3>2. FoundAgain(c, e, Continued(seq[i], R), Continued(seq[i], S))
      BY <3>1, WithFoundAgain DEF Continued
    <3> HIDE DEF turns
    <3> QED BY <2>6, <3>2
  <2>8. nexts(s) = seq
    BY <2>1, <2>2
  <2> HIDE DEF turns, nexts
  <2>9. Len(turns(seq, R)) = n /\ Len(turns(seq, S)) = n
    BY <2>6, LengthIs
  <2>10. FoundAgain(c, e, InTurn(first, turns(seq, R)), InTurn(first, turns(seq, S)))
    BY <2>7, <2>9, InTurnFoundAgain
  <2> QED BY <2>1, <2>2, <2>8, <2>10
<1> HIDE DEF turns, nexts
<1>6. CASE r.deps \cap Seen(c, e) = {}
  BY <1>4, <1>5, <1>6, AlsoFoundAgain
<1>7. CASE r.deps \cap Seen(c, e) # {}
  <2>1. r.deps \subseteq OperandThen(first, P, R)[at][refs].deps
    BY <1>4, FoundIs DEF Also
  <2> QED BY <1>7, <2>1 DEF FoundAgain
<1> QED BY <1>6, <1>7

LEMMA ConcatenationAgain ==
    ASSUME NEW c, NEW e, NEW first, NEW size \in Nat, size >= 1, NEW P, NEW Q,
           Len(P) = size, Len(Q) = size, \A i \in 1 .. size : SameRest(c, e, P[i], Q[i])
    PROVE  SameRest(c, e, Concatenation(first, P), Concatenation(first, Q))
<1>1. PICK a : a = LastOperands(first, P) /\ LastOperandsAre(first, P, size, a)
  BY LastOperandsDefined
<1>2. PICK b : b = LastOperands(first, Q) /\ LastOperandsAre(first, Q, size, b)
  BY LastOperandsDefined
<1> DEFINE N == {n \in 0 .. size - 1 : SameRest(c, e, a[n + 1], b[n + 1])}
<1>3. 0 \in N
  BY <1>1, <1>2 DEF LastOperandsAre
<1>4. ASSUME NEW n \in 0 .. (size - 1) - 1, n \in N PROVE n + 1 \in N
  <2>1. n + 1 \in 1 .. size - 1 /\ n + 1 \in 0 .. size - 1 /\ size - (n + 1) \in 1 .. size
    OBVIOUS
  <2>2. /\ a[(n + 1) + 1] = OperandThen(first, P[size - (n + 1)], a[n + 1])
        /\ b[(n + 1) + 1] = OperandThen(first, Q[size - (n + 1)], b[n + 1])
    BY <1>1, <1>2, <2>1 DEF LastOperandsAre
  <2>3. SameRest(c, e, P[size - (n + 1)], Q[size - (n + 1)]) /\ SameRest(c, e, a[n + 1], b[n + 1])
    BY <1>4, <2>1
  <2>4. SameRest(c, e, a[(n + 1) + 1], b[(n + 1) + 1])
    BY <2>2, <2>3, OperandAgain
  <2> QED BY <2>1, <2>4
<1>5. size - 1 \in Nat /\ (size - 1) + 1 = size /\ size - 1 \in 0 .. size - 1
  OBVIOUS
<1>6. \A n \in 0 .. size - 1 : n \in N
  <2> HIDE DEF N
  <2> QED BY <1>3, <1>4, <1>5, UpTo
<1>7. SameRest(c, e, a[size], b[size])
  BY <1>5, <1>6
<1> QED BY <1>1, <1>2, <1>7 DEF Concatenation

-----------------------------------------------------------------------------
(* Whole patterns. *)

(* The context in which a pattern is matched from a position. *)
LEMMA ContextIs ==
    ASSUME NEW g, NEW ids, NEW at
    PROVE  /\ Context(g, ids, NothingCached, at).graph = g
           /\ Context(g, ids, NothingCached, at).ids = ids
           /\ Context(g, ids, NothingCached, at).origin = at
BY DEF Context

LEMMA NeverFirst ==
    ASSUME NEW g, NEW h, NEW ids, NEW jds, NEW at
    PROVE  Context(g, ids, NothingCached, at).first = Context(h, jds, NothingCached, at).first
BY DEF Context

Operations(paths, c) == [i \in DOMAIN paths |-> LastItems(c, paths[i])[Len(paths[i])]]

LEMMA OperationsAre ==
    ASSUME NEW paths, IsLinear(paths)
    PROVE  \E size \in Nat :
              /\ size >= 1 /\ Len(paths) = size
              /\ \A i \in 1 .. size : paths[i] \in Seq(PathItem)
              /\ \A c : /\ Len(Operations(paths, c)) = size
                        /\ \A i \in 1 .. size :
                              Operations(paths, c)[i] = LastItems(c, paths[i])[Len(paths[i])]
<1>1. PICK size \in Nat : size = Len(paths)
  BY DEF IsLinear
<1>2. /\ size >= 1 /\ DOMAIN paths = 1 .. size
      /\ \A i \in 1 .. size : paths[i] \in Seq(PathItem)
  BY <1>1 DEF IsLinear
<1>3. \A c : /\ Operations(paths, c) = [i \in 1 .. size |-> Operations(paths, c)[i]]
             /\ \A i \in 1 .. size : Operations(paths, c)[i] = LastItems(c, paths[i])[Len(paths[i])]
  BY <1>2 DEF Operations
<1>4. \A c : Len(Operations(paths, c)) = size
  BY <1>3, LengthIs
<1> QED BY <1>1, <1>2, <1>3, <1>4

(* A pattern is found again, and names mean something. *)
Whole(paths, c) == Concatenation(FALSE, Operations(paths, c))

LEMMA WholeAgain ==
    ASSUME NEW paths, IsLinear(paths), NEW c, NEW e, Views(c, e)
    PROVE  SameRest(c, e, Whole(paths, c), Whole(paths, e))
<1>1. PICK size \in Nat :
         /\ size >= 1
         /\ \A i \in 1 .. size : paths[i] \in Seq(PathItem)
         /\ \A x : /\ Len(Operations(paths, x)) = size
                   /\ \A i \in 1 .. size :
                         Operations(paths, x)[i] = LastItems(x, paths[i])[Len(paths[i])]
  BY OperationsAre
<1>2. ASSUME NEW i \in 1 .. size
      PROVE  SameRest(c, e, Operations(paths, c)[i], Operations(paths, e)[i])
  <2>1. paths[i] \in Seq(PathItem)
    BY <1>1
  <2>2. SameRest(c, e, LastItems(c, paths[i])[Len(paths[i])], LastItems(e, paths[i])[Len(paths[i])])
    BY <2>1, PathAgain
  <2> QED BY <1>1, <2>2
<1> QED BY <1>1, <1>2, ConcatenationAgain DEF Whole

(* Nothing is said of names at first. *)
NoRefs == {}

LEMMA NoRefsArePositive == NoRefs \in Positive
BY DEF Positive, HasNegatives, NoRefs

LEMMA SameGraphSees ==
    ASSUME NEW c, NEW e, Views(c, e), e.graph = c.graph
    PROVE  Seen(c, e) = {} /\ c.origin \in Steady(c, e)
<1>1. c.graph \in GraphState
  BY DEF Views
<1>2. Seen(c, e) = {}
  BY <1>1, NothingObserved DEF Seen
<1> QED BY <1>2 DEF Views, Steady

(* There are no negatives to expand. *)
LEMMA ExpandNegativesIs ==
    ASSUME NEW g, NEW result, \A d \in result.found : d.refs \in Positive
    PROVE  /\ ExpandNegatives(g, result).found = result.found
           /\ ExpandNegatives(g, result).deps = result.deps
<1>1. Narrowed(result) = {}
  BY DEF Narrowed, Positive
<1>2. Expanded(g, result) = result.found
  BY <1>1 DEF Expanded
<1>3. \E deps : ExpandNegatives(g, result) = Found(Expanded(g, result), result.deps \cup deps) /\ deps = {}
  BY <1>1 DEF ExpandNegatives
<1> QED BY <1>2, <1>3, FoundIs

LEMMA MatchLinearIs ==
    ASSUME NEW paths, IsLinear(paths), NEW g \in GraphState, NEW ids \in Ids(g), NEW at \in Position,
           NEW c, c = Context(g, ids, NothingCached, at)
    PROVE  /\ Views(c, c)
           /\ MatchLinear(paths, g, ids, at).found = Whole(paths, c)[at][NoRefs].found
           /\ MatchLinear(paths, g, ids, at).deps = Whole(paths, c)[at][NoRefs].deps
           /\ NoNested(MatchLinear(paths, g, ids, at).deps)
<1>1. c = Context(g, ids, NothingCached, at)
  OBVIOUS
<1>2. c.graph = g /\ c.ids = ids /\ c.origin = at
  BY <1>1, ContextIs
<1>3. Views(c, c)
  BY <1>2 DEF Views
<1>4. FoundAgain(c, c, Whole(paths, c)[at][NoRefs], Whole(paths, c)[at][NoRefs])
  BY <1>2, <1>3, SameGraphSees, WholeAgain, NoRefsArePositive DEF SameRest
<1>5. /\ \A d \in Whole(paths, c)[at][NoRefs].found : d.refs \in Positive
      /\ NoNested(Whole(paths, c)[at][NoRefs].deps)
  BY <1>3, <1>4, SameGraphSees DEF FoundAgain, NoNested
<1>6. MatchLinear(paths, g, ids, at) = ExpandNegatives(g, Whole(paths, c)[at][NoRefs])
  BY <1>1 DEF MatchLinear, Whole, Operations, NoRefs
<1> QED BY <1>3, <1>5, <1>6, ExpandNegativesIs

(* From one graph to another, and whatever has an ID, a pattern is matched *)
(* the same if nothing is seen of what it depends on.                      *)
LEMMA LinearAgain ==
    ASSUME NEW paths, IsLinear(paths), NEW g \in GraphState, NEW h \in GraphState,
           NEW ids \in Ids(g), NEW jds \in Ids(h), NEW at \in Position,
           at[1] = "orbit" \/ at[2] \notin h.vertices \ g.vertices,
           Observations(Difference(g, h)) \cap MatchLinear(paths, g, ids, at).deps = {}
    PROVE  MatchLinear(paths, h, jds, at).found = MatchLinear(paths, g, ids, at).found
<1>1. PICK c : c = Context(g, ids, NothingCached, at)
  OBVIOUS
<1>2. PICK e : e = Context(h, jds, NothingCached, at)
  OBVIOUS
<1>3. /\ c.graph = g /\ c.ids = ids /\ c.origin = at
      /\ e.graph = h /\ e.ids = jds /\ e.origin = at
  BY <1>1, <1>2, ContextIs
<1>4. Views(c, e)
  BY <1>1, <1>2, <1>3, NeverFirst DEF Views
<1>5. at \in Steady(c, e)
  BY <1>3 DEF Steady
<1>6. FoundAgain(c, e, Whole(paths, c)[at][NoRefs], Whole(paths, e)[at][NoRefs])
  BY <1>4, <1>5, WholeAgain, NoRefsArePositive DEF SameRest
<1>7. /\ MatchLinear(paths, g, ids, at).found = Whole(paths, c)[at][NoRefs].found
      /\ MatchLinear(paths, g, ids, at).deps = Whole(paths, c)[at][NoRefs].deps
  BY <1>1, MatchLinearIs
<1>8. MatchLinear(paths, h, jds, at).found = Whole(paths, e)[at][NoRefs].found
  BY <1>2, MatchLinearIs
<1>9. Seen(c, e) = Observations(Difference(g, h))
  BY <1>3 DEF Seen
<1> QED BY <1>6, <1>7, <1>8, <1>9 DEF FoundAgain

-----------------------------------------------------------------------------
(* Where patterns begin. *)

(* Where, in a graph, a pattern that begins so can be found at all. *)
StartsAlong(b, f, v) ==
    \/ ~StartsBackward(b) /\ f[1] = v
    \/ (StartsBackward(b) \/ b.direction = "any") /\ f[3] = v

BeginsAt(b, g, at) ==
    \/ b.op = "vertex" /\ at = Core(at[2]) /\ at[2] \in g.vertices /\ Satisfies(at[2], b.test)
    \/ /\ b.op = "edge" /\ at = Orbit(at[2])
       /\ \E f \in Labelled(g.edges, StartLabels(b)) : StartsAlong(b, f, at[2])

LEMMA WaysBegin ==
    ASSUME NEW c, NEW edge \in EdgeItem, NEW v,
           \E i \in DOMAIN Ways(c, edge, v) : Ways(c, edge, v)[i].steps # {}
    PROVE  \E f \in Labelled(c.graph.edges, StartLabels(edge)) : StartsAlong(edge, f, v)
<1>1. edge.direction = "any" => edge.forward = edge.backward
  BY DEF EdgeItem
<1>2. /\ Ahead(c, edge, v).steps # {} => Out(c, edge, v) # {}
      /\ Behind(c, edge, v).steps # {} => Into(c, edge, v) # {}
      /\ Pairs(edge, v, Couples(c, edge, v)).steps # {} => Out(c, edge, v) # {} /\ Into(c, edge, v) # {}
  BY DEF Ahead, Behind, Pairs, Couples
<1>3. /\ \A f \in Out(c, edge, v) : f \in Labelled(c.graph.edges, edge.forward) /\ f[1] = v
      /\ \A f \in Into(c, edge, v) : f \in Labelled(c.graph.edges, edge.backward) /\ f[3] = v
  BY DEF Out, Into
<1>4. CASE edge.direction = "forward"
  <2>1. Ways(c, edge, v) = <<Ahead(c, edge, v)>>
    BY <1>4, WaysAre
  <2>2. Out(c, edge, v) # {}
    BY <1>2, <2>1
  <2>3. ~StartsBackward(edge) /\ StartLabels(edge) = edge.forward
    BY <1>4 DEF StartsBackward, StartLabels
  <2> QED BY <1>3, <2>2, <2>3 DEF StartsAlong
<1>5. CASE edge.direction = "backward"
  <2>1. Ways(c, edge, v) = <<Behind(c, edge, v)>>
    BY <1>5, WaysAre
  <2>2. Into(c, edge, v) # {}
    BY <1>2, <2>1
  <2>3. StartsBackward(edge) /\ StartLabels(edge) = edge.backward
    BY <1>5 DEF StartsBackward, StartLabels
  <2> QED BY <1>3, <2>2, <2>3 DEF StartsAlong
<1>6. CASE edge.direction = "any"
  <2>1. Ways(c, edge, v) = <<Ahead(c, edge, v), Behind(c, edge, v)>>
    BY <1>6, WaysAre
  <2>2. Out(c, edge, v) # {} \/ Into(c, edge, v) # {}
    <3>1. PICK i \in DOMAIN Ways(c, edge, v) : Ways(c, edge, v)[i].steps # {}
      OBVIOUS
    <3>2. i \in {1, 2}
      BY <2>1, <3>1
    <3>3. Ways(c, edge, v)[i] \in {Ahead(c, edge, v), Behind(c, edge, v)}
      BY <2>1, <3>2
    <3> QED BY <1>2, <3>1, <3>3
  <2>3. ~StartsBackward(edge) /\ StartLabels(edge) = edge.forward
    BY <1>6 DEF StartsBackward, StartLabels
  <2> QED BY <1>1, <1>3, <1>6, <2>2, <2>3 DEF StartsAlong
<1>7. CASE edge.direction \in {"both", "both symmetric"}
  <2>1. Ways(c, edge, v) = <<Pairs(edge, v, Couples(c, edge, v))>>
    BY <1>7, WaysAre
  <2>2. Out(c, edge, v) # {} /\ Into(c, edge, v) # {}
    BY <1>2, <2>1
  <2>3. CASE StartsBackward(edge)
    <3>1. StartLabels(edge) = edge.backward
      BY <2>3 DEF StartLabels
    <3> QED BY <1>3, <2>2, <2>3, <3>1 DEF StartsAlong
  <2>4. CASE ~StartsBackward(edge)
    <3>1. StartLabels(edge) = edge.forward
      BY <2>4 DEF StartLabels
    <3> QED BY <1>3, <2>2, <2>4, <3>1 DEF StartsAlong
  <2> QED BY <2>3, <2>4
<1>8. edge.direction \in {"forward", "backward", "any", "both", "both symmetric"}
  BY DEF EdgeItem
<1> QED BY <1>4, <1>5, <1>6, <1>7, <1>8

LEMMA EdgeThenFinds ==
    ASSUME NEW c, Views(c, c), NEW edge \in EdgeItem, NEW rest, NEW at \in Position, NEW refs \in Positive,
           EdgeThen(c, edge, rest)[at][refs].found # {}
    PROVE  at[1] = "orbit" /\ \E i \in DOMAIN Ways(c, edge, at[2]) : Ways(c, edge, at[2])[i].steps # {}
<1>1. EdgeThen(c, edge, rest)[at][refs] = IF at[1] = "orbit"
            THEN InTurn(c.first, Followed(c, Ways(c, edge, at[2]), refs, rest)) ELSE Nothing
  BY DEF EdgeThen, Followed, Positive
<1>2. at[1] = "orbit" /\ InTurn(c.first, Followed(c, Ways(c, edge, at[2]), refs, rest)).found # {}
  BY <1>1, FoundIs DEF Nothing
<1> DEFINE W == Ways(c, edge, at[2])
<1>3. PICK n \in Nat : /\ W = [i \in 1 .. n |-> W[i]]
                       /\ \A i \in 1 .. n : SameWay(c, c, W[i], W[i])
  BY WaysAgain
<1> HIDE DEF W
<1>4. \A i \in 1 .. n : StepsIn(c.graph, W[i])
  BY <1>3 DEF SameWay
<1>5. InTurn(c.first, Followed(c, W, refs, rest)).found # {}
  BY <1>2 DEF W
<1>6. \E i \in 1 .. n : W[i].steps # {}
  BY <1>3, <1>4, <1>5, FollowedFinds
<1>7. DOMAIN W = 1 .. n
  BY <1>3
<1> QED BY <1>2, <1>6, <1>7 DEF W

LEMMA ItemBegins ==
    ASSUME NEW c, Views(c, c), NEW item \in PathItem, NEW rest, NEW at \in Position, NEW refs \in Positive,
           ItemThen(c, item, rest)[at][refs].found # {}
    PROVE  BeginsAt(IF item.op = "edge to" THEN item.edge ELSE item, c.graph, at)
<1>1. at = <<at[1], at[2]>>
  BY DEF Position
<1>2. CASE item \in VertexItem
  <2>1. item.op = "vertex"
    BY <1>2 DEF VertexItem
  <2>2. VertexThen(c, item, rest)[at][refs].found # {}
    BY <2>1 DEF ItemThen
  <2>3. VertexThen(c, item, rest)[at][refs] =
           IF AtVertex(c, item, at, refs) THEN OnVertex(c, item, rest, at, refs) ELSE Nothing
    BY VertexThenIs
  <2>4. AtVertex(c, item, at, refs)
    BY <2>2, <2>3, FoundIs DEF Nothing
  <2> QED BY <2>1, <2>4 DEF BeginsAt, AtVertex
<1>3. CASE item \in EdgeItem
  <2>1. item.op = "edge"
    BY <1>3 DEF EdgeItem
  <2>2. EdgeThen(c, item, rest)[at][refs].found # {}
    BY <2>1 DEF ItemThen
  <2>3. at[1] = "orbit" /\ \E f \in Labelled(c.graph.edges, StartLabels(item)) : StartsAlong(item, f, at[2])
    BY <1>3, <2>2, EdgeThenFinds, WaysBegin
  <2>4. at = Orbit(at[2])
    BY <1>1, <2>3 DEF Orbit
  <2> QED BY <2>1, <2>3, <2>4 DEF BeginsAt
<1>4. CASE item \in EdgeToItem
  <2>1. item.op = "edge to" /\ item.edge \in EdgeItem /\ item.edge.op = "edge"
    BY <1>4 DEF EdgeToItem, EdgeItem
  <2> DEFINE w == OneOf(Meant(item, refs))
             r == EdgeToThen(c, item, rest)[at][refs]
  <2>2. EdgeToThen(c, item, rest)[at][refs].found # {}
    BY <2>1 DEF ItemThen
  <2>3. r = IF at[1] = "core" THEN Nothing
              ELSE IF IsAbsent(c, item) THEN ToNobody(item)
              ELSE IF Meant(item, refs) = {} THEN ToAny(c, item, rest, at, refs)
              ELSE ToVertex(c, item, rest, at, refs, w)
    BY EdgeToThenIs
  <2>4. Nothing.found = {} /\ ToNobody(item).found = {}
    BY FoundIs DEF Nothing, ToNobody
  <2>5. /\ at[1] # "core"
        /\ \/ ToAny(c, item, rest, at, refs).found # {}
           \/ ToVertex(c, item, rest, at, refs, w).found # {}
    <3> HIDE DEF w
    <3> QED BY <2>2, <2>3, <2>4
  <2> HIDE DEF w, r
  <2>6. at[1] = "orbit"
    BY <2>5, PositionKinds
  <2>7. \E i \in DOMAIN Ways(c, item.edge, at[2]) : Ways(c, item.edge, at[2])[i].steps # {}
    <3>1. CASE ToAny(c, item, rest, at, refs).found # {}
      <4>1. PICK after : after = VertexThen(c, item.vertex, rest)
        OBVIOUS
      <4>2. PICK edge : edge = item.edge /\ edge \in EdgeItem
        BY <2>1
      <4>3. EdgeThen(c, edge, after)[at][refs].found # {}
        BY <3>1, <4>1, <4>2 DEF ToAny
      <4>4. \E i \in DOMAIN Ways(c, edge, at[2]) : Ways(c, edge, at[2])[i].steps # {}
        BY <4>2, <4>3, EdgeThenFinds
      <4> QED BY <4>2, <4>4
    <3>2. CASE ToVertex(c, item, rest, at, refs, w).found # {}
      BY <1>4, <3>2, ToVertexFinds DEF Views
    <3> QED BY <2>5, <3>1, <3>2
  <2>8. \E f \in Labelled(c.graph.edges, StartLabels(item.edge)) : StartsAlong(item.edge, f, at[2])
    BY <2>1, <2>7, WaysBegin
  <2>9. at = Orbit(at[2])
    BY <1>1, <2>6 DEF Orbit
  <2> QED BY <2>1, <2>8, <2>9 DEF BeginsAt
<1> QED BY <1>2, <1>3, <1>4 DEF PathItem

LEMMA ConcatenationFinds ==
    ASSUME NEW first, NEW size \in Nat, size >= 1, NEW P, Len(P) = size,
           NEW at \in Position, NEW refs \in Positive,
           IsFiniteSet(P[1][at][refs].found), \A d \in P[1][at][refs].found : IsFiniteSet(d.ends),
           Concatenation(first, P)[at][refs].found # {}
    PROVE  P[1][at][refs].found # {}
<1>1. PICK a : a = LastOperands(first, P) /\ LastOperandsAre(first, P, size, a)
  BY LastOperandsDefined
<1>2. a[size][at][refs].found # {}
  BY <1>1 DEF Concatenation
<1>3. CASE size = 1
  BY <1>1, <1>2, <1>3 DEF LastOperandsAre
<1>4. CASE size # 1
  <2>1. size - 1 \in 1 .. size - 1 /\ (size - 1) + 1 = size /\ size - (size - 1) = 1
    BY <1>4
  <2>2. a[size] = OperandThen(first, P[1], a[size - 1])
    BY <1>1, <2>1 DEF LastOperandsAre
  <2>3. PICK r : r = P[1][at][refs]
    OBVIOUS
  <2>4. refs \in SUBSET Literal
    BY DEF Positive
  <2> DEFINE turns(nexts, rest) == [i \in DOMAIN nexts |-> Continued(nexts[i], rest)]
  <2>5. PICK nexts : nexts = SetToSeq(Continuations(r.found))
    OBVIOUS
  <2>6. a[size][at][refs] = Also(r.deps, InTurn(first, turns(nexts, a[size - 1])))
    BY <2>2, <2>3, <2>4, <2>5 DEF OperandThen, AfterFirst
  <2>7. PICK n \in Nat : nexts \in [1 .. n -> Continuations(r.found)] /\ Len(nexts) = n
    BY <2>3, <2>5, ContinuationsAre, SetToSeqIs
  <2>8. turns(nexts, a[size - 1]) = [i \in 1 .. n |-> turns(nexts, a[size - 1])[i]]
    BY <2>7
  <2> HIDE DEF turns
  <2>9. Len(turns(nexts, a[size - 1])) = n
    BY <2>8, LengthIs
  <2>10. InTurn(first, turns(nexts, a[size - 1])).found # {}
    BY <1>2, <2>6, AlsoFinds
  <2>11. PICK i \in 1 .. n : turns(nexts, a[size - 1])[i].found # {}
    BY <2>9, <2>10, InTurnFinds
  <2>12. nexts[i] \in Continuations(r.found)
    BY <2>7
  <2>13. r.found # {}
    BY <2>12 DEF Continuations
  <2> QED BY <2>3, <2>13
<1> QED BY <1>3, <1>4

LEMMA LinearBegins ==
    ASSUME NEW paths, IsLinear(paths), NEW g \in GraphState, NEW ids \in Ids(g), NEW at \in Position,
           MatchLinear(paths, g, ids, at).found # {}
    PROVE  BeginsAt(Beginning(paths), g, at)
<1>1. PICK c : c = Context(g, ids, NothingCached, at)
  OBVIOUS
<1>2. c.graph = g /\ c.origin = at /\ Views(c, c)
  <2>1. Views(c, c)
    BY <1>1, MatchLinearIs
  <2> QED BY <1>1, <2>1, ContextIs
<1>3. PICK size \in Nat :
         /\ size >= 1 /\ Len(paths) = size
         /\ \A i \in 1 .. size : paths[i] \in Seq(PathItem)
         /\ \A x : /\ Len(Operations(paths, x)) = size
                   /\ \A i \in 1 .. size :
                         Operations(paths, x)[i] = LastItems(x, paths[i])[Len(paths[i])]
  BY OperationsAre
<1>4. PICK items : items = paths[1] /\ items \in Seq(PathItem) /\ items # <<>>
  BY <1>3 DEF IsLinear
<1>5. PICK n \in Nat : n = Len(items) /\ n >= 1 /\ items[1] \in PathItem
  BY <1>4
<1>6. PICK P : P = Operations(paths, c)
  OBVIOUS
<1>7. P[1] = LastItems(c, items)[n] /\ Len(P) = size
  BY <1>3, <1>4, <1>5, <1>6
<1>8. FoundAgain(c, c, P[1][at][NoRefs], P[1][at][NoRefs])
  BY <1>2, <1>4, <1>5, <1>7, PathAgain, SameGraphSees, NoRefsArePositive DEF SameRest
<1>9. IsFiniteSet(P[1][at][NoRefs].found) /\ \A d \in P[1][at][NoRefs].found : IsFiniteSet(d.ends)
  BY <1>2, <1>8, SameGraphSees DEF FoundAgain
<1>10. Concatenation(FALSE, P)[at][NoRefs].found # {}
  <2>1. MatchLinear(paths, g, ids, at).found = Whole(paths, c)[at][NoRefs].found
    BY <1>1, MatchLinearIs
  <2> QED BY <1>6, <2>1 DEF Whole
<1>11. P[1][at][NoRefs].found # {}
  <2>1. PICK first, refs : first = FALSE /\ refs = NoRefs
    OBVIOUS
  <2>2. /\ size \in Nat /\ size >= 1 /\ Len(P) = size /\ refs \in Positive
        /\ IsFiniteSet(P[1][at][refs].found) /\ \A d \in P[1][at][refs].found : IsFiniteSet(d.ends)
    BY <1>3, <1>7, <1>9, <2>1, NoRefsArePositive
  <2>3. Concatenation(first, P)[at][refs].found # {}
    BY <1>10, <2>1
  <2>4. P[1][at][refs].found # {}
    BY <2>2, <2>3, ConcatenationFinds
  <2> QED BY <2>1, <2>4
<1>12. PICK last : last = LastItems(c, items) /\ LastItemsAre(c, items, n, last)
  BY <1>5, LastItemsDefined
<1>13. last[n] = ItemThen(c, items[1], last[n - 1])
  <2>1. n - 1 \in 0 .. n - 1 /\ (n - 1) + 1 = n /\ n - (n - 1) = 1
    BY <1>5
  <2> QED BY <1>12, <2>1 DEF LastItemsAre
<1>14. ItemThen(c, items[1], last[n - 1])[at][NoRefs].found # {}
  BY <1>7, <1>11, <1>12, <1>13
<1>15. BeginsAt(IF items[1].op = "edge to" THEN items[1].edge ELSE items[1], g, at)
  BY <1>2, <1>5, <1>14, NoRefsArePositive, ItemBegins
<1> QED BY <1>4, <1>15 DEF Beginning

LEMMA BeginningIs ==
    ASSUME NEW paths, IsLinear(paths)
    PROVE  \/ Beginning(paths).op = "vertex" /\ Beginning(paths) \in VertexItem /\ Beginning(paths).test \notin Vertex
           \/ Beginning(paths).op = "edge" /\ Beginning(paths) \in EdgeItem
<1>1. PICK item : item = paths[1][1] /\ item \in PathItem
  <2>1. paths \in Seq(Seq(PathItem)) /\ paths # <<>> /\ paths[1] # <<>>
    BY DEF IsLinear
  <2>2. paths[1] \in Seq(PathItem)
    BY <2>1
  <2>3. paths[1][1] \in PathItem
    BY <2>1, <2>2
  <2> QED BY <2>3
<1>2. CASE item \in VertexItem
  <2>1. item.op = "vertex"
    BY <1>2 DEF VertexItem
  <2> QED BY <1>1, <1>2, <2>1 DEF Beginning, IsLinear
<1>3. CASE item \in EdgeItem
  <2>1. item.op = "edge"
    BY <1>3 DEF EdgeItem
  <2> QED BY <1>1, <1>3, <2>1 DEF Beginning
<1>4. CASE item \in EdgeToItem
  <2>1. item.op = "edge to" /\ item.edge \in EdgeItem /\ item.edge.op = "edge"
    BY <1>4 DEF EdgeToItem, EdgeItem
  <2> QED BY <1>1, <2>1 DEF Beginning
<1> QED BY <1>1, <1>2, <1>3, <1>4 DEF PathItem

LEMMA PositionsAtAre ==
    ASSUME NEW paths, IsLinear(paths), NEW b, b = Beginning(paths), NEW g, NEW ids
    PROVE  /\ b.op = "vertex" => PositionsAt(b, g, ids) = {Core(v) : v \in {w \in g.vertices : Satisfies(w, b.test)}}
           /\ b.op = "edge" /\ StartLabels(b) = Anything => PositionsAt(b, g, ids) = {Orbit(v) : v \in g.vertices}
           /\ b.op = "edge" /\ StartLabels(b) # Anything =>
                \A at : at \in PositionsAt(b, g, ids) <=>
                           \E f \in Labelled(g.edges, StartLabels(b)) :
                              \/ ~StartsBackward(b) /\ at = Orbit(f[1])
                              \/ (StartsBackward(b) \/ b.direction = "any") /\ at = Orbit(f[3])
<1>1. b.op = "vertex" => b.test \notin Vertex
  BY BeginningIs
<1>2. CASE b.op = "vertex"
  BY <1>1, <1>2 DEF PositionsAt
<1>3. CASE b.op = "edge" /\ StartLabels(b) = Anything
  BY <1>3 DEF PositionsAt
<1>4. CASE b.op = "edge" /\ StartLabels(b) # Anything
  <2> DEFINE edges == Labelled(g.edges, StartLabels(b))
  <2>1. PositionsAt(b, g, ids) = {Orbit(f[1]) : f \in {h \in edges : ~StartsBackward(b)}}
                  \cup {Orbit(f[3]) : f \in {h \in edges : StartsBackward(b) \/ b.direction = "any"}}
    BY <1>4 DEF PositionsAt
  <2> QED BY <1>4, <2>1
<1> QED BY <1>2, <1>3, <1>4

LEMMA BeginsThere ==
    ASSUME NEW paths, IsLinear(paths), NEW b, b = Beginning(paths),
           NEW g \in GraphState, NEW ids, NEW at, BeginsAt(b, g, at)
    PROVE  at[2] \in g.vertices /\ at \in PositionsAt(b, g, ids)
<1>1. CASE b.op = "vertex"
  BY <1>1, PositionsAtAre DEF BeginsAt
<1>2. CASE b.op = "edge"
  <2>1. PICK f \in Labelled(g.edges, StartLabels(b)) : StartsAlong(b, f, at[2])
    BY <1>2 DEF BeginsAt
  <2>2. f[1] \in g.vertices /\ f[3] \in g.vertices
    BY EdgesOf DEF Labelled
  <2>3. at[2] \in g.vertices /\ at = Orbit(at[2])
    BY <1>2, <2>1, <2>2 DEF StartsAlong, BeginsAt
  <2>4. CASE StartLabels(b) = Anything
    BY <1>2, <2>3, <2>4, PositionsAtAre
  <2>5. CASE StartLabels(b) # Anything
    BY <1>2, <2>1, <2>3, <2>5, PositionsAtAre DEF StartsAlong
  <2> QED BY <2>3, <2>4, <2>5
<1> QED BY <1>1, <1>2, BeginningIs

LEMMA PositionsAreThere ==
    ASSUME NEW paths, IsLinear(paths), NEW g, NEW ids,
           NEW at \in PositionsAt(Beginning(paths), g, ids)
    PROVE  at[1] = "orbit" \/ at[2] \in g.vertices
<1> DEFINE b == Beginning(paths)
<1>1. \A v : Orbit(v)[1] = "orbit" /\ Core(v)[2] = v
  BY DEF Orbit, Core
<1>2. CASE b.op = "vertex"
  <2>1. PositionsAt(b, g, ids) = {Core(v) : v \in {w \in g.vertices : Satisfies(w, b.test)}}
    BY <1>2, PositionsAtAre
  <2> QED BY <1>1, <2>1
<1>3. CASE b.op = "edge" /\ StartLabels(b) = Anything
  <2>1. PositionsAt(b, g, ids) = {Orbit(v) : v \in g.vertices}
    BY <1>3, PositionsAtAre
  <2> QED BY <1>1, <2>1
<1>4. CASE b.op = "edge" /\ StartLabels(b) # Anything
  <2>1. \E v : at = Orbit(v)
    BY <1>4, PositionsAtAre
  <2> QED BY <1>1, <2>1
<1> QED BY <1>2, <1>3, <1>4, BeginningIs

(* Where a pattern begins that did not before, it is announced to. *)
LEMMA BeginsAnnounced ==
    ASSUME NEW paths, IsLinear(paths), NEW b, b = Beginning(paths),
           NEW g \in GraphState, NEW h \in GraphState, NEW ids, NEW before, NEW at \in Position,
           BeginsAt(b, h, at), at \notin PositionsAt(b, g, ids)
    PROVE  \E pair \in PositionDepsAt(b, before) :
              /\ pair[1] \in Observations(Difference(g, h))
              /\ at \in PositionsOf(pair[2], pair[1], Difference(g, h))
<1>1. PICK c : c = Difference(g, h)
  OBVIOUS
<1>2. c.addedVertices = h.vertices \ g.vertices /\ c.addedEdges = h.edges \ g.edges
  BY <1>1, DifferenceOfGraphs
<1>3. /\ \A d : PositionsOf(EveryAddedVertex, d, c) = {Core(v) : v \in AddedVertices(d, c)}
      /\ \A d : PositionsOf(EveryAddedEdge, d, c)
                  = {Orbit(v) : v \in UNION {{f[1], f[3]} : f \in AddedEdges(d, c)}}
  BY PositionsOfIs
<1>4. CASE b.op = "vertex"
  <2>1. /\ b.test \notin Vertex /\ b.test \in TypeName \cup {Anything}
        /\ at = Core(at[2]) /\ at[2] \in h.vertices /\ Satisfies(at[2], b.test) /\ at[2] \in Vertex
    <3>1. b \in VertexItem /\ b.test \notin Vertex
      BY <1>4, BeginningIs
    <3>2. b.test \in TypeName \cup {Anything}
      BY <3>1 DEF VertexItem
    <3> QED BY <1>4, <3>1, <3>2 DEF BeginsAt, Position
  <2>2. at[2] \in c.addedVertices
    BY <1>2, <1>4, <2>1, PositionsAtAre
  <2>3. CASE b.test = Anything
    <3>1. PositionDepsAt(b, before) = {<<NewVertex, EveryAddedVertex>>}
      BY <1>4, <2>1, <2>3, TestAssumption DEF PositionDepsAt
    <3>2. NewVertex \in Observations(c)
      BY <2>2, ObservationsAre
    <3>3. at[2] \in AddedVertices(NewVertex, c)
      BY <2>2 DEF AddedVertices
    <3>4. at \in PositionsOf(EveryAddedVertex, NewVertex, c)
      BY <1>3, <2>1, <3>3
    <3> QED BY <1>1, <3>1, <3>2, <3>4
  <2>4. CASE b.test \in TypeName
    <3>1. PositionDepsAt(b, before) = {<<NewVertexOfType(b.test), EveryAddedVertex>>}
      BY <1>4, <2>1, <2>4, TestAssumption DEF PositionDepsAt
    <3>2. TypeOf[at[2]] = b.test
      BY <2>1, <2>4, TestAssumption DEF Satisfies
    <3>3. NewVertexOfType(b.test) \in Observations(c)
      BY <2>2, <3>2, ObservationsAre
    <3>4. at[2] \in AddedVertices(NewVertexOfType(b.test), c)
      BY <2>2, <3>2 DEF AddedVertices
    <3>5. at \in PositionsOf(EveryAddedVertex, NewVertexOfType(b.test), c)
      BY <1>3, <2>1, <3>4
    <3> QED BY <1>1, <3>1, <3>3, <3>5
  <2> QED BY <2>1, <2>3, <2>4
<1>5. CASE b.op = "edge"
  <2>1. PICK f \in Labelled(h.edges, StartLabels(b)) : StartsAlong(b, f, at[2])
    BY <1>5 DEF BeginsAt
  <2>2. /\ at = Orbit(at[2]) /\ f \in h.edges /\ at[2] \in {f[1], f[3]}
        /\ StartLabels(b) = Anything \/ f[2] \in StartLabels(b)
    BY <1>5, <2>1 DEF BeginsAt, StartsAlong, Labelled
  <2>3. f \notin g.edges
    <3>1. SUFFICES ASSUME f \in g.edges PROVE FALSE
      OBVIOUS
    <3>2. f \in Labelled(g.edges, StartLabels(b))
      BY <2>1, <3>1 DEF Labelled
    <3>3. BeginsAt(b, g, at)
      BY <1>5, <2>1, <2>2, <3>2 DEF BeginsAt
    <3> QED BY <3>3, BeginsThere
  <2>4. f \in c.addedEdges
    BY <1>2, <2>2, <2>3
  <2>5. CASE StartLabels(b) = Anything
    <3>1. PositionDepsAt(b, before) = {<<NewEdge, EveryAddedEdge>>}
      BY <1>5, <2>5 DEF PositionDepsAt
    <3>2. NewEdge \in Observations(c)
      BY <2>4, ObservationsAre
    <3>3. f \in AddedEdges(NewEdge, c)
      BY <2>4 DEF AddedEdges
    <3>4. at \in PositionsOf(EveryAddedEdge, NewEdge, c)
      BY <1>3, <2>2, <3>3
    <3> QED BY <1>1, <3>1, <3>2, <3>4
  <2>6. CASE StartLabels(b) # Anything
    <3>1. <<NewEdgeWithLabel(f[2]), EveryAddedEdge>> \in PositionDepsAt(b, before)
      <4>1. PositionDepsAt(b, before) = {<<NewEdgeWithLabel(l), EveryAddedEdge>> : l \in StartLabels(b)}
        BY <1>5, <2>6 DEF PositionDepsAt
      <4> QED BY <2>2, <2>6, <4>1
    <3>2. NewEdgeWithLabel(f[2]) \in Observations(c)
      BY <2>4, ObservationsAre
    <3>3. f \in AddedEdges(NewEdgeWithLabel(f[2]), c)
      BY <2>4 DEF AddedEdges
    <3>4. at \in PositionsOf(EveryAddedEdge, NewEdgeWithLabel(f[2]), c)
      BY <1>3, <2>2, <3>3
    <3> QED BY <1>1, <3>1, <3>2, <3>4
  <2> QED BY <2>5, <2>6
<1> QED BY <1>4, <1>5, BeginningIs

LEMMA NothingToCache ==
    ASSUME NEW low, NEW g, NEW stale
    PROVE  CacheOf({}, low, g, stale) = Uncached
BY DEF CacheOf, Uncached, EmptyRegistry

(* Patterns that are vertices and edges one after the other are matched    *)
(* soundly: whatever changes in a graph, from a position of which no dep is *)
(* observed there is nothing else to find, and what there is to find from  *)
(* positions that were none before is announced (matcher.cpp,              *)
(* start_positions.cpp).                                                   *)
THEOREM LinearMatchingIsSound ==
    ASSUME NEW paths, \A o \in Observer : IsLinear(paths[o]) /\ Watches(o, paths[o])
    PROVE  SoundMatching({})
<1>1. SoundNesting({})
  BY DEF SoundNesting
<1>2. ASSUME NEW o \in Observer, NEW g \in GraphState, NEW ids \in Ids(g), NEW at \in Position
      PROVE  SoundFrom(o, {}, g, ids, at)
  <2> DEFINE p == PatternOf[o]
             path == paths[o]
             begin == Beginning(path)
             deps == Deps(p, g, ids, Uncached, at)
             found(x, jds) == MatchLinear(path, x, jds, at).found
  <2>1. IsLinear(path) /\ Watches(o, path)
    OBVIOUS
  <2>2. \A x \in GraphState : Vertex \in Ids(x)
    BY GraphStateIs DEF Ids
  <2>3. /\ \A x \in GraphState : Query(p, x, at) = SubgraphsFrom(at, found(x, Vertex))
        /\ Match(p, g, ids, Uncached, at) = SubgraphsFrom(at, found(g, ids))
        /\ deps = MatchLinear(path, g, ids, at).deps
        /\ Starts(p, g, ids) = PositionsAt(begin, g, ids)
        /\ \A before \in SUBSET ids : StartDeps(p, before) = PositionDepsAt(begin, before)
    <3>1. ids \in SUBSET Vertex
      BY DEF Ids
    <3> QED BY <2>1, <3>1 DEF Watches
  <2> HIDE DEF p, path, begin, deps
  <2>4. found(g, ids) = found(g, Vertex)
    <3>1. Observations(Difference(g, g)) = {}
      BY NothingObserved
    <3> QED BY <2>1, <2>2, <3>1, LinearAgain
  <2>5. ASSUME NEW x \in GraphState, found(x, Vertex) # {}
        PROVE  BeginsAt(begin, x, at) /\ at[2] \in x.vertices
    <3>1. BeginsAt(begin, x, at)
      BY <2>1, <2>2, <2>5, LinearBegins DEF begin
    <3> QED BY <2>1, <3>1, BeginsThere DEF begin
  <2>6. \A x \in GraphState : found(x, Vertex) = {} => Query(p, x, at) = {}
    BY <2>3 DEF SubgraphsFrom
  <2>7. \A s \in Query(p, g, at) : s.start = at /\ at[2] \in g.vertices
    <3>1. ASSUME NEW s \in Query(p, g, at) PROVE s.start = at
      BY <2>3 DEF SubgraphsFrom
    <3> QED BY <2>5, <2>6, <3>1
  <2>8. NoNested(deps)
    BY <2>1, <2>3, MatchLinearIs
  <2>9. ASSUME NEW h \in GraphState, NEW before \in SUBSET ids,
               ~Announced(o, before, at, g, h), at \notin Starts(p, g, ids)
        PROVE  Query(p, h, at) = {}
    <3>1. SUFFICES ASSUME found(h, Vertex) # {} PROVE FALSE
      BY <2>6
    <3>2. BeginsAt(begin, h, at) /\ at \notin PositionsAt(begin, g, ids)
      BY <2>3, <2>5, <2>9, <3>1
    <3>3. \E pair \in PositionDepsAt(begin, before) :
             /\ pair[1] \in Observations(Difference(g, h))
             /\ at \in PositionsOf(pair[2], pair[1], Difference(g, h))
      BY <2>1, <3>2, BeginsAnnounced DEF begin
    <3> QED BY <2>3, <2>9, <3>3 DEF Announced, p
  <2>10. ASSUME NEW h \in GraphState, NEW before \in SUBSET ids,
                ~Announced(o, before, at, g, h), Unobserved(g, h, deps)
         PROVE  Query(p, h, at) = Query(p, g, at)
    <3>1. CASE at[1] = "orbit" \/ at[2] \notin h.vertices \ g.vertices
      <4>1. Observations(Difference(g, h)) \cap MatchLinear(path, g, ids, at).deps = {}
        BY <2>3, <2>10 DEF Unobserved
      <4>2. found(h, Vertex) = found(g, ids)
        BY <2>1, <2>2, <3>1, <4>1, LinearAgain
      <4> QED BY <2>3, <2>4, <4>2
    <3>2. CASE ~(at[1] = "orbit" \/ at[2] \notin h.vertices \ g.vertices)
      <4>1. at \notin Starts(p, g, ids)
        BY <2>1, <2>3, <3>2, PositionsAreThere DEF begin
      <4>2. Query(p, h, at) = {}
        BY <2>9, <2>10, <4>1
      <4>3. Query(p, g, at) = {}
        BY <2>5, <2>6, <3>2
      <4> QED BY <4>2, <4>3
    <3> QED BY <3>1, <3>2
  <2>11. \A cached \in {CacheOf(D, MaxHeight + 1, g, g) : D \in SUBSET {}} : cached = Uncached
    BY NothingToCache
  <2>12. Match(p, g, ids, Uncached, at) = Query(p, g, at)
    BY <2>3, <2>4
  <2> QED BY <2>7, <2>8, <2>9, <2>10, <2>11, <2>12 DEF SoundFrom, ReadsBelow, NoNested, p, deps
<1> QED BY <1>1, <1>2 DEF SoundMatching
=============================================================================
