--------------------------- MODULE ObserverProofs ---------------------------
(***************************************************************************)
(* Proofs about observers and the registry of nested expressions, and that *)
(* rematching what is observed is as good as matching anew, on the         *)
(* condition that matching is sound.                                       *)
(***************************************************************************)
EXTENDS MatchingProofs

-----------------------------------------------------------------------------
(* The three loops of the registry are what they are defined to be: there  *)
(* is a function with the equation by which each is chosen.                *)

LEMMA LookupsDefined ==
    ASSUME NEW r, NEW g, NEW ids, NEW starts
    PROVE  LET rounds == Lookups(r, g, ids, starts)
           IN  /\ rounds[0] = [registry |-> r, wanted |-> starts]
               /\ \A n \in 0 .. MaxHeight - 1 : rounds[n + 1] = LookUpOnce(rounds[n], g, ids)
<1> DEFINE Begin == [registry |-> r, wanted |-> starts]
           Obeys(f, m) == f = [n \in 0 .. m |-> IF n = 0 THEN Begin ELSE LookUpOnce(f[n - 1], g, ids)]
           T == {m \in 0 .. MaxHeight : \E f : Obeys(f, m)}
<1> HIDE DEF Begin
<1>0. MaxHeight \in Nat
  BY HeightAssumption
<1>1. 0 \in T
  <2> DEFINE f == [n \in 0 .. 0 |-> Begin]
  <2>1. Obeys(f, 0)
    OBVIOUS
  <2> HIDE DEF f, Obeys
  <2> QED BY <2>1, <1>0
<1>2. ASSUME NEW m \in 0 .. MaxHeight - 1, m \in T PROVE m + 1 \in T
  <2>1. PICK f : Obeys(f, m)
    BY <1>2
  <2> DEFINE h == [n \in 0 .. m + 1 |-> IF n = m + 1 THEN LookUpOnce(f[m], g, ids) ELSE f[n]]
  <2>2. ASSUME NEW n \in 0 .. m + 1
        PROVE  h[n] = IF n = 0 THEN Begin ELSE LookUpOnce(h[n - 1], g, ids)
    <3>1. CASE n = m + 1
      <4>1. h[n] = LookUpOnce(f[m], g, ids) /\ h[n - 1] = f[m] /\ n # 0
        BY <3>1, <1>0
      <4> QED BY <4>1
    <3>2. CASE n # m + 1
      <4>1. n \in 0 .. m /\ h[n] = f[n]
        BY <3>2, <1>0
      <4>2. n # 0 => h[n - 1] = f[n - 1]
        BY <4>1, <1>0
      <4>3. f[n] = IF n = 0 THEN Begin ELSE LookUpOnce(f[n - 1], g, ids)
        BY <2>1, <4>1
      <4> QED BY <4>1, <4>2, <4>3
    <3> QED BY <3>1, <3>2
  <2>3. Obeys(h, m + 1)
    BY <2>2
  <2> HIDE DEF h, Obeys
  <2> QED BY <2>3, <1>0
<1>3. MaxHeight \in T
  <2> HIDE DEF T
  <2> QED BY <1>0, <1>1, <1>2, UpTo
<1>4. Obeys(Lookups(r, g, ids, starts), MaxHeight)
  <2>1. \E f : Obeys(f, MaxHeight)
    BY <1>3
  <2>2. Lookups(r, g, ids, starts) = CHOOSE f : Obeys(f, MaxHeight)
    BY DEF Lookups, Begin
  <2> QED BY <2>1, <2>2
<1>5. ASSUME NEW f, Obeys(f, MaxHeight)
      PROVE  /\ f[0] = Begin
             /\ \A n \in 0 .. MaxHeight - 1 : f[n + 1] = LookUpOnce(f[n], g, ids)
  <2>1. f[0] = Begin
    BY <1>0, <1>5
  <2>2. ASSUME NEW n \in 0 .. MaxHeight - 1 PROVE f[n + 1] = LookUpOnce(f[n], g, ids)
    <3>1. n \in Nat /\ n + 1 \in 0 .. MaxHeight /\ n + 1 # 0 /\ (n + 1) - 1 = n
      <4> HIDE DEF T, Obeys
      <4> QED BY <1>0
    <3> QED BY <1>5, <3>1
  <2> QED BY <2>1, <2>2
<1> QED BY <1>4, <1>5 DEF Begin

LEMMA UpdatesDefined ==
    ASSUME NEW r, NEW g, NEW ids, NEW observed
    PROVE  LET upTo == UpdatesUpTo(r, g, ids, observed)
           IN  /\ upTo[0] = [registry |-> r, observed |-> observed]
               /\ \A n \in 0 .. MaxHeight - 1 : upTo[n + 1] = UpdateAtHeight(upTo[n], g, ids, n + 1)
<1> DEFINE Begin == [registry |-> r, observed |-> observed]
           Obeys(f, m) == f = [n \in 0 .. m |-> IF n = 0 THEN Begin ELSE UpdateAtHeight(f[n - 1], g, ids, n)]
           T == {m \in 0 .. MaxHeight : \E f : Obeys(f, m)}
<1> HIDE DEF Begin
<1>0. MaxHeight \in Nat
  BY HeightAssumption
<1>1. 0 \in T
  <2> DEFINE f == [n \in 0 .. 0 |-> Begin]
  <2>1. Obeys(f, 0)
    OBVIOUS
  <2> HIDE DEF f, Obeys
  <2> QED BY <2>1, <1>0
<1>2. ASSUME NEW m \in 0 .. MaxHeight - 1, m \in T PROVE m + 1 \in T
  <2>1. PICK f : Obeys(f, m)
    BY <1>2
  <2> DEFINE h == [n \in 0 .. m + 1 |-> IF n = m + 1 THEN UpdateAtHeight(f[m], g, ids, m + 1) ELSE f[n]]
  <2>2. ASSUME NEW n \in 0 .. m + 1
        PROVE  h[n] = IF n = 0 THEN Begin ELSE UpdateAtHeight(h[n - 1], g, ids, n)
    <3>1. CASE n = m + 1
      <4>1. h[n - 1] = f[m] /\ n # 0
        BY <3>1, <1>0
      <4>2. h[n] = UpdateAtHeight(f[m], g, ids, n)
        BY <3>1, <1>0
      <4> QED BY <4>1, <4>2
    <3>2. CASE n # m + 1
      <4>1. n \in 0 .. m /\ h[n] = f[n]
        BY <3>2, <1>0
      <4>2. n # 0 => h[n - 1] = f[n - 1]
        BY <4>1, <1>0
      <4>3. f[n] = IF n = 0 THEN Begin ELSE UpdateAtHeight(f[n - 1], g, ids, n)
        BY <2>1, <4>1
      <4> QED BY <4>1, <4>2, <4>3
    <3> QED BY <3>1, <3>2
  <2>3. Obeys(h, m + 1)
    BY <2>2
  <2> HIDE DEF h, Obeys
  <2> QED BY <2>3, <1>0
<1>3. MaxHeight \in T
  <2> HIDE DEF T
  <2> QED BY <1>0, <1>1, <1>2, UpTo
<1>4. Obeys(UpdatesUpTo(r, g, ids, observed), MaxHeight)
  <2>1. \E f : Obeys(f, MaxHeight)
    BY <1>3
  <2>2. UpdatesUpTo(r, g, ids, observed) = CHOOSE f : Obeys(f, MaxHeight)
    BY DEF UpdatesUpTo, Begin
  <2> QED BY <2>1, <2>2
<1>5. ASSUME NEW f, Obeys(f, MaxHeight)
      PROVE  /\ f[0] = Begin
             /\ \A n \in 0 .. MaxHeight - 1 : f[n + 1] = UpdateAtHeight(f[n], g, ids, n + 1)
  <2>1. f[0] = Begin
    BY <1>0, <1>5
  <2>2. ASSUME NEW n \in 0 .. MaxHeight - 1 PROVE f[n + 1] = UpdateAtHeight(f[n], g, ids, n + 1)
    <3>1. n \in Nat /\ n + 1 \in 0 .. MaxHeight /\ n + 1 # 0 /\ (n + 1) - 1 = n
      <4> HIDE DEF T, Obeys
      <4> QED BY <1>0
    <3> QED BY <1>5, <3>1
  <2> QED BY <2>1, <2>2
<1> QED BY <1>4, <1>5 DEF Begin

LEMMA EvictionsDefined ==
    ASSUME NEW r, NEW watched
    PROVE  LET rounds == Evictions(r, watched)
           IN  /\ rounds[0] = r
               /\ \A n \in 0 .. MaxHeight - 1 : rounds[n + 1] = EvictOnce(rounds[n], watched)
<1> DEFINE Begin == r
           Obeys(f, m) == f = [n \in 0 .. m |-> IF n = 0 THEN Begin ELSE EvictOnce(f[n - 1], watched)]
           T == {m \in 0 .. MaxHeight : \E f : Obeys(f, m)}
<1> HIDE DEF Begin
<1>0. MaxHeight \in Nat
  BY HeightAssumption
<1>1. 0 \in T
  <2> DEFINE f == [n \in 0 .. 0 |-> Begin]
  <2>1. Obeys(f, 0)
    OBVIOUS
  <2> HIDE DEF f, Obeys
  <2> QED BY <2>1, <1>0
<1>2. ASSUME NEW m \in 0 .. MaxHeight - 1, m \in T PROVE m + 1 \in T
  <2>1. PICK f : Obeys(f, m)
    BY <1>2
  <2> DEFINE h == [n \in 0 .. m + 1 |-> IF n = m + 1 THEN EvictOnce(f[m], watched) ELSE f[n]]
  <2>2. ASSUME NEW n \in 0 .. m + 1
        PROVE  h[n] = IF n = 0 THEN Begin ELSE EvictOnce(h[n - 1], watched)
    <3>1. CASE n = m + 1
      <4>1. h[n] = EvictOnce(f[m], watched) /\ h[n - 1] = f[m] /\ n # 0
        BY <3>1, <1>0
      <4> QED BY <4>1
    <3>2. CASE n # m + 1
      <4>1. n \in 0 .. m /\ h[n] = f[n]
        BY <3>2, <1>0
      <4>2. n # 0 => h[n - 1] = f[n - 1]
        BY <4>1, <1>0
      <4>3. f[n] = IF n = 0 THEN Begin ELSE EvictOnce(f[n - 1], watched)
        BY <2>1, <4>1
      <4> QED BY <4>1, <4>2, <4>3
    <3> QED BY <3>1, <3>2
  <2>3. Obeys(h, m + 1)
    BY <2>2
  <2> HIDE DEF h, Obeys
  <2> QED BY <2>3, <1>0
<1>3. MaxHeight \in T
  <2> HIDE DEF T
  <2> QED BY <1>0, <1>1, <1>2, UpTo
<1>4. Obeys(Evictions(r, watched), MaxHeight)
  <2>1. \E f : Obeys(f, MaxHeight)
    BY <1>3
  <2>2. Evictions(r, watched) = CHOOSE f : Obeys(f, MaxHeight)
    BY DEF Evictions, Begin
  <2> QED BY <2>1, <2>2
<1>5. ASSUME NEW f, Obeys(f, MaxHeight)
      PROVE  /\ f[0] = Begin
             /\ \A n \in 0 .. MaxHeight - 1 : f[n + 1] = EvictOnce(f[n], watched)
  <2>1. f[0] = Begin
    BY <1>0, <1>5
  <2>2. ASSUME NEW n \in 0 .. MaxHeight - 1 PROVE f[n + 1] = EvictOnce(f[n], watched)
    <3>1. n \in Nat /\ n + 1 \in 0 .. MaxHeight /\ n + 1 # 0 /\ (n + 1) - 1 = n
      <4> HIDE DEF T, Obeys
      <4> QED BY <1>0
    <3> QED BY <1>5, <3>1
  <2> QED BY <2>1, <2>2
<1> QED BY <1>4, <1>5 DEF Begin

-----------------------------------------------------------------------------
(* What the operations of the registry do to its parts. *)

IsFcn(f) == f = [x \in DOMAIN f |-> f[x]]

IsRegistry(r) ==
    /\ IsFcn(r.cached)
    /\ r = [cached |-> r.cached, deps |-> r.deps, unused |-> r.unused]
    /\ \A pair \in r.deps : pair = <<pair[1], pair[2]>> /\ pair[2] \in DOMAIN r.cached

(* m is r with starts matched anew. *)
Anew(m, r, g, ids, starts) ==
    /\ IsRegistry(m)
    /\ DOMAIN m.cached = DOMAIN r.cached \cup starts
    /\ \A s \in starts : m.cached[s] = NestedMatch(g, ids, r.cached, s).found
    /\ \A s \in DOMAIN r.cached \ starts : m.cached[s] = r.cached[s]
    /\ \A d, s : <<d, s>> \in m.deps <=>
          IF s \in starts THEN d \in NestedMatch(g, ids, r.cached, s).deps
                          ELSE <<d, s>> \in r.deps
    /\ m.unused = r.unused \cup StartsIn(DependedOn(r) \ DependedOn(m))

LEMMA MatchedAnewIs ==
    ASSUME NEW r, NEW g, NEW ids, NEW starts, IsRegistry(r)
    PROVE  Anew(MatchedAnew(r, g, ids, starts), r, g, ids, starts)
<1> DEFINE m == MatchedAnew(r, g, ids, starts)
           result(s) == NestedMatch(g, ids, r.cached, s)
           anew == UNION {result(s).deps \X {s} : s \in starts}
           next == (r.deps \ DepsOf(r, starts)) \cup anew
           lost == {pair[1] : pair \in r.deps} \ {pair[1] : pair \in next}
           C == [s \in DOMAIN r.cached \cup starts |->
                   IF s \in starts THEN result(s).found ELSE r.cached[s]]
<1>1. r = [cached |-> r.cached, deps |-> r.deps, unused |-> r.unused]
  BY DEF IsRegistry
<1>2. WithDeps(r, starts, anew) = [r EXCEPT !.deps = next, !.unused = @ \cup StartsIn(lost)]
  BY DEF WithDeps
<1>3. WithDeps(r, starts, anew) = [cached |-> r.cached, deps |-> next, unused |-> r.unused \cup StartsIn(lost)]
  <2> HIDE DEF next, lost
  <2> QED BY <1>1, <1>2
<1>4. m = [WithDeps(r, starts, anew) EXCEPT !.cached = C]
  BY DEF MatchedAnew
<1>5. m = [cached |-> C, deps |-> next, unused |-> r.unused \cup StartsIn(lost)]
  <2> HIDE DEF next, lost, C, m, anew
  <2> QED BY <1>3, <1>4
<1>6. m.cached = C /\ m.deps = next /\ m.unused = r.unused \cup StartsIn(lost)
  <2> HIDE DEF next, lost, C, m
  <2> QED BY <1>5
<1>7. lost = DependedOn(r) \ DependedOn(m)
  <2> HIDE DEF next, m
  <2> QED BY <1>6 DEF DependedOn
<1>8. next = {pair \in r.deps : pair[2] \notin starts} \cup anew
  BY DEF DepsOf
<1>9. ASSUME NEW pair \in next PROVE pair = <<pair[1], pair[2]>> /\ pair[2] \in DOMAIN C
  <2>1. CASE pair \in r.deps
    BY <2>1 DEF IsRegistry
  <2>2. CASE pair \in anew
    BY <2>2
  <2> QED BY <2>1, <2>2
<1>12. /\ DOMAIN C = DOMAIN r.cached \cup starts
       /\ IsFcn(C)
       /\ \A s \in starts : C[s] = result(s).found
       /\ \A s \in DOMAIN r.cached \ starts : C[s] = r.cached[s]
  BY DEF IsFcn
<1>10. IsRegistry(m)
  <2> HIDE DEF next, lost, C, m
  <2> QED BY <1>5, <1>6, <1>9, <1>12 DEF IsRegistry
<1>11. \A d, s : <<d, s>> \in next <=>
          IF s \in starts THEN d \in result(s).deps ELSE <<d, s>> \in r.deps
  BY <1>8
<1> HIDE DEF m, next, lost, C
<1>13. Anew(m, r, g, ids, starts)
  BY <1>6, <1>7, <1>10, <1>11, <1>12 DEF Anew
<1> QED BY <1>13 DEF m

(* One round of lookups. *)
LEMMA LookUpOnceIs ==
    ASSUME NEW sofar, NEW g, NEW ids, IsRegistry(sofar.registry)
    PROVE  LET next    == LookUpOnce(sofar, g, ids)
               missing == sofar.wanted \ DOMAIN sofar.registry.cached
               found   == MatchedAnew(sofar.registry, g, ids, missing)
           IN  /\ IsRegistry(next.registry)
               /\ next.registry.cached = found.cached
               /\ next.registry.deps = found.deps
               /\ next.registry.unused = found.unused \cup missing
               /\ next.wanted = StartsIn({pair[1] : pair \in DepsOf(found, missing)})
<1> DEFINE next    == LookUpOnce(sofar, g, ids)
           missing == sofar.wanted \ DOMAIN sofar.registry.cached
           found   == MatchedAnew(sofar.registry, g, ids, missing)
<1>1. IsRegistry(found)
  <2>1. Anew(found, sofar.registry, g, ids, missing)
    BY MatchedAnewIs
  <2> HIDE DEF found
  <2> QED BY <2>1 DEF Anew
<1>2. found = [cached |-> found.cached, deps |-> found.deps, unused |-> found.unused]
  <2> HIDE DEF found
  <2> QED BY <1>1 DEF IsRegistry
<1>3. next = [registry |-> [found EXCEPT !.unused = @ \cup missing],
              wanted   |-> StartsIn({pair[1] : pair \in DepsOf(found, missing)})]
  BY DEF LookUpOnce
<1> HIDE DEF next, missing, found
<1>4. next.registry = [cached |-> found.cached, deps |-> found.deps, unused |-> found.unused \cup missing]
  BY <1>2, <1>3
<1>5. /\ next.registry.cached = found.cached
      /\ next.registry.deps = found.deps
      /\ next.registry.unused = found.unused \cup missing
  BY <1>4
<1>7. next.wanted = StartsIn({pair[1] : pair \in DepsOf(found, missing)})
  BY <1>3
<1>6. IsRegistry(next.registry)
  <2>1. /\ IsFcn(found.cached)
        /\ \A pair \in found.deps : pair = <<pair[1], pair[2]>> /\ pair[2] \in DOMAIN found.cached
    BY <1>1 DEF IsRegistry
  <2>2. next.registry = [cached |-> next.registry.cached, deps |-> next.registry.deps,
                         unused |-> next.registry.unused]
    BY <1>4, <1>5
  <2> QED BY <1>5, <2>1, <2>2 DEF IsRegistry
<1> QED BY <1>5, <1>6, <1>7 DEF next, missing, found

LEMMA LookedUpIsRegistry ==
    ASSUME NEW r, NEW g, NEW ids, NEW starts, IsRegistry(r)
    PROVE  IsRegistry(LookedUp(r, g, ids, starts))
<1> DEFINE rounds == Lookups(r, g, ids, starts)
           T == {n \in 0 .. MaxHeight : IsRegistry(rounds[n].registry)}
<1>0. MaxHeight \in Nat
  BY HeightAssumption
<1>1. /\ rounds[0] = [registry |-> r, wanted |-> starts]
      /\ \A n \in 0 .. MaxHeight - 1 : rounds[n + 1] = LookUpOnce(rounds[n], g, ids)
  BY LookupsDefined
<1> HIDE DEF rounds
<1>2. 0 \in T
  BY <1>0, <1>1
<1>3. ASSUME NEW n \in 0 .. MaxHeight - 1, n \in T PROVE n + 1 \in T
  <2>1. IsRegistry(LookUpOnce(rounds[n], g, ids).registry)
    BY <1>3, LookUpOnceIs
  <2> QED BY <1>0, <1>1, <2>1
<1>4. MaxHeight \in T
  <2> HIDE DEF T
  <2> QED BY <1>0, <1>2, <1>3, UpTo
<1> QED BY <1>4 DEF LookedUp, rounds

IsUpdate(x) == /\ IsRegistry(x.registry)
               /\ x = [registry |-> x.registry, observed |-> x.observed]

(* One height of an update. *)
AtHeight(next, sofar, g, ids, h) ==
    LET due     == Due(sofar.registry, sofar.observed, h)
        anew    == MatchedAnew(sofar.registry, g, ids, due)
        changed == {s \in due : anew.cached[s] # sofar.registry.cached[s]}
    IN  /\ IsUpdate(next)
        /\ due = {} => next = sofar
        /\ due # {} =>
             /\ next.registry = LookedUp(anew, g, ids, StartsIn({pair[1] : pair \in DepsOf(anew, due)}))
             /\ next.observed = sofar.observed \cup {NestedSubgraphs(s) : s \in changed}

LEMMA UpdateAtHeightIs ==
    ASSUME NEW sofar, NEW g, NEW ids, NEW h, IsUpdate(sofar)
    PROVE  AtHeight(UpdateAtHeight(sofar, g, ids, h), sofar, g, ids, h)
<1> DEFINE next    == UpdateAtHeight(sofar, g, ids, h)
           due     == Due(sofar.registry, sofar.observed, h)
           anew    == MatchedAnew(sofar.registry, g, ids, due)
           changed == {s \in due : anew.cached[s] # sofar.registry.cached[s]}
           looked  == LookedUp(anew, g, ids, StartsIn({pair[1] : pair \in DepsOf(anew, due)}))
           O       == sofar.observed \cup {NestedSubgraphs(s) : s \in changed}
<1>1. IsRegistry(anew)
  BY MatchedAnewIs DEF IsUpdate, Anew
<1>2. IsRegistry(looked)
  <2> HIDE DEF anew
  <2> QED BY <1>1, LookedUpIsRegistry
<1>3. next = IF due = {} THEN sofar ELSE [registry |-> looked, observed |-> O]
  BY DEF UpdateAtHeight
<1> HIDE DEF next, looked, O
<1>4. CASE due = {}
  <2>1. next = sofar
    BY <1>3, <1>4
  <2>2. AtHeight(next, sofar, g, ids, h)
    BY <1>4, <2>1 DEF AtHeight
  <2> QED BY <2>2 DEF next
<1>5. CASE due # {}
  <2>1. next = [registry |-> looked, observed |-> O]
    BY <1>3, <1>5
  <2>2. next.registry = looked /\ next.observed = O
    BY <2>1
  <2>3. IsUpdate(next)
    BY <1>2, <2>1, <2>2 DEF IsUpdate
  <2>4. AtHeight(next, sofar, g, ids, h)
    BY <1>5, <2>2, <2>3 DEF AtHeight, looked, O
  <2> QED BY <2>4 DEF next
<1> QED BY <1>4, <1>5

LEMMA UpdateIsRegistry ==
    ASSUME NEW r, NEW g, NEW ids, NEW observed, IsRegistry(r)
    PROVE  LET updated == RegistryUpdate(r, g, ids, observed)
           IN  IsUpdate(updated)
<1> DEFINE upTo == UpdatesUpTo(r, g, ids, observed)
           T == {n \in 0 .. MaxHeight : IsUpdate(upTo[n])}
<1>0. MaxHeight \in Nat
  BY HeightAssumption
<1>1. /\ upTo[0] = [registry |-> r, observed |-> observed]
      /\ \A n \in 0 .. MaxHeight - 1 : upTo[n + 1] = UpdateAtHeight(upTo[n], g, ids, n + 1)
  BY UpdatesDefined
<1> HIDE DEF upTo
<1>2. 0 \in T
  <2>1. upTo[0].registry = r /\ upTo[0].observed = observed
    BY <1>1
  <2> QED BY <1>0, <1>1, <2>1 DEF IsUpdate
<1>3. ASSUME NEW n \in 0 .. MaxHeight - 1, n \in T PROVE n + 1 \in T
  <2>1. IsUpdate(upTo[n])
    BY <1>3
  <2>2. IsUpdate(UpdateAtHeight(upTo[n], g, ids, n + 1))
    BY <2>1, UpdateAtHeightIs DEF AtHeight
  <2>3. IsUpdate(upTo[n + 1])
    BY <1>1, <2>2
  <2> QED BY <1>0, <2>3
<1>4. MaxHeight \in T
  <2> HIDE DEF T
  <2> QED BY <1>0, <1>2, <1>3, UpTo
<1> QED BY <1>4 DEF RegistryUpdate, upTo

(* One round of evictions. *)
LEMMA EvictOnceIs ==
    ASSUME NEW r, NEW watched, IsRegistry(r)
    PROVE  LET next    == EvictOnce(r, watched)
               evicted == {s \in r.unused \cap DOMAIN r.cached :
                             NestedSubgraphs(s) \notin DependedOn(r) \cup watched}
           IN  /\ IsRegistry(next)
               /\ next.cached = [s \in DOMAIN r.cached \ evicted |-> r.cached[s]]
               /\ next.deps = {pair \in r.deps : pair[2] \notin evicted}
               /\ next.unused = StartsIn(DependedOn(r) \ DependedOn(next))
<1> DEFINE next    == EvictOnce(r, watched)
           evicted == {s \in r.unused \cap DOMAIN r.cached :
                         NestedSubgraphs(s) \notin DependedOn(r) \cup watched}
           C    == [s \in DOMAIN r.cached \ evicted |-> r.cached[s]]
           q    == [r EXCEPT !.cached = C, !.unused = {}]
           deps == (q.deps \ DepsOf(q, evicted)) \cup {}
           lost == {pair[1] : pair \in q.deps} \ {pair[1] : pair \in deps}
<1>1. r = [cached |-> r.cached, deps |-> r.deps, unused |-> r.unused]
  BY DEF IsRegistry
<1>2. next = WithDeps(q, evicted, {})
  BY DEF EvictOnce
<1>3. q = [cached |-> C, deps |-> r.deps, unused |-> {}]
  <2> HIDE DEF C
  <2>1. [r EXCEPT !.cached = C] = [cached |-> C, deps |-> r.deps, unused |-> r.unused]
    BY <1>1
  <2>2. q = [[r EXCEPT !.cached = C] EXCEPT !.unused = {}]
    BY <1>1
  <2> HIDE DEF q
  <2> QED BY <2>1, <2>2
<1>4. WithDeps(q, evicted, {}) = [q EXCEPT !.deps = deps, !.unused = @ \cup StartsIn(lost)]
  BY DEF WithDeps
<1>5. next = [cached |-> C, deps |-> deps, unused |-> StartsIn(lost)]
  <2> HIDE DEF next, q, deps, lost, C
  <2> QED BY <1>2, <1>3, <1>4
<1>6. deps = {pair \in r.deps : pair[2] \notin evicted}
  <2>1. q.deps = r.deps
    <3> HIDE DEF q, C
    <3> QED BY <1>3
  <2> HIDE DEF q, evicted
  <2> QED BY <2>1 DEF DepsOf
<1>7. lost = DependedOn(r) \ DependedOn(next)
  <2>1. q.deps = r.deps /\ next.deps = deps
    <3> HIDE DEF q, C, deps, lost, next
    <3> QED BY <1>3, <1>5
  <2> HIDE DEF q, next, deps
  <2> QED BY <2>1 DEF DependedOn
<1>8. next.cached = C /\ next.deps = deps /\ next.unused = StartsIn(lost)
  <2> HIDE DEF next, C, deps, lost
  <2> QED BY <1>5
<1>9. \A pair \in deps : pair = <<pair[1], pair[2]>> /\ pair[2] \in DOMAIN C
  <2> HIDE DEF deps, evicted
  <2> QED BY <1>6 DEF IsRegistry
<1>10. IsRegistry(next)
  <2>1. IsFcn(C)
    BY DEF IsFcn
  <2> HIDE DEF next, C, deps, lost
  <2> QED BY <1>5, <1>8, <1>9, <2>1 DEF IsRegistry
<1> HIDE DEF next, deps, lost, C, evicted
<1> QED BY <1>6, <1>7, <1>8, <1>10 DEF C, next, evicted

LEMMA EvictUnusedIsRegistry ==
    ASSUME NEW r, NEW watched, IsRegistry(r)
    PROVE  IsRegistry(EvictUnused(r, watched))
<1> DEFINE rounds == Evictions(r, watched)
           T == {n \in 0 .. MaxHeight : IsRegistry(rounds[n])}
<1>0. MaxHeight \in Nat
  BY HeightAssumption
<1>1. /\ rounds[0] = r
      /\ \A n \in 0 .. MaxHeight - 1 : rounds[n + 1] = EvictOnce(rounds[n], watched)
  BY EvictionsDefined
<1> HIDE DEF rounds
<1>2. 0 \in T
  BY <1>0, <1>1
<1>3. ASSUME NEW n \in 0 .. MaxHeight - 1, n \in T PROVE n + 1 \in T
  <2>1. IsRegistry(EvictOnce(rounds[n], watched))
    BY <1>3, EvictOnceIs
  <2> QED BY <1>0, <1>1, <2>1
<1>4. MaxHeight \in T
  <2> HIDE DEF T
  <2> QED BY <1>0, <1>2, <1>3, UpTo
<1> QED BY <1>4 DEF EvictUnused, rounds

LEMMA MarkMaybeUnusedIs ==
    ASSUME NEW r, NEW observables, IsRegistry(r)
    PROVE  LET m == MarkMaybeUnused(r, observables)
           IN  /\ IsRegistry(m)
               /\ m.cached = r.cached /\ m.deps = r.deps
               /\ m.unused = r.unused \cup StartsIn(observables)
<1> DEFINE m == MarkMaybeUnused(r, observables)
<1>1. m = [cached |-> r.cached, deps |-> r.deps, unused |-> r.unused \cup StartsIn(observables)]
  <2>1. r = [cached |-> r.cached, deps |-> r.deps, unused |-> r.unused]
    BY DEF IsRegistry
  <2> QED BY <2>1 DEF MarkMaybeUnused
<1> HIDE DEF m
<1>2. m.cached = r.cached /\ m.deps = r.deps /\ m.unused = r.unused \cup StartsIn(observables)
  BY <1>1
<1>3. IsRegistry(m)
  BY <1>1, <1>2 DEF IsRegistry
<1> QED BY <1>2, <1>3 DEF m

LEMMA EmptyIsRegistry == IsRegistry(EmptyRegistry)
BY DEF IsRegistry, IsFcn, EmptyRegistry

-----------------------------------------------------------------------------
(* Positions, and what the matcher of an observer consists of. *)

IsMatcher(m) ==
    /\ m.deps = {pair \in m.triggers : pair[2][1] \in {"core", "orbit"}}
    /\ \A pair \in m.triggers : pair = <<pair[1], pair[2]>> /\ pair[2] \in StartPosition

LEMMA RematchedPositions ==
    ASSUME NEW m, IsMatcher(m), NEW observed, NEW g \in GraphState, NEW h \in GraphState
    PROVE  Rematched(m, observed, Difference(g, h)) \subseteq Position
<1> DEFINE c == Difference(g, h)
<1>1. \A d : /\ AddedVertices(d, c) \subseteq Vertex
             /\ UNION {{e[1], e[3]} : e \in AddedEdges(d, c)} \subseteq Vertex
  BY DifferenceOfGraphs DEF AddedVertices, AddedEdges
<1> HIDE DEF c
<1>2. ASSUME NEW sp \in StartPosition, NEW d PROVE PositionsOf(sp, d, c) \subseteq Position
  <2>1. CASE sp \in Position
    <3>1. \A at \in Position : PositionsOf(at, d, c) = {at}
      BY PositionsOfIs
    <3> QED BY <2>1, <3>1
  <2>2. CASE sp = EveryAddedVertex
    BY <2>2, <1>1, PositionsOfIs, PositionKinds
  <2>3. CASE sp = EveryAddedEdge
    BY <2>3, <1>1, PositionsOfIs, PositionKinds
  <2>4. CASE \E v \in Vertex : sp = AbsentPosition(v)
    BY <2>4, PositionsOfIs
  <2> QED BY <2>1, <2>2, <2>3, <2>4 DEF StartPosition
<1> QED BY <1>2 DEF Rematched, IsMatcher, c

LEMMA DepsFromPositions ==
    ASSUME NEW p, NEW g, NEW ids, NEW cached, NEW positions \in SUBSET Position
    PROVE  \A pair \in DepsFrom(p, g, ids, cached, positions) :
              pair = <<pair[1], pair[2]>> /\ pair[2] \in positions /\ pair[2][1] \in {"core", "orbit"}
BY PositionKinds DEF DepsFrom

LEMMA ReinitializeIsMatcher ==
    ASSUME NEW o \in Observer, NEW g \in GraphState, NEW ids \in SUBSET Vertex, NEW cached
    PROVE  IsMatcher(Reinitialize(PatternOf[o], g, ids, cached))
<1> DEFINE p    == PatternOf[o]
           positions == Starts(p, g, ids)
           deps == DepsFrom(p, g, ids, cached, positions)
           m    == Reinitialize(p, g, ids, cached)
<1>1. m.deps = deps /\ m.triggers = deps \cup StartDeps(p, ids)
  BY DEF Reinitialize
<1>2. positions \in SUBSET Position
  BY StartsAssumption
<1>3. \A pair \in deps : pair = <<pair[1], pair[2]>> /\ pair[2] \in StartPosition /\ pair[2][1] \in {"core", "orbit"}
  <2>1. \A pair \in deps : pair = <<pair[1], pair[2]>> /\ pair[2] \in positions /\ pair[2][1] \in {"core", "orbit"}
    <3> HIDE DEF positions, p
    <3> QED BY <1>2, DepsFromPositions
  <2>2. positions \subseteq StartPosition
    BY <1>2 DEF StartPosition
  <2> HIDE DEF positions, deps
  <2> QED BY <2>1, <2>2
<1>4. \A pair \in StartDeps(p, ids) :
         /\ pair = <<pair[1], pair[2]>> /\ pair[2] \in StartPosition
         /\ pair[2][1] \notin {"core", "orbit"}
  <2> DEFINE special == {EveryAddedVertex, EveryAddedEdge} \cup {AbsentPosition(v) : v \in Vertex}
  <2>1. \A pair \in StartDeps(p, ids) : pair = <<pair[1], pair[2]>> /\ pair[2] \in special
    BY StartsAssumption
  <2>2. \A sp \in special : sp \in StartPosition /\ sp[1] \notin {"core", "orbit"}
    BY SpecialKinds DEF StartPosition
  <2> HIDE DEF special, p
  <2> QED BY <2>1, <2>2
<1> HIDE DEF m, deps, p
<1> QED BY <1>1, <1>3, <1>4 DEF IsMatcher, m, p

LEMMA MatchIncrementallyIsMatcher ==
    ASSUME NEW m, IsMatcher(m), NEW p, NEW g, NEW ids, NEW cached, NEW positions \in SUBSET Position
    PROVE  IsMatcher(MatchIncrementally(m, p, g, ids, cached, positions))
<1> DEFINE deps == DepsFrom(p, g, ids, cached, positions)
           old  == DepsAt(m, positions)
           n    == MatchIncrementally(m, p, g, ids, cached, positions)
<1>1. n.deps = (m.deps \ old) \cup deps /\ n.triggers = (m.triggers \ (old \ deps)) \cup deps
  BY DEF MatchIncrementally
<1>2. \A pair \in deps : pair = <<pair[1], pair[2]>> /\ pair[2] \in StartPosition /\ pair[2][1] \in {"core", "orbit"}
  BY DepsFromPositions DEF StartPosition
<1>3. old \subseteq m.deps
  BY DEF DepsAt
<1> HIDE DEF deps, n, old
<1> QED BY <1>1, <1>2, <1>3 DEF IsMatcher, n

(* apply_subscription_changes brings the subscriptions up to date. *)
LEMMA SubscriptionsFollow ==
    ASSUME subscriptions = UNION {Watched(matcher[o]) \X {o} : o \in registered},
           NEW next, ApplySubscriptionChanges(next)
    PROVE  subscriptions' = UNION {Watched(next[o]) \X {o} : o \in registered}
<1> DEFINE added   == UNION {(Watched(next[o]) \ Watched(matcher[o])) \X {o} : o \in registered}
           removed == UNION {(Watched(matcher[o]) \ Watched(next[o])) \X {o} : o \in registered}
<1>1. subscriptions' = (subscriptions \cup added) \ removed
  BY DEF ApplySubscriptionChanges
<1>2. \A d, o : <<d, o>> \in added <=> o \in registered /\ d \in Watched(next[o]) \ Watched(matcher[o])
  OBVIOUS
<1>3. \A d, o : <<d, o>> \in removed <=> o \in registered /\ d \in Watched(matcher[o]) \ Watched(next[o])
  OBVIOUS
<1>4. \A d, o : <<d, o>> \in subscriptions <=> o \in registered /\ d \in Watched(matcher[o])
  OBVIOUS
<1>5. \A pair \in subscriptions' : pair = <<pair[1], pair[2]>>
  BY <1>1
<1> HIDE DEF added, removed
<1>6. \A d, o : <<d, o>> \in subscriptions' <=> o \in registered /\ d \in Watched(next[o])
  BY <1>1, <1>2, <1>3, <1>4
<1> QED BY <1>5, <1>6

-----------------------------------------------------------------------------
(* Whatever the patterns are, the records of what depends on what agree.   *)

GraphsInv ==
    /\ {present, applied, committed} \subseteq GraphState
    /\ known \in SUBSET Vertex
    /\ present.vertices \cup applied.vertices \cup committed.vertices \subseteq known

ObserversInv ==
    /\ registered \in SUBSET Observer
    /\ DOMAIN matcher = Observer
    /\ \A o \in Observer : IsMatcher(matcher[o])
    /\ \A o \in Observer \ registered : matcher[o] = Blank
    /\ subscriptions = UNION {Watched(matcher[o]) \X {o} : o \in registered}
    /\ IsRegistry(nested)
    /\ \A e \in events : e[1] \in registered /\ e[2] \in EventsOf[e[1]]

RecordsInv == GraphsInv /\ ObserversInv

LEMMA BecomesGraph ==
    ASSUME GraphsInv, NEW V \in SUBSET Vertex, NEW E \in SUBSET Edge,
           \A e \in E : e[1] \in V /\ e[3] \in V,
           G!Becomes(V, E), known' = known \cup present'.vertices
    PROVE  GraphsInv'
<1>1. present' = [vertices |-> V, edges |-> E] /\ applied' = applied /\ committed' = committed
  BY DEF G!Becomes
<1>2. present'.vertices = V /\ present'.edges = E
  BY <1>1
<1>3. present' \in GraphState
  BY <1>1, <1>2, GraphStateIs
<1> QED BY <1>1, <1>2, <1>3 DEF GraphsInv

LEMMA UpdateGraphs == ASSUME GraphsInv, Update PROVE GraphsInv'
<1>1. known' = known \cup present'.vertices
  BY DEF Update
<1>2. /\ present.vertices \subseteq Vertex /\ present.edges \subseteq Edge
      /\ \A e \in present.edges : e[1] \in present.vertices /\ e[3] \in present.vertices
  BY GraphStateIs DEF GraphsInv
<1>3. \A e \in Edge : e = <<e[1], e[2], e[3]>>
  BY ObserverAssumption
<1>4. ASSUME NEW v \in Vertex, G!AddVertex(v) PROVE GraphsInv'
  <2>1. G!Becomes(present.vertices \cup {v}, present.edges)
    BY <1>4 DEF G!AddVertex
  <2> QED BY <2>1, <1>1, <1>2, BecomesGraph
<1>5. ASSUME NEW v \in Vertex, G!RemoveVertex(v) PROVE GraphsInv'
  <2>1. G!Becomes(present.vertices \ {v}, {e \in present.edges : e[1] # v /\ e[3] # v})
    BY <1>5 DEF G!RemoveVertex
  <2> QED BY <2>1, <1>1, <1>2, BecomesGraph
<1>6. ASSUME NEW e \in Edge, G!AddEdge(e[1], e[2], e[3]) PROVE GraphsInv'
  <2>1. /\ e[1] \in present.vertices /\ e[3] \in present.vertices
        /\ G!Becomes(present.vertices, present.edges \cup {<<e[1], e[2], e[3]>>})
    BY <1>6 DEF G!AddEdge
  <2>2. G!Becomes(present.vertices, present.edges \cup {e})
    BY <2>1, <1>3
  <2> QED BY <2>1, <2>2, <1>1, <1>2, BecomesGraph
<1>7. ASSUME NEW e \in Edge, G!RemoveEdge(e[1], e[2], e[3]) PROVE GraphsInv'
  <2>1. G!Becomes(present.vertices, present.edges \ {<<e[1], e[2], e[3]>>})
    BY <1>7 DEF G!RemoveEdge
  <2> QED BY <2>1, <1>1, <1>2, BecomesGraph
<1> QED BY <1>4, <1>5, <1>6, <1>7 DEF Update

(* A matcher that is not in use stays so. *)
LEMMA BlankStays ==
    ASSUME NEW p, NEW g, NEW ids, NEW cached, NEW observed, NEW c
    PROVE  /\ Rematched(Blank, observed, c) = {}
           /\ MatchIncrementally(Blank, p, g, ids, cached, {}) = Blank
           /\ Watched(Blank) = {}
           /\ IsMatcher(Blank)
<1>1. Blank.last = {} /\ Blank.deps = {} /\ Blank.triggers = {}
  BY DEF Blank
<1>2. DepsFrom(p, g, ids, cached, {}) = {} /\ MatchesFrom(p, g, ids, cached, {}) = {}
  BY DEF DepsFrom, MatchesFrom
<1>3. MatchIncrementally(Blank, p, g, ids, cached, {}) = [last |-> {}, deps |-> {}, triggers |-> {}]
  BY <1>1, <1>2 DEF MatchIncrementally, DepsAt
<1> QED BY <1>1, <1>3 DEF Rematched, Watched, IsMatcher, Blank

LEMMA ReportedIsTyped ==
    ASSUME NEW o, NEW found
    PROVE  \A e \in Reported(o, found) : e[1] = o /\ e[2] \in EventsOf[o]
BY DEF Reported

LEMMA ObserveKeepsRecords ==
    ASSUME RecordsInv, Observe(Difference(applied, present)), UNCHANGED registered
    PROVE  ObserversInv'
<1> DEFINE c == Difference(applied, present)
<1>1. CASE c = G!Nothing /\ events' = {} /\ UNCHANGED <<matcher, subscriptions, nested>>
  BY <1>1 DEF RecordsInv, ObserversInv
<1>2. CASE ObserveChanges(c)
  <2> DEFINE updated == RegistryUpdate(nested, present, known, Observations(c))
             cached  == updated.registry.cached
             observed(o)  == {d \in updated.observed : <<d, o>> \in subscriptions}
             positions(o) == Rematched(matcher[o], observed(o), c)
             found(o) == SubgraphChanges(matcher[o].last, matcher'[o].last, positions(o))
             anew     == UNION {DepsAt(matcher'[o], positions(o)) : o \in registered}
             looked   == LookedUp(updated.registry, present, known, NestedIn(anew))
             marked   == MarkMaybeUnused(looked, Dropped(matcher'))
  <2>0. applied \in GraphState /\ present \in GraphState
    BY DEF RecordsInv, GraphsInv
  <2>1. /\ matcher' = [o \in Observer |->
                         MatchIncrementally(matcher[o], PatternOf[o], present, known, cached, positions(o))]
        /\ ApplySubscriptionChanges(matcher')
        /\ nested' = EvictUnused(marked, {pair[1] : pair \in subscriptions'})
        /\ events' = UNION {Reported(o, found(o)) : o \in registered}
    BY <1>2 DEF ObserveChanges
  <2>2. IsRegistry(nested')
    <3>1. IsRegistry(updated.registry)
      <4>1. IsUpdate(updated)
        BY UpdateIsRegistry DEF RecordsInv, ObserversInv
      <4> HIDE DEF updated
      <4> QED BY <4>1 DEF IsUpdate
    <3>2. IsRegistry(looked)
      <4> HIDE DEF updated, anew
      <4> QED BY <3>1, LookedUpIsRegistry
    <3>3. IsRegistry(marked)
      <4> HIDE DEF looked
      <4> QED BY <3>2, MarkMaybeUnusedIs
    <3> HIDE DEF marked
    <3> QED BY <2>1, <3>3, EvictUnusedIsRegistry
  <2> HIDE DEF updated, cached, observed, anew, looked, marked
  <2>3. ASSUME NEW o \in Observer PROVE positions(o) \in SUBSET Position
    BY <2>0, RematchedPositions DEF RecordsInv, ObserversInv
  <2>4. ASSUME NEW o \in Observer PROVE IsMatcher(matcher'[o])
    <3>1. matcher'[o] = MatchIncrementally(matcher[o], PatternOf[o], present, known, cached, positions(o))
      BY <2>1
    <3>2. IsMatcher(matcher[o])
      BY DEF RecordsInv, ObserversInv
    <3> HIDE DEF positions
    <3> QED BY <2>3, <3>1, <3>2, MatchIncrementallyIsMatcher
  <2>5. ASSUME NEW o \in Observer \ registered PROVE matcher'[o] = Blank
    <3>1. matcher[o] = Blank
      BY DEF RecordsInv, ObserversInv
    <3>2. positions(o) = {}
      BY <3>1, BlankStays
    <3> HIDE DEF positions
    <3> QED BY <2>1, <3>1, <3>2, BlankStays
  <2>6. subscriptions' = UNION {Watched(matcher'[o]) \X {o} : o \in registered}
    BY <2>1, SubscriptionsFollow DEF RecordsInv, ObserversInv
  <2>7. DOMAIN matcher' = Observer
    BY <2>1
  <2>8. ASSUME NEW e \in events' PROVE e[1] \in registered /\ e[2] \in EventsOf[e[1]]
    <3>1. PICK o \in registered : e \in Reported(o, found(o))
      BY <2>1
    <3> HIDE DEF found
    <3> QED BY <3>1, ReportedIsTyped
  <2> QED BY <2>2, <2>4, <2>5, <2>6, <2>7, <2>8 DEF RecordsInv, ObserversInv
<1> QED BY <1>1, <1>2 DEF Observe

LEMMA RegisterKeepsRecords ==
    ASSUME RecordsInv, NEW o \in Observer, Register(o)
    PROVE  RecordsInv'
<1> DEFINE m == Reinitialize(PatternOf[o], present, known, nested.cached)
<1>1. /\ matcher' = [matcher EXCEPT ![o] = m]
      /\ nested' = LookedUp(nested, present, known, NestedIn(m.deps))
      /\ subscriptions' = subscriptions \cup (Watched(m) \X {o})
      /\ registered' = registered \cup {o} /\ o \notin registered
      /\ events' = {}
      /\ UNCHANGED <<present, applied, committed, known>>
  BY DEF Register
<1>2. IsMatcher(m)
  BY ReinitializeIsMatcher DEF RecordsInv, GraphsInv
<1>3. IsRegistry(nested')
  BY <1>1, LookedUpIsRegistry DEF RecordsInv, ObserversInv
<1> HIDE DEF m
<1>4. /\ DOMAIN matcher = Observer
      /\ subscriptions = UNION {Watched(matcher[p]) \X {p} : p \in registered}
      /\ registered \in SUBSET Observer
  BY DEF RecordsInv, ObserversInv
<1>5. DOMAIN matcher' = Observer /\ matcher'[o] = m /\ \A p \in Observer \ {o} : matcher'[p] = matcher[p]
  BY <1>1, <1>4
<1>6. subscriptions' = UNION {Watched(matcher'[p]) \X {p} : p \in registered'}
  <2>1. \A p \in registered : matcher'[p] = matcher[p]
    BY <1>1, <1>4, <1>5
  <2>2. UNION {Watched(matcher'[p]) \X {p} : p \in registered} = subscriptions
    BY <1>4, <2>1
  <2> QED BY <1>1, <1>5, <2>2
<1>7. ObserversInv'
  BY <1>1, <1>2, <1>3, <1>5, <1>6 DEF RecordsInv, ObserversInv
<1>8. GraphsInv'
  BY <1>1 DEF RecordsInv, GraphsInv
<1> QED BY <1>7, <1>8 DEF RecordsInv

LEMMA RollbackKeepsRecords == ASSUME RecordsInv, Rollback PROVE RecordsInv'
<1> DEFINE anew(o) == Reinitialize(PatternOf[o], committed, known, EmptyRegistry.cached)
<1>1. /\ matcher' = [o \in Observer |-> IF o \in registered THEN anew(o) ELSE Blank]
      /\ nested' = LookedUp(EmptyRegistry, committed, known, NestedIn(UNION {matcher'[o].deps : o \in registered}))
      /\ subscriptions' = UNION {Watched(matcher'[o]) \X {o} : o \in registered}
      /\ events' = {}
      /\ UNCHANGED <<known, registered>>
      /\ present' = committed /\ applied' = committed /\ committed' = committed
  BY DEF Rollback, G!Rollback
<1>2. \A o \in Observer : IsMatcher(anew(o))
  BY ReinitializeIsMatcher DEF RecordsInv, GraphsInv
<1>3. IsRegistry(nested')
  BY <1>1, LookedUpIsRegistry, EmptyIsRegistry
<1> HIDE DEF anew
<1>4. registered \in SUBSET Observer /\ DOMAIN matcher = Observer
  BY DEF RecordsInv, ObserversInv
<1>5. /\ DOMAIN matcher' = Observer
      /\ \A o \in Observer : matcher'[o] = IF o \in registered THEN anew(o) ELSE Blank
  BY <1>1
<1>6. ObserversInv'
  BY <1>1, <1>2, <1>3, <1>4, <1>5, BlankStays DEF RecordsInv, ObserversInv
<1>7. GraphsInv'
  BY <1>1 DEF RecordsInv, GraphsInv
<1> QED BY <1>6, <1>7 DEF RecordsInv

LEMMA RecordsInvInductive ==
    /\ Init => RecordsInv
    /\ RecordsInv /\ [Next]_vars => RecordsInv'
<1>1. ASSUME Init PROVE RecordsInv
  <2>1. GraphsInv
    BY <1>1 DEF Init, G!Init, G!Empty, GraphsInv, GraphState
  <2>2. ObserversInv
    BY <1>1, BlankStays, EmptyIsRegistry DEF Init, ObserversInv
  <2> QED BY <2>1, <2>2 DEF RecordsInv
<1>2. ASSUME RecordsInv, [Next]_vars PROVE RecordsInv'
  <2>1. CASE Update
    <3>1. GraphsInv'
      BY <1>2, <2>1, UpdateGraphs DEF RecordsInv
    <3>2. ObserversInv'
      BY <1>2, <2>1 DEF RecordsInv, ObserversInv, Update
    <3> QED BY <3>1, <3>2 DEF RecordsInv
  <2>2. CASE \E o \in Observer : Register(o)
    BY <1>2, <2>2, RegisterKeepsRecords
  <2>3. CASE Apply
    <3>1. ObserversInv'
      BY <1>2, <2>3, ObserveKeepsRecords DEF Apply
    <3>2. GraphsInv'
      BY <1>2, <2>3 DEF Apply, G!Apply, RecordsInv, GraphsInv
    <3> QED BY <3>1, <3>2 DEF RecordsInv
  <2>4. CASE Commit
    <3>1. ObserversInv'
      BY <1>2, <2>4, ObserveKeepsRecords DEF Commit
    <3>2. GraphsInv'
      BY <1>2, <2>4 DEF Commit, RecordsInv, GraphsInv
    <3> QED BY <3>1, <3>2 DEF RecordsInv
  <2>5. CASE Rollback
    BY <1>2, <2>5, RollbackKeepsRecords
  <2>6. CASE UNCHANGED vars
    BY <1>2, <2>6 DEF vars, RecordsInv, GraphsInv, ObserversInv
  <2> QED BY <1>2, <2>1, <2>2, <2>3, <2>4, <2>5, <2>6 DEF Next
<1> QED BY <1>1, <1>2

LEMMA RecordsAgree == Spec => []RecordsInv
BY RecordsInvInductive, PTL DEF Spec

(* Type correctness of the container. *)
THEOREM TypeCorrect == Spec => []TypeOK
<1>1. RecordsInv => TypeOK
  BY DEF RecordsInv, GraphsInv, ObserversInv, TypeOK, IsRegistry, EmptyRegistry
<1> QED BY <1>1, RecordsAgree, PTL

(* The deps of positions, the positions by dep, and the subscriptions of   *)
(* the container never part, whatever patterns match and depend on.        *)
THEOREM SubscriptionsStayExact == Spec => []SubscriptionsExact
<1>1. RecordsInv => SubscriptionsExact
  BY DEF RecordsInv, ObserversInv, SubscriptionsExact, IsMatcher
<1> QED BY <1>1, RecordsAgree, PTL

-----------------------------------------------------------------------------
(* What is observed of two changes, and of both together. *)

LEMMA ObservationsCompose ==
    ASSUME NEW f \in GraphState, NEW g \in GraphState, NEW h \in GraphState
    PROVE  Observations(Difference(f, h))
             \subseteq Observations(Difference(f, g)) \cup Observations(Difference(g, h))
<1> DEFINE a == Difference(f, g)
           b == Difference(g, h)
           c == Difference(f, h)
<1>1. /\ c.addedVertices \subseteq a.addedVertices \cup b.addedVertices
      /\ c.removedVertices \subseteq a.removedVertices \cup b.removedVertices
      /\ c.addedEdges \subseteq a.addedEdges \cup b.addedEdges
      /\ c.removedEdges \subseteq a.removedEdges \cup b.removedEdges
  BY DEF Difference
<1> HIDE DEF a, b, c
<1> SUFFICES ASSUME NEW d \in Observations(c)
             PROVE  d \in Observations(a) \/ d \in Observations(b)
  BY DEF a, b, c
<1>2. CASE \E v \in c.addedVertices : d \in {NewVertex, NewVertexOfType(TypeOf[v])}
  <2>1. PICK v \in c.addedVertices : d \in {NewVertex, NewVertexOfType(TypeOf[v])}
    BY <1>2
  <2>2. v \in a.addedVertices \/ v \in b.addedVertices
    BY <1>1
  <2> QED BY <2>1, <2>2, ObservationsAre
<1>3. CASE \E v \in c.addedVertices \cup c.removedVertices : d = ParticularVertex(v)
  <2>1. PICK v \in c.addedVertices \cup c.removedVertices : d = ParticularVertex(v)
    BY <1>3
  <2>2. v \in a.addedVertices \cup a.removedVertices \/ v \in b.addedVertices \cup b.removedVertices
    BY <1>1
  <2> QED BY <2>1, <2>2, ObservationsAre
<1>4. CASE \E e \in c.addedEdges : d \in {NewEdge, NewEdgeWithLabel(e[2])}
  <2>1. PICK e \in c.addedEdges : d \in {NewEdge, NewEdgeWithLabel(e[2])}
    BY <1>4
  <2>2. e \in a.addedEdges \/ e \in b.addedEdges
    BY <1>1
  <2> QED BY <2>1, <2>2, ObservationsAre
<1>5. CASE \E e \in c.addedEdges \cup c.removedEdges :
              d \in {EdgeFrom(e[1]), EdgeFromWithLabel(e[1], e[2]),
                     EdgeTo(e[3]), EdgeToWithLabel(e[3], e[2]), ParticularEdge(e)}
  <2>1. PICK e \in c.addedEdges \cup c.removedEdges :
              d \in {EdgeFrom(e[1]), EdgeFromWithLabel(e[1], e[2]),
                     EdgeTo(e[3]), EdgeToWithLabel(e[3], e[2]), ParticularEdge(e)}
    BY <1>5
  <2>2. e \in a.addedEdges \cup a.removedEdges \/ e \in b.addedEdges \cup b.removedEdges
    BY <1>1
  <2> QED BY <2>1, <2>2, ObservationsAre
<1> QED BY <1>2, <1>3, <1>4, <1>5, ObservationsAre

LEMMA UnobservedComposes ==
    ASSUME NEW f \in GraphState, NEW g \in GraphState, NEW h \in GraphState, NEW deps,
           Unobserved(f, g, deps), Unobserved(g, h, deps)
    PROVE  Unobserved(f, h, deps)
BY ObservationsCompose DEF Unobserved

LEMMA UnobservedAtOnce ==
    ASSUME NEW g \in GraphState, NEW deps
    PROVE  Unobserved(g, g, deps)
BY NothingObserved DEF Unobserved

LEMMA AnnouncedComposes ==
    ASSUME NEW o \in Observer, NEW ids \in SUBSET Vertex, NEW at,
           NEW f \in GraphState, NEW g \in GraphState, NEW h \in GraphState,
           Announced(o, ids, at, f, h)
    PROVE  Announced(o, ids, at, f, g) \/ Announced(o, ids, at, g, h)
<1> DEFINE a == Difference(f, g)
           b == Difference(g, h)
           c == Difference(f, h)
<1>1. /\ c.addedVertices \subseteq a.addedVertices \cup b.addedVertices
      /\ c.addedEdges \subseteq a.addedEdges \cup b.addedEdges
  BY DEF Difference
<1>2. PICK pair \in StartDeps(PatternOf[o], ids) : at \in PositionsOf(pair[2], pair[1], c)
  BY DEF Announced
<1>3. /\ Announced(o, ids, at, f, g) <=>
           \E q \in StartDeps(PatternOf[o], ids) : q[1] \in Observations(a) /\ at \in PositionsOf(q[2], q[1], a)
      /\ Announced(o, ids, at, g, h) <=>
           \E q \in StartDeps(PatternOf[o], ids) : q[1] \in Observations(b) /\ at \in PositionsOf(q[2], q[1], b)
  BY DEF Announced
<1> HIDE DEF a, b, c
<1>4. ASSUME NEW x \in {a, b}, NEW v \in AddedVertices(pair[1], x)
      PROVE  pair[1] \in Observations(x)
  BY ObservationsAre DEF AddedVertices
<1>5. ASSUME NEW x \in {a, b}, NEW e \in AddedEdges(pair[1], x)
      PROVE  pair[1] \in Observations(x)
  BY ObservationsAre DEF AddedEdges
<1>6. CASE pair[2] = EveryAddedVertex
  <2>1. PICK v \in AddedVertices(pair[1], c) : at = Core(v)
    BY <1>2, <1>6, PositionsOfIs
  <2>2. v \in AddedVertices(pair[1], a) \/ v \in AddedVertices(pair[1], b)
    BY <1>1, <2>1 DEF AddedVertices
  <2>3. ASSUME NEW x \in {a, b}, v \in AddedVertices(pair[1], x)
        PROVE  pair[1] \in Observations(x) /\ at \in PositionsOf(pair[2], pair[1], x)
    BY <1>4, <1>6, <2>1, <2>3, PositionsOfIs
  <2> QED BY <1>3, <2>2, <2>3
<1>7. CASE pair[2] = EveryAddedEdge
  <2>1. PICK e \in AddedEdges(pair[1], c) : at = Orbit(e[1]) \/ at = Orbit(e[3])
    BY <1>2, <1>7, PositionsOfIs
  <2>2. e \in AddedEdges(pair[1], a) \/ e \in AddedEdges(pair[1], b)
    BY <1>1, <2>1 DEF AddedEdges
  <2>3. ASSUME NEW x \in {a, b}, e \in AddedEdges(pair[1], x)
        PROVE  pair[1] \in Observations(x) /\ at \in PositionsOf(pair[2], pair[1], x)
    <3>1. PositionsOf(pair[2], pair[1], x)
            = {Orbit(v) : v \in UNION {{d[1], d[3]} : d \in AddedEdges(pair[1], x)}}
      BY <1>7, PositionsOfIs
    <3>2. e[1] \in UNION {{d[1], d[3]} : d \in AddedEdges(pair[1], x)}
      BY <2>3
    <3>3. e[3] \in UNION {{d[1], d[3]} : d \in AddedEdges(pair[1], x)}
      BY <2>3
    <3> QED BY <1>5, <2>1, <2>3, <3>1, <3>2, <3>3
  <2> QED BY <1>3, <2>2, <2>3
<1>8. CASE \E v \in Vertex : pair[2] = AbsentPosition(v)
  BY <1>2, <1>8, PositionsOfIs
<1> QED BY <1>6, <1>7, <1>8, StartsAssumption

LEMMA NotAnnouncedAtOnce ==
    ASSUME NEW o, NEW ids, NEW at, NEW g \in GraphState
    PROVE  ~Announced(o, ids, at, g, g)
BY NothingObserved DEF Announced

-----------------------------------------------------------------------------
(* What an entry of the registry is worth. *)

(* What a start depends on, given pairs. *)
Of(pairs, s) == {pair[1] : pair \in {q \in pairs : q[2] = s}}

(* The deps of an entry are those of some graph, since which nothing of    *)
(* them has been observed up to g.                                         *)
Justified(pairs, s, g) ==
    \E f \in GraphState : \E ids \in Ids(f) :
        /\ Of(pairs, s) = NestedDeps(f, ids, s)
        /\ Unobserved(f, g, Of(pairs, s))

(* A registry in between: entries lower than low are of h, the rest of g. *)
Current(r, S, low, g, h) ==
    /\ IsRegistry(r)
    /\ DOMAIN r.cached \subseteq S
    /\ r.cached = CacheOf(DOMAIN r.cached, low, h, g)
    /\ \A s \in DOMAIN r.cached : Justified(r.deps, s, IF HeightOf(s) < low THEN h ELSE g)

(* Nothing that is read is missing, but for what is still to be looked up; *)
(* and what is not read, nor watched, may be unused.                       *)
Closed(r, wanted)  == StartsIn(DependedOn(r)) \subseteq DOMAIN r.cached \cup wanted
Kept(r, watched)   == DOMAIN r.cached \ (StartsIn(DependedOn(r)) \cup StartsIn(watched)) \subseteq r.unused

LEMMA StartsInUnion ==
    ASSUME NEW a, NEW b
    PROVE  /\ StartsIn(a \cup b) = StartsIn(a) \cup StartsIn(b)
           /\ a \subseteq b => StartsIn(a) \subseteq StartsIn(b)
BY StartsInIs

LEMMA ReadsAreStarts ==
    ASSUME NEW height, NEW S, NEW deps, ReadsBelow(height, S, deps)
    PROVE  /\ StartsIn(deps) \subseteq {s \in S : HeightOf(s) < height}
           /\ \A s : s \in StartsIn(deps) <=> NestedSubgraphs(s) \in deps
<1>1. ASSUME NEW d \in deps, d[1] = "NestedExpressionSubgraph"
      PROVE  d[2] \in S /\ d = NestedSubgraphs(d[2]) /\ HeightOf(d[2]) < height
  BY <1>1, NestedSubgraphsIs DEF ReadsBelow
<1> QED BY <1>1, StartsInIs, NestedSubgraphsIs

LEMMA DependedOnIs ==
    ASSUME NEW r, IsRegistry(r)
    PROVE  /\ \A d : d \in DependedOn(r) <=> \E s \in DOMAIN r.cached : d \in Of(r.deps, s)
           /\ \A d, s : d \in Of(r.deps, s) <=> <<d, s>> \in r.deps
BY DEF IsRegistry, DependedOn, Of

(* Deps that justify an entry are sound. *)
LEMMA JustifiedReads ==
    ASSUME NEW S, SoundNesting(S), NEW s \in S, NEW g, NEW pairs, Justified(pairs, s, g)
    PROVE  ReadsBelow(HeightOf(s), S, Of(pairs, s))
BY DEF SoundNesting, Justified

LEMMA JustifiedStays ==
    ASSUME NEW S, SoundNesting(S), NEW s \in S, NEW g \in GraphState, NEW h \in GraphState,
           NEW pairs, Justified(pairs, s, g), Unobserved(g, h, Of(pairs, s))
    PROVE  Justified(pairs, s, h) /\ NestedFound(h, s) = NestedFound(g, s)
<1>0. PICK f \in GraphState :
         \E ids \in Ids(f) : Of(pairs, s) = NestedDeps(f, ids, s) /\ Unobserved(f, g, Of(pairs, s))
  BY DEF Justified
<1>1. PICK ids \in Ids(f) : Of(pairs, s) = NestedDeps(f, ids, s) /\ Unobserved(f, g, Of(pairs, s))
  BY <1>0
<1>2. Unobserved(f, h, Of(pairs, s))
  BY <1>1, UnobservedComposes
<1>3. \A x \in GraphState : Unobserved(f, x, NestedDeps(f, ids, s)) => NestedFound(x, s) = NestedFound(f, s)
  BY <1>1 DEF SoundNesting
<1>4. NestedFound(g, s) = NestedFound(f, s) /\ NestedFound(h, s) = NestedFound(f, s)
  BY <1>1, <1>2, <1>3
<1>5. Justified(pairs, s, h)
  BY <1>1, <1>2 DEF Justified
<1> QED BY <1>4, <1>5

LEMMA JustifiedAnew ==
    ASSUME NEW s, NEW h \in GraphState, NEW ids \in Ids(h), NEW pairs,
           Of(pairs, s) = NestedDeps(h, ids, s)
    PROVE  Justified(pairs, s, h)
BY UnobservedAtOnce DEF Justified

LEMMA CacheOfIs ==
    ASSUME NEW D, NEW low, NEW g, NEW h
    PROVE  /\ DOMAIN CacheOf(D, low, h, g) = D
           /\ \A s \in D : CacheOf(D, low, h, g)[s] = NestedFound(IF HeightOf(s) < low THEN h ELSE g, s)
           /\ \A low2 : (\A s \in D : NestedFound(IF HeightOf(s) < low THEN h ELSE g, s)
                                        = NestedFound(IF HeightOf(s) < low2 THEN h ELSE g, s))
                 => CacheOf(D, low, h, g) = CacheOf(D, low2, h, g)
BY DEF CacheOf

LEMMA Heights ==
    ASSUME NEW S, SoundNesting(S)
    PROVE  \A s \in S : HeightOf(s) \in 1 .. MaxHeight /\ HeightOf(s) \in Nat
BY HeightAssumption DEF SoundNesting

(* A registry in between, and starts to match that are not too high.       *)
InBetween(S, low, g, h, ids, r) ==
    /\ SoundNesting(S) /\ low \in 1 .. MaxHeight + 1
    /\ g \in GraphState /\ h \in GraphState /\ ids \in Ids(h)
    /\ Current(r, S, low, g, h)

Matchable(S, low, g, h, ids, r, starts) ==
    /\ InBetween(S, low, g, h, ids, r)
    /\ starts \subseteq S
    /\ \A s \in starts : HeightOf(s) <= low

(* They are matched as if nothing were cached. *)
FoundAnew(m, r, h, ids, starts) ==
    /\ IsRegistry(m)
    /\ DOMAIN m.cached = DOMAIN r.cached \cup starts
    /\ \A s \in starts : m.cached[s] = NestedFound(h, s)
    /\ \A s \in DOMAIN r.cached \ starts : m.cached[s] = r.cached[s]
    /\ \A s \in starts : Of(m.deps, s) = NestedDeps(h, ids, s)
    /\ \A s : s \notin starts => Of(m.deps, s) = Of(r.deps, s)
    /\ m.unused = r.unused \cup StartsIn(DependedOn(r) \ DependedOn(m))

LEMMA MatchedAnewFinds ==
    ASSUME NEW S, NEW low, NEW g, NEW h, NEW ids, NEW r, NEW starts,
           Matchable(S, low, g, h, ids, r, starts)
    PROVE  FoundAnew(MatchedAnew(r, h, ids, starts), r, h, ids, starts)
<1> DEFINE m == MatchedAnew(r, h, ids, starts)
           result(s) == NestedMatch(h, ids, r.cached, s)
<1> /\ SoundNesting(S) /\ low \in 1 .. MaxHeight + 1
    /\ g \in GraphState /\ h \in GraphState /\ ids \in Ids(h)
    /\ Current(r, S, low, g, h)
    /\ starts \subseteq S /\ \A s \in starts : HeightOf(s) <= low
  BY DEF Matchable, InBetween
<1>0. IsRegistry(r)
  BY DEF Current
<1>9. Anew(m, r, h, ids, starts)
  BY <1>0, MatchedAnewIs
<1>2. ASSUME NEW s \in starts
      PROVE  result(s).found = NestedFound(h, s) /\ result(s).deps = NestedDeps(h, ids, s)
  <2>1. s \in S /\ low \in HeightOf(s) .. MaxHeight + 1
    BY Heights, HeightAssumption
  <2>2. r.cached \in {CacheOf(D, l, h, f) : D \in SUBSET S, l \in HeightOf(s) .. MaxHeight + 1, f \in GraphState}
    BY <2>1 DEF Current
  <2>3. NestedMatch(h, ids, r.cached, s) = NestedMatch(h, ids, Uncached, s)
    BY <2>1, <2>2 DEF SoundNesting
  <2>4. NestedMatch(h, ids, Uncached, s).found = NestedFound(h, s)
    BY <2>1 DEF SoundNesting
  <2> QED BY <2>3, <2>4 DEF NestedDeps
<1> HIDE DEF m
<1>1. /\ IsRegistry(m)
      /\ DOMAIN m.cached = DOMAIN r.cached \cup starts
      /\ \A s \in starts : m.cached[s] = result(s).found
      /\ \A s \in DOMAIN r.cached \ starts : m.cached[s] = r.cached[s]
      /\ \A d, s : <<d, s>> \in m.deps <=>
            IF s \in starts THEN d \in result(s).deps ELSE <<d, s>> \in r.deps
      /\ m.unused = r.unused \cup StartsIn(DependedOn(r) \ DependedOn(m))
  BY <1>9 DEF Anew
<1> HIDE DEF result
<1>4. ASSUME NEW s \in starts PROVE Of(m.deps, s) = result(s).deps
  <2>1. \A d : <<d, s>> \in m.deps <=> d \in result(s).deps
    BY <1>1
  <2> QED BY <2>1, <1>1, DependedOnIs
<1>5. ASSUME NEW s, s \notin starts PROVE Of(m.deps, s) = Of(r.deps, s)
  <2>1. \A d : <<d, s>> \in m.deps <=> <<d, s>> \in r.deps
    BY <1>1, <1>5
  <2>2. \A d : d \in Of(m.deps, s) <=> d \in Of(r.deps, s)
    BY <1>0, <1>1, <2>1, DependedOnIs
  <2> QED BY <2>2 DEF Of
<1>6. FoundAnew(m, r, h, ids, starts)
  BY <1>1, <1>2, <1>4, <1>5 DEF FoundAnew
<1> QED BY <1>6 DEF m

(* Matched anew, entries are of h: those that were due, and others of that *)
(* height if nothing was observed of what they depend on.                  *)
LEMMA MatchedAnewIsCurrent ==
    ASSUME NEW S, NEW low, NEW g, NEW h, NEW ids, NEW r, InBetween(S, low, g, h, ids, r),
           NEW starts \in SUBSET S,
           NEW next \in {low, low + 1}, \A s \in starts : HeightOf(s) < next,
           \A s \in DOMAIN r.cached \ starts :
              HeightOf(s) < next => HeightOf(s) < low \/ Unobserved(g, h, Of(r.deps, s))
    PROVE  Current(MatchedAnew(r, h, ids, starts), S, next, g, h)
<1> DEFINE m == MatchedAnew(r, h, ids, starts)
           graph(s, l) == IF HeightOf(s) < l THEN h ELSE g
<1> /\ SoundNesting(S) /\ low \in 1 .. MaxHeight + 1
    /\ g \in GraphState /\ h \in GraphState /\ ids \in Ids(h)
    /\ Current(r, S, low, g, h)
  BY DEF InBetween
<1>0. Matchable(S, low, g, h, ids, r, starts)
  BY Heights DEF Matchable
<1>1. /\ IsRegistry(m)
      /\ DOMAIN m.cached = DOMAIN r.cached \cup starts
      /\ \A s \in starts : m.cached[s] = NestedFound(h, s)
      /\ \A s \in DOMAIN r.cached \ starts : m.cached[s] = r.cached[s]
      /\ \A s \in starts : Of(m.deps, s) = NestedDeps(h, ids, s)
      /\ \A s : s \notin starts => Of(m.deps, s) = Of(r.deps, s)
  <2>1. FoundAnew(m, r, h, ids, starts)
    BY <1>0, MatchedAnewFinds
  <2> HIDE DEF m
  <2> QED BY <2>1 DEF FoundAnew
<1> HIDE DEF m
<1>2. ASSUME NEW s \in DOMAIN r.cached \ starts
      PROVE  /\ Justified(m.deps, s, graph(s, next))
             /\ m.cached[s] = NestedFound(graph(s, next), s)
  <2>1. s \in S /\ Justified(r.deps, s, graph(s, low)) /\ r.cached[s] = NestedFound(graph(s, low), s)
    BY CacheOfIs DEF Current
  <2>2. CASE graph(s, low) = graph(s, next)
    BY <1>1, <2>1, <2>2 DEF Justified
  <2>3. CASE graph(s, low) # graph(s, next)
    <3>1. HeightOf(s) < next /\ ~(HeightOf(s) < low)
      BY <2>1, <2>3, Heights
    <3>2. Unobserved(g, h, Of(r.deps, s)) /\ graph(s, low) = g /\ graph(s, next) = h
      BY <3>1
    <3>3. Justified(r.deps, s, h) /\ NestedFound(h, s) = NestedFound(g, s)
      BY <2>1, <3>2, JustifiedStays
    <3> QED BY <1>1, <2>1, <3>2, <3>3 DEF Justified
  <2> QED BY <2>2, <2>3
<1>3. ASSUME NEW s \in starts
      PROVE  /\ Justified(m.deps, s, graph(s, next))
             /\ m.cached[s] = NestedFound(graph(s, next), s)
  <2>1. graph(s, next) = h
    BY <1>3
  <2>2. Justified(m.deps, s, h)
    BY <1>1, JustifiedAnew
  <2> QED BY <1>1, <2>1, <2>2
<1>4. DOMAIN m.cached \subseteq S
  BY <1>1 DEF Current
<1>5. m.cached = CacheOf(DOMAIN m.cached, next, h, g)
  <2>1. m.cached = [s \in DOMAIN m.cached |-> m.cached[s]]
    BY <1>1 DEF IsRegistry, IsFcn
  <2>2. \A s \in DOMAIN m.cached : m.cached[s] = NestedFound(graph(s, next), s)
    BY <1>1, <1>2, <1>3
  <2>3. CacheOf(DOMAIN m.cached, next, h, g) = [s \in DOMAIN m.cached |-> NestedFound(graph(s, next), s)]
    BY DEF CacheOf
  <2> QED BY <2>1, <2>2, <2>3
<1>6. \A s \in DOMAIN m.cached : Justified(m.deps, s, graph(s, next))
  BY <1>1, <1>2, <1>3
<1> QED BY <1>1, <1>4, <1>5, <1>6 DEF Current, m

(* What the deps of some starts read. *)
LEMMA ReadBy ==
    ASSUME NEW r, IsRegistry(r), NEW starts
    PROVE  \A t : t \in StartsIn({pair[1] : pair \in DepsOf(r, starts)})
                    <=> \E s \in starts : t \in StartsIn(Of(r.deps, s))
<1>1. {pair[1] : pair \in DepsOf(r, starts)} = UNION {Of(r.deps, s) : s \in starts}
  BY DEF DepsOf, Of
<1> QED BY <1>1, StartsInIs

(* Nothing is lost sight of when starts are matched anew. *)
LEMMA MatchedAnewKeeps ==
    ASSUME NEW S, NEW low, NEW g, NEW h, NEW ids, NEW r, NEW starts,
           Matchable(S, low, g, h, ids, r, starts), Closed(r, starts),
           NEW watched, Kept(r, watched)
    PROVE  LET m == MatchedAnew(r, h, ids, starts)
               wanted == StartsIn({pair[1] : pair \in DepsOf(m, starts)})
           IN  /\ Closed(m, wanted)
               /\ DOMAIN r.cached \ (StartsIn(DependedOn(m)) \cup StartsIn(watched)) \subseteq m.unused
               /\ \A t \in wanted : t \in S /\ \E s \in starts : HeightOf(t) < HeightOf(s)
<1> DEFINE m == MatchedAnew(r, h, ids, starts)
           wanted == StartsIn({pair[1] : pair \in DepsOf(m, starts)})
<1> SoundNesting(S) /\ h \in GraphState /\ ids \in Ids(h) /\ Current(r, S, low, g, h) /\ starts \subseteq S
  BY DEF Matchable, InBetween
<1>1. /\ IsRegistry(m)
      /\ DOMAIN m.cached = DOMAIN r.cached \cup starts
      /\ \A s \in starts : Of(m.deps, s) = NestedDeps(h, ids, s)
      /\ \A s : s \notin starts => Of(m.deps, s) = Of(r.deps, s)
      /\ m.unused = r.unused \cup StartsIn(DependedOn(r) \ DependedOn(m))
  <2>1. FoundAnew(m, r, h, ids, starts)
    BY MatchedAnewFinds
  <2> HIDE DEF m
  <2> QED BY <2>1 DEF FoundAnew
<1>2. IsRegistry(r)
  BY DEF Current
<1> HIDE DEF m
<1>3. \A t : t \in wanted <=> \E s \in starts : t \in StartsIn(Of(m.deps, s))
  BY <1>1, ReadBy
<1> HIDE DEF wanted
<1>4. ASSUME NEW t \in StartsIn(DependedOn(m)) PROVE t \in DOMAIN m.cached \cup wanted
  <2>1. PICK d \in DependedOn(m) : d[1] = "NestedExpressionSubgraph" /\ d[2] = t
    BY StartsInIs
  <2>2. PICK s \in DOMAIN m.cached : d \in Of(m.deps, s)
    BY <1>1, <2>1, DependedOnIs
  <2>3. CASE s \in starts
    BY <1>3, <2>1, <2>2, <2>3, StartsInIs
  <2>4. CASE s \notin starts
    <3>1. d \in DependedOn(r)
      BY <1>1, <1>2, <2>2, <2>4, DependedOnIs
    <3>2. t \in StartsIn(DependedOn(r))
      BY <2>1, <3>1, StartsInIs
    <3> QED BY <1>1, <3>2 DEF Closed
  <2> QED BY <2>3, <2>4
<1>5. ASSUME NEW s \in DOMAIN r.cached, s \notin StartsIn(DependedOn(m)), s \notin StartsIn(watched)
      PROVE  s \in m.unused
  <2>1. CASE s \in StartsIn(DependedOn(r))
    <3>1. PICK d \in DependedOn(r) : d[1] = "NestedExpressionSubgraph" /\ d[2] = s
      BY <2>1, StartsInIs
    <3>2. d \notin DependedOn(m)
      BY <1>5, <3>1, StartsInIs
    <3>3. s \in StartsIn(DependedOn(r) \ DependedOn(m))
      BY <3>1, <3>2, StartsInIs
    <3> QED BY <1>1, <3>3
  <2>2. CASE s \notin StartsIn(DependedOn(r))
    <3>1. s \in r.unused
      BY <1>5, <2>2 DEF Kept
    <3> QED BY <1>1, <3>1
  <2> QED BY <2>1, <2>2
<1>6. ASSUME NEW t \in wanted PROVE t \in S /\ \E s \in starts : HeightOf(t) < HeightOf(s)
  <2>1. PICK s \in starts : t \in StartsIn(Of(m.deps, s))
    BY <1>3
  <2>2. ReadsBelow(HeightOf(s), S, Of(m.deps, s))
    BY <1>1 DEF SoundNesting
  <2> QED BY <2>1, <2>2, ReadsAreStarts
<1> QED BY <1>4, <1>5, <1>6 DEF Closed, m, wanted

-----------------------------------------------------------------------------
(* Lookups, round by round: what is still wanted gets less high. *)

(* q is r with further entries, which are lower than low. *)
Extends(q, r, low) ==
    /\ DOMAIN r.cached \subseteq DOMAIN q.cached
    /\ \A s \in DOMAIN r.cached : Of(q.deps, s) = Of(r.deps, s)
    /\ \A s \in DOMAIN q.cached \ DOMAIN r.cached : HeightOf(s) < low

Looking(x, n, S, low, g, h, ids, r, starts, watched) ==
    /\ InBetween(S, low, g, h, ids, x.registry)
    /\ Closed(x.registry, x.wanted) /\ Kept(x.registry, watched)
    /\ \A s \in x.wanted : s \in S /\ HeightOf(s) < low /\ HeightOf(s) <= MaxHeight - n
    /\ starts \subseteq DOMAIN x.registry.cached \cup x.wanted
    /\ Extends(x.registry, r, low)

LEMMA LookUpOnceLooks ==
    ASSUME NEW S, NEW low, NEW g, NEW h, NEW ids, NEW r, NEW starts, NEW watched,
           NEW n \in 0 .. MaxHeight - 1, NEW x, Looking(x, n, S, low, g, h, ids, r, starts, watched)
    PROVE  Looking(LookUpOnce(x, h, ids), n + 1, S, low, g, h, ids, r, starts, watched)
<1> DEFINE next    == LookUpOnce(x, h, ids)
           q       == x.registry
           missing == x.wanted \ DOMAIN q.cached
           found   == MatchedAnew(q, h, ids, missing)
           wanted  == StartsIn({pair[1] : pair \in DepsOf(found, missing)})
<1>0. /\ InBetween(S, low, g, h, ids, q) /\ SoundNesting(S) /\ low \in 1 .. MaxHeight + 1
      /\ Closed(q, x.wanted) /\ Kept(q, watched)
      /\ \A s \in x.wanted : s \in S /\ HeightOf(s) < low /\ HeightOf(s) <= MaxHeight - n
      /\ starts \subseteq DOMAIN q.cached \cup x.wanted
      /\ Extends(q, r, low) /\ IsRegistry(q)
      /\ g \in GraphState /\ h \in GraphState /\ ids \in Ids(h)
  BY DEF Looking, InBetween, Current
<1>1. /\ IsRegistry(next.registry)
      /\ next.registry.cached = found.cached
      /\ next.registry.deps = found.deps
      /\ next.registry.unused = found.unused \cup missing
      /\ next.wanted = wanted
  BY <1>0, LookUpOnceIs
<1>2. Matchable(S, low, g, h, ids, q, missing)
  BY <1>0, Heights DEF Matchable
<1>3. FoundAnew(found, q, h, ids, missing)
  BY <1>2, MatchedAnewFinds
<1>4. Current(found, S, low, g, h)
  <2>1. missing \in SUBSET S /\ \A s \in missing : HeightOf(s) < low
    BY <1>0
  <2>2. low \in {low, low + 1}
    OBVIOUS
  <2> HIDE DEF missing
  <2> QED BY <1>0, <2>1, <2>2, MatchedAnewIsCurrent
<1>5. Closed(q, missing)
  BY <1>0 DEF Closed
<1>6. /\ Closed(found, wanted)
      /\ DOMAIN q.cached \ (StartsIn(DependedOn(found)) \cup StartsIn(watched)) \subseteq found.unused
      /\ \A t \in wanted : t \in S /\ \E s \in missing : HeightOf(t) < HeightOf(s)
  <2> HIDE DEF missing
  <2> QED BY <1>0, <1>2, <1>5, MatchedAnewKeeps
<1> HIDE DEF next, found, wanted
<1>7. DOMAIN found.cached = DOMAIN q.cached \cup missing
  BY <1>3 DEF FoundAnew
<1>8. Current(next.registry, S, low, g, h)
  BY <1>1, <1>4 DEF Current
<1>9. Closed(next.registry, next.wanted)
  BY <1>1, <1>6 DEF Closed, DependedOn
<1>10. Kept(next.registry, watched)
  BY <1>1, <1>6, <1>7 DEF Kept, DependedOn
<1>11. ASSUME NEW t \in next.wanted
       PROVE  t \in S /\ HeightOf(t) < low /\ HeightOf(t) <= MaxHeight - (n + 1)
  <2>1. PICK s \in missing : t \in S /\ HeightOf(t) < HeightOf(s)
    BY <1>1, <1>6
  <2>2. HeightOf(t) \in Nat /\ HeightOf(s) \in Nat
    BY <1>0, <2>1, Heights
  <2>3. HeightOf(s) < low /\ HeightOf(s) <= MaxHeight - n
    BY <1>0
  <2> QED BY <1>0, <2>1, <2>2, <2>3, HeightAssumption
<1>12. starts \subseteq DOMAIN next.registry.cached \cup next.wanted
  BY <1>0, <1>1, <1>7
<1>13. Extends(next.registry, r, low)
  <2>1. \A s \in DOMAIN r.cached : s \in DOMAIN q.cached /\ s \notin missing /\ Of(q.deps, s) = Of(r.deps, s)
    BY <1>0 DEF Extends
  <2>2. \A s : s \notin missing => Of(found.deps, s) = Of(q.deps, s)
    BY <1>3 DEF FoundAnew
  <2>3. \A s \in DOMAIN found.cached \ DOMAIN r.cached : HeightOf(s) < low
    BY <1>0, <1>7 DEF Extends
  <2> QED BY <1>1, <1>7, <2>1, <2>2, <2>3 DEF Extends
<1>14. InBetween(S, low, g, h, ids, next.registry)
  BY <1>0, <1>8 DEF InBetween
<1> QED BY <1>9, <1>10, <1>11, <1>12, <1>13, <1>14 DEF Looking, next

(* What lookups come to. *)
Looked(l, S, low, g, h, r, starts, watched) ==
    /\ Current(l, S, low, g, h)
    /\ Closed(l, {}) /\ Kept(l, watched)
    /\ starts \subseteq DOMAIN l.cached
    /\ Extends(l, r, low)

LEMMA LookedUpIs ==
    ASSUME NEW S, NEW low, NEW g, NEW h, NEW ids, NEW r, InBetween(S, low, g, h, ids, r),
           NEW starts, \A s \in starts : s \in S /\ HeightOf(s) < low,
           Closed(r, starts), NEW watched, Kept(r, watched)
    PROVE  Looked(LookedUp(r, h, ids, starts), S, low, g, h, r, starts, watched)
<1> DEFINE rounds == Lookups(r, h, ids, starts)
           T == {n \in 0 .. MaxHeight : Looking(rounds[n], n, S, low, g, h, ids, r, starts, watched)}
<1>0. MaxHeight \in Nat /\ SoundNesting(S)
  BY HeightAssumption DEF InBetween
<1>1. /\ rounds[0] = [registry |-> r, wanted |-> starts]
      /\ \A n \in 0 .. MaxHeight - 1 : rounds[n + 1] = LookUpOnce(rounds[n], h, ids)
  BY LookupsDefined
<1> HIDE DEF rounds
<1>2. Looking(rounds[0], 0, S, low, g, h, ids, r, starts, watched)
  <2>1. rounds[0].registry = r /\ rounds[0].wanted = starts
    BY <1>1
  <2>2. \A s \in starts : HeightOf(s) <= MaxHeight - 0
    BY <1>0, Heights
  <2>3. Extends(r, r, low)
    BY DEF Extends
  <2>4. starts \subseteq DOMAIN r.cached \cup starts
    OBVIOUS
  <2> QED BY <2>1, <2>2, <2>3, <2>4 DEF Looking
<1>3. 0 \in T
  BY <1>0, <1>2
<1>4. ASSUME NEW n \in 0 .. MaxHeight - 1, n \in T PROVE n + 1 \in T
  <2>1. Looking(LookUpOnce(rounds[n], h, ids), n + 1, S, low, g, h, ids, r, starts, watched)
    BY <1>4, LookUpOnceLooks
  <2>2. Looking(rounds[n + 1], n + 1, S, low, g, h, ids, r, starts, watched)
    BY <1>1, <2>1
  <2> QED BY <1>0, <2>2
<1>5. MaxHeight \in T
  <2> HIDE DEF T
  <2> QED BY <1>0, <1>3, <1>4, UpTo
<1> DEFINE x == rounds[MaxHeight]
<1>6. Looking(x, MaxHeight, S, low, g, h, ids, r, starts, watched)
  BY <1>5
<1> HIDE DEF x
<1>7. x.wanted = {}
  <2>1. \A s \in x.wanted : s \in S /\ HeightOf(s) <= MaxHeight - MaxHeight
    BY <1>6 DEF Looking
  <2> QED BY <1>0, <2>1, Heights
<1>8. Looked(x.registry, S, low, g, h, r, starts, watched)
  BY <1>6, <1>7 DEF Looking, Looked, InBetween
<1> QED BY <1>8 DEF LookedUp, x, rounds

-----------------------------------------------------------------------------
(* Updates, height by height: whatever has changed at less height has been *)
(* observed, so that what has not been rematched need not be.              *)

LEMMA CurrentRises ==
    ASSUME NEW S, NEW low, NEW g, NEW h, NEW ids, NEW r, InBetween(S, low, g, h, ids, r),
           \A s \in DOMAIN r.cached : HeightOf(s) = low => Unobserved(g, h, Of(r.deps, s))
    PROVE  Current(r, S, low + 1, g, h)
<1> DEFINE graph(s, l) == IF HeightOf(s) < l THEN h ELSE g
<1>0. /\ SoundNesting(S) /\ low \in 1 .. MaxHeight + 1
      /\ g \in GraphState /\ h \in GraphState /\ Current(r, S, low, g, h)
  BY DEF InBetween
<1>1. ASSUME NEW s \in DOMAIN r.cached
      PROVE  Justified(r.deps, s, graph(s, low + 1)) /\ r.cached[s] = NestedFound(graph(s, low + 1), s)
  <2>1. s \in S /\ Justified(r.deps, s, graph(s, low)) /\ r.cached[s] = NestedFound(graph(s, low), s)
    BY <1>0, CacheOfIs DEF Current
  <2>2. CASE HeightOf(s) = low
    <3>1. graph(s, low) = g /\ graph(s, low + 1) = h
      BY <1>0, <2>2, HeightAssumption
    <3>2. Justified(r.deps, s, h) /\ NestedFound(h, s) = NestedFound(g, s)
      BY <1>0, <2>1, <2>2, <3>1, JustifiedStays
    <3> QED BY <2>1, <3>1, <3>2
  <2>3. CASE HeightOf(s) # low
    <3>1. HeightOf(s) < low + 1 <=> HeightOf(s) < low
      BY <1>0, <2>1, <2>3, Heights, HeightAssumption
    <3> QED BY <2>1, <3>1
  <2> QED BY <2>2, <2>3
<1>2. r.cached = [s \in DOMAIN r.cached |-> r.cached[s]]
  BY <1>0 DEF Current, IsRegistry, IsFcn
<1>3. CacheOf(DOMAIN r.cached, low + 1, h, g) = [s \in DOMAIN r.cached |-> NestedFound(graph(s, low + 1), s)]
  BY DEF CacheOf
<1>4. r.cached = CacheOf(DOMAIN r.cached, low + 1, h, g)
  BY <1>1, <1>2, <1>3
<1> QED BY <1>0, <1>1, <1>4 DEF Current

Updated(x, n, S, g, h, ids, r, watched) ==
    /\ IsUpdate(x)
    /\ InBetween(S, n + 1, g, h, ids, x.registry)
    /\ Closed(x.registry, {}) /\ Kept(x.registry, watched)
    /\ DOMAIN r.cached \subseteq DOMAIN x.registry.cached
    /\ \A s \in DOMAIN x.registry.cached :
          HeightOf(s) > n => s \in DOMAIN r.cached /\ Of(x.registry.deps, s) = Of(r.deps, s)
    /\ Observations(Difference(g, h)) \subseteq x.observed
    /\ \A s \in DOMAIN r.cached :
          HeightOf(s) <= n /\ NestedFound(h, s) # NestedFound(g, s) => NestedSubgraphs(s) \in x.observed

LEMMA UpdateAtHeightUpdates ==
    ASSUME NEW S, NEW g, NEW h, NEW ids, NEW r, Closed(r, {}), NEW watched,
           NEW n \in 0 .. MaxHeight - 1, NEW x, Updated(x, n, S, g, h, ids, r, watched)
    PROVE  Updated(UpdateAtHeight(x, h, ids, n + 1), n + 1, S, g, h, ids, r, watched)
<1> DEFINE k       == n + 1
           next    == UpdateAtHeight(x, h, ids, k)
           q       == x.registry
           due     == Due(q, x.observed, k)
           anew    == MatchedAnew(q, h, ids, due)
           changed == {s \in due : anew.cached[s] # q.cached[s]}
           wanted  == StartsIn({pair[1] : pair \in DepsOf(anew, due)})
<1>0. /\ IsUpdate(x) /\ IsRegistry(q)
      /\ InBetween(S, k, g, h, ids, q) /\ Current(q, S, k, g, h)
      /\ SoundNesting(S) /\ g \in GraphState /\ h \in GraphState /\ ids \in Ids(h)
      /\ Closed(q, {}) /\ Kept(q, watched)
      /\ DOMAIN r.cached \subseteq DOMAIN q.cached /\ DOMAIN q.cached \subseteq S
      /\ \A s \in DOMAIN q.cached :
            HeightOf(s) > n => s \in DOMAIN r.cached /\ Of(q.deps, s) = Of(r.deps, s)
      /\ Observations(Difference(g, h)) \subseteq x.observed
      /\ \A s \in DOMAIN r.cached :
            HeightOf(s) <= n /\ NestedFound(h, s) # NestedFound(g, s) => NestedSubgraphs(s) \in x.observed
  BY DEF Updated, InBetween, Current
<1>n. n \in Nat /\ MaxHeight \in Nat /\ k \in Nat /\ k \in 1 .. MaxHeight /\ n < k /\ k \in 1 .. MaxHeight + 1
  BY HeightAssumption
<1>h. \A s \in S : HeightOf(s) \in Nat
  BY <1>0, Heights
<1>1. \A s : s \in due <=> HeightOf(s) = k /\ \E d \in x.observed : d \in Of(q.deps, s)
  BY DEF Due, Of
<1>2. due \subseteq DOMAIN q.cached
  <2>1. ASSUME NEW s \in due PROVE s \in DOMAIN q.cached
    <3>1. PICK d \in Of(q.deps, s) : TRUE
      BY <1>1
    <3>2. <<d, s>> \in q.deps
      BY <1>0, DependedOnIs
    <3>3. <<d, s>>[2] \in DOMAIN q.cached
      BY <1>0, <3>2 DEF IsRegistry
    <3> QED BY <3>3
  <2> QED BY <2>1
<1>3. AtHeight(next, x, h, ids, k)
  BY <1>0, UpdateAtHeightIs
<1>4. /\ IsUpdate(next)
      /\ due = {} => next = x
      /\ due # {} => /\ next.registry = LookedUp(anew, h, ids, wanted)
                     /\ next.observed = x.observed \cup {NestedSubgraphs(s) : s \in changed}
  <2> HIDE DEF next, k
  <2> QED BY <1>3 DEF AtHeight
<1> HIDE DEF next, due, k
<1>5. ASSUME NEW s \in DOMAIN q.cached \ due, HeightOf(s) = k
      PROVE  /\ Unobserved(g, h, Of(q.deps, s))
             /\ NestedFound(h, s) = NestedFound(g, s)
  <2>1. s \in S /\ HeightOf(s) > n /\ s \in DOMAIN r.cached /\ Of(q.deps, s) = Of(r.deps, s)
    BY <1>0, <1>5, <1>n
  <2>2. \A d \in Of(q.deps, s) : d \notin x.observed
    BY <1>1, <1>5
  <2>3. Justified(q.deps, s, g)
    <3>1. ~(HeightOf(s) < k)
      BY <1>5, <1>n
    <3> QED BY <1>0, <3>1 DEF Current
  <2>4. ReadsBelow(k, S, Of(q.deps, s))
    BY <1>0, <1>5, <2>1, <2>3, JustifiedReads
  <2>5. ASSUME NEW t \in StartsIn(Of(q.deps, s)) PROVE NestedFound(h, t) = NestedFound(g, t)
    <3>1. t \in S /\ HeightOf(t) < k /\ NestedSubgraphs(t) \in Of(q.deps, s)
      BY <2>4, ReadsAreStarts
    <3>2. HeightOf(t) <= n
      BY <1>h, <1>n, <3>1 DEF k
    <3>3. t \in StartsIn(DependedOn(r))
      <4>1. Of(r.deps, s) \subseteq DependedOn(r)
        BY DEF Of, DependedOn
      <4> QED BY <2>1, <4>1, StartsInUnion
    <3>4. t \in DOMAIN r.cached
      BY <3>3 DEF Closed
    <3> QED BY <1>0, <2>2, <3>1, <3>2, <3>4
  <2>6. Unobserved(g, h, Of(q.deps, s))
    BY <1>0, <2>2, <2>5 DEF Unobserved
  <2> QED BY <1>0, <2>1, <2>3, <2>6, JustifiedStays
<1>6. CASE due = {}
  <2>1. next = x
    BY <1>4, <1>6
  <2>2. Current(q, S, k + 1, g, h)
    BY <1>0, <1>5, <1>6, CurrentRises
  <2>3. InBetween(S, k + 1, g, h, ids, q)
    BY <1>0, <1>n, <2>2 DEF InBetween
  <2>4. \A s \in DOMAIN q.cached :
           HeightOf(s) > k => s \in DOMAIN r.cached /\ Of(q.deps, s) = Of(r.deps, s)
    BY <1>0, <1>h, <1>n
  <2>5. ASSUME NEW s \in DOMAIN r.cached, HeightOf(s) <= k, NestedFound(h, s) # NestedFound(g, s)
        PROVE  NestedSubgraphs(s) \in x.observed
    <3>1. s \in DOMAIN q.cached \ due /\ HeightOf(s) \in Nat
      BY <1>0, <1>h, <1>6
    <3>2. HeightOf(s) # k
      BY <1>5, <2>5, <3>1
    <3>3. HeightOf(s) <= n
      BY <1>n, <2>5, <3>1, <3>2 DEF k
    <3> QED BY <1>0, <2>5, <3>3
  <2>6. Updated(x, k, S, g, h, ids, r, watched)
    BY <1>0, <2>3, <2>4, <2>5 DEF Updated
  <2> QED BY <2>1, <2>6 DEF next, k
<1>7. CASE due # {}
  <2>1. Matchable(S, k, g, h, ids, q, due)
    BY <1>0, <1>1, <1>2, <1>n DEF Matchable
  <2>2. FoundAnew(anew, q, h, ids, due)
    BY <2>1, MatchedAnewFinds
  <2>3. Current(anew, S, k + 1, g, h)
    <3>1. due \in SUBSET S
      BY <1>0, <1>2
    <3>2. k + 1 \in {k, k + 1} /\ \A s \in due : HeightOf(s) < k + 1
      BY <1>1, <1>n
    <3>3. \A s \in DOMAIN q.cached \ due :
             HeightOf(s) < k + 1 => HeightOf(s) < k \/ Unobserved(g, h, Of(q.deps, s))
      <4>1. ASSUME NEW s \in DOMAIN q.cached \ due, HeightOf(s) < k + 1, ~(HeightOf(s) < k)
            PROVE  HeightOf(s) = k
        BY <1>0, <1>h, <1>n, <4>1
      <4> QED BY <1>5, <4>1
    <3> QED BY <1>0, <3>1, <3>2, <3>3, MatchedAnewIsCurrent
  <2>4. Closed(q, due)
    BY <1>0 DEF Closed
  <2>5. /\ Closed(anew, wanted)
        /\ DOMAIN q.cached \ (StartsIn(DependedOn(anew)) \cup StartsIn(watched)) \subseteq anew.unused
        /\ \A t \in wanted : t \in S /\ \E s \in due : HeightOf(t) < HeightOf(s)
    BY <1>0, <2>1, <2>4, MatchedAnewKeeps
  <2> DEFINE l == LookedUp(anew, h, ids, wanted)
             O == x.observed \cup {NestedSubgraphs(s) : s \in changed}
  <2>6. next.registry = l /\ next.observed = O
    BY <1>4, <1>7
  <2> HIDE DEF anew, wanted
  <2>7. DOMAIN anew.cached = DOMAIN q.cached
    BY <1>2, <2>2 DEF FoundAnew
  <2>8. Looked(l, S, k + 1, g, h, anew, wanted, watched)
    <3>1. InBetween(S, k + 1, g, h, ids, anew)
      BY <1>0, <1>n, <2>3 DEF InBetween
    <3>2. ASSUME NEW t \in wanted PROVE t \in S /\ HeightOf(t) < k + 1
      <4>1. PICK s \in due : t \in S /\ HeightOf(t) < HeightOf(s)
        BY <2>5
      <4> QED BY <1>1, <1>h, <1>n, <4>1
    <3>3. Kept(anew, watched)
      BY <2>5, <2>7 DEF Kept
    <3> QED BY <2>5, <3>1, <3>2, <3>3, LookedUpIs
  <2>9. ASSUME NEW s \in DOMAIN r.cached, HeightOf(s) <= k, NestedFound(h, s) # NestedFound(g, s)
        PROVE  NestedSubgraphs(s) \in O
    <3>1. s \in DOMAIN q.cached /\ HeightOf(s) \in Nat
      BY <1>0, <1>h
    <3>2. CASE HeightOf(s) <= n
      BY <1>0, <2>9, <3>2
    <3>3. CASE ~(HeightOf(s) <= n)
      <4>1. HeightOf(s) = k
        BY <1>n, <2>9, <3>1, <3>3 DEF k
      <4>2. s \in due
        BY <1>5, <2>9, <3>1, <4>1
      <4>3. anew.cached[s] = NestedFound(h, s)
        BY <2>2, <4>2 DEF FoundAnew
      <4>4. q.cached[s] = NestedFound(g, s)
        <5>1. ~(HeightOf(s) < k)
          BY <1>n, <4>1
        <5>2. q.cached = CacheOf(DOMAIN q.cached, k, h, g)
          BY <1>0 DEF Current
        <5> QED BY <3>1, <5>1, <5>2, CacheOfIs
      <4>5. s \in changed
        BY <2>9, <4>2, <4>3, <4>4
      <4> QED BY <4>5
    <3> QED BY <3>2, <3>3
  <2> HIDE DEF l, O
  <2>10. InBetween(S, k + 1, g, h, ids, l)
    BY <1>0, <1>n, <2>8 DEF InBetween, Looked
  <2>11. ASSUME NEW s \in DOMAIN l.cached, HeightOf(s) > k
         PROVE  s \in DOMAIN r.cached /\ Of(l.deps, s) = Of(r.deps, s)
    <3>1. DOMAIN l.cached \subseteq S
      BY <2>8 DEF Looked, Current
    <3>2. s \in DOMAIN anew.cached /\ Of(l.deps, s) = Of(anew.deps, s)
      <4>1. ~(HeightOf(s) < k + 1)
        BY <1>h, <1>n, <2>11, <3>1
      <4> QED BY <2>8, <4>1 DEF Looked, Extends
    <3>3. s \notin due /\ HeightOf(s) > n
      BY <1>1, <1>h, <1>n, <2>11, <3>1
    <3>4. Of(anew.deps, s) = Of(q.deps, s)
      BY <2>2, <3>3 DEF FoundAnew
    <3> QED BY <1>0, <2>7, <3>2, <3>3, <3>4
  <2>12. DOMAIN r.cached \subseteq DOMAIN l.cached
    BY <1>0, <2>7, <2>8 DEF Looked, Extends
  <2>13. Observations(Difference(g, h)) \subseteq O
    BY <1>0 DEF O
  <2>14. Closed(l, {}) /\ Kept(l, watched)
    BY <2>8 DEF Looked
  <2>15. Updated(next, k, S, g, h, ids, r, watched)
    BY <1>4, <2>6, <2>9, <2>10, <2>11, <2>12, <2>13, <2>14 DEF Updated
  <2> QED BY <2>15 DEF next, k
<1> QED BY <1>6, <1>7

LEMMA RegistryUpdateUpdates ==
    ASSUME NEW S, NEW g, NEW h, NEW ids, NEW r, InBetween(S, 1, g, h, ids, r),
           Closed(r, {}), NEW watched, Kept(r, watched)
    PROVE  Updated(RegistryUpdate(r, h, ids, Observations(Difference(g, h))),
                   MaxHeight, S, g, h, ids, r, watched)
<1> DEFINE O    == Observations(Difference(g, h))
           upTo == UpdatesUpTo(r, h, ids, O)
           T    == {n \in 0 .. MaxHeight : Updated(upTo[n], n, S, g, h, ids, r, watched)}
<1>0. MaxHeight \in Nat /\ SoundNesting(S) /\ IsRegistry(r) /\ DOMAIN r.cached \subseteq S
  BY HeightAssumption DEF InBetween, Current
<1>1. /\ upTo[0] = [registry |-> r, observed |-> O]
      /\ \A n \in 0 .. MaxHeight - 1 : upTo[n + 1] = UpdateAtHeight(upTo[n], h, ids, n + 1)
  BY UpdatesDefined
<1> HIDE DEF upTo
<1>2. Updated(upTo[0], 0, S, g, h, ids, r, watched)
  <2> HIDE DEF O
  <2>1. upTo[0].registry = r /\ upTo[0].observed = O
    BY <1>1
  <2>2. IsUpdate(upTo[0])
    BY <1>0, <1>1, <2>1 DEF IsUpdate
  <2>3. \A s \in DOMAIN r.cached : ~(HeightOf(s) <= 0)
    BY <1>0, Heights
  <2> QED BY <2>1, <2>2, <2>3 DEF Updated, O
<1>3. 0 \in T
  BY <1>0, <1>2
<1>4. ASSUME NEW n \in 0 .. MaxHeight - 1, n \in T PROVE n + 1 \in T
  <2>1. Updated(upTo[n], n, S, g, h, ids, r, watched)
    BY <1>4
  <2>2. Updated(UpdateAtHeight(upTo[n], h, ids, n + 1), n + 1, S, g, h, ids, r, watched)
    BY <2>1, UpdateAtHeightUpdates
  <2>3. Updated(upTo[n + 1], n + 1, S, g, h, ids, r, watched)
    BY <1>1, <2>2
  <2> QED BY <1>0, <2>3
<1>5. MaxHeight \in T
  <2> HIDE DEF T
  <2> QED BY <1>0, <1>3, <1>4, UpTo
<1> QED BY <1>5 DEF RegistryUpdate, upTo

-----------------------------------------------------------------------------
(* A registry all of whose entries are up to date. *)

Settled(r, S, g) ==
    /\ IsRegistry(r)
    /\ DOMAIN r.cached \subseteq S
    /\ \A s \in DOMAIN r.cached : r.cached[s] = NestedFound(g, s) /\ Justified(r.deps, s, g)

LEMMA SettledIsCurrent ==
    ASSUME NEW S, SoundNesting(S), NEW r, NEW g
    PROVE  /\ Settled(r, S, g) => \A h : Current(r, S, 1, g, h)
           /\ Settled(r, S, g) => \A f : Current(r, S, MaxHeight + 1, f, g)
           /\ \A f : Current(r, S, MaxHeight + 1, f, g) => Settled(r, S, g)
           /\ Settled(r, S, g) => r.cached = CacheOf(DOMAIN r.cached, MaxHeight + 1, g, g)
<1>1. \A s \in S : ~(HeightOf(s) < 1) /\ HeightOf(s) < MaxHeight + 1
  BY Heights, HeightAssumption
<1>2. ASSUME Settled(r, S, g), NEW low, NEW f, NEW h,
             \A s \in S : (IF HeightOf(s) < low THEN h ELSE f) = g
      PROVE  Current(r, S, low, f, h)
  <2>1. r.cached = [s \in DOMAIN r.cached |-> r.cached[s]]
    BY <1>2 DEF Settled, IsRegistry, IsFcn
  <2>2. \A s \in DOMAIN r.cached :
           /\ s \in S /\ (IF HeightOf(s) < low THEN h ELSE f) = g
           /\ r.cached[s] = NestedFound(g, s) /\ Justified(r.deps, s, g)
    BY <1>2 DEF Settled
  <2>3. r.cached = CacheOf(DOMAIN r.cached, low, h, f)
    BY <2>1, <2>2 DEF CacheOf
  <2> QED BY <1>2, <2>2, <2>3 DEF Settled, Current
<1>3. ASSUME NEW f, Current(r, S, MaxHeight + 1, f, g) PROVE Settled(r, S, g)
  <2>1. \A s \in DOMAIN r.cached : s \in S /\ (IF HeightOf(s) < MaxHeight + 1 THEN g ELSE f) = g
    BY <1>1, <1>3 DEF Current
  <2>2. r.cached = CacheOf(DOMAIN r.cached, MaxHeight + 1, g, f)
    BY <1>3 DEF Current
  <2>3. \A s \in DOMAIN r.cached : r.cached[s] = NestedFound(g, s)
    BY <2>1, <2>2, CacheOfIs
  <2>4. \A s \in DOMAIN r.cached : Justified(r.deps, s, g)
    BY <1>3, <2>1 DEF Current
  <2> QED BY <1>3, <2>3, <2>4 DEF Settled, Current
<1>4. ASSUME Settled(r, S, g) PROVE \A h : Current(r, S, 1, g, h)
  BY <1>1, <1>2, <1>4
<1>5. ASSUME Settled(r, S, g) PROVE \A f : Current(r, S, MaxHeight + 1, f, g)
  BY <1>1, <1>2, <1>5
<1>6. ASSUME Settled(r, S, g) PROVE r.cached = CacheOf(DOMAIN r.cached, MaxHeight + 1, g, g)
  BY <1>5, <1>6 DEF Current
<1> QED BY <1>3, <1>4, <1>5, <1>6

-----------------------------------------------------------------------------
(* Evictions: what is read or watched is not dropped. *)

(* What of a set of deps reads, is the subgraphs of starts. *)
Plain(deps) == \A d \in deps : d[1] = "NestedExpressionSubgraph" => d = NestedSubgraphs(d[2])

LEMMA PlainStarts ==
    ASSUME NEW deps, Plain(deps), NEW s
    PROVE  s \in StartsIn(deps) <=> NestedSubgraphs(s) \in deps
BY StartsInIs, NestedSubgraphsIs DEF Plain

LEMMA SettledReadsPlainly ==
    ASSUME NEW S, SoundNesting(S), NEW g, NEW r, Settled(r, S, g)
    PROVE  Plain(DependedOn(r))
<1> SUFFICES ASSUME NEW d \in DependedOn(r), d[1] = "NestedExpressionSubgraph"
             PROVE  d = NestedSubgraphs(d[2])
  BY DEF Plain
<1>1. PICK s \in DOMAIN r.cached : d \in Of(r.deps, s)
  BY DependedOnIs DEF Settled
<1>2. ReadsBelow(HeightOf(s), S, Of(r.deps, s))
  BY JustifiedReads DEF Settled
<1>3. d[2] \in StartsIn(Of(r.deps, s))
  BY <1>1, StartsInIs
<1>4. PICK t \in S : d = NestedSubgraphs(t)
  BY <1>1, <1>2 DEF ReadsBelow
<1> QED BY <1>4, NestedSubgraphsIs

InUse(r, S, g, watched) ==
    /\ Settled(r, S, g)
    /\ Closed(r, {}) /\ Kept(r, watched)
    /\ StartsIn(watched) \subseteq DOMAIN r.cached

LEMMA EvictOnceKeeps ==
    ASSUME NEW S, SoundNesting(S), NEW g, NEW r, NEW watched, Plain(watched), InUse(r, S, g, watched)
    PROVE  InUse(EvictOnce(r, watched), S, g, watched)
<1> DEFINE next    == EvictOnce(r, watched)
           evicted == {s \in r.unused \cap DOMAIN r.cached :
                         NestedSubgraphs(s) \notin DependedOn(r) \cup watched}
<1>0. /\ Settled(r, S, g) /\ IsRegistry(r) /\ Closed(r, {}) /\ Kept(r, watched)
      /\ StartsIn(watched) \subseteq DOMAIN r.cached
      /\ DOMAIN r.cached \subseteq S
      /\ \A s \in DOMAIN r.cached : r.cached[s] = NestedFound(g, s) /\ Justified(r.deps, s, g)
  BY DEF InUse, Settled
<1>1. /\ IsRegistry(next)
      /\ next.cached = [s \in DOMAIN r.cached \ evicted |-> r.cached[s]]
      /\ next.deps = {pair \in r.deps : pair[2] \notin evicted}
      /\ next.unused = StartsIn(DependedOn(r) \ DependedOn(next))
  BY <1>0, EvictOnceIs
<1>2. Plain(DependedOn(r))
  BY <1>0, SettledReadsPlainly
<1> HIDE DEF next
<1>3. \A s : s \in evicted <=> /\ s \in r.unused /\ s \in DOMAIN r.cached
                               /\ s \notin StartsIn(DependedOn(r)) /\ s \notin StartsIn(watched)
  BY <1>2, PlainStarts
<1> HIDE DEF evicted
<1>4. DOMAIN next.cached = DOMAIN r.cached \ evicted /\ \A s \in DOMAIN next.cached : next.cached[s] = r.cached[s]
  BY <1>1
<1>5. \A s : s \notin evicted => Of(next.deps, s) = Of(r.deps, s)
  <2> SUFFICES ASSUME NEW s, s \notin evicted PROVE Of(next.deps, s) = Of(r.deps, s)
    OBVIOUS
  <2>1. \A d : <<d, s>> \in next.deps <=> <<d, s>> \in r.deps
    BY <1>1
  <2>2. \A d : d \in Of(next.deps, s) <=> d \in Of(r.deps, s)
    BY <1>0, <1>1, <2>1, DependedOnIs
  <2> QED BY <2>2 DEF Of
<1>6. Settled(next, S, g)
  <2>1. \A s \in DOMAIN next.cached : next.cached[s] = NestedFound(g, s) /\ Justified(next.deps, s, g)
    BY <1>0, <1>4, <1>5 DEF Justified
  <2> QED BY <1>0, <1>1, <1>4, <2>1 DEF Settled
<1>7. DependedOn(next) \subseteq DependedOn(r)
  BY <1>1 DEF DependedOn
<1>8. StartsIn(DependedOn(next)) \subseteq StartsIn(DependedOn(r))
  BY <1>7, StartsInUnion
<1>9. Closed(next, {})
  BY <1>0, <1>3, <1>4, <1>8 DEF Closed
<1>10. StartsIn(watched) \subseteq DOMAIN next.cached
  BY <1>0, <1>3, <1>4
<1>11. ASSUME NEW s \in DOMAIN next.cached, s \notin StartsIn(DependedOn(next)), s \notin StartsIn(watched)
       PROVE  s \in next.unused
  <2>1. s \in DOMAIN r.cached /\ s \notin evicted
    BY <1>4
  <2>2. s \in StartsIn(DependedOn(r))
    BY <1>0, <1>3, <1>11, <2>1 DEF Kept
  <2>3. PICK d \in DependedOn(r) : d[1] = "NestedExpressionSubgraph" /\ d[2] = s
    BY <2>2, StartsInIs
  <2>4. d \notin DependedOn(next)
    BY <1>11, <2>3, StartsInIs
  <2>5. s \in StartsIn(DependedOn(r) \ DependedOn(next))
    BY <2>3, <2>4, StartsInIs
  <2> QED BY <1>1, <2>5
<1>12. Kept(next, watched)
  BY <1>11 DEF Kept
<1> QED BY <1>6, <1>9, <1>10, <1>12 DEF InUse, next

LEMMA EvictUnusedKeeps ==
    ASSUME NEW S, SoundNesting(S), NEW g, NEW r, NEW watched, Plain(watched), InUse(r, S, g, watched)
    PROVE  InUse(EvictUnused(r, watched), S, g, watched)
<1> DEFINE rounds == Evictions(r, watched)
           T == {n \in 0 .. MaxHeight : InUse(rounds[n], S, g, watched)}
<1>0. MaxHeight \in Nat
  BY HeightAssumption
<1>1. /\ rounds[0] = r
      /\ \A n \in 0 .. MaxHeight - 1 : rounds[n + 1] = EvictOnce(rounds[n], watched)
  BY EvictionsDefined
<1> HIDE DEF rounds
<1>2. 0 \in T
  BY <1>0, <1>1
<1>3. ASSUME NEW n \in 0 .. MaxHeight - 1, n \in T PROVE n + 1 \in T
  <2>1. InUse(EvictOnce(rounds[n], watched), S, g, watched)
    BY <1>3, EvictOnceKeeps
  <2> QED BY <1>0, <1>1, <2>1
<1>4. MaxHeight \in T
  <2> HIDE DEF T
  <2> QED BY <1>0, <1>2, <1>3, UpTo
<1> QED BY <1>4 DEF EvictUnused, rounds

-----------------------------------------------------------------------------
(* What the matcher of an observer is worth.  ids are the vertices that    *)
(* had an ID when it was reinitialized.                                    *)

FoundAt(m, at) == {s \in m.last : s.start = at}

(* A position has been matched from, in some graph, and nothing has been   *)
(* observed of what that depended on up to g.                              *)
Covered(o, m, ids, at, g) ==
    \E f \in GraphState : \E now \in Ids(f) :
        /\ ids \subseteq now
        /\ Of(m.deps, at) = Deps(PatternOf[o], f, now, Uncached, at)
        /\ FoundAt(m, at) = Query(PatternOf[o], f, at)
        /\ Unobserved(f, g, Of(m.deps, at))
        /\ ~Announced(o, ids, at, f, g)

(* A position has not been matched from, as it was no start position of    *)
(* some graph, and has not been announced up to g.                         *)
Idle(o, m, ids, at, g) ==
    \E f \in GraphState : \E now \in Ids(f) :
        /\ ids \subseteq now
        /\ Of(m.deps, at) = {} /\ FoundAt(m, at) = {}
        /\ at \notin Starts(PatternOf[o], f, now)
        /\ ~Announced(o, ids, at, f, g)

(* It would be told of what happens to g. *)
Attends(o, m, ids, g) ==
    /\ m.triggers = m.deps \cup StartDeps(PatternOf[o], ids)
    /\ \A at \in Position : Covered(o, m, ids, at, g) \/ Idle(o, m, ids, at, g)

Attentive(o, m, g, all) ==
    /\ IsMatcher(m)
    /\ \A s \in m.last : s.start \in Position
    /\ \E ids \in SUBSET all : Attends(o, m, ids, g)

LEMMA SoundFromAnywhere ==
    ASSUME NEW S, SoundMatching(S), NEW o \in Observer, NEW g \in GraphState, NEW ids \in Ids(g), NEW at \in Position
    PROVE  /\ SoundFrom(o, S, g, ids, at)
           /\ ids \in SUBSET Vertex /\ g.vertices \subseteq ids
BY DEF SoundMatching, Ids

LEMMA IdsExist == \A g \in GraphState : g.vertices \in Ids(g)
BY GraphStateIs DEF Ids

LEMMA PositionSees ==
    ASSUME NEW S, SoundMatching(S), NEW o \in Observer, NEW g \in GraphState,
           NEW m, NEW ids, NEW at \in Position, Covered(o, m, ids, at, g) \/ Idle(o, m, ids, at, g)
    PROVE  /\ FoundAt(m, at) = Query(PatternOf[o], g, at)
           /\ ReadsBelow(MaxHeight + 1, S, Of(m.deps, at))
<1>1. CASE Covered(o, m, ids, at, g)
  <2>1. PICK f \in GraphState : \E now \in Ids(f) :
           /\ ids \subseteq now
           /\ Of(m.deps, at) = Deps(PatternOf[o], f, now, Uncached, at)
           /\ FoundAt(m, at) = Query(PatternOf[o], f, at)
           /\ Unobserved(f, g, Of(m.deps, at))
           /\ ~Announced(o, ids, at, f, g)
    BY <1>1 DEF Covered
  <2>2. PICK now \in Ids(f) :
           /\ ids \subseteq now
           /\ Of(m.deps, at) = Deps(PatternOf[o], f, now, Uncached, at)
           /\ FoundAt(m, at) = Query(PatternOf[o], f, at)
           /\ Unobserved(f, g, Of(m.deps, at))
           /\ ~Announced(o, ids, at, f, g)
    BY <2>1
  <2>3. SoundFrom(o, S, f, now, at)
    BY SoundFromAnywhere
  <2> QED BY <2>2, <2>3 DEF SoundFrom
<1>2. CASE Idle(o, m, ids, at, g)
  <2>1. PICK f \in GraphState : \E now \in Ids(f) :
           /\ ids \subseteq now
           /\ Of(m.deps, at) = {} /\ FoundAt(m, at) = {}
           /\ at \notin Starts(PatternOf[o], f, now)
           /\ ~Announced(o, ids, at, f, g)
    BY <1>2 DEF Idle
  <2>2. PICK now \in Ids(f) :
           /\ ids \subseteq now
           /\ Of(m.deps, at) = {} /\ FoundAt(m, at) = {}
           /\ at \notin Starts(PatternOf[o], f, now)
           /\ ~Announced(o, ids, at, f, g)
    BY <2>1
  <2>3. SoundFrom(o, S, f, now, at)
    BY SoundFromAnywhere
  <2>4. Query(PatternOf[o], g, at) = {}
    BY <2>2, <2>3 DEF SoundFrom
  <2> QED BY <2>2, <2>4 DEF ReadsBelow
<1> QED BY <1>1, <1>2

(* What is remembered is what the pattern matches. *)
LEMMA AttentiveSees ==
    ASSUME NEW S, SoundMatching(S), NEW o \in Observer, NEW g \in GraphState,
           NEW all \in SUBSET Vertex, NEW m, Attentive(o, m, g, all)
    PROVE  /\ m.last = Finds(o, g)
           /\ \A at \in Position : FoundAt(m, at) = Query(PatternOf[o], g, at)
           /\ Plain(Watched(m))
           /\ StartsIn(Watched(m)) \subseteq S
           /\ StartsIn(Watched(m)) = NestedIn(m.deps)
<1>0. PICK ids \in SUBSET all : Attends(o, m, ids, g)
  BY DEF Attentive
<1>1. \A at \in Position : /\ FoundAt(m, at) = Query(PatternOf[o], g, at)
                           /\ ReadsBelow(MaxHeight + 1, S, Of(m.deps, at))
  BY <1>0, PositionSees DEF Attends
<1>2. \A at \in Position : \A s \in Query(PatternOf[o], g, at) : s.start = at /\ at[2] \in g.vertices
  BY IdsExist, SoundFromAnywhere DEF SoundFrom
<1>3. m.last = Finds(o, g)
  <2>1. ASSUME NEW s \in m.last PROVE s \in Finds(o, g)
    <3>1. s.start \in Position /\ s \in FoundAt(m, s.start)
      BY DEF Attentive, FoundAt
    <3>2. s \in Query(PatternOf[o], g, s.start)
      BY <1>1, <3>1
    <3> QED BY <1>2, <3>1, <3>2 DEF Finds
  <2>2. ASSUME NEW s \in Finds(o, g) PROVE s \in m.last
    <3>1. PICK at \in Position : s \in Query(PatternOf[o], g, at)
      BY DEF Finds
    <3> QED BY <1>1, <3>1 DEF FoundAt
  <2> QED BY <2>1, <2>2
<1>4. ASSUME NEW d \in Watched(m), d[1] = "NestedExpressionSubgraph"
      PROVE  d = NestedSubgraphs(d[2]) /\ d[2] \in S /\ d \in {pair[1] : pair \in m.deps}
  <2>1. PICK pair \in m.triggers : pair[1] = d
    BY DEF Watched
  <2>2. pair \in m.deps
    <3>1. pair \notin StartDeps(PatternOf[o], ids)
      BY <1>4, <2>1, StartsAssumption
    <3> QED BY <1>0, <2>1, <3>1 DEF Attends
  <2>3. pair = <<d, pair[2]>> /\ pair[2] \in Position
    BY <2>1, <2>2, PositionKinds DEF Attentive, IsMatcher
  <2>4. d \in Of(m.deps, pair[2])
    BY <2>2, <2>3 DEF Of
  <2>5. PICK t \in S : d = NestedSubgraphs(t)
    BY <1>1, <1>4, <2>3, <2>4 DEF ReadsBelow
  <2> QED BY <2>1, <2>2, <2>5, NestedSubgraphsIs
<1>5. Plain(Watched(m)) /\ StartsIn(Watched(m)) \subseteq S
  BY <1>4, StartsInIs DEF Plain
<1>6. {pair[1] : pair \in m.deps} \subseteq Watched(m)
  BY DEF Attentive, IsMatcher, Watched
<1>7. StartsIn(Watched(m)) = NestedIn(m.deps)
  <2> DEFINE X == {pair[1] : pair \in m.deps}
  <2>1. \A d \in Watched(m) : d[1] = "NestedExpressionSubgraph" => d \in X
    BY <1>4
  <2>2. NestedIn(m.deps) = StartsIn(X) /\ X \subseteq Watched(m)
    BY <1>6 DEF NestedIn
  <2> HIDE DEF X
  <2>3. \A s : s \in StartsIn(Watched(m)) <=> s \in StartsIn(X)
    BY <2>1, <2>2, StartsInIs
  <2> QED BY <2>2, <2>3 DEF StartsIn
<1> QED BY <1>1, <1>3, <1>5, <1>7

(* Caches that are up to date are as good as none. *)
LEMMA MatchedFromPosition ==
    ASSUME NEW S, SoundMatching(S), NEW o \in Observer, NEW g \in GraphState, NEW ids \in Ids(g),
           NEW at \in Position, NEW D \in SUBSET S, NEW cached, cached = CacheOf(D, MaxHeight + 1, g, g)
    PROVE  /\ Match(PatternOf[o], g, ids, cached, at) = Query(PatternOf[o], g, at)
           /\ Deps(PatternOf[o], g, ids, cached, at) = Deps(PatternOf[o], g, ids, Uncached, at)
           /\ \A s \in Query(PatternOf[o], g, at) : s.start = at
<1>1. SoundFrom(o, S, g, ids, at)
  BY SoundFromAnywhere
<1> QED BY <1>1 DEF SoundFrom

(* What a position is left with that has been matched from. *)
FoundFrom(last, deps, p, g, ids, positions) ==
    /\ \A s \in last : s.start \in positions
    /\ \A at \in positions : /\ {s \in last : s.start = at} = Query(p, g, at)
                             /\ Of(deps, at) = Deps(p, g, ids, Uncached, at)
    /\ \A at : at \notin positions => Of(deps, at) = {}

LEMMA MatchedFrom ==
    ASSUME NEW S, SoundMatching(S), NEW o \in Observer, NEW g \in GraphState, NEW ids \in Ids(g),
           NEW positions \in SUBSET Position,
           NEW D \in SUBSET S, NEW cached, cached = CacheOf(D, MaxHeight + 1, g, g)
    PROVE  FoundFrom(MatchesFrom(PatternOf[o], g, ids, cached, positions),
                     DepsFrom(PatternOf[o], g, ids, cached, positions),
                     PatternOf[o], g, ids, positions)
<1> DEFINE p    == PatternOf[o]
           last == MatchesFrom(p, g, ids, cached, positions)
           deps == DepsFrom(p, g, ids, cached, positions)
<1>1. \A at \in positions :
         /\ Match(p, g, ids, cached, at) = Query(p, g, at)
         /\ Deps(p, g, ids, cached, at) = Deps(p, g, ids, Uncached, at)
         /\ \A s \in Query(p, g, at) : s.start = at
  BY MatchedFromPosition
<1>2. last = UNION {Query(p, g, at) : at \in positions}
  <2>1. last = UNION {Match(p, g, ids, cached, at) : at \in positions}
    BY DEF MatchesFrom
  <2> HIDE DEF last, p
  <2> QED BY <1>1, <2>1
<1>3. \A d, at : <<d, at>> \in deps <=> at \in positions /\ d \in Deps(p, g, ids, Uncached, at)
  <2>1. deps = UNION {Deps(p, g, ids, cached, at) \X {at} : at \in positions}
    BY DEF DepsFrom
  <2> HIDE DEF deps, p
  <2> QED BY <1>1, <2>1
<1>4. \A pair \in deps : pair = <<pair[1], pair[2]>>
  BY DepsFromPositions
<1> HIDE DEF last, deps, p
<1>5. \A s \in last : s.start \in positions
  BY <1>1, <1>2
<1>6. ASSUME NEW at \in positions
      PROVE  {s \in last : s.start = at} = Query(p, g, at) /\ Of(deps, at) = Deps(p, g, ids, Uncached, at)
  <2>1. \A s : s \in last /\ s.start = at <=> s \in Query(p, g, at)
    BY <1>1, <1>2
  <2>2. {s \in last : s.start = at} = Query(p, g, at)
    BY <2>1
  <2>3. \A d : d \in Of(deps, at) <=> d \in Deps(p, g, ids, Uncached, at)
    <3>1. \A d : d \in Of(deps, at) <=> <<d, at>> \in deps
      BY <1>4 DEF Of
    <3> QED BY <1>3, <3>1
  <2>4. Of(deps, at) = Deps(p, g, ids, Uncached, at)
    BY <2>3
  <2> QED BY <2>2, <2>4
<1>7. \A at : at \notin positions => Of(deps, at) = {}
  BY <1>3, <1>4 DEF Of
<1>8. FoundFrom(last, deps, p, g, ids, positions)
  BY <1>5, <1>6, <1>7 DEF FoundFrom
<1> QED BY <1>8 DEF last, deps, p

LEMMA ReinitializeAttends ==
    ASSUME NEW S, SoundMatching(S), NEW o \in Observer, NEW g \in GraphState, NEW ids \in Ids(g),
           NEW D \in SUBSET S, NEW cached, cached = CacheOf(D, MaxHeight + 1, g, g)
    PROVE  Attentive(o, Reinitialize(PatternOf[o], g, ids, cached), g, ids)
<1> DEFINE p    == PatternOf[o]
           positions == Starts(p, g, ids)
           last == MatchesFrom(p, g, ids, cached, positions)
           deps == DepsFrom(p, g, ids, cached, positions)
           m    == Reinitialize(p, g, ids, cached)
<1>0. ids \in SUBSET Vertex
  BY DEF Ids
<1>1. m.last = last /\ m.deps = deps /\ m.triggers = deps \cup StartDeps(p, ids)
  BY DEF Reinitialize
<1>2. positions \in SUBSET Position
  BY <1>0, StartsAssumption
<1>3. /\ \A s \in last : s.start \in positions
      /\ \A at \in positions : /\ {s \in last : s.start = at} = Query(p, g, at)
                               /\ Of(deps, at) = Deps(p, g, ids, Uncached, at)
      /\ \A at : at \notin positions => Of(deps, at) = {}
  <2>1. FoundFrom(last, deps, p, g, ids, positions)
    BY <1>2, MatchedFrom
  <2> HIDE DEF last, deps, p, positions
  <2> QED BY <2>1 DEF FoundFrom
<1>4. IsMatcher(m)
  BY <1>0, ReinitializeIsMatcher
<1> HIDE DEF m, last, deps, positions, p
<1>5. ASSUME NEW at \in Position PROVE Covered(o, m, ids, at, g) \/ Idle(o, m, ids, at, g)
  <2>1. ~Announced(o, ids, at, g, g)
    BY NotAnnouncedAtOnce
  <2>2. CASE at \in positions
    <3>1. /\ Of(m.deps, at) = Deps(p, g, ids, Uncached, at)
          /\ FoundAt(m, at) = Query(p, g, at)
      BY <1>1, <1>3, <2>2 DEF FoundAt
    <3>2. Unobserved(g, g, Of(m.deps, at))
      BY UnobservedAtOnce
    <3> QED BY <2>1, <3>1, <3>2 DEF Covered, p
  <2>3. CASE at \notin positions
    <3>1. Of(m.deps, at) = {} /\ FoundAt(m, at) = {}
      BY <1>1, <1>3, <2>3 DEF FoundAt
    <3> QED BY <2>1, <2>3, <3>1 DEF Idle, positions, p
  <2> QED BY <2>2, <2>3
<1>6. Attends(o, m, ids, g)
  BY <1>1, <1>5 DEF Attends, p
<1>7. Attentive(o, m, g, ids)
  BY <1>1, <1>2, <1>3, <1>4, <1>6 DEF Attentive
<1> QED BY <1>7 DEF m, p

(* The memory of a position that need not be rematched. *)
LEMMA PositionStays ==
    ASSUME NEW o \in Observer, NEW ids \in SUBSET Vertex, NEW at \in Position,
           NEW g \in GraphState, NEW h \in GraphState, NEW m, NEW n,
           Covered(o, m, ids, at, g) \/ Idle(o, m, ids, at, g),
           Of(n.deps, at) = Of(m.deps, at), FoundAt(n, at) = FoundAt(m, at),
           Unobserved(g, h, Of(m.deps, at)), ~Announced(o, ids, at, g, h)
    PROVE  Covered(o, n, ids, at, h) \/ Idle(o, n, ids, at, h)
<1>1. CASE Covered(o, m, ids, at, g)
  <2>1. PICK f \in GraphState : \E now \in Ids(f) :
           /\ ids \subseteq now
           /\ Of(m.deps, at) = Deps(PatternOf[o], f, now, Uncached, at)
           /\ FoundAt(m, at) = Query(PatternOf[o], f, at)
           /\ Unobserved(f, g, Of(m.deps, at))
           /\ ~Announced(o, ids, at, f, g)
    BY <1>1 DEF Covered
  <2>2. Unobserved(f, h, Of(m.deps, at))
    BY <2>1, UnobservedComposes
  <2>3. ~Announced(o, ids, at, f, h)
    BY <2>1, AnnouncedComposes
  <2> QED BY <2>1, <2>2, <2>3 DEF Covered
<1>2. CASE Idle(o, m, ids, at, g)
  <2>1. PICK f \in GraphState : \E now \in Ids(f) :
           /\ ids \subseteq now
           /\ Of(m.deps, at) = {} /\ FoundAt(m, at) = {}
           /\ at \notin Starts(PatternOf[o], f, now)
           /\ ~Announced(o, ids, at, f, g)
    BY <1>2 DEF Idle
  <2>2. ~Announced(o, ids, at, f, h)
    BY <2>1, AnnouncedComposes
  <2> QED BY <2>1, <2>2 DEF Idle
<1> QED BY <1>1, <1>2

(* Rematching from these positions is enough. *)
Enough(m, positions, g, h) ==
    /\ \A at \in Position \ positions : Unobserved(g, h, Of(m.deps, at))
    /\ \A pair \in m.triggers :
          pair[1] \in Observations(Difference(g, h)) =>
             PositionsOf(pair[2], pair[1], Difference(g, h)) \subseteq positions

LEMMA MatchIncrementallyAttends ==
    ASSUME NEW S, SoundMatching(S), NEW o \in Observer, NEW g \in GraphState, NEW h \in GraphState,
           NEW m, NEW all \in SUBSET Vertex, Attentive(o, m, g, all), NEW ids \in Ids(h), all \subseteq ids,
           NEW D \in SUBSET S, NEW cached, cached = CacheOf(D, MaxHeight + 1, h, h),
           NEW positions \in SUBSET Position, Enough(m, positions, g, h)
    PROVE  LET n == MatchIncrementally(m, PatternOf[o], h, ids, cached, positions)
           IN  /\ Attentive(o, n, h, ids)
               /\ \A at \in Position \ positions : FoundAt(n, at) = FoundAt(m, at)
               /\ \A d \in Watched(n) : d \in Watched(m) \/ d \in {pair[1] : pair \in DepsAt(n, positions)}
<1> DEFINE p    == PatternOf[o]
           last == MatchesFrom(p, h, ids, cached, positions)
           deps == DepsFrom(p, h, ids, cached, positions)
           old  == DepsAt(m, positions)
           n    == MatchIncrementally(m, p, h, ids, cached, positions)
<1>0. PICK then \in SUBSET all : Attends(o, m, then, g)
  BY DEF Attentive
<1>1. /\ n.last = {s \in m.last : s.start \notin positions} \cup last
      /\ n.deps = (m.deps \ old) \cup deps
      /\ n.triggers = (m.triggers \ (old \ deps)) \cup deps
  BY DEF MatchIncrementally
<1>2. /\ \A s \in last : s.start \in positions
      /\ \A at \in positions : /\ {s \in last : s.start = at} = Query(p, h, at)
                               /\ Of(deps, at) = Deps(p, h, ids, Uncached, at)
      /\ \A at : at \notin positions => Of(deps, at) = {}
  <2>1. FoundFrom(last, deps, p, h, ids, positions)
    BY MatchedFrom
  <2> HIDE DEF last, deps, p
  <2> QED BY <2>1 DEF FoundFrom
<1>3. IsMatcher(m) /\ IsMatcher(n) /\ \A s \in m.last : s.start \in Position
  BY MatchIncrementallyIsMatcher DEF Attentive
<1>4. old = {pair \in m.deps : pair[2] \in positions}
  BY DEF DepsAt
<1> HIDE DEF n, last, deps, old, p
<1>5. ASSUME NEW at \in positions
      PROVE  FoundAt(n, at) = Query(p, h, at) /\ Of(n.deps, at) = Deps(p, h, ids, Uncached, at)
  <2>1. FoundAt(n, at) = {s \in last : s.start = at}
    BY <1>1 DEF FoundAt
  <2>2. Of(n.deps, at) = Of(deps, at)
    BY <1>1, <1>4 DEF Of
  <2> QED BY <1>2, <2>1, <2>2
<1>6. ASSUME NEW at \in Position \ positions
      PROVE  FoundAt(n, at) = FoundAt(m, at) /\ Of(n.deps, at) = Of(m.deps, at)
  <2>1. FoundAt(n, at) = FoundAt(m, at)
    BY <1>1, <1>2 DEF FoundAt
  <2>2. \A pair \in deps : pair[2] # at
    BY <1>2 DEF Of
  <2>3. Of(n.deps, at) = Of(m.deps, at)
    BY <1>1, <1>4, <2>2 DEF Of
  <2> QED BY <2>1, <2>3
<1>7. ASSUME NEW at \in Position PROVE Covered(o, n, then, at, h) \/ Idle(o, n, then, at, h)
  <2>1. CASE at \in positions
    <3>1. Unobserved(h, h, Of(n.deps, at)) /\ ~Announced(o, then, at, h, h)
      BY UnobservedAtOnce, NotAnnouncedAtOnce
    <3>2. then \subseteq ids
      BY <1>0
    <3> QED BY <1>5, <2>1, <3>1, <3>2 DEF Covered, p
  <2>2. CASE at \notin positions
    <3>1. Unobserved(g, h, Of(m.deps, at))
      BY <2>2 DEF Enough
    <3>2. ~Announced(o, then, at, g, h)
      <4>1. StartDeps(PatternOf[o], then) \subseteq m.triggers
        BY <1>0 DEF Attends
      <4> QED BY <2>2, <4>1 DEF Announced, Enough
    <3>3. Covered(o, m, then, at, g) \/ Idle(o, m, then, at, g)
      BY <1>0 DEF Attends
    <3>4. then \in SUBSET Vertex /\ at \in Position
      BY <1>0
    <3> QED BY <1>6, <2>2, <3>1, <3>2, <3>3, <3>4, PositionStays
  <2> QED BY <2>1, <2>2
<1>8. n.triggers = n.deps \cup StartDeps(p, then)
  <2>1. m.triggers = m.deps \cup StartDeps(p, then)
    BY <1>0 DEF Attends, p
  <2>2. \A pair \in StartDeps(p, then) : pair[2][1] \notin {"core", "orbit"}
    BY <1>0, StartsAssumption, SpecialKinds DEF p
  <2>3. \A pair \in old : pair[2][1] \in {"core", "orbit"}
    BY <1>3, <1>4 DEF IsMatcher
  <2>4. old \cap StartDeps(p, then) = {}
    BY <2>2, <2>3
  <2> QED BY <1>1, <1>4, <2>1, <2>4
<1>9. Attends(o, n, then, h) /\ then \in SUBSET ids
  BY <1>0, <1>7, <1>8 DEF Attends, p
<1>10. \A s \in n.last : s.start \in Position
  BY <1>1, <1>2, <1>3
<1>11. Attentive(o, n, h, ids)
  BY <1>3, <1>9, <1>10 DEF Attentive
<1>12. ASSUME NEW d \in Watched(n)
       PROVE  d \in Watched(m) \/ d \in {pair[1] : pair \in DepsAt(n, positions)}
  <2>1. PICK pair \in n.triggers : pair[1] = d
    BY DEF Watched
  <2>2. CASE pair \in m.triggers
    BY <2>1, <2>2 DEF Watched
  <2>3. CASE pair \in deps
    <3>1. pair \in n.deps /\ pair[2] \in positions
      <4>1. pair[1] \in Of(deps, pair[2])
        BY <2>3 DEF Of
      <4> QED BY <1>1, <1>2, <2>3, <4>1
    <3> QED BY <2>1, <3>1 DEF DepsAt
  <2> QED BY <1>1, <2>1, <2>2, <2>3
<1> QED BY <1>6, <1>11, <1>12 DEF n, p

-----------------------------------------------------------------------------
(* The container keeps observers attentive and the registry in use. *)

(* What some observer waits for, with these matchers. *)
WaitedFor(m) == UNION {Watched(m[o]) : o \in registered}

MatchingInv(S) ==
    /\ RecordsInv
    /\ InUse(nested, S, applied, WaitedFor(matcher))
    /\ \A o \in registered : Attentive(o, matcher[o], applied, known)

LEMMA WaitedForIs ==
    ASSUME NEW m, NEW subs, subs = UNION {Watched(m[o]) \X {o} : o \in registered}
    PROVE  /\ WaitedFor(m) = {pair[1] : pair \in subs}
           /\ \A d, o : <<d, o>> \in subs <=> o \in registered /\ d \in Watched(m[o])
<1>1. \A d, o : <<d, o>> \in subs <=> o \in registered /\ d \in Watched(m[o])
  OBVIOUS
<1>2. \A pair \in subs : pair = <<pair[1], pair[2]>>
  OBVIOUS
<1>3. \A d : d \in {pair[1] : pair \in subs} <=> \E o \in registered : d \in Watched(m[o])
  <2>1. ASSUME NEW d, d \in {pair[1] : pair \in subs} PROVE \E o \in registered : d \in Watched(m[o])
    <3>1. PICK pair \in subs : pair[1] = d
      BY <2>1
    <3>2. <<d, pair[2]>> \in subs
      BY <1>2, <3>1
    <3> QED BY <1>1, <3>2
  <2>2. ASSUME NEW d, NEW o \in registered, d \in Watched(m[o]) PROVE d \in {pair[1] : pair \in subs}
    <3>1. <<d, o>> \in subs
      BY <1>1, <2>2
    <3> QED BY <3>1
  <2> QED BY <2>1, <2>2
<1>4. \A d : d \in WaitedFor(m) <=> \E o \in registered : d \in Watched(m[o])
  BY DEF WaitedFor
<1>5. WaitedFor(m) = {pair[1] : pair \in subs}
  BY <1>3, <1>4
<1> QED BY <1>1, <1>5

(* Attentive observers wait for subgraphs of starts. *)
LEMMA WaitedForPlainly ==
    ASSUME NEW S, SoundMatching(S), NEW g \in GraphState, NEW all \in SUBSET Vertex, NEW m,
           registered \subseteq Observer, \A o \in registered : Attentive(o, m[o], g, all)
    PROVE  Plain(WaitedFor(m)) /\ StartsIn(WaitedFor(m)) \subseteq S
<1>1. \A o \in registered : Plain(Watched(m[o])) /\ StartsIn(Watched(m[o])) \subseteq S
  BY AttentiveSees
<1>2. ASSUME NEW d \in WaitedFor(m), d[1] = "NestedExpressionSubgraph"
      PROVE  d = NestedSubgraphs(d[2]) /\ d[2] \in S
  <2>1. PICK o \in registered : d \in Watched(m[o])
    BY DEF WaitedFor
  <2>2. d[2] \in StartsIn(Watched(m[o]))
    BY <1>2, <2>1, StartsInIs
  <2> QED BY <1>1, <1>2, <2>1, <2>2 DEF Plain
<1> QED BY <1>2, StartsInIs DEF Plain

LEMMA AttentiveLonger ==
    ASSUME NEW o, NEW m, NEW g, NEW all, NEW more, all \subseteq more, Attentive(o, m, g, all)
    PROVE  Attentive(o, m, g, more)
BY DEF Attentive

(* The positions that an update of the registry leads to are enough. *)
LEMMA RematchedIsEnough ==
    ASSUME NEW S, SoundMatching(S), NEW o \in Observer, NEW g \in GraphState, NEW h \in GraphState,
           NEW all \in SUBSET Vertex, NEW m, Attentive(o, m, g, all),
           NEW ids, NEW r, NEW waited, StartsIn(waited) \subseteq DOMAIN r.cached, DOMAIN r.cached \subseteq S,
           Watched(m) \subseteq waited,
           NEW x, Updated(x, MaxHeight, S, g, h, ids, r, waited),
           NEW observed, observed = x.observed \cap Watched(m)
    PROVE  Enough(m, Rematched(m, observed, Difference(g, h)), g, h)
<1> DEFINE c == Difference(g, h)
           positions == Rematched(m, observed, c)
<1>0. PICK then \in SUBSET all : Attends(o, m, then, g)
  BY DEF Attentive
<1>1. /\ Observations(c) \subseteq x.observed
      /\ \A s \in DOMAIN r.cached :
            HeightOf(s) <= MaxHeight /\ NestedFound(h, s) # NestedFound(g, s) => NestedSubgraphs(s) \in x.observed
  BY DEF Updated
<1> HIDE DEF c
<1>2. \A pair \in m.triggers : pair[1] \in x.observed => PositionsOf(pair[2], pair[1], c) \subseteq positions
  BY DEF Rematched, Watched
<1>3. ASSUME NEW at \in Position \ positions, NEW d \in Of(m.deps, at)
      PROVE  d \notin x.observed /\ d \in Watched(m)
  <2>1. PICK pair \in m.deps : pair[1] = d /\ pair[2] = at
    BY DEF Of
  <2>2. pair \in m.triggers
    BY <1>0 DEF Attends
  <2>3. PositionsOf(at, d, c) = {at}
    BY PositionsOfIs
  <2> QED BY <1>2, <2>1, <2>2, <2>3 DEF Watched
<1>4. ASSUME NEW at \in Position \ positions PROVE Unobserved(g, h, Of(m.deps, at))
  <2>1. Observations(c) \cap Of(m.deps, at) = {}
    BY <1>1, <1>3
  <2>2. ASSUME NEW t \in StartsIn(Of(m.deps, at)) PROVE NestedFound(h, t) = NestedFound(g, t)
    <3>1. ReadsBelow(MaxHeight + 1, S, Of(m.deps, at))
      BY <1>0, PositionSees DEF Attends
    <3>2. NestedSubgraphs(t) \in Of(m.deps, at)
      BY <3>1, ReadsAreStarts
    <3>3. NestedSubgraphs(t) \notin x.observed /\ NestedSubgraphs(t) \in waited
      BY <1>3, <3>2
    <3>4. t \in DOMAIN r.cached
      BY <3>3, StartsInIs, NestedSubgraphsIs
    <3>5. HeightOf(t) <= MaxHeight
      BY <3>4, Heights, HeightAssumption DEF SoundMatching
    <3> QED BY <1>1, <3>3, <3>4, <3>5
  <2> QED BY <2>1, <2>2 DEF Unobserved, c
<1>5. \A pair \in m.triggers : pair[1] \in Observations(c) => PositionsOf(pair[2], pair[1], c) \subseteq positions
  BY <1>1, <1>2
<1> HIDE DEF positions
<1>6. Enough(m, positions, g, h)
  BY <1>4, <1>5 DEF Enough, c
<1> QED BY <1>6 DEF positions, c

(* What observing comes to: the promise about each observer. *)
Observed(o, g, h, all, positions) ==
    /\ positions \in SUBSET Position
    /\ Attentive(o, matcher'[o], h, all)
    /\ \A at \in Position \ positions : FoundAt(matcher'[o], at) = FoundAt(matcher[o], at)

LEMMA ObserveChangesMatches ==
    ASSUME NEW S, SoundMatching(S), MatchingInv(S), UNCHANGED registered,
           ObserveChanges(Difference(applied, present))
    PROVE  /\ InUse(nested', S, present, WaitedFor(matcher'))
           /\ \E positions \in [registered -> SUBSET Position] :
                 /\ \A o \in registered : Observed(o, applied, present, known, positions[o])
                 /\ events' = UNION {Reported(o, SubgraphChanges(matcher[o].last, matcher'[o].last, positions[o])) :
                                       o \in registered}
<1> DEFINE c       == Difference(applied, present)
           updated == RegistryUpdate(nested, present, known, Observations(c))
           R       == updated.registry
           observed(o)  == {d \in updated.observed : <<d, o>> \in subscriptions}
           at(o)   == Rematched(matcher[o], observed(o), c)
           anew    == UNION {DepsAt(matcher'[o], at(o)) : o \in registered}
           W       == NestedIn(anew)
           looked  == LookedUp(R, present, known, W)
           marked  == MarkMaybeUnused(looked, Dropped(matcher'))
           waited  == WaitedFor(matcher)
           next    == WaitedFor(matcher')
<1>0. /\ RecordsInv /\ applied \in GraphState /\ present \in GraphState /\ known \in Ids(present)
      /\ known \in SUBSET Vertex /\ registered \subseteq Observer
      /\ SoundNesting(S)
      /\ InUse(nested, S, applied, waited)
      /\ \A o \in registered : Attentive(o, matcher[o], applied, known)
  BY DEF MatchingInv, RecordsInv, GraphsInv, ObserversInv, SoundMatching, Ids
<1>1. /\ matcher' = [o \in Observer |->
                       MatchIncrementally(matcher[o], PatternOf[o], present, known, R.cached, at(o))]
      /\ ApplySubscriptionChanges(matcher')
      /\ nested' = EvictUnused(marked, {pair[1] : pair \in subscriptions'})
      /\ events' = UNION {Reported(o, SubgraphChanges(matcher[o].last, matcher'[o].last, at(o))) : o \in registered}
  BY DEF ObserveChanges
<1>2. Updated(updated, MaxHeight, S, applied, present, known, nested, waited)
  <2>1. Current(nested, S, 1, applied, present)
    BY <1>0, SettledIsCurrent DEF InUse
  <2>2. 1 \in 1 .. MaxHeight + 1
    BY HeightAssumption
  <2>3. InBetween(S, 1, applied, present, known, nested)
    BY <1>0, <2>1, <2>2 DEF InBetween
  <2>4. Closed(nested, {}) /\ Kept(nested, waited)
    BY <1>0 DEF InUse
  <2> HIDE DEF waited
  <2> QED BY <2>3, <2>4, RegistryUpdateUpdates
<1> HIDE DEF updated, waited
<1>3. /\ Settled(R, S, present) /\ InBetween(S, MaxHeight + 1, applied, present, known, R)
      /\ Closed(R, {}) /\ Kept(R, waited)
      /\ DOMAIN nested.cached \subseteq DOMAIN R.cached /\ DOMAIN R.cached \subseteq S
      /\ R.cached = CacheOf(DOMAIN R.cached, MaxHeight + 1, present, present)
  <2>1. /\ InBetween(S, MaxHeight + 1, applied, present, known, R)
        /\ Closed(R, {}) /\ Kept(R, waited) /\ DOMAIN nested.cached \subseteq DOMAIN R.cached
    BY <1>2 DEF Updated
  <2>2. Settled(R, S, present)
    BY <1>0, <2>1, SettledIsCurrent DEF InBetween
  <2>3. R.cached = CacheOf(DOMAIN R.cached, MaxHeight + 1, present, present)
    BY <1>0, <2>2, SettledIsCurrent
  <2> QED BY <2>1, <2>2, <2>3 DEF Settled
<1> HIDE DEF R
<1>4. /\ \A d, o : <<d, o>> \in subscriptions <=> o \in registered /\ d \in Watched(matcher[o])
      /\ subscriptions' = UNION {Watched(matcher'[o]) \X {o} : o \in registered}
  <2>1. subscriptions = UNION {Watched(matcher[o]) \X {o} : o \in registered}
    BY <1>0 DEF RecordsInv, ObserversInv
  <2>2. ApplySubscriptionChanges(matcher')
    BY <1>1
  <2>3. subscriptions' = UNION {Watched(matcher'[o]) \X {o} : o \in registered}
    BY <2>1, <2>2, SubscriptionsFollow
  <2> QED BY <2>1, <2>3, WaitedForIs
<1>5. next = {pair[1] : pair \in subscriptions'}
  BY <1>4, WaitedForIs
<1>6. ASSUME NEW o \in registered
      PROVE  /\ Observed(o, applied, present, known, at(o))
             /\ \A d \in Watched(matcher'[o]) :
                   d \in Watched(matcher[o]) \/ d \in {pair[1] : pair \in DepsAt(matcher'[o], at(o))}
  <2>1. o \in Observer /\ Attentive(o, matcher[o], applied, known) /\ IsMatcher(matcher[o])
    BY <1>0 DEF Attentive
  <2>2. observed(o) = updated.observed \cap Watched(matcher[o])
    BY <1>4
  <2>3. at(o) \in SUBSET Position
    BY <1>0, <2>1, RematchedPositions
  <2>4. Enough(matcher[o], at(o), applied, present)
    <3>1. StartsIn(waited) \subseteq DOMAIN nested.cached /\ DOMAIN nested.cached \subseteq S
      BY <1>0 DEF InUse, Settled
    <3>2. Watched(matcher[o]) \subseteq waited
      BY DEF waited, WaitedFor
    <3> HIDE DEF observed
    <3> QED BY <1>0, <1>2, <2>1, <2>2, <3>1, <3>2, RematchedIsEnough
  <2>5. matcher'[o] = MatchIncrementally(matcher[o], PatternOf[o], present, known, R.cached, at(o))
    BY <1>1, <2>1
  <2> HIDE DEF at, observed, c
  <2>6. /\ Attentive(o, matcher'[o], present, known)
        /\ \A p \in Position \ at(o) : FoundAt(matcher'[o], p) = FoundAt(matcher[o], p)
        /\ \A d \in Watched(matcher'[o]) :
              d \in Watched(matcher[o]) \/ d \in {pair[1] : pair \in DepsAt(matcher'[o], at(o))}
    <3>1. DOMAIN R.cached \in SUBSET S
      BY <1>3
    <3> QED BY <1>0, <1>3, <2>1, <2>3, <2>4, <2>5, <3>1, MatchIncrementallyAttends
  <2> QED BY <2>3, <2>6 DEF Observed
<1> HIDE DEF at, observed, next
<1>7. Plain(next) /\ StartsIn(next) \subseteq S
  <2>1. \A o \in registered : Attentive(o, matcher'[o], present, known)
    BY <1>6 DEF Observed
  <2> QED BY <1>0, <2>1, WaitedForPlainly DEF next
<1>8. {pair[1] : pair \in anew} \subseteq next
  <2>1. ASSUME NEW pair \in anew PROVE pair[1] \in next
    <3>1. PICK o \in registered : pair \in DepsAt(matcher'[o], at(o))
      OBVIOUS
    <3>2. pair \in matcher'[o].triggers
      BY <1>6, <3>1 DEF DepsAt, Observed, Attentive, IsMatcher
    <3> QED BY <3>2 DEF next, WaitedFor, Watched
  <2> HIDE DEF anew
  <2> QED BY <2>1
<1>9. \A s \in W : s \in S /\ HeightOf(s) < MaxHeight + 1
  <2>1. W \subseteq StartsIn(next)
    BY <1>8, StartsInUnion DEF NestedIn
  <2> HIDE DEF W
  <2> QED BY <1>0, <1>7, <2>1, Heights, HeightAssumption
<1>10. Looked(looked, S, MaxHeight + 1, applied, present, R, W, waited)
  <2>1. Closed(R, W)
    BY <1>3 DEF Closed
  <2> HIDE DEF W
  <2> QED BY <1>3, <1>9, <2>1, LookedUpIs
<1>11. /\ Settled(looked, S, present) /\ IsRegistry(looked) /\ Closed(looked, {}) /\ Kept(looked, waited)
       /\ W \subseteq DOMAIN looked.cached /\ DOMAIN R.cached \subseteq DOMAIN looked.cached
  <2> HIDE DEF looked, W
  <2> QED BY <1>0, <1>10, SettledIsCurrent DEF Looked, Extends, Current
<1> HIDE DEF looked
<1>12. /\ IsRegistry(marked) /\ marked.cached = looked.cached /\ marked.deps = looked.deps
       /\ marked.unused = looked.unused \cup StartsIn(Dropped(matcher'))
  BY <1>11, MarkMaybeUnusedIs
<1> HIDE DEF marked
<1>13. ASSUME NEW s \in StartsIn(next) PROVE s \in DOMAIN looked.cached
  <2>1. PICK d \in next : d[1] = "NestedExpressionSubgraph" /\ d[2] = s
    BY StartsInIs
  <2>2. PICK o \in registered : d \in Watched(matcher'[o])
    BY DEF next, WaitedFor
  <2>3. CASE d \in Watched(matcher[o])
    <3>1. d \in waited
      BY <2>3 DEF waited, WaitedFor
    <3>2. s \in DOMAIN nested.cached
      BY <1>0, <2>1, <3>1, StartsInIs DEF InUse
    <3> QED BY <1>3, <1>11, <3>2
  <2>4. CASE d \in {pair[1] : pair \in DepsAt(matcher'[o], at(o))}
    <3>1. d \in {pair[1] : pair \in anew}
      BY <2>4
    <3>2. s \in W
      BY <2>1, <3>1, StartsInIs DEF NestedIn
    <3> QED BY <1>11, <3>2
  <2> QED BY <1>6, <2>2, <2>3, <2>4
<1>14. ASSUME NEW s \in DOMAIN looked.cached, s \notin StartsIn(DependedOn(looked)), s \notin StartsIn(next)
       PROVE  s \in marked.unused
  <2>1. CASE s \in StartsIn(waited)
    <3>1. PICK d \in waited : d[1] = "NestedExpressionSubgraph" /\ d[2] = s
      BY <2>1, StartsInIs
    <3>2. d \notin next
      BY <1>14, <3>1, StartsInIs
    <3>3. PICK o \in registered : d \in Watched(matcher[o])
      BY DEF waited, WaitedFor
    <3>4. d \notin Watched(matcher'[o])
      BY <3>2, <3>3 DEF next, WaitedFor
    <3>5. d \in Dropped(matcher')
      BY <3>3, <3>4 DEF Dropped
    <3>6. s \in StartsIn(Dropped(matcher'))
      BY <3>1, <3>5, StartsInIs
    <3> QED BY <1>12, <3>6
  <2>2. CASE s \notin StartsIn(waited)
    BY <1>11, <1>12, <1>14, <2>2 DEF Kept
  <2> QED BY <2>1, <2>2
<1>15. InUse(marked, S, present, next)
  <2>1. Settled(marked, S, present)
    BY <1>11, <1>12 DEF Settled
  <2>2. DependedOn(marked) = DependedOn(looked)
    BY <1>12 DEF DependedOn
  <2>3. Closed(marked, {})
    BY <1>11, <1>12, <2>2 DEF Closed
  <2>4. Kept(marked, next)
    BY <1>12, <1>14, <2>2 DEF Kept
  <2> QED BY <1>12, <1>13, <2>1, <2>3, <2>4 DEF InUse
<1>16. InUse(nested', S, present, next)
  <2>1. nested' = EvictUnused(marked, next)
    BY <1>1, <1>5
  <2> QED BY <1>0, <1>7, <1>15, <2>1, EvictUnusedKeeps
<1>17. \E positions \in [registered -> SUBSET Position] :
          /\ \A o \in registered : Observed(o, applied, present, known, positions[o])
          /\ events' = UNION {Reported(o, SubgraphChanges(matcher[o].last, matcher'[o].last, positions[o])) :
                                o \in registered}
  <2> DEFINE P == [o \in registered |-> at(o)]
  <2>1. \A o \in registered : P[o] = at(o) /\ at(o) \in SUBSET Position
    BY <1>6 DEF Observed
  <2>2. P \in [registered -> SUBSET Position]
    BY <2>1
  <2>3. events' = UNION {Reported(o, SubgraphChanges(matcher[o].last, matcher'[o].last, P[o])) : o \in registered}
    BY <1>1, <2>1
  <2>4. \A o \in registered : Observed(o, applied, present, known, P[o])
    BY <1>6, <2>1
  <2> HIDE DEF P
  <2> QED BY <2>2, <2>3, <2>4
<1> QED BY <1>16, <1>17 DEF next

LEMMA NothingChanged ==
    ASSUME NEW g \in GraphState, NEW h \in GraphState, Difference(g, h) = G!Nothing
    PROVE  h = g
<1>1. /\ h.vertices \ g.vertices = {} /\ g.vertices \ h.vertices = {}
      /\ h.edges \ g.edges = {} /\ g.edges \ h.edges = {}
  BY DEF Difference, G!Nothing
<1>2. h.vertices = g.vertices /\ h.edges = g.edges
  BY <1>1
<1> QED BY <1>2, GraphStateIs

LEMMA ObserveKeepsMatching ==
    ASSUME NEW S, SoundMatching(S), MatchingInv(S), RecordsInv', UNCHANGED <<registered, known>>,
           Observe(Difference(applied, present)), applied' = present
    PROVE  MatchingInv(S)'
<1>1. CASE ObserveChanges(Difference(applied, present))
  <2>1. /\ InUse(nested', S, present, WaitedFor(matcher'))
        /\ \A o \in registered : Attentive(o, matcher'[o], present, known)
    BY <1>1, ObserveChangesMatches DEF Observed
  <2>2. WaitedFor(matcher') = WaitedFor(matcher)'
    BY DEF WaitedFor
  <2> QED BY <2>1, <2>2 DEF MatchingInv
<1>2. CASE Difference(applied, present) = G!Nothing /\ UNCHANGED <<matcher, subscriptions, nested>>
  <2>1. present = applied
    BY <1>2, NothingChanged DEF MatchingInv, RecordsInv, GraphsInv
  <2> QED BY <1>2, <2>1 DEF MatchingInv, WaitedFor
<1> QED BY <1>1, <1>2 DEF Observe

LEMMA UpdateKeepsMatching ==
    ASSUME NEW S, MatchingInv(S), RecordsInv', Update
    PROVE  MatchingInv(S)'
<1>1. UNCHANGED <<applied, registered, matcher, nested>> /\ known \subseteq known'
  BY DEF Update, G!AddVertex, G!RemoveVertex, G!AddEdge, G!RemoveEdge, G!Becomes
<1>2. \A o \in registered : Attentive(o, matcher[o], applied, known')
  BY <1>1, AttentiveLonger DEF MatchingInv
<1> QED BY <1>1, <1>2 DEF MatchingInv, WaitedFor

LEMMA RegisterKeepsMatching ==
    ASSUME NEW S, SoundMatching(S), MatchingInv(S), RecordsInv', ~RegisterAnytime,
           NEW o \in Observer, Register(o)
    PROVE  MatchingInv(S)'
<1> DEFINE m == Reinitialize(PatternOf[o], present, known, nested.cached)
           W == NestedIn(m.deps)
           l == LookedUp(nested, present, known, W)
           waited == WaitedFor(matcher)
<1>1. /\ matcher' = [matcher EXCEPT ![o] = m] /\ nested' = l
      /\ registered' = registered \cup {o} /\ o \notin registered
      /\ present = applied /\ UNCHANGED <<present, applied, known>>
  BY DEF Register
<1>2. /\ present \in GraphState /\ known \in Ids(present) /\ known \in SUBSET Vertex
      /\ DOMAIN matcher = Observer /\ registered \subseteq Observer /\ SoundNesting(S)
      /\ InUse(nested, S, present, waited)
      /\ \A p \in registered : Attentive(p, matcher[p], applied, known)
  BY <1>1 DEF MatchingInv, RecordsInv, GraphsInv, ObserversInv, SoundMatching, Ids
<1>3. /\ Settled(nested, S, present) /\ Closed(nested, {}) /\ Kept(nested, waited)
      /\ StartsIn(waited) \subseteq DOMAIN nested.cached
  BY <1>2 DEF InUse
<1>4. /\ nested.cached = CacheOf(DOMAIN nested.cached, MaxHeight + 1, present, present)
      /\ InBetween(S, MaxHeight + 1, present, present, known, nested)
      /\ DOMAIN nested.cached \in SUBSET S
  <2>1. MaxHeight + 1 \in 1 .. MaxHeight + 1
    BY HeightAssumption
  <2>2. Current(nested, S, MaxHeight + 1, present, present)
    BY <1>2, <1>3, SettledIsCurrent
  <2>3. InBetween(S, MaxHeight + 1, present, present, known, nested)
    BY <1>2, <2>1, <2>2 DEF InBetween
  <2>4. DOMAIN nested.cached \in SUBSET S
    BY <1>3 DEF Settled
  <2>5. nested.cached = CacheOf(DOMAIN nested.cached, MaxHeight + 1, present, present)
    BY <1>2, <1>3, SettledIsCurrent
  <2> QED BY <2>3, <2>4, <2>5
<1>5. Attentive(o, m, present, known)
  BY <1>2, <1>4, ReinitializeAttends
<1> HIDE DEF m, waited
<1>6. StartsIn(Watched(m)) = W /\ W \subseteq S
  <2>1. present \in GraphState /\ known \in SUBSET Vertex
    BY <1>2
  <2>2. StartsIn(Watched(m)) \subseteq S /\ StartsIn(Watched(m)) = NestedIn(m.deps)
    BY <1>5, <2>1, AttentiveSees
  <2> QED BY <2>2
<1> HIDE DEF W
<1>7. Looked(l, S, MaxHeight + 1, present, present, nested, W, waited)
  <2>1. \A s \in W : s \in S /\ HeightOf(s) < MaxHeight + 1
    BY <1>2, <1>6, Heights, HeightAssumption
  <2>2. Closed(nested, W)
    BY <1>3 DEF Closed
  <2> QED BY <1>3, <1>4, <2>1, <2>2, LookedUpIs
<1> HIDE DEF l
<1>8. /\ Settled(l, S, present) /\ Closed(l, {}) /\ Kept(l, waited)
      /\ W \subseteq DOMAIN l.cached /\ DOMAIN nested.cached \subseteq DOMAIN l.cached
  BY <1>2, <1>7, SettledIsCurrent DEF Looked, Extends
<1>9. matcher'[o] = m /\ \A p \in registered : matcher'[p] = matcher[p]
  BY <1>1, <1>2
<1>10. WaitedFor(matcher)' = waited \cup Watched(m)
  BY <1>1, <1>9 DEF WaitedFor, waited
<1>11. InUse(l, S, present, waited \cup Watched(m))
  <2>1. StartsIn(waited \cup Watched(m)) = StartsIn(waited) \cup W
    BY <1>6, StartsInUnion
  <2>2. Kept(l, waited \cup Watched(m))
    BY <1>8, <2>1 DEF Kept
  <2>3. StartsIn(waited \cup Watched(m)) \subseteq DOMAIN l.cached
    BY <1>3, <1>8, <2>1
  <2> QED BY <1>8, <2>2, <2>3 DEF InUse
<1>12. \A p \in registered' : Attentive(p, matcher'[p], applied', known')
  BY <1>1, <1>2, <1>5, <1>9
<1> QED BY <1>1, <1>10, <1>11, <1>12 DEF MatchingInv

LEMMA EmptyIsInUse ==
    ASSUME NEW S, NEW g
    PROVE  /\ InUse(EmptyRegistry, S, g, {})
           /\ Uncached = CacheOf({}, MaxHeight + 1, g, g)
           /\ {} = DOMAIN Uncached
<1>1. /\ EmptyRegistry.deps = {} /\ EmptyRegistry.unused = {}
      /\ EmptyRegistry.cached = [start \in {} |-> {}]
  BY DEF EmptyRegistry
<1>2. DOMAIN EmptyRegistry.cached = {}
  BY <1>1
<1>3. StartsIn({}) = {}
  BY StartsInIs
<1>4. DependedOn(EmptyRegistry) = {}
  BY <1>1 DEF DependedOn
<1>5. Settled(EmptyRegistry, S, g)
  BY <1>2, EmptyIsRegistry DEF Settled
<1>6. Closed(EmptyRegistry, {}) /\ Kept(EmptyRegistry, {})
  BY <1>2, <1>3, <1>4 DEF Closed, Kept
<1>7. Uncached = CacheOf({}, MaxHeight + 1, g, g)
  BY <1>1 DEF Uncached, CacheOf
<1> QED BY <1>2, <1>3, <1>5, <1>6, <1>7 DEF InUse, Uncached

LEMMA RollbackKeepsMatching ==
    ASSUME NEW S, SoundMatching(S), MatchingInv(S), RecordsInv', Rollback
    PROVE  MatchingInv(S)'
<1> DEFINE anew(o) == Reinitialize(PatternOf[o], committed, known, Uncached)
           all == UNION {matcher'[o].deps : o \in registered}
           W == NestedIn(all)
           l == LookedUp(EmptyRegistry, committed, known, W)
           next == WaitedFor(matcher')
<1>1. /\ matcher' = [o \in Observer |-> IF o \in registered THEN anew(o) ELSE Blank]
      /\ nested' = l
      /\ UNCHANGED <<known, registered>> /\ applied' = committed
  BY DEF Rollback, G!Rollback, Uncached
<1>2. /\ committed \in GraphState /\ known \in Ids(committed) /\ known \in SUBSET Vertex
      /\ registered \subseteq Observer /\ SoundNesting(S)
  BY DEF MatchingInv, RecordsInv, GraphsInv, ObserversInv, SoundMatching, Ids
<1>3. \A o \in registered : Attentive(o, matcher'[o], committed, known)
  <2> TAKE o \in registered
  <2>1. {} \in SUBSET S /\ Uncached = CacheOf({}, MaxHeight + 1, committed, committed)
    BY EmptyIsInUse
  <2>2. Attentive(o, anew(o), committed, known)
    BY <1>2, <2>1, ReinitializeAttends
  <2>3. matcher'[o] = anew(o)
    BY <1>1, <1>2
  <2> QED BY <2>2, <2>3
<1> HIDE DEF anew
<1>4. \A o \in registered : StartsIn(Watched(matcher'[o])) = NestedIn(matcher'[o].deps)
  BY <1>2, <1>3, AttentiveSees
<1>5. StartsIn(next) \subseteq S
  BY <1>2, <1>3, WaitedForPlainly
<1>6. StartsIn(next) = W
  <2>1. ASSUME NEW s PROVE s \in StartsIn(next) <=> \E o \in registered : s \in StartsIn(Watched(matcher'[o]))
    <3>1. s \in StartsIn(next) <=> \E d \in next : d[1] = "NestedExpressionSubgraph" /\ d[2] = s
      BY StartsInIs
    <3>2. \A o : s \in StartsIn(Watched(matcher'[o]))
                   <=> \E d \in Watched(matcher'[o]) : d[1] = "NestedExpressionSubgraph" /\ d[2] = s
      BY StartsInIs
    <3>3. \A d : d \in next <=> \E o \in registered : d \in Watched(matcher'[o])
      BY DEF WaitedFor
    <3> HIDE DEF next
    <3> QED BY <3>1, <3>2, <3>3
  <2>2. ASSUME NEW s PROVE s \in W <=> \E o \in registered : s \in NestedIn(matcher'[o].deps)
    <3>1. s \in W <=> \E pair \in all : pair[1][1] = "NestedExpressionSubgraph" /\ pair[1][2] = s
      BY StartsInIs DEF NestedIn
    <3>2. \A o : s \in NestedIn(matcher'[o].deps)
                   <=> \E pair \in matcher'[o].deps : pair[1][1] = "NestedExpressionSubgraph" /\ pair[1][2] = s
      BY StartsInIs DEF NestedIn
    <3>3. \A pair : pair \in all <=> \E o \in registered : pair \in matcher'[o].deps
      OBVIOUS
    <3> HIDE DEF all, W
    <3> QED BY <3>1, <3>2, <3>3
  <2> HIDE DEF next, W
  <2> QED BY <1>4, <2>1, <2>2
<1> HIDE DEF next, W
<1>7. Looked(l, S, MaxHeight + 1, committed, committed, EmptyRegistry, W, {})
  <2>1. \A s \in W : s \in S /\ HeightOf(s) < MaxHeight + 1
    BY <1>2, <1>5, <1>6, Heights, HeightAssumption
  <2>2. Settled(EmptyRegistry, S, committed) /\ Closed(EmptyRegistry, W) /\ Kept(EmptyRegistry, {})
    BY EmptyIsInUse DEF InUse, Closed
  <2>3. MaxHeight + 1 \in 1 .. MaxHeight + 1
    BY HeightAssumption
  <2>4. Current(EmptyRegistry, S, MaxHeight + 1, committed, committed)
    BY <1>2, <2>2, SettledIsCurrent
  <2>5. InBetween(S, MaxHeight + 1, committed, committed, known, EmptyRegistry)
    BY <1>2, <2>3, <2>4 DEF InBetween
  <2> QED BY <2>1, <2>2, <2>5, LookedUpIs
<1> HIDE DEF l
<1>8. /\ Settled(l, S, committed) /\ Closed(l, {}) /\ Kept(l, {})
      /\ W \subseteq DOMAIN l.cached
  BY <1>2, <1>7, SettledIsCurrent DEF Looked, Extends
<1>9. InUse(l, S, committed, next)
  <2>1. Kept(l, next)
    BY <1>8, StartsInIs DEF Kept
  <2> QED BY <1>6, <1>8, <2>1 DEF InUse
<1>10. WaitedFor(matcher)' = next
  BY <1>1 DEF WaitedFor, next
<1> QED BY <1>1, <1>3, <1>9, <1>10 DEF MatchingInv

LEMMA MatchingInvInductive ==
    ASSUME NEW S, SoundMatching(S), ~RegisterAnytime
    PROVE  /\ Init => MatchingInv(S)
           /\ MatchingInv(S) /\ [Next]_vars => MatchingInv(S)'
<1>1. ASSUME Init PROVE MatchingInv(S)
  <2>1. RecordsInv
    BY <1>1, RecordsInvInductive
  <2>2. registered = {} /\ nested = EmptyRegistry
    BY <1>1 DEF Init
  <2>3. WaitedFor(matcher) = {}
    BY <2>2 DEF WaitedFor
  <2> QED BY <2>1, <2>2, <2>3, EmptyIsInUse DEF MatchingInv
<1>2. ASSUME MatchingInv(S), [Next]_vars PROVE MatchingInv(S)'
  <2>1. RecordsInv'
    BY <1>2, RecordsInvInductive DEF MatchingInv
  <2>2. CASE Update
    BY <1>2, <2>1, <2>2, UpdateKeepsMatching
  <2>3. CASE \E o \in Observer : Register(o)
    BY <1>2, <2>1, <2>3, RegisterKeepsMatching
  <2>4. CASE Apply
    <3>1. applied' = present /\ Observe(Difference(applied, present)) /\ UNCHANGED <<registered, known>>
      BY <2>4 DEF Apply, G!Apply
    <3> QED BY <1>2, <2>1, <3>1, ObserveKeepsMatching
  <2>5. CASE Commit
    <3>1. applied' = present /\ Observe(Difference(applied, present)) /\ UNCHANGED <<registered, known>>
      BY <2>5 DEF Commit
    <3> QED BY <1>2, <2>1, <3>1, ObserveKeepsMatching
  <2>6. CASE Rollback
    BY <1>2, <2>1, <2>6, RollbackKeepsMatching
  <2>7. CASE UNCHANGED vars
    BY <1>2, <2>1, <2>7 DEF vars, MatchingInv, WaitedFor
  <2> QED BY <1>2, <2>2, <2>3, <2>4, <2>5, <2>6, <2>7 DEF Next
<1> QED BY <1>1, <1>2

-----------------------------------------------------------------------------
(* On the condition that matching is sound, and that observers are         *)
(* registered between transactions.                                        *)

LEMMA MatchingKept ==
    ASSUME NEW S, SoundMatching(S), ~RegisterAnytime
    PROVE  Spec => []MatchingInv(S)
<1>1. Init => MatchingInv(S)
  BY MatchingInvInductive
<1>2. MatchingInv(S) /\ [Next]_vars => MatchingInv(S)'
  BY MatchingInvInductive
<1> QED BY <1>1, <1>2, PTL DEF Spec

LEMMA MatchingInvImplies ==
    ASSUME NEW S, SoundMatching(S), MatchingInv(S)
    PROVE  InSync /\ CacheCurrent /\ CacheInUse
<1>1. /\ SoundNesting(S) /\ applied \in GraphState /\ known \in Ids(applied) /\ known \in SUBSET Vertex
      /\ registered \subseteq Observer
      /\ InUse(nested, S, applied, WaitedFor(matcher))
      /\ subscriptions = UNION {Watched(matcher[o]) \X {o} : o \in registered}
      /\ \A o \in registered : Attentive(o, matcher[o], applied, known)
  BY DEF MatchingInv, RecordsInv, GraphsInv, ObserversInv, SoundMatching, Ids
<1>2. InSync
  BY <1>1, AttentiveSees DEF InSync
<1>3. CacheCurrent
  <2>1. ASSUME NEW s \in DOMAIN nested.cached
        PROVE  nested.cached[s] = NestedMatch(applied, known, Uncached, s).found
    <3>1. s \in S /\ nested.cached[s] = NestedFound(applied, s)
      BY <1>1 DEF InUse, Settled
    <3>2. NestedMatch(applied, known, Uncached, s).found = NestedFound(applied, s)
      BY <1>1, <3>1 DEF SoundNesting
    <3> QED BY <3>1, <3>2
  <2> QED BY <2>1 DEF CacheCurrent, Uncached
<1>4. CacheInUse
  <2> DEFINE watched == {pair[1] : pair \in subscriptions}
             used == StartsIn(DependedOn(nested) \cup watched)
  <2>1. WaitedFor(matcher) = watched
    BY <1>1, WaitedForIs
  <2> HIDE DEF watched
  <2>2. used = StartsIn(DependedOn(nested)) \cup StartsIn(watched)
    BY StartsInUnion
  <2>3. /\ StartsIn(DependedOn(nested)) \subseteq DOMAIN nested.cached
        /\ StartsIn(watched) \subseteq DOMAIN nested.cached
        /\ DOMAIN nested.cached \ used \subseteq nested.unused
    BY <1>1, <2>1, <2>2 DEF InUse, Closed, Kept
  <2>4. used \subseteq DOMAIN nested.cached /\ DOMAIN nested.cached \ used \subseteq nested.unused
    BY <2>2, <2>3
  <2> QED BY <2>4 DEF CacheInUse, watched
<1> QED BY <1>2, <1>3, <1>4

(* Whichever transactions lie in between, an observer remembers what its   *)
(* pattern matches in the graph of the last apply.                         *)
THEOREM ObserversInSync ==
    ASSUME NEW S, SoundMatching(S), ~RegisterAnytime
    PROVE  Spec => []InSync
<1>1. MatchingInv(S) => InSync
  BY MatchingInvImplies
<1>2. Spec => []MatchingInv(S)
  BY MatchingKept
<1> QED BY <1>1, <1>2, PTL

(* The shared cache of nested expressions is never stale.                  *)
THEOREM CacheStaysCurrent ==
    ASSUME NEW S, SoundMatching(S), ~RegisterAnytime
    PROVE  Spec => []CacheCurrent
<1>1. MatchingInv(S) => CacheCurrent
  BY MatchingInvImplies
<1>2. Spec => []MatchingInv(S)
  BY MatchingKept
<1> QED BY <1>1, <1>2, PTL

(* Nothing that is still read is evicted, and what is not read can be.     *)
THEOREM CacheStaysInUse ==
    ASSUME NEW S, SoundMatching(S), ~RegisterAnytime
    PROVE  Spec => []CacheInUse
<1>1. MatchingInv(S) => CacheInUse
  BY MatchingInvImplies
<1>2. Spec => []MatchingInv(S)
  BY MatchingKept
<1> QED BY <1>1, <1>2, PTL

-----------------------------------------------------------------------------
(* What is returned is as if everything were matched anew. *)

LEMMA AlikeIs ==
    ASSUME NEW s, NEW t, NEW ss
    PROVE  /\ t \in Promise!Alike(s, ss) <=> t \in ss /\ t.start = s.start /\ t.refs = s.refs
           /\ s.start = t.start /\ s.refs = t.refs => Promise!Alike(s, ss) = Promise!Alike(t, ss)
BY DEF Promise!Alike

LEMMA SubgraphChangesIs ==
    ASSUME NEW last, NEW curr, NEW positions, NEW e
    PROVE  e \in SubgraphChanges(last, curr, positions)
             <=> \E s \in last \cup curr :
                    /\ s.start \in positions
                    /\ e \in ChangesOf(Promise!Alike(s, last), Promise!Alike(s, curr))
<1> DEFINE keys == {<<s.start, s.refs>> : s \in last \cup curr}
           at(ss, key) == {s \in ss : <<s.start, s.refs>> = key}
<1>1. \A s, ss : at(ss, <<s.start, s.refs>>) = Promise!Alike(s, ss)
  BY DEF Promise!Alike
<1>2. e \in SubgraphChanges(last, curr, positions)
        <=> \E key \in keys : key[1] \in positions /\ e \in ChangesOf(at(last, key), at(curr, key))
  BY DEF SubgraphChanges
<1> HIDE DEF at
<1>3. (\E key \in keys : key[1] \in positions /\ e \in ChangesOf(at(last, key), at(curr, key)))
        <=> \E s \in last \cup curr :
               /\ s.start \in positions
               /\ e \in ChangesOf(at(last, <<s.start, s.refs>>), at(curr, <<s.start, s.refs>>))
  <2>1. \A key : key \in keys <=> \E s \in last \cup curr : key = <<s.start, s.refs>>
    OBVIOUS
  <2>2. \A s : <<s.start, s.refs>>[1] = s.start
    OBVIOUS
  <2> HIDE DEF keys
  <2> QED BY <2>1, <2>2
<1> HIDE DEF keys
<1> QED BY <1>1, <1>2, <1>3

(* What has become of a subgraph. *)
Created(t, last, curr) == t \in curr \ last /\ ~Promise!Single(t, curr, last)
Changed(t, last, curr) == t \in curr \ last /\ Promise!Single(t, curr, last)
Deleted(t, last, curr) == t \in last \ curr /\ ~Promise!Single(t, last, curr)

Became(e, last, curr) ==
    \/ \E t : e = <<"on_create", t>> /\ Created(t, last, curr)
    \/ \E t : e = <<"on_change", t>> /\ Changed(t, last, curr)
    \/ \E t : e = <<"on_delete", t>> /\ Deleted(t, last, curr)

LEMMA ChangesOfIs ==
    ASSUME NEW last, NEW curr, NEW s, NEW e
    PROVE  e \in ChangesOf(Promise!Alike(s, last), Promise!Alike(s, curr))
             <=> \E t : /\ t.start = s.start /\ t.refs = s.refs
                        /\ \/ e = <<"on_create", t>> /\ Created(t, last, curr)
                           \/ e = <<"on_change", t>> /\ Changed(t, last, curr)
                           \/ e = <<"on_delete", t>> /\ Deleted(t, last, curr)
<1> DEFINE L == Promise!Alike(s, last)
           C == Promise!Alike(s, curr)
           same == Cardinality(L) = 1 /\ Cardinality(C) = 1
<1>0. \A ss : Promise!Cardinality(ss) = Cardinality(ss)
  BY DEF Promise!Cardinality, Cardinality
<1>1. \A t : t.start = s.start /\ t.refs = s.refs =>
                /\ Promise!Single(t, curr, last) <=> same
                /\ Promise!Single(t, last, curr) <=> same
  <2> TAKE t
  <2> HAVE t.start = s.start /\ t.refs = s.refs
  <2>1. Promise!Alike(t, last) = L /\ Promise!Alike(t, curr) = C
    BY AlikeIs
  <2> HIDE DEF L, C
  <2> QED BY <1>0, <2>1 DEF Promise!Single
<1>2. \A t : /\ t \in L <=> t \in last /\ t.start = s.start /\ t.refs = s.refs
             /\ t \in C <=> t \in curr /\ t.start = s.start /\ t.refs = s.refs
  BY AlikeIs
<1>3. e \in ChangesOf(L, C)
        <=> \E t : \/ e = <<"on_create", t>> /\ t \in C \ L /\ ~same
                   \/ e = <<"on_change", t>> /\ t \in C \ L /\ same
                   \/ e = <<"on_delete", t>> /\ t \in L \ C /\ ~same
  <2> HIDE DEF L, C
  <2> QED BY DEF ChangesOf
<1> HIDE DEF L, C, same
<1>4. \A t : /\ t \in C \ L <=> t \in curr \ last /\ t.start = s.start /\ t.refs = s.refs
             /\ t \in L \ C <=> t \in last \ curr /\ t.start = s.start /\ t.refs = s.refs
  BY <1>2
<1>5. \A t : /\ t \in C \ L /\ ~same <=> Created(t, last, curr) /\ t.start = s.start /\ t.refs = s.refs
             /\ t \in C \ L /\ same  <=> Changed(t, last, curr) /\ t.start = s.start /\ t.refs = s.refs
             /\ t \in L \ C /\ ~same <=> Deleted(t, last, curr) /\ t.start = s.start /\ t.refs = s.refs
  BY <1>1, <1>4 DEF Created, Changed, Deleted
<1>6. e \in ChangesOf(L, C)
        <=> \E t : /\ t.start = s.start /\ t.refs = s.refs
                   /\ \/ e = <<"on_create", t>> /\ Created(t, last, curr)
                      \/ e = <<"on_change", t>> /\ Changed(t, last, curr)
                      \/ e = <<"on_delete", t>> /\ Deleted(t, last, curr)
  BY <1>3, <1>5
<1> QED BY <1>6 DEF L, C

LEMMA SubgraphChangesAre ==
    ASSUME NEW last, NEW curr, NEW positions,
           \A s \in last \cup curr : s.start \in positions \/ (s \in last /\ s \in curr),
           NEW e
    PROVE  e \in SubgraphChanges(last, curr, positions) <=> Became(e, last, curr)
<1>1. ASSUME e \in SubgraphChanges(last, curr, positions) PROVE Became(e, last, curr)
  <2>1. PICK s \in last \cup curr : e \in ChangesOf(Promise!Alike(s, last), Promise!Alike(s, curr))
    BY <1>1, SubgraphChangesIs
  <2> QED BY <2>1, ChangesOfIs DEF Became
<1>2. ASSUME Became(e, last, curr) PROVE e \in SubgraphChanges(last, curr, positions)
  <2>1. PICK t : \/ e = <<"on_create", t>> /\ Created(t, last, curr)
                 \/ e = <<"on_change", t>> /\ Changed(t, last, curr)
                 \/ e = <<"on_delete", t>> /\ Deleted(t, last, curr)
    BY <1>2 DEF Became
  <2>2. t \in last \cup curr /\ t.start \in positions
    BY <2>1 DEF Created, Changed, Deleted
  <2>3. e \in ChangesOf(Promise!Alike(t, last), Promise!Alike(t, curr))
    BY <2>1, ChangesOfIs
  <2> QED BY <2>2, <2>3, SubgraphChangesIs
<1> QED BY <1>1, <1>2

LEMMA HappenedIs ==
    ASSUME NEW o, NEW e
    PROVE  e \in Promise!Happened(o)
             <=> \E f : Became(f, Finds(o, applied), Finds(o, present)) /\ e = <<o, f[1], f[2]>>
<1> DEFINE L == Finds(o, applied)
           C == Finds(o, present)
<1>1. e \in Promise!Happened(o)
        <=> \E t : \/ e = <<o, "on_create", t>> /\ Created(t, L, C)
                   \/ e = <<o, "on_change", t>> /\ Changed(t, L, C)
                   \/ e = <<o, "on_delete", t>> /\ Deleted(t, L, C)
  <2> HIDE DEF L, C
  <2>1. Promise!Happened(o) =
          {<<o, "on_create", s>> : s \in {t \in C \ L : ~Promise!Single(t, C, L)}}
            \cup {<<o, "on_change", s>> : s \in {t \in C \ L : Promise!Single(t, C, L)}}
            \cup {<<o, "on_delete", s>> : s \in {t \in L \ C : ~Promise!Single(t, L, C)}}
    BY DEF Promise!Happened, L, C
  <2> QED BY <2>1 DEF Created, Changed, Deleted
<1> HIDE DEF L, C
<1>2. \A f : Became(f, L, C) /\ e = <<o, f[1], f[2]>>
               <=> \E t : \/ f = <<"on_create", t>> /\ e = <<o, "on_create", t>> /\ Created(t, L, C)
                          \/ f = <<"on_change", t>> /\ e = <<o, "on_change", t>> /\ Changed(t, L, C)
                          \/ f = <<"on_delete", t>> /\ e = <<o, "on_delete", t>> /\ Deleted(t, L, C)
  BY DEF Became
<1>3. e \in Promise!Happened(o) <=> \E f : Became(f, L, C) /\ e = <<o, f[1], f[2]>>
  BY <1>1, <1>2
<1> QED BY <1>3 DEF L, C

LEMMA ReportedHappened ==
    ASSUME NEW o, NEW positions,
           \A s \in Finds(o, applied) \cup Finds(o, present) :
              s.start \in positions \/ (s \in Finds(o, applied) /\ s \in Finds(o, present))
    PROVE  Reported(o, SubgraphChanges(Finds(o, applied), Finds(o, present), positions))
             = {e \in Promise!Happened(o) : e[2] \in EventsOf[e[1]]}
<1> DEFINE found == SubgraphChanges(Finds(o, applied), Finds(o, present), positions)
<1>1. \A f : f \in found <=> Became(f, Finds(o, applied), Finds(o, present))
  BY SubgraphChangesAre
<1> HIDE DEF found
<1>2. \A e : e \in Reported(o, found) <=> \E f \in found : f[1] \in EventsOf[o] /\ e = <<o, f[1], f[2]>>
  BY DEF Reported
<1>3. \A e : e \in Promise!Happened(o) <=> \E f \in found : e = <<o, f[1], f[2]>>
  BY <1>1, HappenedIs
<1>4. Reported(o, found) = {e \in Promise!Happened(o) : e[2] \in EventsOf[e[1]]}
  <2>1. \A e : e \in Reported(o, found) <=> e \in Promise!Happened(o) /\ e[2] \in EventsOf[e[1]]
    BY <1>2, <1>3
  <2> QED BY <2>1
<1> QED BY <1>4 DEF found

LEMMA PositionsFound ==
    ASSUME NEW S, SoundMatching(S), NEW o \in Observer, NEW g \in GraphState
    PROVE  \A s : s \in Finds(o, g) <=> s.start \in Position /\ s \in Query(PatternOf[o], g, s.start)
<1>1. \A at \in Position : \A s \in Query(PatternOf[o], g, at) : s.start = at /\ at[2] \in g.vertices
  <2> TAKE at \in Position
  <2>1. g.vertices \in Ids(g)
    BY IdsExist
  <2>2. SoundFrom(o, S, g, g.vertices, at)
    BY <2>1, SoundFromAnywhere
  <2> QED BY <2>2 DEF SoundFrom
<1>2. \A s : s \in Finds(o, g) <=> \E at \in Position : at[2] \in g.vertices /\ s \in Query(PatternOf[o], g, at)
  BY DEF Finds
<1> QED BY <1>1, <1>2

LEMMA ObservePromised ==
    ASSUME NEW S, SoundMatching(S), MatchingInv(S), UNCHANGED registered,
           Observe(Difference(applied, present))
    PROVE  events' = {e \in UNION {Promise!Happened(o) : o \in registered} : e[2] \in EventsOf[e[1]]}
<1>0. /\ registered \subseteq Observer /\ applied \in GraphState /\ present \in GraphState
      /\ known \in SUBSET Vertex
      /\ \A o \in registered : Attentive(o, matcher[o], applied, known)
  BY DEF MatchingInv, RecordsInv, GraphsInv, ObserversInv
<1>1. CASE ObserveChanges(Difference(applied, present))
  <2>1. PICK P \in [registered -> SUBSET Position] :
           /\ \A o \in registered : Observed(o, applied, present, known, P[o])
           /\ events' = UNION {Reported(o, SubgraphChanges(matcher[o].last, matcher'[o].last, P[o])) : o \in registered}
    BY <1>1, ObserveChangesMatches
  <2>2. ASSUME NEW o \in registered
        PROVE  Reported(o, SubgraphChanges(matcher[o].last, matcher'[o].last, P[o]))
                 = {e \in Promise!Happened(o) : e[2] \in EventsOf[e[1]]}
    <3>1. o \in Observer /\ Attentive(o, matcher[o], applied, known) /\ Attentive(o, matcher'[o], present, known)
      BY <1>0, <2>1 DEF Observed
    <3>2. matcher[o].last = Finds(o, applied) /\ matcher'[o].last = Finds(o, present)
      BY <1>0, <3>1, AttentiveSees
    <3>3. \A at \in Position \ P[o] : FoundAt(matcher'[o], at) = FoundAt(matcher[o], at)
      BY <2>1 DEF Observed
    <3>4. \A s \in Finds(o, applied) \cup Finds(o, present) : s.start \in Position
      BY <3>1, <3>2 DEF Attentive
    <3>5. ASSUME NEW s \in Finds(o, applied) \cup Finds(o, present), s.start \notin P[o]
          PROVE  s \in Finds(o, applied) /\ s \in Finds(o, present)
      <4>1. s \in FoundAt(matcher[o], s.start) \/ s \in FoundAt(matcher'[o], s.start)
        BY <3>2 DEF FoundAt
      <4>2. s \in FoundAt(matcher[o], s.start) /\ s \in FoundAt(matcher'[o], s.start)
        BY <3>3, <3>4, <3>5, <4>1
      <4> QED BY <3>2, <4>2 DEF FoundAt
    <3>6. \A s \in Finds(o, applied) \cup Finds(o, present) :
             s.start \in P[o] \/ (s \in Finds(o, applied) /\ s \in Finds(o, present))
      BY <3>5
    <3>7. Reported(o, SubgraphChanges(Finds(o, applied), Finds(o, present), P[o]))
            = {e \in Promise!Happened(o) : e[2] \in EventsOf[e[1]]}
      BY <3>6, ReportedHappened
    <3> QED BY <3>2, <3>7
  <2> QED BY <2>1, <2>2
<1>2. CASE Difference(applied, present) = G!Nothing /\ events' = {}
  <2>1. present = applied
    BY <1>0, <1>2, NothingChanged
  <2>2. \A o : Promise!Happened(o) = {}
    BY <2>1, HappenedIs DEF Became, Created, Changed, Deleted
  <2> QED BY <1>2, <2>2
<1> QED BY <1>1, <1>2 DEF Observe

LEMMA StepPromised ==
    ASSUME NEW S, SoundMatching(S), MatchingInv(S), RecordsInv', [Next]_vars
    PROVE  [Promise!Next]_Promise!promiseVars
<1>1. CASE Update
  <2>1. present' \in [vertices : SUBSET Vertex, edges : SUBSET Edge]
    BY DEF RecordsInv, GraphsInv, GraphState
  <2>2. UNCHANGED <<applied, committed, registered>> /\ events' = {}
    BY <1>1 DEF Update, G!AddVertex, G!RemoveVertex, G!AddEdge, G!RemoveEdge, G!Becomes
  <2>3. \/ \E v \in Vertex : present'.vertices \in {present.vertices \cup {v}, present.vertices \ {v}}
        \/ present'.vertices = present.vertices
    BY <1>1 DEF Update, G!AddVertex, G!RemoveVertex, G!AddEdge, G!RemoveEdge, G!Becomes
  <2>4. Promise!Update
    BY <2>1, <2>2, <2>3 DEF Promise!Update
  <2> QED BY <2>4 DEF Promise!Next
<1>2. CASE \E o \in Observer : Register(o)
  <2>1. \E o \in Observer : Promise!Register(o)
    BY <1>2 DEF Register, Promise!Register
  <2> QED BY <2>1 DEF Promise!Next
<1>3. CASE Apply
  <2>1. /\ applied' = present /\ UNCHANGED <<present, committed, registered>>
        /\ Observe(Difference(applied, present))
    BY <1>3 DEF Apply, G!Apply
  <2>2. events' = {e \in UNION {Promise!Happened(o) : o \in registered} : e[2] \in EventsOf[e[1]]}
    BY <2>1, ObservePromised
  <2>3. Promise!Apply
    BY <2>1, <2>2 DEF Promise!Apply
  <2> QED BY <2>3 DEF Promise!Next
<1>4. CASE Commit
  <2>1. /\ applied' = present /\ UNCHANGED <<present, registered>>
        /\ committed' = IF events' = {} THEN present ELSE committed
        /\ Observe(Difference(applied, present))
    BY <1>4 DEF Commit
  <2>2. events' = {e \in UNION {Promise!Happened(o) : o \in registered} : e[2] \in EventsOf[e[1]]}
    BY <2>1, ObservePromised
  <2>3. Promise!Apply
    BY <2>1, <2>2 DEF Promise!Apply
  <2> QED BY <2>3 DEF Promise!Next
<1>5. CASE Rollback
  <2>1. Promise!Rollback
    BY <1>5 DEF Rollback, G!Rollback, Promise!Rollback
  <2> QED BY <2>1 DEF Promise!Next
<1>6. CASE UNCHANGED vars
  BY <1>6 DEF vars, Promise!promiseVars
<1> QED BY <1>1, <1>2, <1>3, <1>4, <1>5, <1>6 DEF Next

(* What apply() and commit() return is what has become of the subgraphs of *)
(* every pattern since the last apply, and nothing else.                   *)
THEOREM RematchedIsAsIfRematched ==
    ASSUME NEW S, SoundMatching(S), ~RegisterAnytime
    PROVE  Spec => AsIfRematched
<1>1. Init => Promise!Init
  BY DEF Init, G!Init, G!Empty, Promise!Init
<1>2. MatchingInv(S) /\ RecordsInv' /\ [Next]_vars => [Promise!Next]_Promise!promiseVars
  BY StepPromised
<1>3. Spec => []MatchingInv(S)
  BY MatchingKept
<1>4. Spec => []RecordsInv
  BY RecordsAgree
<1> QED BY <1>1, <1>2, <1>3, <1>4, PTL DEF Spec, AsIfRematched, Promise!Spec

-----------------------------------------------------------------------------
(* Unconditionally, where observers watch patterns that are vertices and   *)
(* edges one after the other and are registered between transactions.      *)

(* An observer of such a pattern remembers what it matches in the graph of *)
(* the last apply, after any number of them and whichever were rolled back *)
(* (IncrementalMatcher::apply).                                            *)
THEOREM LinearObserversInSync ==
    ASSUME NEW paths, \A o \in Observer : IsLinear(paths[o]) /\ Watches(o, paths[o]),
           ~RegisterAnytime
    PROVE  Spec => []InSync
<1>1. SoundMatching({})
  BY LinearMatchingIsSound
<1> QED BY <1>1, ObserversInSync

(* Of such patterns apply() and commit() return each change, and no other  *)
(* (ObserverContainer::apply).                                             *)
THEOREM LinearRematchedIsAsIfRematched ==
    ASSUME NEW paths, \A o \in Observer : IsLinear(paths[o]) /\ Watches(o, paths[o]),
           ~RegisterAnytime
    PROVE  Spec => AsIfRematched
<1>1. SoundMatching({})
  BY LinearMatchingIsSound
<1> QED BY <1>1, RematchedIsAsIfRematched
=============================================================================
