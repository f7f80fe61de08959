--------------------------- MODULE NestedRegistry ---------------------------
(***************************************************************************)
(* NestedExpressionRegistry (nested_registry.h, nested_registry.cpp): the  *)
(* subgraphs of nested expressions, cached by their starts, shared by all  *)
(* observers, and matched anew when what they depend on is observed.  As   *)
(* expressions consist of others, that is other cached subgraphs, too.     *)
(***************************************************************************)
EXTENDS Observables, Integers

CONSTANTS NestedMatch(_, _, _, _),  \* [found, deps] from a start, given what is cached
          HeightOf(_),              \* how many levels of expressions a start's consists of
          MaxHeight                 \* bound of HeightOf

ASSUME HeightAssumption == MaxHeight \in Nat

EmptyRegistry == [cached |-> [start \in {} |-> {}],  \* subgraphs_, by start
                  deps   |-> {},     \* deps_ and dep_to_starts_, as pairs of dep and start
                  unused |-> {}]     \* maybe_unused_

DependedOn(r) == {pair[1] : pair \in r.deps}
DepsOf(r, starts) == {pair \in r.deps : pair[2] \in starts}

(* unsubscribe: what starts depended on, and nothing does anymore, may be  *)
(* unused.                                                                 *)
WithDeps(r, starts, deps) ==
    LET next == (r.deps \ DepsOf(r, starts)) \cup deps
        lost == {pair[1] : pair \in r.deps} \ {pair[1] : pair \in next}
    IN  [r EXCEPT !.deps = next, !.unused = @ \cup StartsIn(lost)]

(* match, of each of the starts; deps_ gets the deps that are new.         *)
MatchedAnew(r, g, known, starts) ==
    LET result(s) == NestedMatch(g, known, r.cached, s)
        resubscribed == WithDeps(r, starts, UNION {result(s).deps \X {s} : s \in starts})
    IN  [resubscribed EXCEPT !.cached =
            [s \in DOMAIN r.cached \cup starts |-> IF s \in starts THEN result(s).found ELSE r.cached[s]]]

(* get, for all the starts that are looked up while something is matched:  *)
(* those that are missing are matched and cached, which looks up others.   *)
LookUpOnce(sofar, g, known) ==
    LET missing == sofar.wanted \ DOMAIN sofar.registry.cached
        found   == MatchedAnew(sofar.registry, g, known, missing)
    IN  [registry |-> [found EXCEPT !.unused = @ \cup missing],
         wanted   |-> StartsIn({pair[1] : pair \in DepsOf(found, missing)})]

(* Calls of get are as deep as expressions consist of others: after        *)
(* MaxHeight rounds nothing is wanted anymore.                             *)
Lookups(r, g, known, starts) ==
    LET rounds[n \in 0 .. MaxHeight] ==
          IF n = 0 THEN [registry |-> r, wanted |-> starts]
                   ELSE LookUpOnce(rounds[n - 1], g, known)
    IN  rounds

LookedUp(r, g, known, starts) == Lookups(r, g, known, starts)[MaxHeight].registry

(* update: what depends on the observations is matched anew, the most      *)
(* nested expressions first, and what has changed is an observation for    *)
(* what depends on it.                                                     *)
Due(r, observed, h) == {s \in {pair[2] : pair \in {p \in r.deps : p[1] \in observed}} : HeightOf(s) = h}

UpdateAtHeight(sofar, g, known, h) ==
    LET due     == Due(sofar.registry, sofar.observed, h)
        next    == MatchedAnew(sofar.registry, g, known, due)
        changed == {s \in due : next.cached[s] # sofar.registry.cached[s]}
    IN  IF due = {} THEN sofar
          ELSE [registry |-> LookedUp(next, g, known, StartsIn({pair[1] : pair \in DepsOf(next, due)})),
                observed |-> sofar.observed \cup {NestedSubgraphs(s) : s \in changed}]

UpdatesUpTo(r, g, known, observed) ==
    LET upTo[h \in 0 .. MaxHeight] ==
          IF h = 0 THEN [registry |-> r, observed |-> observed]
                   ELSE UpdateAtHeight(upTo[h - 1], g, known, h)
    IN  upTo

(* A variant that begins with the highest expressions. *)
RegistryUpdateDownwards(r, g, known, observed) ==
    LET downTo[n \in 0 .. MaxHeight] ==
          IF n = 0 THEN [registry |-> r, observed |-> observed]
                   ELSE UpdateAtHeight(downTo[n - 1], g, known, MaxHeight + 1 - n)
    IN  downTo[MaxHeight]

RegistryUpdate(r, g, known, observed) == UpdatesUpTo(r, g, known, observed)[MaxHeight]

MarkMaybeUnused(r, observables) == [r EXCEPT !.unused = @ \cup StartsIn(observables)]

(* evict_unused: what neither an expression nor an observer depends on is  *)
(* dropped, then what only that depended on, which is less high.           *)
EvictOnce(r, watched) ==
    LET used    == DependedOn(r) \cup watched
        evicted == {s \in r.unused \cap DOMAIN r.cached : NestedSubgraphs(s) \notin used}
        kept    == [s \in DOMAIN r.cached \ evicted |-> r.cached[s]]
    IN  WithDeps([r EXCEPT !.cached = kept, !.unused = {}], evicted, {})

Evictions(r, watched) ==
    LET rounds[n \in 0 .. MaxHeight] ==
          IF n = 0 THEN r ELSE EvictOnce(rounds[n - 1], watched)
    IN  rounds

(* A variant that asks the registry only. *)
EvictAllUnused(r, watched) == Evictions(r, {})[MaxHeight]

EvictUnused(r, watched) == Evictions(r, watched)[MaxHeight]
=============================================================================
