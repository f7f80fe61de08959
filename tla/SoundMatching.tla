---------------------------- MODULE SoundMatching ----------------------------
(***************************************************************************)
(* What rematching relies on: that deps say enough.  If nothing happens to *)
(* what a match depends on, there is nothing else to find.  It is a        *)
(* condition on patterns, as there are some for which it does not hold.    *)
(***************************************************************************)
EXTENDS ObserverSafety, PathMatching

Ids(g) == {ids \in SUBSET Vertex : g.vertices \subseteq ids}

Uncached == EmptyRegistry.cached

(* What a nested expression matches.  That a vertex which is not there has *)
(* an ID may only matter to what matching depends on.                      *)
NestedFound(g, s)     == NestedMatch(g, Vertex, Uncached, s).found
NestedDeps(g, ids, s) == NestedMatch(g, ids, Uncached, s).deps

(* A cache in which entries of less height than low are up to date, and    *)
(* others still those of another graph.                                    *)
CacheOf(starts, low, g, stale) ==
    [s \in starts |-> NestedFound(IF HeightOf(s) < low THEN g ELSE stale, s)]

(* From g to h, nothing is observed of what there are deps on. *)
Unobserved(g, h, deps) ==
    /\ Observations(Difference(g, h)) \cap deps = {}
    /\ \A s \in StartsIn(deps) : NestedFound(h, s) = NestedFound(g, s)

(* Further positions that are matched from because of StartDeps. *)
Announced(o, ids, at, g, h) ==
    LET c == Difference(g, h)
    IN  \E pair \in StartDeps(PatternOf[o], ids) :
            pair[1] \in Observations(c) /\ at \in PositionsOf(pair[2], pair[1], c)

(* Deps on nested expressions are on those of starts, lower than height.   *)
ReadsBelow(height, starts, deps) ==
    \A d \in {x \in deps : x[1] = "NestedExpressionSubgraph"} :
        \E s \in starts : d = NestedSubgraphs(s) /\ HeightOf(s) < height

(* A nested expression is found the same whatever has an ID and is cached, *)
(* and as long as nothing is observed.                                     *)
SoundNesting(starts) ==
    \A s \in starts :
        /\ HeightOf(s) \in 1 .. MaxHeight
        /\ \A g \in GraphState : \A ids \in Ids(g) :
              LET deps == NestedDeps(g, ids, s)
              IN  /\ NestedMatch(g, ids, Uncached, s).found = NestedFound(g, s)
                  /\ ReadsBelow(HeightOf(s), starts, deps)
                  /\ \A h \in GraphState :
                        Unobserved(g, h, deps) => NestedFound(h, s) = NestedFound(g, s)
                  /\ \A cached \in {CacheOf(D, low, g, h) : D \in SUBSET starts,
                                     low \in HeightOf(s) .. MaxHeight + 1, h \in GraphState} :
                        NestedMatch(g, ids, cached, s) = NestedMatch(g, ids, Uncached, s)

(* The same of an observer's pattern and a position; a query finds that,   *)
(* too, and it finds something at vertices that are there only.            *)
SoundFrom(o, starts, g, ids, at) ==
    LET p    == PatternOf[o]
        deps == Deps(p, g, ids, Uncached, at)
    IN  /\ Match(p, g, ids, Uncached, at) = Query(p, g, at)
        /\ \A s \in Query(p, g, at) : s.start = at /\ at[2] \in g.vertices
        /\ ReadsBelow(MaxHeight + 1, starts, deps)
        /\ \A cached \in {CacheOf(D, MaxHeight + 1, g, g) : D \in SUBSET starts} :
              /\ Match(p, g, ids, cached, at) = Match(p, g, ids, Uncached, at)
              /\ Deps(p, g, ids, cached, at) = deps
        /\ \A h \in GraphState, before \in SUBSET ids :
              ~Announced(o, before, at, g, h) =>
                  /\ Unobserved(g, h, deps) => Query(p, h, at) = Query(p, g, at)
                  /\ at \notin Starts(p, g, ids) => Query(p, h, at) = {}

(* Observers match soundly if they only look up starts of which that holds. *)
SoundMatching(starts) ==
    /\ SoundNesting(starts)
    /\ \A o \in Observer, g \in GraphState : \A ids \in Ids(g) : \A at \in Position :
          SoundFrom(o, starts, g, ids, at)

-----------------------------------------------------------------------------
(* Patterns that are vertices and edges one after the other.  Their plans  *)
(* are paths, one after the other, too, whose items are those below.  An   *)
(* edge that may have any direction has the same labels in both (parser.y).*)

Labels     == (SUBSET Label) \cup {Anything}
VertexItem == [op : {"vertex"}, test : Vertex \cup TypeName \cup {Anything},
               ref : RefName \cup {Unnamed}, known : BOOLEAN]
EdgeItem   == {e \in [op : {"edge"}, forward : Labels, backward : Labels,
                      direction : {"forward", "backward", "any", "both", "both symmetric"}] :
                 e.direction = "any" => e.forward = e.backward}
EdgeToItem == [op : {"edge to"}, edge : EdgeItem, vertex : VertexItem]
PathItem   == VertexItem \cup EdgeItem \cup EdgeToItem

(* The first of them is not the value of a placeholder.                    *)
IsLinear(paths) ==
    /\ paths \in Seq(Seq(PathItem)) \ {<<>>}
    /\ paths[1] # <<>>
    /\ paths[1][1].op = "vertex" => paths[1][1].test \notin Vertex

Beginning(paths) == IF paths[1][1].op = "edge to" THEN paths[1][1].edge ELSE paths[1][1]

MatchLinear(paths, g, ids, at) ==
    LET c == Context(g, ids, NothingCached, at)
    IN  ExpandNegatives(g,
          Concatenation(FALSE, [i \in DOMAIN paths |-> LastItems(c, paths[i])[Len(paths[i])]])[at][{}])

(* Observer o watches such a pattern, and it is matched as in PathMatching.*)
Watches(o, paths) ==
    LET p     == PatternOf[o]
        begin == Beginning(paths)
    IN  /\ \A g \in GraphState, at \in Position : \A ids \in Ids(g) :
              LET result == MatchLinear(paths, g, ids, at)
              IN  /\ Match(p, g, ids, Uncached, at) = SubgraphsFrom(at, result.found)
                  /\ Deps(p, g, ids, Uncached, at) = result.deps
        /\ \A g \in GraphState, at \in Position :
              Query(p, g, at) = SubgraphsFrom(at, MatchLinear(paths, g, Vertex, at).found)
        /\ \A g \in GraphState, ids \in SUBSET Vertex : Starts(p, g, ids) = PositionsAt(begin, g, ids)
        /\ \A ids \in SUBSET Vertex : StartDeps(p, ids) = PositionDepsAt(begin, ids)
=============================================================================
