-------------------------- MODULE MCObserversSound --------------------------
(***************************************************************************)
(* The observers of MCObservers whose patterns are matched soundly: all    *)
(* nested expressions start at orbits.                                     *)
(***************************************************************************)
EXTENDS MCObservers, SoundMatching

OrbitStart == {s \in MCNestedStart : s[2][1] = "orbit"}

ASSUME MatchingIsSound == SoundMatching(OrbitStart)

(* The tables hold what matching yields with whatever is cached by then.   *)
ASSUME TablesAreRight ==
    \A g \in MCGraph, D \in SUBSET OrbitStart :
        LET cached == CacheOf(D, MaxHeight + 1, g, g)
        IN  \A ids \in {g.vertices, Vertex} :
              /\ \A s \in OrbitStart :
                    MatchNested(Context(g, ids, cached, s[2]), s) = MCNestedMatch(g, ids, cached, s)
              /\ \A p \in Observer, at \in Position :
                    LET result == MatchFrom(PlanTable[p], g, ids, cached, at)
                    IN  /\ SubgraphsFrom(at, result.found) = MCMatch(p, g, ids, cached, at)
                        /\ result.deps = MCDeps(p, g, ids, cached, at)

-----------------------------------------------------------------------------
(* Patterns that are vertices and edges one after the other: their plans   *)
(* are paths, and matched as such, so that who watches them Watches paths. *)

LinearPattern == {
    \* person as x -likes> person as y -likes> person as x
    In(<<VertexExpr(person, x), To({likes}), Y, To({likes}), VertexExpr(person, x)>>),
    \* <*&likes> ann <likes> * as x
    In(<<EdgeExpr("both", {likes}, Anything), Some(ann), Both({likes}), VertexExpr(Anything, x)>>),
    \* -lives> rome <*- person
    In(<<To({lives}), Some(rome), From(Anything), Some(person)>>),
    \* * <*- * as y -likes|lives- * -lives> city -*- person as y -*> *
    In(<<Some(Anything), From(Anything), VertexExpr(Anything, y), Edges({likes, lives}), Some(Anything),
         To({lives}), Some(city), Edges(Anything), VertexExpr(person, y), To(Anything), Some(Anything)>>),
    \* -likes-
    Edges({likes})}

PathsIn(plan) ==
    CASE plan.op = "path"   -> <<plan.items>>
      [] plan.op = "concat" -> [i \in DOMAIN plan.operands |-> plan.operands[i].items]
      [] OTHER              -> <<<<plan>>>>

ASSUME PatternsAreLinear ==
    \A e \in LinearPattern :
        LET paths == PathsIn(ObserverPlanOf(e))
        IN  /\ IsLinear(paths) /\ PathsIn(PlanOf(e)) = paths
            /\ \A g \in MCGraph, at \in Position :
                  /\ MatcherMatch(e, g, at) = SubgraphsFrom(at, MatchLinear(paths, g, Vertex, at).found)
                  /\ \A ids \in Ids(g) :
                        MatchFrom(ObserverPlanOf(e), g, ids, Uncached, at) = MatchLinear(paths, g, ids, at)
            /\ \A g \in MCGraph, ids \in SUBSET Vertex :
                  StartPositions(e, g, ids) = PositionsAt(Beginning(paths), g, ids)
            /\ \A ids \in SUBSET Vertex :
                  StartPositionDeps(e, ids) = PositionDepsAt(Beginning(paths), ids)
=============================================================================
