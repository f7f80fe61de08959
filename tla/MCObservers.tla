----------------------------- MODULE MCObservers -----------------------------
(***************************************************************************)
(* Two people and a city, a few edges, and observers of many shapes of     *)
(* patterns; each run watches some of them.                                *)
(***************************************************************************)
EXTENDS ObserverSafety, Matching

CONSTANTS ann, bob, rome, person, city, likes, lives, x, y

MCVertex   == {ann, bob, rome}
MCTypeName == {person, city}
MCTypeOf   == (ann :> person) @@ (bob :> person) @@ (rome :> city)
MCLabel    == {likes, lives}
MCEdge     == {<<ann, likes, bob>>, <<bob, likes, ann>>, <<bob, lives, rome>>}

Y == VertexExpr(person, y)

MCPattern ==
    ("ann"    :> Some(ann))
    \* (repeat 0-2x: -likes> person) -lives> city
 @@ ("chain"  :> In(<<Repetition(0, 2, In(<<To({likes}), Some(person)>>)), To({lives}), Some(city)>>))
    \* person as x (unless: -likes> * as y) (unless: <likes- person as y)
    \*   (maybe: -lives> rome)
 @@ ("apart"  :> In(<<VertexExpr(person, x), Unless(In(<<To({likes}), VertexExpr(Anything, y)>>)),
                      Unless(In(<<From({likes}), Y>>)), Maybe(In(<<To({lives}), Some(rome)>>))>>))
    \* (city | person (if: <likes>)) (repeat 0-2x: -likes> *)
    \*   (all: -*- * (maybe: -likes> *))
 @@ ("circle" :> In(<<Or(<<Some(city), In(<<Some(person), If(Both({likes}))>>)>>),
                      Repetition(0, 2, In(<<To({likes}), Some(Anything)>>)),
                      All(In(<<Edges(Anything), Some(Anything),
                               Maybe(In(<<To({likes}), Some(Anything)>>))>>))>>))
    \* (all: person -likes> person)
 @@ ("fond"   :> All(In(<<Some(person), To({likes}), Some(person)>>)))

(* Each observer has the name of its pattern. *)
MCPatternOf == [o \in Observer |-> o] @@ <<>>
MCEventsOf ==
    [o \in Observer |-> IF o = "apart" THEN {"on_create", "on_delete"}
                                       ELSE {"on_create", "on_change", "on_delete"}]

Acquaintances == {"apart", "circle"}
Ann           == {"ann"}
Chain         == {"chain"}
Fond          == {"fond"}

-----------------------------------------------------------------------------
(* What matching yields, in every graph that there may be. *)

MCGraph   == {g \in [vertices : SUBSET Vertex, edges : SUBSET Edge] :
                \A e \in g.edges : {e[1], e[3]} \subseteq g.vertices}

(* As tables, which TLC evaluates once (f @@ <<>> is f).  They are looked *)
(* up in LETs, whose tables TLC's coverage does not take apart.           *)
QueryTable ==
    [p \in Observer |-> [g \in MCGraph |->
        [at \in Position |-> MatcherMatch(MCPattern[p], g, at)] @@ <<>>] @@ <<>>] @@ <<>>
PlanTable == [p \in Observer |-> ObserverPlanOf(MCPattern[p])] @@ <<>>
StartsTable ==
    [p \in Observer |-> [g \in MCGraph |->
        [ids \in SUBSET Vertex |-> StartPositions(MCPattern[p], g, ids)] @@ <<>>] @@ <<>>] @@ <<>>
StartDepsTable ==
    [p \in Observer |-> [ids \in SUBSET Vertex |-> StartPositionDeps(MCPattern[p], ids)] @@ <<>>] @@ <<>>

(* Nested expressions, none of which has names here. *)
RECURSIVE NestedPlans(_)
NestedPlans(plan) ==
    CASE plan.op = "nested" -> {plan.plan} \cup NestedPlans(plan.plan)
      [] plan.op \in {"concat", "or", "and"} -> UNION {NestedPlans(q) : q \in ToSet(plan.operands)}
      [] plan.op \in {"all", "if", "unless", "skip", "maybe", "repeat"} -> NestedPlans(plan.operand)
      [] OTHER -> {}
MCExpression == SetToSeq(UNION {NestedPlans(PlanTable[p]) : p \in Observer}) \o <<>>
MCExpressionId(plan) == LET table == MCExpression IN CHOOSE id \in DOMAIN table : table[id] = plan
MCExpressionOf(id)   == LET table == MCExpression IN table[id]
HeightTable == [id \in DOMAIN MCExpression |-> 1 + Height(MCExpression[id])] @@ <<>>

MCNestedStart == (DOMAIN MCExpression) \X Position \X {{}}
NestedTable ==
    [g \in MCGraph |-> [ids \in SUBSET Vertex |-> [start \in MCNestedStart |->
        MatchNested(Context(g, ids, NothingCached, start[2]), start)] @@ <<>>] @@ <<>>] @@ <<>>

(* The starts that are looked up for these deps to be found. *)
RECURSIVE Reads(_, _, _)
Reads(g, ids, deps) ==
    LET starts == StartsIn(deps)
    IN  starts \cup UNION {Reads(g, ids, NestedTable[g][ids][s].deps) : s \in starts}

NestedReads ==
    [g \in MCGraph |-> [ids \in SUBSET Vertex |-> [s \in MCNestedStart |->
        Reads(g, ids, NestedTable[g][ids][s].deps)] @@ <<>>] @@ <<>>] @@ <<>>

MatchTable ==
    [p \in Observer |-> [g \in MCGraph |-> [ids \in SUBSET Vertex |-> [at \in Position |->
        LET result == MatchFrom(PlanTable[p], g, ids, NothingCached, at)
        IN  [found |-> SubgraphsFrom(at, result.found), deps |-> result.deps,
             reads |-> Reads(g, ids, result.deps)]] @@ <<>>] @@ <<>>] @@ <<>>] @@ <<>>

(* Subgraphs read from a cache are those that would be matched, unless one *)
(* of them is stale.                                                       *)
Fresh(g, ids, cached, reads) ==
    \A s \in reads : s \in DOMAIN cached => cached[s] = NestedTable[g][ids][s].found

MCQuery(p, g, at)   == LET table == QueryTable IN table[p][g][at]
MCStarts(p, g, ids) == LET table == StartsTable IN table[p][g][ids]
MCStartDeps(p, ids) == LET table == StartDepsTable IN table[p][ids]
MCMatch(p, g, ids, cached, at) ==
    LET result == MatchTable[p][g][ids][at]
    IN  IF Fresh(g, ids, cached, result.reads)
          THEN result.found
          ELSE SubgraphsFrom(at, MatchFrom(PlanTable[p], g, ids, cached, at).found)
MCDeps(p, g, ids, cached, at) ==
    LET result == MatchTable[p][g][ids][at]
    IN  IF Fresh(g, ids, cached, result.reads)
          THEN result.deps
          ELSE MatchFrom(PlanTable[p], g, ids, cached, at).deps
MCNestedMatch(g, ids, cached, start) ==
    LET result == NestedTable[g][ids][start]
    IN  IF Fresh(g, ids, cached, NestedReads[g][ids][start])
          THEN result
          ELSE MatchNested(Context(g, ids, cached, start[2]), start)
MCHeightOf(start) == LET table == HeightTable IN table[start[1]]
=============================================================================
