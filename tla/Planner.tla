------------------------------ MODULE Planner ------------------------------
(***************************************************************************)
(* The plans by which patterns are matched (plan.h, planner.cpp).          *)
(*                                                                         *)
(* The plan of a pattern is the pattern annotated with the names that it   *)
(* may set; which of them is not bound yet decides between the plans with  *)
(* and without `WithoutSetRef' in their name.  Runs of vertices and edges  *)
(* become "path"s.                                                         *)
(*                                                                         *)
(* With nest_operands, which observers plan with, operands whose subgraphs *)
(* are worth caching become nested expressions.                            *)
(***************************************************************************)
EXTENDS Expressions

(* How often a name occurs in a pattern. *)
RECURSIVE Count(_, _)
Count(e, name) ==
    IF e.op = "vertex"
      THEN IF e.ref = name THEN 1 ELSE 0
      ELSE FoldLeft(LAMBDA n, child : n + Count(child, name), 0, Children(e))

RECURSIVE Names(_)
Names(e) ==
    IF e.op = "vertex"
      THEN {e.ref} \ {Unnamed}
      ELSE UNION {Names(child) : child \in ToSet(Children(e))}

(* The names that occur outside of a negation, too: the ones of which it   *)
(* can exclude values.  The others are local to it.                        *)
SharedRefs(whole, e) == {name \in Names(e) : Count(whole, name) > Count(e, name)}

-----------------------------------------------------------------------------
MaxPathLength == 5

Path(items) == [op |-> "path", items |-> items]

(* An edge to a known vertex, one with a given value or a bound name, is   *)
(* looked up as such.                                                      *)
EdgeToVertex(edge, vertex) == [op |-> "edge to", edge |-> edge, vertex |-> vertex]

(* add_paths: plans for items that are to be matched one after the other,  *)
(* with a path as begun.                                                   *)
RECURSIVE Paths(_, _)
Paths(begun, items) ==
    LET ended == IF begun = <<>> THEN <<>> ELSE <<Path(begun)>>
        toKnown == /\ Len(items) > 1
                   /\ items[1].op = "edge"
                   /\ items[2].op = "vertex" /\ items[2].known
        ofPath  == items[1].op \in {"vertex", "edge"}
    IN  CASE items = <<>> -> ended
          [] toKnown ->
                LET edge == EdgeToVertex(items[1], items[2])
                    continues == /\ begun # <<>> /\ Last(begun).op = "vertex"
                                 /\ Len(begun) + 2 <= MaxPathLength
                IN  (IF continues THEN <<Path(Append(begun, edge))>>
                                  ELSE Append(ended, Path(<<edge>>)))
                      \o Paths(<<>>, SubSeq(items, 3, Len(items)))
          [] ~toKnown /\ items # <<>> /\ ~ofPath ->
                Append(ended, items[1]) \o Paths(<<>>, Tail(items))
          [] ~toKnown /\ items # <<>> /\ ofPath ->
                IF begun # <<>> /\ (Last(begun).op = items[1].op \/ Len(begun) = MaxPathLength)
                  THEN ended \o Paths(<<items[1]>>, Tail(items))
                  ELSE Paths(Append(begun, items[1]), Tail(items))

-----------------------------------------------------------------------------
(* Nested expressions (nested, is_single_step): operands of (all: ),       *)
(* (maybe: ) and & whose subgraphs are cached.  Not single steps, and none *)
(* that mentions a name set by operations planned so far, be they before   *)
(* or inside of it: such subgraphs would be specific to what those         *)
(* operations matched.                                                     *)
Nested(names, plan) == [op |-> "nested", names |-> names, plan |-> plan]

SingleStep(plan) ==
    \/ plan.op \in {"vertex", "edge", "noop"}
    \/ plan.op = "path" /\ Len(plan.items) = 1

NestedOperand(cx, e, planned) ==
    IF ~cx.nest \/ SingleStep(planned.plan) \/ Names(e) \cap planned.done # {}
      THEN planned.plan
      ELSE Nested(Names(e), planned.plan)

(* How many levels of nested expressions a plan consists of.               *)
RECURSIVE Height(_)
Height(plan) ==
    LET highest(plans) == FoldLeft(LAMBDA n, p : IF Height(p) > n THEN Height(p) ELSE n, 0, plans)
    IN  CASE plan.op = "nested"                       -> 1 + Height(plan.plan)
          [] plan.op \in {"concat", "or", "and"}      -> highest(plan.operands)
          [] plan.op \in {"all", "if", "unless", "skip", "maybe", "repeat"} -> Height(plan.operand)
          [] OTHER                                    -> 0

-----------------------------------------------------------------------------
(* PlanVisitor: the plan of a pattern after whose predecessors the names   *)
(* in bound are set in every match, with the names that are bound after it *)
(* and those that it may set or exclude values of.  The context cx is the  *)
(* whole pattern, nest_operands and, in done, set_by_operations.           *)

Planned(plan, bound, changed, done) ==
    [plan |-> plan, bound |-> bound, changed |-> changed, done |-> done]

PlanVertex(cx, e, bound) ==
    LET names == {e.ref} \ {Unnamed}
    IN  Planned([op |-> "vertex", test |-> e.test, ref |-> e.ref,
                 known |-> e.test \in Vertex \/ (names # {} /\ names \subseteq bound)],
                bound \cup names, names \ bound, cx.done)

RECURSIVE PlanExpression(_, _, _)

(* Each operand after the one before, which leaves its names bound. *)
PlanInTurn(cx, es, bound) ==
    FoldLeft(LAMBDA sofar, e :
               LET next == PlanExpression([cx EXCEPT !.done = sofar.done], e, sofar.bound)
               IN  Planned(Append(sofar.plan, next.plan), next.bound,
                           sofar.changed \cup next.changed, next.done),
             Planned(<<>>, bound, {}, cx.done), es)

(* Each operand from the same start. *)
PlanEach(cx, es, bound) ==
    FoldLeft(LAMBDA sofar, e :
               LET before == IF sofar = <<>> THEN cx.done ELSE Last(sofar).done
               IN  Append(sofar, PlanExpression([cx EXCEPT !.done = before], e, bound)),
             <<>>, es)

RECURSIVE Flattened(_)
Flattened(es) ==
    FoldLeft(LAMBDA flat, e : flat \o (IF e.op = "concat" THEN Flattened(e.operands) ELSE <<e>>),
             <<>>, es)

PlanOperators(cx, e, bound) ==
    LET operands == PlanEach(cx, Children(e), bound)
        plans    == [i \in DOMAIN operands |-> operands[i].plan]
        nesting  == [i \in DOMAIN operands |-> NestedOperand(cx, Children(e)[i], operands[i])]
        bounds   == {p.bound : p \in ToSet(operands)}
        changed  == UNION {p.changed : p \in ToSet(operands)}
        shared   == SharedRefs(cx.whole, e)
        done     == Last(operands).done
    IN  CASE e.op = "or" ->   \* bound is what each alternative leaves bound
                Planned(Operands("or", plans), {n \in UNION bounds : \A b \in bounds : n \in b},
                        changed, done)
          [] e.op = "and" ->
                Planned([op |-> "and", operands |-> nesting, sets |-> changed],
                        bound \cup UNION bounds, changed, done \cup changed)
          [] e.op \in {"all", "if", "skip"} ->   \* the operands of & are nested on their own
                Planned([op |-> e.op, sets |-> changed,
                         operand |-> IF e.op = "all" /\ e.operand.op # "and" THEN nesting[1] ELSE plans[1]],
                        UNION bounds, changed, done \cup changed)
          [] e.op = "unless" ->
                Planned([op |-> "unless", operand |-> plans[1], shared |-> shared,
                         sets |-> changed \cap shared],
                        bound, changed \cap shared, done \cup (changed \cap shared))
          [] e.op = "maybe" ->
                Planned(Operation("maybe", nesting[1]), bound, changed, done \cup changed)
          [] e.op = "repeat" ->
                Planned(Repetition(e.min, e.max, plans[1]),
                        IF e.min > 0 THEN UNION bounds ELSE bound, changed, done)

PlanExpression(cx, e, bound) ==
    CASE e.op = "vertex"            -> PlanVertex(cx, e, bound)
      [] e.op \in {"edge", "noop"} -> Planned(e, bound, {}, cx.done)
      [] e.op = "concat" ->
            LET all   == PlanInTurn(cx, Flattened(e.operands), bound)
                paths == Paths(<<>>, all.plan)
            IN  [all EXCEPT !.plan = IF Len(paths) = 1 THEN paths[1] ELSE Operands("concat", paths)]
      [] OTHER -> PlanOperators(cx, e, bound)

PlanNesting(nest, e) ==
    PlanExpression([whole |-> e, nest |-> nest, done |-> {}], e, {}).plan

(* The plan of Worker::handleMatch, and that of an observer. *)
PlanOf(e)         == PlanNesting(FALSE, e)
ObserverPlanOf(e) == PlanNesting(TRUE, e)
=============================================================================
