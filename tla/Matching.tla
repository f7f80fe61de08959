------------------------------ MODULE Matching ------------------------------
(***************************************************************************)
(* Matcher and StartPositionFinder (matcher.cpp, start_positions.cpp) for  *)
(* all patterns, whose operators combine what paths find (PathMatching).   *)
(***************************************************************************)
EXTENDS Planner, PathMatching

(* The registry has IDs for nested expressions, by the text of their plans *)
(* (register_nested); it leaves out nothing that matters for plans that    *)
(* are nested.                                                             *)
CONSTANTS ExpressionId(_), ExpressionOf(_)

Whole(c) == [c EXCEPT !.first = FALSE]

-----------------------------------------------------------------------------
(* Operators. *)

RECURSIVE Matches(_, _, _, _)

(* A nested expression is looked up by the part of the refs that it may    *)
(* mention (NestedExpressionRegistry::get); if it is not cached, it is     *)
(* matched, from an origin of its own (Matcher::match_nested).             *)
NestedStart(plan, at, refs) == <<ExpressionId(plan.plan), at, RestrictedTo(refs, plan.names)>>

MatchNested(c, start) ==
    Matches([c EXCEPT !.origin = start[2], !.first = FALSE], ExpressionOf(start[1]), start[2], start[3])

MatchNestedExpression(c, plan, at, refs) ==
    LET start == NestedStart(plan, at, refs)
        found == IF start \in DOMAIN c.cached THEN c.cached[start] ELSE MatchNested(c, start).found
    IN  Found(UNION {{[d EXCEPT !.refs = both] : both \in IntersectWith(refs, d.refs)} : d \in found},
              {NestedSubgraphs(start)})

Merge(drafts, refs) ==
    [ends     |-> UNION {d.ends : d \in drafts},
     vertices |-> UNION {d.vertices : d \in drafts},
     edges    |-> UNION {d.edges : d \in drafts},
     refs     |-> refs]

(* Where all operands match, given what each of them found: the cells of   *)
(* the arrangement of the drafts' refs (covers_all_operands).              *)
CommonCells(founds) ==
    {cell \in Arrange(SetToSeq({d.refs : d \in UNION ToSet(founds)})) :
        \A drafts \in ToSet(founds) : \E d \in drafts : d.refs \in cell.members}

InCell(cell, founds) == {d \in UNION ToSet(founds) : d.refs \in cell.members}

JoinIn(cells, founds) ==
    UNION {{[d EXCEPT !.refs = term] : term \in cell.terms, d \in InCell(cell, founds)} :
             cell \in cells}

MergeIn(cells, founds) ==
    UNION {{Merge(InCell(cell, founds), term) : term \in cell.terms} : cell \in cells}

(* match_concatenation_tail: each operand but the last one is matched in   *)
(* whole.                                                                  *)
MatchConcatenation(c, operands, at, refs) ==
    LET of(context, plan) ==
            [p \in Position |-> [r \in SUBSET Literal |-> Matches(context, plan, p, r)]]
        last == Len(operands)
    IN  Concatenation(c.first, [i \in 1..last |-> of(IF i = last THEN c ELSE Whole(c), operands[i])])
            [at][refs]

(* match_operands: what each operand found, as long as each finds anything. *)
MatchOperands(c, operands, at, refs) ==
    FoldLeft(LAMBDA sofar, plan :
               IF {} \in ToSet(sofar.founds)
                 THEN sofar
                 ELSE LET r == Matches(c, plan, at, refs)
                      IN  [founds |-> Append(sofar.founds, r.found), deps |-> sofar.deps \cup r.deps],
             [founds |-> <<>>, deps |-> {}], operands)

MatchAnd(c, plan, at, refs) ==
    LET results == MatchOperands(IF plan.sets = {} THEN c ELSE Whole(c), plan.operands, at, refs)
        founds  == results.founds
    IN  Found(CASE {} \in ToSet(founds)    -> {}
                [] {} \notin ToSet(founds) ->
                     IF plan.sets = {} THEN UNION ToSet(founds)
                                       ELSE JoinIn(CommonCells(founds), founds),
              results.deps)

(* MatchAll, and MatchAllAnd if the operand is an &: matches are merged    *)
(* wherever they overlap.                                                  *)
MatchAll(c, plan, at, refs) ==
    LET operand == Matches(c, plan.operand, at, refs)
        results == IF plan.operand.op = "and" /\ plan.sets # {}
                     THEN MatchOperands(Whole(c), plan.operand.operands, at, refs)
                     ELSE [founds |-> <<operand.found>>, deps |-> operand.deps]
        founds  == results.founds
    IN  Found(CASE {} \in ToSet(founds)    -> {}
                [] {} \notin ToSet(founds) ->
                     IF plan.sets = {} THEN {Merge(operand.found, refs)}
                                       ELSE MergeIn(CommonCells(founds), founds),
              results.deps)

(* The negation holds where the operand matches for no value of the names  *)
(* that are local to it; one that narrows no other name is refuted by one  *)
(* match.                                                                  *)
MatchUnless(c, plan, at, refs) ==
    LET operand == Matches([c EXCEPT !.first = (plan.sets = {})], plan.operand, at, refs)
        refuted == SetToSeq({RestrictedTo(d.refs, plan.shared) : d \in operand.found})
        terms   == IF plan.sets = {} /\ operand.found # {} THEN {}
                   ELSE SubtractAll({refs}, refuted)
    IN  Found({Draft(at, term) : term \in terms}, operand.deps)

(* The maximal chains of matches, of which some with n repeats are given.  *)
RECURSIVE MatchRepetition(_, _, _, _)
MatchRepetition(c, plan, chains, n) ==
    LET another(chain, end) ==
            With(chain.vertices, chain.edges, Matches(Whole(c), plan.operand, end, chain.refs))
        continued(chain) ==
            LET ends == SetToSeq(chain.ends)
            IN  IF n = plan.max THEN Nothing
                  ELSE InTurn(FALSE, [i \in DOMAIN ends |-> another(chain, ends[i])])
        level ==
            FoldLeft(LAMBDA sofar, chain :
                       IF c.first /\ sofar.ended # {} THEN sofar
                         ELSE LET r == continued(chain)
                              IN  [ended |-> sofar.ended \cup
                                       IF r.found = {} /\ n >= plan.min THEN {chain} ELSE {},
                                   longer |-> sofar.longer \cup r.found,
                                   deps   |-> sofar.deps \cup r.deps],
                     [ended |-> {}, longer |-> {}, deps |-> {}], SetToSeq(chains))
        rest == MatchRepetition(c, plan, level.longer, n + 1)
    IN  IF level.longer = {} \/ (c.first /\ level.ended # {})
          THEN Found(level.ended, level.deps)
          ELSE Found(level.ended \cup rest.found, level.deps \cup rest.deps)

(* MatchVisitor. *)
Matches(c, plan, at, refs) ==
    LET operand(context) == Matches(context, plan.operand, at, refs)
    IN  CASE plan.op \in {"vertex", "edge"} -> MatchPath(c, <<plan>>, at, refs)
          [] plan.op = "path"   -> MatchPath(c, plan.items, at, refs)
          [] plan.op = "noop"   -> Found({Draft(at, refs)}, {})
          [] plan.op = "concat" -> MatchConcatenation(c, plan.operands, at, refs)
          [] plan.op = "or"     ->
                InTurn(c.first, [i \in DOMAIN plan.operands |-> Matches(c, plan.operands[i], at, refs)])
          [] plan.op = "and"    -> MatchAnd(c, plan, at, refs)
          [] plan.op = "all"    -> MatchAll(c, plan, at, refs)
          [] plan.op = "if"     ->
                LET r == operand([c EXCEPT !.first = @ \/ plan.sets = {}])
                IN  Found({Draft(at, d.refs) : d \in r.found}, r.deps)
          [] plan.op = "unless" -> MatchUnless(c, plan, at, refs)
          [] plan.op = "skip"   ->
                LET r == operand(c)
                IN  Found({[d EXCEPT !.vertices = {}, !.edges = {}] : d \in r.found}, r.deps)
          [] plan.op = "maybe"  ->
                LET r == operand(c)
                IN  Found(IF r.found = {} THEN {Draft(at, refs)} ELSE r.found, r.deps)
          [] plan.op = "repeat" -> MatchRepetition(c, plan, {Draft(at, refs)}, 0)
          [] plan.op = "nested" -> MatchNestedExpression(c, plan, at, refs)

-----------------------------------------------------------------------------
(* The whole pattern. *)

(* Matcher::match from one position. *)
MatchFrom(plan, g, ids, cached, position) ==
    ExpandNegatives(g, Matches(Context(g, ids, cached, position), plan, position, {}))

(* As Worker::handleMatch has it, without a registry. *)
MatcherMatch(e, g, position) ==
    SubgraphsFrom(position, MatchFrom(PlanOf(e), g, Vertex, NothingCached, position).found)

(* FindStartPositionsVisitor: positions worth matching from are those from *)
(* which the first part of the pattern that is not a negation may match; a *)
(* pattern that has none is refused.                                       *)
RECURSIVE Beginnings(_)
Beginnings(e) ==
    CASE e.op \in {"vertex", "edge", "noop"} -> {e}
      [] e.op \in {"concat", "and"} ->
            LET proper == SelectSeq(e.operands, LAMBDA operand : operand.op # "unless")
            IN  Beginnings(Head(proper))
      [] e.op = "or" -> UNION {Beginnings(operand) : operand \in ToSet(e.operands)}
      [] e.op = "repeat" -> IF e.min = 0 THEN {Noop} ELSE Beginnings(e.operand)
      [] e.op \in {"all", "if", "skip", "maybe"} -> Beginnings(e.operand)

StartPositions(e, g, ids) == UNION {PositionsAt(b, g, ids) : b \in Beginnings(e)}
StartPositionDeps(e, ids) == UNION {PositionDepsAt(b, ids) : b \in Beginnings(e)}

(* Worker::handleMatch. *)
Matched(e, g, ids) == UNION {MatcherMatch(e, g, sp) : sp \in StartPositions(e, g, ids)}
=============================================================================
