--------------------------- MODULE PatternMeaning ---------------------------
(***************************************************************************)
(* What patterns mean (docs/usage_patterns.md), without plans, regions and *)
(* dependencies: all names are given their vertices in advance, and a      *)
(* pattern then finds fragments [ends, vertices, edges] from a position.   *)
(* Expressions are those of Planner.                                       *)
(*                                                                         *)
(* (maybe: ) and (repeat: ) only have such a meaning if they set no names: *)
(* the matcher takes `nothing matched' for all values at once.             *)
(***************************************************************************)
EXTENDS Planner

CONSTANT Elsewhere   \* no vertex of the model

Empty(at) == [ends |-> {at}, vertices |-> {}, edges |-> {}]

After(head, tail) ==
    [tail EXCEPT !.vertices = @ \cup head.vertices, !.edges = @ \cup head.edges]

OfLabel(e, labels) == labels = Anything \/ e[2] \in labels

(* The edges of the graph that match an edge expression, with their ends.  *)
EdgeFragments(g, e, v) ==
    LET out == {f \in g.edges : f[1] = v /\ OfLabel(f, e.forward)}
        in  == {f \in g.edges : f[3] = v /\ OfLabel(f, e.backward)}
        to(edges, w) == [ends |-> {Core(w)}, vertices |-> {}, edges |-> edges]
    IN  CASE e.direction = "forward"  -> {to({f}, f[3]) : f \in out}
          [] e.direction = "backward" -> {to({f}, f[1]) : f \in in}
          [] e.direction = "any"      -> {to({f}, f[3]) : f \in out} \cup {to({f}, f[1]) : f \in in}
          [] e.direction \in {"both", "both symmetric"} ->
                {to({p[1], p[2]}, p[1][3]) :
                   p \in {q \in out \X in : /\ q[1][3] = q[2][1]
                                          /\ (e.direction = "both" \/ q[1][2] = q[2][2])}}

RECURSIVE Meaning(_, _, _, _, _)

(* What n repeats of an expression find, up to a number of them. *)
RECURSIVE Chains(_, _, _, _, _, _)
Chains(whole, e, g, names, chain, n) ==
    LET longer == {After(chain, f) :
                     f \in UNION {Meaning(whole, e.operand, g, names, end) : end \in chain.ends}}
    IN  IF n = e.max \/ longer = {}
          THEN {c \in {chain} : n >= e.min}
          ELSE UNION {Chains(whole, e, g, names, c, n + 1) : c \in longer}

Meaning(whole, e, g, names, at) ==
    LET v == at[2]
        of(operand) == Meaning(whole, operand, g, names, at)
        merged(fs) == [ends     |-> UNION {f.ends : f \in fs},
                       vertices |-> UNION {f.vertices : f \in fs},
                       edges    |-> UNION {f.edges : f \in fs}]
        elsewise == {q \in [DOMAIN names -> Vertex \cup {Elsewhere}] :
                        \A name \in DOMAIN names :
                           (name \in Names(e) => name \in SharedRefs(whole, e)) =>
                               q[name] = names[name]}
    IN  CASE e.op = "vertex" ->
                {f \in {[ends |-> {Orbit(v)}, vertices |-> {v}, edges |-> {}]} :
                    /\ at = Core(v) /\ v \in g.vertices
                    /\ e.test \in {Anything, v, TypeOf[v]}
                    /\ e.ref # Unnamed => names[e.ref] = v}
          [] e.op = "edge"   -> IF at = Orbit(v) THEN EdgeFragments(g, e, v) ELSE {}
          [] e.op = "noop"   -> {Empty(at)}
          [] e.op = "concat" ->
                FoldLeft(LAMBDA heads, operand :
                           UNION {{After(h, f) : f \in UNION {Meaning(whole, operand, g, names, end) :
                                                               end \in h.ends}} : h \in heads},
                         {Empty(at)}, e.operands)
          [] e.op = "or"     -> UNION {of(operand) : operand \in ToSet(e.operands)}
          [] e.op = "and"    ->
                IF \E operand \in ToSet(e.operands) : of(operand) = {}
                  THEN {} ELSE UNION {of(operand) : operand \in ToSet(e.operands)}
          [] e.op = "all"    -> {merged(fs) : fs \in {of(e.operand)} \ {{}}}
          [] e.op = "if"     -> {Empty(at) : f \in of(e.operand)}
          [] e.op = "unless" ->
                IF \A q \in elsewise : Meaning(whole, e.operand, g, q, at) = {} THEN {Empty(at)} ELSE {}
          [] e.op = "skip"   -> {[f EXCEPT !.vertices = {}, !.edges = {}] : f \in of(e.operand)}
          [] e.op = "maybe"  -> IF of(e.operand) = {} THEN {Empty(at)} ELSE of(e.operand)
          [] e.op = "repeat" -> Chains(whole, e, g, names, Empty(at), 0)
=============================================================================
