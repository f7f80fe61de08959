---------------------------- MODULE Expressions ----------------------------
(***************************************************************************)
(* Patterns as the parser leaves them (expression.h, parser.cpp).  A       *)
(* pattern is a record; op is "vertex", "edge", "noop", "concat", "or",    *)
(* "and", "all", "if", "unless", "skip", "maybe" or "repeat".              *)
(***************************************************************************)
EXTENDS Observables, Integers

CONSTANT Unnamed   \* the name of a vertex expression without `as'

(* A test says what it is of itself. *)
ASSUME TestAssumption ==
    /\ Anything \notin Vertex \cup TypeName
    /\ Vertex \cap TypeName = {}

(* test is a type, the value of a placeholder or Anything; labels are sets *)
(* of labels or Anything.                                                  *)
VertexExpr(test, ref) == [op |-> "vertex", test |-> test, ref |-> ref]
EdgeExpr(direction, forward, backward) ==
    [op |-> "edge", direction |-> direction, forward |-> forward, backward |-> backward]
Noop              == [op |-> "noop"]
Operands(op, es)  == [op |-> op, operands |-> es]
Operation(op, e)  == [op |-> op, operand |-> e]
Repetition(min, max, e) == [op |-> "repeat", min |-> min, max |-> max, operand |-> e]

Children(e) ==
    CASE e.op \in {"concat", "or", "and"}                               -> e.operands
      [] e.op \in {"all", "if", "unless", "skip", "maybe", "repeat"}    -> <<e.operand>>
      [] OTHER                                                          -> <<>>

-----------------------------------------------------------------------------
(* The operators of patterns, to write some down. *)

To(labels)    == EdgeExpr("forward", labels, labels)
From(labels)  == EdgeExpr("backward", labels, labels)
Edges(labels) == EdgeExpr("any", labels, labels)
Both(labels)  == EdgeExpr("both symmetric", labels, labels)
Some(test)    == VertexExpr(test, Unnamed)
In(es)        == Operands("concat", es)
And(es)       == Operands("and", es)
Or(es)        == Operands("or", es)
All(e)        == Operation("all", e)
If(e)         == Operation("if", e)
Unless(e)     == Operation("unless", e)
Skip(e)       == Operation("skip", e)
Maybe(e)      == Operation("maybe", e)
=============================================================================
