----------------------------- MODULE MCMatching -----------------------------
(* Two people and a city with up to six edges, and patterns that use      *)
(* every operator, names that occur twice, and bound and local names;      *)
(* rome is the value of a placeholder.                                     *)
EXTENDS MatchingSafety

CONSTANTS ann, bob, rome, person, city, likes, lives, x, y

MCVertex   == {ann, bob, rome}
MCTypeName == {person, city}
MCTypeOf   == (ann :> person) @@ (bob :> person) @@ (rome :> city)
MCEdge     == {<<ann, likes, bob>>, <<bob, likes, ann>>, <<ann, likes, ann>>,
               <<ann, lives, rome>>, <<bob, lives, rome>>, <<bob, lives, ann>>}


X == VertexExpr(person, x)
Y == VertexExpr(person, y)

MCPatterns == {
    (* person as x -likes> person as y -likes> person as x *)
    In(<<X, To({likes}), Y, To({likes}), X>>),
    (* person as x (<likes> person as y | -*- rome) *)
    In(<<X, Or(<<In(<<Both({likes}), Y>>), In(<<Edges(Anything), Some(rome)>>)>>)>>),
    (* person as x (all: -likes> person as y) (unless: -lives> city) *)
    In(<<X, All(In(<<To({likes}), Y>>)), Unless(In(<<To({lives}), Some(city)>>))>>),
    (* (all: -likes> person as y & -lives> city) *)
    All(And(<<In(<<To({likes}), Y>>), In(<<To({lives}), Some(city)>>)>>)),
    (* person as x ((unless: -likes> person as y) & -*> * as y) *)
    In(<<X, And(<<Unless(In(<<To({likes}), Y>>)), In(<<To(Anything), VertexExpr(Anything, y)>>)>>)>>),
    (* (unless: person -likes> person as y) & person as x, with y local *)
    And(<<Unless(In(<<Some(person), To({likes}), Y>>)), X>>),
    (* city (unless: (unless: <lives- person as x)) ((maybe: <lives- person) & .) *)
    In(<<Some(city), Unless(Unless(In(<<From({lives}), X>>))), And(<<Maybe(In(<<From({lives}), Some(person)>>)), Noop>>)>>),
    (* person as x (repeat 1-2x: -likes> person) (if: -lives> rome) *)
    In(<<X, Repetition(1, 2, In(<<To({likes}), Some(person)>>)), If(In(<<To({lives}), Some(rome)>>))>>),
    (* <likes|lives&likes> * *)
    In(<<EdgeExpr("both", {likes}, {likes, lives}), Some(Anything)>>),
    (* person as x (skip: -likes> person) (if: <likes- person as x) *)
    In(<<X, Skip(In(<<To({likes}), Some(person)>>)), If(In(<<From({likes}), X>>))>>),
    (* person as x & (unless: person -likes> person as y) & (unless: person <lives- * as y) *)
    And(<<X, Unless(In(<<Some(person), To({likes}), Y>>)),
          Unless(In(<<Some(person), From({lives}), VertexExpr(Anything, y)>>))>>),
    (* person as x (all: (-likes> person as y | <lives- * as y) & (-likes> person | -lives> * as y)) *)
    In(<<X, All(
               And(<<Or(<<In(<<To({likes}), Y>>), In(<<From({lives}), VertexExpr(Anything, y)>>)>>),
                      Or(<<In(<<To({likes}), Some(person)>>), In(<<To({lives}), VertexExpr(Anything, y)>>)>>)>>))>>)
    }

(* No plans are nested here. *)
MCExpressionId(plan) == plan
MCExpressionOf(id)   == id
=============================================================================
