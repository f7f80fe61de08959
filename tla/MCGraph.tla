------------------------------ MODULE MCGraph ------------------------------
(* Graph on two vertices of different types and one label (so up to four   *)
(* edges, loops included), with logs long enough to take in three edges    *)
(* and give them back in one transaction.                                  *)
EXTENDS GraphSafety, TLC

CONSTANTS a, b, person, city, likes

MCVertex   == {a, b}
MCTypeName == {person, city}
MCTypeOf   == (a :> person) @@ (b :> city)
MCLabel    == {likes}
=============================================================================
