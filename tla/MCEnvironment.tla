--------------------------- MODULE MCEnvironment ---------------------------
(* Two vertices and two observers: one follows both vertices, the other    *)
(* one only handles the arrival of one of them, so that some changes have  *)
(* several observers, some several observations and some none at all.      *)
EXTENDS EnvironmentSafety, TLC

CONSTANTS ann, bob, everyone, arrivals

MCVertex   == {ann, bob}
MCObserver == {everyone, arrivals}
MCWatches  == (everyone :> {ann, bob}) @@ (arrivals :> {bob})
MCHandles  == {<<everyone, TRUE>>, <<everyone, FALSE>>, <<arrivals, TRUE>>}
=============================================================================
