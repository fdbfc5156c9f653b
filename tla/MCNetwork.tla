----------------------------- MODULE MCNetwork -----------------------------
(* Two nodes whose numbers, 2 and 3, are not the slots they will get, or    *)
(* one of them.                                                            *)
EXTENDS Network, TLC

CONSTANTS n1, n2

MCNode       == {n1, n2}
MCHwAddr     == n1 :> 2 @@ n2 :> 3
MCSensorSets == {{"ADXL355"}}
=============================================================================
