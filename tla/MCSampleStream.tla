--------------------------- MODULE MCSampleStream ---------------------------
(* One node, box number 1, that gets slot 1.                               *)
EXTENDS SampleStream

CONSTANT n1

MCNode       == {n1}
MCHwAddr    == [n \in MCNode |-> 1]
MCSensorSets == {{"ADXL355"}}
=============================================================================
