----------------------------- MODULE MCNicNode -----------------------------
(* One node in an arbitrary environment: any control frame at any receive, *)
(* the clock coming and going, DRDY and slots at any point, power cycles.  *)
EXTENDS NicNode

CONSTANT n1

MCNode       == {n1}
MCHwAddr     == [n \in MCNode |-> 1]
MCAddr       == 1..2
MCSlot       == {2}
\* Boards that lose or regain the seismic sensors between two detections.
MCSensorSets == {{"ADXL355", "ICM42688", "SCL3300"}, {"SCL3300"}}
\* A fully populated board, for the runs in which the sensors do not matter.
MCFullBoard  == {{"ADXL355", "ICM42688", "SCL3300"}}
\* What a master sends a node once the network runs, HARD_RESET left out.
MCRunOps     == {"SYNC", "TICK", "TOKEN", "RESEND_DATA", "CALIBRATE", "VERSION"}
MCResetOps   == MCRunOps \cup {"HARD_RESET", "ASSIGN_ADDR"}
=============================================================================
