--------------------------- MODULE MCAcquisition ---------------------------
(* A fully fitted node, two values for each setting.                       *)
EXTENDS Acquisition

MCFitted == Sensors
=============================================================================
