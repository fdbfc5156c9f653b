---------------------------- MODULE MCNicMaster ----------------------------
(* Three stations for a table of two, so that it fills up.                 *)
EXTENDS NicMaster

MCStation == 1..3
=============================================================================
