---------------------------- MODULE MCMasterApp ----------------------------
(* The master against any bus: any frame, from any station, at any time.   *)
EXTENDS MasterApp

\* Three stations may answer a master that has room for two.
MCStation == 1..3
MCOne     == {1}
=============================================================================
