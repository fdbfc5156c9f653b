----------------------------- MODULE MCTimeSync -----------------------------
(* A clock of twelve counts to the second that may be one off, which is a   *)
(* far worse one than the code will meet, and an edge missed now and then.  *)
EXTENDS TimeSync
=============================================================================
