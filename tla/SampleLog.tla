----------------------------- MODULE SampleLog -----------------------------
(***************************************************************************)
(* What a node's stream promises the archive, whatever the bus does: every *)
(* record is a sample under the index it was given when it was taken, and  *)
(* the samples come in the order they were taken.  Some may be missing,    *)
(* some may come more than once, none is invented, none overtakes another. *)
(***************************************************************************)
EXTENDS Naturals, Sequences

CONSTANT IndexMod    \* 2^16: the width of a sample index

VARIABLES
  produced,   \* the indices of the samples the node has taken, in order
  log         \* the samples the master has stored, and the index it did so under

Init == produced = <<>> /\ log = <<>>

\* A sample counts on from the one before or, after a TICK, from 0.
NextIndex == IF produced = <<>> THEN 0 ELSE (produced[Len(produced)] + 1) % IndexMod
Take == /\ \E i \in {0, NextIndex} : produced' = Append(produced, i)
        /\ UNCHANGED log

Newest == IF log = <<>> THEN 1 ELSE log[Len(log)].sample

\* board_master_store.
Store == /\ \E s \in Newest..Len(produced) :
              log' = Append(log, [sample |-> s, index |-> produced[s]])
         /\ UNCHANGED produced

Spec == Init /\ [][Take \/ Store]_<<produced, log>>
=============================================================================
