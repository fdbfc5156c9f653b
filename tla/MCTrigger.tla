----------------------------- MODULE MCTrigger -----------------------------
(* Bytes of two bits: a count of 4 is the 1 g of a still sensor and 7 is   *)
(* full scale, about what 16000 and 32767 are to each other in the code.   *)
EXTENDS Trigger

\* Nearly free fall, at rest, a shake, and full scale on all axes.
MCMotion == {<<0, 0, 3>>, <<0, 0, 9>>, <<-9, 5, 8>>, <<20, -20, 15>>}

\* A cold enclosure and counters of two bytes.
MCOthers == [master |-> 1, unix_s |-> 1700000000, volt_dv |-> 120, temp_c |-> -5,
             events |-> 4242, alive |-> 165, status |-> 66, peak |-> 0]
\* Added to the first byte alone, to the second alone, and to both, with a wrap.
MCBurst == {<<1, 0>>, <<1, 128>>, <<0, 255>>, <<16, 33>>, <<255, 255>>}
=============================================================================
