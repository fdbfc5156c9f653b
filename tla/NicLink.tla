------------------------------ MODULE NicLink ------------------------------
(***************************************************************************)
(* The two frames of nic-link, which both ends share: DATA from a node,    *)
(* CONTROL either way.  Bytes are abstracted to the fields they encode,    *)
(* the sample payload to its number of bytes, and the CRC-16 to whether    *)
(* the frame is still what its sender encoded.                             *)
(***************************************************************************)
EXTENDS Naturals

Broadcast == 255                                  \* NIC_LINK_BROADCAST

CtrlFrame(a, op, v)    == [kind |-> "ctrl", station |-> a, op |-> op, val |-> v]
DataFrame(a, i, bytes) == [kind |-> "data", station |-> a, index |-> i,
                           len |-> bytes, intact |-> TRUE]

\* A DATA frame that noise has hit; it may now claim to come from another station.
Damaged(f, a) == [f EXCEPT !.station = a, !.intact = FALSE]

\* Anything nic_link_ctrl_decode refuses and no station can be blamed for.
Undecodable == [kind |-> "noise"]

\* nic_link_data_decode against the length the receiver expects: a short frame
\* is a FORMAT error; in a longer one the CRC is looked for at the wrong place.
DataDecode(f, payloadLen) ==
  IF f.len < payloadLen THEN "FORMAT"
  ELSE IF f.intact /\ f.len = payloadLen THEN "OK" ELSE "CRC"
=============================================================================
