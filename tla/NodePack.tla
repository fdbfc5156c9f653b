------------------------------ MODULE NodePack ------------------------------
(***************************************************************************)
(* How a sample becomes bytes on the node (nic_node_pack) and becomes      *)
(* numbers again on the master (seismic_mag): the low bits of a field are  *)
(* dropped toward zero, the rest saturates to the width of the field and   *)
(* goes out most significant byte first, in two's complement.  A byte has  *)
(* ByteBits bits, eight in the code, so that a small instance meets both   *)
(* ends of the range.                                                      *)
(***************************************************************************)
EXTENDS Integers, Sequences, SequencesExt

CONSTANT ByteBits

ASSUME ByteAssumption == ByteBits \in 1..8

\* A field: three axes, the low bits to drop, the bytes an axis takes.
Field(axes, drop, width) == [axis |-> axes, drop_bits |-> drop, bytes_per_axis |-> width]

Abs(v) == IF v < 0 THEN -v ELSE v

\* C division: toward zero.
Quotient(v, d) == IF v < 0 THEN -((-v) \div d) ELSE v \div d

\* The ends of the signed range of w bytes.
Top(w)    == 2 ^ (ByteBits * w - 1) - 1
Bottom(w) == -Top(w) - 1
Saturate(v, w) == IF v > Top(w) THEN Top(w) ELSE IF v < Bottom(w) THEN Bottom(w) ELSE v

\* Two's complement, most significant byte first.
BigEndian(v, w) == [b \in 1..w |-> (v \div 2 ^ (ByteBits * (w - b))) % 2 ^ ByteBits]

PackField(f) ==
  FlattenSeq([i \in 1..3 |->
    BigEndian(Saturate(Quotient(f.axis[i], 2 ^ f.drop_bits), f.bytes_per_axis), f.bytes_per_axis)])

Acceptable(f) == f.bytes_per_axis \in 1..4 /\ f.drop_bits <= 31
Need(fields)  == FoldFunction(LAMBDA f, n : n + 3 * f.bytes_per_axis, 0, fields)

\* The bytes of all fields; Refused: a field it cannot take, or no room.
Refused == "refused"
Pack(fields, cap) ==
  IF (\A i \in DOMAIN fields : Acceptable(fields[i])) /\ Need(fields) <= cap
  THEN FlattenSeq([i \in DOMAIN fields |-> PackField(fields[i])])
  ELSE Refused

\* A bug: the cast to a signed type is forgotten.
BugInt16(p, i) == p[i] * 2 ^ ByteBits + p[i + 1]

\* (int16_t)((p[i] << 8) | p[i + 1])
Int16(p, i) == LET u == p[i] * 2 ^ ByteBits + p[i + 1]
               IN  IF u > Top(2) THEN u - 2 ^ (2 * ByteBits) ELSE u

\* |x| + |y| + |z| of the first three numbers of a payload; stillness when it
\* is too short to hold them.
SeismicMag(p) == IF Len(p) < 6 THEN 0
                 ELSE Abs(Int16(p, 1)) + Abs(Int16(p, 3)) + Abs(Int16(p, 5))
=============================================================================
