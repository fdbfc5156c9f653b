------------------------------ MODULE NicLora ------------------------------
(***************************************************************************)
(* The master's telemetry frame, nic_lora.c: sixteen bytes of values with  *)
(* a magic byte in front and the CRC-16/CCITT of nic_crc.h behind, which   *)
(* whoever hears it on the air checks and reads.  The register of the      *)
(* checksum is the set of its bits that are one: all that is done to it is *)
(* to shift it and to exclusive-or bits into it.                           *)
(***************************************************************************)
EXTENDS Integers, Sequences

Magic   == 76
LoraLen == 16

CONSTANT Unreadable  \* what is read of a bad frame: -1 in the code

\* What w bytes hold, and nic_lora_status_t.
Unsigned(w) == {v \in Nat : v \div 256 ^ (w - 1) \in 0..255}
Status == [master : Unsigned(1), unix_s : Unsigned(4), volt_dv : Unsigned(1), temp_c : -128..127,
           events : Unsigned(2), alive : Unsigned(1), status : Unsigned(1), peak : Unsigned(2)]

\* (uint8_t)(v >> 8 * k), and bit i of a byte.
Octet(v, k) == (v \div 256 ^ k) % 256
Bit(v, i)   == (v \div 2 ^ i) % 2 = 1

\* The bits of 0x1021.
Poly == {0, 5, 12}

\* crc ^= b << 8, and one bit of the division by the polynomial.
Fed(crc, b)  == {i \in 0..15 : (i \in crc) # (i >= 8 /\ Bit(b, i - 8))}
Shifted(crc) == {i \in 0..15 : (i - 1 \in crc) # (15 \in crc /\ i \in Poly)}

\* What k rounds make of a register.
Rounds[k \in 0..8] ==
  [crc \in SUBSET (0..15) |-> IF k = 0 THEN crc ELSE Rounds[k - 1][Shifted(crc)]]

Eaten(crc, b) == Rounds[8][Fed(crc, b)]
Crc16(bytes)  == LET crc[n \in 0..Len(bytes)] ==
                       IF n = 0 THEN 0..15 ELSE Eaten(crc[n - 1], bytes[n])
                 IN  crc[Len(bytes)]

\* (uint8_t)(crc >> 8 * k)
CrcOctet(crc, k) == CHOOSE v \in 0..255 : \A i \in 0..7 : Bit(v, i) = (8 * k + i \in crc)

Values(s) ==
  << Magic, s.master,
     Octet(s.unix_s, 3), Octet(s.unix_s, 2), Octet(s.unix_s, 1), Octet(s.unix_s, 0),
     s.volt_dv, s.temp_c % 256, Octet(s.events, 1), Octet(s.events, 0),
     s.alive, s.status, Octet(s.peak, 1), Octet(s.peak, 0) >>

\* A bug: the checksum leaves the last byte of the values out.
BugCovered(f) == SubSeq(f, 1, 13)

\* What the checksum covers.
Covered(f) == SubSeq(f, 1, 14)

LoraPack(s) == LET crc == Crc16(Covered(Values(s)))
               IN  Values(s) \o <<CrcOctet(crc, 1), CrcOctet(crc, 0)>>

\* The checksum a frame came with.
Want(f) == {i \in 0..15 : IF i < 8 THEN Bit(f[16], i) ELSE Bit(f[15], i - 8)}

LoraUnpack(f) ==
  IF Len(f) < LoraLen \/ f[1] # Magic \/ Crc16(Covered(f)) # Want(f)
  THEN Unreadable
  ELSE [master  |-> f[2],
        unix_s  |-> ((f[3] * 256 + f[4]) * 256 + f[5]) * 256 + f[6],
        volt_dv |-> f[7],
        temp_c  |-> IF f[8] > 127 THEN f[8] - 256 ELSE f[8],
        events  |-> f[9] * 256 + f[10],
        alive   |-> f[11],
        status  |-> f[12],
        peak    |-> f[13] * 256 + f[14]]
=============================================================================
