------------------------------ MODULE Trigger ------------------------------
(***************************************************************************)
(* The seismic trigger from end to end: the ground moves the primary node, *)
(* the node packs what its accelerometer reads, the master takes the       *)
(* magnitude of the payload and pushes it into its detector, and the peak  *)
(* of an event goes on the air in a telemetry frame.                       *)
(***************************************************************************)
EXTENDS NqDetect, NodePack, NicLora

CONSTANTS
  Motion,  \* what the sensor may read: triples of counts, gravity included
  Drop,    \* the low bits the node drops of its precise field
  Cap,     \* room for a payload
  Others,  \* the rest of a telemetry frame: its supply, temperature, counts
  Burst    \* what noise may add to two bytes in a row

ASSUME TriggerAssumption ==
  /\ Motion \subseteq [1..3 -> Int] /\ Drop \in 0..31 /\ Cap \in Nat /\ Cap >= 6
  /\ Others \in Status /\ Burst \subseteq ((0..255) \X (0..255)) \ {<<0, 0>>}

VARIABLE ground  \* the motion of the last sample

tvars == <<dvars, ground>>

\* No seismic sensor answers, and the payload is a status byte alone.
Absent == <<>>

Payload(m) == Append(IF m = Absent THEN <<>> ELSE Pack(<<Field(m, Drop, 2)>>, Cap), 0)

\* What the master reads of a motion.
Reads == [m \in Motion \cup {Absent} |-> SeismicMag(Payload(m))]

\* The telemetry of an event, and what a receiver makes of it when noise hits
\* the frame at byte p.
Telemetry(peak) == [Others EXCEPT !.peak = Smaller(peak, 65535)]
Added(v, w)  == (v + w) % 256
Hit(f, p, b) == [i \in 1..LoraLen |-> IF i = p THEN Added(f[i], b[1])
                                      ELSE IF i = p + 1 THEN Added(f[i], b[2]) ELSE f[i]]
Received(f)  == [clean |-> LoraUnpack(f),
                 noisy |-> {LoraUnpack(Hit(f, p, b)) : p \in 1..(LoraLen - 1), b \in Burst}]
OnAir == [peak \in {Reads[m] : m \in DOMAIN Reads} |-> Received(LoraPack(Telemetry(peak)))]

Init == DetectInit /\ ground = Absent

\* A sample of the primary node is taken, sent, ingested and pushed.
Sample == \E m \in Motion \cup {Absent} : ground' = m /\ Push(Reads[m])

Next == Sample
\* The primary node streams: a sample of it comes in again and again.
Spec == Init /\ [][Next]_tvars /\ WF_tvars(Next)
----------------------------------------------------------------------------
(* The number the trigger runs on is the motion the sensor read: on every   *)
(* axis the magnitude with the low bits dropped, or full scale beyond it,   *)
(* whatever the signs (nic_node_pack, then seismic_mag).                    *)
Steps(v)   == CHOOSE k \in 0..Abs(v) : k * 2 ^ Drop <= Abs(v) /\ Abs(v) < (k + 1) * 2 ^ Drop
Reading(v) == Smaller(Steps(v), IF v < 0 THEN -Bottom(2) ELSE Top(2))
MagnitudeIsMotion ==
  ground # Absent => mag = Reading(ground[1]) + Reading(ground[2]) + Reading(ground[3])

(* The telemetry of an event is read as it was meant or not at all: every   *)
(* value survives the frame, and no burst of noise within two bytes makes   *)
(* it another (nic_lora_pack, nic_lora_unpack, nic_crc16_ccitt).            *)
ReadOrRefused ==
  ev.occurred => /\ OnAir[ev.peak].clean = Telemetry(ev.peak)
                 /\ OnAir[ev.peak].noisy \subseteq {Unreadable}
=============================================================================
