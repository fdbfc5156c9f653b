---------------------------- MODULE NodeService ----------------------------
(***************************************************************************)
(* What the nodes promise the rest of the bus, with the run loop, the      *)
(* clock pins and the buffers hidden: the life each of them leads and the  *)
(* address it leads it under (SOFTWARE.md "Start Sequence", DESIGN.md      *)
(* D23).  NicNode implements this specification.                           *)
(***************************************************************************)
CONSTANTS Node,    \* the boxes
          HwAddr,  \* the number on each box
          Addr     \* the addresses a master may assign

VARIABLES mode,  \* "down", "starting", "listening", "streaming", "recovering"
          addr   \* the address a node answers to

vars == <<mode, addr>>

Mode == {"down", "starting", "listening", "streaming", "recovering"}
TypeOK == mode \in [Node -> Mode] /\ addr \in [Node -> Addr]

Init == mode = [n \in Node |-> "down"] /\ addr = HwAddr

Goes(n, from, to) == mode[n] = from /\ mode' = [mode EXCEPT ![n] = to]

\* A node comes up, and starts to listen, under its own number and no other.
Identify(n)  == Goes(n, "down", "starting") /\ addr' = [addr EXCEPT ![n] = HwAddr[n]]
Announce(n)  == /\ Goes(n, "starting", "listening")
                /\ addr[n] = HwAddr[n]
                /\ UNCHANGED addr
\* Slots are handed out to nodes that can hear.
TakeSlot(n)  == /\ mode[n] \in {"listening", "streaming"}
                /\ \E a \in Addr : addr' = [addr EXCEPT ![n] = a]
                /\ UNCHANGED mode
\* Streaming starts from listening, never straight from a boot or a fault.
Stream(n)    == Goes(n, "listening", "streaming") /\ UNCHANGED addr
\* Only a node that streams gives up on the clock; it keeps its slot.
LoseClock(n) == Goes(n, "streaming", "recovering") /\ UNCHANGED addr
Recovered(n) == Goes(n, "recovering", "listening") /\ UNCHANGED addr
\* A hard reset reaches nodes that can hear, a power cut reaches them all.
Reset(n)     == /\ \/ Goes(n, "listening", "down")
                   \/ Goes(n, "streaming", "down")
                /\ UNCHANGED addr
PowerCut(n)  == /\ mode' = [mode EXCEPT ![n] = "down"]
                /\ addr' = [addr EXCEPT ![n] = HwAddr[n]]

Next == \E n \in Node : \/ Identify(n) \/ Announce(n) \/ TakeSlot(n) \/ Stream(n)
                        \/ LoseClock(n) \/ Recovered(n) \/ Reset(n) \/ PowerCut(n)

Spec == Init /\ [][Next]_vars
=============================================================================
