---------------------------- MODULE PacketChannel ----------------------------
(***************************************************************************)
(* What a path that fragments packets promises to those who use it: it may *)
(* lose packets and deliver them in another order, but what it delivers    *)
(* was sent, in one piece and unchanged, and is delivered once.            *)
(***************************************************************************)
EXTENDS Naturals

CONSTANT Packet

VARIABLES
  sent,          \* packets that were handed to the channel
  delivered      \* how often each packet was delivered; other packets count as well

chVars == <<sent, delivered>>

ChInit == sent = {} /\ delivered = [p \in Packet |-> 0]

Send(p) == p \notin sent /\ sent' = sent \cup {p} /\ UNCHANGED delivered

Deliver(p) ==
  /\ p \in sent /\ delivered[p] = 0
  /\ delivered' = [delivered EXCEPT ![p] = 1]
  /\ UNCHANGED sent

ChNext == \E p \in Packet : Send(p) \/ Deliver(p)
ChSpec == ChInit /\ [][ChNext]_chVars
=============================================================================
