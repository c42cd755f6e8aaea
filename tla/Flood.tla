-------------------------------- MODULE Flood ---------------------------------
(***************************************************************************)
(* Broadcasts of two backbone gateways at a node of the mesh: frames of    *)
(* their LAN that both bridge into the mesh, as broadcasts with a sequence *)
(* number of each gateway or, where there is one recipient only, as        *)
(* unicasts, and that arrive by several paths in any order.  The node      *)
(* hands every frame to its mesh interface and floods it once.             *)
(*                                                                         *)
(* A copy is overtaken by fewer broadcasts than the window has, and does   *)
(* not take as long as the protection after a restart lasts.  Frames       *)
(* differ in their CRC.                                                    *)
(***************************************************************************)
EXTENDS Integers, Sequences, SequencesExt, FiniteSets

CONSTANTS
  FlOrig, FlFrame,
  FL_SEQS,              \* sequence numbers (2^32)
  FL_WINDOW_SIZE, FL_MAX_AGE, FL_SEQNO_RANGE, DUPLIST_SIZE,
  FlScenarios           \* frames, next sequence numbers; bounds: restarts,
                        \* full queues, timeouts of the list of duplicates, unicasts

FlScenario == [seqno : [FlOrig -> 0..(FL_SEQS - 1)], frames : SUBSET FlFrame, paths : (SUBSET Nat) \ {{}},
               restarts : Nat, busy : Nat, timeouts : Nat, unicasts : Nat,
               timely : BOOLEAN, complete : BOOLEAN]

ASSUME FlAssumption ==
  /\ {FL_SEQS, FL_WINDOW_SIZE, FL_MAX_AGE, FL_SEQNO_RANGE, DUPLIST_SIZE} \subseteq Nat \ {0}
  /\ FL_SEQS % 2 = 0 /\ FL_MAX_AGE <= FL_WINDOW_SIZE /\ 2 * (FL_WINDOW_SIZE + 1) <= FL_SEQS \div 2
  /\ FL_WINDOW_SIZE < FL_SEQNO_RANGE /\ FL_SEQNO_RANGE < FL_SEQS \div 2
  /\ "none" \notin FlOrig
  /\ FlScenarios \subseteq FlScenario

VARIABLES
  bcast_seqno,          \* of a gateway: the next sequence number
  bridged,              \* frames that a gateway has bridged
  copies,               \* copies on their way
  orig_node,            \* what the node knows of a gateway: struct batadv_orig_node
  bcast_duplist,        \* the ring of frames seen, the last first
  handed,               \* how often a frame of a gateway was handed over and flooded
  fl_left

flVars == <<bcast_seqno, bridged, copies, orig_node, bcast_duplist, handed, fl_left>>

FlUse(what) == fl_left[what] > 0 /\ fl_left' = [fl_left EXCEPT ![what] = @ - 1]
\* A difference of sequence numbers (s32).
SeqDifference(x, y) == ((x - y + FL_SEQS + FL_SEQS \div 2) % FL_SEQS) - (FL_SEQS \div 2)

FlInit ==
  /\ fl_left \in FlScenarios
  /\ bcast_seqno = fl_left.seqno /\ bridged = [o \in FlOrig |-> {}] /\ copies = {}
  /\ orig_node = [o \in FlOrig |-> [last |-> 0, bits |-> {}, protected |-> FALSE]]
  /\ bcast_duplist = <<>> /\ handed = [o \in FlOrig |-> [f \in FlFrame |-> 0]]

-----------------------------------------------------------------------------
(* The gateways. *)

FarOff(d) == d <= -FL_MAX_AGE \/ d >= FL_SEQNO_RANGE

\* A copy on its way is overtaken by less than a window, or has a number of before a restart.
KeepsUp(d) == d \in 1..(FL_WINDOW_SIZE - 1) \/ (FarOff(d) /\ FarOff(-d))

Copies(o, kind, s, f) == {[orig |-> o, kind |-> kind, seqno |-> s, crc |-> f, path |-> p] : p \in fl_left.paths}

\* A gateway bridges a frame of the LAN, as a broadcast ...
SendBroadcast(o, f) ==
  /\ f \in fl_left.frames \ bridged[o]
  /\ \A c \in copies : c.orig = o /\ c.kind = "BCAST" => KeepsUp(SeqDifference(bcast_seqno[o], c.seqno))
  /\ copies' = copies \cup Copies(o, "BCAST", bcast_seqno[o], f)
  /\ bcast_seqno' = [bcast_seqno EXCEPT ![o] = (@ + 1) % FL_SEQS]
  /\ bridged' = [bridged EXCEPT ![o] = @ \cup {f}]
  /\ UNCHANGED <<orig_node, bcast_duplist, handed, fl_left>>
\* ... or in a unicast packet to the only node that wants it.
SendUnicast(o, f) ==
  /\ f \in fl_left.frames \ bridged[o] /\ FlUse("unicasts")
  /\ copies' = copies \cup {CHOOSE c \in Copies(o, "UNICAST", 0, f) : TRUE}
  /\ bridged' = [bridged EXCEPT ![o] = @ \cup {f}]
  /\ UNCHANGED <<bcast_seqno, orig_node, bcast_duplist, handed>>
\* A gateway restarts: its sequence numbers begin again.
RestartGateway(o) ==
  /\ FlUse("restarts")
  /\ bcast_seqno' = [bcast_seqno EXCEPT ![o] = 2]
  /\ UNCHANGED <<bridged, copies, orig_node, bcast_duplist, handed>>

-----------------------------------------------------------------------------
(* The window of the sequence numbers of a gateway. *)

batadv_test_bit(b, s) == SeqDifference(b.last, s) \in b.bits

batadv_window_protected(b, d) == FarOff(d) /\ b.protected

\* Mutant: the window is shifted by one too many.
Shifted_Far(bits, d) == {i + d + 1 : i \in bits}

Shifted(bits, d) == {i + d : i \in bits}

\* The packet is marked: in the window, in a window that moves, or in a new one.
batadv_bit_get_packet(b, d, s) ==
  IF d <= 0 /\ d > -FL_WINDOW_SIZE THEN [b EXCEPT !.bits = @ \cup {-d}]
  ELSE IF d > 0 /\ d < FL_WINDOW_SIZE
  THEN [b EXCEPT !.last = s, !.bits = {0} \cup {i \in Shifted(@, d) : i < FL_WINDOW_SIZE}]
  ELSE [b EXCEPT !.last = s, !.bits = {0}]

\* Packets far off the window start the protection, which refuses others for a while; it
\* lasts longer than copies take.
ProtectionEnds(o) ==
  /\ orig_node[o].protected /\ \A c \in copies : c.orig # o
  /\ orig_node' = [orig_node EXCEPT ![o].protected = FALSE]
  /\ UNCHANGED <<bcast_seqno, bridged, copies, bcast_duplist, handed, fl_left>>

-----------------------------------------------------------------------------
(* Frames that another gateway has sent. *)

\* Mutant: frames of unknown originators never match.
SameFrame_Known(e, crc, orig) == e.crc = crc /\ e.orig # orig /\ orig # "none" /\ e.orig # "none"

\* Equal frames of one originator are not duplicates, where both are known.
SameFrame(e, crc, orig) == e.crc = crc /\ (orig = "none" \/ e.orig = "none" \/ e.orig # orig)

\* Whether the frame is in the list; else the list takes it instead of the oldest.
batadv_bla_check_duplist(crc, orig) ==
  IF \E i \in DOMAIN bcast_duplist : SameFrame(bcast_duplist[i], crc, orig)
  THEN [found |-> TRUE, list |-> bcast_duplist]
  ELSE [found |-> FALSE,
        list |-> LET l == <<[crc |-> crc, orig |-> orig]>> \o bcast_duplist
                 IN SubSeq(l, 1, IF Len(l) > DUPLIST_SIZE THEN DUPLIST_SIZE ELSE Len(l))]

\* The oldest entry times out.
DuplistTimeout ==
  /\ bcast_duplist # <<>> /\ FlUse("timeouts")
  /\ bcast_duplist' = Front(bcast_duplist)
  /\ UNCHANGED <<bcast_seqno, bridged, copies, orig_node, handed>>

-----------------------------------------------------------------------------
(* Copies arrive. *)

HandOver(c, orig) ==
  LET check == batadv_bla_check_duplist(c.crc, orig) IN
  /\ bcast_duplist' = check.list
  /\ \/ /\ handed' = IF check.found THEN handed ELSE [handed EXCEPT ![c.orig][c.crc] = @ + 1]
        /\ fl_left' = fl_left
     \/ /\ ~check.found /\ c.kind = "BCAST" /\ FlUse("busy")    \* no room in the send queue
        /\ handed' = handed

batadv_recv_bcast_packet(c) ==
  LET b == orig_node[c.orig]
      d == SeqDifference(c.seqno, b.last)
      drop == batadv_test_bit(b, c.seqno) \/ batadv_window_protected(b, d) IN
  /\ c.kind = "BCAST"
  /\ copies' = copies \ {c}
  /\ IF drop THEN UNCHANGED <<orig_node, bcast_duplist, handed, fl_left>>
     ELSE /\ orig_node' = [orig_node EXCEPT ![c.orig] =
               [batadv_bit_get_packet(b, d, c.seqno) EXCEPT !.protected = @ \/ FarOff(d)]]
          /\ HandOver(c, c.orig)
  /\ UNCHANGED <<bcast_seqno, bridged>>

batadv_bla_check_ucast_duplist(c) ==
  /\ c.kind = "UNICAST"
  /\ copies' = copies \ {c}
  /\ HandOver(c, "none")
  /\ UNCHANGED <<bcast_seqno, bridged, orig_node>>

FlNext ==
  \/ \E o \in FlOrig, f \in FlFrame : SendBroadcast(o, f) \/ SendUnicast(o, f)
  \/ \E o \in FlOrig : RestartGateway(o) \/ ProtectionEnds(o)
  \/ \E c \in copies : batadv_recv_bcast_packet(c) \/ batadv_bla_check_ucast_duplist(c)
  \/ DuplistTimeout
FlSpec == FlInit /\ [][FlNext]_flVars

-----------------------------------------------------------------------------
(* Properties. *)

\* A broadcast is handed over and flooded once, by whatever paths and in whatever order
\* its copies arrive, across a wrap of the sequence numbers and a restart of the gateway;
\* a frame that both gateways bridge is handed over from one of them, as long as the list
\* of duplicates has neither timed out nor given up an entry that matters.
FloodedOnce ==
  \A f \in FlFrame :
    /\ \A o \in FlOrig : handed[o][f] <= 1
    /\ fl_left.timely => Cardinality({o \in FlOrig : handed[o][f] > 0}) <= 1

\* When all copies have arrived every frame has been handed over, unless a gateway
\* restarted or the send queue was full.
NoneMissed ==
  (copies = {} /\ fl_left.complete) =>
    \A o \in FlOrig : \A f \in bridged[o] : \E h \in FlOrig : handed[h][f] > 0
===============================================================================
