------------------------------ MODULE Fragment ------------------------------
(***************************************************************************)
(* Fragmentation on a path from a source over a relay to a destination.    *)
(* Packets larger than the MTU of the first link are sent as fragments.  A *)
(* node that receives a fragment forwards it if the whole packet is too    *)
(* large for the next link, and otherwise keeps the fragments of a packet  *)
(* in one of a few chains until it has them all.  Frames are lost,         *)
(* repeated and reordered; chains time out and are taken by other packets. *)
(*                                                                         *)
(* A fragment carries len bytes of a packet, which begin at byte from.     *)
(* The destination and the relay know the source as originator, one at a   *)
(* time; buffers are allocated.                                            *)
(***************************************************************************)
EXTENDS Integers, Sequences, FiniteSets, FiniteSetsExt, SequencesExt

CONSTANTS
  FragPacket, Length,          \* packets and their lengths
  Mtu,                         \* of the link to the relay and of the link to the destination
  HDR, FRAG_MAX_FRAG_SIZE, FRAG_MAX_FRAGMENTS, FRAG_BUFFER_COUNT,
  FRAG_SEQS,                   \* number of sequence numbers: 2^16
  FragScenarios                \* the first sequence number; bounds: packets that are sent,
                               \* frames lost and repeated, sending errors, time-outs

Scenario == [first : 0..(FRAG_SEQS - 1), packets : SUBSET FragPacket, losses : Nat, repeats : Nat,
             errors : Nat, timeouts : Nat, reliable : BOOLEAN]

ASSUME FragAssumption ==
  /\ Length \in [FragPacket -> Nat \ {0}] /\ Mtu \in [{"relay", "dest"} -> Nat]
  /\ {HDR, FRAG_MAX_FRAG_SIZE} \subseteq Nat
  /\ {FRAG_MAX_FRAGMENTS, FRAG_BUFFER_COUNT, FRAG_SEQS} \subseteq Nat \ {0}
  /\ FRAG_MAX_FRAG_SIZE > HDR /\ Mtu["relay"] > HDR
  /\ "garbage" \notin FragPacket
  /\ FragScenarios \subseteq Scenario
  /\ \A b \in FragScenarios : IsFiniteSet(b.packets) /\ Cardinality(b.packets) < FRAG_SEQS

VARIABLES
  frag_seqno,
  chains,        \* fragments[] of the source, at the relay and at the destination
  air,           \* fragments on the two links
  wholes,        \* packets in one piece on the two links: <<where to, packet>>
  frag_sent, frag_delivered,
  frag_left      \* what is left of the scenario's bounds

fragVars == <<frag_seqno, chains, air, wholes, frag_sent, frag_delivered, frag_left>>

FragNode == {"relay", "dest"}
EmptyChain == [seqno |-> 0, fragment_list |-> <<>>, size |-> 0, total_size |-> 0]
NoChains == [b \in 0..(FRAG_BUFFER_COUNT - 1) |-> EmptyChain]
Use(what) == frag_left[what] > 0 /\ frag_left' = [frag_left EXCEPT ![what] = @ - 1]

FragInit ==
  /\ frag_left \in FragScenarios
  /\ frag_seqno = frag_left.first
  /\ chains = [n \in FragNode |-> NoChains]
  /\ air = {} /\ wholes = {} /\ frag_sent = {}
  /\ frag_delivered = [c \in FragPacket \cup {"garbage"} |-> 0]

-----------------------------------------------------------------------------
(* The source. *)

Smaller(a, b) == IF a < b THEN a ELSE b

\* Mutant: one byte less.
batadv_frag_size_limit_Below == (FRAG_MAX_FRAG_SIZE - HDR) * FRAG_MAX_FRAGMENTS - 1

batadv_frag_size_limit == (FRAG_MAX_FRAG_SIZE - HDR) * FRAG_MAX_FRAGMENTS

\* Fragments are cut from the tail of the packet and numbered in that order.
batadv_frag_create(p, seqno, size, no) ==
  LET rest == Length[p] - no * size
      len == Smaller(size, rest)
  IN [to |-> "relay", packet |-> p, seqno |-> seqno, no |-> no, total_size |-> Length[p],
      from |-> rest - len, len |-> len]

NumFragments(p) ==
  (Length[p] - 1) \div (Smaller(Mtu["relay"], FRAG_MAX_FRAG_SIZE) - HDR) + 1
FragmentSize(p) == (Length[p] - 1) \div NumFragments(p) + 1
LastFragment(p) == (Length[p] - 1) \div FragmentSize(p)

\* All fragments, or those before the one that could not be sent.
batadv_frag_send_packet(p) ==
  LET seqno == (frag_seqno + 1) % FRAG_SEQS
      Fragments(n) == {batadv_frag_create(p, seqno, FragmentSize(p), no) : no \in 0..n}
  IN IF NumFragments(p) > FRAG_MAX_FRAGMENTS THEN UNCHANGED <<frag_seqno, air, frag_left>>
     ELSE /\ frag_seqno' = seqno
          /\ \/ air' = air \cup Fragments(LastFragment(p)) /\ UNCHANGED frag_left
             \/ \E n \in 0..(LastFragment(p) - 1) : Use("errors") /\ air' = air \cup Fragments(n)

batadv_send_skb_to_orig ==
  \E p \in frag_left.packets \ frag_sent :
    /\ frag_sent' = frag_sent \cup {p}
    /\ IF Length[p] > Mtu["relay"] THEN batadv_frag_send_packet(p) /\ UNCHANGED wholes
       ELSE wholes' = wholes \cup {<<"relay", p>>} /\ UNCHANGED <<frag_seqno, air, frag_left>>
    /\ UNCHANGED <<chains, frag_delivered>>

-----------------------------------------------------------------------------
(* The receivers. *)

\* A chain is taken by the packet whose fragment has come last.
batadv_frag_init_chain(chain, f) ==
  IF chain.seqno = f.seqno THEN chain
  ELSE [seqno |-> f.seqno, fragment_list |-> <<>>, size |-> 0, total_size |-> f.total_size]

\* Mutant: the size of the packet that had the chain before is not cleared.
Inserted_OldSize(chain, f) ==
  LET list == chain.fragment_list
      lower == {i \in DOMAIN list : list[i].no < f.no}
      at == IF lower = {} THEN Len(list) + 1 ELSE Min(lower)
  IN [batadv_frag_init_chain(chain, f) EXCEPT
        !.fragment_list = IF chain.seqno # f.seqno THEN <<f>> ELSE InsertAt(list, at, f),
        !.size = chain.size + f.len]

\* Fragments are kept from the highest to the lowest number; one that is there already is
\* dropped, and so is one whose chain was completed or has timed out.
Inserted(chain, f) ==
  LET list == chain.fragment_list
      lower == {i \in DOMAIN list : list[i].no < f.no}
      at == IF lower = {} THEN Len(list) + 1 ELSE Min(lower)
  IN [batadv_frag_init_chain(chain, f) EXCEPT
        !.fragment_list = IF chain.seqno # f.seqno THEN <<f>> ELSE InsertAt(list, at, f),
        !.size = IF chain.seqno # f.seqno THEN f.len ELSE chain.size + f.len]

\* Mutant: a fragment that is there already is kept again.
batadv_frag_insert_packet_Twice(chain, f) ==
  LET c == Inserted(chain, f)
      emptied == [c EXCEPT !.fragment_list = <<>>, !.size = 0]
  IN IF c.size > batadv_frag_size_limit \/ c.total_size # f.total_size
     THEN [chain |-> emptied, out |-> <<>>]
     ELSE IF c.size = f.total_size THEN [chain |-> emptied, out |-> c.fragment_list]
     ELSE [chain |-> c, out |-> <<>>]

batadv_frag_insert_packet(chain, f) ==
  LET known == chain.seqno = f.seqno /\ \/ chain.fragment_list = <<>>
                                        \/ \E i \in DOMAIN chain.fragment_list :
                                             chain.fragment_list[i].no = f.no
      c == Inserted(chain, f)
      emptied == [c EXCEPT !.fragment_list = <<>>, !.size = 0]
  IN IF known THEN [chain |-> chain, out |-> <<>>]
     ELSE IF \/ c.size > batadv_frag_size_limit \/ c.total_size # f.total_size
             \/ c.total_size > batadv_frag_size_limit
     THEN [chain |-> emptied, out |-> <<>>]
     ELSE IF c.size = f.total_size THEN [chain |-> emptied, out |-> c.fragment_list]
     ELSE [chain |-> c, out |-> <<>>]

\* The contents of the fragments one after the other are the packet when they adjoin and
\* reach from its first byte to its last.
batadv_frag_merge_packets(list) ==
  LET first == list[1]
      last == list[Len(list)]
      Adjoin(a, b) == a.packet = b.packet /\ a.from + a.len = b.from
  IN IF /\ first.from = 0 /\ last.from + last.len = Length[last.packet]
        /\ \A i \in 1..(Len(list) - 1) : Adjoin(list[i], list[i + 1])
     THEN first.packet ELSE "garbage"

\* A packet in one piece: the relay sends it on, the destination has it.
InOnePiece(n, packet, others) ==
  IF n = "relay" THEN wholes' = others \cup {<<"dest", packet>>} /\ UNCHANGED frag_delivered
  ELSE wholes' = others /\ frag_delivered' = [frag_delivered EXCEPT ![packet] = @ + 1]

batadv_frag_skb_fwd(n, f) == n = "relay" /\ f.total_size > Mtu["dest"]

batadv_recv_frag_packet(n, f, frames) ==
  LET b == f.seqno % FRAG_BUFFER_COUNT
      r == batadv_frag_insert_packet(chains[n][b], f)
  IN IF batadv_frag_skb_fwd(n, f)
     THEN air' = frames \cup {[f EXCEPT !.to = "dest"]} /\ UNCHANGED <<chains, wholes, frag_delivered>>
     ELSE /\ air' = frames
          /\ chains' = [chains EXCEPT ![n][b] = r.chain]
          /\ IF r.out = <<>> THEN UNCHANGED <<wholes, frag_delivered>>
             ELSE InOnePiece(n, batadv_frag_merge_packets(r.out), wholes)

ReceiveFrame ==
  /\ \/ \E f \in air : batadv_recv_frag_packet(f.to, f, air \ {f})
     \/ \E w \in wholes : InOnePiece(w[1], w[2], wholes \ {w}) /\ UNCHANGED <<air, chains>>
  /\ UNCHANGED <<frag_seqno, frag_sent, frag_left>>

\* The link repeats a fragment that was received.
RepeatFragment ==
  \E f \in air :
    /\ Use("repeats")
    /\ batadv_recv_frag_packet(f.to, f, air)
    /\ UNCHANGED <<frag_seqno, frag_sent>>

LoseFrame ==
  /\ Use("losses")
  /\ \/ \E f \in air : air' = air \ {f} /\ UNCHANGED wholes
     \/ \E w \in wholes : wholes' = wholes \ {w} /\ UNCHANGED air
  /\ UNCHANGED <<frag_seqno, chains, frag_sent, frag_delivered>>

\* BATADV_FRAG_TIMEOUT has passed since the last fragment.
batadv_frag_purge_orig ==
  \E n \in FragNode, b \in DOMAIN NoChains :
    /\ chains[n][b].fragment_list # <<>> /\ Use("timeouts")
    /\ chains' = [chains EXCEPT ![n][b].fragment_list = <<>>, ![n][b].size = 0]
    /\ UNCHANGED <<frag_seqno, air, wholes, frag_sent, frag_delivered>>

FragNext ==
  \/ batadv_send_skb_to_orig \/ ReceiveFrame \/ RepeatFragment \/ LoseFrame
  \/ batadv_frag_purge_orig
FragSpec == FragInit /\ [][FragNext]_fragVars
\* Frames that are not lost are received: weak fairness of ReceiveFrame, which is enabled as
\* long as there are frames.
FragFairness == []<>(air = {} /\ wholes = {}) \/ []<><<ReceiveFrame>>_fragVars
FragFairSpec == FragSpec /\ FragFairness

-----------------------------------------------------------------------------
(* Properties. *)

\* A chain has the fragments of one packet, each once, in descending order, and its size
\* is the sum of theirs: what decides that a packet is complete is right.
FragTypeOK ==
  \A n \in FragNode, b \in DOMAIN NoChains :
    LET c == chains[n][b]
        list == c.fragment_list
    IN /\ c.seqno \in 0..(FRAG_SEQS - 1)
       /\ c.size = FoldLeft(LAMBDA k, f : k + f.len, 0, list)
       /\ \A i, j \in DOMAIN list : i < j => list[i].no > list[j].no
       /\ \A i \in DOMAIN list : list[i].seqno = c.seqno /\ list[i].total_size = c.total_size

\* Fragmentation, loss, repetition, reordering, time-outs and chains that packets take
\* from each other included, is a channel that delivers what was sent, once and unchanged.
Channel == INSTANCE PacketChannel WITH Packet <- FragPacket \cup {"garbage"},
             sent <- frag_sent, delivered <- frag_delivered
ImplementsChannel == Channel!ChSpec

\* When no fragment is lost, and there are no more packets under way than chains, all
\* that are sent arrive, in whatever order their fragments do.
Arrives == [](frag_left.reliable => <>(\A p \in frag_sent : frag_delivered[p] = 1))
=============================================================================
