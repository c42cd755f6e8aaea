------------------------------- MODULE BatIvOgm ------------------------------
(***************************************************************************)
(* The B.A.T.M.A.N. IV originator messages.  Each interface broadcasts an  *)
(* OGM per period; a neighbour rebroadcasts it with a direct link flag, so *)
(* that the sender counts its echoes, and OGMs of primary interfaces are   *)
(* flooded along the best next hops.  The transmit quality (TQ) of a link  *)
(* is the share of own OGMs that came back among the neighbour's OGMs that *)
(* were received; a path's TQ falls from hop to hop.                       *)
(*                                                                         *)
(* A broadcast reaches its receivers at once: it has waited in the queue   *)
(* of forw_packets before, for any time, so the order of OGMs of different *)
(* senders is arbitrary.  Handlers are atomic.  The queue limit is in      *)
(* module SendQueue, hop penalties of single interfaces and the WiFi       *)
(* penalty are left out, and TVLVs are in module Tvlv.                     *)
(***************************************************************************)
EXTENDS Integers, Sequences, FiniteSets, FiniteSetsExt, SequencesExt, Bags, TLC

CONSTANTS
  Iface,                 \* interfaces, named by their addresses
  Owner,                 \* the node of each interface
  Primary,               \* the primary interface of each node
  DEFAULT,               \* BATADV_IF_DEFAULT
  TQ_MAX_VALUE, HOP_PENALTY, TQ_LOCAL_WINDOW_SIZE, TQ_GLOBAL_WINDOW_SIZE,
  TTL, EXPECTED_SEQNO_RANGE, MAX_AGGREGATION_PACKETS,
  PURGE_TIMEOUT,         \* in periods
  SeqnoMod,              \* sequence numbers are counted modulo SeqnoMod
  IvScenarios            \* topology and bounds: active interfaces in their usual order, links,
                         \* first sequence numbers, losses, OGMs out of order, broken links,
                         \* restarts and the jumps of sequence numbers then, aggregation

IvBounds == {"order", "link", "seqno", "losses", "drifts", "breaks", "restarts", "jumps", "aggregate"}

ASSUME BatIvAssumption ==
  /\ IsFiniteSet(Iface) /\ DEFAULT \notin Iface
  /\ TTL \in Nat /\ SeqnoMod \in Nat \ {0}
  /\ \A b \in IvScenarios :
       /\ DOMAIN b = IvBounds /\ b.order \in Seq(Iface) /\ b.link \subseteq ToSet(b.order) \X ToSet(b.order)
       /\ b.seqno \in [ToSet(b.order) -> 0..(SeqnoMod - 1)] /\ b.jumps \subseteq Nat
  /\ TQ_MAX_VALUE \in Nat \ {0} /\ HOP_PENALTY \in 0..TQ_MAX_VALUE
  /\ TQ_LOCAL_WINDOW_SIZE \in Nat \ {0} /\ TQ_GLOBAL_WINDOW_SIZE \in Nat \ {0}
  /\ EXPECTED_SEQNO_RANGE \in TQ_LOCAL_WINDOW_SIZE..(SeqnoMod \div 2)
  /\ TQ_LOCAL_WINDOW_SIZE + 2 <= SeqnoMod

Node == {Owner[i] : i \in Iface}
Window == 0..(TQ_LOCAL_WINDOW_SIZE - 1)
NoRouter == <<>>

VARIABLES
  priv,        \* originator table and forw_bat_list of each node
  ogm_seqno,   \* bat_iv.ogm_seqno of each interface
  link,        \* pairs of interfaces <<i, j>> where j hears i
  ran,         \* interfaces whose own OGM of this period is out
  heard,       \* <<j, i, seqno>>: j has received this recent OGM of interface i from i
  left         \* what is left of the scenario's bounds

ivVars == <<priv, ogm_seqno, link, ran, heard, left>>

ActiveIfaces == ToSet(left.order)
Active(n) == {i \in ActiveIfaces : Owner[i] = n}
Seq32(x) == (x + SeqnoMod) % SeqnoMod
\* A difference of sequence numbers as s32.
SeqDiff(a, b) == LET d == Seq32(a - b) IN IF 2 * d < SeqnoMod THEN d ELSE d - SeqnoMod

-----------------------------------------------------------------------------
(* Windows, ring buffers and penalties. *)

batadv_test_bit(bits, last, seqno) ==
  SeqDiff(last, seqno) \in Window /\ SeqDiff(last, seqno) \in bits

batadv_bit_get_packet(bits, diff, mark) ==
  IF -diff \in Window THEN IF mark THEN bits \cup {-diff} ELSE bits
  ELSE (IF diff \in Window THEN {b + diff : b \in bits} \cap Window ELSE {})
       \cup (IF mark THEN {0} ELSE {})

\* Whether batadv_bit_get_packet() moves the window.
WindowMoves(diff) == -diff \notin Window

OutOfWindow(diff) ==
  diff <= -TQ_LOCAL_WINDOW_SIZE \/ diff >= EXPECTED_SEQNO_RANGE

batadv_ring_buffer_set(ring, value) == Tail(Append(ring, value))

batadv_ring_buffer_avg(ring) ==
  LET set == {x \in DOMAIN ring : ring[x] # 0}
  IN IF set = {} THEN 0 ELSE MapThenSumSet(LAMBDA x : ring[x], set) \div Cardinality(set)

batadv_hop_penalty(tq) == (tq * (TQ_MAX_VALUE - HOP_PENALTY)) \div TQ_MAX_VALUE

-----------------------------------------------------------------------------
(* The originator table.  s is the state of a node. *)

\* Table f with entry v for x.
With(f, x, v) == [y \in DOMAIN f \cup {x} |-> IF y = x THEN v ELSE f[y]]

batadv_orig_ifinfo_new(on, out) ==
  IF out \in DOMAIN on.ifinfo THEN on
  ELSE [on EXCEPT !.ifinfo =
          With(@, out, [last_real_seqno |-> 0, protected |-> FALSE, last_ttl |-> 0,
                        bcast_own |-> {}, bcast_own_sum |-> 0, router |-> NoRouter])]

batadv_neigh_ifinfo_new(neigh, out) ==
  IF out \in DOMAIN neigh.ifinfo THEN neigh
  ELSE [neigh EXCEPT !.ifinfo =
          With(@, out, [real_bits |-> {}, real_packet_count |-> 0, tq_avg |-> 0,
                        tq_recv |-> [x \in 1..TQ_GLOBAL_WINDOW_SIZE |-> 0]])]

batadv_iv_ogm_orig_get(s, o) ==
  IF o \in DOMAIN s.orig THEN s
  ELSE [s EXCEPT !.orig = With(@, o, [neigh |-> <<>>, ifinfo |-> <<>>, age |-> 0])]

\* A neighbour is an address heard on an interface.
batadv_iv_ogm_neigh_new(on, k) ==
  IF k \in DOMAIN on.neigh THEN on
  ELSE [on EXCEPT !.neigh = With(@, k, [ifinfo |-> <<>>, age |-> 0])]

batadv_orig_router_get(s, o, out) ==
  IF o \in DOMAIN s.orig /\ out \in DOMAIN s.orig[o].ifinfo
  THEN s.orig[o].ifinfo[out].router ELSE NoRouter

batadv_iv_orig_ifinfo_sum(s, o, i) ==
  IF o \in DOMAIN s.orig /\ i \in DOMAIN s.orig[o].ifinfo
  THEN s.orig[o].ifinfo[i].bcast_own_sum ELSE 0

batadv_iv_ogm_neigh_ifinfo_sum(s, k) == batadv_iv_orig_ifinfo_sum(s, k[1], k[2])

batadv_iv_ogm_neigh_get_tq_avg(on, k, out) ==
  IF out \in DOMAIN on.neigh[k].ifinfo THEN on.neigh[k].ifinfo[out].tq_avg ELSE 0

\* The difference of two neighbours' TQs; 0 when one of them has none.
batadv_iv_ogm_neigh_diff(on, k, l, out) ==
  IF out \in DOMAIN on.neigh[k].ifinfo /\ out \in DOMAIN on.neigh[l].ifinfo
  THEN batadv_iv_ogm_neigh_get_tq_avg(on, k, out) - batadv_iv_ogm_neigh_get_tq_avg(on, l, out)
  ELSE 0

batadv_iv_ogm_neigh_cmp(on, k, l, out) == batadv_iv_ogm_neigh_diff(on, k, l, out)

batadv_find_best_neighbor(on, out) ==
  IF DOMAIN on.neigh = {} THEN NoRouter
  ELSE CHOOSE k \in DOMAIN on.neigh :
         \A l \in DOMAIN on.neigh : batadv_iv_ogm_neigh_cmp(on, k, l, out) >= 0

-----------------------------------------------------------------------------
(* Receiving an OGM: interface j of a node hears it from interface src. *)

\* The duplicate status of an OGM; the windows of all neighbours move with it.
batadv_iv_ogm_update_seqnos(s, j, src, ogm, out) ==
  LET on == batadv_orig_ifinfo_new(s.orig[ogm.orig], out)
      oi == on.ifinfo[out]
      diff == SeqDiff(ogm.seqno, oi.last_real_seqno)
      old == [k \in DOMAIN on.neigh |-> batadv_neigh_ifinfo_new(on.neigh[k], out)]
      dups == {k \in DOMAIN old :
                 batadv_test_bit(old[k].ifinfo[out].real_bits, oi.last_real_seqno, ogm.seqno)}
      moved(k) == LET bits == batadv_bit_get_packet(old[k].ifinfo[out].real_bits, diff, k = <<src, j>>)
                  IN [old[k] EXCEPT !.ifinfo[out].real_bits = bits,
                                    !.ifinfo[out].real_packet_count = Cardinality(bits)]
      known == DOMAIN old # {}
      new == [on EXCEPT !.neigh = [k \in DOMAIN old |-> moved(k)],
                        !.ifinfo[out].protected = @ \/ (known /\ OutOfWindow(diff)),
                        !.ifinfo[out].last_real_seqno =
                           IF known /\ WindowMoves(diff) THEN ogm.seqno ELSE @]
  IN IF known /\ OutOfWindow(diff) /\ oi.protected
     THEN [s |-> [s EXCEPT !.orig[ogm.orig] = on], dup |-> "PROTECTED"]
     ELSE [s |-> [s EXCEPT !.orig[ogm.orig] = new],
           dup |-> IF <<src, j>> \in dups THEN "NEIGH_DUP"
                   ELSE IF dups # {} THEN "ORIG_DUP" ELSE "NO_DUP"]

\* The TQ of the path through the sender: its own TQ times that of the link.
LinkTq(own, received, tq) ==
  LET total == IF own > received THEN received ELSE own
      tq_own == IF total < 1 \/ received < 1 THEN 0 ELSE (TQ_MAX_VALUE * total) \div received
      inv == TQ_LOCAL_WINDOW_SIZE - received
      cube == TQ_LOCAL_WINDOW_SIZE * TQ_LOCAL_WINDOW_SIZE * TQ_LOCAL_WINDOW_SIZE
      asym == TQ_MAX_VALUE - (TQ_MAX_VALUE * inv * inv * inv) \div cube
  IN (tq * tq_own * asym) \div (TQ_MAX_VALUE * TQ_MAX_VALUE)

batadv_iv_ogm_calc_tq(s, j, src, ogm, out) ==
  LET k == <<src, j>>
      created == batadv_iv_ogm_neigh_new(s.orig[src], k)
      neigh == batadv_neigh_ifinfo_new(created.neigh[k], out)
      on == [created EXCEPT !.neigh[k] =
               IF ogm.orig = src THEN [neigh EXCEPT !.age = 0] ELSE neigh]
      s1 == [s EXCEPT !.orig[src] = on]
  IN [s |-> [s1 EXCEPT !.orig[ogm.orig].age = 0],
      tq |-> LinkTq(batadv_iv_orig_ifinfo_sum(s, src, j),
                    on.neigh[k].ifinfo[out].real_packet_count, ogm.tq)]

\* Entering a TQ into a neighbour's ring buffer.
Ranked(neigh, out, tq) ==
  LET ring == batadv_ring_buffer_set(neigh.ifinfo[out].tq_recv, tq)
  IN [neigh EXCEPT !.ifinfo[out].tq_recv = ring,
                   !.ifinfo[out].tq_avg = batadv_ring_buffer_avg(ring)]

\* A neighbour replaces the router when its TQ is better, or equal over a more symmetric link.
batadv_iv_ogm_orig_update(s, j, src, ogm, out, dup) ==
  LET k == <<src, j>>
      on == s.orig[ogm.orig]
      missed == [l \in DOMAIN on.neigh |->
                   IF l # k /\ dup = "NO_DUP" /\ out \in DOMAIN on.neigh[l].ifinfo
                   THEN Ranked(on.neigh[l], out, 0) ELSE on.neigh[l]]
      created == batadv_iv_ogm_neigh_new([on EXCEPT !.neigh = missed], k)
      ranked == [created EXCEPT
                   !.neigh[k] = [Ranked(batadv_neigh_ifinfo_new(@, out), out, ogm.tq) EXCEPT !.age = 0],
                   !.ifinfo[out].last_ttl = IF dup = "NO_DUP" THEN ogm.ttl ELSE @]
      router == ranked.ifinfo[out].router
      tq(l) == batadv_iv_ogm_neigh_get_tq_avg(ranked, l, out)
      better == \/ router = NoRouter
                \/ /\ router # k /\ out \in DOMAIN ranked.neigh[router].ifinfo
                   /\ \/ tq(router) < tq(k)
                      \/ /\ tq(router) = tq(k)
                         /\ batadv_iv_ogm_neigh_ifinfo_sum(s, router)
                              < batadv_iv_ogm_neigh_ifinfo_sum(s, k)
  IN [s EXCEPT !.orig[ogm.orig] =
        [ranked EXCEPT !.ifinfo[out].router = IF better THEN k ELSE @]]

\* OGMs are aggregated when they leave by the same interface, and are both flooded or both
\* meant for direct neighbours only.
batadv_iv_ogm_can_aggregate(n, f, ogm, in, out) ==
  LET first == f.ogms[1]
  IN /\ f.out = out /\ Len(f.ogms) < MAX_AGGREGATION_PACKETS
     /\ \/ /\ ~ogm.direct /\ ~first.direct /\ first.ttl # 1
           /\ ~f.own \/ f.in = Primary[n]
        \/ /\ ogm.direct /\ ogm.ttl = 1 /\ f.in = in
           /\ first.direct \/ (f.own /\ f.in # Primary[n])

\* `join' tells whether the send times allow aggregation.
batadv_iv_ogm_queue_add(s, n, ogm, in, out, own, join) ==
  LET fit == {f \in BagToSet(s.forw) : batadv_iv_ogm_can_aggregate(n, f, ogm, in, out)}
      f == CHOOSE x \in fit : TRUE
  IN IF join /\ ~own /\ fit # {}
     THEN [s EXCEPT !.forw = (@ (-) SetToBag({f}))
                             (+) SetToBag({[f EXCEPT !.ogms = Append(@, ogm)]})]
     ELSE [s EXCEPT !.forw = @ (+) SetToBag({[own |-> own, in |-> in, out |-> out, ogms |-> <<ogm>>]})]

\* Mutant: the hop penalty is not applied.
batadv_iv_ogm_forward_Free(s, j, src, ogm, single, best, out, join) ==
  IF ogm.ttl <= 1 \/ (~best /\ ~single) THEN s
  ELSE batadv_iv_ogm_queue_add(s, Owner[j],
         [ogm EXCEPT !.ttl = @ - 1, !.prev_sender = src,
                     !.direct = single, !.not_best = @ \/ ~best], j, out, FALSE, join)

batadv_iv_ogm_forward(s, j, src, ogm, single, best, out, join) ==
  IF ogm.ttl <= 1 \/ (~best /\ ~single) THEN s
  ELSE batadv_iv_ogm_queue_add(s, Owner[j],
         [ogm EXCEPT !.ttl = @ - 1, !.prev_sender = src, !.tq = batadv_hop_penalty(@),
                     !.direct = single, !.not_best = @ \/ ~best], j, out, FALSE, join)

\* Mutant: OGMs that come from the originator itself are not exempted.
MayLoop_Direct(s, ogm, out) ==
  LET router == batadv_orig_router_get(s, ogm.orig, out)
  IN /\ router # NoRouter /\ router[1] = ogm.prev_sender
     /\ LET rr == batadv_orig_router_get(s, router[1], out) IN rr # NoRouter /\ rr[1] = router[1]

\* OGMs that the sender sends back to where the own next hop sent it from may loop.
MayLoop(s, ogm, out) ==
  LET router == batadv_orig_router_get(s, ogm.orig, out)
  IN /\ router # NoRouter
     /\ router[1] = ogm.prev_sender /\ ogm.orig # ogm.prev_sender
     /\ LET rr == batadv_orig_router_get(s, router[1], out) IN rr # NoRouter /\ rr[1] = router[1]

\* The second half of batadv_iv_ogm_process_per_outif(): ranking and forwarding.
RankAndForward(s, j, src, ogm, out, dup, best, join) ==
  LET single == src = ogm.orig
      c == batadv_iv_ogm_calc_tq(s, j, src, ogm, out)
      bidirect == c.tq >= 1
      new == [ogm EXCEPT !.tq = c.tq]
      oi == batadv_orig_ifinfo_new(c.s.orig[ogm.orig], out).ifinfo[out]
      counts == /\ bidirect
                /\ \/ dup = "NO_DUP"
                   \/ oi.last_real_seqno = ogm.seqno /\ oi.last_ttl - 3 <= ogm.ttl
      s1 == IF counts THEN batadv_iv_ogm_orig_update(c.s, j, src, new, out, dup) ELSE c.s
      goes == /\ out # DEFAULT
              /\ IF single THEN ogm.ttl > 2 \/ j = out
                 ELSE bidirect /\ dup # "NEIGH_DUP"
  IN IF goes THEN batadv_iv_ogm_forward(s1, j, src, new, single, best, out, join) ELSE s1

batadv_iv_ogm_process_per_outif(s, j, src, ogm, out, join) ==
  LET u == batadv_iv_ogm_update_seqnos(s, j, src, ogm, out)
      router == batadv_orig_router_get(u.s, ogm.orig, out)
      best == /\ router # NoRouter /\ router[1] = src
              /\ batadv_iv_ogm_neigh_get_tq_avg(u.s.orig[ogm.orig], router, out) # 0
      s1 == batadv_iv_ogm_orig_get(u.s, src)
  IN IF u.dup = "PROTECTED" \/ ogm.tq = 0 \/ MayLoop(u.s, ogm, out) THEN u.s
     ELSE IF src # ogm.orig /\ batadv_orig_router_get(s1, src, out) = NoRouter THEN s1
     ELSE RankAndForward(s1, j, src, ogm, out, u.dup, best, join)

\* Mutant: the place in the window counts from the OGM in the queue.
batadv_iv_ogm_process_reply_Last(s, j, src, ogm, seqno) ==
  LET pos == SeqDiff(Seq32(seqno - 1), ogm.seqno)
      own == s.orig[src].ifinfo[j].bcast_own \cup ({pos} \cap Window)
  IN IF ~ogm.direct \/ j # ogm.orig \/ j \notin DOMAIN s.orig[src].ifinfo THEN s
     ELSE [s EXCEPT !.orig[src].ifinfo[j] =
             [@ EXCEPT !.bcast_own = own, !.bcast_own_sum = Cardinality(own)]]

\* The own OGM has come back: its place in the window counts from the one before the
\* last, as the OGM in the queue is numbered already.
batadv_iv_ogm_process_reply(s, j, src, ogm, seqno) ==
  LET pos == SeqDiff(Seq32(seqno - 2), ogm.seqno)
      own == s.orig[src].ifinfo[j].bcast_own \cup ({pos} \cap Window)
  IN IF ~ogm.direct \/ j # ogm.orig \/ j \notin DOMAIN s.orig[src].ifinfo THEN s
     ELSE [s EXCEPT !.orig[src].ifinfo[j] =
             [@ EXCEPT !.bcast_own = own, !.bcast_own_sum = Cardinality(own)]]

batadv_iv_ogm_process(s, j, src, ogm, join) ==
  LET mine == Active(Owner[j])
      outs == <<DEFAULT>> \o SetToSeq(mine)
      on_outif(t, out) == batadv_iv_ogm_process_per_outif(t, j, src, ogm, out, join)
  IN IF src \in mine THEN s
     ELSE IF ogm.orig \in mine
     THEN batadv_iv_ogm_process_reply(batadv_iv_ogm_orig_get(s, src), j, src, ogm, ogm_seqno[j])
     ELSE IF ogm.prev_sender \in mine \/ ogm.not_best THEN s
     ELSE FoldLeft(on_outif, batadv_iv_ogm_orig_get(s, ogm.orig), outs)

batadv_iv_ogm_receive(s, j, src, ogms, join) ==
  FoldLeft(LAMBDA t, ogm : batadv_iv_ogm_process(t, j, src, ogm, join), s, ogms)

-----------------------------------------------------------------------------
(* Sending OGMs. *)

\* Entries of neighbours and originators grow older by one period.
Older(s) ==
  LET neigh(ne) == [ne EXCEPT !.age = IF @ < PURGE_TIMEOUT THEN @ + 1 ELSE @]
      entry(on) == [on EXCEPT !.age = IF @ < 2 * PURGE_TIMEOUT THEN @ + 1 ELSE @,
                              !.neigh = [k \in DOMAIN @ |-> neigh(@[k])]]
  IN [s EXCEPT !.orig = [o \in DOMAIN @ |-> entry(@[o])]]

batadv_iv_ogm_slide_own_bcast_window(s, i) ==
  LET slid(oi) == LET own == batadv_bit_get_packet(oi.bcast_own, 1, FALSE)
                  IN [oi EXCEPT !.bcast_own = own, !.bcast_own_sum = Cardinality(own)]
      entry(on) == IF i \in DOMAIN on.ifinfo THEN [on EXCEPT !.ifinfo[i] = slid(@)] ELSE on
  IN [s EXCEPT !.orig = [o \in DOMAIN @ |-> entry(@[o])]]

\* The own OGM: of the primary interface on all interfaces, of another on itself.
batadv_iv_ogm_schedule_buff(s, i, seqno) ==
  LET n == Owner[i]
      ogm == [orig |-> i, prev_sender |-> i, seqno |-> seqno, tq |-> TQ_MAX_VALUE,
              ttl |-> IF i = Primary[n] THEN TTL ELSE 2, direct |-> FALSE, not_best |-> FALSE]
      outs == IF i = Primary[n] THEN Active(n) ELSE {i}
  IN FoldSet(LAMBDA out, t : batadv_iv_ogm_queue_add(t, n, ogm, i, out, TRUE, FALSE),
             batadv_iv_ogm_slide_own_bcast_window(s, i), outs)

\* The flags of an OGM as it leaves: a direct link only on the interface it came by.
batadv_iv_ogm_send_to_if(f) ==
  [x \in DOMAIN f.ogms |-> [f.ogms[x] EXCEPT !.direct = @ /\ f.in = f.out]]

\* A node that starts with sequence numbers seqno schedules the OGMs of its interfaces.
batadv_iv_ogm_iface_enable(n, seqno) ==
  FoldSet(LAMBDA i, t : batadv_iv_ogm_schedule_buff(t, i, seqno[i]),
          [orig |-> <<>>, forw |-> EmptyBag], Active(n))

IvInit ==
  /\ left \in IvScenarios
  /\ priv = [n \in Node |-> batadv_iv_ogm_iface_enable(n, left.seqno)]
  /\ ogm_seqno = [i \in Iface |-> IF i \in ActiveIfaces THEN Seq32(left.seqno[i] + 1) ELSE 0]
  /\ link = left.link
  /\ ran = {} /\ heard = {}

\* Own OGMs leave once per period, by and large in the same order, each after the
\* OGMs before it have gone round: forwarding takes a tenth of a period.  The copies of
\* an OGM on other interfaces leave right after it.
Original(f) == f.own /\ f.in = f.out
Due(f) ==
  /\ Original(f) => f.in \notin ran
  /\ f.own /\ f.in # f.out => f.ogms[1].seqno # Seq32(ogm_seqno[f.in] - 1)
OnTime(f) ==
  /\ Due(f)
  /\ Original(f) =>
       /\ \A m \in Node : \A g \in BagToSet(priv[m].forw) : Due(g) => Original(g)
       /\ \A x \in DOMAIN left.order :
            left.order[x] = f.in => \A y \in 1..(x - 1) : left.order[y] \in ran

\* The packet f leaves, all interfaces in range but those in `lost' receive it, and an
\* own OGM is scheduled anew.
batadv_iv_send_outstanding_bat_ogm_packet(n, f, lost, join) ==
  LET i == f.in
      again == Original(f)
      sent == batadv_iv_ogm_send_to_if(f)
      to == {l[2] : l \in {l \in link : l[1] = f.out}} \ lost
      own == {sent[x].seqno : x \in {x \in DOMAIN sent : sent[x].orig = f.out}}
      got(m, s) == FoldSet(LAMBDA j, t : batadv_iv_ogm_receive(t, j, f.out, sent, join),
                           s, {j \in to : Owner[j] = m})
      gone == [priv[n] EXCEPT !.forw = @ (-) SetToBag({f})]
  IN /\ priv' = [m \in Node |->
           IF m # n THEN got(m, priv[m])
           ELSE IF again
           THEN batadv_iv_ogm_schedule_buff(IF i = Primary[n] THEN Older(gone) ELSE gone,
                                            i, ogm_seqno[i])
           ELSE gone]
     /\ ogm_seqno' = IF again THEN [ogm_seqno EXCEPT ![i] = Seq32(@ + 1)] ELSE ogm_seqno
     /\ heard' = {h \in heard \cup (to \X {f.out} \X own) :
                    Seq32(ogm_seqno'[h[2]] - h[3]) \in 1..(TQ_LOCAL_WINDOW_SIZE + 1)}
     /\ ran' = IF ~again THEN ran ELSE IF ran \cup {i} = ActiveIfaces THEN {} ELSE ran \cup {i}

Send(n) ==
  \E f \in BagToSet(priv[n].forw), join \in {FALSE, left.aggregate} :
  \E lost \in SUBSET {l[2] : l \in {l \in link : l[1] = f.out}} :
    /\ Due(f) /\ Cardinality(lost) <= left.losses
    /\ left.drifts > 0 \/ OnTime(f)
    /\ batadv_iv_send_outstanding_bat_ogm_packet(n, f, lost, join)
    /\ left' = [left EXCEPT !.losses = @ - Cardinality(lost),
                            !.drifts = IF OnTime(f) THEN @ ELSE @ - 1]
    /\ UNCHANGED link

-----------------------------------------------------------------------------
(* Timeouts and faults. *)

\* The protection time of an originator's sequence numbers ends, between two periods.
EndProtection(n) ==
  \E o \in DOMAIN priv[n].orig :
    LET is == priv[n].orig[o].ifinfo
    IN /\ ran = {}
       /\ \E out \in DOMAIN is : is[out].protected
       /\ priv' = [priv EXCEPT ![n].orig[o].ifinfo =
                     [out \in DOMAIN is |-> [is[out] EXCEPT !.protected = FALSE]]]
       /\ UNCHANGED <<ogm_seqno, link, ran, heard, left>>

\* An originator unheard of for too long is deleted; of another the old neighbours are,
\* and its routes go to the best neighbours left.
batadv_purge_orig_node(on) ==
  LET kept == {k \in DOMAIN on.neigh : on.neigh[k].age < PURGE_TIMEOUT}
      new == [on EXCEPT !.neigh = [k \in kept |-> on.neigh[k]]]
  IN IF kept = DOMAIN on.neigh THEN on
     ELSE [new EXCEPT !.ifinfo = [out \in DOMAIN @ |->
             [@[out] EXCEPT !.router = batadv_find_best_neighbor(new, out)]]]

batadv_purge_orig_ref(s) ==
  LET kept == {o \in DOMAIN s.orig : s.orig[o].age < 2 * PURGE_TIMEOUT}
  IN [s EXCEPT !.orig = [o \in kept |-> batadv_purge_orig_node(s.orig[o])]]

PurgeOrig(n) ==
  /\ priv[n] # batadv_purge_orig_ref(priv[n])
  /\ priv' = [priv EXCEPT ![n] = batadv_purge_orig_ref(@)]
  /\ UNCHANGED <<ogm_seqno, link, ran, heard, left>>

BreakLink ==
  \E l \in link :
    /\ left.breaks > 0
    /\ link' = link \ {l, <<l[2], l[1]>>}
    /\ left' = [left EXCEPT !.breaks = @ - 1]
    /\ UNCHANGED <<priv, ogm_seqno, ran, heard>>

\* A node that restarts picks sequence numbers at random.
RestartNode(n) ==
  \E d \in left.jumps :
    LET seqno == [i \in Active(n) |-> Seq32(ogm_seqno[i] + d)]
    IN /\ left.restarts > 0
       /\ priv' = [priv EXCEPT ![n] = batadv_iv_ogm_iface_enable(n, seqno)]
       /\ ogm_seqno' = [i \in Iface |-> IF i \in Active(n) THEN Seq32(seqno[i] + 1) ELSE ogm_seqno[i]]
       /\ left' = [left EXCEPT !.restarts = @ - 1]
       /\ UNCHANGED <<link, ran, heard>>

IvNext ==
  \/ \E n \in Node : Send(n) \/ EndProtection(n) \/ PurgeOrig(n) \/ RestartNode(n)
  \/ BreakLink

IvSpec == IvInit /\ [][IvNext]_ivVars

\* Timers run: packets in the queue are sent, the purge work runs, protection ends.
\* The first conjunct is the weak fairness of Send(n), with what enables it written out.
IvFairSpec ==
  /\ IvSpec
  /\ \A n \in Node :
       /\ []<>(\A f \in BagToSet(priv[n].forw) : ~OnTime(f)) \/ []<><<Send(n)>>_ivVars
       /\ WF_ivVars(EndProtection(n)) /\ WF_ivVars(PurgeOrig(n))

-----------------------------------------------------------------------------
(* Properties. *)

OutIf(n) == {DEFAULT} \cup Active(n)

\* An echo is counted only for an OGM that the neighbour did receive on this link: the
\* window of own broadcasts stays aligned with the sequence number while OGMs wait in
\* the queue, are sent, come back late or are lost, and when the number wraps around
\* (batadv_iv_ogm_process_reply()).  The stored count is the weight of that window.
EchoesHeard ==
  \A n \in Node : \A o \in DOMAIN priv[n].orig :
    \A i \in DOMAIN priv[n].orig[o].ifinfo \ {DEFAULT} : LET oi == priv[n].orig[o].ifinfo[i] IN
      /\ \A p \in oi.bcast_own : <<o, i, Seq32(ogm_seqno[i] - 2 - p)>> \in heard
      /\ oi.bcast_own_sum = Cardinality(oi.bcast_own)

\* The nodes within d hops of m by the links L, and the TQ left after d hops.
Within(L, m, d) ==
  LET near[x \in Nat] ==
        IF x = 0 THEN {m}
        ELSE LET N == near[x - 1] IN N \cup {Owner[l[2]] : l \in {l \in L : Owner[l[1]] \in N}}
  IN near[d]
TqAfter(d) ==
  LET tq[x \in Nat] == IF x = 0 THEN TQ_MAX_VALUE ELSE batadv_hop_penalty(tq[x - 1])
  IN tq[d]

\* No path is rated better than the topology allows: what a neighbour is credited with
\* is at most the TQ of the shortest path from the originator to it, with the hop penalty
\* of each hop, whatever was echoed, lost, aggregated or sent again after a restart.  The
\* packet count it is computed from is the weight of its window, so that the inverse of a
\* count cannot wrap around.
TqBounded ==
  \A n \in Node : \A o \in DOMAIN priv[n].orig : \A k \in DOMAIN priv[n].orig[o].neigh :
    \A out \in DOMAIN priv[n].orig[o].neigh[k].ifinfo : LET ni == priv[n].orig[o].neigh[k].ifinfo[out] IN
      /\ ni.real_packet_count = Cardinality(ni.real_bits)
      /\ \A d \in 0..Cardinality(Node) : Owner[k[1]] \notin Within(left.link, Owner[o], d) =>
           ni.tq_avg <= TqAfter(d + 1)

\* The nodes a packet for m visits from n on, by the routes for locally sent packets.
NextHop(n, m) ==
  LET router == batadv_orig_router_get(priv[n], Primary[m], DEFAULT)
  IN IF n = m THEN {m} ELSE IF router = NoRouter THEN {} ELSE {Owner[router[1]]}
Visited(n, m) ==
  LET at[d \in 0..Cardinality(Node)] == IF d = 0 THEN {n} ELSE UNION {NextHop(x, m) : x \in at[d - 1]}
  IN at[Cardinality(Node)]
Connected(n, m) == n \in Within(link, m, Cardinality(Node))

Routed == \A n, m \in Node : n # m =>
            Visited(n, m) = IF Connected(n, m) THEN {m} ELSE {}

\* Once losses, broken links and restarts end, every node has a route to every node it
\* is connected to, the route leads there, and routes to other nodes are gone: windows,
\* protection times, the rejection of OGMs that may loop and the purge of old neighbours
\* never keep each other from it.
IvConverges == <>[]Routed
=============================================================================
