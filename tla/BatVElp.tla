------------------------------ MODULE BatVElp -------------------------------
(***************************************************************************)
(* The echo location protocol of B.A.T.M.A.N. V on one link (net/          *)
(* batman-adv/bat_v_elp.c): a neighbour broadcasts numbered ELP packets,   *)
(* and on Wi-Fi probes us with unicast ones; we count what arrives and     *)
(* what is missing, and our periodic worker turns the counters into the    *)
(* airtime cost of the link.                                               *)
(*                                                                         *)
(* Receiving (a softirq) and the worker (process context) share the        *)
(* counters of the hardif_neigh without a lock.  Each += of the receiver   *)
(* is therefore a load and a store, and the worker's loads and stores are  *)
(* steps of their own.                                                     *)
(***************************************************************************)
EXTENDS BatVMetric, FiniteSets

CONSTANTS
  SEQ_HALF,         \* half the range of a sequence number (2^31)
  ELP_MAX_AGE,      \* BATADV_ELP_MAX_AGE
  MAX_GAP,          \* the 100 of batadv_v_elp_neigh_update()
  Wifi,             \* whether the link is Wi-Fi: probed, and its station may vanish
  PROBES,           \* BATADV_ELP_PROBES_PER_NODE
  Bitrates,         \* what the driver may report as the bit rate
  FirstSeqnos,      \* where the neighbour's numbers may start
  MaxExpected,      \* bound: packets expected between two runs of the worker
  MaxInFlight,      \* bound: packets on their way at once
  MaxLost,          \* bound: packets lost in a row
  MaxRestarts       \* bound: reboots of the neighbour

Seqno == 0 .. 2 * SEQ_HALF - 1

ASSUME ElpAssumption ==
  /\ SEQ_HALF \in Nat \ {0} /\ ELP_MAX_AGE \in Nat \ {0}
  /\ MAX_GAP \in Nat /\ MAX_GAP < LOSS_SCALE
  /\ Wifi \in BOOLEAN /\ PROBES \in Nat
  /\ Bitrates \subseteq Nat /\ FirstSeqnos \subseteq Seqno
  /\ MaxExpected \in Nat /\ MaxInFlight \in Nat /\ MaxLost \in Nat
  /\ MaxRestarts \in Nat
  /\ MaxExpected * LOSS_SCALE < U32
  /\ LOSS_SCALE * EWMA_WEIGHT < U32

VARIABLES
  \* The neighbour and the air.
  alive, elp_seqno, restarts,
  air,              \* packets on their way; they overtake each other
  lost,             \* how many in a row were lost
  \* Our hardif_neigh: whether it exists, and its fields.
  known, elp_received, elp_expected, elp_last_seqno, elp_latest_seqno,
  e_pt_smoothed, airtime_cost,
  fresh,            \* last_seen is recent
  \* The two contexts: where they are, and their local variables.
  rx, work

counters == <<elp_received, elp_expected>>
rx_state == <<known, elp_last_seqno, elp_latest_seqno, fresh>>
work_state == <<e_pt_smoothed, airtime_cost>>
sender == <<alive, elp_seqno, restarts>>
vars == <<sender, air, lost, rx_state, counters, work_state, rx, work>>

RxIdle == [pc |-> "idle", seqno |-> 0, tmp |-> 0]
WorkIdle == [pc |-> "idle", base |-> 0, expected |-> 0]

\* a - b of two u32 sequence numbers, read as s32.
SeqDiff(a, b) ==
  LET d == a - b
  IN  IF d >= SEQ_HALF THEN d - 2 * SEQ_HALF
      ELSE IF d < -SEQ_HALF THEN d + 2 * SEQ_HALF ELSE d

-----------------------------------------------------------------------------
(* The neighbour: batadv_v_elp_periodic_work() on its side of the link.    *)

Packet == [seqno : Seqno, probe : 0 .. PROBES]    \* probe = 0: the broadcast

\* batadv_v_elp_wifi_neigh_probe() copies elp_skb, whose seqno is never set.
Probes == IF Wifi THEN {[seqno |-> 0, probe |-> i] : i \in 1 .. PROBES} ELSE {}

\* The broadcast, with or without probes: they are sent only when no unicast
\* packet left in the last BATADV_ELP_PROBE_MAX_TX_DIFF milliseconds.
SendElp ==
  /\ alive
  /\ \E probes \in {{}, Probes} :
       LET sent == {[seqno |-> elp_seqno, probe |-> 0]} \cup probes
       IN  /\ Cardinality(air \cup sent) <= MaxInFlight
           /\ air' = air \cup sent
  /\ elp_seqno' = (elp_seqno + 1) % (2 * SEQ_HALF)
  /\ UNCHANGED <<alive, restarts, lost, rx_state, counters, work_state, rx, work>>

Die ==
  /\ alive /\ alive' = FALSE
  /\ UNCHANGED <<elp_seqno, restarts, air, lost, rx_state, counters, work_state, rx, work>>

\* batadv_v_elp_iface_enable() picks a random first number.
Restart ==
  /\ ~alive /\ restarts < MaxRestarts
  /\ alive' = TRUE /\ restarts' = restarts + 1
  /\ elp_seqno' \in FirstSeqnos
  /\ UNCHANGED <<air, lost, rx_state, counters, work_state, rx, work>>

Lose(p) ==
  /\ lost < MaxLost
  /\ lost' = lost + 1
  /\ air' = air \ {p}
  /\ UNCHANGED <<sender, rx_state, counters, work_state, rx, work>>

-----------------------------------------------------------------------------
(* Receiving: batadv_v_elp_packet_recv() and batadv_v_elp_neigh_update().  *)

\* Mutant: a long silence is counted in full.
Gap_Uncapped(new, last) ==
  LET gap == SeqDiff(new, last) - 1 IN IF gap < 0 THEN 0 ELSE gap

\* Packets missing before number `new'; an implausible gap counts as none.
Gap(new, last) ==
  LET gap == SeqDiff(new, last) - 1
  IN  IF gap < 0 \/ gap > MAX_GAP THEN 0 ELSE gap

\* The neighbour is created if need be, and the number of expected packets
\* loaded.  A last number of 0 means that this is the first packet.
Deliver(p) ==
  /\ p \in air /\ rx.pc = "idle"
  /\ elp_expected + 1 + MAX_GAP <= MaxExpected /\ elp_received < MaxExpected
  /\ air' = air \ {p} /\ lost' = 0
  /\ known' = TRUE
  /\ rx' = [pc |-> "expected", seqno |-> p.seqno,
            tmp |-> IF elp_last_seqno > 0
                      THEN elp_expected + 1 + Gap(p.seqno, elp_last_seqno)
                      ELSE 1]
  /\ UNCHANGED <<sender, elp_last_seqno, elp_latest_seqno, fresh, counters,
                 work_state, work>>

StoreExpected ==
  /\ rx.pc = "expected"
  /\ elp_expected' = rx.tmp
  /\ rx' = [rx EXCEPT !.pc = "load"]
  /\ UNCHANGED <<sender, air, lost, rx_state, elp_received, work_state, work>>

LoadReceived ==
  /\ rx.pc = "load"
  /\ rx' = [rx EXCEPT !.pc = "received",
                      !.tmp = IF elp_last_seqno > 0 THEN elp_received + 1 ELSE 1]
  /\ UNCHANGED <<sender, air, lost, rx_state, counters, work_state, work>>

\* Mutant: the number is noted before it is compared.
IsNew_AfterStore(seqno) == SeqDiff(seqno, seqno) \notin -ELP_MAX_AGE + 1 .. 0

\* Known or older numbers are ignored, unless the neighbour was restarted.
IsNew(seqno) == SeqDiff(seqno, elp_latest_seqno) \notin -ELP_MAX_AGE + 1 .. 0

\* The rest of the handler touches nothing the worker uses.
StoreReceived ==
  /\ rx.pc = "received"
  /\ elp_received' = rx.tmp
  /\ elp_last_seqno' = rx.seqno
  /\ IF IsNew(rx.seqno) THEN elp_latest_seqno' = rx.seqno /\ fresh' = TRUE
                        ELSE UNCHANGED <<elp_latest_seqno, fresh>>
  /\ rx' = RxIdle
  /\ UNCHANGED <<sender, air, lost, known, elp_expected, work_state, work>>

\* Time passes since the neighbour was last seen.
Age ==
  /\ fresh' = FALSE
  /\ UNCHANGED <<sender, air, lost, known, elp_last_seqno, elp_latest_seqno, counters,
                 work_state, rx, work>>

-----------------------------------------------------------------------------
(* The worker: batadv_v_elp_airtime_metric_update() for our neighbour.     *)

\* batadv_v_elp_airtime_get_base(): the base airtime for a reported bit rate, or
\* of a station that cfg80211 no longer knows.  When the rtnl lock is taken there
\* is no answer, and the whole update is left out.
BaseAirtimes ==
  {BaseAirtime(r) : r \in Bitrates \ {0}} \cup (IF Wifi THEN {AIRTIME_MAX_VALUE} ELSE {})

\* The trace output at the end of batadv_v_elp_airtime_get_base() divides by the
\* bit rate again, also when it is 0.
DivideByZero ==
  /\ work.pc = "idle" /\ known /\ 0 \in Bitrates
  /\ work' = [WorkIdle EXCEPT !.pc = "oops"]
  /\ UNCHANGED <<sender, air, lost, rx_state, counters, work_state, rx>>

LoadExpected ==
  /\ work.pc = "idle" /\ known
  /\ \E base \in BaseAirtimes :
       work' = [pc |-> "rate", base |-> base, expected |-> elp_expected]
  /\ UNCHANGED <<sender, air, lost, rx_state, counters, work_state, rx>>

UpdateRate ==
  /\ work.pc = "rate"
  /\ e_pt_smoothed' = Smoothed(LossRate(elp_received, work.expected), e_pt_smoothed)
  /\ work' = [work EXCEPT !.pc = "reset"]
  /\ UNCHANGED <<sender, air, lost, rx_state, counters, airtime_cost, rx>>

\* Mutant: the received packets are carried over.
ResetReceived_Kept ==
  /\ work.pc = "reset"
  /\ work' = [work EXCEPT !.pc = "cost"]
  /\ UNCHANGED <<sender, air, lost, rx_state, counters, work_state, rx>>

ResetReceived ==
  /\ work.pc = "reset"
  /\ elp_received' = 0
  /\ work' = [work EXCEPT !.pc = "cost"]
  /\ UNCHANGED <<sender, air, lost, rx_state, elp_expected, work_state, rx>>

ResetExpected ==
  /\ work.pc = "cost"
  /\ elp_expected' = 0
  /\ airtime_cost' = LinkCost(work.base, e_pt_smoothed)
  /\ work' = WorkIdle
  /\ UNCHANGED <<sender, air, lost, rx_state, elp_received, e_pt_smoothed, rx>>

-----------------------------------------------------------------------------
Init ==
  /\ alive = TRUE /\ elp_seqno \in FirstSeqnos /\ restarts = 0
  /\ air = {} /\ lost = 0
  /\ known = FALSE /\ elp_received = 0 /\ elp_expected = 0
  /\ elp_last_seqno = 0 /\ elp_latest_seqno = 0
  /\ e_pt_smoothed = 0 /\ airtime_cost = AIRTIME_MAX_VALUE
  /\ fresh = FALSE
  /\ rx = RxIdle /\ work = WorkIdle

Receive ==
  \/ \E p \in air : Deliver(p)
  \/ StoreExpected
  \/ LoadReceived
  \/ StoreReceived

Worker ==
  \/ DivideByZero
  \/ LoadExpected
  \/ UpdateRate
  \/ ResetReceived
  \/ ResetExpected

Next ==
  \/ SendElp
  \/ Die
  \/ Restart
  \/ \E p \in air : Lose(p)
  \/ Age
  \/ Receive
  \/ Worker

Spec == Init /\ [][Next]_vars

\* The two contexts never overlap, as on a machine with one processor whose
\* worker is not interrupted.
Apart == rx.pc = "idle" \/ work.pc = "idle"
SerialSpec == Init /\ [][Next /\ Apart']_vars

\* The timers of both workers rearm, softirqs run to their end, and of every few
\* packets one is heard.
FairSpec ==
  /\ Spec
  /\ WF_vars(SendElp)
  /\ WF_vars(Worker)
  /\ WF_vars(Receive)

-----------------------------------------------------------------------------
(* Properties. *)

TypeOK ==
  /\ alive \in BOOLEAN /\ elp_seqno \in Seqno /\ restarts \in 0 .. MaxRestarts
  /\ air \subseteq Packet /\ lost \in 0 .. MaxLost
  /\ known \in BOOLEAN /\ fresh \in BOOLEAN
  /\ elp_received \in 0 .. MaxExpected /\ elp_expected \in 0 .. MaxExpected
  /\ elp_last_seqno \in Seqno /\ elp_latest_seqno \in Seqno
  /\ e_pt_smoothed \in u32 /\ airtime_cost \in u32
  /\ rx \in [pc : {"idle", "expected", "load", "received"}, seqno : Seqno,
             tmp : 0 .. MaxExpected]
  /\ work \in [pc : {"idle", "rate", "reset", "cost", "oops"}, base : u32,
               expected : 0 .. MaxExpected]

\* Without a race between the two contexts the loss of a link never looks total,
\* however many packets are missing and in whatever order they come: the divisor
\* of batadv_v_elp_airtime_metric_update() stays positive, and only the driver
\* can declare a link unusable.
LossNeverTotal == e_pt_smoothed < LOSS_SCALE

\* Loss makes a link dearer, never cheaper than its base airtime, whatever was
\* counted and however the contexts interleave (the final division of
\* batadv_v_elp_airtime_metric_update()).
LossCosts == [][airtime_cost' # airtime_cost => airtime_cost' >= work.base]_vars

\* A neighbour that keeps sending is refreshed again and again, although its
\* packets are lost and reordered and its numbers wrap or start anew
\* (the sequence number test of batadv_v_elp_neigh_update()), unless the worker
\* has crashed.
KeepsBeingSeen == []<>(fresh \/ ~alive \/ work.pc = "oops")

\* The inductive invariant behind LossNeverTotal: what the counters hold when
\* the contexts do not overlap.  r packets were received of e expected ones.
Plausible(r, e) == r <= e /\ e <= (1 + MAX_GAP) * r

CountersAgree ==
  /\ rx.pc = "idle" /\ work.pc # "cost" => Plausible(elp_received, elp_expected)
  /\ rx.pc = "expected" => Plausible(elp_received, elp_expected)
  /\ rx.pc = "expected" =>
       Plausible(IF elp_last_seqno > 0 THEN elp_received + 1 ELSE 1, rx.tmp)
  /\ rx.pc = "load" =>
       Plausible(IF elp_last_seqno > 0 THEN elp_received + 1 ELSE 1, elp_expected)
  /\ rx.pc = "received" => Plausible(rx.tmp, elp_expected)
  /\ work.pc = "rate" => work.expected = elp_expected
  /\ work.pc = "cost" => elp_received = 0

SerialInv == TypeOK /\ Apart /\ CountersAgree /\ LossNeverTotal

-----------------------------------------------------------------------------
(* What the comments of the code say, and the code does not do.            *)

\* struct batadv_hardif_neigh_node_bat_v: e_pt_smoothed is "in thousandths, 0-1000".
LossInThousandths == e_pt_smoothed <= LOSS_SCALE

\* batadv_v_elp_periodic_work(): the metric reacts when "a node is dead and no
\* longer sends packets": silence does not make a measured link cheaper.
SilenceIsNoGoodNews ==
  [][work.pc = "cost" /\ work.expected = 0 /\ airtime_cost # AIRTIME_MAX_VALUE
       => airtime_cost' >= airtime_cost]_vars

\* main.h: BATADV_AIRTIME_MAX_VALUE is "the maximal cost (the worst link)": the
\* link to a station that is gone has that cost after the update.
VanishedStationIsWorst ==
  [][work.pc = "cost" /\ work'.pc = "idle" /\ work.base = AIRTIME_MAX_VALUE
       => airtime_cost' = AIRTIME_MAX_VALUE]_vars

\* batadv_v_elp_airtime_get_base() returns true or false: the worker survives any
\* bit rate.
WorkerSurvives == work.pc # "oops"
=============================================================================
