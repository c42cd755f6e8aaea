--------------------------- MODULE BatVElpProofs ----------------------------
(***************************************************************************)
(* Without a race the loss that ELP measures never looks total, for every  *)
(* cap on the gap, every loss scale and every bound.                       *)
(***************************************************************************)
EXTENDS BatVElp, TLAPS

\* Reducing modulo the width gives a u32.
LEMMA ModU32 ==
  ASSUME NEW x \in Nat
  PROVE  x % U32 \in u32
BY MetricAssumption DEF u32

\* A quotient of naturals is a natural and not larger than the dividend.
LEMMA DivBound ==
  ASSUME NEW p \in Nat, NEW s \in Nat \ {0}
  PROVE  p \div s \in Nat /\ p \div s <= p
<1>1. p \div s \in Nat /\ s * (p \div s) <= p
  BY Z3
<1>2. \A q \in Nat : s * q >= q
  BY Z3
<1> QED BY <1>1, <1>2, Z3

-----------------------------------------------------------------------------
(* Arithmetic. *)

\* A quotient lies below k when the dividend lies below k times the divisor.
LEMMA DivBelow ==
  ASSUME NEW n \in Nat, NEW d \in Nat \ {0}, NEW k \in Nat, n < k * d
  PROVE  n \div d < k
<1> DEFINE q == n \div d
<1>1. q \in Int /\ d * q <= n
  BY Z3
<1>2. CASE q >= k
  <2>1. d * q >= d * k
    BY <1>1, <1>2, Z3
  <2> QED BY <2>1, <1>1, Z3
<1> QED BY <1>1, <1>2

\* Counters that agree have a loss below the scale, as long as the products fit.
LEMMA LossRateBelow ==
  ASSUME NEW r \in 0 .. MaxExpected, NEW e \in 0 .. MaxExpected, Plausible(r, e)
  PROVE  LossRate(r, e) \in 0 .. LOSS_SCALE - 1
<1> USE MetricAssumption, ElpAssumption
<1>1. CASE e = 0
  BY <1>1 DEF LossRate
<1>2. CASE e > 0
  <2> DEFINE p == r * LOSS_SCALE
             q == p \div e
  <2>1. r \in Nat /\ e \in Nat \ {0} /\ MaxExpected \in Nat /\ r <= MaxExpected
        /\ LOSS_SCALE \in Nat \ {0}
    BY <1>2
  <2>2. p \in Nat /\ p <= MaxExpected * LOSS_SCALE
    BY <2>1, Z3
  <2>3. p \in Nat /\ p < U32 /\ U32 \in Nat
    BY <2>2
  <2>4. e <= p
    <3>1. e <= (1 + MAX_GAP) * r /\ 1 + MAX_GAP \in Nat /\ 1 + MAX_GAP <= LOSS_SCALE
      BY <2>1 DEF Plausible
    <3>2. (1 + MAX_GAP) * r <= LOSS_SCALE * r
      BY <3>1, <2>1, Z3
    <3>3. LOSS_SCALE * r = p
      BY <2>1, Z3
    <3> HIDE DEF p
    <3> QED BY <3>1, <3>2, <3>3, <2>1, <2>2, Z3
  <2>5. p <= LOSS_SCALE * e
    BY <2>1, Z3 DEF Plausible
  <2>6. q \in Nat /\ q >= 1
    <3> HIDE DEF p
    <3>1. q \in Nat
      BY <2>1, <2>2, DivBound
    <3>2. p < e * q + e
      BY <2>1, <2>2, Z3
    <3>3. CASE q = 0
      BY <3>2, <3>3, <2>4, <2>1, <2>2, Z3
    <3> QED BY <3>1, <3>3
  <2>7. q < LOSS_SCALE + 1
    <3>1. p < (LOSS_SCALE + 1) * e
      <4> HIDE DEF p
      <4>1. (LOSS_SCALE + 1) * e = LOSS_SCALE * e + e
        BY <2>1, Z3
      <4> QED BY <4>1, <2>5, <2>1, <2>2, Z3
    <3> HIDE DEF p
    <3> QED BY <3>1, <2>1, <2>2, DivBelow
  <2>8. p % U32 = p
    <3> HIDE DEF p
    <3> QED BY <2>3
  <2>9. LossRate(r, e) = (LOSS_SCALE - q) % U32
    BY <1>2, <2>8 DEF LossRate
  <2>10. LOSS_SCALE < U32
    <3>1. LOSS_SCALE <= LOSS_SCALE * EWMA_WEIGHT
      BY Z3
    <3> QED BY <3>1, <2>1, <2>3, Z3
  <2>11. (LOSS_SCALE - q) % U32 = LOSS_SCALE - q
    <3> HIDE DEF q
    <3> QED BY <2>6, <2>7, <2>10, <2>1, <2>3
  <2> HIDE DEF q
  <2> QED BY <2>6, <2>7, <2>9, <2>11, <2>1
<1> QED BY <1>1, <1>2

\* The average of two losses below the scale is below the scale.
LEMMA SmoothedBelow ==
  ASSUME NEW x \in 0 .. LOSS_SCALE - 1, NEW y \in 0 .. LOSS_SCALE - 1
  PROVE  Smoothed(x, y) \in 0 .. LOSS_SCALE - 1
<1> USE MetricAssumption, ElpAssumption
<1> DEFINE W == EWMA_WEIGHT  L == LOSS_SCALE  s == x + (W - 1) * y
<1>1. W \in Nat \ {0} /\ L \in Nat \ {0} /\ x \in Nat /\ y \in Nat /\ x <= L - 1
      /\ y <= L - 1 /\ U32 \in Nat /\ L * W < U32
  OBVIOUS
<1> HIDE DEF W, L
<1>2. s \in Nat /\ (W - 1) * y <= (W - 1) * (L - 1)
  BY <1>1, Z3
<1>3. (W - 1) * (L - 1) = L * W - W - L + 1
  BY <1>1, Z3
<1>4. s < L * W
  BY <1>1, <1>2, <1>3, Z3
<1>5. s % U32 = s
  <2>1. s < U32
    BY <1>1, <1>2, <1>4, Z3
  <2> HIDE DEF s
  <2> QED BY <2>1, <1>1, <1>2
<1>6. s \div W \in Nat /\ s \div W < L
  <2> HIDE DEF s
  <2> QED BY <1>1, <1>2, <1>4, DivBound, DivBelow
<1>7. Smoothed(x, y) = s \div W
  BY <1>5 DEF Smoothed, W, L
<1> HIDE DEF s
<1> QED BY <1>1, <1>6, <1>7 DEF L

LEMMA LinkCostType ==
  ASSUME NEW base \in u32, NEW e \in Nat
  PROVE  LinkCost(base, e) \in u32
<1> USE MetricAssumption
<1>1. CASE e < LOSS_SCALE
  <2>1. base * LOSS_SCALE \in Nat
    BY Z3 DEF u32
  <2>2. (base * LOSS_SCALE) % U32 \in u32
    BY <2>1, ModU32
  <2>3. LOSS_SCALE - e \in Nat \ {0}
    BY <1>1
  <2> DEFINE m == (base * LOSS_SCALE) % U32
  <2>4. m \div (LOSS_SCALE - e) \in Nat /\ m \div (LOSS_SCALE - e) <= m
    <3>1. m \in Nat
      BY <2>2 DEF u32
    <3> HIDE DEF m
    <3> QED BY <3>1, <2>3, DivBound
  <2>5. LinkCost(base, e) = m \div (LOSS_SCALE - e)
    BY <1>1 DEF LinkCost
  <2>6. m \in u32
    BY <2>2
  <2> HIDE DEF m
  <2> QED BY <2>4, <2>5, <2>6 DEF u32
<1>2. CASE ~(e < LOSS_SCALE)
  BY <1>2 DEF LinkCost, AIRTIME_MAX_VALUE, u32
<1> QED BY <1>1, <1>2

LEMMA BaseAirtimesType == BaseAirtimes \subseteq u32
<1> USE MetricAssumption, ElpAssumption
<1>1. ASSUME NEW r \in Nat \ {0}
      PROVE  BaseAirtime(r) \in u32
  <2>1. FRAME_TIME \div r \in Nat
    BY DivBound
  <2> QED BY <2>1, ModU32 DEF BaseAirtime
<1>2. AIRTIME_MAX_VALUE \in u32
  BY DEF AIRTIME_MAX_VALUE, u32
<1> QED BY <1>1, <1>2 DEF BaseAirtimes

-----------------------------------------------------------------------------
(* The counters. *)

\* One packet more, with the gap before it, keeps the counters in agreement.
LEMMA OneMore ==
  ASSUME NEW r \in Nat, NEW e \in Nat, NEW g \in 0 .. MAX_GAP, Plausible(r, e)
  PROVE  Plausible(r + 1, e + 1 + g)
<1>1. (1 + MAX_GAP) * (r + 1) = (1 + MAX_GAP) * r + (1 + MAX_GAP)
  BY ElpAssumption, Z3
<1>2. (1 + MAX_GAP) * r \in Nat
  BY ElpAssumption, Z3
<1> DEFINE m == (1 + MAX_GAP) * r
<1>3. e <= m /\ r <= e /\ m \in Nat
  BY <1>2 DEF Plausible
<1>4. e + 1 + g <= m + (1 + MAX_GAP)
  <2> HIDE DEF m
  <2> QED BY <1>3, ElpAssumption
<1> QED BY <1>1, <1>3, <1>4 DEF Plausible

LEMMA FirstOne == Plausible(1, 1) /\ Plausible(0, 0)
BY ElpAssumption, Z3 DEF Plausible

LEMMA GapType ==
  ASSUME NEW a \in Seqno, NEW b \in Seqno
  PROVE  Gap(a, b) \in 0 .. MAX_GAP
<1>1. SeqDiff(a, b) \in Int
  BY ElpAssumption DEF SeqDiff, Seqno
<1> QED BY <1>1, ElpAssumption DEF Gap

LEMMA SeqnoFacts ==
  /\ 0 \in Seqno
  /\ \A s \in Seqno : (s + 1) % (2 * SEQ_HALF) \in Seqno
BY ElpAssumption DEF Seqno

LEMMA SerialStart == Init => SerialInv
<1> SUFFICES ASSUME Init PROVE SerialInv
  OBVIOUS
<1> USE MetricAssumption, ElpAssumption
<1>1. TypeOK
  <2>1. e_pt_smoothed \in u32 /\ airtime_cost \in u32 /\ 0 \in u32
    BY DEF Init, u32, AIRTIME_MAX_VALUE
  <2>2. rx \in [pc : {"idle", "expected", "load", "received"}, seqno : Seqno,
                tmp : 0 .. MaxExpected]
    BY SeqnoFacts DEF Init, RxIdle
  <2>3. work \in [pc : {"idle", "rate", "reset", "cost", "oops"}, base : u32,
                  expected : 0 .. MaxExpected]
    BY <2>1 DEF Init, WorkIdle
  <2>4. /\ alive \in BOOLEAN /\ known \in BOOLEAN /\ fresh \in BOOLEAN
        /\ air \subseteq Packet /\ elp_seqno \in Seqno
        /\ elp_last_seqno \in Seqno /\ elp_latest_seqno \in Seqno
    BY SeqnoFacts DEF Init
  <2>5. /\ restarts \in 0 .. MaxRestarts /\ lost \in 0 .. MaxLost
        /\ elp_received \in 0 .. MaxExpected /\ elp_expected \in 0 .. MaxExpected
    BY DEF Init
  <2> QED BY <2>1, <2>2, <2>3, <2>4, <2>5 DEF TypeOK
<1>2. Apart /\ CountersAgree
  BY FirstOne DEF Init, Apart, CountersAgree, RxIdle, WorkIdle
<1>3. LossNeverTotal
  BY DEF Init, LossNeverTotal
<1> QED BY <1>1, <1>2, <1>3 DEF SerialInv

\* The neighbour, the air and the clock do not touch the counters.
LEMMA SerialSender ==
  ASSUME SerialInv, SendElp \/ Die \/ Restart \/ (\E p \in air : Lose(p)) \/ Age
  PROVE  SerialInv'
<1> USE MetricAssumption, ElpAssumption DEF SerialInv
<1>1. UNCHANGED <<elp_received, elp_expected, elp_last_seqno, rx, work, e_pt_smoothed,
                  airtime_cost, known, elp_latest_seqno>>
  BY DEF SendElp, Die, Restart, Lose, Age, counters, work_state, rx_state
<1>2. Apart' /\ CountersAgree' /\ LossNeverTotal'
  BY <1>1 DEF Apart, CountersAgree, LossNeverTotal, Plausible
<1>3. /\ alive' \in BOOLEAN /\ elp_seqno' \in Seqno /\ restarts' \in 0 .. MaxRestarts
      /\ fresh' \in BOOLEAN
  <2>1. CASE SendElp
    BY <2>1, SeqnoFacts DEF SendElp, rx_state, TypeOK
  <2>2. CASE Restart
    BY <2>2 DEF Restart, rx_state, TypeOK
  <2>3. CASE Die \/ (\E p \in air : Lose(p)) \/ Age
    BY <2>3 DEF Die, Lose, Age, rx_state, sender, TypeOK
  <2> QED BY <2>1, <2>2, <2>3
<1>4. air' \subseteq Packet /\ lost' \in 0 .. MaxLost
  <2>1. Probes \subseteq Packet
    BY DEF Probes, Packet, Seqno
  <2>2. [seqno |-> elp_seqno, probe |-> 0] \in Packet
    BY DEF TypeOK, Packet
  <2>3. CASE SendElp
    BY <2>1, <2>2, <2>3 DEF SendElp, TypeOK
  <2>4. CASE Die \/ Restart \/ (\E p \in air : Lose(p)) \/ Age
    BY <2>4 DEF Die, Restart, Lose, Age, TypeOK
  <2> QED BY <2>3, <2>4
<1>5. TypeOK'
  BY <1>1, <1>3, <1>4 DEF TypeOK
<1> QED BY <1>2, <1>5

LEMMA SerialReceive ==
  ASSUME SerialInv, Receive, Apart'
  PROVE  SerialInv'
<1> USE MetricAssumption, ElpAssumption DEF SerialInv
<1>1. CASE \E p \in air : Deliver(p)
  <2>1. PICK p \in air : Deliver(p)
    BY <1>1
  <2>2. p.seqno \in Seqno
    BY DEF TypeOK, Packet
  <2>3. Gap(p.seqno, elp_last_seqno) \in 0 .. MAX_GAP
    BY <2>2, GapType DEF TypeOK
  <2>4. rx.pc = "idle" /\ work.pc = "idle"
    BY <2>1 DEF Deliver, Apart
  <2>5. Plausible(elp_received, elp_expected)
    BY <2>4 DEF CountersAgree
  <2>6. Plausible(IF elp_last_seqno > 0 THEN elp_received + 1 ELSE 1, rx'.tmp)
    <3>1. elp_received \in Nat /\ elp_expected \in Nat
      BY DEF TypeOK
    <3>2. Plausible(elp_received + 1, elp_expected + 1 + Gap(p.seqno, elp_last_seqno))
      BY <3>1, <2>3, <2>5, OneMore
    <3>3. rx'.tmp = IF elp_last_seqno > 0
                      THEN elp_expected + 1 + Gap(p.seqno, elp_last_seqno) ELSE 1
      BY <2>1 DEF Deliver
    <3> QED BY <3>2, <3>3, FirstOne
  <2>7. rx'.tmp \in 0 .. MaxExpected
    BY <2>1, <2>3 DEF Deliver, TypeOK
  <2>8. UNCHANGED <<counters, elp_last_seqno, work_state, work>>
    BY <2>1 DEF Deliver
  <2>9. TypeOK'
    BY <2>1, <2>2, <2>7 DEF Deliver, TypeOK, sender, counters, work_state
  <2>10. CountersAgree'
    BY <2>1, <2>4, <2>5, <2>6, <2>8 DEF Deliver, CountersAgree, counters, Plausible
  <2> QED BY <2>8, <2>9, <2>10 DEF LossNeverTotal, work_state
<1>2. CASE StoreExpected
  <2>1. work.pc = "idle"
    BY <1>2 DEF StoreExpected, Apart
  <2>2. TypeOK'
    BY <1>2 DEF StoreExpected, TypeOK, sender, rx_state, work_state
  <2>3. CountersAgree'
    BY <1>2, <2>1 DEF StoreExpected, CountersAgree, rx_state, TypeOK, Plausible
  <2> QED BY <1>2, <2>2, <2>3 DEF LossNeverTotal, work_state, StoreExpected
<1>3. CASE LoadReceived
  <2>1. work.pc = "idle"
    BY <1>3 DEF LoadReceived, Apart
  <2>2. Plausible(rx'.tmp, elp_expected)
    BY <1>3 DEF LoadReceived, CountersAgree, TypeOK
  <2>3. rx'.tmp \in 0 .. MaxExpected
    BY <1>3, <2>2 DEF LoadReceived, TypeOK, Plausible
  <2>4. TypeOK'
    BY <1>3, <2>3 DEF LoadReceived, TypeOK, sender, rx_state, work_state, counters
  <2>5. CountersAgree'
    BY <1>3, <2>1, <2>2 DEF LoadReceived, CountersAgree, rx_state, TypeOK, Plausible, counters
  <2> QED BY <1>3, <2>4, <2>5 DEF LossNeverTotal, work_state, LoadReceived
<1>4. CASE StoreReceived
  <2>1. work.pc = "idle"
    BY <1>4 DEF StoreReceived, Apart
  <2>2. TypeOK'
    <3>1. rx' \in [pc : {"idle", "expected", "load", "received"}, seqno : Seqno,
                   tmp : 0 .. MaxExpected]
      BY <1>4, SeqnoFacts DEF StoreReceived, RxIdle
    <3>2. elp_latest_seqno' \in Seqno /\ fresh' \in BOOLEAN
      BY <1>4 DEF StoreReceived, TypeOK
    <3> QED BY <1>4, <3>1, <3>2 DEF StoreReceived, TypeOK, sender, work_state
  <2>3. CountersAgree'
    BY <1>4, <2>1 DEF StoreReceived, CountersAgree, TypeOK, Plausible, RxIdle
  <2> QED BY <1>4, <2>2, <2>3 DEF LossNeverTotal, work_state, StoreReceived
<1> QED BY <1>1, <1>2, <1>3, <1>4 DEF Receive

LEMMA SerialWorker ==
  ASSUME SerialInv, Worker, Apart'
  PROVE  SerialInv'
<1> USE MetricAssumption, ElpAssumption DEF SerialInv
<1>1. rx.pc = "idle" /\ rx' = rx
  BY DEF Worker, DivideByZero, LoadExpected, UpdateRate, ResetReceived, ResetExpected,
         Apart, WorkIdle, TypeOK
<1>2. CASE DivideByZero
  <2>1. TypeOK'
    BY <1>2 DEF DivideByZero, TypeOK, sender, rx_state, work_state, counters, WorkIdle, u32
  <2> QED BY <1>1, <1>2, <2>1 DEF DivideByZero, CountersAgree, LossNeverTotal, counters,
                                  work_state, WorkIdle, Plausible
<1>3. CASE LoadExpected
  <2>1. work'.base \in u32
    BY <1>3, BaseAirtimesType DEF LoadExpected
  <2>2. TypeOK'
    BY <1>3, <2>1 DEF LoadExpected, TypeOK, sender, rx_state, work_state, counters
  <2> QED BY <1>1, <1>3, <2>2 DEF LoadExpected, CountersAgree, LossNeverTotal, counters,
                                  work_state, Plausible
<1>4. CASE UpdateRate
  <2>1. Plausible(elp_received, work.expected)
    BY <1>1, <1>4 DEF UpdateRate, CountersAgree
  <2>2. LossRate(elp_received, work.expected) \in 0 .. LOSS_SCALE - 1
    BY <2>1, LossRateBelow DEF TypeOK
  <2>3. e_pt_smoothed \in 0 .. LOSS_SCALE - 1
    BY DEF TypeOK, LossNeverTotal, u32
  <2>4. e_pt_smoothed' \in 0 .. LOSS_SCALE - 1
    BY <1>4, <2>2, <2>3, SmoothedBelow DEF UpdateRate
  <2>5. LOSS_SCALE < U32
    <3>1. LOSS_SCALE <= LOSS_SCALE * EWMA_WEIGHT
      BY Z3
    <3>2. LOSS_SCALE * EWMA_WEIGHT \in Nat
      BY Z3
    <3> QED BY <3>1, <3>2, Z3
  <2>6. e_pt_smoothed' \in u32
    BY <2>4, <2>5 DEF u32
  <2>7. TypeOK'
    BY <1>4, <2>6 DEF UpdateRate, TypeOK, sender, rx_state, counters
  <2>8. CountersAgree'
    BY <1>1, <1>4 DEF UpdateRate, CountersAgree, rx_state, counters, Plausible, TypeOK
  <2> QED BY <2>4, <2>7, <2>8 DEF LossNeverTotal
<1>5. CASE ResetReceived
  <2>1. TypeOK'
    BY <1>5 DEF ResetReceived, TypeOK, sender, rx_state, work_state
  <2>2. CountersAgree'
    BY <1>1, <1>5 DEF ResetReceived, CountersAgree, TypeOK, Plausible
  <2> QED BY <1>5, <2>1, <2>2 DEF ResetReceived, LossNeverTotal, work_state
<1>6. CASE ResetExpected
  <2>1. airtime_cost' \in u32
    BY <1>6, LinkCostType DEF ResetExpected, TypeOK, u32
  <2>2. TypeOK'
    BY <1>6, <2>1 DEF ResetExpected, TypeOK, sender, rx_state, WorkIdle, u32
  <2>3. elp_received' = 0 /\ elp_expected' = 0
    BY <1>6 DEF ResetExpected, CountersAgree
  <2>4. CountersAgree'
    BY <1>1, <1>6, <2>3, FirstOne DEF ResetExpected, CountersAgree, WorkIdle, Plausible
  <2> QED BY <1>6, <2>2, <2>4 DEF ResetExpected, LossNeverTotal
<1> QED BY <1>2, <1>3, <1>4, <1>5, <1>6 DEF Worker

\* The inductive invariant of a run without races.
THEOREM SerialInvariant == SerialSpec => []SerialInv
<1>1. Init => SerialInv
  BY SerialStart
<1>2. SerialInv /\ [Next /\ Apart']_vars => SerialInv'
  <2> SUFFICES ASSUME SerialInv, [Next /\ Apart']_vars PROVE SerialInv'
    OBVIOUS
  <2>1. CASE UNCHANGED vars
    BY <2>1 DEF vars, sender, rx_state, counters, work_state, SerialInv, TypeOK, Apart,
                CountersAgree, LossNeverTotal, Plausible
  <2>2. CASE Next /\ Apart'
    BY <2>2, SerialSender, SerialReceive, SerialWorker DEF Next
  <2> QED BY <2>1, <2>2
<1> QED BY <1>1, <1>2, PTL DEF SerialSpec

\* Without a race between batadv_v_elp_neigh_update() and the worker, the loss of a
\* link stays below 100%, so that the division in
\* batadv_v_elp_airtime_metric_update() is sound and the cost stays finite.
THEOREM LossStaysBelow == SerialSpec => []LossNeverTotal
<1>1. SerialInv => LossNeverTotal
  BY DEF SerialInv
<1> QED BY <1>1, SerialInvariant, PTL
=============================================================================
