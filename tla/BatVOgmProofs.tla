--------------------------- MODULE BatVOgmProofs ----------------------------
(***************************************************************************)
(* Proofs about BatVOgm for every mesh, every number of interfaces and     *)
(* every width of the counters.                                            *)
(***************************************************************************)
EXTENDS BatVOgm, WellFoundedInduction, TLAPS

-----------------------------------------------------------------------------
(* The airtime arithmetic, for every width and every scale. *)

\* Reducing modulo the width gives a u32.
LEMMA ModU32 ==
  ASSUME NEW x \in Nat
  PROVE  x % U32 \in u32
BY MetricAssumption DEF u32

\* A quotient of naturals is a natural and not larger than the dividend.
LEMMA DivBound ==
  ASSUME NEW p \in Nat, NEW s \in Nat \ {0}
  PROVE  p \div s \in Nat /\ p \div s <= p
<1>1. p \div s \in Nat /\ s * (p \div s) <= p
  BY Z3
<1>2. \A q \in Nat : s * q >= q
  BY Z3
<1> QED BY <1>1, <1>2, Z3

\* A product with a factor of at least s, divided by s, is not smaller.
LEMMA DivGrows ==
  ASSUME NEW p \in Nat, NEW w \in Nat, NEW s \in Nat \ {0}, w >= s
  PROVE  (p * w) \div s >= p
<1> DEFINE q == (p * w) \div s
<1>1. q \in Int /\ p * w < s * q + s
  BY Z3
<1>2. p * s <= p * w
  BY Z3
<1>3. CASE q < p
  <2>1. s * (q + 1) <= s * p
    BY <1>1, <1>3, Z3
  <2> QED BY <2>1, <1>1, <1>2, Z3
<1> QED BY <1>1, <1>3

\* Division by a fixed number preserves the order.
LEMMA DivMonotone ==
  ASSUME NEW p \in Nat, NEW q \in Nat, NEW s \in Nat \ {0}, p <= q
  PROVE  p \div s <= q \div s
<1> DEFINE a == p \div s  b == q \div s
<1>1. /\ a \in Int /\ s * a <= p
      /\ b \in Int /\ q < s * b + s
  BY Z3
<1>2. CASE b < a
  <2>1. s * (b + 1) <= s * a
    BY <1>1, <1>2, Z3
  <2> QED BY <2>1, <1>1, Z3
<1> QED BY <1>1, <1>2

\* The node weight is a natural number.
LEMMA FactorType ==
  ASSUME NEW w \in [priority : Nat, duty_cycle : Nat, power_class : Nat]
  PROVE  batadv_node_weight_factor(w) \in Nat
<1> DEFINE duty_cycle      == IF w.duty_cycle = 0 THEN 1 ELSE w.duty_cycle
           priority_factor == (w.priority * WEIGHT_SCALE) \div PRIORITY_NEUTRAL
           duty_factor     == (FULL_DUTY * WEIGHT_SCALE) \div duty_cycle
           power_factor    == w.power_class * WEIGHT_SCALE
<1>1. duty_cycle \in Nat \ {0}
  OBVIOUS
<1>2. /\ w.priority * WEIGHT_SCALE \in Nat /\ FULL_DUTY * WEIGHT_SCALE \in Nat
      /\ power_factor \in Nat
      /\ WEIGHT_SCALE * WEIGHT_SCALE \in Nat \ {0}
  BY MetricAssumption, Z3
<1>3. priority_factor \in Nat /\ duty_factor \in Nat
  <2> HIDE DEF duty_cycle
  <2> QED BY <1>1, <1>2, DivBound, MetricAssumption
<1>4. priority_factor * duty_factor * power_factor \in Nat
  <2> HIDE DEF priority_factor, duty_factor, power_factor
  <2> QED BY <1>2, <1>3, Z3
<1> QED
  <2> HIDE DEF priority_factor, duty_factor, power_factor
  <2>1. (priority_factor * duty_factor * power_factor)
          \div (WEIGHT_SCALE * WEIGHT_SCALE) \in Nat
    BY <1>2, <1>4, DivBound
  <2> QED BY <2>1 DEF batadv_node_weight_factor, priority_factor, duty_factor,
                      power_factor, duty_cycle

\* batadv_v_forward_penalty() and the addition before it stay in the type.
LEMMA PenaltyType ==
  ASSUME NEW airtime \in u32, NEW outgoing \in {"default", "same", "other"},
         NEW full_duplex \in BOOLEAN, NEW hop_penalty \in Nat
  PROVE  batadv_v_forward_penalty(airtime, outgoing, full_duplex, hop_penalty) \in u32
<1>1. airtime \in Nat /\ airtime * HALF_DUPLEX_PENALTY \in Nat
      /\ airtime * hop_penalty \in Nat
  BY MetricAssumption, Z3 DEF u32
<1>2. ((airtime * hop_penalty) % U32) \div TQ_MAX_VALUE \in Nat
  BY <1>1, ModU32, DivBound, MetricAssumption DEF u32
<1>3. airtime + ((airtime * hop_penalty) % U32) \div TQ_MAX_VALUE \in Nat
  BY <1>1, <1>2
<1> QED BY <1>1, <1>3, ModU32 DEF batadv_v_forward_penalty

LEMMA PathAirtimeType ==
  ASSUME NEW p \in u32, NEW l \in u32
  PROVE  PathAirtime(p, l) \in u32
BY ModU32, MetricAssumption DEF PathAirtime, u32, AIRTIME_MAX_VALUE

LEMMA WeightedPathType ==
  ASSUME NEW path \in u32, NEW weight \in Nat
  PROVE  WeightedPath(path, weight) \in u32
<1>1. path * weight \in Nat
  BY MetricAssumption, Z3 DEF u32
<1>2. (path * weight) \div WEIGHT_SCALE \in Nat
      /\ (path * weight) \div WEIGHT_SCALE <= path * weight
  BY <1>1, DivBound, MetricAssumption
<1> QED BY <1>1, <1>2, MetricAssumption DEF WeightedPath, u32, AIRTIME_MAX_VALUE

\* A node that is not discounted never advertises less than its own cost.
LEMMA WeightedPathGrows ==
  ASSUME NEW path \in u32, NEW weight \in Nat, weight >= WEIGHT_SCALE
  PROVE  WeightedPath(path, weight) >= path
<1>1. path \in Nat /\ path <= AIRTIME_MAX_VALUE
  BY MetricAssumption DEF u32, AIRTIME_MAX_VALUE
<1>2. (path * weight) \div WEIGHT_SCALE >= path
  BY <1>1, DivGrows, MetricAssumption
<1>3. (path * weight) \div WEIGHT_SCALE \in Int
  BY <1>1, MetricAssumption, Z3
<1> QED BY <1>1, <1>2, <1>3, MetricAssumption DEF WeightedPath, AIRTIME_MAX_VALUE

\* Scaling by a node's weight in batadv_v_ogm_forward() never reorders two paths:
\* what the node considers at least as good it also advertises as at least as good.
THEOREM WeightPreservesOrder ==
  ASSUME NEW p \in u32, NEW q \in u32, NEW weight \in Nat, p <= q
  PROVE  WeightedPath(p, weight) <= WeightedPath(q, weight)
<1>1. p \in Nat /\ q \in Nat /\ q <= AIRTIME_MAX_VALUE
  BY MetricAssumption DEF u32, AIRTIME_MAX_VALUE
<1>2. p * weight \in Nat /\ q * weight \in Nat /\ p * weight <= q * weight
  BY <1>1, Z3
<1> DEFINE a == (p * weight) \div WEIGHT_SCALE
           b == (q * weight) \div WEIGHT_SCALE
<1>3. a \in Nat /\ b \in Nat /\ a <= b /\ a <= p * weight /\ b <= q * weight
  BY <1>2, DivBound, DivMonotone, MetricAssumption
<1>4. AIRTIME_MAX_VALUE \in Nat /\ AIRTIME_MAX_VALUE >= 1
  BY MetricAssumption DEF AIRTIME_MAX_VALUE
<1> QED
  <2> HIDE DEF a, b
  <2> DEFINE pw == p * weight  qw == q * weight
  <2>1. /\ WeightedPath(p, weight) =
             IF weight = WEIGHT_SCALE THEN p
             ELSE IF pw > AIRTIME_MAX_VALUE THEN AIRTIME_MAX_VALUE
             ELSE IF a = 0 THEN 1 ELSE a
        /\ WeightedPath(q, weight) =
             IF weight = WEIGHT_SCALE THEN q
             ELSE IF qw > AIRTIME_MAX_VALUE THEN AIRTIME_MAX_VALUE
             ELSE IF b = 0 THEN 1 ELSE b
    BY DEF WeightedPath, a, b
  <2>2. pw \in Nat /\ qw \in Nat /\ pw <= qw /\ a <= pw /\ b <= qw
    BY <1>2, <1>3
  <2> HIDE DEF pw, qw
  <2> QED BY <2>1, <2>2, <1>1, <1>3, <1>4

-----------------------------------------------------------------------------
(* Type correctness.                                                       *)

LEMMA SeqDiffType ==
  ASSUME NEW p \in Seqno, NEW q \in Seqno
  PROVE  SeqDiff(p, q) \in Int
BY OgmAssumption DEF SeqDiff, Seqno

LEMMA DefaultWeightType == DefaultWeight \in Weight
BY MetricAssumption DEF DefaultWeight, Weight

LEMMA NewOrigIfinfoType == NewOrigIfinfo \in OrigIfinfo
BY OgmAssumption DEF NewOrigIfinfo, OrigIfinfo, Seqno

LEMMA NewCostType ==
  ASSUME TypeOK, NEW n \in Node, NEW ogm \in OgmPacket, NEW nb \in Neigh,
         NEW x \in OutIf
  PROVE  NewCost(n, ogm, nb, x) \in u32
<1> DEFINE outgoing == IF x = DEFAULT THEN "default"
                       ELSE IF x = nb[1] THEN "same" ELSE "other"
           link_airtime == IF link[n][nb] = None THEN AIRTIME_MAX_VALUE ELSE link[n][nb]
<1>1. link_airtime \in u32
  BY MetricAssumption DEF TypeOK, u32, AIRTIME_MAX_VALUE
<1>2. ogm.airtime \in u32
  BY DEF OgmPacket
<1>3. PathAirtime(ogm.airtime, link_airtime) \in u32
  BY <1>1, <1>2, PathAirtimeType
<1>4. outgoing \in {"default", "same", "other"}
  OBVIOUS
<1> QED
  <2> HIDE DEF outgoing, link_airtime
  <2>1. batadv_v_forward_penalty(PathAirtime(ogm.airtime, link_airtime),
                                 outgoing, FullDuplex, HopPenalty) \in u32
    BY <1>3, <1>4, PenaltyType, OgmAssumption
  <2> QED BY <2>1 DEF NewCost, outgoing, link_airtime

LEMMA IfinfoOrNewType ==
  ASSUME TypeOK, NEW n \in Node, NEW o \in Addr, NEW x \in OutIf
  PROVE  IfinfoOrNew(n, o, x) \in OrigIfinfo
BY NewOrigIfinfoType DEF TypeOK, IfinfoOrNew

LEMMA RouterAfterType ==
  ASSUME TypeOK, NEW n \in Node, NEW ogm \in OgmPacket, NEW nb \in Neigh,
         NEW x \in OutIf
  PROVE  RouterAfter(n, ogm, nb, x) \in Neigh \cup {None}
<1>1. IfinfoOrNew(n, ogm.orig, x).router \in Neigh \cup {None}
  BY IfinfoOrNewType DEF OrigIfinfo, OgmPacket
<1> QED BY <1>1 DEF RouterAfter

LEMMA IfinfoAfterType ==
  ASSUME TypeOK, NEW n \in Node, NEW ogm \in OgmPacket, NEW nb \in Neigh,
         NEW x \in OutIf
  PROVE  IfinfoAfter(n, ogm, nb, x) \in OrigIfinfo
<1> DEFINE oi == IfinfoOrNew(n, ogm.orig, x)
<1>1. oi \in OrigIfinfo /\ ogm.seqno \in Seqno
  BY IfinfoOrNewType DEF OgmPacket
<1>2. oi.last_seqno_forwarded \in Seqno /\ oi.protected \in BOOLEAN
  BY <1>1 DEF OrigIfinfo
<1>3. RouterAfter(n, ogm, nb, x) \in Neigh \cup {None}
  BY RouterAfterType
<1> HIDE DEF oi
<1>4. CASE ~Accepted(n, ogm, x)
  BY <1>1, <1>4 DEF IfinfoAfter, oi
<1>5. CASE Accepted(n, ogm, x)
  <2>1. IfinfoAfter(n, ogm, nb, x) =
          [router |-> RouterAfter(n, ogm, nb, x),
           last_real_seqno |-> ogm.seqno,
           last_seqno_forwarded |-> IF Forwards(n, ogm, nb, x) THEN ogm.seqno
                                    ELSE oi.last_seqno_forwarded,
           protected |-> oi.protected
                           \/ OutsideWindow(SeqDiff(ogm.seqno, oi.last_real_seqno))]
    BY <1>5 DEF IfinfoAfter, oi
  <2>2. (oi.protected \/ OutsideWindow(SeqDiff(ogm.seqno, oi.last_real_seqno))) \in BOOLEAN
    OBVIOUS
  <2> QED BY <1>1, <1>2, <1>3, <2>1, <2>2 DEF OrigIfinfo
<1> QED BY <1>4, <1>5

LEMMA BroadcastType ==
  ASSUME NEW n \in Node, NEW f \in Iface, NEW ogm \in OgmPacket
  PROVE  Broadcast(n, f, ogm) \subseteq Copy
BY OgmAssumption DEF Broadcast, Copy, Addr

LEMMA ForwardedType ==
  ASSUME TypeOK, NEW n \in Node, NEW ogm \in OgmPacket, NEW nb \in Neigh,
         NEW x \in OutIf, ogm.ttl > 1
  PROVE  ForwardedOgm(n, ogm, nb, x) \in OgmPacket
<1> DEFINE w == WeightedPath(NewCost(n, ogm, nb, x),
                             batadv_node_weight_factor(node_weight[n]))
<1>1. w \in u32
  BY NewCostType, WeightedPathType, FactorType DEF TypeOK, Weight
<1>2. ogm.ttl - 1 \in 0 .. TTL
  BY OgmAssumption DEF OgmPacket
<1> HIDE DEF w
<1> QED BY <1>1, <1>2 DEF ForwardedOgm, OgmPacket, w

LEMMA TypeInit == Init => TypeOK
<1> SUFFICES ASSUME Init PROVE TypeOK
  OBVIOUS
<1>1. link \in [Node -> [Neigh -> u32 \cup {None}]]
  <2> PICK cost \in [KnownAtStart -> UNION {LinkCosts[l] : l \in KnownAtStart}] :
         link = [n \in Node |-> [nb \in Neigh |->
                   IF nb \in KnownNeigh(n) THEN cost[LinkOf(n, nb)] ELSE None]]
    BY DEF Init
  <2>1. \A l \in KnownAtStart : cost[l] \in u32
    BY OgmAssumption
  <2>2. \A n \in Node, nb \in Neigh :
          (IF nb \in KnownNeigh(n) THEN cost[LinkOf(n, nb)] ELSE None) \in u32 \cup {None}
    BY <2>1 DEF KnownNeigh
  <2> QED BY <2>2
<1>2. /\ if_active \in [Addr -> BOOLEAN] /\ ogm_seqno \in [Originators -> Seqno]
      /\ node_weight \in [Node -> Weight] /\ orig_weight \in [Node -> [Addr -> Weight]]
      /\ orig_age \in [Node -> [Addr -> 0 .. 2]]
  BY DefaultWeightType, OgmAssumption DEF Init
<1>3. /\ orig_hash \in [Node -> SUBSET Addr]
      /\ neigh_list \in [Node -> [Addr -> SUBSET Neigh]]
      /\ neigh_seen \in [Node -> [Addr -> [Neigh -> BOOLEAN]]]
  BY OgmAssumption DEF Init, KnownNeigh, Orig, Addr, Neigh
<1>4. /\ orig_ifinfo \in [Node -> [Addr -> [OutIf -> OrigIfinfo \cup {None}]]]
      /\ neigh_ifinfo \in [Node -> [Addr -> [Neigh -> [OutIf -> NeighIfinfo \cup {None}]]]]
  BY DEF Init, NoOrigIfinfo, NoNeighIfinfo
<1>5. air \subseteq Copy /\ ticks \in 0 .. MaxTicks /\ reboots \in 0 .. Restarts
  BY OgmAssumption DEF Init
<1> QED BY <1>1, <1>2, <1>3, <1>4, <1>5 DEF TypeOK

\* Updating one place of a nested function keeps its type.
LEMMA Update2 ==
  ASSUME NEW A, NEW B, NEW S, NEW F \in [A -> [B -> S]], NEW p \in A, NEW q \in B,
         NEW v \in S
  PROVE  [F EXCEPT ![p][q] = v] \in [A -> [B -> S]]
OBVIOUS

LEMMA Update3 ==
  ASSUME NEW A, NEW B, NEW C, NEW S, NEW F \in [A -> [B -> [C -> S]]],
         NEW p \in A, NEW q \in B, NEW r \in C, NEW v \in S
  PROVE  [F EXCEPT ![p][q][r] = v] \in [A -> [B -> [C -> S]]]
OBVIOUS

LEMMA TypeSend ==
  ASSUME TypeOK, NEW n \in Originators, SendOwn(n)
  PROVE  TypeOK'
<1> DEFINE ogm == [orig |-> Orig(n), seqno |-> ogm_seqno[n], airtime |-> 0,
                   ttl |-> TTL, weight |-> node_weight[n]]
<1>1. n \in Node /\ ogm \in OgmPacket
  BY OgmAssumption, MetricAssumption DEF TypeOK, OgmPacket, Orig, u32, Addr
<1> HIDE DEF ogm
<1>2. air' \subseteq Copy
  BY <1>1, BroadcastType DEF SendOwn, TypeOK, ogm
<1>3. ogm_seqno' \in [Originators -> Seqno]
  <2>1. \A k \in Nat, m \in Nat \ {0} : k % m \in 0 .. m - 1
    BY Z3
  <2>2. ogm_seqno[n] + 1 \in Nat /\ 2 * SEQ_HALF \in Nat \ {0}
    BY OgmAssumption DEF TypeOK, Seqno
  <2>3. (ogm_seqno[n] + 1) % (2 * SEQ_HALF) \in Seqno
    BY <2>1, <2>2 DEF Seqno
  <2> QED BY <2>3 DEF SendOwn, TypeOK
<1> QED BY <1>2, <1>3 DEF SendOwn, TypeOK, tables

LEMMA TypeReceive ==
  ASSUME TypeOK, NEW c \in air, ReceiveOgm(c)
  PROVE  TypeOK'
<1> DEFINE n == c.to[1]  ogm == c.ogm  o == ogm.orig  nb == <<c.to[2], c.src>>
      outifs == OutIfsFor(n, o, Orig(c.src[1]))
      accepting == {x \in outifs : Accepted(n, ogm, x)}
      sending   == {x \in outifs : Forwards(n, ogm, nb, x) /\ ogm.ttl > 1}
      newInfo == [x \in OutIf |-> IF x \in outifs THEN IfinfoAfter(n, ogm, nb, x)
                                                  ELSE orig_ifinfo[n][o][x]]
      newCosts == [x \in OutIf |-> IF x \in accepting
                                THEN [airtime_cost |-> NewCost(n, ogm, nb, x),
                                      last_seqno |-> ogm.seqno]
                                ELSE neigh_ifinfo[n][o][nb][x]]
<1>1. /\ c \in Copy /\ n \in Node /\ ogm \in OgmPacket /\ o \in Addr
      /\ nb \in Neigh /\ c.src \in Addr /\ outifs \subseteq OutIf
      /\ ogm.weight \in Weight /\ ogm.seqno \in Seqno
  BY DEF TypeOK, Copy, OgmPacket, Addr, Neigh, OutIf, OutIfsFor
<1>2. CASE Dropped(n, ogm, nb)
  BY <1>2 DEF ReceiveOgm, TypeOK, tables
<1>3. CASE ~Dropped(n, ogm, nb)
  <2>1. /\ orig_hash' = [orig_hash EXCEPT ![n] =
             @ \cup {o} \cup (IF accepting # {} THEN {c.src} ELSE {})]
        /\ orig_weight' = [orig_weight EXCEPT ![n][o] = ogm.weight]
        /\ \/ orig_age' = [orig_age EXCEPT ![n][o] = 0]
           \/ orig_age' = orig_age
        /\ neigh_list' = [neigh_list EXCEPT ![n][o] = @ \cup {nb}]
        /\ \/ neigh_seen' = [neigh_seen EXCEPT ![n][o][nb] = TRUE]
           \/ neigh_seen' = neigh_seen
    BY <1>3 DEF ReceiveOgm
  <2>2. /\ orig_ifinfo' = [orig_ifinfo EXCEPT ![n][o] = newInfo]
        /\ neigh_ifinfo' = [neigh_ifinfo EXCEPT ![n][o][nb] = newCosts]
    BY <1>3 DEF ReceiveOgm
  <2>3. /\ air' = (air \ {c}) \cup
             UNION {Broadcast(n, f, ForwardedOgm(n, ogm, nb, f)) : f \in sending}
        /\ UNCHANGED <<if_active, link, ogm_seqno, node_weight, ticks, reboots>>
    BY <1>3 DEF ReceiveOgm
  <2>4. sending \subseteq Iface /\ (sending # {} => ogm.ttl > 1)
    BY <1>1 DEF Forwards, OutIf
  <2> HIDE DEF n, ogm, o, nb, outifs, accepting, sending, newInfo, newCosts
  <2>5. orig_hash' \in [Node -> SUBSET Addr] /\ orig_weight' \in [Node -> [Addr -> Weight]]
    BY <1>1, <2>1 DEF TypeOK
  <2>6. orig_age' \in [Node -> [Addr -> 0 .. 2]]
    <3>1. orig_age \in [Node -> [Addr -> 0 .. 2]] /\ 0 \in 0 .. 2
      BY DEF TypeOK
    <3>2. [orig_age EXCEPT ![n][o] = 0] \in [Node -> [Addr -> 0 .. 2]]
      BY <1>1, <3>1, Update2
    <3> QED BY <2>1, <3>1, <3>2
  <2>7. neigh_list' \in [Node -> [Addr -> SUBSET Neigh]]
    BY <1>1, <2>1 DEF TypeOK
  <2>8. neigh_seen' \in [Node -> [Addr -> [Neigh -> BOOLEAN]]]
    <3>1. neigh_seen \in [Node -> [Addr -> [Neigh -> BOOLEAN]]]
      BY DEF TypeOK
    <3>2. [neigh_seen EXCEPT ![n][o][nb] = TRUE] \in [Node -> [Addr -> [Neigh -> BOOLEAN]]]
      BY <1>1, <3>1, Update3
    <3> QED BY <2>1, <3>1, <3>2
  <2>9. orig_ifinfo' \in [Node -> [Addr -> [OutIf -> OrigIfinfo \cup {None}]]]
    <3>1. \A x \in OutIf : IfinfoAfter(n, ogm, nb, x) \in OrigIfinfo
      BY <1>1, IfinfoAfterType
    <3>2. newInfo \in [OutIf -> OrigIfinfo \cup {None}]
      BY <1>1, <3>1 DEF TypeOK, newInfo
    <3> QED BY <1>1, <2>2, <3>2, Update2 DEF TypeOK
  <2>10. neigh_ifinfo' \in [Node -> [Addr -> [Neigh -> [OutIf -> NeighIfinfo \cup {None}]]]]
    <3>1. \A x \in OutIf : [airtime_cost |-> NewCost(n, ogm, nb, x),
                            last_seqno |-> ogm.seqno] \in NeighIfinfo
      BY <1>1, NewCostType DEF NeighIfinfo
    <3>2. newCosts \in [OutIf -> NeighIfinfo \cup {None}]
      BY <1>1, <3>1 DEF TypeOK, newCosts
    <3> QED BY ZenonT(40), <1>1, <2>2, <3>2, Update3 DEF TypeOK
  <2>11. air' \subseteq Copy
    <3>1. \A x \in sending : Broadcast(n, x, ForwardedOgm(n, ogm, nb, x)) \subseteq Copy
      BY <1>1, <2>4, ForwardedType, BroadcastType DEF OutIf
    <3> QED BY <2>3, <3>1 DEF TypeOK
  <2> QED BY <2>3, <2>5, <2>6, <2>7, <2>8, <2>9, <2>10, <2>11 DEF TypeOK
<1> QED BY <1>2, <1>3 DEF n, ogm, nb

LEMMA TypeElp ==
  ASSUME TypeOK, NEW n \in Node, NEW f \in Iface, NEW src \in Addr,
         ElpReceived(n, f, src)
  PROVE  TypeOK'
<1> DEFINE nb == <<f, src>>  o == Orig(src[1])
<1>1. nb \in Neigh /\ o \in Addr
  BY OgmAssumption DEF Neigh, Addr, Orig
<1>2. AIRTIME_MAX_VALUE \in u32
  BY MetricAssumption DEF AIRTIME_MAX_VALUE, u32
<1>3. /\ orig_hash' = [orig_hash EXCEPT ![n] = @ \cup {o}]
      /\ neigh_list' = [neigh_list EXCEPT ![n][o] = @ \cup {nb}]
      /\ neigh_seen' = [neigh_seen EXCEPT ![n][o][nb] = TRUE]
      /\ \/ link' = [link EXCEPT ![n][nb] = AIRTIME_MAX_VALUE]
         \/ link' = link
      /\ UNCHANGED <<if_active, ogm_seqno, node_weight, orig_weight, orig_age,
                     orig_ifinfo, neigh_ifinfo, air, ticks, reboots>>
  BY DEF ElpReceived
<1> HIDE DEF nb, o
<1>4. orig_hash' \in [Node -> SUBSET Addr]
  BY <1>1, <1>3 DEF TypeOK
<1>5. neigh_list' \in [Node -> [Addr -> SUBSET Neigh]]
  BY <1>1, <1>3 DEF TypeOK
<1>6. neigh_seen' \in [Node -> [Addr -> [Neigh -> BOOLEAN]]]
  <2>1. neigh_seen \in [Node -> [Addr -> [Neigh -> BOOLEAN]]]
    BY DEF TypeOK
  <2> QED BY <1>1, <1>3, <2>1, Update3
<1>7. link' \in [Node -> [Neigh -> u32 \cup {None}]]
  <2>1. link \in [Node -> [Neigh -> u32 \cup {None}]]
        /\ AIRTIME_MAX_VALUE \in u32 \cup {None}
    BY <1>2 DEF TypeOK
  <2>2. [link EXCEPT ![n][nb] = AIRTIME_MAX_VALUE] \in [Node -> [Neigh -> u32 \cup {None}]]
    BY <1>1, <2>1, Update2
  <2> QED BY <1>3, <2>1, <2>2
<1> QED BY <1>3, <1>4, <1>5, <1>6, <1>7 DEF TypeOK

LEMMA TypeMetric ==
  ASSUME TypeOK, NEW n \in Node, NEW nb \in Neigh, ElpMetric(n, nb)
  PROVE  TypeOK'
<1>1. PICK cost \in LinkCosts[LinkOf(n, nb)] : link' = [link EXCEPT ![n][nb] = cost]
  BY DEF ElpMetric
<1>2. cost \in u32
  <2>1. LinkOf(n, nb) \in Addr \X Addr
    BY DEF LinkOf, Neigh, Addr
  <2> QED BY <2>1, OgmAssumption
<1>3. link' \in [Node -> [Neigh -> u32 \cup {None}]]
  BY <1>1, <1>2 DEF TypeOK
<1> QED BY <1>3 DEF ElpMetric, TypeOK, tables

LEMMA TypeTick ==
  ASSUME TypeOK, Tick
  PROVE  TypeOK'
<1>1. orig_age' \in [Node -> [Addr -> 0 .. 2]]
  BY DEF Tick, TypeOK
<1>2. neigh_seen' \in [Node -> [Addr -> [Neigh -> BOOLEAN]]]
  BY DEF Tick
<1>3. ticks' \in 0 .. MaxTicks
  BY OgmAssumption DEF Tick, TypeOK
<1> QED BY <1>1, <1>2, <1>3 DEF Tick, TypeOK

LEMMA TypeProtection ==
  ASSUME TypeOK, NEW n \in Node, NEW o \in Addr, NEW x \in OutIf,
         ProtectionExpires(n, o, x)
  PROVE  TypeOK'
<1> DEFINE oi == [orig_ifinfo[n][o][x] EXCEPT !.protected = FALSE]
<1>1. orig_ifinfo[n][o][x] \in OrigIfinfo
  BY DEF ProtectionExpires, TypeOK
<1>2. oi \in OrigIfinfo
  BY <1>1 DEF OrigIfinfo
<1>3. orig_ifinfo' = [orig_ifinfo EXCEPT ![n][o][x] = oi]
  BY DEF ProtectionExpires, TypeOK
<1> HIDE DEF oi
<1>4. orig_ifinfo' \in [Node -> [Addr -> [OutIf -> OrigIfinfo \cup {None}]]]
  <2>1. orig_ifinfo \in [Node -> [Addr -> [OutIf -> OrigIfinfo \cup {None}]]]
        /\ oi \in OrigIfinfo \cup {None}
    BY <1>2 DEF TypeOK
  <2> QED BY <1>3, <2>1, Update3
<1> QED BY <1>4 DEF ProtectionExpires, TypeOK

LEMMA TypeReleased ==
  ASSUME TypeOK, NEW n \in Node, NEW o \in Addr, NEW H,
         link' = [link EXCEPT ![n] = [nb \in Neigh |->
                    IF nb \in Released(n, o, H) THEN None ELSE @[nb]]]
  PROVE  link' \in [Node -> [Neigh -> u32 \cup {None}]]
<1>1. [nb \in Neigh |-> IF nb \in Released(n, o, H) THEN None ELSE link[n][nb]]
        \in [Neigh -> u32 \cup {None}]
  BY DEF TypeOK
<1> QED BY <1>1 DEF TypeOK

LEMMA TypePurgeParts ==
  ASSUME TypeOK, NEW n \in Node, NEW o \in Addr, PurgeParts(n, o)
  PROVE  /\ link' \in [Node -> [Neigh -> u32 \cup {None}]]
         /\ neigh_list' \in [Node -> [Addr -> SUBSET Neigh]]
         /\ orig_ifinfo' \in [Node -> [Addr -> [OutIf -> OrigIfinfo \cup {None}]]]
         /\ neigh_ifinfo' \in
              [Node -> [Addr -> [Neigh -> [OutIf -> NeighIfinfo \cup {None}]]]]
<1> DEFINE H == SurvivingNeigh(n, o)
           info == [nb \in Neigh |-> [x \in OutIf |->
                     IF nb \in H /\ x \notin GoneOutIf(n)
                       THEN neigh_ifinfo[n][o][nb][x] ELSE None]]
           kept(r) == [x \in OutIf |->
                         IF x \in GoneOutIf(n) \/ orig_ifinfo[n][o][x] = None THEN None
                         ELSE [orig_ifinfo[n][o][x] EXCEPT !.router = r[x]]]
<1>1. H \in SUBSET Neigh
  BY DEF SurvivingNeigh, TypeOK
<1>2. /\ neigh_list' = [neigh_list EXCEPT ![n][o] = H]
      /\ neigh_ifinfo' = [neigh_ifinfo EXCEPT ![n][o] = info]
      /\ link' = [link EXCEPT ![n] = [nb \in Neigh |->
                    IF nb \in Released(n, o, H) THEN None ELSE @[nb]]]
      /\ \/ orig_ifinfo' = orig_ifinfo
         \/ \E r \in [OutIf -> H \cup {None}] :
              orig_ifinfo' = [orig_ifinfo EXCEPT ![n][o] = kept(r)]
  BY DEF PurgeParts
<1> HIDE DEF H
<1>3. link' \in [Node -> [Neigh -> u32 \cup {None}]]
  BY <1>2, TypeReleased
<1>4. neigh_list' \in [Node -> [Addr -> SUBSET Neigh]]
  BY <1>1, <1>2 DEF TypeOK
<1>5. neigh_ifinfo' \in [Node -> [Addr -> [Neigh -> [OutIf -> NeighIfinfo \cup {None}]]]]
  <2>1. info \in [Neigh -> [OutIf -> NeighIfinfo \cup {None}]]
    BY DEF TypeOK
  <2> HIDE DEF info
  <2>2. neigh_ifinfo \in [Node -> [Addr -> [Neigh -> [OutIf -> NeighIfinfo \cup {None}]]]]
    BY DEF TypeOK
  <2> QED BY <1>2, <2>1, <2>2, Update2
<1>6. orig_ifinfo' \in [Node -> [Addr -> [OutIf -> OrigIfinfo \cup {None}]]]
  <2>1. orig_ifinfo \in [Node -> [Addr -> [OutIf -> OrigIfinfo \cup {None}]]]
    BY DEF TypeOK
  <2>2. ASSUME NEW r \in [OutIf -> H \cup {None}]
        PROVE  kept(r) \in [OutIf -> OrigIfinfo \cup {None}]
    <3> SUFFICES ASSUME NEW x \in OutIf
                 PROVE  kept(r)[x] \in OrigIfinfo \cup {None}
      OBVIOUS
    <3>1. r[x] \in Neigh \cup {None}
      BY <1>1
    <3>2. orig_ifinfo[n][o][x] \in OrigIfinfo \cup {None}
      BY <2>1
    <3>3. orig_ifinfo[n][o][x] \in OrigIfinfo =>
            [orig_ifinfo[n][o][x] EXCEPT !.router = r[x]] \in OrigIfinfo
      BY <3>1 DEF OrigIfinfo
    <3> QED BY <3>2, <3>3
  <2> HIDE DEF kept
  <2>3. CASE \E r \in [OutIf -> H \cup {None}] :
               orig_ifinfo' = [orig_ifinfo EXCEPT ![n][o] = kept(r)]
    <3> PICK r \in [OutIf -> H \cup {None}] :
               orig_ifinfo' = [orig_ifinfo EXCEPT ![n][o] = kept(r)]
      BY <2>3
    <3> QED BY <2>1, <2>2, Update2
  <2> QED BY <1>2, <2>1, <2>3
<1> QED BY <1>3, <1>4, <1>5, <1>6

LEMMA TypePurge ==
  ASSUME TypeOK, NEW n \in Node, NEW o \in Addr, PurgeOrig(n, o)
  PROVE  TypeOK'
<1>1. CASE PurgeParts(n, o)
  <2>1. UNCHANGED <<if_active, ogm_seqno, node_weight, air, ticks, reboots,
                    orig_hash, orig_weight, orig_age, neigh_seen>>
    BY <1>1 DEF PurgeOrig, PurgeParts
  <2> QED BY <1>1, <2>1, TypePurgeParts DEF TypeOK
<1>2. CASE PurgeWhole(n, o)
  <2>1. /\ link' \in [Node -> [Neigh -> u32 \cup {None}]]
        /\ orig_hash' \in [Node -> SUBSET Addr]
        /\ neigh_list' \in [Node -> [Addr -> SUBSET Neigh]]
    BY <1>2, TypeReleased DEF PurgeWhole, TypeOK
  <2>2. orig_weight' \in [Node -> [Addr -> Weight]]
    BY <1>2, DefaultWeightType DEF PurgeWhole, TypeOK
  <2>3. orig_age' \in [Node -> [Addr -> 0 .. 2]]
    BY <1>2 DEF PurgeWhole, TypeOK
  <2>4. orig_ifinfo' \in [Node -> [Addr -> [OutIf -> OrigIfinfo \cup {None}]]]
    BY <1>2 DEF PurgeWhole, TypeOK, NoOrigIfinfo
  <2>5. neigh_ifinfo' \in [Node -> [Addr -> [Neigh -> [OutIf -> NeighIfinfo \cup {None}]]]]
    BY <1>2 DEF PurgeWhole, TypeOK, NoNeighIfinfo
  <2> QED BY <1>2, <2>1, <2>2, <2>3, <2>4, <2>5 DEF PurgeOrig, PurgeWhole, TypeOK
<1> QED BY <1>1, <1>2 DEF PurgeOrig

LEMMA TypeToggle ==
  ASSUME TypeOK, NEW a \in Addr, IfToggle(a)
  PROVE  TypeOK'
<1>1. if_active \in [Addr -> BOOLEAN] /\ if_active' = [if_active EXCEPT ![a] = ~@]
  BY DEF IfToggle, TypeOK
<1>2. if_active' \in [Addr -> BOOLEAN]
  BY <1>1, Zenon
<1> QED BY <1>2 DEF IfToggle, TypeOK, tables

LEMMA TypeWeight ==
  ASSUME TypeOK, NEW n \in Node, NEW w \in Weights[n], SetWeight(n, w)
  PROVE  TypeOK'
<1> DEFINE v == [priority    |-> w.priority,
                 duty_cycle  |-> IF w.duty_cycle <= FULL_DUTY THEN w.duty_cycle
                                 ELSE node_weight[n].duty_cycle,
                 power_class |-> IF w.power_class \in 1 .. 3 THEN w.power_class
                                 ELSE node_weight[n].power_class]
<1>1. w \in Weight /\ node_weight[n] \in Weight
  BY OgmAssumption DEF TypeOK
<1>2. v \in Weight
  BY <1>1 DEF Weight
<1>3. node_weight' = [node_weight EXCEPT ![n] = v]
  BY DEF SetWeight
<1> HIDE DEF v
<1>4. node_weight' \in [Node -> Weight]
  BY <1>2, <1>3 DEF TypeOK
<1> QED BY <1>4 DEF SetWeight, TypeOK, tables

LEMMA TypeRestart ==
  ASSUME TypeOK, NEW n \in Node, Restart(n)
  PROVE  TypeOK'
<1>1. /\ link' \in [Node -> [Neigh -> u32 \cup {None}]]
      /\ node_weight' \in [Node -> Weight]
      /\ orig_hash' \in [Node -> SUBSET Addr]
  BY DefaultWeightType DEF Restart, TypeOK
<1>2. ogm_seqno' \in [Originators -> Seqno]
  BY OgmAssumption DEF Restart, TypeOK
<1>3. /\ orig_weight' \in [Node -> [Addr -> Weight]]
      /\ orig_age' \in [Node -> [Addr -> 0 .. 2]]
  BY DefaultWeightType DEF Restart, TypeOK
<1>4. /\ neigh_list' \in [Node -> [Addr -> SUBSET Neigh]]
      /\ neigh_seen' \in [Node -> [Addr -> [Neigh -> BOOLEAN]]]
  BY DEF Restart, TypeOK
<1>5. orig_ifinfo' \in [Node -> [Addr -> [OutIf -> OrigIfinfo \cup {None}]]]
  BY DEF Restart, TypeOK, NoOrigIfinfo
<1>6. neigh_ifinfo' \in [Node -> [Addr -> [Neigh -> [OutIf -> NeighIfinfo \cup {None}]]]]
  BY DEF Restart, TypeOK, NoNeighIfinfo
<1>7. reboots' \in 0 .. Restarts
  BY OgmAssumption DEF Restart, TypeOK
<1> QED BY <1>1, <1>2, <1>3, <1>4, <1>5, <1>6, <1>7 DEF Restart, TypeOK

LEMMA TypeMesh == TypeOK /\ Mesh => TypeOK'
BY TypeSend, TypeElp, TypeMetric, TypeTick, TypeProtection, TypeToggle, TypeWeight
   DEF Mesh

LEMMA TypeNext == TypeOK /\ [Next]_vars => TypeOK'
<1> SUFFICES ASSUME TypeOK, [Next]_vars PROVE TypeOK'
  OBVIOUS
<1>1. CASE Next
  BY <1>1, TypeMesh, TypeReceive, TypePurge, TypeRestart DEF Next
<1>2. CASE UNCHANGED vars
  BY <1>2 DEF vars, tables, TypeOK
<1> QED BY <1>1, <1>2

\* The state of every node keeps its type through every handler, worker, purge,
\* administration step and reboot: costs stay in a u32 whatever wraps, and every
\* router is a neighbour.
THEOREM TypeCorrect == Spec => []TypeOK
BY TypeInit, TypeNext, PTL DEF Spec

-----------------------------------------------------------------------------
(* References between a node's tables.                                     *)

LEMMA NoneIsNoCost == None \notin u32 /\ None \notin Neigh /\ None \notin OrigIfinfo
BY OgmAssumption

LEMMA ReferencesInit == Init => ReferencesHold
<1> SUFFICES ASSUME Init, NEW n \in Node
             PROVE  /\ \A nb \in Neigh :
                         link[n][nb] # None <=> \E o \in Addr : nb \in neigh_list[n][o]
                    /\ \A o \in Addr : \A x \in OutIf :
                         RouterOf(n, o, x) # None => RouterOf(n, o, x) \in neigh_list[n][o]
                    /\ \A o \in Addr \ orig_hash[n] :
                         neigh_list[n][o] = {} /\ orig_ifinfo[n][o] = NoOrigIfinfo
  BY DEF ReferencesHold
<1>1. ASSUME NEW nb \in Neigh
      PROVE  link[n][nb] # None <=> \E o \in Addr : nb \in neigh_list[n][o]
  <2>1. Orig(nb[2][1]) \in Addr
    BY OgmAssumption DEF Orig, Addr, Neigh
  <2>2. (\E o \in Addr : nb \in neigh_list[n][o]) <=> nb \in KnownNeigh(n)
    BY <2>1 DEF Init
  <2>3. link[n][nb] # None <=> nb \in KnownNeigh(n)
    <3> PICK cost \in [KnownAtStart -> UNION {LinkCosts[l] : l \in KnownAtStart}] :
           /\ \A l \in KnownAtStart : cost[l] \in LinkCosts[l]
           /\ link = [m \in Node |-> [b \in Neigh |->
                       IF b \in KnownNeigh(m) THEN cost[LinkOf(m, b)] ELSE None]]
      BY DEF Init
    <3>1. link[n][nb] = IF nb \in KnownNeigh(n) THEN cost[LinkOf(n, nb)] ELSE None
      OBVIOUS
    <3>2. \A l \in KnownAtStart : cost[l] \in u32
      BY OgmAssumption
    <3> QED BY <3>1, <3>2, NoneIsNoCost DEF KnownNeigh
  <2> QED BY <2>2, <2>3
<1>2. \A o \in Addr, x \in OutIf : RouterOf(n, o, x) = None
  BY DEF Init, RouterOf, NoOrigIfinfo
<1>3. ASSUME NEW o \in Addr \ orig_hash[n]
      PROVE  neigh_list[n][o] = {} /\ orig_ifinfo[n][o] = NoOrigIfinfo
  BY DEF Init
<1> QED BY <1>1, <1>2, <1>3

\* A step that leaves these tables alone keeps their references.
LEMMA ReferencesUnchanged ==
  ASSUME ReferencesHold, UNCHANGED <<link, neigh_list, orig_ifinfo, orig_hash>>
  PROVE  ReferencesHold'
BY DEF ReferencesHold, RouterOf

\* What a step that changes one originator of one node has to show: a neighbour that is
\* still listed for it keeps its link, one that is listed for no originator any more loses
\* it, and the routers are listed.
LEMMA ReferencesAt ==
  ASSUME TypeOK, ReferencesHold, NEW n \in Node, NEW o \in Addr,
         NEW H \in SUBSET Neigh, NEW I,
         neigh_list' = [neigh_list EXCEPT ![n][o] = H],
         orig_ifinfo' = [orig_ifinfo EXCEPT ![n][o] = I],
         \A m \in Node \ {n} : link'[m] = link[m] /\ orig_hash'[m] = orig_hash[m],
         \A nb \in Neigh :
           link'[n][nb] # None <=>
             nb \in H \/ \E p \in Addr \ {o} : nb \in neigh_list[n][p],
         \A x \in OutIf : I[x] = None \/ I[x].router \in H \cup {None},
         orig_hash[n] \ {o} \subseteq orig_hash'[n],
         o \in orig_hash'[n] \/ (I = NoOrigIfinfo /\ \A nb \in Neigh : nb \notin H)
  PROVE  ReferencesHold'
<1>1. /\ neigh_list \in [Node -> [Addr -> SUBSET Neigh]]
      /\ orig_ifinfo \in [Node -> [Addr -> [OutIf -> OrigIfinfo \cup {None}]]]
  BY DEF TypeOK
<1>2. /\ neigh_list'[n][o] = H /\ orig_ifinfo'[n][o] = I
      /\ \A m \in Node, p \in Addr :
           m # n \/ p # o => /\ neigh_list'[m][p] = neigh_list[m][p]
                             /\ orig_ifinfo'[m][p] = orig_ifinfo[m][p]
  BY <1>1
<1> SUFFICES ASSUME NEW m \in Node
             PROVE  /\ \A nb \in Neigh :
                         link'[m][nb] # None <=> \E p \in Addr : nb \in neigh_list'[m][p]
                    /\ \A p \in Addr : \A x \in OutIf :
                         RouterOf(m, p, x)' # None => RouterOf(m, p, x)' \in neigh_list'[m][p]
                    /\ \A p \in Addr \ orig_hash'[m] :
                         neigh_list'[m][p] = {} /\ orig_ifinfo'[m][p] = NoOrigIfinfo
  BY DEF ReferencesHold
<1>3. \A nb \in Neigh : link'[m][nb] # None <=> \E p \in Addr : nb \in neigh_list'[m][p]
  <2>1. CASE m = n
    BY <2>1, <1>2
  <2>2. CASE m # n
    BY <2>2, <1>2 DEF ReferencesHold
  <2> QED BY <2>1, <2>2
<1>4. ASSUME NEW p \in Addr, NEW x \in OutIf, RouterOf(m, p, x)' # None
      PROVE  RouterOf(m, p, x)' \in neigh_list'[m][p]
  BY <1>2, <1>4 DEF ReferencesHold, RouterOf
<1>5. ASSUME NEW p \in Addr \ orig_hash'[m]
      PROVE  neigh_list'[m][p] = {} /\ orig_ifinfo'[m][p] = NoOrigIfinfo
  BY <1>2, <1>5 DEF ReferencesHold
<1> QED BY <1>3, <1>4, <1>5

\* An entry's router is the zero pointer or a neighbour of its originator.
LEMMA RoutersListed ==
  ASSUME ReferencesHold, NEW n \in Node, NEW o \in Addr, NEW x \in OutIf
  PROVE  orig_ifinfo[n][o][x] = None
           \/ orig_ifinfo[n][o][x].router \in neigh_list[n][o] \cup {None}
<1>1. RouterOf(n, o, x) # None => RouterOf(n, o, x) \in neigh_list[n][o]
  BY DEF ReferencesHold
<1> QED BY <1>1 DEF RouterOf

LEMMA ReferencesReceive ==
  ASSUME TypeOK, ReferencesHold, NEW c \in air, ReceiveOgm(c)
  PROVE  ReferencesHold'
<1> DEFINE n == c.to[1]  ogm == c.ogm  o == ogm.orig  nb == <<c.to[2], c.src>>
           outifs == OutIfsFor(n, o, Orig(c.src[1]))
           newInfo == [x \in OutIf |-> IF x \in outifs THEN IfinfoAfter(n, ogm, nb, x)
                                                       ELSE orig_ifinfo[n][o][x]]
<1>1. n \in Node /\ ogm \in OgmPacket /\ o \in Addr /\ nb \in Neigh
  BY DEF TypeOK, Copy, OgmPacket, Addr, Neigh
<1>2. CASE Dropped(n, ogm, nb)
  BY <1>2, ReferencesUnchanged DEF ReceiveOgm, tables
<1>3. CASE ~Dropped(n, ogm, nb)
  <2>1. /\ neigh_list' = [neigh_list EXCEPT ![n][o] = @ \cup {nb}]
        /\ orig_ifinfo' = [orig_ifinfo EXCEPT ![n][o] = newInfo]
        /\ UNCHANGED link
    BY <1>3 DEF ReceiveOgm
  <2>2. \E S : orig_hash' = [orig_hash EXCEPT ![n] = @ \cup {o} \cup S]
    BY <1>3 DEF ReceiveOgm
  <2>3. link[n][nb] # None
    BY <1>3 DEF Dropped
  <2>4. ASSUME NEW x \in OutIf
        PROVE  newInfo[x] = None \/ newInfo[x].router \in (neigh_list[n][o] \cup {nb}) \cup {None}
    <3>1. orig_ifinfo[n][o][x] = None
            \/ orig_ifinfo[n][o][x].router \in neigh_list[n][o] \cup {None}
      <4> HIDE DEF n, o
      <4> QED BY <1>1, RoutersListed
    <3>2. IfinfoOrNew(n, o, x).router \in neigh_list[n][o] \cup {None}
      <4> HIDE DEF n, o
      <4> QED BY <3>1 DEF IfinfoOrNew, NewOrigIfinfo
    <3>3. RouterAfter(n, ogm, nb, x) \in neigh_list[n][o] \cup {nb, None}
      BY <3>2 DEF RouterAfter
    <3>4. IfinfoAfter(n, ogm, nb, x).router \in neigh_list[n][o] \cup {nb, None}
      BY <3>2, <3>3 DEF IfinfoAfter
    <3> QED BY <3>1, <3>4
  <2> HIDE DEF n, ogm, o, nb, outifs, newInfo
  <2>5. neigh_list[n][o] \cup {nb} \in SUBSET Neigh
    BY <1>1 DEF TypeOK
  <2>6. neigh_list' = [neigh_list EXCEPT ![n][o] = neigh_list[n][o] \cup {nb}]
    BY <1>1, <2>1 DEF TypeOK
  <2>7. /\ \A m \in Node \ {n} : link'[m] = link[m] /\ orig_hash'[m] = orig_hash[m]
        /\ orig_hash[n] \subseteq orig_hash'[n] /\ o \in orig_hash'[n]
    BY <1>1, <2>1, <2>2 DEF TypeOK
  <2>8. \A b \in Neigh :
          link'[n][b] # None <=>
            b \in neigh_list[n][o] \cup {nb} \/ \E p \in Addr \ {o} : b \in neigh_list[n][p]
    BY <1>1, <2>1, <2>3 DEF ReferencesHold
  <2> QED BY <1>1, <2>1, <2>4, <2>5, <2>6, <2>7, <2>8, ReferencesAt
<1> QED BY <1>2, <1>3

LEMMA ReferencesElp ==
  ASSUME TypeOK, ReferencesHold, NEW n \in Node, NEW f \in Iface, NEW src \in Addr,
         ElpReceived(n, f, src)
  PROVE  ReferencesHold'
<1> DEFINE nb == <<f, src>>  o == Orig(src[1])  H == neigh_list[n][o] \cup {nb}
<1>1. nb \in Neigh /\ o \in Addr
  BY OgmAssumption DEF Neigh, Addr, Orig
<1>2. /\ orig_hash' = [orig_hash EXCEPT ![n] = @ \cup {o}]
      /\ neigh_list' = [neigh_list EXCEPT ![n][o] = @ \cup {nb}]
      /\ link' = IF link[n][nb] = None
                   THEN [link EXCEPT ![n][nb] = AIRTIME_MAX_VALUE] ELSE link
      /\ UNCHANGED orig_ifinfo
  BY DEF ElpReceived
<1>3. AIRTIME_MAX_VALUE # None
  BY MetricAssumption, NoneIsNoCost DEF AIRTIME_MAX_VALUE, u32
<1> HIDE DEF nb, o
<1>4. /\ link \in [Node -> [Neigh -> u32 \cup {None}]]
      /\ neigh_list \in [Node -> [Addr -> SUBSET Neigh]]
      /\ orig_ifinfo \in [Node -> [Addr -> [OutIf -> OrigIfinfo \cup {None}]]]
      /\ orig_hash \in [Node -> SUBSET Addr]
  BY DEF TypeOK
<1>5. H \in SUBSET Neigh /\ neigh_list' = [neigh_list EXCEPT ![n][o] = H]
  BY <1>1, <1>2, <1>4
<1>6. orig_ifinfo' = [orig_ifinfo EXCEPT ![n][o] = orig_ifinfo[n][o]]
  BY <1>1, <1>2, <1>4
<1>7. /\ \A m \in Node \ {n} : link'[m] = link[m] /\ orig_hash'[m] = orig_hash[m]
      /\ orig_hash[n] \subseteq orig_hash'[n] /\ o \in orig_hash'[n]
  BY <1>1, <1>2, <1>4
<1>8. \A b \in Neigh : link'[n][b] # None <=> link[n][b] # None \/ b = nb
  BY <1>1, <1>2, <1>3, <1>4
<1>9. \A b \in Neigh :
        link'[n][b] # None <=> b \in H \/ \E p \in Addr \ {o} : b \in neigh_list[n][p]
  BY <1>1, <1>8 DEF ReferencesHold
<1>10. \A x \in OutIf : \/ orig_ifinfo[n][o][x] = None
                        \/ orig_ifinfo[n][o][x].router \in H \cup {None}
  BY <1>1 DEF ReferencesHold, RouterOf
<1> HIDE DEF H
<1> QED BY <1>1, <1>5, <1>6, <1>7, <1>9, <1>10, ReferencesAt

LEMMA ReferencesMetric ==
  ASSUME TypeOK, ReferencesHold, NEW n \in Node, NEW nb \in Neigh, ElpMetric(n, nb)
  PROVE  ReferencesHold'
<1>1. PICK cost \in LinkCosts[LinkOf(n, nb)] : link' = [link EXCEPT ![n][nb] = cost]
  BY DEF ElpMetric
<1>2. cost # None
  <2>1. LinkOf(n, nb) \in Addr \X Addr
    BY DEF LinkOf, Neigh, Addr
  <2> QED BY <2>1, OgmAssumption, NoneIsNoCost
<1>3. \A m \in Node, b \in Neigh : link'[m][b] # None <=> link[m][b] # None
  BY <1>1, <1>2 DEF TypeOK, ElpMetric
<1>4. UNCHANGED <<neigh_list, orig_ifinfo, orig_hash>>
  BY DEF ElpMetric, tables
<1> QED BY <1>3, <1>4 DEF ReferencesHold, RouterOf

LEMMA ReferencesProtection ==
  ASSUME TypeOK, ReferencesHold, NEW n \in Node, NEW o \in Addr, NEW x \in OutIf,
         ProtectionExpires(n, o, x)
  PROVE  ReferencesHold'
<1> DEFINE oi == [orig_ifinfo[n][o][x] EXCEPT !.protected = FALSE]
           I == [orig_ifinfo[n][o] EXCEPT ![x] = oi]
<1>1. orig_ifinfo[n][o][x] \in OrigIfinfo /\ orig_ifinfo[n][o][x] # None
  BY DEF ProtectionExpires, TypeOK
<1>2. oi \in OrigIfinfo /\ oi.router = orig_ifinfo[n][o][x].router
  BY <1>1 DEF OrigIfinfo
<1>3. /\ orig_ifinfo' = [orig_ifinfo EXCEPT ![n][o] = I]
      /\ UNCHANGED <<link, neigh_list, orig_hash>>
  BY DEF ProtectionExpires, TypeOK
<1> HIDE DEF oi
<1>4. /\ neigh_list \in [Node -> [Addr -> SUBSET Neigh]]
      /\ orig_ifinfo \in [Node -> [Addr -> [OutIf -> OrigIfinfo \cup {None}]]]
  BY DEF TypeOK
<1>5. neigh_list' = [neigh_list EXCEPT ![n][o] = neigh_list[n][o]]
      /\ neigh_list[n][o] \in SUBSET Neigh
  BY <1>3, <1>4
<1>6. \A y \in OutIf : I[y] = None \/ I[y].router \in neigh_list[n][o] \cup {None}
  BY <1>1, <1>2, <1>4 DEF ReferencesHold, RouterOf
<1>7. o \in orig_hash[n]
  BY <1>1 DEF ReferencesHold, NoOrigIfinfo
<1>8. \A nb \in Neigh :
        link'[n][nb] # None <=>
          nb \in neigh_list[n][o] \/ \E p \in Addr \ {o} : nb \in neigh_list[n][p]
  BY <1>3 DEF ReferencesHold
<1> HIDE DEF I
<1> QED BY <1>3, <1>5, <1>6, <1>7, <1>8, ReferencesAt

\* After a purge of o to the neighbours H the links that nobody refers to are gone.
LEMMA ReferencesReleased ==
  ASSUME TypeOK, ReferencesHold, NEW n \in Node, NEW o \in Addr,
         NEW H \in SUBSET neigh_list[n][o],
         \A nb \in Neigh :
           link'[n][nb] = IF nb \in Released(n, o, H) THEN None ELSE link[n][nb]
  PROVE  \A nb \in Neigh :
           link'[n][nb] # None <=>
             nb \in H \/ \E p \in Addr \ {o} : nb \in neigh_list[n][p]
BY DEF ReferencesHold, Released

LEMMA ReferencesPurgeParts ==
  ASSUME TypeOK, ReferencesHold, NEW n \in Node, NEW o \in orig_hash[n],
         PurgeParts(n, o)
  PROVE  ReferencesHold'
<1> DEFINE H == SurvivingNeigh(n, o)
           kept(r) == [x \in OutIf |->
                         IF x \in GoneOutIf(n) \/ orig_ifinfo[n][o][x] = None THEN None
                         ELSE [orig_ifinfo[n][o][x] EXCEPT !.router = r[x]]]
<1>1. /\ neigh_list' = [neigh_list EXCEPT ![n][o] = H]
      /\ link' = [link EXCEPT ![n] = [nb \in Neigh |->
                    IF nb \in Released(n, o, H) THEN None ELSE @[nb]]]
      /\ \/ H = neigh_list[n][o] /\ UNCHANGED orig_ifinfo
         \/ \E r \in [OutIf -> H \cup {None}] :
              orig_ifinfo' = [orig_ifinfo EXCEPT ![n][o] = kept(r)]
      /\ UNCHANGED orig_hash
  BY DEF PurgeParts
<1>2. /\ neigh_list \in [Node -> [Addr -> SUBSET Neigh]]
      /\ orig_ifinfo \in [Node -> [Addr -> [OutIf -> OrigIfinfo \cup {None}]]]
      /\ o \in Addr
  BY DEF TypeOK
<1>3. H \in SUBSET neigh_list[n][o] /\ H \in SUBSET Neigh
  BY <1>2 DEF SurvivingNeigh
<1> HIDE DEF H
<1>4. /\ \A m \in Node \ {n} : link'[m] = link[m]
      /\ \A nb \in Neigh :
           link'[n][nb] # None <=> nb \in H \/ \E p \in Addr \ {o} : nb \in neigh_list[n][p]
  <2>1. /\ \A m \in Node \ {n} : link'[m] = link[m]
        /\ \A nb \in Neigh :
             link'[n][nb] = IF nb \in Released(n, o, H) THEN None ELSE link[n][nb]
    BY <1>1 DEF TypeOK
  <2> QED BY ZenonT(40), <1>2, <1>3, <2>1, ReferencesReleased
<1>5. PICK I : /\ orig_ifinfo' = [orig_ifinfo EXCEPT ![n][o] = I]
               /\ \A x \in OutIf : I[x] = None \/ I[x].router \in H \cup {None}
  <2>1. CASE H = neigh_list[n][o] /\ UNCHANGED orig_ifinfo
    <3>1. orig_ifinfo' = [orig_ifinfo EXCEPT ![n][o] = orig_ifinfo[n][o]]
      BY <1>2, <2>1
    <3>2. \A x \in OutIf : \/ orig_ifinfo[n][o][x] = None
                           \/ orig_ifinfo[n][o][x].router \in H \cup {None}
      BY <1>2, <2>1 DEF ReferencesHold, RouterOf
    <3> QED BY <3>1, <3>2
  <2>2. ASSUME NEW r \in [OutIf -> H \cup {None}],
               orig_ifinfo' = [orig_ifinfo EXCEPT ![n][o] = kept(r)]
        PROVE  \A x \in OutIf : kept(r)[x] = None \/ kept(r)[x].router \in H \cup {None}
    <3> SUFFICES ASSUME NEW x \in OutIf, kept(r)[x] # None
                 PROVE  kept(r)[x].router \in H \cup {None}
      OBVIOUS
    <3>1. orig_ifinfo[n][o][x] \in OrigIfinfo
      BY <1>2
    <3>2. kept(r)[x].router = r[x]
      BY <3>1 DEF OrigIfinfo
    <3> QED BY <3>2
  <2> HIDE DEF kept
  <2> QED BY <1>1, <2>1, <2>2
<1>6. /\ \A m \in Node \ {n} : link'[m] = link[m] /\ orig_hash'[m] = orig_hash[m]
      /\ orig_hash[n] \ {o} \subseteq orig_hash'[n] /\ o \in orig_hash'[n]
      /\ neigh_list' = [neigh_list EXCEPT ![n][o] = H]
      /\ o \in Addr /\ H \in SUBSET Neigh
  BY <1>1, <1>2, <1>3, <1>4
<1> QED BY <1>4, <1>5, <1>6, ReferencesAt

LEMMA ReferencesPurgeWhole ==
  ASSUME TypeOK, ReferencesHold, NEW n \in Node, NEW o \in orig_hash[n],
         PurgeWhole(n, o)
  PROVE  ReferencesHold'
<1>1. PICK H \in SUBSET Neigh, I \in {NoOrigIfinfo} :
        /\ H = {}
        /\ neigh_list' = [neigh_list EXCEPT ![n][o] = H]
        /\ orig_ifinfo' = [orig_ifinfo EXCEPT ![n][o] = I]
        /\ link' = [link EXCEPT ![n] = [nb \in Neigh |->
                      IF nb \in Released(n, o, H) THEN None ELSE @[nb]]]
        /\ orig_hash' = [orig_hash EXCEPT ![n] = @ \ {o}]
  BY DEF PurgeWhole
<1>2. /\ o \in Addr /\ orig_hash \in [Node -> SUBSET Addr]
      /\ \A m \in Node \ {n} : link'[m] = link[m]
      /\ \A nb \in Neigh :
           link'[n][nb] = IF nb \in Released(n, o, H) THEN None ELSE link[n][nb]
  BY <1>1 DEF TypeOK
<1>3. H \in SUBSET neigh_list[n][o]
  BY <1>1
<1>4. \A nb \in Neigh :
        link'[n][nb] # None <=> nb \in H \/ \E p \in Addr \ {o} : nb \in neigh_list[n][p]
  BY <1>2, <1>3, ReferencesReleased
<1>5. /\ \A m \in Node \ {n} : link'[m] = link[m] /\ orig_hash'[m] = orig_hash[m]
      /\ orig_hash[n] \ {o} \subseteq orig_hash'[n]
  BY <1>1, <1>2
<1>6. \A x \in OutIf : I[x] = None \/ I[x].router \in H \cup {None}
  BY <1>1 DEF NoOrigIfinfo
<1>7. /\ o \in Addr /\ H \in SUBSET Neigh
      /\ neigh_list' = [neigh_list EXCEPT ![n][o] = H]
      /\ orig_ifinfo' = [orig_ifinfo EXCEPT ![n][o] = I]
  BY <1>1, <1>2
<1>8. o \in orig_hash'[n] \/ (I = NoOrigIfinfo /\ \A nb \in Neigh : nb \notin H)
  BY <1>1
<1> QED BY <1>4, <1>5, <1>6, <1>7, <1>8, ReferencesAt

LEMMA ReferencesRestart ==
  ASSUME TypeOK, ReferencesHold, NEW n \in Node, Restart(n)
  PROVE  ReferencesHold'
<1>1. /\ \A m \in Node \ {n} :
           /\ link'[m] = link[m] /\ orig_hash'[m] = orig_hash[m]
           /\ neigh_list'[m] = neigh_list[m] /\ orig_ifinfo'[m] = orig_ifinfo[m]
      /\ \A nb \in Neigh : link'[n][nb] = None
      /\ \A o \in Addr : neigh_list'[n][o] = {} /\ orig_ifinfo'[n][o] = NoOrigIfinfo
  BY DEF Restart, TypeOK
<1> SUFFICES ASSUME NEW m \in Node
             PROVE  /\ \A nb \in Neigh :
                         link'[m][nb] # None <=> \E p \in Addr : nb \in neigh_list'[m][p]
                    /\ \A p \in Addr : \A x \in OutIf :
                         RouterOf(m, p, x)' # None => RouterOf(m, p, x)' \in neigh_list'[m][p]
                    /\ \A p \in Addr \ orig_hash'[m] :
                         neigh_list'[m][p] = {} /\ orig_ifinfo'[m][p] = NoOrigIfinfo
  BY DEF ReferencesHold
<1>2. CASE m = n
  BY <1>1, <1>2 DEF RouterOf, NoOrigIfinfo
<1>3. CASE m # n
  BY <1>1, <1>3 DEF ReferencesHold, RouterOf
<1> QED BY <1>2, <1>3

LEMMA ReferencesNext == TypeOK /\ ReferencesHold /\ [Next]_vars => ReferencesHold'
<1> SUFFICES ASSUME TypeOK, ReferencesHold, [Next]_vars PROVE ReferencesHold'
  OBVIOUS
<1>1. ASSUME NEW n \in Originators, SendOwn(n) PROVE ReferencesHold'
  BY <1>1, ReferencesUnchanged DEF SendOwn, tables
<1>2. CASE Tick
  BY <1>2, ReferencesUnchanged DEF Tick
<1>3. ASSUME NEW a \in Addr, IfToggle(a) PROVE ReferencesHold'
  BY <1>3, ReferencesUnchanged DEF IfToggle, tables
<1>4. ASSUME NEW n \in Node, NEW w \in Weights[n], SetWeight(n, w) PROVE ReferencesHold'
  BY <1>4, ReferencesUnchanged DEF SetWeight, tables
<1>5. CASE Mesh
  BY <1>1, <1>2, <1>3, <1>4, <1>5, ReferencesElp, ReferencesMetric, ReferencesProtection
     DEF Mesh
<1>6. ASSUME NEW n \in Node, NEW o \in Addr, PurgeOrig(n, o) PROVE ReferencesHold'
  BY <1>6, ReferencesPurgeParts, ReferencesPurgeWhole DEF PurgeOrig
<1>7. CASE UNCHANGED vars
  BY <1>7, ReferencesUnchanged DEF vars, tables
<1> QED BY <1>5, <1>6, <1>7, ReferencesReceive, ReferencesRestart DEF Next

\* No reference dangles: a hardif_neigh exists exactly as long as an originator lists it,
\* every router is listed, and what is not in the hash has left nothing behind, whatever
\* order OGMs, ELPs, purges, interfaces going down and reboots come in
\* (batadv_neigh_node_create(), batadv_purge_orig_node()).
THEOREM ReferencesAlwaysHold == Spec => []ReferencesHold
BY TypeCorrect, ReferencesInit, ReferencesNext, PTL DEF Spec

-----------------------------------------------------------------------------
(* Routers keep up as long as no purge replaces one.                       *)

LEMMA KeptStep == [KeptNext]_vars => [Next]_vars
BY DEF KeptNext, Next

KeptInv == RouterHasIfinfo /\ RouterKeepsUp

\* What KeptInv says of one interface, of its ifinfo I and of the neighbours' ones J.
KeepsUp(I, J, x) ==
  I[x] # None /\ I[x].router # None =>
    /\ J[I[x].router][x] # None
    /\ SeqDiff(I[x].last_real_seqno, J[I[x].router][x].last_seqno) < OGM_MAX_ORIGDIFF

LEMMA KeptIs ==
  KeptInv <=> \A n \in Node, o \in Addr, x \in OutIf :
                KeepsUp(orig_ifinfo[n][o], neigh_ifinfo[n][o], x)
BY DEF KeptInv, RouterHasIfinfo, RouterKeepsUp, KeepsUp, RouteInfo, RouterOf

LEMMA KeptIsPrimed ==
  KeptInv' <=> \A n \in Node, o \in Addr, x \in OutIf :
                 KeepsUp(orig_ifinfo'[n][o], neigh_ifinfo'[n][o], x)
BY DEF KeptInv, RouterHasIfinfo, RouterKeepsUp, KeepsUp, RouteInfo, RouterOf

LEMMA KeptUnchanged ==
  ASSUME KeptInv, UNCHANGED <<orig_ifinfo, neigh_ifinfo>>
  PROVE  KeptInv'
BY KeptIs, KeptIsPrimed

\* A step that changes one originator of one node.
LEMMA KeptAt ==
  ASSUME TypeOK, KeptInv, NEW n \in Node, NEW o \in Addr, NEW I, NEW J,
         orig_ifinfo' = [orig_ifinfo EXCEPT ![n][o] = I],
         neigh_ifinfo' = [neigh_ifinfo EXCEPT ![n][o] = J],
         \A x \in OutIf : KeepsUp(I, J, x)
  PROVE  KeptInv'
<1>1. /\ orig_ifinfo \in [Node -> [Addr -> [OutIf -> OrigIfinfo \cup {None}]]]
      /\ neigh_ifinfo \in [Node -> [Addr -> [Neigh -> [OutIf -> NeighIfinfo \cup {None}]]]]
  BY DEF TypeOK
<1> SUFFICES ASSUME NEW m \in Node, NEW p \in Addr, NEW x \in OutIf
             PROVE  KeepsUp(orig_ifinfo'[m][p], neigh_ifinfo'[m][p], x)
  BY KeptIsPrimed
<1>2. CASE m = n /\ p = o
  BY <1>1, <1>2
<1>3. CASE ~(m = n /\ p = o)
  <2>1. orig_ifinfo'[m][p] = orig_ifinfo[m][p] /\ neigh_ifinfo'[m][p] = neigh_ifinfo[m][p]
    BY <1>1, <1>3
  <2> QED BY <2>1, KeptIs
<1> QED BY <1>2, <1>3

LEMMA SeqDiffSelf ==
  ASSUME NEW s \in Seqno
  PROVE  SeqDiff(s, s) < OGM_MAX_ORIGDIFF
<1>1. SeqDiff(s, s) = 0
  BY OgmAssumption DEF SeqDiff, Seqno
<1> QED BY <1>1, OgmAssumption

LEMMA KeptReceive ==
  ASSUME TypeOK, KeptInv, NEW c \in air, ReceiveOgm(c)
  PROVE  KeptInv'
<1> DEFINE n == c.to[1]  ogm == c.ogm  o == ogm.orig  nb == <<c.to[2], c.src>>
           outifs == OutIfsFor(n, o, Orig(c.src[1]))
           accepting == {x \in outifs : Accepted(n, ogm, x)}
           I == [x \in OutIf |-> IF x \in outifs THEN IfinfoAfter(n, ogm, nb, x)
                                                 ELSE orig_ifinfo[n][o][x]]
           costs == [x \in OutIf |-> IF x \in accepting
                                  THEN [airtime_cost |-> NewCost(n, ogm, nb, x),
                                        last_seqno |-> ogm.seqno]
                                  ELSE neigh_ifinfo[n][o][nb][x]]
           J == [neigh_ifinfo[n][o] EXCEPT ![nb] = costs]
<1>1. n \in Node /\ ogm \in OgmPacket /\ o \in Addr /\ nb \in Neigh /\ ogm.seqno \in Seqno
  BY DEF TypeOK, Copy, OgmPacket, Addr, Neigh
<1>2. CASE Dropped(n, ogm, nb)
  BY <1>2, KeptUnchanged DEF ReceiveOgm, tables
<1>3. CASE ~Dropped(n, ogm, nb)
  <2>1. /\ orig_ifinfo' = [orig_ifinfo EXCEPT ![n][o] = I]
        /\ neigh_ifinfo' = [neigh_ifinfo EXCEPT ![n][o][nb] = costs]
    BY <1>3 DEF ReceiveOgm
  <2>2. ASSUME NEW x \in OutIf
        PROVE  KeepsUp(I, J, x)
    <3> DEFINE oi == IfinfoOrNew(n, o, x)
    <3>1. neigh_ifinfo[n][o] \in [Neigh -> [OutIf -> NeighIfinfo \cup {None}]]
      BY <1>1 DEF TypeOK
    <3>2. KeepsUp(orig_ifinfo[n][o], neigh_ifinfo[n][o], x)
      BY <1>1, KeptIs
    <3>3. J[nb] = costs /\ \A b \in Neigh \ {nb} : J[b] = neigh_ifinfo[n][o][b]
      BY <1>1, <3>1
    <3>4. orig_ifinfo[n][o][x] # None => orig_ifinfo[n][o][x].router \in Neigh \cup {None}
      BY <1>1 DEF TypeOK, OrigIfinfo
    <3>5. CASE x \notin accepting
      <4>1. \A b \in Neigh : J[b][x] = neigh_ifinfo[n][o][b][x]
        <5>1. costs[x] = neigh_ifinfo[n][o][nb][x]
          BY <3>5
        <5> HIDE DEF I, J, costs, oi, accepting, outifs, n, ogm, o, nb
        <5> QED BY <3>3, <5>1
      <4>2. I[x] # None /\ I[x].router # None => I[x] = orig_ifinfo[n][o][x]
        BY <3>5 DEF IfinfoAfter, IfinfoOrNew, NewOrigIfinfo
      <4> HIDE DEF I, J
      <4> QED BY <3>2, <3>4, <4>1, <4>2 DEF KeepsUp
    <3>6. CASE x \in accepting
      <4>1. /\ I[x].router = RouterAfter(n, ogm, nb, x)
            /\ I[x].last_real_seqno = ogm.seqno
        BY <3>6 DEF IfinfoAfter
      <4>2. costs[x] = [airtime_cost |-> NewCost(n, ogm, nb, x), last_seqno |-> ogm.seqno]
        BY <3>6
      <4> HIDE DEF n, ogm, o, nb, I, J, costs
      <4>3. costs[x] # None /\ costs[x].last_seqno = ogm.seqno
        <5>1. NewCost(n, ogm, nb, x) \in u32
          BY <1>1, NewCostType
        <5>2. costs[x] \in NeighIfinfo
          BY <1>1, <4>2, <5>1 DEF NeighIfinfo
        <5> QED BY <4>2, <5>2, OgmAssumption
      <4>4. CASE RouterAfter(n, ogm, nb, x) = nb
        BY <1>1, <3>3, <4>1, <4>3, <4>4, SeqDiffSelf DEF KeepsUp
      <4>5. CASE RouterAfter(n, ogm, nb, x) # nb
        <5> DEFINE r == oi.router
        <5>1. /\ r # None /\ r # nb /\ RouterAfter(n, ogm, nb, x) = r
              /\ \/ neigh_ifinfo[n][o][r][x] = None
                 \/ SeqDiff(ogm.seqno, neigh_ifinfo[n][o][r][x].last_seqno)
                      < OGM_MAX_ORIGDIFF
          BY <4>5 DEF RouterAfter, o
        <5>2. orig_ifinfo[n][o][x] # None /\ r = orig_ifinfo[n][o][x].router
          BY <5>1 DEF IfinfoOrNew, NewOrigIfinfo
        <5>3. r \in Neigh /\ neigh_ifinfo[n][o][r][x] # None
          BY <3>2, <3>4, <5>1, <5>2 DEF KeepsUp
        <5>4. J[r] = neigh_ifinfo[n][o][r]
          BY <3>3, <5>1, <5>3
        <5> HIDE DEF r
        <5> QED BY <4>1, <5>1, <5>3, <5>4 DEF KeepsUp
      <4> QED BY <4>4, <4>5
    <3> QED BY <3>5, <3>6
  <2> HIDE DEF n, ogm, o, nb, I, costs
  <2>3. neigh_ifinfo' = [neigh_ifinfo EXCEPT ![n][o] = J]
    BY <1>1, <2>1 DEF TypeOK
  <2> HIDE DEF J
  <2> QED BY <1>1, <2>1, <2>2, <2>3, KeptAt
<1> QED BY <1>2, <1>3

LEMMA KeptProtection ==
  ASSUME TypeOK, KeptInv, NEW n \in Node, NEW o \in Addr, NEW x \in OutIf,
         ProtectionExpires(n, o, x)
  PROVE  KeptInv'
<1> DEFINE oi == [orig_ifinfo[n][o][x] EXCEPT !.protected = FALSE]
           I == [orig_ifinfo[n][o] EXCEPT ![x] = oi]
           J == neigh_ifinfo[n][o]
<1>1. orig_ifinfo[n][o][x] \in OrigIfinfo /\ orig_ifinfo[n][o][x] # None
  BY DEF ProtectionExpires, TypeOK
<1>2. /\ oi.router = orig_ifinfo[n][o][x].router
      /\ oi.last_real_seqno = orig_ifinfo[n][o][x].last_real_seqno
  BY <1>1 DEF OrigIfinfo
<1>3. /\ orig_ifinfo' = [orig_ifinfo EXCEPT ![n][o] = I]
      /\ neigh_ifinfo' = [neigh_ifinfo EXCEPT ![n][o] = J]
  BY DEF ProtectionExpires, TypeOK
<1> HIDE DEF oi
<1>4. \A y \in OutIf : KeepsUp(I, J, y)
  <2> SUFFICES ASSUME NEW y \in OutIf PROVE KeepsUp(I, J, y)
    OBVIOUS
  <2>1. KeepsUp(orig_ifinfo[n][o], J, y)
    BY KeptIs
  <2>2. y # x => I[y] = orig_ifinfo[n][o][y]
    BY DEF TypeOK
  <2>3. I[x] = oi
    BY DEF TypeOK
  <2> HIDE DEF I, J
  <2> QED BY <1>1, <1>2, <2>1, <2>2, <2>3 DEF KeepsUp
<1> HIDE DEF I, J
<1> QED BY <1>3, <1>4, KeptAt

LEMMA KeptPurgeParts ==
  ASSUME TypeOK, KeptInv, ReferencesHold, NEW n \in Node, NEW o \in orig_hash[n],
         PurgeParts(n, o),
         \A x \in OutIf : RouterOf(n, o, x)' \in {RouterOf(n, o, x), None}
  PROVE  KeptInv'
<1> DEFINE H == SurvivingNeigh(n, o)
           J == [nb \in Neigh |-> [x \in OutIf |->
                   IF nb \in H /\ x \notin GoneOutIf(n)
                     THEN neigh_ifinfo[n][o][nb][x] ELSE None]]
           kept(r) == [x \in OutIf |->
                         IF x \in GoneOutIf(n) \/ orig_ifinfo[n][o][x] = None THEN None
                         ELSE [orig_ifinfo[n][o][x] EXCEPT !.router = r[x]]]
<1>1. /\ neigh_ifinfo' = [neigh_ifinfo EXCEPT ![n][o] = J]
      /\ \/ /\ H = neigh_list[n][o] /\ UNCHANGED orig_ifinfo
            /\ \A f \in GoneOutIf(n) : orig_ifinfo[n][o][f] = None
         \/ \E r \in [OutIf -> H \cup {None}] :
              orig_ifinfo' = [orig_ifinfo EXCEPT ![n][o] = kept(r)]
  BY DEF PurgeParts
<1>2. /\ orig_ifinfo \in [Node -> [Addr -> [OutIf -> OrigIfinfo \cup {None}]]]
      /\ o \in Addr /\ H \subseteq Neigh
  BY DEF TypeOK, SurvivingNeigh
<1> HIDE DEF H
\* What is kept of an interface has a router that survived.
<1>3. PICK I : /\ orig_ifinfo' = [orig_ifinfo EXCEPT ![n][o] = I]
               /\ \A x \in OutIf :
                    I[x] # None /\ I[x].router # None =>
                      /\ x \notin GoneOutIf(n)
                      /\ I[x].router \in H
                      /\ orig_ifinfo[n][o][x] # None
                      /\ I[x].last_real_seqno = orig_ifinfo[n][o][x].last_real_seqno
  <2>1. CASE /\ H = neigh_list[n][o] /\ UNCHANGED orig_ifinfo
             /\ \A f \in GoneOutIf(n) : orig_ifinfo[n][o][f] = None
    <3>1. orig_ifinfo' = [orig_ifinfo EXCEPT ![n][o] = orig_ifinfo[n][o]]
      BY <1>2, <2>1
    <3>2. \A x \in OutIf :
            orig_ifinfo[n][o][x] # None /\ orig_ifinfo[n][o][x].router # None =>
              orig_ifinfo[n][o][x].router \in H
      BY <1>2, <2>1 DEF ReferencesHold, RouterOf
    <3> QED BY <2>1, <3>1, <3>2
  <2>2. ASSUME NEW r \in [OutIf -> H \cup {None}],
               orig_ifinfo' = [orig_ifinfo EXCEPT ![n][o] = kept(r)]
        PROVE  \A x \in OutIf :
                 kept(r)[x] # None /\ kept(r)[x].router # None =>
                   /\ x \notin GoneOutIf(n)
                   /\ kept(r)[x].router \in H
                   /\ orig_ifinfo[n][o][x] # None
                   /\ kept(r)[x].last_real_seqno = orig_ifinfo[n][o][x].last_real_seqno
    <3> SUFFICES ASSUME NEW x \in OutIf, kept(r)[x] # None, kept(r)[x].router # None
                 PROVE  /\ x \notin GoneOutIf(n)
                        /\ kept(r)[x].router \in H
                        /\ orig_ifinfo[n][o][x] # None
                        /\ kept(r)[x].last_real_seqno = orig_ifinfo[n][o][x].last_real_seqno
      OBVIOUS
    <3>1. orig_ifinfo[n][o][x] \in OrigIfinfo /\ x \notin GoneOutIf(n)
          /\ orig_ifinfo[n][o][x] # None
      BY <1>2
    <3>2. /\ kept(r)[x].router = r[x]
          /\ kept(r)[x].last_real_seqno = orig_ifinfo[n][o][x].last_real_seqno
      BY <3>1 DEF OrigIfinfo
    <3> QED BY <3>1, <3>2
  <2> HIDE DEF kept
  <2> QED BY <1>1, <2>1, <2>2
\* It is the router the interface had.
<1>4. ASSUME NEW x \in OutIf, I[x] # None, I[x].router # None
      PROVE  KeepsUp(I, J, x)
  <2>1. orig_ifinfo'[n][o][x] = I[x]
    BY <1>2, <1>3
  <2>2. RouterOf(n, o, x)' = I[x].router
    BY <1>4, <2>1 DEF RouterOf
  <2>3. I[x].router = orig_ifinfo[n][o][x].router /\ orig_ifinfo[n][o][x] # None
    BY <1>3, <1>4, <2>2 DEF RouterOf
  <2>4. KeepsUp(orig_ifinfo[n][o], neigh_ifinfo[n][o], x)
    BY <1>2, KeptIs
  <2>5. J[I[x].router][x] = neigh_ifinfo[n][o][I[x].router][x]
    BY <1>2, <1>3, <1>4
  <2> HIDE DEF J
  <2> QED BY <1>3, <1>4, <2>3, <2>4, <2>5 DEF KeepsUp
<1>5. \A x \in OutIf : KeepsUp(I, J, x)
  BY <1>4 DEF KeepsUp
<1>6. neigh_ifinfo' = [neigh_ifinfo EXCEPT ![n][o] = J]
  BY <1>1
<1> HIDE DEF J
<1> QED BY <1>2, <1>3, <1>5, <1>6, KeptAt

LEMMA KeptPurgeWhole ==
  ASSUME TypeOK, KeptInv, NEW n \in Node, NEW o \in Addr, PurgeWhole(n, o)
  PROVE  KeptInv'
<1> DEFINE I == NoOrigIfinfo  J == NoNeighIfinfo
<1>1. /\ orig_ifinfo' = [orig_ifinfo EXCEPT ![n][o] = I]
      /\ neigh_ifinfo' = [neigh_ifinfo EXCEPT ![n][o] = J]
  BY DEF PurgeWhole
<1>2. \A x \in OutIf : KeepsUp(I, J, x)
  BY DEF KeepsUp, NoOrigIfinfo
<1> HIDE DEF I, J
<1> QED BY <1>1, <1>2, KeptAt

LEMMA KeptRestart ==
  ASSUME TypeOK, KeptInv, NEW n \in Node, Restart(n)
  PROVE  KeptInv'
<1> SUFFICES ASSUME NEW m \in Node, NEW o \in Addr, NEW x \in OutIf
             PROVE  KeepsUp(orig_ifinfo'[m][o], neigh_ifinfo'[m][o], x)
  BY KeptIsPrimed
<1>1. CASE m = n
  <2>1. orig_ifinfo'[m][o][x] = None
    BY <1>1 DEF Restart, TypeOK, NoOrigIfinfo
  <2> QED BY <2>1 DEF KeepsUp
<1>2. CASE m # n
  <2>1. orig_ifinfo'[m] = orig_ifinfo[m] /\ neigh_ifinfo'[m] = neigh_ifinfo[m]
    BY <1>2 DEF Restart, TypeOK
  <2> QED BY <2>1, KeptIs
<1> QED BY <1>1, <1>2

LEMMA KeptNextKeeps ==
  TypeOK /\ ReferencesHold /\ KeptInv /\ [KeptNext]_vars => KeptInv'
<1> SUFFICES ASSUME TypeOK, ReferencesHold, KeptInv, [KeptNext]_vars PROVE KeptInv'
  OBVIOUS
<1>1. ASSUME NEW n \in Originators, SendOwn(n) PROVE KeptInv'
  BY <1>1, KeptUnchanged DEF SendOwn, tables
<1>2. ASSUME NEW n \in Node, NEW f \in Iface, NEW src \in Addr, ElpReceived(n, f, src)
      PROVE KeptInv'
  BY <1>2, KeptUnchanged DEF ElpReceived
<1>3. ASSUME NEW n \in Node, NEW nb \in Neigh, ElpMetric(n, nb) PROVE KeptInv'
  BY <1>3, KeptUnchanged DEF ElpMetric, tables
<1>4. CASE Tick
  BY <1>4, KeptUnchanged DEF Tick
<1>5. ASSUME NEW a \in Addr, IfToggle(a) PROVE KeptInv'
  BY <1>5, KeptUnchanged DEF IfToggle, tables
<1>6. ASSUME NEW n \in Node, NEW w \in Weights[n], SetWeight(n, w) PROVE KeptInv'
  BY <1>6, KeptUnchanged DEF SetWeight, tables
<1>7. CASE Mesh
  BY <1>1, <1>2, <1>3, <1>4, <1>5, <1>6, <1>7, KeptProtection DEF Mesh
<1>8. ASSUME NEW n \in Node, NEW o \in Addr, PurgeOrig(n, o),
             \A x \in OutIf : RouterOf(n, o, x)' \in {RouterOf(n, o, x), None}
      PROVE  KeptInv'
  BY <1>8, KeptPurgeParts, KeptPurgeWhole DEF PurgeOrig
<1>9. CASE UNCHANGED vars
  BY <1>9, KeptUnchanged DEF vars, tables
<1> QED BY <1>7, <1>8, <1>9, KeptReceive, KeptRestart DEF KeptNext

\* As long as no purge falls back to another neighbour, every router has the ifinfo the
\* comment in batadv_v_ogm_route_update() relies on, and is never OGM_MAX_ORIGDIFF or more
\* numbers behind the newest accepted OGM, through reboots, resets of the window and
\* numbers that wrap.
THEOREM RoutersKeepUp == KeptSpec => [](RouterHasIfinfo /\ RouterKeepsUp)
<1>1. KeptSpec => Spec
  BY KeptStep, PTL DEF KeptSpec, Spec
<1>2. Init => KeptInv
  <2>1. Init => \A n \in Node, o \in Addr, x \in OutIf : orig_ifinfo[n][o][x] = None
    BY DEF Init, NoOrigIfinfo
  <2> QED BY <2>1, KeptIs DEF KeepsUp
<1>3. KeptSpec => []KeptInv
  BY <1>1, <1>2, TypeCorrect, ReferencesAlwaysHold, KeptNextKeeps, PTL DEF KeptSpec
<1> QED BY <1>3, PTL DEF KeptInv

-----------------------------------------------------------------------------
(* Loop freedom.  In an undisturbed mesh (SteadySpec of BatVOgm) no packet *)
(* ever runs in a circle, for every mesh, every interleaving of the nodes, *)
(* every loss and every reordering of OGMs.  SteadyInv is the inductive    *)
(* invariant.                                                              *)

-----------------------------------------------------------------------------
(* Ranks and sequence numbers.                                             *)

LEMMA SeqOrder ==
  ASSUME NEW s \in Seqno, NEW t \in Seqno, InRange(s), InRange(t)
  PROVE  SeqDiff(s, t) = s - t
BY OgmAssumption DEF SeqDiff, Seqno, InRange

LEMMA RankTrans ==
  ASSUME NEW p \in NeighIfinfo, NEW q \in NeighIfinfo, NEW r \in NeighIfinfo,
         NotWorse(p, q)
  PROVE  /\ Outranks(q, r) => Outranks(p, r)
         /\ NotWorse(q, r) => NotWorse(p, r)
<1>1. /\ p.last_seqno \in Int /\ q.last_seqno \in Int /\ r.last_seqno \in Int
      /\ p.airtime_cost \in Int /\ q.airtime_cost \in Int /\ r.airtime_cost \in Int
  BY OgmAssumption, MetricAssumption DEF NeighIfinfo, Seqno, u32
<1> QED BY <1>1 DEF NotWorse, Outranks

-----------------------------------------------------------------------------
(* Steps that leave the routes alone.                                      *)

LEMMA SameRoutes ==
  ASSUME SteadyInv, TypeOK', air' \subseteq air, ogm_seqno' = ogm_seqno,
         \A n \in Node, o \in Addr, x \in OutIf :
           LET p == orig_ifinfo[n][o][x]  q == orig_ifinfo'[n][o][x]
           IN  \/ p = None /\ q = None
               \/ /\ p # None /\ q # None /\ q.router = p.router
                  /\ q.last_real_seqno = p.last_real_seqno
                  /\ q.last_seqno_forwarded = p.last_seqno_forwarded,
         \A n \in Node, o \in Addr, nb \in Neigh, x \in OutIf :
           neigh_ifinfo'[n][o][nb][x] \in {neigh_ifinfo[n][o][nb][x], None},
         \A n \in Node, o \in Addr, x \in OutIf :
           RouterOf(n, o, x) # None =>
             /\ RouterOf(n, o, x) \in neigh_list'[n][o]
             /\ neigh_ifinfo'[n][o][RouterOf(n, o, x)][x] = RouteInfo(n, o, x)
  PROVE  SteadyInv'
<1>1. \A n \in Node, o \in Addr, x \in OutIf :
        /\ RouterOf(n, o, x)' = RouterOf(n, o, x)
        /\ RouterOf(n, o, x) # None =>
             /\ RouteInfo(n, o, x)' = RouteInfo(n, o, x)
             /\ orig_ifinfo'[n][o][x].last_real_seqno = orig_ifinfo[n][o][x].last_real_seqno
             /\ orig_ifinfo'[n][o][x].last_seqno_forwarded
                  = orig_ifinfo[n][o][x].last_seqno_forwarded
  <2> SUFFICES ASSUME NEW n \in Node, NEW o \in Addr, NEW x \in OutIf
               PROVE  /\ RouterOf(n, o, x)' = RouterOf(n, o, x)
                      /\ RouterOf(n, o, x) # None =>
                           /\ RouteInfo(n, o, x)' = RouteInfo(n, o, x)
                           /\ orig_ifinfo'[n][o][x].last_real_seqno
                                = orig_ifinfo[n][o][x].last_real_seqno
                           /\ orig_ifinfo'[n][o][x].last_seqno_forwarded
                                = orig_ifinfo[n][o][x].last_seqno_forwarded
    OBVIOUS
  <2>1. RouterOf(n, o, x)' = RouterOf(n, o, x)
    BY DEF RouterOf
  <2>2. RouterOf(n, o, x) # None => orig_ifinfo[n][o][x] # None
    BY DEF RouterOf
  <2>3. RouterOf(n, o, x) # None => RouteInfo(n, o, x)' = RouteInfo(n, o, x)
    BY <2>1 DEF RouteInfo
  <2> QED BY <2>1, <2>2, <2>3
<1>2. NumbersInRange'
  BY <1>1 DEF SteadyInv, NumbersInRange, InRange
<1>3. TablesAgree'
  <2> SUFFICES ASSUME NEW n \in Node, NEW o \in Addr, NEW x \in OutIf
               PROVE  LET oi == orig_ifinfo'[n][o][x]
                      IN  /\ oi # None => oi.last_seqno_forwarded <= oi.last_real_seqno
                          /\ oi # None /\ oi.router = None => oi.last_seqno_forwarded = 0
                          /\ RouterOf(n, o, x)' # None =>
                               /\ RouterOf(n, o, x)' \in neigh_list'[n][o]
                               /\ RouteInfo(n, o, x)' # None
                          /\ \A nb \in Neigh : LET e == neigh_ifinfo'[n][o][nb][x]
                               IN  e # None => /\ RouterOf(n, o, x)' # None
                                               /\ e.last_seqno <= oi.last_real_seqno
    BY DEF TablesAgree
  <2>1. TablesAgree
    BY DEF SteadyInv
  <2> QED BY <1>1, <2>1 DEF TablesAgree
<1>4. \A o \in Addr, a \in Addr, s \in Seqno : Sent(o, a, s) => Sent(o, a, s)'
  BY <1>1 DEF Sent, Addr, OutIf
<1>5. CopiesBacked'
  <2> SUFFICES ASSUME NEW c \in air
               PROVE  /\ Sent(c.ogm.orig, c.src, c.ogm.seqno)'
                      /\ c.src[1] # c.ogm.orig[1] =>
                           NotWorse(RouteInfo(c.src[1], c.ogm.orig, c.src[2])',
                             [last_seqno |-> c.ogm.seqno, airtime_cost |-> c.ogm.airtime])
    BY DEF CopiesBacked
  <2>1. c.ogm.orig \in Addr /\ c.src \in Addr /\ c.ogm.seqno \in Seqno
        /\ c.src[1] \in Node /\ c.src[2] \in OutIf
    BY DEF SteadyInv, TypeOK, Copy, OgmPacket, Addr, OutIf
  <2>2. /\ Sent(c.ogm.orig, c.src, c.ogm.seqno)
        /\ c.src[1] # c.ogm.orig[1] =>
             /\ RouterOf(c.src[1], c.ogm.orig, c.src[2]) # None
             /\ NotWorse(RouteInfo(c.src[1], c.ogm.orig, c.src[2]),
                         [last_seqno |-> c.ogm.seqno, airtime_cost |-> c.ogm.airtime])
    BY DEF SteadyInv, CopiesBacked, Sent
  <2> QED BY <1>1, <1>4, <2>1, <2>2
<1>6. ReportsBacked'
  <2> SUFFICES ASSUME NEW n \in Node, NEW o \in Addr, NEW x \in OutIf, NEW nb \in Neigh,
                      neigh_ifinfo'[n][o][nb][x] # None
               PROVE  /\ Sent(o, nb[2], neigh_ifinfo[n][o][nb][x].last_seqno)'
                      /\ nb[2][1] # o[1] => Outranks(RouteInfo(nb[2][1], o, nb[2][2])',
                                                     neigh_ifinfo'[n][o][nb][x])
    BY Zenon DEF ReportsBacked
  <2> DEFINE e == neigh_ifinfo[n][o][nb][x]
  <2>1. neigh_ifinfo'[n][o][nb][x] = e /\ e # None
    OBVIOUS
  <2>2. e \in NeighIfinfo /\ e.last_seqno \in Seqno
    BY <2>1 DEF SteadyInv, TypeOK, NeighIfinfo
  <2>3. nb[2] \in Addr /\ nb[2][1] \in Node /\ nb[2][2] \in OutIf
    BY DEF Neigh, Addr, OutIf
  <2>4. /\ Sent(o, nb[2], e.last_seqno)
        /\ nb[2][1] # o[1] => /\ RouterOf(nb[2][1], o, nb[2][2]) # None
                              /\ Outranks(RouteInfo(nb[2][1], o, nb[2][2]), e)
    BY <2>1 DEF SteadyInv, ReportsBacked, Sent
  <2>5. \A s \in Seqno : s = e.last_seqno => Sent(o, nb[2], s)'
    BY <1>4, <2>2, <2>3, <2>4
  <2>6. nb[2][1] # o[1] =>
          RouteInfo(nb[2][1], o, nb[2][2])' = RouteInfo(nb[2][1], o, nb[2][2])
    <3>1. ASSUME NEW m \in Node, NEW i \in OutIf, RouterOf(m, o, i) # None
          PROVE  RouteInfo(m, o, i)' = RouteInfo(m, o, i)
      BY <1>1, <3>1
    <3> HIDE DEF e
    <3> QED BY <2>3, <2>4, <3>1
  <2>7. neigh_ifinfo'[n][o][nb][x].last_seqno \in Seqno
    BY <2>1, <2>2
  <2>8. Sent(o, nb[2], neigh_ifinfo[n][o][nb][x].last_seqno)'
    BY <2>1, <2>5, <2>7
  <2> HIDE DEF e
  <2> QED BY <2>1, <2>4, <2>6, <2>8
<1>7. EachOgmOnce'
  <2> SUFFICES ASSUME NEW c \in air, NEW x \in OutIf,
                      neigh_ifinfo'[c.to[1]][c.ogm.orig][<<c.to[2], c.src>>][x] # None
               PROVE  neigh_ifinfo'[c.to[1]][c.ogm.orig][<<c.to[2], c.src>>][x].last_seqno
                        # c.ogm.seqno
    BY DEF SteadyInv, EachOgmOnce
  <2>1. c.to[1] \in Node /\ c.ogm.orig \in Addr /\ <<c.to[2], c.src>> \in Neigh
    BY DEF SteadyInv, TypeOK, Copy, OgmPacket, Addr, Neigh
  <2>2. neigh_ifinfo'[c.to[1]][c.ogm.orig][<<c.to[2], c.src>>][x]
          = neigh_ifinfo[c.to[1]][c.ogm.orig][<<c.to[2], c.src>>][x]
    BY <2>1
  <2> QED BY ZenonT(40), <2>2 DEF SteadyInv, EachOgmOnce
<1> QED BY <1>2, <1>3, <1>5, <1>6, <1>7 DEF SteadyInv

\* A special case: the tables of routes are not touched at all.
LEMMA RoutesUntouched ==
  ASSUME SteadyInv, TypeOK',
         air' \subseteq air, UNCHANGED <<ogm_seqno, orig_ifinfo, neigh_ifinfo>>,
         \A n \in Node, o \in Addr : neigh_list[n][o] \subseteq neigh_list'[n][o]
  PROVE  SteadyInv'
<1>1. \A n \in Node, o \in Addr, x \in OutIf :
        RouterOf(n, o, x) # None =>
          /\ RouterOf(n, o, x) \in neigh_list'[n][o]
          /\ neigh_ifinfo'[n][o][RouterOf(n, o, x)][x] = RouteInfo(n, o, x)
  BY DEF SteadyInv, TablesAgree, RouteInfo
<1> QED BY <1>1, SameRoutes

LEMMA SteadyStart == SteadyInit => SteadyInv
<1> SUFFICES ASSUME SteadyInit PROVE SteadyInv
  OBVIOUS
<1>1. TypeOK
  BY TypeInit DEF SteadyInit
<1>2. /\ air = {}
      /\ \A n \in Node, o \in Addr, x \in OutIf : orig_ifinfo[n][o][x] = None
      /\ \A n \in Node, o \in Addr, nb \in Neigh, x \in OutIf :
           neigh_ifinfo[n][o][nb][x] = None
  BY DEF SteadyInit, Init, NoOrigIfinfo, NoNeighIfinfo
<1>3. \A n \in Node, o \in Addr, x \in OutIf : RouterOf(n, o, x) = None
  BY <1>2 DEF RouterOf
<1>4. NumbersInRange
  BY <1>2, <1>3 DEF SteadyInit, Init, NumbersInRange, InRange
<1>5. TablesAgree
  BY <1>2, <1>3 DEF TablesAgree
<1>6. CopiesBacked /\ ReportsBacked /\ EachOgmOnce
  BY <1>2 DEF CopiesBacked, ReportsBacked, EachOgmOnce
<1> QED BY <1>1, <1>4, <1>5, <1>6 DEF SteadyInv

LEMMA SteadyElp ==
  ASSUME SteadyInv, NEW n \in Node, NEW f \in Iface, NEW src \in Addr,
         ElpReceived(n, f, src)
  PROVE  SteadyInv'
<1>1. TypeOK'
  BY TypeElp DEF SteadyInv
<1>2. \A m \in Node, o \in Addr : neigh_list[m][o] \subseteq neigh_list'[m][o]
  BY DEF ElpReceived, SteadyInv, TypeOK
<1> QED BY <1>1, <1>2, RoutesUntouched DEF ElpReceived

LEMMA SteadyProtection ==
  ASSUME SteadyInv, NEW n \in Node, NEW o \in Addr, NEW x \in OutIf,
         ProtectionExpires(n, o, x)
  PROVE  SteadyInv'
<1>1. TypeOK /\ TypeOK'
  BY TypeProtection DEF SteadyInv
<1>2. ASSUME NEW m \in Node, NEW p \in Addr, NEW y \in OutIf
      PROVE  \/ orig_ifinfo[m][p][y] = None /\ orig_ifinfo'[m][p][y] = None
             \/ /\ orig_ifinfo[m][p][y] # None /\ orig_ifinfo'[m][p][y] # None
                /\ orig_ifinfo'[m][p][y].router = orig_ifinfo[m][p][y].router
                /\ orig_ifinfo'[m][p][y].last_real_seqno
                     = orig_ifinfo[m][p][y].last_real_seqno
                /\ orig_ifinfo'[m][p][y].last_seqno_forwarded
                     = orig_ifinfo[m][p][y].last_seqno_forwarded
  <2>1. CASE m = n /\ p = o /\ y = x
    <3>1. orig_ifinfo[n][o][x] \in OrigIfinfo
      BY <1>1 DEF ProtectionExpires, TypeOK
    <3>2. orig_ifinfo'[n][o][x] = [orig_ifinfo[n][o][x] EXCEPT !.protected = FALSE]
      BY <1>1 DEF ProtectionExpires, TypeOK
    <3>3. orig_ifinfo'[n][o][x] \in OrigIfinfo
      BY <3>1, <3>2 DEF OrigIfinfo
    <3> QED BY <2>1, <3>1, <3>2, <3>3, OgmAssumption DEF OrigIfinfo
  <2>2. CASE ~(m = n /\ p = o /\ y = x)
    BY <1>1, <2>2 DEF ProtectionExpires, TypeOK
  <2> QED BY <2>1, <2>2
<1>3. UNCHANGED <<air, ogm_seqno, neigh_ifinfo, neigh_list>>
  BY DEF ProtectionExpires
<1>4. \A m \in Node, p \in Addr, y \in OutIf :
        RouterOf(m, p, y) # None =>
          /\ RouterOf(m, p, y) \in neigh_list'[m][p]
          /\ neigh_ifinfo'[m][p][RouterOf(m, p, y)][y] = RouteInfo(m, p, y)
  BY <1>3 DEF SteadyInv, TablesAgree, RouteInfo
<1> QED BY <1>1, <1>2, <1>3, <1>4, SameRoutes

LEMMA SteadyPurge ==
  ASSUME SteadyInv, NEW n \in Node, NEW o \in Addr, PurgeOrig(n, o),
         UNCHANGED orig_ifinfo
  PROVE  SteadyInv'
<1>1. TypeOK /\ TypeOK' /\ UNCHANGED <<air, ogm_seqno>>
  BY TypePurge DEF SteadyInv, PurgeOrig
<1>2. ASSUME NEW m \in Node, NEW p \in Addr, m # n \/ p # o
      PROVE  neigh_ifinfo'[m][p] = neigh_ifinfo[m][p] /\ neigh_list'[m][p] = neigh_list[m][p]
  BY SMTT(30), <1>1, <1>2 DEF PurgeOrig, PurgeParts, PurgeWhole, TypeOK
<1>3. ASSUME NEW nb \in Neigh, NEW x \in OutIf
      PROVE  /\ neigh_ifinfo'[n][o][nb][x] \in {neigh_ifinfo[n][o][nb][x], None}
             /\ RouterOf(n, o, x) = nb =>
                  /\ nb \in neigh_list'[n][o]
                  /\ neigh_ifinfo'[n][o][nb][x] = neigh_ifinfo[n][o][nb][x]
  <2> DEFINE H == SurvivingNeigh(n, o)
  <2>1. CASE PurgeWhole(n, o)
    <3>1. orig_ifinfo[n][o][x] = None /\ neigh_ifinfo'[n][o][nb][x] = None
      BY <1>1, <2>1 DEF PurgeWhole, TypeOK, NoOrigIfinfo, NoNeighIfinfo
    <3> QED BY <3>1, OgmAssumption DEF RouterOf
  <2>2. CASE PurgeParts(n, o)
    <3>1. /\ neigh_list'[n][o] = H
          /\ neigh_ifinfo'[n][o][nb][x] = IF nb \in H /\ x \notin GoneOutIf(n)
                                            THEN neigh_ifinfo[n][o][nb][x] ELSE None
      BY <1>1, <2>2 DEF PurgeParts, TypeOK
    <3>2. RouterOf(n, o, x) = nb => orig_ifinfo[n][o][x] # None
                                      /\ orig_ifinfo[n][o][x].router = nb
      BY OgmAssumption DEF RouterOf
    <3>3. CASE (\E f \in GoneOutIf(n) : orig_ifinfo[n][o][f] # None) \/ H # neigh_list[n][o]
      <4>1. PICK r \in [OutIf -> H \cup {None}] :
              orig_ifinfo' = [orig_ifinfo EXCEPT ![n][o] =
                [y \in OutIf |-> IF y \in GoneOutIf(n) \/ @[y] = None THEN None
                                 ELSE [@[y] EXCEPT !.router = r[y]]]]
        BY <2>2, <3>3 DEF PurgeParts
      <4> DEFINE kept == [y \in OutIf |->
                           IF y \in GoneOutIf(n) \/ orig_ifinfo[n][o][y] = None THEN None
                           ELSE [orig_ifinfo[n][o][y] EXCEPT !.router = r[y]]]
      <4>a. orig_ifinfo' = [orig_ifinfo EXCEPT ![n][o] = kept]
        BY <4>1
      <4>b. orig_ifinfo[n][o][x] = kept[x]
        <5> HIDE DEF kept
        <5>1. orig_ifinfo'[n][o] = kept
          BY <1>1, <4>a DEF TypeOK
        <5> QED BY <5>1
      <4>2. orig_ifinfo[n][o][x] =
              IF x \in GoneOutIf(n) \/ orig_ifinfo[n][o][x] = None THEN None
              ELSE [orig_ifinfo[n][o][x] EXCEPT !.router = r[x]]
        BY <4>b
      <4> HIDE DEF kept
      <4>3. RouterOf(n, o, x) = nb => x \notin GoneOutIf(n) /\ nb = r[x]
        <5> SUFFICES ASSUME RouterOf(n, o, x) = nb
                     PROVE  x \notin GoneOutIf(n) /\ nb = r[x]
          OBVIOUS
        <5>1. orig_ifinfo[n][o][x] \in OrigIfinfo
          BY <1>1, <3>2 DEF TypeOK
        <5>2. x \notin GoneOutIf(n)
          BY <3>2, <4>2
        <5>3. orig_ifinfo[n][o][x] = [orig_ifinfo[n][o][x] EXCEPT !.router = r[x]]
          BY <3>2, <4>2
        <5>4. orig_ifinfo[n][o][x].router = r[x]
          BY <5>1, <5>3 DEF OrigIfinfo
        <5> QED BY <3>2, <5>2, <5>4
      <4>4. RouterOf(n, o, x) = nb => nb \in H
        BY <4>1, <4>3, OgmAssumption
      <4> QED BY <3>1, <4>3, <4>4
    <3>4. CASE ~((\E f \in GoneOutIf(n) : orig_ifinfo[n][o][f] # None)
                   \/ H # neigh_list[n][o])
      <4>1. RouterOf(n, o, x) = nb => x \notin GoneOutIf(n) /\ nb \in H
        BY <3>2, <3>4, OgmAssumption DEF SteadyInv, TablesAgree
      <4> QED BY <3>1, <4>1
    <3> QED BY <3>3, <3>4
  <2> QED BY <2>1, <2>2 DEF PurgeOrig
<1>4. \A m \in Node, p \in Addr, nb \in Neigh, x \in OutIf :
        neigh_ifinfo'[m][p][nb][x] \in {neigh_ifinfo[m][p][nb][x], None}
  BY <1>2, <1>3
<1>5. \A m \in Node, p \in Addr, x \in OutIf :
        RouterOf(m, p, x) # None =>
          /\ RouterOf(m, p, x) \in neigh_list'[m][p]
          /\ neigh_ifinfo'[m][p][RouterOf(m, p, x)][x] = RouteInfo(m, p, x)
  <2> SUFFICES ASSUME NEW m \in Node, NEW p \in Addr, NEW x \in OutIf,
                      RouterOf(m, p, x) # None
               PROVE  /\ RouterOf(m, p, x) \in neigh_list'[m][p]
                      /\ neigh_ifinfo'[m][p][RouterOf(m, p, x)][x]
                           = neigh_ifinfo[m][p][RouterOf(m, p, x)][x]
    BY DEF RouteInfo
  <2>1. RouterOf(m, p, x) \in neigh_list[m][p] /\ RouterOf(m, p, x) \in Neigh
    BY <1>1 DEF SteadyInv, TablesAgree, TypeOK
  <2>2. CASE m # n \/ p # o
    BY <1>2, <2>1, <2>2
  <2>3. CASE m = n /\ p = o
    BY <1>3, <2>1, <2>3
  <2> QED BY <2>2, <2>3
<1> QED BY <1>1, <1>4, <1>5, SameRoutes


-----------------------------------------------------------------------------
(* Steps that send an OGM.                                                 *)

\* What was sent stays sent, and what a route backs stays backed, when routes
\* only get better.
LEMMA BackingStays ==
  ASSUME TypeOK, TypeOK',
         \A m \in Originators : ogm_seqno[m] <= ogm_seqno'[m],
         \A n \in Node, o \in Addr, x \in OutIf : RouterOf(n, o, x) # None =>
           /\ RouterOf(n, o, x)' # None
           /\ orig_ifinfo[n][o][x].last_seqno_forwarded
                <= orig_ifinfo'[n][o][x].last_seqno_forwarded
           /\ RouteInfo(n, o, x) \in NeighIfinfo /\ RouteInfo(n, o, x)' \in NeighIfinfo
           /\ NotWorse(RouteInfo(n, o, x)', RouteInfo(n, o, x)),
         NEW o \in Addr, NEW a \in Addr, NEW e \in NeighIfinfo,
         Sent(o, a, e.last_seqno)
  PROVE  /\ Sent(o, a, e.last_seqno)'
         /\ a[1] # o[1] /\ NotWorse(RouteInfo(a[1], o, a[2]), e)
              => NotWorse(RouteInfo(a[1], o, a[2])', e)
         /\ a[1] # o[1] /\ Outranks(RouteInfo(a[1], o, a[2]), e)
              => Outranks(RouteInfo(a[1], o, a[2])', e)
<1>1. /\ a[1] \in Node /\ a[2] \in OutIf
      /\ e.last_seqno \in Seqno /\ e.last_seqno \in Int /\ Seqno \subseteq Int
  BY OgmAssumption DEF Addr, OutIf, NeighIfinfo, Seqno
<1>2. CASE a[1] = o[1]
  <2>1. ogm_seqno[a[1]] \in Int /\ ogm_seqno'[a[1]] \in Int
    BY <1>1, <1>2 DEF TypeOK, Sent
  <2>2. a[1] \in Originators /\ e.last_seqno < ogm_seqno[a[1]]
    BY <1>2 DEF Sent
  <2>3. e.last_seqno < ogm_seqno'[a[1]]
    BY <1>1, <2>1, <2>2
  <2>4. Sent(o, a, e.last_seqno)'
    BY <1>2, <2>2, <2>3 DEF Sent
  <2> QED BY <1>2, <2>4
<1>3. CASE a[1] # o[1]
  <2>1. /\ RouterOf(a[1], o, a[2]) # None
        /\ e.last_seqno <= orig_ifinfo[a[1]][o][a[2]].last_seqno_forwarded
    BY <1>3 DEF Sent
  <2>2. /\ RouterOf(a[1], o, a[2])' # None
        /\ orig_ifinfo[a[1]][o][a[2]] # None
        /\ orig_ifinfo'[a[1]][o][a[2]] # None
    BY <1>1, <2>1 DEF RouterOf
  <2>3. orig_ifinfo[a[1]][o][a[2]] \in OrigIfinfo /\ orig_ifinfo'[a[1]][o][a[2]] \in OrigIfinfo
    BY <1>1, <2>2 DEF TypeOK
  <2>6. /\ orig_ifinfo[a[1]][o][a[2]].last_seqno_forwarded \in Int
        /\ orig_ifinfo'[a[1]][o][a[2]].last_seqno_forwarded \in Int
    BY <1>1, <2>3 DEF OrigIfinfo
  <2>7. orig_ifinfo[a[1]][o][a[2]].last_seqno_forwarded
          <= orig_ifinfo'[a[1]][o][a[2]].last_seqno_forwarded
    BY <1>1, <2>1
  <2>8. e.last_seqno <= orig_ifinfo'[a[1]][o][a[2]].last_seqno_forwarded
    BY <1>1, <2>1, <2>6, <2>7
  <2>4. Sent(o, a, e.last_seqno)'
    BY <1>3, <2>2, <2>8 DEF Sent
  <2>5. /\ RouteInfo(a[1], o, a[2]) \in NeighIfinfo /\ RouteInfo(a[1], o, a[2])' \in NeighIfinfo
        /\ NotWorse(RouteInfo(a[1], o, a[2])', RouteInfo(a[1], o, a[2]))
    BY <1>1, <2>1
  <2> QED BY <2>4, <2>5, RankTrans
<1> QED BY <1>2, <1>3

\* The set of copies a broadcast puts in the air, seen copy by copy.
LEMMA BroadcastCopies ==
  ASSUME NEW n \in Node, NEW f \in Iface, NEW ogm \in OgmPacket,
         NEW d \in Broadcast(n, f, ogm)
  PROVE  d = [ogm |-> ogm, src |-> <<n, f>>, to |-> d.to] /\ d.to \in Addr /\ d.to[1] # n
BY OgmAssumption DEF Broadcast

\* What every sending step shares: the new copies are backed and carry a number
\* their interface never sent before, and the routes only get better.
LEMMA NewCopies ==
  ASSUME SteadyInv, TypeOK', NEW gone, NEW new, air' = (air \ gone) \cup new,
         \A m \in Originators : ogm_seqno[m] <= ogm_seqno'[m],
         \A n \in Node, o \in Addr, x \in OutIf : RouterOf(n, o, x) # None =>
           /\ RouterOf(n, o, x)' # None
           /\ orig_ifinfo[n][o][x].last_seqno_forwarded
                <= orig_ifinfo'[n][o][x].last_seqno_forwarded
           /\ RouteInfo(n, o, x) \in NeighIfinfo /\ RouteInfo(n, o, x)' \in NeighIfinfo
           /\ NotWorse(RouteInfo(n, o, x)', RouteInfo(n, o, x)),
         \A d \in new :
           /\ ~Sent(d.ogm.orig, d.src, d.ogm.seqno)
           /\ Sent(d.ogm.orig, d.src, d.ogm.seqno)'
           /\ d.src[1] # d.ogm.orig[1] =>
                NotWorse(RouteInfo(d.src[1], d.ogm.orig, d.src[2])',
                         [last_seqno |-> d.ogm.seqno, airtime_cost |-> d.ogm.airtime]),
         \A c \in new, d \in new : d.src = c.src /\ d.to = c.to => d = c
  PROVE  /\ CopiesBacked'
         /\ \A c \in air', d \in air' : /\ d.src = c.src /\ d.to = c.to
                                        /\ d.ogm.orig = c.ogm.orig
                                        /\ d.ogm.seqno = c.ogm.seqno
                                        => d = c
         /\ \A n \in Node, o \in Addr, nb \in Neigh, x \in OutIf :
              LET e == neigh_ifinfo[n][o][nb][x]
              IN  e # None =>
                    /\ \A t \in Seqno : t = e.last_seqno => Sent(o, nb[2], t)'
                    /\ nb[2][1] # o[1] => Outranks(RouteInfo(nb[2][1], o, nb[2][2])', e)
         /\ \A d \in new, n \in Node, nb \in Neigh, x \in OutIf :
              LET e == neigh_ifinfo[n][d.ogm.orig][nb][x]
              IN  e # None /\ nb[2] = d.src => e.last_seqno # d.ogm.seqno
<1>1. TypeOK /\ \A c \in air \cup air' :
        /\ c \in Copy /\ c.ogm.orig \in Addr /\ c.src \in Addr /\ c.ogm.seqno \in Seqno
        /\ [last_seqno |-> c.ogm.seqno, airtime_cost |-> c.ogm.airtime] \in NeighIfinfo
  BY DEF SteadyInv, TypeOK, Copy, OgmPacket, NeighIfinfo
<1>2. \A c \in air : /\ Sent(c.ogm.orig, c.src, c.ogm.seqno)
                     /\ c.src[1] # c.ogm.orig[1] =>
                          NotWorse(RouteInfo(c.src[1], c.ogm.orig, c.src[2]),
                            [last_seqno |-> c.ogm.seqno, airtime_cost |-> c.ogm.airtime])
  BY DEF SteadyInv, CopiesBacked
<1>3. ASSUME NEW c \in air
      PROVE  /\ Sent(c.ogm.orig, c.src, c.ogm.seqno)'
             /\ c.src[1] # c.ogm.orig[1] =>
                  NotWorse(RouteInfo(c.src[1], c.ogm.orig, c.src[2])',
                    [last_seqno |-> c.ogm.seqno, airtime_cost |-> c.ogm.airtime])
  <2> DEFINE e == [last_seqno |-> c.ogm.seqno, airtime_cost |-> c.ogm.airtime]
  <2>1. e \in NeighIfinfo /\ e.last_seqno = c.ogm.seqno
    BY <1>1
  <2> HIDE DEF e
  <2>2. /\ Sent(c.ogm.orig, c.src, e.last_seqno)
        /\ c.src[1] # c.ogm.orig[1] => NotWorse(RouteInfo(c.src[1], c.ogm.orig, c.src[2]), e)
    BY <1>2, <2>1 DEF e
  <2>3. /\ \A t \in Seqno : t = e.last_seqno => Sent(c.ogm.orig, c.src, t)'
        /\ c.src[1] # c.ogm.orig[1] => NotWorse(RouteInfo(c.src[1], c.ogm.orig, c.src[2])', e)
    <3> DEFINE o == c.ogm.orig  a == c.src
    <3>1. o \in Addr /\ a \in Addr
      BY <1>1
    <3> HIDE DEF o, a
    <3>2. Sent(o, a, e.last_seqno) /\ (a[1] # o[1] => NotWorse(RouteInfo(a[1], o, a[2]), e))
      BY <2>2 DEF o, a
    <3>3. PICK k \in NeighIfinfo : k = e
      BY <2>1
    <3>4. /\ Sent(o, a, k.last_seqno)'
          /\ a[1] # o[1] => NotWorse(RouteInfo(a[1], o, a[2])', k)
      BY <1>1, <3>1, <3>2, <3>3, BackingStays
    <3> QED BY <3>3, <3>4 DEF o, a
  <2>4. Sent(c.ogm.orig, c.src, c.ogm.seqno)'
    BY <1>1, <2>1, <2>3
  <2> QED BY <2>3, <2>4 DEF e
<1>4. CopiesBacked'
  BY <1>3 DEF CopiesBacked
<1>5. \A c \in air', d \in air' : /\ d.src = c.src /\ d.to = c.to
                                  /\ d.ogm.orig = c.ogm.orig
                                  /\ d.ogm.seqno = c.ogm.seqno
                                  => d = c
  <2> TAKE c \in air', d \in air'
  <2> HAVE /\ d.src = c.src /\ d.to = c.to
           /\ d.ogm.orig = c.ogm.orig /\ d.ogm.seqno = c.ogm.seqno
  <2>1. CASE c \in air /\ d \in air
    BY <2>1 DEF SteadyInv, EachOgmOnce
  <2>2. CASE c \in new /\ d \in new
    BY <2>2
  <2>3. CASE (c \in air /\ d \in new) \/ (d \in air /\ c \in new)
    BY <1>2, <2>3
  <2>4. (c \in air \/ c \in new) /\ (d \in air \/ d \in new)
    <3>1. \A k : k \in (air \ gone) \cup new => k \in air \/ k \in new
      OBVIOUS
    <3> QED BY <3>1, Zenon
  <2> QED BY <2>1, <2>2, <2>3, <2>4
<1>6. ASSUME NEW n \in Node, NEW o \in Addr, NEW nb \in Neigh, NEW x \in OutIf,
             neigh_ifinfo[n][o][nb][x] # None
      PROVE  /\ \A t \in Seqno : t = neigh_ifinfo[n][o][nb][x].last_seqno => Sent(o, nb[2], t)'
             /\ nb[2][1] # o[1] => Outranks(RouteInfo(nb[2][1], o, nb[2][2])',
                                            neigh_ifinfo[n][o][nb][x])
  <2>1. PICK e \in NeighIfinfo : e = neigh_ifinfo[n][o][nb][x]
    BY <1>1, <1>6 DEF TypeOK
  <2>2. PICK a \in Addr : a = nb[2]
    BY DEF Neigh
  <2>3. Sent(o, a, e.last_seqno) /\ (a[1] # o[1] => Outranks(RouteInfo(a[1], o, a[2]), e))
    BY <1>6, <2>1, <2>2 DEF SteadyInv, ReportsBacked
  <2>4. /\ Sent(o, a, e.last_seqno)'
        /\ a[1] # o[1] => Outranks(RouteInfo(a[1], o, a[2])', e)
    BY <1>1, <2>3, BackingStays
  <2> QED BY <2>1, <2>2, <2>4
<1>7. ASSUME NEW d \in new, NEW n \in Node, NEW nb \in Neigh, NEW x \in OutIf,
             neigh_ifinfo[n][d.ogm.orig][nb][x] # None, nb[2] = d.src
      PROVE  neigh_ifinfo[n][d.ogm.orig][nb][x].last_seqno # d.ogm.seqno
  <2>1. d.ogm.orig \in Addr
    BY <1>1
  <2>2. Sent(d.ogm.orig, d.src, neigh_ifinfo[n][d.ogm.orig][nb][x].last_seqno)
    BY <1>7, <2>1 DEF SteadyInv, ReportsBacked
  <2> QED BY <2>2
<1>8. \A n \in Node, o \in Addr, nb \in Neigh, x \in OutIf :
        LET e == neigh_ifinfo[n][o][nb][x]
        IN  e # None =>
              /\ \A t \in Seqno : t = e.last_seqno => Sent(o, nb[2], t)'
              /\ nb[2][1] # o[1] => Outranks(RouteInfo(nb[2][1], o, nb[2][2])', e)
  BY <1>6
<1>9. \A d \in new, n \in Node, nb \in Neigh, x \in OutIf :
        LET e == neigh_ifinfo[n][d.ogm.orig][nb][x]
        IN  e # None /\ nb[2] = d.src => e.last_seqno # d.ogm.seqno
  BY <1>7
<1> QED BY <1>4, <1>5, <1>8, <1>9

LEMMA RouteType ==
  ASSUME SteadyInv, NEW n \in Node, NEW o \in Addr, NEW x \in OutIf,
         RouterOf(n, o, x) # None
  PROVE  /\ orig_ifinfo[n][o][x] \in OrigIfinfo
         /\ RouterOf(n, o, x) = orig_ifinfo[n][o][x].router
         /\ RouterOf(n, o, x) \in Neigh
         /\ orig_ifinfo[n][o][x].last_seqno_forwarded \in Int
         /\ orig_ifinfo[n][o][x].last_seqno_forwarded <= orig_ifinfo[n][o][x].last_seqno_forwarded
         /\ orig_ifinfo[n][o][x].last_real_seqno \in Seqno
         /\ orig_ifinfo[n][o][x].last_real_seqno \in Int
         /\ RouteInfo(n, o, x) \in NeighIfinfo
         /\ RouteInfo(n, o, x).last_seqno \in Int
         /\ RouteInfo(n, o, x).airtime_cost \in Int
         /\ NotWorse(RouteInfo(n, o, x), RouteInfo(n, o, x))
<1>1. /\ orig_ifinfo[n][o][x] \in OrigIfinfo
      /\ RouterOf(n, o, x) = orig_ifinfo[n][o][x].router
  BY DEF RouterOf, SteadyInv, TypeOK
<1>2. /\ RouterOf(n, o, x) \in Neigh
      /\ orig_ifinfo[n][o][x].last_seqno_forwarded \in Int
      /\ orig_ifinfo[n][o][x].last_real_seqno \in Seqno
      /\ orig_ifinfo[n][o][x].last_real_seqno \in Int
  BY <1>1, OgmAssumption DEF OrigIfinfo, Seqno
<1>3. RouteInfo(n, o, x) # None
  BY DEF SteadyInv, TablesAgree
<1>4. RouteInfo(n, o, x) \in NeighIfinfo
  BY <1>2, <1>3 DEF RouteInfo, SteadyInv, TypeOK
<1>5. RouteInfo(n, o, x).last_seqno \in Int /\ RouteInfo(n, o, x).airtime_cost \in Int
  BY <1>4, OgmAssumption, MetricAssumption DEF NeighIfinfo, Seqno, u32
<1>6. NotWorse(RouteInfo(n, o, x), RouteInfo(n, o, x))
  BY <1>5 DEF NotWorse
<1> QED BY <1>1, <1>2, <1>4, <1>5, <1>6

\* Reports that were there before the step keep their backing.
LEMMA ReportsStay ==
  ASSUME TypeOK,
         \A n \in Node, o \in Addr, nb \in Neigh, x \in OutIf :
           LET e == neigh_ifinfo[n][o][nb][x]
           IN  e # None =>
                 /\ \A t \in Seqno : t = e.last_seqno => Sent(o, nb[2], t)'
                 /\ nb[2][1] # o[1] => Outranks(RouteInfo(nb[2][1], o, nb[2][2])', e),
         neigh_ifinfo' = neigh_ifinfo
  PROVE  ReportsBacked'
<1> SUFFICES ASSUME NEW n \in Node, NEW o \in Addr, NEW x \in OutIf, NEW nb \in Neigh,
                    neigh_ifinfo'[n][o][nb][x] # None
             PROVE  /\ Sent(o, nb[2], neigh_ifinfo[n][o][nb][x].last_seqno)'
                    /\ nb[2][1] # o[1] => Outranks(RouteInfo(nb[2][1], o, nb[2][2])',
                                                   neigh_ifinfo'[n][o][nb][x])
  BY Zenon DEF ReportsBacked
<1>1. /\ neigh_ifinfo[n][o][nb][x] \in NeighIfinfo
      /\ neigh_ifinfo[n][o][nb][x].last_seqno \in Seqno
      /\ neigh_ifinfo'[n][o][nb][x] = neigh_ifinfo[n][o][nb][x]
  BY DEF TypeOK, NeighIfinfo
<1> QED BY <1>1

LEMMA SteadySend ==
  ASSUME SteadyInv, NEW n \in Originators, SendOwn(n)
  PROVE  SteadyInv'
<1> DEFINE ogm == [orig |-> Orig(n), seqno |-> ogm_seqno[n], airtime |-> 0,
                   ttl |-> TTL, weight |-> node_weight[n]]
           new == UNION {Broadcast(n, f, ogm) :
                    f \in {g \in Iface : WorthBroadcasting(n, g, None, None)}}
<1>1. /\ TypeOK /\ TypeOK' /\ air' = air \cup new
      /\ ogm_seqno' = [ogm_seqno EXCEPT ![n] = (@ + 1) % (2 * SEQ_HALF)]
      /\ UNCHANGED <<orig_ifinfo, neigh_ifinfo, neigh_list>>
  BY TypeSend DEF SteadyInv, SendOwn, tables
<1>2. n \in Node /\ ogm \in OgmPacket
  BY <1>1, OgmAssumption, MetricAssumption DEF TypeOK, OgmPacket, Orig, u32, Addr
<1>3. /\ ogm_seqno'[n] = ogm_seqno[n] + 1 /\ ogm_seqno[n] \in Seqno
      /\ InRange(ogm_seqno[n]) /\ InRange(ogm_seqno'[n])
  <2>1. ogm_seqno[n] \in Seqno /\ InRange(ogm_seqno[n]) /\ ogm_seqno[n] # MaxSeqno
        /\ MaxSeqno \in Seqno
    BY <1>1 DEF SteadyInv, NumbersInRange, SendOwn, TypeOK
  <2>2. (ogm_seqno[n] + 1) % (2 * SEQ_HALF) = ogm_seqno[n] + 1
    BY <2>1, OgmAssumption DEF Seqno, InRange
  <2>3. ogm_seqno'[n] = ogm_seqno[n] + 1
    BY <1>1, <2>2 DEF TypeOK
  <2> QED BY <2>1, <2>3, OgmAssumption DEF Seqno, InRange
<1>4. \A d \in new : \E f \in Iface : d \in Broadcast(n, f, ogm)
  OBVIOUS
<1>5. \A d \in new : /\ d.ogm = ogm /\ d.src[1] = n /\ d.src \in Addr /\ d.to \in Addr
                     /\ d = [ogm |-> ogm, src |-> d.src, to |-> d.to]
  BY <1>2, <1>4, BroadcastCopies DEF Addr
<1>6. ogm.orig = Orig(n) /\ ogm.orig[1] = n /\ ogm.seqno = ogm_seqno[n] /\ ogm.orig \in Addr
  BY <1>2, OgmAssumption DEF Orig, Addr
<1> HIDE DEF ogm, new
<1>7. \A m \in Originators : ogm_seqno[m] <= ogm_seqno'[m]
  <2> SUFFICES ASSUME NEW m \in Originators PROVE ogm_seqno[m] <= ogm_seqno'[m]
    OBVIOUS
  <2>1. ogm_seqno[m] \in Int
    BY <1>1, OgmAssumption DEF TypeOK, Seqno
  <2>2. m # n => ogm_seqno'[m] = ogm_seqno[m]
    BY <1>1 DEF TypeOK
  <2> QED BY <1>3, <2>1, <2>2
<1>8. \A m \in Node, o \in Addr, x \in OutIf :
        /\ RouterOf(m, o, x)' = RouterOf(m, o, x) /\ RouteInfo(m, o, x)' = RouteInfo(m, o, x)
        /\ RouterOf(m, o, x) # None =>
             /\ RouteInfo(m, o, x) \in NeighIfinfo
             /\ NotWorse(RouteInfo(m, o, x), RouteInfo(m, o, x))
             /\ orig_ifinfo[m][o][x].last_seqno_forwarded
                  <= orig_ifinfo[m][o][x].last_seqno_forwarded
  <2> SUFFICES ASSUME NEW m \in Node, NEW o \in Addr, NEW x \in OutIf
               PROVE  /\ RouterOf(m, o, x)' = RouterOf(m, o, x)
                      /\ RouteInfo(m, o, x)' = RouteInfo(m, o, x)
                      /\ RouterOf(m, o, x) # None =>
                           /\ RouteInfo(m, o, x) \in NeighIfinfo
                           /\ NotWorse(RouteInfo(m, o, x), RouteInfo(m, o, x))
                           /\ orig_ifinfo[m][o][x].last_seqno_forwarded
                                <= orig_ifinfo[m][o][x].last_seqno_forwarded
    OBVIOUS
  <2>1. /\ RouterOf(m, o, x)' = RouterOf(m, o, x)
        /\ RouteInfo(m, o, x)' = RouteInfo(m, o, x)
    BY <1>1 DEF RouterOf, RouteInfo
  <2> QED BY <1>1, <2>1, RouteType DEF SteadyInv
<1>9. \A d \in new : /\ d.ogm.orig = ogm.orig /\ d.ogm.seqno = ogm.seqno
                     /\ d.src[1] = n /\ d.ogm.orig[1] = n
                     /\ ~Sent(d.ogm.orig, d.src, d.ogm.seqno)
                     /\ Sent(d.ogm.orig, d.src, d.ogm.seqno)'
  <2> SUFFICES ASSUME NEW d \in new
               PROVE  /\ d.ogm.orig = ogm.orig /\ d.ogm.seqno = ogm.seqno
                      /\ d.src[1] = n /\ d.ogm.orig[1] = n
                      /\ ~Sent(d.ogm.orig, d.src, d.ogm.seqno)
                      /\ Sent(d.ogm.orig, d.src, d.ogm.seqno)'
    OBVIOUS
  <2>1. /\ d.ogm.orig = ogm.orig /\ d.ogm.seqno = ogm_seqno[n] /\ d.ogm.seqno = ogm.seqno
        /\ d.src[1] = n /\ d.ogm.orig[1] = n
    BY <1>5, <1>6
  <2>2. d.ogm.seqno < ogm_seqno'[n] /\ ~(d.ogm.seqno < ogm_seqno[n])
    BY <1>3, <2>1, OgmAssumption DEF Seqno
  <2>3. Sent(d.ogm.orig, d.src, d.ogm.seqno)'
    BY <2>1, <2>2 DEF Sent
  <2>4. ~Sent(d.ogm.orig, d.src, d.ogm.seqno)
    BY <2>1, <2>2 DEF Sent
  <2> QED BY <2>1, <2>3, <2>4
<1>10. \A c \in new, d \in new : d.src = c.src /\ d.to = c.to => d = c
  BY <1>5
<1>11. /\ CopiesBacked'
       /\ \A c \in air', d \in air' : /\ d.src = c.src /\ d.to = c.to
                                      /\ d.ogm.orig = c.ogm.orig
                                      /\ d.ogm.seqno = c.ogm.seqno
                                      => d = c
       /\ \A m \in Node, o \in Addr, nb \in Neigh, x \in OutIf :
            LET e == neigh_ifinfo[m][o][nb][x]
            IN  e # None =>
                  /\ \A t \in Seqno : t = e.last_seqno => Sent(o, nb[2], t)'
                  /\ nb[2][1] # o[1] => Outranks(RouteInfo(nb[2][1], o, nb[2][2])', e)
       /\ \A d \in new, m \in Node, nb \in Neigh, x \in OutIf :
            LET e == neigh_ifinfo[m][d.ogm.orig][nb][x]
            IN  e # None /\ nb[2] = d.src => e.last_seqno # d.ogm.seqno
  <2>1. air' = (air \ {}) \cup new
    BY <1>1
  <2>2. \A m \in Node, o \in Addr, x \in OutIf : RouterOf(m, o, x) # None =>
          /\ RouterOf(m, o, x)' # None
          /\ orig_ifinfo[m][o][x].last_seqno_forwarded
               <= orig_ifinfo'[m][o][x].last_seqno_forwarded
          /\ RouteInfo(m, o, x) \in NeighIfinfo /\ RouteInfo(m, o, x)' \in NeighIfinfo
          /\ NotWorse(RouteInfo(m, o, x)', RouteInfo(m, o, x))
    BY <1>1, <1>8
  <2>3. \A d \in new :
          /\ ~Sent(d.ogm.orig, d.src, d.ogm.seqno)
          /\ Sent(d.ogm.orig, d.src, d.ogm.seqno)'
          /\ d.src[1] # d.ogm.orig[1] =>
               NotWorse(RouteInfo(d.src[1], d.ogm.orig, d.src[2])',
                        [last_seqno |-> d.ogm.seqno, airtime_cost |-> d.ogm.airtime])
    BY <1>9
  <2> QED BY <1>1, <1>7, <1>10, <2>1, <2>2, <2>3, NewCopies, Zenon
<1>12. NumbersInRange'
  <2>1. \A m \in Originators : InRange(ogm_seqno'[m])
    BY <1>1, <1>3 DEF SteadyInv, NumbersInRange, TypeOK
  <2>2. \A c \in air' : InRange(c.ogm.seqno)
    BY <1>1, <1>3, <1>6, <1>9 DEF SteadyInv, NumbersInRange
  <2> QED BY <1>1, <1>8, <2>1, <2>2 DEF SteadyInv, NumbersInRange, InRange
<1>13. TablesAgree'
  BY <1>1, <1>8 DEF SteadyInv, TablesAgree
<1>14. ReportsBacked'
  BY <1>1, <1>11, ReportsStay
<1>15. EachOgmOnce'
  <2> SUFFICES ASSUME NEW c \in air', NEW x \in OutIf,
                      neigh_ifinfo[c.to[1]][c.ogm.orig][<<c.to[2], c.src>>][x] # None
               PROVE  neigh_ifinfo[c.to[1]][c.ogm.orig][<<c.to[2], c.src>>][x].last_seqno
                        # c.ogm.seqno
    BY <1>1, <1>11 DEF EachOgmOnce
  <2>1. CASE c \in air
    BY <2>1 DEF SteadyInv, EachOgmOnce
  <2>2. CASE c \in new
    <3>1. c.to[1] \in Node /\ <<c.to[2], c.src>> \in Neigh
      BY <1>1 DEF TypeOK, Copy, Addr, Neigh
    <3> QED BY <1>11, <2>2, <3>1
  <2> QED BY <1>1, <2>1, <2>2
<1> QED BY <1>1, <1>11, <1>12, <1>13, <1>14, <1>15 DEF SteadyInv

-----------------------------------------------------------------------------
(* Receiving an OGM.                                                       *)

\* batadv_v_ogm_metric_update() and batadv_v_ogm_route_update() in a steady mesh:
\* what is accepted is not older than what is known, and a router is only ever
\* replaced, or reports again, with something that is not worse.
LEMMA RouteReplaced ==
  ASSUME SteadyInv, NEW n \in Node, NEW ogm \in OgmPacket, NEW nb \in Neigh,
         NEW x \in OutIf, InRange(ogm.seqno), Accepted(n, ogm, x),
         OutsideWindow(SeqDiff(ogm.seqno, IfinfoOrNew(n, ogm.orig, x).last_real_seqno))
           => IfinfoOrNew(n, ogm.orig, x).router = None,
         neigh_ifinfo[n][ogm.orig][nb][x] # None =>
           neigh_ifinfo[n][ogm.orig][nb][x].last_seqno # ogm.seqno
  PROVE  /\ IfinfoOrNew(n, ogm.orig, x).last_seqno_forwarded <= ogm.seqno
         /\ RouterOf(n, ogm.orig, x) = None => RouterAfter(n, ogm, nb, x) = nb
         /\ RouterOf(n, ogm.orig, x) # None =>
              /\ orig_ifinfo[n][ogm.orig][x].last_real_seqno <= ogm.seqno
              /\ RouterAfter(n, ogm, nb, x) \in {nb, RouterOf(n, ogm.orig, x)}
              /\ RouterAfter(n, ogm, nb, x) = nb =>
                   NotWorse([airtime_cost |-> NewCost(n, ogm, nb, x),
                             last_seqno |-> ogm.seqno], RouteInfo(n, ogm.orig, x))
<1> DEFINE o == ogm.orig  s == ogm.seqno  oi == IfinfoOrNew(n, o, x)
           new == [airtime_cost |-> NewCost(n, ogm, nb, x), last_seqno |-> s]
<1>1. /\ TypeOK /\ o \in Addr /\ s \in Seqno /\ s \in Int /\ s >= 0
      /\ NewCost(n, ogm, nb, x) \in Int
  BY OgmAssumption, MetricAssumption, NewCostType DEF SteadyInv, OgmPacket, Seqno, u32
<1>2. CASE RouterOf(n, o, x) = None
  <2>1. oi.router = None /\ oi.last_seqno_forwarded = 0
    BY <1>1, <1>2 DEF RouterOf, IfinfoOrNew, NewOrigIfinfo, SteadyInv, TablesAgree
  <2>2. RouterAfter(n, ogm, nb, x) = nb
    BY <2>1 DEF RouterAfter
  <2> QED BY <1>1, <1>2, <2>1, <2>2
<1>3. CASE RouterOf(n, o, x) # None
  <2> DEFINE r == RouterOf(n, o, x)  info == RouteInfo(n, o, x)
  <2>1. /\ oi = orig_ifinfo[n][o][x] /\ oi.router = r /\ r \in Neigh
        /\ oi.last_real_seqno \in Seqno /\ oi.last_real_seqno \in Int
        /\ oi.last_seqno_forwarded \in Int
        /\ info = neigh_ifinfo[n][o][r][x] /\ info \in NeighIfinfo
        /\ info.last_seqno \in Int /\ info.airtime_cost \in Int
    <3>1. oi = orig_ifinfo[n][o][x]
      BY <1>3 DEF RouterOf, IfinfoOrNew
    <3> HIDE DEF oi, o
    <3> QED BY <1>1, <1>3, <3>1, RouteType DEF RouteInfo
  <2>2. /\ InRange(oi.last_real_seqno) /\ oi.last_seqno_forwarded <= oi.last_real_seqno
        /\ info.last_seqno <= oi.last_real_seqno
    <3> HIDE DEF o
    <3>1. info # None /\ orig_ifinfo[n][o][x] # None
      BY <1>1, <1>3 DEF SteadyInv, TablesAgree, RouterOf
    <3>2. InRange(orig_ifinfo[n][o][x].last_real_seqno)
      BY <1>1, <1>3 DEF SteadyInv, NumbersInRange
    <3>3. orig_ifinfo[n][o][x].last_seqno_forwarded <= orig_ifinfo[n][o][x].last_real_seqno
      BY <1>1, <3>1 DEF SteadyInv, TablesAgree
    <3>4. neigh_ifinfo[n][o][r][x].last_seqno <= orig_ifinfo[n][o][x].last_real_seqno
      BY <1>1, <2>1, <3>1 DEF SteadyInv, TablesAgree
    <3> HIDE DEF oi, r, info
    <3> QED BY <2>1, <3>2, <3>3, <3>4
  <2>3. oi.last_real_seqno <= s
    <3>1. oi.router # None
      BY <1>3, <2>1
    <3>2. SeqDiff(s, oi.last_real_seqno) >= 0
      BY <3>1 DEF Accepted
    <3> HIDE DEF oi, s
    <3>3. SeqDiff(s, oi.last_real_seqno) = s - oi.last_real_seqno
      BY <1>1, <2>1, <2>2, SeqOrder DEF s
    <3> QED BY <1>1, <2>1, <3>2, <3>3
  <2>4. ASSUME RouterAfter(n, ogm, nb, x) = nb PROVE NotWorse(new, info)
    <3>1. CASE r = nb
      <4>1. info.last_seqno # s
        BY <2>1, <3>1, OgmAssumption
      <4> HIDE DEF info, r, o, s
      <4>2. info.last_seqno < s
        BY <1>1, <2>1, <2>2, <2>3, <4>1
      <4> QED BY <4>2 DEF NotWorse
    <3>2. CASE r # nb
      <4>1. ~(/\ SeqDiff(s, info.last_seqno) < OGM_MAX_ORIGDIFF
              /\ info.airtime_cost <= NewCost(n, ogm, nb, x))
        <5>1. oi.router # None /\ oi.router # nb /\ info # None
          BY <1>3, <2>1, <3>2, OgmAssumption
        <5> QED BY <2>1, <2>4, <3>2, <5>1 DEF RouterAfter
      <4> HIDE DEF info, r, o, s
      <4>2. SeqDiff(s, info.last_seqno) \in Int
        BY <1>1, <2>1, OgmAssumption DEF SeqDiff
      <4>3. CASE SeqDiff(s, info.last_seqno) >= OGM_MAX_ORIGDIFF
        <5>1. s \in Int /\ info.last_seqno \in Int /\ s >= info.last_seqno
          BY <1>1, <2>1, <2>2, <2>3
        <5>2. SeqDiff(s, info.last_seqno) # 0
          BY <4>2, <4>3, OgmAssumption
        <5>3. s = info.last_seqno => SeqDiff(s, info.last_seqno) = 0
          BY <5>1, OgmAssumption DEF SeqDiff
        <5>4. s > info.last_seqno
          BY <5>1, <5>2, <5>3
        <5> QED BY <5>4 DEF NotWorse
      <4>4. CASE info.airtime_cost > NewCost(n, ogm, nb, x)
        <5>1. s >= info.last_seqno
          BY <1>1, <2>1, <2>2, <2>3
        <5> QED BY <1>1, <2>1, <4>4, <5>1 DEF NotWorse
      <4>5. \/ SeqDiff(s, info.last_seqno) < OGM_MAX_ORIGDIFF
            \/ SeqDiff(s, info.last_seqno) >= OGM_MAX_ORIGDIFF
        BY <4>2, OgmAssumption
      <4>6. \/ info.airtime_cost <= NewCost(n, ogm, nb, x)
            \/ info.airtime_cost > NewCost(n, ogm, nb, x)
        BY <1>1, <2>1
      <4> QED BY <4>1, <4>3, <4>4, <4>5, <4>6
    <3> QED BY <3>1, <3>2
  <2>5. RouterAfter(n, ogm, nb, x) \in {nb, r}
    BY <2>1 DEF RouterAfter
  <2>6. oi.last_seqno_forwarded <= s
    <3> HIDE DEF oi, s
    <3> QED BY <1>1, <2>1, <2>2, <2>3
  <2> QED BY <1>3, <2>1, <2>3, <2>4, <2>5, <2>6
<1> QED BY <1>2, <1>3

\* The step of batadv_v_ogm_process() that is not dropped, interface by interface.
ProcessStep(n, ogm, nb, outifs) ==
  /\ outifs \subseteq OutIf /\ InRange(ogm.seqno)
  /\ \A x \in OutIf :
       OutsideWindow(SeqDiff(ogm.seqno, IfinfoOrNew(n, ogm.orig, x).last_real_seqno))
         => IfinfoOrNew(n, ogm.orig, x).router = None
  /\ \A x \in OutIf : neigh_ifinfo[n][ogm.orig][nb][x] # None =>
       neigh_ifinfo[n][ogm.orig][nb][x].last_seqno # ogm.seqno
  /\ \A x \in OutIf :
       /\ orig_ifinfo'[n][ogm.orig][x] =
            IF x \in outifs THEN IfinfoAfter(n, ogm, nb, x) ELSE orig_ifinfo[n][ogm.orig][x]
       /\ neigh_ifinfo'[n][ogm.orig][nb][x] =
            IF x \in outifs /\ Accepted(n, ogm, x)
              THEN [airtime_cost |-> NewCost(n, ogm, nb, x), last_seqno |-> ogm.seqno]
              ELSE neigh_ifinfo[n][ogm.orig][nb][x]
  /\ \A k \in Neigh \ {nb} : neigh_ifinfo'[n][ogm.orig][k] = neigh_ifinfo[n][ogm.orig][k]
  /\ neigh_list'[n][ogm.orig] = neigh_list[n][ogm.orig] \cup {nb}
  /\ \A m \in Node, p \in Addr : m # n \/ p # ogm.orig =>
       /\ orig_ifinfo'[m][p] = orig_ifinfo[m][p]
       /\ neigh_ifinfo'[m][p] = neigh_ifinfo[m][p]
       /\ neigh_list'[m][p] = neigh_list[m][p]

\* What such a step leaves in the tables of n.
LEMMA TablesAfter ==
  ASSUME SteadyInv, TypeOK', NEW n \in Node, NEW ogm \in OgmPacket, NEW nb \in Neigh,
         NEW outifs, ProcessStep(n, ogm, nb, outifs)
  PROVE  /\ TablesAgree'
         /\ \A m \in Node, o \in Addr, x \in OutIf :
              /\ RouterOf(m, o, x)' # None =>
                   orig_ifinfo'[m][o][x].last_real_seqno
                     \in {ogm.seqno, orig_ifinfo[m][o][x].last_real_seqno}
              /\ RouterOf(m, o, x)' # None /\ RouterOf(m, o, x) = None =>
                   orig_ifinfo'[m][o][x].last_real_seqno = ogm.seqno
              /\ RouterOf(m, o, x) # None =>
                   /\ RouterOf(m, o, x)' # None
                   /\ orig_ifinfo[m][o][x].last_seqno_forwarded
                        <= orig_ifinfo'[m][o][x].last_seqno_forwarded
                   /\ RouteInfo(m, o, x) \in NeighIfinfo /\ RouteInfo(m, o, x)' \in NeighIfinfo
                   /\ NotWorse(RouteInfo(m, o, x)', RouteInfo(m, o, x))
         /\ \A x \in outifs : Forwards(n, ogm, nb, x) =>
              /\ RouterOf(n, ogm.orig, x)' = nb
              /\ orig_ifinfo'[n][ogm.orig][x].last_seqno_forwarded = ogm.seqno
              /\ RouteInfo(n, ogm.orig, x)' = [airtime_cost |-> NewCost(n, ogm, nb, x),
                                               last_seqno |-> ogm.seqno]
<1> DEFINE o == ogm.orig  s == ogm.seqno
           rec(x) == [airtime_cost |-> NewCost(n, ogm, nb, x), last_seqno |-> s]
           good(m, p, x) ==
             /\ orig_ifinfo'[m][p][x] # None =>
                  orig_ifinfo'[m][p][x].last_seqno_forwarded
                    <= orig_ifinfo'[m][p][x].last_real_seqno
             /\ orig_ifinfo'[m][p][x] # None /\ orig_ifinfo'[m][p][x].router = None =>
                  orig_ifinfo'[m][p][x].last_seqno_forwarded = 0
             /\ RouterOf(m, p, x)' # None => /\ RouterOf(m, p, x)' \in neigh_list'[m][p]
                                             /\ RouteInfo(m, p, x)' # None
             /\ \A k \in Neigh : neigh_ifinfo'[m][p][k][x] # None =>
                  /\ RouterOf(m, p, x)' # None
                  /\ neigh_ifinfo'[m][p][k][x].last_seqno
                       <= orig_ifinfo'[m][p][x].last_real_seqno
           grown(m, p, x) ==
             /\ RouterOf(m, p, x)' # None =>
                  orig_ifinfo'[m][p][x].last_real_seqno
                    \in {s, orig_ifinfo[m][p][x].last_real_seqno}
             /\ RouterOf(m, p, x)' # None /\ RouterOf(m, p, x) = None =>
                  orig_ifinfo'[m][p][x].last_real_seqno = s
             /\ RouterOf(m, p, x) # None =>
                  /\ RouterOf(m, p, x)' # None
                  /\ orig_ifinfo[m][p][x].last_seqno_forwarded
                       <= orig_ifinfo'[m][p][x].last_seqno_forwarded
                  /\ RouteInfo(m, p, x) \in NeighIfinfo /\ RouteInfo(m, p, x)' \in NeighIfinfo
                  /\ NotWorse(RouteInfo(m, p, x)', RouteInfo(m, p, x))
<1> USE DEF ProcessStep
<1>1. TypeOK /\ o \in Addr /\ s \in Seqno /\ s \in Int /\ s >= 0
  BY OgmAssumption DEF SteadyInv, OgmPacket, Seqno
<1>2. \A x \in OutIf : rec(x) \in NeighIfinfo
  BY <1>1, NewCostType DEF NeighIfinfo
<1>3. \A m \in Node, p \in Addr : m # n \/ p # o =>
        /\ orig_ifinfo'[m][p] = orig_ifinfo[m][p] /\ neigh_ifinfo'[m][p] = neigh_ifinfo[m][p]
        /\ neigh_list'[m][p] = neigh_list[m][p]
  BY Zenon
<1>4. /\ \A k \in Neigh \ {nb} : neigh_ifinfo'[n][o][k] = neigh_ifinfo[n][o][k]
      /\ neigh_list'[n][o] = neigh_list[n][o] \cup {nb}
  BY Zenon
<1>5. \A x \in OutIf :
        /\ orig_ifinfo'[n][o][x] = IF x \in outifs THEN IfinfoAfter(n, ogm, nb, x)
                                   ELSE orig_ifinfo[n][o][x]
        /\ neigh_ifinfo'[n][o][nb][x] = IF x \in outifs /\ Accepted(n, ogm, x) THEN rec(x)
                                        ELSE neigh_ifinfo[n][o][nb][x]
  BY Zenon
<1>6. TablesAgree
  BY DEF SteadyInv
<1> HIDE DEF o, s, rec
<1>7. ASSUME NEW m \in Node, NEW p \in Addr, NEW x \in OutIf, m # n \/ p # o
      PROVE  good(m, p, x) /\ grown(m, p, x)
  <2>1. /\ RouterOf(m, p, x)' = RouterOf(m, p, x) /\ RouteInfo(m, p, x)' = RouteInfo(m, p, x)
        /\ orig_ifinfo'[m][p][x] = orig_ifinfo[m][p][x]
        /\ neigh_ifinfo'[m][p] = neigh_ifinfo[m][p] /\ neigh_list'[m][p] = neigh_list[m][p]
    <3>1. /\ orig_ifinfo'[m][p][x] = orig_ifinfo[m][p][x]
          /\ neigh_ifinfo'[m][p] = neigh_ifinfo[m][p] /\ neigh_list'[m][p] = neigh_list[m][p]
      BY <1>3, <1>7
    <3>2. RouterOf(m, p, x)' = RouterOf(m, p, x)
      BY <3>1 DEF RouterOf
    <3>3. RouteInfo(m, p, x)' = RouteInfo(m, p, x)
      BY <3>1, <3>2 DEF RouteInfo
    <3> QED BY <3>1, <3>2, <3>3
  <2>2. /\ orig_ifinfo[m][p][x] # None =>
             orig_ifinfo[m][p][x].last_seqno_forwarded <= orig_ifinfo[m][p][x].last_real_seqno
        /\ orig_ifinfo[m][p][x] # None /\ orig_ifinfo[m][p][x].router = None =>
             orig_ifinfo[m][p][x].last_seqno_forwarded = 0
        /\ RouterOf(m, p, x) # None => /\ RouterOf(m, p, x) \in neigh_list[m][p]
                                       /\ RouteInfo(m, p, x) # None
        /\ \A k \in Neigh : neigh_ifinfo[m][p][k][x] # None =>
             /\ RouterOf(m, p, x) # None
             /\ neigh_ifinfo[m][p][k][x].last_seqno <= orig_ifinfo[m][p][x].last_real_seqno
    BY <1>6 DEF TablesAgree
  <2>4. good(m, p, x)
    BY <2>1, <2>2
  <2>3. grown(m, p, x)
    BY <2>1, RouteType
  <2> QED BY <2>3, <2>4
<1>8. ASSUME NEW x \in OutIf, ~(x \in outifs /\ Accepted(n, ogm, x))
      PROVE  good(n, o, x) /\ grown(n, o, x)
  <2>1. orig_ifinfo'[n][o][x] \in {IfinfoOrNew(n, o, x), orig_ifinfo[n][o][x]}
    BY <1>5, <1>8 DEF IfinfoAfter, o
  <2>2. \A k \in Neigh : neigh_ifinfo'[n][o][k][x] = neigh_ifinfo[n][o][k][x]
    BY <1>4, <1>5, <1>8
  <2>3. CASE RouterOf(n, o, x) = None
    <3>1. \A k \in Neigh : neigh_ifinfo[n][o][k][x] = None
      BY <1>1, <1>6, <2>3 DEF TablesAgree
    <3>2. orig_ifinfo'[n][o][x] # None =>
            /\ orig_ifinfo'[n][o][x].router = None
            /\ orig_ifinfo'[n][o][x].last_seqno_forwarded = 0
            /\ orig_ifinfo'[n][o][x].last_seqno_forwarded
                 <= orig_ifinfo'[n][o][x].last_real_seqno
      <4>1. CASE orig_ifinfo[n][o][x] = None
        BY <2>1, <4>1 DEF IfinfoOrNew, NewOrigIfinfo
      <4>2. CASE orig_ifinfo[n][o][x] # None
        BY <1>1, <1>6, <2>1, <2>3, <4>2 DEF IfinfoOrNew, RouterOf, TablesAgree
      <4> QED BY <4>1, <4>2
    <3>3. RouterOf(n, o, x)' = None
      BY <3>2 DEF RouterOf
    <3>4. good(n, o, x)
      BY <2>2, <3>1, <3>2, <3>3
    <3>5. grown(n, o, x)
      BY <2>3, <3>3
    <3> QED BY <3>4, <3>5
  <2>4. CASE RouterOf(n, o, x) # None
    <3>1. orig_ifinfo'[n][o][x] = orig_ifinfo[n][o][x] /\ orig_ifinfo[n][o][x] # None
      BY <2>1, <2>4 DEF RouterOf, IfinfoOrNew
    <3>2. RouterOf(n, o, x)' = RouterOf(n, o, x)
      BY <3>1 DEF RouterOf
    <3>3. RouterOf(n, o, x) \in Neigh
      BY <1>1, <2>4, RouteType
    <3>4. RouteInfo(n, o, x)' = RouteInfo(n, o, x)
      BY <2>2, <3>2, <3>3 DEF RouteInfo
    <3>5. /\ orig_ifinfo[n][o][x].last_seqno_forwarded <= orig_ifinfo[n][o][x].last_real_seqno
          /\ orig_ifinfo[n][o][x].router # None
          /\ RouterOf(n, o, x) \in neigh_list[n][o] /\ RouteInfo(n, o, x) # None
          /\ \A k \in Neigh : neigh_ifinfo[n][o][k][x] # None =>
               neigh_ifinfo[n][o][k][x].last_seqno <= orig_ifinfo[n][o][x].last_real_seqno
      BY <1>1, <1>6, <2>4, <3>1 DEF TablesAgree, RouterOf
    <3>6. good(n, o, x)
      BY <1>4, <2>2, <2>4, <3>1, <3>2, <3>4, <3>5
    <3>7. grown(n, o, x)
      BY <1>1, <2>4, <3>1, <3>2, <3>4, RouteType
    <3> QED BY <3>6, <3>7
  <2> QED BY <2>3, <2>4
<1>9. ASSUME NEW x \in OutIf, x \in outifs, Accepted(n, ogm, x)
      PROVE  /\ good(n, o, x) /\ grown(n, o, x)
             /\ RouterOf(n, o, x)' = RouterAfter(n, ogm, nb, x)
             /\ RouterAfter(n, ogm, nb, x) = nb => RouteInfo(n, o, x)' = rec(x)
  <2> DEFINE oi == IfinfoOrNew(n, o, x)  r == RouterAfter(n, ogm, nb, x)
  <2>1. /\ oi.last_seqno_forwarded <= s
        /\ RouterOf(n, o, x) = None => r = nb
        /\ RouterOf(n, o, x) # None =>
             /\ orig_ifinfo[n][o][x].last_real_seqno <= s
             /\ r \in {nb, RouterOf(n, o, x)}
             /\ r = nb => NotWorse(rec(x), RouteInfo(n, o, x))
    BY <1>9, RouteReplaced DEF o, s, rec
  <2>2. oi \in OrigIfinfo /\ oi.last_seqno_forwarded \in Int
    BY <1>1, IfinfoOrNewType, OgmAssumption DEF OrigIfinfo, Seqno
  <2>3. /\ orig_ifinfo'[n][o][x].router = r /\ orig_ifinfo'[n][o][x].last_real_seqno = s
        /\ orig_ifinfo'[n][o][x].last_seqno_forwarded \in {s, oi.last_seqno_forwarded}
    <3>1. orig_ifinfo'[n][o][x] = IfinfoAfter(n, ogm, nb, x)
      BY <1>5, <1>9
    <3> QED BY <1>9, <3>1 DEF IfinfoAfter, o, s
  <2>4. r \in Neigh /\ r # None /\ r \in neigh_list[n][o] \cup {nb}
    <3>1. RouterOf(n, o, x) # None =>
            RouterOf(n, o, x) \in Neigh /\ RouterOf(n, o, x) \in neigh_list[n][o]
      BY <1>1, <1>6, RouteType DEF TablesAgree
    <3> QED BY <2>1, <3>1, OgmAssumption
  <2>5. orig_ifinfo'[n][o][x] # None
    <3>1. orig_ifinfo'[n][o][x] = IfinfoAfter(n, ogm, nb, x)
      BY <1>5, <1>9
    <3> QED BY <1>1, <3>1, IfinfoAfterType, OgmAssumption
  <2> HIDE DEF oi, r
  <2>6. RouterOf(n, o, x)' = r
    BY <2>3, <2>5 DEF RouterOf
  <2>7. neigh_ifinfo'[n][o][nb][x] = rec(x)
    BY <1>5, <1>9
  <2>8. /\ r = nb => RouteInfo(n, o, x)' = rec(x)
        /\ r # nb => RouteInfo(n, o, x)' = RouteInfo(n, o, x) /\ RouterOf(n, o, x) # None
    BY <1>4, <2>1, <2>4, <2>6, <2>7 DEF RouteInfo
  <2>9. orig_ifinfo'[n][o][x].last_seqno_forwarded <= s
    BY <1>1, <2>1, <2>2, <2>3
  <2>10. \A k \in Neigh : neigh_ifinfo'[n][o][k][x] # None =>
           neigh_ifinfo'[n][o][k][x].last_seqno <= s
    <3> SUFFICES ASSUME NEW k \in Neigh, neigh_ifinfo'[n][o][k][x] # None
                 PROVE  neigh_ifinfo'[n][o][k][x].last_seqno <= s
      OBVIOUS
    <3>1. CASE k = nb
      BY <1>1, <2>7, <3>1 DEF rec
    <3>2. CASE k # nb
      <4>1. neigh_ifinfo'[n][o][k][x] = neigh_ifinfo[n][o][k][x]
        BY <1>4, <3>2
      <4>2. /\ RouterOf(n, o, x) # None
            /\ neigh_ifinfo[n][o][k][x].last_seqno <= orig_ifinfo[n][o][x].last_real_seqno
        BY <1>1, <1>6, <4>1 DEF TablesAgree
      <4>3. orig_ifinfo[n][o][x].last_real_seqno \in Int
            /\ orig_ifinfo[n][o][x].last_real_seqno <= s
        BY <1>1, <2>1, <4>2, RouteType
      <4>4. neigh_ifinfo[n][o][k][x] \in NeighIfinfo
        BY <1>1, <4>1 DEF TypeOK
      <4>5. neigh_ifinfo[n][o][k][x].last_seqno \in Int
        BY <4>4, OgmAssumption DEF NeighIfinfo, Seqno
      <4> QED BY <1>1, <4>1, <4>2, <4>3, <4>5
    <3> QED BY <3>1, <3>2
  <2>11. RouteInfo(n, o, x)' \in NeighIfinfo
    BY <1>1, <1>2, <2>8, RouteType
  <2>12. good(n, o, x)
    BY <1>4, <2>3, <2>4, <2>5, <2>6, <2>9, <2>10, <2>11, OgmAssumption
  <2>13. grown(n, o, x)
    <3>1. ASSUME RouterOf(n, o, x) # None
          PROVE  /\ oi = orig_ifinfo[n][o][x]
                 /\ orig_ifinfo[n][o][x].last_seqno_forwarded
                      <= orig_ifinfo'[n][o][x].last_seqno_forwarded
                 /\ RouteInfo(n, o, x) \in NeighIfinfo
                 /\ NotWorse(RouteInfo(n, o, x)', RouteInfo(n, o, x))
      <4>1. oi = orig_ifinfo[n][o][x]
        BY <3>1 DEF RouterOf, IfinfoOrNew, oi
      <4>2. RouteInfo(n, o, x) \in NeighIfinfo /\ NotWorse(RouteInfo(n, o, x), RouteInfo(n, o, x))
        BY <1>1, <3>1, RouteType
      <4>3. NotWorse(RouteInfo(n, o, x)', RouteInfo(n, o, x))
        BY <2>1, <2>8, <3>1, <4>2
      <4> QED BY <1>1, <2>1, <2>2, <2>3, <4>1, <4>2, <4>3
    <3> QED BY <2>3, <2>4, <2>6, <2>11, <3>1
  <2> QED BY <2>6, <2>8, <2>12, <2>13 DEF r
<1>10. \A m \in Node, p \in Addr, x \in OutIf : good(m, p, x) /\ grown(m, p, x)
  <2> HIDE DEF good, grown
  <2> QED BY <1>1, <1>7, <1>8, <1>9
<1>11. TablesAgree'
  <2>1. \A m \in Node, p \in Addr, x \in OutIf : good(m, p, x)
    <3> HIDE DEF good, grown
    <3> QED BY <1>10
  <2> QED BY <2>1, Zenon DEF TablesAgree
<1>12. \A x \in outifs : Forwards(n, ogm, nb, x) =>
         /\ RouterOf(n, o, x)' = nb /\ orig_ifinfo'[n][o][x].last_seqno_forwarded = s
         /\ RouteInfo(n, o, x)' = rec(x)
  <2> SUFFICES ASSUME NEW x \in outifs, Forwards(n, ogm, nb, x)
               PROVE  /\ RouterOf(n, o, x)' = nb
                      /\ orig_ifinfo'[n][o][x].last_seqno_forwarded = s
                      /\ RouteInfo(n, o, x)' = rec(x)
    OBVIOUS
  <2>1. x \in OutIf /\ Accepted(n, ogm, x) /\ RouterAfter(n, ogm, nb, x) = nb
    BY DEF Forwards
  <2>2. orig_ifinfo'[n][o][x].last_seqno_forwarded = s
    <3>1. orig_ifinfo'[n][o][x] = IfinfoAfter(n, ogm, nb, x)
      BY <1>5, <2>1
    <3>2. IfinfoAfter(n, ogm, nb, x).last_seqno_forwarded = s
      BY <2>1 DEF IfinfoAfter, s
    <3> QED BY <3>1, <3>2
  <2> HIDE DEF good, grown
  <2>3. /\ RouterOf(n, o, x)' = RouterAfter(n, ogm, nb, x)
        /\ RouterAfter(n, ogm, nb, x) = nb => RouteInfo(n, o, x)' = rec(x)
    BY <1>9, <2>1
  <2> QED BY <2>1, <2>2, <2>3
<1>13. \A m \in Node, p \in Addr, x \in OutIf : grown(m, p, x)
  <2> HIDE DEF good, grown
  <2> QED BY <1>10
<1> QED BY <1>11, <1>12, <1>13, Zenon DEF o, s, rec

LEMMA SteadyReceive ==
  ASSUME SteadyInv, NEW c \in air, Undisturbed(c), ReceiveOgm(c)
  PROVE  SteadyInv'
<1> DEFINE n == c.to[1]  ogm == c.ogm  o == ogm.orig  nb == <<c.to[2], c.src>>
      outifs == OutIfsFor(n, o, Orig(c.src[1]))
      accepting == {x \in outifs : Accepted(n, ogm, x)}
      sending   == {x \in outifs : Forwards(n, ogm, nb, x) /\ ogm.ttl > 1}
      new == UNION {Broadcast(n, f, ForwardedOgm(n, ogm, nb, f)) : f \in sending}
      rec(x) == [airtime_cost |-> NewCost(n, ogm, nb, x), last_seqno |-> ogm.seqno]
      newInfo == [x \in OutIf |-> IF x \in outifs THEN IfinfoAfter(n, ogm, nb, x)
                                                  ELSE orig_ifinfo[n][o][x]]
      newCosts == [x \in OutIf |-> IF x \in accepting THEN rec(x)
                                   ELSE neigh_ifinfo[n][o][nb][x]]
<1>1. TypeOK /\ TypeOK'
  BY TypeReceive DEF SteadyInv
<1>2. CASE Dropped(n, ogm, nb)
  <2>1. air' \subseteq air /\ UNCHANGED <<ogm_seqno, orig_ifinfo, neigh_ifinfo, neigh_list>>
    BY <1>2 DEF ReceiveOgm, tables
  <2>2. \A m \in Node, p \in Addr : neigh_list[m][p] \subseteq neigh_list'[m][p]
    BY <2>1
  <2> QED BY <1>1, <2>1, <2>2, RoutesUntouched
<1>3. CASE ~Dropped(n, ogm, nb)
  <2>1. /\ c \in Copy /\ n \in Node /\ ogm \in OgmPacket /\ o \in Addr
        /\ nb \in Neigh /\ c.src \in Addr /\ c.src[1] \in Node /\ c.src[2] \in OutIf
        /\ c.to = <<n, c.to[2]>>
        /\ outifs \subseteq OutIf /\ sending \subseteq Iface /\ sending \subseteq outifs
        /\ ogm.seqno \in Seqno /\ ogm.seqno \in Int /\ ogm.airtime \in Int
    <3>1. /\ c \in Copy /\ n \in Node /\ ogm \in OgmPacket /\ o \in Addr
          /\ nb \in Neigh /\ c.src \in Addr /\ c.src[1] \in Node /\ c.src[2] \in OutIf
          /\ c.to = <<n, c.to[2]>>
      <4>1. c \in Copy
        BY <1>1 DEF TypeOK
      <4>2. /\ n \in Node /\ ogm \in OgmPacket /\ nb \in Neigh
            /\ c.src \in Addr /\ c.src[1] \in Node /\ c.src[2] \in OutIf /\ c.to = <<n, c.to[2]>>
        BY <4>1 DEF Copy, Addr, Neigh, OutIf
      <4>3. o \in Addr
        BY <4>2 DEF OgmPacket
      <4> QED BY <4>1, <4>2, <4>3
    <3>2. outifs \subseteq OutIf /\ sending \subseteq Iface /\ sending \subseteq outifs
      BY DEF OutIf, OutIfsFor, Forwards
    <3>3. ogm.seqno \in Seqno /\ ogm.airtime \in u32
      BY <3>1 DEF OgmPacket
    <3>4. ogm.seqno \in Int /\ ogm.airtime \in Int
      BY <3>3, OgmAssumption, MetricAssumption DEF Seqno, u32
    <3> QED BY <3>1, <3>2, <3>3, <3>4
  <2>2. /\ orig_ifinfo' = [orig_ifinfo EXCEPT ![n][o] = newInfo]
        /\ neigh_ifinfo' = [neigh_ifinfo EXCEPT ![n][o][nb] = newCosts]
        /\ neigh_list' = [neigh_list EXCEPT ![n][o] = @ \cup {nb}]
    BY <1>3 DEF ReceiveOgm
  <2>3. air' = (air \ {c}) \cup new /\ ogm_seqno' = ogm_seqno
    BY <1>3 DEF ReceiveOgm
  <2>4. o[1] # n /\ link[n][nb] \in u32 /\ link[n][nb] # None
    <3> HIDE DEF n, nb
    <3> QED BY <1>1, <1>3, <2>1 DEF Dropped, TypeOK
  <2>5. /\ batadv_node_weight_factor(node_weight[n]) >= WEIGHT_SCALE
        /\ link[n][nb] >= 1
        /\ \A x \in OutIf :
             /\ NewCost(n, ogm, nb, x) >= ogm.airtime + link[n][nb]
             /\ OutsideWindow(SeqDiff(ogm.seqno, IfinfoOrNew(n, o, x).last_real_seqno))
                  => IfinfoOrNew(n, o, x).router = None
    <3>1. /\ link[n][nb] # None => link[n][nb] >= 1
          /\ batadv_node_weight_factor(node_weight[n]) >= WEIGHT_SCALE
          /\ \A x \in OutIf :
               /\ link[n][nb] # None => NewCost(n, ogm, nb, x) >= ogm.airtime + link[n][nb]
               /\ OutsideWindow(SeqDiff(ogm.seqno, IfinfoOrNew(n, o, x).last_real_seqno))
                    => IfinfoOrNew(n, o, x).router = None
      BY Zenon DEF Undisturbed
    <3> HIDE DEF n, ogm, nb, o
    <3> QED BY <2>4, <3>1
  <2>6. InRange(ogm.seqno)
    BY DEF SteadyInv, NumbersInRange
  <2>7. \A x \in OutIf : neigh_ifinfo[n][o][nb][x] # None =>
          neigh_ifinfo[n][o][nb][x].last_seqno # ogm.seqno
    BY Zenon DEF SteadyInv, EachOgmOnce
  <2>8. \A x \in OutIf :
          /\ newInfo[x] = IF x \in outifs THEN IfinfoAfter(n, ogm, nb, x) ELSE orig_ifinfo[n][o][x]
          /\ newCosts[x] = IF x \in outifs /\ Accepted(n, ogm, x) THEN rec(x)
                           ELSE neigh_ifinfo[n][o][nb][x]
    OBVIOUS
  <2>9. /\ Sent(o, c.src, ogm.seqno)
        /\ c.src[1] # o[1] => NotWorse(RouteInfo(c.src[1], o, c.src[2]),
                                [last_seqno |-> ogm.seqno, airtime_cost |-> ogm.airtime])
    BY DEF SteadyInv, CopiesBacked
  <2>10. \A d \in air \ {c} : d.src = c.src /\ d.to = c.to /\ d.ogm.orig = o
                               => d.ogm.seqno # ogm.seqno
    BY DEF SteadyInv, EachOgmOnce
  <2>11. \A f \in sending : /\ Forwards(n, ogm, nb, f)
                            /\ ForwardedOgm(n, ogm, nb, f) \in OgmPacket
                            /\ ForwardedOgm(n, ogm, nb, f).orig = o
                            /\ ForwardedOgm(n, ogm, nb, f).seqno = ogm.seqno
                            /\ ForwardedOgm(n, ogm, nb, f).airtime
                                 = WeightedPath(NewCost(n, ogm, nb, f),
                                     batadv_node_weight_factor(node_weight[n]))
    <3> SUFFICES ASSUME NEW f \in sending
                 PROVE  /\ ForwardedOgm(n, ogm, nb, f) \in OgmPacket
                        /\ ForwardedOgm(n, ogm, nb, f).orig = o
                        /\ ForwardedOgm(n, ogm, nb, f).seqno = ogm.seqno
                        /\ ForwardedOgm(n, ogm, nb, f).airtime
                             = WeightedPath(NewCost(n, ogm, nb, f),
                                     batadv_node_weight_factor(node_weight[n]))
      OBVIOUS
    <3>1. ForwardedOgm(n, ogm, nb, f) \in OgmPacket
      <4>1. f \in OutIf /\ ogm.ttl > 1
        BY <2>1
      <4> QED BY <1>1, <2>1, <4>1, ForwardedType
    <3> HIDE DEF n, nb
    <3> QED BY <2>1, <3>1 DEF ForwardedOgm, OgmPacket
  <2>12. \A d \in new : \E f \in sending : d \in Broadcast(n, f, ForwardedOgm(n, ogm, nb, f))
    OBVIOUS
  <2> HIDE DEF n, ogm, nb, outifs, accepting, sending, new, newInfo, newCosts
  <2>13. /\ orig_ifinfo'[n][o] = newInfo /\ neigh_ifinfo'[n][o][nb] = newCosts
         /\ \A k \in Neigh \ {nb} : neigh_ifinfo'[n][o][k] = neigh_ifinfo[n][o][k]
         /\ neigh_list'[n][o] = neigh_list[n][o] \cup {nb}
         /\ \A m \in Node, p \in Addr : m # n \/ p # o =>
              /\ orig_ifinfo'[m][p] = orig_ifinfo[m][p]
              /\ neigh_ifinfo'[m][p] = neigh_ifinfo[m][p]
              /\ neigh_list'[m][p] = neigh_list[m][p]
    <3>1. /\ orig_ifinfo \in [Node -> [Addr -> [OutIf -> OrigIfinfo \cup {None}]]]
          /\ neigh_ifinfo \in [Node -> [Addr -> [Neigh -> [OutIf -> NeighIfinfo \cup {None}]]]]
          /\ neigh_list \in [Node -> [Addr -> SUBSET Neigh]]
      BY <1>1 DEF TypeOK
    <3> HIDE DEF o
    <3>2. orig_ifinfo'[n][o] = newInfo
      BY <2>1, <2>2, <3>1
    <3>3. /\ neigh_ifinfo'[n][o][nb] = newCosts
          /\ \A k \in Neigh \ {nb} : neigh_ifinfo'[n][o][k] = neigh_ifinfo[n][o][k]
      BY <2>1, <2>2, <3>1
    <3>4. neigh_list'[n][o] = neigh_list[n][o] \cup {nb}
      BY <2>1, <2>2, <3>1
    <3>5. \A m \in Node, p \in Addr : m # n \/ p # o =>
            /\ orig_ifinfo'[m][p] = orig_ifinfo[m][p]
            /\ neigh_ifinfo'[m][p] = neigh_ifinfo[m][p]
            /\ neigh_list'[m][p] = neigh_list[m][p]
      BY <2>1, <2>2, <3>1
    <3> QED BY <3>2, <3>3, <3>4, <3>5
  <2>14. \A x \in OutIf :
           /\ orig_ifinfo'[n][o][x] =
                IF x \in outifs THEN IfinfoAfter(n, ogm, nb, x) ELSE orig_ifinfo[n][o][x]
           /\ neigh_ifinfo'[n][o][nb][x] = IF x \in outifs /\ Accepted(n, ogm, x) THEN rec(x)
                                           ELSE neigh_ifinfo[n][o][nb][x]
    BY <2>8, <2>13
  <2>15. /\ TablesAgree'
         /\ \A m \in Node, p \in Addr, x \in OutIf :
              /\ RouterOf(m, p, x)' # None =>
                   orig_ifinfo'[m][p][x].last_real_seqno
                     \in {ogm.seqno, orig_ifinfo[m][p][x].last_real_seqno}
              /\ RouterOf(m, p, x)' # None /\ RouterOf(m, p, x) = None =>
                   orig_ifinfo'[m][p][x].last_real_seqno = ogm.seqno
              /\ RouterOf(m, p, x) # None =>
                   /\ RouterOf(m, p, x)' # None
                   /\ orig_ifinfo[m][p][x].last_seqno_forwarded
                        <= orig_ifinfo'[m][p][x].last_seqno_forwarded
                   /\ RouteInfo(m, p, x) \in NeighIfinfo /\ RouteInfo(m, p, x)' \in NeighIfinfo
                   /\ NotWorse(RouteInfo(m, p, x)', RouteInfo(m, p, x))
         /\ \A x \in outifs : Forwards(n, ogm, nb, x) =>
              /\ RouterOf(n, o, x)' = nb
              /\ orig_ifinfo'[n][o][x].last_seqno_forwarded = ogm.seqno
              /\ RouteInfo(n, o, x)' = rec(x)
    <3>1. n \in Node /\ ogm \in OgmPacket /\ nb \in Neigh /\ outifs \subseteq OutIf
      BY <2>1
    <3>2. \A x \in OutIf :
            OutsideWindow(SeqDiff(ogm.seqno, IfinfoOrNew(n, ogm.orig, x).last_real_seqno))
              => IfinfoOrNew(n, ogm.orig, x).router = None
      BY <2>5
    <3>3. \A m \in Node, p \in Addr : m # n \/ p # ogm.orig =>
            /\ orig_ifinfo'[m][p] = orig_ifinfo[m][p]
            /\ neigh_ifinfo'[m][p] = neigh_ifinfo[m][p]
            /\ neigh_list'[m][p] = neigh_list[m][p]
      BY <2>13
    <3>4. /\ \A k \in Neigh \ {nb} : neigh_ifinfo'[n][ogm.orig][k] = neigh_ifinfo[n][ogm.orig][k]
          /\ neigh_list'[n][ogm.orig] = neigh_list[n][ogm.orig] \cup {nb}
      BY <2>13
    <3>5. ProcessStep(n, ogm, nb, outifs)
      BY <2>6, <2>7, <2>14, <3>1, <3>2, <3>3, <3>4, Zenon DEF ProcessStep
    <3> QED BY <1>1, <3>1, <3>5, TablesAfter, ZenonT(60)
  <2> HIDE DEF o, rec
  <2>16. ASSUME NEW f \in sending
         PROVE  /\ ~Sent(o, <<n, f>>, ogm.seqno) /\ Sent(o, <<n, f>>, ogm.seqno)'
                /\ RouteInfo(n, o, f)' = rec(f) /\ f \in OutIf
    <3>1. /\ f \in outifs /\ f \in OutIf /\ Forwards(n, ogm, nb, f) /\ Accepted(n, ogm, f)
          /\ IfinfoOrNew(n, o, f).last_seqno_forwarded # ogm.seqno
      BY <2>1, <2>11 DEF Forwards, o
    <3>2. IfinfoOrNew(n, o, f).last_seqno_forwarded <= ogm.seqno
      BY <2>1, <2>5, <2>6, <2>7, <3>1, RouteReplaced DEF o
    <3>3. IfinfoOrNew(n, o, f).last_seqno_forwarded \in Int
      BY <1>1, <2>1, <3>1, IfinfoOrNewType, OgmAssumption DEF OrigIfinfo, Seqno
    <3>4. RouterOf(n, o, f) # None => orig_ifinfo[n][o][f] = IfinfoOrNew(n, o, f)
      BY DEF RouterOf, IfinfoOrNew
    <3>5. ~(ogm.seqno <= IfinfoOrNew(n, o, f).last_seqno_forwarded)
      BY <2>1, <3>1, <3>2, <3>3
    <3>6. ~Sent(o, <<n, f>>, ogm.seqno)
      BY <2>4, <3>4, <3>5 DEF Sent
    <3>7. /\ RouterOf(n, o, f)' = nb /\ nb # None /\ RouteInfo(n, o, f)' = rec(f)
          /\ orig_ifinfo'[n][o][f].last_seqno_forwarded = ogm.seqno
      BY <2>1, <2>15, <3>1, OgmAssumption
    <3>10. Sent(o, <<n, f>>, ogm.seqno)'
      <4>1. \A k \in Int : k <= k
        OBVIOUS
      <4> QED BY <2>1, <2>4, <3>7, <4>1 DEF Sent
    <3> QED BY <3>1, <3>6, <3>7, <3>10
  <2>17. ASSUME NEW d \in new
         PROVE  \E f \in sending :
                  /\ d.src = <<n, f>> /\ d.ogm = ForwardedOgm(n, ogm, nb, f)
                  /\ d = [ogm |-> d.ogm, src |-> d.src, to |-> d.to]
                  /\ d.to \in Addr /\ d.to[1] # n
                  /\ d.ogm.orig = o /\ d.ogm.seqno = ogm.seqno
                  /\ d.ogm.airtime = WeightedPath(NewCost(n, ogm, nb, f),
                                       batadv_node_weight_factor(node_weight[n]))
    <3>1. PICK f \in sending : d \in Broadcast(n, f, ForwardedOgm(n, ogm, nb, f))
      BY <2>12
    <3>2. /\ d = [ogm |-> ForwardedOgm(n, ogm, nb, f), src |-> <<n, f>>, to |-> d.to]
          /\ d.to \in Addr /\ d.to[1] # n
      BY <2>1, <2>11, <3>1, BroadcastCopies
    <3>3. d.ogm = ForwardedOgm(n, ogm, nb, f) /\ d.src = <<n, f>>
      BY <3>2
    <3> QED BY <2>11, <3>1, <3>2, <3>3
  <2>18. ASSUME NEW d \in new
         PROVE  /\ ~Sent(d.ogm.orig, d.src, d.ogm.seqno)
                /\ Sent(d.ogm.orig, d.src, d.ogm.seqno)'
                /\ NotWorse(RouteInfo(d.src[1], d.ogm.orig, d.src[2])',
                            [last_seqno |-> d.ogm.seqno, airtime_cost |-> d.ogm.airtime])
    <3>1. PICK f \in sending :
            /\ d.src = <<n, f>> /\ d.ogm.orig = o /\ d.ogm.seqno = ogm.seqno
            /\ d.ogm.airtime = WeightedPath(NewCost(n, ogm, nb, f),
                                 batadv_node_weight_factor(node_weight[n]))
      BY <2>17
    <3>2. /\ ~Sent(o, <<n, f>>, ogm.seqno) /\ Sent(o, <<n, f>>, ogm.seqno)'
          /\ RouteInfo(n, o, f)' = rec(f) /\ f \in OutIf
      BY <2>16
    <3>3. NewCost(n, ogm, nb, f) \in u32 /\ NewCost(n, ogm, nb, f) \in Int
      BY <1>1, <2>1, <3>2, NewCostType, MetricAssumption DEF u32
    <3>4. batadv_node_weight_factor(node_weight[n]) \in Nat
      BY <1>1, <2>1, FactorType DEF TypeOK, Weight
    <3>5. d.ogm.airtime >= NewCost(n, ogm, nb, f) /\ d.ogm.airtime \in Int
      BY <2>5, <3>1, <3>3, <3>4, WeightedPathGrows, WeightedPathType, MetricAssumption DEF u32
    <3>6. NotWorse(rec(f), [last_seqno |-> ogm.seqno, airtime_cost |-> d.ogm.airtime])
      BY <2>1, <3>3, <3>5 DEF NotWorse, rec
    <3>7. RouteInfo(d.src[1], d.ogm.orig, d.src[2])' = rec(f)
      BY <3>1, <3>2
    <3> QED BY <3>1, <3>2, <3>6, <3>7
  <2>19. \A d \in new, e \in new : d.src = e.src /\ d.to = e.to => d = e
    <3> SUFFICES ASSUME NEW d \in new, NEW e \in new, d.src = e.src, d.to = e.to
                 PROVE  d = e
      OBVIOUS
    <3>1. PICK f \in sending :
            /\ d.src = <<n, f>> /\ d.ogm = ForwardedOgm(n, ogm, nb, f)
            /\ d = [ogm |-> d.ogm, src |-> d.src, to |-> d.to]
      BY <2>17
    <3>2. PICK g \in sending :
            /\ e.src = <<n, g>> /\ e.ogm = ForwardedOgm(n, ogm, nb, g)
            /\ e = [ogm |-> e.ogm, src |-> e.src, to |-> e.to]
      BY <2>17
    <3>3. f = g
      BY <3>1, <3>2
    <3> QED BY <3>1, <3>2, <3>3
  <2>20. /\ CopiesBacked'
         /\ \A d \in air', e \in air' : /\ e.src = d.src /\ e.to = d.to
                                        /\ e.ogm.orig = d.ogm.orig
                                        /\ e.ogm.seqno = d.ogm.seqno
                                        => e = d
         /\ \A m \in Node, p \in Addr, k \in Neigh, x \in OutIf :
              LET e == neigh_ifinfo[m][p][k][x]
              IN  e # None =>
                    /\ \A t \in Seqno : t = e.last_seqno => Sent(p, k[2], t)'
                    /\ k[2][1] # p[1] => Outranks(RouteInfo(k[2][1], p, k[2][2])', e)
         /\ \A d \in new, m \in Node, k \in Neigh, x \in OutIf :
              LET e == neigh_ifinfo[m][d.ogm.orig][k][x]
              IN  e # None /\ k[2] = d.src => e.last_seqno # d.ogm.seqno
    <3>1. \A m \in Originators : ogm_seqno[m] <= ogm_seqno'[m]
      BY <1>1, <2>3, OgmAssumption DEF TypeOK, Seqno
    <3>2. \A m \in Node, p \in Addr, x \in OutIf : RouterOf(m, p, x) # None =>
            /\ RouterOf(m, p, x)' # None
            /\ orig_ifinfo[m][p][x].last_seqno_forwarded
                 <= orig_ifinfo'[m][p][x].last_seqno_forwarded
            /\ RouteInfo(m, p, x) \in NeighIfinfo /\ RouteInfo(m, p, x)' \in NeighIfinfo
            /\ NotWorse(RouteInfo(m, p, x)', RouteInfo(m, p, x))
      BY <2>15
    <3>3. \A d \in new :
            /\ ~Sent(d.ogm.orig, d.src, d.ogm.seqno)
            /\ Sent(d.ogm.orig, d.src, d.ogm.seqno)'
            /\ d.src[1] # d.ogm.orig[1] =>
                 NotWorse(RouteInfo(d.src[1], d.ogm.orig, d.src[2])',
                          [last_seqno |-> d.ogm.seqno, airtime_cost |-> d.ogm.airtime])
      BY <2>18
    <3> QED BY <1>1, <2>3, <2>19, <3>1, <3>2, <3>3, NewCopies, Zenon
  <2>21. NumbersInRange'
    <3>1. \A d \in air' : InRange(d.ogm.seqno)
      <4>1. \A d \in new : d.ogm.seqno = ogm.seqno
        BY <2>17
      <4> QED BY <2>3, <2>6, <4>1 DEF SteadyInv, NumbersInRange
    <3>2. \A m \in Node, p \in Addr, x \in OutIf :
            RouterOf(m, p, x)' # None => InRange(orig_ifinfo'[m][p][x].last_real_seqno)
      BY <2>6, <2>15 DEF SteadyInv, NumbersInRange
    <3>3. \A m \in Originators : InRange(ogm_seqno'[m])
      BY <2>3 DEF SteadyInv, NumbersInRange
    <3>4. MaxSeqno \in Seqno
      BY DEF SteadyInv, NumbersInRange
    <3> QED BY <3>1, <3>2, <3>3, <3>4 DEF NumbersInRange, InRange
  <2>22. \A x \in OutIf : x \in outifs /\ Accepted(n, ogm, x) =>
           /\ rec(x) \in NeighIfinfo /\ rec(x).last_seqno = ogm.seqno
           /\ \A t \in Seqno : t = ogm.seqno => Sent(o, nb[2], t)'
           /\ nb[2][1] # o[1] => Outranks(RouteInfo(nb[2][1], o, nb[2][2])', rec(x))
    <3>1. PICK e \in NeighIfinfo :
            e = [last_seqno |-> ogm.seqno, airtime_cost |-> ogm.airtime]
      BY <2>1 DEF OgmPacket, NeighIfinfo
    <3>2. e.last_seqno = ogm.seqno /\ e.airtime_cost = ogm.airtime
      BY <3>1
    <3>3. PICK a \in Addr : a = c.src
      BY <2>1
    <3>4. /\ Sent(o, a, e.last_seqno)
          /\ a[1] # o[1] => NotWorse(RouteInfo(a[1], o, a[2]), e)
      BY <2>9, <3>1, <3>2, <3>3
    <3>5. \A m \in Originators : ogm_seqno[m] <= ogm_seqno'[m]
      BY <1>1, <2>3, OgmAssumption DEF TypeOK, Seqno
    <3>6. \A m \in Node, p \in Addr, y \in OutIf : RouterOf(m, p, y) # None =>
            /\ RouterOf(m, p, y)' # None
            /\ orig_ifinfo[m][p][y].last_seqno_forwarded
                 <= orig_ifinfo'[m][p][y].last_seqno_forwarded
            /\ RouteInfo(m, p, y) \in NeighIfinfo /\ RouteInfo(m, p, y)' \in NeighIfinfo
            /\ NotWorse(RouteInfo(m, p, y)', RouteInfo(m, p, y))
      BY <2>15
    <3>7. /\ Sent(o, a, e.last_seqno)'
          /\ a[1] # o[1] => NotWorse(RouteInfo(a[1], o, a[2])', e)
      BY <1>1, <2>1, <3>4, <3>5, <3>6, BackingStays
    <3>8. a[1] # o[1] => RouteInfo(a[1], o, a[2])' \in NeighIfinfo
      <4>1. a[1] # o[1] => RouterOf(a[1], o, a[2]) # None
        BY <3>4 DEF Sent
      <4> QED BY <2>1, <3>3, <3>6, <4>1
    <3>9. nb[2] = a
      BY <3>3 DEF nb
    <3> SUFFICES ASSUME NEW x \in OutIf
                 PROVE  /\ rec(x) \in NeighIfinfo /\ rec(x).last_seqno = ogm.seqno
                        /\ a[1] # o[1] => Outranks(RouteInfo(a[1], o, a[2])', rec(x))
      BY <3>2, <3>7, <3>9
    <3>10. NewCost(n, ogm, nb, x) \in u32 /\ NewCost(n, ogm, nb, x) \in Int
      BY <1>1, <2>1, NewCostType, MetricAssumption DEF u32
    <3>11. rec(x) \in NeighIfinfo /\ rec(x).last_seqno = ogm.seqno
           /\ rec(x).airtime_cost = NewCost(n, ogm, nb, x)
      BY <2>1, <3>10 DEF rec, NeighIfinfo
    <3>12. NewCost(n, ogm, nb, x) > ogm.airtime
      <4>1. link[n][nb] \in Int
        BY <2>4, MetricAssumption DEF u32
      <4> QED BY <2>1, <2>5, <3>10, <4>1
    <3>13. Outranks(e, rec(x))
      BY <3>2, <3>11, <3>12 DEF Outranks
    <3> QED BY <3>1, <3>7, <3>8, <3>11, <3>13, RankTrans
  <2>23. ReportsBacked'
    <3> SUFFICES ASSUME NEW m \in Node, NEW p \in Addr, NEW x \in OutIf, NEW k \in Neigh,
                        neigh_ifinfo'[m][p][k][x] # None
                 PROVE  /\ Sent(p, k[2], neigh_ifinfo[m][p][k][x].last_seqno)'
                        /\ k[2][1] # p[1] => Outranks(RouteInfo(k[2][1], p, k[2][2])',
                                                      neigh_ifinfo'[m][p][k][x])
      BY Zenon DEF ReportsBacked
    <3>1. neigh_ifinfo'[m][p][k][x].last_seqno \in Seqno
      <4>1. neigh_ifinfo'[m][p][k][x] \in NeighIfinfo
        BY <1>1 DEF TypeOK
      <4> QED BY <4>1 DEF NeighIfinfo
    <3>2. CASE m = n /\ p = o /\ k = nb /\ x \in outifs /\ Accepted(n, ogm, x)
      <4>1. neigh_ifinfo'[m][p][k][x] = rec(x)
        BY <2>14, <3>2 DEF o, rec
      <4> QED BY <2>1, <2>22, <3>1, <3>2, <4>1
    <3>3. CASE ~(m = n /\ p = o /\ k = nb /\ x \in outifs /\ Accepted(n, ogm, x))
      <4>1. neigh_ifinfo'[m][p][k][x] = neigh_ifinfo[m][p][k][x]
        BY <2>13, <2>14, <3>3 DEF o
      <4> QED BY <2>20, <3>1, <4>1
    <3> QED BY <3>2, <3>3
  <2>24. EachOgmOnce'
    <3> SUFFICES ASSUME NEW d \in air', NEW x \in OutIf,
                        neigh_ifinfo'[d.to[1]][d.ogm.orig][<<d.to[2], d.src>>][x] # None
                 PROVE  neigh_ifinfo'[d.to[1]][d.ogm.orig][<<d.to[2], d.src>>][x].last_seqno
                          # d.ogm.seqno
      BY <2>20 DEF EachOgmOnce
    <3> DEFINE m == d.to[1]  p == d.ogm.orig  k == <<d.to[2], d.src>>
    <3>1. /\ m \in Node /\ p \in Addr /\ k \in Neigh /\ k[2] = d.src
          /\ d.to = <<m, k[1]>>
      <4>1. d.to \in Addr /\ d.src \in Addr /\ p \in Addr
        BY <1>1 DEF TypeOK, Copy, OgmPacket
      <4> QED BY <4>1 DEF Addr, Neigh
    <3>2. d \in new \/ (d \in air /\ d # c)
      BY <2>3
    <3>3. d \in air /\ neigh_ifinfo[m][p][k][x] # None =>
            neigh_ifinfo[m][p][k][x].last_seqno # d.ogm.seqno
      BY Zenon DEF SteadyInv, EachOgmOnce
    <3>4. d \in air /\ d # c /\ m = n /\ p = o /\ k = nb => d.ogm.seqno # ogm.seqno
      <4>1. k = nb => k[2] = c.src /\ k[1] = c.to[2]
        BY DEF nb
      <4> QED BY <2>1, <2>10, <3>1, <4>1
    <3> HIDE DEF m, k
    <3>5. CASE m = n /\ p = o /\ k = nb /\ x \in outifs /\ Accepted(n, ogm, x)
      <4>1. neigh_ifinfo'[m][p][k][x] = rec(x)
        BY <2>14, <3>5 DEF o, rec
      <4>2. d \notin new
        BY <2>17, <3>5 DEF m
      <4> QED BY <2>22, <3>2, <3>4, <3>5, <4>1, <4>2 DEF m, k
    <3>6. CASE ~(m = n /\ p = o /\ k = nb /\ x \in outifs /\ Accepted(n, ogm, x))
      <4>1. neigh_ifinfo'[m][p][k][x] = neigh_ifinfo[m][p][k][x]
        BY <2>13, <2>14, <3>1, <3>6 DEF o
      <4>2. neigh_ifinfo[m][p][k][x] # None
        BY <4>1 DEF m, k
      <4>3. neigh_ifinfo[m][p][k][x].last_seqno # d.ogm.seqno
        BY <2>20, <3>1, <3>2, <3>3, <4>2
      <4> QED BY <4>1, <4>3 DEF m, k
    <3> QED BY <3>5, <3>6
  <2> QED BY <1>1, <2>15, <2>20, <2>21, <2>23, <2>24 DEF SteadyInv
<1> QED BY <1>2, <1>3

-----------------------------------------------------------------------------
(* The theorems.                                                           *)

LEMMA SteadyMesh == SteadyInv /\ Mesh => SteadyInv'
<1> SUFFICES ASSUME SteadyInv, Mesh PROVE SteadyInv'
  OBVIOUS
<1>1. TypeOK /\ TypeOK'
  BY TypeMesh DEF SteadyInv
<1>2. ASSUME NEW n \in Originators, SendOwn(n) PROVE SteadyInv'
  BY <1>2, SteadySend
<1>3. ASSUME NEW n \in Node, NEW f \in Iface, NEW src \in Addr, ElpReceived(n, f, src)
      PROVE  SteadyInv'
  BY <1>3, SteadyElp
<1>4. ASSUME NEW n \in Node, NEW nb \in Neigh, ElpMetric(n, nb) PROVE SteadyInv'
  BY <1>1, <1>4, RoutesUntouched DEF ElpMetric, tables
<1>5. ASSUME Tick PROVE SteadyInv'
  BY <1>1, <1>5, RoutesUntouched DEF Tick
<1>6. ASSUME NEW n \in Node, NEW o \in Addr, NEW x \in OutIf, ProtectionExpires(n, o, x)
      PROVE  SteadyInv'
  BY <1>6, SteadyProtection
<1>7. ASSUME NEW a \in Addr, IfToggle(a) PROVE SteadyInv'
  BY <1>1, <1>7, RoutesUntouched DEF IfToggle, tables
<1>8. ASSUME NEW n \in Node, NEW w \in Weights[n], SetWeight(n, w) PROVE SteadyInv'
  BY <1>1, <1>8, RoutesUntouched DEF SetWeight, tables
<1> QED BY <1>2, <1>3, <1>4, <1>5, <1>6, <1>7, <1>8 DEF Mesh

\* SteadyInv is inductive: every OGM in the air and every entry of a table is backed
\* by a route of the node it came from, for every mesh, loss and reordering.
THEOREM SteadyInvariant == SteadySpec => []SteadyInv
<1>1. SteadyInv /\ [SteadyNext]_vars => SteadyInv'
  <2> SUFFICES ASSUME SteadyInv, [SteadyNext]_vars PROVE SteadyInv'
    OBVIOUS
  <2>1. CASE Mesh
    BY <2>1, SteadyMesh
  <2>2. ASSUME NEW c \in air, Undisturbed(c), ReceiveOgm(c) PROVE SteadyInv'
    BY <2>2, SteadyReceive
  <2>3. ASSUME NEW n \in Node, NEW o \in Addr, PurgeOrig(n, o), UNCHANGED orig_ifinfo
        PROVE  SteadyInv'
    BY <2>3, SteadyPurge
  <2>4. CASE UNCHANGED vars
    <3>1. TypeOK'
      BY <2>4 DEF SteadyInv, TypeOK, vars, tables
    <3> QED BY <2>4, <3>1, RoutesUntouched DEF vars, tables
  <2> QED BY <2>1, <2>2, <2>3, <2>4 DEF SteadyNext
<1> QED BY <1>1, SteadyStart, PTL DEF SteadySpec

LEMMA InvImprove == SteadyInv => RoutesImprove
<1> SUFFICES ASSUME SteadyInv, NEW n \in Node, NEW o \in Addr, NEW x \in OutIf,
                    RouterOf(n, o, x) # None, NextHop(n, o, x)[1] # o[1]
             PROVE  LET a == NextHop(n, o, x)
                    IN  /\ RouterOf(a[1], o, a[2]) # None
                        /\ RouteInfo(n, o, x) # None
                        /\ RouteInfo(a[1], o, a[2]) # None
                        /\ Outranks(RouteInfo(a[1], o, a[2]), RouteInfo(n, o, x))
  BY DEF RoutesImprove
<1>1. PICK nb \in Neigh : nb = RouterOf(n, o, x)
  BY RouteType
<1>2. nb[2] = NextHop(n, o, x) /\ nb[2][1] \in Node /\ nb[2][2] \in OutIf
  BY <1>1 DEF NextHop, Neigh, Addr, OutIf
<1>3. RouteInfo(n, o, x) = neigh_ifinfo[n][o][nb][x] /\ RouteInfo(n, o, x) # None
  BY <1>1 DEF RouteInfo, SteadyInv, TablesAgree
<1>4. /\ Sent(o, nb[2], RouteInfo(n, o, x).last_seqno)
      /\ Outranks(RouteInfo(nb[2][1], o, nb[2][2]), RouteInfo(n, o, x))
  BY <1>2, <1>3 DEF SteadyInv, ReportsBacked
<1>5. RouterOf(nb[2][1], o, nb[2][2]) # None
  BY <1>2, <1>4 DEF Sent
<1>6. RouteInfo(nb[2][1], o, nb[2][2]) # None
  BY <1>2, <1>5 DEF SteadyInv, TablesAgree
<1> QED BY <1>2, <1>3, <1>4, <1>5, <1>6

\* Every set of naturals that is not empty has a least element.
LEMMA LeastNat ==
  ASSUME NEW T \in SUBSET Nat, T # {}
  PROVE  \E m \in T : \A k \in T : m <= k
<1>1. PICK m \in T : \A k \in T : ~(<<k, m>> \in OpToRel(<, Nat))
  BY NatLessThanWellFounded, WFMin
<1>2. \A k \in T : ~(k < m)
  BY <1>1 DEF OpToRel
<1>3. \A k \in T : m <= k
  <2>1. \A k \in Nat : ~(k < m) => m <= k
    <3>1. m \in Nat
      BY <1>1
    <3> QED BY <3>1
  <2> QED BY <1>2, <2>1
<1> QED BY <1>1, <1>3

LEMMA ImproveNoLoop == SteadyInv => NoRoutingLoop
<1> SUFFICES ASSUME SteadyInv, NEW o \in Addr, NEW S \in SUBSET (Node \X OutIf), S # {},
                    \A v \in S : /\ RouterOf(v[1], o, v[2]) # None
                                 /\ NextHop(v[1], o, v[2]) \in S
                                 /\ NextHop(v[1], o, v[2])[1] # o[1]
             PROVE  FALSE
  BY DEF NoRoutingLoop
<1> DEFINE info(v) == RouteInfo(v[1], o, v[2])
           age(v)  == 2 * SEQ_HALF - info(v).last_seqno
           ages    == {age(v) : v \in S}
<1>1. \A v \in S : /\ info(v) \in NeighIfinfo /\ NextHop(v[1], o, v[2]) \in S
                   /\ Outranks(info(NextHop(v[1], o, v[2])), info(v))
  <2> SUFFICES ASSUME NEW v \in S
               PROVE  info(v) \in NeighIfinfo /\ Outranks(info(NextHop(v[1], o, v[2])), info(v))
    OBVIOUS
  <2>1. v[1] \in Node /\ v[2] \in OutIf
    OBVIOUS
  <2>2. info(v) \in NeighIfinfo
    BY <2>1, RouteType
  <2>3. RoutesImprove
    BY InvImprove
  <2> QED BY <2>1, <2>2, <2>3 DEF RoutesImprove
<1> HIDE DEF info
<1>2. \A v \in S : /\ info(v).last_seqno \in Int /\ info(v).airtime_cost \in Nat
                   /\ age(v) \in Nat
  <2> SUFFICES ASSUME NEW v \in S
               PROVE  info(v).last_seqno \in Int /\ info(v).airtime_cost \in Nat /\ age(v) \in Nat
    OBVIOUS
  <2>1. info(v).last_seqno \in Seqno /\ info(v).airtime_cost \in u32
    BY <1>1 DEF NeighIfinfo
  <2> QED BY <2>1, OgmAssumption, MetricAssumption DEF Seqno, u32
<1>3. PICK m \in ages : \A k \in ages : m <= k
  <2>1. ages \in SUBSET Nat /\ ages # {}
    BY <1>2
  <2> HIDE DEF ages
  <2> QED BY <2>1, LeastNat
<1> DEFINE fresh == {v \in S : age(v) = m}
           costs == {info(v).airtime_cost : v \in fresh}
<1>4. PICK c \in costs : \A k \in costs : c <= k
  <2>1. costs \in SUBSET Nat /\ costs # {}
    BY <1>2, <1>3
  <2> HIDE DEF costs
  <2> QED BY <2>1, LeastNat
<1>5. PICK v \in S : age(v) = m /\ info(v).airtime_cost = c
  BY <1>4
<1> DEFINE w == NextHop(v[1], o, v[2])
<1>6. w \in S /\ Outranks(info(w), info(v))
  BY <1>1, <1>5
<1> HIDE DEF w
<1>7. age(v) <= age(w)
  BY <1>3, <1>5, <1>6
<1>8. info(w).last_seqno = info(v).last_seqno /\ info(w).airtime_cost < info(v).airtime_cost
  BY <1>2, <1>5, <1>6, <1>7, OgmAssumption DEF Outranks
<1>9. c <= info(w).airtime_cost
  BY <1>4, <1>5, <1>6, <1>8
<1> QED BY <1>2, <1>5, <1>6, <1>8, <1>9

\* In an undisturbed mesh every hop of a route leads to a node whose own route is
\* fresher, or as fresh and cheaper (batadv_v_ogm_route_update(),
\* batadv_v_ogm_forward()).
THEOREM RoutesAlwaysImprove == SteadySpec => []RoutesImprove
BY SteadyInvariant, InvImprove, PTL

\* In an undisturbed mesh no packet runs in a circle, whatever the topology, the
\* losses, the reordering and the changes of links, weights and interfaces.
THEOREM LoopFreedom == SteadySpec => []NoRoutingLoop
BY SteadyInvariant, ImproveNoLoop, PTL

\* In an undisturbed mesh an interface sends an OGM number at most once
\* (last_seqno_forwarded in batadv_v_ogm_forward()).
THEOREM NoDuplicates == SteadySpec => []EachOgmOnce
<1>1. SteadyInv => EachOgmOnce
  BY DEF SteadyInv
<1> QED BY <1>1, SteadyInvariant, PTL

=============================================================================
