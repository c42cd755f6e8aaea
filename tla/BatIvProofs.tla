----------------------------- MODULE BatIvProofs -----------------------------
(***************************************************************************)
(* Proofs about the OGMs of B.A.T.M.A.N. IV.                               *)
(***************************************************************************)
EXTENDS BatIvOgm, FiniteSetTheorems, SequenceTheorems, WellFoundedInduction, TLAPS

-----------------------------------------------------------------------------
(* Sequence numbers. *)

SeqNo == 0..(SeqnoMod - 1)

LEMMA IvConstants ==
  /\ SeqnoMod \in Nat \ {0} /\ TQ_LOCAL_WINDOW_SIZE \in Nat \ {0} /\ TQ_LOCAL_WINDOW_SIZE + 2 <= SeqnoMod
  /\ TQ_GLOBAL_WINDOW_SIZE \in Nat \ {0} /\ TQ_MAX_VALUE \in Nat \ {0} /\ HOP_PENALTY \in 0..TQ_MAX_VALUE
  /\ TTL \in Nat /\ IsFiniteSet(Iface) /\ DEFAULT \notin Iface
BY BatIvAssumption

LEMMA Seq32Type == \A x \in Int : Seq32(x) \in SeqNo
BY IvConstants DEF Seq32, SeqNo

LEMMA Seq32Is ==
  ASSUME NEW x \in Int, -SeqnoMod < x, x <= SeqnoMod
  PROVE  Seq32(x) = IF x < 0 THEN x + SeqnoMod ELSE IF x = SeqnoMod THEN 0 ELSE x
<1> DEFINE M == SeqnoMod
           y == x + M
<1>1. M \in Nat \ {0} /\ y \in Nat /\ y <= 2 * M
  BY IvConstants
<1> HIDE DEF M, y
<1>2. y % M = IF y < M THEN y ELSE IF y = 2 * M THEN 0 ELSE y - M
  BY <1>1
<1> QED BY <1>1, <1>2 DEF Seq32, M, y

\* One more own OGM: the window of own broadcasts, moved by one, refers to the same OGMs.
LEMMA WindowMoved ==
  ASSUME NEW s \in SeqNo, NEW p \in Window, p + 1 \in Window
  PROVE  Seq32(Seq32(s + 1) - 2 - (p + 1)) = Seq32(s - 2 - p)
<1> DEFINE M == SeqnoMod
           t == Seq32(s + 1)
<1>1. /\ M \in Nat \ {0} /\ s \in 0..(M - 1) /\ p \in Nat /\ p + 4 <= M
  BY IvConstants DEF SeqNo, Window
<1>2. t = IF s + 1 = M THEN 0 ELSE s + 1
  BY <1>1, Seq32Is
<1> DEFINE a == t - 2 - (p + 1)
           b == s - 2 - p
<1> HIDE DEF t
<1>3. a \in Int /\ b \in Int /\ -M < a /\ a <= M /\ -M < b /\ b <= M
  BY <1>1, <1>2
<1>4. Seq32(a) = IF a < 0 THEN a + M ELSE IF a = M THEN 0 ELSE a
  BY <1>3, Seq32Is
<1>5. Seq32(b) = IF b < 0 THEN b + M ELSE IF b = M THEN 0 ELSE b
  BY <1>3, Seq32Is
<1>6. Seq32(a) = Seq32(b)
  BY <1>1, <1>2, <1>4, <1>5
<1> QED BY <1>6 DEF t

\* The place of an echo in the window of own broadcasts says which OGM has come back.
LEMMA PlaceOfEcho ==
  ASSUME NEW s \in SeqNo, NEW q \in SeqNo, SeqDiff(Seq32(s - 2), q) \in Window
  PROVE  LET p == SeqDiff(Seq32(s - 2), q)
         IN  Seq32(s - 2 - p) = q /\ Seq32(s - q) \in 1..(TQ_LOCAL_WINDOW_SIZE + 1)
<1> DEFINE M == SeqnoMod
           W == TQ_LOCAL_WINDOW_SIZE
           r == Seq32(s - 2)
           d == Seq32(r - q)
           p == SeqDiff(r, q)
<1>1. M \in Nat \ {0} /\ W \in Nat \ {0} /\ W + 2 <= M /\ s \in 0..(M - 1) /\ q \in 0..(M - 1) /\ p \in 0..(W - 1)
  BY IvConstants DEF SeqNo, Window
<1>2. r = IF s - 2 < 0 THEN s - 2 + M ELSE s - 2
  BY <1>1, Seq32Is
<1> HIDE DEF r
<1>3. d = IF r - q < 0 THEN r - q + M ELSE r - q
  BY <1>1, <1>2, Seq32Is
<1>4. p = IF 2 * d < M THEN d ELSE d - M
  BY DEF SeqDiff
<1> HIDE DEF d, p
<1>5. p = d
  BY <1>1, <1>2, <1>3, <1>4
<1>6. Seq32(s - 2 - p) = IF s - 2 - p < 0 THEN s - 2 - p + M ELSE s - 2 - p
  BY <1>1, Seq32Is
<1>7. Seq32(s - q) = IF s - q < 0 THEN s - q + M ELSE s - q
  BY <1>1, Seq32Is
<1>8. Seq32(s - 2 - p) = q /\ Seq32(s - q) \in 1..(W + 1)
  BY <1>1, <1>2, <1>3, <1>5, <1>6, <1>7
<1> QED BY <1>8 DEF p, r

-----------------------------------------------------------------------------
(* Recursion: the nodes within a number of hops, and the TQ after so many. *)

LEMMA FirstNumber ==
  ASSUME NEW S \in SUBSET Nat, S # {}
  PROVE  \E m \in S : \A x \in S : m <= x
<1> DEFINE R == OpToRel(<, Nat)
<1>1. IsWellFoundedOn(R, Nat)
  BY NatLessThanWellFounded
<1>2. \A x, y \in Nat : x < y => <<x, y>> \in R
  BY DEF OpToRel
<1> HIDE DEF R
<1>3. PICK m \in S : \A y \in S : ~(<<y, m>> \in R)
  BY <1>1, WFMin
<1>4. ASSUME NEW x \in S PROVE m <= x
  <2>1. x \in Nat /\ m \in Nat /\ ~(<<x, m>> \in R)
    BY <1>3
  <2>2. ~(x < m)
    BY <1>2, <2>1
  <2> QED BY <2>1, <2>2
<1> QED BY <1>4

\* What holds for 0 and goes on from each number to the next holds for all up to n.
LEMMA UpToAll ==
  ASSUME NEW n \in Nat, NEW K, 0 \in K, \A k \in 0..(n - 1) : k \in K => k + 1 \in K
  PROVE  \A k \in 0..n : k \in K
<1> DEFINE M == {k \in 0..n : k \notin K}
<1>1. ASSUME M # {} PROVE FALSE
  <2>1. M \in SUBSET Nat
    OBVIOUS
  <2>2. PICK m \in M : \A x \in M : m <= x
    BY <1>1, <2>1, FirstNumber
  <2>3. m \in 0..n /\ m \notin K /\ m # 0
    BY <2>2
  <2>4. m - 1 \in 0..(n - 1) /\ m - 1 \in 0..n /\ ~(m <= m - 1) /\ (m - 1) + 1 = m
    BY <2>3
  <2>5. m - 1 \in M
    BY <2>3, <2>4
  <2> QED BY <2>2, <2>4, <2>5
<1> QED BY <1>1

\* One step of either recursion.
Further(kind, L, v) ==
  IF kind = "near" THEN v \cup {Owner[l[2]] : l \in {l \in L : Owner[l[1]] \in v}}
  ELSE batadv_hop_penalty(v)

Recursion(g, kind, L, v) == g = [x \in Nat |-> IF x = 0 THEN v ELSE Further(kind, L, g[x - 1])]

LEMMA RecursionExists ==
  ASSUME NEW kind, NEW L, NEW v
  PROVE  \E g : Recursion(g, kind, L, v)
<1> DEFINE Step(h, x) == IF x = 0 THEN v ELSE Further(kind, L, h[x - 1])
           Up(h, n) == DOMAIN h = 0..n /\ \A x \in 0..n : h[x] = Step(h, x)
<1>1. ASSUME NEW n \in Nat PROVE \E h : Up(h, n)
  <2> DEFINE K == {k \in 0..n : \E h : Up(h, k)}
  <2>1. 0 \in K
    <3> DEFINE h == [x \in 0..0 |-> v]
    <3>1. Up(h, 0)
      OBVIOUS
    <3>2. 0 \in 0..n
      OBVIOUS
    <3> HIDE DEF h, Up
    <3> QED BY <3>1, <3>2
  <2>2. ASSUME NEW k \in 0..(n - 1), k \in K PROVE k + 1 \in K
    <3>1. PICK h : Up(h, k)
      BY <2>2
    <3> DEFINE e == [x \in 0..(k + 1) |-> Step(h, x)]
    <3>2. ASSUME NEW x \in 0..(k + 1) PROVE e[x] = Step(e, x)
      <4>1. CASE x = 0
        BY <4>1
      <4>2. CASE x # 0
        <5>1. x - 1 \in 0..k /\ x - 1 \in 0..(k + 1)
          BY <4>2
        <5>2. e[x] = Step(h, x) /\ e[x - 1] = Step(h, x - 1) /\ h[x - 1] = Step(h, x - 1)
          BY <3>1, <5>1
        <5> HIDE DEF e
        <5> QED BY <4>2, <5>2
      <4> QED BY <4>1, <4>2
    <3>3. Up(e, k + 1)
      BY <3>2
    <3>4. k + 1 \in 0..n
      OBVIOUS
    <3> HIDE DEF e, Up
    <3> QED BY <3>3, <3>4
  <2> HIDE DEF K
  <2>3. \A k \in 0..n : k \in K
    BY <2>1, <2>2, UpToAll
  <2> QED BY <2>3 DEF K
<1>2. ASSUME NEW n \in Nat, NEW m \in Nat, NEW h, Up(h, n), NEW e, Up(e, m)
      PROVE  \A k \in 0..n : k <= m => h[k] = e[k]
  <2> DEFINE K == {k \in 0..n : k <= m => h[k] = e[k]}
  <2>1. 0 \in K
    <3>1. 0 \in 0..n /\ 0 \in 0..m
      OBVIOUS
    <3>2. h[0] = Step(h, 0) /\ e[0] = Step(e, 0)
      BY <1>2, <3>1
    <3> QED BY <3>1, <3>2
  <2>2. ASSUME NEW k \in 0..(n - 1), k \in K PROVE k + 1 \in K
    <3>1. CASE k + 1 <= m
      <4>1. k \in 0..m /\ k + 1 \in 0..m /\ k + 1 \in 0..n /\ (k + 1) - 1 = k /\ k + 1 # 0 /\ k <= m
        BY <3>1
      <4>2. h[k + 1] = Step(h, k + 1) /\ e[k + 1] = Step(e, k + 1)
        BY <1>2, <4>1
      <4>3. h[k] = e[k]
        BY <2>2, <4>1
      <4> QED BY <4>1, <4>2, <4>3
    <3> QED BY <3>1
  <2> HIDE DEF K
  <2>3. \A k \in 0..n : k \in K
    BY <2>1, <2>2, UpToAll
  <2> QED BY <2>3 DEF K
<1> DEFINE a == [n \in Nat |-> CHOOSE h : Up(h, n)]
           g == [n \in Nat |-> a[n][n]]
<1>3. \A n \in Nat : Up(a[n], n)
  <2> SUFFICES ASSUME NEW n \in Nat PROVE Up(CHOOSE h : Up(h, n), n)
    OBVIOUS
  <2> HIDE DEF Up
  <2> QED BY <1>1
<1>4. ASSUME NEW x \in Nat PROVE g[x] = Step(g, x)
  <2> HIDE DEF a
  <2>1. x \in 0..x /\ a[x][x] = Step(a[x], x)
    BY <1>3
  <2>2. CASE x = 0
    BY <2>1, <2>2
  <2>3. CASE x # 0
    <3>1. x - 1 \in Nat /\ x - 1 \in 0..(x - 1) /\ x - 1 <= x
      BY <2>3
    <3>2. a[x - 1][x - 1] = a[x][x - 1]
      <4>1. Up(a[x - 1], x - 1) /\ Up(a[x], x)
        BY <1>3, <3>1
      <4> HIDE DEF Up
      <4> QED BY <1>2, <3>1, <4>1
    <3>3. g[x] = a[x][x] /\ g[x - 1] = a[x - 1][x - 1]
      BY <3>1
    <3> HIDE DEF g
    <3> QED BY <2>1, <2>3, <3>2, <3>3
  <2> QED BY <2>2, <2>3
<1> HIDE DEF a
<1>5. g = [x \in Nat |-> Step(g, x)]
  BY <1>4
<1> QED BY <1>5 DEF Recursion

LEMMA RecursionUnfolds ==
  ASSUME NEW kind, NEW L, NEW v, NEW g, Recursion(g, kind, L, v)
  PROVE  g[0] = v /\ \A d \in Nat : g[d + 1] = Further(kind, L, g[d])
<1>1. \A x \in Nat : g[x] = IF x = 0 THEN v ELSE Further(kind, L, g[x - 1])
  BY DEF Recursion
<1> QED BY <1>1

LEMMA WithinUnfolds ==
  ASSUME NEW L, NEW m
  PROVE  /\ Within(L, m, 0) = {m}
         /\ \A d \in Nat : Within(L, m, d + 1) = Further("near", L, Within(L, m, d))
<1> DEFINE Def(g) == [x \in Nat |->
             IF x = 0 THEN {m}
             ELSE LET N == g[x - 1] IN N \cup {Owner[l[2]] : l \in {l \in L : Owner[l[1]] \in N}}]
           near == CHOOSE g : g = Def(g)
<1>1. \A d : Within(L, m, d) = near[d]
  BY DEF Within
<1>2. \A g : Recursion(g, "near", L, {m}) <=> g = Def(g)
  BY DEF Recursion, Further
<1>3. near = Def(near)
  <2> HIDE DEF Def
  <2> QED BY <1>2, RecursionExists
<1>4. Recursion(near, "near", L, {m})
  <2> HIDE DEF Def, near
  <2> QED BY <1>2, <1>3
<1> HIDE DEF near
<1> QED BY <1>1, <1>4, RecursionUnfolds

LEMMA TqUnfolds ==
  TqAfter(0) = TQ_MAX_VALUE /\ \A d \in Nat : TqAfter(d + 1) = batadv_hop_penalty(TqAfter(d))
<1> DEFINE Def(g) == [x \in Nat |-> IF x = 0 THEN TQ_MAX_VALUE ELSE batadv_hop_penalty(g[x - 1])]
           tq == CHOOSE g : g = Def(g)
<1>1. \A d : TqAfter(d) = tq[d]
  BY DEF TqAfter
<1>2. \A g : Recursion(g, "tq", {}, TQ_MAX_VALUE) <=> g = Def(g)
  BY DEF Recursion, Further
<1>3. tq = Def(tq)
  <2> HIDE DEF Def
  <2> QED BY <1>2, RecursionExists
<1>4. Recursion(tq, "tq", {}, TQ_MAX_VALUE)
  <2> HIDE DEF Def, tq
  <2> QED BY <1>2, <1>3
<1> HIDE DEF tq
<1>5. tq[0] = TQ_MAX_VALUE /\ \A d \in Nat : tq[d + 1] = Further("tq", {}, tq[d])
  BY <1>4, RecursionUnfolds
<1>6. \A v : Further("tq", {}, v) = batadv_hop_penalty(v)
  BY DEF Further
<1> QED BY <1>1, <1>5, <1>6

-----------------------------------------------------------------------------
(* Transmit qualities. *)

Tq == 0..TQ_MAX_VALUE

LEMMA ProductGrows ==
  ASSUME NEW a \in Nat, NEW b \in Nat, NEW k \in Nat, a <= b
  PROVE  a * k <= b * k /\ k * a <= k * b /\ a * k \in Nat
<1>1. (b - a) * k >= 0
  BY SMT
<1> QED BY SMT, <1>1

LEMMA QuotientFits ==
  ASSUME NEW x \in Nat, NEW m \in Nat \ {0}, NEW t \in Nat, x <= t * m
  PROVE  x \div m \in 0..t
<1> DEFINE q == x \div m
<1>1. q \in Nat /\ m * q <= x
  BY SMT
<1> HIDE DEF q
<1>2. ASSUME q >= t + 1 PROVE FALSE
  <2>1. m * (t + 1) <= m * q
    BY <1>1, <1>2, ProductGrows
  <2>2. m * (t + 1) = t * m + m
    BY SMT
  <2>3. t * m \in Nat
    BY SMT
  <2> QED BY <1>1, <2>1, <2>2, <2>3
<1>3. q \in 0..t
  BY <1>1, <1>2
<1> QED BY <1>3 DEF q

LEMMA QuotientGrows ==
  ASSUME NEW x \in Nat, NEW y \in Nat, NEW m \in Nat \ {0}, x <= y
  PROVE  x \div m <= y \div m
<1> DEFINE q == y \div m
<1>1. q \in Nat /\ y < m * (q + 1)
  BY SMT
<1>2. y <= (q + 1) * m
  BY <1>1
<1> DEFINE r == x \div m
<1>3. r \in Nat /\ m * r <= x
  BY SMT
<1> HIDE DEF q, r
<1>4. ASSUME r >= q + 1 PROVE FALSE
  <2>1. m * (q + 1) <= m * r
    BY <1>1, <1>3, <1>4, ProductGrows
  <2>2. m * (q + 1) \in Nat /\ m * r \in Nat
    BY <1>1, <1>3
  <2> QED BY <1>1, <1>3, <2>1, <2>2
<1>5. r <= q
  BY <1>1, <1>3, <1>4
<1> QED BY <1>5 DEF q, r

\* The hop penalty takes something off a TQ, and keeps the order of two of them.
LEMMA PenaltyFits ==
  ASSUME NEW tq \in Tq
  PROVE  batadv_hop_penalty(tq) \in 0..tq
<1> DEFINE k == TQ_MAX_VALUE - HOP_PENALTY
<1>1. /\ TQ_MAX_VALUE \in Nat \ {0} /\ k \in Nat /\ k <= TQ_MAX_VALUE /\ tq \in Nat
  BY IvConstants DEF Tq
<1> HIDE DEF k
<1>2. tq * k <= tq * TQ_MAX_VALUE /\ tq * k \in Nat
  BY <1>1, ProductGrows
<1>3. (tq * k) \div TQ_MAX_VALUE \in 0..tq
  BY <1>1, <1>2, QuotientFits
<1> QED BY <1>3 DEF batadv_hop_penalty, k

LEMMA PenaltyGrows ==
  ASSUME NEW a \in Tq, NEW b \in Tq, a <= b
  PROVE  batadv_hop_penalty(a) <= batadv_hop_penalty(b)
<1> DEFINE k == TQ_MAX_VALUE - HOP_PENALTY
<1>1. /\ TQ_MAX_VALUE \in Nat \ {0} /\ k \in Nat /\ a \in Nat /\ b \in Nat
  BY IvConstants DEF Tq
<1> HIDE DEF k
<1>2. a * k <= b * k /\ a * k \in Nat /\ b * k \in Nat
  BY <1>1, ProductGrows
<1>3. (a * k) \div TQ_MAX_VALUE <= (b * k) \div TQ_MAX_VALUE
  BY <1>1, <1>2, QuotientGrows
<1> QED BY <1>3 DEF batadv_hop_penalty, k

LEMMA TqAfterType == \A d \in Nat : TqAfter(d) \in Tq
<1> DEFINE K == {k \in Nat : TqAfter(k) \in Tq}
<1> SUFFICES ASSUME NEW d \in Nat PROVE TqAfter(d) \in Tq
  OBVIOUS
<1>1. 0 \in K
  BY TqUnfolds, IvConstants DEF Tq
<1>2. ASSUME NEW k \in 0..(d - 1), k \in K PROVE k + 1 \in K
  <2>1. TqAfter(k + 1) = batadv_hop_penalty(TqAfter(k)) /\ TqAfter(k) \in Tq /\ k + 1 \in Nat
    BY <1>2, TqUnfolds
  <2>2. batadv_hop_penalty(TqAfter(k)) \in 0..TqAfter(k)
    BY <2>1, PenaltyFits
  <2>3. batadv_hop_penalty(TqAfter(k)) \in Tq
    BY <2>1, <2>2, IvConstants DEF Tq
  <2> QED BY <2>1, <2>3
<1> HIDE DEF K
<1>3. \A k \in 0..d : k \in K
  BY <1>1, <1>2, UpToAll
<1>4. d \in K
  BY <1>3
<1> QED BY <1>4 DEF K

\* The TQ of a link never makes that of the path better.
LEMMA LinkTqFits ==
  ASSUME NEW own \in Nat, NEW received \in 0..TQ_LOCAL_WINDOW_SIZE, NEW tq \in Tq
  PROVE  LinkTq(own, received, tq) \in 0..tq
<1> DEFINE M == TQ_MAX_VALUE
           W == TQ_LOCAL_WINDOW_SIZE
           total == IF own > received THEN received ELSE own
           tq_own == IF total < 1 \/ received < 1 THEN 0 ELSE (M * total) \div received
           inv == W - received
           cube == W * W * W
           gone == (M * inv * inv * inv) \div cube
           asym == M - gone
<1>1. /\ M \in Nat \ {0} /\ W \in Nat \ {0} /\ tq \in Nat /\ total \in Nat /\ total <= received /\ received \in Nat
      /\ inv \in Nat /\ inv <= W
  BY IvConstants DEF Tq
<1> HIDE DEF M, W, total, inv
<1>2. tq_own \in 0..M
  <2>1. CASE total < 1 \/ received < 1
    BY <1>1, <2>1
  <2>2. CASE ~(total < 1 \/ received < 1)
    <3>1. M * total <= M * received /\ received \in Nat \ {0} /\ M * total \in Nat
      BY <1>1, <2>2, ProductGrows
    <3>2. (M * total) \div received \in 0..M
      BY <1>1, <3>1, QuotientFits
    <3> QED BY <2>2, <3>2
  <2> QED BY <2>1, <2>2
<1>3. cube \in Nat \ {0}
  <2>1. W * W \in Nat \ {0}
    BY SMT, <1>1
  <2> DEFINE x == W * W
  <2> HIDE DEF x
  <2>2. x \in Nat \ {0}
    BY <2>1 DEF x
  <2>3. x * W \in Nat \ {0}
    BY SMT, <1>1, <2>2
  <2> QED BY <2>3 DEF x
<1>4. M * inv * inv * inv \in Nat /\ M * inv * inv * inv <= M * cube
  <2> DEFINE x1 == M * inv
             x2 == M * inv * inv
             y1 == M * W
             y2 == M * W * W
  <2>1. x1 \in Nat /\ y1 \in Nat /\ x1 <= y1
    BY <1>1, ProductGrows
  <2>2. x2 = x1 * inv /\ y2 = y1 * W
    OBVIOUS
  <2> HIDE DEF x1, y1, x2, y2
  <2>3. x2 \in Nat /\ x2 <= x1 * W /\ x1 * W <= y2 /\ x1 * W \in Nat /\ y2 \in Nat
    BY <1>1, <2>1, <2>2, ProductGrows
  <2>4. x2 <= y2
    BY <2>3
  <2>5. x2 * inv \in Nat /\ x2 * inv <= x2 * W /\ x2 * W <= y2 * W /\ x2 * W \in Nat /\ y2 * W \in Nat
    BY <1>1, <2>3, <2>4, ProductGrows
  <2>6. x2 * inv <= y2 * W
    BY <2>5
  <2>7. y2 * W = M * cube
    BY SMT, <1>1 DEF y2
  <2> QED BY <2>5, <2>6, <2>7 DEF x2
<1> HIDE DEF cube
<1>5. gone \in 0..M
  BY <1>1, <1>3, <1>4, QuotientFits
<1>6. asym \in 0..M
  BY <1>1, <1>5
<1> HIDE DEF tq_own, gone, asym
<1> DEFINE a == tq * tq_own
<1>7. a \in Nat /\ a <= tq * M /\ tq * M \in Nat
  BY <1>1, <1>2, ProductGrows
<1> HIDE DEF a
<1>8. a * asym \in Nat /\ a * asym <= a * M /\ a * M <= (tq * M) * M /\ a * M \in Nat
  BY <1>1, <1>6, <1>7, ProductGrows
<1>9. (tq * M) * M = tq * (M * M) /\ M * M \in Nat \ {0}
  BY SMT, <1>1
<1>10. (a * asym) \div (M * M) \in 0..tq
  <2> DEFINE x == a * asym
             m == M * M
  <2>1. x \in Nat /\ m \in Nat \ {0} /\ x <= tq * m
    BY <1>1, <1>8, <1>9
  <2> HIDE DEF x, m
  <2>2. x \div m \in 0..tq
    BY <1>1, <2>1, QuotientFits
  <2> QED BY <2>2 DEF x, m
<1> QED BY <1>10 DEF LinkTq, a, M, W, total, tq_own, inv, cube, gone, asym

-----------------------------------------------------------------------------
(* The invariant.  What it says of a node is relative to a context c: the  *)
(* OGMs that count as heard, the sequence numbers, the links there have    *)
(* been, and the active interfaces.                                        *)

Ogm == [orig : Iface, prev_sender : Iface, seqno : SeqNo, tq : Tq, ttl : Int,
        direct : BOOLEAN, not_best : BOOLEAN]
OwnIfaces(c, n) == {i \in c.active : Owner[i] = n}

\* The numbers that the window of own broadcasts may refer to, and the one before.
Recent(c, i, q) == Seq32(c.seqno[i] - q) \in 1..(TQ_LOCAL_WINDOW_SIZE + 1)

\* A TQ that node x may have for originator o.
TqFits(c, x, o, tq) ==
  /\ tq \in Tq
  /\ \A d \in Nat : x \notin Within(c.link, Owner[o], d) => tq <= TqAfter(d + 1)

\* An OGM that node n has in its queue, or has just sent.
OgmGood(c, n, ogm) == ogm \in Ogm /\ TqFits(c, n, ogm.orig, ogm.tq)
EchoGood(c, i, ogm) == Recent(c, ogm.orig, ogm.seqno) => <<i, ogm.orig, ogm.seqno>> \in c.heard

PacketGood(c, n, f) ==
  /\ DOMAIN f = {"own", "in", "out", "ogms"}
  /\ f.in \in OwnIfaces(c, n) /\ f.out \in OwnIfaces(c, n)
  /\ f.ogms \in Seq(Ogm)
  /\ \A x \in DOMAIN f.ogms : /\ OgmGood(c, n, f.ogms[x])
                              /\ f.ogms[x].direct /\ f.in = f.out => EchoGood(c, f.out, f.ogms[x])

IfinfoGood(c, o, i, oi) ==
  /\ DOMAIN oi = {"last_real_seqno", "protected", "last_ttl", "bcast_own", "bcast_own_sum", "router"}
  /\ oi.bcast_own \in SUBSET Window /\ oi.bcast_own_sum = Cardinality(oi.bcast_own)
  /\ i # DEFAULT => \A p \in oi.bcast_own : <<o, i, Seq32(c.seqno[i] - 2 - p)>> \in c.heard

Rating(c, x, o, ni) ==
  /\ DOMAIN ni = {"real_bits", "real_packet_count", "tq_avg", "tq_recv"}
  /\ ni.real_bits \in SUBSET Window /\ ni.real_packet_count = Cardinality(ni.real_bits)
  /\ ni.tq_recv \in Seq(Tq) /\ Len(ni.tq_recv) = TQ_GLOBAL_WINDOW_SIZE
  /\ \A y \in DOMAIN ni.tq_recv : TqFits(c, x, o, ni.tq_recv[y])
  /\ TqFits(c, x, o, ni.tq_avg)

NeighGood(c, o, k, neigh) ==
  /\ DOMAIN neigh = {"ifinfo", "age"}
  /\ \A out \in DOMAIN neigh.ifinfo : Rating(c, Owner[k[1]], o, neigh.ifinfo[out])

EntryGood(c, n, o, on) ==
  /\ DOMAIN on = {"neigh", "ifinfo", "age"}
  /\ \A k \in DOMAIN on.neigh : NeighGood(c, o, k, on.neigh[k])
  /\ DOMAIN on.ifinfo \subseteq {DEFAULT} \cup OwnIfaces(c, n)
  /\ \A i \in DOMAIN on.ifinfo : IfinfoGood(c, o, i, on.ifinfo[i])

NodeGood(c, n, s) ==
  /\ DOMAIN s = {"orig", "forw"}
  /\ \A o \in DOMAIN s.orig : o \in Iface /\ EntryGood(c, n, o, s.orig[o])
  /\ \A f \in BagToSet(s.forw) : PacketGood(c, n, f)

\* The context with what was heard, or with everything.
Everything == Iface \X Iface \X SeqNo
Context(h) == [heard |-> h, seqno |-> ogm_seqno, link |-> left.link, active |-> ActiveIfaces]

BoundsGood ==
  /\ DOMAIN left = IvBounds /\ left.order \in Seq(Iface) /\ left.link \subseteq ActiveIfaces \X ActiveIfaces
  /\ left.jumps \subseteq Nat
  /\ ogm_seqno \in [Iface -> SeqNo] /\ link \subseteq left.link /\ DOMAIN priv = Node

IvInv(h) == BoundsGood /\ \A n \in Node : NodeGood(Context(h), n, priv[n])

\* A queued OGM whose number is not recent any more does not become recent again: its
\* sender does not count through the whole range while it waits, and does not restart
\* with a number just above it.
NoneRevived ==
  \A n \in Node : \A f \in BagToSet(priv[n].forw) : \A x \in DOMAIN f.ogms :
    LET ogm == f.ogms[x] IN
    Seq32(ogm_seqno'[ogm.orig] - ogm.seqno) \in 1..(TQ_LOCAL_WINDOW_SIZE + 1)
      => Seq32(ogm_seqno[ogm.orig] - ogm.seqno) \in 1..(TQ_LOCAL_WINDOW_SIZE + 1)

-----------------------------------------------------------------------------
(* Transmit qualities fit the topology. *)

LEMMA ZeroFits ==
  ASSUME NEW c, NEW x, NEW o
  PROVE  TqFits(c, x, o, 0)
<1>1. 0 \in Tq
  BY IvConstants DEF Tq
<1>2. \A d \in Nat : 0 <= TqAfter(d + 1)
  <2> SUFFICES ASSUME NEW d \in Nat PROVE 0 <= TqAfter(d + 1)
    OBVIOUS
  <2>1. TqAfter(d + 1) \in Tq
    BY TqAfterType
  <2> QED BY <2>1, IvConstants DEF Tq
<1> QED BY <1>1, <1>2 DEF TqFits

\* The originator itself is within any number of hops.
LEMMA OwnFits ==
  ASSUME NEW c, NEW i, NEW tq \in Tq
  PROVE  TqFits(c, Owner[i], i, tq)
<1>1. ASSUME NEW d \in Nat PROVE Owner[i] \in Within(c.link, Owner[i], d)
  <2> DEFINE K == {k \in Nat : Owner[i] \in Within(c.link, Owner[i], k)}
  <2>1. 0 \in K
    BY WithinUnfolds
  <2>2. ASSUME NEW k \in 0..(d - 1), k \in K PROVE k + 1 \in K
    <3>1. Within(c.link, Owner[i], k + 1) = Further("near", c.link, Within(c.link, Owner[i], k)) /\ k + 1 \in Nat
      <4>1. k \in Nat /\ k + 1 \in Nat
        OBVIOUS
      <4>2. \A q \in Nat : Within(c.link, Owner[i], q + 1) = Further("near", c.link, Within(c.link, Owner[i], q))
        BY WithinUnfolds
      <4> QED BY <4>1, <4>2
    <3> DEFINE near == Within(c.link, Owner[i], k)
    <3> HIDE DEF near
    <3>2. near \subseteq Further("near", c.link, near)
      BY DEF Further
    <3>3. Owner[i] \in near
      BY <2>2 DEF near
    <3> QED BY <3>1, <3>2, <3>3 DEF near
  <2> HIDE DEF K
  <2>3. \A k \in 0..d : k \in K
    BY <2>1, <2>2, UpToAll
  <2>4. d \in K
    BY <2>3
  <2> QED BY <2>4 DEF K
<1> QED BY <1>1 DEF TqFits

LEMMA LessFits ==
  ASSUME NEW c, NEW x, NEW o, NEW tq, TqFits(c, x, o, tq), NEW t \in 0..tq
  PROVE  TqFits(c, x, o, t)
<1>1. tq \in Tq /\ TQ_MAX_VALUE \in Nat
  BY IvConstants DEF TqFits
<1>2. t \in Tq /\ t <= tq /\ t \in Nat /\ tq \in Nat
  BY <1>1 DEF Tq
<1>3. ASSUME NEW d \in Nat, x \notin Within(c.link, Owner[o], d) PROVE t <= TqAfter(d + 1)
  <2>1. tq <= TqAfter(d + 1)
    BY <1>3 DEF TqFits
  <2>2. TqAfter(d + 1) \in Nat
    BY <1>1, TqAfterType DEF Tq
  <2> QED BY <1>2, <2>1, <2>2
<1> QED BY <1>2, <1>3 DEF TqFits

\* A link is one hop, and costs a hop penalty.
LEMMA OverLinkFits ==
  ASSUME NEW c, NEW src, NEW j, NEW o, NEW tq, TqFits(c, Owner[src], o, tq), <<src, j>> \in c.link,
         NEW t \in 0..tq
  PROVE  TqFits(c, Owner[j], o, batadv_hop_penalty(t))
<1> DEFINE u == batadv_hop_penalty(t)
<1>1. TqFits(c, Owner[src], o, t) /\ t \in Tq /\ TQ_MAX_VALUE \in Nat /\ t <= TQ_MAX_VALUE /\ TQ_MAX_VALUE \in Tq
  <2>1. TqFits(c, Owner[src], o, t)
    BY LessFits
  <2> QED BY <2>1, IvConstants DEF TqFits, Tq
<1>2. u \in 0..t
  BY <1>1, PenaltyFits
<1>3. u \in Tq
  BY <1>1, <1>2 DEF Tq
<1>4. ASSUME NEW d \in Nat, Owner[j] \notin Within(c.link, Owner[o], d) PROVE u <= TqAfter(d + 1)
  <2>1. TqAfter(d + 1) = batadv_hop_penalty(TqAfter(d)) /\ TqAfter(d) \in Tq
    BY TqUnfolds, TqAfterType
  <2>2. t <= TqAfter(d)
    <3>1. CASE d = 0
      BY <1>1, <3>1, TqUnfolds
    <3>2. CASE d # 0
      <4>1. d - 1 \in Nat /\ (d - 1) + 1 = d
        BY <3>2
      <4>2. Within(c.link, Owner[o], d) = Further("near", c.link, Within(c.link, Owner[o], d - 1))
        <5>1. \A k \in Nat : Within(c.link, Owner[o], k + 1) = Further("near", c.link, Within(c.link, Owner[o], k))
          BY WithinUnfolds
        <5>2. Within(c.link, Owner[o], (d - 1) + 1) = Further("near", c.link, Within(c.link, Owner[o], d - 1))
          BY <4>1, <5>1
        <5> QED BY <4>1, <5>2
      <4>3. Owner[src] \notin Within(c.link, Owner[o], d - 1)
        <5> DEFINE l == <<src, j>>
                   near == Within(c.link, Owner[o], d - 1)
        <5>1. l \in c.link /\ l[1] = src /\ l[2] = j
          OBVIOUS
        <5> HIDE DEF l, near
        <5>2. Owner[src] \in near => Owner[j] \in Further("near", c.link, near)
          BY <5>1 DEF Further
        <5> QED BY <1>4, <4>2, <5>2 DEF near
      <4> QED BY <1>1, <4>1, <4>3 DEF TqFits
    <3> QED BY <3>1, <3>2
  <2> QED BY <1>1, <2>1, <2>2, PenaltyGrows
<1> QED BY <1>3, <1>4 DEF TqFits

-----------------------------------------------------------------------------
(* Folds. *)

\* One step of each of the folds of the model: an OGM is processed for one more interface,
\* OGMs of a packet, interfaces that hear it, interfaces an own OGM is queued for,
\* interfaces that are enabled, and values of a ring buffer that are added.
FoldStep(kind, a, x, r) ==
  IF kind = "outif" THEN batadv_iv_ogm_process_per_outif(r, a.j, a.src, a.ogm, a.outs[x], a.join)
  ELSE IF kind = "ogms" THEN batadv_iv_ogm_process(r, a.j, a.src, a.ogms[x], a.join)
  ELSE IF kind = "ifaces" THEN batadv_iv_ogm_receive(r, x, a.src, a.ogms, a.join)
  ELSE IF kind = "queue" THEN batadv_iv_ogm_queue_add(r, a.n, a.ogm, a.i, x, TRUE, FALSE)
  ELSE IF kind = "enable" THEN batadv_iv_ogm_schedule_buff(r, x, a.seqno[x])
  ELSE a.ring[x] + r

\* What each of them keeps, when the elements of T have been gone through.
Kept(kind, a, T, r) ==
  IF kind = "outif" THEN NodeGood(a.c, a.n, r) /\ a.ogm.orig \in DOMAIN r.orig
  ELSE IF kind = "queue" THEN NodeGood(a.c, a.n, r) /\ DOMAIN r.orig = a.known
  ELSE IF kind = "enable" THEN NodeGood(a.c, a.n, r) /\ DOMAIN r.orig = {}
  ELSE IF kind = "sum" THEN r \in Nat /\ r <= Cardinality(T) * a.bound
  ELSE NodeGood(a.c, a.n, r)

\* The element that is gone through last.
Last1(kind, T) == IF kind \in {"outif", "ogms"} THEN Max(T) ELSE CHOOSE x \in T : TRUE

Folds(g, kind, a, s, S) ==
  g = [T \in SUBSET S |->
         IF T = {} THEN s ELSE FoldStep(kind, a, Last1(kind, T), g[T \ {Last1(kind, T)}])]

LEMMA LastIsElement ==
  ASSUME NEW kind, NEW n \in Nat, NEW S, kind \in {"outif", "ogms"} => S = 1..n
  PROVE  \A T \in SUBSET S : T # {} => Last1(kind, T) \in T
<1> SUFFICES ASSUME NEW T \in SUBSET S, T # {} PROVE Last1(kind, T) \in T
  OBVIOUS
<1>1. CASE kind \notin {"outif", "ogms"}
  BY <1>1 DEF Last1
<1>2. CASE kind \in {"outif", "ogms"}
  <2> DEFINE U == {n - x : x \in T}
  <2>1. T \subseteq 1..n /\ T \subseteq Int
    BY <1>2
  <2>2. U \in SUBSET Nat /\ U # {}
    <3>1. ASSUME NEW x \in T PROVE n - x \in Nat
      <4>1. S = 1..n /\ x \in S
        BY <1>2
      <4>2. x \in 1..n
        BY <4>1
      <4> QED BY <4>2
    <3> QED BY <3>1
  <2>3. PICK l \in U : \A x \in U : l <= x
    BY <2>2, FirstNumber
  <2>4. PICK m \in T : l = n - m
    BY <2>3
  <2>5. \A x \in T : m >= x
    <3> SUFFICES ASSUME NEW x \in T PROVE m >= x
      OBVIOUS
    <3>1. l <= n - x
      BY <2>3
    <3> QED BY <2>1, <2>4, <3>1
  <2>6. Max(T) \in T
    BY <2>5 DEF Max
  <2> QED BY <1>2, <2>6 DEF Last1
<1> QED BY <1>1, <1>2

LEMMA FoldExists ==
  ASSUME NEW S, IsFiniteSet(S), NEW kind, NEW a, NEW s,
         \A T \in SUBSET S : T # {} => Last1(kind, T) \in T
  PROVE  \E g : Folds(g, kind, a, s, S)
<1> DEFINE N == Cardinality(S)
           D(n) == {T \in SUBSET S : Cardinality(T) <= n}
           Rest(T) == T \ {Last1(kind, T)}
           Step(g, T) == IF T = {} THEN s ELSE FoldStep(kind, a, Last1(kind, T), g[Rest(T)])
           K == {n \in 0..N : \E g : DOMAIN g = D(n) /\ \A T \in D(n) : g[T] = Step(g, T)}
<1>1. N \in Nat
  BY FS_CardinalityType
<1>2. \A T \in SUBSET S : IsFiniteSet(T) /\ Cardinality(T) \in Nat /\ Cardinality(T) <= N
  BY FS_Subset, FS_CardinalityType
<1>3. \A T \in SUBSET S : T # {} => Rest(T) \in SUBSET S /\ Cardinality(Rest(T)) = Cardinality(T) - 1
  <2> SUFFICES ASSUME NEW T \in SUBSET S, T # {}
               PROVE  Cardinality(Rest(T)) = Cardinality(T) - 1
    OBVIOUS
  <2>1. Last1(kind, T) \in T /\ IsFiniteSet(T)
    BY <1>2
  <2> QED BY <2>1, FS_RemoveElement
<1>4. 0 \in K
  <2> DEFINE g == [T \in D(0) |-> s]
  <2>1. \A T \in D(0) : T = {}
    BY <1>2, FS_EmptySet
  <2>2. DOMAIN g = D(0) /\ \A T \in D(0) : g[T] = Step(g, T)
    BY <2>1
  <2>3. 0 \in 0..N
    BY <1>1
  <2> HIDE DEF g, D, Step
  <2> QED BY <2>2, <2>3
<1>5. ASSUME NEW n \in 0..(N - 1), n \in K PROVE n + 1 \in K
  <2>1. n \in Nat /\ n + 1 \in 0..N
    BY <1>1
  <2>2. PICK g : DOMAIN g = D(n) /\ \A T \in D(n) : g[T] = Step(g, T)
    BY <1>5
  <2> DEFINE h == [T \in D(n + 1) |-> Step(g, T)]
  <2>3. ASSUME NEW T \in D(n + 1) PROVE h[T] = Step(h, T)
    <3>1. CASE T = {}
      BY <3>1
    <3>2. CASE T # {}
      <4> DEFINE U == Rest(T)
      <4>1. U \in D(n) /\ U \in D(n + 1)
        <5>1. U \in SUBSET S /\ Cardinality(U) = Cardinality(T) - 1 /\ Cardinality(T) \in Nat /\ Cardinality(T) <= n + 1
          BY <1>2, <1>3, <3>2
        <5> HIDE DEF U
        <5> QED BY <2>1, <5>1
      <4>2. g[U] = Step(g, U) /\ h[U] = Step(g, U)
        BY <2>2, <4>1
      <4>3. h[T] = FoldStep(kind, a, Last1(kind, T), g[U]) /\ Step(h, T) = FoldStep(kind, a, Last1(kind, T), h[U])
        BY <3>2
      <4> HIDE DEF h, Step, U
      <4> QED BY <4>2, <4>3
    <3> QED BY <3>1, <3>2
  <2>4. DOMAIN h = D(n + 1)
    OBVIOUS
  <2> HIDE DEF h, D, Step
  <2> QED BY <2>1, <2>3, <2>4
<1>6. N \in K
  <2> HIDE DEF K
  <2>1. \A k \in 0..N : k \in K
    BY <1>1, <1>4, <1>5, UpToAll
  <2> QED BY <1>1, <2>1
<1>7. D(N) = SUBSET S
  BY <1>2
<1>8. PICK g : DOMAIN g = SUBSET S /\ \A T \in SUBSET S : g[T] = Step(g, T)
  BY <1>6, <1>7
<1> DEFINE h == [T \in SUBSET S |-> g[T]]
<1>9. Folds(h, kind, a, s, S)
  <2>1. \A T \in SUBSET S : Rest(T) \in SUBSET S
    OBVIOUS
  <2>2. \A T \in SUBSET S : Step(h, T) = Step(g, T)
    BY <2>1
  <2>3. h = [T \in SUBSET S |-> Step(h, T)]
    BY <1>8, <2>2
  <2> HIDE DEF h
  <2> QED BY <2>3 DEF Folds
<1> QED BY <1>9

LEMMA FoldsKeep ==
  ASSUME NEW S, IsFiniteSet(S), NEW kind, NEW a, NEW s, NEW g, Folds(g, kind, a, s, S), Kept(kind, a, {}, s),
         \A T \in SUBSET S : T # {} => Last1(kind, T) \in T,
         \A T \in SUBSET S : \A x \in T : \A r :
           Kept(kind, a, T \ {x}, r) => Kept(kind, a, T, FoldStep(kind, a, x, r))
  PROVE  Kept(kind, a, S, g[S])
<1> DEFINE N == Cardinality(S)
           K == {n \in 0..N : \A T \in SUBSET S : Cardinality(T) = n => Kept(kind, a, T, g[T])}
<1>1. N \in Nat
  BY FS_CardinalityType
<1>2. \A T \in SUBSET S : IsFiniteSet(T) /\ Cardinality(T) \in Nat
  BY FS_Subset, FS_CardinalityType
<1>3. \A T \in SUBSET S :
        g[T] = IF T = {} THEN s ELSE FoldStep(kind, a, Last1(kind, T), g[T \ {Last1(kind, T)}])
  BY DEF Folds
<1>4. 0 \in K
  <2>1. ASSUME NEW T \in SUBSET S, Cardinality(T) = 0 PROVE Kept(kind, a, T, g[T])
    <3>1. T = {}
      BY <1>2, <2>1, FS_EmptySet
    <3>2. g[T] = s
      BY <1>3, <3>1
    <3> QED BY <3>1, <3>2
  <2>2. 0 \in 0..N
    BY <1>1
  <2> QED BY <2>1, <2>2
<1>5. ASSUME NEW n \in 0..(N - 1), n \in K PROVE n + 1 \in K
  <2>1. n \in Nat /\ n + 1 \in 0..N
    BY <1>1
  <2>2. ASSUME NEW T \in SUBSET S, Cardinality(T) = n + 1 PROVE Kept(kind, a, T, g[T])
    <3> DEFINE x == Last1(kind, T)
    <3>1. T # {}
      BY <2>1, <2>2, FS_EmptySet
    <3>2. x \in T
      BY <3>1
    <3>3. Cardinality(T \ {x}) = n
      <4>1. IsFiniteSet(T)
        BY <1>2
      <4>2. Cardinality(T \ {x}) = Cardinality(T) - 1
        BY <3>2, <4>1, FS_RemoveElement
      <4> QED BY <2>1, <2>2, <4>2
    <3>4. Kept(kind, a, T \ {x}, g[T \ {x}])
      BY <1>5, <3>3
    <3>5. g[T] = FoldStep(kind, a, x, g[T \ {x}])
      BY <1>3, <3>1
    <3> HIDE DEF x
    <3> QED BY <3>2, <3>4, <3>5
  <2> QED BY <2>1, <2>2
<1>6. N \in K
  <2> HIDE DEF K
  <2>1. \A k \in 0..N : k \in K
    BY <1>1, <1>4, <1>5, UpToAll
  <2> QED BY <1>1, <2>1
<1> QED BY <1>6

-----------------------------------------------------------------------------
(* Ring buffers. *)

RingSum(ring, S) == MapThenSumSet(LAMBDA x : ring[x], S)

LEMMA SumFits ==
  ASSUME NEW S, IsFiniteSet(S), NEW ring, NEW bound \in Nat, \A x \in S : ring[x] \in 0..bound
  PROVE  RingSum(ring, S) \in Nat /\ RingSum(ring, S) <= bound * Cardinality(S)
<1> DEFINE a == [ring |-> ring, bound |-> bound]
           Def(g) == [T \in SUBSET S |->
             IF T = {} THEN 0 ELSE ring[CHOOSE x \in T : TRUE] + g[T \ {CHOOSE x \in T : TRUE}]]
           iter == CHOOSE g : g = Def(g)
<1>1. RingSum(ring, S) = iter[S]
  BY DEF RingSum, MapThenSumSet, MapThenFoldSet
<1>2. \A g : Folds(g, "sum", a, 0, S) <=> g = Def(g)
  BY DEF Folds, FoldStep, Last1
<1>3. \A T \in SUBSET S : T # {} => Last1("sum", T) \in T
  BY DEF Last1
<1>4. iter = Def(iter)
  <2> HIDE DEF Def, a
  <2> QED BY <1>2, <1>3, FoldExists
<1>5. Folds(iter, "sum", a, 0, S)
  <2> HIDE DEF Def, iter
  <2> QED BY <1>2, <1>4
<1>6. Kept("sum", a, {}, 0)
  BY FS_EmptySet DEF Kept
<1>7. ASSUME NEW T \in SUBSET S, NEW x \in T, NEW r, Kept("sum", a, T \ {x}, r)
      PROVE  Kept("sum", a, T, FoldStep("sum", a, x, r))
  <2> DEFINE n == Cardinality(T)
  <2>1. n \in Nat /\ Cardinality(T \ {x}) = n - 1
    BY FS_Subset, FS_CardinalityType, FS_RemoveElement
  <2>2. r \in Nat /\ r <= (n - 1) * bound /\ ring[x] \in 0..bound
    BY <1>7, <2>1 DEF Kept
  <2> HIDE DEF n
  <2>3. (n - 1) * bound + bound = n * bound /\ (n - 1) * bound \in Int
    BY SMT, <2>1
  <2>4. ring[x] + r \in Nat /\ ring[x] + r <= n * bound
    BY <2>2, <2>3
  <2> QED BY <2>4 DEF Kept, FoldStep, n
<1> HIDE DEF iter
<1>8. Kept("sum", a, S, iter[S])
  <2> HIDE DEF a
  <2> QED BY <1>3, <1>5, <1>6, <1>7, FoldsKeep
<1>9. iter[S] \in Nat /\ iter[S] <= Cardinality(S) * bound
  BY <1>8 DEF Kept
<1>10. Cardinality(S) * bound = bound * Cardinality(S)
  <2>1. Cardinality(S) \in Nat
    BY FS_CardinalityType
  <2> QED BY SMT, <2>1
<1> QED BY <1>1, <1>9, <1>10

LEMMA AverageFits ==
  ASSUME NEW ring \in Seq(Nat), NEW bound \in Nat, \A x \in DOMAIN ring : ring[x] <= bound
  PROVE  batadv_ring_buffer_avg(ring) \in 0..bound
<1> DEFINE S == {x \in DOMAIN ring : ring[x] # 0}
           sum == RingSum(ring, S)
<1>1. IsFiniteSet(S)
  <2>1. DOMAIN ring = 1..Len(ring) /\ Len(ring) \in Nat
    OBVIOUS
  <2>2. IsFiniteSet(1..Len(ring))
    BY <2>1, FS_Interval
  <2> QED BY <2>1, <2>2, FS_Subset
<1>2. \A x \in S : ring[x] \in 0..bound
  OBVIOUS
<1>3. sum \in Nat /\ sum <= bound * Cardinality(S)
  <2> HIDE DEF S
  <2> QED BY <1>1, <1>2, SumFits
<1>4. batadv_ring_buffer_avg(ring) = IF S = {} THEN 0 ELSE sum \div Cardinality(S)
  BY DEF batadv_ring_buffer_avg, RingSum
<1>5. S # {} => Cardinality(S) \in Nat \ {0}
  <2> HIDE DEF S
  <2> QED BY <1>1, FS_CardinalityType, FS_EmptySet
<1> HIDE DEF S, sum
<1>6. CASE S = {}
  BY <1>4, <1>6
<1>7. CASE S # {}
  BY <1>3, <1>4, <1>5, <1>7, QuotientFits
<1> QED BY <1>6, <1>7

\* Entering a TQ that fits keeps the ring buffer and its average fitting.
LEMMA RatingGrows ==
  ASSUME NEW c, NEW x, NEW o, NEW neigh, NEW out \in DOMAIN neigh.ifinfo, DOMAIN neigh = {"ifinfo", "age"},
         \A i \in DOMAIN neigh.ifinfo : Rating(c, x, o, neigh.ifinfo[i]), NEW tq, TqFits(c, x, o, tq)
  PROVE  LET new == Ranked(neigh, out, tq)
         IN  /\ DOMAIN new = {"ifinfo", "age"} /\ DOMAIN new.ifinfo = DOMAIN neigh.ifinfo
             /\ \A i \in DOMAIN new.ifinfo : Rating(c, x, o, new.ifinfo[i])
<1> DEFINE ni == neigh.ifinfo[out]
           old == ni.tq_recv
           ring == batadv_ring_buffer_set(old, tq)
           avg == batadv_ring_buffer_avg(ring)
           N == TQ_GLOBAL_WINDOW_SIZE
<1>1. /\ Rating(c, x, o, ni) /\ old \in Seq(Tq) /\ Len(old) = N /\ N \in Nat \ {0} /\ tq \in Tq
      /\ \A y \in DOMAIN old : TqFits(c, x, o, old[y])
  BY IvConstants DEF Rating, TqFits
<1>2. ring \in Seq(Tq) /\ Len(ring) = N /\ \A y \in DOMAIN ring : TqFits(c, x, o, ring[y])
  <2> HIDE DEF old
  <2> DEFINE long == Append(old, tq)
  <2>1. long \in Seq(Tq) /\ Len(long) = N + 1 /\ \A y \in 1..(N + 1) : long[y] = IF y = N + 1 THEN tq ELSE old[y]
    BY <1>1
  <2>2. \A y \in 1..(N + 1) : TqFits(c, x, o, long[y])
    <3> SUFFICES ASSUME NEW y \in 1..(N + 1) PROVE TqFits(c, x, o, long[y])
      OBVIOUS
    <3>1. CASE y = N + 1
      BY <2>1, <3>1
    <3>2. CASE y # N + 1
      <4>1. y \in DOMAIN old
        BY <1>1, <3>2
      <4>2. long[y] = old[y]
        BY <2>1, <3>2
      <4> HIDE DEF long
      <4> QED BY <1>1, <4>1, <4>2
    <3> QED BY <3>1, <3>2
  <2> HIDE DEF long, N
  <2>3. ring = Tail(long)
    BY DEF batadv_ring_buffer_set, long
  <2>4. ring \in Seq(Tq) /\ Len(ring) = N /\ \A y \in 1..N : ring[y] = long[y + 1] /\ y + 1 \in 1..(N + 1)
    BY <1>1, <2>1, <2>3
  <2>5. DOMAIN ring = 1..N
    BY <2>4
  <2> HIDE DEF ring
  <2> QED BY <2>2, <2>4, <2>5
<1> HIDE DEF ring
<1>3. \A y \in DOMAIN ring : ring[y] \in Tq
  BY <1>2
<1>4. TqFits(c, x, o, avg)
  <2>1. TQ_MAX_VALUE \in Nat /\ Tq \subseteq Nat /\ ring \in Seq(Nat)
    <3>1. TQ_MAX_VALUE \in Nat /\ Tq \subseteq Nat
      BY IvConstants DEF Tq
    <3>2. ring \in Seq(Nat)
      BY <1>2, <3>1, SeqMonotonic
    <3> QED BY <3>1, <3>2
  <2>2. avg \in Tq
    <3>1. \A y \in DOMAIN ring : ring[y] <= TQ_MAX_VALUE
      BY <1>3 DEF Tq
    <3>2. avg \in 0..TQ_MAX_VALUE
      BY <2>1, <3>1, AverageFits
    <3> QED BY <3>2 DEF Tq
  <2>3. ASSUME NEW d \in Nat, x \notin Within(c.link, Owner[o], d) PROVE avg <= TqAfter(d + 1)
    <3>1. \A y \in DOMAIN ring : ring[y] <= TqAfter(d + 1)
      BY <1>2, <2>3 DEF TqFits
    <3>2. TqAfter(d + 1) \in Nat
      <4>1. d + 1 \in Nat
        OBVIOUS
      <4>2. TqAfter(d + 1) \in Tq
        BY <4>1, TqAfterType
      <4> QED BY <2>1, <4>2
    <3>3. avg \in 0..TqAfter(d + 1)
      BY <2>1, <3>1, <3>2, AverageFits
    <3> HIDE DEF avg
    <3> QED BY <3>2, <3>3
  <2> QED BY <2>2, <2>3 DEF TqFits
<1> DEFINE newni == [ni EXCEPT !.tq_recv = ring, !.tq_avg = avg]
<1>5. Rating(c, x, o, newni)
  <2>1. /\ DOMAIN newni = {"real_bits", "real_packet_count", "tq_avg", "tq_recv"}
        /\ newni.real_bits = ni.real_bits /\ newni.real_packet_count = ni.real_packet_count
        /\ newni.tq_recv = ring /\ newni.tq_avg = avg
    BY <1>1 DEF Rating
  <2> HIDE DEF newni, avg, ni
  <2> QED BY <1>1, <1>2, <1>4, <2>1 DEF Rating
<1>6. Ranked(neigh, out, tq) = [neigh EXCEPT !.ifinfo[out] = newni]
  BY DEF Ranked, ring
<1> HIDE DEF newni
<1>7. LET new == [neigh EXCEPT !.ifinfo[out] = newni]
      IN  /\ DOMAIN new = {"ifinfo", "age"} /\ DOMAIN new.ifinfo = DOMAIN neigh.ifinfo
          /\ \A i \in DOMAIN new.ifinfo : new.ifinfo[i] = IF i = out THEN newni ELSE neigh.ifinfo[i]
  OBVIOUS
<1> QED BY <1>5, <1>6, <1>7

-----------------------------------------------------------------------------
(* The originator table. *)

LEMMA NoRating ==
  ASSUME NEW c, NEW x, NEW o
  PROVE  Rating(c, x, o, [real_bits |-> {}, real_packet_count |-> 0, tq_avg |-> 0,
                          tq_recv |-> [y \in 1..TQ_GLOBAL_WINDOW_SIZE |-> 0]])
<1> DEFINE N == TQ_GLOBAL_WINDOW_SIZE
           ring == [y \in 1..N |-> 0]
           ni == [real_bits |-> {}, real_packet_count |-> 0, tq_avg |-> 0, tq_recv |-> ring]
<1>1. N \in Nat /\ 0 \in Tq /\ TqFits(c, x, o, 0)
  BY IvConstants, ZeroFits DEF TqFits
<1> HIDE DEF N
<1>2. ring \in Seq(Tq) /\ Len(ring) = N /\ DOMAIN ring = 1..N /\ \A y \in 1..N : ring[y] = 0
  BY <1>1
<1> HIDE DEF ring
<1>3. Cardinality({}) = 0
  BY FS_EmptySet
<1>4. /\ DOMAIN ni = {"real_bits", "real_packet_count", "tq_avg", "tq_recv"}
      /\ ni.real_bits = {} /\ ni.real_packet_count = 0 /\ ni.tq_avg = 0 /\ ni.tq_recv = ring
  OBVIOUS
<1> HIDE DEF ni
<1>5. Rating(c, x, o, ni)
  BY <1>1, <1>2, <1>3, <1>4 DEF Rating, N
<1> QED BY <1>5 DEF ni, ring, N

LEMMA NeighIfinfoNew ==
  ASSUME NEW c, NEW o, NEW k, NEW neigh, NeighGood(c, o, k, neigh), NEW out
  PROVE  LET new == batadv_neigh_ifinfo_new(neigh, out)
         IN  NeighGood(c, o, k, new) /\ out \in DOMAIN new.ifinfo
<1>1. CASE out \in DOMAIN neigh.ifinfo
  BY <1>1 DEF batadv_neigh_ifinfo_new
<1>2. CASE out \notin DOMAIN neigh.ifinfo
  <2> DEFINE ni == [real_bits |-> {}, real_packet_count |-> 0, tq_avg |-> 0,
                    tq_recv |-> [y \in 1..TQ_GLOBAL_WINDOW_SIZE |-> 0]]
             all == With(neigh.ifinfo, out, ni)
             new == [neigh EXCEPT !.ifinfo = all]
  <2>1. Rating(c, Owner[k[1]], o, ni)
    BY NoRating
  <2>2. batadv_neigh_ifinfo_new(neigh, out) = new
    BY <1>2 DEF batadv_neigh_ifinfo_new
  <2> HIDE DEF ni
  <2>3. /\ DOMAIN all = DOMAIN neigh.ifinfo \cup {out}
        /\ \A y \in DOMAIN neigh.ifinfo \cup {out} : all[y] = IF y = out THEN ni ELSE neigh.ifinfo[y]
    BY DEF With
  <2> HIDE DEF all
  <2>4. DOMAIN new = {"ifinfo", "age"} /\ new.ifinfo = all
    BY DEF NeighGood
  <2> HIDE DEF new
  <2> QED BY <2>1, <2>2, <2>3, <2>4 DEF NeighGood
<1> QED BY <1>1, <1>2

\* The age of a neighbour does not matter.
LEMMA AgeOfNeigh ==
  ASSUME NEW c, NEW o, NEW k, NEW neigh, NeighGood(c, o, k, neigh), NEW age
  PROVE  LET new == [neigh EXCEPT !.age = age]
         IN  NeighGood(c, o, k, new) /\ new.ifinfo = neigh.ifinfo
<1> DEFINE new == [neigh EXCEPT !.age = age]
<1>1. DOMAIN new = {"ifinfo", "age"} /\ new.ifinfo = neigh.ifinfo
  BY DEF NeighGood
<1> HIDE DEF new
<1>2. NeighGood(c, o, k, new)
  BY <1>1 DEF NeighGood
<1> QED BY <1>1, <1>2 DEF new

LEMMA RankedFits ==
  ASSUME NEW c, NEW o, NEW k, NEW neigh, NeighGood(c, o, k, neigh), NEW out \in DOMAIN neigh.ifinfo,
         NEW tq, TqFits(c, Owner[k[1]], o, tq)
  PROVE  NeighGood(c, o, k, Ranked(neigh, out, tq))
BY RatingGrows DEF NeighGood

\* The neighbours of an entry are replaced.
LEMMA PutNeighs ==
  ASSUME NEW c, NEW n, NEW o, NEW on, EntryGood(c, n, o, on),
         NEW neighs, \A k \in DOMAIN neighs : NeighGood(c, o, k, neighs[k])
  PROVE  LET new == [on EXCEPT !.neigh = neighs]
         IN  EntryGood(c, n, o, new) /\ new.ifinfo = on.ifinfo /\ new.neigh = neighs
<1> DEFINE new == [on EXCEPT !.neigh = neighs]
<1>1. DOMAIN new = {"neigh", "ifinfo", "age"} /\ new.ifinfo = on.ifinfo /\ new.neigh = neighs
  BY DEF EntryGood
<1> HIDE DEF new
<1>2. EntryGood(c, n, o, new)
  BY <1>1 DEF EntryGood
<1> QED BY <1>1, <1>2 DEF new

LEMMA PutIfinfos ==
  ASSUME NEW c, NEW n, NEW o, NEW on, EntryGood(c, n, o, on),
         NEW ifs, DOMAIN ifs \subseteq {DEFAULT} \cup OwnIfaces(c, n),
         \A i \in DOMAIN ifs : IfinfoGood(c, o, i, ifs[i])
  PROVE  LET new == [on EXCEPT !.ifinfo = ifs]
         IN  EntryGood(c, n, o, new) /\ new.ifinfo = ifs /\ new.neigh = on.neigh
<1> DEFINE new == [on EXCEPT !.ifinfo = ifs]
<1>1. DOMAIN new = {"neigh", "ifinfo", "age"} /\ new.ifinfo = ifs /\ new.neigh = on.neigh
  BY DEF EntryGood
<1> HIDE DEF new
<1>2. EntryGood(c, n, o, new)
  BY <1>1 DEF EntryGood
<1> QED BY <1>1, <1>2 DEF new

LEMMA AgeOfEntry ==
  ASSUME NEW c, NEW n, NEW o, NEW on, EntryGood(c, n, o, on), NEW age
  PROVE  EntryGood(c, n, o, [on EXCEPT !.age = age])
<1> DEFINE new == [on EXCEPT !.age = age]
<1>1. DOMAIN new = {"neigh", "ifinfo", "age"} /\ new.ifinfo = on.ifinfo /\ new.neigh = on.neigh
  BY DEF EntryGood
<1> HIDE DEF new
<1>2. EntryGood(c, n, o, new)
  BY <1>1 DEF EntryGood
<1> QED BY <1>1, <1>2 DEF new

LEMMA NeighNew ==
  ASSUME NEW c, NEW n, NEW o, NEW on, EntryGood(c, n, o, on), NEW k
  PROVE  LET new == batadv_iv_ogm_neigh_new(on, k)
         IN  /\ EntryGood(c, n, o, new) /\ k \in DOMAIN new.neigh /\ new.ifinfo = on.ifinfo
<1>1. CASE k \in DOMAIN on.neigh
  BY <1>1 DEF batadv_iv_ogm_neigh_new
<1>2. CASE k \notin DOMAIN on.neigh
  <2> DEFINE neigh == [ifinfo |-> <<>>, age |-> 0]
             all == With(on.neigh, k, neigh)
  <2>1. NeighGood(c, o, k, neigh)
    BY DEF NeighGood
  <2>2. batadv_iv_ogm_neigh_new(on, k) = [on EXCEPT !.neigh = all]
    BY <1>2 DEF batadv_iv_ogm_neigh_new
  <2> HIDE DEF neigh
  <2>3. /\ DOMAIN all = DOMAIN on.neigh \cup {k}
        /\ \A y \in DOMAIN on.neigh \cup {k} : all[y] = IF y = k THEN neigh ELSE on.neigh[y]
    BY DEF With
  <2> HIDE DEF all
  <2>4. \A y \in DOMAIN all : NeighGood(c, o, y, all[y])
    BY <2>1, <2>3 DEF EntryGood
  <2> QED BY <2>2, <2>3, <2>4, PutNeighs
<1> QED BY <1>1, <1>2

LEMMA OrigIfinfoNew ==
  ASSUME NEW c, NEW n, NEW o, NEW on, EntryGood(c, n, o, on), NEW out \in {DEFAULT} \cup OwnIfaces(c, n)
  PROVE  LET new == batadv_orig_ifinfo_new(on, out)
         IN  /\ EntryGood(c, n, o, new) /\ out \in DOMAIN new.ifinfo /\ new.neigh = on.neigh
<1>1. CASE out \in DOMAIN on.ifinfo
  BY <1>1 DEF batadv_orig_ifinfo_new
<1>2. CASE out \notin DOMAIN on.ifinfo
  <2> DEFINE oi == [last_real_seqno |-> 0, protected |-> FALSE, last_ttl |-> 0,
                    bcast_own |-> {}, bcast_own_sum |-> 0, router |-> NoRouter]
             all == With(on.ifinfo, out, oi)
  <2>1. IfinfoGood(c, o, out, oi)
    BY FS_EmptySet DEF IfinfoGood
  <2>2. batadv_orig_ifinfo_new(on, out) = [on EXCEPT !.ifinfo = all]
    BY <1>2 DEF batadv_orig_ifinfo_new
  <2> HIDE DEF oi
  <2>3. /\ DOMAIN all = DOMAIN on.ifinfo \cup {out}
        /\ \A y \in DOMAIN on.ifinfo \cup {out} : all[y] = IF y = out THEN oi ELSE on.ifinfo[y]
    BY DEF With
  <2> HIDE DEF all
  <2>4. \A y \in DOMAIN all : IfinfoGood(c, o, y, all[y])
    BY <2>1, <2>3 DEF EntryGood
  <2>5. DOMAIN all \subseteq {DEFAULT} \cup OwnIfaces(c, n)
    BY <2>3 DEF EntryGood
  <2> QED BY <2>2, <2>3, <2>4, <2>5, PutIfinfos
<1> QED BY <1>1, <1>2

\* The state of a node after more of its handlers have run: entries stay.
Grown(s, t) ==
  \A o \in DOMAIN s.orig : o \in DOMAIN t.orig /\ DOMAIN s.orig[o].ifinfo \subseteq DOMAIN t.orig[o].ifinfo

LEMMA PutEntry ==
  ASSUME NEW c, NEW n, NEW s, NodeGood(c, n, s), NEW o \in DOMAIN s.orig, NEW on, EntryGood(c, n, o, on)
  PROVE  LET new == [s EXCEPT !.orig[o] = on]
         IN  /\ NodeGood(c, n, new) /\ DOMAIN new.orig = DOMAIN s.orig /\ new.forw = s.forw
             /\ \A p \in DOMAIN s.orig : new.orig[p] = IF p = o THEN on ELSE s.orig[p]
             /\ DOMAIN s.orig[o].ifinfo \subseteq DOMAIN on.ifinfo => Grown(s, new)
<1> DEFINE new == [s EXCEPT !.orig[o] = on]
<1>1. /\ DOMAIN new = {"orig", "forw"} /\ DOMAIN new.orig = DOMAIN s.orig /\ new.forw = s.forw
      /\ \A p \in DOMAIN s.orig : new.orig[p] = IF p = o THEN on ELSE s.orig[p]
  BY DEF NodeGood
<1> HIDE DEF new
<1>2. NodeGood(c, n, new)
  BY <1>1 DEF NodeGood
<1>3. DOMAIN s.orig[o].ifinfo \subseteq DOMAIN on.ifinfo => Grown(s, new)
  BY <1>1 DEF Grown
<1> QED BY <1>1, <1>2, <1>3 DEF new

LEMMA OrigGet ==
  ASSUME NEW c, NEW n, NEW s, NodeGood(c, n, s), NEW o \in Iface
  PROVE  LET new == batadv_iv_ogm_orig_get(s, o)
         IN  /\ NodeGood(c, n, new) /\ DOMAIN new.orig = DOMAIN s.orig \cup {o} /\ Grown(s, new)
<1>1. CASE o \in DOMAIN s.orig
  BY <1>1 DEF batadv_iv_ogm_orig_get, Grown
<1>2. CASE o \notin DOMAIN s.orig
  <2> DEFINE on == [neigh |-> <<>>, ifinfo |-> <<>>, age |-> 0]
             all == With(s.orig, o, on)
             new == [s EXCEPT !.orig = all]
  <2>1. EntryGood(c, n, o, on)
    BY DEF EntryGood
  <2>2. batadv_iv_ogm_orig_get(s, o) = new
    BY <1>2 DEF batadv_iv_ogm_orig_get
  <2> HIDE DEF on
  <2>3. /\ DOMAIN all = DOMAIN s.orig \cup {o}
        /\ \A p \in DOMAIN s.orig \cup {o} : all[p] = IF p = o THEN on ELSE s.orig[p]
    BY DEF With
  <2> HIDE DEF all
  <2>4. DOMAIN new = {"orig", "forw"} /\ new.orig = all /\ new.forw = s.forw
    BY DEF NodeGood
  <2> HIDE DEF new
  <2>5. NodeGood(c, n, new)
    BY <2>1, <2>3, <2>4 DEF NodeGood
  <2>6. Grown(s, new)
    BY <1>2, <2>3, <2>4 DEF Grown
  <2> QED BY <2>2, <2>3, <2>4, <2>5, <2>6
<1> QED BY <1>1, <1>2

LEMMA BitsInWindow ==
  ASSUME NEW bits \in SUBSET Window, NEW diff, NEW mark
  PROVE  batadv_bit_get_packet(bits, diff, mark) \in SUBSET Window
<1>1. 0 \in Window
  BY IvConstants DEF Window
<1> QED BY <1>1 DEF batadv_bit_get_packet

LEMMA BitsOfNeigh ==
  ASSUME NEW c, NEW o, NEW k, NEW neigh, NeighGood(c, o, k, neigh), NEW out \in DOMAIN neigh.ifinfo,
         NEW bits \in SUBSET Window
  PROVE  NeighGood(c, o, k, [neigh EXCEPT !.ifinfo[out].real_bits = bits,
                                          !.ifinfo[out].real_packet_count = Cardinality(bits)])
<1> DEFINE ni == neigh.ifinfo[out]
           count == Cardinality(bits)
           newni == [ni EXCEPT !.real_bits = bits, !.real_packet_count = count]
           ifs == [neigh.ifinfo EXCEPT ![out] = newni]
           new == [neigh EXCEPT !.ifinfo = ifs]
<1>1. [neigh EXCEPT !.ifinfo[out].real_bits = bits, !.ifinfo[out].real_packet_count = count] = new
  BY DEF NeighGood
<1>2. Rating(c, Owner[k[1]], o, ni)
  BY DEF NeighGood
<1>3. /\ DOMAIN newni = {"real_bits", "real_packet_count", "tq_avg", "tq_recv"}
      /\ newni.real_bits = bits /\ newni.real_packet_count = count
      /\ newni.tq_recv = ni.tq_recv /\ newni.tq_avg = ni.tq_avg
  BY <1>2 DEF Rating
<1> HIDE DEF newni, ni
<1>4. Rating(c, Owner[k[1]], o, newni)
  BY <1>2, <1>3 DEF Rating
<1> HIDE DEF count
<1>5. DOMAIN ifs = DOMAIN neigh.ifinfo /\ \A i \in DOMAIN ifs : ifs[i] = IF i = out THEN newni ELSE neigh.ifinfo[i]
  OBVIOUS
<1> HIDE DEF ifs
<1>6. DOMAIN new = {"ifinfo", "age"} /\ new.ifinfo = ifs
  BY DEF NeighGood
<1> HIDE DEF new
<1>7. NeighGood(c, o, k, new)
  BY <1>4, <1>5, <1>6 DEF NeighGood
<1> QED BY <1>1, <1>7 DEF count

\* Fields of an interface entry that the invariant does not speak of.
LEMMA OtherFields ==
  ASSUME NEW c, NEW n, NEW o, NEW on, EntryGood(c, n, o, on), NEW out \in DOMAIN on.ifinfo, NEW oi,
         DOMAIN oi = DOMAIN on.ifinfo[out], oi.bcast_own = on.ifinfo[out].bcast_own,
         oi.bcast_own_sum = on.ifinfo[out].bcast_own_sum
  PROVE  LET new == [on EXCEPT !.ifinfo[out] = oi]
         IN  EntryGood(c, n, o, new) /\ DOMAIN new.ifinfo = DOMAIN on.ifinfo /\ new.neigh = on.neigh
<1> DEFINE ifs == [on.ifinfo EXCEPT ![out] = oi]
<1>1. DOMAIN ifs = DOMAIN on.ifinfo /\ \A i \in DOMAIN ifs : ifs[i] = IF i = out THEN oi ELSE on.ifinfo[i]
  OBVIOUS
<1>2. [on EXCEPT !.ifinfo[out] = oi] = [on EXCEPT !.ifinfo = ifs]
  OBVIOUS
<1> HIDE DEF ifs
<1>3. IfinfoGood(c, o, out, oi)
  BY DEF EntryGood, IfinfoGood
<1>4. \A i \in DOMAIN ifs : IfinfoGood(c, o, i, ifs[i])
  BY <1>1, <1>3 DEF EntryGood
<1>5. DOMAIN ifs \subseteq {DEFAULT} \cup OwnIfaces(c, n)
  BY <1>1 DEF EntryGood
<1> QED BY <1>1, <1>2, <1>4, <1>5, PutIfinfos

-----------------------------------------------------------------------------
(* Receiving an OGM. *)

LEMMA UpdateSeqnosFits ==
  ASSUME NEW c, NEW n, NEW s, NodeGood(c, n, s), NEW j, NEW src, NEW ogm, ogm.orig \in DOMAIN s.orig,
         NEW out \in {DEFAULT} \cup OwnIfaces(c, n)
  PROVE  LET t == batadv_iv_ogm_update_seqnos(s, j, src, ogm, out).s
         IN  /\ NodeGood(c, n, t) /\ DOMAIN t.orig = DOMAIN s.orig /\ Grown(s, t)
             /\ out \in DOMAIN t.orig[ogm.orig].ifinfo
<1> DEFINE o == ogm.orig
           on == batadv_orig_ifinfo_new(s.orig[o], out)
           oi == on.ifinfo[out]
           diff == SeqDiff(ogm.seqno, oi.last_real_seqno)
           old == [k \in DOMAIN on.neigh |-> batadv_neigh_ifinfo_new(on.neigh[k], out)]
           bits(k) == batadv_bit_get_packet(old[k].ifinfo[out].real_bits, diff, k = <<src, j>>)
           moved(k) == [old[k] EXCEPT !.ifinfo[out].real_bits = bits(k),
                                      !.ifinfo[out].real_packet_count = Cardinality(bits(k))]
           known == DOMAIN old # {}
           neighs == [k \in DOMAIN old |-> moved(k)]
           P == oi.protected \/ (known /\ OutOfWindow(diff))
           Q == IF known /\ WindowMoves(diff) THEN ogm.seqno ELSE oi.last_real_seqno
           new == [on EXCEPT !.neigh = neighs, !.ifinfo[out].protected = P, !.ifinfo[out].last_real_seqno = Q]
           t == batadv_iv_ogm_update_seqnos(s, j, src, ogm, out).s
<1>1. t = [s EXCEPT !.orig[o] = on] \/ t = [s EXCEPT !.orig[o] = new]
  <2> DEFINE dups == {k \in DOMAIN old :
                 batadv_test_bit(old[k].ifinfo[out].real_bits, oi.last_real_seqno, ogm.seqno)}
             u1 == [s |-> [s EXCEPT !.orig[o] = on], dup |-> "PROTECTED"]
             u2 == [s |-> [s EXCEPT !.orig[o] = new],
                    dup |-> IF <<src, j>> \in dups THEN "NEIGH_DUP"
                            ELSE IF dups # {} THEN "ORIG_DUP" ELSE "NO_DUP"]
  <2>1. batadv_iv_ogm_update_seqnos(s, j, src, ogm, out) =
          IF known /\ OutOfWindow(diff) /\ oi.protected THEN u1 ELSE u2
    BY DEF batadv_iv_ogm_update_seqnos
  <2>2. u1.s = [s EXCEPT !.orig[o] = on] /\ u2.s = [s EXCEPT !.orig[o] = new]
    OBVIOUS
  <2> HIDE DEF u1, u2, on, new
  <2> QED BY <2>1, <2>2
<1> HIDE DEF t
<1>2. EntryGood(c, n, o, s.orig[o])
  BY DEF NodeGood
<1>3. /\ EntryGood(c, n, o, on) /\ out \in DOMAIN on.ifinfo
      /\ DOMAIN s.orig[o].ifinfo \subseteq DOMAIN on.ifinfo
  <2>1. EntryGood(c, n, o, on) /\ out \in DOMAIN on.ifinfo
    BY <1>2, OrigIfinfoNew
  <2>2. DOMAIN s.orig[o].ifinfo \subseteq DOMAIN on.ifinfo
    <3> DEFINE old1 == s.orig[o]
    <3> HIDE DEF old1
    <3>1. DOMAIN old1 = {"neigh", "ifinfo", "age"} =>
            DOMAIN old1.ifinfo \subseteq DOMAIN batadv_orig_ifinfo_new(old1, out).ifinfo
      BY DEF batadv_orig_ifinfo_new, With
    <3> QED BY <1>2, <3>1 DEF old1, EntryGood
  <2> QED BY <2>1, <2>2
<1> HIDE DEF on
<1>4. \A k \in DOMAIN on.neigh : NeighGood(c, o, k, old[k]) /\ out \in DOMAIN old[k].ifinfo
  BY <1>3, NeighIfinfoNew DEF EntryGood
<1>5. DOMAIN old = DOMAIN on.neigh
  OBVIOUS
<1> HIDE DEF old
<1>6. ASSUME NEW k \in DOMAIN on.neigh PROVE NeighGood(c, o, k, moved(k))
  <2>1. old[k].ifinfo[out].real_bits \in SUBSET Window
    BY <1>4 DEF NeighGood, Rating
  <2>2. bits(k) \in SUBSET Window
    BY <2>1, BitsInWindow
  <2> HIDE DEF bits
  <2> QED BY <1>4, <2>2, BitsOfNeigh
<1>7. \A k \in DOMAIN neighs : NeighGood(c, o, k, neighs[k])
  BY <1>5, <1>6
<1> HIDE DEF neighs, P, Q
<1> DEFINE on1 == [on EXCEPT !.neigh = neighs]
           oi1 == [oi EXCEPT !.protected = P, !.last_real_seqno = Q]
<1>8. EntryGood(c, n, o, on1) /\ on1.ifinfo = on.ifinfo
  BY <1>3, <1>7, PutNeighs
<1>9. new = [on1 EXCEPT !.ifinfo[out] = oi1]
  BY <1>3 DEF EntryGood
<1>10. DOMAIN oi1 = DOMAIN oi /\ oi1.bcast_own = oi.bcast_own /\ oi1.bcast_own_sum = oi.bcast_own_sum
  <2>1. IfinfoGood(c, o, out, oi)
    BY <1>3 DEF EntryGood
  <2> HIDE DEF oi
  <2> QED BY <2>1 DEF IfinfoGood
<1> HIDE DEF on1, oi1, new
<1>11. EntryGood(c, n, o, new) /\ DOMAIN new.ifinfo = DOMAIN on.ifinfo
  BY <1>3, <1>8, <1>9, <1>10, OtherFields
<1>12. ASSUME NEW e, EntryGood(c, n, o, e), DOMAIN e.ifinfo = DOMAIN on.ifinfo, t = [s EXCEPT !.orig[o] = e]
       PROVE  /\ NodeGood(c, n, t) /\ DOMAIN t.orig = DOMAIN s.orig /\ Grown(s, t)
              /\ out \in DOMAIN t.orig[o].ifinfo
  <2> HIDE DEF o
  <2>1. o \in DOMAIN s.orig
    BY DEF o
  <2>2. /\ NodeGood(c, n, t) /\ DOMAIN t.orig = DOMAIN s.orig /\ Grown(s, t) /\ t.orig[o] = e
    BY <1>3, <1>12, <2>1, PutEntry
  <2> QED BY <1>3, <1>12, <2>2
<1>13. CASE t = [s EXCEPT !.orig[o] = on]
  BY <1>3, <1>12, <1>13 DEF t
<1>14. CASE t = [s EXCEPT !.orig[o] = new]
  BY <1>11, <1>12, <1>14 DEF t
<1> QED BY <1>1, <1>13, <1>14 DEF t

LEMMA WeightFits ==
  ASSUME NEW bits \in SUBSET Window
  PROVE  Cardinality(bits) \in 0..TQ_LOCAL_WINDOW_SIZE
<1> DEFINE W == TQ_LOCAL_WINDOW_SIZE
<1>1. W \in Nat \ {0}
  BY IvConstants
<1> HIDE DEF W
<1>2. IsFiniteSet(0..(W - 1)) /\ Cardinality(0..(W - 1)) = W
  BY <1>1, FS_Interval
<1>3. bits \subseteq 0..(W - 1)
  BY DEF Window, W
<1>4. IsFiniteSet(bits) /\ Cardinality(bits) <= W
  BY <1>2, <1>3, FS_Subset
<1>5. Cardinality(bits) \in Nat
  BY <1>4, FS_CardinalityType
<1> QED BY <1>1, <1>4, <1>5 DEF W

LEMMA OwnSumType ==
  ASSUME NEW c, NEW n, NEW s, NodeGood(c, n, s), NEW o, NEW i
  PROVE  batadv_iv_orig_ifinfo_sum(s, o, i) \in Nat
<1>1. CASE o \in DOMAIN s.orig /\ i \in DOMAIN s.orig[o].ifinfo
  <2> DEFINE oi == s.orig[o].ifinfo[i]
  <2>1. IfinfoGood(c, o, i, oi)
    BY <1>1 DEF NodeGood, EntryGood
  <2> HIDE DEF oi
  <2>2. oi.bcast_own_sum \in Nat
    <3>1. oi.bcast_own_sum \in 0..TQ_LOCAL_WINDOW_SIZE
      BY <2>1, WeightFits DEF IfinfoGood
    <3> QED BY <3>1, IvConstants
  <2> QED BY <1>1, <2>2 DEF batadv_iv_orig_ifinfo_sum, oi
<1>2. CASE ~(o \in DOMAIN s.orig /\ i \in DOMAIN s.orig[o].ifinfo)
  BY <1>2 DEF batadv_iv_orig_ifinfo_sum
<1> QED BY <1>1, <1>2

LEMMA CalcTqFits ==
  ASSUME NEW c, NEW n, NEW s, NodeGood(c, n, s), NEW j, NEW src \in DOMAIN s.orig,
         NEW ogm, ogm.orig \in DOMAIN s.orig, ogm.tq \in Tq, NEW out
  PROVE  LET r == batadv_iv_ogm_calc_tq(s, j, src, ogm, out)
         IN  /\ NodeGood(c, n, r.s) /\ DOMAIN r.s.orig = DOMAIN s.orig /\ Grown(s, r.s)
             /\ r.tq \in 0..ogm.tq
<1> DEFINE k == <<src, j>>
           created == batadv_iv_ogm_neigh_new(s.orig[src], k)
           neigh == batadv_neigh_ifinfo_new(created.neigh[k], out)
           young == IF ogm.orig = src THEN [neigh EXCEPT !.age = 0] ELSE neigh
           neighs == [created.neigh EXCEPT ![k] = young]
           on == [created EXCEPT !.neigh = neighs]
           s1 == [s EXCEPT !.orig[src] = on]
           heardof == [s1.orig[ogm.orig] EXCEPT !.age = 0]
           t == [s1 EXCEPT !.orig[ogm.orig] = heardof]
           received == on.neigh[k].ifinfo[out].real_packet_count
           r == batadv_iv_ogm_calc_tq(s, j, src, ogm, out)
<1>1. /\ EntryGood(c, n, src, created) /\ k \in DOMAIN created.neigh
      /\ created.ifinfo = s.orig[src].ifinfo
  BY NeighNew DEF NodeGood
<1>2. r.s = t /\ r.tq = LinkTq(batadv_iv_orig_ifinfo_sum(s, src, j), received, ogm.tq)
  <2> HIDE DEF created
  <2>2. r = LET s2 == [s EXCEPT !.orig[src] = on]
            IN [s |-> [s2 EXCEPT !.orig[ogm.orig].age = 0],
                tq |-> LinkTq(batadv_iv_orig_ifinfo_sum(s, src, j),
                              on.neigh[k].ifinfo[out].real_packet_count, ogm.tq)]
    BY DEF batadv_iv_ogm_calc_tq, created
  <2> HIDE DEF on, r
  <2>3. [s1 EXCEPT !.orig[ogm.orig].age = 0] = t
    OBVIOUS
  <2> HIDE DEF t
  <2> QED BY <2>2, <2>3
<1> HIDE DEF created, r
<1>3. NeighGood(c, src, k, neigh) /\ out \in DOMAIN neigh.ifinfo
  BY <1>1, NeighIfinfoNew DEF EntryGood
<1> HIDE DEF neigh
<1>4. NeighGood(c, src, k, young) /\ young.ifinfo = neigh.ifinfo
  BY <1>3, AgeOfNeigh
<1> HIDE DEF young, k
<1>5. DOMAIN neighs = DOMAIN created.neigh /\ neighs[k] = young
      /\ \A l \in DOMAIN neighs : NeighGood(c, src, l, neighs[l])
  BY <1>1, <1>4 DEF EntryGood
<1> HIDE DEF neighs
<1>6. EntryGood(c, n, src, on) /\ on.ifinfo = created.ifinfo /\ on.neigh = neighs
  BY <1>1, <1>5, PutNeighs
<1> HIDE DEF on
<1>7. NodeGood(c, n, s1) /\ DOMAIN s1.orig = DOMAIN s.orig /\ Grown(s, s1)
  BY <1>1, <1>6, PutEntry
<1> HIDE DEF s1
<1>8. NodeGood(c, n, t) /\ DOMAIN t.orig = DOMAIN s.orig /\ Grown(s, t)
  <2>1. EntryGood(c, n, ogm.orig, s1.orig[ogm.orig])
    BY <1>7 DEF NodeGood
  <2>2. EntryGood(c, n, ogm.orig, heardof) /\ heardof.ifinfo = s1.orig[ogm.orig].ifinfo
    <3>1. EntryGood(c, n, ogm.orig, heardof)
      BY <2>1, AgeOfEntry
    <3>2. heardof.ifinfo = s1.orig[ogm.orig].ifinfo
      BY <2>1 DEF EntryGood
    <3> QED BY <3>1, <3>2
  <2> HIDE DEF heardof
  <2>3. NodeGood(c, n, t) /\ DOMAIN t.orig = DOMAIN s1.orig /\ Grown(s1, t)
    BY <1>7, <2>2, PutEntry
  <2> HIDE DEF t
  <2>4. Grown(s, t)
    BY <1>7, <2>3 DEF Grown
  <2> QED BY <1>7, <2>3, <2>4
<1>9. received \in 0..TQ_LOCAL_WINDOW_SIZE
  <2>1. on.neigh[k].ifinfo[out] = neigh.ifinfo[out]
    BY <1>4, <1>5, <1>6
  <2> DEFINE ni == neigh.ifinfo[out]
  <2>2. Rating(c, Owner[k[1]], src, ni)
    BY <1>3 DEF NeighGood
  <2> HIDE DEF ni
  <2>3. ni.real_packet_count \in 0..TQ_LOCAL_WINDOW_SIZE
    BY <2>2, WeightFits DEF Rating
  <2> QED BY <2>1, <2>3 DEF ni
<1> HIDE DEF received, t
<1>10. r.tq \in 0..ogm.tq
  BY <1>2, <1>9, OwnSumType, LinkTqFits
<1> QED BY <1>2, <1>8, <1>10 DEF r

LEMMA OrigUpdateFits ==
  ASSUME NEW c, NEW n, NEW s, NodeGood(c, n, s), NEW j, NEW src, NEW ogm, ogm.orig \in DOMAIN s.orig,
         NEW out \in DOMAIN s.orig[ogm.orig].ifinfo, TqFits(c, Owner[src], ogm.orig, ogm.tq), NEW dup
  PROVE  LET t == batadv_iv_ogm_orig_update(s, j, src, ogm, out, dup)
         IN  NodeGood(c, n, t) /\ DOMAIN t.orig = DOMAIN s.orig /\ Grown(s, t)
<1> DEFINE o == ogm.orig
           k == <<src, j>>
           on == s.orig[o]
           miss(l) == IF l # k /\ dup = "NO_DUP" /\ out \in DOMAIN on.neigh[l].ifinfo
                      THEN Ranked(on.neigh[l], out, 0) ELSE on.neigh[l]
           missed == [l \in DOMAIN on.neigh |-> miss(l)]
           on1 == [on EXCEPT !.neigh = missed]
           created == batadv_iv_ogm_neigh_new(on1, k)
           neigh == batadv_neigh_ifinfo_new(created.neigh[k], out)
           young == [Ranked(neigh, out, ogm.tq) EXCEPT !.age = 0]
           neighs == [created.neigh EXCEPT ![k] = young]
           on2 == [created EXCEPT !.neigh = neighs]
           oi == created.ifinfo[out]
           ttl == IF dup = "NO_DUP" THEN ogm.ttl ELSE oi.last_ttl
           oi1 == [oi EXCEPT !.last_ttl = ttl]
           ranked == [on2 EXCEPT !.ifinfo[out] = oi1]
           t == batadv_iv_ogm_orig_update(s, j, src, ogm, out, dup)
<1>1. EntryGood(c, n, o, on) /\ o \in DOMAIN s.orig
  BY DEF NodeGood
<1>2. \A l \in DOMAIN missed : NeighGood(c, o, l, missed[l])
  <2>1. ASSUME NEW l \in DOMAIN on.neigh PROVE NeighGood(c, o, l, miss(l))
    <3> DEFINE ne == on.neigh[l]
    <3>1. NeighGood(c, o, l, ne)
      BY <1>1 DEF EntryGood
    <3>2. TqFits(c, Owner[l[1]], o, 0)
      BY ZeroFits
    <3> HIDE DEF ne
    <3>3. out \in DOMAIN ne.ifinfo => NeighGood(c, o, l, Ranked(ne, out, 0))
      BY <3>1, <3>2, RankedFits
    <3> QED BY <3>1, <3>3 DEF ne
  <2> HIDE DEF miss
  <2> QED BY <2>1
<1> HIDE DEF missed
<1>3. EntryGood(c, n, o, on1) /\ on1.ifinfo = on.ifinfo
  BY <1>1, <1>2, PutNeighs
<1> HIDE DEF on1
<1>4. EntryGood(c, n, o, created) /\ k \in DOMAIN created.neigh /\ created.ifinfo = on.ifinfo
  BY <1>3, NeighNew
<1> HIDE DEF created
<1>5. NeighGood(c, o, k, neigh) /\ out \in DOMAIN neigh.ifinfo
  BY <1>4, NeighIfinfoNew DEF EntryGood
<1> HIDE DEF neigh
<1>6. NeighGood(c, o, k, Ranked(neigh, out, ogm.tq))
  <2>1. k[1] = src
    OBVIOUS
  <2> QED BY <1>5, <2>1, RankedFits
<1>7. NeighGood(c, o, k, young)
  BY <1>6, AgeOfNeigh
<1> HIDE DEF young, k
<1>8. \A l \in DOMAIN neighs : NeighGood(c, o, l, neighs[l])
  BY <1>4, <1>7 DEF EntryGood
<1> HIDE DEF neighs
<1>9. EntryGood(c, n, o, on2) /\ on2.ifinfo = created.ifinfo
  BY <1>4, <1>8, PutNeighs
<1>10. IfinfoGood(c, o, out, oi)
  BY <1>4 DEF EntryGood
<1>11. DOMAIN oi1 = DOMAIN oi /\ oi1.bcast_own = oi.bcast_own /\ oi1.bcast_own_sum = oi.bcast_own_sum
  <2> HIDE DEF oi, ttl
  <2> QED BY <1>10 DEF IfinfoGood
<1> DEFINE old == [created EXCEPT !.neigh[k] = young, !.ifinfo[out].last_ttl = ttl]
<1>12. old = ranked
  BY <1>4 DEF EntryGood, neighs
<1> HIDE DEF on2, oi1
<1>13. EntryGood(c, n, o, ranked) /\ DOMAIN ranked.ifinfo = DOMAIN on.ifinfo
  <2>1. oi = on2.ifinfo[out] /\ out \in DOMAIN on2.ifinfo
    BY <1>4, <1>9
  <2> HIDE DEF oi, on, o
  <2>2. EntryGood(c, n, o, ranked) /\ DOMAIN ranked.ifinfo = DOMAIN on2.ifinfo
    BY <1>9, <1>11, <2>1, OtherFields
  <2> HIDE DEF ranked
  <2> QED BY <1>4, <1>9, <2>2
<1> HIDE DEF ranked, old
<1>14. ASSUME NEW R PROVE LET e == [ranked EXCEPT !.ifinfo[out].router = R]
                          IN  EntryGood(c, n, o, e) /\ DOMAIN e.ifinfo = DOMAIN on.ifinfo
  <2> DEFINE oi2 == [ranked.ifinfo[out] EXCEPT !.router = R]
  <2>1. IfinfoGood(c, o, out, ranked.ifinfo[out])
    BY <1>13 DEF EntryGood
  <2>2. /\ DOMAIN oi2 = DOMAIN ranked.ifinfo[out] /\ oi2.bcast_own = ranked.ifinfo[out].bcast_own
        /\ oi2.bcast_own_sum = ranked.ifinfo[out].bcast_own_sum
    BY <2>1 DEF IfinfoGood
  <2>3. [ranked EXCEPT !.ifinfo[out].router = R] = [ranked EXCEPT !.ifinfo[out] = oi2]
    OBVIOUS
  <2> HIDE DEF oi2
  <2> QED BY <1>13, <2>2, <2>3, OtherFields
<1>15. \E R : t = [s EXCEPT !.orig[o] = [ranked EXCEPT !.ifinfo[out].router = R]]
  <2>1. \E R : t = [s EXCEPT !.orig[o] = [old EXCEPT !.ifinfo[out].router = R]]
    BY DEF batadv_iv_ogm_orig_update, old, young, neigh, created, on1, missed, k
  <2> QED BY <1>12, <2>1
<1> HIDE DEF t
<1>16. PICK R : t = [s EXCEPT !.orig[o] = [ranked EXCEPT !.ifinfo[out].router = R]]
  BY <1>15
<1> DEFINE e == [ranked EXCEPT !.ifinfo[out].router = R]
<1>17. EntryGood(c, n, o, e) /\ DOMAIN e.ifinfo = DOMAIN s.orig[o].ifinfo
  BY <1>14
<1>18. t = [s EXCEPT !.orig[o] = e]
  BY <1>16
<1> HIDE DEF e, o
<1>19. NodeGood(c, n, t) /\ DOMAIN t.orig = DOMAIN s.orig /\ Grown(s, t)
  BY <1>1, <1>17, <1>18, PutEntry
<1> QED BY <1>19 DEF t

-----------------------------------------------------------------------------
(* The queue. *)

LEMMA BagFacts ==
  /\ \A B, C : DOMAIN (B (+) C) = DOMAIN B \cup DOMAIN C
  /\ \A B, C : DOMAIN (B (-) C) \subseteq DOMAIN B
  /\ \A S : DOMAIN SetToBag(S) = S
  /\ DOMAIN EmptyBag = {}
<1>1. \A B, C : DOMAIN (B (+) C) = DOMAIN B \cup DOMAIN C
  BY DEF (+)
<1>2. \A B, C : DOMAIN (B (-) C) \subseteq DOMAIN B
  BY DEF (-)
<1>3. \A S : DOMAIN SetToBag(S) = S
  BY DEF SetToBag
<1>4. DOMAIN EmptyBag = {}
  BY <1>3 DEF EmptyBag
<1> QED BY <1>1, <1>2, <1>3, <1>4

LEMMA PutForw ==
  ASSUME NEW c, NEW n, NEW s, NodeGood(c, n, s), NEW B, \A f \in DOMAIN B : PacketGood(c, n, f)
  PROVE  LET t == [s EXCEPT !.forw = B]
         IN  NodeGood(c, n, t) /\ t.orig = s.orig /\ Grown(s, t)
<1> DEFINE t == [s EXCEPT !.forw = B]
<1>1. DOMAIN t = {"orig", "forw"} /\ t.orig = s.orig /\ t.forw = B
  BY DEF NodeGood
<1> HIDE DEF t
<1>2. NodeGood(c, n, t)
  BY <1>1 DEF NodeGood, BagToSet
<1>3. Grown(s, t)
  BY <1>1 DEF Grown
<1> QED BY <1>1, <1>2, <1>3 DEF t

\* An OGM joins a packet only if its direct link flag then means the same interface.
LEMMA AggregateFits ==
  ASSUME NEW c, NEW n, NEW f, PacketGood(c, n, f), NEW ogm, OgmGood(c, n, ogm), NEW in, NEW out,
         ogm.direct /\ in = out => EchoGood(c, out, ogm), batadv_iv_ogm_can_aggregate(n, f, ogm, in, out)
  PROVE  PacketGood(c, n, [f EXCEPT !.ogms = Append(@, ogm)])
<1> DEFINE N == Len(f.ogms)
           ogms == Append(f.ogms, ogm)
           new == [f EXCEPT !.ogms = ogms]
<1>1. f.out = out /\ (ogm.direct => f.in = in)
  BY DEF batadv_iv_ogm_can_aggregate
<1>2. f.ogms \in Seq(Ogm) /\ ogm \in Ogm /\ N \in Nat
  BY DEF PacketGood, OgmGood
<1>3. /\ ogms \in Seq(Ogm) /\ DOMAIN ogms = 1..(N + 1) /\ DOMAIN f.ogms = 1..N
      /\ \A x \in 1..(N + 1) : ogms[x] = IF x = N + 1 THEN ogm ELSE f.ogms[x]
  BY <1>2
<1> HIDE DEF ogms, N
<1>4. DOMAIN new = {"own", "in", "out", "ogms"} /\ new.in = f.in /\ new.out = f.out /\ new.ogms = ogms
  BY DEF PacketGood
<1>5. ASSUME NEW x \in DOMAIN ogms
      PROVE  OgmGood(c, n, ogms[x]) /\ (ogms[x].direct /\ f.in = f.out => EchoGood(c, f.out, ogms[x]))
  <2>1. CASE x = N + 1
    BY <1>1, <1>3, <2>1
  <2>2. CASE x # N + 1
    <3>1. x \in DOMAIN f.ogms
      BY <1>2, <1>3, <2>2
    <3>2. ogms[x] = f.ogms[x]
      BY <1>3, <2>2
    <3> QED BY <3>1, <3>2 DEF PacketGood
  <2> QED BY <2>1, <2>2
<1>6. f.in \in OwnIfaces(c, n) /\ f.out \in OwnIfaces(c, n)
  BY DEF PacketGood
<1> HIDE DEF new
<1>7. PacketGood(c, n, new)
  BY <1>3, <1>4, <1>5, <1>6 DEF PacketGood
<1> QED BY <1>7 DEF new, ogms

LEMMA QueueAddFits ==
  ASSUME NEW c, NEW n, NEW s, NodeGood(c, n, s), NEW ogm, OgmGood(c, n, ogm),
         NEW in \in OwnIfaces(c, n), NEW out \in OwnIfaces(c, n),
         ogm.direct /\ in = out => EchoGood(c, out, ogm), NEW own, NEW join
  PROVE  LET t == batadv_iv_ogm_queue_add(s, n, ogm, in, out, own, join)
         IN  NodeGood(c, n, t) /\ t.orig = s.orig /\ Grown(s, t)
<1> DEFINE fit == {f \in BagToSet(s.forw) : batadv_iv_ogm_can_aggregate(n, f, ogm, in, out)}
           f == CHOOSE x \in fit : TRUE
           longer == [f EXCEPT !.ogms = Append(@, ogm)]
           alone == [own |-> own, in |-> in, out |-> out, ogms |-> <<ogm>>]
           cut == s.forw (-) SetToBag({f})
           one == SetToBag({longer})
           two == SetToBag({alone})
           B1 == cut (+) one
           B2 == s.forw (+) two
           t == batadv_iv_ogm_queue_add(s, n, ogm, in, out, own, join)
<1>1. t = IF join /\ ~own /\ fit # {} THEN [s EXCEPT !.forw = B1] ELSE [s EXCEPT !.forw = B2]
  BY DEF batadv_iv_ogm_queue_add
<1> HIDE DEF t
<1>2. \A g \in DOMAIN s.forw : PacketGood(c, n, g)
  BY DEF NodeGood, BagToSet
<1>3. fit # {} => PacketGood(c, n, f) /\ batadv_iv_ogm_can_aggregate(n, f, ogm, in, out)
  <2> SUFFICES ASSUME fit # {} PROVE PacketGood(c, n, f) /\ batadv_iv_ogm_can_aggregate(n, f, ogm, in, out)
    OBVIOUS
  <2>1. f \in fit
    OBVIOUS
  <2> QED BY <1>2, <2>1 DEF BagToSet
<1>4. PacketGood(c, n, alone)
  <2> DEFINE seq == <<ogm>>
  <2>1. seq \in Seq(Ogm) /\ DOMAIN seq = {1} /\ seq[1] = ogm
    BY DEF OgmGood
  <2> HIDE DEF seq
  <2>2. DOMAIN alone = {"own", "in", "out", "ogms"} /\ alone.in = in /\ alone.out = out /\ alone.ogms = seq
    BY DEF seq
  <2> HIDE DEF alone
  <2> QED BY <2>1, <2>2 DEF PacketGood
<1> HIDE DEF fit, f, alone
<1>5. fit # {} => PacketGood(c, n, longer)
  BY <1>3, AggregateFits
<1> HIDE DEF longer
<1>6. DOMAIN cut \subseteq DOMAIN s.forw /\ DOMAIN one = {longer} /\ DOMAIN two = {alone}
  <2>1. DOMAIN cut \subseteq DOMAIN s.forw
    BY BagFacts
  <2>2. DOMAIN one = {longer}
    BY BagFacts
  <2>3. DOMAIN two = {alone}
    BY BagFacts
  <2> QED BY <2>1, <2>2, <2>3
<1> HIDE DEF cut, one, two
<1>7. DOMAIN B1 = DOMAIN cut \cup DOMAIN one /\ DOMAIN B2 = DOMAIN s.forw \cup DOMAIN two
  <2>1. DOMAIN B1 = DOMAIN cut \cup DOMAIN one
    BY BagFacts
  <2>2. DOMAIN B2 = DOMAIN s.forw \cup DOMAIN two
    BY BagFacts
  <2> QED BY <2>1, <2>2
<1> HIDE DEF B1, B2
<1>8. fit # {} => \A g \in DOMAIN B1 : PacketGood(c, n, g)
  BY <1>2, <1>5, <1>6, <1>7
<1>9. \A g \in DOMAIN B2 : PacketGood(c, n, g)
  BY <1>2, <1>4, <1>6, <1>7
<1>10. fit # {} => LET u == [s EXCEPT !.forw = B1] IN NodeGood(c, n, u) /\ u.orig = s.orig /\ Grown(s, u)
  BY <1>8, PutForw
<1>11. LET u == [s EXCEPT !.forw = B2] IN NodeGood(c, n, u) /\ u.orig = s.orig /\ Grown(s, u)
  BY <1>9, PutForw
<1>12. NodeGood(c, n, t) /\ t.orig = s.orig /\ Grown(s, t)
  <2>1. CASE t = [s EXCEPT !.forw = B1] /\ fit # {}
    BY <1>10, <2>1
  <2>2. CASE t = [s EXCEPT !.forw = B2]
    BY <1>11, <2>2
  <2> QED BY <1>1, <2>1, <2>2
<1> QED BY <1>12 DEF t

-----------------------------------------------------------------------------
(* Handling an OGM that interface j of node n hears from interface src. *)

Heard(c, n, j, src, ogm) ==
  /\ j \in OwnIfaces(c, n) /\ src \in Iface /\ <<src, j>> \in c.link
  /\ OgmGood(c, Owner[src], ogm)
  /\ ogm.direct => EchoGood(c, src, ogm)
  /\ src = ogm.orig => EchoGood(c, j, ogm)

LEMMA ForwardFits ==
  ASSUME NEW c, NEW n, NEW s, NodeGood(c, n, s), NEW j \in OwnIfaces(c, n), NEW src \in Iface,
         <<src, j>> \in c.link, NEW ogm \in Ogm, NEW top, TqFits(c, Owner[src], ogm.orig, top), ogm.tq \in 0..top,
         src = ogm.orig => EchoGood(c, j, ogm), NEW best \in BOOLEAN, NEW out \in OwnIfaces(c, n), NEW join
  PROVE  LET t == batadv_iv_ogm_forward(s, j, src, ogm, src = ogm.orig, best, out, join)
         IN  NodeGood(c, n, t) /\ t.orig = s.orig /\ Grown(s, t)
<1> DEFINE single == src = ogm.orig
           tq == batadv_hop_penalty(ogm.tq)
           ttl == ogm.ttl - 1
           not_best == ogm.not_best \/ ~best
           new == [ogm EXCEPT !.ttl = ttl, !.prev_sender = src, !.tq = tq,
                              !.direct = single, !.not_best = not_best]
           t == batadv_iv_ogm_forward(s, j, src, ogm, single, best, out, join)
           added == batadv_iv_ogm_queue_add(s, n, new, j, out, FALSE, join)
<1>1. Owner[j] = n
  BY DEF OwnIfaces
<1>2. t = s \/ t = added
  BY <1>1 DEF batadv_iv_ogm_forward
<1> HIDE DEF t, tq
<1>3. TqFits(c, n, ogm.orig, tq)
  BY <1>1, OverLinkFits DEF tq
<1>4. new \in Ogm /\ new.orig = ogm.orig /\ new.seqno = ogm.seqno /\ new.tq = tq /\ new.direct = single
  <2>1. ttl \in Int
    BY DEF Ogm
  <2>2. not_best \in BOOLEAN /\ single \in BOOLEAN
    OBVIOUS
  <2>3. tq \in Tq
    BY <1>3 DEF TqFits
  <2> HIDE DEF ttl, not_best, single
  <2>4. new \in Ogm
    BY <2>1, <2>2, <2>3 DEF Ogm
  <2> QED BY <2>4 DEF Ogm
<1> HIDE DEF new
<1>5. OgmGood(c, n, new)
  BY <1>3, <1>4 DEF OgmGood
<1>6. new.direct /\ j = out => EchoGood(c, out, new)
  BY <1>4 DEF EchoGood
<1> HIDE DEF added
<1>7. NodeGood(c, n, added) /\ added.orig = s.orig /\ Grown(s, added)
  BY <1>5, <1>6, QueueAddFits DEF added
<1>8. Grown(s, s)
  BY DEF Grown
<1>9. NodeGood(c, n, t) /\ t.orig = s.orig /\ Grown(s, t)
  BY <1>2, <1>7, <1>8
<1> QED BY <1>9 DEF t

LEMMA RankFits ==
  ASSUME NEW c, NEW n, NEW s, NodeGood(c, n, s), NEW j, NEW src, NEW ogm, Heard(c, n, j, src, ogm),
         src \in DOMAIN s.orig, ogm.orig \in DOMAIN s.orig, NEW out \in {DEFAULT} \cup OwnIfaces(c, n),
         out \in DOMAIN s.orig[ogm.orig].ifinfo, NEW dup, NEW best \in BOOLEAN, NEW join
  PROVE  LET t == RankAndForward(s, j, src, ogm, out, dup, best, join)
         IN  NodeGood(c, n, t) /\ Grown(s, t)
<1> DEFINE single == src = ogm.orig
           r == batadv_iv_ogm_calc_tq(s, j, src, ogm, out)
           new == [ogm EXCEPT !.tq = r.tq]
           ranked == batadv_iv_ogm_orig_update(r.s, j, src, new, out, dup)
           t == RankAndForward(s, j, src, ogm, out, dup, best, join)
           sent(s1) == batadv_iv_ogm_forward(s1, j, src, new, single, best, out, join)
<1>1. \E s1 \in {r.s, ranked} : t = s1 \/ (out # DEFAULT /\ t = sent(s1))
  BY DEF RankAndForward
<1> HIDE DEF t
<1>2. ogm \in Ogm /\ TqFits(c, Owner[src], ogm.orig, ogm.tq) /\ ogm.tq \in Tq
  BY DEF Heard, OgmGood, TqFits
<1>3. /\ NodeGood(c, n, r.s) /\ DOMAIN r.s.orig = DOMAIN s.orig /\ Grown(s, r.s)
      /\ r.tq \in 0..ogm.tq
  BY <1>2, CalcTqFits
<1> HIDE DEF r
<1>4. /\ new \in Ogm /\ new.orig = ogm.orig /\ new.seqno = ogm.seqno /\ new.tq = r.tq
      /\ TqFits(c, Owner[src], ogm.orig, new.tq)
  <2>1. TqFits(c, Owner[src], ogm.orig, r.tq) /\ r.tq \in Tq
    <3>1. TqFits(c, Owner[src], ogm.orig, r.tq)
      BY <1>2, <1>3, LessFits
    <3> QED BY <3>1 DEF TqFits
  <2> QED BY <1>2, <2>1 DEF Ogm
<1> HIDE DEF new
<1>5. NodeGood(c, n, ranked) /\ Grown(s, ranked)
  <2>1. out \in DOMAIN r.s.orig[ogm.orig].ifinfo
    BY <1>3 DEF Grown
  <2>2. NodeGood(c, n, ranked) /\ Grown(r.s, ranked)
    BY <1>3, <1>4, <2>1, OrigUpdateFits
  <2> HIDE DEF ranked
  <2> QED BY <1>3, <2>2 DEF Grown
<1> HIDE DEF ranked
<1>6. PICK s1 \in {r.s, ranked} : t = s1 \/ (out # DEFAULT /\ t = sent(s1))
  BY <1>1
<1>7. NodeGood(c, n, s1) /\ Grown(s, s1)
  BY <1>3, <1>5
<1>8. ASSUME out # DEFAULT, t = sent(s1) PROVE NodeGood(c, n, t) /\ Grown(s, t)
  <2>1. out \in OwnIfaces(c, n) /\ j \in OwnIfaces(c, n) /\ src \in Iface /\ <<src, j>> \in c.link
    BY <1>8 DEF Heard
  <2>2. src = new.orig => EchoGood(c, j, new)
    BY <1>4 DEF Heard, EchoGood
  <2>3. single = (src = new.orig) /\ new.tq \in 0..ogm.tq
    BY <1>3, <1>4
  <2> DEFINE u == batadv_iv_ogm_forward(s1, j, src, new, src = new.orig, best, out, join)
  <2>4. sent(s1) = u
    BY <2>3
  <2> HIDE DEF sent, single
  <2>7. TqFits(c, Owner[src], new.orig, ogm.tq) /\ new \in Ogm
    BY <1>2, <1>4
  <2>8. NodeGood(c, n, u) /\ Grown(s1, u)
    BY <1>7, <2>1, <2>2, <2>3, <2>7, ForwardFits
  <2> HIDE DEF u
  <2>5. NodeGood(c, n, u) /\ Grown(s1, u) /\ t = u
    BY <1>8, <2>4, <2>8
  <2>6. NodeGood(c, n, t) /\ Grown(s1, t)
    BY <2>5
  <2> QED BY <1>7, <2>6 DEF Grown
<1>9. NodeGood(c, n, t) /\ Grown(s, t)
  <2>1. CASE t = s1
    BY <1>7, <2>1
  <2> HIDE DEF sent
  <2> QED BY <1>6, <1>8, <2>1
<1> QED BY <1>9 DEF t

LEMMA PerOutifFits ==
  ASSUME NEW c, NEW n, NEW s, NodeGood(c, n, s), NEW j, NEW src, NEW ogm, Heard(c, n, j, src, ogm),
         ogm.orig \in DOMAIN s.orig, NEW out \in {DEFAULT} \cup OwnIfaces(c, n), NEW join
  PROVE  LET t == batadv_iv_ogm_process_per_outif(s, j, src, ogm, out, join)
         IN  NodeGood(c, n, t) /\ Grown(s, t)
<1> DEFINE u == batadv_iv_ogm_update_seqnos(s, j, src, ogm, out)
           router == batadv_orig_router_get(u.s, ogm.orig, out)
           best == /\ router # NoRouter /\ router[1] = src
                   /\ batadv_iv_ogm_neigh_get_tq_avg(u.s.orig[ogm.orig], router, out) # 0
           s1 == batadv_iv_ogm_orig_get(u.s, src)
           ranked == RankAndForward(s1, j, src, ogm, out, u.dup, best, join)
           t == batadv_iv_ogm_process_per_outif(s, j, src, ogm, out, join)
<1>1. t \in {u.s, s1, ranked}
  BY DEF batadv_iv_ogm_process_per_outif
<1> HIDE DEF t
<1>2. best \in BOOLEAN
  OBVIOUS
<1>3. /\ NodeGood(c, n, u.s) /\ DOMAIN u.s.orig = DOMAIN s.orig /\ Grown(s, u.s)
      /\ out \in DOMAIN u.s.orig[ogm.orig].ifinfo
  BY UpdateSeqnosFits
<1> HIDE DEF u, best
<1>4. NodeGood(c, n, s1) /\ src \in DOMAIN s1.orig /\ Grown(u.s, s1)
  BY <1>3, OrigGet DEF Heard
<1> HIDE DEF s1
<1>5. ogm.orig \in DOMAIN s1.orig /\ out \in DOMAIN s1.orig[ogm.orig].ifinfo /\ Grown(s, s1)
  BY <1>3, <1>4 DEF Grown
<1>6. NodeGood(c, n, ranked) /\ Grown(s1, ranked)
  BY <1>2, <1>4, <1>5, RankFits
<1> HIDE DEF ranked
<1>7. Grown(s, ranked)
  BY <1>5, <1>6 DEF Grown
<1>8. NodeGood(c, n, t) /\ Grown(s, t)
  BY <1>1, <1>3, <1>4, <1>5, <1>6, <1>7
<1> QED BY <1>8 DEF t

\* A node that handles what interface j has heard.
Now(c, j) == c.active = ActiveIfaces /\ c.seqno[j] = ogm_seqno[j] /\ ogm_seqno[j] \in SeqNo

LEMMA ReplyFits ==
  ASSUME NEW c, NEW n, NEW s, NodeGood(c, n, s), NEW j, NEW src \in DOMAIN s.orig, NEW ogm,
         Heard(c, n, j, src, ogm), Now(c, j)
  PROVE  NodeGood(c, n, batadv_iv_ogm_process_reply(s, j, src, ogm, ogm_seqno[j]))
<1> DEFINE seqno == ogm_seqno[j]
           pos == SeqDiff(Seq32(seqno - 2), ogm.seqno)
           on == s.orig[src]
           oi == on.ifinfo[j]
           own == oi.bcast_own \cup ({pos} \cap Window)
           sum == Cardinality(own)
           new == [oi EXCEPT !.bcast_own = own, !.bcast_own_sum = sum]
           ifs == [on.ifinfo EXCEPT ![j] = new]
           on1 == [on EXCEPT !.ifinfo = ifs]
           t == batadv_iv_ogm_process_reply(s, j, src, ogm, seqno)
<1>1. CASE ~ogm.direct \/ j # ogm.orig \/ j \notin DOMAIN s.orig[src].ifinfo
  BY <1>1 DEF batadv_iv_ogm_process_reply
<1>2. CASE ogm.direct /\ j = ogm.orig /\ j \in DOMAIN s.orig[src].ifinfo
  <2>1. EntryGood(c, n, src, on)
    BY DEF NodeGood
  <2>2. IfinfoGood(c, src, j, oi)
    BY <1>2, <2>1 DEF EntryGood
  <2>3. [s EXCEPT !.orig[src] = on1] = t
    <3>1. t = [s EXCEPT !.orig[src].ifinfo[j] = new]
      BY <1>2 DEF batadv_iv_ogm_process_reply
    <3> HIDE DEF t, new
    <3> QED BY <3>1
  <2>4. ASSUME pos \in Window PROVE <<src, j, Seq32(c.seqno[j] - 2 - pos)>> \in c.heard
    <3>1. seqno \in SeqNo /\ ogm.seqno \in SeqNo /\ c.seqno[j] = seqno
      BY DEF Now, Heard, OgmGood, Ogm
    <3>2. Seq32(seqno - 2 - pos) = ogm.seqno /\ Seq32(seqno - ogm.seqno) \in 1..(TQ_LOCAL_WINDOW_SIZE + 1)
      <4> HIDE DEF seqno
      <4> QED BY <2>4, <3>1, PlaceOfEcho
    <3>3. Recent(c, ogm.orig, ogm.seqno)
      BY <1>2, <3>1, <3>2 DEF Recent
    <3> QED BY <1>2, <3>1, <3>2, <3>3 DEF Heard, EchoGood
  <2> HIDE DEF pos, t
  <2>5. IfinfoGood(c, src, j, new)
    <3>1. /\ DOMAIN new = {"last_real_seqno", "protected", "last_ttl", "bcast_own", "bcast_own_sum", "router"}
          /\ new.bcast_own = own /\ new.bcast_own_sum = sum
      <4> HIDE DEF own, sum, oi
      <4> QED BY <2>2 DEF IfinfoGood
    <3>2. own \in SUBSET Window
      BY <2>2 DEF IfinfoGood
    <3>3. j # DEFAULT => \A p \in own : <<src, j, Seq32(c.seqno[j] - 2 - p)>> \in c.heard
      <4> HIDE DEF oi
      <4> QED BY <2>2, <2>4 DEF IfinfoGood
    <3> HIDE DEF own, new, oi
    <3> QED BY <3>1, <3>2, <3>3 DEF IfinfoGood
  <2> HIDE DEF new
  <2>6. DOMAIN ifs = DOMAIN on.ifinfo /\ \A i \in DOMAIN ifs : ifs[i] = IF i = j THEN new ELSE on.ifinfo[i]
    BY <1>2
  <2> HIDE DEF ifs
  <2>7. EntryGood(c, n, src, on1)
    <3>1. \A i \in DOMAIN ifs : IfinfoGood(c, src, i, ifs[i])
      BY <2>1, <2>5, <2>6 DEF EntryGood
    <3>2. DOMAIN ifs \subseteq {DEFAULT} \cup OwnIfaces(c, n)
      BY <2>1, <2>6 DEF EntryGood
    <3> QED BY <2>1, <3>1, <3>2, PutIfinfos
  <2> HIDE DEF on1
  <2>8. NodeGood(c, n, t)
    BY <2>3, <2>7, PutEntry
  <2> QED BY <2>8 DEF t
<1> QED BY <1>1, <1>2

LEMMA OrderOfSet ==
  ASSUME NEW S, IsFiniteSet(S)
  PROVE  SetToSeq(S) \in [1..Cardinality(S) -> S] /\ Cardinality(S) \in Nat
<1>1. Cardinality(S) \in Nat /\ ExistsBijection(1..Cardinality(S), S)
  BY FS_CardinalityType
<1>2. \E f \in [1..Cardinality(S) -> S] : IsInjective(f)
  BY <1>1 DEF ExistsBijection, Bijection, Injection
<1> QED BY <1>1, <1>2 DEF SetToSeq

\* The interfaces of a node are finitely many.
LEMMA ActiveFinite ==
  ASSUME BoundsGood, NEW n
  PROVE  Active(n) \subseteq Iface /\ IsFiniteSet(Active(n)) /\ ActiveIfaces \subseteq Iface
<1>1. left.order \in Seq(Iface)
  BY DEF BoundsGood
<1>2. ToSet(left.order) \subseteq Iface
  BY <1>1 DEF ToSet
<1>3. ActiveIfaces \subseteq Iface /\ Active(n) \subseteq Iface
  BY <1>2 DEF ActiveIfaces, Active
<1> QED BY <1>3, IvConstants, FS_Subset

OnOutifs(s, j, src, ogm, join, outs) ==
  FoldLeft(LAMBDA t, out : batadv_iv_ogm_process_per_outif(t, j, src, ogm, out, join), s, outs)
ByOgms(s, j, src, ogms, join) ==
  FoldLeft(LAMBDA t, ogm : batadv_iv_ogm_process(t, j, src, ogm, join), s, ogms)
OnIfaces(s, src, ogms, join, S) ==
  FoldSet(LAMBDA j, t : batadv_iv_ogm_receive(t, j, src, ogms, join), s, S)

LEMMA OutifsFit ==
  ASSUME BoundsGood, NEW c, NEW n, NEW s, NodeGood(c, n, s), NEW j, NEW src, NEW ogm,
         Heard(c, n, j, src, ogm), Now(c, j), ogm.orig \in DOMAIN s.orig, NEW join
  PROVE  NodeGood(c, n, OnOutifs(s, j, src, ogm, join, <<DEFAULT>> \o SetToSeq(Active(n))))
<1> DEFINE mine == Active(n)
           order == SetToSeq(mine)
           outs == <<DEFAULT>> \o order
           N == Len(outs)
           S == DOMAIN outs
           a == [c |-> c, n |-> n, j |-> j, src |-> src, ogm |-> ogm, outs |-> outs, join |-> join]
           Def(g) == [T \in SUBSET S |->
             IF T = {} THEN s
             ELSE batadv_iv_ogm_process_per_outif(g[T \ {Max(T)}], j, src, ogm, outs[Max(T)], join)]
           iter == CHOOSE g : g = Def(g)
<1>1. OnOutifs(s, j, src, ogm, join, outs) = iter[S]
  <2> HIDE DEF outs
  <2> QED BY DEF OnOutifs, FoldLeft, MapThenFoldSet
<1>2. order \in Seq(mine)
  <2>1. IsFiniteSet(mine)
    BY ActiveFinite
  <2> DEFINE k == Cardinality(mine)
  <2>2. order \in [1..k -> mine] /\ k \in Nat
    <3> HIDE DEF mine
    <3> QED BY <2>1, OrderOfSet
  <2> HIDE DEF order, k, mine
  <2> QED BY <2>2
<1> DEFINE U == {DEFAULT} \cup OwnIfaces(c, n)
<1>3. mine = OwnIfaces(c, n)
  BY DEF Now, Active, OwnIfaces
<1>4. outs \in Seq(U)
  <2> HIDE DEF order
  <2>1. order \in Seq(U)
    <3>1. mine \subseteq U
      BY <1>3
    <3> HIDE DEF mine, U
    <3> QED BY <1>2, <3>1, SeqMonotonic
  <2>2. <<DEFAULT>> \in Seq(U)
    OBVIOUS
  <2> HIDE DEF U
  <2> QED BY <2>1, <2>2
<1> HIDE DEF mine, order, outs
<1>5. N \in Nat /\ S = 1..N /\ \A x \in S : outs[x] \in U
  BY <1>4
<1> HIDE DEF U, N
<1>6. IsFiniteSet(S)
  BY <1>5, FS_Interval
<1>7. \A T \in SUBSET S : T # {} => Last1("outif", T) \in T
  <2> HIDE DEF S
  <2> QED BY <1>5, LastIsElement
<1>8. \A g : Folds(g, "outif", a, s, S) <=> g = Def(g)
  BY DEF Folds, FoldStep, Last1
<1>9. iter = Def(iter)
  <2> HIDE DEF Def, a, S
  <2> QED BY <1>6, <1>7, <1>8, FoldExists
<1>10. Folds(iter, "outif", a, s, S)
  <2> HIDE DEF Def, iter
  <2> QED BY <1>8, <1>9
<1> HIDE DEF iter, S
<1>11. Kept("outif", a, {}, s)
  BY DEF Kept
<1>12. ASSUME NEW T \in SUBSET S, NEW x \in T, NEW r, Kept("outif", a, T \ {x}, r)
       PROVE  Kept("outif", a, T, FoldStep("outif", a, x, r))
  <2> DEFINE t == batadv_iv_ogm_process_per_outif(r, j, src, ogm, outs[x], join)
  <2>1. NodeGood(c, n, r) /\ ogm.orig \in DOMAIN r.orig /\ outs[x] \in U
    BY <1>5, <1>12 DEF Kept
  <2>2. NodeGood(c, n, t) /\ Grown(r, t)
    BY <2>1, PerOutifFits DEF U
  <2>3. FoldStep("outif", a, x, r) = t
    BY DEF FoldStep
  <2> HIDE DEF t
  <2> QED BY <2>1, <2>2, <2>3 DEF Kept, Grown
<1>13. Kept("outif", a, S, iter[S])
  <2> HIDE DEF a
  <2> QED BY <1>6, <1>7, <1>10, <1>11, <1>12, FoldsKeep
<1>14. NodeGood(c, n, iter[S])
  BY <1>13 DEF Kept
<1> QED BY <1>1, <1>14 DEF outs, order, mine

LEMMA ProcessFits ==
  ASSUME BoundsGood, NEW c, NEW n, NEW s, NodeGood(c, n, s), NEW j, NEW src, NEW ogm,
         Heard(c, n, j, src, ogm), Now(c, j), NEW join
  PROVE  NodeGood(c, n, batadv_iv_ogm_process(s, j, src, ogm, join))
<1> DEFINE s1 == batadv_iv_ogm_orig_get(s, src)
           s2 == batadv_iv_ogm_orig_get(s, ogm.orig)
           reply == batadv_iv_ogm_process_reply(s1, j, src, ogm, ogm_seqno[j])
           outs == <<DEFAULT>> \o SetToSeq(Active(n))
           all == OnOutifs(s2, j, src, ogm, join, outs)
           t == batadv_iv_ogm_process(s, j, src, ogm, join)
<1>1. Owner[j] = n /\ src \in Iface /\ ogm.orig \in Iface
  BY DEF Heard, OwnIfaces, OgmGood, Ogm
<1>2. t \in {s, reply, all}
  BY <1>1 DEF batadv_iv_ogm_process, OnOutifs
<1> HIDE DEF t
<1>3. NodeGood(c, n, reply)
  <2>1. NodeGood(c, n, s1) /\ src \in DOMAIN s1.orig
    BY <1>1, OrigGet
  <2> HIDE DEF s1
  <2> QED BY <2>1, ReplyFits
<1>4. NodeGood(c, n, all)
  <2>1. NodeGood(c, n, s2) /\ ogm.orig \in DOMAIN s2.orig
    BY <1>1, OrigGet
  <2> HIDE DEF s2
  <2> QED BY <2>1, OutifsFit
<1> HIDE DEF reply, all
<1>5. NodeGood(c, n, t)
  BY <1>2, <1>3, <1>4
<1> QED BY <1>5 DEF t

LEMMA ReceiveFits ==
  ASSUME BoundsGood, NEW c, NEW n, NEW s, NodeGood(c, n, s), NEW j, NEW src, Now(c, j), NEW join,
         NEW ogms \in Seq(Ogm), \A x \in DOMAIN ogms : Heard(c, n, j, src, ogms[x])
  PROVE  NodeGood(c, n, batadv_iv_ogm_receive(s, j, src, ogms, join))
<1> DEFINE N == Len(ogms)
           S == DOMAIN ogms
           a == [c |-> c, n |-> n, j |-> j, src |-> src, ogms |-> ogms, join |-> join]
           Def(g) == [T \in SUBSET S |->
             IF T = {} THEN s ELSE batadv_iv_ogm_process(g[T \ {Max(T)}], j, src, ogms[Max(T)], join)]
           iter == CHOOSE g : g = Def(g)
<1>1. ByOgms(s, j, src, ogms, join) = iter[S]
  BY DEF ByOgms, FoldLeft, MapThenFoldSet
<1>2. batadv_iv_ogm_receive(s, j, src, ogms, join) = ByOgms(s, j, src, ogms, join)
  BY DEF batadv_iv_ogm_receive, ByOgms
<1>3. N \in Nat /\ S = 1..N
  OBVIOUS
<1> HIDE DEF N
<1>4. IsFiniteSet(S)
  BY <1>3, FS_Interval
<1>5. \A T \in SUBSET S : T # {} => Last1("ogms", T) \in T
  <2> HIDE DEF S
  <2> QED BY <1>3, LastIsElement
<1>6. \A g : Folds(g, "ogms", a, s, S) <=> g = Def(g)
  BY DEF Folds, FoldStep, Last1
<1>7. iter = Def(iter)
  <2> HIDE DEF Def, a, S
  <2> QED BY <1>4, <1>5, <1>6, FoldExists
<1>8. Folds(iter, "ogms", a, s, S)
  <2> HIDE DEF Def, iter
  <2> QED BY <1>6, <1>7
<1>9. \A x \in S : Heard(c, n, j, src, ogms[x])
  OBVIOUS
<1> HIDE DEF iter, S
<1>10. Kept("ogms", a, {}, s)
  BY DEF Kept
<1>11. ASSUME NEW T \in SUBSET S, NEW x \in T, NEW r, Kept("ogms", a, T \ {x}, r)
       PROVE  Kept("ogms", a, T, FoldStep("ogms", a, x, r))
  <2> DEFINE t == batadv_iv_ogm_process(r, j, src, ogms[x], join)
  <2>1. NodeGood(c, n, r) /\ Heard(c, n, j, src, ogms[x])
    BY <1>9, <1>11 DEF Kept
  <2>2. NodeGood(c, n, t)
    BY <2>1, ProcessFits
  <2>3. FoldStep("ogms", a, x, r) = t
    BY DEF FoldStep
  <2> HIDE DEF t
  <2> QED BY <2>2, <2>3 DEF Kept
<1>12. Kept("ogms", a, S, iter[S])
  <2> HIDE DEF a
  <2> QED BY <1>4, <1>5, <1>8, <1>10, <1>11, FoldsKeep
<1>13. NodeGood(c, n, iter[S])
  BY <1>12 DEF Kept
<1> QED BY <1>1, <1>2, <1>13

\* All interfaces of a node that hear a packet, one after the other.
LEMMA IfacesFit ==
  ASSUME BoundsGood, NEW c, NEW n, NEW s, NodeGood(c, n, s), NEW src, NEW join, NEW ogms \in Seq(Ogm),
         NEW S, IsFiniteSet(S),
         \A j \in S : Now(c, j) /\ \A x \in DOMAIN ogms : Heard(c, n, j, src, ogms[x])
  PROVE  NodeGood(c, n, OnIfaces(s, src, ogms, join, S))
<1> DEFINE a == [c |-> c, n |-> n, src |-> src, ogms |-> ogms, join |-> join]
           One(T) == CHOOSE x \in T : TRUE
           Def(g) == [T \in SUBSET S |->
             IF T = {} THEN s ELSE batadv_iv_ogm_receive(g[T \ {One(T)}], One(T), src, ogms, join)]
           iter == CHOOSE g : g = Def(g)
<1>1. OnIfaces(s, src, ogms, join, S) = iter[S]
  BY DEF OnIfaces, FoldSet, MapThenFoldSet
<1>2. \A T \in SUBSET S : T # {} => Last1("ifaces", T) \in T
  BY DEF Last1
<1>3. \A g : Folds(g, "ifaces", a, s, S) <=> g = Def(g)
  BY DEF Folds, FoldStep, Last1
<1>4. iter = Def(iter)
  <2> HIDE DEF Def, a
  <2> QED BY <1>2, <1>3, FoldExists
<1>5. Folds(iter, "ifaces", a, s, S)
  <2> HIDE DEF Def, iter
  <2> QED BY <1>3, <1>4
<1> HIDE DEF iter
<1>6. Kept("ifaces", a, {}, s)
  BY DEF Kept
<1>7. ASSUME NEW T \in SUBSET S, NEW x \in T, NEW r, Kept("ifaces", a, T \ {x}, r)
      PROVE  Kept("ifaces", a, T, FoldStep("ifaces", a, x, r))
  <2> DEFINE t == batadv_iv_ogm_receive(r, x, src, ogms, join)
  <2>1. NodeGood(c, n, r) /\ Now(c, x) /\ \A y \in DOMAIN ogms : Heard(c, n, x, src, ogms[y])
    BY <1>7 DEF Kept
  <2>2. NodeGood(c, n, t)
    BY <2>1, ReceiveFits
  <2>3. FoldStep("ifaces", a, x, r) = t
    BY DEF FoldStep
  <2> HIDE DEF t
  <2> QED BY <2>2, <2>3 DEF Kept
<1>8. Kept("ifaces", a, S, iter[S])
  <2> HIDE DEF a
  <2> QED BY <1>2, <1>5, <1>6, <1>7, FoldsKeep
<1>9. NodeGood(c, n, iter[S])
  BY <1>8 DEF Kept
<1> QED BY <1>1, <1>9

-----------------------------------------------------------------------------
(* Time passes: sequence numbers are counted up, what was heard long ago is *)
(* forgotten, windows slide.                                                *)

Later(c, c1) ==
  /\ c1.link = c.link /\ c1.active = c.active
  /\ \A x, i, q : <<x, i, q>> \in c.heard /\ Recent(c1, i, q) => <<x, i, q>> \in c1.heard

\* No OGM in the queue of s becomes recent again, unless it was heard anyway.
Unrevived(c, c1, s) ==
  \A f \in DOMAIN s.forw : \A x \in DOMAIN f.ogms : LET ogm == f.ogms[x] IN
    Recent(c1, ogm.orig, ogm.seqno) =>
      Recent(c, ogm.orig, ogm.seqno) \/ <<f.out, ogm.orig, ogm.seqno>> \in c1.heard

LEMMA NumberInWindow ==
  ASSUME NEW s \in SeqNo, NEW p \in Window
  PROVE  LET q == Seq32(s - 2 - p) IN q \in SeqNo /\ Seq32(s - q) \in 1..(TQ_LOCAL_WINDOW_SIZE + 1)
<1> DEFINE M == SeqnoMod
           W == TQ_LOCAL_WINDOW_SIZE
           a == s - 2 - p
           q == Seq32(a)
<1>1. /\ M \in Nat \ {0} /\ W \in Nat \ {0} /\ W + 2 <= M /\ s \in 0..(M - 1) /\ p \in 0..(W - 1)
  BY IvConstants DEF SeqNo, Window
<1>2. a \in Int /\ -M < a /\ a <= M
  BY <1>1
<1>3. q = IF a < 0 THEN a + M ELSE IF a = M THEN 0 ELSE a
  BY <1>2, Seq32Is
<1> HIDE DEF q
<1> DEFINE b == s - q
<1>4. b \in Int /\ -M < b /\ b <= M
  BY <1>1, <1>3
<1>5. Seq32(b) = IF b < 0 THEN b + M ELSE IF b = M THEN 0 ELSE b
  BY <1>4, Seq32Is
<1>6. Seq32(b) \in 1..(W + 1)
  BY <1>1, <1>3, <1>5
<1>7. q \in 0..(M - 1)
  BY <1>1, <1>3
<1> QED BY <1>6, <1>7 DEF q, SeqNo

LEMMA IfinfoLater ==
  ASSUME NEW c, NEW c1, Later(c, c1), NEW o, NEW i, NEW oi, IfinfoGood(c, o, i, oi),
         i # DEFAULT => c1.seqno[i] = c.seqno[i] /\ c.seqno[i] \in SeqNo
  PROVE  IfinfoGood(c1, o, i, oi)
<1>1. ASSUME i # DEFAULT, NEW p \in oi.bcast_own
      PROVE  <<o, i, Seq32(c1.seqno[i] - 2 - p)>> \in c1.heard
  <2> DEFINE s == c1.seqno[i]
             q == Seq32(s - 2 - p)
  <2>1. s \in SeqNo /\ p \in Window /\ s = c.seqno[i] /\ <<o, i, q>> \in c.heard
    BY <1>1 DEF IfinfoGood
  <2>2. Seq32(s - q) \in 1..(TQ_LOCAL_WINDOW_SIZE + 1)
    <3> HIDE DEF s
    <3> QED BY <2>1, NumberInWindow
  <2> HIDE DEF q
  <2>3. <<o, i, q>> \in c1.heard
    BY <2>1, <2>2 DEF Later, Recent
  <2> QED BY <2>3 DEF q
<1> QED BY <1>1 DEF IfinfoGood

LEMMA IfinfoSlides ==
  ASSUME NEW c, NEW c1, Later(c, c1), NEW o, NEW i, NEW oi, IfinfoGood(c, o, i, oi),
         c.seqno[i] \in SeqNo, c1.seqno[i] = Seq32(c.seqno[i] + 1)
  PROVE  LET own == batadv_bit_get_packet(oi.bcast_own, 1, FALSE)
         IN  IfinfoGood(c1, o, i, [oi EXCEPT !.bcast_own = own, !.bcast_own_sum = Cardinality(own)])
<1> DEFINE old == oi.bcast_own
           own == batadv_bit_get_packet(old, 1, FALSE)
           sum == Cardinality(own)
           new == [oi EXCEPT !.bcast_own = own, !.bcast_own_sum = sum]
<1>1. old \in SUBSET Window
  BY DEF IfinfoGood
<1>2. own \in SUBSET Window
  BY <1>1, BitsInWindow
<1>3. \A b \in own : \E p \in old : b = p + 1
  <2>1. -1 \notin Window
    BY IvConstants DEF Window
  <2>2. own \subseteq {b + 1 : b \in old}
    BY <2>1 DEF batadv_bit_get_packet
  <2> QED BY <2>2
<1> HIDE DEF own, old
<1>4. ASSUME i # DEFAULT, NEW b \in own PROVE <<o, i, Seq32(c1.seqno[i] - 2 - b)>> \in c1.heard
  <2> DEFINE s == c.seqno[i]
             s1 == c1.seqno[i]
  <2>1. PICK p \in old : b = p + 1
    BY <1>3
  <2>2. p \in Window /\ p + 1 \in Window /\ s \in SeqNo /\ s1 = Seq32(s + 1)
    BY <1>1, <1>2, <2>1
  <2>3. s1 \in SeqNo
    BY <2>2, Seq32Type DEF SeqNo
  <2>4. <<o, i, Seq32(s - 2 - p)>> \in c.heard
    BY <1>4 DEF IfinfoGood, old
  <2> HIDE DEF s, s1
  <2> DEFINE q == Seq32(s1 - 2 - b)
  <2>5. q = Seq32(s - 2 - p)
    BY <2>1, <2>2, WindowMoved
  <2>6. Seq32(s1 - q) \in 1..(TQ_LOCAL_WINDOW_SIZE + 1)
    BY <2>1, <2>2, <2>3, NumberInWindow
  <2> HIDE DEF q
  <2>7. <<o, i, q>> \in c1.heard
    BY <2>4, <2>5, <2>6 DEF Later, Recent, s1
  <2> QED BY <2>7 DEF q, s1
<1>5. /\ DOMAIN new = {"last_real_seqno", "protected", "last_ttl", "bcast_own", "bcast_own_sum", "router"}
      /\ new.bcast_own = own /\ new.bcast_own_sum = sum
  BY DEF IfinfoGood
<1> HIDE DEF new
<1>6. IfinfoGood(c1, o, i, new)
  BY <1>2, <1>4, <1>5 DEF IfinfoGood
<1> QED BY <1>6 DEF new, own, old

LEMMA FitsLater ==
  ASSUME NEW c, NEW c1, Later(c, c1)
  PROVE  /\ \A x, o, tq : TqFits(c, x, o, tq) => TqFits(c1, x, o, tq)
         /\ \A n : OwnIfaces(c1, n) = OwnIfaces(c, n)
         /\ \A o, k, neigh : NeighGood(c, o, k, neigh) => NeighGood(c1, o, k, neigh)
<1>1. c1.link = c.link /\ c1.active = c.active
  BY DEF Later
<1>2. \A x, o, tq : TqFits(c, x, o, tq) => TqFits(c1, x, o, tq)
  BY <1>1 DEF TqFits
<1>3. \A n : OwnIfaces(c1, n) = OwnIfaces(c, n)
  BY <1>1 DEF OwnIfaces
<1>4. \A x, o, ni : Rating(c, x, o, ni) => Rating(c1, x, o, ni)
  BY <1>2 DEF Rating
<1>5. \A o, k, neigh : NeighGood(c, o, k, neigh) => NeighGood(c1, o, k, neigh)
  BY <1>4 DEF NeighGood
<1> QED BY <1>2, <1>3, <1>5

LEMMA QueueLater ==
  ASSUME NEW c, NEW c1, Later(c, c1), NEW n, NEW s, NodeGood(c, n, s), Unrevived(c, c1, s)
  PROVE  \A f \in DOMAIN s.forw : PacketGood(c1, n, f)
<1> SUFFICES ASSUME NEW f \in DOMAIN s.forw PROVE PacketGood(c1, n, f)
  OBVIOUS
<1>1. PacketGood(c, n, f)
  BY DEF NodeGood, BagToSet
<1>2. ASSUME NEW x \in DOMAIN f.ogms
      PROVE  /\ OgmGood(c1, n, f.ogms[x])
             /\ f.ogms[x].direct /\ f.in = f.out => EchoGood(c1, f.out, f.ogms[x])
  <2> DEFINE ogm == f.ogms[x]
  <2>1. OgmGood(c, n, ogm) /\ (ogm.direct /\ f.in = f.out => EchoGood(c, f.out, ogm))
    BY <1>1 DEF PacketGood
  <2>2. Recent(c1, ogm.orig, ogm.seqno) =>
          Recent(c, ogm.orig, ogm.seqno) \/ <<f.out, ogm.orig, ogm.seqno>> \in c1.heard
    BY DEF Unrevived
  <2> HIDE DEF ogm
  <2>3. OgmGood(c1, n, ogm)
    BY <2>1, FitsLater DEF OgmGood
  <2>4. EchoGood(c, f.out, ogm) => EchoGood(c1, f.out, ogm)
    BY <2>2 DEF EchoGood, Later
  <2> QED BY <2>1, <2>3, <2>4 DEF ogm
<1> QED BY <1>1, <1>2, FitsLater DEF PacketGood

\* The entry of an originator, some of whose own windows have slid.
LEMMA EntryLater ==
  ASSUME NEW c, NEW c1, Later(c, c1), NEW n, NEW o, NEW on, EntryGood(c, n, o, on),
         NEW new, DOMAIN new = {"neigh", "ifinfo", "age"}, new.neigh = on.neigh,
         DOMAIN new.ifinfo = DOMAIN on.ifinfo, \A i \in DOMAIN new.ifinfo : IfinfoGood(c1, o, i, new.ifinfo[i])
  PROVE  EntryGood(c1, n, o, new)
<1>1. /\ \A k \in DOMAIN on.neigh : NeighGood(c, o, k, on.neigh[k])
      /\ DOMAIN on.ifinfo \subseteq {DEFAULT} \cup OwnIfaces(c, n)
  BY DEF EntryGood
<1> QED BY <1>1, FitsLater DEF EntryGood

LEMMA NodeLater ==
  ASSUME NEW c, NEW c1, Later(c, c1), NEW n, NEW s, NodeGood(c, n, s), Unrevived(c, c1, s), DEFAULT \notin c.active,
         \A i \in OwnIfaces(c, n) : c1.seqno[i] = c.seqno[i] /\ c.seqno[i] \in SeqNo
  PROVE  NodeGood(c1, n, s)
<1>1. ASSUME NEW o \in DOMAIN s.orig PROVE o \in Iface /\ EntryGood(c1, n, o, s.orig[o])
  <2> DEFINE on == s.orig[o]
  <2>1. o \in Iface /\ EntryGood(c, n, o, on)
    BY DEF NodeGood
  <2> HIDE DEF on
  <2>2. ASSUME NEW i \in DOMAIN on.ifinfo PROVE IfinfoGood(c1, o, i, on.ifinfo[i])
    <3>1. IfinfoGood(c, o, i, on.ifinfo[i]) /\ i \in {DEFAULT} \cup OwnIfaces(c, n)
      BY <2>1 DEF EntryGood
    <3> QED BY <3>1, IfinfoLater
  <2>3. EntryGood(c1, n, o, on)
    <3>1. DOMAIN on = {"neigh", "ifinfo", "age"}
      BY <2>1 DEF EntryGood
    <3> QED BY <2>1, <2>2, <3>1, EntryLater
  <2> QED BY <2>1, <2>3 DEF on
<1> QED BY <1>1, QueueLater DEF NodeGood, BagToSet

LEMMA SlideFits ==
  ASSUME NEW c, NEW c1, Later(c, c1), NEW n, NEW s, NodeGood(c, n, s), Unrevived(c, c1, s), DEFAULT \notin c.active,
         NEW i \in OwnIfaces(c, n), c1.seqno[i] = Seq32(c.seqno[i] + 1),
         \A j \in OwnIfaces(c, n) : c.seqno[j] \in SeqNo /\ (j # i => c1.seqno[j] = c.seqno[j])
  PROVE  NodeGood(c1, n, batadv_iv_ogm_slide_own_bcast_window(s, i))
<1> DEFINE slid(oi) == LET own == batadv_bit_get_packet(oi.bcast_own, 1, FALSE)
                       IN [oi EXCEPT !.bcast_own = own, !.bcast_own_sum = Cardinality(own)]
           entry(on) == IF i \in DOMAIN on.ifinfo THEN [on EXCEPT !.ifinfo[i] = slid(on.ifinfo[i])] ELSE on
           all == [o \in DOMAIN s.orig |-> entry(s.orig[o])]
           t == batadv_iv_ogm_slide_own_bcast_window(s, i)
<1>1. t = [s EXCEPT !.orig = all]
  BY DEF batadv_iv_ogm_slide_own_bcast_window
<1> HIDE DEF t
<1>2. ASSUME NEW o \in DOMAIN s.orig PROVE o \in Iface /\ EntryGood(c1, n, o, entry(s.orig[o]))
  <2> DEFINE on == s.orig[o]
             new == entry(on)
  <2>1. o \in Iface /\ EntryGood(c, n, o, on)
    BY DEF NodeGood
  <2> HIDE DEF on
  <2>2. /\ DOMAIN on = {"neigh", "ifinfo", "age"} /\ DOMAIN on.ifinfo \subseteq {DEFAULT} \cup OwnIfaces(c, n)
        /\ \A j \in DOMAIN on.ifinfo : IfinfoGood(c, o, j, on.ifinfo[j])
    BY <2>1 DEF EntryGood
  <2>3. i # DEFAULT
    BY DEF OwnIfaces
  <2>4. ASSUME NEW j \in DOMAIN on.ifinfo, j # i PROVE IfinfoGood(c1, o, j, on.ifinfo[j])
    BY <2>2, <2>4, IfinfoLater
  <2>5. i \in DOMAIN on.ifinfo => IfinfoGood(c1, o, i, slid(on.ifinfo[i]))
    <3>1. IfinfoGood(c, o, i, on.ifinfo[i]) => IfinfoGood(c1, o, i, slid(on.ifinfo[i]))
      BY IfinfoSlides
    <3> HIDE DEF slid
    <3> QED BY <2>2, <3>1
  <2> HIDE DEF slid
  <2>6. /\ DOMAIN new = {"neigh", "ifinfo", "age"} /\ new.neigh = on.neigh
        /\ DOMAIN new.ifinfo = DOMAIN on.ifinfo
        /\ \A j \in DOMAIN on.ifinfo : new.ifinfo[j] = IF j = i THEN slid(on.ifinfo[i]) ELSE on.ifinfo[j]
    BY <2>2
  <2> HIDE DEF new
  <2>7. \A j \in DOMAIN new.ifinfo : IfinfoGood(c1, o, j, new.ifinfo[j])
    BY <2>4, <2>5, <2>6
  <2>8. EntryGood(c1, n, o, new)
    BY <2>1, <2>6, <2>7, EntryLater
  <2> QED BY <2>1, <2>8 DEF new, on
<1> HIDE DEF entry
<1>3. DOMAIN t = {"orig", "forw"} /\ t.orig = all /\ t.forw = s.forw
  BY <1>1 DEF NodeGood
<1>4. NodeGood(c1, n, t)
  <2>1. \A o \in DOMAIN t.orig : o \in Iface /\ EntryGood(c1, n, o, t.orig[o])
    BY <1>2, <1>3
  <2> HIDE DEF all
  <2> QED BY <1>3, <2>1, QueueLater DEF NodeGood, BagToSet
<1> QED BY <1>4 DEF t

-----------------------------------------------------------------------------
(* Own OGMs are scheduled; entries grow old. *)

OnQueue(s, n, ogm, i, outs) ==
  FoldSet(LAMBDA out, t : batadv_iv_ogm_queue_add(t, n, ogm, i, out, TRUE, FALSE), s, outs)
OnEnable(s, seqno, S) == FoldSet(LAMBDA i, t : batadv_iv_ogm_schedule_buff(t, i, seqno[i]), s, S)

LEMMA QueuesFit ==
  ASSUME NEW c, NEW n, NEW s, NodeGood(c, n, s), NEW ogm, OgmGood(c, n, ogm), ~ogm.direct,
         NEW i \in OwnIfaces(c, n), NEW S \in SUBSET OwnIfaces(c, n), IsFiniteSet(S)
  PROVE  LET t == OnQueue(s, n, ogm, i, S) IN NodeGood(c, n, t) /\ DOMAIN t.orig = DOMAIN s.orig
<1> DEFINE a == [c |-> c, n |-> n, ogm |-> ogm, i |-> i, known |-> DOMAIN s.orig]
           One(T) == CHOOSE x \in T : TRUE
           Def(g) == [T \in SUBSET S |->
             IF T = {} THEN s ELSE batadv_iv_ogm_queue_add(g[T \ {One(T)}], n, ogm, i, One(T), TRUE, FALSE)]
           iter == CHOOSE g : g = Def(g)
<1>1. OnQueue(s, n, ogm, i, S) = iter[S]
  BY DEF OnQueue, FoldSet, MapThenFoldSet
<1>2. \A T \in SUBSET S : T # {} => Last1("queue", T) \in T
  BY DEF Last1
<1>3. \A g : Folds(g, "queue", a, s, S) <=> g = Def(g)
  BY DEF Folds, FoldStep, Last1
<1>4. iter = Def(iter)
  <2> HIDE DEF Def, a
  <2> QED BY <1>2, <1>3, FoldExists
<1>5. Folds(iter, "queue", a, s, S)
  <2> HIDE DEF Def, iter
  <2> QED BY <1>3, <1>4
<1> HIDE DEF iter
<1>6. Kept("queue", a, {}, s)
  BY DEF Kept
<1>7. ASSUME NEW T \in SUBSET S, NEW x \in T, NEW r, Kept("queue", a, T \ {x}, r)
      PROVE  Kept("queue", a, T, FoldStep("queue", a, x, r))
  <2> DEFINE t == batadv_iv_ogm_queue_add(r, n, ogm, i, x, TRUE, FALSE)
  <2>1. NodeGood(c, n, r) /\ DOMAIN r.orig = DOMAIN s.orig /\ x \in OwnIfaces(c, n)
    BY <1>7 DEF Kept
  <2>2. NodeGood(c, n, t) /\ t.orig = r.orig
    <3>1. ogm.direct /\ i = x => EchoGood(c, x, ogm)
      OBVIOUS
    <3> DEFINE own == TRUE
               join == FALSE
               u == batadv_iv_ogm_queue_add(r, n, ogm, i, x, own, join)
    <3> HIDE DEF own, join
    <3>2. NodeGood(c, n, u) /\ u.orig = r.orig
      BY <2>1, <3>1, QueueAddFits
    <3> QED BY <3>2 DEF own, join
  <2>3. FoldStep("queue", a, x, r) = t
    BY DEF FoldStep
  <2> HIDE DEF t
  <2> QED BY <2>1, <2>2, <2>3 DEF Kept
<1>8. Kept("queue", a, S, iter[S])
  <2> HIDE DEF a
  <2> QED BY <1>2, <1>5, <1>6, <1>7, FoldsKeep
<1>9. NodeGood(c, n, iter[S]) /\ DOMAIN iter[S].orig = DOMAIN s.orig
  BY <1>8 DEF Kept
<1> QED BY <1>1, <1>9

LEMMA ScheduleFits ==
  ASSUME BoundsGood, NEW c, c.active = ActiveIfaces, NEW n, NEW s, NEW i \in OwnIfaces(c, n), NEW seqno \in SeqNo,
         NodeGood(c, n, batadv_iv_ogm_slide_own_bcast_window(s, i))
  PROVE  LET t == batadv_iv_ogm_schedule_buff(s, i, seqno)
         IN  NodeGood(c, n, t) /\ DOMAIN t.orig = DOMAIN batadv_iv_ogm_slide_own_bcast_window(s, i).orig
<1> DEFINE u == batadv_iv_ogm_slide_own_bcast_window(s, i)
           ogm == [orig |-> i, prev_sender |-> i, seqno |-> seqno, tq |-> TQ_MAX_VALUE,
                   ttl |-> IF i = Primary[n] THEN TTL ELSE 2, direct |-> FALSE, not_best |-> FALSE]
           outs == IF i = Primary[n] THEN Active(n) ELSE {i}
<1>1. Owner[i] = n /\ i \in Iface /\ Active(n) = OwnIfaces(c, n)
  BY ActiveFinite DEF OwnIfaces, Active
<1>2. batadv_iv_ogm_schedule_buff(s, i, seqno) = OnQueue(u, n, ogm, i, outs)
  BY <1>1 DEF batadv_iv_ogm_schedule_buff, OnQueue
<1>3. ogm \in Ogm /\ ogm.orig = i /\ ogm.tq = TQ_MAX_VALUE /\ ~ogm.direct
  BY <1>1, IvConstants DEF Ogm, Tq
<1> HIDE DEF ogm
<1>4. TQ_MAX_VALUE \in Tq
  BY IvConstants DEF Tq
<1>5. OgmGood(c, n, ogm)
  BY <1>1, <1>3, <1>4, OwnFits DEF OgmGood
<1>6. outs \in SUBSET OwnIfaces(c, n) /\ IsFiniteSet(outs)
  BY <1>1, ActiveFinite, FS_Singleton
<1> HIDE DEF outs, u
<1>7. LET t == OnQueue(u, n, ogm, i, outs) IN NodeGood(c, n, t) /\ DOMAIN t.orig = DOMAIN u.orig
  BY <1>3, <1>5, <1>6, QueuesFit DEF u
<1> QED BY <1>2, <1>7 DEF u

LEMMA EnableFits ==
  ASSUME BoundsGood, NEW c, c.active = ActiveIfaces, NEW n, NEW seqno, \A i \in Active(n) : seqno[i] \in SeqNo
  PROVE  NodeGood(c, n, batadv_iv_ogm_iface_enable(n, seqno))
<1> DEFINE s == [orig |-> <<>>, forw |-> EmptyBag]
           S == Active(n)
           a == [c |-> c, n |-> n, seqno |-> seqno]
           One(T) == CHOOSE x \in T : TRUE
           Def(g) == [T \in SUBSET S |->
             IF T = {} THEN s ELSE batadv_iv_ogm_schedule_buff(g[T \ {One(T)}], One(T), seqno[One(T)])]
           iter == CHOOSE g : g = Def(g)
<1>1. batadv_iv_ogm_iface_enable(n, seqno) = OnEnable(s, seqno, S)
  BY DEF batadv_iv_ogm_iface_enable, OnEnable
<1>2. OnEnable(s, seqno, S) = iter[S]
  BY DEF OnEnable, FoldSet, MapThenFoldSet
<1>3. IsFiniteSet(S) /\ S = OwnIfaces(c, n)
  BY ActiveFinite DEF OwnIfaces, Active
<1>4. \A T \in SUBSET S : T # {} => Last1("enable", T) \in T
  BY DEF Last1
<1>5. \A g : Folds(g, "enable", a, s, S) <=> g = Def(g)
  BY DEF Folds, FoldStep, Last1
<1>6. iter = Def(iter)
  <2> HIDE DEF Def, a, s, S
  <2> QED BY <1>3, <1>4, <1>5, FoldExists
<1>7. Folds(iter, "enable", a, s, S)
  <2> HIDE DEF Def, iter
  <2> QED BY <1>5, <1>6
<1> HIDE DEF iter
<1>8. Kept("enable", a, {}, s)
  <2>1. DOMAIN s = {"orig", "forw"} /\ DOMAIN s.orig = {} /\ DOMAIN s.forw = {}
    BY BagFacts
  <2> HIDE DEF s
  <2> QED BY <2>1 DEF Kept, NodeGood, BagToSet
<1> HIDE DEF s, S
<1>9. ASSUME NEW T \in SUBSET S, NEW x \in T, NEW r, Kept("enable", a, T \ {x}, r)
      PROVE  Kept("enable", a, T, FoldStep("enable", a, x, r))
  <2> DEFINE u == batadv_iv_ogm_slide_own_bcast_window(r, x)
             t == batadv_iv_ogm_schedule_buff(r, x, seqno[x])
  <2>1. NodeGood(c, n, r) /\ DOMAIN r.orig = {} /\ x \in OwnIfaces(c, n) /\ seqno[x] \in SeqNo
    BY <1>3, <1>9 DEF Kept, S
  <2>2. NodeGood(c, n, u) /\ DOMAIN u.orig = {}
    <3>1. DOMAIN u = {"orig", "forw"} /\ DOMAIN u.orig = {} /\ u.forw = r.forw
      BY <2>1 DEF batadv_iv_ogm_slide_own_bcast_window, NodeGood
    <3> HIDE DEF u
    <3> QED BY <2>1, <3>1 DEF NodeGood
  <2>3. NodeGood(c, n, t) /\ DOMAIN t.orig = {}
    BY <2>1, <2>2, ScheduleFits
  <2>4. FoldStep("enable", a, x, r) = t
    BY DEF FoldStep
  <2> HIDE DEF t
  <2> QED BY <2>3, <2>4 DEF Kept
<1>10. Kept("enable", a, S, iter[S])
  <2> HIDE DEF a
  <2> QED BY <1>3, <1>4, <1>7, <1>8, <1>9, FoldsKeep
<1>11. NodeGood(c, n, iter[S])
  BY <1>10 DEF Kept
<1> QED BY <1>1, <1>2, <1>11 DEF s, S


\* Ages do not matter.
LEMMA OlderFits ==
  ASSUME NEW c, NEW n, NEW s, NodeGood(c, n, s)
  PROVE  LET t == Older(s) IN NodeGood(c, n, t) /\ t.forw = s.forw
<1> DEFINE neigh(ne) == [ne EXCEPT !.age = IF @ < PURGE_TIMEOUT THEN @ + 1 ELSE @]
           age(on) == IF on.age < 2 * PURGE_TIMEOUT THEN on.age + 1 ELSE on.age
           neighs(on) == [k \in DOMAIN on.neigh |-> neigh(on.neigh[k])]
           entry(on) == [on EXCEPT !.age = age(on), !.neigh = neighs(on)]
           all == [o \in DOMAIN s.orig |-> entry(s.orig[o])]
           t == Older(s)
<1>1. t = [s EXCEPT !.orig = all]
  BY DEF Older
<1> HIDE DEF t
<1>2. ASSUME NEW o \in DOMAIN s.orig PROVE o \in Iface /\ EntryGood(c, n, o, entry(s.orig[o]))
  <2> DEFINE on == s.orig[o]
             new == entry(on)
  <2>1. o \in Iface /\ EntryGood(c, n, o, on)
    BY DEF NodeGood
  <2> HIDE DEF on
  <2>2. \A k \in DOMAIN on.neigh : NeighGood(c, o, k, neigh(on.neigh[k]))
    BY <2>1, AgeOfNeigh DEF EntryGood
  <2>3. DOMAIN neighs(on) = DOMAIN on.neigh /\ \A k \in DOMAIN on.neigh : neighs(on)[k] = neigh(on.neigh[k])
    OBVIOUS
  <2> HIDE DEF neigh, neighs, age
  <2>4. DOMAIN new = {"neigh", "ifinfo", "age"} /\ new.neigh = neighs(on) /\ new.ifinfo = on.ifinfo
    BY <2>1 DEF EntryGood
  <2> HIDE DEF new
  <2>5. EntryGood(c, n, o, new)
    BY <2>1, <2>2, <2>3, <2>4 DEF EntryGood
  <2> QED BY <2>1, <2>5 DEF new, on
<1> HIDE DEF entry
<1>3. DOMAIN t = {"orig", "forw"} /\ t.orig = all /\ t.forw = s.forw
  BY <1>1 DEF NodeGood
<1>4. \A o \in DOMAIN t.orig : o \in Iface /\ EntryGood(c, n, o, t.orig[o])
  BY <1>2, <1>3
<1> HIDE DEF all
<1>5. NodeGood(c, n, t)
  BY <1>3, <1>4 DEF NodeGood
<1> QED BY <1>3, <1>5 DEF t

\* Entries that go, and routers that are chosen anew.
LEMMA PurgedEntryFits ==
  ASSUME NEW c, NEW n, NEW o, NEW on, EntryGood(c, n, o, on)
  PROVE  EntryGood(c, n, o, batadv_purge_orig_node(on))
<1> DEFINE kept == {k \in DOMAIN on.neigh : on.neigh[k].age < PURGE_TIMEOUT}
           neighs == [k \in kept |-> on.neigh[k]]
           new == [on EXCEPT !.neigh = neighs]
           oi(out) == [new.ifinfo[out] EXCEPT !.router = batadv_find_best_neighbor(new, out)]
           ifs == [out \in DOMAIN new.ifinfo |-> oi(out)]
<1>1. batadv_purge_orig_node(on) = IF kept = DOMAIN on.neigh THEN on ELSE [new EXCEPT !.ifinfo = ifs]
  BY DEF batadv_purge_orig_node
<1>2. \A k \in DOMAIN neighs : NeighGood(c, o, k, neighs[k])
  BY DEF EntryGood
<1> HIDE DEF neighs
<1>3. EntryGood(c, n, o, new)
  BY <1>2, PutNeighs
<1> HIDE DEF new, kept
<1>4. DOMAIN ifs \subseteq {DEFAULT} \cup OwnIfaces(c, n)
  BY <1>3 DEF EntryGood
<1>5. ASSUME NEW i \in DOMAIN ifs PROVE IfinfoGood(c, o, i, ifs[i])
  <2> DEFINE old == new.ifinfo[i]
             R == batadv_find_best_neighbor(new, i)
             moved == [old EXCEPT !.router = R]
  <2>1. IfinfoGood(c, o, i, old) /\ ifs[i] = moved
    BY <1>3 DEF EntryGood
  <2> HIDE DEF old, R, ifs
  <2>2. /\ DOMAIN moved = {"last_real_seqno", "protected", "last_ttl", "bcast_own", "bcast_own_sum", "router"}
        /\ moved.bcast_own = old.bcast_own /\ moved.bcast_own_sum = old.bcast_own_sum
    BY <2>1 DEF IfinfoGood
  <2> HIDE DEF moved
  <2>3. IfinfoGood(c, o, i, moved)
    BY <2>1, <2>2 DEF IfinfoGood
  <2> QED BY <2>1, <2>3
<1> HIDE DEF ifs
<1>6. EntryGood(c, n, o, [new EXCEPT !.ifinfo = ifs])
  BY <1>3, <1>4, <1>5, PutIfinfos
<1> QED BY <1>1, <1>6

LEMMA PurgeFits ==
  ASSUME NEW c, NEW n, NEW s, NodeGood(c, n, s)
  PROVE  NodeGood(c, n, batadv_purge_orig_ref(s))
<1> DEFINE kept == {o \in DOMAIN s.orig : s.orig[o].age < 2 * PURGE_TIMEOUT}
           all == [o \in kept |-> batadv_purge_orig_node(s.orig[o])]
           t == [s EXCEPT !.orig = all]
<1>1. batadv_purge_orig_ref(s) = t
  BY DEF batadv_purge_orig_ref
<1>2. \A o \in DOMAIN all : o \in Iface /\ EntryGood(c, n, o, all[o])
  BY PurgedEntryFits DEF NodeGood
<1> HIDE DEF all
<1>3. DOMAIN t = {"orig", "forw"} /\ t.orig = all /\ t.forw = s.forw
  BY DEF NodeGood
<1> HIDE DEF t
<1>4. NodeGood(c, n, t)
  BY <1>2, <1>3 DEF NodeGood
<1> QED BY <1>1, <1>4

LEMMA ProtectionFits ==
  ASSUME NEW c, NEW n, NEW s, NodeGood(c, n, s), NEW o \in DOMAIN s.orig
  PROVE  LET is == s.orig[o].ifinfo
         IN  NodeGood(c, n, [s EXCEPT !.orig[o].ifinfo =
                               [out \in DOMAIN is |-> [is[out] EXCEPT !.protected = FALSE]]])
<1> DEFINE on == s.orig[o]
           is == on.ifinfo
           ifs == [out \in DOMAIN is |-> [is[out] EXCEPT !.protected = FALSE]]
           on1 == [on EXCEPT !.ifinfo = ifs]
<1>1. EntryGood(c, n, o, on)
  BY DEF NodeGood
<1>2. DOMAIN ifs \subseteq {DEFAULT} \cup OwnIfaces(c, n)
  BY <1>1 DEF EntryGood
<1>3. ASSUME NEW i \in DOMAIN ifs PROVE IfinfoGood(c, o, i, ifs[i])
  <2> DEFINE old == is[i]
             new == [old EXCEPT !.protected = FALSE]
  <2>1. IfinfoGood(c, o, i, old) /\ ifs[i] = new
    BY <1>1 DEF EntryGood
  <2> HIDE DEF old, ifs
  <2>2. /\ DOMAIN new = {"last_real_seqno", "protected", "last_ttl", "bcast_own", "bcast_own_sum", "router"}
        /\ new.bcast_own = old.bcast_own /\ new.bcast_own_sum = old.bcast_own_sum
    BY <2>1 DEF IfinfoGood
  <2> HIDE DEF new
  <2>3. IfinfoGood(c, o, i, new)
    BY <2>1, <2>2 DEF IfinfoGood
  <2> QED BY <2>1, <2>3
<1> HIDE DEF ifs
<1>4. EntryGood(c, n, o, on1)
  BY <1>1, <1>2, <1>3, PutIfinfos
<1>5. [s EXCEPT !.orig[o].ifinfo = ifs] = [s EXCEPT !.orig[o] = on1]
  OBVIOUS
<1> HIDE DEF on1
<1>6. NodeGood(c, n, [s EXCEPT !.orig[o] = on1])
  BY <1>4, PutEntry
<1> QED BY <1>5, <1>6 DEF ifs

-----------------------------------------------------------------------------
(* Steps. *)

LEMMA SentFits ==
  ASSUME NEW c, NEW n, NEW f, PacketGood(c, n, f)
  PROVE  LET sent == batadv_iv_ogm_send_to_if(f)
         IN  /\ sent \in Seq(Ogm)
             /\ \A x \in DOMAIN sent : OgmGood(c, n, sent[x]) /\ (sent[x].direct => EchoGood(c, f.out, sent[x]))
<1> DEFINE sent == batadv_iv_ogm_send_to_if(f)
           N == Len(f.ogms)
<1>1. f.ogms \in Seq(Ogm) /\ N \in Nat /\ DOMAIN f.ogms = 1..N
  BY DEF PacketGood
<1> HIDE DEF N
<1>2. ASSUME NEW x \in 1..N
      PROVE  sent[x] \in Ogm /\ OgmGood(c, n, sent[x]) /\ (sent[x].direct => EchoGood(c, f.out, sent[x]))
  <2> DEFINE ogm == f.ogms[x]
             direct == ogm.direct /\ f.in = f.out
             new == [ogm EXCEPT !.direct = direct]
  <2>1. sent[x] = new
    BY <1>1 DEF batadv_iv_ogm_send_to_if
  <2>2. OgmGood(c, n, ogm) /\ (direct => EchoGood(c, f.out, ogm)) /\ ogm \in Ogm
    BY <1>1 DEF PacketGood, OgmGood
  <2>3. direct \in BOOLEAN
    OBVIOUS
  <2> HIDE DEF direct, ogm, sent
  <2>4. new \in Ogm
    BY <2>2, <2>3 DEF Ogm
  <2>5. new.orig = ogm.orig /\ new.tq = ogm.tq /\ new.seqno = ogm.seqno /\ new.direct = direct
    BY <2>2 DEF Ogm
  <2> HIDE DEF new
  <2> QED BY <2>1, <2>2, <2>4, <2>5 DEF OgmGood, EchoGood
<1>3. DOMAIN sent = 1..N
  BY <1>1 DEF batadv_iv_ogm_send_to_if
<1>4. sent = [x \in 1..N |-> sent[x]]
  BY <1>1 DEF batadv_iv_ogm_send_to_if
<1> HIDE DEF sent
<1>5. sent \in [1..N -> Ogm]
  BY <1>2, <1>3, <1>4
<1>6. sent \in Seq(Ogm)
  BY <1>1, <1>5
<1> QED BY <1>2, <1>3, <1>6 DEF sent

\* The queue has not grown and nothing else has changed: what holds later of s holds of t.
LEMMA FewerUnrevived ==
  ASSUME NEW c, NEW c1, NEW s, NEW t, Unrevived(c, c1, s), DOMAIN t.forw \subseteq DOMAIN s.forw
  PROVE  Unrevived(c, c1, t)
BY DEF Unrevived

LEMMA GoneFits ==
  ASSUME NEW c, NEW n, NEW s, NodeGood(c, n, s), NEW f
  PROVE  LET t == [s EXCEPT !.forw = @ (-) SetToBag({f})]
         IN  NodeGood(c, n, t) /\ DOMAIN t.forw \subseteq DOMAIN s.forw
<1> DEFINE B == s.forw (-) SetToBag({f})
           t == [s EXCEPT !.forw = B]
<1>1. DOMAIN B \subseteq DOMAIN s.forw
  BY BagFacts
<1> HIDE DEF B
<1>2. \A g \in DOMAIN B : PacketGood(c, n, g)
  BY <1>1 DEF NodeGood, BagToSet
<1>3. NodeGood(c, n, t)
  BY <1>2, PutForw
<1>4. t.forw = B
  BY DEF NodeGood
<1> QED BY <1>1, <1>3, <1>4 DEF B

LEMMA SendFits ==
  ASSUME BoundsGood, NEW n \in Node, NEW f, f \in DOMAIN priv[n].forw, NEW lost, NEW join,
         batadv_iv_send_outstanding_bat_ogm_packet(n, f, lost, join),
         NEW c, c.seqno = ogm_seqno, c.link = left.link, c.active = ActiveIfaces,
         NEW c1, c1.seqno = ogm_seqno', Later(c, c1),
         \A m \in Node : NodeGood(c, m, priv[m]) /\ Unrevived(c, c1, priv[m]),
         \A j : \A x \in DOMAIN f.ogms :
           <<f.out, j>> \in link /\ j \notin lost /\ f.ogms[x].orig = f.out /\ Recent(c1, f.out, f.ogms[x].seqno)
             => <<j, f.out, f.ogms[x].seqno>> \in c1.heard
  PROVE  \A m \in Node : NodeGood(c1, m, priv'[m])
<1> DEFINE i == f.in
           again == Original(f)
           sent == batadv_iv_ogm_send_to_if(f)
           to == {l[2] : l \in {l \in link : l[1] = f.out}} \ lost
           got(m, s) == OnIfaces(s, f.out, sent, join, {j \in to : Owner[j] = m})
           gone == [priv[n] EXCEPT !.forw = @ (-) SetToBag({f})]
           old == IF i = Primary[n] THEN Older(gone) ELSE gone
<1>1. \A m \in Node : priv'[m] = IF m # n THEN got(m, priv[m])
                                 ELSE IF again THEN batadv_iv_ogm_schedule_buff(old, i, ogm_seqno[i]) ELSE gone
  BY DEF batadv_iv_send_outstanding_bat_ogm_packet, OnIfaces
<1>2. ogm_seqno' = IF again THEN [ogm_seqno EXCEPT ![i] = Seq32(@ + 1)] ELSE ogm_seqno
  BY DEF batadv_iv_send_outstanding_bat_ogm_packet
<1>3. /\ PacketGood(c, n, f) /\ PacketGood(c1, n, f)
      /\ i \in OwnIfaces(c, n) /\ f.out \in OwnIfaces(c, n) /\ i \in OwnIfaces(c1, n) /\ f.out \in OwnIfaces(c1, n)
  <2>1. PacketGood(c, n, f) /\ PacketGood(c1, n, f)
    BY QueueLater DEF NodeGood, BagToSet
  <2> QED BY <2>1 DEF PacketGood
<1>4. /\ c1.link = left.link /\ c1.active = ActiveIfaces /\ ogm_seqno \in [Iface -> SeqNo]
      /\ ActiveIfaces \subseteq Iface /\ left.link \subseteq ActiveIfaces \X ActiveIfaces /\ link \subseteq left.link
  BY ActiveFinite DEF Later, BoundsGood
<1>5. DEFAULT \notin c.active
  BY <1>4, IvConstants
<1>6. i \in Iface /\ f.out \in Iface /\ Owner[i] = n /\ Owner[f.out] = n
  BY <1>3, <1>4 DEF OwnIfaces
<1>7. \A j \in Iface : ogm_seqno[j] \in SeqNo /\ (Owner[j] # n => c1.seqno[j] = ogm_seqno[j])
  <2> HIDE DEF again, i
  <2> QED BY <1>2, <1>4, <1>6
<1>8. ASSUME NEW m \in Node, m # n PROVE NodeGood(c1, m, priv'[m])
  <2> DEFINE S == {j \in to : Owner[j] = m}
  <2>1. NodeGood(c1, m, priv[m])
    <3>1. \A j \in OwnIfaces(c, m) : c1.seqno[j] = c.seqno[j] /\ c.seqno[j] \in SeqNo
      BY <1>4, <1>7, <1>8 DEF OwnIfaces
    <3> QED BY <1>5, <3>1, NodeLater
  <2>2. ASSUME NEW j \in S
        PROVE  /\ j \in OwnIfaces(c1, m) /\ <<f.out, j>> \in link /\ <<f.out, j>> \in c1.link /\ j \notin lost
               /\ Now(c1, j)
    <3>1. PICK l \in link : l[1] = f.out /\ l[2] = j
      OBVIOUS
    <3>2. j \notin lost /\ Owner[j] = m
      OBVIOUS
    <3> HIDE DEF S
    <3>3. l \in ActiveIfaces \X ActiveIfaces /\ l \in left.link
      BY <1>4
    <3>4. l = <<f.out, j>> /\ j \in ActiveIfaces
      BY <3>1, <3>3
    <3>5. Now(c1, j)
      BY <1>4, <1>7, <1>8, <3>2, <3>4 DEF Now
    <3> QED BY <1>4, <3>1, <3>2, <3>3, <3>4, <3>5 DEF OwnIfaces
  <2>3. sent \in Seq(Ogm) /\ \A x \in DOMAIN sent : OgmGood(c1, n, sent[x]) /\ (sent[x].direct => EchoGood(c1, f.out, sent[x]))
    BY <1>3, SentFits
  <2>4. DOMAIN sent = DOMAIN f.ogms /\ \A x \in DOMAIN sent : sent[x].orig = f.ogms[x].orig /\ sent[x].seqno = f.ogms[x].seqno
    <3>1. DOMAIN sent = DOMAIN f.ogms
      BY DEF batadv_iv_ogm_send_to_if
    <3>2. ASSUME NEW x \in DOMAIN sent PROVE sent[x].orig = f.ogms[x].orig /\ sent[x].seqno = f.ogms[x].seqno
      <4> DEFINE ogm == f.ogms[x]
                 direct == ogm.direct /\ f.in = f.out
      <4>1. sent[x] = [ogm EXCEPT !.direct = direct]
        BY DEF batadv_iv_ogm_send_to_if
      <4>2. ogm \in Ogm
        BY <1>3, <3>1 DEF PacketGood, OgmGood
      <4> HIDE DEF sent, ogm, direct
      <4>3. sent[x].orig = ogm.orig /\ sent[x].seqno = ogm.seqno
        BY <4>1, <4>2 DEF Ogm
      <4> QED BY <4>3 DEF ogm
    <3> QED BY <3>1, <3>2
  <2> HIDE DEF sent
  <2>5. ASSUME NEW j \in S, NEW x \in DOMAIN sent PROVE Heard(c1, m, j, f.out, sent[x])
    <3>1. /\ j \in OwnIfaces(c1, m) /\ <<f.out, j>> \in link /\ <<f.out, j>> \in c1.link /\ j \notin lost
      BY <2>2
    <3> HIDE DEF S
    <3>2. OgmGood(c1, Owner[f.out], sent[x]) /\ (sent[x].direct => EchoGood(c1, f.out, sent[x]))
      BY <1>6, <2>3
    <3>3. f.out = sent[x].orig => EchoGood(c1, j, sent[x])
      <4>1. x \in DOMAIN f.ogms /\ sent[x].orig = f.ogms[x].orig /\ sent[x].seqno = f.ogms[x].seqno
        BY <2>4
      <4> QED BY <3>1, <4>1 DEF EchoGood
    <3> QED BY <1>6, <3>1, <3>2, <3>3 DEF Heard
  <2>6. IsFiniteSet(S)
    <3>1. S \subseteq Iface
      BY <1>4, <2>2 DEF OwnIfaces
    <3> HIDE DEF S
    <3> QED BY <3>1, IvConstants, FS_Subset
  <2>7. priv'[m] = OnIfaces(priv[m], f.out, sent, join, S)
    BY <1>1, <1>8 DEF sent
  <2>8. \A j \in S : Now(c1, j) /\ \A x \in DOMAIN sent : Heard(c1, m, j, f.out, sent[x])
    BY <2>2, <2>5
  <2> HIDE DEF S
  <2>9. NodeGood(c1, m, OnIfaces(priv[m], f.out, sent, join, S))
    BY <2>1, <2>3, <2>6, <2>8, IfacesFit
  <2> QED BY <2>7, <2>9
<1>9. NodeGood(c, n, gone) /\ Unrevived(c, c1, gone)
  <2>1. NodeGood(c, n, gone) /\ DOMAIN gone.forw \subseteq DOMAIN priv[n].forw
    BY GoneFits
  <2> HIDE DEF gone
  <2> QED BY <2>1, FewerUnrevived
<1> HIDE DEF gone
<1>10. CASE again
  <2> DEFINE u == batadv_iv_ogm_slide_own_bcast_window(old, i)
  <2>1. NodeGood(c, n, old) /\ Unrevived(c, c1, old)
    <3>1. NodeGood(c, n, Older(gone)) /\ Older(gone).forw = gone.forw
      BY <1>9, OlderFits
    <3>2. Unrevived(c, c1, Older(gone))
      BY <1>9, <3>1, FewerUnrevived
    <3> QED BY <1>9, <3>1, <3>2
  <2> HIDE DEF old, again, i
  <2>2. c1.seqno[i] = Seq32(c.seqno[i] + 1)
    BY <1>2, <1>4, <1>6, <1>10
  <2>3. \A j \in OwnIfaces(c, n) : c.seqno[j] \in SeqNo /\ (j # i => c1.seqno[j] = c.seqno[j])
    BY <1>2, <1>4, <1>6, <1>10 DEF OwnIfaces
  <2>4. NodeGood(c1, n, u)
    BY <1>3, <1>5, <2>1, <2>2, <2>3, SlideFits
  <2>5. ogm_seqno[i] \in SeqNo
    BY <1>6, <1>7
  <2>6. NodeGood(c1, n, batadv_iv_ogm_schedule_buff(old, i, ogm_seqno[i]))
    BY <1>3, <1>4, <2>4, <2>5, ScheduleFits
  <2>7. priv'[n] = batadv_iv_ogm_schedule_buff(old, i, ogm_seqno[i])
    BY <1>1, <1>10
  <2>8. NodeGood(c1, n, priv'[n])
    BY <2>6, <2>7
  <2> QED BY <1>8, <2>8
<1>11. CASE ~again
  <2> HIDE DEF again
  <2>1. \A j \in OwnIfaces(c, n) : c1.seqno[j] = c.seqno[j] /\ c.seqno[j] \in SeqNo
    BY <1>2, <1>4, <1>7, <1>11 DEF OwnIfaces
  <2>2. NodeGood(c1, n, gone)
    BY <1>5, <1>9, <2>1, NodeLater
  <2>3. priv'[n] = gone
    BY <1>1, <1>11
  <2> QED BY <1>8, <2>2, <2>3
<1> QED BY <1>10, <1>11


\* What of the scenario stays.
LEMMA BoundsKept ==
  ASSUME BoundsGood, [IvNext]_ivVars
  PROVE  BoundsGood' /\ left'.link = left.link /\ left'.order = left.order
<1>1. \A x, y \in Int : Seq32(x + y) \in SeqNo
  <2> SUFFICES ASSUME NEW x \in Int, NEW y \in Int PROVE Seq32(x + y) \in SeqNo
    OBVIOUS
  <2>1. x + y \in Int
    OBVIOUS
  <2> QED BY Zenon, <2>1, Seq32Type
<1>9. \A x \in SeqNo : x \in Int
  BY IvConstants DEF SeqNo
<1>8. ogm_seqno \in [Iface -> SeqNo] /\ left.jumps \subseteq Int
  BY DEF BoundsGood
<1>2. ASSUME left'.link = left.link, left'.order = left.order, DOMAIN left' = IvBounds, left'.jumps = left.jumps,
             ogm_seqno' \in [Iface -> SeqNo], link' \subseteq left.link, DOMAIN priv' = Node
      PROVE  BoundsGood' /\ left'.link = left.link /\ left'.order = left.order
  BY <1>2 DEF ActiveIfaces, BoundsGood
<1>3. CASE UNCHANGED ivVars
  BY <1>2, <1>3 DEF ivVars, BoundsGood
<1>4. ASSUME NEW n \in Node, Send(n) PROVE BoundsGood' /\ left'.link = left.link /\ left'.order = left.order
  <2>6. PICK f \in BagToSet(priv[n].forw), join \in {FALSE, left.aggregate} : \E lost :
          /\ batadv_iv_send_outstanding_bat_ogm_packet(n, f, lost, join)
          /\ left' = [left EXCEPT !.losses = @ - Cardinality(lost), !.drifts = IF OnTime(f) THEN @ ELSE @ - 1]
          /\ UNCHANGED link
    BY <1>4 DEF Send
  <2>1. PICK lost :
          /\ batadv_iv_send_outstanding_bat_ogm_packet(n, f, lost, join)
          /\ left' = [left EXCEPT !.losses = @ - Cardinality(lost), !.drifts = IF OnTime(f) THEN @ ELSE @ - 1]
          /\ UNCHANGED link
    BY <2>6
  <2>2. DOMAIN priv' = Node
    BY <2>1 DEF BoundsGood, batadv_iv_send_outstanding_bat_ogm_packet
  <2>3. ogm_seqno' \in [Iface -> SeqNo]
    <3>1. ogm_seqno' = [ogm_seqno EXCEPT ![f.in] = Seq32(ogm_seqno[f.in] + 1)] \/ ogm_seqno' = ogm_seqno
      BY <2>1 DEF batadv_iv_send_outstanding_bat_ogm_packet
    <3>2. f.in \in Iface => Seq32(ogm_seqno[f.in] + 1) \in SeqNo
      <4> SUFFICES ASSUME f.in \in Iface PROVE Seq32(ogm_seqno[f.in] + 1) \in SeqNo
        OBVIOUS
      <4>1. ogm_seqno[f.in] \in Int /\ 1 \in Int
        BY <1>8, <1>9
      <4> QED BY Zenon, <1>1, <4>1
    <3> QED BY <1>8, <3>1, <3>2
  <2>4. left'.link = left.link /\ left'.order = left.order /\ DOMAIN left' = IvBounds /\ left'.jumps = left.jumps
    BY <2>1 DEF BoundsGood, IvBounds
  <2> QED BY <1>2, <2>1, <2>2, <2>3, <2>4 DEF BoundsGood
<1>5. ASSUME NEW n \in Node, EndProtection(n) \/ PurgeOrig(n)
      PROVE  BoundsGood' /\ left'.link = left.link /\ left'.order = left.order
  <2>1. left' = left /\ ogm_seqno' = ogm_seqno /\ link' = link /\ DOMAIN priv' = Node
    BY <1>5 DEF BoundsGood, EndProtection, PurgeOrig
  <2> QED BY <1>2, <2>1 DEF BoundsGood
<1>6. ASSUME NEW n \in Node, RestartNode(n) PROVE BoundsGood' /\ left'.link = left.link /\ left'.order = left.order
  <2>1. PICK d \in left.jumps :
          LET seqno == [i \in Active(n) |-> Seq32(ogm_seqno[i] + d)]
          IN /\ priv' = [priv EXCEPT ![n] = batadv_iv_ogm_iface_enable(n, seqno)]
             /\ ogm_seqno' = [i \in Iface |-> IF i \in Active(n) THEN Seq32(seqno[i] + 1) ELSE ogm_seqno[i]]
             /\ left' = [left EXCEPT !.restarts = @ - 1]
             /\ UNCHANGED <<link, ran, heard>>
    BY <1>6 DEF RestartNode
  <2>2. \A i \in Iface : Seq32(Seq32(ogm_seqno[i] + d) + 1) \in SeqNo
    <3> SUFFICES ASSUME NEW i \in Iface PROVE Seq32(Seq32(ogm_seqno[i] + d) + 1) \in SeqNo
      OBVIOUS
    <3>1. ogm_seqno[i] \in Int /\ d \in Int /\ 1 \in Int
      BY <1>8, <1>9, <2>1
    <3>2. Seq32(ogm_seqno[i] + d) \in Int
      BY Zenon, <1>1, <1>9, <3>1
    <3> QED BY Zenon, <1>1, <3>1, <3>2
  <2>3. ogm_seqno' \in [Iface -> SeqNo]
    <3>1. \A i \in Active(n) : [j \in Active(n) |-> Seq32(ogm_seqno[j] + d)][i] = Seq32(ogm_seqno[i] + d)
      OBVIOUS
    <3>2. ogm_seqno' = [i \in Iface |-> IF i \in Active(n) THEN Seq32(Seq32(ogm_seqno[i] + d) + 1)
                                                           ELSE ogm_seqno[i]]
      BY <2>1, <3>1
    <3> QED BY <1>8, <2>2, <3>2
  <2>4. left'.link = left.link /\ left'.order = left.order /\ DOMAIN left' = IvBounds /\ left'.jumps = left.jumps
    BY <2>1 DEF BoundsGood, IvBounds
  <2>5. DOMAIN priv' = Node /\ link' = link
    BY <2>1 DEF BoundsGood
  <2> QED BY <1>2, <2>3, <2>4, <2>5 DEF BoundsGood
<1>7. ASSUME BreakLink PROVE BoundsGood' /\ left'.link = left.link /\ left'.order = left.order
  <2>1. PICK l \in link : /\ link' = link \ {l, <<l[2], l[1]>>}
                          /\ left' = [left EXCEPT !.breaks = @ - 1]
                          /\ UNCHANGED <<priv, ogm_seqno, ran, heard>>
    BY <1>7 DEF BreakLink
  <2>2. left'.link = left.link /\ left'.order = left.order /\ DOMAIN left' = IvBounds /\ left'.jumps = left.jumps
    BY <2>1 DEF BoundsGood, IvBounds
  <2> QED BY <1>2, <2>1, <2>2 DEF BoundsGood
<1> QED BY <1>3, <1>4, <1>5, <1>6, <1>7 DEF IvNext

\* What the send of a packet adds to what was heard.
Received(h1) ==
  \A n \in Node : \A f \in DOMAIN priv[n].forw : \A lost, join :
    batadv_iv_send_outstanding_bat_ogm_packet(n, f, lost, join) =>
      \A j : \A x \in DOMAIN f.ogms :
        /\ <<f.out, j>> \in link /\ j \notin lost /\ f.ogms[x].orig = f.out
        /\ Seq32(ogm_seqno'[f.out] - f.ogms[x].seqno) \in 1..(TQ_LOCAL_WINDOW_SIZE + 1)
        => <<j, f.out, f.ogms[x].seqno>> \in h1

LEMMA StepFits ==
  ASSUME BoundsGood, [IvNext]_ivVars, NEW c, c.seqno = ogm_seqno, c.link = left.link, c.active = ActiveIfaces,
         NEW c1, c1.seqno = ogm_seqno', Later(c, c1), Received(c1.heard),
         \A m \in Node : NodeGood(c, m, priv[m]) /\ Unrevived(c, c1, priv[m])
  PROVE  \A m \in Node : NodeGood(c1, m, priv'[m])
<1>1. DEFAULT \notin c.active /\ ActiveIfaces \subseteq Iface
  BY ActiveFinite, IvConstants
<1>2. ogm_seqno \in [Iface -> SeqNo] /\ DOMAIN priv = Node
  BY DEF BoundsGood
<1>3. ASSUME NEW m \in Node, \A i \in Active(m) : ogm_seqno'[i] = ogm_seqno[i] PROVE NodeGood(c1, m, priv[m])
  <2>1. \A i \in OwnIfaces(c, m) : c1.seqno[i] = c.seqno[i] /\ c.seqno[i] \in SeqNo
    BY <1>1, <1>2, <1>3 DEF OwnIfaces, Active
  <2> QED BY <1>1, <2>1, NodeLater
<1>4. ASSUME NEW n \in Node, Send(n) PROVE \A m \in Node : NodeGood(c1, m, priv'[m])
  <2>1. PICK f \in BagToSet(priv[n].forw), join \in {FALSE, left.aggregate} :
          \E lost : batadv_iv_send_outstanding_bat_ogm_packet(n, f, lost, join)
    BY <1>4 DEF Send
  <2>4. PICK lost : batadv_iv_send_outstanding_bat_ogm_packet(n, f, lost, join)
    BY <2>1
  <2>2. f \in DOMAIN priv[n].forw
    BY DEF BagToSet
  <2>3. \A j : \A x \in DOMAIN f.ogms :
          <<f.out, j>> \in link /\ j \notin lost /\ f.ogms[x].orig = f.out /\ Recent(c1, f.out, f.ogms[x].seqno)
            => <<j, f.out, f.ogms[x].seqno>> \in c1.heard
    BY <2>4, <2>2 DEF Received, Recent
  <2> QED BY <2>4, <2>2, <2>3, SendFits
<1>5. ASSUME NEW n \in Node, EndProtection(n) PROVE \A m \in Node : NodeGood(c1, m, priv'[m])
  <2>1. PICK o \in DOMAIN priv[n].orig :
          LET is == priv[n].orig[o].ifinfo
          IN /\ priv' = [priv EXCEPT ![n].orig[o].ifinfo =
                           [out \in DOMAIN is |-> [is[out] EXCEPT !.protected = FALSE]]]
             /\ UNCHANGED <<ogm_seqno, link, ran, heard, left>>
    BY <1>5 DEF EndProtection
  <2> DEFINE is == priv[n].orig[o].ifinfo
             ifs == [out \in DOMAIN is |-> [is[out] EXCEPT !.protected = FALSE]]
             new == [priv[n] EXCEPT !.orig[o].ifinfo = ifs]
  <2>2. NodeGood(c1, n, priv[n])
    BY <1>3, <2>1
  <2>3. NodeGood(c1, n, new)
    BY <2>2, ProtectionFits
  <2>4. priv' = [priv EXCEPT ![n] = new]
    BY <2>1
  <2> HIDE DEF new
  <2> QED BY <1>2, <1>3, <2>1, <2>3, <2>4
<1>6. ASSUME NEW n \in Node, PurgeOrig(n) PROVE \A m \in Node : NodeGood(c1, m, priv'[m])
  <2>1. priv' = [priv EXCEPT ![n] = batadv_purge_orig_ref(priv[n])] /\ ogm_seqno' = ogm_seqno
    BY <1>6 DEF PurgeOrig
  <2>2. NodeGood(c1, n, priv[n])
    BY <1>3, <2>1
  <2>3. NodeGood(c1, n, batadv_purge_orig_ref(priv[n]))
    BY <2>2, PurgeFits
  <2> QED BY <1>2, <1>3, <2>1, <2>3
<1>7. ASSUME NEW n \in Node, RestartNode(n) PROVE \A m \in Node : NodeGood(c1, m, priv'[m])
  <2>1. PICK d \in left.jumps :
          LET seqno == [i \in Active(n) |-> Seq32(ogm_seqno[i] + d)]
          IN /\ priv' = [priv EXCEPT ![n] = batadv_iv_ogm_iface_enable(n, seqno)]
             /\ ogm_seqno' = [i \in Iface |-> IF i \in Active(n) THEN Seq32(seqno[i] + 1) ELSE ogm_seqno[i]]
    BY <1>7 DEF RestartNode
  <2> DEFINE seqno == [i \in Active(n) |-> Seq32(ogm_seqno[i] + d)]
  <2>2. \A i \in Active(n) : seqno[i] \in SeqNo
    <3> SUFFICES ASSUME NEW i \in Active(n) PROVE Seq32(ogm_seqno[i] + d) \in SeqNo
      OBVIOUS
    <3>1. ogm_seqno[i] \in SeqNo /\ d \in Nat
      BY <1>1, <1>2 DEF Active, BoundsGood
    <3>2. ogm_seqno[i] + d \in Int
      BY <3>1, IvConstants DEF SeqNo
    <3> QED BY <3>2, Seq32Type
  <2>3. c1.active = ActiveIfaces
    BY DEF Later
  <2>4. NodeGood(c1, n, batadv_iv_ogm_iface_enable(n, seqno))
    <3> HIDE DEF seqno
    <3> QED BY <2>2, <2>3, EnableFits
  <2>5. ASSUME NEW m \in Node, m # n PROVE NodeGood(c1, m, priv[m])
    <3>1. \A i \in Active(m) : i \notin Active(n) /\ i \in Iface
      BY <1>1, <2>5 DEF Active
    <3>2. \A i \in Active(m) : ogm_seqno'[i] = ogm_seqno[i]
      BY <2>1, <3>1
    <3> QED BY <1>3, <3>2
  <2>6. priv' = [priv EXCEPT ![n] = batadv_iv_ogm_iface_enable(n, seqno)]
    BY <2>1
  <2> HIDE DEF seqno
  <2> QED BY <1>2, <2>4, <2>5, <2>6
<1>8. ASSUME priv' = priv, ogm_seqno' = ogm_seqno PROVE \A m \in Node : NodeGood(c1, m, priv'[m])
  BY <1>3, <1>8
<1>9. BreakLink \/ UNCHANGED ivVars => priv' = priv /\ ogm_seqno' = ogm_seqno
  BY DEF BreakLink, ivVars
<1> QED BY <1>4, <1>5, <1>6, <1>7, <1>8, <1>9 DEF IvNext


-----------------------------------------------------------------------------
(* The theorems. *)

LEMMA InitFits ==
  ASSUME IvInit
  PROVE  BoundsGood /\ \A c : c.active = ActiveIfaces => \A m \in Node : NodeGood(c, m, priv[m])
<1>1. /\ left \in IvScenarios /\ DOMAIN left = IvBounds /\ left.order \in Seq(Iface)
      /\ left.link \subseteq ActiveIfaces \X ActiveIfaces
      /\ left.seqno \in [ActiveIfaces -> SeqNo] /\ left.jumps \subseteq Nat
  BY BatIvAssumption DEF IvInit, ActiveIfaces, SeqNo
<1>2. \A i \in ActiveIfaces : Seq32(left.seqno[i] + 1) \in SeqNo
  <2> SUFFICES ASSUME NEW i \in ActiveIfaces PROVE Seq32(left.seqno[i] + 1) \in SeqNo
    OBVIOUS
  <2>1. left.seqno[i] \in SeqNo
    BY <1>1
  <2>2. left.seqno[i] + 1 \in Int
    BY <2>1, IvConstants DEF SeqNo
  <2> QED BY Zenon, <2>2, Seq32Type
<1>3. 0 \in SeqNo
  BY IvConstants DEF SeqNo
<1>4. ogm_seqno \in [Iface -> SeqNo] /\ link \subseteq left.link /\ DOMAIN priv = Node
  BY <1>2, <1>3 DEF IvInit
<1>5. BoundsGood
  BY <1>1, <1>4 DEF BoundsGood
<1>6. ASSUME NEW c, c.active = ActiveIfaces, NEW m \in Node PROVE NodeGood(c, m, priv[m])
  <2>1. \A i \in Active(m) : left.seqno[i] \in SeqNo
    BY <1>1 DEF Active
  <2>2. priv[m] = batadv_iv_ogm_iface_enable(m, left.seqno)
    BY DEF IvInit
  <2> QED BY <1>5, <1>6, <2>1, <2>2, EnableFits
<1> QED BY <1>5, <1>6

LEMMA PacketIn ==
  ASSUME BoundsGood, NEW h, NEW m \in Node, NodeGood(Context(h), m, priv[m]), NEW f, f \in DOMAIN priv[m].forw
  PROVE  /\ f \in BagToSet(priv[m].forw) /\ f.out \in Iface /\ f.ogms \in Seq(Ogm)
         /\ \A x \in DOMAIN f.ogms : f.ogms[x] \in Ogm
<1>1. f \in BagToSet(priv[m].forw)
  BY DEF BagToSet
<1>2. PacketGood(Context(h), m, f)
  BY <1>1 DEF NodeGood
<1>3. f.out \in OwnIfaces(Context(h), m) /\ f.ogms \in Seq(Ogm)
  BY <1>2 DEF PacketGood
<1>4. f.out \in ActiveIfaces
  BY <1>3 DEF OwnIfaces, Context
<1>5. f.out \in Iface
  BY <1>4, ActiveFinite
<1> QED BY <1>1, <1>3, <1>5

\* What was heard after a packet was sent.
HeardNow(f, lost) ==
  LET sent == batadv_iv_ogm_send_to_if(f)
      to == {l[2] : l \in {l \in link : l[1] = f.out}} \ lost
  IN to \X {f.out} \X {sent[x].seqno : x \in {x \in DOMAIN sent : sent[x].orig = f.out}}

LEMMA HeardAfter ==
  ASSUME NEW n, NEW f, NEW lost, NEW join, batadv_iv_send_outstanding_bat_ogm_packet(n, f, lost, join)
  PROVE  heard' = {h \in heard \cup HeardNow(f, lost) :
                     Seq32(ogm_seqno'[h[2]] - h[3]) \in 1..(TQ_LOCAL_WINDOW_SIZE + 1)}
BY Zenon DEF batadv_iv_send_outstanding_bat_ogm_packet, HeardNow

LEMMA EchoStep ==
  ASSUME IvInv(heard), [IvNext]_ivVars, [NoneRevived]_ivVars
  PROVE  IvInv(heard)'
<1> DEFINE c == Context(heard)
           c1 == [heard |-> heard', seqno |-> ogm_seqno', link |-> left'.link, active |-> ActiveIfaces']
<1>1. BoundsGood /\ \A m \in Node : NodeGood(c, m, priv[m])
  BY DEF IvInv
<1>2. BoundsGood' /\ left'.link = left.link /\ left'.order = left.order
  BY <1>1, BoundsKept
<1>3. /\ c.seqno = ogm_seqno /\ c.link = left.link /\ c.active = ActiveIfaces /\ c.heard = heard
      /\ c1.seqno = ogm_seqno' /\ c1.link = left.link /\ c1.active = ActiveIfaces /\ c1.heard = heard'
  BY <1>2 DEF Context, ActiveIfaces
<1>4. ASSUME NEW x, NEW i, NEW q, <<x, i, q>> \in heard, Recent(c1, i, q) PROVE <<x, i, q>> \in heard'
  <2>1. CASE heard' = heard
    BY <1>4, <2>1
  <2>2. ASSUME NEW n, NEW f, NEW lost, NEW join, batadv_iv_send_outstanding_bat_ogm_packet(n, f, lost, join)
        PROVE  <<x, i, q>> \in heard'
    <3>1. Seq32(ogm_seqno'[i] - q) \in 1..(TQ_LOCAL_WINDOW_SIZE + 1)
      BY <1>3, <1>4 DEF Recent
    <3> DEFINE h == <<x, i, q>>
    <3>2. heard' = {k \in heard \cup HeardNow(f, lost) :
                      Seq32(ogm_seqno'[k[2]] - k[3]) \in 1..(TQ_LOCAL_WINDOW_SIZE + 1)}
      BY <2>2, HeardAfter
    <3>3. h[2] = i /\ h[3] = q
      OBVIOUS
    <3> HIDE DEF h
    <3> QED BY <1>4, <3>1, <3>2, <3>3 DEF h
  <2>3. heard' = heard \/ \E n, f, lost, join : batadv_iv_send_outstanding_bat_ogm_packet(n, f, lost, join)
    BY DEF IvNext, ivVars, Send, EndProtection, PurgeOrig, RestartNode, BreakLink
  <2> QED BY <2>1, <2>2, <2>3
<1>5. Later(c, c1)
  <2> HIDE DEF c, c1
  <2> QED BY <1>3, <1>4 DEF Later
<1>6. \A m \in Node : Unrevived(c, c1, priv[m])
  <2> SUFFICES ASSUME NEW m \in Node, NEW f \in DOMAIN priv[m].forw, NEW x \in DOMAIN f.ogms,
                      Recent(c1, f.ogms[x].orig, f.ogms[x].seqno)
               PROVE  Recent(c, f.ogms[x].orig, f.ogms[x].seqno)
    BY DEF Unrevived
  <2>1. f \in BagToSet(priv[m].forw)
    BY DEF BagToSet
  <2>2. Seq32(ogm_seqno'[f.ogms[x].orig] - f.ogms[x].seqno) \in 1..(TQ_LOCAL_WINDOW_SIZE + 1)
    BY <1>3 DEF Recent
  <2>3. Seq32(ogm_seqno[f.ogms[x].orig] - f.ogms[x].seqno) \in 1..(TQ_LOCAL_WINDOW_SIZE + 1)
    BY <2>1, <2>2 DEF NoneRevived, ivVars
  <2> QED BY <1>3, <2>3 DEF Recent
<1>7. Received(heard')
  <2> SUFFICES ASSUME NEW n \in Node, NEW f \in DOMAIN priv[n].forw, NEW lost, NEW join,
                      batadv_iv_send_outstanding_bat_ogm_packet(n, f, lost, join),
                      NEW j, NEW x \in DOMAIN f.ogms,
                      <<f.out, j>> \in link, j \notin lost, f.ogms[x].orig = f.out,
                      Seq32(ogm_seqno'[f.out] - f.ogms[x].seqno) \in 1..(TQ_LOCAL_WINDOW_SIZE + 1)
               PROVE  <<j, f.out, f.ogms[x].seqno>> \in heard'
    BY DEF Received
  <2> DEFINE sent == batadv_iv_ogm_send_to_if(f)
             to == {l[2] : l \in {l \in link : l[1] = f.out}} \ lost
             h == <<j, f.out, f.ogms[x].seqno>>
  <2>1. f.ogms[x] \in Ogm
    BY <1>1, PacketIn
  <2>2. DOMAIN sent = DOMAIN f.ogms /\ sent[x].orig = f.out /\ sent[x].seqno = f.ogms[x].seqno
    BY <2>1 DEF batadv_iv_ogm_send_to_if, Ogm
  <2>3. j \in to
    OBVIOUS
  <2>4. heard' = {k \in heard \cup HeardNow(f, lost) :
                    Seq32(ogm_seqno'[k[2]] - k[3]) \in 1..(TQ_LOCAL_WINDOW_SIZE + 1)}
    BY HeardAfter
  <2>5. HeardNow(f, lost)
          = to \X {f.out} \X {sent[y].seqno : y \in {y \in DOMAIN sent : sent[y].orig = f.out}}
    BY DEF HeardNow
  <2> HIDE DEF sent, to
  <2>6. h \in HeardNow(f, lost)
    BY <2>2, <2>3, <2>5
  <2>7. h[2] = f.out /\ h[3] = f.ogms[x].seqno
    OBVIOUS
  <2> HIDE DEF h
  <2>8. h \in heard'
    BY <2>4, <2>6, <2>7
  <2> QED BY <2>8 DEF h
<1>8. \A m \in Node : NodeGood(c1, m, priv'[m])
  <2> HIDE DEF c, c1
  <2> QED BY <1>1, <1>3, <1>5, <1>6, <1>7, StepFits
<1> QED BY <1>2, <1>8 DEF IvInv, Context

LEMMA TqStep ==
  ASSUME IvInv(Everything), [IvNext]_ivVars
  PROVE  IvInv(Everything)'
<1> DEFINE c == Context(Everything)
           c1 == [heard |-> Everything, seqno |-> ogm_seqno', link |-> left'.link, active |-> ActiveIfaces']
<1>1. BoundsGood /\ \A m \in Node : NodeGood(c, m, priv[m])
  BY DEF IvInv
<1>2. BoundsGood' /\ left'.link = left.link /\ left'.order = left.order
  BY <1>1, BoundsKept
<1>3. /\ c.seqno = ogm_seqno /\ c.link = left.link /\ c.active = ActiveIfaces /\ c.heard = Everything
      /\ c1.seqno = ogm_seqno' /\ c1.link = left.link /\ c1.active = ActiveIfaces /\ c1.heard = Everything
  BY <1>2 DEF Context, ActiveIfaces
<1>4. Later(c, c1)
  <2> HIDE DEF c, c1
  <2> QED BY <1>3 DEF Later
<1>5. ASSUME NEW m \in Node, NEW f \in DOMAIN priv[m].forw, NEW x \in DOMAIN f.ogms
      PROVE  f.out \in Iface /\ f.ogms[x].orig \in Iface /\ f.ogms[x].seqno \in SeqNo
  <2>1. f.out \in Iface /\ f.ogms[x] \in Ogm
    BY <1>1, <1>5, PacketIn
  <2> QED BY <2>1 DEF Ogm
<1>6. \A m \in Node : Unrevived(c, c1, priv[m])
  <2> HIDE DEF c, c1
  <2> QED BY <1>3, <1>5 DEF Unrevived, Everything
<1>7. Received(Everything)
  <2>1. \A i, j : <<i, j>> \in link => j \in Iface
    <3>1. link \subseteq ActiveIfaces \X ActiveIfaces /\ ActiveIfaces \subseteq Iface
      BY <1>1, ActiveFinite DEF BoundsGood
    <3> QED BY <3>1
  <2> QED BY <1>5, <2>1 DEF Received, Everything
<1>8. \A m \in Node : NodeGood(c1, m, priv'[m])
  <2> HIDE DEF c, c1
  <2> QED BY <1>1, <1>3, <1>4, <1>6, <1>7, StepFits
<1> QED BY <1>2, <1>8 DEF IvInv, Context

\* The OGM engine where no number of a queued OGM comes round again.
FreshSpec == IvSpec /\ [][NoneRevived]_ivVars

\* An echo is counted only for an OGM that the neighbour did receive on this link
\* (batadv_iv_ogm_process_reply()), for any topology, any losses and any order of OGMs,
\* as long as no OGM waits in a queue until its number has come round.
THEOREM EchoesAlwaysHeard == FreshSpec => []EchoesHeard
<1>1. IvInit => IvInv(heard)
  <2>1. Context(heard).active = ActiveIfaces
    BY DEF Context
  <2> QED BY <2>1, InitFits DEF IvInv
<1>2. IvInv(heard) /\ [IvNext /\ NoneRevived]_ivVars => IvInv(heard)'
  BY EchoStep
<1>3. IvInv(heard) => EchoesHeard
  <2> SUFFICES ASSUME IvInv(heard), NEW n \in Node, NEW o \in DOMAIN priv[n].orig,
                      NEW i \in DOMAIN priv[n].orig[o].ifinfo \ {DEFAULT}
               PROVE  LET oi == priv[n].orig[o].ifinfo[i] IN
                      /\ \A p \in oi.bcast_own : <<o, i, Seq32(ogm_seqno[i] - 2 - p)>> \in heard
                      /\ oi.bcast_own_sum = Cardinality(oi.bcast_own)
    BY DEF EchoesHeard
  <2> DEFINE c == Context(heard)
  <2>1. c.seqno = ogm_seqno /\ c.heard = heard
    BY DEF Context
  <2> HIDE DEF c
  <2>2. EntryGood(c, n, o, priv[n].orig[o])
    BY DEF IvInv, NodeGood, c
  <2>3. IfinfoGood(c, o, i, priv[n].orig[o].ifinfo[i])
    BY <2>2 DEF EntryGood
  <2> QED BY <2>1, <2>3 DEF IfinfoGood
<1>4. FreshSpec => IvInit /\ [][IvNext /\ NoneRevived]_ivVars
  BY PTL DEF FreshSpec, IvSpec
<1> QED BY <1>1, <1>2, <1>3, <1>4, PTL

\* No neighbour is credited with a better TQ than the shortest path from the originator
\* allows, and the packet count a link's TQ is computed from is the weight of its window
\* (batadv_iv_ogm_calc_tq(), batadv_iv_ogm_orig_update()): in every run, whatever is lost,
\* late, aggregated or numbered anew.
THEOREM TqAlwaysBounded == IvSpec => []TqBounded
<1>1. IvInit => IvInv(Everything)
  <2>1. Context(Everything).active = ActiveIfaces
    BY DEF Context
  <2> QED BY <2>1, InitFits DEF IvInv
<1>2. IvInv(Everything) /\ [IvNext]_ivVars => IvInv(Everything)'
  BY TqStep
<1>3. IvInv(Everything) => TqBounded
  <2> SUFFICES ASSUME IvInv(Everything), NEW n \in Node, NEW o \in DOMAIN priv[n].orig,
                      NEW k \in DOMAIN priv[n].orig[o].neigh,
                      NEW out \in DOMAIN priv[n].orig[o].neigh[k].ifinfo
               PROVE  LET ni == priv[n].orig[o].neigh[k].ifinfo[out] IN
                      /\ ni.real_packet_count = Cardinality(ni.real_bits)
                      /\ \A d \in 0..Cardinality(Node) : Owner[k[1]] \notin Within(left.link, Owner[o], d) =>
                           ni.tq_avg <= TqAfter(d + 1)
    BY DEF TqBounded
  <2> DEFINE c == Context(Everything)
             ni == priv[n].orig[o].neigh[k].ifinfo[out]
  <2>1. c.link = left.link
    BY DEF Context
  <2> HIDE DEF c
  <2>2. EntryGood(c, n, o, priv[n].orig[o])
    BY DEF IvInv, NodeGood, c
  <2>3. NeighGood(c, o, k, priv[n].orig[o].neigh[k])
    BY <2>2 DEF EntryGood
  <2>4. Rating(c, Owner[k[1]], o, ni)
    BY <2>3 DEF NeighGood
  <2>5. 0..Cardinality(Node) \subseteq Nat
    <3>1. IsFiniteSet(Node)
      <4>1. IsFiniteSet({Owner[i] : i \in Iface})
        <5> DEFINE f == [i \in Iface |-> Owner[i]]
        <5>1. f \in Surjection(Iface, {Owner[i] : i \in Iface})
          BY DEF Surjection
        <5> HIDE DEF f
        <5> QED BY <5>1, IvConstants, FS_Surjection
      <4> QED BY <4>1 DEF Node
    <3>2. Cardinality(Node) \in Nat
      BY <3>1, FS_CardinalityType
    <3> QED BY <3>2
  <2> HIDE DEF ni
  <2>6. ni.real_packet_count = Cardinality(ni.real_bits) /\ TqFits(c, Owner[k[1]], o, ni.tq_avg)
    BY <2>4 DEF Rating
  <2>7. \A d \in Nat : Owner[k[1]] \notin Within(left.link, Owner[o], d) => ni.tq_avg <= TqAfter(d + 1)
    BY <2>1, <2>6 DEF TqFits
  <2> QED BY <2>5, <2>6, <2>7 DEF ni
<1> QED BY <1>1, <1>2, <1>3, PTL DEF IvSpec

=============================================================================
