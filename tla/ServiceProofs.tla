---------------------------- MODULE ServiceProofs ----------------------------
(***************************************************************************)
(* Proofs about the services that a node offers on top of routing:         *)
(* fragmentation, the gateway client, the distributed ARP table and the    *)
(* throughput meter.                                                       *)
(*                                                                         *)
(* For any packets, sizes and number of chains, and whatever frames are    *)
(* lost, repeated and reordered, a packet that is put together again is    *)
(* one that was sent, and fragmentation implements the channel of module   *)
(* PacketChannel.  User space was told what gateway is selected.  The DHT  *)
(* selects the closest nodes, and a host is answered once.  What a test of *)
(* the throughput meter reports was received by the other node.            *)
(***************************************************************************)
EXTENDS Fragment, Gateway, Dat, TpMeter, FiniteSetTheorems, WellFoundedInduction, TLAPS

(* Fragmentation. *)

(* Numbers. *)

LEMMA LeastNumber ==
  ASSUME NEW S \in SUBSET Nat, S # {}
  PROVE  \E m \in S : \A x \in S : m <= x
<1> DEFINE R == OpToRel(<, Nat)
<1>1. IsWellFoundedOn(R, Nat)
  BY NatLessThanWellFounded
<1>2. \A x, y \in Nat : x < y => <<x, y>> \in R
  BY DEF OpToRel
<1> HIDE DEF R
<1>3. PICK m \in S : \A y \in S : ~(<<y, m>> \in R)
  BY <1>1, WFMin
<1>4. ASSUME NEW x \in S PROVE m <= x
  <2>1. x \in Nat /\ m \in Nat /\ ~(<<x, m>> \in R)
    BY <1>3
  <2>2. ~(x < m)
    BY <1>2, <2>1
  <2> QED BY <2>1, <2>2
<1> QED BY <1>4

LEMMA LeastIsMin ==
  ASSUME NEW S \in SUBSET Nat, S # {}
  PROVE  Min(S) \in S /\ \A x \in S : Min(S) <= x
BY LeastNumber DEF Min

\* Numbers on a circle: the next one is one step further.
LEMMA OneStepOn ==
  ASSUME NEW M \in Nat \ {0}, NEW x \in 0..(M - 1), NEW y \in 0..(M - 1), ((x - y) % M) + 1 < M
  PROVE  /\ (x + 1) % M \in 0..(M - 1)
         /\ (((x + 1) % M) - y) % M = ((x - y) % M) + 1
<1>1. (x + 1) % M = IF x + 1 = M THEN 0 ELSE x + 1
  OBVIOUS
<1>2. (x - y) % M = IF y <= x THEN x - y ELSE x - y + M
  OBVIOUS
<1>3. CASE x + 1 = M
  <2>1. y <= x /\ y # 0
    BY <1>2, <1>3
  <2>2. (0 - y) % M = M - y
    BY <2>1
  <2> QED BY <1>1, <1>2, <1>3, <2>1, <2>2
<1>4. CASE x + 1 # M
  <2>1. CASE y <= x
    BY <1>1, <1>2, <1>4, <2>1
  <2>2. CASE y > x
    <3>1. y # x + 1
      BY <1>2, <2>2
    <3>2. (x + 1 - y) % M = x + 1 - y + M
      BY <2>2, <3>1
    <3> QED BY <1>1, <1>2, <1>4, <2>2, <3>2
  <2> QED BY <2>1, <2>2
<1> QED BY <1>3, <1>4

-----------------------------------------------------------------------------
(* Sizes. *)

\* Packets that are sent in fragments.
Cut == {p \in FragPacket : Length[p] > Mtu["relay"]}

LenOf(p, no) == Smaller(FragmentSize(p), Length[p] - no * FragmentSize(p))
FromOf(p, no) == Length[p] - no * FragmentSize(p) - LenOf(p, no)

\* A packet has two fragments or more.
LEMMA FragmentSizes ==
  ASSUME NEW p \in Cut
  PROVE  /\ Length[p] \in Nat /\ FragmentSize(p) \in Nat \ {0} /\ LastFragment(p) \in Nat \ {0}
         /\ LastFragment(p) * FragmentSize(p) < Length[p]
         /\ Length[p] <= LastFragment(p) * FragmentSize(p) + FragmentSize(p)
<1> DEFINE a == Length[p] - 1
           d == Smaller(Mtu["relay"], FRAG_MAX_FRAG_SIZE) - HDR
           N == NumFragments(p)
           S == FragmentSize(p)
<1>1. a \in Nat /\ a \div d + 1 = N /\ a \div N + 1 = S /\ LastFragment(p) = a \div S /\ Length[p] = a + 1
  BY FragAssumption DEF Cut, NumFragments, FragmentSize, LastFragment
<1>2. d \in Nat \ {0} /\ d <= a
  BY FragAssumption DEF Cut, Smaller
<1> HIDE DEF a, d, N, S
<1>3. a \div d \in Nat \ {0}
  <2>1. a \div d \in Nat /\ a < (a \div d) * d + d
    BY <1>1, <1>2
  <2>2. a \div d # 0
    BY <1>1, <1>2, <2>1
  <2> QED BY <2>1, <2>2
<1>4. N \in Nat /\ N >= 2
  BY <1>1, <1>3
<1>5. a \div N \in Nat /\ a \div N + 1 <= a
  BY <1>1, <1>2, <1>4
<1>6. S \in Nat \ {0} /\ S <= a
  BY <1>1, <1>5
<1>7. a \div S \in Nat /\ (a \div S) * S <= a /\ a < (a \div S) * S + S
  BY <1>1, <1>6
<1>8. a \div S # 0
  BY <1>1, <1>6, <1>7
<1> QED BY <1>1, <1>6, <1>7, <1>8 DEF S
\* All fragments but the last have the same size, and they adjoin.
LEMMA FragmentPlaces ==
  ASSUME NEW p \in Cut, NEW no \in 0..LastFragment(p)
  PROVE  /\ LenOf(p, no) \in Nat \ {0} /\ FromOf(p, no) \in Nat
         /\ no < LastFragment(p) => LenOf(p, no) = FragmentSize(p)
         /\ no = LastFragment(p) => /\ LenOf(p, no) = Length[p] - LastFragment(p) * FragmentSize(p)
                                    /\ FromOf(p, no) = 0
         /\ no = 0 => FromOf(p, no) + LenOf(p, no) = Length[p]
         /\ no # 0 => FromOf(p, no) + LenOf(p, no) = FromOf(p, no - 1)
<1> DEFINE L == Length[p]
           S == FragmentSize(p)
           m == LastFragment(p)
<1>1. L \in Nat /\ S \in Nat \ {0} /\ m \in Nat \ {0} /\ m * S < L /\ L <= m * S + S /\ no \in Nat /\ no <= m
  BY FragmentSizes
<1>2. ASSUME NEW x \in Nat, x < m PROVE LenOf(p, x) = S /\ FromOf(p, x) = L - x * S - S
  <2>1. x * S + S <= m * S
    <3>1. x + 1 <= m /\ (x + 1) * S = x * S + S
      BY <1>1, <1>2
    <3>2. m = x + 1 + (m - x - 1) /\ m - x - 1 \in Nat
      BY <1>1, <1>2
    <3>3. (m - x - 1) * S \in Nat
      BY <1>1, <3>2
    <3>4. m * S = (x + 1) * S + (m - x - 1) * S
      BY <1>1, <1>2
    <3> QED BY <1>1, <3>1, <3>3, <3>4
  <2>2. x * S \in Nat /\ m * S \in Nat
    BY <1>1
  <2>3. ~(L - x * S < S)
    BY <1>1, <2>1, <2>2
  <2>4. LenOf(p, x) = S
    BY <1>1, <2>2, <2>3 DEF LenOf, Smaller
  <2>5. FromOf(p, x) = L - x * S - LenOf(p, x)
    BY DEF FromOf
  <2> QED BY <2>4, <2>5
<1>3. LenOf(p, m) = L - m * S /\ FromOf(p, m) = 0
  <2>1. m * S \in Nat
    BY <1>1
  <2>2. LenOf(p, m) = L - m * S
    BY <1>1, <2>1 DEF LenOf, Smaller
  <2>3. FromOf(p, m) = L - m * S - (L - m * S)
    BY <2>2 DEF FromOf
  <2> QED BY <1>1, <2>1, <2>2, <2>3
<1> HIDE DEF L, S, m
<1>4. m * S \in Nat /\ no * S \in Nat /\ (no - 1) * S = no * S - S
  BY <1>1
<1>5. CASE no = m
  <2>1. no # 0 /\ no - 1 \in Nat /\ no - 1 < m
    BY <1>1, <1>5
  <2>2. FromOf(p, no - 1) = L - (no - 1) * S - S
    BY <1>2, <2>1
  <2>3. FromOf(p, no - 1) = L - no * S
    BY <1>1, <1>4, <2>2
  <2>4. LenOf(p, no) \in Nat \ {0}
    BY <1>1, <1>3, <1>4, <1>5
  <2> QED BY <1>1, <1>3, <1>4, <1>5, <2>1, <2>3, <2>4 DEF L, S, m
<1>6. CASE no # m
  <2>1. no < m /\ LenOf(p, no) = S /\ FromOf(p, no) = L - no * S - S
    BY <1>1, <1>2, <1>6
  <2>2. FromOf(p, no) \in Nat
    <3>1. (no + 1) * S <= m * S
      <4>1. m * S = (no + 1) * S + (m - no - 1) * S /\ m - no - 1 \in Nat
        BY <1>1, <2>1
      <4>2. (m - no - 1) * S \in Nat /\ (no + 1) * S \in Nat
        BY <1>1, <4>1
      <4> QED BY <1>4, <4>1, <4>2
    <3>2. (no + 1) * S = no * S + S
      BY <1>1
    <3> QED BY <1>1, <1>4, <2>1, <3>1, <3>2
  <2>3. no = 0 => FromOf(p, no) + LenOf(p, no) = L
    BY <1>1, <1>4, <2>1
  <2>4. ASSUME no # 0 PROVE FromOf(p, no) + LenOf(p, no) = FromOf(p, no - 1)
    <3>1. no - 1 \in Nat /\ no - 1 < m
      BY <1>1, <2>1, <2>4
    <3>2. FromOf(p, no - 1) = L - (no - 1) * S - S
      BY <1>2, <3>1
    <3> QED BY <1>1, <1>4, <2>1, <3>2
  <2> QED BY <1>1, <2>1, <2>2, <2>3, <2>4, <1>6 DEF L, S, m
<1> QED BY <1>5, <1>6

\* The sum of the sizes of the fragments N of a packet.
SizeOf(p, N) == Cardinality(N) * FragmentSize(p)
                - (IF LastFragment(p) \in N THEN FragmentSize(p) - LenOf(p, LastFragment(p)) ELSE 0)

LEMMA Numbers ==
  ASSUME NEW p \in Cut
  PROVE  IsFiniteSet(0..LastFragment(p)) /\ Cardinality(0..LastFragment(p)) = LastFragment(p) + 1
<1>1. LastFragment(p) \in Nat
  BY FragmentSizes
<1> QED BY <1>1, FS_Interval

LEMMA SizeOfOne ==
  ASSUME NEW p \in Cut, NEW no \in 0..LastFragment(p)
  PROVE  SizeOf(p, {no}) = LenOf(p, no)
<1>1. Cardinality({no}) = 1
  BY FS_Singleton
<1>2. FragmentSize(p) \in Nat /\ LastFragment(p) \in Nat /\ LenOf(p, no) \in Nat
  BY FragmentSizes, FragmentPlaces
<1>3. CASE no = LastFragment(p)
  BY <1>1, <1>2, <1>3 DEF SizeOf
<1>4. CASE no # LastFragment(p)
  <2>1. LenOf(p, no) = FragmentSize(p)
    BY <1>2, <1>4, FragmentPlaces
  <2> QED BY <1>1, <1>2, <1>4, <2>1 DEF SizeOf
<1> QED BY <1>3, <1>4

LEMMA SizeGrows ==
  ASSUME NEW p \in Cut, NEW N \in SUBSET (0..LastFragment(p)), NEW no \in 0..LastFragment(p), no \notin N
  PROVE  SizeOf(p, N \cup {no}) = SizeOf(p, N) + LenOf(p, no) /\ SizeOf(p, N) \in Int
<1> DEFINE S == FragmentSize(p)
           m == LastFragment(p)
           c == Cardinality(N)
<1>1. IsFiniteSet(N) /\ c \in Nat /\ Cardinality(N \cup {no}) = c + 1
  BY Numbers, FS_Subset, FS_CardinalityType, FS_AddElement
<1>2. S \in Nat /\ m \in Nat /\ LenOf(p, no) \in Nat /\ LenOf(p, m) \in Nat
  BY FragmentSizes, FragmentPlaces
<1>3. (no # m => LenOf(p, no) = S)
  BY <1>2, FragmentPlaces
<1>4. SizeOf(p, N) = c * S - (IF m \in N THEN S - LenOf(p, m) ELSE 0)
  BY DEF SizeOf
<1>5. SizeOf(p, N \cup {no}) = (c + 1) * S - (IF m \in N \cup {no} THEN S - LenOf(p, m) ELSE 0)
  BY <1>1 DEF SizeOf
<1> HIDE DEF S, m, c
<1>6. (c + 1) * S = c * S + S /\ c * S \in Nat
  BY <1>1, <1>2
<1> QED BY <1>2, <1>3, <1>4, <1>5, <1>6

\* Fragments that have the size of the packet are all there are.
LEMMA SizeComplete ==
  ASSUME NEW p \in Cut, NEW N \in SUBSET (0..LastFragment(p)), SizeOf(p, N) = Length[p]
  PROVE  N = 0..LastFragment(p)
<1> DEFINE S == FragmentSize(p)
           m == LastFragment(p)
           c == Cardinality(N)
           L == Length[p]
<1>1. IsFiniteSet(N) /\ c \in Nat /\ c <= m + 1
  <2>1. IsFiniteSet(0..m) /\ Cardinality(0..m) = m + 1
    BY Numbers
  <2>2. IsFiniteSet(N) /\ c <= Cardinality(0..m)
    BY <2>1, FS_Subset
  <2> QED BY <2>1, <2>2, FS_CardinalityType
<1>2. L \in Nat /\ S \in Nat \ {0} /\ m \in Nat /\ m * S < L /\ m * S \in Nat
  BY FragmentSizes
<1>3. LenOf(p, m) \in Nat /\ LenOf(p, m) <= S
  <2>1. LenOf(p, m) \in Nat /\ LenOf(p, m) = L - m * S
    BY <1>2, FragmentPlaces
  <2>2. L <= m * S + S
    BY FragmentSizes
  <2> QED BY <1>2, <2>1, <2>2
<1>4. L <= c * S
  <2>1. L = c * S - (IF m \in N THEN S - LenOf(p, m) ELSE 0)
    BY DEF SizeOf
  <2>2. c * S \in Nat
    BY <1>1, <1>2
  <2> QED BY <1>2, <1>3, <2>1, <2>2
<1>5. c = m + 1
  <2>1. SUFFICES ASSUME c <= m PROVE FALSE
    BY <1>1, <1>2
  <2>2. m - c \in Nat /\ m * S = c * S + (m - c) * S
    BY <1>1, <1>2, <2>1
  <2>3. (m - c) * S \in Nat /\ c * S \in Nat
    BY <1>1, <1>2, <2>2
  <2> QED BY <1>2, <1>4, <2>2, <2>3
<1> QED BY <1>5, Numbers, FS_Subset

-----------------------------------------------------------------------------
(* Chains. *)

Buckets == 0..(FRAG_BUFFER_COUNT - 1)
Seqno == 0..(FRAG_SEQS - 1)
Frag == [to : FragNode, packet : FragPacket, seqno : Seqno, no : Nat, total_size : Nat, from : Nat, len : Nat]
Chain == [seqno : Seqno, fragment_list : Seq(Frag), size : Nat, total_size : Nat]

\* A fragment as it was cut.
Genuine(f) ==
  /\ f \in Frag /\ f.packet \in Cut /\ f.no \in 0..LastFragment(f.packet)
  /\ f.total_size = Length[f.packet]
  /\ f.len = LenOf(f.packet, f.no) /\ f.from = FromOf(f.packet, f.no)

\* The node that puts a packet together.
Place(p) == IF Length[p] > Mtu["dest"] THEN "dest" ELSE "relay"

Nos(list) == {list[i].no : i \in DOMAIN list}

\* The fragments of one packet, from the highest number to the lowest.
InOrder(list) ==
  \A i, j \in DOMAIN list : list[i].packet = list[j].packet /\ (i < j => list[i].no > list[j].no)

\* A chain of node n that fragments with sequence number b go to.
SoundChain(c, n, b) ==
  /\ c \in Chain
  /\ \A i \in DOMAIN c.fragment_list :
       LET f == c.fragment_list[i] IN
       /\ Genuine(f) /\ f.to = n /\ Place(f.packet) = n
       /\ f.seqno = c.seqno /\ f.seqno % FRAG_BUFFER_COUNT = b
  /\ InOrder(c.fragment_list)
  /\ c.fragment_list # <<>> => /\ c.size = SizeOf(c.fragment_list[1].packet, Nos(c.fragment_list))
                               /\ c.total_size = Length[c.fragment_list[1].packet]

\* t is s with e put in at a place.
PutIn(S, s, at, e, t) ==
  /\ t \in Seq(S) /\ Len(t) = Len(s) + 1
  /\ \A i \in 1..(Len(s) + 1) :
       t[i] = IF i < at THEN s[i] ELSE IF i = at THEN e ELSE s[i - 1]

LEMMA Insertion ==
  ASSUME NEW S, NEW s \in Seq(S), NEW at \in 1..(Len(s) + 1), NEW e \in S
  PROVE  PutIn(S, s, at, e, InsertAt(s, at, e))
<1> DEFINE a == SubSeq(s, 1, at - 1)
           z == SubSeq(s, at, Len(s))
           t == InsertAt(s, at, e)
<1>1. a \in Seq(S) /\ Len(a) = at - 1 /\ \A i \in 1..(at - 1) : a[i] = s[i]
  OBVIOUS
<1>2. z \in Seq(S) /\ Len(z) = Len(s) - at + 1 /\ \A i \in 1..(Len(s) - at + 1) : z[i] = s[at + i - 1]
  OBVIOUS
<1> DEFINE u == a \o <<e>>
<1>3. t = u \o z
  BY DEF InsertAt
<1> HIDE DEF a, z, t
<1>4. u \in Seq(S) /\ Len(u) = at /\ \A i \in 1..at : u[i] = IF i < at THEN s[i] ELSE e
  BY <1>1
<1> HIDE DEF u
<1>5. t \in Seq(S) /\ Len(t) = Len(s) + 1
  <2>1. Len(s) \in Nat /\ at \in Int
    OBVIOUS
  <2>2. u \o z \in Seq(S) /\ Len(u \o z) = Len(u) + Len(z)
    BY <1>2, <1>4
  <2>3. Len(t) = at + (Len(s) - at + 1)
    BY <1>2, <1>3, <1>4, <2>2
  <2> QED BY <1>3, <2>1, <2>2, <2>3
<1>6. ASSUME NEW i \in 1..(Len(s) + 1)
      PROVE  t[i] = IF i < at THEN s[i] ELSE IF i = at THEN e ELSE s[i - 1]
  <2>1. CASE i <= at
    BY <1>2, <1>3, <1>4, <2>1
  <2>2. CASE i > at
    <3>1. t[i] = z[i - at]
      BY SMTT(30), <1>2, <1>3, <1>4, <2>2
    <3>2. i - at \in 1..(Len(s) - at + 1)
      BY <2>2
    <3> QED BY <1>2, <2>2, <3>1, <3>2
  <2> QED BY <2>1, <2>2
<1>7. PutIn(S, s, at, e, t)
  BY <1>5, <1>6 DEF PutIn
<1> QED BY <1>7 DEF t

\* Where a fragment belongs in a list that is in order.
LEMMA InsertionInOrder ==
  ASSUME NEW s \in Seq(Frag), InOrder(s), NEW f \in Frag,
         \A i \in DOMAIN s : s[i].packet = f.packet /\ s[i].no # f.no
  PROVE  LET lower == {i \in DOMAIN s : s[i].no < f.no}
             at == IF lower = {} THEN Len(s) + 1 ELSE Min(lower)
             t == InsertAt(s, at, f)
         IN /\ t \in Seq(Frag) /\ t # <<>> /\ InOrder(t) /\ t[1].packet = f.packet
            /\ Nos(t) = Nos(s) \cup {f.no}
            /\ \A i \in DOMAIN t : t[i] = f \/ \E j \in DOMAIN s : t[i] = s[j]
            /\ \E i \in DOMAIN t : t[i] = f
            /\ \A j \in DOMAIN s : \E i \in DOMAIN t : t[i] = s[j]
<1> DEFINE lower == {i \in DOMAIN s : s[i].no < f.no}
           at == IF lower = {} THEN Len(s) + 1 ELSE Min(lower)
           t == InsertAt(s, at, f)
<1>1. DOMAIN s = 1..Len(s) /\ Len(s) \in Nat /\ \A i \in DOMAIN s : s[i] \in Frag
  OBVIOUS
<1>2. /\ at \in 1..(Len(s) + 1)
      /\ \A i \in DOMAIN s : i < at => s[i].no > f.no
      /\ \A i \in DOMAIN s : i >= at => s[i].no < f.no
  <2>1. \A i \in DOMAIN s : s[i].no \in Nat /\ f.no \in Nat /\ s[i].no # f.no
    BY <1>1 DEF Frag
  <2>2. CASE lower = {}
    BY <1>1, <2>1, <2>2
  <2>3. CASE lower # {}
    <3>1. lower \in SUBSET Nat
      BY <1>1
    <3>2. at \in lower /\ \A i \in lower : at <= i
      BY <2>3, <3>1, LeastIsMin
    <3>3. \A i \in DOMAIN s : i < at => s[i].no > f.no
      <4> SUFFICES ASSUME NEW i \in DOMAIN s, i < at PROVE s[i].no > f.no
        OBVIOUS
      <4>1. i \notin lower /\ i \in Nat /\ at \in Nat
        <5>1. at \in Nat /\ i \in Nat
          BY <1>1, <3>1, <3>2
        <5>2. i \in lower => at <= i
          BY <3>2
        <5> QED BY <5>1, <5>2
      <4>2. ~(s[i].no < f.no)
        BY <4>1
      <4> QED BY <2>1, <4>2
    <3>4. \A i \in DOMAIN s : i >= at => s[i].no < f.no
      <4> SUFFICES ASSUME NEW i \in DOMAIN s, i >= at PROVE s[i].no < f.no
        OBVIOUS
      <4>1. CASE i = at
        BY <3>2, <4>1
      <4>2. CASE i > at
        <5>1. s[at].no > s[i].no /\ s[at].no < f.no /\ at \in DOMAIN s
          BY <3>2, <4>2, <1>1 DEF InOrder
        <5> QED BY SMTT(30), <2>1, <5>1
      <4> QED BY <1>1, <3>2, <4>1, <4>2
    <3> QED BY <1>1, <3>2, <3>3, <3>4
  <2> QED BY <2>2, <2>3
<1> HIDE DEF at, lower
<1>3. /\ t \in Seq(Frag) /\ Len(t) = Len(s) + 1
      /\ \A i \in 1..(Len(s) + 1) :
           t[i] = IF i < at THEN s[i] ELSE IF i = at THEN f ELSE s[i - 1]
  <2>1. at \in 1..(Len(s) + 1) /\ s \in Seq(Frag) /\ f \in Frag
    BY <1>2
  <2>2. PutIn(Frag, s, at, f, InsertAt(s, at, f))
    BY Zenon, <2>1, Insertion
  <2> QED BY <2>2 DEF PutIn, t
<1> HIDE DEF t
<1>4. DOMAIN t = 1..(Len(s) + 1) /\ t # <<>>
  BY <1>1, <1>3
<1>5. \A i \in DOMAIN t : t[i] = f \/ \E j \in DOMAIN s : t[i] = s[j]
  <2> SUFFICES ASSUME NEW i \in DOMAIN t PROVE t[i] = f \/ \E j \in DOMAIN s : t[i] = s[j]
    OBVIOUS
  <2>1. CASE i < at
    BY <1>1, <1>2, <1>3, <1>4, <2>1
  <2>2. CASE i = at
    BY <1>3, <1>4, <2>2
  <2>3. CASE i > at
    <3>1. i - 1 \in DOMAIN s /\ t[i] = s[i - 1]
      BY <1>1, <1>2, <1>3, <1>4, <2>3
    <3> QED BY <3>1
  <2> QED BY <1>2, <1>4, <2>1, <2>2, <2>3
<1>6. t[at] = f /\ at \in DOMAIN t
  BY <1>2, <1>3, <1>4
<1>7. ASSUME NEW j \in DOMAIN s PROVE \E i \in DOMAIN t : t[i] = s[j]
  <2>1. CASE j < at
    BY <1>1, <1>2, <1>3, <1>4, <2>1
  <2>2. CASE j >= at
    <3>1. j + 1 \in DOMAIN t /\ t[j + 1] = s[j]
      BY <1>1, <1>2, <1>3, <1>4, <2>2
    <3> QED BY <3>1
  <2> QED BY <1>1, <1>2, <2>1, <2>2
<1>8. \A i \in DOMAIN t : t[i].packet = f.packet
  BY <1>5
<1>9. ASSUME NEW i \in DOMAIN t, NEW j \in DOMAIN t, i < j PROVE t[i].no > t[j].no
  <2>1. \A x \in DOMAIN s : s[x].no \in Nat /\ f.no \in Nat
    BY <1>1 DEF Frag
  <2>2. CASE j < at
    <3>1. i \in DOMAIN s /\ j \in DOMAIN s /\ t[i] = s[i] /\ t[j] = s[j]
      BY <1>1, <1>2, <1>3, <1>4, <1>9, <2>2
    <3> QED BY <1>9, <3>1 DEF InOrder
  <2>3. CASE j = at
    <3>1. i \in DOMAIN s /\ t[i] = s[i] /\ t[j] = f
      BY <1>1, <1>2, <1>3, <1>4, <1>9, <2>3
    <3> QED BY <1>2, <1>9, <2>3, <3>1
  <2>4. CASE j > at
    <3>1. j - 1 \in DOMAIN s /\ t[j] = s[j - 1]
      BY <1>1, <1>2, <1>3, <1>4, <2>4
    <3>2. CASE i < at
      <4>1. i \in DOMAIN s /\ t[i] = s[i] /\ i < j - 1
        BY <1>1, <1>2, <1>3, <1>4, <2>4, <3>2
      <4> QED BY <3>1, <4>1 DEF InOrder
    <3>3. CASE i = at
      <4>1. t[i] = f /\ s[j - 1].no < f.no
        BY <1>1, <1>2, <1>3, <1>4, <2>4, <3>1, <3>3
      <4> QED BY <2>1, <3>1, <4>1
    <3>4. CASE i > at
      <4>1. i - 1 \in DOMAIN s /\ t[i] = s[i - 1] /\ i - 1 < j - 1
        BY <1>1, <1>2, <1>3, <1>4, <1>9, <3>4
      <4> QED BY <3>1, <4>1 DEF InOrder
    <3> QED BY <1>2, <1>4, <3>2, <3>3, <3>4
  <2> QED BY <1>2, <1>4, <2>2, <2>3, <2>4
<1>10. InOrder(t)
  BY <1>8, <1>9 DEF InOrder
<1>11. Nos(t) = Nos(s) \cup {f.no}
  <2>1. ASSUME NEW x \in Nos(t) PROVE x \in Nos(s) \cup {f.no}
    BY <1>5 DEF Nos
  <2>2. ASSUME NEW x \in Nos(s) \cup {f.no} PROVE x \in Nos(t)
    BY <1>6, <1>7 DEF Nos
  <2> QED BY <2>1, <2>2
<1>12. t[1].packet = f.packet
  BY <1>1, <1>4, <1>8
<1> QED BY <1>3, <1>4, <1>5, <1>6, <1>7, <1>10, <1>11, <1>12 DEF t, at, lower

\* All fragments of a packet, one after the other, are the packet.
LEMMA MergeIsPacket ==
  ASSUME NEW p \in Cut, NEW list \in Seq(Frag), list # <<>>, InOrder(list),
         \A i \in DOMAIN list : Genuine(list[i]) /\ list[i].packet = p,
         Nos(list) = 0..LastFragment(p)
  PROVE  batadv_frag_merge_packets(list) = p
<1> DEFINE m == LastFragment(p)
           k == Len(list)
<1>1. k \in Nat \ {0} /\ DOMAIN list = 1..k
  OBVIOUS
<1>2. m \in Nat /\ Length[p] \in Nat
  BY FragmentSizes
<1>3. \A i \in DOMAIN list :
        list[i].no \in 0..m /\ list[i].len = LenOf(p, list[i].no) /\ list[i].from = FromOf(p, list[i].no)
  BY DEF Genuine
<1>4. \A i, j \in DOMAIN list : i < j => list[i].no > list[j].no
  BY DEF InOrder
<1>5. \A no \in 0..m : \E i \in DOMAIN list : list[i].no = no
  BY DEF Nos
<1> HIDE DEF m, k
<1>6. list[1].no = m
  <2>1. PICK i \in DOMAIN list : list[i].no = m
    BY <1>2, <1>5
  <2>2. 1 \in DOMAIN list /\ list[1].no \in 0..m /\ (1 < i => list[1].no > list[i].no)
    BY <1>1, <1>3, <1>4
  <2>3. i >= 1
    BY <1>1
  <2> QED BY <1>1, <1>2, <2>1, <2>2, <2>3
<1>7. list[k].no = 0
  <2>0. 0 \in 0..m
    BY <1>2
  <2>1. PICK i \in DOMAIN list : list[i].no = 0
    BY Zenon, <1>5, <2>0
  <2>2. k \in DOMAIN list /\ list[k].no \in 0..m /\ (i < k => list[i].no > list[k].no)
    BY <1>1, <1>3, <1>4
  <2>3. i <= k
    BY <1>1
  <2> QED BY <1>1, <1>2, <2>1, <2>2, <2>3
<1>8. ASSUME NEW i \in 1..(k - 1) PROVE list[i + 1].no = list[i].no - 1
  <2>1. i \in DOMAIN list /\ i + 1 \in DOMAIN list /\ i < i + 1
    BY <1>1
  <2>2. list[i].no \in 0..m /\ list[i + 1].no \in 0..m /\ list[i].no > list[i + 1].no
    BY <1>3, <1>4, <2>1
  <2>3. list[i].no - 1 \in 0..m
    BY SMTT(30), <1>2, <2>2
  <2>4. PICK j \in DOMAIN list : list[j].no = list[i].no - 1
    BY <1>5, <2>3
  <2>5. j \in Nat /\ i \in Nat
    BY <1>1
  <2>6. ~(j < i) /\ j # i
    BY <1>4, <2>1, <2>2, <2>4
  <2>7. ~(i + 1 < j)
    <3>1. SUFFICES ASSUME i + 1 < j PROVE FALSE
      OBVIOUS
    <3>2. list[i + 1].no > list[j].no
      BY <1>4, <2>1, <3>1
    <3> QED BY <1>2, <2>2, <2>4, <3>2
  <2>8. j = i + 1
    BY <2>5, <2>6, <2>7
  <2> QED BY <2>4, <2>8
<1>9. list[1].from = 0
  <2>1. m \in 0..LastFragment(p) /\ m = LastFragment(p) /\ 1 \in DOMAIN list
    BY <1>1, <1>2 DEF m
  <2> QED BY <1>3, <1>6, <2>1, FragmentPlaces
<1>10. list[k].from + list[k].len = Length[p]
  <2>1. 0 \in 0..LastFragment(p) /\ k \in DOMAIN list
    BY <1>1, <1>2 DEF m
  <2>2. FromOf(p, 0) + LenOf(p, 0) = Length[p]
    BY <2>1, FragmentPlaces
  <2> QED BY <1>3, <1>7, <2>1, <2>2
<1>11. ASSUME NEW i \in 1..(k - 1) PROVE list[i].from + list[i].len = list[i + 1].from
  <2>1. i \in DOMAIN list /\ i + 1 \in DOMAIN list /\ list[i].no \in 0..m /\ list[i + 1].no \in 0..m
    BY <1>1, <1>3
  <2>2. list[i + 1].no = list[i].no - 1
    BY <1>8
  <2>3. list[i].no # 0 /\ list[i].no \in 0..LastFragment(p)
    BY <1>2, <2>1, <2>2 DEF m
  <2>4. FromOf(p, list[i].no) + LenOf(p, list[i].no) = FromOf(p, list[i].no - 1)
    BY <2>3, FragmentPlaces
  <2> QED BY <1>3, <2>1, <2>2, <2>4
<1>12. 1 \in DOMAIN list /\ k \in DOMAIN list /\ \A i \in 1..(k - 1) : i \in DOMAIN list /\ i + 1 \in DOMAIN list
  BY <1>1
<1>13. list[1].packet = p /\ list[k].packet = p
       /\ \A i \in 1..(k - 1) : list[i].packet = list[i + 1].packet
  BY <1>12
<1> QED BY <1>9, <1>10, <1>11, <1>13 DEF batadv_frag_merge_packets, k

\* A fragment that a chain does not have, in a chain that has room for it.
LEMMA InsertedSound ==
  ASSUME NEW n \in FragNode, NEW b \in Buckets, NEW c, SoundChain(c, n, b),
         NEW f, Genuine(f), f.to = n, Place(f.packet) = n, f.seqno % FRAG_BUFFER_COUNT = b,
         \A i \in DOMAIN c.fragment_list : c.fragment_list[i].seqno = f.seqno =>
             c.fragment_list[i].packet = f.packet /\ c.fragment_list[i].no # f.no,
         c.seqno = f.seqno => c.fragment_list # <<>>
  PROVE  LET d == Inserted(c, f) IN
         /\ SoundChain(d, n, b) /\ d.seqno = f.seqno
         /\ d.fragment_list # <<>> /\ d.fragment_list[1].packet = f.packet
         /\ \A i \in DOMAIN d.fragment_list :
              d.fragment_list[i] = f \/ \E j \in DOMAIN c.fragment_list : d.fragment_list[i] = c.fragment_list[j]
<1> DEFINE s == c.fragment_list
           p == f.packet
           lower == {i \in DOMAIN s : s[i].no < f.no}
           at == IF lower = {} THEN Len(s) + 1 ELSE Min(lower)
           t == InsertAt(s, at, f)
           d == Inserted(c, f)
<1>1. c \in Chain /\ s \in Seq(Frag) /\ c.size \in Nat /\ c.total_size \in Nat
  BY DEF SoundChain, Chain
<1>2. /\ f \in Frag /\ p \in Cut /\ f.no \in 0..LastFragment(p) /\ f.len = LenOf(p, f.no) /\ f.len \in Nat
      /\ f.seqno \in Seqno /\ f.total_size = Length[p] /\ f.total_size \in Nat /\ f.no \in Nat
  BY DEF Genuine, Frag
<1>3. CASE c.seqno = f.seqno
  <2>1. \A i \in DOMAIN s : s[i].packet = p /\ s[i].no # f.no
    BY <1>3 DEF SoundChain
  <2>2. InOrder(s)
    BY DEF SoundChain
  <2>3. /\ t \in Seq(Frag) /\ t # <<>> /\ InOrder(t) /\ t[1].packet = p
        /\ Nos(t) = Nos(s) \cup {f.no}
        /\ \A i \in DOMAIN t : t[i] = f \/ \E j \in DOMAIN s : t[i] = s[j]
    BY <1>1, <1>2, <2>1, <2>2, InsertionInOrder
  <2>4. s # <<>> /\ 1 \in DOMAIN s
    BY <1>1, <1>3
  <2>5. c.size = SizeOf(p, Nos(s)) /\ c.total_size = Length[p]
    BY <2>1, <2>4 DEF SoundChain
  <2>6. Nos(s) \in SUBSET (0..LastFragment(p)) /\ f.no \notin Nos(s)
    BY <2>1 DEF Nos, SoundChain, Genuine
  <2> HIDE DEF t, lower, at
  <2>7. c.size + f.len = SizeOf(p, Nos(t)) /\ c.size + f.len \in Nat
    <3>1. SizeOf(p, Nos(s) \cup {f.no}) = SizeOf(p, Nos(s)) + LenOf(p, f.no)
      BY <1>2, <2>6, SizeGrows
    <3> QED BY <1>1, <1>2, <2>3, <2>5, <3>1
  <2>8. d = [c EXCEPT !.fragment_list = t, !.size = c.size + f.len]
    BY <1>3 DEF Inserted, batadv_frag_init_chain, t, at, lower
  <2> HIDE DEF d
  <2>9. /\ d.fragment_list = t /\ d.size = c.size + f.len /\ d.total_size = c.total_size
        /\ d.seqno = c.seqno /\ d \in Chain
    BY <1>1, <2>3, <2>7, <2>8 DEF Chain
  <2>10. \A i \in DOMAIN t :
           Genuine(t[i]) /\ t[i].to = n /\ Place(t[i].packet) = n
           /\ t[i].seqno = c.seqno /\ t[i].seqno % FRAG_BUFFER_COUNT = b
    BY <1>3, <2>3 DEF SoundChain
  <2>11. SoundChain(d, n, b)
    BY <2>3, <2>5, <2>7, <2>9, <2>10 DEF SoundChain
  <2>12. /\ SoundChain(d, n, b) /\ d.seqno = f.seqno
         /\ d.fragment_list # <<>> /\ d.fragment_list[1].packet = p
         /\ \A i \in DOMAIN d.fragment_list :
              d.fragment_list[i] = f \/ \E j \in DOMAIN s : d.fragment_list[i] = s[j]
    BY <1>3, <2>3, <2>9, <2>11
  <2> QED BY <2>12 DEF d
<1>4. CASE c.seqno # f.seqno
  <2>1. d = [seqno |-> f.seqno, fragment_list |-> <<f>>, size |-> f.len, total_size |-> f.total_size]
    <3> DEFINE i == batadv_frag_init_chain(c, f)
    <3>1. i = [seqno |-> f.seqno, fragment_list |-> <<>>, size |-> 0, total_size |-> f.total_size]
      BY <1>4 DEF batadv_frag_init_chain
    <3>2. d = [i EXCEPT !.fragment_list = <<f>>, !.size = f.len]
      BY <1>4 DEF Inserted
    <3> HIDE DEF i, d
    <3> QED BY <3>1, <3>2
  <2>2. /\ d.fragment_list = <<f>> /\ d.size = f.len /\ d.total_size = Length[p]
        /\ d.seqno = f.seqno /\ d \in Chain
    BY <1>2, <2>1 DEF Chain
  <2> HIDE DEF d
  <2>3. DOMAIN <<f>> = {1} /\ <<f>>[1] = f /\ <<f>> # <<>>
    OBVIOUS
  <2>4. Nos(<<f>>) = {f.no} /\ InOrder(<<f>>)
    BY <2>3 DEF Nos, InOrder
  <2>5. f.len = SizeOf(p, {f.no})
    BY <1>2, SizeOfOne
  <2>6. SoundChain(d, n, b)
    BY <2>2, <2>3, <2>4, <2>5 DEF SoundChain
  <2> QED BY <2>2, <2>3, <2>6 DEF d
<1> QED BY <1>3, <1>4

\* What a fragment does to its chain; the fragments that are put together are all of
\* the packet's.
LEMMA InsertSound ==
  ASSUME NEW n \in FragNode, NEW b \in Buckets, NEW c, SoundChain(c, n, b),
         NEW f, Genuine(f), f.to = n, Place(f.packet) = n, f.seqno % FRAG_BUFFER_COUNT = b,
         \A i \in DOMAIN c.fragment_list :
           c.fragment_list[i].seqno = f.seqno => c.fragment_list[i].packet = f.packet
  PROVE  LET r == batadv_frag_insert_packet(c, f) IN
         /\ SoundChain(r.chain, n, b)
         /\ \A i \in DOMAIN r.chain.fragment_list :
              \/ r.chain.fragment_list[i] = f
              \/ \E j \in DOMAIN c.fragment_list : r.chain.fragment_list[i] = c.fragment_list[j]
         /\ r.out # <<>> =>
              /\ batadv_frag_merge_packets(r.out) = f.packet /\ r.chain.fragment_list = <<>>
              /\ \A no \in 0..LastFragment(f.packet) :
                   no = f.no \/ \E j \in DOMAIN c.fragment_list :
                                  c.fragment_list[j].packet = f.packet /\ c.fragment_list[j].no = no
<1> DEFINE s == c.fragment_list
           p == f.packet
           d == Inserted(c, f)
           emptied == [d EXCEPT !.fragment_list = <<>>, !.size = 0]
           r == batadv_frag_insert_packet(c, f)
           known == c.seqno = f.seqno /\ (s = <<>> \/ \E i \in DOMAIN s : s[i].no = f.no)
           out == d.fragment_list
<1>1. CASE known
  <2>1. r = [chain |-> c, out |-> <<>>]
    BY <1>1 DEF batadv_frag_insert_packet
  <2>2. r.chain = c /\ r.out = <<>>
    BY <2>1
  <2> QED BY <2>2
<1>2. CASE ~known
  <2>1. \A i \in DOMAIN s : s[i].seqno = f.seqno => s[i].packet = p /\ s[i].no # f.no
    BY <1>2 DEF SoundChain
  <2>2. c.seqno = f.seqno => s # <<>>
    BY <1>2
  <2>3. /\ SoundChain(d, n, b) /\ d.seqno = f.seqno /\ out # <<>> /\ out[1].packet = p
        /\ \A i \in DOMAIN out : out[i] = f \/ \E j \in DOMAIN s : out[i] = s[j]
    BY <2>1, <2>2, InsertedSound
  <2>4. \/ r = [chain |-> emptied, out |-> <<>>]
        \/ r = [chain |-> emptied, out |-> out] /\ d.size = f.total_size
        \/ r = [chain |-> d, out |-> <<>>]
    BY <1>2 DEF batadv_frag_insert_packet
  <2> HIDE DEF d, r, known
  <2>5. d \in Chain
    BY <2>3 DEF SoundChain
  <2>6. emptied \in Chain /\ emptied.fragment_list = <<>>
    <3>1. <<>> \in Seq(Frag) /\ 0 \in Nat
      OBVIOUS
    <3> QED BY <2>5, <3>1 DEF Chain
  <2>7. SoundChain(emptied, n, b)
    BY <2>6 DEF SoundChain, InOrder
  <2>8. ASSUME d.size = f.total_size
        PROVE  /\ batadv_frag_merge_packets(out) = p
               /\ \A no \in 0..LastFragment(p) :
                    no = f.no \/ \E j \in DOMAIN s : s[j].packet = p /\ s[j].no = no
    <3>1. out \in Seq(Frag) /\ InOrder(out) /\ 1 \in DOMAIN out
      BY <2>3, <2>5 DEF SoundChain, Chain
    <3>2. \A i \in DOMAIN out : Genuine(out[i]) /\ out[i].packet = p
      BY <2>3, <3>1 DEF SoundChain, InOrder
    <3>3. d.size = SizeOf(p, Nos(out)) /\ f.total_size = Length[p] /\ p \in Cut
      BY <2>3 DEF SoundChain, Genuine
    <3>4. Nos(out) \in SUBSET (0..LastFragment(p))
      BY <3>2 DEF Nos, Genuine
    <3>5. Nos(out) = 0..LastFragment(p)
      <4>1. SizeOf(p, Nos(out)) = Length[p]
        BY <2>8, <3>3
      <4> QED BY <3>3, <3>4, <4>1, SizeComplete
    <3>6. batadv_frag_merge_packets(out) = p
      BY <2>3, <3>1, <3>2, <3>3, <3>5, MergeIsPacket
    <3>7. ASSUME NEW no \in 0..LastFragment(p)
          PROVE  no = f.no \/ \E j \in DOMAIN s : s[j].packet = p /\ s[j].no = no
      <4>1. PICK i \in DOMAIN out : out[i].no = no
        BY <3>5, <3>7 DEF Nos
      <4> QED BY <2>3, <3>2, <4>1
    <3> QED BY <3>6, <3>7
  <2>9. \A i \in DOMAIN <<>> : FALSE
    OBVIOUS
  <2> HIDE DEF emptied
  <2>10. CASE r = [chain |-> emptied, out |-> <<>>]
    <3>1. r.chain = emptied /\ r.out = <<>>
      BY <2>10
    <3> QED BY <2>6, <2>7, <2>9, <3>1 DEF r
  <2>11. CASE r = [chain |-> emptied, out |-> out] /\ d.size = f.total_size
    <3>1. r.chain = emptied /\ r.out = out
      BY <2>11
    <3> QED BY <2>6, <2>7, <2>8, <2>9, <2>11, <3>1 DEF r
  <2>12. CASE r = [chain |-> d, out |-> <<>>]
    <3>1. r.chain = d /\ r.out = <<>>
      BY <2>12
    <3> QED BY <2>3, <3>1 DEF r
  <2> QED BY <2>4, <2>10, <2>11, <2>12
<1> QED BY <1>1, <1>2

-----------------------------------------------------------------------------
(* What holds whatever the links and the timers do. *)

\* A fragment of packet p with sequence number q is on a link or in a chain.
Marked(p, q) ==
  \/ \E f \in air : f.packet = p /\ f.seqno = q
  \/ \E n \in FragNode, b \in Buckets : \E i \in DOMAIN chains[n][b].fragment_list :
       chains[n][b].fragment_list[i].packet = p /\ chains[n][b].fragment_list[i].seqno = q

Age(q) == (frag_seqno - q) % FRAG_SEQS

FragTypes ==
  /\ frag_left \in Scenario /\ IsFiniteSet(frag_left.packets)
  /\ Cardinality(frag_left.packets) < FRAG_SEQS
  /\ frag_seqno \in Seqno /\ frag_sent \subseteq frag_left.packets
  /\ wholes \subseteq FragNode \X FragPacket
  /\ chains \in [FragNode -> [Buckets -> Chain]]
  /\ frag_delivered \in [FragPacket \cup {"garbage"} -> Nat]

\* Fragments are as they were cut, and are where they can be put together.
FragmentsGenuine ==
  /\ \A f \in air : Genuine(f) /\ (f.to = "dest" => Place(f.packet) = "dest")
  /\ \A n \in FragNode, b \in Buckets : SoundChain(chains[n][b], n, b)

\* No sequence number is used again while there are fragments that have it.
SeqnosApart ==
  /\ \A p \in FragPacket, q \in Seqno :
       Marked(p, q) => p \in frag_sent /\ Age(q) < Cardinality(frag_sent)
  /\ \A p1, p2 \in FragPacket, q \in Seqno : Marked(p1, q) /\ Marked(p2, q) => p1 = p2

\* What is delivered was sent.
OnlySent ==
  /\ \A w \in wholes : w[2] \in frag_sent
  /\ \A p \in FragPacket : frag_delivered[p] > 0 => p \in frag_sent
  /\ frag_delivered["garbage"] = 0

FragInv == FragTypes /\ FragmentsGenuine /\ SeqnosApart /\ OnlySent

LEMMA ScenarioFields ==
  ASSUME NEW s \in Scenario, NEW what \in {"losses", "repeats", "errors", "timeouts"}, s[what] > 0
  PROVE  LET t == [s EXCEPT ![what] = @ - 1]
         IN t \in Scenario /\ t.packets = s.packets /\ t[what] = s[what] - 1
            /\ (what # "repeats" => t.repeats = s.repeats)
<1>1. s.losses \in Nat /\ s.repeats \in Nat /\ s.errors \in Nat /\ s.timeouts \in Nat
  BY DEF Scenario
<1>2. CASE what = "losses"
  BY <1>1, <1>2 DEF Scenario
<1>3. CASE what = "repeats"
  BY <1>1, <1>3 DEF Scenario
<1>4. CASE what = "errors"
  BY <1>1, <1>4 DEF Scenario
<1>5. CASE what = "timeouts"
  BY <1>1, <1>5 DEF Scenario
<1> QED BY <1>2, <1>3, <1>4, <1>5

LEMMA ChainReplaced ==
  ASSUME NEW ch \in [FragNode -> [Buckets -> Chain]], NEW n \in FragNode, NEW b \in Buckets, NEW x \in Chain
  PROVE  LET d == [ch EXCEPT ![n][b] = x] IN
         /\ d \in [FragNode -> [Buckets -> Chain]]
         /\ \A m \in FragNode, e \in Buckets : d[m][e] = IF m = n /\ e = b THEN x ELSE ch[m][e]
OBVIOUS

LEMMA FragStarts == FragInit => FragInv
<1> SUFFICES ASSUME FragInit PROVE FragInv
  OBVIOUS
<1>1. EmptyChain \in Chain /\ EmptyChain.fragment_list = <<>>
  <2>1. 0 \in Seqno /\ <<>> \in Seq(Frag)
    BY FragAssumption DEF Seqno
  <2> QED BY <2>1 DEF EmptyChain, Chain
<1>2. NoChains \in [Buckets -> Chain] /\ \A b \in Buckets : NoChains[b] = EmptyChain
  BY <1>1 DEF NoChains, Buckets
<1>3. chains \in [FragNode -> [Buckets -> Chain]]
      /\ \A n \in FragNode, b \in Buckets : chains[n][b] = EmptyChain
  BY <1>2 DEF FragInit
<1>4. FragTypes
  <2>1. frag_left \in Scenario /\ IsFiniteSet(frag_left.packets)
        /\ Cardinality(frag_left.packets) < FRAG_SEQS
    BY FragAssumption DEF FragInit
  <2>2. frag_left.first \in Seqno
    BY <2>1 DEF Scenario, Seqno
  <2> QED BY <1>3, <2>1, <2>2 DEF FragInit, FragTypes
<1>5. \A n \in FragNode, b \in Buckets : DOMAIN chains[n][b].fragment_list = {}
  BY <1>1, <1>3
<1>6. FragmentsGenuine
  BY <1>1, <1>3, <1>5 DEF FragInit, FragmentsGenuine, SoundChain, InOrder
<1>7. SeqnosApart
  BY <1>5 DEF FragInit, SeqnosApart, Marked
<1>8. OnlySent
  BY DEF FragInit, OnlySent
<1> QED BY <1>4, <1>6, <1>7, <1>8 DEF FragInv

\* A step that sends nothing and brings no fragments of other packets.
LEMMA SeqnosStayApart ==
  ASSUME FragInv, UNCHANGED <<frag_seqno, frag_sent>>,
         \A p \in FragPacket, q \in Seqno : Marked(p, q)' => Marked(p, q)
  PROVE  SeqnosApart'
BY DEF FragInv, SeqnosApart, Age

\* A packet in one piece.
LEMMA OnePieceKeeps ==
  ASSUME FragInv, NEW n \in FragNode, NEW p \in frag_sent, NEW others \in SUBSET wholes,
         InOnePiece(n, p, others), UNCHANGED frag_sent
  PROVE  /\ wholes' \subseteq FragNode \X FragPacket
         /\ frag_delivered' \in [FragPacket \cup {"garbage"} -> Nat]
         /\ OnlySent'
<1>1. p \in FragPacket /\ p # "garbage"
  BY FragAssumption DEF FragInv, FragTypes, Scenario
<1>2. CASE n = "relay"
  BY <1>1, <1>2 DEF InOnePiece, FragInv, FragTypes, OnlySent, FragNode
<1>3. CASE n = "dest"
  <2>1. wholes' = others /\ frag_delivered' = [frag_delivered EXCEPT ![p] = @ + 1]
    BY <1>3 DEF InOnePiece
  <2>2. frag_delivered \in [FragPacket \cup {"garbage"} -> Nat] /\ frag_delivered[p] \in Nat
    BY <1>1 DEF FragInv, FragTypes
  <2>3. frag_delivered' \in [FragPacket \cup {"garbage"} -> Nat]
    BY <1>1, <2>1, <2>2
  <2>4. \A x \in FragPacket \cup {"garbage"} :
          frag_delivered'[x] = IF x = p THEN frag_delivered[p] + 1 ELSE frag_delivered[x]
    BY <2>1, <2>2
  <2> QED BY <1>1, <2>1, <2>3, <2>4 DEF FragInv, FragTypes, OnlySent
<1> QED BY <1>2, <1>3 DEF FragNode

\* The fragments that are cut from a packet.
LEMMA CreatedGenuine ==
  ASSUME NEW p \in Cut, NEW q \in Seqno, NEW no \in 0..LastFragment(p)
  PROVE  LET f == batadv_frag_create(p, q, FragmentSize(p), no)
         IN Genuine(f) /\ f.to = "relay" /\ f.packet = p /\ f.seqno = q /\ f.no = no
<1> DEFINE f == batadv_frag_create(p, q, FragmentSize(p), no)
<1>1. f = [to |-> "relay", packet |-> p, seqno |-> q, no |-> no, total_size |-> Length[p],
           from |-> FromOf(p, no), len |-> LenOf(p, no)]
  BY DEF batadv_frag_create, FromOf, LenOf
<1>2. p \in FragPacket /\ Length[p] \in Nat /\ no \in Nat /\ FromOf(p, no) \in Nat /\ LenOf(p, no) \in Nat
  BY FragmentSizes, FragmentPlaces DEF Cut
<1> HIDE DEF f
<1> QED BY <1>1, <1>2 DEF Genuine, Frag, FragNode, f

LEMMA OneMoreSent ==
  ASSUME FragTypes, NEW p \in frag_left.packets \ frag_sent
  PROVE  /\ Cardinality(frag_sent \cup {p}) = Cardinality(frag_sent) + 1
         /\ Cardinality(frag_sent) \in Nat /\ Cardinality(frag_sent) + 1 < FRAG_SEQS
<1>1. IsFiniteSet(frag_left.packets) /\ frag_sent \cup {p} \subseteq frag_left.packets
  BY DEF FragTypes
<1>2. IsFiniteSet(frag_sent) /\ Cardinality(frag_sent \cup {p}) <= Cardinality(frag_left.packets)
  BY <1>1, FS_Subset
<1>3. Cardinality(frag_sent) \in Nat /\ Cardinality(frag_left.packets) \in Nat
  BY <1>1, <1>2, FS_CardinalityType
<1>4. Cardinality(frag_sent \cup {p}) = Cardinality(frag_sent) + 1
  BY <1>2, FS_AddElement
<1>5. Cardinality(frag_left.packets) < FRAG_SEQS /\ FRAG_SEQS \in Nat
  BY FragAssumption DEF FragTypes
<1> QED BY <1>2, <1>3, <1>4, <1>5

\* What is sent when a packet is.
LEMMA PacketSent ==
  ASSUME FragInv, NEW p \in frag_left.packets \ frag_sent, frag_sent' = frag_sent \cup {p},
         IF Length[p] > Mtu["relay"] THEN batadv_frag_send_packet(p) /\ UNCHANGED wholes
         ELSE wholes' = wholes \cup {<<"relay", p>>} /\ UNCHANGED <<frag_seqno, air, frag_left>>,
         UNCHANGED <<chains, frag_delivered>>
  PROVE  /\ frag_left' \in Scenario /\ frag_left'.packets = frag_left.packets
         /\ frag_left'.repeats = frag_left.repeats
         /\ \/ UNCHANGED <<frag_seqno, air>> /\ wholes' \subseteq wholes \cup {<<"relay", p>>}
               /\ (wholes' # wholes => p \notin Cut)
            \/ /\ p \in Cut /\ UNCHANGED wholes /\ frag_seqno' = (frag_seqno + 1) % FRAG_SEQS
               /\ \E n \in 0..LastFragment(p) : air' = air \cup
                     {batadv_frag_create(p, frag_seqno', FragmentSize(p), no) : no \in 0..n}
<1>1. p \in FragPacket /\ frag_left \in Scenario
  BY DEF FragInv, FragTypes, Scenario
<1>2. CASE ~(Length[p] > Mtu["relay"])
  BY <1>1, <1>2 DEF Cut
<1>3. CASE Length[p] > Mtu["relay"]
  <2>1. p \in Cut /\ batadv_frag_send_packet(p) /\ UNCHANGED wholes
    BY <1>1, <1>3 DEF Cut
  <2>2. CASE NumFragments(p) > FRAG_MAX_FRAGMENTS
    BY <1>1, <2>1, <2>2 DEF batadv_frag_send_packet
  <2>3. CASE ~(NumFragments(p) > FRAG_MAX_FRAGMENTS)
    <3> DEFINE Fragments(q, n) == {batadv_frag_create(p, q, FragmentSize(p), no) : no \in 0..n}
    <3>1. /\ frag_seqno' = (frag_seqno + 1) % FRAG_SEQS
          /\ \/ air' = air \cup Fragments(frag_seqno', LastFragment(p)) /\ UNCHANGED frag_left
             \/ \E n \in 0..(LastFragment(p) - 1) : Use("errors") /\ air' = air \cup Fragments(frag_seqno', n)
      BY <2>1, <2>3 DEF batadv_frag_send_packet
    <3> HIDE DEF Fragments
    <3>2. LastFragment(p) \in 0..LastFragment(p)
      BY <2>1, FragmentSizes
    <3>3. CASE air' = air \cup Fragments(frag_seqno', LastFragment(p)) /\ UNCHANGED frag_left
      BY <1>1, <2>1, <3>1, <3>2, <3>3 DEF Fragments
    <3>4. CASE \E n \in 0..(LastFragment(p) - 1) : Use("errors") /\ air' = air \cup Fragments(frag_seqno', n)
      <4>1. PICK n \in 0..(LastFragment(p) - 1) : Use("errors") /\ air' = air \cup Fragments(frag_seqno', n)
        BY <3>4
      <4>2. n \in 0..LastFragment(p)
        BY <2>1, FragmentSizes
      <4>3. frag_left' \in Scenario /\ frag_left'.packets = frag_left.packets
            /\ frag_left'.repeats = frag_left.repeats
        BY <1>1, <4>1, ScenarioFields DEF Use
      <4> QED BY <2>1, <3>1, <4>1, <4>2, <4>3 DEF Fragments
    <3> QED BY <3>1, <3>3, <3>4
  <2> QED BY <2>2, <2>3
<1> QED BY <1>2, <1>3

LEMMA SendKeepsInv == FragInv /\ batadv_send_skb_to_orig => FragInv'
<1> SUFFICES ASSUME FragInv, batadv_send_skb_to_orig PROVE FragInv'
  OBVIOUS
<1>1. PICK p \in frag_left.packets \ frag_sent :
        /\ frag_sent' = frag_sent \cup {p}
        /\ IF Length[p] > Mtu["relay"] THEN batadv_frag_send_packet(p) /\ UNCHANGED wholes
           ELSE wholes' = wholes \cup {<<"relay", p>>} /\ UNCHANGED <<frag_seqno, air, frag_left>>
        /\ UNCHANGED <<chains, frag_delivered>>
  BY DEF batadv_send_skb_to_orig
<1> DEFINE Sent(n) == {batadv_frag_create(p, frag_seqno', FragmentSize(p), no) : no \in 0..n}
<1>2. /\ frag_left' \in Scenario /\ frag_left'.packets = frag_left.packets
      /\ \/ UNCHANGED <<frag_seqno, air>> /\ wholes' \subseteq wholes \cup {<<"relay", p>>}
         \/ /\ p \in Cut /\ UNCHANGED wholes /\ frag_seqno' = (frag_seqno + 1) % FRAG_SEQS
            /\ \E n \in 0..LastFragment(p) : air' = air \cup Sent(n)
  BY <1>1, PacketSent
<1>3. p \in FragPacket /\ frag_left \in Scenario /\ frag_seqno \in Seqno
  BY DEF FragInv, FragTypes, Scenario
<1>4. FRAG_SEQS \in Nat \ {0}
  BY FragAssumption
<1>5. frag_seqno' \in Seqno
  <2>1. (frag_seqno + 1) % FRAG_SEQS \in Seqno
    BY <1>3, <1>4 DEF Seqno
  <2> QED BY <1>2, <1>3, <2>1
<1>6. FragTypes'
  BY <1>1, <1>2, <1>3, <1>5 DEF FragInv, FragTypes, FragNode
<1>7. OnlySent'
  <2>1. \A w \in wholes' : w[2] \in frag_sent'
    BY <1>1, <1>2 DEF FragInv, OnlySent
  <2> QED BY <1>1, <2>1 DEF FragInv, OnlySent
<1>8. Cardinality(frag_sent') = Cardinality(frag_sent) + 1 /\ Cardinality(frag_sent) \in Nat
      /\ Cardinality(frag_sent) + 1 < FRAG_SEQS
  BY <1>1, OneMoreSent DEF FragInv
<1> HIDE DEF Sent
<1>9. CASE UNCHANGED <<frag_seqno, air>>
  <2>1. \A x \in FragPacket, q \in Seqno : Marked(x, q)' = Marked(x, q)
    BY <1>1, <1>9 DEF Marked
  <2>2. FragmentsGenuine'
    BY <1>1, <1>9 DEF FragInv, FragmentsGenuine
  <2>3. ASSUME NEW x \in FragPacket, NEW q \in Seqno, Marked(x, q)'
        PROVE  x \in frag_sent' /\ Age(q)' < Cardinality(frag_sent')
    <3>1. x \in frag_sent /\ Age(q) < Cardinality(frag_sent)
      BY <2>1, <2>3 DEF FragInv, SeqnosApart
    <3>2. Age(q)' = Age(q) /\ Age(q) \in Int
      BY <1>3, <1>4, <1>9 DEF Age, Seqno
    <3> QED BY <1>1, <1>8, <3>1, <3>2
  <2>4. SeqnosApart'
    BY <2>1, <2>3 DEF FragInv, SeqnosApart
  <2> QED BY <1>6, <1>7, <2>2, <2>4 DEF FragInv
<1>10. ASSUME NEW n \in 0..LastFragment(p), p \in Cut, frag_seqno' = (frag_seqno + 1) % FRAG_SEQS,
              air' = air \cup Sent(n)
       PROVE  FragmentsGenuine' /\ SeqnosApart'
  <2>1. ASSUME NEW f \in Sent(n) PROVE Genuine(f) /\ f.to = "relay" /\ f.packet = p /\ f.seqno = frag_seqno'
    <3>1. PICK no \in 0..n : f = batadv_frag_create(p, frag_seqno', FragmentSize(p), no)
      BY <2>1 DEF Sent
    <3>2. no \in 0..LastFragment(p)
      BY <1>10, FragmentSizes
    <3> QED BY <1>5, <1>10, <3>1, <3>2, CreatedGenuine
  <2>2. FragmentsGenuine'
    BY <1>1, <1>10, <2>1 DEF FragInv, FragmentsGenuine
  <2>3. ASSUME NEW x \in FragPacket, NEW q \in Seqno, Marked(x, q)'
        PROVE  Marked(x, q) \/ (x = p /\ q = frag_seqno')
    BY <1>1, <1>10, <2>1, <2>3 DEF Marked
  <2>4. ASSUME NEW x \in FragPacket, NEW q \in Seqno, Marked(x, q)
        PROVE  x \in frag_sent /\ Age(q)' = Age(q) + 1 /\ Age(q) \in Nat /\ Age(q)' < Cardinality(frag_sent')
    <3>1. x \in frag_sent /\ Age(q) < Cardinality(frag_sent)
      BY <2>4 DEF FragInv, SeqnosApart
    <3>2. Age(q) \in Nat
      BY <1>3, <1>4 DEF Age, Seqno
    <3>3. Age(q) + 1 < FRAG_SEQS
      BY <1>4, <1>8, <3>1, <3>2
    <3>4. (((frag_seqno + 1) % FRAG_SEQS) - q) % FRAG_SEQS = ((frag_seqno - q) % FRAG_SEQS) + 1
      BY <1>3, <1>4, <3>3, OneStepOn DEF Age, Seqno
    <3>5. Age(q)' = Age(q) + 1
      BY <1>10, <3>4 DEF Age
    <3> QED BY <1>8, <3>1, <3>2, <3>5
  <2>5. ASSUME NEW q \in Seqno, q = frag_seqno' PROVE Age(q)' = 0
    <3>1. (q - q) % FRAG_SEQS = 0
      BY <1>4 DEF Seqno
    <3> QED BY <2>5, <3>1 DEF Age
  <2>6. ASSUME NEW x \in FragPacket, NEW q \in Seqno, Marked(x, q)'
        PROVE  x \in frag_sent' /\ Age(q)' < Cardinality(frag_sent')
    <3>1. CASE Marked(x, q)
      BY <1>1, <2>4, <3>1
    <3>2. CASE x = p /\ q = frag_seqno'
      <4>1. Age(q)' = 0
        BY <2>5, <3>2
      <4> QED BY <1>1, <1>8, <3>2, <4>1
    <3> QED BY <2>3, <2>6, <3>1, <3>2
  <2>7. ASSUME NEW p1 \in FragPacket, NEW p2 \in FragPacket, NEW q \in Seqno, Marked(p1, q)', Marked(p2, q)'
        PROVE  p1 = p2
    <3>1. \A x \in FragPacket : Marked(x, q) => q # frag_seqno'
      <4> SUFFICES ASSUME NEW x \in FragPacket, Marked(x, q), q = frag_seqno' PROVE FALSE
        OBVIOUS
      <4>1. Age(q)' = Age(q) + 1 /\ Age(q) \in Nat
        BY <2>4
      <4>2. Age(q)' = 0
        BY <2>5
      <4> QED BY <4>1, <4>2
    <3>2. Marked(p1, q) /\ Marked(p2, q) => p1 = p2
      BY DEF FragInv, SeqnosApart
    <3> QED BY <2>3, <2>7, <3>1, <3>2
  <2>8. SeqnosApart'
    BY <2>6, <2>7 DEF SeqnosApart
  <2> QED BY <2>2, <2>8
<1> QED BY <1>2, <1>6, <1>7, <1>9, <1>10 DEF FragInv

LEMMA FragmentHere ==
  ASSUME FragInv, NEW f \in air
  PROVE  /\ Genuine(f) /\ f \in Frag /\ f.to \in FragNode /\ f.packet \in Cut /\ f.packet \in FragPacket
         /\ f.seqno \in Seqno /\ f.seqno % FRAG_BUFFER_COUNT \in Buckets
         /\ f.packet \in frag_sent /\ (f.to = "dest" => Place(f.packet) = "dest")
<1>1. /\ Genuine(f) /\ f \in Frag /\ f.to \in FragNode /\ f.packet \in FragPacket /\ f.packet \in Cut
      /\ f.seqno \in Seqno /\ (f.to = "dest" => Place(f.packet) = "dest")
  BY DEF FragInv, FragmentsGenuine, Genuine, Frag
<1>2. f.packet \in frag_sent
  BY <1>1 DEF FragInv, SeqnosApart, Marked
<1>3. f.seqno % FRAG_BUFFER_COUNT \in Buckets
  <2>1. f.seqno \in Int /\ FRAG_BUFFER_COUNT \in Nat \ {0}
    BY <1>1, FragAssumption DEF Seqno
  <2> QED BY <2>1 DEF Buckets
<1> QED BY <1>1, <1>2, <1>3

\* Chain b of node n becomes ch, and the packet of fragment f may be complete.
Taken(f, n, b, ch) ==
  LET old == chains[n][b].fragment_list IN
  /\ SoundChain(ch, n, b)
  /\ chains' \in [FragNode -> [Buckets -> Chain]]
  /\ \A m \in FragNode, e \in Buckets : chains'[m][e] = IF m = n /\ e = b THEN ch ELSE chains[m][e]
  /\ \A i \in DOMAIN ch.fragment_list :
       ch.fragment_list[i] = f \/ \E j \in DOMAIN old : ch.fragment_list[i] = old[j]
  /\ \/ UNCHANGED <<wholes, frag_delivered>>
     \/ /\ InOnePiece(n, f.packet, wholes) /\ ch.fragment_list = <<>>
        /\ \A no \in 0..LastFragment(f.packet) :
             no = f.no \/ \E j \in DOMAIN old : old[j].packet = f.packet /\ old[j].no = no

\* A fragment that is not forwarded goes to the chain that its sequence number names.
LEMMA FragmentTaken ==
  ASSUME FragInv, NEW f \in air, NEW frames, batadv_recv_frag_packet(f.to, f, frames),
         ~batadv_frag_skb_fwd(f.to, f), NEW n, n = f.to, NEW b, b = f.seqno % FRAG_BUFFER_COUNT
  PROVE  air' = frames /\ \E ch \in Chain : Taken(f, n, b, ch)
<1> DEFINE p == f.packet
           q == f.seqno
           c == chains[n][b]
           r == batadv_frag_insert_packet(c, f)
<1>1. /\ Genuine(f) /\ f \in Frag /\ n \in FragNode /\ p \in FragPacket /\ q \in Seqno /\ b \in Buckets
      /\ (n = "dest" => Place(p) = "dest")
  BY FragmentHere
<1>2. chains \in [FragNode -> [Buckets -> Chain]] /\ SoundChain(c, n, b)
  BY <1>1 DEF FragInv, FragTypes, FragmentsGenuine
<1>3. /\ air' = frames /\ chains' = [chains EXCEPT ![n][b] = r.chain]
      /\ IF r.out = <<>> THEN UNCHANGED <<wholes, frag_delivered>>
         ELSE InOnePiece(n, batadv_frag_merge_packets(r.out), wholes)
  BY DEF batadv_recv_frag_packet
<1>4. Place(p) = n
  BY <1>1 DEF Genuine, batadv_frag_skb_fwd, Place, FragNode
<1>5. ASSUME NEW i \in DOMAIN c.fragment_list, c.fragment_list[i].seqno = q
      PROVE  c.fragment_list[i].packet = p
  <2>1. c.fragment_list[i].packet \in FragPacket
    BY <1>2 DEF SoundChain, Genuine, Frag
  <2>2. Marked(c.fragment_list[i].packet, q) /\ Marked(p, q)
    BY <1>1, <1>5 DEF Marked
  <2> QED BY <1>1, <2>1, <2>2 DEF FragInv, SeqnosApart
<1> HIDE DEF c
<1>6. /\ SoundChain(r.chain, n, b)
      /\ \A i \in DOMAIN r.chain.fragment_list :
           \/ r.chain.fragment_list[i] = f
           \/ \E j \in DOMAIN c.fragment_list : r.chain.fragment_list[i] = c.fragment_list[j]
      /\ r.out # <<>> =>
           /\ batadv_frag_merge_packets(r.out) = p /\ r.chain.fragment_list = <<>>
           /\ \A no \in 0..LastFragment(p) :
                no = f.no \/ \E j \in DOMAIN c.fragment_list :
                               c.fragment_list[j].packet = p /\ c.fragment_list[j].no = no
  BY <1>1, <1>2, <1>4, <1>5, InsertSound
<1> HIDE DEF r
<1>7. r.chain \in Chain
  BY <1>6 DEF SoundChain
<1>8. /\ chains' \in [FragNode -> [Buckets -> Chain]]
      /\ \A m \in FragNode, e \in Buckets : chains'[m][e] = IF m = n /\ e = b THEN r.chain ELSE chains[m][e]
  BY <1>1, <1>2, <1>3, <1>7, ChainReplaced
<1>9. \/ UNCHANGED <<wholes, frag_delivered>>
      \/ r.out # <<>> /\ InOnePiece(n, p, wholes)
  BY <1>3, <1>6
<1>10. Taken(f, n, b, r.chain)
  BY <1>6, <1>8, <1>9 DEF c, Taken
<1> QED BY <1>3, <1>7, <1>10

\* A fragment that is received, taken from the link or repeated by it.
LEMMA FragmentKeeps ==
  ASSUME FragInv, NEW f \in air, NEW frames \in SUBSET air, batadv_recv_frag_packet(f.to, f, frames),
         UNCHANGED <<frag_seqno, frag_sent>>
  PROVE  /\ chains' \in [FragNode -> [Buckets -> Chain]] /\ wholes' \subseteq FragNode \X FragPacket
         /\ frag_delivered' \in [FragPacket \cup {"garbage"} -> Nat]
         /\ FragmentsGenuine' /\ SeqnosApart' /\ OnlySent'
<1> DEFINE n == f.to
           p == f.packet
           q == f.seqno
           b == q % FRAG_BUFFER_COUNT
<1>1. /\ Genuine(f) /\ f \in Frag /\ n \in FragNode /\ p \in FragPacket /\ q \in Seqno /\ b \in Buckets
      /\ p \in frag_sent
  BY FragmentHere
<1>2. CASE batadv_frag_skb_fwd(n, f)
  <2> DEFINE g == [f EXCEPT !.to = "dest"]
  <2>1. air' = frames \cup {g} /\ UNCHANGED <<chains, wholes, frag_delivered>>
    BY <1>2 DEF batadv_recv_frag_packet
  <2>2. f.total_size = Length[p] /\ Place(p) = "dest"
    BY <1>1, <1>2 DEF Genuine, batadv_frag_skb_fwd, Place
  <2>3. /\ g \in Frag /\ g.to = "dest" /\ g.packet = p /\ g.seqno = q /\ g.no = f.no
        /\ g.total_size = f.total_size /\ g.from = f.from /\ g.len = f.len
    BY <1>1 DEF Frag, FragNode
  <2> HIDE DEF g
  <2>4. Genuine(g)
    BY <1>1, <2>3 DEF Genuine
  <2>5. FragmentsGenuine'
    BY <2>1, <2>2, <2>3, <2>4 DEF FragInv, FragmentsGenuine
  <2>6. \A x \in FragPacket, y \in Seqno : Marked(x, y)' => Marked(x, y)
    BY <2>1, <2>3 DEF Marked
  <2>7. SeqnosApart'
    BY <2>6, SeqnosStayApart
  <2>8. OnlySent'
    BY <2>1 DEF FragInv, OnlySent
  <2> QED BY <2>1, <2>5, <2>7, <2>8 DEF FragInv, FragTypes
<1>3. CASE ~batadv_frag_skb_fwd(n, f)
  <2> DEFINE old == chains[n][b].fragment_list
  <2>0. air' = frames /\ \E ch \in Chain : Taken(f, n, b, ch)
    BY <1>3, FragmentTaken
  <2>1. PICK ch \in Chain :
          /\ SoundChain(ch, n, b)
          /\ chains' \in [FragNode -> [Buckets -> Chain]]
          /\ \A m \in FragNode, e \in Buckets : chains'[m][e] = IF m = n /\ e = b THEN ch ELSE chains[m][e]
          /\ \A i \in DOMAIN ch.fragment_list :
               ch.fragment_list[i] = f \/ \E j \in DOMAIN old : ch.fragment_list[i] = old[j]
          /\ UNCHANGED <<wholes, frag_delivered>> \/ InOnePiece(n, p, wholes)
    BY <2>0 DEF Taken
  <2>2. air' = frames
    BY <2>0
  <2> HIDE DEF b
  <2>3. FragmentsGenuine'
    <3>1. \A m \in FragNode, e \in Buckets : SoundChain(chains'[m][e], m, e)
      BY <2>1 DEF FragInv, FragmentsGenuine
    <3> QED BY <2>2, <3>1 DEF FragInv, FragmentsGenuine
  <2>4. ASSUME NEW x \in FragPacket, NEW y \in Seqno, Marked(x, y)' PROVE Marked(x, y)
    <3>1. CASE \E g \in air' : g.packet = x /\ g.seqno = y
      BY <2>2, <3>1 DEF Marked
    <3>2. ASSUME NEW m \in FragNode, NEW e \in Buckets, NEW i \in DOMAIN chains'[m][e].fragment_list,
                 chains'[m][e].fragment_list[i].packet = x, chains'[m][e].fragment_list[i].seqno = y
          PROVE  Marked(x, y)
      <4>1. CASE m = n /\ e = b
        <5>1. \/ chains'[m][e].fragment_list[i] = f
              \/ \E j \in DOMAIN old : chains'[m][e].fragment_list[i] = old[j]
          BY <2>1, <3>2, <4>1
        <5> QED BY <1>1, <3>2, <5>1 DEF Marked
      <4>2. CASE ~(m = n /\ e = b)
        <5>1. chains'[m][e] = chains[m][e]
          BY <2>1, <4>2
        <5> QED BY <3>2, <5>1 DEF Marked
      <4> QED BY <4>1, <4>2
    <3> QED BY <2>4, <3>1, <3>2 DEF Marked
  <2>5. SeqnosApart'
    BY <2>4, SeqnosStayApart
  <2>6. /\ wholes' \subseteq FragNode \X FragPacket
        /\ frag_delivered' \in [FragPacket \cup {"garbage"} -> Nat]
        /\ OnlySent'
    <3>1. CASE UNCHANGED <<wholes, frag_delivered>>
      BY <3>1 DEF FragInv, FragTypes, OnlySent
    <3>2. CASE InOnePiece(n, p, wholes)
      BY <1>1, <3>2, OnePieceKeeps
    <3> QED BY <2>1, <3>1, <3>2
  <2> QED BY <2>1, <2>3, <2>5, <2>6
<1> QED BY <1>2, <1>3

LEMMA ReceiveKeepsInv == FragInv /\ ReceiveFrame => FragInv'
<1> SUFFICES ASSUME FragInv, ReceiveFrame PROVE FragInv'
  OBVIOUS
<1>1. UNCHANGED <<frag_seqno, frag_sent, frag_left>>
  BY DEF ReceiveFrame
<1>2. CASE \E f \in air : batadv_recv_frag_packet(f.to, f, air \ {f})
  <2>1. PICK f \in air : batadv_recv_frag_packet(f.to, f, air \ {f})
    BY <1>2
  <2>2. /\ chains' \in [FragNode -> [Buckets -> Chain]] /\ wholes' \subseteq FragNode \X FragPacket
        /\ frag_delivered' \in [FragPacket \cup {"garbage"} -> Nat]
        /\ FragmentsGenuine' /\ SeqnosApart' /\ OnlySent'
    BY <1>1, <2>1, FragmentKeeps
  <2> QED BY <1>1, <2>2 DEF FragInv, FragTypes
<1>3. CASE \E w \in wholes : InOnePiece(w[1], w[2], wholes \ {w}) /\ UNCHANGED <<air, chains>>
  <2>1. PICK w \in wholes : InOnePiece(w[1], w[2], wholes \ {w}) /\ UNCHANGED <<air, chains>>
    BY <1>3
  <2>2. w[1] \in FragNode /\ w[2] \in frag_sent /\ wholes \ {w} \in SUBSET wholes
    BY DEF FragInv, FragTypes, OnlySent
  <2>3. /\ wholes' \subseteq FragNode \X FragPacket
        /\ frag_delivered' \in [FragPacket \cup {"garbage"} -> Nat]
        /\ OnlySent'
    BY <1>1, <2>1, <2>2, OnePieceKeeps
  <2>4. \A x \in FragPacket, y \in Seqno : Marked(x, y)' = Marked(x, y)
    BY <2>1 DEF Marked
  <2>5. SeqnosApart'
    BY <1>1, <2>4, SeqnosStayApart
  <2> QED BY <1>1, <2>1, <2>3, <2>5 DEF FragInv, FragTypes, FragmentsGenuine
<1> QED BY <1>2, <1>3 DEF ReceiveFrame

LEMMA RepeatKeepsInv == FragInv /\ RepeatFragment => FragInv'
<1> SUFFICES ASSUME FragInv, RepeatFragment PROVE FragInv'
  OBVIOUS
<1>1. PICK f \in air : Use("repeats") /\ batadv_recv_frag_packet(f.to, f, air) /\ UNCHANGED <<frag_seqno, frag_sent>>
  BY DEF RepeatFragment
<1>2. /\ chains' \in [FragNode -> [Buckets -> Chain]] /\ wholes' \subseteq FragNode \X FragPacket
      /\ frag_delivered' \in [FragPacket \cup {"garbage"} -> Nat]
      /\ FragmentsGenuine' /\ SeqnosApart' /\ OnlySent'
  BY <1>1, FragmentKeeps
<1>3. frag_left' \in Scenario /\ frag_left'.packets = frag_left.packets
  BY <1>1, ScenarioFields DEF Use, FragInv, FragTypes
<1> QED BY <1>1, <1>2, <1>3 DEF FragInv, FragTypes

LEMMA LoseKeepsInv == FragInv /\ LoseFrame => FragInv'
<1> SUFFICES ASSUME FragInv, LoseFrame PROVE FragInv'
  OBVIOUS
<1>1. /\ Use("losses") /\ air' \subseteq air /\ wholes' \subseteq wholes
      /\ UNCHANGED <<frag_seqno, chains, frag_sent, frag_delivered>>
  BY DEF LoseFrame
<1>2. frag_left' \in Scenario /\ frag_left'.packets = frag_left.packets
  BY <1>1, ScenarioFields DEF Use, FragInv, FragTypes
<1>3. FragTypes' /\ FragmentsGenuine' /\ OnlySent'
  BY <1>1, <1>2 DEF FragInv, FragTypes, FragmentsGenuine, OnlySent
<1>4. \A x \in FragPacket, y \in Seqno : Marked(x, y)' => Marked(x, y)
  BY <1>1 DEF Marked
<1>5. SeqnosApart'
  BY <1>1, <1>4, SeqnosStayApart
<1> QED BY <1>3, <1>5 DEF FragInv

LEMMA ChainPurged ==
  FragInv /\ batadv_frag_purge_orig =>
    \E n \in FragNode, b \in Buckets :
      /\ Use("timeouts") /\ UNCHANGED <<frag_seqno, air, wholes, frag_sent, frag_delivered>>
      /\ chains' \in [FragNode -> [Buckets -> Chain]] /\ chains'[n][b].fragment_list = <<>>
      /\ \A m \in FragNode, e \in Buckets : ~(m = n /\ e = b) => chains'[m][e] = chains[m][e]
<1> SUFFICES ASSUME FragInv, batadv_frag_purge_orig
             PROVE  \E n \in FragNode, b \in Buckets :
                      /\ Use("timeouts") /\ UNCHANGED <<frag_seqno, air, wholes, frag_sent, frag_delivered>>
                      /\ chains' \in [FragNode -> [Buckets -> Chain]] /\ chains'[n][b].fragment_list = <<>>
                      /\ \A m \in FragNode, e \in Buckets : ~(m = n /\ e = b) => chains'[m][e] = chains[m][e]
  OBVIOUS
<1>1. PICK n \in FragNode, b \in Buckets :
        /\ Use("timeouts")
        /\ chains' = [chains EXCEPT ![n][b].fragment_list = <<>>, ![n][b].size = 0]
        /\ UNCHANGED <<frag_seqno, air, wholes, frag_sent, frag_delivered>>
  BY DEF batadv_frag_purge_orig, NoChains, Buckets
<1> DEFINE x == [chains[n][b] EXCEPT !.fragment_list = <<>>, !.size = 0]
<1>2. chains \in [FragNode -> [Buckets -> Chain]]
  BY DEF FragInv, FragTypes
<1>3. chains[n][b] \in Chain /\ <<>> \in Seq(Frag) /\ 0 \in Nat
  BY <1>2
<1>4. x \in Chain /\ x.fragment_list = <<>>
  BY <1>3 DEF Chain
<1>5. chains' = [chains EXCEPT ![n][b] = x]
  BY <1>1
<1> HIDE DEF x
<1>6. /\ chains' \in [FragNode -> [Buckets -> Chain]] /\ chains'[n][b].fragment_list = <<>>
      /\ \A m \in FragNode, e \in Buckets : ~(m = n /\ e = b) => chains'[m][e] = chains[m][e]
  BY <1>2, <1>4, <1>5, ChainReplaced
<1> QED BY <1>1, <1>6

LEMMA PurgeKeepsInv == FragInv /\ batadv_frag_purge_orig => FragInv'
<1> SUFFICES ASSUME FragInv, batadv_frag_purge_orig PROVE FragInv'
  OBVIOUS
<1>1. PICK n \in FragNode, b \in Buckets :
        /\ Use("timeouts") /\ UNCHANGED <<frag_seqno, air, wholes, frag_sent, frag_delivered>>
        /\ chains' \in [FragNode -> [Buckets -> Chain]] /\ chains'[n][b].fragment_list = <<>>
        /\ \A m \in FragNode, e \in Buckets : ~(m = n /\ e = b) => chains'[m][e] = chains[m][e]
  BY ChainPurged
<1>2. frag_left' \in Scenario /\ frag_left'.packets = frag_left.packets
  BY <1>1, ScenarioFields DEF Use, FragInv, FragTypes
<1>3. /\ chains' \in [FragNode -> [Buckets -> Chain]] /\ chains'[n][b].fragment_list = <<>>
      /\ \A m \in FragNode, e \in Buckets : ~(m = n /\ e = b) => chains'[m][e] = chains[m][e]
  BY <1>1
<1>4. DOMAIN <<>> = {}
  OBVIOUS
<1>5. SoundChain(chains'[n][b], n, b)
  BY <1>3, <1>4 DEF SoundChain, InOrder
<1>6. FragmentsGenuine'
  BY <1>1, <1>3, <1>5 DEF FragInv, FragmentsGenuine
<1>7. ASSUME NEW x \in FragPacket, NEW y \in Seqno, Marked(x, y)' PROVE Marked(x, y)
  <2>1. CASE \E f \in air' : f.packet = x /\ f.seqno = y
    BY <1>1, <2>1 DEF Marked
  <2>2. ASSUME NEW m \in FragNode, NEW e \in Buckets, NEW i \in DOMAIN chains'[m][e].fragment_list,
               chains'[m][e].fragment_list[i].packet = x, chains'[m][e].fragment_list[i].seqno = y
        PROVE  Marked(x, y)
    <3>1. chains'[m][e] = chains[m][e]
      BY <1>3, <1>4
    <3> QED BY <2>2, <3>1 DEF Marked
  <2> QED BY <1>7, <2>1, <2>2 DEF Marked
<1>8. SeqnosApart'
  BY <1>1, <1>7, SeqnosStayApart
<1> QED BY <1>1, <1>2, <1>3, <1>6, <1>8 DEF FragInv, FragTypes, OnlySent

LEMMA FragStep == FragInv /\ [FragNext]_fragVars => FragInv'
<1> SUFFICES ASSUME FragInv, [FragNext]_fragVars PROVE FragInv'
  OBVIOUS
<1>1. CASE UNCHANGED fragVars
  <2>1. \A x \in FragPacket, y \in Seqno : Marked(x, y)' = Marked(x, y)
    BY <1>1 DEF fragVars, Marked
  <2>2. SeqnosApart'
    BY <1>1, <2>1, SeqnosStayApart DEF fragVars
  <2> QED BY <1>1, <2>2 DEF fragVars, FragInv, FragTypes, FragmentsGenuine, OnlySent
<1> QED BY <1>1, SendKeepsInv, ReceiveKeepsInv, RepeatKeepsInv, LoseKeepsInv, PurgeKeepsInv DEF FragNext

\* Whatever is lost, repeated, reordered or timed out, and whatever packets share a chain:
\* the fragments of a chain are those of one packet as they were cut, and what is delivered
\* is a packet that was sent and never a mixture (batadv_frag_insert_packet,
\* batadv_frag_merge_packets).
THEOREM NothingGarbled == FragSpec => [](FragmentsGenuine /\ OnlySent)
<1>1. FragInv => FragmentsGenuine /\ OnlySent
  BY DEF FragInv
<1> QED BY <1>1, FragStarts, FragStep, PTL DEF FragSpec

-----------------------------------------------------------------------------
(* Packets are delivered once, when fewer fragments are repeated than a packet has: a       *)
(* packet is put together again only when each of its fragments comes again, and a chain    *)
(* that another packet takes forgets that it was complete.                                  *)

FewRepeats == \A s \in FragScenarios : \A p \in s.packets : p \in Cut => s.repeats <= LastFragment(p)

InChain(f) ==
  \E n \in FragNode, b \in Buckets : \E i \in DOMAIN chains[n][b].fragment_list :
    chains[n][b].fragment_list[i] = f

\* The fragments of a packet on the links and in the chains.
Tokens(p) == {t \in {"air", "kept"} \X Frag :
                t[2].packet = p /\ IF t[1] = "air" THEN t[2] \in air ELSE InChain(t[2])}

Finished(p) == frag_delivered[p] > 0 \/ <<"dest", p>> \in wholes
Due(p) == IF Finished(p) THEN 0 ELSE LastFragment(p) + 1

\* There are never enough fragments to put a packet together twice.
FewTokens(r) ==
  /\ frag_left.repeats <= r
  /\ \A p \in frag_left.packets : p \in Cut => r <= LastFragment(p)
  /\ \A p \in Cut : /\ IsFiniteSet(Tokens(p))
                    /\ Cardinality(Tokens(p)) + frag_left.repeats <= r + Due(p)

\* A packet is on one of the links in one piece, or delivered, or neither.
OnePiece ==
  \A p \in FragPacket :
    /\ frag_delivered[p] <= 1
    /\ frag_delivered[p] > 0 => <<"relay", p>> \notin wholes /\ <<"dest", p>> \notin wholes
    /\ <<"relay", p>> \in wholes => p \notin Cut /\ <<"dest", p>> \notin wholes

\* Whichever scenario it is: r is the number of its repeats.
OnceInv == OnePiece /\ \E r \in Nat : FewTokens(r)

LEMMA DueIsNat == ASSUME NEW p \in Cut PROVE Due(p) \in Nat /\ LastFragment(p) \in Nat \ {0}
BY FragmentSizes DEF Due

\* Steps after which there are no more fragments, and no fewer repeats are used.
LEMMA FewerTokens ==
  ASSUME FragInv, NEW r \in Nat, FewTokens(r), UNCHANGED frag_left.packets,
         frag_left'.repeats \in Nat, frag_left'.repeats <= frag_left.repeats,
         \A p \in Cut : Tokens(p)' \subseteq Tokens(p) /\ Due(p) <= Due(p)'
  PROVE  FewTokens(r)'
<1>1. frag_left.repeats \in Nat
  BY DEF FragInv, FragTypes, Scenario
<1>2. frag_left'.repeats <= r
  BY <1>1 DEF FewTokens
<1>3. ASSUME NEW p \in Cut
      PROVE  IsFiniteSet(Tokens(p)') /\ Cardinality(Tokens(p)') + frag_left'.repeats <= r + Due(p)'
  <2>1. IsFiniteSet(Tokens(p)) /\ Cardinality(Tokens(p)) + frag_left.repeats <= r + Due(p)
    BY DEF FewTokens
  <2>2. IsFiniteSet(Tokens(p)') /\ Cardinality(Tokens(p)') <= Cardinality(Tokens(p))
    BY <2>1, FS_Subset
  <2>3. Cardinality(Tokens(p)) \in Nat /\ Cardinality(Tokens(p)') \in Nat
    BY <2>1, <2>2, FS_CardinalityType
  <2>4. Due(p) \in Nat /\ Due(p)' \in Nat /\ Due(p) <= Due(p)'
    BY FragmentSizes DEF Due
  <2> QED BY <1>1, <2>1, <2>2, <2>3, <2>4
<1> QED BY <1>2, <1>3 DEF FewTokens

\* Steps that leave the fragments of the other packets alone.
LEMMA OnceStarts == FragInit /\ FewRepeats => OnceInv
<1> SUFFICES ASSUME FragInit, FewRepeats PROVE OnceInv
  OBVIOUS
<1>1. FragInv
  BY FragStarts
<1>2. frag_left \in FragScenarios /\ frag_left.repeats \in Nat /\ frag_left.packets \subseteq FragPacket
  BY <1>1 DEF FragInit, FragInv, FragTypes, Scenario
<1>3. \A p \in FragPacket : frag_delivered[p] = 0
  BY DEF FragInit
<1>4. OnePiece
  BY <1>3 DEF FragInit, OnePiece
<1>5. \A n \in FragNode, b \in Buckets : DOMAIN chains[n][b].fragment_list = {}
  <2>1. \A n \in FragNode, b \in Buckets : chains[n][b].fragment_list = <<>>
    BY DEF FragInit, NoChains, Buckets, EmptyChain
  <2> QED BY <2>1
<1>6. ASSUME NEW p \in Cut
      PROVE  IsFiniteSet(Tokens(p)) /\ Cardinality(Tokens(p)) = 0
  <2>1. Tokens(p) = {}
    BY <1>5 DEF Tokens, InChain, FragInit
  <2> QED BY <2>1, FS_EmptySet
<1>7. FewTokens(frag_left.repeats)
  <2>1. \A p \in Cut : Due(p) \in Nat
    BY DueIsNat
  <2> QED BY <1>2, <1>6, <2>1 DEF FewTokens, FewRepeats
<1> QED BY <1>2, <1>4, <1>7 DEF OnceInv

LEMMA OnceSend == FragInv /\ OnceInv /\ batadv_send_skb_to_orig => OnceInv'
<1> SUFFICES ASSUME FragInv, OnceInv, batadv_send_skb_to_orig PROVE OnceInv'
  OBVIOUS
<1>1. PICK p \in frag_left.packets \ frag_sent :
        /\ frag_sent' = frag_sent \cup {p}
        /\ IF Length[p] > Mtu["relay"] THEN batadv_frag_send_packet(p) /\ UNCHANGED wholes
           ELSE wholes' = wholes \cup {<<"relay", p>>} /\ UNCHANGED <<frag_seqno, air, frag_left>>
        /\ UNCHANGED <<chains, frag_delivered>>
  BY DEF batadv_send_skb_to_orig
<1> DEFINE Sent(n) == {batadv_frag_create(p, frag_seqno', FragmentSize(p), no) : no \in 0..n}
<1>2. /\ frag_left' \in Scenario /\ frag_left'.packets = frag_left.packets
      /\ frag_left'.repeats = frag_left.repeats
      /\ \/ UNCHANGED <<frag_seqno, air>> /\ wholes' \subseteq wholes \cup {<<"relay", p>>}
            /\ (wholes' # wholes => p \notin Cut)
         \/ /\ p \in Cut /\ UNCHANGED wholes /\ frag_seqno' = (frag_seqno + 1) % FRAG_SEQS
            /\ \E n \in 0..LastFragment(p) : air' = air \cup Sent(n)
  BY <1>1, PacketSent
<1>3. p \in FragPacket /\ p \notin frag_sent /\ frag_left.repeats \in Nat /\ frag_delivered[p] \in Nat
  BY DEF FragInv, FragTypes, Scenario
<1>4. frag_delivered[p] = 0 /\ \A n \in FragNode : <<n, p>> \notin wholes
  BY <1>3 DEF FragInv, OnlySent
<1>5. wholes' \subseteq wholes \cup {<<"relay", p>>} /\ (wholes' # wholes => p \notin Cut)
  BY <1>2
<1>6. OnePiece'
  <2> SUFFICES ASSUME NEW x \in FragPacket
               PROVE  /\ frag_delivered'[x] <= 1
                      /\ frag_delivered'[x] > 0 => <<"relay", x>> \notin wholes' /\ <<"dest", x>> \notin wholes'
                      /\ <<"relay", x>> \in wholes' => x \notin Cut /\ <<"dest", x>> \notin wholes'
    BY DEF OnePiece
  <2>1. frag_delivered' = frag_delivered
    BY <1>1
  <2>2. CASE x = p
    BY <1>4, <1>5, <2>1, <2>2 DEF FragNode
  <2>3. CASE x # p
    BY <1>5, <2>1, <2>3 DEF OnceInv, OnePiece
  <2> QED BY <2>2, <2>3
<1>7. PICK r \in Nat : FewTokens(r)
  BY DEF OnceInv
<1>8. \A x \in Cut : Due(x)' = Due(x)
  BY <1>1, <1>5 DEF Due, Finished
<1> HIDE DEF Sent
<1>9. CASE UNCHANGED air
  <2>1. \A x \in Cut : Tokens(x)' = Tokens(x)
    BY <1>1, <1>9 DEF Tokens, InChain
  <2>2. FewTokens(r)'
    BY <1>2, <1>7, <1>8, <2>1 DEF FewTokens
  <2> QED BY <1>6, <2>2 DEF OnceInv
<1>10. ASSUME NEW n \in 0..LastFragment(p), p \in Cut, air' = air \cup Sent(n) PROVE FewTokens(r)'
  <2>1. ASSUME NEW f \in Sent(n)
        PROVE  /\ f.packet = p /\ f \in Frag /\ f.no \in 0..LastFragment(p)
               /\ f = batadv_frag_create(p, frag_seqno', FragmentSize(p), f.no)
    <3>1. PICK no \in 0..n : f = batadv_frag_create(p, frag_seqno', FragmentSize(p), no)
      BY <2>1 DEF Sent
    <3>2. no \in 0..LastFragment(p)
      BY <1>10, FragmentSizes
    <3>3. frag_seqno' \in Seqno
      BY SendKeepsInv DEF FragInv, FragTypes
    <3>4. Genuine(f) /\ f.packet = p /\ f.no = no
      BY <1>10, <3>1, <3>2, <3>3, CreatedGenuine
    <3> QED BY <3>1, <3>2, <3>4 DEF Genuine
  <2>2. ASSUME NEW x \in Cut, x # p PROVE Tokens(x)' = Tokens(x)
    BY <1>1, <1>10, <2>1, <2>2 DEF Tokens, InChain
  <2>3. ASSUME NEW t \in Tokens(p)' PROVE t[1] = "air" /\ t[2] \in Sent(n) /\ t = <<"air", t[2]>>
    <3>1. \A q \in Seqno : ~Marked(p, q)
      BY <1>3 DEF FragInv, SeqnosApart
    <3>2. t \in {"air", "kept"} \X Frag /\ t[2].packet = p /\ t[2].seqno \in Seqno
      BY <2>3 DEF Tokens, Frag
    <3>3. t[2] \notin air /\ ~InChain(t[2])
      BY <3>1, <3>2 DEF Marked, InChain
    <3>4. InChain(t[2])' = InChain(t[2])
      BY <1>1 DEF InChain
    <3>5. t[1] = "air"
      BY <2>3, <3>2, <3>3, <3>4 DEF Tokens
    <3> QED BY <1>10, <2>3, <3>2, <3>3, <3>5 DEF Tokens
  <2>4. IsFiniteSet(Tokens(p)') /\ Cardinality(Tokens(p)') <= LastFragment(p) + 1
    <3> DEFINE N == 0..LastFragment(p)
               T == Tokens(p)'
               h == [t \in T |-> t[2].no]
    <3>1. \A t \in T : t[2].no \in N /\ t = <<"air", batadv_frag_create(p, frag_seqno', FragmentSize(p), t[2].no)>>
      BY <2>1, <2>3
    <3>2. IsFiniteSet(N) /\ Cardinality(N) = LastFragment(p) + 1
      BY <1>10, Numbers
    <3> HIDE DEF T, N
    <3>3. h \in [T -> N]
      BY <3>1
    <3>4. \A s, t \in T : h[s] = h[t] => s = t
      BY <3>1
    <3>5. h \in Injection(T, N)
      BY <3>3, <3>4 DEF Injection, IsInjective
    <3> HIDE DEF h
    <3>6. IsFiniteSet(T) /\ Cardinality(T) <= Cardinality(N)
      BY <3>2, <3>5, FS_Injection
    <3> QED BY <3>2, <3>6 DEF T
  <2>5. Cardinality(Tokens(p)') \in Nat /\ LastFragment(p) \in Nat
    BY <1>10, <2>4, FS_CardinalityType, FragmentSizes
  <2>6. ~Finished(p)
    BY <1>3, <1>4 DEF Finished, FragNode
  <2>7. Cardinality(Tokens(p)') + frag_left'.repeats <= r + Due(p)'
    <3>1. frag_left.repeats <= r
      BY <1>7 DEF FewTokens
    <3>2. Due(p)' = LastFragment(p) + 1
      BY <1>8, <1>10, <2>6 DEF Due
    <3> QED BY <1>2, <1>3, <2>4, <2>5, <3>1, <3>2
  <2>8. ASSUME NEW x \in Cut
        PROVE  IsFiniteSet(Tokens(x)') /\ Cardinality(Tokens(x)') + frag_left'.repeats <= r + Due(x)'
    <3>1. CASE x = p
      BY <2>4, <2>7, <3>1
    <3>2. CASE x # p
      <4>1. IsFiniteSet(Tokens(x)) /\ Cardinality(Tokens(x)) + frag_left.repeats <= r + Due(x)
        BY <1>7 DEF FewTokens
      <4> QED BY <1>2, <1>8, <2>2, <3>2, <4>1
    <3> QED BY <3>1, <3>2
  <2> QED BY <1>2, <1>7, <2>8 DEF FewTokens
<1> QED BY <1>2, <1>6, <1>9, <1>10 DEF OnceInv

\* One fragment takes the place of another.
LEMMA TokenMoves ==
  ASSUME NEW T0, IsFiniteSet(T0), NEW x \in T0, NEW y, NEW T1, T1 \subseteq (T0 \ {x}) \cup {y}
  PROVE  IsFiniteSet(T1) /\ Cardinality(T1) \in Nat /\ Cardinality(T1) <= Cardinality(T0)
<1> DEFINE U == T0 \ {x}
           V == U \cup {y}
<1>1. IsFiniteSet(U) /\ Cardinality(U) = Cardinality(T0) - 1
  BY FS_RemoveElement
<1>2. Cardinality(U) \in Nat /\ Cardinality(T0) \in Nat
  BY <1>1, FS_CardinalityType
<1> HIDE DEF U
<1>3. IsFiniteSet(V) /\ Cardinality(V) <= Cardinality(U) + 1
  <2>1. IsFiniteSet(V) /\ Cardinality(V) = IF y \in U THEN Cardinality(U) ELSE Cardinality(U) + 1
    BY <1>1, FS_AddElement
  <2> QED BY <1>2, <2>1
<1>4. T1 \in SUBSET V
  BY DEF U
<1> HIDE DEF V
<1>5. IsFiniteSet(T1) /\ Cardinality(T1) <= Cardinality(V)
  BY <1>3, <1>4, FS_Subset
<1>6. Cardinality(T1) \in Nat /\ Cardinality(V) \in Nat
  BY <1>3, <1>5, FS_CardinalityType
<1> QED BY <1>1, <1>2, <1>3, <1>5, <1>6

\* All fragments of a packet are taken.
LEMMA TokensSpent ==
  ASSUME NEW p \in Cut, NEW T0, IsFiniteSet(T0), NEW D \in SUBSET T0,
         \A t \in D : t[2].no \in 0..LastFragment(p),
         \A no \in 0..LastFragment(p) : \E t \in D : t[2].no = no,
         NEW T1 \in SUBSET (T0 \ D)
  PROVE  /\ IsFiniteSet(T1) /\ Cardinality(T1) \in Nat
         /\ Cardinality(T1) + LastFragment(p) + 1 <= Cardinality(T0)
<1> DEFINE N == 0..LastFragment(p)
           h == [t \in D |-> t[2].no]
<1>1. IsFiniteSet(N) /\ Cardinality(N) = LastFragment(p) + 1
  BY Numbers
<1>2. IsFiniteSet(D) /\ IsFiniteSet(T1) /\ IsFiniteSet(T1 \cup D)
      /\ Cardinality(T1 \cup D) <= Cardinality(T0)
  <2>1. T1 \in SUBSET T0 /\ T1 \cup D \in SUBSET T0
    OBVIOUS
  <2> QED BY <2>1, FS_Subset
<1>3. Cardinality(N) <= Cardinality(D)
  <2>1. h \in Surjection(D, N)
    BY DEF Surjection
  <2> HIDE DEF N, h
  <2> QED BY <1>2, <2>1, FS_Surjection
<1>4. Cardinality(T1 \cup D) = Cardinality(T1) + Cardinality(D)
  <2>1. T1 \cap D = {}
    OBVIOUS
  <2>2. Cardinality(T1 \cap D) = 0
    BY <2>1, FS_EmptySet
  <2>3. Cardinality(T1) \in Nat /\ Cardinality(D) \in Nat
    BY <1>2, FS_CardinalityType
  <2>4. Cardinality(T1 \cup D) = Cardinality(T1) + Cardinality(D) - Cardinality(T1 \cap D)
    BY <1>2, FS_Union
  <2> QED BY <2>2, <2>3, <2>4
<1>5. Cardinality(T1) \in Nat /\ Cardinality(D) \in Nat /\ Cardinality(T0) \in Nat /\ LastFragment(p) \in Nat
  BY <1>2, FS_CardinalityType, FragmentSizes
<1> QED BY <1>1, <1>2, <1>3, <1>4, <1>5

\* Fragment f is received, and frames are on the links afterwards.  T0 are the fragments of
\* its packet, with x, that one itself, among them; there are r repeats, k of them left.
Receipt(f, frames, T0, x, r, k) ==
  /\ f \in air /\ frames \in SUBSET air /\ r \in Nat /\ k \in Nat
  /\ batadv_recv_frag_packet(f.to, f, frames)
  /\ \A p \in frag_left.packets : p \in Cut => r <= LastFragment(p)
  /\ IsFiniteSet(T0) /\ Cardinality(T0) + k <= r + Due(f.packet)
  /\ x \in T0 /\ x[2] = f
  /\ \A t \in Tokens(f.packet) : (t[1] = "kept" \/ t[2] \in frames) => t \in T0 /\ t # x

LEMMA FragmentSpends ==
  ASSUME FragInv, OnePiece, NEW f, NEW frames, NEW T0, NEW x, NEW r, NEW k, Receipt(f, frames, T0, x, r, k)
  PROVE  /\ OnePiece'
         /\ IsFiniteSet(Tokens(f.packet)')
         /\ Cardinality(Tokens(f.packet)') + k <= r + Due(f.packet)'
         /\ \A p \in Cut \ {f.packet} : Tokens(p)' \subseteq Tokens(p) /\ Due(p)' = Due(p)
<1> SUFFICES ASSUME f \in air, frames \in SUBSET air, r \in Nat, k \in Nat,
                    batadv_recv_frag_packet(f.to, f, frames),
                    \A p \in frag_left.packets : p \in Cut => r <= LastFragment(p),
                    IsFiniteSet(T0), Cardinality(T0) + k <= r + Due(f.packet), x \in T0, x[2] = f,
                    \A t \in Tokens(f.packet) : (t[1] = "kept" \/ t[2] \in frames) => t \in T0 /\ t # x
             PROVE  /\ OnePiece'
                    /\ IsFiniteSet(Tokens(f.packet)')
                    /\ Cardinality(Tokens(f.packet)') + k <= r + Due(f.packet)'
                    /\ \A p \in Cut \ {f.packet} : Tokens(p)' \subseteq Tokens(p) /\ Due(p)' = Due(p)
  BY DEF Receipt
<1> DEFINE n == f.to
           p == f.packet
           b == f.seqno % FRAG_BUFFER_COUNT
           m == LastFragment(p)
<1>1. /\ Genuine(f) /\ f \in Frag /\ n \in FragNode /\ p \in Cut /\ p \in FragPacket /\ b \in Buckets
      /\ p \in frag_sent /\ f.no \in 0..m
  BY FragmentHere DEF Genuine
<1>2. r <= m /\ m \in Nat
  BY <1>1, FragmentSizes DEF FragInv, FragTypes
<1>3. Cardinality(T0) \in Nat
  BY FS_CardinalityType
<1>4. CASE batadv_frag_skb_fwd(n, f)
  <2> DEFINE g == [f EXCEPT !.to = "dest"]
             y == <<"air", g>>
  <2>1. air' = frames \cup {g} /\ UNCHANGED <<chains, wholes, frag_delivered>>
    BY <1>4 DEF batadv_recv_frag_packet
  <2>2. g \in Frag /\ g.packet = p
    BY <1>1 DEF Frag, FragNode
  <2> HIDE DEF g
  <2>3. \A h \in Frag : InChain(h)' = InChain(h)
    BY <2>1 DEF InChain
  <2>4. Tokens(p)' \subseteq (T0 \ {x}) \cup {y}
    <3> SUFFICES ASSUME NEW t \in Tokens(p)', t # y PROVE t \in T0 /\ t # x
      OBVIOUS
    <3>1. t \in Tokens(p) /\ (t[1] = "kept" \/ t[2] \in frames)
      BY <2>1, <2>3 DEF Tokens
    <3> QED BY <3>1
  <2>5. \A z \in Cut : Due(z)' = Due(z)
    BY <2>1 DEF Due, Finished
  <2>6. IsFiniteSet(Tokens(p)') /\ Cardinality(Tokens(p)') + k <= r + Due(p)'
    <3>1. IsFiniteSet(Tokens(p)') /\ Cardinality(Tokens(p)') \in Nat
          /\ Cardinality(Tokens(p)') <= Cardinality(T0)
      BY <2>4, TokenMoves
    <3>2. Due(p) \in Nat /\ Due(p)' = Due(p)
      BY <1>1, <2>5, DueIsNat
    <3> QED BY <1>3, <3>1, <3>2
  <2>7. ASSUME NEW z \in Cut \ {p} PROVE Tokens(z)' \subseteq Tokens(z)
    BY <2>1, <2>2, <2>3, <2>7 DEF Tokens
  <2>8. OnePiece'
    BY <2>1 DEF OnePiece
  <2> QED BY <2>5, <2>6, <2>7, <2>8
<1>5. CASE ~batadv_frag_skb_fwd(n, f)
  <2> DEFINE old == chains[n][b].fragment_list
  <2>1. air' = frames /\ \E ch \in Chain : Taken(f, n, b, ch)
    BY <1>5, FragmentTaken
  <2>2. PICK ch \in Chain :
          /\ \A i \in FragNode, e \in Buckets : chains'[i][e] = IF i = n /\ e = b THEN ch ELSE chains[i][e]
          /\ \A i \in DOMAIN ch.fragment_list :
               ch.fragment_list[i] = f \/ \E j \in DOMAIN old : ch.fragment_list[i] = old[j]
          /\ \/ UNCHANGED <<wholes, frag_delivered>>
             \/ /\ InOnePiece(n, p, wholes) /\ ch.fragment_list = <<>>
                /\ \A no \in 0..m : no = f.no \/ \E j \in DOMAIN old : old[j].packet = p /\ old[j].no = no
    BY <2>1 DEF Taken
  <2>3. \A i \in FragNode, e \in Buckets : SoundChain(chains[i][e], i, e)
    BY DEF FragInv, FragmentsGenuine
  <2> HIDE DEF b
  <2>4. ASSUME NEW h \in Frag, InChain(h)' PROVE InChain(h) \/ (h = f /\ ch.fragment_list # <<>>)
    <3>1. PICK i \in FragNode, e \in Buckets : \E j \in DOMAIN chains'[i][e].fragment_list :
            chains'[i][e].fragment_list[j] = h
      BY <2>4 DEF InChain
    <3>2. PICK j \in DOMAIN chains'[i][e].fragment_list : chains'[i][e].fragment_list[j] = h
      BY <3>1
    <3>3. CASE i = n /\ e = b
      <4>1. chains'[i][e] = ch
        BY <1>1, <2>2, <3>3
      <4>2. ch.fragment_list # <<>>
        BY <3>2, <4>1
      <4>3. h = f \/ \E l \in DOMAIN old : h = old[l]
        BY ZenonT(40), <2>2, <3>2, <4>1
      <4> QED BY <1>1, <4>2, <4>3 DEF InChain
    <3>4. CASE ~(i = n /\ e = b)
      <4>1. chains'[i][e] = chains[i][e]
        BY <2>2, <3>4
      <4> QED BY <3>2, <4>1 DEF InChain
    <3> QED BY <3>3, <3>4
  <2>5. ASSUME NEW z \in Cut \ {p} PROVE Tokens(z)' \subseteq Tokens(z)
    <3> SUFFICES ASSUME NEW t \in Tokens(z)' PROVE t \in Tokens(z)
      OBVIOUS
    <3>1. t \in {"air", "kept"} \X Frag /\ t[2].packet = z /\ IF t[1] = "air" THEN t[2] \in air' ELSE InChain(t[2])'
      BY DEF Tokens
    <3>2. IF t[1] = "air" THEN t[2] \in air ELSE InChain(t[2])
      BY <2>1, <2>4, <2>5, <3>1
    <3> QED BY <3>1, <3>2 DEF Tokens
  <2>6. CASE UNCHANGED <<wholes, frag_delivered>>
    <3> DEFINE y == <<"kept", f>>
    <3>1. Tokens(p)' \subseteq (T0 \ {x}) \cup {y}
      <4> SUFFICES ASSUME NEW t \in Tokens(p)', t # y PROVE t \in T0 /\ t # x
        OBVIOUS
      <4>1. t \in {"air", "kept"} \X Frag /\ t[2].packet = p /\ IF t[1] = "air" THEN t[2] \in air' ELSE InChain(t[2])'
        BY DEF Tokens
      <4>2. t = <<t[1], t[2]>>
        BY <4>1
      <4>3. t[1] # "air" => t[1] = "kept" /\ InChain(t[2])
        BY <2>4, <4>1, <4>2
      <4>4. t \in Tokens(p) /\ (t[1] = "kept" \/ t[2] \in frames)
        BY <2>1, <4>1, <4>3 DEF Tokens
      <4> QED BY <4>4
    <3>2. \A z \in Cut : Due(z)' = Due(z)
      BY <2>6 DEF Due, Finished
    <3>3. IsFiniteSet(Tokens(p)') /\ Cardinality(Tokens(p)') + k <= r + Due(p)'
      <4>1. IsFiniteSet(Tokens(p)') /\ Cardinality(Tokens(p)') \in Nat
            /\ Cardinality(Tokens(p)') <= Cardinality(T0)
        BY <3>1, TokenMoves
      <4>2. Due(p) \in Nat /\ Due(p)' = Due(p)
        BY <1>1, <3>2, DueIsNat
      <4> QED BY <1>3, <4>1, <4>2
    <3>4. OnePiece'
      BY <2>6 DEF OnePiece
    <3> QED BY <2>5, <3>2, <3>3, <3>4
  <2>7. CASE /\ InOnePiece(n, p, wholes) /\ ch.fragment_list = <<>>
             /\ \A no \in 0..m : no = f.no \/ \E j \in DOMAIN old : old[j].packet = p /\ old[j].no = no
    <3> DEFINE D == {t \in T0 : t = x \/ (t[1] = "kept" /\ t \in Tokens(p) /\ \E j \in DOMAIN old : old[j] = t[2])}
    <3>1. SoundChain(chains[n][b], n, b)
      BY <1>1, <2>3
    <3>2. \A t \in D : t[2].no \in 0..m
      <4> SUFFICES ASSUME NEW t \in D PROVE t[2].no \in 0..m
        OBVIOUS
      <4>1. CASE t = x
        BY <1>1, <4>1
      <4>2. CASE t # x
        <5>1. PICK j \in DOMAIN old : old[j] = t[2] /\ t \in Tokens(p)
          BY <4>2
        <5>2. t[2].packet = p
          BY <5>1 DEF Tokens
        <5>3. Genuine(t[2])
          BY <3>1, <5>1 DEF SoundChain
        <5> QED BY <5>2, <5>3 DEF Genuine
      <4> QED BY <4>1, <4>2
    <3>3. ASSUME NEW no \in 0..m PROVE \E t \in D : t[2].no = no
      <4>1. CASE no = f.no
        <5>1. x \in D
          OBVIOUS
        <5> QED BY <4>1, <5>1
      <4>2. CASE no # f.no
        <5>1. PICK j \in DOMAIN old : old[j].packet = p /\ old[j].no = no
          BY <2>7, <4>2
        <5> DEFINE t == <<"kept", old[j]>>
        <5>2. old[j] \in Frag /\ InChain(old[j])
          BY <1>1, <3>1 DEF SoundChain, Genuine, InChain
        <5>3. t[1] = "kept" /\ t[2] = old[j] /\ t \in {"air", "kept"} \X Frag
          BY <5>2
        <5> HIDE DEF t
        <5>4. t \in Tokens(p)
          BY <5>1, <5>2, <5>3 DEF Tokens
        <5>5. t \in D
          BY <5>3, <5>4
        <5> QED BY <5>1, <5>3, <5>5
      <4> QED BY <4>1, <4>2
    <3>4. Tokens(p)' \subseteq T0 \ D
      <4> SUFFICES ASSUME NEW t \in Tokens(p)' PROVE t \in T0 /\ t \notin D
        OBVIOUS
      <4>1. t \in {"air", "kept"} \X Frag /\ t[2].packet = p /\ IF t[1] = "air" THEN t[2] \in air' ELSE InChain(t[2])'
        BY DEF Tokens
      <4>2. t[1] # "air" => t[1] = "kept" /\ InChain(t[2])
        BY <2>4, <2>7, <4>1
      <4>3. t \in Tokens(p) /\ (t[1] = "kept" \/ t[2] \in frames)
        BY <2>1, <4>1, <4>2 DEF Tokens
      <4>4. t \in T0 /\ t # x
        BY <4>3
      <4>5. ASSUME t[1] = "kept", NEW j \in DOMAIN old, old[j] = t[2] PROVE FALSE
        <5>1. t[2].to = n /\ t[2].seqno % FRAG_BUFFER_COUNT = b
          BY ZenonT(40), <3>1, <4>5 DEF SoundChain
        <5>2. InChain(t[2])'
          BY <4>1, <4>5
        <5>3. PICK i \in FragNode, e \in Buckets : \E l \in DOMAIN chains'[i][e].fragment_list :
                chains'[i][e].fragment_list[l] = t[2]
          BY <5>2 DEF InChain
        <5>4. CASE i = n /\ e = b
          <6>1. chains'[i][e].fragment_list = <<>>
            BY <1>1, <2>2, <2>7, <5>4
          <6> QED BY <5>3, <6>1
        <5>5. CASE ~(i = n /\ e = b)
          <6>1. chains'[i][e] = chains[i][e]
            BY <2>2, <5>5
          <6>2. t[2].to = i /\ t[2].seqno % FRAG_BUFFER_COUNT = e
            BY <2>3, <5>3, <6>1 DEF SoundChain
          <6> QED BY <5>1, <5>5, <6>2
        <5> QED BY <5>4, <5>5
      <4> QED BY <4>4, <4>5
    <3> HIDE DEF D
    <3>5. D \in SUBSET T0
      BY DEF D
    <3>6. /\ IsFiniteSet(Tokens(p)') /\ Cardinality(Tokens(p)') \in Nat
          /\ Cardinality(Tokens(p)') + m + 1 <= Cardinality(T0)
      BY <1>1, <3>2, <3>3, <3>4, <3>5, TokensSpent
    <3>7. ~Finished(p)
      <4>1. SUFFICES ASSUME Finished(p) PROVE FALSE
        OBVIOUS
      <4>2. Due(p) = 0
        BY <4>1 DEF Due
      <4> QED BY <1>2, <1>3, <3>6, <4>2
    <3>8. Cardinality(Tokens(p)') + k <= r + Due(p)'
      <4>1. Due(p) = m + 1
        BY <3>7 DEF Due
      <4>2. Due(p)' \in Nat
        BY <1>2 DEF Due
      <4> QED BY <1>2, <1>3, <3>6, <4>1, <4>2
    <3>9. frag_delivered[p] = 0 /\ <<"dest", p>> \notin wholes /\ <<"relay", p>> \notin wholes
      <4>1. frag_delivered[p] \in Nat
        BY <1>1 DEF FragInv, FragTypes
      <4> QED BY <1>1, <3>7, <4>1 DEF Finished, OnePiece
    <3>10. \/ wholes' = wholes \cup {<<"dest", p>>} /\ UNCHANGED frag_delivered
           \/ UNCHANGED wholes /\ frag_delivered' = [frag_delivered EXCEPT ![p] = @ + 1]
      BY <1>1, <2>7 DEF InOnePiece, FragNode
    <3>11. \A z \in FragPacket : z # p => frag_delivered'[z] = frag_delivered[z]
      BY <1>1, <3>10 DEF FragInv, FragTypes
    <3>12. frag_delivered'[p] \in {0, 1} /\ (frag_delivered'[p] > 0 => UNCHANGED wholes)
      BY <1>1, <3>9, <3>10 DEF FragInv, FragTypes
    <3>13. \A z \in Cut \ {p} : Due(z)' = Due(z)
      BY <3>10, <3>11 DEF Due, Finished, Cut
    <3>14. OnePiece'
      <4> SUFFICES ASSUME NEW z \in FragPacket
                   PROVE  /\ frag_delivered'[z] <= 1
                          /\ frag_delivered'[z] > 0 => <<"relay", z>> \notin wholes' /\ <<"dest", z>> \notin wholes'
                          /\ <<"relay", z>> \in wholes' => z \notin Cut /\ <<"dest", z>> \notin wholes'
        BY DEF OnePiece
      <4>1. CASE z = p
        BY <3>9, <3>10, <3>12, <4>1
      <4>2. CASE z # p
        BY <3>10, <3>11, <4>2 DEF OnePiece
      <4> QED BY <4>1, <4>2
    <3> QED BY <2>5, <3>6, <3>8, <3>13, <3>14
  <2> QED BY <2>2, <2>6, <2>7
<1> QED BY <1>4, <1>5

\* A fragment is received: the invariant of packet f.packet from FragmentSpends, that of the
\* others as it was.
LEMMA OnceAfterFragment ==
  ASSUME FragInv, NEW r \in Nat, FewTokens(r), UNCHANGED frag_left.packets,
         frag_left'.repeats \in Nat, frag_left'.repeats <= frag_left.repeats,
         NEW q \in Cut, IsFiniteSet(Tokens(q)'), Cardinality(Tokens(q)') + frag_left'.repeats <= r + Due(q)',
         \A p \in Cut \ {q} : Tokens(p)' \subseteq Tokens(p) /\ Due(p)' = Due(p)
  PROVE  FewTokens(r)'
<1>1. frag_left.repeats \in Nat
  BY DEF FragInv, FragTypes, Scenario
<1>2. frag_left'.repeats <= r
  BY <1>1 DEF FewTokens
<1>3. ASSUME NEW p \in Cut \ {q}
      PROVE  IsFiniteSet(Tokens(p)') /\ Cardinality(Tokens(p)') + frag_left'.repeats <= r + Due(p)'
  <2>1. IsFiniteSet(Tokens(p)) /\ Cardinality(Tokens(p)) + frag_left.repeats <= r + Due(p)
    BY DEF FewTokens
  <2>2. IsFiniteSet(Tokens(p)') /\ Cardinality(Tokens(p)') <= Cardinality(Tokens(p))
    BY <2>1, FS_Subset
  <2>3. Cardinality(Tokens(p)) \in Nat /\ Cardinality(Tokens(p)') \in Nat
    BY <2>1, <2>2, FS_CardinalityType
  <2>4. Due(p) \in Nat /\ Due(p)' = Due(p)
    BY DueIsNat
  <2> QED BY <1>1, <2>1, <2>2, <2>3, <2>4
<1> QED BY <1>2, <1>3 DEF FewTokens

LEMMA OnceReceive == FragInv /\ OnceInv /\ ReceiveFrame => OnceInv'
<1> SUFFICES ASSUME FragInv, OnceInv, ReceiveFrame PROVE OnceInv'
  OBVIOUS
<1>1. UNCHANGED <<frag_seqno, frag_sent, frag_left>>
  BY DEF ReceiveFrame
<1>2. PICK r \in Nat : FewTokens(r)
  BY DEF OnceInv
<1>3. frag_left.repeats \in Nat /\ frag_left'.repeats = frag_left.repeats
  BY <1>1 DEF FragInv, FragTypes, Scenario
<1>4. ASSUME NEW f \in air, batadv_recv_frag_packet(f.to, f, air \ {f}) PROVE OnceInv'
  <2> DEFINE p == f.packet
             x == <<"air", f>>
  <2>1. p \in Cut /\ f \in Frag
    BY FragmentHere
  <2>2. x \in Tokens(p) /\ x[2] = f /\ x[1] = "air"
    BY <2>1 DEF Tokens
  <2>3. \A t \in Tokens(p) : (t[1] = "kept" \/ t[2] \in air \ {f}) => t \in Tokens(p) /\ t # x
    BY <2>2
  <2>4. IsFiniteSet(Tokens(p)) /\ Cardinality(Tokens(p)) + frag_left.repeats <= r + Due(p)
    BY <1>2, <2>1 DEF FewTokens
  <2>5. \A z \in frag_left.packets : z \in Cut => r <= LastFragment(z)
    BY <1>2 DEF FewTokens
  <2> HIDE DEF x
  <2>6. /\ OnePiece'
        /\ IsFiniteSet(Tokens(p)')
        /\ Cardinality(Tokens(p)') + frag_left.repeats <= r + Due(p)'
        /\ \A z \in Cut \ {p} : Tokens(z)' \subseteq Tokens(z) /\ Due(z)' = Due(z)
    <3>1. Receipt(f, air \ {f}, Tokens(p), x, r, frag_left.repeats)
      BY <1>3, <1>4, <2>2, <2>3, <2>4, <2>5 DEF Receipt
    <3> QED BY <3>1, FragmentSpends DEF OnceInv
  <2>7. FewTokens(r)'
    BY <1>1, <1>2, <1>3, <2>1, <2>6, OnceAfterFragment
  <2> QED BY <2>6, <2>7 DEF OnceInv
<1>5. ASSUME NEW w \in wholes, InOnePiece(w[1], w[2], wholes \ {w}), UNCHANGED <<air, chains>> PROVE OnceInv'
  <2> DEFINE p == w[2]
  <2>1. w = <<w[1], p>> /\ w[1] \in FragNode /\ p \in FragPacket
    BY DEF FragInv, FragTypes
  <2>2. frag_delivered \in [FragPacket \cup {"garbage"} -> Nat]
    BY DEF FragInv, FragTypes
  <2> HIDE DEF p
  <2>3. frag_delivered[p] = 0
    <3>1. <<"relay", p>> \in wholes \/ <<"dest", p>> \in wholes
      BY <2>1 DEF FragNode
    <3>2. ~(frag_delivered[p] > 0)
      BY <2>1, <3>1 DEF OnceInv, OnePiece
    <3> QED BY <2>1, <2>2, <3>2
  <2>4. CASE w[1] = "relay"
    <3>1. wholes' = (wholes \ {<<"relay", p>>}) \cup {<<"dest", p>>} /\ UNCHANGED frag_delivered
          /\ <<"relay", p>> \in wholes
      BY <1>5, <2>1, <2>4 DEF InOnePiece, p
    <3>2. p \notin Cut
      BY <2>1, <3>1 DEF OnceInv, OnePiece
    <3>3. OnePiece'
      <4> SUFFICES ASSUME NEW z \in FragPacket
                   PROVE  /\ frag_delivered'[z] <= 1
                          /\ frag_delivered'[z] > 0 => <<"relay", z>> \notin wholes' /\ <<"dest", z>> \notin wholes'
                          /\ <<"relay", z>> \in wholes' => z \notin Cut /\ <<"dest", z>> \notin wholes'
        BY DEF OnePiece
      <4>1. CASE z = p
        BY <2>3, <3>1, <4>1
      <4>2. CASE z # p
        BY <3>1, <4>2 DEF OnceInv, OnePiece
      <4> QED BY <4>1, <4>2
    <3>4. \A z \in Cut : Due(z)' = Due(z)
      BY <3>1, <3>2 DEF Due, Finished
    <3>5. \A z \in Cut : Tokens(z)' = Tokens(z)
      BY <1>5 DEF Tokens, InChain
    <3>6. FewTokens(r)'
      BY <1>1, <1>2, <3>4, <3>5 DEF FewTokens
    <3> QED BY <3>3, <3>6 DEF OnceInv
  <2>5. CASE w[1] = "dest"
    <3>1. wholes' = wholes \ {<<"dest", p>>} /\ frag_delivered' = [frag_delivered EXCEPT ![p] = @ + 1]
          /\ <<"dest", p>> \in wholes
      BY <1>5, <2>1, <2>5 DEF InOnePiece, p
    <3>2. frag_delivered'[p] = 1 /\ \A z \in FragPacket : z # p => frag_delivered'[z] = frag_delivered[z]
      BY <2>1, <2>2, <2>3, <3>1
    <3>3. OnePiece'
      <4> SUFFICES ASSUME NEW z \in FragPacket
                   PROVE  /\ frag_delivered'[z] <= 1
                          /\ frag_delivered'[z] > 0 => <<"relay", z>> \notin wholes' /\ <<"dest", z>> \notin wholes'
                          /\ <<"relay", z>> \in wholes' => z \notin Cut /\ <<"dest", z>> \notin wholes'
        BY DEF OnePiece
      <4>1. CASE z = p
        <5>1. <<"relay", p>> \notin wholes
          BY <2>1, <3>1 DEF OnceInv, OnePiece
        <5> QED BY <3>1, <3>2, <4>1, <5>1
      <4>2. CASE z # p
        BY <3>1, <3>2, <4>2 DEF OnceInv, OnePiece
      <4> QED BY <4>1, <4>2
    <3>4. ASSUME NEW z \in Cut PROVE Due(z)' = Due(z)
      <4>1. z \in FragPacket
        BY DEF Cut
      <4>2. CASE z = p
        <5>1. Finished(z) /\ Finished(z)'
          BY <3>1, <3>2, <4>2 DEF Finished
        <5> QED BY <5>1 DEF Due
      <4>3. CASE z # p
        BY <3>1, <3>2, <4>1, <4>3 DEF Due, Finished
      <4> QED BY <4>2, <4>3
    <3>5. \A z \in Cut : Tokens(z)' = Tokens(z)
      BY <1>5 DEF Tokens, InChain
    <3>6. FewTokens(r)'
      BY <1>1, <1>2, <3>4, <3>5 DEF FewTokens
    <3> QED BY <3>3, <3>6 DEF OnceInv
  <2> QED BY <2>1, <2>4, <2>5 DEF FragNode
<1> QED BY <1>4, <1>5 DEF ReceiveFrame

\* The repeated fragment is one more, and one repeat is used.
LEMMA OnceRepeat == FragInv /\ OnceInv /\ RepeatFragment => OnceInv'
<1> SUFFICES ASSUME FragInv, OnceInv, RepeatFragment PROVE OnceInv'
  OBVIOUS
<1>1. PICK f \in air : Use("repeats") /\ batadv_recv_frag_packet(f.to, f, air) /\ UNCHANGED <<frag_seqno, frag_sent>>
  BY DEF RepeatFragment
<1>2. PICK r \in Nat : FewTokens(r)
  BY DEF OnceInv
<1>3. frag_left \in Scenario /\ frag_left.repeats \in Nat /\ frag_left["repeats"] > 0
  BY <1>1 DEF FragInv, FragTypes, Scenario, Use
<1>4. frag_left'.packets = frag_left.packets /\ frag_left'.repeats = frag_left.repeats - 1
  BY <1>1, <1>3, ScenarioFields DEF Use
<1> DEFINE p == f.packet
           x == <<"twin", f>>
           T0 == Tokens(p) \cup {x}
           k == frag_left'.repeats
<1>5. p \in Cut /\ f \in Frag
  BY FragmentHere
<1>6. k \in Nat /\ k = frag_left.repeats - 1
  BY <1>3, <1>4
<1>7. x \notin Tokens(p)
  BY DEF Tokens
<1>8. IsFiniteSet(T0) /\ Cardinality(T0) + k <= r + Due(p)
  <2>1. IsFiniteSet(Tokens(p)) /\ Cardinality(Tokens(p)) + frag_left.repeats <= r + Due(p)
    BY <1>2, <1>5 DEF FewTokens
  <2>2. IsFiniteSet(T0) /\ Cardinality(T0) = Cardinality(Tokens(p)) + 1
    BY <1>7, <2>1, FS_AddElement
  <2>3. Cardinality(Tokens(p)) \in Nat /\ Due(p) \in Nat
    BY <1>5, <2>1, FS_CardinalityType, DueIsNat
  <2> QED BY <1>3, <1>6, <2>1, <2>2, <2>3
<1>9. x \in T0 /\ x[2] = f /\ \A t \in Tokens(p) : (t[1] = "kept" \/ t[2] \in air) => t \in T0 /\ t # x
  BY <1>7
<1>10. \A z \in frag_left.packets : z \in Cut => r <= LastFragment(z)
  BY <1>2 DEF FewTokens
<1> HIDE DEF x, T0, k
<1>11. Receipt(f, air, T0, x, r, k)
  BY <1>1, <1>6, <1>8, <1>9, <1>10 DEF Receipt
<1>12. /\ OnePiece'
       /\ IsFiniteSet(Tokens(p)')
       /\ Cardinality(Tokens(p)') + k <= r + Due(p)'
       /\ \A z \in Cut \ {p} : Tokens(z)' \subseteq Tokens(z) /\ Due(z)' = Due(z)
  BY <1>11, FragmentSpends DEF OnceInv
<1>13. frag_left'.repeats \in Nat /\ frag_left'.repeats <= frag_left.repeats
  BY <1>3, <1>6 DEF k
<1>14. FewTokens(r)'
  BY <1>2, <1>4, <1>5, <1>12, <1>13, OnceAfterFragment DEF k
<1> QED BY <1>12, <1>14 DEF OnceInv

LEMMA OnceLose == FragInv /\ OnceInv /\ LoseFrame => OnceInv'
<1> SUFFICES ASSUME FragInv, OnceInv, LoseFrame PROVE OnceInv'
  OBVIOUS
<1>1. /\ Use("losses") /\ air' \subseteq air /\ wholes' \subseteq wholes
      /\ UNCHANGED <<frag_seqno, chains, frag_sent, frag_delivered>>
  BY DEF LoseFrame
<1>2. PICK r \in Nat : FewTokens(r)
  BY DEF OnceInv
<1>3. frag_left \in Scenario /\ frag_left.repeats \in Nat
  BY DEF FragInv, FragTypes, Scenario
<1>4. frag_left'.packets = frag_left.packets /\ frag_left'.repeats = frag_left.repeats
  BY <1>1, <1>3, ScenarioFields DEF Use
<1>5. ASSUME NEW p \in Cut PROVE Tokens(p)' \subseteq Tokens(p) /\ Due(p) <= Due(p)'
  <2>1. Tokens(p)' \subseteq Tokens(p)
    BY <1>1 DEF Tokens, InChain
  <2>2. Finished(p)' => Finished(p)
    BY <1>1 DEF Finished
  <2>3. LastFragment(p) \in Nat
    BY FragmentSizes
  <2> QED BY <2>1, <2>2, <2>3 DEF Due
<1>6. FewTokens(r)'
  BY <1>2, <1>3, <1>4, <1>5, FewerTokens
<1>7. OnePiece'
  BY <1>1 DEF OnceInv, OnePiece
<1> QED BY <1>6, <1>7 DEF OnceInv

LEMMA OncePurge == FragInv /\ OnceInv /\ batadv_frag_purge_orig => OnceInv'
<1> SUFFICES ASSUME FragInv, OnceInv, batadv_frag_purge_orig PROVE OnceInv'
  OBVIOUS
<1>1. PICK n \in FragNode, b \in Buckets :
        /\ Use("timeouts") /\ UNCHANGED <<frag_seqno, air, wholes, frag_sent, frag_delivered>>
        /\ chains' \in [FragNode -> [Buckets -> Chain]] /\ chains'[n][b].fragment_list = <<>>
        /\ \A m \in FragNode, e \in Buckets : ~(m = n /\ e = b) => chains'[m][e] = chains[m][e]
  BY ChainPurged
<1>2. PICK r \in Nat : FewTokens(r)
  BY DEF OnceInv
<1>3. frag_left \in Scenario /\ frag_left.repeats \in Nat
  BY DEF FragInv, FragTypes, Scenario
<1>4. frag_left'.packets = frag_left.packets /\ frag_left'.repeats = frag_left.repeats
  BY <1>1, <1>3, ScenarioFields DEF Use
<1>6. ASSUME NEW f \in Frag, InChain(f)' PROVE InChain(f)
  <2>1. PICK m \in FragNode, e \in Buckets : \E i \in DOMAIN chains'[m][e].fragment_list :
          chains'[m][e].fragment_list[i] = f
    BY <1>6 DEF InChain
  <2>2. DOMAIN <<>> = {}
    OBVIOUS
  <2>3. chains'[m][e] = chains[m][e]
    BY <1>1, <2>1, <2>2
  <2> QED BY <2>1, <2>3 DEF InChain
<1>7. ASSUME NEW p \in Cut PROVE Tokens(p)' \subseteq Tokens(p) /\ Due(p) <= Due(p)'
  <2>1. Tokens(p)' \subseteq Tokens(p)
    BY <1>1, <1>6 DEF Tokens
  <2>2. Due(p)' = Due(p) /\ Due(p) \in Nat
    BY <1>1, FragmentSizes DEF Due, Finished
  <2> QED BY <2>1, <2>2
<1>8. FewTokens(r)'
  BY <1>2, <1>3, <1>4, <1>7, FewerTokens
<1>9. OnePiece'
  BY <1>1 DEF OnceInv, OnePiece
<1> QED BY <1>8, <1>9 DEF OnceInv

LEMMA OnceStep == FragInv /\ OnceInv /\ [FragNext]_fragVars => OnceInv'
<1> SUFFICES ASSUME FragInv, OnceInv, UNCHANGED fragVars PROVE OnceInv'
  BY OnceSend, OnceReceive, OnceRepeat, OnceLose, OncePurge DEF FragNext
<1>1. PICK r \in Nat : FewTokens(r)
  BY DEF OnceInv
<1>2. \A p \in Cut : Tokens(p)' = Tokens(p) /\ Due(p)' = Due(p)
  BY DEF fragVars, Tokens, InChain, Due, Finished
<1>3. FewTokens(r)'
  BY <1>1, <1>2 DEF FewTokens, fragVars
<1>4. OnePiece'
  BY DEF OnceInv, OnePiece, fragVars
<1> QED BY <1>3, <1>4 DEF OnceInv

-----------------------------------------------------------------------------
(* The channel. *)

\* What a step does that the channel's users see.
LEMMA SentOrDelivered ==
  ASSUME FragInv, [FragNext]_fragVars
  PROVE  \/ UNCHANGED <<frag_sent, frag_delivered>>
         \/ UNCHANGED frag_delivered /\ \E p \in FragPacket : p \notin frag_sent /\ frag_sent' = frag_sent \cup {p}
         \/ UNCHANGED frag_sent
            /\ \E p \in FragPacket : p \in frag_sent /\ frag_delivered' = [frag_delivered EXCEPT ![p] = @ + 1]
<1>1. frag_left.packets \subseteq FragPacket
  BY DEF FragInv, FragTypes, Scenario
<1>2. CASE batadv_send_skb_to_orig
  BY <1>1, <1>2 DEF batadv_send_skb_to_orig
<1>3. ASSUME NEW f \in air, NEW frames, batadv_recv_frag_packet(f.to, f, frames), UNCHANGED frag_sent
      PROVE  UNCHANGED frag_delivered \/ \E p \in FragPacket :
                p \in frag_sent /\ frag_delivered' = [frag_delivered EXCEPT ![p] = @ + 1]
  <2>1. f.to \in FragNode /\ f.packet \in FragPacket /\ f.packet \in frag_sent
    BY FragmentHere
  <2>2. CASE batadv_frag_skb_fwd(f.to, f)
    BY <1>3, <2>2 DEF batadv_recv_frag_packet
  <2>3. CASE ~batadv_frag_skb_fwd(f.to, f)
    <3>1. PICK ch \in Chain : Taken(f, f.to, f.seqno % FRAG_BUFFER_COUNT, ch)
      BY <1>3, <2>3, FragmentTaken
    <3>2. UNCHANGED frag_delivered \/ InOnePiece(f.to, f.packet, wholes)
      BY <3>1 DEF Taken
    <3> QED BY <2>1, <3>2 DEF InOnePiece
  <2> QED BY <2>2, <2>3
<1>4. CASE ReceiveFrame
  <2>1. UNCHANGED frag_sent
    BY <1>4 DEF ReceiveFrame
  <2>2. CASE \E f \in air : batadv_recv_frag_packet(f.to, f, air \ {f})
    BY <1>3, <2>1, <2>2
  <2>3. CASE \E w \in wholes : InOnePiece(w[1], w[2], wholes \ {w})
    <3>1. PICK w \in wholes : InOnePiece(w[1], w[2], wholes \ {w})
      BY <2>3
    <3>2. w[2] \in FragPacket /\ w[2] \in frag_sent
      BY DEF FragInv, FragTypes, OnlySent
    <3> QED BY <2>1, <3>1, <3>2 DEF InOnePiece
  <2> QED BY <1>4, <2>2, <2>3 DEF ReceiveFrame
<1>5. CASE RepeatFragment
  <2>1. PICK f \in air : batadv_recv_frag_packet(f.to, f, air) /\ UNCHANGED frag_sent
    BY <1>5 DEF RepeatFragment
  <2> QED BY <1>3, <2>1
<1>6. CASE LoseFrame \/ batadv_frag_purge_orig \/ UNCHANGED fragVars
  BY <1>6 DEF LoseFrame, batadv_frag_purge_orig, fragVars
<1> QED BY <1>2, <1>4, <1>5, <1>6 DEF FragNext

\* The channel of module PacketChannel, whatever is lost, reordered or timed out and
\* whichever packets take each other's chains: what is delivered was sent, unchanged, and
\* is delivered once (batadv_frag_insert_packet drops what a chain has had, and what is
\* left of a packet that was put together is never all of it).
THEOREM FragmentationIsChannel ==
  ASSUME FewRepeats
  PROVE  FragSpec => ImplementsChannel
<1>1. FragInit => Channel!ChInit
  BY DEF FragInit, Channel!ChInit
<1>2. FragInv /\ OnceInv /\ FragInv' /\ OnceInv' /\ [FragNext]_fragVars
      => [Channel!ChNext]_(Channel!chVars)
  <2> SUFFICES ASSUME FragInv, OnceInv, FragInv', OnceInv', [FragNext]_fragVars
               PROVE  Channel!ChNext \/ UNCHANGED <<frag_sent, frag_delivered>>
    BY DEF Channel!chVars
  <2>1. \/ UNCHANGED <<frag_sent, frag_delivered>>
        \/ UNCHANGED frag_delivered /\ \E p \in FragPacket : p \notin frag_sent /\ frag_sent' = frag_sent \cup {p}
        \/ UNCHANGED frag_sent
           /\ \E p \in FragPacket : p \in frag_sent /\ frag_delivered' = [frag_delivered EXCEPT ![p] = @ + 1]
    BY SentOrDelivered
  <2>2. ASSUME NEW p \in FragPacket, p \notin frag_sent, frag_sent' = frag_sent \cup {p}, UNCHANGED frag_delivered
        PROVE  Channel!ChNext
    BY <2>2 DEF Channel!ChNext, Channel!Send
  <2>3. ASSUME NEW p \in FragPacket, p \in frag_sent, UNCHANGED frag_sent,
               frag_delivered' = [frag_delivered EXCEPT ![p] = @ + 1]
        PROVE  Channel!ChNext
    <3>1. frag_delivered \in [FragPacket \cup {"garbage"} -> Nat] /\ frag_delivered[p] \in Nat
      BY DEF FragInv, FragTypes
    <3>2. frag_delivered'[p] = frag_delivered[p] + 1
      BY <2>3, <3>1
    <3>3. frag_delivered'[p] <= 1
      BY DEF OnceInv, OnePiece
    <3>4. frag_delivered[p] = 0
      BY <3>1, <3>2, <3>3
    <3>5. frag_delivered' = [frag_delivered EXCEPT ![p] = 1]
      BY <2>3, <3>4
    <3> QED BY <2>3, <3>4, <3>5 DEF Channel!ChNext, Channel!Deliver
  <2> QED BY <2>1, <2>2, <2>3
<1>3. FragInit => OnceInv
  BY OnceStarts
<1>4. FragInv /\ OnceInv /\ [FragNext]_fragVars => FragInv' /\ OnceInv'
  BY FragStep, OnceStep
<1> QED BY <1>1, <1>2, <1>3, <1>4, FragStarts, PTL DEF FragSpec, ImplementsChannel, Channel!ChSpec

-----------------------------------------------------------------------------
(* What user space was told about the selected gateway is what is selected. *)

\* The fields of the client's state.
Client(w) ==
  w \in [mode : {w.mode}, sel_class : {w.sel_class}, reselect : {w.reselect},
         gateway_list : {w.gateway_list}, curr_gw : {w.curr_gw}, generation : {w.generation}]
Choice(w, v) == Client(v) /\ v.mode = w.mode /\ v.curr_gw = w.curr_gw

\* The user does not change the mode during an election.
ModesCalm == gw_left \in GwScenario /\ (gw_left.race => gw_left.modes = 0)

\* An election runs in a client that is in a mesh, and what it has told user space is what
\* it is about to select.
ElectionSound ==
  /\ election \in [pc : {"idle", "elected", "told"}, curr : {election.curr}, next : {election.next}]
  /\ election.pc # "idle" => gw.mode = "CLIENT" /\ gw_mesh = "up"
  /\ election.pc = "told" => gw_view = election.next.orig

GwInv == /\ Client(gw) /\ gw.mode \in {"CLIENT", "OFF"} /\ gw_mesh \in {"up", "down", "freed"}
         /\ ModesCalm /\ ElectionSound /\ ViewIsSelection

-----------------------------------------------------------------------------
(* Nothing but the end of an election and the end of the client changes the selection. *)

LEMMA ReselectKeeps ==
  ASSUME NEW w, Client(w)
  PROVE  Choice(w, batadv_gw_reselect(w))
BY DEF Client, Choice, batadv_gw_reselect

LEMMA UpdateKeeps ==
  ASSUME NEW w, Client(w), NEW g, NEW bw
  PROVE  Choice(w, batadv_gw_node_update(w, g, bw))
<1> DEFINE i == CHOOSE k \in Listed(w, g) : TRUE
           removed == [w EXCEPT !.gateway_list = RemoveAt(@, i), !.generation = @ + 1]
<1>1. Choice(w, batadv_gw_node_add(w, g, bw))
  BY DEF Client, Choice, batadv_gw_node_add
<1>2. Choice(w, [w EXCEPT !.gateway_list[i].bandwidth = bw])
  BY DEF Client, Choice
<1>3. Choice(w, removed)
  BY DEF Client, Choice
<1>4. Choice(w, batadv_gw_reselect(removed))
  BY <1>3, ReselectKeeps DEF Choice
<1> QED BY <1>1, <1>2, <1>3, <1>4 DEF batadv_gw_node_update

LEMMA DeleteKeeps ==
  ASSUME NEW w, Client(w), NEW gone
  PROVE  Choice(w, batadv_gw_node_delete(w, gone))
<1> DEFINE stay == SelectSeq(w.gateway_list, LAMBDA n : n.orig \notin gone)
           removed == [w EXCEPT !.gateway_list = stay, !.generation = @ + Len(w.gateway_list) - Len(stay)]
<1>1. Choice(w, removed)
  <2> HIDE DEF stay
  <2> QED BY DEF Client, Choice
<1>2. Choice(w, batadv_gw_reselect(removed))
  BY <1>1, ReselectKeeps DEF Choice
<1> QED BY <1>1, <1>2 DEF batadv_gw_node_delete

\* Announcements change neither the mode nor the selection.
LEMMA HandlerKeeps ==
  ASSUME Client(gw), NEW g, NEW bw, batadv_gw_tvlv_ogm_handler_v1(g, bw)
  PROVE  Choice(gw, gw')
<1> DEFINE w == batadv_gw_node_update(gw, g, bw)
<1>1. Choice(gw, w)
  BY UpdateKeeps
<1>2. Choice(gw, batadv_gw_reselect(w))
  BY <1>1, ReselectKeeps DEF Choice
<1> QED BY <1>1, <1>2 DEF batadv_gw_tvlv_ogm_handler_v1, batadv_gw_check_election

\* Actions that leave the client, its election and the bounds on modes alone.
LEMMA Elsewhere ==
  ASSUME GwInv, UNCHANGED <<election, gw_view, gw_mesh>>, gw' = gw \/ Choice(gw, gw'),
         ModesCalm'
  PROVE  GwInv'
<1>1. Client(gw') /\ gw'.mode = gw.mode /\ gw'.curr_gw = gw.curr_gw
  BY DEF GwInv, Choice
<1>2. ElectionSound' /\ ViewIsSelection'
  BY <1>1 DEF GwInv, ElectionSound, ViewIsSelection
<1> QED BY <1>1, <1>2 DEF GwInv

LEMMA BoundsKeepCalm ==
  ASSUME ModesCalm, NEW what \in {"changes", "routes", "old", "modes", "classes", "downs"}, GwUse(what)
  PROVE  ModesCalm' /\ gw_left'.race = gw_left.race
<1>1. gw_left[what] \in Nat /\ gw_left[what] > 0
  BY DEF ModesCalm, GwScenario, GwUse
<1>2. gw_left' \in GwScenario /\ gw_left'.race = gw_left.race /\ gw_left'.modes <= gw_left.modes
  BY <1>1 DEF ModesCalm, GwScenario, GwUse
<1>3. gw_left.modes \in Nat /\ gw_left'.modes \in Nat
  BY <1>2 DEF ModesCalm, GwScenario
<1> QED BY <1>2, <1>3 DEF ModesCalm

LEMMA StopKeeps ==
  ASSUME GwInv, election.pc = "idle", Told(gw),
         Client(gw'), gw'.mode \in {"CLIENT", "OFF"},
         gw'.curr_gw = IF gw.mode = "CLIENT" THEN NoGw ELSE gw.curr_gw,
         election' = election, gw_mesh' \in {"up", "down", "freed"}, ModesCalm'
  PROVE  GwInv'
<1>1. gw'.curr_gw = NoGw
  BY DEF GwInv, ViewIsSelection
<1>2. gw_view' = "none"
  BY DEF Told, GwInv, ViewIsSelection, NoGw
<1>3. ViewIsSelection' /\ ElectionSound'
  BY <1>1, <1>2 DEF ViewIsSelection, NoGw, ElectionSound, GwInv
<1> QED BY <1>3 DEF GwInv

LEMMA GwStarts ==
  ASSUME batadv_gw_init, \A b \in GwScenarios : b.race => b.modes = 0
  PROVE  GwInv
BY GatewayAssumption DEF batadv_gw_init, GwInv, Client, ModesCalm, ElectionSound, ViewIsSelection,
                         NoElection, NoGw

LEMMA ElectionKeeps ==
  ASSUME GwInv, batadv_purge_orig_ref \/ batadv_gw_election \/ batadv_gw_select
  PROVE  GwInv'
<1>1. CASE batadv_purge_orig_ref
  <2> DEFINE w == Purged(gw)
             read == [w EXCEPT !.reselect = 0]
  <2>1. Choice(gw, w)
    BY DeleteKeeps DEF GwInv, Purged
  <2>2. Choice(gw, read)
    <3> HIDE DEF w
    <3> QED BY <2>1 DEF Choice, Client
  <2>3. UNCHANGED <<gw_view, gw_mesh, gw_left>> /\ election.pc = "idle" /\ gw_mesh = "up"
    BY <1>1 DEF batadv_purge_orig_ref
  <2>4. ModesCalm'
    BY <2>3 DEF GwInv, ModesCalm
  <2>5. CASE gw' = w /\ UNCHANGED election
    BY <2>1, <2>3, <2>4, <2>5, Elsewhere
  <2>6. CASE gw' = read /\ w.mode = "CLIENT" /\ \E n : election' \in {NoElection, [pc |-> "elected", curr |-> w.curr_gw, next |-> n]}
    <3>1. Client(gw') /\ gw'.mode = gw.mode /\ gw'.curr_gw = gw.curr_gw /\ gw.mode = "CLIENT"
      BY <2>1, <2>2, <2>6 DEF Choice
    <3>2. ViewIsSelection'
      BY <2>3, <2>6, <3>1 DEF GwInv, ViewIsSelection, NoElection
    <3>3. ElectionSound'
      BY <2>3, <2>6, <3>1 DEF ElectionSound, NoElection
    <3> QED BY <2>3, <2>4, <3>1, <3>2, <3>3 DEF GwInv
  <2> QED
    <3>1. w.mode \in {"CLIENT", "OFF"}
      BY <2>1 DEF Choice, GwInv
    <3> QED BY <1>1, <2>5, <2>6, <3>1 DEF batadv_purge_orig_ref
<1>2. CASE batadv_gw_election
  <2>1. CASE gw' = batadv_gw_reselect(gw) /\ election' = NoElection /\ UNCHANGED gw_view
    <3>1. Choice(gw, gw')
      BY <2>1, ReselectKeeps DEF GwInv
    <3> QED BY <1>2, <2>1, <3>1 DEF batadv_gw_election, GwInv, Choice, ModesCalm, ElectionSound,
                                     ViewIsSelection, NoElection
  <2>2. CASE gw_view' = election.next.orig /\ election' = [election EXCEPT !.pc = "told"] /\ UNCHANGED gw
    BY <1>2, <2>2 DEF batadv_gw_election, GwInv, ModesCalm, ElectionSound, ViewIsSelection
  <2> QED BY <1>2, <2>1, <2>2 DEF batadv_gw_election
<1>3. CASE batadv_gw_select
  <2>1. /\ Client(gw') /\ gw'.mode = gw.mode /\ gw'.curr_gw = election.next /\ gw.mode = "CLIENT"
        /\ gw_mesh = "up" /\ gw_view = election.next.orig /\ election' = NoElection
        /\ UNCHANGED <<gw_view, gw_mesh, gw_left>>
    BY <1>3 DEF batadv_gw_select, GwInv, ElectionSound, Client
  <2> QED BY <2>1 DEF GwInv, ModesCalm, ElectionSound, ViewIsSelection, NoElection
<1> QED BY <1>1, <1>2, <1>3

LEMMA GwStep ==
  ASSUME GwInv, [GwNext]_gwVars
  PROVE  GwInv'
<1> USE DEF GwInv
<1>1. CASE SetServer
  BY <1>1, BoundsKeepCalm, Elsewhere DEF SetServer
<1>2. CASE SetMode
  <2>1. election.pc = "idle" /\ ModesCalm' /\ election' = election /\ gw_mesh' = gw_mesh
    <3>1. gw_left.modes # 0
      BY <1>2 DEF SetMode, GwUse
    <3> QED BY <1>2, <3>1, BoundsKeepCalm DEF SetMode, Calm, ModesCalm
  <2>2. Choice(gw, batadv_gw_reselect(gw))
    BY ReselectKeeps
  <2>3. PICK m \in {"CLIENT", "OFF"} :
          gw' = [batadv_gw_check_client_stop(batadv_gw_reselect(gw)) EXCEPT !.mode = m]
    BY <1>2 DEF SetMode
  <2>4. Client(gw') /\ gw'.mode = m /\ gw'.curr_gw = IF gw.mode = "CLIENT" THEN NoGw ELSE gw.curr_gw
    <3> DEFINE w == batadv_gw_reselect(gw)
    <3>1. Choice(gw, w) /\ gw' = [batadv_gw_check_client_stop(w) EXCEPT !.mode = m]
      BY <2>2, <2>3
    <3> HIDE DEF w
    <3> QED BY <3>1 DEF Choice, Client, batadv_gw_check_client_stop
  <2> QED BY <1>2, <2>1, <2>4, StopKeeps DEF SetMode
<1>3. CASE SetSelClass
  <2> SUFFICES ASSUME NEW class \in gw_left.class_set,
                      gw' = batadv_gw_reselect([gw EXCEPT !.sel_class = class])
               PROVE  Choice(gw, gw')
    BY <1>3, BoundsKeepCalm, Elsewhere DEF SetSelClass
  <2>1. Choice(gw, [gw EXCEPT !.sel_class = class])
    BY DEF Choice, Client
  <2> QED BY <2>1, ReselectKeeps DEF Choice
<1>4. CASE RouteChanges
  BY <1>4, BoundsKeepCalm, Elsewhere DEF RouteChanges
<1>5. ASSUME NEW g \in Gateways, Announce(g) \/ AnnounceOld(g)
      PROVE  GwInv'
  <2>1. Choice(gw, gw')
    BY <1>5, HandlerKeeps DEF Announce, AnnounceOld
  <2>2. ModesCalm'
    BY <1>5, BoundsKeepCalm DEF Announce, AnnounceOld, ModesCalm
  <2> QED BY <1>5, <2>1, <2>2, Elsewhere DEF Announce, AnnounceOld
<1>6. ASSUME NEW g \in Gateways, TimesOut(g)
      PROVE  GwInv'
  BY <1>6, Elsewhere DEF TimesOut, ModesCalm
<1>7. CASE batadv_hardif_disable_interface
  <2>1. Choice(gw, Purged(gw))
    BY DeleteKeeps DEF Purged
  <2>2. election.pc = "idle" /\ ModesCalm' /\ election' = election /\ gw_mesh' = "down" /\ Told(gw)
    BY <1>7, BoundsKeepCalm DEF batadv_hardif_disable_interface
  <2>3. Client(gw') /\ gw'.mode = gw.mode /\ gw'.curr_gw = IF gw.mode = "CLIENT" THEN NoGw ELSE gw.curr_gw
    <3> DEFINE w == Purged(gw)
    <3>1. Choice(gw, w) /\ gw' = batadv_gw_check_client_stop(w)
      BY <1>7, <2>1 DEF batadv_hardif_disable_interface
    <3> HIDE DEF w
    <3>2. CASE gw.mode = "CLIENT"
      <4>1. gw' = [w EXCEPT !.curr_gw = NoGw]
        BY <3>1, <3>2 DEF Choice, batadv_gw_check_client_stop
      <4> QED BY <3>1, <3>2, <4>1 DEF Choice, Client
    <3>3. CASE gw.mode # "CLIENT"
      <4>1. gw' = w
        BY <3>1, <3>3 DEF Choice, batadv_gw_check_client_stop
      <4> QED BY <3>1, <3>3, <4>1 DEF Choice
    <3> QED BY <3>2, <3>3
  <2>4. gw'.mode \in {"CLIENT", "OFF"} /\ gw_mesh' \in {"up", "down", "freed"}
    BY <2>2, <2>3
  <2> HIDE DEF GwInv
  <2> QED BY <2>2, <2>3, <2>4, StopKeeps
<1>8. CASE EnableInterface
  BY <1>8 DEF EnableInterface, ModesCalm, ElectionSound, ViewIsSelection
<1>9. CASE batadv_gw_free
  <2>1. Choice(gw, gw')
    BY <1>9 DEF batadv_gw_free, Choice, Client
  <2> QED BY <1>9, <2>1 DEF batadv_gw_free, Choice, ModesCalm, ElectionSound, ViewIsSelection
<1>10. CASE UNCHANGED gwVars
  BY <1>10 DEF gwVars, Client, ModesCalm, ElectionSound, ViewIsSelection
<1> QED BY <1>1, <1>2, <1>3, <1>4, <1>5, <1>6, <1>7, <1>8, <1>9, <1>10, ElectionKeeps DEF GwNext

\* Whatever is announced, removed, purged or lost while an election runs, as long as nobody
\* changes the mode during one: user space was told what is selected (batadv_gw_election(),
\* batadv_gw_check_client_stop()), and nothing is selected when the client is off or has no
\* interfaces.
THEOREM UserSpaceKnows ==
  ASSUME \A b \in GwScenarios : b.race => b.modes = 0
  PROVE  GwSpec => []ViewIsSelection
<1>1. batadv_gw_init => GwInv
  BY GwStarts
<1>2. GwInv /\ [GwNext]_gwVars => GwInv'
  BY GwStep
<1>3. GwInv => ViewIsSelection
  BY DEF GwInv
<1> QED BY <1>1, <1>2, <1>3, PTL DEF GwSpec

-----------------------------------------------------------------------------
(* The distributed ARP table. *)

(* Numbers. *)

\* A set of numbers that holds 0 and the successor of each of its members.
LEMMA AllReached ==
  ASSUME NEW N \in Nat, NEW S, 0 \in S, \A k \in 0..(N - 1) : k \in S => k + 1 \in S
  PROVE  \A k \in 0..N : k \in S
<1> DEFINE T == {k \in 0..N : k \notin S}
<1>1. SUFFICES ASSUME T # {} PROVE FALSE
  OBVIOUS
<1>2. PICK m \in T : \A x \in T : m <= x
  <2>1. T \in SUBSET Nat
    OBVIOUS
  <2> QED BY <1>1, <2>1, LeastNumber
<1>3. m \in 0..N /\ m # 0 /\ m \notin S
  BY <1>2
<1>4. m - 1 \in 0..(N - 1) /\ m - 1 \notin T
  BY <1>2, <1>3
<1>5. m - 1 \in S
  BY <1>4
<1> QED BY <1>3, <1>4, <1>5

\* G is applied to what it returned, N times.
Iterates(f, U, b, G, N) == f \in [0..N -> U] /\ f[0] = b /\ \A k \in 1..N : f[k] = G[f[k - 1]]

LEMMA IterationExists ==
  ASSUME NEW U, NEW b \in U, NEW G \in [U -> U], NEW N \in Nat
  PROVE  \E f : Iterates(f, U, b, G, N)
<1> DEFINE S == {n \in 0..N : \E f \in [0..n -> U] : f[0] = b /\ \A k \in 1..n : f[k] = G[f[k - 1]]}
<1>1. 0 \in S
  <2> DEFINE f == [k \in 0..0 |-> b]
  <2>1. f \in [0..0 -> U] /\ f[0] = b
    OBVIOUS
  <2>2. 1..0 = {}
    OBVIOUS
  <2> HIDE DEF f
  <2>3. \A k \in 1..0 : f[k] = G[f[k - 1]]
    BY <2>2
  <2>4. 0 \in 0..N
    OBVIOUS
  <2> QED BY <2>1, <2>3, <2>4
<1>2. ASSUME NEW n \in 0..(N - 1), n \in S PROVE n + 1 \in S
  <2>1. PICK f \in [0..n -> U] : f[0] = b /\ \A k \in 1..n : f[k] = G[f[k - 1]]
    BY <1>2
  <2> DEFINE g == [k \in 0..(n + 1) |-> IF k = n + 1 THEN G[f[n]] ELSE f[k]]
  <2>2. g \in [0..(n + 1) -> U] /\ g[0] = b
    BY <2>1
  <2>3. ASSUME NEW k \in 1..(n + 1) PROVE g[k] = G[g[k - 1]]
    <3>1. CASE k = n + 1
      BY <3>1
    <3>2. CASE k # n + 1
      <4>1. k \in 1..n /\ k - 1 \in 0..n /\ k - 1 # n + 1
        BY <3>2
      <4>2. g[k] = f[k] /\ g[k - 1] = f[k - 1]
        BY <3>2, <4>1
      <4>3. f[k] = G[f[k - 1]]
        BY <2>1, <4>1
      <4> HIDE DEF g
      <4> QED BY <4>2, <4>3
    <3> QED BY <3>1, <3>2
  <2>4. n + 1 \in 0..N
    OBVIOUS
  <2> HIDE DEF g
  <2>5. \E h \in [0..(n + 1) -> U] : h[0] = b /\ \A k \in 1..(n + 1) : h[k] = G[h[k - 1]]
    BY <2>2, <2>3
  <2> QED BY <2>4, <2>5
<1>3. N \in S
  <2> HIDE DEF S
  <2> QED BY <1>1, <1>2, AllReached
<1> QED BY <1>3 DEF Iterates

LEMMA GreatestNumber ==
  ASSUME NEW M \in Nat, NEW S \in SUBSET (0..M), S # {}
  PROVE  \E m \in S : \A x \in S : x <= m
<1> DEFINE T == {M - x : x \in S}
<1>1. T \in SUBSET Nat /\ T # {}
  <2>1. ASSUME NEW x \in S PROVE M - x \in Nat
    <3>1. x \in 0..M
      OBVIOUS
    <3> QED BY <3>1
  <2> QED BY <2>1
<1>2. PICK l \in T : \A x \in T : l <= x
  BY <1>1, LeastNumber
<1>3. PICK m \in S : l = M - m
  BY <1>2
<1>4. ASSUME NEW x \in S PROVE x <= m
  <2>1. l <= M - x
    BY <1>2
  <2> QED BY <1>3, <2>1
<1> QED BY <1>4

-----------------------------------------------------------------------------
(* The nodes that the DHT selects. *)

Candidates == [res : Seq(DatNode), last_max : 0..DAT_ADDR_MAX]

\* Nodes that n knows to have the table.
Known(n) == {m \in DatNode \ {n} : has_dat[n][m]}

\* After k rounds: k of the known nodes are selected, if there are so many, and they are
\* the closest; the others are not further than the last one that was selected.
RoundSound(n, ip, k, s) ==
  LET chosen == ToSet(s.res)
  IN /\ chosen \subseteq Known(n)
     /\ Cardinality(chosen) = IF Cardinality(Known(n)) < k THEN Cardinality(Known(n)) ELSE k
     /\ \A m \in Known(n) \ chosen : Closeness(m, ip) <= s.last_max
     /\ \A c \in chosen, m \in Known(n) \ chosen : Closeness(c, ip) >= Closeness(m, ip)

NextCandidate(n, ip, s) == batadv_choose_next_candidate(n, s.res, s.last_max, ip)

LEMMA ClosenessType ==
  ASSUME NEW m \in DatNode, NEW ip \in Host
  PROVE  Closeness(m, ip) \in 0..DAT_ADDR_MAX
<1>1. /\ dat_addr[m] \in 0..DAT_ADDR_MAX /\ ip_key[ip] \in 0..(DAT_ADDR_MAX - 1)
      /\ DAT_ADDR_MAX \in Nat \ {0}
  BY DatAssumption
<1> DEFINE x == DAT_ADDR_MAX - dat_addr[m] + ip_key[ip]
<1>2. x \in Nat
  BY <1>1
<1> HIDE DEF x
<1>3. x % (DAT_ADDR_MAX + 1) \in 0..DAT_ADDR_MAX
  BY <1>1, <1>2
<1> QED BY <1>3 DEF Closeness, x

LEMMA NodesFinite == IsFiniteSet(DatNode) /\ \A n : IsFiniteSet(Known(n)) /\ Cardinality(Known(n)) \in Nat
<1>1. DatNodes \in [1..Len(DatNodes) -> DatNode] /\ Len(DatNodes) \in Nat
  BY DatAssumption
<1>2. IsFiniteSet(1..Len(DatNodes))
  BY <1>1, FS_Interval
<1>3. DatNodes \in Surjection(1..Len(DatNodes), DatNode)
  BY <1>1 DEF Surjection, DatNode, ToSet
<1>4. IsFiniteSet(DatNode)
  BY <1>2, <1>3, FS_Surjection
<1>5. ASSUME NEW n PROVE IsFiniteSet(Known(n))
  BY <1>4, FS_Subset DEF Known
<1> QED BY <1>4, <1>5, FS_CardinalityType

\* One round takes one of the closest nodes that are eligible.
LEMMA OneRound ==
  ASSUME NEW n \in DatNode, NEW ip \in Host, NEW s \in Candidates, NEW E,
         E = {m \in DatNode : batadv_is_orig_node_eligible(n, s.res, s.last_max, ip, m)}
  PROVE  /\ NextCandidate(n, ip, s) \in Candidates
         /\ E = {} => NextCandidate(n, ip, s) = [res |-> s.res, last_max |-> 0]
         /\ E # {} => \E c \in E :
              /\ \A o \in E : Closeness(o, ip) <= Closeness(c, ip)
              /\ NextCandidate(n, ip, s) = [res |-> Append(s.res, c), last_max |-> Closeness(c, ip)]
<1> DEFINE best == Closest(E, ip)
           I == {i \in 1..Len(DatNodes) : DatNodes[i] \in best}
           last == IF I # {} THEN Max(I) ELSE 0
<1>1. NextCandidate(n, ip, s) =
        IF best = {} THEN [res |-> s.res, last_max |-> 0]
        ELSE [res |-> Append(s.res, DatNodes[last]), last_max |-> Closeness(DatNodes[last], ip)]
  BY DEF NextCandidate, batadv_choose_next_candidate, SelectLastInSeq
<1>2. s.res \in Seq(DatNode) /\ s.last_max \in 0..DAT_ADDR_MAX /\ DAT_ADDR_MAX \in Nat \ {0}
  BY DatAssumption DEF Candidates
<1>3. best \subseteq E /\ E \subseteq DatNode
  BY DEF Closest
<1>4. CASE E = {}
  <2>1. best = {}
    BY <1>3, <1>4
  <2>2. NextCandidate(n, ip, s) = [res |-> s.res, last_max |-> 0]
    BY <1>1, <2>1
  <2>3. [res |-> s.res, last_max |-> 0] \in Candidates
    BY <1>2 DEF Candidates
  <2> QED BY <1>4, <2>2, <2>3
<1>5. CASE E # {}
  <2> DEFINE S == {Closeness(m, ip) : m \in E}
  <2>1. S \in SUBSET (0..DAT_ADDR_MAX) /\ S # {}
    BY <1>3, <1>5, ClosenessType
  <2>2. PICK x \in S : \A y \in S : y <= x
    BY <1>2, <2>1, GreatestNumber
  <2>3. PICK b \in E : x = Closeness(b, ip)
    BY <2>2
  <2>4. b \in best
    BY <2>2, <2>3 DEF Closest
  <2>5. Len(DatNodes) \in Nat /\ DatNodes \in [1..Len(DatNodes) -> DatNode] /\ DOMAIN DatNodes = 1..Len(DatNodes)
    BY DatAssumption
  <2>6. PICK i \in 1..Len(DatNodes) : DatNodes[i] = b
    <3>1. b \in ToSet(DatNodes)
      BY <1>3, <2>3 DEF DatNode
    <3> QED BY <2>5, <3>1 DEF ToSet
  <2>7. I \in SUBSET (0..Len(DatNodes)) /\ I # {}
    <3> HIDE DEF best
    <3>1. \A j \in 1..Len(DatNodes) : j \in 0..Len(DatNodes)
      BY <2>5
    <3>2. i \in I
      BY <2>4, <2>6
    <3> QED BY <3>1, <3>2
  <2> HIDE DEF I
  <2>8. \E m \in I : \A y \in I : m >= y
    <3>1. PICK m \in I : \A y \in I : y <= m
      BY <2>5, <2>7, GreatestNumber
    <3>2. \A y \in I : m \in Int /\ y \in Int
      BY <2>7
    <3> QED BY <3>1, <3>2
  <2>9. Max(I) \in I
    BY <2>8 DEF Max
  <2>10. DatNodes[last] \in best /\ best # {}
    BY <2>4, <2>7, <2>9 DEF I
  <2> DEFINE c == DatNodes[last]
  <2> HIDE DEF last
  <2>11. c \in E /\ \A o \in E : Closeness(o, ip) <= Closeness(c, ip)
    BY <2>10 DEF Closest
  <2>12. NextCandidate(n, ip, s) = [res |-> Append(s.res, c), last_max |-> Closeness(c, ip)]
    BY <1>1, <2>10
  <2>13. c \in DatNode /\ Closeness(c, ip) \in 0..DAT_ADDR_MAX
    BY <1>3, <2>11, ClosenessType
  <2>14. [res |-> Append(s.res, c), last_max |-> Closeness(c, ip)] \in Candidates
    BY <1>2, <2>13 DEF Candidates
  <2> QED BY <1>5, <2>11, <2>12, <2>14
<1> QED BY <1>4, <1>5
LEMMA RoundType ==
  ASSUME NEW n \in DatNode, NEW ip \in Host, NEW s \in Candidates
  PROVE  NextCandidate(n, ip, s) \in Candidates
<1> DEFINE E == {m \in DatNode : batadv_is_orig_node_eligible(n, s.res, s.last_max, ip, m)}
<1>1. E = {m \in DatNode : batadv_is_orig_node_eligible(n, s.res, s.last_max, ip, m)}
  OBVIOUS
<1> HIDE DEF E
<1> QED BY <1>1, OneRound

LEMMA RoundKeepsSound ==
  ASSUME NEW n \in DatNode, NEW ip \in Host, NEW k \in Nat, NEW s \in Candidates, RoundSound(n, ip, k, s)
  PROVE  RoundSound(n, ip, k + 1, NextCandidate(n, ip, s))
<1> DEFINE chosen == ToSet(s.res)
           E == {m \in DatNode : batadv_is_orig_node_eligible(n, s.res, s.last_max, ip, m)}
           u == NextCandidate(n, ip, s)
<1>1. /\ chosen \subseteq Known(n)
      /\ Cardinality(chosen) = IF Cardinality(Known(n)) < k THEN Cardinality(Known(n)) ELSE k
      /\ \A m \in Known(n) \ chosen : Closeness(m, ip) <= s.last_max
      /\ \A c \in chosen, m \in Known(n) \ chosen : Closeness(c, ip) >= Closeness(m, ip)
  BY DEF RoundSound
<1>2. IsFiniteSet(Known(n)) /\ Cardinality(Known(n)) \in Nat /\ IsFiniteSet(chosen)
  BY <1>1, NodesFinite, FS_Subset
<1>3. E = Known(n) \ chosen
  BY <1>1 DEF batadv_is_orig_node_eligible, Known
<1>4. s.res \in Seq(DatNode)
  BY DEF Candidates
<1>50. E = {m \in DatNode : batadv_is_orig_node_eligible(n, s.res, s.last_max, ip, m)}
  OBVIOUS
<1> HIDE DEF E
<1>5. /\ E = {} => u = [res |-> s.res, last_max |-> 0]
      /\ E # {} => \E c \in E :
           /\ \A o \in E : Closeness(o, ip) <= Closeness(c, ip)
           /\ u = [res |-> Append(s.res, c), last_max |-> Closeness(c, ip)]
  BY <1>50, OneRound
<1> HIDE DEF u
<1>6. CASE E = {}
  <2>1. chosen = Known(n) /\ ToSet(u.res) = chosen
    BY <1>1, <1>3, <1>5, <1>6
  <2>2. Cardinality(Known(n)) <= k
    BY <1>1, <1>2, <2>1
  <2>3. Cardinality(chosen) = IF Cardinality(Known(n)) < k + 1 THEN Cardinality(Known(n)) ELSE k + 1
    BY <1>2, <2>1, <2>2
  <2> QED BY <2>1, <2>3 DEF RoundSound, u
<1>7. CASE E # {}
  <2>1. PICK c \in E : /\ \A o \in E : Closeness(o, ip) <= Closeness(c, ip)
                       /\ u = [res |-> Append(s.res, c), last_max |-> Closeness(c, ip)]
    BY <1>5, <1>7
  <2> DEFINE more == chosen \cup {c}
  <2>2. c \in Known(n) /\ c \notin chosen
    BY <1>3, <2>1
  <2>3. ToSet(Append(s.res, c)) = more
    <3>1. Len(s.res) \in Nat /\ DOMAIN s.res = 1..Len(s.res)
      BY <1>4
    <3>2. DOMAIN Append(s.res, c) = 1..(Len(s.res) + 1)
      BY <1>4
    <3>3. \A i \in 1..Len(s.res) : Append(s.res, c)[i] = s.res[i]
      BY <1>4
    <3>4. Append(s.res, c)[Len(s.res) + 1] = c
      BY <1>4
    <3> QED BY <3>1, <3>2, <3>3, <3>4 DEF ToSet
  <2>4. ToSet(u.res) = more /\ u.last_max = Closeness(c, ip)
    BY <2>1, <2>3
  <2>5. Cardinality(more) = Cardinality(chosen) + 1
    BY <1>2, <2>2, FS_AddElement
  <2>6. Cardinality(chosen) <= Cardinality(Known(n)) /\ Cardinality(chosen) # Cardinality(Known(n))
    BY <1>1, <1>2, <2>2, FS_Subset
  <2>7. Cardinality(more) = IF Cardinality(Known(n)) < k + 1 THEN Cardinality(Known(n)) ELSE k + 1
    BY <1>1, <1>2, <2>5, <2>6
  <2>8. more \subseteq Known(n)
    BY <1>1, <2>2
  <2>9. \A m \in Known(n) \ more : Closeness(m, ip) <= Closeness(c, ip)
    BY <1>3, <2>1
  <2>10. \A m \in Known(n) : Closeness(m, ip) \in Int
    BY ClosenessType DEF Known
  <2>11. \A a \in more, m \in Known(n) \ more : Closeness(a, ip) >= Closeness(m, ip)
    BY <1>1, <2>2, <2>9, <2>10
  <2> HIDE DEF chosen, more
  <2> QED BY <2>4, <2>7, <2>8, <2>9, <2>11 DEF RoundSound, u
<1> QED BY <1>6, <1>7

\* What all rounds select.
LEMMA CandidatesAreClosest ==
  ASSUME NEW n \in DatNode, NEW ip \in Host
  PROVE  \E s \in Candidates : /\ batadv_dat_select_candidates(n, ip) = ToSet(s.res)
                             /\ RoundSound(n, ip, DAT_CANDIDATES_NUM, s)
<1> DEFINE N == DAT_CANDIDATES_NUM
           b == [res |-> <<>>, last_max |-> DAT_ADDR_MAX]
           G == [s \in Candidates |-> NextCandidate(n, ip, s)]
           Def(f) == [k \in 0..N |->
             IF k = 0 THEN b
             ELSE CHOOSE r \in {batadv_choose_next_candidate(n, s.res, s.last_max, ip) : s \in {f[k - 1]}} : TRUE]
           round == CHOOSE f : f = Def(f)
<1>1. N \in Nat /\ DAT_ADDR_MAX \in Nat
  BY DatAssumption
<1>2. b \in Candidates
  BY <1>1 DEF Candidates
<1>3. G \in [Candidates -> Candidates]
  BY RoundType
<1>4. PICK f \in [0..N -> Candidates] : f[0] = b /\ \A k \in 1..N : f[k] = G[f[k - 1]]
  <2> HIDE DEF N, b, G
  <2>1. N \in Nat
    BY <1>1
  <2>2. PICK g : Iterates(g, Candidates, b, G, N)
    BY <1>2, <1>3, <2>1, IterationExists
  <2> QED BY <2>2 DEF Iterates
<1>5. \A s : (CHOOSE r \in {batadv_choose_next_candidate(n, x.res, x.last_max, ip) : x \in {s}} : TRUE)
               = NextCandidate(n, ip, s)
  BY DEF NextCandidate
<1>6. \A g : Def(g) = [k \in 0..N |-> IF k = 0 THEN b ELSE NextCandidate(n, ip, g[k - 1])]
  BY <1>5
<1>7. f = Def(f)
  <2>1. \A k \in 1..N : f[k - 1] \in Candidates
    BY <1>1, <1>4
  <2>2. \A k \in 1..N : f[k] = NextCandidate(n, ip, f[k - 1])
    BY <1>4, <2>1
  <2>3. \A k \in 0..N : k # 0 => k \in 1..N
    BY <1>1
  <2> QED BY <1>4, <1>6, <2>2, <2>3
<1>8. round = Def(round)
  <2> HIDE DEF Def
  <2> QED BY <1>7
<1>9. round[0] = b /\ \A k \in 1..N : round[k] = NextCandidate(n, ip, round[k - 1])
  <2> HIDE DEF round, Def, b
  <2>1. round = [k \in 0..N |-> IF k = 0 THEN b ELSE NextCandidate(n, ip, round[k - 1])]
    BY <1>6, <1>8
  <2>2. 0 \in 0..N /\ \A k \in 1..N : k \in 0..N /\ k # 0
    BY <1>1
  <2> QED BY <2>1, <2>2
<1>10. batadv_dat_select_candidates(n, ip) = ToSet(round[N].res)
  BY DEF batadv_dat_select_candidates
<1> HIDE DEF round
<1> DEFINE S == {k \in 0..N : round[k] \in Candidates /\ RoundSound(n, ip, k, round[k])}
<1>11. 0 \in S
  <2>1. round[0] = b /\ 0 \in 0..N
    BY <1>1, <1>9
  <2>2. ToSet(b.res) = {} /\ b.last_max = DAT_ADDR_MAX
    BY DEF ToSet
  <2>3. Cardinality({}) = IF Cardinality(Known(n)) < 0 THEN Cardinality(Known(n)) ELSE 0
    BY NodesFinite, FS_EmptySet
  <2>4. \A m \in Known(n) : Closeness(m, ip) <= DAT_ADDR_MAX
    BY ClosenessType, <1>1 DEF Known
  <2>5. RoundSound(n, ip, 0, b)
    BY <2>2, <2>3, <2>4 DEF RoundSound
  <2> QED BY <1>2, <2>1, <2>5
<1>12. ASSUME NEW k \in 0..(N - 1), k \in S PROVE k + 1 \in S
  <2>1. k \in Nat /\ k + 1 \in 0..N /\ k + 1 \in 1..N /\ k + 1 - 1 = k
    BY <1>1
  <2>2. round[k + 1] = NextCandidate(n, ip, round[k])
    BY <1>9, <2>1
  <2>3. round[k + 1] \in Candidates
    BY <1>12, <2>2, RoundType
  <2>4. RoundSound(n, ip, k + 1, round[k + 1])
    BY <1>12, <2>1, <2>2, RoundKeepsSound
  <2> QED BY <2>1, <2>3, <2>4
<1>13. N \in S
  <2> HIDE DEF S
  <2>1. \A k \in 0..N : k \in S
    BY <1>1, <1>11, <1>12, AllReached
  <2> QED BY <1>1, <2>1
<1> QED BY <1>10, <1>13

\* The candidates are nodes other than n.
LEMMA CandidatesOthers ==
  ASSUME NEW n \in DatNode, NEW ip \in Host
  PROVE  batadv_dat_select_candidates(n, ip) \subseteq DatNode \ {n}
<1>1. PICK s \in Candidates : /\ batadv_dat_select_candidates(n, ip) = ToSet(s.res)
                            /\ RoundSound(n, ip, DAT_CANDIDATES_NUM, s)
  BY CandidatesAreClosest
<1>2. ToSet(s.res) \subseteq Known(n)
  BY <1>1 DEF RoundSound
<1> QED BY <1>1, <1>2 DEF Known

LEMMA CandidatesAlways == CandidatesClosest
<1> SUFFICES ASSUME NEW n \in DatNode, NEW ip \in Host
             PROVE  LET known == {m \in DatNode \ {n} : has_dat[n][m]}
                        cands == batadv_dat_select_candidates(n, ip)
                        number == IF Cardinality(known) < DAT_CANDIDATES_NUM
                                  THEN Cardinality(known) ELSE DAT_CANDIDATES_NUM
                    IN /\ cands \subseteq known /\ Cardinality(cands) = number
                       /\ \A c \in cands, m \in known \ cands : Closeness(c, ip) >= Closeness(m, ip)
  BY DEF CandidatesClosest
<1> QED BY CandidatesAreClosest DEF RoundSound, Known

\* Whatever nodes are known to have the table, and whoever asks for whom, the DHT selects
\* the closest of them, as many as it may (batadv_dat_select_candidates()).
THEOREM AlwaysClosest == DatSpec => []CandidatesClosest
BY CandidatesAlways, PTL

-----------------------------------------------------------------------------
(* Answers. *)

ArpPacket == {p \in [op : {"REQUEST", "REPLY"}, to : DatNode, sip : Host, smac : {Mac[h] : h \in Host},
                     dip : Host, dmac : {"none"} \cup {Mac[h] : h \in Host}] :
                /\ p.smac = Mac[p.sip]
                /\ p.dmac = IF p.op = "REPLY" THEN Mac[p.dip] ELSE "none"}

\* A cache says nothing of a host, or its address.
TrueCache == {c \in [Host -> {"none"} \cup {Mac[h] : h \in Host}] :
                \A h \in Host : c[h] \in {"none", Mac[h]}}

DatTyped ==
  /\ dat_left \in DatScenario /\ distributed_arp_table \in [DatNode -> BOOLEAN]
  /\ dat_hash \in [DatNode -> TrueCache] /\ answers \in [Host -> Nat]
  /\ arp \subseteq ArpPacket
  /\ delayed \subseteq {p \in ArpPacket : p.op = "REQUEST"}

\* All that is on its way for host h, or on its way to it, is about the host ip it has asked
\* for last; once h is answered its node has ip in its cache, where a second reply finds it.
AboutOne(h, ip) ==
  /\ \A p \in arp \cup delayed : p.op = "REQUEST" /\ p.sip = h => p.dip = ip
  /\ \A p \in arp : p.op = "REPLY" /\ p.dip = h /\ p.to = At[h] => p.sip = ip
  /\ answers[h] <= 1
  /\ answers[h] = 1 => dat_hash[At[h]][ip] = Mac[ip]

AnInv ==
  /\ DatTyped
  /\ dat_left.calm =>
       /\ \A n \in DatNode : distributed_arp_table[n]
       /\ \A h \in Host : \E ip \in Host : AboutOne(h, ip)

\* A cache that has forgotten nothing.
KeepsCache(c, d) == d \in TrueCache /\ \A h \in Host : c[h] = Mac[h] => d[h] = Mac[h]

\* A copy of p.
SameContent(q, p) == q \in ArpPacket /\ q.op = p.op /\ q.sip = p.sip /\ q.dip = p.dip

LEMMA DatConstants ==
  /\ At \in [Host -> DatNode]
  /\ \A g, h \in Host : Mac[g] = Mac[h] => g = h
  /\ \A h \in Host : Mac[h] # "none"
  /\ \A b \in DatScenarios : b \in DatScenario
BY DatAssumption

LEMMA EntryAdded ==
  ASSUME NEW c \in TrueCache, NEW h \in Host
  PROVE  /\ KeepsCache(c, batadv_dat_entry_add(c, h, Mac[h]))
         /\ batadv_dat_entry_add(c, h, Mac[h])[h] = Mac[h]
BY DEF TrueCache, KeepsCache, batadv_dat_entry_add

LEMMA KeepsTwice ==
  ASSUME NEW c, NEW d, NEW e, KeepsCache(c, d), KeepsCache(d, e)
  PROVE  KeepsCache(c, e)
BY DEF KeepsCache

LEMMA BothAdded ==
  ASSUME NEW c \in TrueCache, NEW g \in Host, NEW h \in Host
  PROVE  LET d == batadv_dat_entry_add(batadv_dat_entry_add(c, g, Mac[g]), h, Mac[h])
         IN KeepsCache(c, d) /\ d[g] = Mac[g]
<1> DEFINE b == batadv_dat_entry_add(c, g, Mac[g])
           d == batadv_dat_entry_add(b, h, Mac[h])
<1>1. KeepsCache(c, b) /\ b[g] = Mac[g]
  BY EntryAdded
<1>2. b \in TrueCache
  BY <1>1 DEF KeepsCache
<1> HIDE DEF b
<1>3. KeepsCache(b, d)
  BY <1>2, EntryAdded
<1>4. d[g] = Mac[g]
  BY <1>1, <1>3 DEF KeepsCache
<1> HIDE DEF d
<1>5. KeepsCache(c, d)
  BY <1>1, <1>3, KeepsTwice
<1> QED BY <1>4, <1>5 DEF b, d

LEMMA PacketType ==
  ASSUME NEW p \in ArpPacket
  PROVE  /\ p.op \in {"REQUEST", "REPLY"} /\ p.to \in DatNode /\ p.sip \in Host /\ p.dip \in Host
         /\ p.smac = Mac[p.sip] /\ (p.op = "REPLY" => p.dmac = Mac[p.dip])
BY DEF ArpPacket

\* Copies are addressed to other nodes and say the same.
LEMMA Readdressed ==
  ASSUME NEW p \in ArpPacket, NEW n \in DatNode
  PROVE  SameContent([p EXCEPT !.to = n], p) /\ [p EXCEPT !.to = n].to = n
<1> DEFINE q == [p EXCEPT !.to = n]
<1>1. p \in [op : {"REQUEST", "REPLY"}, to : DatNode, sip : Host, smac : {Mac[h] : h \in Host},
                     dip : Host, dmac : {"none"} \cup {Mac[h] : h \in Host}]
  BY DEF ArpPacket
<1>2. /\ q \in [op : {"REQUEST", "REPLY"}, to : DatNode, sip : Host, smac : {Mac[h] : h \in Host},
                     dip : Host, dmac : {"none"} \cup {Mac[h] : h \in Host}]
      /\ q.op = p.op /\ q.sip = p.sip /\ q.dip = p.dip /\ q.smac = p.smac /\ q.dmac = p.dmac /\ q.to = n
  BY <1>1
<1> HIDE DEF q
<1>3. q \in ArpPacket
  BY <1>2 DEF ArpPacket
<1>4. SameContent(q, p) /\ q.to = n
  BY <1>2, <1>3 DEF SameContent
<1> QED BY <1>4 DEF q

LEMMA Forwarded ==
  ASSUME NEW n \in DatNode, NEW p \in ArpPacket, NEW ip \in Host,
         NEW q \in batadv_dat_forward_data(n, p, ip)
  PROVE  SameContent(q, p) /\ q.to # n
<1>1. PICK m \in batadv_dat_select_candidates(n, ip) : q = [p EXCEPT !.to = m]
  BY DEF batadv_dat_forward_data
<1>2. m \in DatNode \ {n}
  BY <1>1, CandidatesOthers
<1> QED BY <1>1, <1>2, Readdressed

LEMMA OthersSame ==
  ASSUME NEW n \in DatNode, NEW p \in ArpPacket, NEW q \in Others(n, p)
  PROVE  SameContent(q, p)
BY Readdressed DEF Others

\* What is about one host stays so while only such packets are added, nothing is forgotten
\* and the host is not answered.
LEMMA AboutKept ==
  ASSUME NEW h \in Host, NEW ip \in Host, AboutOne(h, ip), DatTyped, At[h] \in DatNode,
         \A p \in arp' \cup delayed' : p.op = "REQUEST" /\ p.sip = h => p.dip = ip \/ p \in arp \cup delayed,
         \A p \in arp' : p.op = "REPLY" /\ p.dip = h /\ p.to = At[h] => p.sip = ip \/ p \in arp,
         \A n \in DatNode : KeepsCache(dat_hash[n], dat_hash'[n]),
         answers'[h] = answers[h]
  PROVE  AboutOne(h, ip)'
BY DEF AboutOne, KeepsCache

\* The caches after a step.
LEMMA CachesKept ==
  ASSUME NEW f, f \in [DatNode -> TrueCache], NEW n \in DatNode, NEW c, KeepsCache(f[n], c)
  PROVE  /\ [f EXCEPT ![n] = c] \in [DatNode -> TrueCache]
         /\ \A m \in DatNode : KeepsCache(f[m], [f EXCEPT ![n] = c][m])
BY DEF KeepsCache

LEMMA CachesSame ==
  ASSUME NEW f, f \in [DatNode -> TrueCache]
  PROVE  \A m \in DatNode : KeepsCache(f[m], f[m])
BY DEF KeepsCache

LEMMA AskKeeps ==
  ASSUME AnInv, NEW h \in Host, NEW ip \in Host, Ask(h, ip)
  PROVE  AnInv'
<1> DEFINE n == At[h]
           p == Request(n, h, Mac[h], ip)
           cache == batadv_dat_entry_add(dat_hash[n], h, Mac[h])
           get == batadv_dat_forward_data(n, p, ip)
           known == distributed_arp_table[n] /\ cache[ip] # "none"
           dht == distributed_arp_table[n] /\ ~known /\ get # {}
<1>1. /\ dat_hash' = IF distributed_arp_table[n] THEN [dat_hash EXCEPT ![n] = cache] ELSE dat_hash
      /\ arp' = arp \cup (IF known THEN {} ELSE IF dht THEN get ELSE Others(n, p))
      /\ delayed' = IF known \/ dht THEN delayed \cup {p} ELSE delayed
      /\ answers' = [answers EXCEPT ![h] = IF known THEN 1 ELSE 0]
      /\ dat_left' = [dat_left EXCEPT !.asks = @ \ {<<h, ip>>}]
      /\ distributed_arp_table' = distributed_arp_table /\ Quiet(h)
  BY DEF Ask, batadv_dat_snoop_outgoing_arp_request
<1>2. DatTyped
  BY DEF AnInv
<1>3. n \in DatNode
  BY DatConstants
<1>4. dat_hash \in [DatNode -> TrueCache] /\ dat_hash[n] \in TrueCache
  BY <1>2, <1>3 DEF DatTyped
<1>5. KeepsCache(dat_hash[n], cache) /\ cache \in TrueCache
  BY <1>4, EntryAdded DEF KeepsCache
<1>6. p \in ArpPacket /\ p.op = "REQUEST" /\ p.sip = h /\ p.dip = ip
  BY <1>3 DEF Request, ArpPacket
<1> HIDE DEF n, p, cache
<1>7. \A q \in get \cup Others(n, p) : SameContent(q, p)
  BY <1>3, <1>6, Forwarded, OthersSame
<1>8. \A q \in arp' : q \in arp \/ SameContent(q, p)
  BY <1>1, <1>7
<1>9. \A q \in delayed' : q \in delayed \/ q = p
  BY <1>1
<1>10. /\ dat_hash' \in [DatNode -> TrueCache]
       /\ \A m \in DatNode : KeepsCache(dat_hash[m], dat_hash'[m])
       /\ distributed_arp_table[n] => dat_hash'[n] = cache
  BY <1>1, <1>3, <1>4, <1>5, CachesKept, CachesSame
<1>11. answers \in [Host -> Nat] /\ answers' \in [Host -> Nat] /\ \A g \in Host : g # h => answers'[g] = answers[g]
  BY <1>1, <1>2 DEF DatTyped
<1>12. dat_left' \in DatScenario /\ dat_left'.calm = dat_left.calm
  BY <1>1, <1>2 DEF DatTyped, DatScenario
<1>13. arp' \subseteq ArpPacket /\ delayed' \subseteq {q \in ArpPacket : q.op = "REQUEST"}
  BY <1>2, <1>6, <1>8, <1>9 DEF DatTyped, SameContent
<1>14. DatTyped'
  BY <1>1, <1>2, <1>10, <1>11, <1>12, <1>13 DEF DatTyped
<1>15. ASSUME dat_left.calm
       PROVE  /\ \A m \in DatNode : distributed_arp_table'[m]
              /\ \A g \in Host : \E i \in Host : AboutOne(g, i)'
  <2>1. \A m \in DatNode : distributed_arp_table[m]
    BY <1>15 DEF AnInv
  <2>2. ASSUME NEW g \in Host, g # h PROVE \E i \in Host : AboutOne(g, i)'
    <3>1. PICK i \in Host : AboutOne(g, i)
      BY <1>15 DEF AnInv
    <3>2. At[g] \in DatNode
      BY DatConstants
    <3>3. \A q \in arp' \cup delayed' : q.op = "REQUEST" /\ q.sip = g => q.dip = i \/ q \in arp \cup delayed
      BY <1>6, <1>8, <1>9, <2>2 DEF SameContent
    <3>4. \A q \in arp' : q.op = "REPLY" /\ q.dip = g /\ q.to = At[g] => q.sip = i \/ q \in arp
      BY <1>6, <1>8 DEF SameContent
    <3>5. answers'[g] = answers[g]
      BY <1>11, <2>2
    <3> QED BY <1>2, <1>10, <3>1, <3>2, <3>3, <3>4, <3>5, AboutKept
  <2>3. AboutOne(h, ip)'
    <3>1. \A q \in arp' \cup delayed' : q.op = "REQUEST" /\ q.sip = h => q.dip = ip
      BY <1>1, <1>6, <1>8, <1>9 DEF SameContent, Quiet
    <3>2. \A q \in arp' : q.op = "REPLY" /\ q.dip = h /\ q.to = At[h] => q.sip = ip
      BY <1>1, <1>6, <1>8 DEF SameContent, Quiet
    <3>3. answers'[h] = IF known THEN 1 ELSE 0
      BY <1>1, <1>11, <1>2 DEF DatTyped
    <3>4. answers'[h] <= 1
      BY <3>3
    <3>5. ASSUME answers'[h] = 1 PROVE dat_hash'[At[h]][ip] = Mac[ip]
      <4>1. known
        BY <3>3, <3>5
      <4>2. cache[ip] = Mac[ip]
        BY <1>5, <4>1 DEF TrueCache
      <4>3. dat_hash'[n][ip] = Mac[ip]
        BY <1>10, <4>1, <4>2
      <4> QED BY <4>3 DEF n
    <3> QED BY <3>1, <3>2, <3>4, <3>5 DEF AboutOne
  <2> QED BY <1>1, <2>1, <2>2, <2>3
<1> QED BY <1>12, <1>14, <1>15 DEF AnInv

\* A packet that was on its way, repeats or answers a request that was, or is a reply to a
\* node that its target is not at.
Follows(q) ==
  \/ q \in arp
  \/ \E r \in arp \cup delayed : /\ r.op = "REQUEST"
                               /\ \/ SameContent(q, r)
                                  \/ q \in ArpPacket /\ q.op = "REPLY" /\ q.sip = r.dip /\ q.dip = r.sip
  \/ q \in ArpPacket /\ q.op = "REPLY" /\ q.to # At[q.dip]

\* A step that answers no host.
LEMMA QuietStep ==
  ASSUME AnInv, dat_left' \in DatScenario, dat_left'.calm = dat_left.calm,
         distributed_arp_table' \in [DatNode -> BOOLEAN],
         dat_left.calm => distributed_arp_table' = distributed_arp_table,
         dat_hash' \in [DatNode -> TrueCache],
         dat_left.calm => \A n \in DatNode : KeepsCache(dat_hash[n], dat_hash'[n]),
         answers' = answers, delayed' \subseteq delayed, \A q \in arp' : Follows(q)
  PROVE  AnInv'
<1>1. DatTyped
  BY DEF AnInv
<1>2. arp' \subseteq ArpPacket
  BY <1>1 DEF DatTyped, Follows, SameContent
<1>3. DatTyped'
  BY <1>1, <1>2 DEF DatTyped
<1>4. ASSUME dat_left.calm, NEW h \in Host PROVE \E ip \in Host : AboutOne(h, ip)'
  <2>1. PICK ip \in Host : AboutOne(h, ip)
    BY <1>4 DEF AnInv
  <2>2. At[h] \in DatNode
    BY DatConstants
  <2>3. ASSUME NEW q \in arp' \cup delayed', q.op = "REQUEST", q.sip = h
        PROVE  q.dip = ip \/ q \in arp \cup delayed
    <3>1. CASE q \in arp \cup delayed
      BY <3>1
    <3>2. CASE \E r \in arp \cup delayed : r.op = "REQUEST" /\ SameContent(q, r)
      BY <2>1, <2>3, <3>2 DEF AboutOne, SameContent
    <3> QED BY <2>3, <3>1, <3>2 DEF Follows
  <2>4. ASSUME NEW q \in arp', q.op = "REPLY", q.dip = h, q.to = At[h]
        PROVE  q.sip = ip \/ q \in arp
    <3>1. CASE \E r \in arp \cup delayed : r.op = "REQUEST" /\ q.sip = r.dip /\ q.dip = r.sip
      BY <2>1, <2>4, <3>1 DEF AboutOne
    <3> QED BY <2>4, <3>1 DEF Follows, SameContent
  <2> QED BY <1>1, <1>4, <2>1, <2>2, <2>3, <2>4, AboutKept
<1>5. dat_left.calm => \A n \in DatNode : distributed_arp_table[n]
  BY DEF AnInv
<1> QED BY <1>3, <1>4, <1>5 DEF AnInv

LEMMA BoundsUsed ==
  ASSUME dat_left \in DatScenario, NEW what \in {"losses", "purges", "acks", "settings"}, DatUse(what)
  PROVE  /\ dat_left' \in DatScenario /\ dat_left'.calm = dat_left.calm
         /\ what \in {"purges", "settings"} => ~dat_left.calm
<1>1. /\ dat_left \in [asks : SUBSET (Host \X Host), disabled : SUBSET DatNode, losses : Nat, purges : Nat,
                       acks : Nat, settings : Nat, calm : BOOLEAN]
      /\ dat_left.calm => dat_left.disabled = {} /\ dat_left.purges = 0 /\ dat_left.settings = 0
      /\ dat_left[what] > 0 /\ dat_left' = [dat_left EXCEPT ![what] = @ - 1]
  BY DEF DatScenario, DatUse
<1>2. what \in {"purges", "settings"} => ~dat_left.calm
  BY <1>1
<1>3. CASE what \in {"losses", "acks"}
  BY <1>1, <1>3 DEF DatScenario
<1>4. CASE what \in {"purges", "settings"}
  BY <1>1, <1>2, <1>4 DEF DatScenario
<1> QED BY <1>2, <1>3, <1>4

LEMMA TypedParts ==
  ASSUME AnInv
  PROVE  /\ DatTyped /\ dat_left \in DatScenario /\ distributed_arp_table \in [DatNode -> BOOLEAN]
         /\ dat_hash \in [DatNode -> TrueCache] /\ answers \in [Host -> Nat]
         /\ arp \subseteq ArpPacket /\ delayed \subseteq {p \in ArpPacket : p.op = "REQUEST"}
         /\ \A n \in DatNode : KeepsCache(dat_hash[n], dat_hash[n])
BY CachesSame DEF AnInv, DatTyped

LEMMA SendDelayedKeeps ==
  ASSUME AnInv, SendDelayed
  PROVE  AnInv'
<1>1. PICK p \in delayed :
        /\ delayed' = delayed \ {p}
        /\ arp' = IF batadv_dat_drop_broadcast_packet(p.to, p) THEN arp ELSE arp \cup Others(p.to, p)
        /\ UNCHANGED <<distributed_arp_table, has_dat, dat_hash, asking, answers, dat_left>>
  BY DEF SendDelayed
<1>2. p \in ArpPacket /\ p.op = "REQUEST" /\ p.to \in DatNode
  BY TypedParts, PacketType
<1>3. \A q \in arp' : Follows(q)
  BY <1>1, <1>2, OthersSame DEF Follows
<1> QED BY <1>1, <1>3, TypedParts, QuietStep

LEMMA LoseArpKeeps ==
  ASSUME AnInv, LoseArp
  PROVE  AnInv'
<1>1. PICK p \in arp : /\ DatUse("losses") /\ arp' = arp \ {p}
                      /\ UNCHANGED <<distributed_arp_table, has_dat, dat_hash, delayed, asking, answers>>
  BY DEF LoseArp
<1>2. dat_left' \in DatScenario /\ dat_left'.calm = dat_left.calm
  BY <1>1, TypedParts, BoundsUsed
<1>3. \A q \in arp' : Follows(q)
  BY <1>1 DEF Follows
<1> QED BY <1>1, <1>2, <1>3, TypedParts, QuietStep

LEMMA PurgeKeeps ==
  ASSUME AnInv, batadv_dat_purge
  PROVE  AnInv'
<1>1. PICK n \in DatNode, ip \in Host :
        /\ DatUse("purges") /\ dat_hash' = [dat_hash EXCEPT ![n][ip] = "none"]
        /\ UNCHANGED <<distributed_arp_table, has_dat, arp, delayed, asking, answers>>
  BY DEF batadv_dat_purge
<1>2. dat_left' \in DatScenario /\ dat_left'.calm = dat_left.calm /\ ~dat_left.calm
  BY <1>1, TypedParts, BoundsUsed
<1>3. dat_hash' \in [DatNode -> TrueCache]
  <2>1. [dat_hash[n] EXCEPT ![ip] = "none"] \in TrueCache
    BY TypedParts DEF TrueCache
  <2> QED BY <1>1, <2>1, TypedParts
<1>4. \A q \in arp' : Follows(q)
  BY <1>1 DEF Follows
<1> QED BY <1>1, <1>2, <1>3, <1>4, TypedParts, QuietStep

LEMMA StatusKeeps ==
  ASSUME AnInv, batadv_dat_status_update
  PROVE  AnInv'
<1>1. PICK n \in DatNode :
        /\ DatUse("settings") /\ distributed_arp_table' = [distributed_arp_table EXCEPT ![n] = ~@]
        /\ UNCHANGED <<has_dat, dat_hash, arp, delayed, asking, answers>>
  BY DEF batadv_dat_status_update
<1>2. dat_left' \in DatScenario /\ dat_left'.calm = dat_left.calm /\ ~dat_left.calm
  BY <1>1, TypedParts, BoundsUsed
<1>3. distributed_arp_table' \in [DatNode -> BOOLEAN]
  BY <1>1, TypedParts
<1>4. \A q \in arp' : Follows(q)
  BY <1>1 DEF Follows
<1> QED BY <1>1, <1>2, <1>3, <1>4, TypedParts, QuietStep

LEMMA TvlvKeeps ==
  ASSUME AnInv, batadv_dat_tvlv_ogm_handler_v1
  PROVE  AnInv'
<1>1. UNCHANGED <<distributed_arp_table, dat_hash, arp, delayed, asking, answers, dat_left>>
  BY DEF batadv_dat_tvlv_ogm_handler_v1
<1>2. \A q \in arp' : Follows(q)
  BY <1>1 DEF Follows
<1> QED BY <1>1, <1>2, TypedParts, QuietStep

LEMMA DhcpAckKeeps ==
  ASSUME AnInv, DhcpAck
  PROVE  AnInv'
<1>1. PICK srv \in Host, client \in Host :
        /\ DatUse("acks") /\ batadv_dat_put_dhcp(At[srv], srv, client)
        /\ UNCHANGED <<distributed_arp_table, has_dat, delayed, asking, answers>>
  BY DEF DhcpAck
<1> DEFINE n == At[srv]
           p == batadv_dat_arp_create_reply(client, srv, Mac[client], Mac[srv])
           Learn(c) == batadv_dat_entry_add(batadv_dat_entry_add(c, client, Mac[client]), srv, Mac[srv])
           learners == {m \in DatNode : distributed_arp_table[m]}
           put == batadv_dat_forward_data(n, p, client) \cup batadv_dat_forward_data(n, p, srv)
<1>2. /\ arp' = arp \cup (IF n \in learners THEN put ELSE {})
      /\ \E seen \in {{n}, {n, At[client]}} :
           dat_hash' = [m \in DatNode |-> IF m \in seen \cap learners THEN Learn(dat_hash[m]) ELSE dat_hash[m]]
  BY <1>1 DEF batadv_dat_put_dhcp
<1>3. dat_left' \in DatScenario /\ dat_left'.calm = dat_left.calm
  BY <1>1, TypedParts, BoundsUsed
<1>4. n \in DatNode
  BY DatConstants
<1>5. p \in ArpPacket /\ p.op = "REPLY" /\ p.dip = srv
  BY <1>4 DEF batadv_dat_arp_create_reply, ArpPacket
<1>6. \A c \in TrueCache : KeepsCache(c, Learn(c))
  BY BothAdded
<1> HIDE DEF p, Learn, learners
<1>7. ASSUME NEW q \in put PROVE Follows(q)
  <2>1. SameContent(q, p) /\ q.to # n
    BY <1>4, <1>5, Forwarded
  <2> QED BY <1>5, <2>1 DEF Follows, SameContent
<1> HIDE DEF put
<1>8. \A q \in arp' : Follows(q)
  BY <1>2, <1>7 DEF Follows
<1>9. /\ dat_hash' \in [DatNode -> TrueCache]
      /\ \A m \in DatNode : KeepsCache(dat_hash[m], dat_hash'[m])
  <2>1. PICK seen \in {{n}, {n, At[client]}} :
          dat_hash' = [m \in DatNode |-> IF m \in seen \cap learners THEN Learn(dat_hash[m]) ELSE dat_hash[m]]
    BY <1>2
  <2>2. \A m \in DatNode : dat_hash[m] \in TrueCache
    BY TypedParts
  <2>3. ASSUME NEW m \in DatNode PROVE KeepsCache(dat_hash[m], dat_hash'[m])
    BY <1>6, <2>1, <2>2, TypedParts
  <2>4. \A m \in DatNode : dat_hash'[m] \in TrueCache
    BY <2>3 DEF KeepsCache
  <2> QED BY <2>1, <2>3, <2>4
<1> QED BY <1>1, <1>3, <1>8, <1>9, TypedParts, QuietStep

\* A request is answered from the cache, or by the host that is asked for.
LEMMA RequestKeeps ==
  ASSUME AnInv, NEW p \in arp, p.op = "REQUEST", batadv_dat_snoop_incoming_arp_request(p),
         UNCHANGED <<distributed_arp_table, has_dat, delayed, dat_left>>
  PROVE  AnInv'
<1> DEFINE n == p.to
           cache == IF distributed_arp_table[n] THEN batadv_dat_entry_add(dat_hash[n], p.sip, p.smac)
                    ELSE dat_hash[n]
           known == distributed_arp_table[n] /\ cache[p.dip] # "none"
           host == HostReplies(n, cache, p)
           answer == batadv_dat_arp_create_reply(p.dip, p.sip, cache[p.dip], p.smac)
<1>1. /\ dat_hash' = [dat_hash EXCEPT ![n] = IF known THEN cache ELSE host.cache]
      /\ arp' = (arp \ {p}) \cup (IF known THEN {answer} ELSE host.out)
      /\ answers' = answers
  BY DEF batadv_dat_snoop_incoming_arp_request
<1>2. p \in ArpPacket
  BY TypedParts
<1>3. n \in DatNode /\ p.sip \in Host /\ p.dip \in Host /\ p.smac = Mac[p.sip]
  BY <1>2, PacketType
<1>4. dat_hash[n] \in TrueCache
  BY <1>3, TypedParts
<1>5. KeepsCache(dat_hash[n], cache) /\ cache \in TrueCache
  <2>1. KeepsCache(dat_hash[n], batadv_dat_entry_add(dat_hash[n], p.sip, p.smac))
    BY <1>3, <1>4, EntryAdded
  <2>2. KeepsCache(dat_hash[n], dat_hash[n])
    BY <1>4 DEF KeepsCache
  <2>3. KeepsCache(dat_hash[n], cache)
    BY <2>1, <2>2
  <2> QED BY <2>3 DEF KeepsCache
<1> HIDE DEF n, cache
<1>6. ASSUME known PROVE Follows(answer)
  <2>1. cache[p.dip] = Mac[p.dip]
    BY <1>3, <1>5, <1>6 DEF TrueCache
  <2>2. At[p.sip] \in DatNode
    BY <1>3, DatConstants
  <2>3. answer \in ArpPacket /\ answer.op = "REPLY" /\ answer.sip = p.dip /\ answer.dip = p.sip
    BY <1>3, <2>1, <2>2 DEF batadv_dat_arp_create_reply, ArpPacket
  <2> QED BY <2>3 DEF Follows
<1>7. KeepsCache(cache, host.cache) /\ \A q \in host.out : Follows(q)
  <2> DEFINE reply == [op |-> "REPLY", to |-> At[p.sip], sip |-> p.dip, smac |-> Mac[p.dip],
                       dip |-> p.sip, dmac |-> p.smac]
             s == batadv_dat_snoop_outgoing_arp_reply(n, cache, reply)
  <2>1. KeepsCache(cache, cache)
    BY <1>5 DEF KeepsCache
  <2>2. At[p.sip] \in DatNode
    BY <1>3, DatConstants
  <2>3. /\ reply \in ArpPacket /\ reply.op = "REPLY" /\ reply.sip = p.dip /\ reply.dip = p.sip
        /\ reply.smac = Mac[p.dip] /\ reply.dmac = Mac[p.sip]
    BY <1>3, <2>2 DEF ArpPacket
  <2>4. host = IF At[p.dip] # n THEN [cache |-> cache, out |-> {}]
               ELSE [cache |-> s.cache, out |-> s.put \cup {reply}]
    BY DEF HostReplies
  <2> HIDE DEF reply, host
  <2>5. KeepsCache(cache, s.cache)
    <3>1. KeepsCache(cache, batadv_dat_entry_add(batadv_dat_entry_add(cache, reply.sip, reply.smac), reply.dip, reply.dmac))
      BY <1>3, <1>5, <2>3, BothAdded
    <3> QED BY <2>1, <3>1 DEF batadv_dat_snoop_outgoing_arp_reply
  <2>6. s.put \subseteq batadv_dat_forward_data(n, reply, reply.sip) \cup batadv_dat_forward_data(n, reply, reply.dip)
    BY DEF batadv_dat_snoop_outgoing_arp_reply
  <2> HIDE DEF s
  <2>7. ASSUME NEW q \in s.put \cup {reply} PROVE Follows(q)
    <3>1. SameContent(q, reply)
      <4>1. CASE q = reply
        BY <2>3, <4>1 DEF SameContent
      <4>2. CASE q \in s.put
        BY <1>3, <2>3, <2>6, <4>2, Forwarded DEF n
      <4> QED BY <4>1, <4>2
    <3> QED BY <2>3, <3>1 DEF Follows, SameContent
  <2> QED BY <2>1, <2>4, <2>5, <2>7
<1> HIDE DEF host, answer
<1>8. \A q \in arp' : Follows(q)
  BY <1>1, <1>6, <1>7 DEF Follows
<1>9. KeepsCache(dat_hash[n], IF known THEN cache ELSE host.cache)
  BY <1>5, <1>7, KeepsTwice
<1>10. /\ dat_hash' \in [DatNode -> TrueCache]
       /\ \A m \in DatNode : KeepsCache(dat_hash[m], dat_hash'[m])
  <2> HIDE DEF known
  <2>1. n \in DatNode
    BY <1>3
  <2> QED BY <1>1, <1>9, <2>1, TypedParts, CachesKept
<1> QED BY <1>1, <1>8, <1>10, TypedParts, QuietStep

\* A reply that its target's node has in its cache is not delivered.
LEMMA ReplyKeeps ==
  ASSUME AnInv, NEW p \in arp, p.op = "REPLY", batadv_dat_snoop_incoming_arp_reply(p),
         UNCHANGED <<distributed_arp_table, has_dat, delayed, dat_left>>
  PROVE  AnInv'
<1> DEFINE n == p.to
           on == distributed_arp_table[n]
           deliver == /\ batadv_is_my_client(n, p.dmac)
                      /\ on => ~Doubled(n, p) /\ ~batadv_is_my_client(n, p.smac)
           cache == batadv_dat_entry_add(batadv_dat_entry_add(dat_hash[n], p.sip, p.smac), p.dip, p.dmac)
<1>1. /\ dat_hash' = IF ~on THEN dat_hash ELSE [dat_hash EXCEPT ![n] = cache]
      /\ answers' = IF deliver THEN [answers EXCEPT ![p.dip] = @ + 1] ELSE answers
      /\ arp' = arp \ {p}
  BY DEF batadv_dat_snoop_incoming_arp_reply
<1>2. p \in ArpPacket
  BY TypedParts
<1>3. n \in DatNode /\ p.sip \in Host /\ p.dip \in Host /\ p.smac = Mac[p.sip] /\ p.dmac = Mac[p.dip]
  BY <1>2, PacketType
<1>4. dat_hash[n] \in TrueCache
  BY <1>3, TypedParts
<1>5. KeepsCache(dat_hash[n], cache) /\ cache[p.sip] = Mac[p.sip]
  BY <1>3, <1>4, BothAdded
<1> HIDE DEF cache
<1>6. /\ dat_hash' \in [DatNode -> TrueCache]
      /\ \A m \in DatNode : KeepsCache(dat_hash[m], dat_hash'[m])
      /\ on => dat_hash'[n] = cache
  <2>1. CASE ~on
    BY <1>1, <2>1, TypedParts
  <2>2. CASE on
    BY <1>1, <1>3, <1>5, <2>2, TypedParts, CachesKept
  <2> QED BY <2>1, <2>2
<1>7. \A q \in arp' : q \in arp
  BY <1>1
<1>8. CASE ~deliver
  <2>1. \A q \in arp' : Follows(q)
    BY <1>7 DEF Follows
  <2> QED BY <1>1, <1>6, <1>8, <2>1, TypedParts, QuietStep
<1>9. CASE deliver
  <2> DEFINE h == p.dip
  <2>1. At[h] = n
    <3>1. PICK g \in Host : Mac[g] = p.dmac /\ At[g] = n
      BY <1>9 DEF batadv_is_my_client
    <3> QED BY <1>3, <3>1, DatConstants
  <2>2. on => dat_hash[n][p.sip] # Mac[p.sip]
    BY <1>3, <1>9 DEF Doubled
  <2>3. answers \in [Host -> Nat] /\ answers' = [answers EXCEPT ![h] = @ + 1] /\ h \in Host
    BY <1>1, <1>3, <1>9, TypedParts
  <2> HIDE DEF on, deliver
  <2>4. DatTyped'
    <3>1. answers' \in [Host -> Nat]
      BY <2>3
    <3>2. arp' \subseteq ArpPacket
      BY <1>7, TypedParts
    <3> QED BY <1>6, <3>1, <3>2, TypedParts DEF DatTyped
  <2>5. ASSUME dat_left.calm
        PROVE  /\ \A m \in DatNode : distributed_arp_table'[m]
               /\ \A g \in Host : \E ip \in Host : AboutOne(g, ip)'
    <3>1. \A m \in DatNode : distributed_arp_table[m]
      BY <2>5 DEF AnInv
    <3>2. on
      BY <1>3, <3>1 DEF on
    <3>3. ASSUME NEW g \in Host, g # h PROVE \E ip \in Host : AboutOne(g, ip)'
      <4>1. PICK ip \in Host : AboutOne(g, ip)
        BY <2>5 DEF AnInv
      <4>2. answers'[g] = answers[g] /\ At[g] \in DatNode
        BY <2>3, <3>3, DatConstants
      <4> QED BY <1>6, <1>7, <4>1, <4>2, TypedParts, AboutKept
    <3>4. \E ip \in Host : AboutOne(h, ip)'
      <4>1. PICK ip \in Host : AboutOne(h, ip)
        BY <2>3, <2>5 DEF AnInv
      <4>2. p.sip = ip
        BY <2>1, <4>1 DEF AboutOne
      <4>3. answers[h] \in Nat /\ answers[h] <= 1 /\ answers[h] # 1
        BY <2>1, <2>2, <2>3, <3>2, <4>1, <4>2 DEF AboutOne
      <4>4. answers'[h] = 1
        BY <2>3, <4>3
      <4>5. dat_hash'[At[h]][ip] = Mac[ip]
        BY <1>5, <1>6, <2>1, <3>2, <4>2
      <4>6. /\ \A q \in arp' \cup delayed' : q.op = "REQUEST" /\ q.sip = h => q.dip = ip
            /\ \A q \in arp' : q.op = "REPLY" /\ q.dip = h /\ q.to = At[h] => q.sip = ip
        BY <1>7, <4>1 DEF AboutOne
      <4>7. AboutOne(h, ip)'
        BY <4>4, <4>5, <4>6 DEF AboutOne
      <4> QED BY <4>7
    <3> QED BY <3>1, <3>3, <3>4
  <2> QED BY <2>4, <2>5 DEF AnInv
<1> QED BY <1>8, <1>9

LEMMA ReceiveArpKeeps ==
  ASSUME AnInv, ReceiveArp
  PROVE  AnInv'
<1>1. PICK p \in arp :
        /\ IF p.op = "REQUEST" THEN batadv_dat_snoop_incoming_arp_request(p)
           ELSE batadv_dat_snoop_incoming_arp_reply(p)
        /\ UNCHANGED <<distributed_arp_table, has_dat, delayed, dat_left>>
  BY DEF ReceiveArp
<1>2. p.op \in {"REQUEST", "REPLY"}
  BY TypedParts, PacketType
<1>3. CASE p.op = "REQUEST"
  BY <1>1, <1>3, RequestKeeps
<1>4. CASE p.op = "REPLY"
  <2>1. batadv_dat_snoop_incoming_arp_reply(p)
    BY <1>1, <1>4
  <2> QED BY <1>1, <1>4, <2>1, ReplyKeeps
<1> QED BY <1>2, <1>3, <1>4

LEMMA AnInvInit == batadv_dat_init => AnInv
<1> SUFFICES ASSUME batadv_dat_init PROVE AnInv
  OBVIOUS
<1>1. dat_left \in DatScenario
  BY DatConstants DEF batadv_dat_init
<1>2. [h \in Host |-> "none"] \in TrueCache
  BY DEF TrueCache
<1>3. DatTyped
  BY <1>1, <1>2 DEF batadv_dat_init, DatTyped
<1>4. ASSUME dat_left.calm, NEW n \in DatNode PROVE distributed_arp_table[n]
  <2>1. dat_left.disabled = {}
    BY <1>1, <1>4 DEF DatScenario
  <2> QED BY <2>1 DEF batadv_dat_init
<1>5. \A h \in Host : AboutOne(h, h)
  BY DEF batadv_dat_init, AboutOne
<1> QED BY <1>3, <1>4, <1>5 DEF AnInv

LEMMA AnInvStep == AnInv /\ [DatNext]_datVars => AnInv'
<1> SUFFICES ASSUME AnInv, [DatNext]_datVars PROVE AnInv'
  OBVIOUS
<1>1. CASE \E h, ip \in Host : Ask(h, ip)
  BY <1>1, AskKeeps
<1>2. CASE UNCHANGED datVars
  BY <1>2 DEF datVars, AnInv, DatTyped, AboutOne
<1> QED BY <1>1, <1>2, SendDelayedKeeps, ReceiveArpKeeps, LoseArpKeeps, DhcpAckKeeps, PurgeKeeps,
           StatusKeeps, TvlvKeeps DEF DatNext

\* The caches never pair an address with the host of another, and a host that asked gets one
\* answer at most, however many nodes of the DHT have answered or were told by a third party,
\* and whichever was first (batadv_dat_snoop_incoming_arp_reply()).
THEOREM AnswersNotDoubled == DatSpec => [](DatTypeOK /\ AnsweredOnce)
<1>1. AnInv => DatTypeOK
  <2> SUFFICES ASSUME AnInv PROVE DatTypeOK
    OBVIOUS
  <2>1. \A n \in DatNode, h \in Host : dat_hash[n][h] \in {"none", Mac[h]}
    BY TypedParts DEF TrueCache
  <2>2. \A p \in arp : p.to \in DatNode /\ p.smac = Mac[p.sip] /\ p.dmac \in {"none", Mac[p.dip]}
    BY TypedParts DEF ArpPacket
  <2> QED BY <2>1, <2>2 DEF DatTypeOK
<1>2. AnInv => AnsweredOnce
  BY DEF AnInv, AboutOne, AnsweredOnce
<1> QED BY <1>1, <1>2, AnInvInit, AnInvStep, PTL DEF DatSpec

-----------------------------------------------------------------------------
(* The throughput meter. *)

\* What holds for 0 and goes on from each number to the next holds up to n.
LEMMA UpTo ==
  ASSUME NEW n \in Nat, NEW K, 0 \in K, \A k \in 0..(n - 1) : k \in K => k + 1 \in K
  PROVE  n \in K
<1> DEFINE M == {k \in 0..n : k \notin K}
<1>1. ASSUME n \notin K PROVE FALSE
  <2>1. M \in SUBSET Nat /\ M # {}
    BY <1>1
  <2>2. PICK m \in M : \A x \in M : m <= x
    BY <2>1, LeastNumber
  <2>3. m \in 0..n /\ m \notin K /\ m # 0
    BY <2>2
  <2>4. m - 1 \in 0..(n - 1) /\ m - 1 \in 0..n /\ ~(m <= m - 1) /\ (m - 1) + 1 = m
    BY <2>3
  <2>5. m - 1 \in M
    BY <2>3, <2>4
  <2> QED BY <2>2, <2>4, <2>5
<1> QED BY <1>1


\* A receiver that has timed out is not opened again by a retransmission that was too early.
IdleOrEarly == \A b \in TpScenarios : b.idle = 0 \/ b.early = 0

TpFields == DOMAIN NoTest

\* Numbers of segments, and of what is acknowledged, in a test with segs segments.
TestLength == {n \in Nat : n * PLEN < SEQS \div 2}
Segment(segs, q) == q \in SeqNo /\ \E i \in 0..(segs - 1) : Offset(q) = i * PLEN
OfTest(segs, q) == q \in SeqNo /\ \E i \in 0..segs : Offset(q) = i * PLEN

BoundsKept ==
  /\ tp_left \in [TpBounds -> Nat] /\ tp_left.segments \in TestLength
  /\ 1..(tp.session + tp_left.tests) \subseteq Session

SenderTyped ==
  /\ DOMAIN tp = TpFields /\ tp.session \in Nat /\ (tp.pc = "gone" \/ tp.session # 0)
  /\ OfTest(tp_left.segments, tp.last_sent) /\ OfTest(tp_left.segments, tp.last_acked)
  /\ tp.tot_sent = Offset(tp.last_acked)
  /\ notified.reason = "COMPLETE" => notified.bytes % PLEN = 0

DataPacket == [session : Session, seqno : SeqNo]
AckPacket == [session : Session, seqno : SeqNo, of : SeqNo]
PacketsTyped ==
  /\ data \in Seq(DataPacket) /\ acks \in Seq(AckPacket)
  /\ \A m \in ToSet(data) : m.session <= tp.session /\ Segment(tp_left.segments, m.seqno)
  /\ \A m \in ToSet(acks) : /\ m.session <= tp.session /\ OfTest(tp_left.segments, m.seqno)
                            /\ m.seqno # FIRST_SEQ

ReceiverTyped(segs, r) ==
  /\ DOMAIN r = {"open", "last_recv", "unacked_list"} /\ r.open \in BOOLEAN
  /\ OfTest(segs, r.last_recv) /\ r.unacked_list \in Seq(SeqNo)
  /\ \A i \in DOMAIN r.unacked_list : Segment(segs, r.unacked_list[i])
ReceiversTyped ==
  /\ DOMAIN rx = Session
  /\ \A s \in Session : /\ ReceiverTyped(tp_left.segments, rx[s])
                        /\ rx[s].open => s <= tp.session /\ rx[s].last_recv # FIRST_SEQ

\* The receiver's session of the current test.
Receiver == rx[tp.session]
ReceiverActive == tp.session # 0 /\ tp_mesh.receiver = "ACTIVE"
Opened == ReceiverActive /\ Receiver.open
Unopened == ReceiverActive /\ ~Receiver.open

AcksWereReceived ==
  Opened => /\ tp.tot_sent <= Offset(Receiver.last_recv)
            /\ \A m \in ToSet(acks) : m.session = tp.session => Offset(m.seqno) <= Offset(Receiver.last_recv)

\* The first segment opens the session once: either the receiver does not time out, or the
\* sender does not go back to the first segment while anything is on its way.
NothingAcked == tp.tot_sent = 0 /\ \A m \in ToSet(acks) : m.session # tp.session
NothingSent == \A m \in ToSet(data) : m.session # tp.session
FirstSent == \E m \in ToSet(data) : m.session = tp.session /\ m.seqno = FIRST_SEQ
NeverIdle == tp_left.idle = 0 /\ (Unopened => NothingAcked)
NeverEarly ==
  /\ tp_left.early = 0
  /\ tp.last_sent = FIRST_SEQ => NothingAcked /\ NothingSent
  /\ Unopened /\ FirstSent => NothingAcked

MeshTyped == DOMAIN tp_mesh = {"sender", "receiver"}

TpInv ==
  /\ BoundsKept /\ MeshTyped /\ SenderTyped /\ ReceiversTyped /\ PacketsTyped
  /\ AcksWereReceived /\ (NeverIdle \/ NeverEarly)

-----------------------------------------------------------------------------
(* Sequence numbers. *)

LEMMA ModWithin ==
  ASSUME NEW S \in Nat \ {0}, NEW z \in Int, z >= -S, z < 2 * S
  PROVE  z % S = IF z < 0 THEN z + S ELSE IF z < S THEN z ELSE z - S
<1>1. CASE z < 0
  BY <1>1
<1>2. CASE z >= 0 /\ z < S
  BY <1>2
<1>3. CASE z >= S
  BY <1>3
<1> QED BY <1>1, <1>2, <1>3

LEMMA MultipleMod ==
  ASSUME NEW n \in Nat \ {0}, NEW i \in Nat
  PROVE  (i * n) % n = 0
<1> DEFINE q == (i * n) \div n
           r == (i * n) % n
<1>1. q \in Int /\ r \in 0..(n - 1) /\ i * n = n * q + r
  OBVIOUS
<1> HIDE DEF q, r
<1>2. n * (i - q) = r
  BY <1>1
<1>3. i - q >= 1 => n * (i - q) >= n
  BY <1>1
<1>4. i - q <= -1 => n * (i - q) <= -n
  BY <1>1
<1> QED BY <1>1, <1>2, <1>3, <1>4

LEMMA TpConstants ==
  /\ SEQS \in Nat \ {0} /\ FIRST_SEQ \in SeqNo /\ PLEN \in Nat \ {0} /\ Session \subseteq Nat \ {0}
  /\ SeqNo \subseteq Nat /\ SEQS \div 2 \in Nat /\ 2 * (SEQS \div 2) <= SEQS
BY TpMeterAssumption DEF SeqNo

\* How far two numbers are apart says which they are.
LEMMA OffsetIs ==
  ASSUME NEW q \in SeqNo
  PROVE  /\ Offset(q) \in SeqNo
         /\ Offset(q) = IF q < FIRST_SEQ THEN q - FIRST_SEQ + SEQS ELSE q - FIRST_SEQ
<1>1. SEQS \in Nat \ {0} /\ FIRST_SEQ \in 0..(SEQS - 1) /\ q \in 0..(SEQS - 1)
  BY TpConstants DEF SeqNo
<1> DEFINE z == q - FIRST_SEQ
<1>2. z \in Int /\ z >= -SEQS /\ z < 2 * SEQS
  BY <1>1
<1>3. z % SEQS = IF z < 0 THEN z + SEQS ELSE IF z < SEQS THEN z ELSE z - SEQS
  <2> HIDE DEF z
  <2> QED BY <1>1, <1>2, ModWithin
<1>4. Offset(q) = z % SEQS
  BY DEF Offset
<1> QED BY <1>1, <1>3, <1>4 DEF SeqNo

LEMMA OffsetApart ==
  ASSUME NEW x \in SeqNo, NEW y \in SeqNo
  PROVE  (x - y) % SEQS = IF Offset(x) < Offset(y) THEN Offset(x) - Offset(y) + SEQS ELSE Offset(x) - Offset(y)
<1>1. SEQS \in Nat \ {0} /\ FIRST_SEQ \in 0..(SEQS - 1) /\ x \in 0..(SEQS - 1) /\ y \in 0..(SEQS - 1)
  BY TpConstants DEF SeqNo
<1> DEFINE z == x - y
<1>2. z \in Int /\ z >= -SEQS /\ z < 2 * SEQS
  BY <1>1
<1>3. z % SEQS = IF z < 0 THEN z + SEQS ELSE IF z < SEQS THEN z ELSE z - SEQS
  <2> HIDE DEF z
  <2> QED BY <1>1, <1>2, ModWithin
<1> QED BY <1>1, <1>3, OffsetIs

LEMMA SameOffset ==
  ASSUME NEW x \in SeqNo, NEW y \in SeqNo, Offset(x) = Offset(y)
  PROVE  x = y
<1>1. SEQS \in Nat \ {0} /\ FIRST_SEQ \in 0..(SEQS - 1) /\ x \in 0..(SEQS - 1) /\ y \in 0..(SEQS - 1)
  BY TpConstants DEF SeqNo
<1> QED BY <1>1, OffsetIs

LEMMA FirstOffset == Offset(FIRST_SEQ) = 0
BY TpConstants, OffsetIs

\* The numbers of a test.
LEMMA OfTestType ==
  ASSUME NEW segs \in TestLength, NEW q, OfTest(segs, q)
  PROVE  /\ q \in SeqNo /\ Offset(q) \in Nat /\ Offset(q) < SEQS \div 2 /\ Offset(q) % PLEN = 0
         /\ q # FIRST_SEQ <=> Offset(q) > 0
<1>1. q \in SeqNo
  BY DEF OfTest
<1>2. PICK i \in 0..segs : Offset(q) = i * PLEN
  BY DEF OfTest
<1>3. segs \in Nat /\ segs * PLEN < SEQS \div 2 /\ PLEN \in Nat \ {0}
  BY TpConstants DEF TestLength
<1>4. i \in Nat /\ i <= segs
  BY <1>3
<1>5. i * PLEN <= segs * PLEN
  BY <1>3, <1>4
<1>6. Offset(q) \in Nat
  BY <1>1, OffsetIs, TpConstants DEF SeqNo
<1>7. Offset(q) % PLEN = 0
  BY <1>2, <1>3, <1>4, MultipleMod
<1>8. Offset(q) < SEQS \div 2
  BY <1>2, <1>3, <1>4, <1>5, <1>6, TpConstants
<1>9. q # FIRST_SEQ <=> Offset(q) > 0
  BY <1>1, <1>6, FirstOffset, SameOffset, TpConstants
<1> QED BY <1>1, <1>6, <1>7, <1>8, <1>9

LEMMA FirstOfTest ==
  ASSUME NEW segs \in TestLength
  PROVE  OfTest(segs, FIRST_SEQ)
<1>1. segs \in Nat
  BY DEF TestLength
<1>2. 0 \in 0..segs /\ 0 * PLEN = 0
  BY <1>1, TpConstants
<1> QED BY <1>2, FirstOffset, TpConstants DEF OfTest

\* What can be sent is a segment, and what follows it is the next number.
LEMMA MayBeSent ==
  ASSUME NEW segs \in TestLength, NEW q, OfTest(segs, q), Offset(q) < segs * PLEN
  PROVE  Segment(segs, q)
<1>1. q \in SeqNo
  BY DEF OfTest
<1>2. PICK i \in 0..segs : Offset(q) = i * PLEN
  BY DEF OfTest
<1>3. segs \in Nat /\ PLEN \in Nat \ {0} /\ i \in Nat /\ i <= segs
  BY TpConstants DEF TestLength
<1>4. i # segs
  BY <1>2, <1>3, OfTestType
<1>5. i \in 0..(segs - 1)
  BY <1>3, <1>4
<1> QED BY <1>1, <1>2, <1>5 DEF Segment

LEMMA NextSegment ==
  ASSUME NEW segs \in TestLength, NEW q, Segment(segs, q)
  PROVE  OfTest(segs, q) /\ OfTest(segs, Add(q, PLEN)) /\ Offset(Add(q, PLEN)) = Offset(q) + PLEN
<1>1. q \in SeqNo
  BY DEF Segment
<1>2. PICK i \in 0..(segs - 1) : Offset(q) = i * PLEN
  BY DEF Segment
<1>3. /\ segs \in Nat /\ PLEN \in Nat \ {0} /\ i \in Nat /\ i + 1 \in 0..segs
      /\ segs * PLEN < SEQS \div 2
  BY TpConstants DEF TestLength
<1>4. i \in 0..segs
  BY <1>3
<1>5. OfTest(segs, q)
  BY <1>1, <1>2, <1>4 DEF OfTest
<1>6. (i + 1) * PLEN = Offset(q) + PLEN
  BY <1>2, <1>3
<1>7. (i + 1) * PLEN <= segs * PLEN
  BY <1>3
<1>8. Offset(q) + PLEN < SEQS \div 2
  BY <1>3, <1>5, <1>6, <1>7, OfTestType, TpConstants
<1> DEFINE z == q + PLEN
<1>9. q \in 0..(SEQS - 1) /\ SEQS \in Nat \ {0} /\ SEQS \div 2 \in Nat /\ 2 * (SEQS \div 2) <= SEQS /\ Offset(q) \in Nat
  BY <1>5, TpConstants, OfTestType DEF SeqNo
<1>10. Add(q, PLEN) = IF z < SEQS THEN z ELSE z - SEQS
  <2>1. z \in Int /\ z >= -SEQS /\ z < 2 * SEQS /\ z >= 0
    BY <1>3, <1>8, <1>9
  <2>2. Add(q, PLEN) = z % SEQS
    BY DEF Add
  <2>3. SEQS \in Nat \ {0}
    BY <1>9
  <2> HIDE DEF z
  <2>4. z % SEQS = IF z < 0 THEN z + SEQS ELSE IF z < SEQS THEN z ELSE z - SEQS
    BY <2>1, <2>3, ModWithin
  <2> QED BY <2>1, <2>2, <2>4
<1>11. Add(q, PLEN) \in SeqNo
  BY <1>3, <1>8, <1>9, <1>10 DEF SeqNo
<1>12. Offset(Add(q, PLEN)) = Offset(q) + PLEN
  <2>1. FIRST_SEQ \in 0..(SEQS - 1)
    BY TpConstants DEF SeqNo
  <2>2. Offset(Add(q, PLEN)) = IF Add(q, PLEN) < FIRST_SEQ THEN Add(q, PLEN) - FIRST_SEQ + SEQS ELSE Add(q, PLEN) - FIRST_SEQ
    BY <1>11, OffsetIs
  <2>3. Offset(q) = IF q < FIRST_SEQ THEN q - FIRST_SEQ + SEQS ELSE q - FIRST_SEQ
    BY <1>1, OffsetIs
  <2> QED BY <1>3, <1>8, <1>9, <1>10, <2>1, <2>2, <2>3
<1>13. OfTest(segs, Add(q, PLEN))
  BY <1>3, <1>6, <1>11, <1>12 DEF OfTest
<1> QED BY <1>5, <1>12, <1>13

\* They are compared like integers.
LEMMA BeforeIs ==
  ASSUME NEW segs \in TestLength, NEW x, OfTest(segs, x), NEW y, OfTest(segs, y)
  PROVE  /\ batadv_seq_before(x, y) <=> Offset(x) < Offset(y)
         /\ Offset(x) >= Offset(y) => (x - y) % SEQS = Offset(x) - Offset(y)
<1>1. /\ x \in SeqNo /\ Offset(x) \in Nat /\ Offset(x) < SEQS \div 2
      /\ y \in SeqNo /\ Offset(y) \in Nat /\ Offset(y) < SEQS \div 2
  BY OfTestType
<1>2. (x - y) % SEQS = IF Offset(x) < Offset(y) THEN Offset(x) - Offset(y) + SEQS ELSE Offset(x) - Offset(y)
  BY <1>1, OffsetApart
<1>3. SEQS \in Nat /\ SEQS \div 2 \in Nat /\ 2 * (SEQS \div 2) <= SEQS
  BY TpConstants
<1> DEFINE h == SEQS \div 2
<1>4. batadv_seq_before(x, y) <=> (x - y) % SEQS > h
  BY DEF batadv_seq_before
<1> HIDE DEF h
<1> QED BY <1>1, <1>2, <1>3, <1>4 DEF h

-----------------------------------------------------------------------------
(* The receiver of a test. *)

\* A segment that came too early finds its place among the others.
LEMMA ListTakes ==
  ASSUME NEW segs \in TestLength, NEW list \in Seq(SeqNo), \A i \in DOMAIN list : Segment(segs, list[i]), NEW q, Segment(segs, q)
  PROVE  LET l == batadv_tp_handle_out_of_order(list, q)
         IN l \in Seq(SeqNo) /\ \A i \in DOMAIN l : Segment(segs, l[i])
<1> DEFINE notAfter == {i \in DOMAIN list : ~batadv_seq_before(q, list[i])}
           l == batadv_tp_handle_out_of_order(list, q)
<1>1. q \in SeqNo /\ Len(list) \in Nat /\ DOMAIN list = 1..Len(list)
  BY DEF Segment
<1>2. CASE notAfter = {}
  <2>1. l = <<q>> \o list
    BY <1>2 DEF batadv_tp_handle_out_of_order
  <2>2. l \in Seq(SeqNo) /\ DOMAIN l = 1..(Len(list) + 1)
    BY <1>1, <2>1
  <2>3. \A i \in 1..(Len(list) + 1) : l[i] = IF i = 1 THEN q ELSE list[i - 1]
    BY <1>1, <2>1
  <2>4. \A i \in 1..(Len(list) + 1) : i # 1 => i - 1 \in DOMAIN list
    BY <1>1
  <2> HIDE DEF l
  <2>5. \A i \in DOMAIN l : Segment(segs, l[i])
    BY <2>2, <2>3, <2>4
  <2> QED BY <2>2, <2>5 DEF l
<1>3. CASE notAfter # {}
  <2>1. notAfter \in SUBSET (0..Len(list))
    BY <1>1
  <2> DEFINE at == Max(notAfter)
  <2>2. at \in notAfter
    <3>1. PICK m \in notAfter : \A x \in notAfter : x <= m
      BY <1>1, <1>3, <2>1, GreatestNumber
    <3>2. \A x \in notAfter : m \in Int /\ x \in Int
      BY <2>1
    <3>3. \E m1 \in notAfter : \A x \in notAfter : m1 >= x
      BY <3>1, <3>2
    <3> HIDE DEF notAfter
    <3> QED BY <3>3 DEF Max
  <2>3. at \in 1..Len(list)
    BY <1>1, <2>2
  <2>4. l = IF list[at] = q THEN list ELSE InsertAt(list, at, q)
    BY <1>3 DEF batadv_tp_handle_out_of_order
  <2> HIDE DEF at, notAfter, l
  <2> DEFINE u == InsertAt(list, at, q)
  <2>5. /\ u \in Seq(SeqNo) /\ Len(u) = Len(list) + 1
        /\ \A i \in 1..(Len(list) + 1) : u[i] = IF i < at THEN list[i] ELSE IF i = at THEN q ELSE list[i - 1]
    <3>1. at \in 1..(Len(list) + 1) /\ list \in Seq(SeqNo) /\ q \in SeqNo
      BY <1>1, <2>3
    <3>2. PutIn(SeqNo, list, at, q, InsertAt(list, at, q))
      BY Zenon, <3>1, Insertion
    <3> QED BY <3>2 DEF PutIn, u
  <2> HIDE DEF u
  <2>6. DOMAIN u = 1..(Len(list) + 1)
    BY <2>5
  <2>7. \A i \in DOMAIN u : Segment(segs, u[i])
    <3> SUFFICES ASSUME NEW i \in 1..(Len(list) + 1) PROVE Segment(segs, u[i])
      BY <2>6
    <3>1. CASE i < at
      BY <1>1, <2>3, <2>5, <3>1
    <3>2. CASE i = at
      BY <2>5, <3>2
    <3>3. CASE i > at
      <4>1. i - 1 \in DOMAIN list /\ u[i] = list[i - 1]
        BY <1>1, <2>3, <2>5, <3>3
      <4> QED BY <4>1
    <3> QED BY <1>1, <2>3, <3>1, <3>2, <3>3
  <2> QED BY <2>4, <2>5, <2>7 DEF u, l
<1> QED BY <1>2, <1>3

\* What r becomes goes on from where it was.
GoesOn(segs, r, u) ==
  ReceiverTyped(segs, u) /\ u.open = r.open /\ Offset(r.last_recv) <= Offset(u.last_recv)

LEMMA GoesOnFurther ==
  ASSUME NEW segs \in TestLength, NEW r, ReceiverTyped(segs, r), NEW u, GoesOn(segs, r, u), NEW v, GoesOn(segs, u, v)
  PROVE  GoesOn(segs, r, v)
<1>1. OfTest(segs, r.last_recv) /\ OfTest(segs, u.last_recv) /\ OfTest(segs, v.last_recv)
  BY DEF GoesOn, ReceiverTyped
<1>2. Offset(r.last_recv) \in Nat /\ Offset(u.last_recv) \in Nat /\ Offset(v.last_recv) \in Nat
  BY <1>1, OfTestType
<1> QED BY <1>2 DEF GoesOn

LEMMA TakenOffGoesOn ==
  ASSUME NEW segs \in TestLength, NEW r, ReceiverTyped(segs, r), NEW q, Segment(segs, q)
  PROVE  GoesOn(segs, r, TakenOff(r, q))
<1>1. /\ DOMAIN r = {"open", "last_recv", "unacked_list"} /\ r.open \in BOOLEAN
      /\ OfTest(segs, r.last_recv) /\ r.unacked_list \in Seq(SeqNo)
      /\ \A i \in DOMAIN r.unacked_list : Segment(segs, r.unacked_list[i])
  BY DEF ReceiverTyped
<1>2. OfTest(segs, q) /\ OfTest(segs, Add(q, PLEN)) /\ q \in SeqNo
  BY NextSegment DEF Segment
<1>3. Offset(r.last_recv) \in Nat /\ Offset(Add(q, PLEN)) \in Nat
  BY <1>1, <1>2, OfTestType
<1> DEFINE list == Append(r.unacked_list, q)
<1>4. list \in Seq(SeqNo) /\ \A i \in DOMAIN list : Segment(segs, list[i])
  <2>1. /\ list \in Seq(SeqNo) /\ DOMAIN list = 1..(Len(r.unacked_list) + 1)
        /\ DOMAIN r.unacked_list = 1..Len(r.unacked_list) /\ Len(r.unacked_list) \in Nat
    BY <1>1, <1>2
  <2>2. \A i \in 1..(Len(r.unacked_list) + 1) :
          list[i] = IF i = Len(r.unacked_list) + 1 THEN q ELSE r.unacked_list[i]
    BY <1>1, <1>2
  <2>3. \A i \in 1..(Len(r.unacked_list) + 1) : i # Len(r.unacked_list) + 1 => i \in DOMAIN r.unacked_list
    BY <2>1
  <2> HIDE DEF list
  <2> QED BY <1>1, <2>1, <2>2, <2>3
<1> DEFINE later == [r EXCEPT !.unacked_list = list]
           next == [r EXCEPT !.last_recv = Add(q, PLEN)]
<1>5. /\ DOMAIN later = DOMAIN r /\ later.open = r.open /\ later.last_recv = r.last_recv /\ later.unacked_list = list
      /\ DOMAIN next = DOMAIN r /\ next.open = r.open /\ next.last_recv = Add(q, PLEN)
      /\ next.unacked_list = r.unacked_list
  BY <1>1
<1>6. GoesOn(segs, r, later)
  <2> HIDE DEF later, list
  <2> QED BY <1>1, <1>3, <1>4, <1>5 DEF GoesOn, ReceiverTyped
<1>7. batadv_seq_before(r.last_recv, Add(q, PLEN)) => GoesOn(segs, r, next)
  <2>1. batadv_seq_before(r.last_recv, Add(q, PLEN)) <=> Offset(r.last_recv) < Offset(Add(q, PLEN))
    BY <1>1, <1>2, BeforeIs
  <2> HIDE DEF next
  <2> QED BY <1>1, <1>2, <1>3, <1>5, <2>1 DEF GoesOn, ReceiverTyped
<1>8. GoesOn(segs, r, r)
  BY <1>1, <1>3 DEF GoesOn, ReceiverTyped
<1>9. TakenOff(r, q) \in {later, next, r} /\ (TakenOff(r, q) = next => next = r \/ batadv_seq_before(r.last_recv, Add(q, PLEN)) \/ next = later)
  BY DEF TakenOff
<1> HIDE DEF later, next
<1> QED BY <1>6, <1>7, <1>8, <1>9

\* One segment of the list after the other is looked at, in a fold over their places.
Rightmost(T) == CHOOSE x \in T : \A y \in T : x >= y

FoldedBy(g, r, list) ==
  g = [T \in SUBSET DOMAIN list |-> IF T = {} THEN r ELSE TakenOff(g[T \ {Rightmost(T)}], list[Rightmost(T)])]

LEMMA LastPlace ==
  ASSUME NEW n \in Nat, NEW T \in SUBSET (1..n), T # {}
  PROVE  /\ Rightmost(T) \in T /\ T \ {Rightmost(T)} \in SUBSET (1..n)
         /\ IsFiniteSet(T) /\ Cardinality(T) \in Nat \ {0} /\ Cardinality(T \ {Rightmost(T)}) = Cardinality(T) - 1
<1>1. Rightmost(T) \in T
  <2>1. T \in SUBSET (0..n)
    OBVIOUS
  <2>2. PICK m \in T : \A x \in T : x <= m
    BY <2>1, GreatestNumber
  <2>3. \A x \in T : m \in Int /\ x \in Int
    OBVIOUS
  <2>4. \E m1 \in T : \A x \in T : m1 >= x
    BY <2>2, <2>3
  <2> QED BY <2>4 DEF Rightmost
<1>2. IsFiniteSet(T)
  <2>1. IsFiniteSet(1..n)
    BY FS_Interval
  <2> QED BY <2>1, FS_Subset
<1>3. Cardinality(T) \in Nat /\ Cardinality(T) # 0
  BY <1>2, FS_CardinalityType, FS_EmptySet
<1>4. Cardinality(T \ {Rightmost(T)}) = Cardinality(T) - 1
  BY <1>1, <1>2, FS_RemoveElement
<1> QED BY <1>1, <1>2, <1>3, <1>4

LEMMA TakingExists ==
  ASSUME NEW r, NEW n \in Nat, NEW list, DOMAIN list = 1..n
  PROVE  \E g : FoldedBy(g, r, list)
<1> DEFINE All == SUBSET (1..n)
           D(k) == {T \in All : Cardinality(T) <= k}
           Step(g, T) == IF T = {} THEN r ELSE TakenOff(g[T \ {Rightmost(T)}], list[Rightmost(T)])
           K == {k \in 0..n : \E g : DOMAIN g = D(k) /\ \A T \in D(k) : g[T] = Step(g, T)}
<1>1. IsFiniteSet(1..n) /\ Cardinality(1..n) = n
  BY FS_Interval
<1>2. \A T \in All : IsFiniteSet(T) /\ Cardinality(T) \in Nat /\ Cardinality(T) <= n
  BY <1>1, FS_Subset, FS_CardinalityType
<1>3. \A T \in All : T # {} => T \ {Rightmost(T)} \in All /\ Cardinality(T \ {Rightmost(T)}) = Cardinality(T) - 1
  BY LastPlace
<1>4. 0 \in K
  <2> DEFINE g == [T \in D(0) |-> r]
  <2>1. \A T \in D(0) : T = {}
    BY <1>2, FS_EmptySet
  <2>2. DOMAIN g = D(0) /\ \A T \in D(0) : g[T] = Step(g, T)
    BY <2>1
  <2> HIDE DEF g, D, Step
  <2> QED BY <2>2
<1>5. ASSUME NEW k \in 0..(n - 1), k \in K PROVE k + 1 \in K
  <2>1. k \in Nat /\ k + 1 \in 0..n
    OBVIOUS
  <2>2. PICK g : DOMAIN g = D(k) /\ \A T \in D(k) : g[T] = Step(g, T)
    BY <1>5
  <2> DEFINE h == [T \in D(k + 1) |-> Step(g, T)]
  <2>3. ASSUME NEW T \in D(k + 1) PROVE h[T] = Step(h, T)
    <3>1. CASE T = {}
      BY <3>1
    <3>2. CASE T # {}
      <4> DEFINE U == T \ {Rightmost(T)}
      <4>1. U \in D(k) /\ U \in D(k + 1)
        <5>1. T \in All /\ Cardinality(T) <= k + 1 /\ Cardinality(T) \in Nat
          BY <1>2
        <5>2. U \in All /\ Cardinality(U) = Cardinality(T) - 1
          BY <1>3, <3>2, <5>1
        <5>3. Cardinality(U) <= k /\ Cardinality(U) <= k + 1
          BY <2>1, <5>1, <5>2
        <5> QED BY <5>2, <5>3
      <4>2. g[U] = Step(g, U) /\ h[U] = Step(g, U)
        BY <2>2, <4>1
      <4>3. h[T] = TakenOff(g[U], list[Rightmost(T)]) /\ Step(h, T) = TakenOff(h[U], list[Rightmost(T)])
        BY <3>2
      <4> HIDE DEF h, Step, U
      <4> QED BY <4>2, <4>3
    <3> QED BY <3>1, <3>2
  <2>4. DOMAIN h = D(k + 1)
    OBVIOUS
  <2> HIDE DEF h, D, Step
  <2> QED BY <2>1, <2>3, <2>4
<1>6. n \in K
  <2> HIDE DEF K
  <2> QED BY <1>4, <1>5, UpTo
<1>7. D(n) = All
  BY <1>2
<1>8. PICK g : DOMAIN g = All /\ \A T \in All : g[T] = Step(g, T)
  BY <1>6, <1>7
<1> DEFINE h == [T \in All |-> g[T]]
<1>9. \A T \in All : T \ {Rightmost(T)} \in All
  OBVIOUS
<1>10. \A T \in All : Step(h, T) = Step(g, T)
  BY <1>9
<1>11. h = [T \in All |-> Step(h, T)]
  BY <1>8, <1>10
<1> HIDE DEF h
<1> QED BY <1>11 DEF FoldedBy

LEMMA TakingGoesOn ==
  ASSUME NEW segs \in TestLength, NEW r, ReceiverTyped(segs, r), NEW n \in Nat, NEW list, DOMAIN list = 1..n,
         \A i \in DOMAIN list : Segment(segs, list[i]), NEW g, FoldedBy(g, r, list)
  PROVE  GoesOn(segs, r, g[DOMAIN list])
<1> DEFINE All == SUBSET (1..n)
           K == {k \in 0..n : \A T \in All : Cardinality(T) = k => GoesOn(segs, r, g[T])}
<1>1. IsFiniteSet(1..n) /\ Cardinality(1..n) = n
  BY FS_Interval
<1>2. \A T \in All : IsFiniteSet(T) /\ Cardinality(T) \in Nat
  BY <1>1, FS_Subset, FS_CardinalityType
<1>3. \A T \in All : g[T] = IF T = {} THEN r ELSE TakenOff(g[T \ {Rightmost(T)}], list[Rightmost(T)])
  BY DEF FoldedBy
<1>4. 0 \in K
  <2>1. \A T \in All : Cardinality(T) = 0 => T = {}
    BY <1>2, FS_EmptySet
  <2>2. GoesOn(segs, r, r)
    <3>1. OfTest(segs, r.last_recv)
      BY DEF ReceiverTyped
    <3>2. Offset(r.last_recv) \in Nat
      BY <3>1, OfTestType
    <3> QED BY <3>2 DEF GoesOn
  <2>3. ASSUME NEW T \in All, Cardinality(T) = 0 PROVE GoesOn(segs, r, g[T])
    <3>1. T = {}
      BY <2>1, <2>3
    <3>2. g[T] = r
      BY <1>3, <3>1
    <3> QED BY <2>2, <3>2
  <2>4. 0 \in 0..n
    OBVIOUS
  <2> QED BY <2>3, <2>4
<1>5. ASSUME NEW k \in 0..(n - 1), k \in K PROVE k + 1 \in K
  <2> SUFFICES ASSUME NEW T \in All, Cardinality(T) = k + 1 PROVE GoesOn(segs, r, g[T])
    OBVIOUS
  <2>1. T # {}
    <3>1. Cardinality({}) = 0
      BY FS_EmptySet
    <3>2. k \in Nat /\ Cardinality(T) = k + 1
      OBVIOUS
    <3>3. k + 1 # 0
      BY <3>2
    <3> QED BY Zenon, <3>1, <3>2, <3>3
  <2>2. Rightmost(T) \in T /\ T \ {Rightmost(T)} \in All /\ Cardinality(T \ {Rightmost(T)}) = k
    <3>1. Rightmost(T) \in T /\ T \ {Rightmost(T)} \in SUBSET (1..n) /\ Cardinality(T \ {Rightmost(T)}) = Cardinality(T) - 1
      BY <2>1, LastPlace
    <3> QED BY <3>1
  <2>3. GoesOn(segs, r, g[T \ {Rightmost(T)}])
    BY <1>5, <2>2
  <2>4. Segment(segs, list[Rightmost(T)])
    BY <2>2
  <2> DEFINE u == g[T \ {Rightmost(T)}]
  <2>5. GoesOn(segs, u, TakenOff(u, list[Rightmost(T)]))
    <3>1. ReceiverTyped(segs, u)
      BY <2>3 DEF GoesOn
    <3> HIDE DEF u
    <3> QED BY <2>4, <3>1, TakenOffGoesOn
  <2>6. g[T] = TakenOff(u, list[Rightmost(T)])
    BY <1>3, <2>1
  <2>7. GoesOn(segs, r, u)
    BY <2>3
  <2> HIDE DEF u
  <2>8. ReceiverTyped(segs, u)
    BY <2>7 DEF GoesOn
  <2> QED BY <2>5, <2>6, <2>7, <2>8, GoesOnFurther
<1>6. n \in K
  <2> HIDE DEF K
  <2> QED BY <1>4, <1>5, UpTo
<1> QED BY <1>1, <1>6

LEMMA UnorderedGoesOn ==
  ASSUME NEW segs \in TestLength, NEW r, ReceiverTyped(segs, r)
  PROVE  GoesOn(segs, r, batadv_tp_ack_unordered(r))
<1> DEFINE list == r.unacked_list
           s == [r EXCEPT !.unacked_list = <<>>]
           Def(g) == [T \in SUBSET DOMAIN list |->
             IF T = {} THEN s ELSE TakenOff(g[T \ {Max(T)}], list[Max(T)])]
           iter == CHOOSE g : g = Def(g)
<1>1. list \in Seq(SeqNo) /\ (\A i \in DOMAIN list : Segment(segs, list[i])) /\ DOMAIN list = 1..Len(list) /\ Len(list) \in Nat
  BY DEF ReceiverTyped
<1>2. batadv_tp_ack_unordered(r) = iter[DOMAIN list]
  BY DEF batadv_tp_ack_unordered, FoldLeft, MapThenFoldSet
<1>3. \A g : FoldedBy(g, s, list) <=> g = Def(g)
  BY DEF FoldedBy, Rightmost, Max
<1>4. \E g : FoldedBy(g, s, list)
  <2> HIDE DEF s, list
  <2> QED BY <1>1, TakingExists
<1>5. iter = Def(iter)
  <2> HIDE DEF Def
  <2> QED BY <1>3, <1>4
<1>6. FoldedBy(iter, s, list)
  <2> HIDE DEF Def, iter
  <2> QED BY <1>3, <1>5
<1>7. GoesOn(segs, r, s)
  <2>1. /\ DOMAIN r = {"open", "last_recv", "unacked_list"} /\ r.open \in BOOLEAN /\ OfTest(segs, r.last_recv)
    BY DEF ReceiverTyped
  <2>2. DOMAIN s = DOMAIN r /\ s.open = r.open /\ s.last_recv = r.last_recv /\ s.unacked_list = <<>>
    BY <2>1
  <2>3. <<>> \in Seq(SeqNo) /\ DOMAIN <<>> = {}
    OBVIOUS
  <2>4. Offset(r.last_recv) \in Nat
    BY <2>1, OfTestType
  <2> HIDE DEF s
  <2> QED BY <2>1, <2>2, <2>3, <2>4 DEF GoesOn, ReceiverTyped
<1> HIDE DEF s, list, iter
<1>8. GoesOn(segs, s, iter[DOMAIN list])
  <2>1. ReceiverTyped(segs, s)
    BY <1>7 DEF GoesOn
  <2> QED BY <1>1, <1>6, <2>1, TakingGoesOn
<1>9. ReceiverTyped(segs, s)
  BY <1>7 DEF GoesOn
<1>10. GoesOn(segs, r, iter[DOMAIN list])
  BY <1>7, <1>8, <1>9, GoesOnFurther
<1> QED BY <1>2, <1>10

\* A segment is received: what is acknowledged never goes back, and it goes on where the segment
\* was the one that was missing.
LEMMA ReceivedGoesOn ==
  ASSUME NEW segs \in TestLength, NEW r, ReceiverTyped(segs, r), NEW q, Segment(segs, q)
  PROVE  /\ GoesOn(segs, r, Received(r, q))
         /\ q = r.last_recv => Offset(Received(r, q).last_recv) > Offset(q)
<1>1. /\ DOMAIN r = {"open", "last_recv", "unacked_list"} /\ r.open \in BOOLEAN /\ OfTest(segs, r.last_recv)
      /\ r.unacked_list \in Seq(SeqNo) /\ \A i \in DOMAIN r.unacked_list : Segment(segs, r.unacked_list[i])
  BY DEF ReceiverTyped
<1>2. OfTest(segs, q) /\ OfTest(segs, Add(q, PLEN)) /\ Offset(Add(q, PLEN)) = Offset(q) + PLEN
  BY NextSegment
<1>3. Offset(r.last_recv) \in Nat /\ Offset(q) \in Nat /\ PLEN \in Nat \ {0}
  BY <1>1, <1>2, OfTestType, TpConstants
<1>4. GoesOn(segs, r, r)
  BY <1>3 DEF GoesOn
<1>5. CASE batadv_seq_before(q, r.last_recv)
  <2>1. Offset(q) < Offset(r.last_recv)
    BY <1>1, <1>2, <1>5, BeforeIs
  <2>2. Received(r, q) = r
    BY <1>5 DEF Received
  <2> QED BY <1>3, <1>4, <2>1, <2>2
<1>6. CASE ~batadv_seq_before(q, r.last_recv) /\ q # r.last_recv
  <2> DEFINE l == batadv_tp_handle_out_of_order(r.unacked_list, q)
             u == [r EXCEPT !.unacked_list = l]
  <2>1. Received(r, q) = u
    BY <1>6 DEF Received
  <2>2. l \in Seq(SeqNo) /\ \A i \in DOMAIN l : Segment(segs, l[i])
    BY <1>1, ListTakes
  <2> HIDE DEF l
  <2>3. DOMAIN u = DOMAIN r /\ u.open = r.open /\ u.last_recv = r.last_recv /\ u.unacked_list = l
    BY <1>1
  <2> HIDE DEF u
  <2>4. GoesOn(segs, r, u)
    BY <1>1, <1>3, <2>2, <2>3 DEF GoesOn, ReceiverTyped
  <2> QED BY <1>6, <2>1, <2>4
<1>7. CASE ~batadv_seq_before(q, r.last_recv) /\ q = r.last_recv
  <2> DEFINE s == [r EXCEPT !.last_recv = Add(r.last_recv, PLEN)]
  <2>1. Received(r, q) = batadv_tp_ack_unordered(s)
    BY <1>7 DEF Received
  <2>2. DOMAIN s = DOMAIN r /\ s.open = r.open /\ s.last_recv = Add(q, PLEN) /\ s.unacked_list = r.unacked_list
    BY <1>1, <1>7
  <2> HIDE DEF s
  <2>3. ReceiverTyped(segs, s)
    BY <1>1, <1>2, <2>2 DEF ReceiverTyped
  <2>4. GoesOn(segs, s, batadv_tp_ack_unordered(s))
    BY <2>3, UnorderedGoesOn
  <2>5. GoesOn(segs, r, s)
    BY <1>2, <1>3, <1>7, <2>2, <2>3 DEF GoesOn
  <2>6. GoesOn(segs, r, batadv_tp_ack_unordered(s))
    BY <2>3, <2>4, <2>5, GoesOnFurther
  <2>7. OfTest(segs, batadv_tp_ack_unordered(s).last_recv)
    BY <2>6 DEF GoesOn, ReceiverTyped
  <2>8. Offset(batadv_tp_ack_unordered(s).last_recv) \in Nat
    BY <2>7, OfTestType
  <2>9. Offset(batadv_tp_ack_unordered(s).last_recv) > Offset(q)
    BY <1>2, <1>3, <2>2, <2>4, <2>8 DEF GoesOn
  <2> QED BY <2>1, <2>6, <2>9
<1> QED BY <1>5, <1>6, <1>7

-----------------------------------------------------------------------------
(* Steps of a test. *)

\* The bounds that are left.
LeftKept ==
  /\ tp_left' \in [TpBounds -> Nat] /\ tp_left'.segments = tp_left.segments
  /\ tp_left'.early <= tp_left.early /\ tp_left'.idle <= tp_left.idle /\ tp_left'.tests <= tp_left.tests

LEMMA LeftUnchanged ==
  ASSUME BoundsKept, UNCHANGED tp_left
  PROVE  LeftKept
BY DEF BoundsKept, LeftKept, TpBounds

LEMMA LeftCharged ==
  ASSUME BoundsKept, NEW what \in TpBounds \ {"segments"}, Charge(what)
  PROVE  LeftKept /\ tp_left[what] \in Nat \ {0} /\ tp_left'[what] = tp_left[what] - 1
<1>1. tp_left \in [TpBounds -> Nat] /\ tp_left[what] > 0 /\ tp_left' = [tp_left EXCEPT ![what] = @ - 1]
  BY DEF BoundsKept, Charge
<1>2. tp_left[what] \in Nat \ {0}
  BY <1>1
<1>3. tp_left' \in [TpBounds -> Nat] /\ tp_left'[what] = tp_left[what] - 1
  BY <1>1, <1>2
<1>4. \A b \in TpBounds : tp_left'[b] <= tp_left[b] /\ (b # what => tp_left'[b] = tp_left[b])
  BY <1>1, <1>2
<1>5. {"segments", "early", "idle", "tests"} \subseteq TpBounds
  BY DEF TpBounds
<1> QED BY <1>2, <1>3, <1>4, <1>5 DEF LeftKept

LEMMA BoundsStay ==
  ASSUME BoundsKept, LeftKept, tp'.session = tp.session, tp.session \in Nat
  PROVE  BoundsKept'
<1>1. tp_left'.tests \in Nat /\ tp_left.tests \in Nat /\ tp_left'.tests <= tp_left.tests
  BY DEF BoundsKept, LeftKept, TpBounds
<1>2. 1..(tp.session + tp_left'.tests) \subseteq 1..(tp.session + tp_left.tests)
  BY <1>1
<1> QED BY <1>2 DEF BoundsKept, LeftKept, TestLength

\* Packets are taken from the mesh.
LEMMA RestOf ==
  ASSUME NEW P, NEW seq \in Seq(P), NEW k \in 1..(Len(seq) + 1)
  PROVE  LET z == SubSeq(seq, k, Len(seq))
         IN z \in Seq(P) /\ Len(z) = Len(seq) - k + 1 /\ \A i \in 1..(Len(seq) - k + 1) : z[i] = seq[k + i - 1]
OBVIOUS

LEMMA FewerPackets ==
  ASSUME NEW P, NEW seq \in Seq(P)
  PROVE  /\ \A i \in DOMAIN seq : RemoveAt(seq, i) \in Seq(P) /\ ToSet(RemoveAt(seq, i)) \subseteq ToSet(seq)
                                  /\ seq[i] \in ToSet(seq) /\ seq[i] \in P
         /\ seq # <<>> => /\ Tail(seq) \in Seq(P) /\ ToSet(Tail(seq)) \subseteq ToSet(seq)
                          /\ Head(seq) \in ToSet(seq) /\ Head(seq) \in P
         /\ \A e \in P : Append(seq, e) \in Seq(P) /\ ToSet(Append(seq, e)) = ToSet(seq) \cup {e}
<1>1. Len(seq) \in Nat /\ DOMAIN seq = 1..Len(seq)
  OBVIOUS
<1>2. ASSUME NEW i \in 1..Len(seq)
      PROVE  RemoveAt(seq, i) \in Seq(P) /\ ToSet(RemoveAt(seq, i)) \subseteq ToSet(seq)
  <2> DEFINE x == SubSeq(seq, 1, i - 1)
             y == SubSeq(seq, i + 1, Len(seq))
  <2> i - 1 \in 0..Len(seq) /\ i + 1 \in 1..(Len(seq) + 1)
    BY <1>1
  <2>1. x \in Seq(P) /\ Len(x) = i - 1 /\ \A j \in 1..(i - 1) : x[j] = seq[j]
    <3>1. x \in Seq(P)
      BY <1>1
    <3>2. Len(x) = i - 1
      BY <1>1
    <3>3. \A j \in 1..(i - 1) : x[j] = seq[j]
      BY <1>1
    <3> QED BY <3>1, <3>2, <3>3
  <2>2. y \in Seq(P) /\ Len(y) = Len(seq) - i /\ \A j \in 1..(Len(seq) - i) : y[j] = seq[i + j]
    <3> DEFINE k == i + 1
    <3> HIDE DEF y
    <3>1. k \in 1..(Len(seq) + 1) /\ y = SubSeq(seq, k, Len(seq))
      BY DEF y
    <3> HIDE DEF k
    <3>2. y \in Seq(P) /\ Len(y) = Len(seq) - k + 1 /\ \A j \in 1..(Len(seq) - k + 1) : y[j] = seq[k + j - 1]
      BY <3>1, RestOf
    <3>3. Len(seq) - k + 1 = Len(seq) - i /\ \A j \in 1..(Len(seq) - i) : k + j - 1 = i + j
      BY <1>1 DEF k
    <3> QED BY <3>2, <3>3
  <2>3. RemoveAt(seq, i) = x \o y
    BY DEF RemoveAt
  <2> HIDE DEF x, y
  <2> DEFINE r == x \o y
  <2>4. r \in Seq(P) /\ DOMAIN r = 1..(Len(seq) - 1)
    <3>1. r \in Seq(P)
      BY <2>1, <2>2
    <3>2. Len(r) = Len(x) + Len(y)
      <4>1. x \in Seq(P) /\ y \in Seq(P)
        BY <2>1, <2>2
      <4> QED BY <4>1
    <3>3. Len(r) = Len(seq) - 1
      BY <1>1, <2>1, <2>2, <3>2
    <3> QED BY <3>1, <3>3
  <2>5. \A j \in 1..(Len(seq) - 1) : r[j] = IF j < i THEN x[j] ELSE y[j - i + 1]
    BY <1>1, <2>1, <2>2
  <2> HIDE DEF r
  <2>6. ASSUME NEW j \in 1..(Len(seq) - 1) PROVE \E k \in 1..Len(seq) : r[j] = seq[k]
    <3>1. CASE j < i
      <4>1. j \in 1..(i - 1) /\ j \in 1..Len(seq)
        BY <1>1, <3>1
      <4> QED BY <2>1, <2>5, <3>1, <4>1
    <3>2. CASE ~(j < i)
      <4>1. j - i + 1 \in 1..(Len(seq) - i) /\ j + 1 \in 1..Len(seq) /\ i + (j - i + 1) = j + 1
        BY <1>1, <3>2
      <4> QED BY <2>2, <2>5, <3>2, <4>1
    <3> QED BY <3>1, <3>2
  <2>7. ToSet(r) \subseteq ToSet(seq)
    BY <1>1, <2>4, <2>6 DEF ToSet
  <2> QED BY <2>3, <2>4, <2>7 DEF r
<1>3. ASSUME seq # <<>>
      PROVE  /\ Tail(seq) \in Seq(P) /\ ToSet(Tail(seq)) \subseteq ToSet(seq)
             /\ Head(seq) \in ToSet(seq) /\ Head(seq) \in P
  <2>1. Tail(seq) \in Seq(P) /\ DOMAIN Tail(seq) = 1..(Len(seq) - 1) /\ Len(seq) # 0
    BY <1>3
  <2>2. \A i \in 1..(Len(seq) - 1) : Tail(seq)[i] = seq[i + 1] /\ i + 1 \in 1..Len(seq)
    BY <1>1, <1>3
  <2>3. Head(seq) = seq[1] /\ 1 \in 1..Len(seq)
    BY <1>1, <1>3, <2>1
  <2> QED BY <1>1, <2>1, <2>2, <2>3 DEF ToSet
<1>4. ASSUME NEW e \in P PROVE Append(seq, e) \in Seq(P) /\ ToSet(Append(seq, e)) = ToSet(seq) \cup {e}
  <2> DEFINE a == Append(seq, e)
  <2>1. a \in Seq(P) /\ DOMAIN a = 1..(Len(seq) + 1)
    OBVIOUS
  <2>2. \A i \in 1..(Len(seq) + 1) : a[i] = IF i = Len(seq) + 1 THEN e ELSE seq[i]
    OBVIOUS
  <2>3. \A i \in 1..(Len(seq) + 1) : i # Len(seq) + 1 => i \in 1..Len(seq)
    BY <1>1
  <2>4. Len(seq) + 1 \in 1..(Len(seq) + 1) /\ 1..Len(seq) \subseteq 1..(Len(seq) + 1) /\ Len(seq) + 1 \notin 1..Len(seq)
    BY <1>1
  <2> HIDE DEF a
  <2>5. ToSet(a) \subseteq ToSet(seq) \cup {e}
    BY <1>1, <2>1, <2>2, <2>3 DEF ToSet
  <2>6. e \in ToSet(a) /\ ToSet(seq) \subseteq ToSet(a)
    BY <1>1, <2>1, <2>2, <2>4 DEF ToSet
  <2> QED BY <2>1, <2>5, <2>6 DEF a
<1>5. \A i \in DOMAIN seq : seq[i] \in ToSet(seq) /\ seq[i] \in P
  BY DEF ToSet
<1> QED BY <1>1, <1>2, <1>3, <1>4, <1>5

\* What the sender may do: its own numbers move, it sends segments, and acknowledgements are
\* used up, while the receiver stays as it is.
LEMMA SenderMoves ==
  ASSUME TpInv, LeftKept, rx' = rx, tp_mesh'.receiver = tp_mesh.receiver, DOMAIN tp_mesh' = DOMAIN tp_mesh,
         DOMAIN tp' = TpFields, tp'.session = tp.session, tp'.pc = "gone" \/ tp'.session # 0,
         OfTest(tp_left.segments, tp'.last_sent), OfTest(tp_left.segments, tp'.last_acked),
         tp'.tot_sent = Offset(tp'.last_acked),
         notified'.reason = "COMPLETE" => notified'.bytes % PLEN = 0,
         acks' \in Seq(AckPacket), ToSet(acks') \subseteq ToSet(acks),
         data' \in Seq(DataPacket),
         \A m \in ToSet(data') : m.session <= tp.session /\ Segment(tp_left.segments, m.seqno),
         Opened => tp'.tot_sent <= Offset(Receiver.last_recv),
         NothingAcked => tp'.tot_sent = tp.tot_sent,
         NeverEarly => /\ tp'.last_sent = FIRST_SEQ => (NothingAcked /\ NothingSent)'
                       /\ FirstSent' => FirstSent \/ NothingAcked
  PROVE  TpInv'
<1>1. BoundsKept'
  BY BoundsStay DEF TpInv, SenderTyped
<1>2. SenderTyped'
  BY DEF TpInv, SenderTyped, LeftKept
<1>3. ReceiversTyped'
  BY DEF TpInv, ReceiversTyped, LeftKept
<1>4. PacketsTyped'
  BY DEF TpInv, PacketsTyped, LeftKept
<1>5. (Opened' <=> Opened) /\ (Unopened' <=> Unopened) /\ Receiver' = Receiver
  BY DEF Opened, Unopened, ReceiverActive, Receiver
<1>11. MeshTyped'
  BY DEF TpInv, MeshTyped
<1>6. AcksWereReceived'
  BY <1>5 DEF TpInv, AcksWereReceived
<1>7. NothingAcked => NothingAcked'
  BY DEF NothingAcked
<1>8. /\ tp_left'.early \in Nat /\ tp_left'.idle \in Nat /\ tp_left'.early <= tp_left.early
      /\ tp_left'.idle <= tp_left.idle
  BY DEF LeftKept, TpBounds
<1>9. NeverIdle => NeverIdle'
  BY <1>5, <1>7, <1>8 DEF NeverIdle
<1>10. NeverEarly => NeverEarly'
  BY <1>5, <1>7, <1>8 DEF NeverEarly
<1> QED BY <1>1, <1>2, <1>3, <1>4, <1>6, <1>9, <1>10, <1>11 DEF TpInv

\* Nothing but the sender's state of its thread, its windows and its timers changes, and packets
\* are lost.
LEMMA NothingMoves ==
  ASSUME TpInv, LeftKept, rx' = rx, tp_mesh'.receiver = tp_mesh.receiver, DOMAIN tp_mesh' = DOMAIN tp_mesh,
         DOMAIN tp' = TpFields, tp'.session = tp.session, tp'.pc = "gone" \/ tp'.session # 0,
         tp'.last_sent = tp.last_sent, tp'.last_acked = tp.last_acked, tp'.tot_sent = tp.tot_sent,
         notified'.reason = "COMPLETE" => notified'.bytes % PLEN = 0,
         acks' \in Seq(AckPacket), ToSet(acks') \subseteq ToSet(acks),
         data' \in Seq(DataPacket), ToSet(data') \subseteq ToSet(data)
  PROVE  TpInv'
<1>1. /\ OfTest(tp_left.segments, tp.last_sent) /\ OfTest(tp_left.segments, tp.last_acked)
      /\ tp.tot_sent = Offset(tp.last_acked)
  BY DEF TpInv, SenderTyped
<1>2. \A m \in ToSet(data') : m.session <= tp.session /\ Segment(tp_left.segments, m.seqno)
  BY DEF TpInv, PacketsTyped
<1>3. Opened => tp'.tot_sent <= Offset(Receiver.last_recv)
  BY DEF TpInv, AcksWereReceived
<1>4. NothingAcked => NothingAcked'
  BY DEF NothingAcked
<1>5. NothingSent => NothingSent'
  BY DEF NothingSent
<1>6. FirstSent' => FirstSent
  BY DEF FirstSent
<1>7. NeverEarly => /\ tp'.last_sent = FIRST_SEQ => (NothingAcked /\ NothingSent)'
                    /\ FirstSent' => FirstSent \/ NothingAcked
  BY <1>4, <1>5, <1>6 DEF NeverEarly
<1> QED BY <1>1, <1>2, <1>3, <1>7, SenderMoves

\* The numbers of the test stay what they are.
SameNumbers(t, u) ==
  /\ DOMAIN u = TpFields /\ u.session = t.session
  /\ u.last_sent = t.last_sent /\ u.last_acked = t.last_acked /\ u.tot_sent = t.tot_sent

LEMMA TpFieldsAre ==
  TpFields = {"session", "pc", "listed", "sending", "reason", "last_sent", "last_acked", "recover",
              "fast_recovery", "cwnd", "dec_cwnd", "ss_threshold", "dup_acks", "rto", "tot_sent",
              "timer", "finish_work"}
BY DEF TpFields, NoTest

LEMMA NumbersKept ==
  ASSUME NEW t, DOMAIN t = TpFields
  PROVE  /\ SameNumbers(t, batadv_tp_sender_cleanup(t)) /\ batadv_tp_sender_cleanup(t).pc = "gone"
         /\ SameNumbers(t, batadv_tp_reset_sender_timer(t)) /\ batadv_tp_reset_sender_timer(t).pc = t.pc
         /\ \A reason : /\ SameNumbers(t, batadv_tp_sender_shutdown(t, reason))
                        /\ batadv_tp_sender_shutdown(t, reason).pc = t.pc
<1>1. SameNumbers(t, batadv_tp_sender_cleanup(t)) /\ batadv_tp_sender_cleanup(t).pc = "gone"
  BY TpFieldsAre DEF SameNumbers, batadv_tp_sender_cleanup
<1>2. SameNumbers(t, batadv_tp_reset_sender_timer(t)) /\ batadv_tp_reset_sender_timer(t).pc = t.pc
  BY TpFieldsAre DEF SameNumbers, batadv_tp_reset_sender_timer
<1>3. ASSUME NEW reason
      PROVE  /\ SameNumbers(t, batadv_tp_sender_shutdown(t, reason))
             /\ batadv_tp_sender_shutdown(t, reason).pc = t.pc
  BY TpFieldsAre DEF SameNumbers, batadv_tp_sender_shutdown
<1> QED BY <1>1, <1>2, <1>3

\* What the user is told of.
LEMMA UserTold ==
  ASSUME TpInv, NEW reason, batadv_tp_batctl_notify(reason, tp.tot_sent) \/ batadv_tp_batctl_notify(reason, 0)
  PROVE  notified'.reason = "COMPLETE" => notified'.bytes % PLEN = 0
<1>1. tp.tot_sent % PLEN = 0
  <2>1. OfTest(tp_left.segments, tp.last_acked) /\ tp.tot_sent = Offset(tp.last_acked)
    BY DEF TpInv, SenderTyped
  <2>2. tp_left.segments \in TestLength
    BY DEF TpInv, BoundsKept
  <2> QED BY <2>1, <2>2, OfTestType
<1>2. 0 % PLEN = 0
  BY TpConstants
<1>3. notified'.bytes \in {tp.tot_sent, 0}
  BY DEF batadv_tp_batctl_notify
<1> QED BY <1>1, <1>2, <1>3

LEMMA UserNotTold ==
  ASSUME TpInv, UNCHANGED notified
  PROVE  notified'.reason = "COMPLETE" => notified'.bytes % PLEN = 0
BY DEF TpInv, SenderTyped

\* Steps of the thread and of those who end the test.
LEMMA ThreadKeeps ==
  ASSUME TpInv, LeftKept, SameNumbers(tp, tp'), tp'.pc = "gone" \/ tp.pc # "gone",
         notified'.reason = "COMPLETE" => notified'.bytes % PLEN = 0,
         UNCHANGED <<rx, data, acks>>, tp_mesh'.receiver = tp_mesh.receiver, DOMAIN tp_mesh' = DOMAIN tp_mesh
  PROVE  TpInv'
<1>1. tp'.pc = "gone" \/ tp'.session # 0
  BY DEF TpInv, SenderTyped, SameNumbers
<1>2. /\ acks' \in Seq(AckPacket) /\ ToSet(acks') \subseteq ToSet(acks)
      /\ data' \in Seq(DataPacket) /\ ToSet(data') \subseteq ToSet(data)
  BY DEF TpInv, PacketsTyped
<1> QED BY <1>1, <1>2, NothingMoves DEF SameNumbers

LEMMA TpNotStarted ==
  TpInv /\ (batadv_tp_start_kthread \/ SendFails) => TpInv'
<1> SUFFICES ASSUME TpInv, batadv_tp_start_kthread \/ SendFails PROVE TpInv'
  OBVIOUS
<1>1. BoundsKept /\ DOMAIN tp = TpFields
  BY DEF TpInv, SenderTyped
<1>2. Charge("failures") /\ tp' = batadv_tp_sender_cleanup(tp) /\ UNCHANGED <<rx, data, acks, tp_mesh>>
  BY DEF batadv_tp_start_kthread, SendFails
<1>3. LeftKept
  <2>1. "failures" \in TpBounds \ {"segments"}
    BY DEF TpBounds
  <2> QED BY <1>1, <1>2, <2>1, LeftCharged
<1>4. SameNumbers(tp, tp') /\ tp'.pc = "gone"
  BY <1>1, <1>2, NumbersKept
<1>5. notified'.reason = "COMPLETE" => notified'.bytes % PLEN = 0
  BY UserTold DEF batadv_tp_start_kthread, SendFails
<1> QED BY <1>2, <1>3, <1>4, <1>5, ThreadKeeps

LEMMA TpSendBegins ==
  TpInv /\ SendBegins => TpInv'
<1> SUFFICES ASSUME TpInv, SendBegins PROVE TpInv'
  OBVIOUS
<1>1. BoundsKept /\ DOMAIN tp = TpFields
  BY DEF TpInv, SenderTyped
<1>2. /\ tp.pc = "start" /\ tp' = [batadv_tp_reset_sender_timer(tp) EXCEPT !.pc = "loop", !.finish_work = TRUE]
      /\ UNCHANGED <<rx, data, acks, tp_mesh, notified, tp_left>>
  BY DEF SendBegins
<1>3. LeftKept
  BY <1>1, <1>2, LeftUnchanged
<1>4. SameNumbers(tp, tp')
  <2> DEFINE t == batadv_tp_reset_sender_timer(tp)
  <2>1. SameNumbers(tp, t)
    BY <1>1, NumbersKept
  <2> HIDE DEF t
  <2>2. tp' = [t EXCEPT !.pc = "loop", !.finish_work = TRUE]
    BY <1>2 DEF t
  <2> QED BY <2>1, <2>2, TpFieldsAre DEF SameNumbers
<1>5. notified'.reason = "COMPLETE" => notified'.bytes % PLEN = 0
  BY <1>2, UserNotTold
<1> QED BY <1>2, <1>3, <1>4, <1>5, ThreadKeeps

LEMMA TpSenderEnds ==
  TpInv /\ batadv_tp_sender_end => TpInv'
<1> SUFFICES ASSUME TpInv, batadv_tp_sender_end PROVE TpInv'
  OBVIOUS
<1>1. BoundsKept /\ DOMAIN tp = TpFields
  BY DEF TpInv, SenderTyped
<1>2. /\ tp' = batadv_tp_sender_cleanup(tp) /\ UNCHANGED <<rx, data, acks, tp_mesh, tp_left>>
      /\ batadv_tp_batctl_notify(tp.reason, tp.tot_sent)
  BY DEF batadv_tp_sender_end
<1>3. LeftKept
  BY <1>1, <1>2, LeftUnchanged
<1>4. SameNumbers(tp, tp') /\ tp'.pc = "gone"
  BY <1>1, <1>2, NumbersKept
<1>5. notified'.reason = "COMPLETE" => notified'.bytes % PLEN = 0
  BY <1>2, UserTold
<1> QED BY <1>2, <1>3, <1>4, <1>5, ThreadKeeps

LEMMA TpIsStopped ==
  TpInv /\ (batadv_tp_sender_finish \/ batadv_tp_stop \/ StopAllSender \/ StopAllEnds) => TpInv'
<1> SUFFICES ASSUME TpInv, batadv_tp_sender_finish \/ batadv_tp_stop \/ StopAllSender \/ StopAllEnds PROVE TpInv'
  OBVIOUS
<1>1. BoundsKept /\ DOMAIN tp = TpFields
  BY DEF TpInv, SenderTyped
<1>2. {"finish", "stops", "deletions"} \subseteq TpBounds \ {"segments"}
  BY DEF TpBounds
<1>3. UNCHANGED <<rx, data, acks, notified>>
  BY DEF batadv_tp_sender_finish, batadv_tp_stop, StopAllSender, StopAllEnds
<1>4. notified'.reason = "COMPLETE" => notified'.bytes % PLEN = 0
  BY <1>3, UserNotTold
<1>5. tp_mesh'.receiver = tp_mesh.receiver /\ DOMAIN tp_mesh' = DOMAIN tp_mesh
  BY DEF batadv_tp_sender_finish, batadv_tp_stop, StopAllSender, StopAllEnds, TpInv, MeshTyped
<1>6. LeftKept
  <2>1. CASE batadv_tp_sender_finish
    <3>1. Charge("finish")
      BY <2>1 DEF batadv_tp_sender_finish
    <3> QED BY <1>1, <1>2, <3>1, LeftCharged
  <2>2. CASE batadv_tp_stop
    <3>1. Charge("stops")
      BY <2>2 DEF batadv_tp_stop
    <3> QED BY <1>1, <1>2, <3>1, LeftCharged
  <2>3. CASE StopAllSender
    <3>1. Charge("deletions")
      BY <2>3 DEF StopAllSender
    <3> QED BY <1>1, <1>2, <3>1, LeftCharged
  <2>4. CASE StopAllEnds
    BY <1>1, <2>4, LeftUnchanged DEF StopAllEnds
  <2> QED BY <2>1, <2>2, <2>3, <2>4
<1>7. SameNumbers(tp, tp') /\ tp'.pc = tp.pc
  <2>1. CASE batadv_tp_sender_finish
    <3> DEFINE t == batadv_tp_sender_shutdown(tp, "COMPLETE")
    <3>1. SameNumbers(tp, t) /\ t.pc = tp.pc
      BY <1>1, NumbersKept
    <3>2. tp' = [t EXCEPT !.finish_work = FALSE]
      BY <2>1 DEF batadv_tp_sender_finish
    <3> HIDE DEF t
    <3> QED BY <3>1, <3>2, TpFieldsAre DEF SameNumbers
  <2>2. CASE batadv_tp_stop
    BY <1>1, <2>2, NumbersKept DEF batadv_tp_stop
  <2>3. CASE StopAllSender
    <3>1. tp' = batadv_tp_sender_shutdown(tp, "CANCEL") \/ tp' = tp
      BY <2>3 DEF StopAllSender
    <3> QED BY <1>1, <3>1, NumbersKept DEF SameNumbers
  <2>4. CASE StopAllEnds
    BY <1>1, <2>4 DEF StopAllEnds, SameNumbers
  <2> QED BY <2>1, <2>2, <2>3, <2>4
<1> QED BY <1>3, <1>4, <1>5, <1>6, <1>7, ThreadKeeps

\* Packets are lost.
LEMMA TpDataLost ==
  TpInv /\ LoseData => TpInv'
<1> SUFFICES ASSUME TpInv, LoseData PROVE TpInv'
  OBVIOUS
<1>1. BoundsKept /\ DOMAIN tp = TpFields /\ data \in Seq(DataPacket) /\ acks \in Seq(AckPacket)
  BY DEF TpInv, SenderTyped, PacketsTyped
<1>2. PICK i \in DOMAIN data :
        Charge("losses") /\ data' = RemoveAt(data, i) /\ UNCHANGED <<tp, rx, acks, tp_mesh, notified>>
  BY DEF LoseData
<1>3. LeftKept
  <2>1. "losses" \in TpBounds \ {"segments"}
    BY DEF TpBounds
  <2> QED BY <1>1, <1>2, <2>1, LeftCharged
<1>4. data' \in Seq(DataPacket) /\ ToSet(data') \subseteq ToSet(data)
  BY <1>1, <1>2, FewerPackets
<1>5. notified'.reason = "COMPLETE" => notified'.bytes % PLEN = 0
  BY <1>2, UserNotTold
<1>6. tp'.pc = "gone" \/ tp'.session # 0
  BY <1>2 DEF TpInv, SenderTyped
<1> QED BY <1>1, <1>2, <1>3, <1>4, <1>5, <1>6, NothingMoves

\* The thread sends the next segment.
LEMMA TpSegmentSent ==
  TpInv /\ batadv_tp_send => TpInv'
<1> SUFFICES ASSUME TpInv, batadv_tp_send PROVE TpInv'
  OBVIOUS
<1> DEFINE segs == tp_left.segments
           m == [session |-> tp.session, seqno |-> tp.last_sent]
<1>1. /\ BoundsKept /\ DOMAIN tp = TpFields /\ data \in Seq(DataPacket) /\ acks \in Seq(AckPacket)
      /\ segs \in TestLength /\ tp.session \in Nat /\ OfTest(segs, tp.last_sent) /\ OfTest(segs, tp.last_acked)
  BY DEF TpInv, SenderTyped, PacketsTyped, BoundsKept
<1>2. /\ tp.pc = "loop" /\ Offset(tp.last_sent) < segs * PLEN /\ data' = Append(data, m)
      /\ tp' = [tp EXCEPT !.last_sent = Add(@, PLEN)]
      /\ UNCHANGED <<rx, acks, tp_mesh, notified, tp_left>>
  BY DEF batadv_tp_send, MaySend
<1>3. LeftKept
  BY <1>1, <1>2, LeftUnchanged
<1>4. notified'.reason = "COMPLETE" => notified'.bytes % PLEN = 0
  BY <1>2, UserNotTold
<1>5. Segment(segs, tp.last_sent)
  BY <1>1, <1>2, MayBeSent
<1>6. /\ DOMAIN tp' = TpFields /\ tp'.session = tp.session /\ tp'.last_acked = tp.last_acked
      /\ tp'.tot_sent = tp.tot_sent /\ tp'.pc = tp.pc /\ tp'.last_sent = Add(tp.last_sent, PLEN)
  BY <1>1, <1>2, TpFieldsAre
<1>7. OfTest(segs, tp'.last_sent) /\ Offset(tp'.last_sent) = Offset(tp.last_sent) + PLEN
  BY <1>1, <1>5, <1>6, NextSegment
<1>8. tp'.last_sent # FIRST_SEQ
  <2>1. Offset(tp.last_sent) \in Nat /\ PLEN \in Nat \ {0}
    BY <1>1, OfTestType, TpConstants
  <2>2. Offset(tp'.last_sent) > 0
    BY <1>7, <2>1
  <2> QED BY <1>1, <1>7, <2>2, OfTestType
<1>9. tp.session # 0 /\ tp.session \in Session
  <2>1. tp.session # 0
    BY <1>2 DEF TpInv, SenderTyped
  <2>2. 1..(tp.session + tp_left.tests) \subseteq Session /\ tp_left.tests \in Nat
    BY <1>1 DEF BoundsKept, TpBounds
  <2> QED BY <1>1, <2>1, <2>2
<1>10. m \in DataPacket
  BY <1>5, <1>9 DEF DataPacket, Segment
<1>11. data' \in Seq(DataPacket) /\ ToSet(data') = ToSet(data) \cup {m}
  BY <1>1, <1>2, <1>10, FewerPackets
<1>12. \A d \in ToSet(data') : d.session <= tp.session /\ Segment(segs, d.seqno)
  BY <1>1, <1>5, <1>11 DEF TpInv, PacketsTyped
<1>13. Opened => tp'.tot_sent <= Offset(Receiver.last_recv)
  BY <1>6 DEF TpInv, AcksWereReceived
<1>14. FirstSent' => FirstSent \/ tp.last_sent = FIRST_SEQ
  BY <1>6, <1>11 DEF FirstSent
<1>15. NeverEarly => (FirstSent' => FirstSent \/ NothingAcked)
  BY <1>14 DEF NeverEarly
<1>16. tp'.tot_sent = Offset(tp'.last_acked)
  BY <1>6 DEF TpInv, SenderTyped
<1>17. acks' \in Seq(AckPacket) /\ ToSet(acks') \subseteq ToSet(acks)
  BY <1>1, <1>2
<1> QED BY <1>1, <1>2, <1>3, <1>4, <1>6, <1>7, <1>8, <1>9, <1>11, <1>12, <1>13, <1>15, <1>16, <1>17, SenderMoves

\* A time-out takes the sender back to what was acknowledged.
LEMMA TimedOut ==
  ASSUME NEW t, DOMAIN t = TpFields
  PROVE  LET u == RetransmissionTimeout(t)
         IN /\ DOMAIN u = TpFields /\ u.session = t.session /\ u.last_acked = t.last_acked
            /\ u.tot_sent = t.tot_sent /\ u.pc = t.pc /\ u.last_sent \in {t.last_sent, t.last_acked}
<1> DEFINE s == batadv_tp_sender_shutdown(t, "DST_UNREACHABLE")
           v == [t EXCEPT !.rto = @ + 1, !.ss_threshold = Max({t.cwnd \div 2, 2 * PLEN}),
                          !.cwnd = 3 * PLEN, !.last_sent = t.last_acked]
           u == RetransmissionTimeout(t)
<1>1. \/ u = [t EXCEPT !.timer = FALSE]
      \/ u = [s EXCEPT !.timer = FALSE]
      \/ u = batadv_tp_reset_sender_timer(v)
  BY DEF RetransmissionTimeout
<1>2. SameNumbers(t, s) /\ s.pc = t.pc
  BY NumbersKept
<1>3. /\ DOMAIN v = TpFields /\ v.session = t.session /\ v.last_acked = t.last_acked
      /\ v.tot_sent = t.tot_sent /\ v.pc = t.pc /\ v.last_sent = t.last_acked
  BY TpFieldsAre
<1> HIDE DEF s, v, u
<1>4. SameNumbers(v, batadv_tp_reset_sender_timer(v)) /\ batadv_tp_reset_sender_timer(v).pc = v.pc
  BY <1>3, NumbersKept
<1>5. CASE u = [t EXCEPT !.timer = FALSE]
  BY <1>5, TpFieldsAre DEF u
<1>6. CASE u = [s EXCEPT !.timer = FALSE]
  BY <1>2, <1>6, TpFieldsAre DEF SameNumbers, u
<1>7. CASE u = batadv_tp_reset_sender_timer(v)
  BY <1>3, <1>4, <1>7 DEF SameNumbers, u
<1> QED BY <1>1, <1>5, <1>6, <1>7

LEMMA TpTimesOut ==
  TpInv /\ (batadv_tp_sender_timeout \/ EarlyTimeout) => TpInv'
<1> SUFFICES ASSUME TpInv, batadv_tp_sender_timeout \/ EarlyTimeout PROVE TpInv'
  OBVIOUS
<1> DEFINE segs == tp_left.segments
<1>1. /\ BoundsKept /\ DOMAIN tp = TpFields /\ data \in Seq(DataPacket) /\ acks \in Seq(AckPacket)
      /\ segs \in TestLength /\ OfTest(segs, tp.last_sent) /\ OfTest(segs, tp.last_acked)
      /\ tp.tot_sent = Offset(tp.last_acked)
  BY DEF TpInv, SenderTyped, PacketsTyped, BoundsKept
<1>2. tp' = RetransmissionTimeout(tp) /\ UNCHANGED <<rx, data, acks, tp_mesh, notified>>
  BY DEF batadv_tp_sender_timeout, EarlyTimeout
<1>3. LeftKept /\ (tp_left.early # 0 \/ (data = <<>> /\ acks = <<>>))
  <2>1. CASE batadv_tp_sender_timeout
    BY <1>1, <2>1, LeftUnchanged DEF batadv_tp_sender_timeout
  <2>2. CASE EarlyTimeout
    <3>1. Charge("early") /\ "early" \in TpBounds \ {"segments"}
      BY <2>2 DEF EarlyTimeout, TpBounds
    <3> QED BY <1>1, <3>1, LeftCharged
  <2> QED BY <2>1, <2>2
<1>4. /\ DOMAIN tp' = TpFields /\ tp'.session = tp.session /\ tp'.last_acked = tp.last_acked
      /\ tp'.tot_sent = tp.tot_sent /\ tp'.pc = tp.pc /\ tp'.last_sent \in {tp.last_sent, tp.last_acked}
  BY <1>1, <1>2, TimedOut
<1>5. notified'.reason = "COMPLETE" => notified'.bytes % PLEN = 0
  BY <1>2, UserNotTold
<1>6. tp'.pc = "gone" \/ tp'.session # 0
  BY <1>4 DEF TpInv, SenderTyped
<1>7. \A d \in ToSet(data') : d.session <= tp.session /\ Segment(segs, d.seqno)
  BY <1>2 DEF TpInv, PacketsTyped
<1>8. Opened => tp'.tot_sent <= Offset(Receiver.last_recv)
  BY <1>4 DEF TpInv, AcksWereReceived
<1>9. ASSUME NeverEarly, tp'.last_sent = FIRST_SEQ PROVE (NothingAcked /\ NothingSent)'
  <2>1. CASE tp'.last_sent = tp.last_sent
    BY <1>2, <1>4, <1>9, <2>1 DEF NeverEarly, NothingAcked, NothingSent
  <2>2. CASE tp'.last_sent = tp.last_acked
    <3>1. data = <<>> /\ acks = <<>>
      BY <1>3, <1>9 DEF NeverEarly
    <3>2. ToSet(data) = {} /\ ToSet(acks) = {}
      BY <3>1 DEF ToSet
    <3>3. tp.tot_sent = 0
      BY <1>1, <1>9, <2>2, FirstOffset
    <3> QED BY <1>2, <1>4, <3>2, <3>3 DEF NothingAcked, NothingSent
  <2> QED BY <1>4, <2>1, <2>2
<1>10. FirstSent' => FirstSent
  BY <1>2, <1>4 DEF FirstSent
<1> QED BY <1>1, <1>2, <1>3, <1>4, <1>5, <1>6, <1>7, <1>8, <1>9, <1>10, SenderMoves

\* A new test has numbers of its own, and nothing is on its way.
LEMMA TpStarts ==
  TpInv /\ batadv_tp_start => TpInv'
<1> SUFFICES ASSUME TpInv, batadv_tp_start PROVE TpInv'
  OBVIOUS
<1> DEFINE segs == tp_left.segments
<1>1. /\ BoundsKept /\ DOMAIN tp = TpFields /\ segs \in TestLength /\ tp.session \in Nat
  BY DEF TpInv, SenderTyped, BoundsKept
<1>2. Charge("tests") /\ "tests" \in TpBounds \ {"segments"} /\ UNCHANGED <<rx, data, acks, tp_mesh>>
  BY DEF batadv_tp_start, TpBounds
<1>3. LeftKept /\ tp_left.tests \in Nat \ {0} /\ tp_left'.tests = tp_left.tests - 1
  BY <1>1, <1>2, LeftCharged
<1>4. CASE UNCHANGED tp /\ \E reason : batadv_tp_batctl_notify(reason, 0)
  <2>1. notified'.reason = "COMPLETE" => notified'.bytes % PLEN = 0
    BY <1>4, UserTold
  <2>2. SameNumbers(tp, tp') /\ (tp'.pc = "gone" \/ tp.pc # "gone")
    BY <1>1, <1>4 DEF SameNumbers
  <2> QED BY <1>2, <1>3, <2>1, <2>2, ThreadKeeps
<1>5. CASE /\ tp' = [NoTest EXCEPT !.session = tp.session + 1, !.pc = "start", !.listed = TRUE, !.sending = 1]
           /\ UNCHANGED notified
  <2>1. /\ DOMAIN tp' = TpFields /\ tp'.session = tp.session + 1 /\ tp'.last_sent = FIRST_SEQ
        /\ tp'.last_acked = FIRST_SEQ /\ tp'.tot_sent = 0
    BY <1>5 DEF NoTest, TpFields
  <2>2. BoundsKept'
    <3>1. tp'.session + tp_left'.tests = tp.session + tp_left.tests
      BY <1>1, <1>3, <2>1
    <3> QED BY <1>1, <1>3, <3>1 DEF BoundsKept, LeftKept
  <2>3. SenderTyped'
    <3>1. OfTest(segs, FIRST_SEQ) /\ Offset(FIRST_SEQ) = 0
      BY <1>1, FirstOfTest, FirstOffset
    <3>2. notified'.reason = "COMPLETE" => notified'.bytes % PLEN = 0
      BY <1>5, UserNotTold
    <3>3. tp'.session \in Nat /\ tp'.session # 0
      BY <1>1, <2>1
    <3> QED BY <1>3, <2>1, <3>1, <3>2, <3>3 DEF SenderTyped, LeftKept
  <2>4. \A s \in Session : s \in Nat /\ (s <= tp.session => s <= tp'.session /\ s # tp'.session)
    <3>1. tp.session \in Nat /\ Session \subseteq Nat
      BY <1>1, TpConstants
    <3>2. tp'.session = tp.session + 1
      BY <2>1
    <3>3. \A s \in Session : s \in Nat
      BY <3>1
    <3> QED BY SMT, <3>1, <3>2, <3>3
  <2>5. ReceiversTyped'
    BY <1>2, <1>3, <2>4 DEF TpInv, ReceiversTyped, LeftKept
  <2>6. /\ \A m \in ToSet(data) : m.session \in Session /\ m.session <= tp.session
        /\ \A m \in ToSet(acks) : m.session \in Session /\ m.session <= tp.session
    <3>1. ToSet(data) \subseteq DataPacket /\ ToSet(acks) \subseteq AckPacket
      BY DEF TpInv, PacketsTyped, ToSet
    <3> QED BY <3>1 DEF TpInv, PacketsTyped, DataPacket, AckPacket
  <2>7. PacketsTyped'
    BY <1>2, <1>3, <2>4, <2>6 DEF TpInv, PacketsTyped, LeftKept
  <2>8. NothingAcked' /\ NothingSent' /\ ~FirstSent'
    BY <1>2, <2>1, <2>4, <2>6 DEF NothingAcked, NothingSent, FirstSent
  <2>9. tp'.session \in Session
    <3>1. tp.session + 1 \in 1..(tp.session + tp_left.tests)
      BY <1>1, <1>3
    <3> QED BY <1>1, <2>1, <3>1 DEF BoundsKept
  <2>10. ~rx'[tp'.session].open
    BY <1>1, <1>2, <2>1, <2>4, <2>9 DEF TpInv, ReceiversTyped
  <2>11. AcksWereReceived'
    BY <2>10 DEF AcksWereReceived, Opened, Receiver
  <2>12. tp_left'.early \in Nat /\ tp_left'.idle \in Nat /\ tp_left'.early <= tp_left.early /\ tp_left'.idle <= tp_left.idle
    BY <1>3 DEF LeftKept, TpBounds
  <2>13. (NeverIdle \/ NeverEarly)'
    <3>1. NeverIdle => NeverIdle'
      BY <2>8, <2>12 DEF NeverIdle
    <3>2. NeverEarly => NeverEarly'
      BY <2>8, <2>12 DEF NeverEarly
    <3> QED BY <3>1, <3>2 DEF TpInv
  <2>14. MeshTyped'
    BY <1>2 DEF TpInv, MeshTyped
  <2> QED BY <2>2, <2>3, <2>5, <2>7, <2>11, <2>13, <2>14 DEF TpInv
<1> QED BY <1>4, <1>5 DEF batadv_tp_start

\* What an acknowledgement makes of the numbers of the sender.
LEMMA DuplicateNumbers ==
  ASSUME NEW t, DOMAIN t = TpFields
  PROVE  LET u == DuplicateAck(t)
         IN /\ DOMAIN u = TpFields /\ u.session = t.session /\ u.last_acked = t.last_acked
            /\ u.tot_sent = t.tot_sent /\ u.pc = t.pc /\ u.last_sent \in {t.last_sent, t.last_acked}
BY TpFieldsAre DEF DuplicateAck

LEMMA NewNumbers ==
  ASSUME NEW t, DOMAIN t = TpFields, NEW ack
  PROVE  LET u == NewAck(t, ack)
         IN /\ DOMAIN u = TpFields /\ u.session = t.session /\ u.last_acked = ack
            /\ u.tot_sent = t.tot_sent + ((ack - t.last_acked) % SEQS) /\ u.pc = t.pc
            /\ u.last_sent = t.last_sent
<1> DEFINE acked == (ack - t.last_acked) % SEQS
           v == [t EXCEPT !.tot_sent = @ + acked, !.dup_acks = 0, !.last_acked = ack]
           Good(w) == /\ DOMAIN w = TpFields /\ w.session = t.session /\ w.last_acked = ack
                      /\ w.tot_sent = t.tot_sent + acked /\ w.pc = t.pc /\ w.last_sent = t.last_sent
<1>1. Good(v)
  BY TpFieldsAre
<1>2. ASSUME NEW w, Good(w), NEW c PROVE Good([w EXCEPT !.cwnd = c])
  BY <1>2, TpFieldsAre
<1>3. ASSUME NEW w, Good(w), NEW c PROVE Good([w EXCEPT !.dec_cwnd = c])
  BY <1>3, TpFieldsAre
<1>4. ASSUME NEW w, Good(w), NEW c PROVE Good([w EXCEPT !.dec_cwnd = 0, !.cwnd = c])
  BY <1>4, TpFieldsAre
<1>5. ASSUME NEW w, Good(w), NEW c PROVE Good([w EXCEPT !.fast_recovery = FALSE, !.cwnd = c])
  BY <1>5, TpFieldsAre
<1>6. Good(batadv_tp_update_cwnd(v))
  <2> HIDE DEF v, Good
  <2>1. \/ \E c : batadv_tp_update_cwnd(v) = [v EXCEPT !.dec_cwnd = c]
        \/ \E c : batadv_tp_update_cwnd(v) = [v EXCEPT !.dec_cwnd = 0, !.cwnd = c]
    BY DEF batadv_tp_update_cwnd
  <2>2. \A c : Good([v EXCEPT !.dec_cwnd = c]) /\ Good([v EXCEPT !.dec_cwnd = 0, !.cwnd = c])
    BY <1>1, <1>3, <1>4
  <2> QED BY Zenon, <2>1, <2>2
<1>7. \/ NewAck(t, ack) = batadv_tp_update_cwnd(v)
      \/ NewAck(t, ack) = v
      \/ \E c : NewAck(t, ack) = [v EXCEPT !.cwnd = c]
      \/ \E c : NewAck(t, ack) = [v EXCEPT !.fast_recovery = FALSE, !.cwnd = c]
  BY DEF NewAck
<1>8. Good(NewAck(t, ack))
  <2> HIDE DEF v, Good
  <2>1. \A c : Good([v EXCEPT !.cwnd = c]) /\ Good([v EXCEPT !.fast_recovery = FALSE, !.cwnd = c])
    BY <1>1, <1>2, <1>5
  <2> QED BY Zenon, <1>1, <1>6, <1>7, <2>1
<1> QED BY <1>8

\* An acknowledgement arrives.
LEMMA AckTaken ==
  ASSUME TpInv, NEW m \in ToSet(acks), LeftKept, UNCHANGED <<rx, tp_mesh, notified>>,
         acks' \in Seq(AckPacket), ToSet(acks') \subseteq ToSet(acks), batadv_tp_recv_ack(m)
  PROVE  TpInv'
<1> DEFINE segs == tp_left.segments
<1>1. /\ BoundsKept /\ DOMAIN tp = TpFields /\ data \in Seq(DataPacket) /\ acks \in Seq(AckPacket)
      /\ segs \in TestLength /\ OfTest(segs, tp.last_sent) /\ OfTest(segs, tp.last_acked)
      /\ tp.tot_sent = Offset(tp.last_acked)
  BY DEF TpInv, SenderTyped, PacketsTyped, BoundsKept
<1>2. notified'.reason = "COMPLETE" => notified'.bytes % PLEN = 0
  BY UserNotTold
<1>3. OfTest(segs, m.seqno) /\ m.seqno # FIRST_SEQ /\ m \in AckPacket
  BY DEF TpInv, PacketsTyped, ToSet
<1>4. CASE ~AckCounts(tp, m)
  <2>1. UNCHANGED <<tp, data>>
    BY <1>4 DEF batadv_tp_recv_ack
  <2>2. tp'.pc = "gone" \/ tp'.session # 0
    BY <2>1 DEF TpInv, SenderTyped
  <2> QED BY <1>1, <1>2, <2>1, <2>2, NothingMoves
<1>5. CASE AckCounts(tp, m)
  <2>1. tp.session = m.session /\ ~batadv_seq_before(m.seqno, tp.last_acked)
    BY <1>5 DEF AckCounts
  <2>2. PICK sampled \in BOOLEAN :
          LET t == batadv_tp_reset_sender_timer(IF sampled THEN [tp EXCEPT !.rto = 0] ELSE tp)
              u == IF m.seqno = t.last_acked THEN DuplicateAck(t) ELSE NewAck(t, m.seqno)
              again == /\ IF m.seqno = t.last_acked THEN FastRetransmit(t) ELSE u.fast_recovery
                       /\ Offset(m.seqno) < segs * PLEN
          IN /\ tp' = u
             /\ data' = IF again THEN Append(data, [session |-> m.session, seqno |-> m.seqno]) ELSE data
    BY <1>5 DEF batadv_tp_recv_ack
  <2> DEFINE t0 == IF sampled THEN [tp EXCEPT !.rto = 0] ELSE tp
             t == batadv_tp_reset_sender_timer(t0)
             d == [session |-> m.session, seqno |-> m.seqno]
  <2>3. /\ DOMAIN t = TpFields /\ t.session = tp.session /\ t.last_acked = tp.last_acked
        /\ t.tot_sent = tp.tot_sent /\ t.pc = tp.pc /\ t.last_sent = tp.last_sent
    <3>1. SameNumbers(tp, t0) /\ t0.pc = tp.pc
      BY <1>1, TpFieldsAre DEF SameNumbers
    <3> HIDE DEF t0
    <3>2. SameNumbers(t0, t) /\ t.pc = t0.pc
      BY <3>1, NumbersKept DEF SameNumbers
    <3> QED BY <3>1, <3>2 DEF SameNumbers
  <2>4. tp' = IF m.seqno = t.last_acked THEN DuplicateAck(t) ELSE NewAck(t, m.seqno)
    BY <2>2
  <2>5. data' = data \/ (data' = Append(data, d) /\ Offset(m.seqno) < segs * PLEN)
    BY <2>2
  <2> HIDE DEF t, d
  <2>6. /\ DOMAIN tp' = TpFields /\ tp'.session = tp.session /\ tp'.pc = tp.pc
        /\ tp'.last_acked = m.seqno /\ tp'.last_sent \in {tp.last_sent, m.seqno}
        /\ tp'.tot_sent = Offset(m.seqno)
    <3>1. CASE m.seqno = t.last_acked
      BY <1>1, <2>3, <2>4, <3>1, DuplicateNumbers
    <3>2. CASE m.seqno # t.last_acked
      <4>1. /\ DOMAIN tp' = TpFields /\ tp'.session = tp.session /\ tp'.pc = tp.pc
            /\ tp'.last_acked = m.seqno /\ tp'.last_sent = tp.last_sent
            /\ tp'.tot_sent = tp.tot_sent + ((m.seqno - tp.last_acked) % SEQS)
        BY <2>3, <2>4, <3>2, NewNumbers
      <4>2. Offset(m.seqno) \in Nat /\ Offset(tp.last_acked) \in Nat
        BY <1>1, <1>3, OfTestType
      <4>3. Offset(m.seqno) >= Offset(tp.last_acked)
        BY <1>1, <1>3, <2>1, <4>2, BeforeIs
      <4>4. (m.seqno - tp.last_acked) % SEQS = Offset(m.seqno) - Offset(tp.last_acked)
        BY <1>1, <1>3, <4>3, BeforeIs
      <4>5. tp.tot_sent + ((m.seqno - tp.last_acked) % SEQS) = Offset(m.seqno)
        BY <1>1, <4>2, <4>4
      <4> QED BY <4>1, <4>5
    <3> QED BY <3>1, <3>2
  <2>7. data' = data \/ (data' = Append(data, d) /\ d \in DataPacket /\ Segment(segs, d.seqno))
    <3>1. Offset(m.seqno) < segs * PLEN => Segment(segs, m.seqno)
      BY <1>1, <1>3, MayBeSent
    <3>2. d \in DataPacket /\ d.seqno = m.seqno
      BY <1>3 DEF d, DataPacket, AckPacket
    <3> QED BY <2>5, <3>1, <3>2
  <2>8. data' \in Seq(DataPacket) /\ ToSet(data') \subseteq ToSet(data) \cup {d}
    <3>1. \A e \in DataPacket : Append(data, e) \in Seq(DataPacket) /\ ToSet(Append(data, e)) = ToSet(data) \cup {e}
      BY <1>1, FewerPackets
    <3> QED BY <1>1, <2>7, <3>1
  <2>9. d.session = tp.session /\ d.seqno = m.seqno
    BY <2>1 DEF d
  <2>10. \A x \in ToSet(data') : x.session <= tp.session /\ Segment(segs, x.seqno)
    <3>1. tp.session <= tp.session
      BY DEF TpInv, SenderTyped
    <3>2. CASE data' = data
      BY <3>2 DEF TpInv, PacketsTyped
    <3>3. CASE Segment(segs, d.seqno)
      BY <2>8, <2>9, <3>1, <3>3 DEF TpInv, PacketsTyped
    <3> QED BY <2>7, <3>2, <3>3
  <2>11. Opened => tp'.tot_sent <= Offset(Receiver.last_recv)
    BY <2>1, <2>6 DEF TpInv, AcksWereReceived
  <2>12. ~NothingAcked
    BY <2>1 DEF NothingAcked
  <2>13. NeverEarly => tp'.last_sent # FIRST_SEQ
    BY <1>3, <2>6, <2>12 DEF NeverEarly
  <2>14. FirstSent' => FirstSent
    BY <1>3, <2>6, <2>8, <2>9 DEF FirstSent
  <2>15. tp'.pc = "gone" \/ tp'.session # 0
    BY <2>6 DEF TpInv, SenderTyped
  <2>16. OfTest(segs, tp'.last_sent) /\ OfTest(segs, tp'.last_acked) /\ tp'.tot_sent = Offset(tp'.last_acked)
    BY <1>1, <1>3, <2>6
  <2> QED BY <1>2, <2>6, <2>8, <2>10, <2>11, <2>12, <2>13, <2>14, <2>15, <2>16, SenderMoves
<1> QED BY <1>4, <1>5

LEMMA TpAckDelivered ==
  TpInv /\ (DeliverAck \/ OvertakeAck) => TpInv'
<1> SUFFICES ASSUME TpInv, DeliverAck \/ OvertakeAck PROVE TpInv'
  OBVIOUS
<1>1. /\ BoundsKept /\ DOMAIN tp = TpFields /\ data \in Seq(DataPacket) /\ acks \in Seq(AckPacket)
  BY DEF TpInv, SenderTyped, PacketsTyped
<1>2. CASE DeliverAck
  <2>1. /\ acks # <<>> /\ acks' = Tail(acks) /\ UNCHANGED <<rx, tp_mesh, notified, tp_left>>
        /\ batadv_tp_recv_ack(Head(acks)) \/ UNCHANGED <<tp, data>>
    BY <1>2 DEF DeliverAck
  <2>2. acks' \in Seq(AckPacket) /\ ToSet(acks') \subseteq ToSet(acks) /\ Head(acks) \in ToSet(acks)
    BY <1>1, <2>1, FewerPackets
  <2>3. LeftKept
    BY <1>1, <2>1, LeftUnchanged
  <2>4. CASE batadv_tp_recv_ack(Head(acks))
    BY <2>1, <2>2, <2>3, <2>4, AckTaken
  <2>5. CASE UNCHANGED <<tp, data>>
    <3>1. notified'.reason = "COMPLETE" => notified'.bytes % PLEN = 0
      BY <2>1, UserNotTold
    <3>2. tp'.pc = "gone" \/ tp'.session # 0
      BY <2>5 DEF TpInv, SenderTyped
    <3> QED BY <1>1, <2>1, <2>2, <2>3, <2>5, <3>1, <3>2, NothingMoves
  <2> QED BY <2>1, <2>4, <2>5
<1>3. CASE OvertakeAck
  <2>1. PICK i \in 2..Len(acks) : /\ Charge("overtakes") /\ acks' = RemoveAt(acks, i)
                                  /\ batadv_tp_recv_ack(acks[i]) /\ UNCHANGED <<rx, tp_mesh, notified>>
    BY <1>3 DEF OvertakeAck
  <2>2. i \in DOMAIN acks
    BY <1>1
  <2>3. acks' \in Seq(AckPacket) /\ ToSet(acks') \subseteq ToSet(acks) /\ acks[i] \in ToSet(acks)
    BY <1>1, <2>1, <2>2, FewerPackets
  <2>4. LeftKept
    <3>1. "overtakes" \in TpBounds \ {"segments"}
      BY DEF TpBounds
    <3> QED BY <1>1, <2>1, <3>1, LeftCharged
  <2> QED BY <2>1, <2>3, <2>4, AckTaken
<1> QED BY <1>2, <1>3

\* What is left to show when the session of the current test is open.
LEMMA OtherHalf ==
  ASSUME TpInv, UNCHANGED tp, ToSet(data') \subseteq ToSet(data), NEW m \in ToSet(data), m.session = tp.session,
         BoundsKept', MeshTyped', SenderTyped', ReceiversTyped', PacketsTyped', AcksWereReceived', ~Unopened',
         tp_left'.early \in Nat /\ tp_left'.idle \in Nat /\ tp_left'.early <= tp_left.early /\ tp_left'.idle <= tp_left.idle
  PROVE  TpInv'
<1>1. NeverIdle => NeverIdle'
  BY DEF NeverIdle
<1>2. NeverEarly => NeverEarly'
  BY DEF NeverEarly, NothingSent
<1> QED BY <1>1, <1>2 DEF TpInv

\* A segment arrives: what is acknowledged has been received.
LEMMA SegmentTaken ==
  ASSUME TpInv, NEW m \in ToSet(data), LeftKept, UNCHANGED <<tp, tp_mesh, notified>>,
         data' \in Seq(DataPacket), ToSet(data') \subseteq ToSet(data), batadv_tp_recv_msg(m)
  PROVE  TpInv'
<1> DEFINE segs == tp_left.segments
           r == IF m.seqno = FIRST_SEQ THEN batadv_tp_init_recv(m.session) ELSE rx[m.session]
           u == Received(r, m.seqno)
           a == [session |-> m.session, seqno |-> u.last_recv, of |-> m.seqno]
<1>1. /\ BoundsKept /\ DOMAIN tp = TpFields /\ data \in Seq(DataPacket) /\ acks \in Seq(AckPacket)
      /\ segs \in TestLength /\ tp.session \in Nat
  BY DEF TpInv, SenderTyped, PacketsTyped, BoundsKept
<1>2. notified'.reason = "COMPLETE" => notified'.bytes % PLEN = 0
  BY UserNotTold
<1>3. Segment(segs, m.seqno) /\ m \in DataPacket /\ m.session \in Session /\ m.session <= tp.session
  <2>1. m \in DataPacket
    BY <1>1 DEF ToSet
  <2>2. m.session \in Session
    BY <2>1 DEF DataPacket
  <2>3. Segment(segs, m.seqno) /\ m.session <= tp.session
    BY DEF TpInv, PacketsTyped
  <2> QED BY <2>1, <2>2, <2>3
<1>4. \/ UNCHANGED <<rx, acks>>
      \/ tp_mesh.receiver = "ACTIVE" /\ r.open /\ rx' = [rx EXCEPT ![m.session] = u] /\ acks' = Append(acks, a)
  BY DEF batadv_tp_recv_msg
<1>5. CASE UNCHANGED <<rx, acks>>
  <2>1. tp'.pc = "gone" \/ tp'.session # 0
    BY DEF TpInv, SenderTyped
  <2> QED BY <1>1, <1>2, <1>5, <2>1, NothingMoves
<1>6. CASE tp_mesh.receiver = "ACTIVE" /\ r.open /\ rx' = [rx EXCEPT ![m.session] = u] /\ acks' = Append(acks, a)
  <2>1. \/ rx[m.session].open /\ r = rx[m.session]
        \/ ~rx[m.session].open /\ r = [NoReceiver EXCEPT !.open = TRUE] /\ m.seqno = FIRST_SEQ
    BY <1>6 DEF batadv_tp_init_recv
  <2>2. ReceiverTyped(segs, rx[m.session]) /\ DOMAIN rx = Session
    BY <1>3 DEF TpInv, ReceiversTyped
  <2>3. ReceiverTyped(segs, r)
    <3>1. CASE r = [NoReceiver EXCEPT !.open = TRUE]
      <4>1. r = [open |-> TRUE, last_recv |-> FIRST_SEQ, unacked_list |-> <<>>]
        BY <3>1 DEF NoReceiver
      <4>2. OfTest(segs, FIRST_SEQ) /\ <<>> \in Seq(SeqNo) /\ DOMAIN <<>> = {}
        BY <1>1, FirstOfTest
      <4> HIDE DEF r
      <4> QED BY <4>1, <4>2 DEF ReceiverTyped
    <3> QED BY <2>1, <2>2, <3>1
  <2>4. ~rx[m.session].open => r.last_recv = FIRST_SEQ /\ m.seqno = FIRST_SEQ
    BY <2>1 DEF NoReceiver
  <2> HIDE DEF r
  <2>5. GoesOn(segs, r, u) /\ (m.seqno = r.last_recv => Offset(u.last_recv) > Offset(m.seqno))
    BY <1>1, <1>3, <2>3, ReceivedGoesOn
  <2> HIDE DEF u
  <2>6. ReceiverTyped(segs, u) /\ u.open /\ Offset(r.last_recv) <= Offset(u.last_recv)
    BY <1>6, <2>5 DEF GoesOn
  <2>7. OfTest(segs, u.last_recv) /\ OfTest(segs, r.last_recv)
    BY <2>3, <2>6 DEF ReceiverTyped
  <2>8. Offset(u.last_recv) \in Nat /\ Offset(r.last_recv) \in Nat
    BY <1>1, <2>7, OfTestType
  <2>9. u.last_recv # FIRST_SEQ
    <3>1. CASE rx[m.session].open
      <4>1. r.last_recv # FIRST_SEQ
        BY <1>3, <2>1, <3>1 DEF TpInv, ReceiversTyped
      <4>2. Offset(r.last_recv) > 0
        BY <1>1, <2>7, <4>1, OfTestType
      <4>3. Offset(u.last_recv) > 0
        BY <2>6, <2>8, <4>2
      <4> QED BY <1>1, <2>7, <4>3, OfTestType
    <3>2. CASE ~rx[m.session].open
      <4>1. Offset(u.last_recv) > 0
        BY <2>4, <2>5, <3>2, FirstOffset
      <4> QED BY <1>1, <2>7, <4>1, OfTestType
    <3> QED BY <3>1, <3>2
  <2>10. BoundsKept' /\ MeshTyped'
    <3>1. BoundsKept'
      BY <1>1, BoundsStay
    <3> QED BY <3>1 DEF TpInv, MeshTyped
  <2>11. SenderTyped'
    BY DEF TpInv, SenderTyped, LeftKept
  <2>12. ReceiversTyped'
    <3>1. DOMAIN rx' = Session /\ rx'[m.session] = u /\ \A s \in Session \ {m.session} : rx'[s] = rx[s]
      BY <1>3, <1>6, <2>2
    <3>2. ASSUME NEW s \in Session
          PROVE  ReceiverTyped(segs, rx'[s]) /\ (rx'[s].open => s <= tp.session /\ rx'[s].last_recv # FIRST_SEQ)
      <4>1. CASE s = m.session
        BY <1>3, <2>6, <2>9, <3>1, <4>1
      <4>2. CASE s # m.session
        <5>1. rx'[s] = rx[s]
          BY <3>1, <4>2
        <5> QED BY <5>1 DEF TpInv, ReceiversTyped
      <4> QED BY <4>1, <4>2
    <3> QED BY <3>1, <3>2 DEF ReceiversTyped, LeftKept
  <2>13. a \in AckPacket /\ a.session = m.session /\ a.seqno = u.last_recv
    BY <1>3, <2>7 DEF AckPacket, DataPacket, OfTest
  <2> HIDE DEF a
  <2>14. acks' \in Seq(AckPacket) /\ ToSet(acks') = ToSet(acks) \cup {a}
    BY <1>1, <1>6, <2>13, FewerPackets
  <2>15. PacketsTyped'
    <3>1. \A x \in ToSet(acks') : x.session <= tp.session /\ OfTest(segs, x.seqno) /\ x.seqno # FIRST_SEQ
      BY <1>3, <2>7, <2>9, <2>13, <2>14 DEF TpInv, PacketsTyped
    <3>2. \A x \in ToSet(data') : x.session <= tp.session /\ Segment(segs, x.seqno)
      BY DEF TpInv, PacketsTyped
    <3> QED BY <2>14, <3>1, <3>2 DEF PacketsTyped, LeftKept
  <2>16. tp_left'.early \in Nat /\ tp_left'.idle \in Nat /\ tp_left'.early <= tp_left.early /\ tp_left'.idle <= tp_left.idle
    BY DEF LeftKept, TpBounds
  <2>17. CASE m.session = tp.session
    <3>1. Receiver' = u /\ tp.session # 0
      BY <1>3, <1>6, <2>2, <2>17, TpConstants DEF Receiver
    <3>2. Opened' /\ ~Unopened'
      BY <1>6, <2>6, <3>1 DEF Opened, Unopened, ReceiverActive
    <3>3. CASE rx[m.session].open
      <4>1. Opened /\ Receiver = r
        BY <1>6, <2>1, <2>17, <3>1, <3>3 DEF Opened, ReceiverActive, Receiver
      <4>2. /\ tp.tot_sent <= Offset(r.last_recv)
            /\ \A x \in ToSet(acks) : x.session = tp.session => Offset(x.seqno) <= Offset(r.last_recv)
        BY <4>1 DEF TpInv, AcksWereReceived
      <4>3. \A x \in ToSet(acks) : Offset(x.seqno) \in Nat
        <5>1. \A x \in ToSet(acks) : OfTest(segs, x.seqno)
          BY DEF TpInv, PacketsTyped
        <5> QED BY <1>1, <5>1, OfTestType
      <4>4. tp.tot_sent \in Nat
        <5>1. OfTest(segs, tp.last_acked) /\ tp.tot_sent = Offset(tp.last_acked)
          BY DEF TpInv, SenderTyped
        <5> QED BY <1>1, <5>1, OfTestType
      <4>5. /\ tp.tot_sent <= Offset(u.last_recv)
            /\ \A x \in ToSet(acks) : x.session = tp.session => Offset(x.seqno) <= Offset(u.last_recv)
        BY <2>6, <2>8, <4>2, <4>3, <4>4
      <4>6. AcksWereReceived'
        BY <2>8, <2>13, <2>14, <3>1, <4>5 DEF AcksWereReceived
      <4> QED BY <2>10, <2>11, <2>12, <2>15, <2>16, <2>17, <3>2, <4>6, OtherHalf
    <3>4. CASE ~rx[m.session].open
      <4>1. Unopened /\ FirstSent
        <5>1. Unopened
          BY <1>6, <2>17, <3>1, <3>4 DEF Unopened, ReceiverActive, Receiver
        <5>2. m.seqno = FIRST_SEQ
          BY <2>4, <3>4
        <5> QED BY <2>17, <5>1, <5>2 DEF FirstSent
      <4>2. NothingAcked
        BY <4>1 DEF TpInv, NeverIdle, NeverEarly
      <4>3. AcksWereReceived'
        BY <2>8, <2>13, <2>14, <3>1, <4>2 DEF AcksWereReceived, NothingAcked
      <4> QED BY <2>10, <2>11, <2>12, <2>15, <2>16, <2>17, <3>2, <4>3, OtherHalf
    <3> QED BY <3>3, <3>4
  <2>18. CASE m.session # tp.session
    <3>1. tp.session # 0 => tp.session \in Session
      <4>1. 1..(tp.session + tp_left.tests) \subseteq Session /\ tp_left.tests \in Nat
        BY <1>1 DEF BoundsKept, TpBounds
      <4>2. tp.session \in Nat
        BY <1>1
      <4> HIDE DEF u, a
      <4>3. tp.session # 0 => tp.session \in 1..(tp.session + tp_left.tests)
        BY <4>1, <4>2
      <4> QED BY <4>1, <4>3
    <3>2. ReceiverActive => Receiver' = Receiver
      BY <1>3, <1>6, <2>2, <2>18, <3>1 DEF Receiver, ReceiverActive
    <3>3. (Opened' <=> Opened) /\ (Unopened' <=> Unopened)
      BY <3>2 DEF Opened, Unopened, ReceiverActive
    <3>4. \A x \in ToSet(acks') : x.session = tp.session => x \in ToSet(acks)
      BY <2>13, <2>14, <2>18
    <3>5. AcksWereReceived'
      BY <3>2, <3>3, <3>4 DEF TpInv, AcksWereReceived, Opened
    <3>6. (NothingAcked => NothingAcked') /\ (NothingSent => NothingSent') /\ (FirstSent' => FirstSent)
      BY <3>4 DEF NothingAcked, NothingSent, FirstSent
    <3>7. NeverIdle => NeverIdle'
      BY <2>16, <3>3, <3>6 DEF NeverIdle
    <3>8. NeverEarly => NeverEarly'
      BY <2>16, <3>3, <3>6 DEF NeverEarly
    <3> QED BY <2>10, <2>11, <2>12, <2>15, <3>5, <3>7, <3>8 DEF TpInv
  <2> QED BY <2>17, <2>18
<1> QED BY <1>4, <1>5, <1>6

LEMMA TpDataDelivered ==
  TpInv /\ (DeliverData \/ OvertakeData) => TpInv'
<1> SUFFICES ASSUME TpInv, DeliverData \/ OvertakeData PROVE TpInv'
  OBVIOUS
<1>1. BoundsKept /\ data \in Seq(DataPacket)
  BY DEF TpInv, PacketsTyped
<1>2. CASE DeliverData
  <2>1. /\ data # <<>> /\ data' = Tail(data) /\ batadv_tp_recv_msg(Head(data))
        /\ UNCHANGED <<tp, tp_mesh, notified, tp_left>>
    BY <1>2 DEF DeliverData
  <2>2. data' \in Seq(DataPacket) /\ ToSet(data') \subseteq ToSet(data) /\ Head(data) \in ToSet(data)
    BY <1>1, <2>1, FewerPackets
  <2>3. LeftKept
    BY <1>1, <2>1, LeftUnchanged
  <2> QED BY <2>1, <2>2, <2>3, SegmentTaken
<1>3. CASE OvertakeData
  <2>1. PICK i \in 2..Len(data) : /\ Charge("overtakes") /\ data' = RemoveAt(data, i)
                                  /\ batadv_tp_recv_msg(data[i]) /\ UNCHANGED <<tp, tp_mesh, notified>>
    BY <1>3 DEF OvertakeData
  <2>2. i \in DOMAIN data
    BY <1>1
  <2>3. data' \in Seq(DataPacket) /\ ToSet(data') \subseteq ToSet(data) /\ data[i] \in ToSet(data)
    BY <1>1, <2>1, <2>2, FewerPackets
  <2>4. LeftKept
    <3>1. "overtakes" \in TpBounds \ {"segments"}
      BY DEF TpBounds
    <3> QED BY <1>1, <2>1, <3>1, LeftCharged
  <2> QED BY <2>1, <2>3, <2>4, SegmentTaken
<1> QED BY <1>2, <1>3

\* Receivers that time out or leave.
LEMMA TpReceiverGone ==
  TpInv /\ (batadv_tp_receiver_shutdown \/ StopAllReceiver) => TpInv'
<1> SUFFICES ASSUME TpInv, batadv_tp_receiver_shutdown \/ StopAllReceiver PROVE TpInv'
  OBVIOUS
<1> DEFINE segs == tp_left.segments
<1>1. BoundsKept /\ segs \in TestLength /\ data \in Seq(DataPacket) /\ tp.session \in Nat
  BY DEF TpInv, SenderTyped, PacketsTyped, BoundsKept
<1>2. UNCHANGED <<tp, data, acks, notified>>
  BY DEF batadv_tp_receiver_shutdown, StopAllReceiver
<1>3. {"idle", "leaves"} \subseteq TpBounds \ {"segments"}
  BY DEF TpBounds
<1>4. /\ LeftKept
      /\ \/ tp_mesh'.receiver # "ACTIVE" /\ rx' = [s \in Session |-> NoReceiver]
         \/ /\ tp_left.idle # 0 /\ tp_mesh' = tp_mesh
            /\ \E s \in Session : rx' = [rx EXCEPT ![s] = NoReceiver] /\ \A i \in DOMAIN data : data[i].session # s
      /\ DOMAIN tp_mesh' = DOMAIN tp_mesh
  <2>1. CASE batadv_tp_receiver_shutdown
    <3>1. Charge("idle") /\ tp_mesh' = tp_mesh
      BY <2>1 DEF batadv_tp_receiver_shutdown
    <3>2. \E s \in Session : rx' = [rx EXCEPT ![s] = NoReceiver] /\ \A i \in DOMAIN data : data[i].session # s
      BY <2>1 DEF batadv_tp_receiver_shutdown
    <3>3. LeftKept /\ tp_left.idle # 0
      BY <1>1, <1>3, <3>1, LeftCharged
    <3> QED BY <3>1, <3>2, <3>3
  <2>2. CASE StopAllReceiver
    <3>1. Charge("leaves") /\ tp_mesh' = [tp_mesh EXCEPT !.receiver = "INACTIVE"] /\ rx' = [s \in Session |-> NoReceiver]
      BY <2>2 DEF StopAllReceiver
    <3>2. LeftKept
      BY <1>1, <1>3, <3>1, LeftCharged
    <3>3. tp_mesh'.receiver # "ACTIVE" /\ DOMAIN tp_mesh' = DOMAIN tp_mesh
      BY <3>1 DEF TpInv, MeshTyped
    <3> QED BY <3>1, <3>2, <3>3
  <2> QED BY <2>1, <2>2
<1>5. ReceiverTyped(segs, NoReceiver) /\ ~NoReceiver.open
  <2>1. OfTest(segs, FIRST_SEQ) /\ <<>> \in Seq(SeqNo) /\ DOMAIN <<>> = {}
    BY <1>1, FirstOfTest
  <2> QED BY <2>1 DEF ReceiverTyped, NoReceiver
<1>6. DOMAIN rx' = Session /\ \A s \in Session : rx'[s] = rx[s] \/ rx'[s] = NoReceiver
  BY <1>4 DEF TpInv, ReceiversTyped
<1>7. ReceiversTyped'
  BY <1>2, <1>4, <1>5, <1>6 DEF TpInv, ReceiversTyped, LeftKept
<1>8. BoundsKept' /\ MeshTyped' /\ SenderTyped' /\ PacketsTyped'
  <2>1. BoundsKept'
    BY <1>1, <1>2, <1>4, BoundsStay
  <2>2. MeshTyped'
    BY <1>4 DEF TpInv, MeshTyped
  <2>3. SenderTyped'
    BY <1>2, <1>4 DEF TpInv, SenderTyped, LeftKept
  <2>4. PacketsTyped'
    BY <1>2, <1>4 DEF TpInv, PacketsTyped, LeftKept
  <2> QED BY <2>1, <2>2, <2>3, <2>4
<1>9. tp.session # 0 => tp.session \in Session
  <2>1. 1..(tp.session + tp_left.tests) \subseteq Session /\ tp_left.tests \in Nat
    BY <1>1 DEF BoundsKept, TpBounds
  <2> QED BY <1>1, <2>1
<1>10. Opened' => Opened /\ Receiver' = Receiver
  <2> SUFFICES ASSUME Opened' PROVE Opened /\ Receiver' = Receiver
    OBVIOUS
  <2>1. tp.session \in Session /\ tp_mesh' = tp_mesh /\ rx'[tp.session].open /\ ReceiverActive
    BY <1>2, <1>4, <1>9 DEF Opened, ReceiverActive, Receiver
  <2>2. rx'[tp.session] = rx[tp.session]
    BY <1>5, <1>6, <2>1
  <2> QED BY <1>2, <2>1, <2>2 DEF Opened, Receiver
<1>11. AcksWereReceived'
  BY <1>2, <1>10 DEF TpInv, AcksWereReceived
<1>12. /\ (NothingAcked' <=> NothingAcked) /\ (NothingSent' <=> NothingSent) /\ (FirstSent' <=> FirstSent)
  BY <1>2 DEF NothingAcked, NothingSent, FirstSent
<1>13. tp_left'.early \in Nat /\ tp_left'.idle \in Nat /\ tp_left'.early <= tp_left.early /\ tp_left'.idle <= tp_left.idle
  BY <1>4 DEF LeftKept, TpBounds
<1>14. CASE tp_mesh'.receiver # "ACTIVE"
  <2>1. ~Unopened'
    BY <1>14 DEF Unopened, ReceiverActive
  <2>2. NeverIdle => NeverIdle'
    BY <1>13, <2>1 DEF NeverIdle
  <2>3. NeverEarly => NeverEarly'
    BY <1>2, <1>12, <1>13, <2>1 DEF NeverEarly
  <2> QED BY <1>7, <1>8, <1>11, <2>2, <2>3 DEF TpInv
<1>15. CASE /\ tp_left.idle # 0 /\ tp_mesh' = tp_mesh
            /\ \E s \in Session : rx' = [rx EXCEPT ![s] = NoReceiver] /\ \A i \in DOMAIN data : data[i].session # s
  <2>1. NeverEarly
    BY <1>15 DEF TpInv, NeverIdle
  <2>2. PICK s \in Session : rx' = [rx EXCEPT ![s] = NoReceiver] /\ \A i \in DOMAIN data : data[i].session # s
    BY <1>15
  <2>3. \A m \in ToSet(data) : m.session # s
    BY <2>2 DEF ToSet
  <2>4. Unopened' /\ FirstSent' => Unopened /\ FirstSent
    <3>1. CASE tp.session = s
      BY <1>12, <2>3, <3>1 DEF FirstSent
    <3>2. CASE tp.session # s
      <4>1. tp.session # 0 => rx'[tp.session] = rx[tp.session]
        BY <1>9, <2>2, <3>2 DEF TpInv, ReceiversTyped
      <4> QED BY <1>2, <1>12, <1>15, <4>1 DEF Unopened, ReceiverActive, Receiver
    <3> QED BY <3>1, <3>2
  <2>5. NeverEarly'
    BY <1>2, <1>12, <1>13, <2>1, <2>4 DEF NeverEarly
  <2> QED BY <1>7, <1>8, <1>11, <2>5 DEF TpInv
<1> QED BY <1>4, <1>14, <1>15

-----------------------------------------------------------------------------
(* What a test reports was received. *)

LEMMA TpStartsSound == IdleOrEarly /\ TpInit => TpInv
<1> SUFFICES ASSUME IdleOrEarly, TpInit PROVE TpInv
  OBVIOUS
<1>1. /\ tp_left \in [TpBounds -> Nat] /\ tp_left.segments \in TestLength /\ 1..tp_left.tests \subseteq Session
      /\ tp_left.idle = 0 \/ tp_left.early = 0
  BY TpMeterAssumption DEF TpInit, TestLength, TpBounds, IdleOrEarly
<1>2. tp = NoTest /\ rx = [s \in Session |-> NoReceiver] /\ data = <<>> /\ acks = <<>> /\ notified.reason = "none"
  BY DEF TpInit
<1>3. OfTest(tp_left.segments, FIRST_SEQ) /\ Offset(FIRST_SEQ) = 0
  BY <1>1, FirstOfTest, FirstOffset
<1>4. tp.session = 0 /\ tp.pc = "gone" /\ tp.last_sent = FIRST_SEQ /\ tp.last_acked = FIRST_SEQ /\ tp.tot_sent = 0
  BY <1>2 DEF NoTest
<1>5. BoundsKept
  <2>1. tp_left.tests \in Nat
    BY <1>1 DEF TpBounds
  <2>2. tp.session + tp_left.tests = tp_left.tests
    BY <1>4, <2>1
  <2> QED BY <1>1, <2>2 DEF BoundsKept
<1>6. MeshTyped
  BY DEF TpInit, MeshTyped
<1>7. SenderTyped
  BY <1>2, <1>3, <1>4 DEF SenderTyped, TpFields
<1>8. ReceiversTyped
  <2>1. <<>> \in Seq(SeqNo) /\ DOMAIN <<>> = {}
    OBVIOUS
  <2>2. ReceiverTyped(tp_left.segments, NoReceiver) /\ ~NoReceiver.open
    BY <1>3, <2>1 DEF ReceiverTyped, NoReceiver
  <2> QED BY <1>2, <2>2 DEF ReceiversTyped
<1>9. ToSet(data) = {} /\ ToSet(acks) = {}
  BY <1>2 DEF ToSet
<1>10. PacketsTyped
  BY <1>2, <1>9 DEF PacketsTyped
<1>11. AcksWereReceived /\ (NeverIdle \/ NeverEarly)
  BY <1>1, <1>4, <1>9 DEF AcksWereReceived, Opened, Unopened, ReceiverActive, NeverIdle, NeverEarly, NothingAcked,
     NothingSent, FirstSent
<1> QED BY <1>5, <1>6, <1>7, <1>8, <1>10, <1>11 DEF TpInv

LEMMA TpStep == TpInv /\ [TpNext]_tpVars => TpInv'
<1>1. ASSUME TpInv, UNCHANGED tpVars PROVE TpInv'
  <2>1. LeftKept
    BY <1>1, LeftUnchanged DEF TpInv, tpVars
  <2>2. SameNumbers(tp, tp')
    BY <1>1 DEF TpInv, SenderTyped, SameNumbers, tpVars
  <2>3. notified'.reason = "COMPLETE" => notified'.bytes % PLEN = 0
    BY <1>1, UserNotTold DEF tpVars
  <2> QED BY <1>1, <2>1, <2>2, <2>3, ThreadKeeps DEF tpVars
<1>2. ASSUME TpInv, TpNext PROVE TpInv'
  BY <1>2, TpStarts, TpNotStarted, TpSendBegins, TpSegmentSent, TpSenderEnds, TpIsStopped, TpTimesOut,
     TpReceiverGone, TpDataDelivered, TpDataLost, TpAckDelivered DEF TpNext
<1> QED BY <1>1, <1>2

LEMMA TpInvReceived ==
  ASSUME TpInv
  PROVE  TotalWasReceived
<1>1. tp.pc = "loop" => tp.session # 0
  BY DEF TpInv, SenderTyped
<1> QED BY <1>1 DEF TpInv, SenderTyped, AcksWereReceived, Opened, ReceiverActive, Receiver, TotalWasReceived

\* What batadv_tp_batctl_notify() reports as transferred was received without a gap, whatever
\* packets are lost, late or retransmitted and whoever ends the test: for any length of
\* segments, windows, numbers of tests and sequence numbers that wrap, as long as a
\* receiver does not time out in a test whose sender times out too early.
THEOREM ReportsWereReceived ==
  ASSUME IdleOrEarly
  PROVE  TpSpec => []TotalWasReceived
<1>1. TpInit => TpInv
  BY TpStartsSound
<1>2. TpInv /\ [TpNext]_tpVars => TpInv'
  BY TpStep
<1>3. TpInv => TotalWasReceived
  BY TpInvReceived
<1> QED BY <1>1, <1>2, <1>3, PTL DEF TpSpec

=============================================================================
