----------------------------- MODULE FloodProofs ------------------------------
(***************************************************************************)
(* Broadcasts are flooded once and none is missed, for any gateways,       *)
(* frames and paths, any window and any number of sequence numbers.        *)
(*                                                                         *)
(* The window of an originator is near its copies, so that one that was    *)
(* taken stays marked while other copies of it are on their way, and       *)
(* nothing else is marked.                                                 *)
(***************************************************************************)
EXTENDS Flood, FiniteSetTheorems, TLAPS

Num == 0..(FL_SEQS - 1)
HALF == FL_SEQS \div 2

-----------------------------------------------------------------------------
(* Differences of sequence numbers. *)

LEMMA HalfOfAll ==
  HALF \in Nat \ {0} /\ FL_SEQS = 2 * HALF /\ FL_SEQS \in Nat \ {0}
BY FlAssumption DEF HALF

LEMMA ModThrice ==
  ASSUME NEW S \in Nat \ {0}, NEW z \in Nat, z < 3 * S
  PROVE  z % S = IF z < S THEN z ELSE IF z < 2 * S THEN z - S ELSE z - 2 * S
<1>1. CASE z < S
  BY <1>1
<1>2. CASE z >= S /\ z < 2 * S
  BY <1>2
<1>3. CASE z >= 2 * S
  BY <1>3
<1> QED BY <1>1, <1>2, <1>3

LEMMA DifferenceIs ==
  ASSUME NEW x \in Num, NEW y \in Num
  PROVE  /\ SeqDifference(x, y) \in Int
         /\ SeqDifference(x, y) = IF x - y < -HALF THEN x - y + FL_SEQS
                                  ELSE IF x - y >= HALF THEN x - y - FL_SEQS ELSE x - y
<1>1. /\ HALF \in Nat \ {0} /\ FL_SEQS = 2 * HALF /\ FL_SEQS \in Nat \ {0}
      /\ x \in Int /\ y \in Int /\ x >= 0 /\ y >= 0 /\ x < FL_SEQS /\ y < FL_SEQS
  BY HalfOfAll DEF Num
<1> DEFINE z == x - y + FL_SEQS + HALF
<1>2. z \in Int /\ z >= 0 /\ z < 3 * FL_SEQS /\ SeqDifference(x, y) = (z % FL_SEQS) - HALF
  BY <1>1 DEF SeqDifference, HALF
<1>3. z % FL_SEQS = IF z < FL_SEQS THEN z ELSE IF z < 2 * FL_SEQS THEN z - FL_SEQS ELSE z - 2 * FL_SEQS
  <2> HIDE DEF z
  <2>1. z \in Nat /\ z < 3 * FL_SEQS /\ FL_SEQS \in Nat \ {0}
    BY <1>1, <1>2
  <2> QED BY <2>1, ModThrice
<1>4. SeqDifference(x, y) = (IF z < FL_SEQS THEN z ELSE IF z < 2 * FL_SEQS THEN z - FL_SEQS ELSE z - 2 * FL_SEQS) - HALF
  BY <1>2, <1>3
<1>5. z = x - y + FL_SEQS + HALF
  OBVIOUS
<1> HIDE DEF z
<1> QED BY <1>1, <1>2, <1>4, <1>5

LEMMA DifferenceRange ==
  ASSUME NEW x \in Num, NEW y \in Num
  PROVE  /\ SeqDifference(x, y) \in (-HALF)..(HALF - 1)
         /\ SeqDifference(x, y) = 0 <=> x = y
BY DifferenceIs, HalfOfAll DEF Num

LEMMA DifferenceBack ==
  ASSUME NEW x \in Num, NEW y \in Num, SeqDifference(x, y) # -HALF
  PROVE  SeqDifference(y, x) = -SeqDifference(x, y)
BY DifferenceIs, HalfOfAll DEF Num

LEMMA DifferencesAdd ==
  ASSUME NEW x \in Num, NEW y \in Num, NEW z \in Num,
         SeqDifference(x, y) + SeqDifference(y, z) \in (-HALF)..(HALF - 1)
  PROVE  SeqDifference(x, z) = SeqDifference(x, y) + SeqDifference(y, z)
BY SMTT(30), DifferenceIs, HalfOfAll DEF Num

LEMMA SameDifference ==
  ASSUME NEW x \in Num, NEW y \in Num, NEW z \in Num, SeqDifference(x, z) = SeqDifference(y, z)
  PROVE  x = y
<1>1. CASE SeqDifference(y, z) # -HALF
  <2>1. SeqDifference(z, y) = -SeqDifference(y, z) /\ SeqDifference(y, z) \in Int
    BY <1>1, DifferenceBack, DifferenceRange
  <2>2. SeqDifference(x, z) + SeqDifference(z, y) = 0
    BY <2>1
  <2>3. SeqDifference(x, y) = 0
    BY <2>2, DifferencesAdd, HalfOfAll
  <2> QED BY <2>3, DifferenceRange
<1>2. CASE SeqDifference(y, z) = -HALF
  <2>1. x \in Nat /\ y \in Nat /\ z \in Nat /\ x < FL_SEQS /\ y < FL_SEQS /\ z < FL_SEQS
    BY HalfOfAll DEF Num
  <2>2. x - z = -HALF \/ x - z = HALF
    BY <1>2, <2>1, DifferenceIs, HalfOfAll
  <2>3. y - z = -HALF \/ y - z = HALF
    BY <1>2, <2>1, DifferenceIs, HalfOfAll
  <2> QED BY <2>1, <2>2, <2>3, HalfOfAll
<1> QED BY <1>1, <1>2

\* The next number.
LEMMA DifferenceOfNext ==
  ASSUME NEW x \in Num
  PROVE  (x + 1) % FL_SEQS \in Num /\ SeqDifference((x + 1) % FL_SEQS, x) = 1
<1>1. x + 1 \in Nat /\ x + 1 <= FL_SEQS /\ HALF \in Nat \ {0} /\ FL_SEQS = 2 * HALF /\ HALF >= 2
  BY HalfOfAll, FlAssumption DEF Num, HALF
<1>2. (x + 1) % FL_SEQS = IF x + 1 = FL_SEQS THEN 0 ELSE x + 1
  BY <1>1
<1>3. (x + 1) % FL_SEQS \in Num
  BY <1>1, <1>2 DEF Num
<1> DEFINE y == (x + 1) % FL_SEQS
<1>4. y \in Num /\ (y = x + 1 \/ (x + 1 = FL_SEQS /\ y = 0))
  BY <1>1, <1>2, <1>3
<1> HIDE DEF y
<1>5. SeqDifference(y, x) = 1
  BY <1>1, <1>4, DifferenceIs DEF Num
<1> QED BY <1>4, <1>5 DEF y

-----------------------------------------------------------------------------
(* The window of one originator.                                           *)
(*                                                                         *)
(* n is the next number of the originator, first the first one, b what the *)
(* node knows of it, and C the numbers of the copies that are on their way. *)
(* Before anything was heard the window is at 0, a number that means       *)
(* nothing; afterwards it is near all copies, and the numbers beyond it    *)
(* are on their way.                                                       *)

Flying(n, C) == \A s \in C : s \in Num /\ SeqDifference(n, s) \in 1..FL_WINDOW_SIZE

Unheard(n, first, b, C) ==
  /\ b.last = 0 /\ ~b.protected
  /\ SeqDifference(n, first) \in 0..FL_WINDOW_SIZE
  /\ \A s \in C : SeqDifference(s, first) >= 0
  /\ \A s \in Num : SeqDifference(s, first) >= 0 /\ SeqDifference(s, first) < SeqDifference(n, first)
                      => s \in C

Heard(n, b, C) ==
  /\ \A s \in C \cup {n} : SeqDifference(b.last, s) < FL_WINDOW_SIZE
  /\ SeqDifference(n, b.last) \in (-FL_WINDOW_SIZE)..(FL_WINDOW_SIZE + 1)
  /\ \A s \in Num : SeqDifference(s, b.last) > 0 /\ SeqDifference(s, b.last) < SeqDifference(n, b.last)
                      => s \in C

OrigNode == [last : Num, bits : SUBSET (0..(FL_WINDOW_SIZE - 1)), protected : BOOLEAN]

Window(n, first, b, C) ==
  /\ n \in Num /\ first \in Num /\ b \in OrigNode /\ Flying(n, C)
  /\ b.bits = {} => Unheard(n, first, b, C)
  /\ b.bits # {} => Heard(n, b, C)

LEMMA Sizes ==
  /\ FL_WINDOW_SIZE \in Nat \ {0} /\ FL_MAX_AGE \in Nat \ {0} /\ FL_SEQNO_RANGE \in Nat
  /\ FL_MAX_AGE <= FL_WINDOW_SIZE /\ FL_WINDOW_SIZE < FL_SEQNO_RANGE
  /\ HALF \in Nat /\ 2 * (FL_WINDOW_SIZE + 1) <= HALF
BY FlAssumption, HalfOfAll DEF HALF

\* A copy is sent that is not too far from the others.
LEMMA WindowSend ==
  ASSUME NEW n, NEW first, NEW b, NEW C, Window(n, first, b, C),
         \A s \in C : KeepsUp(SeqDifference(n, s))
  PROVE  Window((n + 1) % FL_SEQS, first, b, C \cup {n})
<1> DEFINE m == (n + 1) % FL_SEQS
<1>1. n \in Num /\ first \in Num /\ b \in OrigNode /\ m \in Num /\ SeqDifference(m, n) = 1
  BY DifferenceOfNext DEF Window
<1> HIDE DEF m
<1>2. ASSUME NEW s \in C
      PROVE  s \in Num /\ SeqDifference(n, s) \in 1..(FL_WINDOW_SIZE - 1)
  <2>1. s \in Num /\ SeqDifference(n, s) \in 1..FL_WINDOW_SIZE
    BY DEF Window, Flying
  <2>2. KeepsUp(SeqDifference(n, s))
    OBVIOUS
  <2> DEFINE d == SeqDifference(n, s)
  <2> HIDE DEF d
  <2> QED BY <2>1, <2>2, Sizes DEF KeepsUp, FarOff, d
<1>3. ASSUME NEW y \in Num, SeqDifference(n, y) \in (-HALF)..(HALF - 2)
      PROVE  SeqDifference(m, y) = SeqDifference(n, y) + 1
  <2>1. SeqDifference(m, n) + SeqDifference(n, y) \in (-HALF)..(HALF - 1)
    BY <1>1, <1>3, HalfOfAll
  <2> QED BY <1>1, <1>3, <2>1, DifferencesAdd
<1>4. Flying(m, C \cup {n})
  <2> SUFFICES ASSUME NEW s \in C \cup {n} PROVE s \in Num /\ SeqDifference(m, s) \in 1..FL_WINDOW_SIZE
    BY DEF Flying
  <2>1. CASE s = n
    BY <1>1, <2>1, Sizes
  <2>2. CASE s \in C
    <3>1. SeqDifference(n, s) \in (-HALF)..(HALF - 2)
      BY <1>2, <2>2, Sizes
    <3> QED BY <1>2, <1>3, <2>2, <3>1, Sizes
  <2> QED BY <2>1, <2>2
\* A number between two others that are one apart.
<1>5. ASSUME NEW y \in Num, NEW s \in Num, SeqDifference(n, y) \in (-HALF)..(HALF - 2),
             SeqDifference(s, y) < SeqDifference(m, y)
      PROVE  s = n \/ SeqDifference(s, y) < SeqDifference(n, y)
  <2>1. SeqDifference(m, y) = SeqDifference(n, y) + 1
    BY <1>3, <1>5
  <2>2. SeqDifference(s, y) \in Int /\ SeqDifference(n, y) \in Int
    BY <1>1, DifferenceRange
  <2>3. SUFFICES ASSUME SeqDifference(s, y) = SeqDifference(n, y) PROVE s = n
    BY <1>5, <2>1, <2>2
  <2> QED BY <1>1, <2>3, SameDifference
<1>6. CASE b.bits = {}
  <2>1. Unheard(n, first, b, C)
    BY <1>6 DEF Window
  <2>2. SeqDifference(n, first) \in 0..(FL_WINDOW_SIZE - 1)
    <3>1. SeqDifference(n, first) \in 0..FL_WINDOW_SIZE
      BY <2>1 DEF Unheard
    <3>2. SUFFICES ASSUME SeqDifference(n, first) = FL_WINDOW_SIZE PROVE FALSE
      BY <3>1, Sizes
    <3>3. SeqDifference(first, first) = 0
      BY <1>1, DifferenceRange
    <3>4. first \in C
      BY <1>1, <2>1, <3>2, <3>3, Sizes DEF Unheard
    <3> QED BY <1>2, <3>2, <3>4, Sizes
  <2>3. SeqDifference(m, first) = SeqDifference(n, first) + 1
    BY <1>1, <1>3, <2>2, Sizes
  <2>4. Unheard(m, first, b, C \cup {n})
    <3>1. \A s \in C \cup {n} : SeqDifference(s, first) >= 0
      BY <2>1, <2>2 DEF Unheard
    <3>2. ASSUME NEW s \in Num, SeqDifference(s, first) >= 0, SeqDifference(s, first) < SeqDifference(m, first)
          PROVE  s \in C \cup {n}
      <4>1. s = n \/ SeqDifference(s, first) < SeqDifference(n, first)
        BY <1>1, <1>5, <2>2, <3>2, Sizes
      <4> QED BY <2>1, <3>2, <4>1 DEF Unheard
    <3>3. SeqDifference(m, first) \in 0..FL_WINDOW_SIZE
      BY <2>2, <2>3, Sizes
    <3> QED BY <2>1, <3>1, <3>2, <3>3 DEF Unheard
  <2> QED BY <1>1, <1>4, <1>6, <2>4 DEF Window, m
<1>7. CASE b.bits # {}
  <2>1. Heard(n, b, C) /\ b.last \in Num
    BY <1>1, <1>7 DEF Window, OrigNode
  <2> DEFINE last == b.last
  <2>2. SeqDifference(n, last) \in (-FL_WINDOW_SIZE)..FL_WINDOW_SIZE
    <3>1. SeqDifference(n, last) \in (-FL_WINDOW_SIZE)..(FL_WINDOW_SIZE + 1)
      BY <2>1 DEF Heard
    <3>2. SUFFICES ASSUME SeqDifference(n, last) = FL_WINDOW_SIZE + 1 PROVE FALSE
      BY <3>1, Sizes
    <3> DEFINE s == (last + 1) % FL_SEQS
    <3>3. s \in Num /\ SeqDifference(s, last) = 1
      BY <2>1, DifferenceOfNext
    <3> HIDE DEF s
    <3>4. s \in C
      BY <2>1, <3>2, <3>3, Sizes DEF Heard
    <3>5. SeqDifference(n, s) \in 1..(FL_WINDOW_SIZE - 1)
      BY <1>2, <3>4
    <3>6. SeqDifference(n, last) = SeqDifference(n, s) + SeqDifference(s, last)
      <4>1. SeqDifference(n, s) + SeqDifference(s, last) \in (-HALF)..(HALF - 1)
        BY <3>3, <3>5, Sizes
      <4> QED BY <1>1, <2>1, <3>3, <4>1, DifferencesAdd
    <3> QED BY <3>2, <3>3, <3>5, <3>6, Sizes
  <2>3. SeqDifference(m, last) = SeqDifference(n, last) + 1
    BY <1>3, <2>1, <2>2, Sizes
  <2>4. SeqDifference(last, m) < FL_WINDOW_SIZE
    <3>1. SeqDifference(last, n) < FL_WINDOW_SIZE /\ SeqDifference(last, n) \in Int
      BY <1>1, <2>1, DifferenceRange DEF Heard
    <3>2. SeqDifference(last, m) = -SeqDifference(m, last)
      <4>1. SeqDifference(m, last) # -HALF
        BY <2>2, <2>3, Sizes
      <4> QED BY <1>1, <2>1, <4>1, DifferenceBack
    <3>3. SeqDifference(last, n) = -SeqDifference(n, last)
      <4>1. SeqDifference(n, last) # -HALF
        BY <2>2, Sizes
      <4> QED BY <1>1, <2>1, <4>1, DifferenceBack
    <3> QED BY <2>2, <2>3, <3>1, <3>2, <3>3, Sizes
  <2>5. Heard(m, b, C \cup {n})
    <3>1. \A s \in (C \cup {n}) \cup {m} : SeqDifference(b.last, s) < FL_WINDOW_SIZE
      BY <2>1, <2>4 DEF Heard
    <3>2. ASSUME NEW s \in Num, SeqDifference(s, last) > 0, SeqDifference(s, last) < SeqDifference(m, last)
          PROVE  s \in C \cup {n}
      <4>1. s = n \/ SeqDifference(s, last) < SeqDifference(n, last)
        BY <1>5, <2>1, <2>2, <3>2, Sizes
      <4> QED BY <2>1, <3>2, <4>1 DEF Heard
    <3> QED BY <2>2, <2>3, <3>1, <3>2, Sizes DEF Heard
  <2> QED BY <1>1, <1>4, <1>7, <2>5 DEF Window, m
<1> QED BY <1>6, <1>7

\* The first number is not one from which the empty window at 0 is heard a little ahead.
Apart(first) == first \notin (FL_SEQS - 2 * FL_WINDOW_SIZE + 2)..(FL_SEQS - FL_WINDOW_SIZE)

\* Copies are less than a window from each other.
LEMMA CopiesNear ==
  ASSUME NEW n \in Num, NEW C, Flying(n, C), NEW s \in C
  PROVE  /\ s \in Num /\ SeqDifference(s, n) = -SeqDifference(n, s)
         /\ SeqDifference(n, s) \in 1..FL_WINDOW_SIZE
         /\ SeqDifference(s, s) = 0
         /\ \A m \in C : SeqDifference(s, m) = SeqDifference(n, m) - SeqDifference(n, s)
<1>1. \A m \in C : m \in Num /\ SeqDifference(n, m) \in 1..FL_WINDOW_SIZE
  BY DEF Flying
<1>2. SeqDifference(s, n) = -SeqDifference(n, s)
  <2>1. SeqDifference(n, s) # -HALF
    BY <1>1, Sizes
  <2> QED BY <1>1, <2>1, DifferenceBack
<1>3. ASSUME NEW m \in C
      PROVE  SeqDifference(s, m) = SeqDifference(n, m) - SeqDifference(n, s)
  <2>1. SeqDifference(s, n) + SeqDifference(n, m) \in (-HALF)..(HALF - 1)
    BY <1>1, <1>2, Sizes
  <2>2. SeqDifference(s, m) = SeqDifference(s, n) + SeqDifference(n, m)
    BY <1>1, <2>1, DifferencesAdd
  <2> QED BY <1>1, <1>2, <2>2
<1> QED BY <1>1, <1>2, <1>3, DifferenceRange

\* The window moves to a copy beyond which all are on their way.
LEMMA WindowMoves ==
  ASSUME NEW n \in Num, NEW C, Flying(n, C), NEW s \in C, NEW v, v.last = s,
         \A t \in Num : SeqDifference(t, s) > 0 /\ SeqDifference(t, s) < SeqDifference(n, s) => t \in C
  PROVE  Heard(n, v, C) /\ Heard(n, v, C \ {s})
<1>1. \A m \in C \cup {n} : SeqDifference(s, m) < FL_WINDOW_SIZE
  <2>1. SeqDifference(s, n) < FL_WINDOW_SIZE
    BY CopiesNear, Sizes
  <2>2. ASSUME NEW m \in C PROVE SeqDifference(s, m) < FL_WINDOW_SIZE
    <3>1. SeqDifference(n, m) \in 1..FL_WINDOW_SIZE
      BY CopiesNear
    <3> QED BY <3>1, CopiesNear, Sizes
  <2> QED BY <2>1, <2>2
<1>2. SeqDifference(n, s) \in (-FL_WINDOW_SIZE)..(FL_WINDOW_SIZE + 1)
  BY CopiesNear, Sizes
<1>3. \A t \in Num : SeqDifference(t, s) > 0 => t # s
  BY CopiesNear
<1> QED BY <1>1, <1>2, <1>3 DEF Heard

\* A copy that is dropped was not beyond the window.
LEMMA WindowDrop ==
  ASSUME NEW n, NEW first, NEW b, NEW C, Window(n, first, b, C), NEW s \in C,
         \/ batadv_test_bit(b, s)
         \/ batadv_window_protected(b, SeqDifference(s, b.last))
  PROVE  Window(n, first, b, C \ {s})
<1>1. n \in Num /\ b.last \in Num /\ b.bits \subseteq 0..(FL_WINDOW_SIZE - 1) /\ Flying(n, C)
  BY DEF Window, OrigNode
<1>2. b.bits # {}
  BY DEF Window, Unheard, batadv_test_bit, batadv_window_protected
<1>3. Heard(n, b, C)
  BY <1>2 DEF Window
<1>4. s \in Num /\ SeqDifference(n, s) \in 1..FL_WINDOW_SIZE
  BY <1>1, CopiesNear
<1> DEFINE d == SeqDifference(s, b.last)
<1>5. d <= FL_WINDOW_SIZE /\ d \in Int
  <2>1. SeqDifference(n, b.last) \in (-FL_WINDOW_SIZE)..(FL_WINDOW_SIZE + 1)
    BY <1>3 DEF Heard
  <2>2. SeqDifference(s, n) = -SeqDifference(n, s)
    BY <1>1, CopiesNear
  <2>3. SeqDifference(s, n) + SeqDifference(n, b.last) \in (-HALF)..(HALF - 1)
    BY <1>4, <2>1, <2>2, Sizes
  <2>4. d = SeqDifference(s, n) + SeqDifference(n, b.last)
    BY <1>1, <1>4, <2>3, DifferencesAdd
  <2> QED BY <1>4, <2>1, <2>2, <2>4, Sizes
<1>6. d <= 0
  <2>1. CASE batadv_test_bit(b, s)
    <3>1. SeqDifference(b.last, s) \in 0..(FL_WINDOW_SIZE - 1)
      BY <1>1, <2>1 DEF batadv_test_bit
    <3>2. SeqDifference(b.last, s) # -HALF
      BY <3>1, Sizes
    <3>3. d = -SeqDifference(b.last, s)
      BY <1>1, <1>4, <3>2, DifferenceBack
    <3> QED BY <3>1, <3>3
  <2>2. CASE batadv_window_protected(b, d)
    BY <1>5, <2>2, Sizes DEF batadv_window_protected, FarOff
  <2> QED BY <2>1, <2>2
<1>7. Heard(n, b, C \ {s})
  <2>1. \A t \in Num : SeqDifference(t, b.last) > 0 => t # s
    BY <1>5, <1>6
  <2> HIDE DEF d
  <2> QED BY <1>3, <2>1 DEF Heard
<1>8. Flying(n, C \ {s})
  BY <1>1 DEF Flying
<1> QED BY <1>2, <1>7, <1>8 DEF Window

\* What the node knows after a copy with number s that is d from the last one.
Marked(b, d, s, p) == [batadv_bit_get_packet(b, d, s) EXCEPT !.protected = p]

LEMMA MarkedIs ==
  ASSUME NEW b \in OrigNode, NEW s \in Num, NEW d \in Int, NEW p \in BOOLEAN
  PROVE  /\ Marked(b, d, s, p) \in OrigNode /\ Marked(b, d, s, p).protected = p
         /\ d <= 0 /\ d > -FL_WINDOW_SIZE =>
              Marked(b, d, s, p).last = b.last /\ Marked(b, d, s, p).bits = b.bits \cup {-d}
         /\ d > 0 /\ d < FL_WINDOW_SIZE =>
              /\ Marked(b, d, s, p).last = s
              /\ Marked(b, d, s, p).bits = {0} \cup {i \in Shifted(b.bits, d) : i < FL_WINDOW_SIZE}
         /\ d <= -FL_WINDOW_SIZE \/ d >= FL_WINDOW_SIZE =>
              Marked(b, d, s, p).last = s /\ Marked(b, d, s, p).bits = {0}
<1> DEFINE g == batadv_bit_get_packet(b, d, s)  v == Marked(b, d, s, p)
<1>1. ASSUME NEW l \in Num, NEW bits \in SUBSET (0..(FL_WINDOW_SIZE - 1)),
             g \in [last : {l}, bits : {bits}, protected : BOOLEAN]
      PROVE  v \in OrigNode /\ v.last = l /\ v.bits = bits /\ v.protected = p
  <2>1. v = [g EXCEPT !.protected = p]
    BY DEF Marked
  <2> HIDE DEF g, v
  <2> QED BY <1>1, <2>1 DEF OrigNode
<1>2. /\ b.last \in Num /\ b.bits \in SUBSET (0..(FL_WINDOW_SIZE - 1))
      /\ b \in [last : {b.last}, bits : {b.bits}, protected : BOOLEAN]
  BY DEF OrigNode
<1>3. CASE d <= 0 /\ d > -FL_WINDOW_SIZE
  <2> DEFINE bits == b.bits \cup {-d}
  <2>1. g = [b EXCEPT !.bits = bits]
    BY <1>3 DEF batadv_bit_get_packet
  <2>2. bits \in SUBSET (0..(FL_WINDOW_SIZE - 1))
    BY <1>2, <1>3, Sizes
  <2> HIDE DEF bits, g
  <2>3. g \in [last : {b.last}, bits : {bits}, protected : BOOLEAN]
    BY <1>2, <2>1
  <2>4. v \in OrigNode /\ v.last = b.last /\ v.bits = bits /\ v.protected = p
    BY <1>1, <1>2, <2>2, <2>3
  <2> HIDE DEF v
  <2>5. v.bits = b.bits \cup {-d}
    BY <2>4 DEF bits
  <2> QED BY <1>3, <2>4, <2>5, Sizes DEF v
<1>4. CASE d > 0 /\ d < FL_WINDOW_SIZE
  <2> DEFINE bits == {0} \cup {i \in Shifted(b.bits, d) : i < FL_WINDOW_SIZE}
  <2>1. g = [b EXCEPT !.last = s, !.bits = bits]
    BY <1>4 DEF batadv_bit_get_packet
  <2>2. bits \in SUBSET (0..(FL_WINDOW_SIZE - 1))
    BY <1>2, <1>4, Sizes DEF Shifted
  <2> HIDE DEF bits, g
  <2>3. g \in [last : {s}, bits : {bits}, protected : BOOLEAN]
    BY <1>2, <2>1
  <2>4. v \in OrigNode /\ v.last = s /\ v.bits = bits /\ v.protected = p
    BY <1>1, <1>2, <2>2, <2>3
  <2> HIDE DEF v
  <2>5. v.bits = {0} \cup {i \in Shifted(b.bits, d) : i < FL_WINDOW_SIZE}
    BY <2>4 DEF bits
  <2> QED BY <1>4, <2>4, <2>5, Sizes DEF v
<1>5. CASE d <= -FL_WINDOW_SIZE \/ d >= FL_WINDOW_SIZE
  <2> DEFINE bits == {0}
  <2>1. g = [b EXCEPT !.last = s, !.bits = bits]
    BY <1>5, Sizes DEF batadv_bit_get_packet
  <2>2. bits \in SUBSET (0..(FL_WINDOW_SIZE - 1))
    BY Sizes
  <2> HIDE DEF bits, g
  <2>3. g \in [last : {s}, bits : {bits}, protected : BOOLEAN]
    BY <1>2, <2>1
  <2>4. v \in OrigNode /\ v.last = s /\ v.bits = bits /\ v.protected = p
    BY <1>1, <1>2, <2>2, <2>3
  <2> HIDE DEF v
  <2>5. v.bits = {0}
    BY <2>4 DEF bits
  <2> QED BY <1>5, <2>4, <2>5, Sizes DEF v
<1> QED BY <1>3, <1>4, <1>5, Sizes

\* The first copy that is heard.
LEMMA WindowFirst ==
  ASSUME NEW n, NEW first, NEW b, NEW C, Window(n, first, b, C), b.bits = {}, Apart(first),
         NEW s \in C, NEW v, v = Marked(b, SeqDifference(s, b.last), s, v.protected), v.protected \in BOOLEAN
  PROVE  /\ v \in OrigNode /\ v.bits # {} /\ SeqDifference(v.last, s) \in v.bits
         /\ Heard(n, v, C) /\ Heard(n, v, C \ {s})
<1>1. n \in Num /\ first \in Num /\ b \in OrigNode /\ Flying(n, C) /\ Unheard(n, first, b, C) /\ b.last = 0
  BY DEF Window, Unheard
<1>2. /\ \A m \in C : m \in Num /\ SeqDifference(m, n) = -SeqDifference(n, m)
                      /\ SeqDifference(n, m) \in 1..FL_WINDOW_SIZE
      /\ SeqDifference(s, s) = 0
  BY <1>1, CopiesNear
<1>3. SeqDifference(n, first) \in 0..FL_WINDOW_SIZE
  BY <1>1 DEF Unheard
<1>4. ASSUME NEW m \in C
      PROVE  SeqDifference(m, first) \in 0..(FL_WINDOW_SIZE - 1)
  <2>1. SeqDifference(m, n) + SeqDifference(n, first) \in (-HALF)..(HALF - 1)
    BY <1>2, <1>3, Sizes
  <2>2. SeqDifference(m, first) = SeqDifference(m, n) + SeqDifference(n, first)
    BY <1>1, <1>2, <2>1, DifferencesAdd
  <2>3. SeqDifference(m, first) >= 0
    BY <1>1 DEF Unheard
  <2> QED BY <1>2, <1>3, <2>2, <2>3, Sizes
<1> DEFINE d == SeqDifference(s, 0)
<1>5. 0 \in Num /\ d \in Int /\ d \in (-HALF)..(HALF - 1)
  <2>1. 0 \in Num
    BY HalfOfAll DEF Num
  <2> QED BY <1>2, <2>1, DifferenceRange, HalfOfAll
<1>6. v = Marked(b, d, s, v.protected)
  BY <1>1
<1>7. CASE d <= 0 /\ d > -FL_WINDOW_SIZE
  <2>1. v \in OrigNode /\ v.last = 0 /\ v.bits = b.bits \cup {-d}
    BY <1>1, <1>2, <1>5, <1>6, <1>7, MarkedIs
  <2>2. SeqDifference(0, s) = -d
    <3>1. d # -HALF
      BY <1>7, Sizes
    <3> QED BY <1>2, <1>5, <3>1, DifferenceBack
  <2>3. SeqDifference(first, s) = -SeqDifference(s, first)
    <3>1. SeqDifference(s, first) # -HALF
      BY <1>4, Sizes
    <3> QED BY <1>1, <1>2, <3>1, DifferenceBack
  <2>4. SeqDifference(first, 0) \in (-(2 * FL_WINDOW_SIZE - 2))..0
    <3>1. SeqDifference(s, first) \in 0..(FL_WINDOW_SIZE - 1)
      BY <1>4
    <3>2. SeqDifference(first, s) + SeqDifference(s, 0) \in (-(2 * FL_WINDOW_SIZE - 2))..0
      BY <1>5, <1>7, <2>3, <3>1, Sizes
    <3>3. SeqDifference(first, s) + SeqDifference(s, 0) \in (-HALF)..(HALF - 1)
      BY <3>2, Sizes
    <3>4. SeqDifference(first, 0) = SeqDifference(first, s) + SeqDifference(s, 0)
      BY <1>1, <1>2, <1>5, <3>3, DifferencesAdd
    <3> QED BY <3>2, <3>4
  <2>5. SeqDifference(first, 0) \in (-(FL_WINDOW_SIZE - 1))..0
    <3>1. first \in Nat /\ first < FL_SEQS
      BY <1>1, HalfOfAll DEF Num
    <3>2. SeqDifference(first, 0) = IF first >= HALF THEN first - FL_SEQS ELSE first
      BY <1>1, <1>5, <3>1, DifferenceIs, HalfOfAll
    <3>3. first \notin (FL_SEQS - 2 * FL_WINDOW_SIZE + 2)..(FL_SEQS - FL_WINDOW_SIZE)
      BY DEF Apart
    <3> QED BY <2>4, <3>1, <3>2, <3>3, HalfOfAll, Sizes
  <2>6. ASSUME NEW m \in Num, SeqDifference(m, first) \in 0..FL_WINDOW_SIZE
        PROVE  SeqDifference(0, m) < FL_WINDOW_SIZE
    <3>1. SeqDifference(m, first) + SeqDifference(first, 0) \in (-(FL_WINDOW_SIZE - 1))..FL_WINDOW_SIZE
      BY <2>5, <2>6, Sizes
    <3>2. SeqDifference(m, first) + SeqDifference(first, 0) \in (-HALF)..(HALF - 1)
      BY <3>1, Sizes
    <3>3. SeqDifference(m, 0) \in (-(FL_WINDOW_SIZE - 1))..FL_WINDOW_SIZE
      BY <1>1, <1>5, <3>1, <3>2, DifferencesAdd
    <3>4. SeqDifference(m, 0) # -HALF
      BY <3>3, Sizes
    <3>5. SeqDifference(0, m) = -SeqDifference(m, 0)
      BY <1>5, <3>4, DifferenceBack
    <3> QED BY <3>3, <3>5, Sizes
  <2>7. \A m \in C \cup {n} : SeqDifference(0, m) < FL_WINDOW_SIZE
    BY <1>1, <1>2, <1>3, <1>4, <2>6, Sizes
  <2>8. SeqDifference(n, 0) \in (-FL_WINDOW_SIZE)..(FL_WINDOW_SIZE + 1)
    <3>1. SeqDifference(n, s) \in 1..FL_WINDOW_SIZE
      BY <1>2
    <3>2. SeqDifference(n, s) + SeqDifference(s, 0) \in (-FL_WINDOW_SIZE)..(FL_WINDOW_SIZE + 1)
      BY <1>5, <1>7, <3>1, Sizes
    <3>3. SeqDifference(n, s) + SeqDifference(s, 0) \in (-HALF)..(HALF - 1)
      BY <3>2, Sizes
    <3> QED BY <1>1, <1>2, <1>5, <3>2, <3>3, DifferencesAdd
  <2>9. ASSUME NEW t \in Num, SeqDifference(t, 0) > 0, SeqDifference(t, 0) < SeqDifference(n, 0)
        PROVE  t \in C /\ t # s
    <3>1. SeqDifference(0, first) = -SeqDifference(first, 0)
      <4>1. SeqDifference(first, 0) # -HALF
        BY <2>5, Sizes
      <4> QED BY <1>1, <1>5, <4>1, DifferenceBack
    <3>2. SeqDifference(t, 0) \in 1..FL_WINDOW_SIZE
      BY <1>5, <2>8, <2>9, DifferenceRange, Sizes
    <3>3. SeqDifference(t, first) = SeqDifference(t, 0) + SeqDifference(0, first)
      <4>1. SeqDifference(t, 0) + SeqDifference(0, first) \in (-HALF)..(HALF - 1)
        BY <2>5, <3>1, <3>2, Sizes
      <4> QED BY <1>1, <1>5, <4>1, DifferencesAdd
    <3>4. SeqDifference(n, first) = SeqDifference(n, 0) + SeqDifference(0, first)
      <4>1. SeqDifference(n, 0) + SeqDifference(0, first) \in (-HALF)..(HALF - 1)
        BY <2>5, <2>8, <3>1, Sizes
      <4> QED BY <1>1, <1>5, <4>1, DifferencesAdd
    <3>5. SeqDifference(t, first) >= 0 /\ SeqDifference(t, first) < SeqDifference(n, first)
      BY <2>5, <2>8, <2>9, <3>1, <3>2, <3>3, <3>4, Sizes
    <3>6. t \in C
      BY <1>1, <3>5 DEF Unheard
    <3> QED BY <1>5, <1>7, <2>9, <3>6
  <2>10. Heard(n, v, C) /\ Heard(n, v, C \ {s})
    <3> HIDE DEF d
    <3> QED BY <2>1, <2>7, <2>8, <2>9 DEF Heard
  <2> QED BY <2>1, <2>2, <2>10
<1>8. CASE d > 0 \/ d <= -FL_WINDOW_SIZE
  <2>1. v \in OrigNode /\ v.last = s /\ 0 \in v.bits
    <3>1. CASE d > 0 /\ d < FL_WINDOW_SIZE
      BY <1>1, <1>2, <1>5, <1>6, <3>1, MarkedIs
    <3>2. CASE d <= -FL_WINDOW_SIZE \/ d >= FL_WINDOW_SIZE
      BY <1>1, <1>2, <1>5, <1>6, <3>2, MarkedIs
    <3> QED BY <1>5, <1>8, <3>1, <3>2, Sizes
  <2>2. ASSUME NEW t \in Num, SeqDifference(t, s) > 0, SeqDifference(t, s) < SeqDifference(n, s)
        PROVE  t \in C
    <3>1. SeqDifference(s, first) \in 0..(FL_WINDOW_SIZE - 1) /\ SeqDifference(n, s) \in 1..FL_WINDOW_SIZE
      BY <1>2, <1>4
    <3>2. SeqDifference(t, s) \in 1..FL_WINDOW_SIZE
      BY <1>2, <2>2, <3>1, DifferenceRange, Sizes
    <3>3. SeqDifference(t, first) = SeqDifference(t, s) + SeqDifference(s, first)
      <4>1. SeqDifference(t, s) + SeqDifference(s, first) \in (-HALF)..(HALF - 1)
        BY <3>1, <3>2, Sizes
      <4> QED BY <1>1, <1>2, <4>1, DifferencesAdd
    <3>4. SeqDifference(n, first) = SeqDifference(n, s) + SeqDifference(s, first)
      <4>1. SeqDifference(n, s) + SeqDifference(s, first) \in (-HALF)..(HALF - 1)
        BY <3>1, Sizes
      <4> QED BY <1>1, <1>2, <4>1, DifferencesAdd
    <3>5. SeqDifference(t, first) >= 0 /\ SeqDifference(t, first) < SeqDifference(n, first)
      BY <2>2, <3>1, <3>2, <3>3, <3>4
    <3> QED BY <1>1, <3>5 DEF Unheard
  <2>3. Heard(n, v, C) /\ Heard(n, v, C \ {s})
    BY <1>1, <2>1, <2>2, WindowMoves
  <2>4. SeqDifference(v.last, s) = 0
    BY <1>2, <2>1
  <2>5. v.bits # {} /\ SeqDifference(v.last, s) \in v.bits
    BY <2>1, <2>4
  <2> QED BY <2>1, <2>3, <2>5
<1>9. (d <= 0 /\ d > -FL_WINDOW_SIZE) \/ d > 0 \/ d <= -FL_WINDOW_SIZE
  <2> HIDE DEF d
  <2> QED BY <1>5, Sizes
<1> HIDE DEF d
<1> QED BY <1>7, <1>8, <1>9

\* A copy where others were heard: it is near the window.
LEMMA NearWindow ==
  ASSUME NEW n \in Num, NEW b \in OrigNode, NEW C, Flying(n, C), Heard(n, b, C), NEW s \in C
  PROVE  SeqDifference(s, b.last) \in (-(FL_WINDOW_SIZE - 1))..FL_WINDOW_SIZE
<1>1. b.last \in Num /\ s \in Num /\ SeqDifference(s, n) = -SeqDifference(n, s)
      /\ SeqDifference(n, s) \in 1..FL_WINDOW_SIZE
  BY CopiesNear DEF OrigNode
<1>2. SeqDifference(n, b.last) \in (-FL_WINDOW_SIZE)..(FL_WINDOW_SIZE + 1)
  BY DEF Heard
<1>3. SeqDifference(s, n) + SeqDifference(n, b.last) \in (-(2 * FL_WINDOW_SIZE))..FL_WINDOW_SIZE
  BY <1>1, <1>2, Sizes
<1>4. SeqDifference(s, n) + SeqDifference(n, b.last) \in (-HALF)..(HALF - 1)
  BY <1>3, Sizes
<1>5. SeqDifference(s, b.last) = SeqDifference(s, n) + SeqDifference(n, b.last)
  BY <1>1, <1>4, DifferencesAdd
<1>6. SeqDifference(s, b.last) \in (-(2 * FL_WINDOW_SIZE))..FL_WINDOW_SIZE
  BY <1>3, <1>5
<1>7. SeqDifference(b.last, s) = -SeqDifference(s, b.last)
  <2>1. SeqDifference(s, b.last) # -HALF
    BY <1>6, Sizes
  <2> QED BY <1>1, <2>1, DifferenceBack
<1>8. SeqDifference(b.last, s) < FL_WINDOW_SIZE
  BY DEF Heard
<1> QED BY <1>6, <1>7, <1>8, Sizes

\* A later copy.
LEMMA WindowNext ==
  ASSUME NEW n, NEW first, NEW b, NEW C, Window(n, first, b, C), b.bits # {},
         NEW s \in C, NEW v, v = Marked(b, SeqDifference(s, b.last), s, v.protected), v.protected \in BOOLEAN
  PROVE  /\ v \in OrigNode /\ v.bits # {} /\ SeqDifference(v.last, s) \in v.bits
         /\ Heard(n, v, C) /\ Heard(n, v, C \ {s})
         /\ \A m \in C : SeqDifference(b.last, m) \in b.bits => SeqDifference(v.last, m) \in v.bits
<1>1. n \in Num /\ b \in OrigNode /\ Flying(n, C) /\ Heard(n, b, C)
      /\ b.last \in Num /\ b.bits \subseteq 0..(FL_WINDOW_SIZE - 1)
  BY DEF Window, OrigNode
<1>2. s \in Num /\ SeqDifference(s, s) = 0 /\ SeqDifference(n, s) \in 1..FL_WINDOW_SIZE
  BY <1>1, CopiesNear
<1> DEFINE d == SeqDifference(s, b.last)
<1>3. d \in Int /\ d >= -(FL_WINDOW_SIZE - 1) /\ d <= FL_WINDOW_SIZE
  BY <1>1, NearWindow, Sizes
<1>4. SeqDifference(b.last, s) = -d
  <2>1. d # -HALF
    BY <1>3, Sizes
  <2> QED BY <1>1, <1>2, <2>1, DifferenceBack
<1>5. v = Marked(b, d, s, v.protected)
  OBVIOUS
<1>6. CASE d <= 0
  <2>1. v \in OrigNode /\ v.last = b.last /\ v.bits = b.bits \cup {-d}
    <3>1. d > -FL_WINDOW_SIZE
      BY <1>3, Sizes
    <3> QED BY <1>1, <1>2, <1>3, <1>5, <1>6, <3>1, MarkedIs
  <2>2. \A t \in Num : SeqDifference(t, b.last) > 0 => t # s
    BY <1>3, <1>6
  <2> HIDE DEF d
  <2>3. Heard(n, v, C) /\ Heard(n, v, C \ {s})
    BY <1>1, <2>1, <2>2 DEF Heard
  <2> QED BY <1>4, <2>1, <2>3
<1>7. CASE d > 0
  <2>1. v \in OrigNode /\ v.last = s /\ 0 \in v.bits
    <3>1. CASE d < FL_WINDOW_SIZE
      BY <1>1, <1>2, <1>3, <1>5, <1>7, <3>1, MarkedIs
    <3>2. CASE d >= FL_WINDOW_SIZE
      BY <1>1, <1>2, <1>3, <1>5, <1>7, <3>2, MarkedIs
    <3> QED BY <1>3, <3>1, <3>2, Sizes
  <2>2. ASSUME NEW t \in Num, SeqDifference(t, s) > 0, SeqDifference(t, s) < SeqDifference(n, s)
        PROVE  t \in C
    <3>1. SeqDifference(t, s) \in 1..FL_WINDOW_SIZE
      BY <1>2, <2>2, DifferenceRange, Sizes
    <3>2. SeqDifference(t, b.last) = SeqDifference(t, s) + d
      <4>1. SeqDifference(t, s) + d \in (-HALF)..(HALF - 1)
        BY <1>3, <1>7, <3>1, Sizes
      <4> QED BY <1>1, <1>2, <4>1, DifferencesAdd
    <3>3. SeqDifference(n, b.last) = SeqDifference(n, s) + d
      <4>1. SeqDifference(n, s) + d \in (-HALF)..(HALF - 1)
        BY <1>2, <1>3, <1>7, Sizes
      <4> QED BY <1>1, <1>2, <4>1, DifferencesAdd
    <3>4. SeqDifference(t, b.last) > 0 /\ SeqDifference(t, b.last) < SeqDifference(n, b.last)
      BY <1>2, <1>3, <1>7, <2>2, <3>1, <3>2, <3>3
    <3> QED BY <1>1, <3>4 DEF Heard
  <2>3. Heard(n, v, C) /\ Heard(n, v, C \ {s})
    BY <1>1, <2>1, <2>2, WindowMoves
  <2>4. SeqDifference(v.last, s) \in v.bits
    BY <1>2, <2>1
  <2>5. ASSUME NEW m \in C, SeqDifference(b.last, m) \in b.bits
        PROVE  SeqDifference(v.last, m) \in v.bits
    <3>1. SeqDifference(b.last, m) \in 0..(FL_WINDOW_SIZE - 1)
      BY <1>1, <2>5
    <3>2. SeqDifference(s, m) = d + SeqDifference(b.last, m)
      <4>1. d + SeqDifference(b.last, m) \in (-HALF)..(HALF - 1)
        BY <1>3, <1>7, <3>1, Sizes
      <4>2. m \in Num
        BY <1>1, CopiesNear
      <4> QED BY <1>1, <1>2, <4>1, <4>2, DifferencesAdd
    <3>3. SeqDifference(s, m) < FL_WINDOW_SIZE
      <4>1. SeqDifference(s, m) = SeqDifference(n, m) - SeqDifference(n, s)
        BY <1>1, CopiesNear
      <4>2. SeqDifference(n, m) \in 1..FL_WINDOW_SIZE
        BY <1>1, CopiesNear
      <4> QED BY <1>2, <4>1, <4>2, Sizes
    <3>4. d < FL_WINDOW_SIZE
      BY <1>3, <3>1, <3>2, <3>3, Sizes
    <3>5. v.last = s /\ v.bits = {0} \cup {i \in Shifted(b.bits, d) : i < FL_WINDOW_SIZE}
      BY <1>1, <1>2, <1>3, <1>5, <1>7, <3>4, MarkedIs
    <3>6. SeqDifference(s, m) \in Shifted(b.bits, d)
      <4>1. SeqDifference(b.last, m) + d = SeqDifference(s, m)
        BY <1>3, <3>1, <3>2
      <4> HIDE DEF d
      <4> QED BY <2>5, <4>1 DEF Shifted
    <3> QED BY <3>3, <3>5, <3>6
  <2>6. v.bits # {}
    BY <2>1
  <2> QED BY <2>1, <2>3, <2>4, <2>5, <2>6
<1>8. d <= 0 \/ d > 0
  BY <1>3
<1> HIDE DEF d
<1> QED BY <1>6, <1>7, <1>8

\* A copy that is taken is marked, and those that were marked and are on their way remain so.
LEMMA WindowTake ==
  ASSUME NEW n, NEW first, NEW b, NEW C, Window(n, first, b, C), Apart(first),
         NEW s \in C, NEW v, v = Marked(b, SeqDifference(s, b.last), s, v.protected), v.protected \in BOOLEAN
  PROVE  /\ Window(n, first, v, C) /\ Window(n, first, v, C \ {s})
         /\ SeqDifference(v.last, s) \in v.bits
         /\ \A m \in C : SeqDifference(b.last, m) \in b.bits => SeqDifference(v.last, m) \in v.bits
<1>1. /\ v \in OrigNode /\ v.bits # {} /\ SeqDifference(v.last, s) \in v.bits
      /\ Heard(n, v, C) /\ Heard(n, v, C \ {s})
      /\ \A m \in C : SeqDifference(b.last, m) \in b.bits => SeqDifference(v.last, m) \in v.bits
  <2>1. CASE b.bits = {}
    BY <2>1, WindowFirst
  <2>2. CASE b.bits # {}
    BY <2>2, WindowNext
  <2> QED BY <2>1, <2>2
<1>2. n \in Num /\ first \in Num /\ Flying(n, C) /\ Flying(n, C \ {s})
  BY DEF Window, Flying
<1> QED BY <1>1, <1>2 DEF Window

-----------------------------------------------------------------------------
(* The invariant: the copies of a frame are of one kind and have one number, *)
(* those of a frame that was taken have their number marked, and a unicast   *)
(* has one copy.                                                             *)

\* No restarts and first numbers far enough from the first window; where the list of
\* duplicates is said to hold all that matters, no timeouts and room for all frames; where
\* the frames are said to be complete, room in the send queue.
Regular ==
  /\ fl_left.restarts = 0
  /\ \A o \in FlOrig : Apart(fl_left.seqno[o])
  /\ fl_left.timely => /\ fl_left.timeouts = 0
                       /\ IsFiniteSet(fl_left.frames) /\ Cardinality(fl_left.frames) <= DUPLIST_SIZE
  /\ fl_left.complete => fl_left.busy = 0

Copy == [orig : FlOrig, kind : {"BCAST", "UNICAST"}, seqno : Num, crc : fl_left.frames, path : fl_left.paths]
Entry == [crc : fl_left.frames, orig : FlOrig \cup {"none"}]

FlTypes ==
  /\ fl_left \in FlScenario /\ Regular
  /\ bcast_seqno \in [FlOrig -> Num] /\ bridged \in [FlOrig -> SUBSET FlFrame]
  /\ copies \subseteq Copy /\ orig_node \in [FlOrig -> OrigNode]
  /\ bcast_duplist \in Seq(Entry) /\ handed \in [FlOrig -> [FlFrame -> Nat]]

\* The numbers of the copies of an originator's broadcasts.
Numbers(cs, o) == {c.seqno : c \in {x \in cs : x.orig = o /\ x.kind = "BCAST"}}

Windows == \A o \in FlOrig : Window(bcast_seqno[o], fl_left.seqno[o], orig_node[o], Numbers(copies, o))

OneKind ==
  \A c, d \in copies : c.orig = d.orig /\ c.crc = d.crc =>
    c.kind = d.kind /\ c.seqno = d.seqno /\ (c.kind = "UNICAST" => c = d)

AllBridged == \A c \in copies : c.crc \in bridged[c.orig]

Listed(l, o, f) == \E i \in DOMAIN l : l[i].crc = f /\ l[i].orig = o
Taken(o, f) == handed[o][f] > 0 \/ Listed(bcast_duplist, o, f)

TakenMarked ==
  /\ \A o \in FlOrig, f \in FlFrame : Taken(o, f) => f \in bridged[o]
  /\ \A c \in copies : Taken(c.orig, c.crc) => c.kind = "BCAST" /\ batadv_test_bit(orig_node[c.orig], c.seqno)

HandedOnce == \A o \in FlOrig, f \in FlFrame : handed[o][f] <= 1

\* The list of duplicates, while it holds all that matters.
OneEntry == \A i, j \in DOMAIN bcast_duplist : bcast_duplist[i].crc = bcast_duplist[j].crc => i = j
HandedListed ==
  \A o \in FlOrig, f \in FlFrame : handed[o][f] > 0 =>
    \E i \in DOMAIN bcast_duplist : bcast_duplist[i].crc = f /\ bcast_duplist[i].orig \in {o, "none"}
OneHanded == \A f \in FlFrame : \A o, h \in FlOrig : handed[o][f] > 0 /\ handed[h][f] > 0 => o = h

FlInv ==
  /\ FlTypes /\ Windows /\ OneKind /\ AllBridged /\ TakenMarked /\ HandedOnce
  /\ fl_left.timely => OneEntry /\ HandedListed /\ OneHanded

\* The bounds that a step uses up leave the rest of the scenario.
SameScenario ==
  /\ fl_left' \in FlScenario
  /\ fl_left'.seqno = fl_left.seqno /\ fl_left'.frames = fl_left.frames /\ fl_left'.paths = fl_left.paths
  /\ fl_left'.restarts = fl_left.restarts
  /\ fl_left'.timely = fl_left.timely /\ fl_left'.complete = fl_left.complete
  /\ fl_left.busy = 0 => fl_left'.busy = 0
  /\ fl_left.timeouts = 0 => fl_left'.timeouts = 0

LEMMA UseKeeps ==
  ASSUME fl_left \in FlScenario, NEW what \in {"busy", "timeouts", "unicasts"}, FlUse(what)
  PROVE  SameScenario
<1>1. fl_left[what] \in Nat /\ fl_left[what] > 0
  BY DEF FlScenario, FlUse
<1>2. CASE what = "busy"
  BY <1>1, <1>2 DEF FlScenario, FlUse, SameScenario
<1>3. CASE what = "timeouts"
  BY <1>1, <1>3 DEF FlScenario, FlUse, SameScenario
<1>4. CASE what = "unicasts"
  BY <1>1, <1>4 DEF FlScenario, FlUse, SameScenario
<1> QED BY <1>2, <1>3, <1>4

LEMMA ScenarioKeeps ==
  ASSUME FlTypes, SameScenario
  PROVE  /\ Regular' /\ fl_left' \in FlScenario /\ Copy' = Copy /\ Entry' = Entry
         /\ fl_left'.seqno = fl_left.seqno /\ fl_left'.timely = fl_left.timely
         /\ fl_left'.complete = fl_left.complete
<1>1. Regular'
  BY DEF FlTypes, SameScenario, Regular
<1>2. Copy' = Copy /\ Entry' = Entry
  BY DEF SameScenario, Copy, Entry
<1> QED BY <1>1, <1>2 DEF SameScenario

LEMMA InitFlInv ==
  ASSUME FlInit, Regular
  PROVE  FlInv
<1>1. fl_left \in FlScenario /\ fl_left.seqno \in [FlOrig -> Num]
  BY FlAssumption DEF FlInit, FlScenario, Num
<1>2. FlTypes
  <2>1. orig_node \in [FlOrig -> OrigNode]
    <3>1. 0 \in Num
      BY HalfOfAll DEF Num
    <3> QED BY <3>1 DEF FlInit, OrigNode
  <2> QED BY <1>1, <2>1 DEF FlInit, FlTypes
<1>3. Windows
  <2> SUFFICES ASSUME NEW o \in FlOrig
               PROVE  Window(bcast_seqno[o], fl_left.seqno[o], orig_node[o], Numbers(copies, o))
    BY DEF Windows
  <2>1. Numbers(copies, o) = {}
    BY DEF Numbers, FlInit
  <2>2. bcast_seqno[o] = fl_left.seqno[o] /\ bcast_seqno[o] \in Num /\ orig_node[o] \in OrigNode
        /\ orig_node[o].bits = {} /\ orig_node[o].last = 0 /\ ~orig_node[o].protected
    BY <1>1, <1>2 DEF FlInit, FlTypes
  <2>3. SeqDifference(bcast_seqno[o], fl_left.seqno[o]) = 0
    BY <2>2, DifferenceRange
  <2>4. \A s \in Num : SeqDifference(s, fl_left.seqno[o]) >= 0
                       => ~(SeqDifference(s, fl_left.seqno[o]) < SeqDifference(bcast_seqno[o], fl_left.seqno[o]))
    BY <1>1, <2>2, <2>3, DifferenceIs
  <2> QED BY <2>1, <2>2, <2>3, <2>4, Sizes DEF Window, Unheard, Flying
<1>4. \A o \in FlOrig, f \in FlFrame : handed[o][f] = 0 /\ ~Taken(o, f)
  BY DEF FlInit, Taken, Listed
<1>5. OneKind /\ AllBridged /\ TakenMarked /\ HandedOnce
  BY <1>4 DEF FlInit, OneKind, AllBridged, TakenMarked, HandedOnce
<1>6. OneEntry /\ HandedListed /\ OneHanded
  BY <1>4 DEF FlInit, OneEntry, HandedListed, OneHanded
<1> QED BY <1>2, <1>3, <1>5, <1>6 DEF FlInv

-----------------------------------------------------------------------------
(* Frames are sent. *)

LEMMA NewCopies ==
  ASSUME FlInv, NEW o \in FlOrig, NEW f \in fl_left.frames \ bridged[o],
         NEW kind \in {"BCAST", "UNICAST"}, NEW n \in Num, NEW N \in SUBSET Copies(o, kind, n, f),
         kind = "UNICAST" => \A c, d \in N : c = d,
         copies' = copies \cup N, bridged' = [bridged EXCEPT ![o] = @ \cup {f}],
         UNCHANGED <<orig_node, bcast_duplist, handed>>, SameScenario
  PROVE  /\ bridged' \in [FlOrig -> SUBSET FlFrame] /\ copies' \subseteq Copy
         /\ OneKind' /\ AllBridged' /\ TakenMarked' /\ HandedOnce'
         /\ fl_left'.timely => OneEntry' /\ HandedListed' /\ OneHanded'
<1>1. f \in FlFrame /\ bridged \in [FlOrig -> SUBSET FlFrame] /\ copies \subseteq Copy
  BY DEF FlInv, FlTypes, FlScenario
<1>2. \A c \in N : c \in Copy /\ c.orig = o /\ c.kind = kind /\ c.seqno = n /\ c.crc = f
  BY <1>1 DEF Copies, Copy
<1>3. \A c \in copies : c.orig \in FlOrig /\ c.crc \in bridged[c.orig] /\ ~(c.orig = o /\ c.crc = f)
  BY <1>1 DEF FlInv, AllBridged, Copy
<1>4. bridged' \in [FlOrig -> SUBSET FlFrame] /\ \A x \in FlOrig : bridged[x] \subseteq bridged'[x]
  BY <1>1
<1>5. OneKind'
  BY <1>2, <1>3 DEF FlInv, OneKind
<1>6. AllBridged'
  BY <1>1, <1>2, <1>3, <1>4 DEF AllBridged
<1>7. TakenMarked'
  <2>1. \A x, g : Taken(x, g)' <=> Taken(x, g)
    BY DEF Taken, Listed
  <2>2. ~Taken(o, f)
    BY <1>1 DEF FlInv, TakenMarked
  <2>3. \A c \in copies' : Taken(c.orig, c.crc) => c \in copies
    BY <1>2, <2>2
  <2> QED BY <1>1, <1>2, <1>3, <1>4, <2>1, <2>3 DEF FlInv, TakenMarked
<1>8. HandedOnce' /\ (fl_left'.timely => OneEntry' /\ HandedListed' /\ OneHanded')
  BY DEF FlInv, HandedOnce, OneEntry, HandedListed, OneHanded, SameScenario
<1> QED BY <1>1, <1>2, <1>4, <1>5, <1>6, <1>7, <1>8

LEMMA SendBroadcastKeeps ==
  ASSUME FlInv, NEW o \in FlOrig, NEW f \in FlFrame, SendBroadcast(o, f)
  PROVE  FlInv'
<1> DEFINE n == bcast_seqno[o]  N == Copies(o, "BCAST", n, f)
<1>1. /\ fl_left \in FlScenario /\ bcast_seqno \in [FlOrig -> Num] /\ n \in Num
      /\ UNCHANGED <<orig_node, bcast_duplist, handed, fl_left>>
      /\ bcast_seqno' = [bcast_seqno EXCEPT ![o] = (n + 1) % FL_SEQS]
  BY DEF FlInv, FlTypes, SendBroadcast
<1>2. SameScenario
  BY <1>1 DEF SameScenario
<1>3. /\ bridged' \in [FlOrig -> SUBSET FlFrame] /\ copies' \subseteq Copy
      /\ OneKind' /\ AllBridged' /\ TakenMarked' /\ HandedOnce'
      /\ fl_left'.timely => OneEntry' /\ HandedListed' /\ OneHanded'
  <2>1. N \in SUBSET Copies(o, "BCAST", n, f) /\ f \in fl_left.frames \ bridged[o]
        /\ copies' = copies \cup N /\ bridged' = [bridged EXCEPT ![o] = @ \cup {f}]
    BY DEF SendBroadcast
  <2> HIDE DEF n, N
  <2> QED BY <1>1, <1>2, <2>1, NewCopies
<1>4. FlTypes'
  <2>1. bcast_seqno' \in [FlOrig -> Num]
    BY <1>1, DifferenceOfNext
  <2> QED BY <1>1, <1>2, <1>3, <2>1, ScenarioKeeps DEF FlTypes, FlInv
<1>5. Windows'
  <2> SUFFICES ASSUME NEW x \in FlOrig
               PROVE  Window(bcast_seqno'[x], fl_left.seqno[x], orig_node[x], Numbers(copies', x))
    BY <1>1 DEF Windows
  <2>1. Window(bcast_seqno[x], fl_left.seqno[x], orig_node[x], Numbers(copies, x))
    BY DEF FlInv, Windows
  <2>2. copies' = copies \cup N
    BY DEF SendBroadcast
  <2>3. N # {} /\ \A c \in N : c.orig = o /\ c.seqno = n /\ c.kind = "BCAST"
    <3>1. PICK p : p \in fl_left.paths
      BY <1>1 DEF FlScenario
    <3>2. [orig |-> o, kind |-> "BCAST", seqno |-> n, crc |-> f, path |-> p] \in N
      BY <3>1 DEF Copies
    <3>3. \A c \in N : c.orig = o /\ c.seqno = n /\ c.kind = "BCAST"
      BY DEF Copies
    <3> HIDE DEF N
    <3> QED BY <3>2, <3>3
  <2>4. CASE x # o
    <3>1. bcast_seqno'[x] = bcast_seqno[x]
      BY <1>1, <2>4
    <3> HIDE DEF N, n
    <3>2. Numbers(copies', x) = Numbers(copies, x)
      BY <2>2, <2>3, <2>4 DEF Numbers
    <3> QED BY <2>1, <3>1, <3>2
  <2>5. CASE x = o
    <3>1. Numbers(copies', o) = Numbers(copies, o) \cup {n} /\ bcast_seqno'[o] = (n + 1) % FL_SEQS
      <4>1. bcast_seqno'[o] = (n + 1) % FL_SEQS
        BY <1>1
      <4> HIDE DEF N, n
      <4> QED BY <2>2, <2>3, <4>1 DEF Numbers
    <3>2. \A s \in Numbers(copies, o) : KeepsUp(SeqDifference(n, s))
      BY DEF SendBroadcast, Numbers
    <3> HIDE DEF n, N
    <3> DEFINE C == Numbers(copies, o)  b == orig_node[o]  first == fl_left.seqno[o]
    <3>3. Window(n, first, b, C)
      BY <2>1, <2>5 DEF n
    <3>4. \A s \in C : KeepsUp(SeqDifference(n, s))
      BY <3>2
    <3> HIDE DEF C, b, first
    <3>5. Window((n + 1) % FL_SEQS, first, b, C \cup {n})
      BY <3>3, <3>4, WindowSend
    <3> QED BY <2>5, <3>1, <3>5 DEF C, b, first
  <2> QED BY <2>4, <2>5
<1> QED BY <1>3, <1>4, <1>5 DEF FlInv

LEMMA SendUnicastKeeps ==
  ASSUME FlInv, NEW o \in FlOrig, NEW f \in FlFrame, SendUnicast(o, f)
  PROVE  FlInv'
<1> DEFINE c == CHOOSE x \in Copies(o, "UNICAST", 0, f) : TRUE
<1>1. /\ fl_left \in FlScenario /\ FlUse("unicasts") /\ f \in fl_left.frames \ bridged[o]
      /\ copies' = copies \cup {c} /\ bridged' = [bridged EXCEPT ![o] = @ \cup {f}]
      /\ UNCHANGED <<bcast_seqno, orig_node, bcast_duplist, handed>>
  BY DEF FlInv, FlTypes, SendUnicast
<1>2. SameScenario
  BY <1>1, UseKeeps
<1>3. c \in Copies(o, "UNICAST", 0, f) /\ c.kind = "UNICAST" /\ c.orig = o /\ c.seqno = 0
  <2>1. fl_left.paths # {}
    BY <1>1 DEF FlScenario
  <2>2. \E x : x \in Copies(o, "UNICAST", 0, f)
    BY <2>1 DEF Copies
  <2>3. c \in Copies(o, "UNICAST", 0, f)
    BY <2>2
  <2> HIDE DEF c
  <2> QED BY <2>3 DEF Copies
<1> HIDE DEF c
<1>4. /\ bridged' \in [FlOrig -> SUBSET FlFrame] /\ copies' \subseteq Copy
      /\ OneKind' /\ AllBridged' /\ TakenMarked' /\ HandedOnce'
      /\ fl_left'.timely => OneEntry' /\ HandedListed' /\ OneHanded'
  <2> DEFINE N == {c}
  <2>1. N \in SUBSET Copies(o, "UNICAST", 0, f) /\ (\A x, y \in N : x = y) /\ 0 \in Num /\ copies' = copies \cup N
    BY <1>1, <1>3, HalfOfAll DEF Num
  <2> HIDE DEF N
  <2> QED BY <1>1, <1>2, <2>1, NewCopies
<1>5. FlTypes'
  BY <1>1, <1>2, <1>4, ScenarioKeeps DEF FlTypes, FlInv
<1>6. Windows'
  <2>1. \A x : Numbers(copies', x) = Numbers(copies, x)
    BY <1>1, <1>3 DEF Numbers
  <2> QED BY <1>1, <1>2, <2>1 DEF FlInv, Windows, SameScenario
<1> QED BY <1>4, <1>5, <1>6 DEF FlInv

LEMMA ProtectionEndsKeeps ==
  ASSUME FlInv, NEW o \in FlOrig, ProtectionEnds(o)
  PROVE  FlInv'
<1> DEFINE b == [orig_node[o] EXCEPT !.protected = FALSE]
<1>1. /\ orig_node \in [FlOrig -> OrigNode] /\ orig_node' = [orig_node EXCEPT ![o] = b]
      /\ \A c \in copies : c.orig # o
      /\ UNCHANGED <<bcast_seqno, bridged, copies, bcast_duplist, handed, fl_left>>
  BY DEF FlInv, FlTypes, ProtectionEnds
<1>2. b \in OrigNode /\ b.last = orig_node[o].last /\ b.bits = orig_node[o].bits /\ ~b.protected
  BY <1>1 DEF OrigNode
<1> HIDE DEF b
<1>3. FlTypes'
  BY <1>1, <1>2 DEF FlInv, FlTypes, Regular, Copy, Entry
<1>4. Windows'
  <2> SUFFICES ASSUME NEW x \in FlOrig
               PROVE  Window(bcast_seqno[x], fl_left.seqno[x], orig_node'[x], Numbers(copies, x))
    BY <1>1 DEF Windows
  <2>1. Window(bcast_seqno[x], fl_left.seqno[x], orig_node[x], Numbers(copies, x))
    BY DEF FlInv, Windows
  <2>2. CASE x # o
    BY <1>1, <2>1, <2>2
  <2>3. CASE x = o
    BY <1>1, <1>2, <2>1, <2>3 DEF Window, Unheard, Heard
  <2> QED BY <2>2, <2>3
<1>5. OneKind' /\ AllBridged' /\ HandedOnce' /\ (fl_left'.timely => OneEntry' /\ HandedListed' /\ OneHanded')
  BY <1>1 DEF FlInv, OneKind, AllBridged, HandedOnce, OneEntry, HandedListed, OneHanded
<1>6. TakenMarked'
  <2>1. \A x, g : Taken(x, g)' <=> Taken(x, g)
    BY <1>1 DEF Taken, Listed
  <2>2. \A c \in copies : orig_node'[c.orig] = orig_node[c.orig]
    BY <1>1 DEF FlInv, FlTypes, Copy
  <2> QED BY <1>1, <2>1, <2>2 DEF FlInv, TakenMarked
<1> QED BY <1>3, <1>4, <1>5, <1>6 DEF FlInv

-----------------------------------------------------------------------------
(* The list of duplicates. *)

Longer(crc, orig) == <<[crc |-> crc, orig |-> orig]>> \o bcast_duplist

LEMMA DuplistIs ==
  ASSUME bcast_duplist \in Seq(Entry), NEW crc \in fl_left.frames, NEW orig \in FlOrig \cup {"none"}
  PROVE  LET check == batadv_bla_check_duplist(crc, orig) IN
         /\ check.found <=> \E i \in DOMAIN bcast_duplist : SameFrame(bcast_duplist[i], crc, orig)
         /\ check.found => check.list = bcast_duplist
         /\ ~check.found => /\ check.list \in Seq(Entry)
                            /\ \A i \in DOMAIN check.list :
                                  i \in DOMAIN Longer(crc, orig) /\ check.list[i] = Longer(crc, orig)[i]
                            /\ Len(Longer(crc, orig)) <= DUPLIST_SIZE => check.list = Longer(crc, orig)
<1> DEFINE check == batadv_bla_check_duplist(crc, orig)  l == Longer(crc, orig)
           same == \E i \in DOMAIN bcast_duplist : SameFrame(bcast_duplist[i], crc, orig)
           m == IF Len(l) > DUPLIST_SIZE THEN DUPLIST_SIZE ELSE Len(l)
<1>1. CASE same
  <2>1. check = [found |-> TRUE, list |-> bcast_duplist]
    BY <1>1 DEF batadv_bla_check_duplist
  <2> HIDE DEF check
  <2>2. check.found = TRUE /\ check.list = bcast_duplist
    BY <2>1
  <2> HIDE DEF same
  <2> QED BY <1>1, <2>2 DEF check, same
<1>2. CASE ~same
  <2>1. check = [found |-> FALSE, list |-> SubSeq(l, 1, m)]
    BY <1>2 DEF batadv_bla_check_duplist, Longer
  <2>2. l \in Seq(Entry)
    BY DEF Longer, Entry
  <2> HIDE DEF check, l
  <2>3. Len(l) \in Nat /\ m \in 0..Len(l) /\ (Len(l) <= DUPLIST_SIZE => m = Len(l))
    BY <2>2, FlAssumption
  <2> HIDE DEF m
  <2>4. check.found = FALSE /\ check.list = SubSeq(l, 1, m)
    BY <2>1
  <2>5. check.list \in Seq(Entry) /\ Len(check.list) = m /\ \A i \in 1..m : check.list[i] = l[i]
    BY <2>2, <2>3, <2>4
  <2>6. DOMAIN check.list = 1..m /\ DOMAIN l = 1..Len(l)
    BY <2>2, <2>5
  <2>7. \A i \in DOMAIN check.list : i \in DOMAIN l /\ check.list[i] = l[i]
    <3>1. \A i \in 1..m : i \in 1..Len(l)
      BY <2>3
    <3> DEFINE k == check.list
    <3>2. DOMAIN k = 1..m /\ \A i \in 1..m : k[i] = l[i]
      BY <2>5, <2>6
    <3> HIDE DEF k
    <3>3. \A i \in DOMAIN k : i \in DOMAIN l /\ k[i] = l[i]
      BY <2>6, <3>1, <3>2
    <3> QED BY <3>3 DEF k
  <2>8. Len(l) <= DUPLIST_SIZE => check.list = l
    BY <2>2, <2>3, <2>4
  <2> QED BY <1>2, <2>4, <2>5, <2>7, <2>8 DEF check, l
<1> QED BY <1>1, <1>2

LEMMA LongerIs ==
  ASSUME bcast_duplist \in Seq(Entry), NEW crc \in fl_left.frames, NEW orig \in FlOrig \cup {"none"}
  PROVE  /\ Longer(crc, orig) \in Seq(Entry)
         /\ DOMAIN Longer(crc, orig) = 1..(Len(bcast_duplist) + 1)
         /\ DOMAIN bcast_duplist = 1..Len(bcast_duplist) /\ Len(bcast_duplist) \in Nat
         /\ Longer(crc, orig)[1].crc = crc /\ Longer(crc, orig)[1].orig = orig
         /\ \A i \in DOMAIN bcast_duplist :
               i + 1 \in DOMAIN Longer(crc, orig) /\ Longer(crc, orig)[i + 1] = bcast_duplist[i]
         /\ \A i \in DOMAIN Longer(crc, orig) : i # 1 =>
               i - 1 \in DOMAIN bcast_duplist /\ Longer(crc, orig)[i] = bcast_duplist[i - 1]
<1> DEFINE e == [crc |-> crc, orig |-> orig]  l == Longer(crc, orig)
<1>1. e \in Entry /\ e.crc = crc /\ e.orig = orig
  BY DEF Entry
<1>2. l = <<e>> \o bcast_duplist
  BY DEF Longer
<1> HIDE DEF e, l
<1>3. l \in Seq(Entry) /\ Len(l) = Len(bcast_duplist) + 1 /\ l[1] = e /\ Len(bcast_duplist) \in Nat
      /\ \A i \in 1..Len(bcast_duplist) : l[i + 1] = bcast_duplist[i]
  BY <1>1, <1>2
<1>4. DOMAIN l = 1..(Len(bcast_duplist) + 1) /\ DOMAIN bcast_duplist = 1..Len(bcast_duplist)
  BY <1>3
<1>5. \A i \in DOMAIN bcast_duplist : i + 1 \in DOMAIN l /\ l[i + 1] = bcast_duplist[i]
  BY <1>3, <1>4
<1>6. ASSUME NEW i \in DOMAIN l, i # 1 PROVE i - 1 \in DOMAIN bcast_duplist /\ l[i] = bcast_duplist[i - 1]
  <2>1. i - 1 \in DOMAIN bcast_duplist /\ (i - 1) + 1 = i
    BY <1>3, <1>4, <1>6
  <2>2. l[(i - 1) + 1] = bcast_duplist[i - 1]
    BY <1>5, <2>1
  <2> QED BY <2>1, <2>2
<1> QED BY <1>1, <1>3, <1>4, <1>5, <1>6 DEF l

\* A list without two entries of one frame is no longer than there are frames.
LEMMA ListFits ==
  ASSUME NEW l \in Seq(Entry), IsFiniteSet(fl_left.frames),
         \A i, j \in DOMAIN l : l[i].crc = l[j].crc => i = j
  PROVE  Len(l) <= Cardinality(fl_left.frames)
<1> DEFINE h == [i \in 1..Len(l) |-> l[i].crc]
<1>1. Len(l) \in Nat /\ DOMAIN l = 1..Len(l) /\ \A i \in 1..Len(l) : l[i].crc \in fl_left.frames
  <2>1. Len(l) \in Nat /\ DOMAIN l = 1..Len(l) /\ \A i \in 1..Len(l) : l[i] \in Entry
    OBVIOUS
  <2> QED BY <2>1 DEF Entry
<1>2. h \in [1..Len(l) -> fl_left.frames] /\ \A i, j \in 1..Len(l) : h[i] = h[j] => i = j
  BY <1>1
<1>3. h \in Injection(1..Len(l), fl_left.frames)
  BY <1>2 DEF Injection, IsInjective
<1>4. Cardinality(1..Len(l)) <= Cardinality(fl_left.frames)
  <2> HIDE DEF h
  <2> QED BY <1>3, FS_Injection
<1>5. Cardinality(1..Len(l)) = Len(l)
  <2> DEFINE n == Len(l)
  <2>1. n \in Int /\ n >= 0 /\ 1 \in Int
    BY <1>1
  <2> HIDE DEF n
  <2>2. Cardinality(1..n) = IF 1 > n THEN 0 ELSE n - 1 + 1
    BY <2>1, FS_Interval
  <2> QED BY <2>1, <2>2 DEF n
<1> QED BY <1>4, <1>5

-----------------------------------------------------------------------------
(* Copies arrive. *)

\* What handing over a frame that was not taken before leaves.
LEMMA HandOverKeeps ==
  ASSUME FlInv, NEW c \in copies, NEW orig \in {c.orig, "none"}, ~Taken(c.orig, c.crc), HandOver(c, orig)
  PROVE  /\ SameScenario /\ bcast_duplist' \in Seq(Entry) /\ handed' \in [FlOrig -> [FlFrame -> Nat]]
         /\ \A o \in FlOrig, f \in FlFrame : Taken(o, f)' => Taken(o, f) \/ (o = c.orig /\ f = c.crc)
         /\ HandedOnce'
         /\ fl_left.timely => OneEntry' /\ HandedListed' /\ OneHanded'
<1> DEFINE f == c.crc  o == c.orig  check == batadv_bla_check_duplist(f, orig)  l == Longer(f, orig)
           once == [handed EXCEPT ![o][f] = @ + 1]
<1>1. /\ f \in fl_left.frames /\ f \in FlFrame /\ o \in FlOrig /\ orig \in FlOrig \cup {"none"}
      /\ o # "none" /\ "none" \notin FlOrig /\ fl_left \in FlScenario
      /\ bcast_duplist \in Seq(Entry) /\ handed \in [FlOrig -> [FlFrame -> Nat]]
  BY ZenonT(40), FlAssumption DEF FlInv, FlTypes, Copy, FlScenario
<1>2. /\ bcast_duplist' = check.list
      /\ check.found => handed' = handed
      /\ SameScenario
      /\ ~check.found => handed' \in {handed, once}
  <2>1. /\ bcast_duplist' = check.list
        /\ \/ handed' = (IF check.found THEN handed ELSE once) /\ fl_left' = fl_left
           \/ ~check.found /\ c.kind = "BCAST" /\ FlUse("busy") /\ handed' = handed
    BY DEF HandOver
  <2> HIDE DEF check, once
  <2>2. SameScenario
    <3>1. CASE fl_left' = fl_left
      BY <1>1, <3>1 DEF SameScenario
    <3>2. CASE FlUse("busy")
      BY <1>1, <3>2, UseKeeps
    <3> QED BY <2>1, <3>1, <3>2
  <2> QED BY <2>1, <2>2
<1>3. /\ check.found <=> \E i \in DOMAIN bcast_duplist : SameFrame(bcast_duplist[i], f, orig)
      /\ check.found => check.list = bcast_duplist
      /\ ~check.found => /\ check.list \in Seq(Entry)
                         /\ \A i \in DOMAIN check.list : i \in DOMAIN l /\ check.list[i] = l[i]
                         /\ Len(l) <= DUPLIST_SIZE => check.list = l
  BY <1>1, DuplistIs
<1>4. /\ l \in Seq(Entry)
      /\ DOMAIN l = 1..(Len(bcast_duplist) + 1)
      /\ DOMAIN bcast_duplist = 1..Len(bcast_duplist) /\ Len(bcast_duplist) \in Nat
      /\ l[1].crc = f /\ l[1].orig = orig
      /\ \A i \in DOMAIN bcast_duplist : i + 1 \in DOMAIN l /\ l[i + 1] = bcast_duplist[i]
      /\ \A i \in DOMAIN l : i # 1 => i - 1 \in DOMAIN bcast_duplist /\ l[i] = bcast_duplist[i - 1]
  BY <1>1, LongerIs
<1>5. /\ once \in [FlOrig -> [FlFrame -> Nat]] /\ once[o][f] = handed[o][f] + 1
      /\ \A x \in FlOrig, g \in FlFrame : x # o \/ g # f => once[x][g] = handed[x][g]
  BY <1>1
<1>6. handed[o][f] = 0 /\ ~Listed(bcast_duplist, o, f)
  BY <1>1 DEF Taken
<1> HIDE DEF check, l, once
<1>7. CASE check.found
  <2>1. bcast_duplist' = bcast_duplist /\ handed' = handed
    BY <1>2, <1>3, <1>7
  <2>2. \A x, g : Taken(x, g)' <=> Taken(x, g)
    BY <2>1 DEF Taken, Listed
  <2>3. HandedOnce' /\ (fl_left.timely => OneEntry' /\ HandedListed' /\ OneHanded')
    BY <2>1 DEF FlInv, HandedOnce, OneEntry, HandedListed, OneHanded
  <2> QED BY <1>1, <1>2, <2>1, <2>2, <2>3
<1>8. CASE ~check.found
  <2> DEFINE d == bcast_duplist'
  <2>1. /\ d \in Seq(Entry) /\ handed' \in [FlOrig -> [FlFrame -> Nat]]
        /\ \A i \in DOMAIN d : i \in DOMAIN l /\ d[i] = l[i]
        /\ Len(l) <= DUPLIST_SIZE => d = l
    BY <1>1, <1>2, <1>3, <1>5, <1>8
  <2>2. \A x \in FlOrig, g \in FlFrame :
           /\ x # o \/ g # f => handed'[x][g] = handed[x][g]
           /\ handed'[o][f] <= 1
    <3>1. CASE handed' = handed
      BY <1>6, <3>1
    <3>2. CASE handed' = once
      BY <1>5, <1>6, <3>2
    <3> QED BY <1>2, <1>8, <3>1, <3>2
  <2>3. ASSUME NEW x \in FlOrig, NEW g \in FlFrame, Taken(x, g)', ~(x = o /\ g = f)
        PROVE  Taken(x, g)
    <3>1. CASE handed'[x][g] > 0
      BY <2>2, <2>3, <3>1 DEF Taken
    <3>2. CASE Listed(d, x, g)
      <4>1. PICK i \in DOMAIN d : d[i].crc = g /\ d[i].orig = x
        BY <3>2 DEF Listed
      <4>2. i \in DOMAIN l /\ l[i].crc = g /\ l[i].orig = x
        BY <2>1, <4>1
      <4>3. i # 1
        BY <1>1, <1>4, <2>3, <4>2
      <4>4. i - 1 \in DOMAIN bcast_duplist /\ bcast_duplist[i - 1].crc = g /\ bcast_duplist[i - 1].orig = x
        BY <1>4, <4>2, <4>3
      <4> QED BY <4>4 DEF Taken, Listed
    <3> QED BY <2>3, <3>1, <3>2 DEF Taken
  <2>4. HandedOnce'
    BY <2>2 DEF FlInv, HandedOnce
  \* No other entry is of this frame, and no other originator's frame was handed over.
  <2>5. \A i \in DOMAIN bcast_duplist : bcast_duplist[i].crc # f
    <3> SUFFICES ASSUME NEW i \in DOMAIN bcast_duplist, bcast_duplist[i].crc = f PROVE FALSE
      OBVIOUS
    <3>1. ~SameFrame(bcast_duplist[i], f, orig)
      BY <1>3, <1>8
    <3>2. orig # "none" /\ bcast_duplist[i].orig = orig
      BY <3>1 DEF SameFrame
    <3> QED BY <1>6, <3>2 DEF Listed
  <2>6. ASSUME fl_left.timely
        PROVE  OneEntry' /\ HandedListed' /\ OneHanded'
    <3>1. OneEntry /\ HandedListed /\ OneHanded /\ IsFiniteSet(fl_left.frames)
          /\ Cardinality(fl_left.frames) <= DUPLIST_SIZE
      BY <2>6 DEF FlInv, FlTypes, Regular
    <3>2. ASSUME NEW i \in DOMAIN l, NEW j \in DOMAIN l, l[i].crc = l[j].crc
          PROVE  i = j
      <4>1. CASE i = 1 /\ j # 1
        BY <1>4, <2>5, <3>2, <4>1
      <4>2. CASE i # 1 /\ j = 1
        BY <1>4, <2>5, <3>2, <4>2
      <4>3. CASE i # 1 /\ j # 1
        <5>1. i - 1 = j - 1
          BY <1>4, <3>1, <3>2, <4>3 DEF OneEntry
        <5> QED BY <1>4, <5>1
      <4> QED BY <4>1, <4>2, <4>3
    <3>3. d = l
      <4>1. Len(l) <= Cardinality(fl_left.frames)
        BY <1>4, <3>1, <3>2, ListFits
      <4>2. Cardinality(fl_left.frames) \in Nat
        BY <3>1, FS_CardinalityType
      <4> QED BY <1>4, <2>1, <3>1, <4>1, <4>2, FlAssumption
    <3> HIDE DEF d
    <3>4. \A i, j \in DOMAIN d : d[i].crc = d[j].crc => i = j
      BY <3>2, <3>3
    <3>5. \A x \in FlOrig : handed[x][f] = 0
      <4> SUFFICES ASSUME NEW x \in FlOrig, handed[x][f] # 0 PROVE FALSE
        OBVIOUS
      <4>1. handed[x][f] > 0
        BY <1>1
      <4> QED BY <1>1, <2>5, <3>1, <4>1 DEF HandedListed
    <3>6. ASSUME NEW x \in FlOrig, NEW g \in FlFrame, handed'[x][g] > 0
          PROVE  \E i \in DOMAIN d : d[i].crc = g /\ d[i].orig \in {x, "none"}
      <4>1. CASE g = f
        <5>1. x = o
          BY <1>1, <2>2, <3>5, <3>6, <4>1
        <5>2. 1 \in DOMAIN l
          BY <1>4
        <5> QED BY <1>4, <3>3, <4>1, <5>1, <5>2
      <4>2. CASE g # f
        <5>1. handed[x][g] > 0
          BY <1>1, <2>2, <3>6, <4>2
        <5>2. PICK i \in DOMAIN bcast_duplist : bcast_duplist[i].crc = g /\ bcast_duplist[i].orig \in {x, "none"}
          BY <3>1, <5>1 DEF HandedListed
        <5>3. i + 1 \in DOMAIN l /\ l[i + 1] = bcast_duplist[i]
          BY <1>4
        <5> QED BY <3>3, <5>2, <5>3
      <4> QED BY <4>1, <4>2
    <3>7. ASSUME NEW g \in FlFrame, NEW x \in FlOrig, NEW y \in FlOrig, handed'[x][g] > 0, handed'[y][g] > 0
          PROVE  x = y
      <4>1. CASE g = f
        BY <1>1, <2>2, <3>5, <3>7, <4>1
      <4>2. CASE g # f
        BY <1>1, <2>2, <3>1, <3>7, <4>2 DEF OneHanded
      <4> QED BY <4>1, <4>2
    <3> QED BY <3>4, <3>6, <3>7 DEF d, OneEntry, HandedListed, OneHanded
  <2> QED BY <1>2, <2>1, <2>3, <2>4, <2>6
<1> QED BY <1>7, <1>8

\* What holds of fewer copies, with the windows of the originators to be shown.
LEMMA FewerCopies ==
  ASSUME FlInv, NEW c \in copies, copies' = copies \ {c}, UNCHANGED <<bcast_seqno, bridged>>
  PROVE  /\ OneKind' /\ AllBridged'
         /\ \A o : Numbers(copies', o) \in {Numbers(copies, o), Numbers(copies, o) \ {c.seqno}}
         /\ \A o : o # c.orig \/ c.kind # "BCAST" => Numbers(copies', o) = Numbers(copies, o)
<1>1. OneKind' /\ AllBridged'
  BY DEF FlInv, OneKind, AllBridged
<1>2. ASSUME NEW o
      PROVE  Numbers(copies', o) \in {Numbers(copies, o), Numbers(copies, o) \ {c.seqno}}
  BY DEF Numbers
<1>3. \A o : o # c.orig \/ c.kind # "BCAST" => Numbers(copies', o) = Numbers(copies, o)
  BY DEF Numbers
<1> QED BY <1>1, <1>2, <1>3

LEMMA DropKeeps ==
  ASSUME FlInv, NEW c \in copies, c.kind = "BCAST", copies' = copies \ {c},
         LET b == orig_node[c.orig]
         IN batadv_test_bit(b, c.seqno) \/ batadv_window_protected(b, SeqDifference(c.seqno, b.last)),
         UNCHANGED <<bcast_seqno, bridged, orig_node, bcast_duplist, handed, fl_left>>
  PROVE  FlInv'
<1>1. FlTypes'
  BY DEF FlInv, FlTypes, Regular, Copy, Entry
<1>2. Windows'
  <2> SUFFICES ASSUME NEW x \in FlOrig
               PROVE  Window(bcast_seqno[x], fl_left.seqno[x], orig_node[x], Numbers(copies', x))
    BY DEF Windows
  <2>1. Window(bcast_seqno[x], fl_left.seqno[x], orig_node[x], Numbers(copies, x))
    BY DEF FlInv, Windows
  <2>2. CASE Numbers(copies', x) = Numbers(copies, x)
    BY <2>1, <2>2
  <2>3. CASE Numbers(copies', x) # Numbers(copies, x)
    <3>1. x = c.orig /\ Numbers(copies', x) = Numbers(copies, x) \ {c.seqno}
      BY <2>3, FewerCopies
    <3>2. c.seqno \in Numbers(copies, x)
      BY <3>1 DEF Numbers
    <3> QED BY SMTT(30), <2>1, <3>1, <3>2, WindowDrop
  <2> QED BY <2>2, <2>3
<1>3. OneKind' /\ AllBridged'
  BY FewerCopies
<1>4. TakenMarked'
  <2>1. \A x, g : Taken(x, g)' <=> Taken(x, g)
    BY DEF Taken, Listed
  <2> QED BY <2>1 DEF FlInv, TakenMarked
<1>5. HandedOnce' /\ (fl_left'.timely => OneEntry' /\ HandedListed' /\ OneHanded')
  BY DEF FlInv, HandedOnce, OneEntry, HandedListed, OneHanded
<1> QED BY <1>1, <1>2, <1>3, <1>4, <1>5 DEF FlInv

\* The node's record of the originator after a copy that is taken.
LEMMA TakenIsMarked ==
  ASSUME FlInv, NEW c \in copies, c.kind = "BCAST",
         LET b == orig_node[c.orig]
             d == SeqDifference(c.seqno, b.last)
         IN orig_node' = [orig_node EXCEPT ![c.orig] =
              [batadv_bit_get_packet(b, d, c.seqno) EXCEPT !.protected = @ \/ FarOff(d)]]
  PROVE  LET b == orig_node[c.orig]
             v == orig_node'[c.orig]
             C == Numbers(copies, c.orig)
         IN /\ orig_node' \in [FlOrig -> OrigNode]
            /\ \A x \in FlOrig : x # c.orig => orig_node'[x] = orig_node[x]
            /\ Window(bcast_seqno[c.orig], fl_left.seqno[c.orig], v, C)
            /\ Window(bcast_seqno[c.orig], fl_left.seqno[c.orig], v, C \ {c.seqno})
            /\ SeqDifference(v.last, c.seqno) \in v.bits
            /\ \A m \in C : SeqDifference(b.last, m) \in b.bits => SeqDifference(v.last, m) \in v.bits
            /\ v = Marked(b, SeqDifference(c.seqno, b.last), c.seqno, v.protected) /\ v.protected \in BOOLEAN
<1> DEFINE b == orig_node[c.orig]  d == SeqDifference(c.seqno, b.last)
           g == batadv_bit_get_packet(b, d, c.seqno)  w == [g EXCEPT !.protected = @ \/ FarOff(d)]
           v == orig_node'[c.orig]  C == Numbers(copies, c.orig)
           n == bcast_seqno[c.orig]  first == fl_left.seqno[c.orig]
<1>1. c.orig \in FlOrig /\ orig_node \in [FlOrig -> OrigNode] /\ b \in OrigNode
      /\ c.seqno \in Num /\ b.last \in Num /\ c.seqno \in C
  BY DEF FlInv, FlTypes, Copy, OrigNode, Numbers
<1>2. d \in Int
  BY <1>1, DifferenceIs
<1>3. orig_node' = [orig_node EXCEPT ![c.orig] = w]
  OBVIOUS
<1>4. Window(n, first, b, C) /\ Apart(first)
  BY <1>1 DEF FlInv, Windows, FlTypes, Regular
<1> DEFINE p == g.protected \/ FarOff(d)
<1>5. w = Marked(b, d, c.seqno, p) /\ p \in BOOLEAN
  BY DEF Marked
<1>6. w \in OrigNode /\ w.protected \in BOOLEAN /\ w.protected = p
  <2> HIDE DEF d, g, w, p, b
  <2> QED BY <1>1, <1>2, <1>5, MarkedIs
<1>7. v = w
  BY <1>1, <1>3
<1> HIDE DEF w, p, g
<1>8. v = Marked(b, d, c.seqno, v.protected) /\ v.protected \in BOOLEAN /\ v \in OrigNode
  <2> HIDE DEF v
  <2> QED BY <1>5, <1>6, <1>7
<1>9. /\ Window(n, first, v, C) /\ Window(n, first, v, C \ {c.seqno})
      /\ SeqDifference(v.last, c.seqno) \in v.bits
      /\ \A m \in C : SeqDifference(b.last, m) \in b.bits => SeqDifference(v.last, m) \in v.bits
  <2>1. v = Marked(b, SeqDifference(c.seqno, b.last), c.seqno, v.protected)
    BY <1>8
  <2> HIDE DEF n, first, b, C, v, d
  <2> QED BY <1>1, <1>4, <1>8, <2>1, WindowTake
<1>10. orig_node' \in [FlOrig -> OrigNode] /\ \A x \in FlOrig : x # c.orig => orig_node'[x] = orig_node[x]
  BY <1>1, <1>3, <1>6
<1> QED BY <1>8, <1>9, <1>10

LEMMA TakeKeeps ==
  ASSUME FlInv, NEW c \in copies, c.kind = "BCAST", copies' = copies \ {c},
         LET b == orig_node[c.orig]
             d == SeqDifference(c.seqno, b.last)
         IN orig_node' = [orig_node EXCEPT ![c.orig] =
              [batadv_bit_get_packet(b, d, c.seqno) EXCEPT !.protected = @ \/ FarOff(d)]],
         ~batadv_test_bit(orig_node[c.orig], c.seqno),
         HandOver(c, c.orig), UNCHANGED <<bcast_seqno, bridged>>
  PROVE  FlInv'
<1> DEFINE b == orig_node[c.orig]  v == orig_node'[c.orig]  C == Numbers(copies, c.orig)
<1>1. c.orig \in FlOrig /\ c.crc \in FlFrame
  BY DEF FlInv, FlTypes, Copy, FlScenario
<1>2. /\ orig_node' \in [FlOrig -> OrigNode]
      /\ \A x \in FlOrig : x # c.orig => orig_node'[x] = orig_node[x]
      /\ Window(bcast_seqno[c.orig], fl_left.seqno[c.orig], v, C)
      /\ Window(bcast_seqno[c.orig], fl_left.seqno[c.orig], v, C \ {c.seqno})
      /\ SeqDifference(v.last, c.seqno) \in v.bits
      /\ \A m \in C : SeqDifference(b.last, m) \in b.bits => SeqDifference(v.last, m) \in v.bits
  BY TakenIsMarked
<1>3. ~Taken(c.orig, c.crc)
  BY DEF FlInv, TakenMarked
<1>4. /\ SameScenario /\ bcast_duplist' \in Seq(Entry) /\ handed' \in [FlOrig -> [FlFrame -> Nat]]
      /\ \A o \in FlOrig, f \in FlFrame : Taken(o, f)' => Taken(o, f) \/ (o = c.orig /\ f = c.crc)
      /\ HandedOnce'
      /\ fl_left.timely => OneEntry' /\ HandedListed' /\ OneHanded'
  BY <1>3, HandOverKeeps
<1>5. FlTypes /\ Regular' /\ fl_left' \in FlScenario /\ Copy' = Copy /\ Entry' = Entry
      /\ fl_left'.seqno = fl_left.seqno /\ fl_left'.timely = fl_left.timely
  BY <1>4, ScenarioKeeps DEF FlInv
<1>6. FlTypes'
  BY <1>2, <1>4, <1>5 DEF FlTypes
<1>7. OneKind' /\ AllBridged' /\ \A o : Numbers(copies', o) \in {Numbers(copies, o), Numbers(copies, o) \ {c.seqno}}
      /\ \A x : x # c.orig \/ c.kind # "BCAST" => Numbers(copies', x) = Numbers(copies, x)
  BY FewerCopies
<1>8. Windows'
  <2> SUFFICES ASSUME NEW x \in FlOrig
               PROVE  Window(bcast_seqno[x], fl_left.seqno[x], orig_node'[x], Numbers(copies', x))
    BY <1>5 DEF Windows
  <2>1. CASE x = c.orig
    <3>1. Numbers(copies', x) = C \/ Numbers(copies', x) = C \ {c.seqno}
      BY <1>7, <2>1
    <3> QED BY <1>2, <2>1, <3>1
  <2>2. CASE x # c.orig
    BY <1>2, <1>7, <2>2 DEF FlInv, Windows
  <2> QED BY <2>1, <2>2
<1>9. TakenMarked'
  <2>1. \A o \in FlOrig, f \in FlFrame : Taken(o, f)' => f \in bridged[o]
    BY <1>1, <1>4 DEF FlInv, TakenMarked, AllBridged
  <2>2. ASSUME NEW m \in copies', Taken(m.orig, m.crc)'
        PROVE  m.kind = "BCAST" /\ batadv_test_bit(orig_node'[m.orig], m.seqno)
    <3>1. m \in copies /\ m # c /\ m.orig \in FlOrig /\ m.crc \in FlFrame
      BY <1>5 DEF FlTypes, Copy, FlScenario
    <3>2. CASE m.orig = c.orig /\ m.crc = c.crc
      <4>1. m.kind = "BCAST" /\ m.seqno = c.seqno
        BY <3>1, <3>2 DEF FlInv, OneKind
      <4> QED BY <1>2, <3>2, <4>1 DEF batadv_test_bit
    <3>3. CASE ~(m.orig = c.orig /\ m.crc = c.crc)
      <4>1. Taken(m.orig, m.crc)
        BY <1>4, <2>2, <3>1, <3>3
      <4>2. m.kind = "BCAST" /\ batadv_test_bit(orig_node[m.orig], m.seqno)
        BY <3>1, <4>1 DEF FlInv, TakenMarked
      <4>3. CASE m.orig = c.orig
        <5>1. m.seqno \in C
          BY <3>1, <4>2, <4>3 DEF Numbers
        <5> QED BY <1>2, <4>2, <4>3, <5>1 DEF batadv_test_bit
      <4>4. CASE m.orig # c.orig
        BY <1>2, <3>1, <4>2, <4>4
      <4> QED BY <4>3, <4>4
    <3> QED BY <3>2, <3>3
  <2> QED BY <2>1, <2>2 DEF TakenMarked
<1> QED BY <1>4, <1>5, <1>6, <1>7, <1>8, <1>9 DEF FlInv

LEMMA UnicastKeeps ==
  ASSUME FlInv, NEW c \in copies, batadv_bla_check_ucast_duplist(c)
  PROVE  FlInv'
<1>1. /\ c.kind = "UNICAST" /\ copies' = copies \ {c} /\ HandOver(c, "none")
      /\ UNCHANGED <<bcast_seqno, bridged, orig_node>> /\ c.orig \in FlOrig /\ c.crc \in FlFrame
  BY DEF batadv_bla_check_ucast_duplist, FlInv, FlTypes, Copy, FlScenario
<1>2. ~Taken(c.orig, c.crc)
  BY <1>1 DEF FlInv, TakenMarked
<1>3. /\ SameScenario /\ bcast_duplist' \in Seq(Entry) /\ handed' \in [FlOrig -> [FlFrame -> Nat]]
      /\ \A o \in FlOrig, f \in FlFrame : Taken(o, f)' => Taken(o, f) \/ (o = c.orig /\ f = c.crc)
      /\ HandedOnce'
      /\ fl_left.timely => OneEntry' /\ HandedListed' /\ OneHanded'
  <2>1. "none" \in {c.orig, "none"}
    OBVIOUS
  <2> QED BY <1>1, <1>2, <2>1, HandOverKeeps
<1>4. FlTypes /\ Regular' /\ fl_left' \in FlScenario /\ Copy' = Copy /\ Entry' = Entry
      /\ fl_left'.seqno = fl_left.seqno /\ fl_left'.timely = fl_left.timely
  BY <1>3, ScenarioKeeps DEF FlInv
<1>5. FlTypes'
  BY <1>1, <1>3, <1>4 DEF FlTypes
<1>6. OneKind' /\ AllBridged' /\ \A o : Numbers(copies', o) = Numbers(copies, o)
  BY <1>1, FewerCopies
<1>7. Windows'
  BY <1>1, <1>4, <1>6 DEF FlInv, Windows
<1>8. TakenMarked'
  <2>1. \A o \in FlOrig, f \in FlFrame : Taken(o, f)' => f \in bridged[o]
    BY <1>1, <1>3 DEF FlInv, TakenMarked, AllBridged
  <2>2. ASSUME NEW m \in copies', Taken(m.orig, m.crc)'
        PROVE  m.kind = "BCAST" /\ batadv_test_bit(orig_node[m.orig], m.seqno)
    <3>1. m \in copies /\ m # c /\ m.orig \in FlOrig /\ m.crc \in FlFrame
      BY <1>1, <1>4 DEF FlTypes, Copy, FlScenario
    <3>2. ~(m.orig = c.orig /\ m.crc = c.crc)
      BY <1>1, <3>1 DEF FlInv, OneKind
    <3>3. Taken(m.orig, m.crc)
      BY <1>3, <2>2, <3>1, <3>2
    <3> QED BY <3>1, <3>3 DEF FlInv, TakenMarked
  <2> QED BY <1>1, <2>1, <2>2 DEF TakenMarked
<1> QED BY <1>3, <1>4, <1>5, <1>6, <1>7, <1>8 DEF FlInv

\* Entries that time out do no harm where the list of duplicates need not hold all that matters.
LEMMA TimeoutKeeps ==
  ASSUME FlInv, DuplistTimeout
  PROVE  FlInv'
<1>1. /\ bcast_duplist # <<>> /\ FlUse("timeouts") /\ bcast_duplist' = Front(bcast_duplist)
      /\ bcast_duplist \in Seq(Entry) /\ fl_left \in FlScenario
      /\ UNCHANGED <<bcast_seqno, bridged, copies, orig_node, handed>>
  BY DEF FlInv, FlTypes, DuplistTimeout
<1>2. SameScenario
  BY <1>1, UseKeeps
<1>3. ~fl_left.timely
  <2>1. fl_left["timeouts"] > 0
    BY <1>1 DEF FlUse
  <2> QED BY <1>1, <2>1 DEF FlInv, FlTypes, Regular, FlScenario
<1>4. /\ bcast_duplist' \in Seq(Entry)
      /\ \A i \in DOMAIN bcast_duplist' : i \in DOMAIN bcast_duplist /\ bcast_duplist'[i] = bcast_duplist[i]
  <2> DEFINE n == Len(bcast_duplist)
  <2>1. n \in Nat /\ n >= 1
    BY <1>1
  <2>2. bcast_duplist' = SubSeq(bcast_duplist, 1, n - 1)
    BY <1>1 DEF Front
  <2> QED BY <1>1, <2>1, <2>2
<1>5. FlTypes /\ Regular' /\ fl_left' \in FlScenario /\ Copy' = Copy /\ Entry' = Entry
      /\ fl_left'.seqno = fl_left.seqno /\ fl_left'.timely = fl_left.timely
  BY <1>2, ScenarioKeeps DEF FlInv
<1>6. FlTypes'
  BY <1>1, <1>4, <1>5 DEF FlTypes
<1>7. \A x, g : Taken(x, g)' => Taken(x, g)
  BY <1>1, <1>4 DEF Taken, Listed
<1>8. Windows' /\ OneKind' /\ AllBridged' /\ TakenMarked' /\ HandedOnce'
  BY <1>1, <1>5, <1>7 DEF FlInv, Windows, OneKind, AllBridged, TakenMarked, HandedOnce
<1> QED BY <1>3, <1>5, <1>6, <1>8 DEF FlInv

LEMMA NextKeepsFlInv ==
  ASSUME FlInv, [FlNext]_flVars
  PROVE  FlInv'
<1>1. ASSUME NEW o \in FlOrig, NEW f \in FlFrame, SendBroadcast(o, f) \/ SendUnicast(o, f)
      PROVE  FlInv'
  BY <1>1, SendBroadcastKeeps, SendUnicastKeeps
<1>2. ASSUME NEW o \in FlOrig, RestartGateway(o) \/ ProtectionEnds(o)
      PROVE  FlInv'
  <2>1. ~RestartGateway(o)
    <3>1. fl_left["restarts"] = 0
      BY DEF FlInv, FlTypes, Regular, FlScenario
    <3> QED BY <3>1 DEF RestartGateway, FlUse
  <2> QED BY <1>2, <2>1, ProtectionEndsKeeps
<1>3. ASSUME NEW c \in copies, batadv_recv_bcast_packet(c)
      PROVE  FlInv'
  <2>1. CASE \/ batadv_test_bit(orig_node[c.orig], c.seqno)
             \/ batadv_window_protected(orig_node[c.orig], SeqDifference(c.seqno, orig_node[c.orig].last))
    <3>1. /\ c.kind = "BCAST" /\ copies' = copies \ {c}
          /\ UNCHANGED <<bcast_seqno, bridged, orig_node, bcast_duplist, handed, fl_left>>
      BY <1>3, <2>1 DEF batadv_recv_bcast_packet
    <3> QED BY <2>1, <3>1, DropKeeps
  <2>2. CASE ~(\/ batadv_test_bit(orig_node[c.orig], c.seqno)
               \/ batadv_window_protected(orig_node[c.orig], SeqDifference(c.seqno, orig_node[c.orig].last)))
    <3>1. /\ c.kind = "BCAST" /\ copies' = copies \ {c} /\ HandOver(c, c.orig)
          /\ UNCHANGED <<bcast_seqno, bridged>>
          /\ LET b == orig_node[c.orig]
                 d == SeqDifference(c.seqno, b.last)
             IN orig_node' = [orig_node EXCEPT ![c.orig] =
                  [batadv_bit_get_packet(b, d, c.seqno) EXCEPT !.protected = @ \/ FarOff(d)]]
      BY <1>3, <2>2 DEF batadv_recv_bcast_packet
    <3> QED BY <2>2, <3>1, TakeKeeps
  <2> QED BY <2>1, <2>2
<1>4. ASSUME NEW c \in copies, batadv_bla_check_ucast_duplist(c)
      PROVE  FlInv'
  BY <1>4, UnicastKeeps
<1>5. CASE DuplistTimeout
  BY <1>5, TimeoutKeeps
<1>6. CASE UNCHANGED flVars
  BY <1>6 DEF flVars, FlInv, FlTypes, Regular, Copy, Entry, Windows, OneKind, AllBridged, TakenMarked,
              Taken, HandedOnce, OneEntry, HandedListed, OneHanded
<1> QED BY <1>1, <1>2, <1>3, <1>4, <1>5, <1>6 DEF FlNext

\* Whatever the frames, paths, orders, unicasts, full queues and timeouts of the list of
\* duplicates: where the gateways do not restart and no first number is within two windows
\* below 0, a broadcast is handed over and flooded once, and from one gateway only as long as
\* the list of duplicates holds all frames.
THEOREM BroadcastsFloodedOnce == FlSpec /\ Regular => []FloodedOnce
<1>1. FlInit /\ Regular => FlInv
  BY InitFlInv
<1>2. FlInv /\ [FlNext]_flVars => FlInv'
  BY NextKeepsFlInv
<1>3. FlInv => FloodedOnce
  <2> SUFFICES ASSUME FlInv, NEW f \in FlFrame
               PROVE  /\ \A o \in FlOrig : handed[o][f] <= 1
                      /\ fl_left.timely => Cardinality({o \in FlOrig : handed[o][f] > 0}) <= 1
    BY DEF FloodedOnce
  <2>1. \A o \in FlOrig : handed[o][f] <= 1
    BY DEF FlInv, HandedOnce
  <2>2. ASSUME fl_left.timely
        PROVE  Cardinality({o \in FlOrig : handed[o][f] > 0}) <= 1
    <3> DEFINE S == {o \in FlOrig : handed[o][f] > 0}
    <3>1. \A x, y \in S : x = y
      BY <2>2 DEF FlInv, OneHanded
    <3>2. S = {} \/ \E x : S = {x}
      BY <3>1
    <3> HIDE DEF S
    <3>3. Cardinality(S) = 0 \/ Cardinality(S) = 1
      BY <3>2, FS_EmptySet, FS_Singleton
    <3> QED BY <3>3 DEF S
  <2> QED BY <2>1, <2>2
<1> QED BY <1>1, <1>2, <1>3, PTL DEF FlSpec

-----------------------------------------------------------------------------
(* No frame is missed: copies that are marked are of a number that arrived. *)

LEMMA OnlyTakenMarked ==
  ASSUME NEW b \in OrigNode, NEW s \in Num, NEW m \in Num, NEW p \in BOOLEAN,
         LET v == Marked(b, SeqDifference(s, b.last), s, p) IN SeqDifference(v.last, m) \in v.bits
  PROVE  m = s \/ SeqDifference(b.last, m) \in b.bits
<1> DEFINE d == SeqDifference(s, b.last)  v == Marked(b, d, s, p)
<1>1. b.last \in Num /\ b.bits \subseteq 0..(FL_WINDOW_SIZE - 1) /\ d \in Int
  BY DifferenceIs DEF OrigNode
<1>2. SeqDifference(v.last, m) \in v.bits
  OBVIOUS
<1>3. SeqDifference(s, m) = 0 => m = s
  BY DifferenceRange
<1>4. CASE d <= 0 /\ d > -FL_WINDOW_SIZE
  <2>1. v.last = b.last /\ v.bits = b.bits \cup {-d}
    BY <1>1, <1>4, MarkedIs
  <2> HIDE DEF v
  <2>2. SUFFICES ASSUME SeqDifference(b.last, m) = -d PROVE m = s
    BY <1>2, <2>1
  <2>3. SeqDifference(b.last, m) # -HALF
    BY <1>1, <1>4, <2>2, Sizes
  <2>4. SeqDifference(m, b.last) = d
    BY <1>1, <2>2, <2>3, DifferenceBack
  <2> QED BY <1>1, <2>4, SameDifference
<1>5. CASE d > 0 /\ d < FL_WINDOW_SIZE
  <2>1. v.last = s /\ v.bits = {0} \cup {i \in Shifted(b.bits, d) : i < FL_WINDOW_SIZE}
    BY <1>1, <1>5, MarkedIs
  <2> HIDE DEF v
  <2>2. SUFFICES ASSUME NEW i \in b.bits, SeqDifference(s, m) = i + d PROVE i = SeqDifference(b.last, m)
    BY <1>2, <1>3, <2>1 DEF Shifted
  <2>3. i \in 0..(FL_WINDOW_SIZE - 1)
    BY <1>1
  <2>4. SeqDifference(b.last, s) = -d
    <3>1. d # -HALF
      BY <1>1, <1>5, Sizes
    <3> QED BY <1>1, <3>1, DifferenceBack
  <2>5. SeqDifference(b.last, s) + SeqDifference(s, m) = i
    BY <1>1, <2>2, <2>3, <2>4, Sizes
  <2>6. i \in (-HALF)..(HALF - 1)
    BY <2>3, Sizes
  <2> QED BY <1>1, <2>5, <2>6, DifferencesAdd
<1>6. CASE d <= -FL_WINDOW_SIZE \/ d >= FL_WINDOW_SIZE
  <2>1. v.last = s /\ v.bits = {0}
    BY <1>1, <1>6, MarkedIs
  <2> HIDE DEF v
  <2> QED BY <1>2, <1>3, <2>1
<1>7. (d <= 0 /\ d > -FL_WINDOW_SIZE) \/ (d > 0 /\ d < FL_WINDOW_SIZE)
      \/ (d <= -FL_WINDOW_SIZE \/ d >= FL_WINDOW_SIZE)
  <2> HIDE DEF d
  <2> QED BY <1>1, Sizes
<1> HIDE DEF d, v
<1> QED BY <1>4, <1>5, <1>6, <1>7

\* Where the protection starts no sooner than the window ends it never refuses a copy.
LEMMA NeverRefused ==
  ASSUME NEW n, NEW first, NEW b, NEW C, Window(n, first, b, C), NEW s \in C, FL_MAX_AGE = FL_WINDOW_SIZE
  PROVE  ~batadv_window_protected(b, SeqDifference(s, b.last))
<1>1. CASE b.bits = {}
  BY <1>1 DEF Window, Unheard, batadv_window_protected
<1>2. CASE b.bits # {}
  <2> DEFINE d == SeqDifference(s, b.last)
  <2>1. d \in (-(FL_WINDOW_SIZE - 1))..FL_WINDOW_SIZE
    BY <1>2, NearWindow DEF Window
  <2> HIDE DEF d
  <2>2. ~FarOff(d)
    BY <2>1, Sizes DEF FarOff
  <2> QED BY <2>2 DEF batadv_window_protected, d
<1> QED BY <1>1, <1>2

OneNumber ==
  \A c, d \in copies : c.orig = d.orig /\ c.kind = "BCAST" /\ d.kind = "BCAST" /\ c.seqno = d.seqno => c.crc = d.crc

HandedBy(f) == \E h \in FlOrig : handed[h][f] > 0

\* A frame was handed over or is on its way, and what would refuse it is there because it was.
OnItsWay == \A o \in FlOrig : \A f \in bridged[o] : HandedBy(f) \/ \E c \in copies : c.orig = o /\ c.crc = f
MarkedHanded ==
  \A c \in copies : c.kind = "BCAST" /\ batadv_test_bit(orig_node[c.orig], c.seqno) => HandedBy(c.crc)
ListedHanded == \A i \in DOMAIN bcast_duplist : HandedBy(bcast_duplist[i].crc)

\* No number is marked before it is sent.
MarkedSent ==
  \A o \in FlOrig : \A x \in Num :
    SeqDifference(orig_node[o].last, x) \in orig_node[o].bits => SeqDifference(bcast_seqno[o], x) >= 1

MissInv == OneNumber /\ MarkedSent /\ (fl_left.complete => OnItsWay /\ MarkedHanded /\ ListedHanded)

LEMMA InitMissInv ==
  ASSUME FlInit
  PROVE  MissInv
BY DEF FlInit, MissInv, OneNumber, MarkedSent, OnItsWay, MarkedHanded, ListedHanded

\* A copy is sent: as no copy has the number that is next, its number is its own.
LEMMA MissSend ==
  ASSUME FlInv, MissInv, NEW o \in FlOrig, NEW f, NEW kind \in {"BCAST", "UNICAST"},
         NEW n, NEW N \in SUBSET Copies(o, kind, n, f), N # {},
         kind = "BCAST" => n = bcast_seqno[o] /\ bcast_seqno' = [bcast_seqno EXCEPT ![o] = (@ + 1) % FL_SEQS],
         kind = "UNICAST" => UNCHANGED bcast_seqno,
         copies' = copies \cup N, bridged' = [bridged EXCEPT ![o] = @ \cup {f}],
         UNCHANGED <<orig_node, bcast_duplist, handed>>, fl_left'.complete = fl_left.complete
  PROVE  MissInv'
<1>1. \A c \in N : c.orig = o /\ c.kind = kind /\ c.seqno = n /\ c.crc = f
  BY DEF Copies
<1>2. \A g : HandedBy(g)' <=> HandedBy(g)
  BY DEF HandedBy
<1>3. OneNumber'
  <2>1. \A c \in copies : c.orig = o /\ c.kind = "BCAST" => c.seqno # bcast_seqno[o]
    <3> SUFFICES ASSUME NEW c \in copies, c.orig = o, c.kind = "BCAST", c.seqno = bcast_seqno[o]
                 PROVE  FALSE
      OBVIOUS
    <3>1. Flying(bcast_seqno[o], Numbers(copies, o)) /\ bcast_seqno[o] \in Num
      BY DEF FlInv, Windows, Window
    <3>2. c.seqno \in Numbers(copies, o)
      BY DEF Numbers
    <3>3. SeqDifference(bcast_seqno[o], bcast_seqno[o]) \in 1..FL_WINDOW_SIZE
      BY <3>1, <3>2 DEF Flying
    <3> QED BY <3>1, <3>3, DifferenceRange, Sizes
  <2> QED BY <1>1, <2>1 DEF MissInv, OneNumber
<1>4. MarkedSent'
  <2> SUFFICES ASSUME NEW x \in FlOrig, NEW y \in Num,
                      SeqDifference(orig_node[x].last, y) \in orig_node[x].bits
               PROVE  SeqDifference(bcast_seqno'[x], y) >= 1
    BY DEF MarkedSent
  <2>1. bcast_seqno \in [FlOrig -> Num] /\ bcast_seqno[x] \in Num
        /\ SeqDifference(bcast_seqno[x], y) >= 1 /\ SeqDifference(bcast_seqno[x], y) \in Int
    BY DifferenceRange DEF FlInv, FlTypes, MissInv, MarkedSent
  <2>2. CASE bcast_seqno'[x] = bcast_seqno[x]
    BY <2>1, <2>2
  <2>3. CASE bcast_seqno'[x] # bcast_seqno[x]
    <3> DEFINE m == bcast_seqno[x]  b == orig_node[x]
    <3>1. x = o /\ bcast_seqno'[x] = (m + 1) % FL_SEQS
      BY <2>1, <2>3
    <3>2. Window(m, fl_left.seqno[x], b, Numbers(copies, x)) /\ b.bits # {}
      BY DEF FlInv, Windows
    <3>3. b.last \in Num /\ SeqDifference(b.last, y) \in 0..(FL_WINDOW_SIZE - 1)
          /\ SeqDifference(m, b.last) \in (-FL_WINDOW_SIZE)..(FL_WINDOW_SIZE + 1)
      BY <3>2 DEF Window, OrigNode, Heard
    <3>4. SeqDifference(m, y) = SeqDifference(m, b.last) + SeqDifference(b.last, y)
      <4>1. SeqDifference(m, b.last) + SeqDifference(b.last, y) \in (-HALF)..(HALF - 1)
        BY <3>3, Sizes
      <4> QED BY <2>1, <3>3, <4>1, DifferencesAdd
    <3>5. SeqDifference((m + 1) % FL_SEQS, m) = 1 /\ (m + 1) % FL_SEQS \in Num
      BY <2>1, DifferenceOfNext
    <3>6. SeqDifference((m + 1) % FL_SEQS, m) + SeqDifference(m, y) \in (-HALF)..(HALF - 1)
      BY <2>1, <3>3, <3>4, <3>5, Sizes
    <3>7. SeqDifference((m + 1) % FL_SEQS, y) = 1 + SeqDifference(m, y)
      BY <2>1, <3>5, <3>6, DifferencesAdd
    <3> QED BY <2>1, <3>1, <3>7
  <2> QED BY <2>2, <2>3
<1>5. \A c \in N : c.kind = "BCAST" => ~batadv_test_bit(orig_node[o], n)
  <2> SUFFICES ASSUME kind = "BCAST", batadv_test_bit(orig_node[o], n) PROVE FALSE
    BY <1>1
  <2>1. n \in Num /\ SeqDifference(n, n) >= 1
    BY DEF FlInv, FlTypes, MissInv, MarkedSent, batadv_test_bit
  <2> QED BY <2>1, DifferenceRange
<1>6. ASSUME fl_left.complete
      PROVE  OnItsWay' /\ MarkedHanded' /\ ListedHanded'
  <2>1. OnItsWay /\ MarkedHanded /\ ListedHanded
    BY <1>6 DEF MissInv
  <2>2. OnItsWay'
    <3> SUFFICES ASSUME NEW x \in FlOrig, NEW g \in bridged'[x]
                 PROVE  HandedBy(g) \/ \E c \in copies' : c.orig = x /\ c.crc = g
      BY <1>2 DEF OnItsWay
    <3>1. bridged \in [FlOrig -> SUBSET FlFrame]
      BY DEF FlInv, FlTypes
    <3>2. CASE g \in bridged[x]
      BY <2>1, <3>2 DEF OnItsWay
    <3>3. CASE g \notin bridged[x]
      <4>1. x = o /\ g = f
        BY <3>1, <3>3
      <4> QED BY <1>1, <4>1
    <3> QED BY <3>2, <3>3
  <2>3. MarkedHanded'
    BY <1>1, <1>2, <1>5, <2>1 DEF MarkedHanded
  <2>4. ListedHanded'
    BY <1>2, <2>1 DEF ListedHanded
  <2> QED BY <2>2, <2>3, <2>4
<1> QED BY <1>3, <1>4, <1>6 DEF MissInv

\* A copy arrives: what it marks and lists was handed over.
LEMMA MissReceive ==
  ASSUME FlInv, MissInv, FL_MAX_AGE = FL_WINDOW_SIZE,
         NEW c \in copies, batadv_recv_bcast_packet(c) \/ batadv_bla_check_ucast_duplist(c)
  PROVE  MissInv'
<1> DEFINE orig == IF c.kind = "BCAST" THEN c.orig ELSE "none"
           b == orig_node[c.orig]
           drop == c.kind = "BCAST" /\ batadv_test_bit(b, c.seqno)
           check == batadv_bla_check_duplist(c.crc, orig)
<1>1. /\ c.orig \in FlOrig /\ c.crc \in fl_left.frames /\ c.crc \in FlFrame /\ c.seqno \in Num
      /\ c.kind \in {"BCAST", "UNICAST"} /\ orig \in FlOrig \cup {"none"}
      /\ bcast_duplist \in Seq(Entry) /\ handed \in [FlOrig -> [FlFrame -> Nat]]
      /\ bcast_seqno \in [FlOrig -> Num] /\ orig_node \in [FlOrig -> OrigNode]
  BY DEF FlInv, FlTypes, Copy, FlScenario
<1>2. c.kind = "BCAST" => ~batadv_window_protected(b, SeqDifference(c.seqno, b.last))
  <2> SUFFICES ASSUME c.kind = "BCAST" PROVE ~batadv_window_protected(b, SeqDifference(c.seqno, b.last))
    OBVIOUS
  <2> DEFINE C == Numbers(copies, c.orig)  n == bcast_seqno[c.orig]  first == fl_left.seqno[c.orig]
  <2>1. Window(n, first, b, C) /\ c.seqno \in C
    BY <1>1 DEF FlInv, Windows, Numbers
  <2> HIDE DEF n, first, C
  <2> QED BY <2>1, NeverRefused
<1>3. copies' = copies \ {c} /\ UNCHANGED <<bcast_seqno, bridged>>
  BY DEF batadv_recv_bcast_packet, batadv_bla_check_ucast_duplist
<1>4. CASE drop
  <2>1. UNCHANGED <<orig_node, bcast_duplist, handed, fl_left>>
    BY <1>4 DEF batadv_recv_bcast_packet, batadv_bla_check_ucast_duplist
  <2>2. OneNumber' /\ MarkedSent'
    BY <1>3, <2>1 DEF MissInv, OneNumber, MarkedSent
  <2>3. ASSUME fl_left.complete
        PROVE  OnItsWay' /\ MarkedHanded' /\ ListedHanded'
    <3>1. OnItsWay /\ MarkedHanded /\ ListedHanded /\ HandedBy(c.crc)
      BY <1>4, <2>3 DEF MissInv, MarkedHanded
    <3>2. \A g : HandedBy(g)' <=> HandedBy(g)
      BY <2>1 DEF HandedBy
    <3>3. OnItsWay'
      BY <1>3, <3>1, <3>2 DEF OnItsWay
    <3>4. MarkedHanded' /\ ListedHanded'
      BY <1>3, <2>1, <3>1, <3>2 DEF MarkedHanded, ListedHanded
    <3> QED BY <3>3, <3>4
  <2> QED BY <2>1, <2>2, <2>3 DEF MissInv
<1>5. CASE ~drop
  <2>1. /\ HandOver(c, orig)
        /\ c.kind = "UNICAST" => UNCHANGED orig_node
    BY <1>1, <1>2, <1>5 DEF batadv_recv_bcast_packet, batadv_bla_check_ucast_duplist
  <2>2. ~Taken(c.orig, c.crc)
    BY <1>1, <1>5 DEF FlInv, TakenMarked
  <2>3. SameScenario
    <3>1. orig \in {c.orig, "none"}
      OBVIOUS
    <3> HIDE DEF orig
    <3> QED BY <2>1, <2>2, <3>1, HandOverKeeps
  <2>4. c.kind = "BCAST" =>
          /\ orig_node' \in [FlOrig -> OrigNode]
          /\ \A x \in FlOrig : x # c.orig => orig_node'[x] = orig_node[x]
          /\ orig_node'[c.orig] = Marked(b, SeqDifference(c.seqno, b.last), c.seqno, orig_node'[c.orig].protected)
          /\ orig_node'[c.orig].protected \in BOOLEAN
    <3> SUFFICES ASSUME c.kind = "BCAST"
                 PROVE  /\ orig_node' \in [FlOrig -> OrigNode]
                        /\ \A x \in FlOrig : x # c.orig => orig_node'[x] = orig_node[x]
                        /\ orig_node'[c.orig] = Marked(b, SeqDifference(c.seqno, b.last), c.seqno,
                                                       orig_node'[c.orig].protected)
                        /\ orig_node'[c.orig].protected \in BOOLEAN
      OBVIOUS
    <3>1. LET d == SeqDifference(c.seqno, b.last)
          IN orig_node' = [orig_node EXCEPT ![c.orig] =
               [batadv_bit_get_packet(b, d, c.seqno) EXCEPT !.protected = @ \/ FarOff(d)]]
      BY <1>2, <1>5 DEF batadv_recv_bcast_packet, batadv_bla_check_ucast_duplist
    <3> QED BY <3>1, TakenIsMarked
  \* What is marked afterwards.
  <2>5. ASSUME NEW x \in FlOrig, NEW m \in Num,
               SeqDifference(orig_node'[x].last, m) \in orig_node'[x].bits
        PROVE  \/ x = c.orig /\ c.kind = "BCAST" /\ m = c.seqno
               \/ SeqDifference(orig_node[x].last, m) \in orig_node[x].bits
    <3>1. CASE orig_node'[x] = orig_node[x]
      BY <2>5, <3>1
    <3>2. CASE orig_node'[x] # orig_node[x]
      <4>1. x = c.orig /\ c.kind = "BCAST"
        BY <1>1, <2>1, <2>4, <3>2
      <4> DEFINE p == orig_node'[c.orig].protected
      <4>2. b \in OrigNode /\ p \in BOOLEAN /\ orig_node'[x] = Marked(b, SeqDifference(c.seqno, b.last), c.seqno, p)
        BY <1>1, <2>4, <4>1
      <4>3. b = orig_node[x]
        BY <4>1
      <4> HIDE DEF p, b
      <4>4. m = c.seqno \/ SeqDifference(b.last, m) \in b.bits
        BY <1>1, <2>5, <4>2, OnlyTakenMarked
      <4> QED BY <4>1, <4>3, <4>4
    <3> QED BY <3>1, <3>2
  <2>6. OneNumber'
    BY <1>3 DEF MissInv, OneNumber
  <2>7. MarkedSent'
    <3> SUFFICES ASSUME NEW x \in FlOrig, NEW m \in Num,
                        SeqDifference(orig_node'[x].last, m) \in orig_node'[x].bits
                 PROVE  SeqDifference(bcast_seqno[x], m) >= 1
      BY <1>3 DEF MarkedSent
    <3>1. CASE x = c.orig /\ c.kind = "BCAST" /\ m = c.seqno
      <4>1. Flying(bcast_seqno[x], Numbers(copies, x)) /\ m \in Numbers(copies, x)
        BY <3>1 DEF FlInv, Windows, Window, Numbers
      <4> QED BY <4>1 DEF Flying
    <3>2. CASE SeqDifference(orig_node[x].last, m) \in orig_node[x].bits
      BY <3>2 DEF MissInv, MarkedSent
    <3> QED BY <2>5, <3>1, <3>2
  <2>8. ASSUME fl_left.complete
        PROVE  OnItsWay' /\ MarkedHanded' /\ ListedHanded'
    <3>1. OnItsWay /\ MarkedHanded /\ ListedHanded
      BY <2>8 DEF MissInv
    <3>2. ~FlUse("busy")
      <4>1. fl_left["busy"] = 0
        BY <2>8 DEF FlInv, FlTypes, Regular, FlScenario
      <4> QED BY <4>1 DEF FlUse
    <3>3. /\ bcast_duplist' = check.list
          /\ handed' = IF check.found THEN handed ELSE [handed EXCEPT ![c.orig][c.crc] = @ + 1]
      BY <2>1, <3>2 DEF HandOver
    <3>4. /\ check.found <=> \E i \in DOMAIN bcast_duplist : SameFrame(bcast_duplist[i], c.crc, orig)
          /\ check.found => check.list = bcast_duplist
          /\ ~check.found => \A i \in DOMAIN check.list :
                i \in DOMAIN Longer(c.crc, orig) /\ check.list[i] = Longer(c.crc, orig)[i]
      BY <1>1, DuplistIs
    <3> HIDE DEF check
    <3>5. ASSUME NEW h \in FlOrig, NEW g \in FlFrame, handed[h][g] > 0
          PROVE  handed'[h][g] > 0
      BY <1>1, <3>3, <3>5
    <3>6. ASSUME NEW g \in FlFrame, HandedBy(g)
          PROVE  HandedBy(g)'
      BY <3>5, <3>6 DEF HandedBy
    <3>7. HandedBy(c.crc)'
      <4>1. CASE check.found
        <5>1. PICK i \in DOMAIN bcast_duplist : bcast_duplist[i].crc = c.crc
          BY <3>4, <4>1 DEF SameFrame
        <5>2. HandedBy(bcast_duplist[i].crc)
          BY <3>1 DEF ListedHanded
        <5> QED BY <1>1, <3>6, <5>1, <5>2
      <4>2. CASE ~check.found
        <5>1. handed'[c.orig][c.crc] > 0
          BY <1>1, <3>3, <4>2
        <5> QED BY <1>1, <5>1 DEF HandedBy
      <4> QED BY <4>1, <4>2
    <3>8. OnItsWay'
      <4> SUFFICES ASSUME NEW x \in FlOrig, NEW g \in bridged[x]
                   PROVE  HandedBy(g)' \/ \E m \in copies' : m.orig = x /\ m.crc = g
        BY <1>3 DEF OnItsWay
      <4>1. g \in FlFrame
        BY DEF FlInv, FlTypes
      <4>2. CASE HandedBy(g)
        BY <3>6, <4>1, <4>2
      <4>3. CASE \E m \in copies : m.orig = x /\ m.crc = g
        BY <1>3, <3>7, <4>3
      <4> QED BY <3>1, <4>2, <4>3 DEF OnItsWay
    <3>9. MarkedHanded'
      <4> SUFFICES ASSUME NEW m \in copies', m.kind = "BCAST", batadv_test_bit(orig_node'[m.orig], m.seqno)
                   PROVE  HandedBy(m.crc)'
        BY DEF MarkedHanded
      <4>1. m \in copies /\ m.orig \in FlOrig /\ m.seqno \in Num /\ m.crc \in FlFrame
        BY <1>3 DEF FlInv, FlTypes, Copy, FlScenario
      <4>2. CASE m.orig = c.orig /\ c.kind = "BCAST" /\ m.seqno = c.seqno
        <5>1. m.crc = c.crc
          BY <4>1, <4>2 DEF MissInv, OneNumber
        <5> QED BY <3>7, <5>1
      <4>3. CASE SeqDifference(orig_node[m.orig].last, m.seqno) \in orig_node[m.orig].bits
        <5>1. HandedBy(m.crc)
          BY <3>1, <4>1, <4>3 DEF MarkedHanded, batadv_test_bit
        <5> QED BY <3>6, <4>1, <5>1
      <4> QED BY <2>5, <4>1, <4>2, <4>3 DEF batadv_test_bit
    <3>10. ListedHanded'
      <4> SUFFICES ASSUME NEW i \in DOMAIN bcast_duplist'
                   PROVE  \E h \in FlOrig : handed'[h][bcast_duplist'[i].crc] > 0
        BY DEF ListedHanded, HandedBy
      <4>1. \A j \in DOMAIN bcast_duplist : \E h \in FlOrig : handed'[h][bcast_duplist[j].crc] > 0
        <5> TAKE j \in DOMAIN bcast_duplist
        <5>1. bcast_duplist[j] \in Entry
          BY <1>1
        <5>2. bcast_duplist[j].crc \in FlFrame
          BY <5>1 DEF Entry, FlInv, FlTypes, FlScenario
        <5> DEFINE g == bcast_duplist[j].crc
        <5>3. g \in FlFrame /\ \E h \in FlOrig : handed[h][g] > 0
          BY <3>1, <5>2 DEF ListedHanded, HandedBy
        <5> HIDE DEF g
        <5>4. \E h \in FlOrig : handed'[h][g] > 0
          BY <3>5, <5>3
        <5> QED BY <5>4 DEF g
      <4>2. CASE check.found
        BY <3>3, <3>4, <4>1, <4>2 DEF HandedBy
      <4>3. CASE ~check.found
        <5> DEFINE l == Longer(c.crc, orig)
        <5>1. i \in DOMAIN l /\ bcast_duplist'[i] = l[i]
          BY <3>3, <3>4, <4>3
        <5>2. l[1].crc = c.crc /\ \A j \in DOMAIN l : j # 1 => j - 1 \in DOMAIN bcast_duplist /\ l[j] = bcast_duplist[j - 1]
          BY <1>1, LongerIs
        <5> HIDE DEF l
        <5>3. CASE i = 1
          BY <3>7, <5>1, <5>2, <5>3 DEF HandedBy
        <5>4. CASE i # 1
          BY <4>1, <5>1, <5>2, <5>4 DEF HandedBy
        <5> QED BY <5>3, <5>4
      <4> QED BY <4>2, <4>3
    <3> QED BY <3>8, <3>9, <3>10
  <2> QED BY <2>3, <2>6, <2>7, <2>8 DEF MissInv, SameScenario
<1> QED BY <1>4, <1>5

LEMMA MissSends ==
  ASSUME FlInv, MissInv, NEW o \in FlOrig, NEW f \in FlFrame, SendBroadcast(o, f) \/ SendUnicast(o, f)
  PROVE  MissInv'
<1>1. PICK p : p \in fl_left.paths
  BY DEF FlInv, FlTypes, FlScenario
<1>2. CASE SendBroadcast(o, f)
  <2> DEFINE n == bcast_seqno[o]  N == Copies(o, "BCAST", n, f)
  <2>1. [orig |-> o, kind |-> "BCAST", seqno |-> n, crc |-> f, path |-> p] \in N
    BY <1>1 DEF Copies
  <2>2. /\ N \in SUBSET Copies(o, "BCAST", n, f)
        /\ "BCAST" = "BCAST" => n = bcast_seqno[o] /\ bcast_seqno' = [bcast_seqno EXCEPT ![o] = (@ + 1) % FL_SEQS]
        /\ copies' = copies \cup N /\ bridged' = [bridged EXCEPT ![o] = @ \cup {f}]
        /\ UNCHANGED <<orig_node, bcast_duplist, handed>> /\ fl_left'.complete = fl_left.complete
    BY <1>2 DEF SendBroadcast
  <2> HIDE DEF n, N
  <2>3. N # {}
    BY <2>1
  <2> QED BY <2>2, <2>3, MissSend
<1>3. CASE SendUnicast(o, f)
  <2> DEFINE x == CHOOSE y \in Copies(o, "UNICAST", 0, f) : TRUE  N == {x}
  <2>1. [orig |-> o, kind |-> "UNICAST", seqno |-> 0, crc |-> f, path |-> p] \in Copies(o, "UNICAST", 0, f)
    BY <1>1 DEF Copies
  <2>2. x \in Copies(o, "UNICAST", 0, f)
    BY <2>1
  <2>3. /\ "UNICAST" = "UNICAST" => UNCHANGED bcast_seqno
        /\ copies' = copies \cup N /\ bridged' = [bridged EXCEPT ![o] = @ \cup {f}]
        /\ UNCHANGED <<orig_node, bcast_duplist, handed>>
    BY <1>3 DEF SendUnicast
  <2>4. fl_left'.complete = fl_left.complete
    <3>1. SameScenario
      BY <1>3, UseKeeps DEF SendUnicast, FlInv, FlTypes
    <3> QED BY <3>1 DEF SameScenario
  <2> HIDE DEF x
  <2>5. N \in SUBSET Copies(o, "UNICAST", 0, f) /\ N # {}
    BY <2>2
  <2> HIDE DEF N
  <2> QED BY <2>3, <2>4, <2>5, MissSend
<1> QED BY <1>2, <1>3

LEMMA NextKeepsMissInv ==
  ASSUME FlInv, MissInv, FL_MAX_AGE = FL_WINDOW_SIZE, [FlNext]_flVars
  PROVE  MissInv'
<1>1. ASSUME NEW o \in FlOrig, NEW f \in FlFrame, SendBroadcast(o, f) \/ SendUnicast(o, f)
      PROVE  MissInv'
  BY <1>1, MissSends
<1>2. ASSUME NEW o \in FlOrig, RestartGateway(o)
      PROVE  MissInv'
  <2>1. fl_left["restarts"] = 0
    BY DEF FlInv, FlTypes, Regular, FlScenario
  <2> QED BY <1>2, <2>1 DEF RestartGateway, FlUse
<1>3. ASSUME NEW o \in FlOrig, ProtectionEnds(o)
      PROVE  MissInv'
  <2>1. \A x \in FlOrig : orig_node'[x].last = orig_node[x].last /\ orig_node'[x].bits = orig_node[x].bits
    <3> TAKE x \in FlOrig
    <3>1. orig_node \in [FlOrig -> OrigNode] /\ orig_node' = [orig_node EXCEPT ![o].protected = FALSE]
      BY <1>3 DEF FlInv, FlTypes, ProtectionEnds
    <3> QED BY <3>1 DEF OrigNode
  <2>2. UNCHANGED <<bcast_seqno, bridged, copies, bcast_duplist, handed, fl_left>>
    BY <1>3 DEF ProtectionEnds
  <2>3. \A g : HandedBy(g)' <=> HandedBy(g)
    BY <2>2 DEF HandedBy
  <2>4. MarkedSent' /\ OneNumber'
    BY <2>1, <2>2 DEF MissInv, MarkedSent, OneNumber
  <2>5. ASSUME fl_left.complete
        PROVE  OnItsWay' /\ MarkedHanded' /\ ListedHanded'
    <3>1. \A c \in copies : c.orig \in FlOrig
      BY DEF FlInv, FlTypes, Copy
    <3> QED BY <2>1, <2>2, <2>3, <2>5, <3>1
            DEF MissInv, OnItsWay, MarkedHanded, ListedHanded, batadv_test_bit
  <2> QED BY <2>2, <2>4, <2>5 DEF MissInv
<1>4. ASSUME NEW c \in copies, batadv_recv_bcast_packet(c) \/ batadv_bla_check_ucast_duplist(c)
      PROVE  MissInv'
  BY <1>4, MissReceive
<1>5. CASE DuplistTimeout
  <2>1. /\ bcast_duplist # <<>> /\ bcast_duplist' = Front(bcast_duplist) /\ bcast_duplist \in Seq(Entry)
        /\ UNCHANGED <<bcast_seqno, bridged, copies, orig_node, handed>>
    BY <1>5 DEF FlInv, FlTypes, DuplistTimeout
  <2>2. fl_left'.complete = fl_left.complete
    <3>1. SameScenario
      BY <1>5, UseKeeps DEF DuplistTimeout, FlInv, FlTypes
    <3> QED BY <3>1 DEF SameScenario
  <2>3. \A i \in DOMAIN bcast_duplist' : i \in DOMAIN bcast_duplist /\ bcast_duplist'[i] = bcast_duplist[i]
    <3> DEFINE n == Len(bcast_duplist)
    <3>1. n \in Nat /\ n >= 1
      BY <2>1
    <3>2. bcast_duplist' = SubSeq(bcast_duplist, 1, n - 1)
      BY <2>1 DEF Front
    <3> QED BY <2>1, <3>1, <3>2
  <2>4. OneNumber' /\ MarkedSent'
    BY <2>1 DEF MissInv, OneNumber, MarkedSent
  <2>5. ASSUME fl_left.complete
        PROVE  OnItsWay' /\ MarkedHanded' /\ ListedHanded'
    <3>1. OnItsWay /\ MarkedHanded /\ ListedHanded
      BY <2>5 DEF MissInv
    <3>2. OnItsWay' /\ MarkedHanded'
      BY <2>1, <3>1 DEF OnItsWay, MarkedHanded, HandedBy
    <3>3. ListedHanded'
      BY <2>1, <2>3, <3>1 DEF ListedHanded, HandedBy
    <3> QED BY <3>2, <3>3
  <2> QED BY <2>2, <2>4, <2>5 DEF MissInv
<1>6. CASE UNCHANGED flVars
  BY <1>6 DEF flVars, MissInv, OneNumber, MarkedSent, OnItsWay, MarkedHanded, ListedHanded, HandedBy
<1> QED BY <1>1, <1>2, <1>3, <1>4, <1>5, <1>6 DEF FlNext

\* Under the same conditions, with the window as long as copies may be old, every frame was
\* handed over when all copies have arrived.
THEOREM EveryFrameHandedOver ==
  ASSUME FL_MAX_AGE = FL_WINDOW_SIZE
  PROVE  FlSpec /\ Regular => []NoneMissed
<1>1. FlInit /\ Regular => FlInv /\ MissInv
  BY InitFlInv, InitMissInv
<1>2. FlInv /\ MissInv /\ [FlNext]_flVars => FlInv' /\ MissInv'
  BY NextKeepsFlInv, NextKeepsMissInv
<1>3. MissInv => NoneMissed
  BY DEF MissInv, OnItsWay, HandedBy, NoneMissed
<1> QED BY <1>1, <1>2, <1>3, PTL DEF FlSpec

===============================================================================
