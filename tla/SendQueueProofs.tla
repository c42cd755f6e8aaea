-------------------------- MODULE SendQueueProofs --------------------------
(***************************************************************************)
(* Proofs about SendQueue for any number of interfaces and packets and for *)
(* every interleaving of senders, worker and RTNL thread.                  *)
(***************************************************************************)
EXTENDS SendQueue, FiniteSetTheorems, TLAPS

Status == {"NOT_IN_USE", "INACTIVE", "TO_BE_ACTIVATED", "ACTIVE"}
HardifState == [status : Status, mesh_iface : BOOLEAN, up : BOOLEAN, ogm_buff : BOOLEAN]
Packet ==
  {q \in [kind : {"none", "bcast", "ogm"}, stolen : BOOLEAN, own : BOOLEAN,
          in : Hardif \cup {NONE}, out : Hardif \cup {NONE}, num_bcasts : Int,
          timer : BOOLEAN] :
     q.kind # "none" => q.in \in Hardif /\ q.out \in Hardif}
Scenario == [used : Seq(Hardif), neigh : [Hardif -> Nat], bcasts : Nat, changes : Nat,
             events : Nat, interrupted : BOOLEAN]

SqTypeOK ==
  /\ hi \in [Hardif -> HardifState] /\ primary_if \in Hardif \cup {NONE}
  /\ fp \in [Forw -> Packet] /\ bcast_queue_left \in Nat
  /\ worker \in [pc : {"idle", "bcast", "requeue", "ogm", "schedule", "steal"},
                 p : Forw \cup {NONE}]
  /\ rtnl \in [pc : {"idle", "enabled", "disable", "unused", "bcast", "ogm", "free"},
               i : Hardif \cup {NONE}, head : SUBSET Forw]
  /\ rtnl.pc \in {"enabled", "disable", "unused"} => rtnl.i # NONE
  /\ tx \in Hardif \cup {NONE} /\ mesh_state \in {"ACTIVE", "DEACTIVATING", "INACTIVE"}
  /\ bounds \in Scenario

-----------------------------------------------------------------------------
(* Who holds which packet. *)

\* The worker holds a packet whose timer has run off, and treats it as what it is.
WorkerHolds ==
  /\ worker.pc = "idle" <=> worker.p = NONE
  /\ worker.p # NONE =>
       LET q == fp[worker.p]
       IN /\ ~q.timer /\ q.kind # "none"
          /\ worker.pc \in {"bcast", "requeue"} => q.kind = "bcast"
          /\ worker.pc \in {"ogm", "schedule"} => q.kind = "ogm"
          /\ worker.pc = "schedule" => q.in = q.out

\* The purge holds what is marked as stolen; freed packets are in nobody's hands.
PurgeHolds ==
  /\ \A p \in Forw : /\ fp[p].stolen <=> p \in rtnl.head
                     /\ fp[p].stolen \/ fp[p].timer => fp[p].kind # "none"
  /\ rtnl.pc \notin {"ogm", "free"} => rtnl.head = {}

SqHeld == SqTypeOK /\ WorkerHolds /\ PurgeHolds

-----------------------------------------------------------------------------
(* Interfaces. *)

Removing == rtnl.pc \in {"disable", "unused", "bcast", "ogm", "free"} /\ rtnl.i # NONE

InterfacesAgree ==
  /\ \A i \in Hardif : /\ hi[i].status # "NOT_IN_USE" => hi[i].mesh_iface
                       /\ hi[i].ogm_buff => hi[i].status # "NOT_IN_USE"
  /\ primary_if # NONE => hi[primary_if].mesh_iface
  /\ rtnl.pc = "idle" => rtnl = Unlocked
  /\ rtnl.pc = "enabled" => hi[rtnl.i].ogm_buff
  /\ Removing =>
       /\ primary_if # rtnl.i
       /\ rtnl.pc # "disable" => ~hi[rtnl.i].ogm_buff
       /\ rtnl.pc \in {"bcast", "ogm", "free"} => hi[rtnl.i].status = "NOT_IN_USE"
  /\ rtnl.pc \in {"bcast", "ogm", "free"} /\ rtnl.i = NONE => mesh_state # "ACTIVE"

\* As long as no sender was interrupted with a primary interface in its hands.
Calm == bounds.interrupted => bounds.changes = 0
ReferencesFound ==
  /\ Calm
  /\ tx # NONE => bounds.interrupted /\ hi[tx].mesh_iface
  /\ Removing => ~bounds.interrupted
  /\ Removing /\ rtnl.pc = "ogm" =>
       \A p \in Forw : fp[p].kind = "bcast" /\ fp[p].in = rtnl.i => p \in rtnl.head
  /\ Removing /\ rtnl.pc = "free" =>
       \A p \in Forw : fp[p].kind # "none" /\ fp[p].in = rtnl.i => p \in rtnl.head

\* The interface the purge is about is why it has stolen what it has.
StolenForIt ==
  \A p \in rtnl.head : rtnl.i # NONE => rtnl.i \in {fp[p].in, fp[p].out}

\* The first OGM of an interface is still to be queued; the last one is still to be purged.
Starting(i) == rtnl.pc = "enabled" /\ rtnl.i = i
Stopping(i) == rtnl.pc \in {"unused", "bcast", "ogm"} /\ rtnl.i = i

ChainsKept ==
  mesh_state = "ACTIVE" =>
    \A i \in Hardif :
      /\ \A p, q \in Chain(i) : p = q
      /\ hi[i].ogm_buff /\ ~Starting(i) => Chain(i) # {}
      /\ Starting(i) \/ (~hi[i].ogm_buff /\ ~Stopping(i)) => Chain(i) = {}
-----------------------------------------------------------------------------
(* Allocation. *)

\* Packets of which there are enough unused ones are placed on as many unused packets, one
\* on each; the other packets stay as they are.
LEMMA Allocated ==
  ASSUME NEW f, NEW pkt, Placements(f, DOMAIN pkt) # {}
  PROVE  \E P \in SUBSET Unused(f) : \E of \in Bijection(P, DOMAIN pkt) :
           /\ Cardinality(P) = Cardinality(DOMAIN pkt)
           /\ batadv_forw_packet_alloc(f, pkt)
                = [p \in Forw |-> IF p \in P THEN pkt[of[p]] ELSE f[p]]
<1> DEFINE g == CHOOSE h \in Placements(f, DOMAIN pkt) : TRUE
<1>1. g \in Placements(f, DOMAIN pkt)
  OBVIOUS
<1>2. PICK P \in kSubset(Cardinality(DOMAIN pkt), Unused(f)) : g \in Bijection(P, DOMAIN pkt)
  BY <1>1 DEF Placements
<1>3. P \in SUBSET Unused(f) /\ Cardinality(P) = Cardinality(DOMAIN pkt)
  BY <1>2 DEF kSubset
<1>4. DOMAIN g = P
  BY <1>2 DEF Bijection, Injection
<1>5. batadv_forw_packet_alloc(f, pkt) = [p \in Forw |-> IF p \in DOMAIN g THEN pkt[g[p]] ELSE f[p]]
  BY DEF batadv_forw_packet_alloc
<1> HIDE DEF g
<1> QED BY <1>2, <1>3, <1>4, <1>5

\* The same, packet by packet: a packet that is in use stays as it is, and each new one is
\* found on exactly one packet that was unused.
LEMMA AllocatedEach ==
  ASSUME NEW f, NEW pkt, Placements(f, DOMAIN pkt) # {}
  PROVE  LET g == batadv_forw_packet_alloc(f, pkt)
         IN /\ DOMAIN g = Forw
            /\ \A p \in Forw :
                 \/ g[p] = f[p]
                 \/ f[p].kind = "none" /\ \E x \in DOMAIN pkt : g[p] = pkt[x]
            /\ \A x \in DOMAIN pkt : \E p \in Forw :
                 /\ f[p].kind = "none" /\ g[p] = pkt[x]
                 /\ \A q \in Forw : \/ q = p \/ g[q] = f[q]
                                    \/ f[q].kind = "none" /\ \E y \in DOMAIN pkt \ {x} : g[q] = pkt[y]
<1> DEFINE g == batadv_forw_packet_alloc(f, pkt)
<1>1. PICK P \in SUBSET Unused(f) : \E h \in Bijection(P, DOMAIN pkt) :
         g = [p \in Forw |-> IF p \in P THEN pkt[h[p]] ELSE f[p]]
  BY Allocated
<1>2. PICK of \in Bijection(P, DOMAIN pkt) :
         g = [p \in Forw |-> IF p \in P THEN pkt[of[p]] ELSE f[p]]
  BY <1>1
<1>3. \A p \in P : p \in Forw /\ f[p].kind = "none" /\ of[p] \in DOMAIN pkt /\ g[p] = pkt[of[p]]
  BY <1>2 DEF Unused, Bijection, Injection
<1>4. \A p \in Forw \ P : g[p] = f[p]
  BY <1>2
<1>5. \A x \in DOMAIN pkt : \E p \in P : of[p] = x
  BY <1>2 DEF Bijection, Surjection
<1>6. \A p, q \in P : of[p] = of[q] => p = q
  BY <1>2 DEF Bijection, Injection, IsInjective
<1>7. DOMAIN g = Forw
  BY <1>2
<1> HIDE DEF g
<1>8. \A x \in DOMAIN pkt : \E p \in Forw :
         /\ f[p].kind = "none" /\ g[p] = pkt[x]
         /\ \A q \in Forw : \/ q = p \/ g[q] = f[q]
                            \/ f[q].kind = "none" /\ \E y \in DOMAIN pkt \ {x} : g[q] = pkt[y]
  <2> TAKE x \in DOMAIN pkt
  <2>1. PICK p \in P : of[p] = x
    BY <1>5
  <2>2. ASSUME NEW q \in Forw
        PROVE  \/ q = p \/ g[q] = f[q]
               \/ f[q].kind = "none" /\ \E y \in DOMAIN pkt \ {x} : g[q] = pkt[y]
    <3>1. CASE q \in P
      BY <3>1, <2>1, <1>3, <1>6
    <3>2. CASE q \notin P
      BY <3>2, <1>4
    <3> QED BY <3>1, <3>2
  <2> QED BY <2>1, <2>2, <1>3
<1> QED BY <1>3, <1>4, <1>7, <1>8 DEF g

\* New packets are well-formed, wait on a list with their timers set and nobody holds them.
LEMMA NewPacketType ==
  ASSUME NEW kind \in {"bcast", "ogm"}, NEW own \in BOOLEAN, NEW in \in Hardif,
         NEW out \in Hardif, NEW n \in Int
  PROVE  LET q == NewPacket(kind, own, in, out, n)
         IN q \in Packet /\ q.kind = kind /\ ~q.stolen /\ q.timer /\ q.in = in /\ q.out = out
<1>1. NewPacket(kind, own, in, out, n) \in Packet
  BY DEF NewPacket, Packet
<1> QED BY <1>1 DEF NewPacket

-----------------------------------------------------------------------------
(* The worker and the purge hold their packets in every reachable state. *)

\* What a step that queues packets does to each packet.
QueuedEach ==
  \A p \in Forw : \/ fp'[p] = fp[p]
                  \/ /\ fp[p].kind = "none" /\ fp'[p].kind # "none"
                     /\ ~fp'[p].stolen /\ fp'[p].timer

LEMMA AllocatedType ==
  ASSUME SqTypeOK, NEW pkt, Placements(fp, DOMAIN pkt) # {},
         \A x \in DOMAIN pkt : pkt[x] \in Packet /\ pkt[x].kind # "none" /\ ~pkt[x].stolen
                               /\ pkt[x].timer,
         fp' = batadv_forw_packet_alloc(fp, pkt)
  PROVE  fp' \in [Forw -> Packet] /\ QueuedEach
<1>1. /\ \E P \in SUBSET Unused(fp) : \E of \in Bijection(P, DOMAIN pkt) :
           fp' = [p \in Forw |-> IF p \in P THEN pkt[of[p]] ELSE fp[p]]
      /\ \A p \in Forw : \/ fp'[p] = fp[p]
                         \/ fp[p].kind = "none" /\ \E x \in DOMAIN pkt : fp'[p] = pkt[x]
  BY Allocated, AllocatedEach
<1>2. \E P \in SUBSET Unused(fp) : \E of : fp' = [p \in Forw |-> IF p \in P THEN pkt[of[p]] ELSE fp[p]]
  BY <1>1
<1>3. \A p \in Forw : fp'[p] \in Packet
  BY <1>1 DEF SqTypeOK
<1>4. fp' \in [Forw -> Packet]
  BY <1>2, <1>3
<1> QED BY <1>1, <1>4 DEF QueuedEach

LEMMA BcastQueued ==
  ASSUME SqTypeOK, NEW in \in Hardif, NEW own \in BOOLEAN, NEW delayed \in BOOLEAN,
         __batadv_forw_bcast_packet(in, own, delayed)
  PROVE  fp' \in [Forw -> Packet] /\ bcast_queue_left' \in Nat /\ QueuedEach
<1>1. PICK outs \in batadv_forw_bcast_packet_if(own, delayed) :
        /\ Cardinality(outs) <= bcast_queue_left
        /\ Placements(fp, outs) # {}
        /\ fp' = batadv_forw_packet_alloc(fp, Bcasts(in, own, delayed, outs))
        /\ bcast_queue_left' = bcast_queue_left - Cardinality(outs)
  BY DEF __batadv_forw_bcast_packet
<1>2. outs \subseteq Hardif
  BY DEF batadv_forw_bcast_packet_if, Lower
<1> DEFINE pkt == Bcasts(in, own, delayed, outs)
<1>3. DOMAIN pkt = outs
  BY DEF Bcasts
<1>4. \A i \in outs : pkt[i] \in Packet /\ pkt[i].kind = "bcast" /\ ~pkt[i].stolen /\ pkt[i].timer
  <2> TAKE i \in outs
  <2> DEFINE n == IF delayed THEN NumBcasts[i] ELSE NumBcasts[i] - 1
  <2>1. n \in Int
    BY <1>2, SendQueueAssumption
  <2>2. pkt[i] = NewPacket("bcast", own, in, i, n)
    BY DEF Bcasts
  <2> HIDE DEF n, pkt
  <2> QED BY <2>1, <2>2, <1>2, NewPacketType
<1> HIDE DEF pkt
<1>5. fp' \in [Forw -> Packet] /\ QueuedEach
  BY <1>1, <1>3, <1>4, AllocatedType DEF pkt
<1>6. Cardinality(outs) \in Nat
  <2>1. PICK P \in SUBSET Unused(fp) : Cardinality(P) = Cardinality(outs)
    BY <1>1, <1>3, Allocated DEF pkt
  <2> QED BY <2>1, SendQueueAssumption, FS_Subset, FS_CardinalityType DEF Unused
<1> QED BY <1>1, <1>5, <1>6 DEF SqTypeOK

LEMMA OgmsQueued ==
  ASSUME SqTypeOK, NEW i \in Hardif, batadv_iv_ogm_schedule_buff(i)
  PROVE  fp' \in [Forw -> Packet] /\ hi' \in [Hardif -> HardifState] /\ QueuedEach
<1>1. CASE ~hi[i].ogm_buff
  BY <1>1 DEF batadv_iv_ogm_schedule_buff, SqTypeOK, QueuedEach
<1>2. CASE hi[i].ogm_buff
  <2> DEFINE outs == IF i = primary_if THEN Lower ELSE {i}
             pkt == Ogms(i, outs)
  <2>1. /\ Placements(fp, outs) # {}
        /\ hi' = [hi EXCEPT ![i].status = IF @ = "TO_BE_ACTIVATED" THEN "ACTIVE" ELSE @]
        /\ fp' = batadv_forw_packet_alloc(fp, pkt)
    BY <1>2 DEF batadv_iv_ogm_schedule_buff
  <2>2. outs \subseteq Hardif
    BY DEF Lower
  <2> HIDE DEF outs
  <2>3. DOMAIN pkt = outs
    BY DEF Ogms
  <2>4. \A x \in outs : pkt[x] \in Packet /\ pkt[x].kind = "ogm" /\ ~pkt[x].stolen /\ pkt[x].timer
    <3> TAKE x \in outs
    <3>1. pkt[x] = NewPacket("ogm", TRUE, i, x, 0)
      BY DEF Ogms
    <3>2. x \in Hardif
      BY <2>2
    <3> HIDE DEF pkt
    <3> QED BY <3>1, <3>2 DEF NewPacket, Packet
  <2> HIDE DEF pkt
  <2>5. fp' \in [Forw -> Packet] /\ QueuedEach
    BY <2>1, <2>3, <2>4, AllocatedType
  <2>6. hi' \in [Hardif -> HardifState]
    BY <2>1 DEF SqTypeOK, HardifState, Status
  <2> QED BY <2>5, <2>6
<1> QED BY <1>1, <1>2

\* What is done to a packet leaves it well-formed.
LEMMA PacketChanges ==
  /\ Freed \in Packet
  /\ \A q \in Packet : /\ [q EXCEPT !.timer = FALSE] \in Packet
                       /\ [q EXCEPT !.timer = TRUE] \in Packet
                       /\ [q EXCEPT !.stolen = TRUE] \in Packet
                       /\ \A n \in Int : [q EXCEPT !.num_bcasts = n] \in Packet
<1>1. Freed \in Packet
  BY DEF Freed, Packet
<1>2. \A q \in Packet : /\ [q EXCEPT !.timer = FALSE] \in Packet
                        /\ [q EXCEPT !.timer = TRUE] \in Packet
                        /\ [q EXCEPT !.stolen = TRUE] \in Packet
  BY DEF Packet
<1>3. \A q \in Packet, n \in Int : [q EXCEPT !.num_bcasts = n] \in Packet
  BY DEF Packet
<1> QED BY <1>1, <1>2, <1>3

\* What is done to an interface leaves it well-formed.
LEMMA HardifChanges ==
  \A h \in HardifState :
    /\ \A st \in Status : [h EXCEPT !.status = st] \in HardifState
    /\ [h EXCEPT !.mesh_iface = TRUE] \in HardifState
    /\ [h EXCEPT !.mesh_iface = FALSE] \in HardifState
    /\ [h EXCEPT !.ogm_buff = TRUE] \in HardifState
    /\ [h EXCEPT !.ogm_buff = FALSE] \in HardifState
  BY DEF HardifState

\* An interface that is added.
LEMMA EnabledHardif ==
  ASSUME hi \in [Hardif -> HardifState], NEW i \in Hardif
  PROVE  LET h == [hi EXCEPT ![i].mesh_iface = TRUE, ![i].ogm_buff = TRUE, ![i].status = "INACTIVE"]
         IN /\ h \in [Hardif -> HardifState]
            /\ h[i].status = "INACTIVE" /\ h[i].mesh_iface /\ h[i].ogm_buff
            /\ \A j \in Hardif \ {i} : h[j] = hi[j]
<1> DEFINE h1 == [hi EXCEPT ![i].mesh_iface = TRUE]
           h2 == [h1 EXCEPT ![i].ogm_buff = TRUE]
           h3 == [h2 EXCEPT ![i].status = "INACTIVE"]
<1>1. h1 \in [Hardif -> HardifState]
  BY HardifChanges
<1>2. h1[i].mesh_iface = TRUE /\ \A j \in Hardif \ {i} : h1[j] = hi[j]
  BY DEF HardifState
<1>3. h3 = [hi EXCEPT ![i].mesh_iface = TRUE, ![i].ogm_buff = TRUE, ![i].status = "INACTIVE"]
  OBVIOUS
<1> HIDE DEF h1
<1>4. h2 \in [Hardif -> HardifState]
  BY <1>1, HardifChanges
<1>5. h2[i].mesh_iface = TRUE /\ h2[i].ogm_buff = TRUE /\ \A j \in Hardif \ {i} : h2[j] = hi[j]
  BY <1>1, <1>2 DEF HardifState
<1> HIDE DEF h2
<1>6. h3 \in [Hardif -> HardifState]
  BY <1>4, HardifChanges DEF Status
<1>7. /\ h3[i].status = "INACTIVE" /\ h3[i].mesh_iface = TRUE /\ h3[i].ogm_buff = TRUE
      /\ \A j \in Hardif \ {i} : h3[j] = hi[j]
  BY <1>4, <1>5 DEF HardifState
<1> HIDE DEF h3
<1> QED BY <1>3, <1>6, <1>7

\* A bound is used up step by step.
LEMMA CostType ==
  ASSUME bounds \in Scenario, NEW what \in {"bcasts", "changes", "events"}, Cost(what)
  PROVE  /\ bounds' \in Scenario /\ bounds[what] > 0
         /\ bounds'.used = bounds.used /\ bounds'.neigh = bounds.neigh
         /\ bounds'.interrupted = bounds.interrupted
         /\ what # "changes" => bounds'.changes = bounds.changes
<1>1. CASE what = "bcasts"
  <2>1. bounds.bcasts > 0 /\ bounds' = [bounds EXCEPT !.bcasts = @ - 1]
    BY <1>1 DEF Cost
  <2>2. bounds' \in Scenario
    <3>1. bounds.bcasts - 1 \in Nat
      BY <2>1 DEF Scenario
    <3> QED BY <2>1, <3>1 DEF Scenario
  <2>3. \A f \in {"used", "neigh", "interrupted", "changes"} : f # "bcasts" => bounds'[f] = bounds[f]
    BY <2>1 DEF Scenario
  <2> QED BY <1>1, <2>1, <2>2, <2>3
<1>2. CASE what = "changes"
  <2>1. bounds.changes > 0 /\ bounds' = [bounds EXCEPT !.changes = @ - 1]
    BY <1>2 DEF Cost
  <2>2. bounds' \in Scenario
    <3>1. bounds.changes - 1 \in Nat
      BY <2>1 DEF Scenario
    <3> QED BY <2>1, <3>1 DEF Scenario
  <2>3. \A f \in {"used", "neigh", "interrupted", "changes"} : f # "changes" => bounds'[f] = bounds[f]
    BY <2>1 DEF Scenario
  <2> QED BY <1>2, <2>1, <2>2, <2>3
<1>3. CASE what = "events"
  <2>1. bounds.events > 0 /\ bounds' = [bounds EXCEPT !.events = @ - 1]
    BY <1>3 DEF Cost
  <2>2. bounds' \in Scenario
    <3>1. bounds.events - 1 \in Nat
      BY <2>1 DEF Scenario
    <3> QED BY <2>1, <3>1 DEF Scenario
  <2>3. \A f \in {"used", "neigh", "interrupted", "changes"} : f # "events" => bounds'[f] = bounds[f]
    BY <2>1 DEF Scenario
  <2> QED BY <1>3, <2>1, <2>2, <2>3
<1> QED BY <1>1, <1>2, <1>3

\* Queueing packets takes none out of anybody's hands.
LEMMA HeldWhenQueued ==
  ASSUME SqHeld, fp' \in [Forw -> Packet], QueuedEach, worker'.p = worker.p,
         worker'.pc \in {worker.pc, "steal"}, worker.pc = "idle" => worker'.pc = "idle",
         rtnl'.head = rtnl.head, rtnl'.pc \notin {"ogm", "free"} => rtnl'.head = {}
  PROVE  WorkerHolds' /\ PurgeHolds'
<1>1. \A p \in Forw : fp[p].kind # "none" => fp'[p] = fp[p]
  BY DEF QueuedEach
<1>2. worker.p # NONE => worker.p \in Forw /\ fp'[worker.p] = fp[worker.p]
  BY <1>1 DEF SqHeld, SqTypeOK, WorkerHolds
<1>3. WorkerHolds'
  BY <1>2 DEF SqHeld, WorkerHolds
<1>4. PurgeHolds'
  <2>1. \A p \in Forw : /\ fp'[p].stolen <=> p \in rtnl'.head
                        /\ fp'[p].stolen \/ fp'[p].timer => fp'[p].kind # "none"
    BY DEF SqHeld, PurgeHolds, QueuedEach
  <2> QED BY <2>1 DEF PurgeHolds
<1> QED BY <1>3, <1>4

LEMMA HeldSends ==
  ASSUME SqHeld, SendBcast \/ SendBcastBegins \/ SendBcastGoesOn
  PROVE  SqHeld'
<1>1. CASE SendBcast
  <2>1. PICK own \in BOOLEAN, delayed \in BOOLEAN :
           __batadv_forw_bcast_packet(primary_if, own, delayed)
    BY <1>1 DEF SendBcast
  <2>2. /\ primary_if \in Hardif
        /\ Cost("bcasts")
        /\ UNCHANGED <<hi, primary_if, worker, rtnl, tx, mesh_state>>
    BY <1>1 DEF SendBcast, SqHeld, SqTypeOK
  <2>3. fp' \in [Forw -> Packet] /\ bcast_queue_left' \in Nat /\ QueuedEach
    BY <2>1, <2>2, BcastQueued DEF SqHeld
  <2>4. bounds' \in Scenario
    BY <2>2, CostType DEF SqHeld, SqTypeOK
  <2>5. SqTypeOK'
    BY <2>2, <2>3, <2>4 DEF SqHeld, SqTypeOK
  <2>6. WorkerHolds' /\ PurgeHolds'
    BY <2>2, <2>3, HeldWhenQueued DEF SqHeld, PurgeHolds
  <2> QED BY <2>5, <2>6 DEF SqHeld
<1>2. CASE SendBcastBegins
  <2>1. bounds' \in Scenario
    BY <1>2, CostType DEF SendBcastBegins, SqHeld, SqTypeOK
  <2> QED BY <1>2, <2>1 DEF SendBcastBegins, SqHeld, SqTypeOK, WorkerHolds, PurgeHolds
<1>3. CASE SendBcastGoesOn
  <2>1. /\ tx \in Hardif /\ tx' = NONE
        /\ __batadv_forw_bcast_packet(tx, TRUE, TRUE)
        /\ UNCHANGED <<hi, primary_if, worker, rtnl, mesh_state, bounds>>
    BY <1>3 DEF SendBcastGoesOn, SqHeld, SqTypeOK
  <2>2. \E own \in BOOLEAN, delayed \in BOOLEAN : __batadv_forw_bcast_packet(tx, own, delayed)
    BY <2>1, Zenon
  <2>3. fp' \in [Forw -> Packet] /\ bcast_queue_left' \in Nat /\ QueuedEach
    BY <2>1, <2>2, BcastQueued DEF SqHeld
  <2>4. SqTypeOK'
    BY <2>1, <2>3 DEF SqHeld, SqTypeOK
  <2>5. WorkerHolds' /\ PurgeHolds'
    BY <2>1, <2>3, HeldWhenQueued DEF SqHeld, PurgeHolds
  <2> QED BY <2>4, <2>5 DEF SqHeld
<1> QED BY <1>1, <1>2, <1>3

LEMMA HeldWork ==
  ASSUME SqHeld, Work
  PROVE  SqHeld'
<1> USE DEF SqHeld
<1>1. CASE StartWork
  <2>1. PICK p \in Forw : /\ worker = Idle /\ fp[p].timer
                          /\ fp' = [fp EXCEPT ![p].timer = FALSE]
                          /\ worker' = [pc |-> fp[p].kind, p |-> p]
    BY <1>1 DEF StartWork
  <2>2. UNCHANGED <<hi, primary_if, bcast_queue_left, rtnl, tx, mesh_state, bounds>>
    BY <1>1 DEF StartWork
  <2>3. fp[p].kind \in {"bcast", "ogm"} /\ p # NONE
    BY <2>1, SendQueueAssumption DEF SqTypeOK, Packet, PurgeHolds
  <2>4. fp' \in [Forw -> Packet]
    BY <2>1, PacketChanges DEF SqTypeOK
  <2>5. SqTypeOK'
    BY <2>1, <2>2, <2>3, <2>4 DEF SqTypeOK
  <2>6. WorkerHolds'
    BY <2>1, <2>3 DEF WorkerHolds, SqTypeOK, Packet
  <2>7. PurgeHolds'
    BY <2>1, <2>2 DEF PurgeHolds, SqTypeOK, Packet
  <2> QED BY <2>5, <2>6, <2>7
<1>2. CASE batadv_send_outstanding_bcast_packet
  <2>1. PICK answered \in BOOLEAN :
          LET p == worker.p
              dropped == mesh_state = "DEACTIVATING" \/ answered
          IN /\ worker.pc = "bcast"
             /\ fp' = [fp EXCEPT ![p].num_bcasts = IF dropped THEN @ ELSE @ - 1]
             /\ worker' = [worker EXCEPT !.pc = IF dropped \/ fp[p].num_bcasts = 1 THEN "steal"
                                                ELSE "requeue"]
             /\ UNCHANGED <<hi, primary_if, bcast_queue_left, rtnl, tx, mesh_state, bounds>>
    BY <1>2 DEF batadv_send_outstanding_bcast_packet
  <2>2. /\ worker.p \in Forw /\ fp[worker.p].kind = "bcast" /\ worker.p # NONE
        /\ ~fp[worker.p].timer
    BY <2>1 DEF SqTypeOK, WorkerHolds
  <2>3. /\ worker'.p = worker.p /\ worker'.pc \in {"steal", "requeue"}
        /\ worker' \in [pc : {"steal", "requeue"}, p : Forw]
    BY <2>1, <2>2 DEF SqTypeOK
  <2>4. /\ fp' \in [Forw -> Packet]
        /\ \A p \in Forw : /\ fp'[p].kind = fp[p].kind /\ fp'[p].stolen = fp[p].stolen
                           /\ fp'[p].timer = fp[p].timer
    BY <2>1, <2>2 DEF SqTypeOK, Packet
  <2>5. SqTypeOK'
    BY <2>1, <2>3, <2>4 DEF SqTypeOK
  <2>6. WorkerHolds'
    BY <2>2, <2>3, <2>4 DEF WorkerHolds
  <2>7. PurgeHolds'
    BY <2>1, <2>4 DEF PurgeHolds
  <2> QED BY <2>5, <2>6, <2>7
<1>3. CASE batadv_forw_packet_queue
  <2>1. /\ worker.pc = "requeue" /\ worker' = Idle
        /\ fp' = IF fp[worker.p].stolen THEN fp ELSE [fp EXCEPT ![worker.p].timer = TRUE]
        /\ UNCHANGED <<hi, primary_if, bcast_queue_left, rtnl, tx, mesh_state, bounds>>
    BY <1>3 DEF batadv_forw_packet_queue
  <2>2. worker.p \in Forw /\ fp[worker.p].kind = "bcast"
    BY <2>1 DEF SqTypeOK, WorkerHolds
  <2>3. fp' \in [Forw -> Packet]
    BY <2>1, <2>2, PacketChanges DEF SqTypeOK
  <2>4. \A p \in Forw : /\ fp'[p].kind = fp[p].kind /\ fp'[p].stolen = fp[p].stolen
                        /\ p # worker.p => fp'[p].timer = fp[p].timer
    BY <2>1, <2>2 DEF SqTypeOK, Packet
  <2>5. SqTypeOK'
    BY <2>1, <2>3 DEF SqTypeOK, Idle
  <2>6. WorkerHolds'
    BY <2>1 DEF WorkerHolds, Idle
  <2>7. PurgeHolds'
    BY <2>1, <2>2, <2>4 DEF PurgeHolds
  <2> QED BY <2>5, <2>6, <2>7
<1>4. CASE batadv_iv_send_outstanding_bat_ogm_packet
  BY <1>4 DEF batadv_iv_send_outstanding_bat_ogm_packet, SqTypeOK, WorkerHolds, PurgeHolds
<1>5. CASE ScheduleNext
  <2>1. /\ worker.pc = "schedule" /\ worker' = [worker EXCEPT !.pc = "steal"]
        /\ batadv_iv_ogm_schedule_buff(fp[worker.p].in)
        /\ UNCHANGED <<primary_if, bcast_queue_left, rtnl, tx, mesh_state, bounds>>
    BY <1>5 DEF ScheduleNext
  <2>2. worker.p \in Forw /\ fp[worker.p].in \in Hardif
    BY <2>1 DEF SqTypeOK, WorkerHolds, Packet
  <2>3. fp' \in [Forw -> Packet] /\ hi' \in [Hardif -> HardifState] /\ QueuedEach
    BY <2>1, <2>2, OgmsQueued
  <2>4. SqTypeOK'
    BY <2>1, <2>3 DEF SqTypeOK
  <2>5. WorkerHolds' /\ PurgeHolds'
    BY <2>1, <2>3, HeldWhenQueued DEF SqTypeOK, PurgeHolds
  <2> QED BY <2>4, <2>5
<1>6. CASE batadv_forw_packet_steal
  <2>1. /\ worker.pc = "steal" /\ worker' = Idle
        /\ IF fp[worker.p].stolen THEN UNCHANGED <<fp, bcast_queue_left>>
           ELSE batadv_forw_packet_free(worker.p)
        /\ UNCHANGED <<hi, primary_if, rtnl, tx, mesh_state, bounds>>
    BY <1>6 DEF batadv_forw_packet_steal
  <2>2. worker.p \in Forw
    BY <2>1 DEF SqTypeOK, WorkerHolds
  <2>3. /\ fp' \in [Forw -> Packet] /\ bcast_queue_left' \in Nat
        /\ \A p \in Forw : fp'[p] = fp[p] \/ (fp'[p] = Freed /\ p \notin rtnl.head)
    <3>1. CASE fp[worker.p].stolen
      <4>1. fp' = fp /\ bcast_queue_left' = bcast_queue_left
        BY <2>1, <3>1, Zenon
      <4> QED BY <4>1 DEF SqTypeOK
    <3>2. CASE ~fp[worker.p].stolen
      <4>1. batadv_forw_packet_free(worker.p)
        BY <2>1, <3>2, Zenon
      <4>2. fp' \in [Forw -> Packet] /\ bcast_queue_left' \in Nat
        BY <2>2, <4>1, PacketChanges DEF batadv_forw_packet_free, SqTypeOK
      <4>3. \A p \in Forw : fp'[p] = IF p = worker.p THEN Freed ELSE fp[p]
        BY <2>2, <4>1 DEF batadv_forw_packet_free, SqTypeOK
      <4>4. worker.p \notin rtnl.head
        BY <2>2, <3>2 DEF PurgeHolds
      <4> QED BY <4>2, <4>3, <4>4
    <3> QED BY <3>1, <3>2
  <2>4. SqTypeOK'
    BY <2>1, <2>3 DEF SqTypeOK, Idle
  <2>5. WorkerHolds'
    BY <2>1 DEF WorkerHolds, Idle
  <2>6. PurgeHolds'
    BY <2>1, <2>3 DEF PurgeHolds, Freed
  <2> QED BY <2>4, <2>5, <2>6
<1> QED BY <1>1, <1>2, <1>3, <1>4, <1>5, <1>6 DEF Work

LEMMA HeldRequest ==
  ASSUME SqHeld, Request
  PROVE  SqHeld'
<1> USE DEF SqHeld
<1>1. CASE batadv_hardif_enable_interface
  <2>1. PICK i \in Hardif :
          LET h == [hi EXCEPT ![i].mesh_iface = TRUE, ![i].ogm_buff = TRUE, ![i].status = "INACTIVE"]
              r == IF hi[i].up THEN Activated(i, h, primary_if) ELSE [hi |-> h, primary |-> primary_if]
          IN /\ rtnl = Unlocked /\ Cost("changes")
             /\ hi' = r.hi /\ primary_if' = r.primary
             /\ rtnl' = [rtnl EXCEPT !.pc = "enabled", !.i = i]
             /\ UNCHANGED <<fp, bcast_queue_left, worker, tx, mesh_state>>
    BY <1>1 DEF batadv_hardif_enable_interface
  <2> DEFINE h == [hi EXCEPT ![i].mesh_iface = TRUE, ![i].ogm_buff = TRUE, ![i].status = "INACTIVE"]
  <2>2. h \in [Hardif -> HardifState]
    BY EnabledHardif DEF SqTypeOK
  <2>3. /\ Activated(i, h, primary_if).hi \in [Hardif -> HardifState]
        /\ Activated(i, h, primary_if).primary \in Hardif \cup {NONE}
    <3> HIDE DEF h
    <3> QED BY <2>2 DEF Activated, SqTypeOK, HardifState, Status
  <2>4. hi' \in [Hardif -> HardifState] /\ primary_if' \in Hardif \cup {NONE}
    <3>1. CASE hi[i].up
      BY <2>1, <2>3, <3>1, Zenon
    <3>2. CASE ~hi[i].up
      <4>1. hi' = h /\ primary_if' = primary_if
        BY <2>1, <3>2
      <4> QED BY <4>1, <2>2 DEF SqTypeOK
    <3> QED BY <3>1, <3>2
  <2>5. bounds' \in Scenario
    BY <2>1, CostType DEF SqTypeOK
  <2>6. rtnl' = [pc |-> "enabled", i |-> i, head |-> {}] /\ i # NONE
    BY <2>1, SendQueueAssumption DEF Unlocked
  <2>7. SqTypeOK'
    <3>1. UNCHANGED <<fp, bcast_queue_left, worker, tx, mesh_state>>
      BY <2>1
    <3> QED BY <2>4, <2>5, <2>6, <3>1 DEF SqTypeOK
  <2>8. WorkerHolds' /\ PurgeHolds'
    BY <2>1, <2>6 DEF WorkerHolds, PurgeHolds, Unlocked
  <2> QED BY <2>7, <2>8
<1>2. CASE batadv_hardif_disable_interface
  <2>1. PICK i \in Hardif :
          /\ rtnl = Unlocked /\ Cost("changes")
          /\ hi' = [hi EXCEPT ![i].status = "INACTIVE"]
          /\ rtnl' = [rtnl EXCEPT !.pc = "disable", !.i = i]
          /\ UNCHANGED <<fp, bcast_queue_left, worker, tx, mesh_state>>
    BY <1>2 DEF batadv_hardif_disable_interface
  <2>2. primary_if' \in Hardif \cup {NONE}
    BY <1>2 DEF batadv_hardif_disable_interface, SqTypeOK, Lower
  <2>3. bounds' \in Scenario
    BY <2>1, CostType DEF SqTypeOK
  <2>4. hi' \in [Hardif -> HardifState]
    BY <2>1 DEF SqTypeOK, HardifState, Status
  <2>5. rtnl' = [pc |-> "disable", i |-> i, head |-> {}] /\ i # NONE
    BY <2>1, SendQueueAssumption DEF Unlocked
  <2>6. SqTypeOK'
    BY <2>1, <2>2, <2>3, <2>4, <2>5 DEF SqTypeOK
  <2>7. WorkerHolds' /\ PurgeHolds'
    BY <2>1, <2>5 DEF WorkerHolds, PurgeHolds, Unlocked
  <2> QED BY <2>6, <2>7
<1>3. CASE batadv_hard_if_event
  <2>1. PICK i \in Hardif :
          LET h == [hi EXCEPT ![i].up = ~@]
              r == Activated(i, h, primary_if)
          IN /\ Cost("events")
             /\ IF hi[i].up
                THEN /\ hi' = [h EXCEPT ![i].status =
                                 IF @ \in {"ACTIVE", "TO_BE_ACTIVATED"} THEN "INACTIVE" ELSE @]
                     /\ UNCHANGED primary_if
                ELSE hi' = r.hi /\ primary_if' = r.primary
             /\ UNCHANGED <<fp, bcast_queue_left, worker, rtnl, tx, mesh_state>>
    BY <1>3 DEF batadv_hard_if_event
  <2> DEFINE h == [hi EXCEPT ![i].up = ~@]
  <2>2. h \in [Hardif -> HardifState]
    BY ZenonT(40) DEF SqTypeOK, HardifState
  <2>3. /\ Activated(i, h, primary_if).hi \in [Hardif -> HardifState]
        /\ Activated(i, h, primary_if).primary \in Hardif \cup {NONE}
    <3> HIDE DEF h
    <3> QED BY <2>2 DEF Activated, SqTypeOK, HardifState, Status
  <2>4. [h EXCEPT ![i].status = IF @ \in {"ACTIVE", "TO_BE_ACTIVATED"} THEN "INACTIVE" ELSE @]
          \in [Hardif -> HardifState]
    <3> HIDE DEF h
    <3> QED BY <2>2 DEF HardifState, Status
  <2>5. hi' \in [Hardif -> HardifState] /\ primary_if' \in Hardif \cup {NONE}
    <3> HIDE DEF h
    <3>1. \/ /\ hi' = [h EXCEPT ![i].status =
                         IF @ \in {"ACTIVE", "TO_BE_ACTIVATED"} THEN "INACTIVE" ELSE @]
             /\ primary_if' = primary_if
          \/ /\ hi' = Activated(i, h, primary_if).hi
             /\ primary_if' = Activated(i, h, primary_if).primary
      BY <2>1, Zenon DEF h
    <3> QED BY <2>3, <2>4, <3>1 DEF SqTypeOK
  <2>6. bounds' \in Scenario
    BY <2>1, CostType DEF SqTypeOK
  <2>7. SqTypeOK'
    BY <2>1, <2>5, <2>6 DEF SqTypeOK
  <2>8. WorkerHolds' /\ PurgeHolds'
    BY <2>1 DEF WorkerHolds, PurgeHolds
  <2> QED BY <2>7, <2>8
<1>4. CASE batadv_mesh_free
  BY <1>4 DEF batadv_mesh_free, SqTypeOK, WorkerHolds, PurgeHolds, Unlocked
<1> QED BY <1>1, <1>2, <1>3, <1>4 DEF Request

LEMMA HeldAdminister ==
  ASSUME SqHeld, Administer
  PROVE  SqHeld'
<1> USE DEF SqHeld
<1>1. CASE batadv_iv_iface_enabled /\ rtnl.i \in Hardif
  <2>1. /\ batadv_iv_ogm_schedule_buff(rtnl.i) /\ rtnl.pc = "enabled" /\ rtnl' = Unlocked
        /\ UNCHANGED <<primary_if, bcast_queue_left, worker, tx, mesh_state, bounds>>
    BY <1>1 DEF batadv_iv_iface_enabled
  <2>2. fp' \in [Forw -> Packet] /\ hi' \in [Hardif -> HardifState] /\ QueuedEach
    BY <1>1, <2>1, OgmsQueued
  <2>3. SqTypeOK'
    BY <2>1, <2>2 DEF SqTypeOK, Unlocked
  <2>4. rtnl.head = {} /\ rtnl'.head = {}
    BY <2>1 DEF PurgeHolds, Unlocked
  <2>5. WorkerHolds' /\ PurgeHolds'
    BY <2>1, <2>2, <2>4, HeldWhenQueued
  <2> QED BY <2>3, <2>5
<1>2. CASE batadv_iv_ogm_iface_disable
  BY <1>2 DEF batadv_iv_ogm_iface_disable, SqTypeOK, HardifState, WorkerHolds, PurgeHolds
<1>3. CASE SetNotInUse
  BY <1>3 DEF SetNotInUse, SqTypeOK, HardifState, Status, WorkerHolds, PurgeHolds
<1>4. CASE batadv_purge_outstanding_packets
  <2> DEFINE found == {p \in Forw : /\ fp[p].kind = rtnl.pc
                                    /\ rtnl.i = NONE \/ rtnl.i \in {fp[p].in, fp[p].out}}
  <2>1. /\ rtnl.pc \in {"bcast", "ogm"}
        /\ fp' = [p \in Forw |-> IF p \in found THEN [fp[p] EXCEPT !.stolen = TRUE] ELSE fp[p]]
        /\ rtnl' = [rtnl EXCEPT !.head = @ \cup found,
                                !.pc = IF rtnl.pc = "bcast" THEN "ogm" ELSE "free"]
        /\ UNCHANGED <<hi, primary_if, bcast_queue_left, worker, tx, mesh_state, bounds>>
    BY <1>4 DEF batadv_purge_outstanding_packets, batadv_forw_packet_list_steal
  <2>2. found \subseteq Forw /\ \A p \in found : fp[p].kind # "none"
    BY <2>1
  <2> HIDE DEF found
  <2>3. fp' \in [Forw -> Packet]
    BY <2>1, PacketChanges DEF SqTypeOK
  <2>4. \A p \in Forw : fp'[p] = IF p \in found THEN [fp[p] EXCEPT !.stolen = TRUE] ELSE fp[p]
    BY <2>1
  <2>5. \A p \in Forw : /\ fp'[p].kind = fp[p].kind /\ fp'[p].timer = fp[p].timer
                        /\ p \in found => fp'[p].stolen
                        /\ p \notin found => fp'[p] = fp[p]
    <3> SUFFICES ASSUME NEW p \in Forw
                 PROVE  /\ fp'[p].kind = fp[p].kind /\ fp'[p].timer = fp[p].timer
                        /\ p \in found => fp'[p].stolen
                        /\ p \notin found => fp'[p] = fp[p]
      OBVIOUS
    <3>1. fp[p] \in Packet
      BY DEF SqTypeOK
    <3>2. CASE p \notin found
      BY <3>2, <2>4
    <3>3. CASE p \in found
      <4>1. fp'[p] = [fp[p] EXCEPT !.stolen = TRUE]
        BY <3>3, <2>4
      <4>2. fp'[p].kind = fp[p].kind /\ fp'[p].timer = fp[p].timer /\ fp'[p].stolen = TRUE
        BY <3>1, <4>1 DEF Packet
      <4> QED BY <3>3, <4>2
    <3> QED BY <3>2, <3>3
  <2>6. SqTypeOK'
    BY <2>1, <2>2, <2>3 DEF SqTypeOK
  <2>7. WorkerHolds'
    BY <2>1, <2>5 DEF WorkerHolds, SqTypeOK
  <2>8. rtnl'.head = rtnl.head \cup found /\ rtnl'.pc \in {"ogm", "free"}
    BY <2>1 DEF SqTypeOK
  <2>9. PurgeHolds'
    BY <2>2, <2>5, <2>8 DEF PurgeHolds
  <2> QED BY <2>6, <2>7, <2>9
<1>5. CASE batadv_forw_packet_list_free
  <2>1. PICK p \in rtnl.head : /\ worker.p # p
                               /\ batadv_forw_packet_free(p)
                               /\ rtnl' = [rtnl EXCEPT !.head = @ \ {p}]
    BY <1>5 DEF batadv_forw_packet_list_free
  <2>2. rtnl.pc = "free" /\ UNCHANGED <<hi, primary_if, worker, tx, mesh_state, bounds>>
    BY <1>5 DEF batadv_forw_packet_list_free
  <2>3. p \in Forw
    BY DEF SqTypeOK
  <2>4. /\ fp' \in [Forw -> Packet] /\ bcast_queue_left' \in Nat
        /\ \A q \in Forw : fp'[q] = IF q = p THEN Freed ELSE fp[q]
    BY <2>1, <2>3, PacketChanges DEF batadv_forw_packet_free, SqTypeOK
  <2>5. SqTypeOK'
    BY <2>1, <2>2, <2>4 DEF SqTypeOK
  <2>6. WorkerHolds'
    BY <2>1, <2>2, <2>4 DEF WorkerHolds, SqTypeOK
  <2>7. rtnl'.head = rtnl.head \ {p} /\ rtnl'.pc = "free"
    BY <2>1, <2>2 DEF SqTypeOK
  <2>8. PurgeHolds'
    BY <2>4, <2>7 DEF PurgeHolds, Freed
  <2> QED BY <2>5, <2>6, <2>8
<1>6. CASE PurgeEnds
  <2>1. /\ rtnl.pc = "free" /\ rtnl.head = {} /\ rtnl' = Unlocked
        /\ UNCHANGED <<primary_if, fp, bcast_queue_left, worker, tx, bounds>>
    BY <1>6 DEF PurgeEnds
  <2>2. hi' \in [Hardif -> HardifState] /\ mesh_state' \in {"ACTIVE", "DEACTIVATING", "INACTIVE"}
    <3>1. CASE rtnl.i = NONE
      BY <1>6, <3>1 DEF PurgeEnds, SqTypeOK
    <3>2. CASE rtnl.i # NONE
      <4>1. /\ hi' = [hi EXCEPT ![rtnl.i].mesh_iface = FALSE] /\ mesh_state' = mesh_state
            /\ rtnl.i \in Hardif
        BY <1>6, <3>2 DEF PurgeEnds, SqTypeOK
      <4> QED BY <4>1, HardifChanges DEF SqTypeOK
    <3> QED BY <3>1, <3>2
  <2>3. SqTypeOK'
    BY <2>1, <2>2 DEF SqTypeOK, Unlocked
  <2>4. WorkerHolds' /\ PurgeHolds'
    BY <2>1 DEF WorkerHolds, PurgeHolds, Unlocked
  <2> QED BY <2>3, <2>4
<1>7. batadv_iv_iface_enabled => rtnl.i \in Hardif
  BY DEF batadv_iv_iface_enabled, SqTypeOK
<1> QED BY <1>1, <1>2, <1>3, <1>4, <1>5, <1>6, <1>7 DEF Administer

LEMMA HeldInit ==
  ASSUME SqInit
  PROVE  SqHeld
<1> DEFINE used == ToSet(bounds.used)
           pairs == {io \in used \X used : io[1] = io[2] \/ io[1] = bounds.used[1]}
           nothing == [p \in Forw |-> Freed]
           pkt == [io \in pairs |-> NewPacket("ogm", TRUE, io[1], io[2], 0)]
<1>1. /\ bounds \in SqScenarios
      /\ hi = [i \in Hardif |-> IF i \in used THEN InUse ELSE NotInUse]
      /\ primary_if = IF bounds.used = <<>> THEN NONE ELSE bounds.used[1]
      /\ Placements(nothing, pairs) # {}
      /\ fp = batadv_forw_packet_alloc(nothing, pkt)
      /\ bcast_queue_left = BCAST_QUEUE_LEN
      /\ worker = Idle /\ rtnl = Unlocked /\ tx = NONE
      /\ mesh_state = "ACTIVE"
  BY DEF SqInit
<1>2. bounds \in Scenario /\ bounds.used \in Seq(Hardif)
  BY <1>1, SendQueueAssumption DEF Scenario
<1>3. used \subseteq Hardif
  BY <1>2 DEF ToSet
<1>4. primary_if \in Hardif \cup {NONE}
  BY <1>1, <1>2
<1>5. \A io \in pairs : io[1] \in Hardif /\ io[2] \in Hardif
  BY <1>3
<1> HIDE DEF used, pairs
<1>6. hi \in [Hardif -> HardifState]
  BY <1>1 DEF InUse, NotInUse, HardifState, Status
<1>7. DOMAIN pkt = pairs
  OBVIOUS
<1>8. \A x \in pairs : pkt[x] \in Packet /\ pkt[x].kind = "ogm" /\ ~pkt[x].stolen /\ pkt[x].timer
  BY <1>5 DEF NewPacket, Packet
<1> HIDE DEF pkt
<1>9. /\ DOMAIN fp = Forw
      /\ \A p \in Forw : fp[p] = Freed \/ \E x \in pairs : fp[p] = pkt[x]
  BY <1>1, <1>7, AllocatedEach
<1>10. \A p \in Forw : /\ fp[p] \in Packet /\ ~fp[p].stolen
                       /\ fp[p].timer => fp[p].kind # "none"
  <2>1. Freed \in Packet /\ ~Freed.stolen /\ ~Freed.timer
    BY PacketChanges DEF Freed
  <2> QED BY <1>8, <1>9, <2>1
<1>11. fp \in [Forw -> Packet]
  <2> HIDE DEF nothing
  <2>1. Placements(nothing, DOMAIN pkt) # {} /\ fp = batadv_forw_packet_alloc(nothing, pkt)
    BY <1>1, <1>7
  <2>2. \E P \in SUBSET Unused(nothing) : \E of \in Bijection(P, DOMAIN pkt) :
          fp = [p \in Forw |-> IF p \in P THEN pkt[of[p]] ELSE nothing[p]]
    BY <2>1, Allocated
  <2> QED BY <2>2, <1>10
<1>12. SqTypeOK
  BY <1>1, <1>2, <1>4, <1>6, <1>11, SendQueueAssumption DEF SqTypeOK, Idle, Unlocked
<1>13. WorkerHolds
  BY <1>1 DEF WorkerHolds, Idle
<1>14. PurgeHolds
  BY <1>1, <1>10 DEF PurgeHolds, Unlocked
<1> QED BY <1>12, <1>13, <1>14 DEF SqHeld

LEMMA HeldNext ==
  ASSUME SqHeld, [SqNext]_sqVars
  PROVE  SqHeld'
<1>1. CASE UNCHANGED sqVars
  BY <1>1 DEF sqVars, SqHeld, SqTypeOK, WorkerHolds, PurgeHolds
<1> QED BY <1>1, HeldWork, HeldAdminister, HeldRequest, HeldSends DEF SqNext

LEMMA AlwaysHeld == SqSpec => []SqHeld
<1>1. SqInit => SqHeld
  BY HeldInit
<1>2. SqHeld /\ [SqNext]_sqVars => SqHeld'
  BY HeldNext
<1> QED BY <1>1, <1>2, PTL DEF SqSpec

\* Whatever the worker, the RTNL thread and the senders do and in whatever order, neither
\* the worker nor the purge uses a packet the other has freed.
THEOREM NeverUsedAfterFree == SqSpec => []NoUseAfterFree
<1>1. SqHeld => NoUseAfterFree
  BY DEF SqHeld, SqTypeOK, WorkerHolds, PurgeHolds, NoUseAfterFree
<1> QED BY <1>1, AlwaysHeld, PTL

-----------------------------------------------------------------------------
(* The places in the broadcast queue. *)

\* What queueing interface i's next OGM does: a copy for i itself appears on one packet, and
\* copies for other interfaces of the mesh on others.
LEMMA OgmsQueuedEach ==
  ASSUME NEW i \in Hardif, batadv_iv_ogm_schedule_buff(i)
  PROVE  /\ ~hi[i].ogm_buff => UNCHANGED <<hi, fp>>
         /\ hi[i].ogm_buff =>
              /\ hi' = [hi EXCEPT ![i].status = IF @ = "TO_BE_ACTIVATED" THEN "ACTIVE" ELSE @]
              /\ \A p \in Forw :
                   \/ fp'[p] = fp[p]
                   \/ /\ fp[p].kind = "none"
                      /\ \E x \in Lower \cup {i} : fp'[p] = NewPacket("ogm", TRUE, i, x, 0)
              /\ i # primary_if \/ i \in Lower =>
                   \E p \in Forw :
                     /\ fp[p].kind = "none" /\ fp'[p] = NewPacket("ogm", TRUE, i, i, 0)
                     /\ \A q \in Forw :
                          \/ q = p \/ fp'[q] = fp[q]
                          \/ /\ fp[q].kind = "none"
                             /\ \E x \in Lower \ {i} : fp'[q] = NewPacket("ogm", TRUE, i, x, 0)
<1>1. CASE ~hi[i].ogm_buff
  BY <1>1 DEF batadv_iv_ogm_schedule_buff
<1>2. CASE hi[i].ogm_buff
  <2> DEFINE outs == IF i = primary_if THEN Lower ELSE {i}
             pkt == Ogms(i, outs)
  <2>1. /\ Placements(fp, outs) # {}
        /\ hi' = [hi EXCEPT ![i].status = IF @ = "TO_BE_ACTIVATED" THEN "ACTIVE" ELSE @]
        /\ fp' = batadv_forw_packet_alloc(fp, pkt)
    BY <1>2 DEF batadv_iv_ogm_schedule_buff
  <2>2. /\ outs \subseteq Lower \cup {i} /\ outs \ {i} \subseteq Lower
        /\ i # primary_if \/ i \in Lower => i \in outs
    OBVIOUS
  <2> HIDE DEF outs
  <2>3. DOMAIN pkt = outs /\ \A x \in outs : pkt[x] = NewPacket("ogm", TRUE, i, x, 0)
    BY DEF Ogms
  <2> HIDE DEF pkt
  <2>4. /\ \A p \in Forw :
             \/ fp'[p] = fp[p]
             \/ fp[p].kind = "none" /\ \E x \in outs : fp'[p] = pkt[x]
        /\ \A x \in outs : \E p \in Forw :
             /\ fp[p].kind = "none" /\ fp'[p] = pkt[x]
             /\ \A q \in Forw : \/ q = p \/ fp'[q] = fp[q]
                                \/ fp[q].kind = "none" /\ \E y \in outs \ {x} : fp'[q] = pkt[y]
    BY <2>1, <2>3, AllocatedEach
  <2>5. \A p \in Forw :
          \/ fp'[p] = fp[p]
          \/ /\ fp[p].kind = "none"
             /\ \E x \in Lower \cup {i} : fp'[p] = NewPacket("ogm", TRUE, i, x, 0)
    <3> TAKE p \in Forw
    <3>1. CASE fp'[p] = fp[p]
      BY <3>1
    <3>2. CASE fp[p].kind = "none" /\ \E x \in outs : fp'[p] = pkt[x]
      <4>1. PICK x \in outs : fp'[p] = pkt[x]
        BY <3>2
      <4>2. x \in Lower \cup {i} /\ fp'[p] = NewPacket("ogm", TRUE, i, x, 0)
        BY <2>2, <2>3, <4>1
      <4> QED BY <3>2, <4>2
    <3> QED BY <2>4, <3>1, <3>2
  <2>6. ASSUME i # primary_if \/ i \in Lower
        PROVE  \E p \in Forw :
                 /\ fp[p].kind = "none" /\ fp'[p] = NewPacket("ogm", TRUE, i, i, 0)
                 /\ \A q \in Forw :
                      \/ q = p \/ fp'[q] = fp[q]
                      \/ /\ fp[q].kind = "none"
                         /\ \E x \in Lower \ {i} : fp'[q] = NewPacket("ogm", TRUE, i, x, 0)
    <3>1. i \in outs
      BY <2>2, <2>6
    <3>2. PICK p \in Forw :
            /\ fp[p].kind = "none" /\ fp'[p] = pkt[i]
            /\ \A q \in Forw : \/ q = p \/ fp'[q] = fp[q]
                               \/ fp[q].kind = "none" /\ \E y \in outs \ {i} : fp'[q] = pkt[y]
      BY <2>4, <3>1
    <3>3. \A y \in outs \ {i} : y \in Lower \ {i} /\ pkt[y] = NewPacket("ogm", TRUE, i, y, 0)
      BY <2>2, <2>3
    <3>4. fp'[p] = NewPacket("ogm", TRUE, i, i, 0)
      BY <2>3, <3>1, <3>2
    <3>5. \A q \in Forw :
            \/ q = p \/ fp'[q] = fp[q]
            \/ /\ fp[q].kind = "none"
               /\ \E x \in Lower \ {i} : fp'[q] = NewPacket("ogm", TRUE, i, x, 0)
      <4> TAKE q \in Forw
      <4>1. CASE fp[q].kind = "none" /\ \E y \in outs \ {i} : fp'[q] = pkt[y]
        <5>1. PICK y \in outs \ {i} : fp'[q] = pkt[y]
          BY <4>1
        <5>2. y \in Lower \ {i} /\ fp'[q] = NewPacket("ogm", TRUE, i, y, 0)
          BY <3>3, <5>1
        <5> QED BY <4>1, <5>2
      <4> QED BY <3>2, <4>1
    <3> QED BY <3>2, <3>4, <3>5
  <2> QED BY <1>2, <2>1, <2>5, <2>6, Zenon
<1> QED BY <1>1, <1>2

\* Nobody's place changes when the broadcast packets stay the same.
LEMMA SameBcasts ==
  ASSUME QueueAccounted, \A p \in Forw : fp'[p].kind = "bcast" <=> fp[p].kind = "bcast",
         bcast_queue_left' = bcast_queue_left
  PROVE  QueueAccounted'
<1>1. {p \in Forw : fp[p].kind = "bcast"}' = {p \in Forw : fp[p].kind = "bcast"}
  OBVIOUS
<1> QED BY <1>1 DEF QueueAccounted

\* New broadcast packets take as many places as there are of them.
LEMMA BcastsAccounted ==
  ASSUME SqHeld, QueueAccounted, NEW in, NEW own, NEW delayed,
         __batadv_forw_bcast_packet(in, own, delayed)
  PROVE  QueueAccounted'
<1>1. PICK outs \in batadv_forw_bcast_packet_if(own, delayed) :
        /\ Placements(fp, outs) # {}
        /\ fp' = batadv_forw_packet_alloc(fp, Bcasts(in, own, delayed, outs))
        /\ bcast_queue_left' = bcast_queue_left - Cardinality(outs)
  BY DEF __batadv_forw_bcast_packet
<1> DEFINE pkt == Bcasts(in, own, delayed, outs)
           S == {p \in Forw : fp[p].kind = "bcast"}
<1>2. DOMAIN pkt = outs /\ \A x \in outs : pkt[x].kind = "bcast"
  BY DEF Bcasts, NewPacket
<1> HIDE DEF pkt
<1>3. PICK P \in SUBSET Unused(fp) : \E of \in Bijection(P, outs) :
        /\ Cardinality(P) = Cardinality(outs)
        /\ fp' = [p \in Forw |-> IF p \in P THEN pkt[of[p]] ELSE fp[p]]
  BY <1>1, <1>2, Allocated DEF pkt
<1>4. PICK of \in Bijection(P, outs) : fp' = [p \in Forw |-> IF p \in P THEN pkt[of[p]] ELSE fp[p]]
  BY <1>3
<1>5. \A p \in P : p \in Forw /\ p \notin S /\ fp'[p].kind = "bcast"
  BY <1>2, <1>4 DEF Unused, Bijection, Injection
<1>6. \A p \in Forw \ P : fp'[p] = fp[p]
  BY <1>4
<1>7. S' = S \cup P
  BY <1>5, <1>6
<1>8. IsFiniteSet(S) /\ IsFiniteSet(P)
  BY <1>5, FS_Subset, SendQueueAssumption
<1>9. S \cap P = {}
  BY <1>5
<1>10. Cardinality(S') = Cardinality(S) + Cardinality(P)
  <2>1. Cardinality(S \cap P) = 0
    BY <1>9, FS_EmptySet
  <2>2. Cardinality(S \cup P) = Cardinality(S) + Cardinality(P) - Cardinality(S \cap P)
    BY <1>8, FS_Union
  <2>3. Cardinality(S) \in Nat /\ Cardinality(P) \in Nat
    BY <1>8, FS_CardinalityType
  <2> HIDE DEF S
  <2> QED BY <1>7, <2>1, <2>2, <2>3
<1>11. Cardinality(S) \in Nat /\ Cardinality(P) \in Nat
  BY <1>8, FS_CardinalityType
<1>12. bcast_queue_left + Cardinality(S) = BCAST_QUEUE_LEN /\ bcast_queue_left \in Nat
  BY DEF QueueAccounted, SqHeld, SqTypeOK
<1>13. bcast_queue_left' + Cardinality(S') = BCAST_QUEUE_LEN
  <2> HIDE DEF S
  <2> QED BY <1>1, <1>3, <1>10, <1>11, <1>12
<1> QED BY <1>13 DEF QueueAccounted

\* A broadcast packet that is freed gives back its place, an OGM none.
LEMMA FreeAccounted ==
  ASSUME SqHeld, QueueAccounted, NEW p \in Forw, fp[p].kind # "none", batadv_forw_packet_free(p)
  PROVE  QueueAccounted'
<1> DEFINE S == {q \in Forw : fp[q].kind = "bcast"}
<1>1. \A q \in Forw : fp'[q] = IF q = p THEN Freed ELSE fp[q]
  BY DEF batadv_forw_packet_free, SqHeld, SqTypeOK
<1>2. S' = S \ {p}
  BY <1>1 DEF Freed
<1>3. IsFiniteSet(S) /\ Cardinality(S) \in Nat
  BY FS_Subset, FS_CardinalityType, SendQueueAssumption
<1>4. bcast_queue_left + Cardinality(S) = BCAST_QUEUE_LEN /\ bcast_queue_left \in Nat
  BY DEF QueueAccounted, SqHeld, SqTypeOK
<1>5. bcast_queue_left' = IF p \in S THEN bcast_queue_left + 1 ELSE bcast_queue_left
  BY DEF batadv_forw_packet_free
<1>6. Cardinality(S \ {p}) = IF p \in S THEN Cardinality(S) - 1 ELSE Cardinality(S)
  BY <1>3, FS_RemoveElement
<1>7. bcast_queue_left' + Cardinality(S') = BCAST_QUEUE_LEN
  <2> HIDE DEF S
  <2> QED BY <1>2, <1>3, <1>4, <1>5, <1>6
<1> QED BY <1>7 DEF QueueAccounted

LEMMA AccountedNext ==
  ASSUME SqHeld, QueueAccounted, [SqNext]_sqVars
  PROVE  QueueAccounted'
<1>1. CASE SendBcast
  BY <1>1, BcastsAccounted DEF SendBcast
<1>2. CASE SendBcastGoesOn
  BY <1>2, BcastsAccounted DEF SendBcastGoesOn
<1>3. CASE ScheduleNext \/ batadv_iv_iface_enabled
  <2>1. PICK i \in Hardif : batadv_iv_ogm_schedule_buff(i)
    <3>1. ScheduleNext => fp[worker.p].in \in Hardif
      BY DEF ScheduleNext, SqHeld, SqTypeOK, WorkerHolds, Packet
    <3>2. batadv_iv_iface_enabled => rtnl.i \in Hardif
      BY DEF batadv_iv_iface_enabled, SqHeld, SqTypeOK
    <3> QED BY <1>3, <3>1, <3>2 DEF ScheduleNext, batadv_iv_iface_enabled
  <2>2. \A x : NewPacket("ogm", TRUE, i, x, 0).kind = "ogm"
    BY DEF NewPacket
  <2>3. \A p \in Forw : fp'[p] = fp[p] \/ (fp[p].kind = "none" /\ fp'[p].kind = "ogm")
    <3>1. CASE hi[i].ogm_buff
      <4>1. \A p \in Forw : \/ fp'[p] = fp[p]
                            \/ /\ fp[p].kind = "none"
                               /\ \E x \in Lower \cup {i} : fp'[p] = NewPacket("ogm", TRUE, i, x, 0)
        BY <2>1, <3>1, OgmsQueuedEach
      <4> QED BY <2>2, <4>1
    <3>2. CASE ~hi[i].ogm_buff
      BY <2>1, <3>2, OgmsQueuedEach
    <3> QED BY <3>1, <3>2
  <2>4. bcast_queue_left' = bcast_queue_left
    BY <1>3 DEF ScheduleNext, batadv_iv_iface_enabled
  <2> QED BY <2>3, <2>4, SameBcasts
<1>4. CASE batadv_forw_packet_steal
  <2>1. worker.p \in Forw /\ fp[worker.p].kind # "none"
    BY <1>4 DEF batadv_forw_packet_steal, SqHeld, SqTypeOK, WorkerHolds
  <2>2. batadv_forw_packet_free(worker.p) \/ UNCHANGED <<fp, bcast_queue_left>>
    BY <1>4 DEF batadv_forw_packet_steal
  <2> QED BY <2>1, <2>2, FreeAccounted, SameBcasts
<1>5. CASE batadv_forw_packet_list_free
  <2>1. PICK p \in rtnl.head : batadv_forw_packet_free(p)
    BY <1>5 DEF batadv_forw_packet_list_free
  <2>2. p \in Forw /\ fp[p].kind # "none"
    BY DEF SqHeld, SqTypeOK, PurgeHolds
  <2> QED BY <2>1, <2>2, FreeAccounted
<1>6. CASE StartWork \/ batadv_send_outstanding_bcast_packet \/ batadv_forw_packet_queue
           \/ batadv_purge_outstanding_packets
  <2>1. /\ \A p \in Forw : fp'[p].kind = fp[p].kind
        /\ bcast_queue_left' = bcast_queue_left
    BY <1>6 DEF StartWork, batadv_send_outstanding_bcast_packet, batadv_forw_packet_queue,
                batadv_purge_outstanding_packets, batadv_forw_packet_list_steal, SqHeld, SqTypeOK,
                Packet
  <2> QED BY <2>1, SameBcasts
<1>7. CASE batadv_iv_send_outstanding_bat_ogm_packet \/ batadv_iv_ogm_iface_disable \/ SetNotInUse
           \/ PurgeEnds \/ Request \/ SendBcastBegins \/ UNCHANGED sqVars
  <2>1. UNCHANGED <<fp, bcast_queue_left>>
    BY <1>7 DEF batadv_iv_send_outstanding_bat_ogm_packet, batadv_iv_ogm_iface_disable, SetNotInUse,
                PurgeEnds, Request, SendBcastBegins, sqVars, batadv_hardif_enable_interface,
                batadv_hardif_disable_interface, batadv_hard_if_event, batadv_mesh_free
  <2> QED BY <2>1, SameBcasts
<1> QED BY <1>1, <1>2, <1>3, <1>4, <1>5, <1>6, <1>7 DEF SqNext, Work, Administer

\* Whichever of the worker and the purge frees a packet, and however many broadcasts and
\* interfaces there are: the places that are left and the packets that wait always make up
\* the whole queue.
THEOREM PlacesAccounted == SqSpec => []QueueAccounted
<1>1. SqInit => QueueAccounted
  <2> SUFFICES ASSUME SqInit PROVE QueueAccounted
    OBVIOUS
  <2> DEFINE nothing == [p \in Forw |-> Freed]
             used == ToSet(bounds.used)
             pairs == {io \in used \X used : io[1] = io[2] \/ io[1] = bounds.used[1]}
             pkt == [io \in pairs |-> NewPacket("ogm", TRUE, io[1], io[2], 0)]
  <2>1. /\ Placements(nothing, pairs) # {} /\ fp = batadv_forw_packet_alloc(nothing, pkt)
        /\ bcast_queue_left = BCAST_QUEUE_LEN
    BY DEF SqInit
  <2> HIDE DEF pairs
  <2>2. DOMAIN pkt = pairs /\ \A x \in pairs : pkt[x].kind = "ogm"
    BY DEF NewPacket
  <2> HIDE DEF pkt
  <2>3. \A p \in Forw : fp[p] = Freed \/ \E x \in pairs : fp[p] = pkt[x]
    BY <2>1, <2>2, AllocatedEach
  <2>4. {p \in Forw : fp[p].kind = "bcast"} = {}
    BY <2>2, <2>3 DEF Freed
  <2>5. Cardinality({p \in Forw : fp[p].kind = "bcast"}) = 0
    BY <2>4, FS_EmptySet
  <2> QED BY <2>1, <2>5, SendQueueAssumption DEF QueueAccounted
<1>2. SqHeld /\ QueueAccounted /\ [SqNext]_sqVars => QueueAccounted'
  BY AccountedNext
<1> QED BY <1>1, <1>2, AlwaysHeld, PTL DEF SqSpec

-----------------------------------------------------------------------------
(* The interfaces and the RTNL thread agree. *)

\* Steps that change neither which interfaces are in use nor the primary one.
LEMMA InterfacesSame ==
  ASSUME SqTypeOK, InterfacesAgree,
         \A j \in Hardif : /\ hi'[j].mesh_iface = hi[j].mesh_iface
                           /\ hi'[j].ogm_buff = hi[j].ogm_buff
                           /\ hi'[j].status = "NOT_IN_USE" <=> hi[j].status = "NOT_IN_USE",
         primary_if' = primary_if, mesh_state' = mesh_state,
         rtnl' = Unlocked \/ (rtnl'.pc = rtnl.pc /\ rtnl'.i = rtnl.i
                              /\ (rtnl.pc = "idle" => rtnl' = rtnl))
  PROVE  InterfacesAgree'
<1>1. \A i \in Hardif : /\ hi'[i].status # "NOT_IN_USE" => hi'[i].mesh_iface
                        /\ hi'[i].ogm_buff => hi'[i].status # "NOT_IN_USE"
  BY DEF InterfacesAgree
<1>2. primary_if' # NONE => hi'[primary_if'].mesh_iface
  BY DEF InterfacesAgree, SqTypeOK
<1>3. CASE rtnl' = Unlocked
  BY <1>1, <1>2, <1>3 DEF InterfacesAgree, Unlocked, Removing
<1>4. CASE /\ rtnl'.pc = rtnl.pc /\ rtnl'.i = rtnl.i
           /\ rtnl.pc = "idle" => rtnl' = rtnl
  <2>1. rtnl'.pc = "idle" => rtnl' = Unlocked
    BY <1>4 DEF InterfacesAgree
  <2>2. rtnl'.pc = "enabled" => hi'[rtnl'.i].ogm_buff
    BY <1>4 DEF InterfacesAgree, SqTypeOK
  <2>3. Removing' => Removing /\ rtnl.i \in Hardif
    BY <1>4 DEF Removing, SqTypeOK
  <2>4. Removing' =>
          /\ primary_if' # rtnl'.i
          /\ rtnl'.pc # "disable" => ~hi'[rtnl'.i].ogm_buff
          /\ rtnl'.pc \in {"bcast", "ogm", "free"} => hi'[rtnl'.i].status = "NOT_IN_USE"
    BY <1>4, <2>3 DEF InterfacesAgree
  <2>5. rtnl'.pc \in {"bcast", "ogm", "free"} /\ rtnl'.i = NONE => mesh_state' # "ACTIVE"
    BY <1>4 DEF InterfacesAgree
  <2> QED BY <1>1, <1>2, <2>1, <2>2, <2>4, <2>5 DEF InterfacesAgree
<1> QED BY <1>3, <1>4

LEMMA InterfacesRequest ==
  ASSUME SqTypeOK, InterfacesAgree, Request
  PROVE  InterfacesAgree'
<1>1. CASE batadv_hardif_enable_interface
  <2>1. PICK i \in Hardif :
          LET h == [hi EXCEPT ![i].mesh_iface = TRUE, ![i].ogm_buff = TRUE, ![i].status = "INACTIVE"]
              r == IF hi[i].up THEN Activated(i, h, primary_if) ELSE [hi |-> h, primary |-> primary_if]
          IN /\ rtnl = Unlocked /\ hi' = r.hi /\ primary_if' = r.primary
             /\ rtnl' = [rtnl EXCEPT !.pc = "enabled", !.i = i]
    BY <1>1 DEF batadv_hardif_enable_interface
  <2> DEFINE h == [hi EXCEPT ![i].mesh_iface = TRUE, ![i].ogm_buff = TRUE, ![i].status = "INACTIVE"]
  <2>2. /\ h \in [Hardif -> HardifState]
        /\ h[i].status = "INACTIVE" /\ h[i].mesh_iface /\ h[i].ogm_buff
        /\ \A j \in Hardif \ {i} : h[j] = hi[j]
    BY EnabledHardif DEF SqTypeOK
  <2>3. \/ hi' = h /\ primary_if' = primary_if
        \/ /\ hi' = [h EXCEPT ![i].status = "TO_BE_ACTIVATED"]
           /\ primary_if' = IF primary_if = NONE THEN i ELSE primary_if
    <3>1. \/ hi' = h /\ primary_if' = primary_if
          \/ /\ hi' = Activated(i, h, primary_if).hi
             /\ primary_if' = Activated(i, h, primary_if).primary
      BY <2>1
    <3> HIDE DEF h
    <3> QED BY <2>2, <3>1 DEF Activated
  <2> HIDE DEF h
  <2>4. /\ hi'[i].mesh_iface /\ hi'[i].ogm_buff
        /\ hi'[i].status \in {"INACTIVE", "TO_BE_ACTIVATED"}
        /\ \A j \in Hardif \ {i} : hi'[j] = hi[j]
    BY <2>2, <2>3 DEF HardifState
  <2>5. rtnl' = [pc |-> "enabled", i |-> i, head |-> {}]
    BY <2>1 DEF Unlocked
  <2>6. primary_if' \in {primary_if, i} /\ primary_if \in Hardif \cup {NONE}
    BY <2>3 DEF SqTypeOK
  <2>7. \A j \in Hardif : /\ hi'[j].status # "NOT_IN_USE" => hi'[j].mesh_iface
                          /\ hi'[j].ogm_buff => hi'[j].status # "NOT_IN_USE"
    BY <2>4 DEF InterfacesAgree
  <2>8. primary_if' # NONE => hi'[primary_if'].mesh_iface
    BY <2>4, <2>6 DEF InterfacesAgree
  <2> QED BY <2>4, <2>5, <2>7, <2>8 DEF InterfacesAgree, Removing
<1>2. CASE batadv_hardif_disable_interface
  <2>1. PICK i \in Hardif :
          /\ rtnl = Unlocked /\ hi[i].status # "NOT_IN_USE"
          /\ hi' = [hi EXCEPT ![i].status = "INACTIVE"]
          /\ IF primary_if # i THEN UNCHANGED primary_if
             ELSE primary_if' \in IF {j \in Lower \ {i} : hi[j].status = "ACTIVE"} = {} THEN {NONE}
                                  ELSE {j \in Lower \ {i} : hi[j].status = "ACTIVE"}
          /\ rtnl' = [rtnl EXCEPT !.pc = "disable", !.i = i]
    BY <1>2 DEF batadv_hardif_disable_interface
  <2>2. \A j \in Hardif : /\ hi'[j].mesh_iface = hi[j].mesh_iface
                          /\ hi'[j].ogm_buff = hi[j].ogm_buff
                          /\ hi'[j].status = IF j = i THEN "INACTIVE" ELSE hi[j].status
    BY <2>1 DEF SqTypeOK, HardifState
  <2>3. rtnl' = [pc |-> "disable", i |-> i, head |-> {}] /\ i # NONE
    BY <2>1, SendQueueAssumption DEF Unlocked
  <2>4. primary_if' # i /\ (primary_if' = primary_if \/ primary_if' = NONE \/ primary_if' \in Lower)
    BY <2>1, <2>3
  <2>5. primary_if' # NONE => hi'[primary_if'].mesh_iface
    BY <2>2, <2>4 DEF InterfacesAgree, SqTypeOK, Lower
  <2>6. \A j \in Hardif : /\ hi'[j].status # "NOT_IN_USE" => hi'[j].mesh_iface
                          /\ hi'[j].ogm_buff => hi'[j].status # "NOT_IN_USE"
    BY <2>1, <2>2 DEF InterfacesAgree
  <2> QED BY <2>3, <2>4, <2>5, <2>6 DEF InterfacesAgree, Removing
<1>3. CASE batadv_hard_if_event
  <2>1. PICK i \in Hardif :
          LET h == [hi EXCEPT ![i].up = ~@]
              r == Activated(i, h, primary_if)
          IN /\ rtnl = Unlocked
             /\ IF hi[i].up
                THEN /\ hi' = [h EXCEPT ![i].status =
                                 IF @ \in {"ACTIVE", "TO_BE_ACTIVATED"} THEN "INACTIVE" ELSE @]
                     /\ UNCHANGED primary_if
                ELSE hi' = r.hi /\ primary_if' = r.primary
             /\ UNCHANGED <<fp, bcast_queue_left, worker, rtnl, tx, mesh_state>>
    BY <1>3 DEF batadv_hard_if_event
  <2> DEFINE h == [hi EXCEPT ![i].up = ~@]
  <2>2. h \in [Hardif -> HardifState]
    BY ZenonT(40) DEF SqTypeOK, HardifState
  <2>3. \A j \in Hardif : /\ h[j].mesh_iface = hi[j].mesh_iface /\ h[j].ogm_buff = hi[j].ogm_buff
                          /\ h[j].status = hi[j].status
    BY DEF SqTypeOK, HardifState
  <2> HIDE DEF h
  <2>4. \/ /\ hi' = [h EXCEPT ![i].status =
                       IF @ \in {"ACTIVE", "TO_BE_ACTIVATED"} THEN "INACTIVE" ELSE @]
           /\ primary_if' = primary_if
        \/ hi' = h /\ primary_if' = primary_if
        \/ /\ hi[i].status = "INACTIVE" /\ hi' = [h EXCEPT ![i].status = "TO_BE_ACTIVATED"]
           /\ primary_if' = IF primary_if = NONE THEN i ELSE primary_if
    <3>1. \/ /\ hi' = [h EXCEPT ![i].status =
                         IF @ \in {"ACTIVE", "TO_BE_ACTIVATED"} THEN "INACTIVE" ELSE @]
             /\ primary_if' = primary_if
          \/ /\ hi' = Activated(i, h, primary_if).hi
             /\ primary_if' = Activated(i, h, primary_if).primary
      BY <2>1, Zenon DEF h
    <3> QED BY <2>3, <3>1 DEF Activated
  <2>5. \A j \in Hardif : /\ hi'[j].mesh_iface = hi[j].mesh_iface
                          /\ hi'[j].ogm_buff = hi[j].ogm_buff
                          /\ hi'[j].status = "NOT_IN_USE" <=> hi[j].status = "NOT_IN_USE"
    BY <2>2, <2>3, <2>4 DEF HardifState
  <2>6. /\ primary_if' = primary_if \/ (primary_if' = i /\ hi[i].status = "INACTIVE")
        /\ rtnl = Unlocked /\ rtnl' = Unlocked
    BY <2>1, <2>4
  <2>7. primary_if' # NONE => hi'[primary_if'].mesh_iface
    BY <2>5, <2>6 DEF InterfacesAgree, SqTypeOK
  <2>8. \A j \in Hardif : /\ hi'[j].status # "NOT_IN_USE" => hi'[j].mesh_iface
                          /\ hi'[j].ogm_buff => hi'[j].status # "NOT_IN_USE"
    BY <2>5 DEF InterfacesAgree
  <2> QED BY <2>6, <2>7, <2>8 DEF InterfacesAgree, Removing, Unlocked
<1>4. CASE batadv_mesh_free
  <2>1. /\ rtnl' = [pc |-> "bcast", i |-> NONE, head |-> {}] /\ mesh_state' = "DEACTIVATING"
        /\ UNCHANGED <<hi, primary_if>>
    BY <1>4 DEF batadv_mesh_free, Unlocked
  <2> QED BY <2>1 DEF InterfacesAgree, Removing
<1> QED BY <1>1, <1>2, <1>3, <1>4 DEF Request

LEMMA InterfacesNext ==
  ASSUME SqHeld, InterfacesAgree, [SqNext]_sqVars
  PROVE  InterfacesAgree'
<1> USE DEF SqHeld
<1>1. CASE ScheduleNext \/ batadv_iv_iface_enabled
  <2>1. PICK i \in Hardif : batadv_iv_ogm_schedule_buff(i)
    <3>1. ScheduleNext => fp[worker.p].in \in Hardif
      BY DEF ScheduleNext, SqTypeOK, WorkerHolds, Packet
    <3>2. batadv_iv_iface_enabled => rtnl.i \in Hardif
      BY DEF batadv_iv_iface_enabled, SqTypeOK
    <3> QED BY <1>1, <3>1, <3>2 DEF ScheduleNext, batadv_iv_iface_enabled
  <2>2. hi' = [hi EXCEPT ![i].status = IF @ = "TO_BE_ACTIVATED" THEN "ACTIVE" ELSE @] \/ hi' = hi
    BY <2>1 DEF batadv_iv_ogm_schedule_buff
  <2>3. \A j \in Hardif : /\ hi'[j].mesh_iface = hi[j].mesh_iface
                          /\ hi'[j].ogm_buff = hi[j].ogm_buff
                          /\ hi'[j].status = "NOT_IN_USE" <=> hi[j].status = "NOT_IN_USE"
    BY <2>2 DEF SqTypeOK, HardifState
  <2>4. /\ primary_if' = primary_if /\ mesh_state' = mesh_state
        /\ rtnl' = Unlocked \/ rtnl' = rtnl
    BY <1>1 DEF ScheduleNext, batadv_iv_iface_enabled
  <2> QED BY <2>3, <2>4, InterfacesSame
<1>2. CASE batadv_iv_ogm_iface_disable
  <2>1. /\ rtnl.pc = "disable" /\ rtnl'.pc = "unused" /\ rtnl'.i = rtnl.i
        /\ rtnl.i \in Hardif /\ hi' = [hi EXCEPT ![rtnl.i].ogm_buff = FALSE]
        /\ UNCHANGED <<primary_if, mesh_state>>
    BY <1>2 DEF batadv_iv_ogm_iface_disable, SqTypeOK
  <2>2. \A j \in Hardif : /\ hi'[j].mesh_iface = hi[j].mesh_iface
                          /\ hi'[j].status = hi[j].status
                          /\ j = rtnl.i => ~hi'[j].ogm_buff
                          /\ j # rtnl.i => hi'[j].ogm_buff = hi[j].ogm_buff
    BY <2>1 DEF SqTypeOK, HardifState
  <2>3. Removing /\ primary_if # rtnl.i /\ primary_if \in Hardif \cup {NONE}
    BY <2>1, SendQueueAssumption DEF InterfacesAgree, Removing, SqTypeOK
  <2>4. \A j \in Hardif : /\ hi'[j].status # "NOT_IN_USE" => hi'[j].mesh_iface
                          /\ hi'[j].ogm_buff => hi'[j].status # "NOT_IN_USE"
    BY <2>2 DEF InterfacesAgree
  <2>5. primary_if' # NONE => hi'[primary_if'].mesh_iface
    BY <2>1, <2>2, <2>3 DEF InterfacesAgree
  <2> QED BY <2>1, <2>2, <2>3, <2>4, <2>5 DEF InterfacesAgree, Removing
<1>3. CASE SetNotInUse
  <2>1. /\ rtnl.pc = "unused" /\ rtnl'.pc = "bcast" /\ rtnl'.i = rtnl.i
        /\ rtnl.i \in Hardif /\ hi' = [hi EXCEPT ![rtnl.i].status = "NOT_IN_USE"]
        /\ UNCHANGED <<primary_if, mesh_state>>
    BY <1>3 DEF SetNotInUse, SqTypeOK
  <2>2. \A j \in Hardif : /\ hi'[j].mesh_iface = hi[j].mesh_iface
                          /\ hi'[j].ogm_buff = hi[j].ogm_buff
                          /\ hi'[j].status = IF j = rtnl.i THEN "NOT_IN_USE" ELSE hi[j].status
    BY <2>1 DEF SqTypeOK, HardifState
  <2>3. /\ Removing /\ primary_if # rtnl.i /\ primary_if \in Hardif \cup {NONE}
        /\ rtnl.i # NONE /\ ~hi[rtnl.i].ogm_buff
    BY <2>1, SendQueueAssumption DEF InterfacesAgree, Removing, SqTypeOK
  <2> QED BY <2>1, <2>2, <2>3 DEF InterfacesAgree, Removing
<1>4. CASE batadv_purge_outstanding_packets
  <2>1. /\ rtnl.pc \in {"bcast", "ogm"} /\ rtnl'.pc \in {"ogm", "free"} /\ rtnl'.i = rtnl.i
        /\ UNCHANGED <<hi, primary_if, mesh_state>>
    BY <1>4 DEF batadv_purge_outstanding_packets, batadv_forw_packet_list_steal, SqTypeOK
  <2> QED BY <2>1 DEF InterfacesAgree, Removing
<1>5. CASE batadv_forw_packet_list_free
  <2>1. /\ rtnl.pc = "free" /\ rtnl'.pc = "free" /\ rtnl'.i = rtnl.i
        /\ UNCHANGED <<hi, primary_if, mesh_state>>
    BY <1>5 DEF batadv_forw_packet_list_free, SqTypeOK
  <2> QED BY <2>1 DEF InterfacesAgree, Removing
<1>6. CASE PurgeEnds
  <2>1. rtnl.pc = "free" /\ rtnl' = Unlocked /\ primary_if' = primary_if
    BY <1>6 DEF PurgeEnds
  <2>2. CASE rtnl.i = NONE
    BY <1>6, <2>1, <2>2 DEF PurgeEnds, InterfacesAgree, Removing, Unlocked
  <2>3. CASE rtnl.i # NONE
    <3>1. /\ hi' = [hi EXCEPT ![rtnl.i].mesh_iface = FALSE] /\ rtnl.i \in Hardif
      BY <1>6, <2>3 DEF PurgeEnds, SqTypeOK
    <3>2. \A j \in Hardif : /\ j # rtnl.i => hi'[j].mesh_iface = hi[j].mesh_iface
                            /\ hi'[j].ogm_buff = hi[j].ogm_buff /\ hi'[j].status = hi[j].status
      BY <3>1 DEF SqTypeOK, HardifState
    <3>3. /\ hi[rtnl.i].status = "NOT_IN_USE" /\ primary_if # rtnl.i
          /\ primary_if \in Hardif \cup {NONE}
      BY <2>1, <2>3 DEF InterfacesAgree, Removing, SqTypeOK
    <3> QED BY <2>1, <3>1, <3>2, <3>3 DEF InterfacesAgree, Removing, Unlocked
  <2> QED BY <2>2, <2>3
<1>7. CASE StartWork \/ batadv_send_outstanding_bcast_packet \/ batadv_forw_packet_queue
           \/ batadv_iv_send_outstanding_bat_ogm_packet \/ batadv_forw_packet_steal
           \/ SendBcast \/ SendBcastBegins \/ SendBcastGoesOn \/ UNCHANGED sqVars
  <2>1. UNCHANGED <<hi, primary_if, rtnl, mesh_state>>
    BY <1>7 DEF StartWork, batadv_send_outstanding_bcast_packet, batadv_forw_packet_queue,
                batadv_iv_send_outstanding_bat_ogm_packet, batadv_forw_packet_steal,
                SendBcast, SendBcastBegins, SendBcastGoesOn, sqVars
  <2> QED BY <2>1 DEF InterfacesAgree, Removing
<1> QED BY <1>1, <1>2, <1>3, <1>4, <1>5, <1>6, <1>7, InterfacesRequest DEF SqNext, Work, Administer

-----------------------------------------------------------------------------
(* No packet refers to an interface that has left the mesh. *)

\* Steps that free packets or queue some for interfaces that stay.
LEMMA ReferencesKept ==
  ASSUME SqTypeOK, ReferencesFound, NoReferenceLeft,
         \A p \in Forw : \/ fp'[p].kind = "none"
                         \/ fp'[p].kind = fp[p].kind /\ fp'[p].in = fp[p].in
                         \/ /\ fp'[p].in \in Hardif /\ hi[fp'[p].in].mesh_iface
                            /\ Removing /\ rtnl.pc \in {"ogm", "free"} => fp'[p].in # rtnl.i,
         \A j \in Hardif : hi[j].mesh_iface => hi'[j].mesh_iface,
         tx' \in {tx, NONE}, Calm', bounds'.interrupted = bounds.interrupted,
         \/ /\ rtnl'.pc = rtnl.pc /\ rtnl'.i = rtnl.i
            /\ \A p \in rtnl.head : p \in rtnl'.head \/ fp'[p].kind = "none"
         \/ Removing' => ~bounds.interrupted /\ rtnl'.pc \notin {"ogm", "free"}
  PROVE  ReferencesFound' /\ NoReferenceLeft'
<1>1. NoReferenceLeft'
  <2> SUFFICES ASSUME NEW p \in Forw, fp'[p].kind # "none", fp'[p].in # NONE
               PROVE  hi'[fp'[p].in].mesh_iface
    BY DEF NoReferenceLeft
  <2>1. CASE fp'[p].kind = fp[p].kind /\ fp'[p].in = fp[p].in
    <3>1. fp[p].in \in Hardif /\ hi[fp[p].in].mesh_iface
      BY <2>1 DEF NoReferenceLeft, SqTypeOK, Packet
    <3> QED BY <2>1, <3>1
  <2> QED BY <2>1
<1>2. tx' # NONE => bounds'.interrupted /\ hi'[tx'].mesh_iface
  BY DEF ReferencesFound, SqTypeOK
<1>3. CASE /\ rtnl'.pc = rtnl.pc /\ rtnl'.i = rtnl.i
           /\ \A p \in rtnl.head : p \in rtnl'.head \/ fp'[p].kind = "none"
  <2>1. Removing' <=> Removing
    BY <1>3 DEF Removing
  <2>2. Removing' => ~bounds'.interrupted
    BY <2>1 DEF ReferencesFound
  <2>3. Removing' /\ rtnl'.pc = "ogm" =>
          \A p \in Forw : fp'[p].kind = "bcast" /\ fp'[p].in = rtnl'.i => p \in rtnl'.head
    BY <1>3, <2>1 DEF ReferencesFound
  <2>4. Removing' /\ rtnl'.pc = "free" =>
          \A p \in Forw : fp'[p].kind # "none" /\ fp'[p].in = rtnl'.i => p \in rtnl'.head
    BY <1>3, <2>1 DEF ReferencesFound
  <2> QED BY <1>1, <1>2, <2>2, <2>3, <2>4 DEF ReferencesFound
<1>4. CASE Removing' => ~bounds.interrupted /\ rtnl'.pc \notin {"ogm", "free"}
  BY <1>1, <1>2, <1>4 DEF ReferencesFound
<1> QED BY <1>3, <1>4

\* The purge has looked at one more list.
LEMMA ReferencesPurged ==
  ASSUME SqHeld, ReferencesFound, NoReferenceLeft, batadv_purge_outstanding_packets
  PROVE  ReferencesFound' /\ NoReferenceLeft'
<1> DEFINE found == {p \in Forw : /\ fp[p].kind = rtnl.pc
                                  /\ rtnl.i = NONE \/ rtnl.i \in {fp[p].in, fp[p].out}}
<1>1. /\ rtnl.pc \in {"bcast", "ogm"} /\ rtnl'.i = rtnl.i
      /\ rtnl'.pc = IF rtnl.pc = "bcast" THEN "ogm" ELSE "free"
      /\ rtnl'.head = rtnl.head \cup found
      /\ UNCHANGED <<hi, tx, bounds>>
  BY DEF batadv_purge_outstanding_packets, batadv_forw_packet_list_steal, SqHeld, SqTypeOK
<1>2. \A p \in Forw : fp'[p].kind = fp[p].kind /\ fp'[p].in = fp[p].in
  BY DEF batadv_purge_outstanding_packets, batadv_forw_packet_list_steal, SqHeld, SqTypeOK, Packet
<1>3. NoReferenceLeft'
  BY <1>1, <1>2 DEF NoReferenceLeft
<1>4. Removing' => Removing
  BY <1>1 DEF Removing
<1>5. Removing' /\ rtnl'.pc = "ogm" =>
        \A p \in Forw : fp'[p].kind = "bcast" /\ fp'[p].in = rtnl'.i => p \in rtnl'.head
  BY <1>1, <1>2
<1>6. Removing' /\ rtnl'.pc = "free" =>
        \A p \in Forw : fp'[p].kind # "none" /\ fp'[p].in = rtnl'.i => p \in rtnl'.head
  <2> SUFFICES ASSUME Removing, rtnl.pc = "ogm", NEW p \in Forw, fp[p].kind # "none",
                      fp[p].in = rtnl.i
               PROVE  p \in rtnl.head \cup found
    BY <1>1, <1>2, <1>4
  <2>1. fp[p].kind \in {"bcast", "ogm"}
    BY DEF SqHeld, SqTypeOK, Packet
  <2> QED BY <2>1 DEF ReferencesFound
<1>7. Calm' /\ (tx' # NONE => bounds'.interrupted /\ hi'[tx'].mesh_iface)
  BY <1>1 DEF ReferencesFound, Calm
<1>8. Removing' => ~bounds'.interrupted
  BY <1>1, <1>4 DEF ReferencesFound
<1> QED BY <1>3, <1>5, <1>6, <1>7, <1>8 DEF ReferencesFound

LEMMA ReferencesNext ==
  ASSUME SqHeld, InterfacesAgree, ReferencesFound, NoReferenceLeft, [SqNext]_sqVars
  PROVE  ReferencesFound' /\ NoReferenceLeft'
<1> USE DEF SqHeld
<1>1. CASE SendBcast \/ SendBcastGoesOn
  <2>1. PICK in \in Hardif :
          /\ \E own, delayed : __batadv_forw_bcast_packet(in, own, delayed)
          /\ hi[in].mesh_iface /\ (Removing => in # rtnl.i)
    <3>1. CASE SendBcast
      <4>1. primary_if \in Hardif /\ \E own, delayed : __batadv_forw_bcast_packet(primary_if, own, delayed)
        BY <3>1 DEF SendBcast, SqTypeOK
      <4> QED BY <4>1, SendQueueAssumption DEF InterfacesAgree
    <3>2. CASE SendBcastGoesOn
      <4>1. tx \in Hardif /\ \E own, delayed : __batadv_forw_bcast_packet(tx, own, delayed)
        BY <3>2 DEF SendBcastGoesOn, SqTypeOK
      <4> QED BY <4>1, SendQueueAssumption DEF ReferencesFound
    <3> QED BY <1>1, <3>1, <3>2
  <2>2. \A p \in Forw : fp'[p] = fp[p] \/ fp'[p].in = in
    <3>1. PICK own, delayed : __batadv_forw_bcast_packet(in, own, delayed)
      BY <2>1
    <3>2. PICK outs : /\ Placements(fp, outs) # {}
                      /\ fp' = batadv_forw_packet_alloc(fp, Bcasts(in, own, delayed, outs))
      BY <3>1 DEF __batadv_forw_bcast_packet
    <3> DEFINE pkt == Bcasts(in, own, delayed, outs)
    <3>3. DOMAIN pkt = outs /\ \A x \in outs : pkt[x].in = in
      BY DEF Bcasts, NewPacket
    <3> HIDE DEF pkt
    <3>4. \A p \in Forw : fp'[p] = fp[p] \/ \E x \in outs : fp'[p] = pkt[x]
      BY <3>2, <3>3, AllocatedEach DEF pkt
    <3> QED BY <3>3, <3>4
  <2>3. UNCHANGED <<hi, rtnl>> /\ tx' \in {tx, NONE}
    BY <1>1 DEF SendBcast, SendBcastGoesOn
  <2>4. bounds'.interrupted = bounds.interrupted /\ bounds'.changes = bounds.changes
    BY <1>1, CostType DEF SendBcast, SendBcastGoesOn, SqTypeOK
  <2>5. Calm'
    BY <2>4 DEF ReferencesFound, Calm
  <2> QED BY <2>1, <2>2, <2>3, <2>4, <2>5, ReferencesKept
<1>2. CASE ScheduleNext \/ batadv_iv_iface_enabled
  <2>1. PICK i \in Hardif : batadv_iv_ogm_schedule_buff(i)
    <3>1. ScheduleNext => fp[worker.p].in \in Hardif
      BY DEF ScheduleNext, SqTypeOK, WorkerHolds, Packet
    <3>2. batadv_iv_iface_enabled => rtnl.i \in Hardif
      BY DEF batadv_iv_iface_enabled, SqTypeOK
    <3> QED BY <1>2, <3>1, <3>2 DEF ScheduleNext, batadv_iv_iface_enabled
  <2>2. \A x : NewPacket("ogm", TRUE, i, x, 0).in = i
    BY DEF NewPacket
  <2>3. \A p \in Forw : fp'[p] = fp[p] \/ (fp'[p].in = i /\ hi[i].ogm_buff)
    <3>1. CASE hi[i].ogm_buff
      <4>1. \A p \in Forw : \/ fp'[p] = fp[p]
                            \/ \E x \in Lower \cup {i} : fp'[p] = NewPacket("ogm", TRUE, i, x, 0)
        BY <2>1, <3>1, OgmsQueuedEach
      <4> QED BY <2>2, <3>1, <4>1
    <3>2. CASE ~hi[i].ogm_buff
      BY <2>1, <3>2, OgmsQueuedEach
    <3> QED BY <3>1, <3>2
  <2>4. \A j \in Hardif : hi'[j].mesh_iface = hi[j].mesh_iface
    <3>1. hi' = [hi EXCEPT ![i].status = IF @ = "TO_BE_ACTIVATED" THEN "ACTIVE" ELSE @] \/ hi' = hi
      BY <2>1 DEF batadv_iv_ogm_schedule_buff
    <3> QED BY <3>1 DEF SqTypeOK, HardifState
  <2>5. /\ tx' = tx /\ bounds' = bounds
        /\ rtnl' = rtnl \/ (rtnl.pc = "enabled" /\ ~Removing')
    BY <1>2 DEF ScheduleNext, batadv_iv_iface_enabled, Unlocked, Removing
  <2>6. hi[i].ogm_buff => hi[i].mesh_iface
    BY DEF InterfacesAgree
  <2>7. hi[i].ogm_buff /\ Removing /\ rtnl.pc \in {"ogm", "free"} => i # rtnl.i
    BY DEF InterfacesAgree
  <2>8. Calm'
    BY <2>5 DEF ReferencesFound, Calm
  <2> QED BY <2>3, <2>4, <2>5, <2>6, <2>7, <2>8, ReferencesKept
<1>3. CASE StartWork \/ batadv_send_outstanding_bcast_packet \/ batadv_forw_packet_queue
           \/ batadv_iv_send_outstanding_bat_ogm_packet \/ batadv_forw_packet_steal
           \/ UNCHANGED sqVars
  <2>1. UNCHANGED <<hi, tx, bounds, rtnl>>
    BY <1>3 DEF StartWork, batadv_send_outstanding_bcast_packet, batadv_forw_packet_queue,
                batadv_iv_send_outstanding_bat_ogm_packet, batadv_forw_packet_steal, sqVars
  <2>2. \A p \in Forw : fp'[p].kind = "none" \/ (fp'[p].kind = fp[p].kind /\ fp'[p].in = fp[p].in)
    <3>1. CASE batadv_forw_packet_steal
      <4>1. fp' = fp \/ fp' = [fp EXCEPT ![worker.p] = Freed]
        BY <3>1 DEF batadv_forw_packet_steal, batadv_forw_packet_free
      <4> QED BY <4>1 DEF Freed, SqTypeOK
    <3>2. CASE StartWork \/ batadv_send_outstanding_bcast_packet \/ batadv_forw_packet_queue
               \/ batadv_iv_send_outstanding_bat_ogm_packet \/ UNCHANGED sqVars
      BY <3>2 DEF StartWork, batadv_send_outstanding_bcast_packet, batadv_forw_packet_queue,
                  batadv_iv_send_outstanding_bat_ogm_packet, sqVars, SqTypeOK, Packet
    <3> QED BY <1>3, <3>1, <3>2
  <2>3. Calm'
    BY <2>1 DEF ReferencesFound, Calm
  <2> QED BY <2>1, <2>2, <2>3, ReferencesKept
<1>4. CASE batadv_forw_packet_list_free
  <2>1. PICK p \in rtnl.head : /\ batadv_forw_packet_free(p)
                               /\ rtnl' = [rtnl EXCEPT !.head = @ \ {p}]
    BY <1>4 DEF batadv_forw_packet_list_free
  <2>2. UNCHANGED <<hi, tx, bounds>>
    BY <1>4 DEF batadv_forw_packet_list_free
  <2>3. /\ p \in Forw /\ fp'[p].kind = "none"
        /\ \A q \in Forw : q # p => fp'[q] = fp[q]
    BY <2>1 DEF batadv_forw_packet_free, Freed, SqTypeOK
  <2>4. rtnl'.pc = rtnl.pc /\ rtnl'.i = rtnl.i /\ rtnl'.head = rtnl.head \ {p}
    BY <2>1 DEF SqTypeOK
  <2>5. Calm'
    BY <2>2 DEF ReferencesFound, Calm
  <2> QED BY <2>2, <2>3, <2>4, <2>5, ReferencesKept
<1>5. CASE batadv_iv_ogm_iface_disable \/ SetNotInUse
  <2>1. /\ UNCHANGED <<fp, tx, bounds>> /\ Removing
        /\ rtnl'.pc \notin {"ogm", "free"}
    BY <1>5 DEF batadv_iv_ogm_iface_disable, SetNotInUse, Removing, SqTypeOK
  <2>2. \A j \in Hardif : hi'[j].mesh_iface = hi[j].mesh_iface
    BY <1>5 DEF batadv_iv_ogm_iface_disable, SetNotInUse, SqTypeOK, HardifState
  <2>3. Calm' /\ ~bounds.interrupted
    BY <2>1 DEF ReferencesFound, Calm
  <2> QED BY <2>1, <2>2, <2>3, ReferencesKept
<1>6. CASE PurgeEnds
  <2>1. /\ rtnl.pc = "free" /\ rtnl.head = {} /\ rtnl' = Unlocked /\ UNCHANGED <<fp, tx, bounds>>
    BY <1>6 DEF PurgeEnds
  <2>2. ~Removing'
    BY <2>1 DEF Removing, Unlocked
  <2>3. Calm'
    BY <2>1 DEF ReferencesFound, Calm
  <2>4. CASE rtnl.i = NONE
    <3>1. UNCHANGED hi
      BY <1>6, <2>4 DEF PurgeEnds
    <3> QED BY <2>1, <2>2, <2>3, <3>1, ReferencesKept
  <2>5. CASE rtnl.i # NONE
    <3>1. /\ hi' = [hi EXCEPT ![rtnl.i].mesh_iface = FALSE] /\ rtnl.i \in Hardif
          /\ Removing
      BY <1>6, <2>1, <2>5 DEF PurgeEnds, SqTypeOK, Removing
    <3>2. \A j \in Hardif : j # rtnl.i => hi'[j] = hi[j]
      BY <3>1 DEF SqTypeOK
    <3>3. tx = NONE
      BY <3>1 DEF ReferencesFound
    <3>4. NoReferenceLeft'
      <4> SUFFICES ASSUME NEW p \in Forw, fp[p].kind # "none", fp[p].in # NONE
                   PROVE  hi'[fp[p].in].mesh_iface
        BY <2>1 DEF NoReferenceLeft
      <4>1. fp[p].in # rtnl.i
        BY <2>1, <3>1 DEF ReferencesFound
      <4>2. fp[p].in \in Hardif /\ hi[fp[p].in].mesh_iface
        BY DEF NoReferenceLeft, SqTypeOK, Packet
      <4> QED BY <3>2, <4>1, <4>2
    <3> QED BY <2>1, <2>2, <2>3, <3>3, <3>4 DEF ReferencesFound
  <2> QED BY <2>4, <2>5
<1>7. CASE SendBcastBegins
  <2>1. /\ bounds.interrupted /\ primary_if # NONE /\ tx' = primary_if
        /\ UNCHANGED <<hi, fp, rtnl>>
    BY <1>7 DEF SendBcastBegins
  <2>2. bounds'.interrupted = bounds.interrupted /\ bounds'.changes = bounds.changes
    BY <1>7, CostType DEF SendBcastBegins, SqTypeOK
  <2>3. hi'[tx'].mesh_iface
    BY <2>1 DEF InterfacesAgree
  <2>4. ~Removing'
    BY <2>1 DEF ReferencesFound, Removing
  <2>5. NoReferenceLeft'
    BY <2>1 DEF NoReferenceLeft
  <2> QED BY <2>1, <2>2, <2>3, <2>4, <2>5 DEF ReferencesFound, Calm
<1>8. CASE Request
  <2>1. UNCHANGED <<fp, tx>>
    BY <1>8 DEF Request, batadv_hardif_enable_interface, batadv_hardif_disable_interface,
                batadv_hard_if_event, batadv_mesh_free
  <2>2. \A j \in Hardif : hi[j].mesh_iface => hi'[j].mesh_iface
    <3>1. CASE batadv_hardif_enable_interface
      <4>1. PICK i \in Hardif :
              LET h == [hi EXCEPT ![i].mesh_iface = TRUE, ![i].ogm_buff = TRUE, ![i].status = "INACTIVE"]
              IN hi' \in {h, Activated(i, h, primary_if).hi}
        BY <3>1 DEF batadv_hardif_enable_interface
      <4> DEFINE h == [hi EXCEPT ![i].mesh_iface = TRUE, ![i].ogm_buff = TRUE, ![i].status = "INACTIVE"]
      <4>2. /\ h \in [Hardif -> HardifState] /\ h[i].mesh_iface
            /\ \A j \in Hardif \ {i} : h[j] = hi[j]
        BY EnabledHardif DEF SqTypeOK
      <4> HIDE DEF h
      <4>3. hi' \in {h, [h EXCEPT ![i].status = "TO_BE_ACTIVATED"]}
        BY <4>1 DEF h, Activated
      <4> QED BY <4>2, <4>3 DEF HardifState
    <3>2. CASE batadv_hardif_disable_interface
      BY <3>2 DEF batadv_hardif_disable_interface, SqTypeOK, HardifState
    <3>3. CASE batadv_hard_if_event
      <4>1. PICK i \in Hardif :
              LET h == [hi EXCEPT ![i].up = ~@]
              IN \/ hi' = [h EXCEPT ![i].status =
                             IF @ \in {"ACTIVE", "TO_BE_ACTIVATED"} THEN "INACTIVE" ELSE @]
                 \/ hi' = Activated(i, h, primary_if).hi
        BY <3>3, Zenon DEF batadv_hard_if_event
      <4> DEFINE h == [hi EXCEPT ![i].up = ~@]
      <4>2. /\ h \in [Hardif -> HardifState]
            /\ \A j \in Hardif : h[j].mesh_iface = hi[j].mesh_iface
        BY DEF SqTypeOK, HardifState
      <4> HIDE DEF h
      <4>3. \/ hi' = [h EXCEPT ![i].status =
                        IF @ \in {"ACTIVE", "TO_BE_ACTIVATED"} THEN "INACTIVE" ELSE @]
            \/ hi' = h
            \/ hi' = [h EXCEPT ![i].status = "TO_BE_ACTIVATED"]
        BY <4>1 DEF h, Activated
      <4> QED BY <4>2, <4>3 DEF HardifState
    <3>4. CASE batadv_mesh_free
      BY <3>4 DEF batadv_mesh_free
    <3> QED BY <1>8, <3>1, <3>2, <3>3, <3>4 DEF Request
  <2>3. /\ bounds'.interrupted = bounds.interrupted /\ Calm'
        /\ Removing' => ~bounds.interrupted /\ rtnl'.pc \notin {"ogm", "free"}
    <3>1. CASE batadv_hardif_enable_interface \/ batadv_hardif_disable_interface
      <4>1. Cost("changes") /\ rtnl'.pc \notin {"ogm", "free"}
        BY <3>1 DEF batadv_hardif_enable_interface, batadv_hardif_disable_interface, Unlocked
      <4>2. bounds.changes > 0 /\ bounds'.interrupted = bounds.interrupted
        BY <4>1, CostType DEF SqTypeOK
      <4>3. ~bounds.interrupted
        BY <4>2 DEF ReferencesFound, Calm
      <4> QED BY <4>1, <4>2, <4>3 DEF Calm
    <3>2. CASE batadv_hard_if_event
      <4>1. Cost("events") /\ rtnl' = Unlocked
        BY <3>2 DEF batadv_hard_if_event
      <4>2. bounds'.changes = bounds.changes /\ bounds'.interrupted = bounds.interrupted
        BY <4>1, CostType DEF SqTypeOK
      <4> QED BY <4>1, <4>2 DEF ReferencesFound, Calm, Removing, Unlocked
    <3>3. CASE batadv_mesh_free
      <4>1. bounds' = bounds /\ rtnl'.i = NONE
        BY <3>3 DEF batadv_mesh_free, Unlocked
      <4> QED BY <4>1 DEF ReferencesFound, Calm, Removing
    <3> QED BY <1>8, <3>1, <3>2, <3>3 DEF Request
  <2> QED BY <2>1, <2>2, <2>3, ReferencesKept
<1> QED BY <1>1, <1>2, <1>3, <1>4, <1>5, <1>6, <1>7, <1>8, ReferencesPurged
        DEF SqNext, Work, Administer

\* The interfaces in use at first, and what waits for them.
LEMMA InterfacesInit ==
  ASSUME SqInit
  PROVE  InterfacesAgree /\ NoReferenceLeft
<1> DEFINE nothing == [p \in Forw |-> Freed]
           used == ToSet(bounds.used)
           pairs == {io \in used \X used : io[1] = io[2] \/ io[1] = bounds.used[1]}
           pkt == [io \in pairs |-> NewPacket("ogm", TRUE, io[1], io[2], 0)]
<1>1. /\ bounds \in SqScenarios
      /\ hi = [i \in Hardif |-> IF i \in used THEN InUse ELSE NotInUse]
      /\ primary_if = IF bounds.used = <<>> THEN NONE ELSE bounds.used[1]
      /\ Placements(nothing, pairs) # {} /\ fp = batadv_forw_packet_alloc(nothing, pkt)
      /\ rtnl = Unlocked /\ tx = NONE
  BY DEF SqInit
<1>2. bounds.used \in Seq(Hardif)
  BY <1>1, SendQueueAssumption
<1>3. used \subseteq Hardif /\ (bounds.used # <<>> => bounds.used[1] \in used)
  BY <1>2 DEF ToSet
<1>4. \A io \in pairs : io[1] \in used
  OBVIOUS
<1> HIDE DEF used, pairs
<1>5. DOMAIN pkt = pairs /\ \A x \in pairs : pkt[x].in = x[1]
  BY DEF NewPacket
<1> HIDE DEF pkt
<1>6. \A p \in Forw : fp[p] = Freed \/ \E x \in pairs : fp[p] = pkt[x]
  BY <1>1, <1>5, AllocatedEach
<1>7. \A i \in Hardif : hi[i] = IF i \in used THEN InUse ELSE NotInUse
  BY <1>1
<1>8. /\ \A i \in Hardif : /\ hi[i].status # "NOT_IN_USE" => hi[i].mesh_iface
                           /\ hi[i].ogm_buff => hi[i].status # "NOT_IN_USE"
      /\ \A i \in used : hi[i].mesh_iface
  <2>1. /\ InUse.status = "ACTIVE" /\ InUse.mesh_iface = TRUE
        /\ NotInUse.status = "NOT_IN_USE" /\ NotInUse.ogm_buff = FALSE
    BY DEF InUse, NotInUse
  <2> QED BY <1>3, <1>7, <2>1
<1>9. InterfacesAgree
  <2>1. primary_if # NONE => hi[primary_if].mesh_iface
    BY <1>1, <1>3, <1>8
  <2>2. rtnl.pc = "idle" /\ rtnl = Unlocked
    BY <1>1 DEF Unlocked
  <2> QED BY <1>8, <2>1, <2>2 DEF InterfacesAgree, Removing
<1>10. NoReferenceLeft
  BY <1>4, <1>5, <1>6, <1>8 DEF NoReferenceLeft, Freed
<1> QED BY <1>9, <1>10

\* As long as no sender of a broadcast is interrupted while interfaces are added and removed
\* (one that is queues its packet after the removal has searched the queue), nothing that
\* waits to be sent refers to an interface that has left the mesh, whatever the worker does
\* during the removal.
THEOREM NoReferenceRemains ==
  ASSUME \A b \in SqScenarios : b.interrupted => b.changes = 0
  PROVE  SqSpec => []NoReferenceLeft
<1>1. SqInit => InterfacesAgree /\ ReferencesFound /\ NoReferenceLeft
  <2> SUFFICES ASSUME SqInit PROVE InterfacesAgree /\ ReferencesFound /\ NoReferenceLeft
    OBVIOUS
  <2>1. bounds \in SqScenarios /\ rtnl = Unlocked /\ tx = NONE
    BY DEF SqInit
  <2> QED BY <2>1, InterfacesInit DEF ReferencesFound, Calm, Removing, Unlocked
<1>2. SqHeld /\ (InterfacesAgree /\ ReferencesFound /\ NoReferenceLeft) /\ [SqNext]_sqVars
        => (InterfacesAgree /\ ReferencesFound /\ NoReferenceLeft)'
  BY InterfacesNext, ReferencesNext
<1> QED BY <1>1, <1>2, AlwaysHeld, PTL DEF SqSpec

-----------------------------------------------------------------------------
(* One series of OGMs for each interface in use. *)

\* A packet keeps its interfaces as long as the purge has it.
LEMMA StolenNext ==
  ASSUME SqHeld, StolenForIt, [SqNext]_sqVars
  PROVE  StolenForIt'
<1> USE DEF SqHeld
<1>1. CASE SendBcast \/ SendBcastGoesOn \/ ScheduleNext
  <2>1. rtnl' = rtnl
    BY <1>1 DEF SendBcast, SendBcastGoesOn, ScheduleNext
  <2>2. QueuedEach
    <3>1. CASE SendBcast
      <4>1. \E own \in BOOLEAN, delayed \in BOOLEAN :
              __batadv_forw_bcast_packet(primary_if, own, delayed)
        BY <3>1 DEF SendBcast
      <4>2. primary_if \in Hardif
        BY <3>1 DEF SendBcast, SqTypeOK
      <4> QED BY <4>1, <4>2, BcastQueued
    <3>2. CASE SendBcastGoesOn
      <4>1. \E own \in BOOLEAN, delayed \in BOOLEAN : __batadv_forw_bcast_packet(tx, own, delayed)
        BY <3>2, Zenon DEF SendBcastGoesOn
      <4>2. tx \in Hardif
        BY <3>2 DEF SendBcastGoesOn, SqTypeOK
      <4> QED BY <4>1, <4>2, BcastQueued
    <3>3. CASE ScheduleNext
      <4>1. fp[worker.p].in \in Hardif
        BY <3>3 DEF ScheduleNext, SqTypeOK, WorkerHolds, Packet
      <4> QED BY <3>3, <4>1, OgmsQueued DEF ScheduleNext
    <3> QED BY <1>1, <3>1, <3>2, <3>3
  <2>3. \A p \in rtnl.head : fp'[p] = fp[p]
    BY <2>2 DEF QueuedEach, PurgeHolds, SqTypeOK
  <2> QED BY <2>1, <2>3 DEF StolenForIt
<1>2. CASE StartWork \/ batadv_send_outstanding_bcast_packet \/ batadv_forw_packet_queue
           \/ batadv_iv_send_outstanding_bat_ogm_packet \/ SendBcastBegins \/ UNCHANGED sqVars
  <2>1. rtnl' = rtnl
    BY <1>2 DEF StartWork, batadv_send_outstanding_bcast_packet, batadv_forw_packet_queue,
                batadv_iv_send_outstanding_bat_ogm_packet, SendBcastBegins, sqVars
  <2>2. \A p \in Forw : fp'[p].in = fp[p].in /\ fp'[p].out = fp[p].out
    BY <1>2 DEF StartWork, batadv_send_outstanding_bcast_packet, batadv_forw_packet_queue,
                batadv_iv_send_outstanding_bat_ogm_packet, SendBcastBegins, sqVars, SqTypeOK, Packet
  <2> QED BY <2>1, <2>2 DEF StolenForIt, SqTypeOK
<1>3. CASE batadv_forw_packet_steal
  <2>1. /\ rtnl' = rtnl
        /\ \/ fp' = fp
           \/ ~fp[worker.p].stolen /\ fp' = [fp EXCEPT ![worker.p] = Freed]
    BY <1>3 DEF batadv_forw_packet_steal, batadv_forw_packet_free
  <2>2. \A p \in rtnl.head : fp'[p] = fp[p]
    BY <2>1 DEF PurgeHolds, SqTypeOK
  <2> QED BY <2>1, <2>2 DEF StolenForIt
<1>4. CASE batadv_purge_outstanding_packets
  <2>1. /\ rtnl'.i = rtnl.i
        /\ \A p \in rtnl'.head :
             \/ p \in rtnl.head
             \/ p \in Forw /\ (rtnl.i # NONE => rtnl.i \in {fp[p].in, fp[p].out})
    BY <1>4 DEF batadv_purge_outstanding_packets, batadv_forw_packet_list_steal, SqTypeOK
  <2>2. \A p \in Forw : fp'[p].in = fp[p].in /\ fp'[p].out = fp[p].out
    BY <1>4 DEF batadv_purge_outstanding_packets, batadv_forw_packet_list_steal, SqTypeOK, Packet
  <2> QED BY <2>1, <2>2 DEF StolenForIt, SqTypeOK
<1>5. CASE batadv_forw_packet_list_free
  <2>1. PICK p \in rtnl.head : /\ fp' = [fp EXCEPT ![p] = Freed]
                               /\ rtnl' = [rtnl EXCEPT !.head = @ \ {p}]
    BY <1>5 DEF batadv_forw_packet_list_free, batadv_forw_packet_free
  <2>2. rtnl'.i = rtnl.i /\ rtnl'.head = rtnl.head \ {p}
    BY <2>1 DEF SqTypeOK
  <2>3. \A q \in rtnl'.head : fp'[q] = fp[q]
    BY <2>1, <2>2 DEF SqTypeOK
  <2> QED BY <2>2, <2>3 DEF StolenForIt
<1>6. CASE batadv_iv_iface_enabled \/ batadv_iv_ogm_iface_disable \/ SetNotInUse \/ PurgeEnds
           \/ Request
  <2>1. rtnl'.head = {}
    <3>1. CASE batadv_iv_iface_enabled \/ PurgeEnds
      BY <3>1 DEF batadv_iv_iface_enabled, PurgeEnds, Unlocked
    <3>2. CASE batadv_iv_ogm_iface_disable \/ SetNotInUse
      BY <3>2 DEF batadv_iv_ogm_iface_disable, SetNotInUse, PurgeHolds, SqTypeOK
    <3>3. CASE Request
      <4>1. /\ rtnl = Unlocked
            /\ rtnl' = rtnl \/ (\E c, i : rtnl' = [rtnl EXCEPT !.pc = c, !.i = i])
                 \/ (\E c : rtnl' = [rtnl EXCEPT !.pc = c])
        BY <3>3, Zenon DEF Request, batadv_hardif_enable_interface, batadv_hardif_disable_interface,
                           batadv_hard_if_event, batadv_mesh_free
      <4>2. /\ Unlocked.head = {}
            /\ \A c : [Unlocked EXCEPT !.pc = c].head = {}
            /\ \A c, i : [Unlocked EXCEPT !.pc = c, !.i = i].head = {}
        BY DEF Unlocked
      <4> QED BY <4>1, <4>2, Zenon
    <3> QED BY <1>6, <3>1, <3>2, <3>3
  <2> QED BY <2>1 DEF StolenForIt
<1> QED BY <1>1, <1>2, <1>3, <1>4, <1>5, <1>6 DEF SqNext, Work, Administer

\* What the original copies of i's OGM are, before and after a step.
LEMMA InChain ==
  ASSUME SqTypeOK, SqTypeOK', NEW i, NEW p
  PROVE  /\ p \in Chain(i) <=>
              /\ p \in Forw /\ fp[p].kind = "ogm" /\ fp[p].in = i /\ fp[p].out = i /\ ~fp[p].stolen
              /\ fp[p].timer \/ (worker.p = p /\ worker.pc \in {"ogm", "schedule"})
         /\ p \in Chain(i)' <=>
              /\ p \in Forw /\ fp'[p].kind = "ogm" /\ fp'[p].in = i /\ fp'[p].out = i
              /\ ~fp'[p].stolen
              /\ fp'[p].timer \/ (worker'.p = p /\ worker'.pc \in {"ogm", "schedule"})
<1>1. ASSUME SqTypeOK
      PROVE  p \in Chain(i) <=>
              /\ p \in Forw /\ fp[p].kind = "ogm" /\ fp[p].in = i /\ fp[p].out = i /\ ~fp[p].stolen
              /\ fp[p].timer \/ (worker.p = p /\ worker.pc \in {"ogm", "schedule"})
  <2>1. \A c : worker = [pc |-> c, p |-> p] <=> worker.pc = c /\ worker.p = p
    BY DEF SqTypeOK
  <2> QED BY <2>1 DEF Chain
<1>2. p \in Chain(i)' <=>
        /\ p \in Forw /\ fp'[p].kind = "ogm" /\ fp'[p].in = i /\ fp'[p].out = i /\ ~fp'[p].stolen
        /\ fp'[p].timer \/ (worker'.p = p /\ worker'.pc \in {"ogm", "schedule"})
  <2>1. \A c : worker' = [pc |-> c, p |-> p] <=> worker'.pc = c /\ worker'.p = p
    BY DEF SqTypeOK
  <2> QED BY <2>1 DEF Chain
<1> QED BY <1>1, <1>2

\* Steps that queue no OGM.
LEMMA ChainsSame ==
  ASSUME ChainsKept, mesh_state' = "ACTIVE" => mesh_state = "ACTIVE",
         mesh_state' = "ACTIVE" =>
           \A i \in Hardif :
             /\ \A p \in Chain(i)' : p \in Chain(i)
             /\ hi'[i].ogm_buff /\ ~Starting(i)' =>
                  /\ hi[i].ogm_buff /\ ~Starting(i)
                  /\ \A p \in Chain(i) : p \in Chain(i)'
             /\ Starting(i)' \/ (~hi'[i].ogm_buff /\ ~Stopping(i)') =>
                  \/ Starting(i) \/ (~hi[i].ogm_buff /\ ~Stopping(i))
                  \/ \A p : p \notin Chain(i)'
  PROVE  ChainsKept'
<1> SUFFICES ASSUME mesh_state' = "ACTIVE", NEW i \in Hardif
             PROVE  /\ \A p, q \in Chain(i)' : p = q
                    /\ hi'[i].ogm_buff /\ ~Starting(i)' => Chain(i)' # {}
                    /\ Starting(i)' \/ (~hi'[i].ogm_buff /\ ~Stopping(i)') => Chain(i)' = {}
  BY DEF ChainsKept
<1>1. /\ \A p, q \in Chain(i) : p = q
      /\ hi[i].ogm_buff /\ ~Starting(i) => Chain(i) # {}
      /\ Starting(i) \/ (~hi[i].ogm_buff /\ ~Stopping(i)) => Chain(i) = {}
  BY DEF ChainsKept
<1> QED BY <1>1

\* Queueing i's next OGM: its copy for i is all that is then in i's chain; the other chains
\* stay as they are.
LEMMA ChainQueued ==
  ASSUME SqTypeOK, SqTypeOK', NEW i \in Hardif, batadv_iv_ogm_schedule_buff(i),
         hi[i].ogm_buff, i \in Lower,
         \A p \in Forw : fp[p].kind # "none" /\ fp'[p] = fp[p] =>
           /\ p \notin Chain(i)'
           /\ \A j \in Hardif \ {i} : p \in Chain(j)' <=> p \in Chain(j)
  PROVE  /\ \A j \in Hardif \ {i} : \A p : p \in Chain(j)' <=> p \in Chain(j)
         /\ \E p : \A q : q \in Chain(i)' <=> q = p
<1>1. PICK n \in Forw :
        /\ fp[n].kind = "none" /\ fp'[n] = NewPacket("ogm", TRUE, i, i, 0)
        /\ \A q \in Forw :
             \/ q = n \/ fp'[q] = fp[q]
             \/ /\ fp[q].kind = "none"
                /\ \E x \in Lower \ {i} : fp'[q] = NewPacket("ogm", TRUE, i, x, 0)
  BY OgmsQueuedEach
<1>2. \A x : LET q == NewPacket("ogm", TRUE, i, x, 0)
             IN q.kind = "ogm" /\ q.in = i /\ q.out = x /\ q.stolen = FALSE /\ q.timer = TRUE
  BY DEF NewPacket
<1>3. \A q, j : q \in Chain(j) \/ q \in Chain(j)' => q \in Forw
  BY DEF Chain
<1>4. n \in Chain(i)'
  <2>1. /\ fp'[n].kind = "ogm" /\ fp'[n].in = i /\ fp'[n].out = i
        /\ fp'[n].stolen = FALSE /\ fp'[n].timer = TRUE
    BY <1>1 DEF NewPacket
  <2> QED BY <1>1, <2>1, InChain
<1>5. ASSUME NEW q \in Forw, q # n
      PROVE  q \notin Chain(i)' /\ \A j \in Hardif \ {i} : q \in Chain(j)' <=> q \in Chain(j)
  <2>1. CASE fp[q].kind = "none" /\ \E x \in Lower \ {i} : fp'[q] = NewPacket("ogm", TRUE, i, x, 0)
    <3>1. fp[q].kind = "none" /\ fp'[q].in = i /\ fp'[q].out # i
      BY <2>1, <1>2
    <3>2. \A j \in Hardif : q \notin Chain(j)
      BY <3>1, InChain
    <3>3. \A j \in Hardif : q \notin Chain(j)'
      BY <3>1, InChain
    <3> QED BY <3>2, <3>3
  <2>2. CASE fp'[q] = fp[q] /\ fp[q].kind = "none"
    <3>1. \A j \in Hardif : q \notin Chain(j) /\ q \notin Chain(j)'
      BY <2>2, InChain
    <3> QED BY <3>1
  <2>3. CASE fp'[q] = fp[q] /\ fp[q].kind # "none"
    BY <2>3
  <2> QED BY <1>1, <1>5, <2>1, <2>2, <2>3
<1>6. \A j \in Hardif \ {i} : n \notin Chain(j)' /\ n \notin Chain(j)
  <2> TAKE j \in Hardif \ {i}
  <2>1. fp[n].kind = "none" /\ fp'[n].in = i
    BY ZenonT(40), <1>1, <1>2
  <2> QED BY <2>1, InChain
<1>7. \A j \in Hardif \ {i} : \A p : p \in Chain(j)' <=> p \in Chain(j)
  BY <1>3, <1>5, <1>6
<1>8. \A q : q \in Chain(i)' <=> q = n
  BY <1>3, <1>4, <1>5
<1> QED BY <1>7, <1>8

\* The chains after a step that replaces i's.
LEMMA ChainsReplaced ==
  ASSUME ChainsKept, mesh_state' = mesh_state, NEW i \in Hardif,
         \A j \in Hardif \ {i} : \A p : p \in Chain(j)' <=> p \in Chain(j),
         \E p : \A q : q \in Chain(i)' <=> q = p,
         \A j \in Hardif : hi'[j].ogm_buff = hi[j].ogm_buff, hi[i].ogm_buff, ~Starting(i)',
         \A j \in Hardif \ {i} : (Starting(j)' <=> Starting(j)) /\ (Stopping(j)' <=> Stopping(j))
  PROVE  ChainsKept'
<1> SUFFICES ASSUME mesh_state' = "ACTIVE", NEW j \in Hardif
             PROVE  /\ \A p, q \in Chain(j)' : p = q
                    /\ hi'[j].ogm_buff /\ ~Starting(j)' => Chain(j)' # {}
                    /\ Starting(j)' \/ (~hi'[j].ogm_buff /\ ~Stopping(j)') => Chain(j)' = {}
  BY DEF ChainsKept
<1>1. CASE j = i
  <2>1. /\ \A p, q \in Chain(i)' : p = q
        /\ Chain(i)' # {}
    OBVIOUS
  <2> QED BY <1>1, <2>1
<1>2. CASE j # i
  <2>1. /\ \A p, q \in Chain(j) : p = q
        /\ hi[j].ogm_buff /\ ~Starting(j) => Chain(j) # {}
        /\ Starting(j) \/ (~hi[j].ogm_buff /\ ~Stopping(j)) => Chain(j) = {}
    BY DEF ChainsKept
  <2>2. Chain(j)' = Chain(j)
    <3>1. \A p : p \in Chain(j)' <=> p \in Chain(j)
      BY <1>2
    <3> QED BY <3>1, Zenon
  <2> QED BY <1>2, <2>1, <2>2
<1> QED BY <1>1, <1>2

LEMMA ChainsWork ==
  ASSUME SqHeld, SqTypeOK', InterfacesAgree, StolenForIt, ChainsKept, Work
  PROVE  ChainsKept'
<1> USE DEF SqHeld
<1>1. CASE ScheduleNext
  <2>1. PICK w \in Forw, i \in Hardif : w = worker.p /\ i = fp[w].in
    BY <1>1 DEF ScheduleNext, SqTypeOK, WorkerHolds, Packet
  <2>2. /\ worker.pc = "schedule" /\ worker' = [worker EXCEPT !.pc = "steal"]
        /\ batadv_iv_ogm_schedule_buff(i) /\ UNCHANGED <<rtnl, mesh_state>>
    BY <1>1, <2>1 DEF ScheduleNext
  <2>3. /\ fp[w].in = i /\ fp[w].out = i /\ fp[w].kind = "ogm" /\ ~fp[w].timer
    BY <2>1, <2>2 DEF WorkerHolds, SqTypeOK
  <2>4. worker'.pc = "steal" /\ worker'.p = w
    BY <2>1, <2>2 DEF SqTypeOK
  <2>5. \A j \in Hardif : (Starting(j)' <=> Starting(j)) /\ (Stopping(j)' <=> Stopping(j))
    BY <2>2 DEF Starting, Stopping
  <2>6. CASE ~hi[i].ogm_buff
    <3>1. UNCHANGED <<hi, fp>>
      BY <2>2, <2>3, <2>6, OgmsQueuedEach
    <3>2. \A j \in Hardif : \A p \in Chain(j)' : p \in Chain(j)
      BY <2>4, <3>1, InChain
    <3>3. \A j \in Hardif \ {i} : \A p \in Chain(j) : p \in Chain(j)'
      <4> TAKE j \in Hardif \ {i}
      <4> TAKE p \in Chain(j)
      <4>1. p # w
        BY <2>3, InChain
      <4> QED BY <2>1, <4>1, <3>1, InChain
    <3> QED BY <2>2, <2>5, <2>6, <3>1, <3>2, <3>3, ChainsSame
  <2>7. CASE hi[i].ogm_buff /\ mesh_state = "ACTIVE"
    <3>1. w \notin rtnl.head
      <4> SUFFICES ASSUME w \in rtnl.head PROVE FALSE
        OBVIOUS
      <4>1. rtnl.pc \in {"ogm", "free"} /\ (rtnl.i = i \/ rtnl.i = NONE)
        BY <2>3 DEF StolenForIt, PurgeHolds
      <4>2. rtnl.i = i /\ i # NONE
        BY <2>3, <2>7, <4>1, SendQueueAssumption DEF InterfacesAgree
      <4>3. Removing
        BY <4>1, <4>2 DEF Removing
      <4> QED BY <2>7, <4>1, <4>2, <4>3 DEF InterfacesAgree
    <3>2. w \in Chain(i)
      <4>1. ~fp[w].stolen
        BY <2>3, <3>1 DEF PurgeHolds
      <4> QED BY <2>1, <2>2, <2>3, <4>1, InChain
    <3>3. \A p \in Chain(i) : p = w
      BY <2>3, <2>7, <3>2 DEF ChainsKept
    <3>4. ~Starting(i)
      BY <2>3, <2>7, <3>2 DEF ChainsKept
    <3>5. i \in Lower
      BY <2>3, <2>7 DEF InterfacesAgree, Lower
    <3>6. ASSUME NEW p \in Forw, fp[p].kind # "none", fp'[p] = fp[p]
          PROVE  p \notin Chain(i)' /\ \A j \in Hardif \ {i} : p \in Chain(j)' <=> p \in Chain(j)
      <4>1. p \notin Chain(i)'
        <5>1. CASE p = w
          BY <2>3, <2>4, <3>6, <5>1, InChain
        <5>2. CASE p # w
          <6>1. p \notin Chain(i)
            BY <3>3, <5>2
          <6>2. ~(fp[p].kind = "ogm" /\ fp[p].in = i /\ fp[p].out = i /\ ~fp[p].stolen /\ fp[p].timer)
            BY <6>1, InChain
          <6> QED BY <2>4, <3>6, <6>2, InChain
        <5> QED BY <5>1, <5>2
      <4>2. \A j \in Hardif \ {i} : p \in Chain(j)' <=> p \in Chain(j)
        <5> TAKE j \in Hardif \ {i}
        <5>1. CASE p = w
          BY <2>3, <3>6, <5>1, InChain
        <5>2. CASE p # w
          BY <2>1, <2>4, <3>6, <5>2, InChain
        <5> QED BY <5>1, <5>2
      <4> QED BY <4>1, <4>2
    <3>7. /\ \A j \in Hardif \ {i} : \A p : p \in Chain(j)' <=> p \in Chain(j)
          /\ \E p : \A q : q \in Chain(i)' <=> q = p
      <4>1. \A p \in Forw : fp[p].kind # "none" /\ fp'[p] = fp[p] =>
              /\ p \notin Chain(i)'
              /\ \A j \in Hardif \ {i} : p \in Chain(j)' <=> p \in Chain(j)
        BY <3>6
      <4> QED BY <2>2, <2>3, <2>7, <3>5, <4>1, ChainQueued
    <3>8. \A j \in Hardif : hi'[j].ogm_buff = hi[j].ogm_buff
      BY <2>2, <2>3 DEF batadv_iv_ogm_schedule_buff, SqTypeOK, HardifState
    <3>9. ~Starting(i)'
      BY <2>3, <2>5, <3>4
    <3> QED BY <2>2, <2>3, <2>5, <2>7, <3>7, <3>8, <3>9, ChainsReplaced
  <2>8. CASE mesh_state # "ACTIVE"
    BY <2>2, <2>8 DEF ChainsKept
  <2> QED BY <2>6, <2>7, <2>8
<1>2. CASE batadv_iv_send_outstanding_bat_ogm_packet
  <2>1. /\ worker.pc = "ogm" /\ UNCHANGED <<hi, fp, rtnl, mesh_state>>
        /\ worker'.p = worker.p /\ worker'.pc \in {"schedule", "steal"}
        /\ mesh_state # "DEACTIVATING" /\ fp[worker.p].in = fp[worker.p].out
             /\ hi[fp[worker.p].in].status # "NOT_IN_USE" => worker'.pc = "schedule"
    BY <1>2 DEF batadv_iv_send_outstanding_bat_ogm_packet, SqTypeOK, Status, HardifState,
                WorkerHolds, Packet
  <2>2. \A j \in Hardif : \A p \in Chain(j)' : p \in Chain(j)
    BY <2>1, InChain
  <2>3. ASSUME mesh_state = "ACTIVE", NEW j \in Hardif, hi[j].ogm_buff, NEW p \in Chain(j)
        PROVE  p \in Chain(j)'
    <3>1. hi[j].status # "NOT_IN_USE"
      BY <2>3 DEF InterfacesAgree
    <3>2. fp[p].in = j /\ fp[p].out = j
      BY InChain
    <3>3. worker.p = p => worker'.pc = "schedule"
      BY <2>1, <2>3, <3>1, <3>2
    <3> QED BY <2>1, <3>3, InChain
  <2>4. \A j \in Hardif : (Starting(j)' <=> Starting(j)) /\ (Stopping(j)' <=> Stopping(j))
    BY <2>1 DEF Starting, Stopping
  <2> QED BY <2>1, <2>2, <2>3, <2>4, ChainsSame
<1>3. CASE StartWork
  <2>1. PICK p \in Forw : /\ worker = Idle /\ fp[p].timer
                          /\ fp' = [fp EXCEPT ![p].timer = FALSE]
                          /\ worker' = [pc |-> fp[p].kind, p |-> p]
    BY <1>3 DEF StartWork
  <2>2. UNCHANGED <<hi, rtnl, mesh_state>>
    BY <1>3 DEF StartWork
  <2>3. /\ worker.pc = "idle" /\ worker'.p = p /\ worker'.pc = fp[p].kind
    BY <2>1 DEF Idle
  <2>4. /\ \A q \in Forw \ {p} : fp'[q] = fp[q]
        /\ fp'[p].kind = fp[p].kind /\ fp'[p].in = fp[p].in /\ fp'[p].out = fp[p].out
        /\ fp'[p].stolen = fp[p].stolen
    BY <2>1 DEF SqTypeOK, Packet
  <2>5. \A j \in Hardif, q \in Forw : q \in Chain(j)' <=> q \in Chain(j)
    <3> TAKE j \in Hardif, q \in Forw
    <3>1. CASE q = p
      BY <2>1, <2>3, <2>4, <3>1, InChain
    <3>2. CASE q # p
      <4>1. q \in Chain(j)' <=> /\ fp[q].kind = "ogm" /\ fp[q].in = j /\ fp[q].out = j
                                /\ ~fp[q].stolen /\ fp[q].timer
        BY <2>3, <2>4, <3>2, InChain
      <4>2. q \in Chain(j) <=> /\ fp[q].kind = "ogm" /\ fp[q].in = j /\ fp[q].out = j
                               /\ ~fp[q].stolen /\ fp[q].timer
        BY <2>3, InChain
      <4> QED BY <4>1, <4>2
    <3> QED BY <3>1, <3>2
  <2>6. \A j \in Hardif : (Starting(j)' <=> Starting(j)) /\ (Stopping(j)' <=> Stopping(j))
    BY <2>2 DEF Starting, Stopping
  <2>7. \A j : Chain(j) \subseteq Forw /\ Chain(j)' \subseteq Forw
    BY DEF Chain
  <2> QED BY <2>2, <2>5, <2>6, <2>7, ChainsSame
<1>4. CASE batadv_send_outstanding_bcast_packet \/ batadv_forw_packet_queue
           \/ batadv_forw_packet_steal
  <2>1. /\ UNCHANGED <<hi, rtnl, mesh_state>>
        /\ worker.pc \in {"bcast", "requeue", "steal"} /\ worker'.pc \notin {"ogm", "schedule"}
    BY <1>4 DEF batadv_send_outstanding_bcast_packet, batadv_forw_packet_queue,
                batadv_forw_packet_steal, Idle, SqTypeOK
  <2>2. /\ worker.p \in Forw /\ ~fp[worker.p].timer
        /\ worker.pc # "steal" => fp[worker.p].kind = "bcast"
    BY <2>1 DEF SqTypeOK, WorkerHolds
  <2>3. /\ \A q \in Forw : q # worker.p => fp'[q] = fp[q]
        /\ \/ fp'[worker.p] = fp[worker.p] \/ fp'[worker.p] = Freed
           \/ fp[worker.p].kind = "bcast" /\ fp'[worker.p].kind = "bcast"
    <3>1. CASE batadv_send_outstanding_bcast_packet
      BY <2>2, <3>1 DEF batadv_send_outstanding_bcast_packet, SqTypeOK, Packet
    <3>2. CASE batadv_forw_packet_queue
      <4>1. worker.pc = "requeue" /\ fp' \in {fp, [fp EXCEPT ![worker.p].timer = TRUE]}
        BY <3>2 DEF batadv_forw_packet_queue
      <4> QED BY <2>2, <4>1 DEF SqTypeOK, Packet
    <3>3. CASE batadv_forw_packet_steal
      <4>1. fp' \in {fp, [fp EXCEPT ![worker.p] = Freed]}
        BY <3>3 DEF batadv_forw_packet_steal, batadv_forw_packet_free
      <4> QED BY <2>2, <4>1 DEF SqTypeOK
    <3> QED BY <1>4, <3>1, <3>2, <3>3
  <2>4. \A j \in Hardif, q \in Forw : q \in Chain(j)' <=> q \in Chain(j)
    <3> TAKE j \in Hardif, q \in Forw
    <3>1. CASE q = worker.p
      <4>1. q \notin Chain(j)
        BY <2>1, <2>2, <3>1, InChain
      <4>2. q \notin Chain(j)'
        BY <2>1, <2>2, <2>3, <3>1, InChain DEF Freed
      <4> QED BY <4>1, <4>2
    <3>2. CASE q # worker.p
      BY <2>1, <2>3, <3>2, InChain
    <3> QED BY <3>1, <3>2
  <2>5. \A j \in Hardif : (Starting(j)' <=> Starting(j)) /\ (Stopping(j)' <=> Stopping(j))
    BY <2>1 DEF Starting, Stopping
  <2>6. \A j : Chain(j) \subseteq Forw /\ Chain(j)' \subseteq Forw
    BY DEF Chain
  <2> QED BY <2>1, <2>4, <2>5, <2>6, ChainsSame
<1> QED BY <1>1, <1>2, <1>3, <1>4 DEF Work

LEMMA ChainsAdminister ==
  ASSUME SqHeld, SqTypeOK', InterfacesAgree, ChainsKept, Administer
  PROVE  ChainsKept'
<1> USE DEF SqHeld
<1>1. CASE batadv_iv_iface_enabled
  <2>1. PICK i \in Hardif : i = rtnl.i
    BY <1>1 DEF batadv_iv_iface_enabled, SqTypeOK
  <2>2. /\ rtnl.pc = "enabled" /\ batadv_iv_ogm_schedule_buff(i) /\ rtnl'.pc = "idle"
        /\ UNCHANGED <<worker, mesh_state>>
    BY <1>1, <2>1 DEF batadv_iv_iface_enabled, Unlocked
  <2>3. hi[i].ogm_buff /\ i \in Lower
    BY <2>1, <2>2 DEF InterfacesAgree, Lower
  <2>4. CASE mesh_state = "ACTIVE"
    <3>1. \A p : p \notin Chain(i)
      BY <2>1, <2>2, <2>4 DEF ChainsKept, Starting
    <3>2. ASSUME NEW p \in Forw, fp[p].kind # "none", fp'[p] = fp[p]
          PROVE  p \notin Chain(i)' /\ \A j \in Hardif \ {i} : p \in Chain(j)' <=> p \in Chain(j)
      <4>1. \A j \in Hardif : p \in Chain(j)' <=> p \in Chain(j)
        BY <2>2, <3>2, InChain
      <4> QED BY <3>1, <4>1
    <3>3. /\ \A j \in Hardif \ {i} : \A p : p \in Chain(j)' <=> p \in Chain(j)
          /\ \E p : \A q : q \in Chain(i)' <=> q = p
      <4>1. \A p \in Forw : fp[p].kind # "none" /\ fp'[p] = fp[p] =>
              /\ p \notin Chain(i)'
              /\ \A j \in Hardif \ {i} : p \in Chain(j)' <=> p \in Chain(j)
        BY <3>2
      <4> QED BY <2>2, <2>3, <4>1, ChainQueued
    <3>4. \A j \in Hardif : hi'[j].ogm_buff = hi[j].ogm_buff
      BY <2>2 DEF batadv_iv_ogm_schedule_buff, SqTypeOK, HardifState
    <3>5. \A j \in Hardif : ~Starting(j)' /\ ~Stopping(j)' /\ ~Stopping(j)
                            /\ (j # i => ~Starting(j))
      BY <2>1, <2>2 DEF Starting, Stopping
    <3> QED BY <2>2, <2>3, <3>3, <3>4, <3>5, ChainsReplaced
  <2>5. CASE mesh_state # "ACTIVE"
    BY <2>2, <2>5 DEF ChainsKept
  <2> QED BY <2>4, <2>5
<1>2. CASE batadv_iv_ogm_iface_disable \/ SetNotInUse \/ PurgeEnds
  <2>1. UNCHANGED <<fp, worker>>
    BY <1>2 DEF batadv_iv_ogm_iface_disable, SetNotInUse, PurgeEnds
  <2>2. \A j \in Hardif : \A p : p \in Chain(j)' <=> p \in Chain(j)
    BY <2>1, InChain
  <2>3. mesh_state' \in {mesh_state, "INACTIVE"}
    BY <1>2 DEF batadv_iv_ogm_iface_disable, SetNotInUse, PurgeEnds
  <2>4. /\ rtnl.pc \in {"disable", "unused", "free"} /\ rtnl'.pc \in {"unused", "bcast", "idle"}
        /\ rtnl.pc = "unused" => rtnl'.pc = "bcast" /\ rtnl'.i = rtnl.i
        /\ \A j \in Hardif :
             \/ hi'[j].ogm_buff = hi[j].ogm_buff
             \/ ~hi'[j].ogm_buff /\ j = rtnl.i /\ rtnl'.pc = "unused" /\ rtnl'.i = rtnl.i
    <3>1. CASE batadv_iv_ogm_iface_disable
      BY ZenonT(40), <3>1 DEF batadv_iv_ogm_iface_disable, SqTypeOK, HardifState
    <3>2. CASE SetNotInUse
      BY <3>2 DEF SetNotInUse, SqTypeOK, HardifState
    <3>3. CASE PurgeEnds
      <4>1. rtnl.pc = "free" /\ rtnl'.pc = "idle"
        BY <3>3 DEF PurgeEnds, Unlocked
      <4>2. hi' = hi \/ hi' = [hi EXCEPT ![rtnl.i].mesh_iface = FALSE]
        BY <3>3 DEF PurgeEnds
      <4>3. \A j \in Hardif : hi'[j].ogm_buff = hi[j].ogm_buff
        BY <4>2 DEF SqTypeOK, HardifState
      <4> QED BY <4>1, <4>3
    <3> QED BY <1>2, <3>1, <3>2, <3>3
  <2>5. \A j \in Hardif :
          /\ ~Starting(j) /\ ~Starting(j)'
          /\ hi'[j].ogm_buff => hi[j].ogm_buff
          /\ ~hi'[j].ogm_buff /\ ~Stopping(j)' => ~hi[j].ogm_buff /\ ~Stopping(j)
    BY <2>4 DEF Starting, Stopping
  <2> QED BY <2>2, <2>3, <2>5, ChainsSame
<1>3. CASE batadv_purge_outstanding_packets
  <2> DEFINE found == {p \in Forw : /\ fp[p].kind = rtnl.pc
                                    /\ rtnl.i = NONE \/ rtnl.i \in {fp[p].in, fp[p].out}}
  <2>1. /\ rtnl.pc \in {"bcast", "ogm"} /\ rtnl'.i = rtnl.i
        /\ rtnl'.pc = IF rtnl.pc = "bcast" THEN "ogm" ELSE "free"
        /\ fp' = [p \in Forw |-> IF p \in found THEN [fp[p] EXCEPT !.stolen = TRUE] ELSE fp[p]]
        /\ UNCHANGED <<hi, worker, mesh_state>>
    BY <1>3 DEF batadv_purge_outstanding_packets, batadv_forw_packet_list_steal, SqTypeOK
  <2>2. \A p \in Forw : /\ p \in found => fp'[p].stolen
                        /\ p \notin found => fp'[p] = fp[p]
    BY <2>1 DEF SqTypeOK, Packet
  <2>3. ASSUME NEW j \in Hardif, NEW p \in Forw
        PROVE  p \in Chain(j)' <=> p \in Chain(j) /\ p \notin found
    <3>1. CASE p \in found
      BY <2>2, <3>1, InChain
    <3>2. CASE p \notin found
      <4>1. fp'[p] = fp[p] /\ worker' = worker
        BY <2>1, <2>2, <3>2
      <4> HIDE DEF found
      <4> QED BY <3>2, <4>1, InChain
    <3> QED BY <3>1, <3>2
  <2>4. ASSUME mesh_state = "ACTIVE", NEW j \in Hardif, NEW p \in Chain(j), p \in found
        PROVE  rtnl.pc = "ogm" /\ rtnl.i = j
    <3>1. p \in Forw /\ fp[p].kind = "ogm" /\ fp[p].in = j /\ fp[p].out = j
      BY InChain
    <3>2. rtnl.i # NONE
      BY <2>1, <2>4 DEF InterfacesAgree
    <3> QED BY <2>4, <3>1, <3>2
  <2>5. ASSUME NEW j \in Hardif, rtnl.pc = "ogm", rtnl.i = j, NEW p
        PROVE  p \notin Chain(j)'
    <3>1. SUFFICES ASSUME p \in Chain(j)' PROVE FALSE
      OBVIOUS
    <3>2. p \in Forw /\ fp'[p].kind = "ogm" /\ fp'[p].in = j
      BY <3>1, InChain
    <3>3. p \notin found
      BY <2>3, <3>1, <3>2
    <3> QED BY <2>2, <2>5, <3>2, <3>3
  <2> HIDE DEF found
  <2>6. \A j : Chain(j) \subseteq Forw /\ Chain(j)' \subseteq Forw
    BY DEF Chain
  <2>7. \A j \in Hardif : /\ ~Starting(j) /\ ~Starting(j)'
                          /\ hi'[j].ogm_buff = hi[j].ogm_buff
    BY <2>1 DEF Starting
  <2>8. \A j \in Hardif : ~Stopping(j)' => ~Stopping(j) \/ (rtnl.pc = "ogm" /\ rtnl.i = j)
    BY <2>1 DEF Stopping
  <2>9. ASSUME mesh_state = "ACTIVE", NEW j \in Hardif, hi[j].ogm_buff
        PROVE  rtnl.i # j
    <3>1. rtnl.i \in Hardif => Removing
      BY <2>1, SendQueueAssumption DEF Removing
    <3> QED BY <2>1, <2>9, <3>1 DEF InterfacesAgree
  <2>10. ASSUME mesh_state' = "ACTIVE", NEW j \in Hardif
         PROVE  /\ \A p \in Chain(j)' : p \in Chain(j)
                /\ hi'[j].ogm_buff /\ ~Starting(j)' =>
                     /\ hi[j].ogm_buff /\ ~Starting(j)
                     /\ \A p \in Chain(j) : p \in Chain(j)'
                /\ Starting(j)' \/ (~hi'[j].ogm_buff /\ ~Stopping(j)') =>
                     \/ Starting(j) \/ (~hi[j].ogm_buff /\ ~Stopping(j))
                     \/ \A p : p \notin Chain(j)'
    <3>1. mesh_state = "ACTIVE"
      BY <2>1, <2>10
    <3>2. \A p \in Chain(j)' : p \in Chain(j)
      BY <2>3, <2>6
    <3>3. hi[j].ogm_buff => \A p \in Chain(j) : p \in Chain(j)'
      BY <2>3, <2>4, <2>6, <2>9, <3>1
    <3> QED BY <2>5, <2>7, <2>8, <3>2, <3>3
  <2> QED BY <2>1, <2>10, ChainsSame
<1>4. CASE batadv_forw_packet_list_free
  <2>1. PICK p \in rtnl.head : /\ fp' = [fp EXCEPT ![p] = Freed]
                               /\ rtnl' = [rtnl EXCEPT !.head = @ \ {p}]
    BY <1>4 DEF batadv_forw_packet_list_free, batadv_forw_packet_free
  <2>2. UNCHANGED <<hi, worker, mesh_state>>
    BY <1>4 DEF batadv_forw_packet_list_free
  <2>3. /\ p \in Forw /\ fp[p].stolen /\ fp'[p].kind = "none"
        /\ \A q \in Forw \ {p} : fp'[q] = fp[q]
    BY <2>1 DEF SqTypeOK, PurgeHolds, Freed
  <2>4. \A j \in Hardif, q \in Forw : q \in Chain(j)' <=> q \in Chain(j)
    <3> TAKE j \in Hardif, q \in Forw
    <3>1. CASE q = p
      BY <2>3, <3>1, InChain
    <3>2. CASE q # p
      BY <2>2, <2>3, <3>2, InChain
    <3> QED BY <3>1, <3>2
  <2>5. rtnl'.pc = rtnl.pc /\ rtnl'.i = rtnl.i
    BY <2>1 DEF SqTypeOK
  <2>6. \A j : Chain(j) \subseteq Forw /\ Chain(j)' \subseteq Forw
    BY DEF Chain
  <2>7. \A j \in Hardif : (Starting(j)' <=> Starting(j)) /\ (Stopping(j)' <=> Stopping(j))
    BY <2>5 DEF Starting, Stopping
  <2> QED BY <2>2, <2>4, <2>6, <2>7, ChainsSame
<1> QED BY <1>1, <1>2, <1>3, <1>4 DEF Administer

LEMMA ChainsOthers ==
  ASSUME SqHeld, SqTypeOK', InterfacesAgree, ChainsKept,
         Request \/ SendBcast \/ SendBcastBegins \/ SendBcastGoesOn \/ UNCHANGED sqVars
  PROVE  ChainsKept'
<1> USE DEF SqHeld
<1>1. CASE SendBcast \/ SendBcastGoesOn
  <2>1. PICK in, own, delayed : __batadv_forw_bcast_packet(in, own, delayed)
    BY <1>1 DEF SendBcast, SendBcastGoesOn
  <2>2. UNCHANGED <<hi, rtnl, worker, mesh_state>>
    BY <1>1 DEF SendBcast, SendBcastGoesOn
  <2>3. \A p \in Forw : fp'[p] = fp[p] \/ (fp[p].kind = "none" /\ fp'[p].kind = "bcast")
    <3>1. PICK outs : /\ Placements(fp, outs) # {}
                      /\ fp' = batadv_forw_packet_alloc(fp, Bcasts(in, own, delayed, outs))
      BY <2>1 DEF __batadv_forw_bcast_packet
    <3> DEFINE pkt == Bcasts(in, own, delayed, outs)
    <3>2. DOMAIN pkt = outs /\ \A x \in outs : pkt[x].kind = "bcast"
      BY DEF Bcasts, NewPacket
    <3> HIDE DEF pkt
    <3>3. \A p \in Forw : fp'[p] = fp[p] \/ (fp[p].kind = "none" /\ \E x \in outs : fp'[p] = pkt[x])
      BY <3>1, <3>2, AllocatedEach DEF pkt
    <3> QED BY <3>2, <3>3
  <2>4. \A j \in Hardif, p \in Forw : p \in Chain(j)' <=> p \in Chain(j)
    <3> TAKE j \in Hardif, p \in Forw
    <3>1. CASE fp'[p] = fp[p]
      BY <2>2, <3>1, InChain
    <3>2. CASE fp[p].kind = "none" /\ fp'[p].kind = "bcast"
      BY <3>2, InChain
    <3> QED BY <2>3, <3>1, <3>2
  <2>5. \A j : Chain(j) \subseteq Forw /\ Chain(j)' \subseteq Forw
    BY DEF Chain
  <2>6. \A j \in Hardif : (Starting(j)' <=> Starting(j)) /\ (Stopping(j)' <=> Stopping(j))
    BY <2>2 DEF Starting, Stopping
  <2> QED BY <2>2, <2>4, <2>5, <2>6, ChainsSame
<1>2. CASE SendBcastBegins \/ UNCHANGED sqVars \/ batadv_hard_if_event
           \/ batadv_hardif_disable_interface \/ batadv_mesh_free
  <2>1. UNCHANGED <<fp, worker>>
    BY <1>2 DEF SendBcastBegins, sqVars, batadv_hard_if_event, batadv_hardif_disable_interface,
                batadv_mesh_free
  <2>2. \A j \in Hardif : \A p : p \in Chain(j)' <=> p \in Chain(j)
    BY <2>1, InChain
  <2>3. mesh_state' \in {mesh_state, "DEACTIVATING"}
    BY <1>2 DEF SendBcastBegins, sqVars, batadv_hard_if_event, batadv_hardif_disable_interface,
                batadv_mesh_free
  <2>4. \A j \in Hardif : hi'[j].ogm_buff = hi[j].ogm_buff
    <3>1. CASE SendBcastBegins \/ UNCHANGED sqVars \/ batadv_mesh_free
      BY <3>1 DEF SendBcastBegins, sqVars, batadv_mesh_free
    <3>2. CASE batadv_hardif_disable_interface
      BY <3>2 DEF batadv_hardif_disable_interface, SqTypeOK, HardifState
    <3>3. CASE batadv_hard_if_event
      <4>1. PICK i \in Hardif :
              LET h == [hi EXCEPT ![i].up = ~@]
              IN \/ hi' = [h EXCEPT ![i].status =
                             IF @ \in {"ACTIVE", "TO_BE_ACTIVATED"} THEN "INACTIVE" ELSE @]
                 \/ hi' = Activated(i, h, primary_if).hi
        BY <3>3, Zenon DEF batadv_hard_if_event
      <4> DEFINE h == [hi EXCEPT ![i].up = ~@]
      <4>2. /\ h \in [Hardif -> HardifState]
            /\ \A j \in Hardif : h[j].ogm_buff = hi[j].ogm_buff
        BY DEF SqTypeOK, HardifState
      <4> HIDE DEF h
      <4>3. \/ hi' = [h EXCEPT ![i].status =
                        IF @ \in {"ACTIVE", "TO_BE_ACTIVATED"} THEN "INACTIVE" ELSE @]
            \/ hi' = h
            \/ hi' = [h EXCEPT ![i].status = "TO_BE_ACTIVATED"]
        BY <4>1 DEF h, Activated
      <4> QED BY <4>2, <4>3 DEF HardifState
    <3> QED BY <1>2, <3>1, <3>2, <3>3
  <2>5. CASE mesh_state' = "ACTIVE"
    <3>1. \A j \in Hardif : (Starting(j)' <=> Starting(j)) /\ (Stopping(j)' <=> Stopping(j))
      <4>1. \/ rtnl' = rtnl
            \/ rtnl.pc = "idle" /\ rtnl'.pc = "disable"
        <5>1. CASE batadv_hardif_disable_interface
          <6>1. rtnl = Unlocked /\ \E i : rtnl' = [rtnl EXCEPT !.pc = "disable", !.i = i]
            BY <5>1 DEF batadv_hardif_disable_interface
          <6> QED BY <6>1 DEF Unlocked
        <5>2. CASE SendBcastBegins \/ UNCHANGED sqVars \/ batadv_hard_if_event \/ batadv_mesh_free
          BY <2>5, <5>2 DEF SendBcastBegins, sqVars, batadv_hard_if_event, batadv_mesh_free
        <5> QED BY <1>2, <5>1, <5>2
      <4> QED BY <4>1 DEF Starting, Stopping
    <3> QED BY <2>2, <2>3, <2>4, <3>1, ChainsSame
  <2>6. CASE mesh_state' # "ACTIVE"
    BY <2>6 DEF ChainsKept
  <2> QED BY <2>5, <2>6
<1>3. CASE batadv_hardif_enable_interface
  <2>1. PICK i \in Hardif :
          LET h == [hi EXCEPT ![i].mesh_iface = TRUE, ![i].ogm_buff = TRUE, ![i].status = "INACTIVE"]
          IN /\ rtnl = Unlocked /\ hi[i].status = "NOT_IN_USE" /\ mesh_state = "ACTIVE"
             /\ hi' \in {h, Activated(i, h, primary_if).hi}
             /\ rtnl' = [rtnl EXCEPT !.pc = "enabled", !.i = i]
    BY <1>3 DEF batadv_hardif_enable_interface
  <2>2. UNCHANGED <<fp, worker, mesh_state>>
    BY <1>3 DEF batadv_hardif_enable_interface
  <2>3. /\ rtnl.pc = "idle" /\ rtnl'.pc = "enabled" /\ rtnl'.i = i
    BY <2>1 DEF Unlocked
  <2>4. ~hi[i].ogm_buff
    BY <2>1 DEF InterfacesAgree
  <2>5. \A j \in Hardif \ {i} : hi'[j] = hi[j]
    <3> DEFINE h == [hi EXCEPT ![i].mesh_iface = TRUE, ![i].ogm_buff = TRUE, ![i].status = "INACTIVE"]
    <3>1. h \in [Hardif -> HardifState] /\ \A j \in Hardif \ {i} : h[j] = hi[j]
      BY EnabledHardif DEF SqTypeOK
    <3>2. hi' \in {h, Activated(i, h, primary_if).hi}
      BY <2>1
    <3> HIDE DEF h
    <3>3. hi' \in {h, [h EXCEPT ![i].status = "TO_BE_ACTIVATED"]}
      BY <3>2 DEF Activated
    <3> QED BY <3>1, <3>3
  <2>6. \A j \in Hardif : \A p : p \in Chain(j)' <=> p \in Chain(j)
    BY <2>2, InChain
  <2>7. \A j \in Hardif : /\ ~Starting(j) /\ ~Stopping(j) /\ ~Stopping(j)'
                          /\ Starting(j)' <=> j = i
    BY <2>3 DEF Starting, Stopping
  <2> QED BY <2>2, <2>4, <2>5, <2>6, <2>7, ChainsSame
<1> QED BY <1>1, <1>2, <1>3 DEF Request

\* The original copies of the OGMs at first: one for each interface in use.
LEMMA ChainsInit ==
  ASSUME SqInit
  PROVE  ChainsKept
<1> DEFINE nothing == [p \in Forw |-> Freed]
           used == ToSet(bounds.used)
           pairs == {io \in used \X used : io[1] = io[2] \/ io[1] = bounds.used[1]}
           pkt == [io \in pairs |-> NewPacket("ogm", TRUE, io[1], io[2], 0)]
<1>1. /\ hi = [i \in Hardif |-> IF i \in used THEN InUse ELSE NotInUse]
      /\ Placements(nothing, pairs) # {} /\ fp = batadv_forw_packet_alloc(nothing, pkt)
      /\ rtnl = Unlocked
  BY DEF SqInit
<1>2. /\ \A i : i \in used => <<i, i>> \in pairs
      /\ \A x, y \in pairs : x[1] = y[1] /\ x[2] = y[2] => x = y
      /\ \A x \in pairs : x[1] \in used
  OBVIOUS
<1>3. \A p \in Forw : nothing[p] = Freed
  OBVIOUS
<1> HIDE DEF used, pairs, nothing
<1>4. DOMAIN pkt = pairs /\ \A x \in pairs : pkt[x] = NewPacket("ogm", TRUE, x[1], x[2], 0)
  OBVIOUS
<1> HIDE DEF pkt
<1>5. /\ \A p \in Forw : fp[p] = Freed \/ \E x \in pairs : fp[p] = pkt[x]
      /\ \A x \in pairs : \E p \in Forw :
           /\ fp[p] = pkt[x]
           /\ \A q \in Forw : \/ q = p \/ fp[q] = Freed
                              \/ \E y \in pairs \ {x} : fp[q] = pkt[y]
  BY <1>1, <1>3, <1>4, AllocatedEach
<1>6. \A x \in pairs : pkt[x].kind = "ogm" /\ pkt[x].in = x[1] /\ pkt[x].out = x[2]
                       /\ pkt[x].stolen = FALSE /\ pkt[x].timer = TRUE
  BY <1>4 DEF NewPacket
<1>7. \A i \in Hardif : hi[i].ogm_buff <=> i \in used
  <2>1. InUse.ogm_buff = TRUE /\ NotInUse.ogm_buff = FALSE
    BY DEF InUse, NotInUse
  <2> QED BY <1>1, <2>1
<1>8. ASSUME NEW i, i \in used
      PROVE  \E p : \A q : q \in Chain(i) <=> q = p
  <2>1. PICK p \in Forw : /\ fp[p] = pkt[<<i, i>>]
                          /\ \A q \in Forw : \/ q = p \/ fp[q] = Freed
                                             \/ \E y \in pairs \ {<<i, i>>} : fp[q] = pkt[y]
    BY <1>2, <1>5, <1>8
  <2>2. p \in Chain(i)
    BY <1>2, <1>6, <1>8, <2>1 DEF Chain
  <2>3. ASSUME NEW q \in Chain(i)
        PROVE  q = p
    <3>1. q \in Forw /\ fp[q].kind = "ogm" /\ fp[q].in = i /\ fp[q].out = i
      BY DEF Chain
    <3>2. fp[q] # Freed
      BY <3>1 DEF Freed
    <3>3. ASSUME NEW y \in pairs \ {<<i, i>>}
          PROVE  fp[q] # pkt[y]
      <4>1. pkt[y].in # i \/ pkt[y].out # i
        <5>1. y[1] # i \/ y[2] # i
          <6>1. <<i, i>> \in pairs /\ <<i, i>>[1] = i /\ <<i, i>>[2] = i
            BY <1>2, <1>8
          <6> QED BY <1>2, <6>1
        <5> QED BY <1>6, <5>1
      <4> QED BY <3>1, <4>1
    <3> QED BY <2>1, <3>1, <3>2, <3>3
  <2> QED BY <2>2, <2>3
<1>9. ASSUME NEW i, i \notin used
      PROVE  Chain(i) = {}
  <2> SUFFICES ASSUME NEW q \in Chain(i) PROVE FALSE
    OBVIOUS
  <2>1. q \in Forw /\ fp[q].kind = "ogm" /\ fp[q].in = i
    BY DEF Chain
  <2>2. PICK x \in pairs : fp[q] = pkt[x]
    BY <1>5, <2>1 DEF Freed
  <2> QED BY <1>2, <1>6, <1>9, <2>1, <2>2
<1>10. \A i : ~Starting(i) /\ ~Stopping(i)
  BY <1>1 DEF Starting, Stopping, Unlocked
<1> QED BY <1>7, <1>8, <1>9, <1>10 DEF ChainsKept

\* However often interfaces are removed and added again and whatever is being sent
\* meanwhile: each interface in use has exactly one series of own OGMs, the others have none.
THEOREM AlwaysOneChain == SqSpec => []OneChain
<1> DEFINE Inv == InterfacesAgree /\ StolenForIt /\ ChainsKept
<1>1. SqInit => Inv
  <2> SUFFICES ASSUME SqInit PROVE Inv
    OBVIOUS
  <2>1. rtnl = [pc |-> "idle", i |-> NONE, head |-> {}]
    BY DEF SqInit, Unlocked
  <2>2. StolenForIt
    BY <2>1 DEF StolenForIt
  <2> QED BY <2>2, ChainsInit, InterfacesInit
<1>2. SqHeld /\ SqHeld' /\ Inv /\ [SqNext]_sqVars => Inv'
  BY InterfacesNext, StolenNext, ChainsWork, ChainsAdminister, ChainsOthers DEF SqNext, SqHeld
<1>3. Inv => OneChain
  <2> SUFFICES ASSUME Inv, rtnl = Unlocked, mesh_state = "ACTIVE", NEW i \in Hardif
               PROVE  Cardinality(Chain(i)) = IF hi[i].ogm_buff THEN 1 ELSE 0
    BY DEF OneChain
  <2>1. ~Starting(i) /\ ~Stopping(i)
    BY DEF Starting, Stopping, Unlocked
  <2>2. CASE hi[i].ogm_buff
    <3>1. PICK p : p \in Chain(i)
      BY <2>1, <2>2 DEF ChainsKept
    <3>2. Chain(i) = {p}
      BY <3>1 DEF ChainsKept
    <3> QED BY <2>2, <3>2, FS_Singleton
  <2>3. CASE ~hi[i].ogm_buff
    <3>1. Chain(i) = {}
      BY <2>1, <2>3 DEF ChainsKept
    <3> QED BY <2>3, <3>1, FS_EmptySet
  <2> QED BY <2>2, <2>3
<1> HIDE DEF Inv
<1> QED BY <1>1, <1>2, <1>3, AlwaysHeld, PTL DEF SqSpec

=============================================================================
