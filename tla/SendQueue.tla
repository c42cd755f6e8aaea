------------------------------ MODULE SendQueue ------------------------------
(***************************************************************************)
(* The queues of broadcast packets and B.A.T.M.A.N. IV OGMs that wait to   *)
(* be sent, and the interfaces they wait for.  Three parties run           *)
(* concurrently: whoever queues packets, the single thread of the          *)
(* workqueue that sends them, and the thread that holds the RTNL lock and  *)
(* adds and removes interfaces.  A packet is freed by the party that takes *)
(* it off its list first, the worker or the purge of outstanding packets.  *)
(* The own OGM of an interface is queued anew by the worker that sends it. *)
(*                                                                         *)
(* A step is what happens under one lock, or between two.  What packets    *)
(* carry is left out; OGMs here are own ones (module BatIvOgm has them     *)
(* all), and allocations succeed.                                          *)
(***************************************************************************)
EXTENDS Integers, Sequences, FiniteSets, FiniteSetsExt, SequencesExt, TLC

CONSTANTS
  Hardif,            \* hard interfaces
  Forw,              \* forwarding packets
  NONE,              \* no packet, no interface
  NumBcasts,         \* num_bcasts of each interface: 3 on wireless ones
  BCAST_QUEUE_LEN,
  SqScenarios        \* bounds: broadcasts, changes of interfaces, whether a sender is
                     \* interrupted; and how many neighbours each interface has, and which
                     \* interfaces are in use at first, the primary one before

ASSUME SendQueueAssumption ==
  /\ NumBcasts \in [Hardif -> Nat \ {0}] /\ BCAST_QUEUE_LEN \in Nat \ {0}
  /\ NONE \notin Hardif \cup Forw
  /\ IsFiniteSet(Forw)
  /\ SqScenarios \subseteq [used : Seq(Hardif), neigh : [Hardif -> Nat], bcasts : Nat,
                            changes : Nat, events : Nat, interrupted : BOOLEAN]

VARIABLES
  hi,                \* if_status, mesh_iface, IFF_UP and ogm_buff of interfaces
  primary_if,
  fp,                \* forwarding packets
  bcast_queue_left,
  worker,            \* the packet whose work runs, and where it is
  rtnl,              \* what the RTNL thread does, to which interface, packets it has stolen
  tx,                \* the primary interface a sender of a broadcast has read
  mesh_state,
  bounds             \* what is left of the scenario's bounds

sqVars == <<hi, primary_if, fp, bcast_queue_left, worker, rtnl, tx, mesh_state, bounds>>

NotInUse == [status |-> "NOT_IN_USE", mesh_iface |-> FALSE, up |-> TRUE, ogm_buff |-> FALSE]
Freed == [kind |-> "none", stolen |-> FALSE, own |-> FALSE, in |-> NONE, out |-> NONE, num_bcasts |-> 0,
          timer |-> FALSE]
Idle == [pc |-> "idle", p |-> NONE]
Unlocked == [pc |-> "idle", i |-> NONE, head |-> {}]

Cost(what) == bounds[what] > 0 /\ bounds' = [bounds EXCEPT ![what] = @ - 1]
Lower == {i \in Hardif : hi[i].mesh_iface}
Unused(f) == {p \in Forw : f[p].kind = "none"}

-----------------------------------------------------------------------------
(* Packets. *)

NewPacket(kind, own, in, out, num_bcasts) ==
  [kind |-> kind, stolen |-> FALSE, own |-> own, in |-> in, out |-> out,
   num_bcasts |-> num_bcasts, timer |-> TRUE]

\* Which unused packet may become which of ids.
Placements(f, ids) == UNION {Bijection(P, ids) : P \in kSubset(Cardinality(ids), Unused(f))}

\* New packets on a list, with their timers set: pkt says what they are.
batadv_forw_packet_alloc(f, pkt) ==
  LET of == CHOOSE g \in Placements(f, DOMAIN pkt) : TRUE
  IN [p \in Forw |-> IF p \in DOMAIN of THEN pkt[of[p]] ELSE f[p]]

\* Own OGMs of interface i, one for each interface it leaves on.
Ogms(i, outs) == [out \in outs |-> NewPacket("ogm", TRUE, i, out, 0)]

\* Interfaces that are in use at first have been activated, and their OGMs are queued.
InUse == [NotInUse EXCEPT !.status = "ACTIVE", !.mesh_iface = TRUE, !.ogm_buff = TRUE]
SqInit ==
  LET used == ToSet(bounds.used)
      pairs == {io \in used \X used : io[1] = io[2] \/ io[1] = bounds.used[1]}
      nothing == [p \in Forw |-> Freed]
  IN /\ bounds \in SqScenarios
     /\ hi = [i \in Hardif |-> IF i \in used THEN InUse ELSE NotInUse]
     /\ primary_if = IF bounds.used = <<>> THEN NONE ELSE bounds.used[1]
     /\ Placements(nothing, pairs) # {}
     /\ fp = batadv_forw_packet_alloc(nothing,
               [io \in pairs |-> NewPacket("ogm", TRUE, io[1], io[2], 0)])
     /\ bcast_queue_left = BCAST_QUEUE_LEN
     /\ worker = Idle /\ rtnl = Unlocked /\ tx = NONE
     /\ mesh_state = "ACTIVE"

\* No broadcast to no neighbour, or to the only one when the packet comes from it.
batadv_hardif_no_broadcast(i, own) == bounds.neigh[i] = 0 \/ (bounds.neigh[i] = 1 /\ ~own)

\* A broadcast is sent at once and queued for the other times, or queued for all of them.
Bcasts(in, own, delayed, outs) ==
  [i \in outs |-> NewPacket("bcast", own, in, i, IF delayed THEN NumBcasts[i] ELSE NumBcasts[i] - 1)]

\* Each interface on which the packet is to be sent later takes a place in the queue; when it
\* is full the remaining interfaces are left out.
batadv_forw_bcast_packet_if(own, delayed) ==
  LET later == {i \in Lower : /\ ~batadv_hardif_no_broadcast(i, own)
                              /\ delayed \/ NumBcasts[i] > 1}
  IN {outs \in SUBSET later : outs = later \/ Cardinality(outs) = bcast_queue_left}

__batadv_forw_bcast_packet(in, own, delayed) ==
  \E outs \in batadv_forw_bcast_packet_if(own, delayed) :
    /\ Cardinality(outs) <= bcast_queue_left
    /\ Placements(fp, outs) # {}
    /\ fp' = batadv_forw_packet_alloc(fp, Bcasts(in, own, delayed, outs))
    /\ bcast_queue_left' = bcast_queue_left - Cardinality(outs)

\* A packet of a user or of the mesh is broadcast.
SendBcast ==
  \E own, delayed \in BOOLEAN :
    /\ primary_if # NONE /\ tx = NONE
    /\ Cost("bcasts")
    /\ __batadv_forw_bcast_packet(primary_if, own, delayed)
    /\ UNCHANGED <<hi, primary_if, worker, rtnl, tx, mesh_state>>

\* The same, interrupted after the primary interface has been read.
SendBcastBegins ==
  /\ bounds.interrupted /\ primary_if # NONE /\ tx = NONE
  /\ tx' = primary_if
  /\ Cost("bcasts")
  /\ UNCHANGED <<hi, primary_if, fp, bcast_queue_left, worker, rtnl, mesh_state>>
SendBcastGoesOn ==
  /\ tx # NONE /\ tx' = NONE
  /\ __batadv_forw_bcast_packet(tx, TRUE, TRUE)
  /\ UNCHANGED <<hi, primary_if, worker, rtnl, mesh_state, bounds>>

\* Mutant: every packet gives a place back.
batadv_forw_packet_free_Any(p) ==
  /\ fp' = [fp EXCEPT ![p] = Freed]
  /\ bcast_queue_left' = bcast_queue_left + 1

\* Broadcast packets give their place in the queue back; own OGMs are not limited.
batadv_forw_packet_free(p) ==
  /\ fp' = [fp EXCEPT ![p] = Freed]
  /\ bcast_queue_left' = IF fp[p].kind = "bcast" THEN bcast_queue_left + 1 ELSE bcast_queue_left

-----------------------------------------------------------------------------
(* The worker. *)

\* The copies of an own OGM have the send time of the original before.
StartWork ==
  \E p \in Forw :
    /\ worker = Idle /\ fp[p].timer
    /\ fp[p].kind = "ogm" /\ fp[p].in = fp[p].out =>
         \A q \in Forw \ {p} : ~(fp[q].timer /\ fp[q].kind = "ogm" /\ fp[q].in = fp[p].in)
    /\ fp' = [fp EXCEPT ![p].timer = FALSE]
    /\ worker' = [pc |-> fp[p].kind, p |-> p]
    /\ UNCHANGED <<hi, primary_if, bcast_queue_left, rtnl, tx, mesh_state, bounds>>

\* The DHT may have answered an ARP request meanwhile: then the rest is not sent.
batadv_send_outstanding_bcast_packet ==
  \E answered \in BOOLEAN :
    LET p == worker.p
        dropped == mesh_state = "DEACTIVATING" \/ answered
    IN /\ worker.pc = "bcast"
       /\ fp' = [fp EXCEPT ![p].num_bcasts = IF dropped THEN @ ELSE @ - 1]
       /\ worker' = [worker EXCEPT !.pc = IF dropped \/ fp[p].num_bcasts = 1 THEN "steal"
                                          ELSE "requeue"]
       /\ UNCHANGED <<hi, primary_if, bcast_queue_left, rtnl, tx, mesh_state, bounds>>

\* A packet goes back to its queue unless a purge has stolen it.
batadv_forw_packet_queue ==
  LET p == worker.p
  IN /\ worker.pc = "requeue"
     /\ fp' = IF fp[p].stolen THEN fp ELSE [fp EXCEPT ![p].timer = TRUE]
     /\ worker' = Idle
     /\ UNCHANGED <<hi, primary_if, bcast_queue_left, rtnl, tx, mesh_state, bounds>>

\* Mutant: every copy of an own OGM schedules the next one.
batadv_iv_send_outstanding_bat_ogm_packet_Copies ==
  LET p == worker.p
  IN /\ worker.pc = "ogm"
     /\ worker' = [worker EXCEPT !.pc =
          IF mesh_state # "DEACTIVATING" /\ hi[fp[p].in].status \notin {"NOT_IN_USE", "TO_BE_REMOVED"}
          THEN "schedule" ELSE "steal"]
     /\ UNCHANGED <<hi, primary_if, fp, bcast_queue_left, rtnl, tx, mesh_state, bounds>>

\* After the emission only the original copy of an own OGM schedules the next one.
batadv_iv_send_outstanding_bat_ogm_packet ==
  LET p == worker.p
  IN /\ worker.pc = "ogm"
     /\ worker' = [worker EXCEPT !.pc =
          IF mesh_state # "DEACTIVATING" /\ fp[p].in = fp[p].out
             /\ hi[fp[p].in].status \notin {"NOT_IN_USE", "TO_BE_REMOVED"}
          THEN "schedule" ELSE "steal"]
     /\ UNCHANGED <<hi, primary_if, fp, bcast_queue_left, rtnl, tx, mesh_state, bounds>>

\* The next OGM of interface i is queued: for all interfaces if i is the primary one.  This
\* is also where an interface that is up becomes active.
batadv_iv_ogm_schedule_buff(i) ==
  LET outs == IF i = primary_if THEN Lower ELSE {i}
  IN IF ~hi[i].ogm_buff THEN UNCHANGED <<hi, fp>>
     ELSE /\ Placements(fp, outs) # {}
          /\ hi' = [hi EXCEPT ![i].status = IF @ = "TO_BE_ACTIVATED" THEN "ACTIVE" ELSE @]
          /\ fp' = batadv_forw_packet_alloc(fp, Ogms(i, outs))

ScheduleNext ==
  /\ worker.pc = "schedule"
  /\ batadv_iv_ogm_schedule_buff(fp[worker.p].in)
  /\ worker' = [worker EXCEPT !.pc = "steal"]
  /\ UNCHANGED <<primary_if, bcast_queue_left, rtnl, tx, mesh_state, bounds>>

\* Mutant: the worker waits until it gets the packet.
batadv_forw_packet_steal_Waits ==
  LET p == worker.p
  IN /\ worker.pc = "steal" /\ ~fp[p].stolen
     /\ batadv_forw_packet_free(p)
     /\ worker' = Idle
     /\ UNCHANGED <<hi, primary_if, rtnl, tx, mesh_state, bounds>>

\* The worker frees its packet unless the purge has stolen it.
batadv_forw_packet_steal ==
  LET p == worker.p
  IN /\ worker.pc = "steal"
     /\ IF fp[p].stolen THEN UNCHANGED <<fp, bcast_queue_left>> ELSE batadv_forw_packet_free(p)
     /\ worker' = Idle
     /\ UNCHANGED <<hi, primary_if, rtnl, tx, mesh_state, bounds>>

-----------------------------------------------------------------------------
(* Interfaces. *)

\* The interface is up: it waits for its next OGM to become active.
Activated(i, h, primary) ==
  IF h[i].status # "INACTIVE" THEN [hi |-> h, primary |-> primary]
  ELSE [hi |-> [h EXCEPT ![i].status = "TO_BE_ACTIVATED"],
        primary |-> IF primary = NONE THEN i ELSE primary]

batadv_hardif_enable_interface ==
  \E i \in Hardif :
    LET h == [hi EXCEPT ![i].mesh_iface = TRUE, ![i].ogm_buff = TRUE, ![i].status = "INACTIVE"]
        r == IF hi[i].up THEN Activated(i, h, primary_if) ELSE [hi |-> h, primary |-> primary_if]
    IN /\ rtnl = Unlocked /\ hi[i].status = "NOT_IN_USE" /\ mesh_state = "ACTIVE"
       /\ Cost("changes")
       /\ hi' = r.hi /\ primary_if' = r.primary
       /\ rtnl' = [rtnl EXCEPT !.pc = "enabled", !.i = i]
       /\ UNCHANGED <<fp, bcast_queue_left, worker, tx, mesh_state>>

batadv_iv_iface_enabled ==
  /\ rtnl.pc = "enabled"
  /\ batadv_iv_ogm_schedule_buff(rtnl.i)
  /\ rtnl' = Unlocked
  /\ UNCHANGED <<primary_if, bcast_queue_left, worker, tx, mesh_state, bounds>>

\* The device goes up or down.
batadv_hard_if_event ==
  \E i \in Hardif :
    LET h == [hi EXCEPT ![i].up = ~@]
        r == Activated(i, h, primary_if)
    IN /\ rtnl = Unlocked
       /\ Cost("events")
       /\ IF hi[i].up
          THEN /\ hi' = [h EXCEPT ![i].status =
                           IF @ \in {"ACTIVE", "TO_BE_ACTIVATED"} THEN "INACTIVE" ELSE @]
               /\ UNCHANGED primary_if
          ELSE hi' = r.hi /\ primary_if' = r.primary
       /\ UNCHANGED <<fp, bcast_queue_left, worker, rtnl, tx, mesh_state>>

\* Removing an interface: another active one becomes primary, the OGM buffer is freed, the
\* status changes, then what waits for the interface is purged.
batadv_hardif_disable_interface ==
  \E i \in Hardif :
    LET others == {j \in Lower \ {i} : hi[j].status = "ACTIVE"}
    IN /\ rtnl = Unlocked /\ hi[i].status # "NOT_IN_USE"
       /\ Cost("changes")
       /\ hi' = [hi EXCEPT ![i].status = "INACTIVE"]
       /\ IF primary_if # i THEN UNCHANGED primary_if
          ELSE primary_if' \in IF others = {} THEN {NONE} ELSE others
       /\ rtnl' = [rtnl EXCEPT !.pc = "disable", !.i = i]
       /\ UNCHANGED <<fp, bcast_queue_left, worker, tx, mesh_state>>

batadv_iv_ogm_iface_disable ==
  /\ rtnl.pc = "disable"
  /\ hi' = [hi EXCEPT ![rtnl.i].ogm_buff = FALSE]
  /\ rtnl' = [rtnl EXCEPT !.pc = "unused"]
  /\ UNCHANGED <<primary_if, fp, bcast_queue_left, worker, tx, mesh_state, bounds>>

SetNotInUse ==
  /\ rtnl.pc = "unused"
  /\ hi' = [hi EXCEPT ![rtnl.i].status = "NOT_IN_USE"]
  /\ rtnl' = [rtnl EXCEPT !.pc = "bcast"]
  /\ UNCHANGED <<primary_if, fp, bcast_queue_left, worker, tx, mesh_state, bounds>>

\* Mutant: only the outgoing interface is looked at.
batadv_forw_packet_list_steal_Out(kind) ==
  LET found == {p \in Forw : fp[p].kind = kind /\ rtnl.i \in {NONE, fp[p].out}}
  IN /\ fp' = [p \in Forw |-> IF p \in found THEN [fp[p] EXCEPT !.stolen = TRUE] ELSE fp[p]]
     /\ rtnl' = [rtnl EXCEPT !.head = @ \cup found, !.pc = IF kind = "bcast" THEN "ogm" ELSE "free"]

\* Packets on one list that wait for the interface (for any, when it is NONE) go to the
\* list of the purge.
batadv_forw_packet_list_steal(kind) ==
  LET found == {p \in Forw : /\ fp[p].kind = kind
                             /\ rtnl.i = NONE \/ rtnl.i \in {fp[p].in, fp[p].out}}
  IN /\ fp' = [p \in Forw |-> IF p \in found THEN [fp[p] EXCEPT !.stolen = TRUE] ELSE fp[p]]
     /\ rtnl' = [rtnl EXCEPT !.head = @ \cup found, !.pc = IF kind = "bcast" THEN "ogm" ELSE "free"]

batadv_purge_outstanding_packets ==
  /\ rtnl.pc \in {"bcast", "ogm"}
  /\ batadv_forw_packet_list_steal(rtnl.pc)
  /\ UNCHANGED <<hi, primary_if, bcast_queue_left, worker, tx, mesh_state, bounds>>

\* Mutant: the work is cancelled without waiting for it.
batadv_forw_packet_list_free_Unsync ==
  /\ rtnl.pc = "free"
  /\ \E p \in rtnl.head : /\ batadv_forw_packet_free(p)
                          /\ rtnl' = [rtnl EXCEPT !.head = @ \ {p}]
  /\ UNCHANGED <<hi, primary_if, worker, tx, mesh_state, bounds>>

\* Cancelling the work of a packet waits for a worker that runs it.
batadv_forw_packet_list_free ==
  /\ rtnl.pc = "free"
  /\ \E p \in rtnl.head :
       /\ worker.p # p
       /\ batadv_forw_packet_free(p)
       /\ rtnl' = [rtnl EXCEPT !.head = @ \ {p}]
  /\ UNCHANGED <<hi, primary_if, worker, tx, mesh_state, bounds>>

\* The purge is over: the interface leaves the mesh, or the mesh interface is gone.
PurgeEnds ==
  /\ rtnl.pc = "free" /\ rtnl.head = {}
  /\ IF rtnl.i = NONE THEN UNCHANGED hi /\ mesh_state' = "INACTIVE"
     ELSE hi' = [hi EXCEPT ![rtnl.i].mesh_iface = FALSE] /\ UNCHANGED mesh_state
  /\ rtnl' = Unlocked
  /\ UNCHANGED <<primary_if, fp, bcast_queue_left, worker, tx, bounds>>

\* The mesh interface is deleted after its interfaces have been removed.
batadv_mesh_free ==
  /\ rtnl = Unlocked /\ Lower = {} /\ mesh_state = "ACTIVE" /\ bounds.changes = 0
  /\ mesh_state' = "DEACTIVATING"
  /\ rtnl' = [rtnl EXCEPT !.pc = "bcast"]
  /\ UNCHANGED <<hi, primary_if, fp, bcast_queue_left, worker, tx, bounds>>

Work == \/ StartWork \/ batadv_send_outstanding_bcast_packet \/ batadv_forw_packet_queue
        \/ batadv_iv_send_outstanding_bat_ogm_packet \/ ScheduleNext \/ batadv_forw_packet_steal
Administer == \/ batadv_iv_iface_enabled \/ batadv_iv_ogm_iface_disable \/ SetNotInUse
              \/ batadv_purge_outstanding_packets \/ batadv_forw_packet_list_free \/ PurgeEnds
Request == \/ batadv_hardif_enable_interface \/ batadv_hardif_disable_interface
           \/ batadv_hard_if_event \/ batadv_mesh_free

SqNext == Work \/ Administer \/ Request \/ SendBcast \/ SendBcastBegins \/ SendBcastGoesOn
SqSpec == SqInit /\ [][SqNext]_sqVars
\* The workqueue and the RTNL thread run.
SqFairSpec == SqSpec /\ WF_sqVars(Work) /\ WF_sqVars(Administer)

-----------------------------------------------------------------------------
(* Properties. *)

\* Places in the broadcast queue are neither lost nor given back twice, whether the worker
\* or the purge frees a packet (batadv_forw_packet_steal(), batadv_forw_packet_list_steal()).
QueueAccounted ==
  bcast_queue_left + Cardinality({p \in Forw : fp[p].kind = "bcast"}) = BCAST_QUEUE_LEN

\* No packet is used after it was freed: the worker's packet and those the purge has
\* stolen are still there, and no timer is left for a freed one.
NoUseAfterFree ==
  /\ worker.p # NONE => fp[worker.p].kind # "none"
  /\ \A p \in rtnl.head : fp[p].stolen
  /\ \A p \in Forw : fp[p].timer => fp[p].kind # "none"

\* Packets that the worker still has to deal with as the original copy of i's OGM.
Chain(i) ==
  {p \in Forw : /\ fp[p].kind = "ogm" /\ fp[p].in = i /\ fp[p].out = i /\ ~fp[p].stolen
                /\ fp[p].timer \/ worker = [pc |-> "ogm", p |-> p]
                               \/ worker = [pc |-> "schedule", p |-> p]}

\* An interface in use always has exactly one own OGM under way and one not in use none: an
\* interface that is removed and added again while its OGM is being sent neither falls
\* silent nor sends two series of OGMs.
OneChain ==
  rtnl = Unlocked /\ mesh_state = "ACTIVE" =>
    \A i \in Hardif : Cardinality(Chain(i)) = IF hi[i].ogm_buff THEN 1 ELSE 0

\* The thread that removes an interface gets its packets even if the worker uses them: it
\* never waits for ever with the RTNL lock held.
RemovalEnds == rtnl # Unlocked ~> rtnl = Unlocked

\* When an interface has been removed, no packet refers to it ("delete all references to
\* this hard_iface"): the worker would find no mesh interface behind it.
NoReferenceLeft ==
  \A p \in Forw : fp[p].kind # "none" /\ fp[p].in # NONE => hi[fp[p].in].mesh_iface

\* While there is an active interface, one is the primary ("the first active interface
\* becomes our primary interface or the next active interface after the old primary
\* interface was removed").
PrimaryChosen ==
  rtnl = Unlocked /\ (\E i \in Hardif : hi[i].status = "ACTIVE") => primary_if # NONE
=============================================================================
