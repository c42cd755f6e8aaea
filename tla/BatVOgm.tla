------------------------------ MODULE BatVOgm -------------------------------
(***************************************************************************)
(* The B.A.T.M.A.N. V originator message (OGMv2) engine of a whole mesh:   *)
(* net/batman-adv/bat_v_ogm.c with the originator table it works on        *)
(* (originator.c, routing.c, hard-interface.c).                            *)
(*                                                                         *)
(* Every node keeps, for every originator, the list of neighbours through  *)
(* which an OGM of that originator was heard (neigh_list), and for every   *)
(* outgoing interface (and for BATADV_IF_DEFAULT, here DEFAULT) the router *)
(* it chose and the sequence numbers it saw (orig_ifinfo) and the cost     *)
(* through each neighbour (neigh_ifinfo).  A node is one handler at a time *)
(* (the softirq that runs batadv_v_ogm_packet_recv, the work items); the   *)
(* nodes interleave, and OGMs in the air are lost and reordered.           *)
(***************************************************************************)
EXTENDS BatVMetric, SequencesExt

CONSTANTS
  Node, Iface,          \* mesh nodes, and the hard-interfaces each of them has
  Primary,              \* the primary interface: its address names the node
  DEFAULT,              \* BATADV_IF_DEFAULT
  None,                 \* a NULL pointer
  Links,                \* pairs of interface addresses in radio range
  KnownAtStart,         \* the links ELP has found before (some may be dead now)
  Originators,          \* nodes whose OGMs are followed
  FirstSeqnos,          \* where a node's own numbers may start (random in the code)
  MaxSeqno,             \* bound: last sequence number a node sends
  SEQ_HALF,             \* half the range of a sequence number (2^31)
  OGM_MAX_AGE, SEQNO_RANGE, OGM_MAX_ORIGDIFF, TTL,
  LinkCosts,            \* the airtime costs ELP may measure on each link
  HopPenalty, FullDuplex,
  Weights,              \* the weights an administrator may set on each node
  MaxTicks,             \* bound: purge periods that may elapse
  Flapping,             \* interfaces that may go down and up
  Restarts              \* bound: how many reboots there are in all

Addr  == Node \X Iface
OutIf == Iface \cup {DEFAULT}
Neigh == Iface \X Addr               \* a neighbour: (if_incoming, its address)
Orig(n) == <<n, Primary>>            \* the originator address of node n
Seqno == 0 .. 2 * SEQ_HALF - 1

Weight == [priority : Nat, duty_cycle : Nat, power_class : Nat]
DefaultWeight == [priority |-> PRIORITY_NEUTRAL, duty_cycle |-> FULL_DUTY,
                  power_class |-> 1]

OrigIfinfo == [router : Neigh \cup {None}, last_real_seqno : Seqno,
               last_seqno_forwarded : Seqno, protected : BOOLEAN]
NeighIfinfo == [airtime_cost : u32, last_seqno : Seqno]

ASSUME OgmAssumption ==
  /\ Primary \in Iface /\ DEFAULT \notin Iface
  /\ None \notin Neigh \cup OrigIfinfo \cup NeighIfinfo \cup u32
  /\ Links \subseteq Addr \X Addr /\ KnownAtStart \subseteq Addr \X Addr
  /\ \A l \in Links \cup KnownAtStart : l[1][1] # l[2][1]
  /\ Originators \subseteq Node
  /\ SEQ_HALF \in Nat \ {0} /\ FirstSeqnos \subseteq Seqno /\ MaxSeqno \in Nat
  /\ OGM_MAX_AGE \in Nat \ {0} /\ SEQNO_RANGE \in Nat \ {0}
  /\ OGM_MAX_ORIGDIFF \in Nat \ {0} /\ TTL \in Nat
  /\ LinkCosts \in [Addr \X Addr -> SUBSET u32] /\ HopPenalty \in Nat /\ FullDuplex \in BOOLEAN
  /\ Weights \in [Node -> SUBSET Weight]
  /\ MaxTicks \in Nat /\ Flapping \subseteq Addr /\ Restarts \in Nat

VARIABLES
  if_active,     \* [Addr -> BOOLEAN]: if_status = BATADV_IF_ACTIVE, or _INACTIVE
  link,          \* [Node -> [Neigh -> cost or None]]: the hardif_neigh entries
  ogm_seqno,     \* [Originators -> Seqno]: sequence number of the next own OGM
  node_weight,   \* [Node -> weight]: the node's own configured weight
  orig_hash,     \* [Node -> SUBSET Addr]: known originators
  orig_weight,   \* [Node -> [Addr -> weight]]: weight from the originator's TVLV
  orig_age,      \* [Node -> [Addr -> 0..2]]: purge periods since last_seen
  neigh_list,    \* [Node -> [Addr -> SUBSET Neigh]]; the list's order is left open
  neigh_seen,    \* [Node -> [Addr -> [Neigh -> BOOLEAN]]]: seen this purge period
  orig_ifinfo,   \* [Node -> [Addr -> [OutIf -> record or None]]]
  neigh_ifinfo,  \* [Node -> [Addr -> [Neigh -> [OutIf -> record or None]]]]
  air,           \* OGM copies on their way: [ogm, src, to]; one never received is lost
  ticks, reboots \* bounded counters

tables == <<orig_hash, orig_weight, orig_age, neigh_list, neigh_seen,
            orig_ifinfo, neigh_ifinfo>>
vars == <<if_active, link, ogm_seqno, node_weight, tables, air, ticks, reboots>>

OgmPacket == [orig : Addr, seqno : Seqno, airtime : u32, ttl : 0 .. TTL,
              weight : Weight]
Copy == [ogm : OgmPacket, src : Addr, to : Addr]

\* An object fresh from kzalloc() in batadv_orig_ifinfo_new().
NewOrigIfinfo == [router |-> None, last_real_seqno |-> 0,
                  last_seqno_forwarded |-> 0, protected |-> FALSE]

NoNeighIfinfo == [nb \in Neigh |-> [x \in OutIf |-> None]]
NoOrigIfinfo == [x \in OutIf |-> None]

\* a - b of two u32 sequence numbers, read as s32.
SeqDiff(a, b) ==
  LET d == a - b
  IN  IF d >= SEQ_HALF THEN d - 2 * SEQ_HALF
      ELSE IF d < -SEQ_HALF THEN d + 2 * SEQ_HALF ELSE d

-----------------------------------------------------------------------------
(* A freshly booted mesh: interfaces are up, tables are empty, except that *)
(* ELP has found the links of KnownAtStart and measured them.              *)

LinkOf(n, nb) == <<nb[2], <<n, nb[1]>>>>
KnownNeigh(n) == {nb \in Neigh : LinkOf(n, nb) \in KnownAtStart}

Init ==
  /\ if_active = [a \in Addr |-> TRUE]
  /\ \E cost \in [KnownAtStart -> UNION {LinkCosts[l] : l \in KnownAtStart}] :
       /\ \A l \in KnownAtStart : cost[l] \in LinkCosts[l]
       /\ link = [n \in Node |-> [nb \in Neigh |->
                   IF nb \in KnownNeigh(n) THEN cost[LinkOf(n, nb)] ELSE None]]
  /\ ogm_seqno \in [Originators -> FirstSeqnos]
  /\ node_weight = [n \in Node |-> DefaultWeight]
  /\ orig_hash = [n \in Node |-> {Orig(nb[2][1]) : nb \in KnownNeigh(n)}]
  /\ orig_weight = [n \in Node |-> [o \in Addr |-> DefaultWeight]]
  /\ orig_age = [n \in Node |-> [o \in Addr |-> 0]]
  /\ neigh_list = [n \in Node |-> [o \in Addr |->
                     {nb \in KnownNeigh(n) : Orig(nb[2][1]) = o}]]
  /\ neigh_seen = [n \in Node |-> [o \in Addr |-> [nb \in Neigh |-> TRUE]]]
  /\ orig_ifinfo = [n \in Node |-> [o \in Addr |-> NoOrigIfinfo]]
  /\ neigh_ifinfo = [n \in Node |-> [o \in Addr |-> NoNeighIfinfo]]
  /\ air = {}
  /\ ticks = 0 /\ reboots = 0

-----------------------------------------------------------------------------
(* Sending. *)

\* Mutant: an interface is suppressed as soon as some neighbour on it is the
\* originator or the sender, not only when it is the single one.
WorthBroadcasting_AnyNeighbour(n, f, o, from) ==
  LET recipients == {nb \in Neigh : nb[1] = f /\ link[n][nb] # None}
  IN  recipients # {} /\ \A nb \in recipients : Orig(nb[2][1]) \notin {o, from}

\* batadv_hardif_no_broadcast(): whether an OGM of originator o, received from
\* originator `from' (None: our own), is worth broadcasting on interface f.
WorthBroadcasting(n, f, o, from) ==
  LET recipients == {nb \in Neigh : nb[1] = f /\ link[n][nb] # None}
  IN  /\ recipients # {}
      /\ \A nb \in recipients :
           recipients = {nb} => Orig(nb[2][1]) \notin {o, from}

\* batadv_v_ogm_queue_on_if() and _send_to_if(): the copies that leave on an
\* active interface.  The aggregation queue only delays them.
Broadcast(n, f, ogm) ==
  IF if_active[<<n, f>>]
    THEN {[ogm |-> ogm, src |-> <<n, f>>, to |-> l[2]] :
            l \in {k \in Links : k[1] = <<n, f>>}}
    ELSE {}

\* batadv_v_ogm_send_meshif(): the periodic worker sends the node's own OGM,
\* with its weight as a TVLV, on every interface that has a recipient.
SendOwn(n) ==
  LET ogm == [orig |-> Orig(n), seqno |-> ogm_seqno[n], airtime |-> 0,
              ttl |-> TTL, weight |-> node_weight[n]]
  IN  /\ n \in Originators
      /\ ogm_seqno[n] # MaxSeqno
      /\ ogm_seqno' = [ogm_seqno EXCEPT ![n] = (@ + 1) % (2 * SEQ_HALF)]
      /\ air' = air \cup UNION {Broadcast(n, f, ogm) :
                  f \in {g \in Iface : WorthBroadcasting(n, g, None, None)}}
      /\ UNCHANGED <<if_active, link, node_weight, tables, ticks, reboots>>

-----------------------------------------------------------------------------
(* Receiving: the handling of one OGM for one outgoing interface x.  oi is *)
(* the originator's ifinfo for x, created on demand.                       *)

IfinfoOrNew(n, o, x) ==
  IF orig_ifinfo[n][o][x] = None THEN NewOrigIfinfo ELSE orig_ifinfo[n][o][x]

\* batadv_window_protected(): the number lies so far off that the originator
\* must have restarted.
OutsideWindow(diff) == diff <= -OGM_MAX_AGE \/ diff >= SEQNO_RANGE

\* Mutant: an OGM that is one number old is still accepted.
Accepted_OneOld(n, ogm, x) ==
  LET oi   == IfinfoOrNew(n, ogm.orig, x)
      diff == SeqDiff(ogm.seqno, oi.last_real_seqno)
  IN  IF OutsideWindow(diff) THEN ~oi.protected ELSE diff >= -1

\* batadv_v_ogm_metric_update(): whether the OGM is accepted for x ...
Accepted(n, ogm, x) ==
  LET oi   == IfinfoOrNew(n, ogm.orig, x)
      diff == SeqDiff(ogm.seqno, oi.last_real_seqno)
  IN  IF OutsideWindow(diff) THEN ~oi.protected ELSE diff >= 0

\* ... and the cost it records for the neighbour it came through.
NewCost(n, ogm, nb, x) ==
  LET outgoing == IF x = DEFAULT THEN "default"
                  ELSE IF x = nb[1] THEN "same" ELSE "other"
      link_airtime == IF link[n][nb] = None THEN AIRTIME_MAX_VALUE ELSE link[n][nb]
  IN  batadv_v_forward_penalty(PathAirtime(ogm.airtime, link_airtime),
                               outgoing, FullDuplex, HopPenalty)

\* Mutant: the cheaper router stays, however far behind it is.
RouterAfter_CostOnly(n, ogm, nb, x) ==
  LET router == IfinfoOrNew(n, ogm.orig, x).router
      info   == IF router = None THEN None ELSE neigh_ifinfo[n][ogm.orig][router][x]
  IN  IF router = None \/ router = nb THEN nb
      ELSE IF info = None \/ info.airtime_cost <= NewCost(n, ogm, nb, x)
           THEN router ELSE nb

\* batadv_v_ogm_route_update(): the neighbour nb becomes the router unless the
\* present router is at least as cheap and not left behind.  (The "unknown
\* neighbor" drop cannot happen: a router always belongs to orig_node itself.)
RouterAfter(n, ogm, nb, x) ==
  LET router == IfinfoOrNew(n, ogm.orig, x).router
      info   == IF router = None THEN None ELSE neigh_ifinfo[n][ogm.orig][router][x]
  IN  IF router = None \/ router = nb THEN nb
      ELSE IF info = None THEN router
      ELSE IF /\ SeqDiff(ogm.seqno, info.last_seqno) < OGM_MAX_ORIGDIFF
              /\ info.airtime_cost <= NewCost(n, ogm, nb, x)
           THEN router ELSE nb

\* Mutant: a number that was forwarded already is forwarded again.
Forwards_Again(n, ogm, nb, x) ==
  x # DEFAULT /\ Accepted(n, ogm, x) /\ RouterAfter(n, ogm, nb, x) = nb

\* batadv_v_ogm_forward(): x is a real interface, nb is the router towards the
\* originator and the number was not forwarded before.
Forwards(n, ogm, nb, x) ==
  /\ x # DEFAULT
  /\ Accepted(n, ogm, x)
  /\ RouterAfter(n, ogm, nb, x) = nb
  /\ IfinfoOrNew(n, ogm.orig, x).last_seqno_forwarded # ogm.seqno

\* Mutant: the received cost is passed on unchanged.
ForwardedOgm_Unpriced(n, ogm, nb, x) == [ogm EXCEPT !.ttl = @ - 1]

ForwardedOgm(n, ogm, nb, x) ==
  [ogm EXCEPT !.airtime = WeightedPath(NewCost(n, ogm, nb, x),
                                       batadv_node_weight_factor(node_weight[n])),
              !.ttl = @ - 1]

\* The ifinfo of x after batadv_v_ogm_process_per_outif().
IfinfoAfter(n, ogm, nb, x) ==
  LET oi   == IfinfoOrNew(n, ogm.orig, x)
      diff == SeqDiff(ogm.seqno, oi.last_real_seqno)
  IN  IF ~Accepted(n, ogm, x) THEN oi
      ELSE [router |-> RouterAfter(n, ogm, nb, x),
            last_real_seqno |-> ogm.seqno,
            last_seqno_forwarded |-> IF Forwards(n, ogm, nb, x) THEN ogm.seqno
                                     ELSE oi.last_seqno_forwarded,
            protected |-> oi.protected \/ OutsideWindow(diff)]

\* batadv_v_ogm_process() drops our own OGMs, unusable paths, and OGMs from a
\* neighbour ELP has not found.
Dropped(n, ogm, nb) ==
  ogm.orig[1] = n \/ ogm.airtime = AIRTIME_MAX_VALUE \/ link[n][nb] = None

\* The interfaces batadv_v_ogm_process() handles an OGM of o for: the default one
\* and every active one on which the OGM is worth forwarding.
OutIfsFor(n, o, from) ==
  {DEFAULT} \cup {f \in Iface : if_active[<<n, f>>] /\ WorthBroadcasting(n, f, o, from)}

\* batadv_v_ogm_packet_recv() and batadv_v_ogm_process(): the TVLV is applied
\* first, then every outgoing interface is handled.
ReceiveOgm(c) ==
  LET n == c.to[1]  ogm == c.ogm  o == ogm.orig  nb == <<c.to[2], c.src>>
      outifs == OutIfsFor(n, o, Orig(c.src[1]))
      accepting == {x \in outifs : Accepted(n, ogm, x)}
      sending   == {x \in outifs : Forwards(n, ogm, nb, x) /\ ogm.ttl > 1}
  IN
  /\ if_active[c.to]
  /\ UNCHANGED <<if_active, link, ogm_seqno, node_weight, ticks, reboots>>
  /\ \/ /\ Dropped(n, ogm, nb)
        /\ air' = air \ {c}
        /\ UNCHANGED tables
     \/ /\ ~Dropped(n, ogm, nb)
        /\ orig_hash' = [orig_hash EXCEPT ![n] =
             @ \cup {o} \cup (IF accepting # {} THEN {c.src} ELSE {})]
        /\ orig_weight' = [orig_weight EXCEPT ![n][o] = ogm.weight]
        /\ orig_age' = IF accepting # {} \/ o \notin orig_hash[n]
                         THEN [orig_age EXCEPT ![n][o] = 0] ELSE orig_age
        /\ neigh_list' = [neigh_list EXCEPT ![n][o] = @ \cup {nb}]
        /\ neigh_seen' = IF accepting # {} \/ nb \notin neigh_list[n][o]
                           THEN [neigh_seen EXCEPT ![n][o][nb] = TRUE] ELSE neigh_seen
        /\ orig_ifinfo' = [orig_ifinfo EXCEPT ![n][o] =
             [x \in OutIf |-> IF x \in outifs THEN IfinfoAfter(n, ogm, nb, x)
                                              ELSE @[x]]]
        /\ neigh_ifinfo' = [neigh_ifinfo EXCEPT ![n][o][nb] =
             [x \in OutIf |-> IF x \in accepting
                                THEN [airtime_cost |-> NewCost(n, ogm, nb, x),
                                      last_seqno |-> ogm.seqno]
                                ELSE @[x]]]
        /\ air' = (air \ {c}) \cup
             UNION {Broadcast(n, f, ForwardedOgm(n, ogm, nb, f)) : f \in sending}

-----------------------------------------------------------------------------
(* What ELP contributes (BatVElp has its details): neighbours appear and   *)
(* their link costs change.                                                *)

\* batadv_v_elp_neigh_update() for a new ELP: src is a neighbour on f, listed
\* under its originator; a new hardif_neigh starts with the worst cost.
ElpReceived(n, f, src) ==
  LET nb == <<f, src>>  o == Orig(src[1])
  IN  /\ <<src, <<n, f>>>> \in Links
      /\ if_active[src] /\ if_active[<<n, f>>]
      /\ orig_hash' = [orig_hash EXCEPT ![n] = @ \cup {o}]
      /\ neigh_list' = [neigh_list EXCEPT ![n][o] = @ \cup {nb}]
      /\ neigh_seen' = [neigh_seen EXCEPT ![n][o][nb] = TRUE]
      /\ link' = IF link[n][nb] = None
                   THEN [link EXCEPT ![n][nb] = AIRTIME_MAX_VALUE] ELSE link
      /\ UNCHANGED <<if_active, ogm_seqno, node_weight, orig_weight, orig_age,
                     orig_ifinfo, neigh_ifinfo, air, ticks, reboots>>

\* batadv_v_elp_airtime_metric_update(): a new cost for a known neighbour.
ElpMetric(n, nb) ==
  /\ link[n][nb] # None
  /\ \E cost \in LinkCosts[LinkOf(n, nb)] : link' = [link EXCEPT ![n][nb] = cost]
  /\ UNCHANGED <<if_active, ogm_seqno, node_weight, tables, air, ticks, reboots>>

-----------------------------------------------------------------------------
(* Time and purging (originator.c).                                        *)

\* BATADV_PURGE_TIMEOUT elapses: what was not refreshed since becomes stale.
Tick ==
  /\ ticks < MaxTicks
  /\ ticks' = ticks + 1
  /\ neigh_seen' = [n \in Node |-> [o \in Addr |-> [nb \in Neigh |-> FALSE]]]
  /\ orig_age' = [n \in Node |-> [o \in Addr |->
       IF o \in orig_hash[n] /\ orig_age[n][o] < 2 THEN orig_age[n][o] + 1
                                                   ELSE orig_age[n][o]]]
  /\ UNCHANGED <<if_active, link, ogm_seqno, node_weight, orig_hash, orig_weight,
                 neigh_list, orig_ifinfo, neigh_ifinfo, air, reboots>>

\* BATADV_RESET_PROTECTION_MS after a window reset, the next one is allowed.
ProtectionExpires(n, o, x) ==
  /\ orig_ifinfo[n][o][x] # None
  /\ orig_ifinfo[n][o][x].protected
  /\ orig_ifinfo' = [orig_ifinfo EXCEPT ![n][o][x].protected = FALSE]
  /\ UNCHANGED <<if_active, link, ogm_seqno, node_weight, orig_hash, orig_weight,
                 orig_age, neigh_list, neigh_seen, neigh_ifinfo, air, ticks, reboots>>

\* batadv_v_neigh_cmp() of two neighbours, either of which may lack an ifinfo.
NeighCmp(info1, info2) ==
  IF info1 = None \/ info2 = None THEN 0
  ELSE batadv_v_neigh_cmp(info1.airtime_cost, info2.airtime_cost)

\* batadv_find_best_neighbor(): what a scan of the list of neighbours H, in
\* some order, may end with.  info[nb] is the ifinfo of nb for the interface.
FindBest(H, info) ==
  LET Prefer(best, nb) ==
        IF best # None /\ NeighCmp(info[nb], info[best]) <= 0 THEN best ELSE nb
  IN  IF H = {} THEN {None}
      ELSE {nb \in H : \E list \in SetToSeqs(H) : FoldLeft(Prefer, None, list) = nb}

\* batadv_purge_orig_neighbors(): neighbours that stay.
SurvivingNeigh(n, o) ==
  {nb \in neigh_list[n][o] : neigh_seen[n][o][nb] /\ if_active[<<n, nb[1]>>]}

GoneOutIf(n) == {f \in Iface : ~if_active[<<n, f>>]}

\* Mutant: references from other originators are forgotten.
Released_All(n, o, H) == neigh_list[n][o] \ H

\* The hardif_neigh entries that lose their last reference when the originator
\* o of node n keeps only the neighbours H.
Released(n, o, H) ==
  {nb \in neigh_list[n][o] \ H :
     \A p \in Addr \ {o} : nb \notin neigh_list[n][p]}

\* batadv_purge_orig_node() keeps the originator but drops stale parts of it;
\* when something was dropped the routers are chosen anew.
PurgeParts(n, o) ==
  LET H == SurvivingNeigh(n, o)
      lostIfinfo == \E f \in GoneOutIf(n) : orig_ifinfo[n][o][f] # None
      info == [nb \in Neigh |-> [x \in OutIf |->
                IF nb \in H /\ x \notin GoneOutIf(n)
                  THEN neigh_ifinfo[n][o][nb][x] ELSE None]]
      best(x) == FindBest(H, [nb \in H |-> info[nb][x]])
  IN  /\ orig_age[n][o] < 2
      /\ neigh_list' = [neigh_list EXCEPT ![n][o] = H]
      /\ neigh_ifinfo' = [neigh_ifinfo EXCEPT ![n][o] = info]
      /\ link' = [link EXCEPT ![n] = [nb \in Neigh |->
                    IF nb \in Released(n, o, H) THEN None ELSE @[nb]]]
      /\ \/ /\ ~lostIfinfo /\ H = neigh_list[n][o]
            /\ UNCHANGED orig_ifinfo
         \/ /\ lostIfinfo \/ H # neigh_list[n][o]
            /\ \E r \in [OutIf -> H \cup {None}] :
                 /\ \A x \in OutIf : r[x] \in best(x)
                 /\ orig_ifinfo' = [orig_ifinfo EXCEPT ![n][o] =
                      [x \in OutIf |->
                         IF x \in GoneOutIf(n) \/ @[x] = None THEN None
                         ELSE [@[x] EXCEPT !.router = r[x]]]]
      /\ UNCHANGED <<orig_hash, orig_weight, orig_age, neigh_seen>>

\* batadv_purge_orig_ref(): the originator itself timed out.
PurgeWhole(n, o) ==
  /\ orig_age[n][o] >= 2
  /\ orig_hash' = [orig_hash EXCEPT ![n] = @ \ {o}]
  /\ orig_weight' = [orig_weight EXCEPT ![n][o] = DefaultWeight]
  /\ orig_age' = [orig_age EXCEPT ![n][o] = 0]
  /\ neigh_list' = [neigh_list EXCEPT ![n][o] = {}]
  /\ orig_ifinfo' = [orig_ifinfo EXCEPT ![n][o] = NoOrigIfinfo]
  /\ neigh_ifinfo' = [neigh_ifinfo EXCEPT ![n][o] = NoNeighIfinfo]
  /\ link' = [link EXCEPT ![n] = [nb \in Neigh |->
                IF nb \in Released(n, o, {}) THEN None ELSE @[nb]]]
  /\ UNCHANGED neigh_seen

PurgeOrig(n, o) ==
  /\ o \in orig_hash[n]
  /\ PurgeParts(n, o) \/ PurgeWhole(n, o)
  /\ UNCHANGED <<if_active, ogm_seqno, node_weight, air, ticks, reboots>>

-----------------------------------------------------------------------------
(* Administration and failures.                                            *)

\* batadv_hardif_deactivate_interface() and _activate_interface(), with
\* batadv_v_iface_activate(): the tables keep what they have until a purge.
IfToggle(a) ==
  /\ a \in Flapping
  /\ if_active' = [if_active EXCEPT ![a] = ~@]
  /\ UNCHANGED <<link, ogm_seqno, node_weight, tables, air, ticks, reboots>>

\* batadv_netlink_set_mesh(): each attribute is checked on its own.
SetWeight(n, w) ==
  /\ node_weight' = [node_weight EXCEPT ![n] =
       [priority    |-> w.priority,
        duty_cycle  |-> IF w.duty_cycle <= FULL_DUTY THEN w.duty_cycle
                                                     ELSE @.duty_cycle,
        power_class |-> IF w.power_class \in 1 .. 3 THEN w.power_class
                                                    ELSE @.power_class]]
  /\ UNCHANGED <<if_active, link, ogm_seqno, tables, air, ticks, reboots>>

\* A reboot: batadv_v_ogm_init() on empty tables, with a new random number.
Restart(n) ==
  /\ reboots < Restarts
  /\ reboots' = reboots + 1
  /\ link' = [link EXCEPT ![n] = [nb \in Neigh |-> None]]
  /\ \E s \in FirstSeqnos : ogm_seqno' =
       [m \in Originators |-> IF m = n THEN s ELSE ogm_seqno[m]]
  /\ node_weight' = [node_weight EXCEPT ![n] = DefaultWeight]
  /\ orig_hash' = [orig_hash EXCEPT ![n] = {}]
  /\ orig_weight' = [orig_weight EXCEPT ![n] = [o \in Addr |-> DefaultWeight]]
  /\ orig_age' = [orig_age EXCEPT ![n] = [o \in Addr |-> 0]]
  /\ neigh_list' = [neigh_list EXCEPT ![n] = [o \in Addr |-> {}]]
  /\ neigh_seen' = [neigh_seen EXCEPT ![n] = [o \in Addr |-> [nb \in Neigh |-> TRUE]]]
  /\ orig_ifinfo' = [orig_ifinfo EXCEPT ![n] = [o \in Addr |-> NoOrigIfinfo]]
  /\ neigh_ifinfo' = [neigh_ifinfo EXCEPT ![n] = [o \in Addr |-> NoNeighIfinfo]]
  /\ UNCHANGED <<if_active, air, ticks>>

-----------------------------------------------------------------------------
Mesh ==
  \/ \E n \in Originators : SendOwn(n)
  \/ \E n \in Node, f \in Iface, src \in Addr : ElpReceived(n, f, src)
  \/ \E n \in Node, nb \in Neigh : ElpMetric(n, nb)
  \/ Tick
  \/ \E n \in Node, o \in Addr, x \in OutIf : ProtectionExpires(n, o, x)
  \/ \E a \in Addr : IfToggle(a)
  \/ \E n \in Node : \E w \in Weights[n] : SetWeight(n, w)

Next ==
  \/ Mesh
  \/ \E c \in air : ReceiveOgm(c)
  \/ \E n \in Node, o \in Addr : PurgeOrig(n, o)
  \/ \E n \in Node : Restart(n)

Spec == Init /\ [][Next]_vars

-----------------------------------------------------------------------------
(* An undisturbed mesh: no node reboots, no chosen router is purged, the   *)
(* numbers of an originator do not wrap, and every OGM is processed        *)
(* without an arithmetic wrap-around, over a link that costs something, by *)
(* a node whose weight does not discount transit.  Everything else may     *)
(* still happen: losses, reordering, changing links, interfaces going down *)
(* and up, changing weights, neighbours that time out.                     *)

RouterOf(n, o, x) ==
  IF orig_ifinfo[n][o][x] = None THEN None ELSE orig_ifinfo[n][o][x].router

Undisturbed(c) ==
  LET n == c.to[1]  ogm == c.ogm  nb == <<c.to[2], c.src>>
  IN  /\ link[n][nb] # None => link[n][nb] >= 1
      /\ batadv_node_weight_factor(node_weight[n]) >= WEIGHT_SCALE
      /\ \A x \in OutIf :
           LET oi == IfinfoOrNew(n, ogm.orig, x)
           IN  /\ link[n][nb] # None =>
                    NewCost(n, ogm, nb, x) >= ogm.airtime + link[n][nb]
               /\ OutsideWindow(SeqDiff(ogm.seqno, oi.last_real_seqno))
                    => oi.router = None

SteadyInit ==
  /\ Init
  /\ MaxSeqno \in Seqno /\ \A s \in FirstSeqnos : s <= MaxSeqno /\ MaxSeqno - s < SEQ_HALF

SteadyNext ==
  \/ Mesh
  \/ \E c \in air : Undisturbed(c) /\ ReceiveOgm(c)
  \/ \E n \in Node, o \in Addr : PurgeOrig(n, o) /\ UNCHANGED orig_ifinfo

SteadySpec == SteadyInit /\ [][SteadyNext]_vars

\* Everything may happen, reboots, wrapping numbers and purges included, except that a
\* purge which takes the router of an interface falls back to another neighbour.
KeptNext ==
  \/ Mesh
  \/ \E c \in air : ReceiveOgm(c)
  \/ \E n \in Node : Restart(n)
  \/ \E n \in Node, o \in Addr :
       /\ PurgeOrig(n, o)
       /\ \A x \in OutIf : RouterOf(n, o, x)' \in {RouterOf(n, o, x), None}

KeptSpec == Init /\ [][KeptNext]_vars

\* No copy is lost for ever, and the timer of batadv_v_ogm_start_timer() rearms.
FairSpec == /\ Spec
            /\ WF_vars(\E n \in Originators : SendOwn(n))
            /\ WF_vars(\E c \in air : ReceiveOgm(c))

-----------------------------------------------------------------------------
(* Properties. *)

TypeOK ==
  /\ if_active \in [Addr -> BOOLEAN]
  /\ link \in [Node -> [Neigh -> u32 \cup {None}]]
  /\ ogm_seqno \in [Originators -> Seqno]
  /\ node_weight \in [Node -> Weight]
  /\ orig_hash \in [Node -> SUBSET Addr]
  /\ orig_weight \in [Node -> [Addr -> Weight]]
  /\ orig_age \in [Node -> [Addr -> 0 .. 2]]
  /\ neigh_list \in [Node -> [Addr -> SUBSET Neigh]]
  /\ neigh_seen \in [Node -> [Addr -> [Neigh -> BOOLEAN]]]
  /\ orig_ifinfo \in [Node -> [Addr -> [OutIf -> OrigIfinfo \cup {None}]]]
  /\ neigh_ifinfo \in [Node -> [Addr -> [Neigh -> [OutIf -> NeighIfinfo \cup {None}]]]]
  /\ air \subseteq Copy
  /\ ticks \in 0 .. MaxTicks /\ reboots \in 0 .. Restarts

RouteInfo(n, o, x) == neigh_ifinfo[n][o][RouterOf(n, o, x)][x]

\* batadv_find_router(): a packet for o that leaves n towards the neighbour
\* <<f, <<j, g>>>> arrives on interface g of j, which then uses its router for g.
\* This is the set of hops <<n, x>> -> <<j, g>> a packet for o may take.
NextHop(n, o, x) == RouterOf(n, o, x)[2]

\* a is fresher than b, or as fresh and cheaper.
Outranks(a, b) ==
  \/ a.last_seqno > b.last_seqno
  \/ a.last_seqno = b.last_seqno /\ a.airtime_cost < b.airtime_cost

\* Along every hop of a route the next node, unless it is the originator, has a
\* route of its own that is fresher, or as fresh and cheaper: the distance-vector
\* argument behind batadv_v_ogm_route_update() and batadv_v_ogm_forward().
RoutesImprove ==
  \A n \in Node, o \in Addr, x \in OutIf :
    LET a == NextHop(n, o, x)
    IN  RouterOf(n, o, x) # None /\ a[1] # o[1] =>
          /\ RouterOf(a[1], o, a[2]) # None
          /\ RouteInfo(n, o, x) # None
          /\ RouteInfo(a[1], o, a[2]) # None
          /\ Outranks(RouteInfo(a[1], o, a[2]), RouteInfo(n, o, x))

\* Packets for an originator never run in a circle: in every set of (node,
\* receiving interface) pairs some pair forwards out of the set, delivers to the
\* originator, or has no route (batadv_find_router() with the routers chosen by
\* batadv_v_ogm_route_update()).
NoRoutingLoop ==
  \A o \in Addr : \A S \in (SUBSET (Node \X OutIf)) \ {{}} :
    \E v \in S : \/ RouterOf(v[1], o, v[2]) = None
                 \/ NextHop(v[1], o, v[2]) \notin S
                 \/ NextHop(v[1], o, v[2])[1] = o[1]

\* No neighbour hears the same OGM twice from the same interface: copies in the
\* air differ, and differ from what the neighbour already recorded
\* (last_seqno_forwarded in batadv_v_ogm_forward()).
EachOgmOnce ==
  \A c \in air :
    /\ \A d \in air : /\ d.src = c.src /\ d.to = c.to
                      /\ d.ogm.orig = c.ogm.orig /\ d.ogm.seqno = c.ogm.seqno
                      => d = c
    /\ \A x \in OutIf :
         LET info == neigh_ifinfo[c.to[1]][c.ogm.orig][<<c.to[2], c.src>>][x]
         IN  info # None => info.last_seqno # c.ogm.seqno

\* References never dangle: a hardif_neigh exists exactly as long as a neighbour
\* object of some originator refers to it, a chosen router is a neighbour that is
\* still listed, and an originator that is not in the hash has no state left
\* (batadv_neigh_node_create(), batadv_purge_orig_node(), batadv_update_route()).
ReferencesHold ==
  \A n \in Node :
    /\ \A nb \in Neigh :
         link[n][nb] # None <=> \E o \in Addr : nb \in neigh_list[n][o]
    /\ \A o \in Addr : \A x \in OutIf :
         RouterOf(n, o, x) # None => RouterOf(n, o, x) \in neigh_list[n][o]
    /\ \A o \in Addr \ orig_hash[n] :
         neigh_list[n][o] = {} /\ orig_ifinfo[n][o] = NoOrigIfinfo

\* A chosen router is never OGM_MAX_ORIGDIFF or more sequence numbers behind the
\* newest accepted OGM, whatever the originator's numbers do
\* (batadv_v_ogm_route_update()).  A purge may fall back to an older neighbour.
RouterKeepsUp ==
  \A n \in Node, o \in Addr, x \in OutIf :
    RouterOf(n, o, x) # None =>
      SeqDiff(orig_ifinfo[n][o][x].last_real_seqno, RouteInfo(n, o, x).last_seqno)
        < OGM_MAX_ORIGDIFF

\* Every node ends up with a route to every originator it is connected to.
Discovered ==
  \A o \in Originators :
    <>[](\A n \in Node \ {o} : RouterOf(n, Orig(o), DEFAULT) # None)

-----------------------------------------------------------------------------
(* The inductive invariant behind RoutesImprove and EachOgmOnce in an      *)
(* undisturbed mesh.                                                       *)

\* Numbers this close to each other are ordered like integers.
InRange(s) == s <= MaxSeqno /\ MaxSeqno - s < SEQ_HALF

NotWorse(p, q) ==
  \/ p.last_seqno > q.last_seqno
  \/ p.last_seqno = q.last_seqno /\ p.airtime_cost <= q.airtime_cost

\* OGM number s of o has left the interface with address a.
Sent(o, a, s) ==
  IF a[1] = o[1] THEN a[1] \in Originators /\ s < ogm_seqno[a[1]]
  ELSE /\ RouterOf(a[1], o, a[2]) # None
       /\ s <= orig_ifinfo[a[1]][o][a[2]].last_seqno_forwarded

NumbersInRange ==
  /\ MaxSeqno \in Seqno
  /\ \A m \in Originators : InRange(ogm_seqno[m])
  /\ \A c \in air : InRange(c.ogm.seqno)
  /\ \A n \in Node, o \in Addr, x \in OutIf :
       RouterOf(n, o, x) # None => InRange(orig_ifinfo[n][o][x].last_real_seqno)

\* The ifinfo of an originator is at least as new as what was forwarded and as
\* what the neighbours reported.
TablesAgree ==
  \A n \in Node, o \in Addr, x \in OutIf :
    LET oi == orig_ifinfo[n][o][x]
    IN  /\ oi # None => oi.last_seqno_forwarded <= oi.last_real_seqno
        /\ oi # None /\ oi.router = None => oi.last_seqno_forwarded = 0
        /\ RouterOf(n, o, x) # None => /\ RouterOf(n, o, x) \in neigh_list[n][o]
                                       /\ RouteInfo(n, o, x) # None
        /\ \A nb \in Neigh : LET e == neigh_ifinfo[n][o][nb][x]
                             IN  e # None => /\ RouterOf(n, o, x) # None
                                             /\ e.last_seqno <= oi.last_real_seqno

\* An OGM on its way is backed by a route of its sender that is at least as
\* good; what a neighbour reported, by one that is strictly better.
CopiesBacked ==
  \A c \in air :
    LET a == c.src  o == c.ogm.orig
    IN  /\ Sent(o, a, c.ogm.seqno)
        /\ a[1] # o[1] =>
             NotWorse(RouteInfo(a[1], o, a[2]),
                      [last_seqno |-> c.ogm.seqno, airtime_cost |-> c.ogm.airtime])

ReportsBacked ==
  \A n \in Node, o \in Addr, x \in OutIf : \A nb \in Neigh :
    LET e == neigh_ifinfo[n][o][nb][x]  a == nb[2]
    IN  e # None => /\ Sent(o, a, e.last_seqno)
                    /\ a[1] # o[1] => Outranks(RouteInfo(a[1], o, a[2]), e)

SteadyInv ==
  TypeOK /\ NumbersInRange /\ TablesAgree /\ CopiesBacked /\ ReportsBacked /\ EachOgmOnce

-----------------------------------------------------------------------------
(* What the comments of the code say, and the code does not do.            *)

\* batadv_v_ogm_process(): "the airtime metric is additive: every hop adds its
\* cost".  A route costs more than the route of its next hop for the same OGM.
EveryHopAddsItsCost ==
  \A n \in Node, o \in Addr, x \in OutIf :
    LET a == NextHop(n, o, x)
    IN  /\ RouterOf(n, o, x) # None /\ a[1] # o[1]
        /\ RouterOf(a[1], o, a[2]) # None
        /\ RouteInfo(n, o, x).last_seqno = RouteInfo(a[1], o, a[2]).last_seqno
        => RouteInfo(n, o, x).airtime_cost > RouteInfo(a[1], o, a[2]).airtime_cost

\* batadv_v_ogm_route_update(): "if these are not allocated, something is wrong":
\* a chosen router has an ifinfo for its interface.
RouterHasIfinfo ==
  \A n \in Node, o \in Addr, x \in OutIf :
    RouterOf(n, o, x) # None => RouteInfo(n, o, x) # None
=============================================================================
