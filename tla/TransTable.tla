------------------------------ MODULE TransTable -----------------------------
(***************************************************************************)
(* The translation table: which client (MAC address and VLAN) sits behind  *)
(* which node.  Each node keeps a local table of its own clients, counts   *)
(* its versions (ttvn) and announces the changes of each version in its    *)
(* OGMs together with a checksum of the table; the others keep a global    *)
(* table, apply the changes, and ask for the table when they missed some.  *)
(* Roaming advertisements, temporary entries and timeouts work on the same *)
(* tables.                                                                 *)
(*                                                                         *)
(* The address of the mesh interface itself is in every local table from   *)
(* the start and never leaves it; Self stands for it.  A CRC is modelled   *)
(* by the set of entries it is taken over.  Reading the tables for a dump, *)
(* AP isolation and multicast addresses (which may be in the local and the *)
(* global table at the same time) are left out.                            *)
(***************************************************************************)
EXTENDS Integers, FiniteSets, FiniteSetsExt, TLC

CONSTANTS
  Node,               \* mesh nodes
  Client,             \* pairs <<MAC address, VLAN>> of clients
  Home,               \* the node each client starts at
  Wifi,               \* whether a frame may come from a wifi interface: a set of BOOLEANs
  VN,                 \* number of table versions (2^8)
  OGM_APPEND_MAX,     \* how many OGMs repeat the changes of a version
  ROAMING_MAX_COUNT,  \* roaming advertisements per client and ROAMING_MAX_TIME
  PacketEntries,      \* entries a full table may have (packet_size_max)
  MtuEntries,         \* changes that fit into an OGM (the MTU)
  SlowOgms,           \* whether an OGM interval may last longer than TT_LOCAL_TIMEOUT
  Scenarios,          \* bounds: records of which nodes hear whose OGMs, and how often
                      \* clients move, something times out, the MTU shrinks, a node
                      \* reboots, a message is lost
  MaxInFlight         \* bound: messages in flight about one node's table when it sends an OGM

ASSUME TransTableAssumption ==
  /\ VN \in Nat \ {0, 1} /\ OGM_APPEND_MAX \in Nat /\ ROAMING_MAX_COUNT \in Nat \ {0}
  /\ Home \in [Client -> Node]

VARIABLES
  node,    \* the state of batman-adv on each node
  net,     \* messages in flight: OGMs, requests, responses, roaming advertisements
  at,      \* where each client really is
  left     \* what is left of the scenario's bounds

ttVars == <<node, net, at, left>>

\* The entry of the mesh interface's own address, as a CRC sees it.
Self == <<<<"self", 0>>, {}>>
NoChanges == {}

\* What a node knows about an originator: struct batadv_orig_node, with the CRC of
\* its batadv_orig_node_vlan.  Self is in crc once the originator's own address is known.
UnknownPeer == [ttvn |-> 0, init |-> FALSE, self |-> FALSE, crc |-> {}, buff |-> NoChanges]

\* struct batadv_priv_tt of a node whose own address has just been announced.
FreshNode ==
  [local |-> <<>>, changes |-> NoChanges, size |-> 0, vn |-> 1, append |-> 0,
   crc |-> {Self}, lastset |-> NoChanges, max |-> PacketEntries,
   container |-> [ttvn |-> 1, crc |-> {Self}, changes |-> NoChanges],
   global |-> <<>>, peer |-> [o \in Node |-> UnknownPeer],
   roams |-> [k \in Client |-> ROAMING_MAX_COUNT]]

TtInit ==
  /\ node = [n \in Node |-> FreshNode]
  /\ net = {}
  /\ at = Home
  /\ left \in Scenarios

Spend(what) ==
  /\ left[what] > 0
  /\ left' = [left EXCEPT ![what] = @ - 1]

\* Looking an entry up in a table, taking entries out of it, and putting one into it.
Known(table, k) == k \in DOMAIN table
Without(table, K) == [k \in DOMAIN table \ K |-> table[k]]
With(table, k, entry) == [l \in DOMAIN table \cup {k} |-> IF l = k THEN entry ELSE table[l]]

-----------------------------------------------------------------------------
(* The local table: k |-> flags. *)

\* The flags of a change or an entry that go over the air (u8).
WireFlags(flags) == flags \cap {"DEL", "ROAM", "WIFI"}

\* Mutant: a second event for a client only replaces the flags of the first.
batadv_tt_local_event_Replaces(s, k, event) ==
  LET old == {c \in s.changes : c.key[1] = k[1]}
  IN [s EXCEPT !.changes = (@ \ old) \cup {[key |-> k, flags |-> WireFlags(s.local[k] \cup event)]}]

\* Events of one OGM interval are merged by MAC address: an addition and a deletion
\* cancel each other.
batadv_tt_local_event(s, k, event) ==
  LET flags == WireFlags(s.local[k] \cup event)
      old == {c \in s.changes : c.key[1] = k[1]}
  IN [s EXCEPT !.changes =
        IF old = {} THEN @ \cup {[key |-> k, flags |-> flags]}
        ELSE IF \E c \in old : ("DEL" \in c.flags) # ("DEL" \in flags) THEN @ \ old
        ELSE (@ \ old) \cup {[c EXCEPT !.flags = flags] : c \in old}]

batadv_tt_local_set_pending(s, k, event) ==
  [batadv_tt_local_event(s, k, event) EXCEPT !.local[k] = @ \cup {"PENDING"}]

\* A client that has been announced is kept as PENDING until the next version.
batadv_tt_local_remove(s, k, roaming) ==
  IF ~Known(s.local, k) THEN s
  ELSE LET r == IF roaming THEN [s EXCEPT !.local[k] = @ \cup {"ROAM"}] ELSE s
       IN IF "NEW" \in s.local[k]
          THEN [batadv_tt_local_event(r, k, {"DEL"}) EXCEPT !.local = Without(@, {k})]
          ELSE batadv_tt_local_set_pending(r, k, {"DEL"} \cup IF roaming THEN {"ROAM"} ELSE {})

batadv_is_my_client(s, k) ==
  Known(s.local, k) /\ s.local[k] \cap {"PENDING", "ROAM"} = {}

\* Entries that a full table response and the CRC count: announced ones.
batadv_tt_local_valid(s, k) == "NEW" \notin s.local[k]
Announced(s) == {k \in DOMAIN s.local : batadv_tt_local_valid(s, k)}

\* The number of announced entries, and the size of the table in a response.
batadv_tt_local_size_mod(s, v) == [s EXCEPT !.size = @ + v]
batadv_tt_local_table_transmit_size(s) == s.size

\* What the CRC of the local table is taken over.
batadv_tt_local_crc(s) ==
  {Self} \cup {<<k, s.local[k] \cap {"WIFI"}>> : k \in Announced(s)}

batadv_tt_local_update_crc(s) == [s EXCEPT !.crc = batadv_tt_local_crc(s)]

batadv_tt_local_purge_pending_clients(s) ==
  LET gone == {k \in DOMAIN s.local : "PENDING" \in s.local[k]}
  IN batadv_tt_local_size_mod([s EXCEPT !.local = Without(@, gone)], -Cardinality(gone))

\* NEW is taken from every entry, and each of them is counted.
batadv_tt_local_set_flags(s) ==
  batadv_tt_local_size_mod([s EXCEPT !.local = [k \in DOMAIN @ |-> @[k] \ {"NEW"}]],
                           Cardinality(DOMAIN s.local \ Announced(s)))

\* What goes into the container of a version.
batadv_tt_prepare_tvlv_local_data(s, changes) == [ttvn |-> s.vn, crc |-> s.crc, changes |-> changes]

\* The container appended to the OGMs.  Changes that do not fit are not sent, and
\* forgotten; the others stay for requests (last_changeset).
batadv_tt_tvlv_container_update(s) ==
  LET sent == IF Cardinality(s.changes) > MtuEntries THEN NoChanges ELSE s.changes
  IN [s EXCEPT !.container = batadv_tt_prepare_tvlv_local_data(s, sent),
               !.changes = NoChanges,
               !.lastset = IF s.changes = {} THEN @ ELSE sent]

batadv_tt_local_commit_changes(s) ==
  IF s.changes # {}
  THEN LET r == batadv_tt_local_purge_pending_clients(batadv_tt_local_set_flags(s))
       IN batadv_tt_tvlv_container_update(
            [batadv_tt_local_update_crc(r) EXCEPT !.vn = (@ + 1) % VN, !.append = OGM_APPEND_MAX])
  ELSE IF s.append = 0 THEN batadv_tt_tvlv_container_update(s)
  ELSE [s EXCEPT !.append = @ - 1]

-----------------------------------------------------------------------------
(* The global table: k |-> flags and, per originator, the flags it announced. *)

batadv_tt_global_free(s, k) == [s EXCEPT !.global = Without(@, {k})]

batadv_tt_global_del_orig_node(s, o, k) ==
  [s EXCEPT !.global[k].origs = Without(@, {o})]

\* The originators of an entry, with o among them.
batadv_tt_global_orig_entry_add(origs, o, flags) == With(origs, o, flags \cap {"WIFI"})

\* A global entry takes the originator; one that is roaming or temporary is taken
\* over by it.
batadv_tt_global_add(s, o, k, flags) ==
  LET known == Known(s.global, k)
      temp == "TEMP" \in flags
      old == IF known THEN s.global[k] ELSE [flags |-> {}, origs |-> <<>>]
      refused == temp /\ \/ Known(s.local, k) /\ "NEW" \notin s.local[k]
                         \/ known /\ "TEMP" \notin old.flags
      kept == IF ~known THEN flags \cap {"ROAM", "TEMP"} ELSE flags \cap {"TEMP"}
      others == IF temp \/ {"ROAM", "TEMP"} \cap (old.flags \cup flags) # {} THEN <<>>
                ELSE old.origs
      entry == IF temp /\ o \in DOMAIN old.origs THEN [old EXCEPT !.flags = kept]
               ELSE [flags |-> kept, origs |-> batadv_tt_global_orig_entry_add(others, o, flags)]
  IN IF refused THEN s
     ELSE batadv_tt_local_remove([s EXCEPT !.global = With(@, k, entry)], k, "ROAM" \in flags)

\* An originator that says its client roamed leaves the entry to whoever claims it.
batadv_tt_global_del_roaming(s, o, k) ==
  IF DOMAIN s.global[k].origs \subseteq {o}
  THEN [s EXCEPT !.global[k].flags = @ \cup {"ROAM"}]
  ELSE batadv_tt_global_del_orig_node(s, o, k)

batadv_tt_global_del(s, o, k, roaming) ==
  IF ~Known(s.global, k) THEN s
  ELSE IF ~roaming
  THEN LET r == batadv_tt_global_del_orig_node(s, o, k)
       IN IF DOMAIN r.global[k].origs = {} THEN batadv_tt_global_free(r, k) ELSE r
  ELSE IF Known(s.local, k) THEN batadv_tt_global_free(s, k)
  ELSE batadv_tt_global_del_roaming(s, o, k)

\* Everything the originator announced, its own address included, is dropped.
batadv_tt_global_del_orig(s, o) ==
  LET g == [k \in DOMAIN s.global |-> [s.global[k] EXCEPT !.origs = Without(@, {o})]]
  IN [s EXCEPT !.global = Without(g, {k \in DOMAIN g : DOMAIN g[k].origs = {}}),
               !.peer[o].init = FALSE, !.peer[o].self = FALSE, !.peer[o].crc = {}]

\* Entries of originator o that are neither roaming nor temporary.
batadv_tt_global_valid(s, k, o) == o \in DOMAIN s.global[k].origs /\ s.global[k].flags = {}
AnnouncedBy(s, o) == {k \in DOMAIN s.global : batadv_tt_global_valid(s, k, o)}

\* What the CRC of an originator's entries is taken over.
batadv_tt_global_crc(s, o) ==
  (IF s.peer[o].self THEN {Self} ELSE {}) \cup
  {<<k, s.global[k].origs[o]>> : k \in AnnouncedBy(s, o)}

batadv_tt_global_update_crc(s, o) == [s EXCEPT !.peer[o].crc = batadv_tt_global_crc(s, o)]

\* Mutant: equal versions are taken for equal tables.
batadv_tt_global_check_crc_VersionOnly(s, o, crc) == TRUE

batadv_tt_global_check_crc(s, o, crc) == s.peer[o].crc = crc

OneChange(s, o, c) ==
  IF "DEL" \in c.flags THEN batadv_tt_global_del(s, o, c.key, "ROAM" \in c.flags)
  ELSE batadv_tt_global_add(s, o, c.key, c.flags)

\* _batadv_tt_update_changes; storing an announced client never fails.
ApplyChanges(s, o, changes) ==
  [FoldSet(LAMBDA c, r : OneChange(r, o, c), s, changes) EXCEPT !.peer[o].init = TRUE]

\* The last changes of an originator are kept to answer requests in its place.
batadv_tt_save_orig_buffer(s, o, changes) ==
  IF changes = {} THEN s ELSE [s EXCEPT !.peer[o].buff = changes]

batadv_tt_update_changes(s, o, changes, ttvn) ==
  [batadv_tt_save_orig_buffer(ApplyChanges(s, o, changes), o, changes) EXCEPT !.peer[o].ttvn = ttvn]

\* A full table replaces what was known of the originator.
batadv_tt_fill_gtable(s, o, changes, ttvn) ==
  [ApplyChanges(batadv_tt_global_del_orig(s, o), o, changes) EXCEPT
     !.peer[o].self = TRUE, !.peer[o].buff = NoChanges, !.peer[o].ttvn = ttvn]

-----------------------------------------------------------------------------
(* Looking clients up. *)

\* The originator with the best route; routes are not modelled here.
batadv_transtable_best_orig(entry) == DOMAIN entry.origs

\* Where frames for client k may be sent.
batadv_transtable_search(s, k) ==
  IF Known(s.global, k) THEN batadv_transtable_best_orig(s.global[k]) ELSE {}

-----------------------------------------------------------------------------
(* Messages. *)

\* The messages about the table of n: its OGMs, the requests for it and the responses.
About(n) == {m \in net : m.type # "ROAM" /\ n = IF m.type = "REQUEST" THEN m.dst ELSE m.src}

\* The message m has been handled at node n, whose state is now s and which answers.
Handled(m, n, s, answers) ==
  /\ node' = [node EXCEPT ![n] = s]
  /\ net' = (net \ {m}) \cup answers
  /\ UNCHANGED <<at, left>>

\* Requests are not held back: the entry that would do so leaves req_list as soon as
\* the request is sent.
batadv_send_tt_request(n, o, ogm, full) ==
  {[type |-> "REQUEST", src |-> n, dst |-> o, ttvn |-> ogm.ttvn, crc |-> ogm.crc, full |-> full]}

\* The entries of a set that fit into the space reserved for them.
batadv_tt_tvlv_generate(S, space) ==
  IF Cardinality(S) <= space THEN S
  ELSE CHOOSE T \in SUBSET S : Cardinality(T) = IF space < 0 THEN 0 ELSE space

LocalTable(s) ==
  batadv_tt_tvlv_generate({[key |-> k, flags |-> WireFlags(s.local[k])] : k \in Announced(s)},
                          batadv_tt_local_table_transmit_size(s))

\* Room is reserved for every entry of the originator.
batadv_tt_prepare_tvlv_global_data(s, o) ==
  Cardinality({k \in DOMAIN s.global : o \in DOMAIN s.global[k].origs})

GlobalTable(s, o) ==
  batadv_tt_tvlv_generate({[key |-> k, flags |-> s.global[k].origs[o]] : k \in AnnouncedBy(s, o)},
                          batadv_tt_prepare_tvlv_global_data(s, o))

Response(o, dst, full, changes, ttvn) ==
  [type |-> "RESPONSE", src |-> o, dst |-> dst, ttvn |-> ttvn, full |-> full, changes |-> changes]

\* The owner answers with the changes of its last version only if these are asked for.
batadv_send_my_tt_response(n, m) ==
  LET s == node[n]
      full == m.full \/ s.vn # m.ttvn \/ s.lastset = NoChanges
  IN {IF full THEN Response(n, m.src, TRUE, LocalTable(s), s.vn)
      ELSE Response(n, m.src, FALSE, s.lastset, m.ttvn)}

\* A node on the way answers if it has the requested version.
HasRequested(s, m) ==
  s.peer[m.dst].ttvn = m.ttvn /\ batadv_tt_global_check_crc(s, m.dst, m.crc)

batadv_send_other_tt_response(n, m) ==
  LET s == node[n]
      full == m.full \/ s.peer[m.dst].buff = NoChanges
  IN {Response(m.dst, m.src, full,
               IF full THEN GlobalTable(s, m.dst) ELSE s.peer[m.dst].buff, m.ttvn)}

\* Roaming advertisements to the nodes that announced the client, up to the limit.
batadv_tt_check_roam_count(s, k, wanted) == Min({s.roams[k], wanted})

batadv_send_roam_adv(n, k, origs) ==
  LET count == batadv_tt_check_roam_count(node[n], k, Cardinality(origs))
  IN {[type |-> "ROAM", src |-> n, dst |-> o, key |-> k] :
        o \in CHOOSE T \in SUBSET origs : Cardinality(T) = count}

-----------------------------------------------------------------------------
(* Actions. *)

\* A frame from client k enters node n through a wifi interface or another one.
LocalAdd(n, k, wifi) ==
  LET s == node[n]
      known == Known(s.local, k)
      pending == known /\ "PENDING" \in s.local[k]
      back == known /\ ~pending /\ "ROAM" \in s.local[k]
      flag == IF wifi THEN {"WIFI"} ELSE {}
      s1 == IF ~known
            THEN batadv_tt_local_event([s EXCEPT !.local = With(@, k, {"NEW"} \cup flag)], k, {})
            ELSE IF pending
            THEN batadv_tt_local_event([s EXCEPT !.local[k] = @ \ {"PENDING"}], k, {})
            ELSE [s EXCEPT !.local[k] = @ \ {"ROAM"}]
      roamed == Known(s.global, k) /\ "ROAM" \notin s.global[k].flags
      origs == IF roamed THEN DOMAIN s.global[k].origs ELSE {}
      s2 == IF ~roamed THEN s1
            ELSE LET r == [s1 EXCEPT !.roams[k] =
                             @ - batadv_tt_check_roam_count(s, k, Cardinality(origs))]
                 IN IF back THEN batadv_tt_global_free(r, k)
                    ELSE [r EXCEPT !.global[k].flags = @ \cup {"ROAM"}]
      s3 == [s2 EXCEPT !.local[k] = (@ \ {"WIFI"}) \cup flag]
      s4 == IF s3.local[k] = s2.local[k] THEN s3 ELSE batadv_tt_local_event(s3, k, {})
  IN /\ at[k] = n
     /\ known \/ batadv_tt_local_table_transmit_size(s) + 1 <= s.max
     /\ node' = [node EXCEPT ![n] = s4]
     /\ net' = net \cup batadv_send_roam_adv(n, k, origs)
     /\ UNCHANGED <<at, left>>

\* The client is carried to another node, one that somebody hears.
Move(k, n) ==
  /\ at[k] # n /\ \E p \in left.hears : p[1] = n
  /\ at' = [at EXCEPT ![k] = n]
  /\ Spend("moves")
  /\ UNCHANGED <<node, net>>

\* The originator interval ends: changes are committed and the OGM goes out.
SendOgm(n) ==
  LET s == batadv_tt_local_commit_changes(node[n])
  IN /\ Cardinality(About(n)) < MaxInFlight
     /\ node' = [node EXCEPT ![n] = s]
     /\ net' = net \cup {[type |-> "OGM", src |-> n, dst |-> d, ttvn |-> s.container.ttvn,
               crc |-> s.container.crc, changes |-> s.container.changes] : d \in {x \in Node : <<n, x>> \in left.hears}}
     /\ UNCHANGED <<at, left>>

\* batadv_tt_update_orig: apply the changes of the next version, ask for what is missing.
ReceiveOgm(m) ==
  LET n == m.dst
      o == m.src
      s == node[n]
      p == s.peer[o]
      next == (~p.init /\ m.ttvn = 1) \/ m.ttvn - p.ttvn = 1
      applied == batadv_tt_global_update_crc(batadv_tt_update_changes(s, o, m.changes, m.ttvn), o)
      s1 == IF next /\ m.changes # {} THEN applied ELSE s
      insync == IF next THEN m.changes # {} /\ batadv_tt_global_check_crc(s1, o, m.crc)
                ELSE p.init /\ m.ttvn = p.ttvn /\ batadv_tt_global_check_crc(s, o, m.crc)
      full == ~(next /\ m.changes = {})
  IN /\ m.type = "OGM"
     /\ Handled(m, n, s1, IF insync THEN {} ELSE batadv_send_tt_request(n, o, m, full))

ReceiveRequest(m) ==
  /\ m.type = "REQUEST"
  /\ Handled(m, m.dst, node[m.dst], batadv_send_my_tt_response(m.dst, m))

\* A node on the way to the owner answers in its place.
InterceptRequest(n, m) ==
  /\ m.type = "REQUEST"
  /\ n \notin {m.src, m.dst}
  /\ HasRequested(node[n], m)
  /\ Handled(m, n, node[n], batadv_send_other_tt_response(n, m))

batadv_handle_tt_response(m) ==
  LET s == node[m.dst]
      r == IF m.full THEN batadv_tt_fill_gtable(s, m.src, m.changes, m.ttvn)
           ELSE batadv_tt_update_changes(s, m.src, m.changes, m.ttvn)
  IN /\ m.type = "RESPONSE"
     /\ Handled(m, m.dst, batadv_tt_global_update_crc(r, m.src), {})

ReceiveRoamAdv(m) ==
  /\ m.type = "ROAM"
  /\ Handled(m, m.dst, batadv_tt_global_add(node[m.dst], m.src, m.key, {"ROAM"}), {})

\* A data frame of client k, sent at node o, arrives at n before k has been announced.
batadv_tt_add_temporary_global_entry(n, o, k) ==
  /\ <<o, n>> \in left.hears
  /\ at[k] = o /\ k \in DOMAIN node[o].local
  /\ node' = [node EXCEPT ![n] = batadv_tt_global_add(@, o, k, {"TEMP"})]
  /\ UNCHANGED <<net, at, left>>

\* batadv_tt_purge: one kind of entry after the other times out.
LocalPurge(n, k) ==
  /\ k \in DOMAIN node[n].local
  /\ "PENDING" \notin node[n].local[k]
  /\ SlowOgms \/ "NEW" \notin node[n].local[k]
  /\ node' = [node EXCEPT ![n] = batadv_tt_local_set_pending(@, k, {"DEL"})]
  /\ Spend("timeouts")
  /\ UNCHANGED <<net, at>>

GlobalPurge(n, k) ==
  /\ k \in DOMAIN node[n].global
  /\ node[n].global[k].flags \cap {"ROAM", "TEMP"} # {}
  /\ node' = [node EXCEPT ![n] = batadv_tt_global_free(@, k)]
  /\ Spend("timeouts")
  /\ UNCHANGED <<net, at>>

batadv_tt_roam_purge(n, k) ==
  /\ node[n].roams[k] < ROAMING_MAX_COUNT
  /\ node' = [node EXCEPT ![n].roams[k] = ROAMING_MAX_COUNT]
  /\ Spend("timeouts")
  /\ UNCHANGED <<net, at>>

\* The route to an originator is deleted, or the originator itself is purged.
LoseRoute(n, o, purged) ==
  /\ n # o
  /\ node[n].peer[o] # UnknownPeer
  /\ node' = [node EXCEPT ![n] =
       LET s == batadv_tt_global_del_orig(@, o)
       IN IF purged THEN [s EXCEPT !.peer[o] = UnknownPeer] ELSE s]
  /\ Spend("timeouts")
  /\ UNCHANGED <<net, at>>

\* The packet size shrinks to max entries: the longest idle clients are dropped, the
\* table is committed at once.
batadv_tt_local_resize_to_mtu(n, max, idle) ==
  LET s == node[n]
      pend(r, k) == IF "PENDING" \in r.local[k] THEN r
                    ELSE batadv_tt_local_set_pending(r, k, {"DEL"})
      purged == FoldSet(LAMBDA k, r : pend(r, k), s, idle)
      s1 == batadv_tt_local_purge_pending_clients(purged)
      reduced == batadv_tt_local_table_transmit_size(s) > max
  IN /\ max < s.max
     /\ idle \subseteq DOMAIN s.local
     /\ ~reduced => idle = {}
     /\ node' = [node EXCEPT ![n] =
          [(IF reduced THEN batadv_tt_local_commit_changes(s1) ELSE s) EXCEPT !.max = max]]
     /\ Spend("resizes")
     /\ UNCHANGED <<net, at>>

\* The node reboots: batadv_tt_free() and batadv_tt_init().
Reboot(n) ==
  /\ node' = [node EXCEPT ![n] = FreshNode]
  /\ Spend("reboots")
  /\ UNCHANGED <<net, at>>

Lose(m) ==
  /\ net' = net \ {m}
  /\ Spend("losses")
  /\ UNCHANGED <<node, at>>

\* Some node handles a message about the table of node o.
ReceiveAbout(o) == \E m \in About(o) :
  \/ ReceiveOgm(m) \/ ReceiveRequest(m) \/ batadv_handle_tt_response(m)

TtNext ==
  \/ \E n \in Node, k \in Client, wifi \in Wifi : LocalAdd(n, k, wifi)
  \/ \E n \in Node, k \in Client : Move(k, n)
  \/ \E n \in Node : SendOgm(n)
  \/ \E o \in Node : ReceiveAbout(o)
  \/ \E m \in net : ReceiveRoamAdv(m)
  \/ \E m \in net, n \in Node : InterceptRequest(n, m)
  \/ \E n, o \in Node, k \in Client : batadv_tt_add_temporary_global_entry(n, o, k)
  \/ \E n \in Node, k \in Client : LocalPurge(n, k)
  \/ \E n \in Node, k \in Client : GlobalPurge(n, k)
  \/ \E n \in Node, k \in Client : batadv_tt_roam_purge(n, k)
  \/ \E n, o \in Node, purged \in BOOLEAN : LoseRoute(n, o, purged)
  \/ \E n \in Node, max \in 0..PacketEntries, idle \in SUBSET Client :
       batadv_tt_local_resize_to_mtu(n, max, idle)
  \/ \E n \in Node : Reboot(n)
  \/ \E m \in net : Lose(m)

TtSpec == TtInit /\ [][TtNext]_ttVars

\* Clients keep sending frames, OGMs are sent every interval and messages that are not
\* lost arrive.
TtFairness ==
  /\ \A n \in Node : WF_ttVars(SendOgm(n)) /\ WF_ttVars(ReceiveAbout(n))
  /\ \A n \in Node : WF_ttVars(\E m \in net : m.dst = n /\ ReceiveRoamAdv(m))
  /\ \A k \in Client : WF_ttVars(\E n \in Node, wifi \in Wifi : LocalAdd(n, k, wifi))
TtFairSpec == TtSpec /\ TtFairness

-----------------------------------------------------------------------------
(* Properties. *)

\* What the next version will change for client k.
Wanted(s, k) ==
  IF ~Known(s.local, k) THEN "nothing"
  ELSE IF "NEW" \in s.local[k] THEN (IF "PENDING" \in s.local[k] THEN "nothing" ELSE "add")
  ELSE IF "PENDING" \in s.local[k] THEN "delete" ELSE "nothing"

\* What the list of changes says about client k.
Queued(s, k) ==
  IF \E c \in s.changes : c.key = k /\ "DEL" \in c.flags THEN "delete"
  ELSE IF \E c \in s.changes : c.key = k THEN "add" ELSE "nothing"

\* The list of changes says exactly what the next version will change, whatever order
\* frames, roaming advertisements, responses and timeouts come in: a version is only
\* committed when the list is not empty (batadv_tt_local_commit_changes_nolock()), so a
\* change that is not in it is never announced.  No client is in the list twice.
NothingForgotten ==
  \A n \in Node, k \in Client :
    /\ Wanted(node[n], k) = Queued(node[n], k)
    /\ \A c, d \in node[n].changes : c.key = k /\ d.key = k => c = d

\* num_entries is the number of announced entries of the table, as types.h says: a full
\* table response and the size limit rely on it.
SizeCounted == \A n \in Node : node[n].size = Cardinality(Announced(node[n]))

\* Every node that hears the node client k really is at sends frames for k there, and
\* that node delivers them.
Reachable(k) ==
  /\ batadv_is_my_client(node[at[k]], k)
  /\ \A n \in {x \in Node : <<at[k], x>> \in left.hears} :
       batadv_transtable_search(node[n], k) = {at[k]}

\* Once clients stay where they are and keep sending frames, the tables find them, for
\* good, after one roaming, lost messages, timeouts, lost routes or a reboot.
Converges == left.resizes = 0 => <>[](\A k \in Client : Reachable(k))
=============================================================================
