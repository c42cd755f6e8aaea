--------------------------------- MODULE Dat ---------------------------------
(***************************************************************************)
(* The distributed ARP table: an ARP request is answered from the cache of *)
(* the node of the host that asks, or from the caches of the nodes that    *)
(* the DHT selects for the address, and is broadcast after a delay if no   *)
(* answer came.  Nodes learn from all ARP packets and DHCP acknowledgements*)
(* they see.                                                               *)
(*                                                                         *)
(* There is one VLAN, hosts stay where they are (the translation table     *)
(* knows where), no two nodes are gateways to one backbone, and every node *)
(* has a route to every other.  A host that does not get an answer asks    *)
(* again when all packets about its request have arrived or are lost.      *)
(***************************************************************************)
EXTENDS Integers, Sequences, SequencesExt, FiniteSets

CONSTANTS
  DatNodes,                    \* nodes in the order of the originator table
  Host, Mac,                   \* hosts, which are their addresses, and their MAC addresses
  At,                          \* the node of a host
  DAT_ADDR_MAX, dat_addr, ip_key,
  DAT_CANDIDATES_NUM,
  DatScenarios                 \* who asks for whom, nodes without DAT; bounds: lost packets,
                               \* purged entries, DHCP acknowledgements, changes of the setting

DatNode == ToSet(DatNodes)

\* In a calm scenario every node uses the table, and no entry is purged.
DatScenario ==
  {b \in [asks : SUBSET (Host \X Host), disabled : SUBSET DatNode, losses : Nat, purges : Nat,
          acks : Nat, settings : Nat, calm : BOOLEAN] :
     b.calm => b.disabled = {} /\ b.purges = 0 /\ b.settings = 0}

ASSUME DatAssumption ==
  /\ DatNodes \in Seq(DatNode) /\ At \in [Host -> DatNode]
  /\ DAT_CANDIDATES_NUM \in Nat \ {0} /\ DAT_ADDR_MAX \in Nat \ {0}
  /\ dat_addr \in [DatNode -> 0..DAT_ADDR_MAX]
  /\ ip_key \in [Host -> 0..(DAT_ADDR_MAX - 1)]
  /\ \A g, h \in Host : Mac[g] = Mac[h] => g = h
  /\ \A h \in Host : Mac[h] # "none"
  /\ \A b \in DatScenarios : b \in DatScenario

VARIABLES
  distributed_arp_table,       \* the setting of a node
  has_dat,                     \* BATADV_ORIG_CAPA_HAS_DAT of the originators a node knows
  dat_hash,                    \* the cache of a node: addresses of hosts
  arp,                         \* ARP packets on their way to a node
  delayed,                     \* broadcasts that a node has delayed
  asking, answers,             \* what hosts ask for, and the answers to their last request
  dat_left

datVars == <<distributed_arp_table, has_dat, dat_hash, arp, delayed, asking, answers, dat_left>>

DatUse(what) == dat_left[what] > 0 /\ dat_left' = [dat_left EXCEPT ![what] = @ - 1]

batadv_dat_init ==
  /\ dat_left \in DatScenarios
  /\ distributed_arp_table = [n \in DatNode |-> n \notin dat_left.disabled]
  /\ has_dat = [n \in DatNode |-> [m \in DatNode \ {n} |-> m \notin dat_left.disabled]]
  /\ dat_hash = [n \in DatNode |-> [h \in Host |-> "none"]]
  /\ arp = {} /\ delayed = {} /\ asking = {}
  /\ answers = [h \in Host |-> 0]

-----------------------------------------------------------------------------
(* The nodes that the DHT selects. *)

\* The distance on the ring of unsigned addresses, counted down.
Closeness(m, ip) == (DAT_ADDR_MAX - dat_addr[m] + ip_key[ip]) % (DAT_ADDR_MAX + 1)

\* Nodes that have the table and were not selected before.
batadv_is_orig_node_eligible(n, res, last_max, ip, m) ==
  m # n /\ has_dat[n][m] /\ m \notin ToSet(res) /\ Closeness(m, ip) <= last_max

\* Mutant: the last one that is eligible is selected.
Closest_Last(S, ip) == S

Closest(S, ip) == {m \in S : \A o \in S : Closeness(o, ip) <= Closeness(m, ip)}

\* One round over the originator table: the closest, and the last of those that are equally
\* close, since each takes the place of the one before.
batadv_choose_next_candidate(n, res, last_max, ip) ==
  LET best == Closest({m \in DatNode : batadv_is_orig_node_eligible(n, res, last_max, ip, m)}, ip)
      last == SelectLastInSeq(DatNodes, LAMBDA m : m \in best)
  IN IF best = {} THEN [res |-> res, last_max |-> 0]
     ELSE [res |-> Append(res, DatNodes[last]), last_max |-> Closeness(DatNodes[last], ip)]

batadv_dat_select_candidates(n, ip) ==
  LET round[k \in 0..DAT_CANDIDATES_NUM] ==
        IF k = 0 THEN [res |-> <<>>, last_max |-> DAT_ADDR_MAX]
        ELSE CHOOSE r \in {batadv_choose_next_candidate(n, s.res, s.last_max, ip) : s \in {round[k - 1]}} : TRUE
  IN ToSet(round[DAT_CANDIDATES_NUM].res)

batadv_dat_forward_data(n, p, ip) ==
  {[p EXCEPT !.to = m] : m \in batadv_dat_select_candidates(n, ip)}

-----------------------------------------------------------------------------
(* ARP packets: addresses of the sender and of the target. *)

Request(to, sip, smac, dip) ==
  [op |-> "REQUEST", to |-> to, sip |-> sip, smac |-> smac, dip |-> dip, dmac |-> "none"]
batadv_dat_arp_create_reply(ip_src, ip_dst, hw_src, hw_dst) ==
  [op |-> "REPLY", to |-> At[ip_dst], sip |-> ip_src, smac |-> hw_src, dip |-> ip_dst, dmac |-> hw_dst]

batadv_dat_entry_add(cache, ip, mac) == [cache EXCEPT ![ip] = mac]
batadv_is_my_client(n, mac) == \E h \in Host : Mac[h] = mac /\ At[h] = n
Others(n, p) == {[p EXCEPT !.to = m] : m \in DatNode \ {n}}

\* A host replies: its node learns both addresses and puts them into the DHT.
batadv_dat_snoop_outgoing_arp_reply(n, cache, p) ==
  IF ~distributed_arp_table[n] THEN [cache |-> cache, put |-> {}]
  ELSE [cache |-> batadv_dat_entry_add(batadv_dat_entry_add(cache, p.sip, p.smac), p.dip, p.dmac),
        put |-> batadv_dat_forward_data(n, p, p.sip) \cup batadv_dat_forward_data(n, p, p.dip)]

\* What the node of a host does with a request that its host sees and answers.
HostReplies(n, cache, p) ==
  LET reply == [op |-> "REPLY", to |-> At[p.sip], sip |-> p.dip, smac |-> Mac[p.dip],
                dip |-> p.sip, dmac |-> p.smac]
      s == batadv_dat_snoop_outgoing_arp_reply(n, cache, reply)
  IN IF At[p.dip] # n THEN [cache |-> cache, out |-> {}]
     ELSE [cache |-> s.cache, out |-> s.put \cup {reply}]

-----------------------------------------------------------------------------
(* Requests. *)

\* A host asks.  Its node answers, asks the DHT and delays the broadcast, or broadcasts.
batadv_dat_snoop_outgoing_arp_request(h, ip) ==
  LET n == At[h]
      p == Request(n, h, Mac[h], ip)
      cache == batadv_dat_entry_add(dat_hash[n], h, Mac[h])
      get == batadv_dat_forward_data(n, p, ip)
      known == distributed_arp_table[n] /\ cache[ip] # "none"
      dht == distributed_arp_table[n] /\ ~known /\ get # {}
  IN /\ dat_hash' = IF distributed_arp_table[n] THEN [dat_hash EXCEPT ![n] = cache] ELSE dat_hash
     /\ arp' = arp \cup (IF known THEN {} ELSE IF dht THEN get ELSE Others(n, p))
     /\ delayed' = IF known \/ dht THEN delayed \cup {p} ELSE delayed
     /\ asking' = IF known THEN asking \ {<<h, ip>>} ELSE asking \cup {<<h, ip>>}
     /\ answers' = [answers EXCEPT ![h] = IF known THEN 1 ELSE 0]
     /\ dat_left' = [dat_left EXCEPT !.asks = @ \ {<<h, ip>>}]

Quiet(h) == (\A p \in arp : h \notin {p.sip, p.dip}) /\ (\A p \in delayed : p.sip # h)
Ask(h, ip) ==
  /\ <<h, ip>> \in dat_left.asks \cup asking /\ Quiet(h)
  /\ batadv_dat_snoop_outgoing_arp_request(h, ip)
  /\ UNCHANGED <<distributed_arp_table, has_dat>>

\* Mutant: the broadcast is dropped because the DHT was asked.
batadv_dat_drop_broadcast_packet_Asked(n, p) == distributed_arp_table[n]

batadv_dat_drop_broadcast_packet(n, p) ==
  distributed_arp_table[n] /\ dat_hash[n][p.dip] # "none"

\* The delay of a broadcast is over.
SendDelayed ==
  \E p \in delayed :
    /\ delayed' = delayed \ {p}
    /\ arp' = IF batadv_dat_drop_broadcast_packet(p.to, p) THEN arp ELSE arp \cup Others(p.to, p)
    /\ UNCHANGED <<distributed_arp_table, has_dat, dat_hash, asking, answers, dat_left>>

\* A request of another node: answered from the cache, or by the host that sees it.
batadv_dat_snoop_incoming_arp_request(p) ==
  LET n == p.to
      cache == IF distributed_arp_table[n] THEN batadv_dat_entry_add(dat_hash[n], p.sip, p.smac)
               ELSE dat_hash[n]
      known == distributed_arp_table[n] /\ cache[p.dip] # "none"
      host == HostReplies(n, cache, p)
  IN /\ dat_hash' = [dat_hash EXCEPT ![n] = IF known THEN cache ELSE host.cache]
     /\ arp' = (arp \ {p}) \cup
          (IF known THEN {batadv_dat_arp_create_reply(p.dip, p.sip, cache[p.dip], p.smac)} ELSE host.out)
     /\ UNCHANGED <<asking, answers>>

-----------------------------------------------------------------------------
(* Replies. *)

\* Mutant: what comes for one's own client is delivered again.
Doubled_Never(n, p) == FALSE

\* Another node of the DHT has answered before.
Doubled(n, p) == dat_hash[n][p.sip] = p.smac

\* A reply, in answer to a request or put into the DHT: the node learns, and delivers it to
\* the host that asked.
batadv_dat_snoop_incoming_arp_reply(p) ==
  LET n == p.to
      on == distributed_arp_table[n]
      deliver == /\ batadv_is_my_client(n, p.dmac)
                 /\ on => ~Doubled(n, p) /\ ~batadv_is_my_client(n, p.smac)
  IN /\ dat_hash' = IF ~on THEN dat_hash
                    ELSE [dat_hash EXCEPT ![n] =
                            batadv_dat_entry_add(batadv_dat_entry_add(@, p.sip, p.smac), p.dip, p.dmac)]
     /\ asking' = IF deliver THEN asking \ {<<p.dip, p.sip>>} ELSE asking
     /\ answers' = IF deliver THEN [answers EXCEPT ![p.dip] = @ + 1] ELSE answers
     /\ arp' = arp \ {p}

ReceiveArp ==
  \E p \in arp :
    /\ IF p.op = "REQUEST" THEN batadv_dat_snoop_incoming_arp_request(p)
       ELSE batadv_dat_snoop_incoming_arp_reply(p)
    /\ UNCHANGED <<distributed_arp_table, has_dat, delayed, dat_left>>

LoseArp ==
  \E p \in arp :
    /\ DatUse("losses") /\ arp' = arp \ {p}
    /\ UNCHANGED <<distributed_arp_table, has_dat, dat_hash, delayed, asking, answers>>

-----------------------------------------------------------------------------
(* DHCP, settings and time. *)

\* A DHCP server acknowledges the address of a client of another node: its node puts both
\* into the DHT, as a reply of the client to the server; the client's node learns them, if
\* the acknowledgement arrives.
batadv_dat_put_dhcp(n, server, client) ==
  LET p == batadv_dat_arp_create_reply(client, server, Mac[client], Mac[server])
      Learn(cache) ==
        batadv_dat_entry_add(batadv_dat_entry_add(cache, client, Mac[client]), server, Mac[server])
      learners == {m \in DatNode : distributed_arp_table[m]}
  IN /\ arp' = arp \cup (IF n \in learners
                         THEN batadv_dat_forward_data(n, p, client) \cup batadv_dat_forward_data(n, p, server)
                         ELSE {})
     /\ \E seen \in {{n}, {n, At[client]}} :
          dat_hash' = [m \in DatNode |-> IF m \in seen \cap learners THEN Learn(dat_hash[m]) ELSE dat_hash[m]]
DhcpAck ==
  \E server, client \in Host :
    /\ At[server] # At[client] /\ DatUse("acks")
    /\ batadv_dat_put_dhcp(At[server], server, client)
    /\ UNCHANGED <<distributed_arp_table, has_dat, delayed, asking, answers>>

\* BATADV_DAT_ENTRY_TIMEOUT has passed since the entry was used.
batadv_dat_purge ==
  \E n \in DatNode, ip \in Host :
    /\ dat_hash[n][ip] # "none" /\ DatUse("purges")
    /\ dat_hash' = [dat_hash EXCEPT ![n][ip] = "none"]
    /\ UNCHANGED <<distributed_arp_table, has_dat, arp, delayed, asking, answers>>

batadv_dat_status_update ==
  \E n \in DatNode :
    /\ DatUse("settings")
    /\ distributed_arp_table' = [distributed_arp_table EXCEPT ![n] = ~@]
    /\ UNCHANGED <<has_dat, dat_hash, arp, delayed, asking, answers>>

batadv_dat_tvlv_ogm_handler_v1 ==
  \E n, m \in DatNode :
    /\ n # m /\ has_dat[n][m] # distributed_arp_table[m]
    /\ has_dat' = [has_dat EXCEPT ![n][m] = distributed_arp_table[m]]
    /\ UNCHANGED <<distributed_arp_table, dat_hash, arp, delayed, asking, answers, dat_left>>

DatNext ==
  \/ \E h, ip \in Host : Ask(h, ip)
  \/ SendDelayed \/ ReceiveArp \/ LoseArp \/ DhcpAck
  \/ batadv_dat_purge \/ batadv_dat_status_update \/ batadv_dat_tvlv_ogm_handler_v1
DatSpec == batadv_dat_init /\ [][DatNext]_datVars
\* Packets arrive unless they are lost, delays end, and a host asks again: weak fairness,
\* with the conditions under which the actions are enabled written out.
Retry == \E h, ip \in Host : <<h, ip>> \in asking /\ Ask(h, ip)
DatFairness ==
  /\ []<>(arp = {} /\ delayed = {}) \/ []<><<SendDelayed \/ ReceiveArp>>_datVars
  /\ []<>(\A a \in asking : ~Quiet(a[1])) \/ []<><<Retry>>_datVars
DatFairSpec == DatSpec /\ DatFairness

-----------------------------------------------------------------------------
(* Properties. *)

\* The type; and what a cache or a packet says of a host is true.
DatTypeOK ==
  /\ \A n \in DatNode, h \in Host : dat_hash[n][h] \in {"none", Mac[h]}
  /\ \A p \in arp : p.to \in DatNode /\ p.smac = Mac[p.sip] /\ p.dmac \in {"none", Mac[p.dip]}

\* "An originator O is selected if and only if its DHT_ID value is one of three closest
\* values (from the LEFT, with wrap around if needed)": the candidates are the closest
\* nodes, as many as there may be, of those that are known to have the table.
CandidatesClosest ==
  \A n \in DatNode, ip \in Host :
    LET known == {m \in DatNode \ {n} : has_dat[n][m]}
        cands == batadv_dat_select_candidates(n, ip)
        number == IF Cardinality(known) < DAT_CANDIDATES_NUM THEN Cardinality(known) ELSE DAT_CANDIDATES_NUM
    IN /\ cands \subseteq known /\ Cardinality(cands) = number
       /\ \A c \in cands, m \in known \ cands : Closeness(c, ip) >= Closeness(m, ip)

\* "Delivering this frame would lead to doubled receive of an ARP reply": several nodes of
\* the DHT and the host itself may answer, and the host that asked gets one answer, unless
\* entries are purged or its node does not use the table.
AnsweredOnce ==
  dat_left.calm => \A h \in Host : answers[h] <= 1

\* Whatever is cached, lost, purged or dropped as a duplicate, a host that keeps asking is
\* answered, and so are all that ask.
RequestAnswered == asking # {} ~> asking = {}
=============================================================================
