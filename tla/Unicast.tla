-------------------------------- MODULE Unicast -------------------------------
(***************************************************************************)
(* Frames for a client, on their way through the mesh while the            *)
(* translation tables change: the node that sends a frame looks up where   *)
(* the client is and notes the version of the table (ttvn) it used, and    *)
(* every node on the way that knows a later version looks the client up    *)
(* again.                                                                  *)
(*                                                                         *)
(* Routes do not change here, no two nodes are gateways to one backbone,   *)
(* and the DAT does not look at these frames.  One frame is on its way at  *)
(* a time.                                                                 *)
(***************************************************************************)
EXTENDS TransTable

CONSTANTS TTL

ASSUME UnicastAssumption == TTL \in Nat

VARIABLE frame     \* the frame that is on its way, or lost; scenarios say how many are sent
                   \* (frames), at which node (from), and the routes (via)

ucVars == <<ttVars, frame>>

NoFrame == [at |-> "nowhere"]

\* Where frames are sent, clients have been announced by their nodes, and those that hear these have the tables.
Announcing(n) ==
  batadv_tt_local_commit_changes(
    FoldSet(LAMBDA k, s : batadv_tt_local_event([s EXCEPT !.local = With(@, k, {"NEW"})], k, {}),
            FreshNode, {k \in Client : Home[k] = n}))
Settled(n) ==
  FoldSet(LAMBDA o, s : batadv_tt_global_update_crc(
                          batadv_tt_fill_gtable(s, o, LocalTable(Announcing(o)), Announcing(o).vn), o),
          Announcing(n), {o \in Node : <<o, n>> \in left.hears})
UcInit ==
  /\ left \in Scenarios
  /\ node = [n \in Node |-> IF left.frames = 0 THEN FreshNode ELSE Settled(n)]
  /\ net = {} /\ at = Home /\ frame = NoFrame

Peer(n, o) == node[n].peer[o].ttvn
batadv_seq_before(x, y) == LET d == (x - y + VN) % VN IN d > VN \div 2

-----------------------------------------------------------------------------
(* The node that sends the frame. *)

batadv_tt_global_client_is_roaming(s, k) == Known(s.global, k) /\ "ROAM" \in s.global[k].flags

\* Mutant: a client that is roaming is looked up like any other.
batadv_send_skb_prepare_unicast_AsKnown(n, o, k) == [dest |-> o, ttvn |-> Peer(n, o)]

\* The header.  A client that is roaming gets an older version: somebody is to look again.
batadv_send_skb_prepare_unicast(n, o, k) ==
  [dest |-> o, ttvn |-> IF batadv_tt_global_client_is_roaming(node[n], k)
                        THEN (Peer(n, o) + VN - 1) % VN ELSE Peer(n, o)]

\* A host behind n sends a frame to client k, which is not behind n.
batadv_send_skb_via_tt_generic(n, k) ==
  /\ frame.at = "nowhere" /\ Spend("frames") /\ n \in left.from
  /\ \E o \in batadv_transtable_search(node[n], k) :
       LET header == batadv_send_skb_prepare_unicast(n, o, k)
       IN frame' = [at |-> left.via[n][o], key |-> k, dest |-> header.dest, ttvn |-> header.ttvn, ttl |-> TTL]
  /\ UNCHANGED <<node, net, at>>

-----------------------------------------------------------------------------
(* The nodes on the way. *)

batadv_tt_local_client_is_roaming(s, k) == Known(s.local, k) /\ "ROAM" \in s.local[k]

\* Mutant: the global table is looked at first.
batadv_reroute_unicast_packet_GlobalFirst(n, f) ==
  {[f EXCEPT !.dest = o, !.ttvn = Peer(n, o)] : o \in batadv_transtable_search(node[n], f.key) \ {f.dest}}

\* What the header becomes when it is updated: the node itself where the client is local,
\* or else another originator that is said to have it.
batadv_reroute_unicast_packet(n, f) ==
  IF batadv_is_my_client(node[n], f.key) THEN {[f EXCEPT !.dest = n, !.ttvn = node[n].vn]}
  ELSE {[f EXCEPT !.dest = o, !.ttvn = Peer(n, o)] :
          o \in batadv_transtable_search(node[n], f.key) \ {f.dest}}

\* What the node knows of the version of the destination.
CurrentTtvn(n, o) == IF o = n THEN node[n].vn ELSE Peer(n, o)

\* The header, updated where it is old or the client has left this node; none when the
\* frame is dropped.
batadv_check_unicast_ttvn(n, f) ==
  LET rerouted == batadv_reroute_unicast_packet(n, f)
      roaming == batadv_tt_local_client_is_roaming(node[n], f.key)
      old == batadv_seq_before(f.ttvn, CurrentTtvn(n, f.dest))
  IN IF roaming THEN IF rerouted = {} THEN {f} ELSE rerouted
     ELSE IF old THEN rerouted ELSE {f}

\* A frame for another node goes on until its TTL is used up.
batadv_route_unicast_packet(n, f) ==
  frame' = IF f.ttl < 2 THEN [f EXCEPT !.at = "lost"]
           ELSE [f EXCEPT !.at = left.via[n][f.dest], !.ttl = @ - 1]

\* A frame for this node is handed to its mesh interface.
Deliver(n) ==
  /\ frame.at = n /\ \E f \in batadv_check_unicast_ttvn(n, frame) : f.dest = n
  /\ frame' = NoFrame
Forward(n) ==
  /\ frame.at = n /\ \E f \in batadv_check_unicast_ttvn(n, frame) :
                       f.dest # n /\ batadv_route_unicast_packet(n, f)
Drop(n) ==
  /\ frame.at = n /\ batadv_check_unicast_ttvn(n, frame) = {}
  /\ frame' = NoFrame

batadv_recv_unicast_packet(n) ==
  /\ Deliver(n) \/ Forward(n) \/ Drop(n)
  /\ UNCHANGED ttVars

UcNext ==
  \/ TtNext /\ UNCHANGED frame
  \/ \E n \in Node, k \in Client : batadv_send_skb_via_tt_generic(n, k)
  \/ \E n \in Node : batadv_recv_unicast_packet(n)
UcSpec == UcInit /\ [][UcNext]_ucVars
UcFairSpec == UcSpec /\ TtFairness

-----------------------------------------------------------------------------
(* Properties. *)

\* A node hands a frame only to a client that it has not yet announced to be gone: the
\* version in the header, which the sender lowers for a roaming client, gives an old
\* destination away.
DeliveredByServer ==
  [][\A n \in Node : (frame.at = n /\ Deliver(n)) => Known(node[n].local, frame.key)]_frame

\* No frame goes around between nodes that each take the other for the client's until its
\* TTL is used up, as long as the client moves once.
NoFrameCircles == frame.at # "lost"
===============================================================================
