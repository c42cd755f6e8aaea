------------------------------- MODULE Gateway -------------------------------
(***************************************************************************)
(* Gateways and a client of theirs.  A gateway announces its bandwidth in  *)
(* a TVLV container of its OGMs.  The client keeps a list of gateways and  *)
(* elects one of them, and tells user space by uevents.  The election runs *)
(* in the worker that purges originators, in steps, while announcements    *)
(* are handled and the user changes the mode.                              *)
(*                                                                         *)
(* An originator is its route: the metric of its router (a TQ in           *)
(* B.A.T.M.A.N. IV, an airtime in V), 0 without a router and -1 when the   *)
(* originator has timed out.  One election runs at a time.                 *)
(***************************************************************************)
EXTENDS Integers, Sequences, SequencesExt

CONSTANTS
  Gateways,
  GW_OVERHEAD, GW_FRAME,       \* BATADV_AIRTIME_OVERHEAD, test frame in bits per 100 kbit/s
  GwScenarios                  \* algorithm, selection class, first bandwidths and routes,
                               \* whether others interrupt an election; bounds: changes of
                               \* gateways and of routes, old OGMs, changes of the mode and
                               \* of the class, loss of the interfaces

GwScenario == [algo : {"IV", "V"}, sel_class : Nat, class_set : SUBSET Nat, classes : Nat,
               bandwidth : [Gateways -> Nat], route : [Gateways -> Nat], metrics : SUBSET Nat,
               race : BOOLEAN, changes : Nat, routes : Nat, old : Nat, modes : Nat, downs : Nat]
ASSUME GatewayAssumption == "none" \notin Gateways /\ GwScenarios \subseteq GwScenario

VARIABLES
  server,        \* gateways: mode, bandwidth, registered container, container of an old OGM
  route,
  gw,            \* the client: mode, sel_class, reselect, gateway_list, curr_gw, generation
  election,      \* the election that runs: pc, curr_gw and next_gw as it has read them
  gw_view,       \* what user space knows from the uevents
  gw_mesh,       \* the mesh interface: it has hard interfaces ("up"), none, or is freed
  gw_left

gwVars == <<server, route, gw, election, gw_view, gw_mesh, gw_left>>

NoGw == [orig |-> "none", id |-> 0]
NoElection == [pc |-> "idle", curr |-> NoGw, next |-> NoGw]
GwUse(what) == gw_left[what] > 0 /\ gw_left' = [gw_left EXCEPT ![what] = @ - 1]
\* What the rest of the system does, between elections or also during one.
Calm == gw_left.race \/ election.pc = "idle"

batadv_gw_init ==
  /\ gw_left \in GwScenarios
  /\ server = [g \in Gateways |-> [mode |-> "SERVER", bandwidth |-> gw_left.bandwidth[g],
                                   container |-> gw_left.bandwidth[g], old |-> 0]]
  /\ route = gw_left.route
  /\ gw = [mode |-> "CLIENT", sel_class |-> gw_left.sel_class, reselect |-> 0,
           gateway_list |-> <<>>, curr_gw |-> NoGw, generation |-> 0]
  /\ election = NoElection /\ gw_view = "none" /\ gw_mesh = "up"

-----------------------------------------------------------------------------
(* Gateways. *)

\* 0: no container, or one that announces no bandwidth.
batadv_gw_tvlv_container_update(s) ==
  [s EXCEPT !.container = IF s.mode = "SERVER" THEN s.bandwidth ELSE 0, !.old = s.container]

SetServer ==
  \E g \in Gateways :
    /\ Calm /\ GwUse("changes")
    /\ \/ \E mode \in {"SERVER", "OFF"} \ {server[g].mode} :
            server' = [server EXCEPT ![g] = batadv_gw_tvlv_container_update([@ EXCEPT !.mode = mode])]
       \/ \E bw \in (0..2) \ {server[g].bandwidth} :
            server' = [server EXCEPT ![g] = batadv_gw_tvlv_container_update([@ EXCEPT !.bandwidth = bw])]
    /\ UNCHANGED <<route, gw, election, gw_view, gw_mesh>>

-----------------------------------------------------------------------------
(* The client: which gateway is best; w is the state of the client. *)

Listed(w, g) == {i \in DOMAIN w.gateway_list : w.gateway_list[i].orig = g}
batadv_gw_node_get(w, g) == w.gateway_list[CHOOSE i \in Listed(w, g) : TRUE]
Node(n) == [orig |-> n.orig, id |-> n.id]
Larger(a, b) == IF a > b THEN a ELSE b

\* Class 1 weighs the TQ by the bandwidth; the others take the best TQ.
IvFactor(n) == (route[n.orig] * route[n.orig] * n.bandwidth * 10000) \div 2^18
batadv_iv_gw_get_best_gw_node(w) ==
  LET Better(best, n) ==
        IF w.sel_class = 1
        THEN \/ IvFactor(n) > best.factor
             \/ IvFactor(n) = best.factor /\ route[n.orig] > best.tq
        ELSE route[n.orig] > best.tq
      Step(best, n) ==
        IF route[n.orig] < 1 THEN best
        ELSE [gw |-> IF Better(best, n) THEN Node(n) ELSE best.gw, tq |-> Larger(best.tq, route[n.orig]),
              factor |-> Larger(best.factor, IF w.sel_class = 1 THEN IvFactor(n) ELSE 0)]
  IN FoldLeft(Step, [gw |-> NoGw, tq |-> 0, factor |-> 0], w.gateway_list).gw

batadv_iv_gw_is_eligible(w, curr, g) ==
  /\ w.sel_class > 2
  /\ \/ route[curr] < 1
     \/ /\ route[g] > 0 /\ route[g] >= route[curr]
        /\ w.sel_class > 3 => route[g] - route[curr] >= w.sel_class

\* The worse of the path and of what the gateway announces.
batadv_v_gw_throughput_get(n) ==
  LET air == IF n.bandwidth > 0 THEN GW_OVERHEAD + GW_FRAME \div n.bandwidth ELSE 2^30
  IN Larger(route[n.orig], air)

batadv_v_gw_get_best_gw_node(w) ==
  LET Step(best, n) ==
        IF route[n.orig] < 1 \/ (best.orig # "none" /\ batadv_v_gw_throughput_get(n) >= best.air)
        THEN best ELSE [orig |-> n.orig, id |-> n.id, air |-> batadv_v_gw_throughput_get(n)]
  IN Node(FoldLeft(Step, [orig |-> "none", id |-> 0, air |-> 0], w.gateway_list))

batadv_v_gw_is_eligible(w, curr, g) ==
  LET gain == batadv_v_gw_throughput_get(batadv_gw_node_get(w, curr))
              - batadv_v_gw_throughput_get(batadv_gw_node_get(w, g))
  IN \/ Listed(w, curr) = {} \/ route[curr] < 1
     \/ Listed(w, g) # {} /\ route[g] > 0 /\ gain >= 0 /\ gain >= w.sel_class

get_best_gw_node(w) ==
  IF gw_left.algo = "IV" THEN batadv_iv_gw_get_best_gw_node(w) ELSE batadv_v_gw_get_best_gw_node(w)
is_eligible(w, curr, g) ==
  IF gw_left.algo = "IV" THEN batadv_iv_gw_is_eligible(w, curr, g)
  ELSE batadv_v_gw_is_eligible(w, curr, g)

-----------------------------------------------------------------------------
(* The client: its list of gateways. *)

batadv_gw_reselect(w) == [w EXCEPT !.reselect = 1]

\* A gateway that announces bandwidth after it was removed gets a new gw_node.
batadv_gw_node_add(w, g, bw) ==
  IF bw = 0 THEN w
  ELSE [w EXCEPT !.gateway_list = <<[orig |-> g, id |-> w.generation + 1, bandwidth |-> bw]>> \o @,
                 !.generation = @ + 1]

\* Mutant: removing the selected gateway does not start an election.
batadv_gw_node_update_Quiet(w, g, bw) ==
  LET i == CHOOSE k \in Listed(w, g) : TRUE
  IN IF Listed(w, g) = {} THEN batadv_gw_node_add(w, g, bw)
     ELSE IF bw # 0 THEN [w EXCEPT !.gateway_list[i].bandwidth = bw]
     ELSE [w EXCEPT !.gateway_list = RemoveAt(@, i), !.generation = @ + 1]

batadv_gw_node_update(w, g, bw) ==
  LET i == CHOOSE k \in Listed(w, g) : TRUE
      removed == [w EXCEPT !.gateway_list = RemoveAt(@, i), !.generation = @ + 1]
  IN IF Listed(w, g) = {} THEN batadv_gw_node_add(w, g, bw)
     ELSE IF bw # 0 THEN [w EXCEPT !.gateway_list[i].bandwidth = bw]
     ELSE IF Node(w.gateway_list[i]) = w.curr_gw THEN batadv_gw_reselect(removed)
     ELSE removed

\* The gateways that are gone leave the list one after the other.
batadv_gw_node_delete(w, gone) ==
  LET stay == SelectSeq(w.gateway_list, LAMBDA n : n.orig \notin gone)
      removed == [w EXCEPT !.gateway_list = stay, !.generation = @ + Len(w.gateway_list) - Len(stay)]
  IN IF \E i \in DOMAIN w.gateway_list : Node(w.gateway_list[i]) = w.curr_gw /\ w.curr_gw.orig \in gone
     THEN batadv_gw_reselect(removed) ELSE removed

batadv_gw_check_election(w, g) ==
  IF \/ w.curr_gw = NoGw
     \/ w.curr_gw.orig # g /\ is_eligible(w, w.curr_gw.orig, g)
  THEN batadv_gw_reselect(w) ELSE w

batadv_gw_tvlv_ogm_handler_v1(g, bw) ==
  LET w == batadv_gw_node_update(gw, g, bw)
  IN gw' = IF bw # 0 /\ gw.mode = "CLIENT" THEN batadv_gw_check_election(w, g) ELSE w

\* An OGM of a gateway.
Announce(g) ==
  /\ Calm /\ gw_mesh = "up" /\ route[g] >= 0
  /\ batadv_gw_tvlv_ogm_handler_v1(g, server[g].container)
  /\ UNCHANGED <<server, route, election, gw_view, gw_mesh, gw_left>>

\* An OGM that was overtaken: its TVLVs are handled before its sequence number is looked at.
AnnounceOld(g) ==
  /\ Calm /\ gw_mesh = "up" /\ route[g] >= 0 /\ GwUse("old")
  /\ batadv_gw_tvlv_ogm_handler_v1(g, server[g].old)
  /\ UNCHANGED <<server, route, election, gw_view, gw_mesh>>
-----------------------------------------------------------------------------
(* The client: the election. *)

\* The worker purges the originators that have timed out and starts an election.
Purged(w) == batadv_gw_node_delete(w, {g \in Gateways : route[g] = -1})

\* There is no election when nobody asked for one and a gateway is selected.
batadv_purge_orig_ref ==
  LET w == Purged(gw)
      read == [w EXCEPT !.reselect = 0]
      next == get_best_gw_node(read)
  IN /\ election.pc = "idle" /\ gw_mesh = "up"
     /\ IF w.mode # "CLIENT" \/ (w.reselect = 0 /\ w.curr_gw # NoGw)
        THEN gw' = w /\ UNCHANGED election
        ELSE /\ gw' = read
             /\ election' = IF next = w.curr_gw THEN NoElection
                            ELSE [pc |-> "elected", curr |-> w.curr_gw, next |-> next]
     /\ UNCHANGED <<server, route, gw_view, gw_mesh, gw_left>>

\* The router may be gone; otherwise user space is told.
batadv_gw_election ==
  /\ election.pc = "elected"
  /\ IF election.next # NoGw /\ route[election.next.orig] < 1
     THEN gw' = batadv_gw_reselect(gw) /\ election' = NoElection /\ UNCHANGED gw_view
     ELSE gw_view' = election.next.orig /\ election' = [election EXCEPT !.pc = "told"] /\ UNCHANGED gw
  /\ UNCHANGED <<server, route, gw_mesh, gw_left>>

batadv_gw_select ==
  /\ election.pc = "told"
  /\ gw' = [gw EXCEPT !.curr_gw = election.next]
  /\ election' = NoElection
  /\ UNCHANGED <<server, route, gw_view, gw_mesh, gw_left>>

\* Mutant: the gateway stays selected.
batadv_gw_check_client_stop_Not(w) == w

\* The client stops: no gateway, and user space is told if there was one.
batadv_gw_check_client_stop(w) ==
  IF w.mode = "CLIENT" THEN [w EXCEPT !.curr_gw = NoGw] ELSE w
Told(w) == gw_view' = IF w.mode = "CLIENT" /\ w.curr_gw # NoGw THEN "none" ELSE gw_view

SetMode ==
  \E mode \in {"CLIENT", "OFF"} \ {gw.mode} :
    /\ Calm /\ GwUse("modes") /\ gw_mesh # "freed"
    /\ gw' = [batadv_gw_check_client_stop(batadv_gw_reselect(gw)) EXCEPT !.mode = mode]
    /\ Told(gw)
    /\ UNCHANGED <<server, route, election, gw_mesh>>

SetSelClass ==
  \E class \in gw_left.class_set \ {gw.sel_class} :
    /\ Calm /\ GwUse("classes") /\ gw_mesh # "freed"
    /\ gw' = batadv_gw_reselect([gw EXCEPT !.sel_class = class])
    /\ UNCHANGED <<server, route, election, gw_view, gw_mesh>>

-----------------------------------------------------------------------------
(* What happens to routes and interfaces. *)

RouteChanges ==
  \E g \in Gateways, q \in gw_left.metrics \cup {0} :
    /\ Calm /\ GwUse("routes") /\ gw_mesh = "up" /\ route[g] # q
    /\ q = 0 => route[g] > 0
    /\ route' = [route EXCEPT ![g] = q]
    /\ UNCHANGED <<server, gw, election, gw_view, gw_mesh>>

TimesOut(g) ==
  /\ Calm /\ route[g] = 0 /\ route' = [route EXCEPT ![g] = -1]
  /\ UNCHANGED <<server, gw, election, gw_view, gw_mesh, gw_left>>

\* The last hard interface is removed from the mesh: routes go with it.
batadv_hardif_disable_interface ==
  /\ election.pc = "idle" /\ gw_mesh = "up" /\ GwUse("downs")
  /\ gw_mesh' = "down"
  /\ route' = [g \in Gateways |-> IF route[g] > 0 THEN 0 ELSE route[g]]
  /\ gw' = batadv_gw_check_client_stop(Purged(gw)) /\ Told(gw)
  /\ UNCHANGED <<server, election>>

\* A hard interface is added again, or the mesh interface is deleted.
EnableInterface ==
  /\ gw_mesh = "down" /\ gw_mesh' = "up"
  /\ UNCHANGED <<server, route, gw, election, gw_view, gw_left>>
batadv_gw_free ==
  /\ gw_mesh = "down" /\ gw_mesh' = "freed"
  /\ gw' = [gw EXCEPT !.gateway_list = <<>>, !.generation = @ + Len(gw.gateway_list)]
  /\ UNCHANGED <<server, route, election, gw_view, gw_left>>

GwNext ==
  \/ SetServer \/ SetMode \/ SetSelClass \/ RouteChanges
  \/ \E g \in Gateways : Announce(g) \/ AnnounceOld(g) \/ TimesOut(g)
  \/ batadv_purge_orig_ref \/ batadv_gw_election \/ batadv_gw_select
  \/ batadv_hardif_disable_interface \/ EnableInterface \/ batadv_gw_free
GwSpec == batadv_gw_init /\ [][GwNext]_gwVars

\* The worker runs every second, gateways send OGMs in every interval, originators time out.
GwFairness ==
  /\ WF_gwVars(batadv_purge_orig_ref \/ batadv_gw_election \/ batadv_gw_select)
  /\ \A g \in Gateways : WF_gwVars(Announce(g)) /\ WF_gwVars(TimesOut(g))
GwFairSpec == GwSpec /\ GwFairness

-----------------------------------------------------------------------------
(* Properties. *)

GwTypeOK ==
  /\ gw.mode \in {"CLIENT", "OFF"} /\ gw.reselect \in {0, 1}
  /\ \A i, j \in DOMAIN gw.gateway_list :
       /\ gw.gateway_list[i].orig \in Gateways /\ gw.gateway_list[i].bandwidth > 0
       /\ gw.gateway_list[i].id <= gw.generation
       /\ i # j => gw.gateway_list[i].orig # gw.gateway_list[j].orig
  /\ election.pc \in {"idle", "elected", "told"}

\* What user space knows from the uevents is what is selected, whatever was announced,
\* removed or lost while an election ran; and nothing is selected when the client does
\* not use gateways, so that the gateway is not kept when the mesh interface is freed.
ViewIsSelection ==
  /\ election.pc # "told" => gw_view = gw.curr_gw.orig
  /\ gw.mode = "OFF" \/ gw_mesh # "up" => gw.curr_gw = NoGw

\* The state that elections lead to: none is selected if none is in reach, and otherwise
\* one that is in reach and that no other betters by what the selection class asks for.
WellSelected ==
  LET usable == {g \in Gateways : server[g].container > 0 /\ route[g] > 0}
      c == gw.curr_gw.orig
      Gain(g) == IF gw_left.algo = "IV" THEN route[g] - route[c]
                 ELSE batadv_v_gw_throughput_get([orig |-> c, bandwidth |-> server[c].container])
                      - batadv_v_gw_throughput_get([orig |-> g, bandwidth |-> server[g].container])
      asked == IF gw_left.algo = "IV" THEN IF gw.sel_class > 3 THEN gw.sel_class ELSE 1 ELSE gw.sel_class
  IN IF usable = {} THEN c = "none"
     ELSE /\ c \in usable
          /\ (gw_left.algo = "IV" /\ gw.sel_class < 3) \/ \A g \in usable : Gain(g) < asked

\* When announcements, routes and settings stay as they are, the client comes to a gateway
\* that is well selected, and keeps it: one that was switched off, is out of reach, or was
\* only announced by an old OGM, is left.
GatewaySettles ==
  <>[](gw.mode = "CLIENT" /\ gw_mesh = "up" /\ ~gw_left.race => WellSelected)
=============================================================================
