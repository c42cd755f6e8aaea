------------------------------ MODULE MCServices ------------------------------
(***************************************************************************)
(* The services that a node offers on top of routing, for TLC.  Each has   *)
(* state of its own and they share none, so that a behaviour is one of one *)
(* service: part says which.                                               *)
(***************************************************************************)
EXTENDS TpMeter, Fragment, Gateway, Dat

CONSTANTS pa, pb, pc, pd, pe
VARIABLE part

(* Instances *)

\* Bounds of a throughput test: any one party ends it.
NoTpEvent == [tests |-> 1, segments |-> 4, failures |-> 0, losses |-> 0, overtakes |-> 0, early |-> 0, idle |-> 0,
          finish |-> 0, stops |-> 0, deletions |-> 0, leaves |-> 0]
With(f) == [x \in DOMAIN NoTpEvent |-> IF x \in DOMAIN f THEN f[x] ELSE NoTpEvent[x]]
MCTp == {
  With([finish |-> 1, losses |-> 1, segments |-> 7]),
  With([finish |-> 1, losses |-> 1, overtakes |-> 1]),
  With([finish |-> 1, early |-> 1, overtakes |-> 1]),
  With([tests |-> 2, finish |-> 1, failures |-> 1, segments |-> 3]),
  With([stops |-> 1, losses |-> 1]), With([idle |-> 1]),
  With([deletions |-> 1, losses |-> 1]),
  With([leaves |-> 1, losses |-> 1])}

\* Packets of two and three fragments, one of them too large for the second link, one
\* too large to fragment, one that needs none.
MCLength == pe :> 8 @@ pa :> 12 @@ pb :> 7 @@ pc :> 13 @@ pd :> 3
MCMtu == [relay |-> 6, dest |-> 8]
Fs(first, packets, losses, repeats, errors, timeouts, reliable) ==
  [first |-> first, packets |-> packets, losses |-> losses, repeats |-> repeats, errors |-> errors,
   timeouts |-> timeouts, reliable |-> reliable]
MCFrag == {
  Fs(1, {pa, pb}, 0, 1, 0, 0, TRUE), Fs(0, {pa, pb, pe}, 1, 0, 0, 0, FALSE),
  Fs(0, {pb, pe}, 1, 1, 0, 1, FALSE), Fs(2, {pb, pc, pd}, 1, 1, 1, 0, FALSE)}

\* Two gateways: announcements, routes, settings and interfaces change, one or two at a time;
\* in two scenarios while elections run.
Gs(algo, class, classes, bw, r, race, changes, routes, old, modes, downs) ==
  [algo |-> algo, sel_class |-> class, class_set |-> classes, classes |-> IF classes = {} THEN 0 ELSE 1,
   bandwidth |-> [g1 |-> bw[1], g2 |-> bw[2]], route |-> [g1 |-> r[1], g2 |-> r[2]], metrics |-> {r[1], r[2]},
   race |-> race, changes |-> changes, routes |-> routes, old |-> old, modes |-> modes, downs |-> downs]
NoGateways == Gs("V", 50, {}, <<0, 0>>, <<400, 700>>, FALSE, 0, 0, 0, 0, 0)
MCGw == {
  NoGateways,
  Gs("V", 50, {}, <<1, 2>>, <<400, 700>>, FALSE, 1, 1, 1, 0, 0),
  Gs("V", 500, {50}, <<1, 2>>, <<400, 900>>, FALSE, 0, 1, 0, 1, 1),
  Gs("V", 50, {}, <<2, 1>>, <<400, 900>>, TRUE, 1, 1, 0, 0, 0),
  Gs("V", 50, {}, <<2, 1>>, <<400, 900>>, TRUE, 1, 0, 1, 0, 0),
  Gs("IV", 20, {1, 3}, <<1, 2>>, <<200, 100>>, FALSE, 1, 1, 0, 0, 0),
  Gs("IV", 2, {20}, <<1, 0>>, <<200, 100>>, FALSE, 1, 0, 1, 2, 0),
  Gs("IV", 3, {}, <<1, 1>>, <<200, 200>>, FALSE, 0, 1, 0, 0, 1)}

\* Four nodes, two of them with the same address in the DHT, and two hosts that ask for
\* each other.
MCNodes == <<"a", "b", "c", "d">>
MCAt == [i1 |-> "a", i2 |-> "b"]
MCMac == [i1 |-> "m1", i2 |-> "m2"]
MCAddr == [a |-> 1, b |-> 6, c |-> 3, d |-> 3]
MCKey == [i1 |-> 2, i2 |-> 5]
Ds(asks, disabled, losses, purges, dhcp, settings, calm) ==
  [asks |-> asks, disabled |-> disabled, losses |-> losses, purges |-> purges, acks |-> dhcp,
   settings |-> settings, calm |-> calm]
MCDat == {
  Ds({<<"i1", "i2">>, <<"i2", "i1">>}, {}, 0, 0, 0, 0, TRUE),
  Ds({<<"i1", "i2">>}, {}, 1, 1, 0, 0, FALSE),
  Ds({<<"i1", "i2">>}, {"a"}, 1, 0, 0, 0, FALSE),
  Ds({<<"i1", "i2">>}, {}, 0, 0, 1, 0, TRUE),
  Ds({<<"i1", "i2">>}, {"d"}, 0, 0, 0, 1, FALSE)}

-----------------------------------------------------------------------------

\* A service that is not chosen stays in one initial state.
SvInit ==
  /\ part \in {"tp", "frag", "gw", "dat"}
  /\ TpInit /\ (part # "tp" => tp_left = CHOOSE b \in MCTp : TRUE)
  /\ FragInit /\ (part # "frag" => frag_left = CHOOSE b \in MCFrag : TRUE)
  /\ batadv_gw_init /\ (part # "gw" => gw_left = NoGateways)
  /\ batadv_dat_init /\ (part # "dat" => dat_left = CHOOSE b \in MCDat : TRUE)
SvNext ==
  \/ part = "tp" /\ TpNext /\ UNCHANGED <<part, fragVars, gwVars, datVars>>
  \/ part = "frag" /\ FragNext /\ UNCHANGED <<part, tpVars, gwVars, datVars>>
  \/ part = "gw" /\ GwNext /\ UNCHANGED <<part, tpVars, fragVars, datVars>>
  \/ part = "dat" /\ DatNext /\ UNCHANGED <<part, tpVars, fragVars, gwVars>>
svVars == <<part, tpVars, fragVars, gwVars, datVars>>

\* The fairness of the service that was chosen, as in its module.
SvFairness ==
  /\ WF_tpVars(part = "tp" /\ (SendBegins \/ batadv_tp_send \/ batadv_tp_sender_end))
  /\ WF_tpVars(part = "tp" /\ batadv_tp_sender_finish)
  /\ WF_tpVars(part = "tp" /\ batadv_tp_sender_timeout)
  /\ WF_tpVars(part = "tp" /\ StopAllEnds)
  /\ WF_tpVars(part = "tp" /\ DeliverData)
  /\ WF_tpVars(part = "tp" /\ DeliverAck)
  /\ []<>(air = {} /\ wholes = {}) \/ []<><<part = "frag" /\ ReceiveFrame>>_fragVars
  /\ WF_gwVars(part = "gw" /\ (batadv_purge_orig_ref \/ batadv_gw_election \/ batadv_gw_select))
  /\ \A g \in Gateways : WF_gwVars(part = "gw" /\ Announce(g)) /\ WF_gwVars(part = "gw" /\ TimesOut(g))
  /\ []<>(arp = {} /\ delayed = {}) \/ []<><<part = "dat" /\ (SendDelayed \/ ReceiveArp)>>_datVars
  /\ []<>(\A a \in asking : ~Quiet(a[1])) \/ []<><<part = "dat" /\ Retry>>_datVars
SvSpec == SvInit /\ [][SvNext]_svVars
SvFairSpec == SvInit /\ [][SvNext]_svVars /\ SvFairness

-----------------------------------------------------------------------------
(* Properties. *)

\* The window of a test keeps its limits (batadv_tp_update_cwnd()), a chain of fragments
\* its order and its size (batadv_frag_insert_packet()), the list of gateways only those
\* with a bandwidth (batadv_gw_node_update()), and the address cache only pairs that
\* belong together (batadv_dat_entry_add()).
SvTypeOK == TpTypeOK /\ FragTypeOK /\ GwTypeOK /\ DatTypeOK
===============================================================================
