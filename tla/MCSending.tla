------------------------------ MODULE MCSending ------------------------------
(***************************************************************************)
(* The send queues with their interfaces, the containers that go into the  *)
(* OGMs, and the broadcasts that a node receives, for TLC.  They share no  *)
(* state, so that a behaviour is one of one of them: part says of which.   *)
(***************************************************************************)
EXTENDS SendQueue, Tvlv, Flood

CONSTANTS wlan, lan
VARIABLE part

MCNumBcasts == wlan :> 2 @@ lan :> 1

Bounds(used, neigh, bcasts, changes, events, interrupted) ==
  [used |-> used, neigh |-> neigh, bcasts |-> bcasts, changes |-> changes, events |-> events,
   interrupted |-> interrupted]
Many == [i \in Hardif |-> 2]
Few == wlan :> 1 @@ lan :> 0

MCScenarios == {Bounds(<<>>, Many, 0, 4, 0, FALSE), Bounds(<<wlan>>, Many, 2, 1, 0, FALSE),
  Bounds(<<wlan, lan>>, Many, 1, 0, 0, FALSE), Bounds(<<wlan, lan>>, Many, 0, 2, 1, FALSE),
  Bounds(<<lan, wlan>>, Few, 1, 0, 1, TRUE)}

\* Two originators, one of which changes what it announces about a gateway: while another OGM
\* is processed, with old OGMs, with a failed allocation, without any container.
Tc(t, v) == [type |-> t, data |-> v]
MCTt == <<Tc("tt", "x")>>
MCTtGw == <<Tc("tt", "x"), Tc("gw", "x")>>
Ts(algo, start, varying, changes, failures, late, overlaps) ==
  [algo |-> algo, start |-> start, varying |-> varying, changes |-> changes, failures |-> failures,
   late |-> late, overlaps |-> overlaps]
MCTvLen == [tt |-> 2, gw |-> 1]
MCTvHandlers == <<[type |-> "tt", cif |-> FALSE], [type |-> "gw", cif |-> TRUE]>>
NoOgms == Ts("V", <<>>, {}, 0, 0, 0, 0)
MCTv == {
  NoOgms,
  Ts("V", [o1 |-> MCTtGw, o2 |-> MCTt], {<<"o1", "gw">>}, 1, 0, 0, 1),
  Ts("V", [o1 |-> MCTtGw, o2 |-> MCTt], {}, 0, 0, 0, 2),
  Ts("V", [o1 |-> MCTt], {<<"o1", "gw">>}, 1, 1, 1, 0),
  Ts("V", [o1 |-> <<>>], {<<"o1", "gw">>}, 2, 0, 1, 0),
  Ts("IV", [o1 |-> MCTtGw], {<<"o1", "gw">>}, 2, 1, 0, 0)}

\* Two gateways of a LAN: sequence numbers that wrap, more frames than the list of duplicates
\* has, a full send queue and a late copy, a restart far off the last sequence number.
Fl(seq, frames, paths, restarts, busy, timeouts, unicasts) ==
  [seqno |-> seq, frames |-> frames, paths |-> paths, restarts |-> restarts,
   busy |-> busy, timeouts |-> timeouts, unicasts |-> unicasts,
   timely |-> timeouts = 0 /\ Cardinality(frames) <= DUPLIST_SIZE,
   complete |-> restarts = 0 /\ busy = 0]
NoFrames == Fl([g1 |-> 0, g2 |-> 0], {}, {1}, 0, 0, 0, 0)
MCFl == {
  NoFrames,
  Fl([g1 |-> 15, g2 |-> 6], {"f1", "f2"}, {1, 2}, 0, 0, 0, 0),
  Fl([g1 |-> 15, g2 |-> 6], {"f1", "f2", "f3"}, {1}, 0, 0, 0, 1),
  Fl([g1 |-> 1, g2 |-> 6], {"f1", "f2"}, {1}, 0, 0, 0, 2),
  Fl([g1 |-> 1, g2 |-> 6], {"f1", "f2"}, {1}, 0, 1, 1, 1),
  Fl([g1 |-> 9, g2 |-> 2], {"f1", "f2"}, {1, 2}, 1, 0, 0, 0)}

-----------------------------------------------------------------------------

\* What is not chosen stays in one initial state.
SeInit ==
  /\ part \in {"queue", "tvlv", "flood"}
  /\ SqInit /\ (part # "queue" => bounds = CHOOSE b \in MCScenarios : TRUE)
  /\ batadv_tvlv_init /\ (part # "tvlv" => tv_left = NoOgms)
  /\ FlInit /\ (part # "flood" => fl_left = NoFrames)
SeNext ==
  \/ part = "queue" /\ SqNext /\ UNCHANGED <<part, tvVars, flVars>>
  \/ part = "tvlv" /\ TvNext /\ UNCHANGED <<part, sqVars, flVars>>
  \/ part = "flood" /\ FlNext /\ UNCHANGED <<part, sqVars, tvVars>>
seVars == <<part, sqVars, tvVars, flVars>>

\* The fairness of what was chosen, as in its module.
SeFairness ==
  /\ WF_sqVars(part = "queue" /\ Work) /\ WF_sqVars(part = "queue" /\ Administer)
  /\ \A o \in TvOrig : WF_tvVars(part = "tvlv" /\ SendOgm(o))
  /\ WF_tvVars(part = "tvlv" /\ \E p \in Processor : ReceiveOgm(p) \/ batadv_tvlv_containers_process(p))
SeFairSpec == SeInit /\ [][SeNext]_seVars /\ SeFairness
=============================================================================
