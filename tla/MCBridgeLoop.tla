---------------------------- MODULE MCBridgeLoop -----------------------------
(***************************************************************************)
(* Small instances of BridgeLoop for TLC.                                  *)
(***************************************************************************)
EXTENDS BridgeLoop

CONSTANTS g1, g2, g3, m1, m2

Groups == [g \in Gateway |-> IF g = g1 THEN 1 ELSE IF g = g2 THEN 2 ELSE 3]

Calm == [running |-> {g1, g2}, met |-> TRUE, frames |-> 2, timeouts |-> 0, losses |-> 0,
         switches |-> 0, stops |-> 0, starts |-> 0]

\* Two gateways with a lost frame, a timeout, a switch, a crash and restart or groups
\* that form late; three gateways one of which stops.
Troubles == {[Calm EXCEPT !.frames = 3], [Calm EXCEPT !.losses = 1], [Calm EXCEPT !.timeouts = 1],
             [Calm EXCEPT !.switches = 1], [Calm EXCEPT !.met = FALSE],
             [Calm EXCEPT !.frames = 1, !.stops = 1, !.starts = 1],
             [Calm EXCEPT !.frames = 1, !.running = Gateway, !.stops = 1]}
=============================================================================
