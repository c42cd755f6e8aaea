---------------------------- MODULE MCTransTable -----------------------------
(***************************************************************************)
(* Small instances of TransTable and Unicast for TLC.                      *)
(***************************************************************************)
EXTENDS Unicast

CONSTANTS n1, n2, n3, c1, c2

\* One client, or two, on one VLAN; they start at n1.
OneClient == {<<c1, 1>>}
TwoClients == {<<c1, 1>>, <<c2, 1>>}
AtN1 == [k \in Client |-> n1]

\* n1 and n2 hear each other, or n2 and n3 hear n1.
Pair == {<<n1, n2>>, <<n2, n1>>}
Fan == {<<n1, n2>>, <<n1, n3>>}
Quiet == [hears |-> Pair, moves |-> 0, timeouts |-> 0, resizes |-> 0, reboots |-> 0, losses |-> 0,
          frames |-> 0, from |-> {}, via |-> <<>>]

\* Frames sent at n3, from where the path to n1 leads through n2, or to n2 through n1.
Line(a, b, c) ==
  LET pos == a :> 1 @@ b :> 2 @@ c :> 3
  IN [n \in Node |-> [o \in Node |-> IF n = o THEN n ELSE IF pos[n] - pos[o] \in {1, -1} THEN o ELSE b]]
Sending(via, frames, losses) ==
  [Quiet EXCEPT !.hears = Pair \cup {<<n1, n3>>, <<n2, n3>>}, !.moves = 1, !.frames = frames,
                !.losses = losses, !.from = {n3}, !.via = via]

\* One roaming with a loss or a timeout, a reboot, a node that answers for another,
\* a shrinking MTU.
Mishaps == {[Quiet EXCEPT !.moves = 1, !.losses = 1], [Quiet EXCEPT !.moves = 1, !.timeouts = 1],
            [Quiet EXCEPT !.reboots = 1], [Quiet EXCEPT !.hears = Fan, !.timeouts = 1],
            [Quiet EXCEPT !.resizes = 1],
            Sending(Line(n3, n2, n1), 1, 0), Sending(Line(n3, n1, n2), 1, 1)}
=============================================================================
