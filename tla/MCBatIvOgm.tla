------------------------------ MODULE MCBatIvOgm -----------------------------
(* Instances of BatIvOgm for TLC. *)
EXTENDS BatIvOgm

CONSTANTS NA, NB, NC, ia, ib, ib2, ic

MCOwner == ia :> NA @@ ib :> NB @@ ib2 :> NB @@ ic :> NC
MCPrimary == NA :> ia @@ NB :> ib @@ NC :> ic

Both(S) == S \cup {<<l[2], l[1]>> : l \in S}
Seqnos == ia :> SeqnoMod - 2 @@ ib :> 1 @@ ib2 :> 3 @@ ic :> 5
Scenario(order, links, losses, drifts, breaks, restarts, aggregate) ==
  [order |-> order, link |-> Both(links), seqno |-> [i \in ToSet(order) |-> Seqnos[i]],
   losses |-> losses, drifts |-> drifts, breaks |-> breaks, restarts |-> restarts,
   jumps |-> {2, 5}, aggregate |-> aggregate]

Pair(i, j) == {<<i, j>>}
Line == Pair(ia, ib) \cup Pair(ib, ic)
Triangle == Line \cup Pair(ia, ic)

\* Three nodes that hear each other; two parallel links; a node between two LANs whose
\* OGMs are aggregated; single faults of each kind; two losses on one link.
MCScenarios == {
  Scenario(<<ia, ib, ic>>, Triangle, 0, 0, 0, 0, FALSE),
  Scenario(<<ia, ib, ib2>>, Pair(ia, ib) \cup Pair(ia, ib2), 0, 0, 0, 0, FALSE),
  Scenario(<<ia, ib, ib2, ic>>, Pair(ia, ib) \cup Pair(ib2, ic), 0, 0, 0, 0, TRUE),
  Scenario(<<ia, ib, ic>>, Line, 1, 0, 0, 0, FALSE),
  Scenario(<<ia, ib, ic>>, Line, 0, 1, 0, 0, TRUE),
  Scenario(<<ia, ib>>, Pair(ia, ib), 0, 0, 1, 0, FALSE),
  Scenario(<<ia, ib>>, Pair(ia, ib), 0, 0, 0, 1, FALSE),
  Scenario(<<ia, ib>>, Pair(ia, ib), 2, 0, 0, 0, FALSE)}
=============================================================================
