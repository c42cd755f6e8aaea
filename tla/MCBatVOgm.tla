----------------------------- MODULE MCBatVOgm ------------------------------
(***************************************************************************)
(* Small instances of BatVOgm for TLC.  Meshes are given by their radio    *)
(* links; model values name nodes and interfaces.                          *)
(***************************************************************************)
EXTENDS BatVOgm

CONSTANTS n1, n2, n3, if1, if2

Both(x, y) == {<<x, y>>, <<y, x>>}

\* Radio links of three nodes in range of each other on interface if1.  Nothing
\* that n1 hears matters to the routes towards n1, so the links into n1 are left out
\* of TriangleFromN1; n1 still knows its neighbours.
Triangle == Both(<<n1, if1>>, <<n2, if1>>) \cup Both(<<n2, if1>>, <<n3, if1>>)
              \cup Both(<<n1, if1>>, <<n3, if1>>)
TriangleFromN1 == {l \in Triangle : l[2][1] # n1}

\* Every link costs 1, except that the link from n1 to n2 degrades and recovers.
VaryingFirstHop ==
  [l \in Addr \X Addr |-> IF l = <<<<n1, if1>>, <<n2, if1>>>> THEN {1, 5} ELSE {1}]

\* The chain n1 - n2 - n3.
Chain == Both(<<n1, if1>>, <<n2, if1>>) \cup Both(<<n2, if1>>, <<n3, if1>>)
AllCostOne == [l \in Addr \X Addr |-> {1}]

\* Two nodes with two radios each; n2 hears n1 on both.
TwoRadios == {<<<<n1, if1>>, <<n2, if1>>>>, <<<<n1, if2>>, <<n2, if2>>>>}
TwoRadiosKnown == Both(<<n1, if1>>, <<n2, if1>>) \cup Both(<<n1, if2>>, <<n2, if2>>)
If2IsWorse == [l \in Addr \X Addr |-> IF l[2][2] = if2 THEN {3} ELSE {1}]
If2OfN2 == {<<n2, if2>>}

\* Weights an administrator may set: Premium makes a node advertise a quarter of
\* its cost, Heavier twice its cost.
NoWeights == [n \in Node |-> {}]
Premium == {[priority |-> 1, duty_cycle |-> 4, power_class |-> 1]}
Heavier == {[priority |-> 8, duty_cycle |-> 4, power_class |-> 1]}
Premium23 == [NoWeights EXCEPT ![n2] = Premium, ![n3] = Premium]
Heavier2 == [NoWeights EXCEPT ![n2] = Heavier]
NoAddr == {}

\* n3 hears n1 through n2, whose hardif_neigh it then shares between the
\* originators n1 and n2; it has known n1 directly, but that link is dead.  Only
\* what travels away from n1 is followed.
Detour == {<<<<n1, if1>>, <<n2, if1>>>>, <<<<n2, if1>>, <<n3, if1>>>>}
DetourKnown == Detour \cup {<<<<n1, if1>>, <<n3, if1>>>>,
                  <<<<n2, if1>>, <<n1, if1>>>>, <<<<n3, if1>>, <<n2, if1>>>>}
If1OfN3 == {<<n3, if1>>}
=============================================================================
