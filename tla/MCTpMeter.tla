------------------------------ MODULE MCTpMeter ------------------------------
(* Instances of TpMeter for TLC. *)
EXTENDS TpMeter

Quiet == [tests |-> 1, segments |-> 4, failures |-> 0, losses |-> 0, overtakes |-> 0, early |-> 0, idle |-> 0,
          finish |-> 0, stops |-> 0, deletions |-> 0, leaves |-> 0]
With(f) == [x \in DOMAIN Quiet |-> IF x \in DOMAIN f THEN f[x] ELSE Quiet[x]]

\* A test whose length is over while the mesh interface is deleted.
MCTpEnd == {With([finish |-> 1, deletions |-> 1])}
=============================================================================
