----------------------------- MODULE BatVMetric -----------------------------
(***************************************************************************)
(* The arithmetic of the B.A.T.M.A.N. V airtime metric (net/batman-adv/    *)
(* bat_v.c, bat_v_elp.c, bat_v_ogm.c): how a link cost is derived from a   *)
(* base airtime and a loss estimate, how a path cost grows along a hop,    *)
(* how a node's weight scales the cost it advertises, and how two          *)
(* neighbours are compared.  A smaller airtime is better.                  *)
(*                                                                         *)
(* Every u32 expression of the code keeps its width: U32 is the number of  *)
(* values of the type (2^32 in the code, smaller when TLC enumerates), and *)
(* an expression evaluated in u32 is reduced modulo U32 exactly where the  *)
(* code does not widen to u64 first.                                       *)
(***************************************************************************)
EXTENDS Integers

CONSTANTS
  U32,                  \* number of values of a u32
  WEIGHT_SCALE,         \* BATADV_WEIGHT_SCALE, the neutral weight
  PRIORITY_NEUTRAL,     \* the 128 of priority_factor
  FULL_DUTY,            \* the 100 of duty_factor
  TQ_MAX_VALUE,         \* BATADV_TQ_MAX_VALUE, the unit of hop_penalty
  HALF_DUPLEX_PENALTY,  \* BATADV_AIRTIME_HALF_DUPLEX_PENALTY
  LOSS_SCALE,           \* the 1000 of e_pt: a loss of 100%
  EWMA_WEIGHT,          \* BATADV_AIRTIME_EWMA_WEIGHT
  OVERHEAD,             \* BATADV_AIRTIME_OVERHEAD
  FRAME_TIME            \* TEST_FRAME_SIZE * 1000000, in bit * us / s

ASSUME MetricAssumption ==
  /\ U32 \in Nat /\ U32 > 2 /\ U32 % 2 = 0
  /\ WEIGHT_SCALE \in Nat \ {0} /\ PRIORITY_NEUTRAL \in Nat \ {0}
  /\ FULL_DUTY \in Nat \ {0} /\ TQ_MAX_VALUE \in Nat \ {0}
  /\ HALF_DUPLEX_PENALTY \in Nat \ {0} /\ LOSS_SCALE \in Nat \ {0}
  /\ EWMA_WEIGHT \in Nat \ {0} /\ OVERHEAD \in Nat /\ FRAME_TIME \in Nat

u32 == 0 .. U32 - 1

\* Mutant: one more than a u32 can hold.
AIRTIME_MAX_VALUE_TooWide == U32

AIRTIME_MAX_VALUE == U32 - 1

\* Conversion of a u32 to the s32 with the same bits.
s32(x) == IF x >= U32 \div 2 THEN x - U32 ELSE x

-----------------------------------------------------------------------------
(* Node weights (bat_v_ogm.c). *)

\* batadv_node_weight_factor(): the node's own weight, WEIGHT_SCALE = neutral.
batadv_node_weight_factor(w) ==
  LET duty_cycle      == IF w.duty_cycle = 0 THEN 1 ELSE w.duty_cycle
      priority_factor == (w.priority * WEIGHT_SCALE) \div PRIORITY_NEUTRAL
      duty_factor     == (FULL_DUTY * WEIGHT_SCALE) \div duty_cycle
      power_factor    == w.power_class * WEIGHT_SCALE
  IN  (priority_factor * duty_factor * power_factor)
        \div (WEIGHT_SCALE * WEIGHT_SCALE)

\* The block of batadv_v_ogm_forward() that scales the advertised path cost.
\* The saturation test looks at the product before it is divided.
WeightedPath(path, weight) ==
  IF weight = WEIGHT_SCALE THEN path
  ELSE IF path * weight > AIRTIME_MAX_VALUE THEN AIRTIME_MAX_VALUE
  ELSE LET scaled == (path * weight) \div WEIGHT_SCALE
       IN  IF scaled = 0 THEN 1 ELSE scaled

-----------------------------------------------------------------------------
(* Path cost of a received OGM (bat_v_ogm.c). *)

\* batadv_v_forward_penalty(); outgoing is "default" for BATADV_IF_DEFAULT,
\* "same" when the OGM leaves on the interface it came in on, "other" else.
batadv_v_forward_penalty(airtime, outgoing, full_duplex, hop_penalty) ==
  IF outgoing = "default" THEN airtime
  ELSE IF outgoing = "same" /\ ~full_duplex THEN (airtime * HALF_DUPLEX_PENALTY) % U32
  ELSE (airtime + ((airtime * hop_penalty) % U32) \div TQ_MAX_VALUE) % U32

\* The addition of batadv_v_ogm_metric_update() with its wrap-around test.
PathAirtime(ogm_path, link_airtime) ==
  LET sum == (ogm_path + link_airtime) % U32
  IN  IF sum < ogm_path THEN AIRTIME_MAX_VALUE ELSE sum

-----------------------------------------------------------------------------
(* Link cost of a neighbour (bat_v_elp.c). *)

\* The "calculate" label of batadv_v_elp_airtime_get_base().
BaseAirtime(bitrate) ==
  IF bitrate > 0 THEN (OVERHEAD + FRAME_TIME \div bitrate) % U32
                 ELSE AIRTIME_MAX_VALUE

\* e_pt of batadv_v_elp_airtime_metric_update(), from the two ELP counters.
LossRate(received, expected) ==
  IF expected > 0
    THEN (LOSS_SCALE - ((received * LOSS_SCALE) % U32) \div expected) % U32
    ELSE 0

Smoothed(e_pt, old) == ((e_pt + (EWMA_WEIGHT - 1) * old) % U32) \div EWMA_WEIGHT

\* Mutant: the success rate is multiplied, not divided by.
LinkCost_Multiplied(base_airtime, e_pt_smoothed) ==
  IF e_pt_smoothed < LOSS_SCALE
    THEN ((base_airtime * (LOSS_SCALE - e_pt_smoothed)) % U32) \div LOSS_SCALE
    ELSE AIRTIME_MAX_VALUE

\* The final airtime_cost of batadv_v_elp_airtime_metric_update(): the product
\* is evaluated in u32.
LinkCost(base_airtime, e_pt_smoothed) ==
  IF e_pt_smoothed < LOSS_SCALE
    THEN ((base_airtime * LOSS_SCALE) % U32) \div (LOSS_SCALE - e_pt_smoothed)
    ELSE AIRTIME_MAX_VALUE

-----------------------------------------------------------------------------
(* Comparisons (bat_v.c). *)

\* batadv_v_neigh_cmp() for two neighbours that both have an ifinfo: positive
\* when the first one is preferred.  The u32 costs are compared as int.
batadv_v_neigh_cmp(cost1, cost2) ==
  s32((s32(cost2) - s32(cost1)) % U32)
=============================================================================
