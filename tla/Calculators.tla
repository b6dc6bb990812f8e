---------------------------- MODULE Calculators ----------------------------
(***************************************************************************)
(* The parts of the system that only compute: the tiers of an expression,  *)
(* the chart of the stored usage, and the comparison of prices.  They      *)
(* share no state; a behaviour enlarges the input of one of them, so that  *)
(* every input within the bounds is reached.                               *)
(***************************************************************************)
EXTENDS BillingExpr, Trends, Pricing

vars == <<expr, instances, upstreams>>

Init == ExprInit /\ TrendsInit /\ PricingInit

Next ==
  \/ Wrap /\ TrendsInit /\ PricingInit /\ UNCHANGED <<instances, upstreams>>
  \/ AddInstance /\ ExprInit /\ PricingInit /\ UNCHANGED <<expr, upstreams>>
  \/ AddUpstream /\ ExprInit /\ TrendsInit /\ UNCHANGED <<expr, instances>>

Spec == Init /\ [][Next]_vars
=============================================================================
