---------------------------- MODULE MCAlertRules ----------------------------
(* AlertRules on small instances: rule 1 is a configured balance rule that  *)
(* wants two hits, rule 2 a connectivity rule, rule 3 the quick switch.     *)
EXTENDS AlertRules
MCBalance == {1}
MCConnectivity == {2}
MCQuick == {3}
MCNone == {}
MCOneTarget == {1}
MCRequired == [r \in Rules |-> IF r = 1 THEN 2 ELSE 1]
=============================================================================
