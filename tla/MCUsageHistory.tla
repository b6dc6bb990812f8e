--------------------------- MODULE MCUsageHistory ---------------------------
(* UsageHistory over four days: a sync refreshes the last three, and        *)
(* retention deletes those before the last two or three.                    *)
EXTENDS UsageHistory
CONSTANTS w1, w2
MCWorkers == {w1, w2}
=============================================================================
