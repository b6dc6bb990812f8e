----------------------------- MODULE MCRateFeed -----------------------------
(* RateFeed with two ratios: doubling one is a change of 100 percent,       *)
(* halving it one of 50, on either side of the minimum.                     *)
EXTENDS RateFeed
CONSTANTS w1, w2
MCGroups == {1, 2}
MCRatios == {1, 2}
MCAnswers == {<<None, None>>, <<1, None>>, <<1, 1>>, <<2, 1>>, <<2, 2>>}
MCOneWorker == {w1}
MCTwoWorkers == {w1, w2}
=============================================================================
