--------------------------- MODULE MCCalculators ---------------------------
(* Values for the constants of Calculators.                                *)
EXTENDS Calculators

MCThresholds == {1, 2}
MCShapes == {"plain", "both", "other", "nested"}

(* Three days: one may be idle, be missed by the syncs and made up for      *)
(* later or not at all, have lost its row, or begin with a new count.       *)
Day(spent, synced, kept, reset) ==
  [spent |-> spent, synced |-> synced, kept |-> kept, reset |-> reset]
MCHistories ==
  [1..3 -> {Day(0, TRUE, TRUE, FALSE), Day(1, FALSE, TRUE, FALSE),
            Day(2, TRUE, FALSE, FALSE), Day(1, FALSE, FALSE, FALSE),
            Day(1, TRUE, FALSE, TRUE)}]

(* No rule, and some text that could be taken for a choice of tiers.        *)
MCRequestRules ==
  {<<>>, <<Mark("("), Time, Mark(")"), Mark("bar"), Other, Mark("?"), Tier(2),
           Mark(":"), Tier(3)>>}

(* Two groups, of which an upstream offers the model in one or both, at a   *)
(* price of input, of a request, of both or of neither.                     *)
Offer(offered, price, ratio, mine) ==
  [offered |-> offered, input |-> price[1], request |-> price[2],
   ratio |-> ratio, mine |-> mine]
Offers(prices, firsts, seconds, mines) ==
  {(1 :> Offer(TRUE, price, first, mine)) @@ (2 :> Offer(both, price, second, None))
     : price \in prices, first \in firsts, second \in seconds, mine \in mines,
       both \in BOOLEAN}

Input == {<<1, None>>, <<2, None>>}
Request == {<<None, 1>>}
Both == {<<2, 1>>}
Neither == {<<None, None>>}

List(kind, units, usables, answers, perRequests, tiereds, outputs, offers) ==
  [kind : {kind}, unit : units, usable : usables, answered : answers,
   perRequest : perRequests, tiered : tiereds, output : outputs, offers : offers]
NewApi(units, usables, answers, perRequest, tiered, prices) ==
  List("newapi", units, usables, answers, {perRequest}, {tiered}, {FALSE},
       Offers(prices, {1, 2}, {0, 3}, {None}))
Plaza(perRequests, tiereds, outputs, offers) ==
  List("plaza", {1}, {{1, 2}}, {TRUE}, perRequests, tiereds, outputs, offers)

MCUpstreams ==
  NewApi({1, 2}, {{1}, {1, 2}}, {TRUE}, FALSE, FALSE, Input)
    \cup NewApi({2}, {{2}, {1, 2}}, {TRUE}, FALSE, TRUE, Input)
    \cup NewApi({2}, {{1, 2}}, {FALSE}, FALSE, FALSE, Input)
    \cup NewApi({2}, {{1, 2}}, {TRUE}, TRUE, FALSE, Request)
    \cup NewApi({2}, {{1, 2}}, {TRUE}, TRUE, TRUE, Request)
    \cup Plaza({FALSE}, {FALSE}, {FALSE}, Offers(Input, {1, 2}, {0, 3}, {None, 3}))
    \cup Plaza(BOOLEAN, BOOLEAN, BOOLEAN,
               Offers(Request \cup Both \cup Neither, {2}, {3}, {None}))
    \cup List("shell", {2}, {{1, 2}}, {TRUE}, {FALSE}, {FALSE}, {FALSE},
              Offers(Input, {1}, {3}, {None}))
    \cup List("shell", {2}, {{1, 2}}, {TRUE}, {TRUE}, {FALSE}, {FALSE},
              Offers(Request, {1}, {3}, {None}))
    \cup List("usage", {1}, {{1, 2}}, {TRUE}, {FALSE}, {FALSE}, {FALSE},
              Offers(Neither, {1}, {3}, {None}))
=============================================================================
