------------------------------- MODULE Pricing -------------------------------
(***************************************************************************)
(* The price of one model at several upstreams: read from price lists of   *)
(* different shapes (app/clients/newapi.py, app/clients/sub2api.py), put   *)
(* into common units by a sync (_normalized_prices of                      *)
(* app/services/sync_service.py) and compared with the group ratios        *)
(* applied (compare_pricing_models of app/services/pricing_service.py).    *)
(*                                                                         *)
(* Prices are in dollars for a million tokens, or for a request.           *)
(***************************************************************************)
EXTENDS Integers, SequencesExt

CONSTANTS
  Groups,
  Upstreams,     \* what an upstream may be like (see UpstreamShape)
  MaxUpstreams,  \* bound: upstreams
  None

VARIABLE upstreams

(***************************************************************************)
(* A kind of price list ("newapi" stands for RixAPI's too); what a million *)
(* tokens cost at a ratio of one, in dollars (1,000,000 / quota_per_unit); *)
(* the groups that the account may use, and whether the request for their  *)
(* ratios is answered.  The model is priced for a request or for tokens,   *)
(* maybe in tiers, of which the prices here are the first; and a plaza may *)
(* name prices of output or of cached tokens.  For each group: does it     *)
(* offer the model, at what price of input and of a request, as ratios or  *)
(* in dollars, times what multiplier, or what other one for this account.  *)
(***************************************************************************)
UpstreamShape ==
  [kind : {"newapi", "shell", "plaza", "usage"},
   unit : Nat \ {0},
   usable : SUBSET Groups,
   answered : BOOLEAN,
   perRequest : BOOLEAN,
   tiered : BOOLEAN,
   output : BOOLEAN,
   offers : [Groups -> [offered : BOOLEAN, input : Nat \cup {None},
                        request : Nat \cup {None}, ratio : Nat,
                        mine : Nat \cup {None}]]]

ASSUME PricingAssumption ==
  /\ Groups \subseteq Nat
  /\ None \notin Nat
  /\ \A u \in Upstreams : u \in UpstreamShape /\ \E g \in Groups : u.offers[g].offered

Offering(u) == {g \in Groups : u.offers[g].offered}
FirstOf(set) == CHOOSE g \in set : \A other \in set : g <= other

(* What the account is charged for a million tokens of input (or for a      *)
(* request), of the first tier, in the cheapest of the groups it may use.   *)
Dollars(u) == IF u.perRequest \/ u.tiered \/ u.kind = "plaza" THEN 1 ELSE u.unit
Price(u, g) == IF u.perRequest THEN u.offers[g].request ELSE u.offers[g].input
Reachable(u) == Offering(u) \cap u.usable
Charge(u) ==
  Min({Price(u, g) * Dollars(u) *
         (IF u.offers[g].mine = None THEN u.offers[g].ratio ELSE u.offers[g].mine)
         : g \in Reachable(u)})

-----------------------------------------------------------------------------
(* Rows of the price list: ratios (quota_type, model_ratio, model_price),   *)
(* tiers, explicit prices.  Lists of ratios have a zero for what they do    *)
(* not charge for.                                                          *)
OrZero(price) == IF price = None THEN 0 ELSE price
EmptyRow ==
  [quota_type |-> 0, model_ratio |-> 0, model_price |-> 0, tiers |-> <<>>,
   price_input |-> None, price_output |-> None, price_per_request |-> None]

(* _normalize_newapi_model_row and _normalize_rix_model_row; the tiers are  *)
(* those of the row's expression, which RixAPI's rows do not have.          *)
RowOfNewapi(u) ==
  LET offer == u.offers[FirstOf(Offering(u))] IN
  [EmptyRow EXCEPT
     !.quota_type = IF u.perRequest THEN 1 ELSE 0,
     !.model_ratio = OrZero(offer.input),
     !.model_price = OrZero(offer.request),
     !.tiers = IF ~u.tiered THEN <<>>
               ELSE IF u.perRequest THEN <<[input |-> None, fixed_price |-> offer.request]>>
               ELSE <<[input |-> offer.input, fixed_price |-> None]>>]

(* _normalize_shell_pricing_payload, where models with a fixed price get    *)
(* type 0.                                                                  *)
RowOfShell(u) ==
  LET offer == u.offers[FirstOf(Offering(u))] IN
  [EmptyRow EXCEPT
     !.quota_type = IF u.perRequest THEN 0 ELSE 1,
     !.model_ratio = OrZero(offer.input),
     !.model_price = IF u.perRequest THEN OrZero(offer.request) ELSE 0]

(* A multiplier of zero is taken for one that is missing.                   *)
Multiplier(o) == IF o.ratio = 0 THEN 1 ELSE o.ratio
Effective(o) == IF o.mine \in {None, 0} THEN Multiplier(o) ELSE o.mine

(* _pricing_from_plaza: prices are those of the group with the smallest     *)
(* multiplier, the first of them.                                           *)
Representative(u) ==
  CHOOSE g \in Offering(u) : \A other \in Offering(u) :
    \/ Effective(u.offers[g]) < Effective(u.offers[other])
    \/ Effective(u.offers[g]) = Effective(u.offers[other]) /\ g <= other

(* Tiers of a plaza have no "prices" that the conversion could read; a      *)
(* price of input is kept whatever is charged for, and one of a request     *)
(* makes the model one that is charged by requests, unless it has tiers.    *)
RowOfPlaza(u) ==
  LET offer == u.offers[Representative(u)]
      perRequest == u.perRequest \/ (offer.request # None /\ ~u.tiered)
  IN
  [quota_type |-> IF perRequest THEN 1 ELSE 0,
   model_ratio |-> 0,
   model_price |-> IF perRequest THEN offer.request ELSE 0,
   tiers |-> IF u.tiered THEN <<[input |-> None, fixed_price |-> None]>> ELSE <<>>,
   price_input |-> offer.input,
   price_output |-> IF u.output THEN 1 ELSE None,
   price_per_request |-> IF perRequest THEN offer.request ELSE None]

(* A row of the usage statistics, when there is no plaza: no price at all.  *)
RowOfUsage(u) == EmptyRow

RowOf(u) ==
  CASE u.kind = "newapi" -> RowOfNewapi(u)
    [] u.kind = "shell" -> RowOfShell(u)
    [] u.kind = "plaza" -> RowOfPlaza(u)
    [] u.kind = "usage" -> RowOfUsage(u)

(* The row's enable_groups, and the group ratios next to it: those of the   *)
(* groups in the answer, or none.                                           *)
EnableGroups(u) == IF u.kind = "usage" THEN {} ELSE Offering(u)
StoredGroups(u) == IF u.answered THEN u.usable ELSE {}
StoredRatio(u, g) ==
  IF u.kind = "plaza" THEN Multiplier(u.offers[g]) ELSE u.offers[g].ratio

-----------------------------------------------------------------------------
(* _normalized_prices, with the dollars that the upstream's unit is worth:  *)
(* explicit prices if there are any, or else those of the first tier, or    *)
(* the price of a request, or the ratio.                                    *)
Explicit(row) ==
  {row.price_input, row.price_output, row.price_per_request} # {None}

NormalizedPrices(row, unit) ==
  IF Explicit(row) THEN [input |-> row.price_input, request |-> row.price_per_request]
  ELSE IF row.tiers # <<>>
  THEN [input |-> row.tiers[1].input, request |-> row.tiers[1].fixed_price]
  ELSE IF row.quota_type # 0
  THEN [input |-> None, request |-> row.model_price]
  ELSE [input |-> row.model_ratio * unit, request |-> None]

Stored(u) == NormalizedPrices(RowOf(u), u.unit)

(* min_group_ratio: of the row's groups, those whose ratios are stored.     *)
Candidates(u) == EnableGroups(u) \cap StoredGroups(u)
LeastRatio(u) == Min({StoredRatio(u, g) : g \in Candidates(u)})

(* Mutant: the ratio of any group that is stored, offering the model or not.*)
EffectiveInputOfAny(u) ==
  IF Stored(u).input = None \/ StoredGroups(u) = {} THEN Stored(u).input
  ELSE Stored(u).input * Min({StoredRatio(u, g) : g \in StoredGroups(u)})

(* The price as it is stored if there is no ratio to apply to it.           *)
EffectiveInput(u) ==
  IF Stored(u).input = None \/ Candidates(u) = {} THEN Stored(u).input
  ELSE Stored(u).input * LeastRatio(u)

(* best_instance_id: the first of those with the lowest price.              *)
Comparable == {i \in DOMAIN upstreams : EffectiveInput(upstreams[i]) # None}
Best ==
  IF Comparable = {} THEN None
  ELSE LET lowest == Min({EffectiveInput(upstreams[i]) : i \in Comparable})
       IN Min({i \in Comparable : EffectiveInput(upstreams[i]) = lowest})

-----------------------------------------------------------------------------
PricingInit == upstreams = <<>>

AddUpstream ==
  /\ Len(upstreams) < MaxUpstreams
  /\ \E u \in Upstreams : upstreams' = Append(upstreams, u)

-----------------------------------------------------------------------------
(***************************************************************************)
(* What the conversion can do justice to.  A list has the price of what it *)
(* charges for, and a plaza no other that would be compared in its place;  *)
(* tiers are those of an expression.  ShellAPI's lists and usage           *)
(* statistics come out as free or not at all, free groups of a plaza as    *)
(* those with a ratio of one, multipliers of one's own are left out, and   *)
(* of prices that depend on the group only one is stored.                  *)
(***************************************************************************)
Priced(u) ==
  \A g, h \in Offering(u) : Price(u, g) # None /\ Price(u, g) = Price(u, h)
Listed(u) ==
  \/ u.kind = "newapi"
  \/ /\ u.kind = "plaza" /\ ~u.tiered
     /\ \A g \in Offering(u) :
          u.offers[g].ratio # 0 /\ (u.perRequest => u.offers[g].input = None)
Convertible(u) ==
  Priced(u) /\ Listed(u) /\ \A g \in Offering(u) : u.offers[g].mine = None

(* ... and the ratios of the account's groups are stored, one of which      *)
(* offers the model: a price without a ratio is compared as it is.          *)
Faithful(u) == Convertible(u) /\ u.answered /\ Reachable(u) # {}

(* Prices of lists of different shapes and units, faithful ones, come out   *)
(* as what the account is charged in its cheapest group, so that the        *)
(* instance that is called the best one is no dearer than any other.        *)
BestIsCheapest ==
  (\A i \in DOMAIN upstreams : Faithful(upstreams[i])) =>
    \A i \in DOMAIN upstreams :
      LET u == upstreams[i] IN
      IF u.perRequest
      THEN /\ i # Best
           /\ Stored(u).request * LeastRatio(u) = Charge(u)
      ELSE /\ Best # None
           /\ EffectiveInput(upstreams[Best]) = Charge(upstreams[Best])
           /\ Charge(upstreams[Best]) <= Charge(u)
=============================================================================
