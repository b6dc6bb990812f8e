---------------------------- MODULE BillingExpr ----------------------------
(***************************************************************************)
(* Upstreams price a model by an expression: nested choices between tiers, *)
(* by prompt length and by time of day.  app/services/billing_expr.py      *)
(* finds the tiers in its text, each with the conditions on the way to it  *)
(* and its price.                                                          *)
(*                                                                         *)
(* A text is a sequence of tokens: the punctuation that the scanner looks  *)
(* for, and everything between it as one token - a comparison, a time      *)
(* condition, another condition or a tier with one price.  The order of    *)
(* tiers, and of the conditions of one, is left out; of the request rules  *)
(* the parser keeps the text and looks for times to show.                  *)
(***************************************************************************)
EXTENDS Integers, SequencesExt

CONSTANTS
  Thresholds,  \* lengths that conditions compare with
  Lengths,     \* lengths of prompts
  Shapes,      \* bound: kinds of condition and of nesting (see Conditions)
  MaxTiers,    \* bound: tiers in an expression
  RequestRules \* texts of request rules

VARIABLE expr  \* an expression: its choices, the innermost first

(***************************************************************************)
(* Expressions and what they charge (expr-lang, as NewAPI evaluates it).   *)
(* Tier(1) is one; the n-th choice around it is between what there is so   *)
(* far, in its first branch if it is nested, and Tier(n + 1).              *)
(***************************************************************************)
Comparison(op, value) == [kind |-> "tier", op |-> op, value |-> value]
Time == [kind |-> "time", negated |-> FALSE]
Other == [kind |-> "raw"]
Tier(price) == [kind |-> "leaf", price |-> price]
Mark(punctuation) == [kind |-> punctuation]

Parts ==
  {Comparison(op, value) : op \in {"<", "<=", ">", ">="}, value \in Thresholds}
    \cup {Time, Other}
Tokens ==
  Parts \cup [kind : {"leaf"}, price : Nat]
    \cup [kind : {"&&", "?", ":", "(", ")"}]
(* "v1:" before the tiers, and "|||" between them and the request rules.    *)
Separators == [kind : {"version", "bar"}]

ASSUME BillingAssumption ==
  /\ Thresholds \subseteq Nat
  /\ Lengths \subseteq Nat
  /\ Shapes \subseteq {"plain", "both", "other", "nested"}
  /\ MaxTiers \in Nat \ {0}
  /\ RequestRules \subseteq Seq(Tokens \cup Separators)

(* What a request may be like.                                              *)
Requests == [length : Lengths, peak : BOOLEAN, other : BOOLEAN]

Compare(op, a, b) ==
  CASE op = "<" -> a < b [] op = "<=" -> a <= b [] op = ">" -> a > b [] op = ">=" -> a >= b

Holds(part, request) ==
  CASE part.kind = "tier" -> Compare(part.op, request.length, part.value)
    [] part.kind = "time" -> request.peak # part.negated
    [] part.kind = "raw" -> request.other

Met(choice, request) ==
  \A i \in DOMAIN choice.parts : Holds(choice.parts[i], request)

Charged(e, request) ==
  LET price[n \in 0..Len(e)] ==
        IF n = 0 THEN 1
        ELSE IF Met(e[n], request) = e[n].nested THEN price[n - 1]
        ELSE n + 1
  IN price[Len(e)]

(* The text of an expression.  A choice in the place of a tier that is taken *)
(* when a condition holds is in parentheses.                                *)
Conjunction(parts) ==
  [i \in 1..2 * Len(parts) - 1 |->
     IF i % 2 = 1 THEN parts[(i + 1) \div 2] ELSE Mark("&&")]
Branch(text) ==
  IF Len(text) = 1 THEN text ELSE <<Mark("(")>> \o text \o <<Mark(")")>>
ChoiceText(parts, then, else) ==
  Conjunction(parts) \o <<Mark("?")>> \o Branch(then) \o <<Mark(":")>> \o else

Text(e) ==
  LET text[n \in 0..Len(e)] ==
        IF n = 0 THEN <<Tier(1)>>
        ELSE IF e[n].nested
        THEN ChoiceText(e[n].parts, text[n - 1], <<Tier(n + 1)>>)
        ELSE ChoiceText(e[n].parts, <<Tier(n + 1)>>, text[n - 1])
  IN text[Len(e)]

(* How an expression may be written: with or without its version before it, *)
(* and rules after it that multiply the charge of some requests.            *)
Versions == {<<>>, <<Mark("version")>>}
Rules == {<<>>} \cup {<<Mark("bar")>> \o rules : rules \in RequestRules}
Written(e) ==
  {version \o Text(e) \o rules : version \in Versions, rules \in Rules}

-----------------------------------------------------------------------------
(* The parser.                                                              *)

(* How many parentheses are open at a place of a text that is scanned from  *)
(* another.                                                                 *)
Depth(text, start, place) ==
  Cardinality({i \in start..place - 1 : text[i].kind = "("})
    - Cardinality({i \in start..place - 1 : text[i].kind = ")"})

TopLevel(text, target, start) ==
  {i \in start..Len(text) : text[i].kind = target /\ Depth(text, start, i) = 0}

(* The branches of the first choice at the top level, or none.              *)
SplitTernary(text) ==
  LET questions == TopLevel(text, "?", 1) IN
  IF questions = {} THEN <<>>
  ELSE LET question == Min(questions)
           colons == TopLevel(text, ":", question + 1)
       IN IF colons = {} THEN <<>>
          ELSE LET branches == <<SubSeq(text, question + 1, Min(colons) - 1),
                                 SubSeq(text, Min(colons) + 1, Len(text))>>
               IN IF <<>> \in Range(branches) THEN <<>> ELSE branches

(* What stands before it, split at each "&&".                               *)
SplitConjunction(text) ==
  {text[i] : i \in {j \in 1..Min(TopLevel(text, "?", 1)) - 1 : text[j].kind # "&&"}}

Inverted(op) ==
  CASE op = "<" -> ">=" [] op = "<=" -> ">" [] op = ">" -> "<=" [] op = ">=" -> "<"

(* Mutants: the bound itself stays on both sides, or on neither.            *)
InvertConditionLoosely(part) ==
  CASE part.kind = "tier" ->
         [part EXCEPT !.op = IF part.op \in {"<", "<="} THEN ">=" ELSE "<="]
    [] part.kind = "time" -> [part EXCEPT !.negated = TRUE]
    [] OTHER -> part
InvertConditionStrictly(part) ==
  CASE part.kind = "tier" ->
         [part EXCEPT !.op = IF part.op \in {"<", "<="} THEN ">" ELSE "<"]
    [] part.kind = "time" -> [part EXCEPT !.negated = TRUE]
    [] OTHER -> part

InvertCondition(part) ==
  CASE part.kind = "tier" -> [part EXCEPT !.op = Inverted(part.op)]
    [] part.kind = "time" -> [part EXCEPT !.negated = TRUE]
    [] OTHER -> part

(* The first tier of a text, with the price that is found last in the rest  *)
(* of it.                                                                   *)
ParseLeaf(text) ==
  LET tiers == {i \in DOMAIN text : text[i].kind = "leaf"} IN
  IF tiers = {} THEN {}
  ELSE {[price |-> text[Max(tiers)].price, conditions |-> {}]}

(* Tiers with the conditions of a branch.  Those that are neither           *)
(* comparisons nor about time are left out.                                 *)
Under(conditions, tiers) ==
  {[tier EXCEPT !.conditions = @ \cup {part \in conditions : part.kind # "raw"}]
     : tier \in tiers}

CollectTiers[text \in Seq(Tokens)] ==
  LET branches == SplitTernary(text)
      conditions == SplitConjunction(text)
  IN IF branches = <<>> THEN ParseLeaf(text)
     ELSE Under(conditions, CollectTiers[branches[1]])
          \cup Under({InvertCondition(part) : part \in conditions},
                     CollectTiers[branches[2]])

(* The text without its version, and up to the first bar.                   *)
Unversioned(text) ==
  IF text # <<>> /\ text[1].kind = "version" THEN Tail(text) ELSE text
Body(text) ==
  LET bars == {i \in DOMAIN text : text[i].kind = "bar"}
  IN IF bars = {} THEN text ELSE SubSeq(text, 1, Min(bars) - 1)

ParseBillingExpr(text) == CollectTiers[Body(Unversioned(text))]

-----------------------------------------------------------------------------
(* Expressions grow outwards.                                               *)
Comparisons == Parts \ {Time, Other}

Conditions(shape) ==
  CASE shape = "plain" -> {<<c>> : c \in Comparisons \cup {Time}}
    [] shape = "both" -> {<<c, Time>> : c \in Comparisons}
    [] shape = "other" -> {<<Other>>}
    [] shape = "nested" -> {<<c>> : c \in Comparisons}

ExprInit == expr = <<>>

Wrap ==
  /\ Len(expr) + 1 < MaxTiers
  /\ \E shape \in Shapes : \E parts \in Conditions(shape) :
       expr' = Append(expr, [parts |-> parts, nested |-> shape = "nested"])

-----------------------------------------------------------------------------
(* Which expressions the parser can do justice to: no choice inside the     *)
(* first branch of another, no condition of an unknown kind, and, for every *)
(* request to find its tier, no choice that hangs on two conditions.        *)
Chain(e) == \A n \in DOMAIN e : e[n].nested => n = 1
Known(e) == \A n \in DOMAIN e : \A i \in DOMAIN e[n].parts : e[n].parts[i] # Other
Single(e) == \A n \in DOMAIN e : Len(e[n].parts) = 1

Applies(tier, request) == \A part \in tier.conditions : Holds(part, request)

(* However an expression is written, a request that meets a tier's          *)
(* conditions is charged that tier's price, before the request rules        *)
(* multiply it: negating each condition of a choice, down a chain of them,  *)
(* never says more than the choice does, and no rule is read as a tier.     *)
TiersApply ==
  Chain(expr) /\ Known(expr) =>
    \A text \in Written(expr), request \in Requests :
      \A tier \in ParseBillingExpr(text) :
        Applies(tier, request) => tier.price = Charged(expr, request)

(* Every request meets the conditions of a tier, lengths at a threshold     *)
(* included, unless a choice hangs on two conditions: then the second       *)
(* branch is taken to mean that both fail.                                  *)
TiersCover ==
  Chain(expr) /\ Single(expr) =>
    \A text \in Written(expr), request \in Requests :
      \E tier \in ParseBillingExpr(text) : Applies(tier, request)
=============================================================================
