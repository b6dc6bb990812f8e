-------------------------- MODULE AlertRulesProofs --------------------------
(***************************************************************************)
(* Safety of AlertRules for any rules, of every kind, any targets and any  *)
(* min_consecutive_checks.                                                 *)
(***************************************************************************)
EXTENDS AlertRules, TLAPS

(* How far a pass has got: the pairs of rules still queued are not loaded,  *)
(* and what is not loaded or not covered is not drafted.                    *)
LoadedPairs == {p \in view.pairs : p[1] \notin queue}
PassShape ==
  /\ queue \subseteq view.rules
  /\ \A p \in view.pairs : p[1] \in view.rules
  /\ todo \subseteq LoadedPairs
  /\ logged \subseteq LoadedPairs \ todo
  /\ \A p \in Pairs \ LoadedPairs : draft[p] = NoRow

RowThere ==
  \A p \in Pairs : /\ rows[p].alerting => rows[p].row
                   /\ draft[p].alerting => draft[p].row

(* What a row says of a pair, and what the operator has been told of it.    *)
Honest(p, message, alerting) ==
  /\ alerting => message \notin {"nothing", "recovery"}
  /\ p[1] \in Repeats \cap Announces /\ message \in {"alert", "closed"}
       => alerting

(* The database agrees with the operator, but for what this pass has sent.  *)
RowsHonest ==
  \A p \in Pairs \ (lost \cup logged) :
    /\ Honest(p, told[p], rows[p].alerting)
    /\ p[1] \notin Repeats /\ told[p] = "alert" => rows[p].alerting

(* So does the session, but for an alert that this pass is about to close.  *)
DraftHonest ==
  \A p \in LoadedPairs \ lost :
    /\ Honest(p, told[p], draft[p].alerting)
    /\ p[1] \notin Repeats /\ told[p] = "alert"
         => draft[p].alerting \/ (p \notin todo /\ view.level[p] = "resolved")

IInv ==
  /\ TypeOK
  /\ PassShape
  /\ RowThere
  /\ RowsHonest
  /\ DraftHonest
  /\ AlertOnce

-----------------------------------------------------------------------------
LEMMA NoRowType == NoRow \in RowState
BY DEF NoRow, RowState

LEMMA PairType == ASSUME NEW p \in Pairs PROVE p[1] \in Rules /\ p[2] \in Targets
BY DEF Pairs

LEMMA NoViewType ==
  NoView \in [rules : SUBSET Rules, pairs : SUBSET Pairs, level : [Pairs -> Levels]]
BY DEF NoView, Levels

LEMMA InitInv == Init => IInv
<1> SUFFICES ASSUME Init PROVE IInv
  OBVIOUS
<1>1. TypeOK
  <2>1. rows \in [Pairs -> RowState] /\ draft \in [Pairs -> RowState]
    BY NoRowType DEF Init, NoRows
  <2>2. level \in [Pairs -> Levels] /\ told \in [Pairs -> Messages]
    BY DEF Init, Levels, Messages
  <2>3. view \in [rules : SUBSET Rules, pairs : SUBSET Pairs, level : [Pairs -> Levels]]
    BY NoViewType DEF Init
  <2> QED BY <2>1, <2>2, <2>3, AlertAssumption DEF Init, TypeOK
<1>2. PassShape
  BY DEF Init, PassShape, LoadedPairs, NoView, NoRows
<1>3. RowThere /\ AlertOnce
  BY DEF Init, RowThere, AlertOnce, NoRows, NoRow
<1>4. RowsHonest /\ DraftHonest
  BY DEF Init, RowsHonest, DraftHonest, Honest, LoadedPairs, NoView, NoRows, NoRow
<1> QED BY <1>1, <1>2, <1>3, <1>4 DEF IInv

(* Without a pass at work nothing is loaded.                                *)
LEMMA IdleShape ==
  ASSUME IInv, Idle
  PROVE  queue = {} /\ view.pairs = {} /\ todo = {} /\ logged = {}
BY DEF IInv, PassShape, LoadedPairs, Idle

LEMMA PassStartStep ==
  ASSUME IInv, PassStart
  PROVE  IInv'
<1> DEFINE rules == Quick \cup (IF advanced THEN configured ELSE {})
           new == [rules |-> rules, pairs |-> {p \in covered : p[1] \in rules},
                   level |-> level]
<1>1. rules \in SUBSET Rules
  BY AlertAssumption DEF IInv, TypeOK
<1>2. /\ Idle
      /\ scanDue' = (rules # {})
      /\ view' = new
      /\ queue' = rules
      /\ UNCHANGED <<settings, world, rows, rule, todo, draft, updated, logged,
                     told, lost>>
  BY DEF PassStart
<1>3. queue = {} /\ view.pairs = {} /\ todo = {} /\ logged = {}
  BY <1>2, IdleShape
<1> HIDE DEF rules
<1>4. view' \in [rules : SUBSET Rules, pairs : SUBSET Pairs, level : [Pairs -> Levels]]
  BY <1>1, <1>2 DEF IInv, TypeOK
<1>5. TypeOK'
  BY <1>1, <1>2, <1>4 DEF IInv, TypeOK, settings, world
<1>6. LoadedPairs = {} /\ LoadedPairs' = {}
  BY <1>2, <1>3 DEF LoadedPairs
<1>7. PassShape'
  BY <1>2, <1>3, <1>6 DEF IInv, PassShape
<1>8. RowThere' /\ AlertOnce' /\ RowsHonest' /\ DraftHonest'
  BY <1>2, <1>6 DEF IInv, RowThere, AlertOnce, RowsHonest, DraftHonest, Honest
<1> QED BY <1>5, <1>7, <1>8 DEF IInv

LEMMA LoadRuleStep ==
  ASSUME IInv, NEW r \in Rules, LoadRule(r)
  PROVE  IInv'
<1>1. /\ todo = {}
      /\ r \in queue
      /\ queue' = queue \ {r}
      /\ rule' = r
      /\ todo' = {p \in view.pairs : p[1] = r}
      /\ draft' = [p \in Pairs |->
                     IF p[1] = r /\ p \in view.pairs THEN rows[p] ELSE draft[p]]
      /\ UNCHANGED <<settings, world, rows, scanDue, view, updated, logged, told,
                     lost>>
  BY DEF LoadRule
<1>2. view.pairs \subseteq Pairs
  BY DEF IInv, TypeOK
<1>3. TypeOK'
  BY <1>1, <1>2 DEF IInv, TypeOK, settings, world
<1>4. LoadedPairs' = LoadedPairs \cup todo' /\ LoadedPairs \cap todo' = {}
  BY <1>1 DEF LoadedPairs
<1>5. PassShape'
  BY <1>1, <1>4 DEF IInv, PassShape
<1>6. RowThere' /\ AlertOnce' /\ RowsHonest'
  BY <1>1 DEF IInv, RowThere, AlertOnce, RowsHonest, Honest
<1>7. DraftHonest'
  <2> SUFFICES ASSUME NEW p \in LoadedPairs' \ lost
               PROVE  /\ Honest(p, told[p], draft'[p].alerting)
                      /\ p[1] \notin Repeats /\ told[p] = "alert"
                           => \/ draft'[p].alerting
                              \/ p \notin todo' /\ view.level[p] = "resolved"
    BY <1>1 DEF DraftHonest, Honest
  <2>1. CASE p \in todo'
    <3>1. draft'[p] = rows[p] /\ p \in Pairs \ (lost \cup logged)
      BY <1>1, <1>2, <1>4, <2>1 DEF IInv, PassShape
    <3> QED BY <3>1 DEF IInv, RowsHonest
  <2>2. CASE p \notin todo'
    <3>1. p \in LoadedPairs \ lost /\ draft'[p] = draft[p]
      BY <1>1, <1>2, <1>4, <2>2 DEF LoadedPairs
    <3> QED BY <2>2, <3>1, <1>1 DEF IInv, DraftHonest
  <2> QED BY <2>1, <2>2
<1> QED BY <1>3, <1>5, <1>6, <1>7 DEF IInv

(* A rule that is skipped loads nothing.                                    *)
LEMMA SkipRuleStep ==
  ASSUME IInv, NEW r \in Rules, SkipRule(r)
  PROVE  IInv'
<1> DEFINE kept == {p \in view.pairs : p[1] # r}
<1>1. /\ r \in queue
      /\ queue' = queue \ {r}
      /\ view' = [view EXCEPT !.pairs = kept]
      /\ UNCHANGED <<settings, world, rows, scanDue, rule, todo, draft, updated,
                     logged, told, lost>>
  BY DEF SkipRule
<1>2. kept \in SUBSET Pairs /\ kept \subseteq view.pairs
  BY DEF IInv, TypeOK
<1>3. /\ view'.rules = view.rules
      /\ view'.pairs = kept
      /\ view'.level = view.level
  BY <1>1 DEF IInv, TypeOK
<1>4. view' \in [rules : SUBSET Rules, pairs : SUBSET Pairs,
                level : [Pairs -> Levels]]
  BY <1>1, <1>2 DEF IInv, TypeOK
<1>5. TypeOK'
  BY <1>1, <1>4 DEF IInv, TypeOK, settings, world
<1>6. LoadedPairs' = LoadedPairs
  BY <1>1, <1>3 DEF LoadedPairs
<1>7. PassShape'
  BY <1>1, <1>2, <1>3, <1>6 DEF IInv, PassShape
<1>8. RowThere' /\ AlertOnce' /\ RowsHonest'
  BY <1>1 DEF IInv, RowThere, AlertOnce, RowsHonest, Honest
<1>9. DraftHonest'
  BY <1>1, <1>3, <1>6 DEF IInv, DraftHonest, Honest
<1> QED BY <1>5, <1>7, <1>8, <1>9 DEF IInv

(* The turn of one pair, whatever comes of it: a message leaves a log, and  *)
(* the new row is true of what was sent.                                    *)
LEMMA OneTurn ==
  ASSUME IInv, NEW p \in Pairs, Turn(p),
         NEW new \in RowState, new.row,
         draft' = [draft EXCEPT ![p] = new],
         logged' \in {logged, logged \cup {p}},
         told' \in [Pairs -> Messages],
         \A q \in Pairs \ {p} : told'[q] = told[q],
         told'[p] = told[p] \/ p \in logged',
         p \notin lost =>
           /\ told'[p] # "twice"
           /\ Honest(p, told'[p], new.alerting)
           /\ p[1] \notin Repeats /\ told'[p] = "alert"
                => new.alerting \/ view.level[p] = "resolved"
  PROVE  IInv'
<1>1. /\ p \in todo
      /\ todo' = todo \ {p}
      /\ updated' \subseteq updated \cup {p}
      /\ UNCHANGED <<settings, world, rows, scanDue, queue, rule, view, lost>>
  BY DEF Turn
<1>2. TypeOK'
  BY <1>1 DEF IInv, TypeOK, settings, world
<1>3. LoadedPairs' = LoadedPairs /\ p \in LoadedPairs /\ LoadedPairs \subseteq Pairs
  BY <1>1 DEF LoadedPairs, IInv, PassShape, TypeOK
<1>4. draft'[p] = new /\ \A q \in Pairs \ {p} : draft'[q] = draft[q]
  BY DEF IInv, TypeOK
<1>5. PassShape'
  BY <1>1, <1>3, <1>4 DEF IInv, PassShape
<1>6. RowThere'
  BY <1>1, <1>4 DEF IInv, RowThere
<1>7. RowsHonest'
  <2> SUFFICES ASSUME NEW q \in Pairs \ (lost \cup logged')
               PROVE  /\ Honest(q, told'[q], rows'[q].alerting)
                      /\ q[1] \notin Repeats /\ told'[q] = "alert" => rows[q].alerting
    BY <1>1 DEF RowsHonest, Honest
  <2>1. q \notin logged /\ told'[q] = told[q]
    OBVIOUS
  <2> QED BY <1>1, <2>1 DEF IInv, RowsHonest, Honest
<1>8. DraftHonest'
  <2> SUFFICES ASSUME NEW q \in LoadedPairs \ lost
               PROVE  /\ Honest(q, told'[q], draft'[q].alerting)
                      /\ q[1] \notin Repeats /\ told'[q] = "alert"
                           => \/ draft'[q].alerting
                              \/ q \notin todo' /\ view.level[q] = "resolved"
    BY <1>1, <1>3 DEF DraftHonest, Honest
  <2>1. CASE q = p
    BY <1>1, <1>4, <2>1 DEF Honest
  <2>2. CASE q # p
    <3>1. q \in Pairs /\ draft'[q] = draft[q] /\ told'[q] = told[q]
      BY <1>3, <1>4, <2>2
    <3> QED BY <1>1, <3>1 DEF IInv, DraftHonest, Honest
  <2> QED BY <2>1, <2>2
<1>9. AlertOnce'
  BY <1>1 DEF IInv, AlertOnce
<1> QED BY <1>2, <1>5, <1>6, <1>7, <1>8, <1>9 DEF IInv

(* What is known of a pair whose turn it is.                                *)
LEMMA TurnKnows ==
  ASSUME IInv, NEW p \in Pairs, p \in todo
  PROVE  /\ draft[p] \in RowState
         /\ draft[p].alerting => draft[p].row
         /\ told[p] \in Messages
         /\ Hits(p) \in Nat
         /\ view.level[p] \in Levels
         /\ p \notin lost =>
              /\ told[p] # "twice"
              /\ Honest(p, told[p], draft[p].alerting)
              /\ p[1] \notin Repeats /\ told[p] = "alert" => draft[p].alerting
<1>1. p \in LoadedPairs
  BY DEF IInv, PassShape
<1>2. /\ draft[p] \in RowState
      /\ told[p] \in Messages
      /\ view.level[p] \in Levels
  BY DEF IInv, TypeOK
<1>3. Hits(p) \in Nat
  BY <1>2 DEF Hits, RowState
<1>4. draft[p].alerting => draft[p].row
  BY DEF IInv, RowThere
<1>5. p \notin lost =>
        /\ told[p] # "twice"
        /\ Honest(p, told[p], draft[p].alerting)
        /\ p[1] \notin Repeats /\ told[p] = "alert" => draft[p].alerting
  BY <1>1 DEF IInv, DraftHonest, AlertOnce
<1> QED BY <1>2, <1>3, <1>4, <1>5

LEMMA AlertStep ==
  ASSUME IInv, NEW p \in Pairs, Alert(p)
  PROVE  IInv'
<1> DEFINE accepted == p[1] \in reachable
           alerting == draft[p].alerting \/ accepted
           due == draft[p].due /\ ~(accepted /\ p[1] \in Repeats)
           new == [row |-> TRUE, alerting |-> alerting, hits |-> Hits(p), due |-> due]
<1>1. /\ Turn(p) /\ p \in todo
      /\ WantsAlert(p)
      /\ draft' = [draft EXCEPT ![p] = new]
      /\ logged' = logged \cup {p}
      /\ told' = IF ~accepted THEN told
                 ELSE [told EXCEPT ![p] =
                         IF p[1] \notin Repeats /\ told[p] \in {"alert", "twice"}
                         THEN "twice" ELSE "alert"]
  BY DEF Alert, CreateLog, Turn
<1>2. new \in RowState /\ new.row /\ new.alerting = alerting
  BY <1>1, TurnKnows DEF RowState
<1> HIDE DEF new
<1>3. told' \in [Pairs -> Messages] /\ \A q \in Pairs \ {p} : told'[q] = told[q]
  BY <1>1 DEF IInv, TypeOK, Messages
<1>4. ASSUME p \notin lost
      PROVE  /\ told'[p] # "twice"
             /\ Honest(p, told'[p], alerting)
             /\ p[1] \notin Repeats /\ told'[p] = "alert" => alerting
  <2>1. CASE ~accepted
    <3>1. alerting = draft[p].alerting /\ told' = told
      BY <1>1, <1>2, <2>1, TurnKnows DEF RowState
    <3>2. /\ told[p] # "twice"
          /\ Honest(p, told[p], draft[p].alerting)
          /\ p[1] \notin Repeats /\ told[p] = "alert" => draft[p].alerting
      BY <1>1, <1>4, TurnKnows
    <3> QED BY <3>1, <3>2 DEF Honest
  <2>2. CASE accepted
    <3>1. p[1] \notin Repeats => told[p] \notin {"alert", "twice"}
      BY <1>1, <1>4, TurnKnows DEF WantsAlert
    <3>2. told'[p] = "alert"
      BY <1>1, <2>2, <3>1 DEF IInv, TypeOK
    <3>3. alerting
      BY <2>2
    <3> QED BY <3>2, <3>3 DEF Honest
  <2> QED BY <2>1, <2>2
<1> HIDE DEF alerting
<1>5. told'[p] = told[p] \/ p \in logged'
  BY <1>1
<1>6. p \notin lost =>
           /\ told'[p] # "twice"
           /\ Honest(p, told'[p], new.alerting)
           /\ p[1] \notin Repeats /\ told'[p] = "alert"
                => new.alerting \/ view.level[p] = "resolved"
  BY <1>2, <1>4 DEF Honest
<1> QED BY <1>1, <1>2, <1>3, <1>5, <1>6, OneTurn

LEMMA RecoverStep ==
  ASSUME IInv, NEW p \in Pairs, Recover(p)
  PROVE  IInv'
<1> DEFINE accepted == p[1] \in reachable
           alerting == ~accepted /\ p[1] \in Repeats
           entry == Entry(p)
           new == [entry EXCEPT !.hits = 0, !.alerting = alerting]
<1>1. /\ Turn(p) /\ p \in todo
      /\ view.level[p] = "resolved" /\ draft[p].alerting
      /\ draft' = [draft EXCEPT ![p] = new]
      /\ logged' = logged \cup {p}
      /\ told' = IF accepted THEN [told EXCEPT ![p] = "recovery"] ELSE told
  BY DEF Recover, WantsRecovery, CreateLog, Turn
<1>2. entry \in RowState /\ entry.row
  BY <1>1, TurnKnows DEF RowState, Entry
<1> HIDE DEF entry
<1>3. new \in RowState /\ new.row /\ new.alerting = alerting
  BY <1>2 DEF RowState
<1> HIDE DEF new
<1>4. told' \in [Pairs -> Messages] /\ \A q \in Pairs \ {p} : told'[q] = told[q]
  BY <1>1 DEF IInv, TypeOK, Messages
<1>5. p \notin lost => told'[p] # "twice" /\ Honest(p, told'[p], alerting)
  <2>1. CASE accepted
    <3>1. told'[p] = "recovery" /\ ~alerting
      BY <1>1, <2>1 DEF IInv, TypeOK
    <3> QED BY <3>1 DEF Honest
  <2>2. CASE ~accepted
    <3>1. told' = told /\ (alerting => draft[p].alerting)
      BY <1>1, <2>2
    <3>2. p[1] \in Repeats => alerting
      BY <2>2
    <3> QED BY <1>1, <3>1, <3>2, TurnKnows DEF Honest
  <2> QED BY <2>1, <2>2
<1> HIDE DEF alerting
<1>6. told'[p] = told[p] \/ p \in logged'
  BY <1>1
<1>7. p \notin lost => Honest(p, told'[p], new.alerting)
  BY <1>3, <1>5 DEF Honest
<1> QED BY <1>1, <1>3, <1>4, <1>5, <1>6, <1>7, OneTurn

LEMMA QuietlyStep ==
  ASSUME IInv, NEW p \in Pairs, Quietly(p)
  PROVE  IInv'
<1> DEFINE hits == IF view.level[p] = "active" THEN Hits(p) ELSE 0
           entry == Entry(p)
           alerting == entry.alerting /\ view.level[p] # "resolved"
           new == [entry EXCEPT !.hits = hits, !.alerting = alerting]
<1>1. /\ Turn(p) /\ p \in todo
      /\ ~WantsRecovery(p)
      /\ draft' = [draft EXCEPT ![p] = new]
      /\ UNCHANGED <<told, logged>>
  BY DEF Quietly, Turn
<1>2. /\ entry \in RowState /\ entry.row
      /\ entry.alerting = draft[p].alerting
      /\ hits \in Nat
  BY <1>1, TurnKnows DEF RowState, Entry
<1> HIDE DEF entry, hits
<1>3. new \in RowState /\ new.row /\ new.alerting = alerting
  BY <1>2 DEF RowState
<1> HIDE DEF new
<1>4. p \notin lost =>
        /\ told[p] # "twice"
        /\ Honest(p, told[p], alerting)
        /\ p[1] \notin Repeats /\ told[p] = "alert"
             => alerting \/ view.level[p] = "resolved"
  BY <1>1, <1>2, TurnKnows DEF Honest, WantsRecovery
<1> HIDE DEF alerting
<1>5. p \notin lost => Honest(p, told'[p], new.alerting)
  BY <1>1, <1>3, <1>4 DEF Honest
<1>6. told' \in [Pairs -> Messages]
  BY <1>1 DEF IInv, TypeOK
<1> QED BY <1>1, <1>3, <1>4, <1>5, <1>6, OneTurn

LEMMA EndPassIs ==
  ASSUME EndPass
  PROVE  /\ queue' = {} /\ rule' = NoRule /\ todo' = {} /\ view' = NoView
         /\ draft' = NoRows /\ updated' = {} /\ logged' = {}
         /\ UNCHANGED <<settings, world>>
         /\ LoadedPairs' = {}
         /\ \A p \in Pairs : ~draft'[p].alerting
         /\ PassShape' /\ DraftHonest'
BY DEF EndPass, LoadedPairs, NoView, NoRows, NoRow, PassShape, DraftHonest

LEMMA PassCommitStep ==
  ASSUME IInv, PassCommit
  PROVE  IInv'
<1> DEFINE settled == {p \in view.pairs : /\ view.level[p] = "resolved"
                                          /\ ~draft[p].alerting}
<1>1. /\ queue = {}
      /\ todo = {}
      /\ rows' = [p \in Pairs |-> IF p[1] \in view.rules THEN draft[p] ELSE rows[p]]
      /\ scanDue' = FALSE
      /\ lost' = (lost \cup {p \in Pairs : rows[p].row /\ ~rows'[p].row}) \ settled
      /\ told' = [p \in Pairs |->
                    IF p \in settled /\ p \in lost THEN "nothing"
                    ELSE IF p \in settled /\ told[p] \in {"alert", "twice"}
                         THEN "closed" ELSE told[p]]
      /\ EndPass
  BY DEF PassCommit
<1> HIDE DEF settled
<1>2. LoadedPairs = view.pairs /\ view.pairs \subseteq Pairs
  BY <1>1 DEF LoadedPairs, IInv, TypeOK
<1>3. TypeOK'
  <2>1. rows' \in [Pairs -> RowState] /\ told' \in [Pairs -> Messages]
    BY <1>1 DEF IInv, TypeOK, Messages
  <2>2. draft' \in [Pairs -> RowState] /\ lost' \subseteq Pairs
    BY <1>1, EndPassIs, NoRowType DEF NoRows, IInv, TypeOK
  <2> QED BY <1>1, <2>1, <2>2, EndPassIs, NoViewType DEF IInv, TypeOK, settings, world
<1>4. RowThere'
  BY <1>1, EndPassIs DEF IInv, RowThere
<1>5. ASSUME NEW p \in Pairs \ lost'
      PROVE  /\ Honest(p, told'[p], rows'[p].alerting)
             /\ p[1] \notin Repeats /\ told'[p] = "alert" => rows'[p].alerting
             /\ told'[p] # "twice"
  <2>1. CASE p \in settled
    <3>1. p \in view.pairs /\ view.level[p] = "resolved" /\ ~draft[p].alerting
      BY <2>1 DEF settled
    <3>2. ~rows'[p].alerting
      BY <1>1, <3>1 DEF IInv, PassShape
    <3>3. CASE p \in lost
      BY <1>1, <2>1, <3>2, <3>3 DEF Honest
    <3>4. CASE p \notin lost
      <4>1. Honest(p, told[p], draft[p].alerting) /\ told[p] # "twice"
        BY <1>2, <3>1, <3>4 DEF IInv, DraftHonest, AlertOnce
      <4>2. told'[p] = IF told[p] = "alert" THEN "closed" ELSE told[p]
        BY <1>1, <2>1, <3>4, <4>1
      <4> QED BY <3>1, <3>2, <4>1, <4>2 DEF Honest
    <3> QED BY <3>3, <3>4
  <2>2. CASE p \notin settled
    <3>1. p \notin lost /\ told'[p] = told[p] /\ ~(rows[p].row /\ ~rows'[p].row)
      BY <1>1, <2>2
    <3>2. told[p] # "twice"
      BY <3>1 DEF IInv, AlertOnce
    <3>3. CASE p \in view.pairs
      <4>1. rows'[p] = draft[p]
        BY <1>1, <3>3 DEF IInv, PassShape
      <4>2. view.level[p] = "resolved" => draft[p].alerting
        BY <2>2, <3>3 DEF settled
      <4>3. /\ Honest(p, told[p], draft[p].alerting)
            /\ p[1] \notin Repeats /\ told[p] = "alert" => draft[p].alerting
        BY <1>2, <3>1, <3>3, <4>2 DEF IInv, DraftHonest
      <4> QED BY <3>1, <3>2, <4>1, <4>3 DEF Honest
    <3>4. CASE p \notin view.pairs
      <4>1. p \notin logged /\ draft[p] = NoRow
        BY <1>2, <3>4 DEF IInv, PassShape
      <4>2. rows'[p].alerting <=> rows[p].alerting
        <5>1. CASE p[1] \in view.rules
          <6>1. rows'[p] = NoRow
            BY <1>1, <4>1, <5>1
          <6>2. ~rows[p].row
            BY <3>1, <6>1 DEF NoRow
          <6> QED BY <6>1, <6>2 DEF NoRow, IInv, RowThere, TypeOK, RowState
        <5>2. CASE p[1] \notin view.rules
          BY <1>1, <5>2
        <5> QED BY <5>1, <5>2
      <4>3. /\ Honest(p, told[p], rows[p].alerting)
            /\ p[1] \notin Repeats /\ told[p] = "alert" => rows[p].alerting
        BY <3>1, <4>1 DEF IInv, RowsHonest
      <4> QED BY <3>1, <3>2, <4>2, <4>3 DEF Honest
    <3> QED BY <3>3, <3>4
  <2> QED BY <2>1, <2>2
<1>6. RowsHonest' /\ AlertOnce'
  BY <1>5 DEF RowsHonest, AlertOnce, Honest
<1> QED BY <1>1, <1>3, <1>4, <1>6, EndPassIs DEF IInv

LEMMA PassFailStep ==
  ASSUME IInv, PassFail
  PROVE  IInv'
<1>1. lost' = lost \cup logged /\ EndPass /\ UNCHANGED <<rows, scanDue, told>>
  BY DEF PassFail
<1>2. TypeOK'
  <2>1. draft' \in [Pairs -> RowState]
    BY <1>1, EndPassIs, NoRowType DEF NoRows
  <2> QED BY <1>1, <2>1, EndPassIs, NoViewType DEF IInv, TypeOK, settings, world
<1>3. RowThere'
  BY <1>1, EndPassIs DEF IInv, RowThere
<1>4. RowsHonest' /\ AlertOnce'
  BY <1>1, EndPassIs DEF IInv, RowsHonest, AlertOnce, Honest
<1> QED BY <1>1, <1>2, <1>3, <1>4, EndPassIs DEF IInv

(* What happens around a pass leaves it as it is, and only adds lost pairs. *)
LEMMA AroundPass ==
  ASSUME IInv, UNCHANGED <<pass, told>>, lost \subseteq lost'
  PROVE  PassShape' /\ DraftHonest' /\ AlertOnce'
BY DEF IInv, pass, PassShape, LoadedPairs, DraftHonest, Honest, AlertOnce

LEMMA SaveSettingsStep ==
  ASSUME IInv, NEW rules \in SUBSET configured, NEW channels \in BOOLEAN,
         NEW adv \in BOOLEAN, SaveSettings(rules, channels, adv)
  PROVE  IInv'
<1>1. /\ rows' = [p \in Pairs |-> IF p[1] \in rules \cup Quick THEN rows[p]
                                  ELSE NoRow]
      /\ lost' = lost \cup {p \in Pairs : rows[p].row /\ ~rows'[p].row}
      /\ configured' = rules /\ channelsOn' = channels /\ advanced' = adv
      /\ UNCHANGED <<world, scanDue, pass, told>>
  BY DEF SaveSettings
<1>2. TypeOK'
  <2>1. rows' \in [Pairs -> RowState]
    BY <1>1, NoRowType DEF IInv, TypeOK
  <2> QED BY <1>1, <2>1 DEF IInv, TypeOK, world, pass
<1>3. RowThere'
  BY <1>1 DEF IInv, RowThere, NoRow, pass
<1>4. RowsHonest'
  <2> SUFFICES ASSUME NEW p \in Pairs \ (lost' \cup logged)
               PROVE  rows'[p].alerting <=> rows[p].alerting
    BY <1>1 DEF IInv, RowsHonest, Honest, pass
  <2>1. rows'[p] = rows[p] \/ (rows'[p] = NoRow /\ ~rows[p].row)
    BY <1>1 DEF NoRow
  <2> QED BY <2>1 DEF NoRow, IInv, RowThere, TypeOK, RowState
<1> QED BY <1>1, <1>2, <1>3, <1>4, AroundPass DEF IInv

LEMMA CreateInstanceStep ==
  ASSUME IInv, NEW t \in Targets, CreateInstance(t)
  PROVE  IInv'
<1> DEFINE own == {p \in Pairs : p[2] = t}
<1>1. /\ exists' = exists \cup {t}
      /\ told' = [p \in Pairs |-> IF p \in own THEN "nothing" ELSE told[p]]
      /\ lost' = (lost \ own)
                   \cup {p \in own : rows[p].row \/ p \in view.pairs}
      /\ UNCHANGED <<settings, covered, level, reachable, rows, scanDue, pass>>
  BY DEF CreateInstance
<1>2. TypeOK'
  <2>1. told' \in [Pairs -> Messages]
    BY <1>1 DEF IInv, TypeOK, Messages
  <2> QED BY <1>1, <2>1 DEF IInv, TypeOK, settings, pass
<1>3. PassShape' /\ RowThere'
  BY <1>1 DEF IInv, PassShape, LoadedPairs, RowThere, pass
<1>4. \A p \in own \ lost' : ~rows[p].row /\ ~rows[p].alerting /\ p \notin view.pairs
  BY <1>1 DEF IInv, RowThere
<1>5. \A p \in Pairs \ own : told'[p] = told[p] /\ (p \in lost' <=> p \in lost)
  BY <1>1
<1>6. \A p \in own : told'[p] = "nothing"
  BY <1>1
<1>7. RowsHonest'
  BY <1>1, <1>4, <1>5, <1>6 DEF IInv, RowsHonest, Honest, pass
<1>8. DraftHonest'
  <2>1. LoadedPairs' = LoadedPairs /\ LoadedPairs \subseteq view.pairs \cap Pairs
    BY <1>1 DEF LoadedPairs, pass, IInv, TypeOK
  <2> QED BY <1>1, <1>4, <1>5, <2>1 DEF IInv, DraftHonest, Honest, pass
<1>9. AlertOnce'
  BY <1>1, <1>5, <1>6 DEF IInv, AlertOnce
<1> QED BY <1>2, <1>3, <1>7, <1>8, <1>9 DEF IInv

LEMMA DeleteInstanceStep ==
  ASSUME IInv, NEW t \in Targets, NEW batch \in BOOLEAN, DeleteInstance(t, batch)
  PROVE  IInv'
<1>1. /\ exists' = exists \ {t}
      /\ covered' = {p \in covered : p[2] # t}
      /\ level' = [p \in Pairs |-> IF p[2] = t THEN "between" ELSE level[p]]
      /\ rows' = [p \in Pairs |-> IF p[2] = t /\ p[1] \in Quick /\ ~batch
                                  THEN NoRow ELSE rows[p]]
      /\ lost' = lost \cup {p \in Pairs : p[2] = t}
      /\ UNCHANGED <<settings, reachable, scanDue, pass, told>>
  BY DEF DeleteInstance
<1>2. TypeOK'
  <2>1. rows' \in [Pairs -> RowState] /\ level' \in [Pairs -> Levels]
    BY <1>1, NoRowType DEF IInv, TypeOK, Levels
  <2> QED BY <1>1, <2>1 DEF IInv, TypeOK, settings, pass
<1>3. RowThere'
  BY <1>1 DEF IInv, RowThere, NoRow, pass
<1>4. RowsHonest'
  BY <1>1 DEF IInv, RowsHonest, Honest, pass
<1> QED BY <1>1, <1>2, <1>3, <1>4, AroundPass DEF IInv

LEMMA EnvironmentStep ==
  ASSUME IInv, Environment
  PROVE  IInv'
<1>1. /\ UNCHANGED <<settings, exists, pass, told, lost>>
      /\ \A p \in Pairs : /\ rows'[p].alerting = rows[p].alerting
                          /\ rows'[p].row = rows[p].row
  <2>1. ASSUME NEW p \in Pairs, RepeatIntervalElapses(p)
        PROVE  \A q \in Pairs : /\ rows'[q].alerting = rows[q].alerting
                                /\ rows'[q].row = rows[q].row
    BY <2>1 DEF RepeatIntervalElapses, IInv, TypeOK, RowState
  <2> QED BY <2>1 DEF Environment, CoverageChanges, LevelChanges, ChannelsChange,
             ScanIntervalElapses, RepeatIntervalElapses, world
<1>2. TypeOK'
  <2>1. CASE \E p \in Pairs : CoverageChanges(p)
    BY <2>1 DEF CoverageChanges, IInv, TypeOK, settings, pass
  <2>2. CASE \E p \in Pairs, l \in Levels : LevelChanges(p, l)
    BY <2>2 DEF LevelChanges, IInv, TypeOK, settings, pass
  <2>3. CASE \E r \in Rules : ChannelsChange(r)
    BY <2>3 DEF ChannelsChange, IInv, TypeOK, settings, pass
  <2>4. CASE ScanIntervalElapses
    BY <2>4 DEF ScanIntervalElapses, IInv, TypeOK, settings, world, pass
  <2>5. CASE \E p \in Pairs : RepeatIntervalElapses(p)
    <3>1. PICK p \in Pairs : rows' = [rows EXCEPT ![p].due = TRUE]
      BY <2>5 DEF RepeatIntervalElapses
    <3>2. rows[p] \in RowState
      BY DEF IInv, TypeOK
    <3>3. [rows[p] EXCEPT !.due = TRUE] \in RowState
      BY <3>2 DEF RowState
    <3>4. rows' \in [Pairs -> RowState]
      BY <3>1, <3>3 DEF IInv, TypeOK
    <3> QED BY <2>5, <3>4 DEF RepeatIntervalElapses, IInv, TypeOK, settings,
               world, pass
  <2> QED BY <2>1, <2>2, <2>3, <2>4, <2>5 DEF Environment
<1>3. RowThere' /\ RowsHonest'
  BY <1>1 DEF IInv, RowThere, RowsHonest, Honest, pass
<1> QED BY <1>1, <1>2, <1>3, AroundPass DEF IInv

LEMMA Stutter ==
  ASSUME IInv, UNCHANGED vars
  PROVE  IInv'
BY DEF IInv, vars, settings, world, pass, TypeOK, PassShape, LoadedPairs,
   RowThere, RowsHonest, DraftHonest, Honest, AlertOnce

LEMMA NextInv == IInv /\ [Next]_vars => IInv'
<1> SUFFICES ASSUME IInv, [Next]_vars PROVE IInv'
  OBVIOUS
<1>1. ASSUME NEW p \in Pairs, Evaluate(p) PROVE IInv'
  BY <1>1, AlertStep, RecoverStep, QuietlyStep DEF Evaluate
<1>2. ASSUME Operator PROVE IInv'
  BY <1>2, SaveSettingsStep, CreateInstanceStep, DeleteInstanceStep DEF Operator
<1> QED BY <1>1, <1>2, PassStartStep, LoadRuleStep, SkipRuleStep, PassCommitStep, PassFailStep,
           EnvironmentStep, Stutter DEF Next

-----------------------------------------------------------------------------
LEMMA InvariantHolds == Spec => []IInv
BY InitInv, NextInv, PTL DEF Spec

(* Between passes nothing is logged that is not in the database.            *)
LEMMA IdleHonest ==
  ASSUME IInv
  PROVE  AlertingMeansTold /\ NotSilentlyClosed
BY IdleShape DEF IInv, RowsHonest, Honest, AlertingMeansTold, NotSilentlyClosed

(* notification_rule_states and the state of a pass keep their shape.       *)
THEOREM TypeCorrect == Spec => []TypeOK
BY InvariantHolds, PTL DEF IInv

(* A balance rule of notification_service.py alerts once for a spell.       *)
THEOREM AlertOnceHolds == Spec => []AlertOnce
BY InvariantHolds, PTL DEF IInv

(* A row of notification_rule_states that silences its rule stands for a    *)
(* message that was delivered.                                              *)
THEOREM AlertingMeansToldHolds == Spec => []AlertingMeansTold
BY InvariantHolds, IdleHonest, PTL

(* A connectivity alert is not closed before its recovery is delivered.     *)
THEOREM NotSilentlyClosedHolds == Spec => []NotSilentlyClosed
BY InvariantHolds, IdleHonest, PTL
=============================================================================
