----------------------------- MODULE AlertRules -----------------------------
(***************************************************************************)
(* The monitoring pass of app/services/notification_service.py: one state  *)
(* row per rule and target, alerts and recoveries delivered while the pass *)
(* is still computing, and one commit at its end.                          *)
(*                                                                         *)
(* A rule reads a balance or a failure streak as one of Levels.  A session *)
(* without autoflush writes nothing before the commit, so the rows of the  *)
(* database are those of the last committed pass until then, and any       *)
(* exception discards the whole pass, not the messages it sent.            *)
(* consecutive_hits is counted up to the rule's limit, the only value it   *)
(* is compared with.  Aggregate rules make the same transitions; their one *)
(* target is not an instance.                                              *)
(***************************************************************************)
EXTENDS Integers

CONSTANTS
  Rules,      \* rules in the order the pass evaluates them
  Quick,      \* the one that is the instances' own balance switch
  Repeats,    \* the connectivity rules: they have a repeat interval
  Announces,  \* rules with notify_on_recovery
  Required,   \* Required[r]: min_consecutive_checks
  Targets,    \* instance ids
  NoRule      \* no rule under evaluation

ASSUME AlertAssumption ==
  /\ Rules \subseteq Nat
  /\ Targets \subseteq Nat
  /\ Quick \subseteq Rules
  /\ Repeats \subseteq Rules \ Quick
  /\ Announces \subseteq Rules
  /\ \A r \in Rules \ Quick, q \in Quick : r < q
  /\ Required \in [Rules -> Nat \ {0}]
  /\ NoRule \notin Rules

Pairs == Rules \X Targets
Levels == {"active", "between", "resolved"}

VARIABLES
  exists,      \* instances in the table
  configured,  \* rules in the settings (the quick one is not a setting)
  covered,     \* pairs the rule's filters and the instance's switches select
  level,       \* what the rule would read now
  channelsOn,  \* is a notification channel enabled?
  advanced,    \* notification_enabled
  reachable,   \* rules whose channels accept messages
  rows,        \* notification_rule_states
  scanDue,     \* has the check interval elapsed since the last scan?
  queue,       \* rules the pass still has to load
  rule,        \* rule under evaluation
  todo,        \* its pairs still to evaluate
  view,        \* what the pass read at its start
  draft,       \* the session's rows
  updated,     \* pairs whose existing row the session will update
  logged,      \* pairs for which the session will insert a log row
  told,        \* history: what the operator was last told of a pair
  lost         \* history: pairs whose row and messages parted company

settings == <<configured, channelsOn, advanced>>
world == <<exists, covered, level, reachable>>
pass == <<queue, rule, todo, view, draft, updated, logged>>
vars == <<settings, world, rows, scanDue, pass, told, lost>>

RowState == [row : BOOLEAN, alerting : BOOLEAN, hits : Nat, due : BOOLEAN]
NoRow == [row |-> FALSE, alerting |-> FALSE, hits |-> 0, due |-> TRUE]
NoRows == [p \in Pairs |-> NoRow]
NoView == [rules |-> {}, pairs |-> {}, level |-> [p \in Pairs |-> "between"]]
Idle == view.rules = {}

Messages == {"nothing", "alert", "twice", "closed", "recovery"}

TypeOK ==
  /\ exists \subseteq Targets
  /\ configured \subseteq Rules \ Quick
  /\ covered \subseteq Pairs
  /\ level \in [Pairs -> Levels]
  /\ channelsOn \in BOOLEAN
  /\ advanced \in BOOLEAN
  /\ reachable \subseteq Rules
  /\ rows \in [Pairs -> RowState]
  /\ scanDue \in BOOLEAN
  /\ queue \subseteq Rules
  /\ rule \in Rules \cup {NoRule}
  /\ todo \subseteq Pairs
  /\ view \in [rules : SUBSET Rules, pairs : SUBSET Pairs,
               level : [Pairs -> Levels]]
  /\ draft \in [Pairs -> RowState]
  /\ updated \subseteq Pairs
  /\ logged \subseteq Pairs
  /\ told \in [Pairs -> Messages]
  /\ lost \subseteq Pairs

(* A channel and rules are configured, no instance exists yet.              *)
Init ==
  /\ exists = {}
  /\ configured = Rules \ Quick
  /\ covered = {}
  /\ level = [p \in Pairs |-> "between"]
  /\ channelsOn = TRUE
  /\ advanced = TRUE
  /\ reachable = Rules
  /\ rows = NoRows
  /\ scanDue = TRUE
  /\ queue = {}
  /\ rule = NoRule
  /\ todo = {}
  /\ view = NoView
  /\ draft = NoRows
  /\ updated = {}
  /\ logged = {}
  /\ told = [p \in Pairs |-> "nothing"]
  /\ lost = {}

-----------------------------------------------------------------------------
(* The pass.                                                                *)

(* Instances, balances and connectivity are read once; without              *)
(* notification_enabled only the instances' own switches are evaluated.  A  *)
(* pass with nothing to evaluate still counts as a scan.                    *)
PassStart ==
  LET rules == Quick \cup (IF advanced THEN configured ELSE {}) IN
  /\ Idle
  /\ channelsOn
  /\ scanDue
  /\ scanDue' = (rules # {})
  /\ view' = [rules |-> rules, pairs |-> {p \in covered : p[1] \in rules},
              level |-> level]
  /\ queue' = rules
  /\ UNCHANGED <<settings, world, rows, rule, todo, draft, updated, logged,
                 told, lost>>

(* Load the rule's rows; those of targets it no longer covers are deleted.  *)
LoadRule(r) ==
  /\ todo = {}
  /\ r \in queue
  /\ \A s \in queue : r <= s
  /\ queue' = queue \ {r}
  /\ rule' = r
  /\ todo' = {p \in view.pairs : p[1] = r}
  /\ draft' = [p \in Pairs |->
                 IF p[1] = r /\ p \in view.pairs THEN rows[p] ELSE draft[p]]
  /\ UNCHANGED <<settings, world, rows, scanDue, view, updated, logged, told,
                 lost>>

(* Every kind of rule reads the settings again before its rules are loaded: *)
(* one that a save has removed since the pass began is not evaluated, if    *)
(* its kind had not been read before the save.  (An edit of its filters     *)
(* during the pass has the effect of one before it or after it.)            *)
SkipRule(r) ==
  /\ todo = {}
  /\ r \in queue \ (Quick \cup configured)
  /\ \A s \in queue : r <= s
  /\ queue' = queue \ {r}
  /\ view' = [view EXCEPT !.pairs = {p \in @ : p[1] # r}]
  /\ UNCHANGED <<settings, world, rows, scanDue, rule, todo, draft, updated,
                 logged, told, lost>>

(* The row of the next target, created when it has none.                    *)
Entry(p) == [draft[p] EXCEPT !.row = TRUE]
(* Mutant: the hit counter runs backwards.                                  *)
HitsDown(p) == draft[p].hits - 1

Hits(p) == IF draft[p].hits < Required[p[1]] THEN draft[p].hits + 1
           ELSE draft[p].hits

WantsAlert(p) ==
  /\ view.level[p] = "active"
  /\ IF draft[p].alerting THEN p[1] \in Repeats /\ draft[p].due
     ELSE Hits(p) >= Required[p[1]]

(* Mutant: a recovery only right after an active reading.                   *)
WantsRecoveryOnce(p) ==
  /\ view.level[p] = "resolved"
  /\ draft[p].alerting
  /\ p[1] \in Announces
  /\ draft[p].hits > 0

WantsRecovery(p) ==
  view.level[p] = "resolved" /\ draft[p].alerting /\ p[1] \in Announces

Turn(p) ==
  /\ p \in todo
  /\ \A q \in todo : p[2] <= q[2]
  /\ todo' = todo \ {p}
  /\ updated' = IF draft[p].row THEN updated \cup {p} ELSE updated
  /\ UNCHANGED <<settings, world, rows, scanDue, queue, rule, view, lost>>

(* Whatever the outcome of a delivery, it is logged.                        *)
CreateLog(p) == logged' = logged \cup {p}

(* Mutant: an alert counts as sent even if no channel accepted it.          *)
AlertUnchecked(p) ==
  /\ Turn(p)
  /\ WantsAlert(p)
  /\ draft' = [draft EXCEPT ![p] =
                 [row |-> TRUE, alerting |-> TRUE, hits |-> Hits(p),
                  due |-> p[1] \notin Repeats]]
  /\ CreateLog(p)
  /\ told' = IF p[1] \in reachable THEN [told EXCEPT ![p] = "alert"] ELSE told

(* An alert or a reminder: only one that some channel accepted counts.      *)
Alert(p) ==
  LET accepted == p[1] \in reachable IN
  /\ Turn(p)
  /\ WantsAlert(p)
  /\ draft' = [draft EXCEPT ![p] =
                 [row |-> TRUE, alerting |-> draft[p].alerting \/ accepted,
                  hits |-> Hits(p),
                  due |-> draft[p].due /\ ~(accepted /\ p[1] \in Repeats)]]
  /\ CreateLog(p)
  /\ told' = IF ~accepted THEN told
             ELSE [told EXCEPT ![p] =
                     IF p[1] \notin Repeats /\ @ \in {"alert", "twice"}
                     THEN "twice" ELSE "alert"]

(* Mutant: an undelivered recovery closes every alert.                      *)
RecoverUnchecked(p) ==
  /\ Turn(p)
  /\ WantsRecovery(p)
  /\ draft' = [draft EXCEPT ![p] = [Entry(p) EXCEPT !.hits = 0,
                                                   !.alerting = FALSE]]
  /\ CreateLog(p)
  /\ told' = IF p[1] \in reachable THEN [told EXCEPT ![p] = "recovery"] ELSE told

(* A recovery that nobody accepted is tried again only when the rule has a  *)
(* repeat interval.                                                         *)
Recover(p) ==
  LET accepted == p[1] \in reachable IN
  /\ Turn(p)
  /\ WantsRecovery(p)
  /\ draft' = [draft EXCEPT ![p] =
                 [Entry(p) EXCEPT !.hits = 0,
                                  !.alerting = ~accepted /\ p[1] \in Repeats]]
  /\ CreateLog(p)
  /\ told' = IF accepted THEN [told EXCEPT ![p] = "recovery"] ELSE told

(* Mutants: any reading that is not active re-arms the rule; hits are       *)
(* forgotten between checks.                                                *)
QuietlyRearmed(p) ==
  /\ Turn(p)
  /\ ~WantsAlert(p)
  /\ ~WantsRecovery(p)
  /\ draft' = [draft EXCEPT ![p] =
                 [Entry(p) EXCEPT
                    !.hits = IF view.level[p] = "active" THEN Hits(p) ELSE 0,
                    !.alerting = @ /\ view.level[p] = "active"]]
  /\ UNCHANGED <<told, logged>>
QuietlyForgotten(p) ==
  /\ Turn(p)
  /\ ~WantsAlert(p)
  /\ ~WantsRecovery(p)
  /\ draft' = [draft EXCEPT ![p] =
                 [Entry(p) EXCEPT !.hits = 0,
                                  !.alerting = @ /\ view.level[p] # "resolved"]]
  /\ UNCHANGED <<told, logged>>

(* An evaluation that sends nothing.                                        *)
Quietly(p) ==
  /\ Turn(p)
  /\ ~WantsAlert(p)
  /\ ~WantsRecovery(p)
  /\ draft' = [draft EXCEPT ![p] =
                 [Entry(p) EXCEPT
                    !.hits = IF view.level[p] = "active" THEN Hits(p) ELSE 0,
                    !.alerting = @ /\ view.level[p] # "resolved"]]
  /\ UNCHANGED <<told, logged>>

(* A row to update or the instance of a log row has gone: the flush raises. *)
Ruined ==
  \/ \E p \in updated : ~rows[p].row
  \/ \E p \in logged : p[2] \notin exists

EndPass ==
  /\ queue' = {}
  /\ rule' = NoRule
  /\ todo' = {}
  /\ view' = NoView
  /\ draft' = NoRows
  /\ updated' = {}
  /\ logged' = {}
  /\ UNCHANGED <<settings, world>>

(* Every row, log and the scan's time stamp in one transaction.  (History:  *)
(* a deleted row forgets its messages; a resolved reading closes the alert, *)
(* and the history of a lost pair starts over.)                             *)
PassCommit ==
  LET settled == {p \in view.pairs : /\ view.level[p] = "resolved"
                                     /\ ~draft[p].alerting} IN
  /\ ~Idle
  /\ queue = {}
  /\ todo = {}
  /\ ~Ruined
  /\ rows' = [p \in Pairs |-> IF p[1] \in view.rules THEN draft[p] ELSE rows[p]]
  /\ scanDue' = FALSE
  /\ lost' = (lost \cup {p \in Pairs : rows[p].row /\ ~rows'[p].row}) \ settled
  /\ told' = [p \in Pairs |->
                IF p \in settled /\ p \in lost THEN "nothing"
                ELSE IF p \in settled /\ told[p] \in {"alert", "twice"}
                     THEN "closed" ELSE told[p]]
  /\ EndPass

(* SQLite busy beyond its timeout, a ruined flush, or the process dies: the *)
(* pass is rolled back and runs again on the next tick.                     *)
PassFail ==
  /\ ~Idle
  /\ lost' = lost \cup logged
  /\ EndPass
  /\ UNCHANGED <<rows, scanDue, told>>

-----------------------------------------------------------------------------
(* What happens around it.                                                  *)

(* update_app_settings purges the rows of rules that are gone; a rule's id  *)
(* is never used again.                                                     *)
SaveSettings(rules, channels, adv) ==
  /\ configured' = rules
  /\ channelsOn' = channels
  /\ advanced' = adv
  /\ rows' = [p \in Pairs |-> IF p[1] \in rules \cup Quick THEN rows[p]
                              ELSE NoRow]
  /\ lost' = lost \cup {p \in Pairs : rows[p].row /\ ~rows'[p].row}
  /\ UNCHANGED <<world, scanDue, pass, told>>

(* A new row may get the id of a deleted one, and then finds its state rows.*)
CreateInstance(t) ==
  LET own == {p \in Pairs : p[2] = t} IN
  /\ t \notin exists
  /\ exists' = exists \cup {t}
  /\ told' = [p \in Pairs |-> IF p \in own THEN "nothing" ELSE told[p]]
  /\ lost' = (lost \ own)
               \cup {p \in own : rows[p].row \/ p \in view.pairs}
  /\ UNCHANGED <<settings, covered, level, reachable, rows, scanDue, pass>>

(* Deleting one instance deletes its quick row; a batch deletes no row.     *)
DeleteInstance(t, batch) ==
  /\ t \in exists
  /\ exists' = exists \ {t}
  /\ covered' = {p \in covered : p[2] # t}
  /\ level' = [p \in Pairs |-> IF p[2] = t THEN "between" ELSE level[p]]
  /\ rows' = [p \in Pairs |-> IF p[2] = t /\ p[1] \in Quick /\ ~batch
                              THEN NoRow ELSE rows[p]]
  /\ lost' = lost \cup {p \in Pairs : p[2] = t}
  /\ UNCHANGED <<settings, reachable, scanDue, pass, told>>

(* Edits of the rule or the instance, automatic disabling, new balances.    *)
CoverageChanges(p) ==
  /\ p[2] \in exists
  /\ covered' = IF p \in covered THEN covered \ {p} ELSE covered \cup {p}
  /\ UNCHANGED <<settings, exists, level, reachable, rows, scanDue, pass,
                 told, lost>>

LevelChanges(p, l) ==
  /\ p[2] \in exists
  /\ level[p] # l
  /\ level' = [level EXCEPT ![p] = l]
  /\ UNCHANGED <<settings, exists, covered, reachable, rows, scanDue, pass,
                 told, lost>>

ChannelsChange(r) ==
  /\ reachable' = IF r \in reachable THEN reachable \ {r} ELSE reachable \cup {r}
  /\ UNCHANGED <<settings, exists, covered, level, rows, scanDue, pass, told,
                 lost>>

ScanIntervalElapses ==
  /\ ~scanDue
  /\ scanDue' = TRUE
  /\ UNCHANGED <<settings, world, rows, pass, told, lost>>

(* A pass compares with the time it began at: what elapses during it is     *)
(* seen by the next one.                                                    *)
RepeatIntervalElapses(p) ==
  /\ Idle
  /\ ~rows[p].due
  /\ rows' = [rows EXCEPT ![p].due = TRUE]
  /\ UNCHANGED <<settings, world, scanDue, pass, told, lost>>

-----------------------------------------------------------------------------
Evaluate(p) == Alert(p) \/ Recover(p) \/ Quietly(p)

Operator ==
  \/ \E rules \in SUBSET configured, channels \in BOOLEAN, adv \in BOOLEAN :
       SaveSettings(rules, channels, adv)
  \/ \E t \in Targets : CreateInstance(t)
  \/ \E t \in Targets, batch \in BOOLEAN : DeleteInstance(t, batch)

Environment ==
  \/ \E p \in Pairs : CoverageChanges(p)
  \/ \E p \in Pairs, l \in Levels : LevelChanges(p, l)
  \/ \E r \in Rules : ChannelsChange(r)
  \/ ScanIntervalElapses
  \/ \E p \in Pairs : RepeatIntervalElapses(p)

Next ==
  \/ PassStart
  \/ \E r \in Rules : LoadRule(r) \/ SkipRule(r)
  \/ \E p \in Pairs : Evaluate(p)
  \/ PassCommit
  \/ PassFail
  \/ Operator
  \/ Environment

Spec == Init /\ [][Next]_vars

(***************************************************************************)
(* The scheduler ticks every minute, a delivery returns, and not every     *)
(* pass is cut short by a crash or by a busy database (strong fairness:    *)
(* some may be).  Nothing is assumed of the operator or of the readings.   *)
(***************************************************************************)
Fairness ==
  /\ WF_vars(PassStart)
  /\ SF_vars(\E r \in Rules : LoadRule(r) \/ SkipRule(r))
  /\ \A p \in Pairs : SF_vars(Evaluate(p))
  /\ SF_vars(PassCommit)
  /\ WF_vars(PassFail)
  /\ WF_vars(ScanIntervalElapses)
  /\ \A p \in Pairs : SF_vars(RepeatIntervalElapses(p))

FairSpec == Spec /\ Fairness

-----------------------------------------------------------------------------
(* One alert for one spell of low balance: a second is delivered only after *)
(* a reading at the recovery threshold, unless a rolled back pass or a      *)
(* deleted state row made the program forget the first.                     *)
AlertOnce ==
  \A p \in Pairs \ lost : told[p] # "twice"

(* The same without exception, as the README says it.                       *)
AlertOncePerSpell ==
  \A p \in Pairs : told[p] # "twice"

(* Between passes a row says "alerting" only if the operator has been told  *)
(* and not been told of a recovery since: what keeps the rule silent is     *)
(* always a message that was delivered.                                     *)
AlertingMeansTold ==
  Idle => \A p \in Pairs \ lost :
    rows[p].alerting => told[p] \notin {"nothing", "recovery"}

(* A connectivity alert stays open until its recovery has been delivered.   *)
NotSilentlyClosed ==
  Idle => \A p \in Pairs \ lost :
    /\ p[1] \in Repeats \cap Announces
    /\ told[p] \in {"alert", "closed"}
    => rows[p].alerting

Monitored(p, l) ==
  /\ p[2] \in exists
  /\ p \in covered
  /\ p[1] \in reachable
  /\ p[1] \in Quick \/ (advanced /\ p[1] \in configured)
  /\ channelsOn
  /\ level[p] = l

Reported(p) == told[p] \in {"alert", "twice"}

(* The row of a rule without reminders still says "alerting" although the   *)
(* operator heard of the recovery, in a pass that was rolled back, or never *)
(* of the alert, a deleted instance's row found under its id.               *)
Silenced(p) == p[1] \notin Repeats /\ p \in lost /\ rows[p].alerting

(* A target that stays low is reported, whatever alerts were rolled back,   *)
(* rows deleted and settings saved before: only a row that outlived its     *)
(* message silences a balance rule, and nothing a connectivity rule.        *)
AlertReaches ==
  \A p \in Pairs :
    <>[]Monitored(p, "active") => []<>(Reported(p) \/ Silenced(p))

(* After the message of the recovery, a target that is low again and stays  *)
(* low is reported, as the README says it.                                  *)
ReportedAgain ==
  \A p \in Pairs :
    [](told[p] = "recovery" /\ []Monitored(p, "active") => <>Reported(p))

(* A connectivity alert is followed by its recovery message once the target *)
(* stays well.                                                              *)
RecoveryReaches ==
  \A p \in Pairs :
    p[1] \in Repeats \cap Announces =>
      (<>[]Monitored(p, "resolved")
         => []<>(told[p] \notin {"alert", "closed"} \/ p \in lost))
=============================================================================
