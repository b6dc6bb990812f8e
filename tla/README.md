# NiceApiManager: specifications and proofs

TLA+ models of NiceApiManager: of the parts where threads, messages and restarts
meet (the synchronisation engine and what its syncs write, the session cache, the
monitoring pass) and of the parts that only compute (billing expressions, prices,
charts). Paths below are those of the repository (`app/...`, `web/...`). `PROJECT.json` gives for
every definition the lines it models, for every property the mutant that breaks
it, and the hazards of the code one by one.

## 1. Inventory

NiceApiManager watches a number of upstream API sites ("instances"): it logs in
to each, copies balance, group ratios, prices, usage and announcements into
SQLite, and sends notices. One process runs FastAPI request threads, a pool for
the bulk sync and one APScheduler thread pool with three jobs.

| Component | State | Operations | Talks to |
|---|---|---|---|
| Sync engine `services/sync_service.py` | `sync_runs`, flags and health of `instances`, snapshots | sync one instance (NewAPI / Sub2API), bulk sync, scheduled pass, automatic disabling | upstream clients, notification service, write lock |
| Scheduler `core/scheduler.py` | jobs (each at most once at a time, coalesced) | sync pass 1 min, monitoring 1 min, retention 1 h | the three services |
| Lifecycle `main.py` | the process | migrate, close rows left running, start the scheduler | database |
| Database `core/database.py` | `SQLITE_WRITE_LOCK`, WAL, busy timeout 30 s, sessions without autoflush | lock / commit / rollback | everyone |
| Monitoring `services/notification_service.py` | `notification_rule_states`, `notification_logs` | one pass: evaluate rules, deliver, commit | settings, instances, channels |
| Settings `services/app_setting_service.py` | one `app_settings` row | read with defaults, save and purge rule states, mark a scan | monitoring, sync engine |
| Instances `services/instance_service.py` | `instances` | create, update, delete, and their batches | sessions, rule states |
| Session cache (`sync_service`) | `instance_sessions` | reuse, log in, refresh, clear on edits of the credentials | clients |
| Announcements, ratios, usage (`sync_service`) | their tables | compare with what was stored, record changes, notify | monitoring's channels |
| Retention `services/retention_service.py` | | delete old rows | |
| Prices `services/billing_expr.py`, `pricing_service.py` | `pricing_models` | find the tiers of expressions, normalise, compare | |
| Dashboards `services/dashboard_service.py`, `snapshot_metrics.py` | (reads `daily_usage_stats`, `user_snapshots`) | chart of a period, today's count | |
| Group labels `services/group_service.py` | labels and assignments | | |
| Secrets `core/crypto.py`, `core/migrations.py` | encrypted columns | rewrite plaintext at start-up | |
| Clients `clients/newapi.py`, `clients/sub2api.py` | (tokens in memory) | log in, refresh, fetch; some errors become empty answers | sync engine |
| Routes, authentication, other queries, web console | (none that others read back) | | |

What is hard:

* **Threads with sessions.** A worker loads an instance, talks to the upstream
  for seconds to minutes, then writes only the columns it changed with respect
  to what it loaded. Editors do the same. Each can overwrite or revive what the
  other decided in between.
* **A lock held over the network.** The persistence phase holds the process
  lock and SQLite's write lock during its last upstream calls, and the process
  lock while it sends notices.
* **Decisions on history.** Automatic disabling looks at the last five
  scheduled rows, the scheduled pass at rows still running: a crash, a deletion
  or a manual sync must not falsify either.
* **Messages before the commit.** The monitoring pass delivers first and
  commits last; a rollback forgets messages already sent.
* **Baselines and marks.** What is new, and whether it was sent, is decided by
  comparison with a table that retention, failing endpoints and other syncs
  change; marks are committed after the messages they stand for.
* **Single-use tokens.** A refresh token is good once, and several threads hold it.
* **Rows referred to by id.** Rule states outlive batch deletes, and SQLite
  may give a deleted instance's id to a new one.

What makes each correct: a sync always ends and its row with it; writes are
exclusive; the flags `enabled`/`auto_disabled` change only on a real streak, a
scheduled recovery or the operator's word; one alert per spell, never silence
about an open problem, a recovery for every alert that promises one; news told
once and history never, no change of a ratio untold without a reason; usage never
invented, complete days kept, the tables converging to what the upstream says;
the cached session the account's own; tiers, charts and best prices that agree
with what was charged and spent.

## 2. Modules

| Module | Models | Proofs |
|---|---|---|
| `SyncEngine` | sync engine, scheduled pass, operator's edits, write lock, crash and restart | `SyncEngineProofs` |
| `MCSyncEngine` | instances of it for TLC | |
| `AlertRules` | the monitoring pass, its rule states, settings and deletions around it | `AlertRulesProofs` |
| `AnnouncementFeed` | announcements from fetch to mark, with retention and restarts | `AnnouncementFeedProofs` |
| `NewsFeed` | the promise that `AnnouncementFeed` implements | (there) |
| `RateFeed` | group ratios, rate events and their notice | `RateFeedProofs` |
| `UsageHistory` | the daily usage that syncs overwrite | `UsageHistoryProofs` |
| `SessionCache` | the cached upstream session | `SessionCacheProofs` |
| `BillingExpr` | the tiers of a billing expression | `CalculatorProofs` |
| `Trends` | chart and card of the usage | `CalculatorProofs` |
| `Pricing` | price lists, common units, the best instance | `CalculatorProofs` |
| `Calculators` | the last three as one specification | `CalculatorProofs` |
| `Induction` | nothing of the program: induction over numbers and finite sets, and the existence of recursive functions | (there) |
| `MC...` | instances of these for TLC | |

`SyncEngine` has a sync's life as a whole and leaves out what it writes. The four
modules after `AlertRules` each take one of the things written, with the same
skeleton of a sync: work without a lock, `SQLITE_WRITE_LOCK`, one commit, notices,
release; they share no variables, so composing them with `SyncEngine` would
multiply its states without a new interleaving between them.

Definitions called *mutant* in the comments are not part of the model: each is
the bug that one of the properties must catch, named in `PROJECT.json`.

### SyncEngine

*State.* `inst` holds the row's existence and the two flags; `running[i]` the
workers whose `sync_runs` row for `i` says "running"; `recent[i]` the statuses of
the last `FailLimit` scheduled rows. Times are reduced to what is compared
with them: `due` (since `last_sync_at`) and `probeDue` (since the last
scheduled run finished). `worker[w]` is a thread with its session: phase,
instance, and the flags it loaded; `admin[a]` a request between loading and
committing; `lock` is `SQLITE_WRITE_LOCK`; `todo` the rest of the scheduled pass.

*Actions.* `Start` inserts the running row. `Login` commits a session row and so
expires the loaded attributes, which are read again later; without it the
persistence phase still uses the values of the start. `EnterPersist` takes the
lock, `PersistCommit` commits success (and the recovery of an auto-disabled
instance), `Finish` sends the notices and releases the lock. `NetworkFail`,
`PersistFail`, `PersistStale` (the row was deleted) lead to `HandlerLoad` and
`HandlerCommit`, which record the failure and decide on automatic disabling; so
does `FinishFail`: a commit of the notices' marks that fails is swallowed, but
`db.refresh(sync_run)` after it raises, and the committed success becomes a
failure, which counts to the streak (`RowLeft` says which row the handler finds).
`ManualSync`, `PassStart` and `PassTurn` start syncs: the scheduled pass reads
everything once and looks again only whether the row still exists. `AdminLoad`,
`AdminCommit` and `AdminBusy` are `update_instance` in its two halves. `Crash`
can happen anywhere; `Restart` is `lifespan()`.

*Abstractions.* One commit is one action. The NewAPI and the Sub2API sync take
the same steps. A worker's upstream calls fail when `healthy` says so, at most
one change of mind per step. `running` counts at most one row per worker. A
second manual thread and a second operator add interleavings of the same steps;
the proofs cover any number of them.

*The ghost* `raced` collects the instances an edit of which was committed while
a sync of the instance was in flight or over flags that had changed since they
were loaded. `FlagsExclusive` and `OffStays` except those, because the code
breaks them there (section 5). Outside such overlaps they must hold in every
order of syncs, crashes and edits.

### AlertRules

*State.* `rows` is the table of rule states as of the last commit, `draft` what
the pass's session holds; `view` the settings, instances and readings the pass
took at its start; `updated` and `logged` the rows the session will update or
insert, which a concurrent deletion can ruin. A reading is "active",
"resolved" or "between" the two thresholds. `told` records what the operator was
last told of a rule and target, `lost` the pairs for which the program forgot
its own messages: the pass was rolled back after a delivery, or the state row
was deleted while it mattered. Both are history variables and guard nothing.

*Actions.* `PassStart`, `LoadRule` (rows of targets no longer covered are dropped) or
`SkipRule` (each kind of rule reads the settings anew, so a rule that a save removed
after the pass began is passed over),
then for each target `Alert`, `Recover` or `Quietly`, which together are
`_apply_state_transition`; `PassCommit` or `PassFail`. Around it: `SaveSettings`
with its purge, `CreateInstance` (possibly with an old id), `DeleteInstance`
(alone or in a batch), and an environment that changes readings, coverage and
channels at any time.

*Abstractions.* Hits are counted up to the limit they are compared with. Rule
ids are never used again (the console generates them). An aggregate rule makes
the same transitions with its one target, which is not an instance; it has no
run of its own. A channel either accepts a message or not; "partial" counts as
accepted, as in `_has_successful_delivery`. A pass compares repeat intervals with the
time it began at, so `RepeatIntervalElapses` happens between passes.

*What the history excepts.* `AlertOnce`, `AlertingMeansTold` and `NotSilentlyClosed`
except the pairs in `lost`: for those the code does repeat or drop messages, and
`alert_spell` shows it. `AlertReaches` excepts no pair for being lost, only one in which
a row that is still alerting outlived its message (`Silenced`: a recovery that was told in a
pass rolled back, or a deleted instance's row found under its id); a connectivity rule
reminds, so for it the exception is void. The run of `AlertReaches` is of a balance rule, where it
matters; `alert_silence` shows the excepted case.

### AnnouncementFeed and NewsFeed

*State.* `table` gives each key the mark of its row ("absent", "unsent",
"notified"). An item's key is its upstream id or, without one, Python's `hash()`
of its text, which is seeded anew in each process: the item with the number
`boot` of the process. `old` holds the keys past the retention period,
`worker[w]` what a sync has fetched, found new, and has yet to send. The history variables `pushed`,
`quietly` and `begun` count messages and remember baselines for as long as the
program knows the item.

*Actions.* `Fetch` without a lock (failing endpoints and the off switch give an
empty list), `Compare` with the lock, `Commit` of the rows, `Push` of each of the first
`PushLimit`, `Finish` with the commit of the marks, which may fail unnoticed;
`PersistFail`; `Retention`, `Crash`, `Restart`.

*NewsFeed* is what an operator may rely on: history is never sent; what is found
later is owed or let go, told at most once, and every debt is settled. The
refinement maps a stored row to *known* and what a sync has still to send to
*owed*. It holds only because "known" means "the row that this process would
look up is there": a restart forgets items without an id, retention forgets
old ones, and both are then news again (section 5).

*Abstractions.* A crash during `Finish` is a crash before or after it. The five of
the code is `PushLimit`. The list is a set; which ones are first is left open.

### RateFeed

*State.* `stored` is `group_ratios`; `marked` the groups with a "changed" event that
was notified and is within the cooldown. `told` (history) is the ratio the
operator heard of last, `excused` the groups for which it need not be the stored
one, `loud`, `unmarked` and `again` the messages of a running cooldown.

*Actions.* `Fetch`; `Persist` replaces the ratios and compares (`Changed`, `Small`,
`Moved`, `Baseline`); `Send` is one message for all that the cooldown lets pass,
`Skip` no message; `Mark` commits the marks or fails to. A group is its name with
its platform. Ratios are whole numbers, so percentages compare exactly.

### UsageHistory

*State.* `spent[d]` is what the upstream accounts to day `d`, `stats[d]` the row.
`worker[w]` carries the day a sync was stamped with and the rows it fetched.

*Actions.* `Stamp` before the lock, `Enter` takes it and fetches, `Commit` overwrites
every row of the window; `Fail` at any point; `Retention` by the UTC date; `Midnight`,
`Spend`, `EndpointChanges`. An endpoint that does not answer leaves zeros. `west`
is the configuration in which dated rows fall a day short (`_first_timestamp`).

### SessionCache

*State.* `row` is the one row of `instance_sessions`: whose session, and what has become
of its refresh token. `worker[w]` is a thread between its requests, with the
credentials it loaded and what it knows of the row it found; `outdated` and
`stray` (history) mark threads, and rows stored by them, that an edit overtook.

*Actions.* One per request or write of `_try_access_token_session`,
`_ensure_session` and `_ensure_sub2api_session`; `Edit` is `update_instance` for fields
that matter to the login; `UpstreamChanges` closes and opens accounts; `Crash`.

*Abstractions.* Every request may fail at any time, save a login with an account that
is let in (else nothing would be promised). Looking up and deleting the row in an
edit is one step. An UPDATE writes whole sessions; the code's writes only the columns
that differ from what was loaded, so that a reused row id can give a mixed row,
whose check fails like that of an expired one. Legacy NewAPI with cookies takes the steps of Sub2API
and is not in the run. A correction of `program_type` is not modelled.

### Calculators

`BillingExpr` builds expressions of up to `MaxTiers` tiers. An expression is a
sequence of choices, the innermost first: the n-th is between what there is so far
and the tier n + 1. `Text` writes it as the scanner sees it (punctuation,
conditions, tiers), `CollectTiers` parses that text as the code does, and the result
is compared with `Charged`, the value of the expression. Tiers and the conditions of
one are sets: nothing depends on their order. The parser is a recursive function on
`Seq(Tokens)`, not a recursive operator, so that it can be proved about; TLC evaluates
it on the texts it meets. `Written` puts a version and request rules around the text: the
parser strips the one and cuts the other off, and a tier's price is what is charged
before the rules multiply it. `Trends` gives each instance a history of days - spent, synced, row kept, count begun anew - and
compares chart and card with it. `Pricing` builds price lists of four shapes (ratios of
NewAPI and RixAPI with or without tiers, ShellAPI, Sub2API's plaza, its usage statistics) and
takes them through the stored row (explicit prices, tiers, ratios: `NormalizedPrices`), the
stored group ratios (`StoredGroups`, none if the request for them failed) and the filter
`if group in ratios` (`Candidates`) to the price that is compared (`EffectiveInput`), which
is the stored one where there is no ratio. The result is compared with `Charge`. Where the
code cannot be right, the properties say so in their premises, and section 5 in words:
`Chain`, `Known` and `Single` of expressions; of today's count, that there is a day to
compare with and that today has a row or no day of the period has one; of prices
`Faithful`: one price of what is charged, the same in each group (`Priced`); not ShellAPI's
or usage lists, and no plaza with tiers, free groups or a token price of a model
charged by requests (`Listed`); no multiplier of the account's own; and a stored ratio for a
group that offers the model. Amounts are whole numbers. `Calculators` only puts the three
side by side; a behaviour enlarges one input.

## 3. Runs

| Run | Instance | Shows |
|---|---|---|
| `sync_safety` | 1 instance, 1 manual thread, 1 operator, `FailLimit` 3 | `TypeOK`, `NoOrphanRow`, `WriteExclusion`, `AutoMeansFailing`, `FlagsExclusive`, `StreakDisables`, `OffStays` |
| `sync_liveness` | 1 instance, 1 manual thread, no operator, `FailLimit` 2, fair | `RunsEnd`, `AutoDisabledRecovers`, `BrokenIsDisabled` |
| `sync_manual_disable` | 1 instance, 1 operator | **violated**: `ManualDisableHolds` |
| `alert_balance` | a balance rule wanting two hits, with recovery, one target, fair | `TypeOK`, `AlertOnce`, `AlertingMeansTold`, `AlertReaches` |
| `alert_connectivity` | a connectivity rule with reminders and recovery, fair | `NotSilentlyClosed`, `RecoveryReaches` |
| `alert_spell` | the quick switch, one target | **violated**: `AlertOncePerSpell` |
| `alert_silence` | the quick switch with recovery, fair | **violated**: `ReportedAgain` |
| `announcements` | 2 syncs, 1 item with an id and 1 without, 2 processes, `PushLimit` 1, fair | `TypeOK`, `PushedOnce`, `HistoryNotPushed`, `NotifiedMeansTold`, `ListedIsStored`, `KeepsPromise` |
| `rates` | 2 syncs, 2 groups, ratios 1 and 2, minimum 60 %, fair | `TypeOK`, `UntoldHasReason`, `OnePerCooldown`, `RatiosConverge` |
| `usage` | 2 syncs, 4 days, lookback 3, retention 2, fair | `TypeOK`, `NeverInvented`, `CompleteStays`, `UsageConverges` |
| `session` | 2 threads, 2 accounts, 3 sets of credentials, modern NewAPI and Sub2API, 1 crash, fair | `TypeOK`, `OwnAccount`, `RotationStored`, `KeepsGettingIn`, `StrangerGoes` |
| `calculators` | 3 tiers, 2 texts of request rules, 3 days of 2 instances, 2 upstreams with 2 groups | `TiersApply`, `TiersCover`, `ChartAddsUp`, `TodayAgrees`, `BestIsCheapest` |

*Bounds.* Every variable is finite once the constants are: nothing had to be cut
off with a state constraint. The code's limit of 5 is `FailLimit`; 3 is the least
at which "all of the last", "the last" and "one too few" differ. The hazards
are about two writers of one row, so one instance suffices for the flags and
the rows; the write lock is contended by the scheduler and the manual thread.
Rules meet in the code only in sharing a pass and its transaction; a second
pair multiplies the states beyond what TLC finishes (over 2.5 million and
growing), so each run takes one rule and one target. What that leaves
out, one rule's ruined flush discarding another's messages, is in the model as
`PassFail`, which may strike any pass at any point. The safety properties are proved
for any number of pairs (section 4), so the bound concerns only liveness.

For the feeds two syncs are the least that overlap, two items (groups) the least of
which one is sent and one is not. `PushLimit` 1 has both a notice and an item past
the limit. Doubling a ratio is a change of 100 %, halving it one of 50 %: the minimum
of 60 % separates them. Four days let a day enter the window, end, leave it and
expire; lookback and retention are apart so that both orders of "last refreshed" and
"deleted" occur. `MaxBoot`, `MaxDay`, `MaxSpend` and `MaxCrashes` bound what would
otherwise grow; liveness is read with them exhausted. Three tiers make the shortest chain and the
shortest nesting; a shorter period than the history, and a limit of one instance, are
in the three days and two instances. `Lengths` (0 to 3) has lengths below, at,
between and above the thresholds. The text of request rules is none or one that could be
taken for a choice of tiers. The price lists have each kind once with what tells
it apart: a group without a stored ratio, no ratio at all, ratios of zero, tiers,
prices of a request next to one of input, an output price alone, a multiplier of the
account's own.

*What is excepted.* Some properties name an event after which they promise nothing of
the rows concerned: `raced` (overlapping edits), `lost`, `unmarked` (a lost mark), `stray`
and `outdated` (a login that an edit overtook), the listed reasons of `UntoldHasReason`. They
bound what those events can do to everything else; the events themselves are caught by
`ManualDisableHolds`, `AlertOncePerSpell` and `ReportedAgain` (violated), by `AlertReaches`,
`StrangerGoes` and `RatiosConverge`, or are listed in section 5.

*Deadlock* is checked in all runs but `calculators`, whose inputs stop growing: there is always something the environment can
do, so here it says little; that nobody waits for ever is `RunsEnd`, and for the feeds
`ListedIsStored`, `RatiosConverge` and `UsageConverges`.

*Fairness.* Upstream calls have timeouts (`request_timeout`), a thread that holds
the lock runs on, and one that waits for an `RLock` others take and release gets
it sooner or later: strong fairness for the steps that take the lock, weak for
those that hold it. The scheduler ticks each minute; a supervisor restarts the
process. Strong fairness of a pass's evaluation and commit says that not every
pass is cut short; that of `RepeatIntervalElapses`, which waits for the end of a pass, is
no more than time passing between two passes. Nothing is assumed of operators, crashes or the upstream;
liveness properties name the stability they need (`<>[](up /\ ...)`).
In the feeds strong fairness of `Compare`, `Persist`, `Enter` and the commits says that the lock
comes round and not every persistence phase fails; failures and crashes themselves
are never required. In `SessionCache` a thread makes *some* step, which may be a failure.
`BrokenIsDisabled` also excludes manual syncs of that instance without end: while
one is running whenever the pass looks, the pass skips the instance and no
scheduled failure is ever recorded.

## 4. Proofs

Every theorem holds for all constants that satisfy the named assumption of its
component: any number of instances, threads, operators, rules, targets, items,
groups, days and accounts, any limit and threshold, any number of tiers and
any price. In the proof module of each component one inductive invariant `IInv` carries
all properties, which are not inductive as they stand, with one lemma per action,
joined by `NextInv`; only in `CalculatorProofs` the work is in the functions and not
in the steps. Every safety property that a run checks is proved. `PROJECT.json`
lists the theorems.

*SyncEngineProofs*: `TypeCorrect`,
`NoOrphanRowHolds`, `WriteExclusionHolds`, `AutoMeansFailingHolds`,
`FlagsExclusiveHolds`, `StreakDisablesHolds` and `OffStaysHolds`.

* `AutoMeansFailing` survives a scheduled success only if the worker that commits
  it saw the flag: `ScheduledSees`. A concurrent manual success may clear the flag
  under it, but only a scheduled failure sets it, and the scheduler is one thread.
* `FlagsExclusive` survives a recovery or an automatic disabling only if what the
  worker loaded is on the same side as the row (both switched off by hand, or both
  on the cycle of enabled and auto-disabled) unless an edit overlapped:
  `LoadedAgrees`. The same fact gives `OffStays`.
* `NoOrphanRow` needs the shape of idle threads (`WorkerShape`, `AdminShape`) and
  that a stopped process has none at work (`NoLeftovers`).

For `StreakDisables` and `OffStays`, `FlagWriters` says which actions write the
flags at all, so that only those are looked at again.

*AlertRulesProofs*: `TypeCorrect`, `AlertOnceHolds`, `AlertingMeansToldHolds` and
`NotSilentlyClosedHolds`, for rules of every kind together in one pass.
The properties speak of the database between passes; during one, database and
operator disagree on purpose. `RowsHonest` says that they agree on every pair
without a new log entry (`logged`), `DraftHonest` that the pass's session agrees on every
pair it has loaded, except one whose alert it is about to close; `PassShape` bounds
how far the pass has got. A commit replaces the first by the second, a
failure adds what was logged to `lost`, and that is why `lost` is excepted.

*AnnouncementFeedProofs*: `TypeCorrect`, `PushedOnceHolds`, `HistoryNotPushedHolds`,
`NotifiedMeansToldHolds`, and `KeepsPromiseSafely`: the refinement of `NewsFeed`'s
`Safety`. `PushedOnce` needs that what is pending has been stored and not
been sent (`PendingUnsent`), which needs that what is to be stored is new
(`FreshIsNew`), which holds only because table and list are compared under the lock
(`HolderWrites`). `UnknownIsNew` says that what the table cannot find has no
message on record; it is what makes the messages after a restart or a retention
pass first ones again. In the refinement a `Commit` learns, a `Push` tells or
drops, a crash drops, `Restart` and `Retention` forget; all other steps stutter.

*RateFeedProofs*: `TypeCorrect`, `UntoldHasReasonHolds`, `OnePerCooldownHolds`. A
difference between stored and told is accounted for by the events of the one thread that
holds the lock (`HolderReports`) until its message is out (`SentTold`); a group reported in
a running cooldown is marked, about to be, or its mark was lost (`LoudMarked`).

*UsageHistoryProofs*: `TypeCorrect`, `NeverInventedHolds`, `CompleteStaysHolds`. A row
may be overwritten by a thread that was stamped with an earlier day. That is
harmless because it fetches after taking the lock (`LockHeld`): what it holds of a day
that was over then is final (`ReadFinal`), and every complete day in its window is among
them or failed to be fetched (`CompleteReread`).

*SessionCacheProofs*: `TypeCorrect`, `OwnAccountHolds`, `RotationStoredHolds`. `Sound`
says of each thread what it may rely on at each step: its credentials are the
instance's unless it is marked `outdated`; the row it found, while `current`, is the one
in the table; the session it has is of its own account unless marked.

*CalculatorProofs*: `ChartAlwaysAddsUp`, `TodayAlwaysAgrees`,
`BestIsAlwaysCheapest`, `TiersAlwaysApply`, `TiersAlwaysCover`. `IInv` says only that the
inputs keep their shape (`ExprType`, `TrendsType`, `PricingType`, a lemma); what the program
makes of such an input is the rest:

* Sums over a set (the community modules' recursion by `CHOOSE`) are shown to
  exist (`SumIs`), and that any element may be taken out first (`SumTake`), that
  disjoint parts add up (`SumUnion`), that smaller terms make smaller sums (`SumLess`).
* *Chart.* What a day grows by is at most what was spent after the last sync until the
  day before, until the last sync of this day (`GrowthBound`): both snapshots count
  from a reset, the later one from the same or a later reset, and the code's
  `max(0, ...)` covers the rest. Day by day these intervals join (`PeriodGrowth`). The
  bars make the point because selected and others part the instances.
* *Card.* For every period that ends today: both are the same row, or the difference of
  the same two snapshots when no day of the period has a row; when another day has one, the
  chart's zero is no more than the card's growth.
* *Best.* For upstreams that are `Faithful`, what is stored is a multiple of the price
  (`StoredIs`) through whichever of the three branches its row takes, what
  the account pays is the least multiple over its groups (`ChargeIs`), and the least of
  multiples is the multiple of the least (`MinTimes`).
* *Tiers.* `SplitIs`: a choice between a tier and *any* text is taken apart as it was
  put together, because the text's own punctuation lies behind the choice's `?` and `:`. With `InverseHolds` (a condition and its inverse never hold together,
  and one of them always does, at a threshold too), induction over the chain of
  choices gives both properties. `WrittenIs`: without a bar in it (`NoBars`) the
text of an expression is what remains of each way to write it. `CollectTiersIs` says that the parser's recursion ends
  on every text, well formed or not: the branches are shorter than the text.

*Induction* states what these proofs need in a form that the provers can use:
`LeastNumber`, `NumberInduction`, `SubsetInduction` and `RankInduction` speak of sets, not
of predicates as the library's theorems do (which take an operator as a parameter
and cannot be instantiated), and rest on its well-foundedness of `<` on `Nat`.
`RecursionSolved`: if each value of a function is determined by values of lower rank,
there is a function that satisfies the recursion, so that `CHOOSE` finds it.

*Model-checked only:* liveness (TLAPS 1.4 has no support for fairness and ENABLED):
`RunsEnd`, `AutoDisabledRecovers`, `BrokenIsDisabled`, `AlertReaches`, `RecoveryReaches`,
`ListedIsStored`, the part of `KeepsPromise` that says debts are settled,
`RatiosConverge`, `UsageConverges`, `KeepsGettingIn` and `StrangerGoes`.

## 5. Where the code does not do what it says

* **A probe overrules the operator** (`sync_manual_disable`). An auto-disabled
  instance is being probed; the operator enables it (which clears
  `auto_disabled`), then disables it; the probe succeeds and, with the
  `was_auto_disabled` it had loaded, sets `enabled = True`. The docstring of
  `run_scheduled_sync_pass` and the test
  `test_scheduler_retries_auto_disabled_but_not_manually_disabled_instances` say
  that only automatically disabled instances are brought back.
* **Sent once, twice** (`alert_spell`). README.md promises one balance alert per
  spell. A pass that has delivered it and then fails (busy database, a rule state
  deleted under it, a crash) rolls its row back, and the next pass sends it again.
* **Told that it is well, then never again** (`alert_silence`). The same sentence goes on:
  after a recovery, falling below the threshold alerts anew. A pass that has delivered the
  recovery and then fails leaves the row alerting; if the balance is low again at the next
  pass, that row silences the rule until the balance recovers once more.

Behaviours met on the way, which no run checks:

* Disabling an instance that is already auto-disabled leaves `auto_disabled` set,
  so it is still probed and comes back; and `(enabled, auto_disabled) = (TRUE, TRUE)`
  can arise from overlapping edits, after which automatic disabling is off for that
  instance until its next success.
* Announcements without an id are sent again after each restart (`hash()` is
  salted), and listed ones after each retention period: a promise per item for ever would
  be violated, and `NewsFeed` forgets where the code does. If retention
  empties the table, the next sync is a "first" one and its news is never sent.
* A failing group endpoint is stored as "no groups": every ratio is reported as
  removed, and the sync that finds them again is a silent baseline. Drift in steps below
  `rate_change_min_percent` is never reported, since each step moves the
  baseline; a change within the cooldown is passed over, not postponed.
* When the history endpoint fails, the window's rows are overwritten with zeros while
  the warning (`sync_service.py:1296` and 1375) says that the refresh was skipped; Sub2API's
  client swallows the error, without a warning. `CompleteStays` and `NeverInvented` allow for the
  zeros, `UsageConverges` says that the rows come back with the endpoint. Lookback (up to 365 days) and retention of daily
  usage (7 and more) are independent: with the longer lookback rows vanish and come
  back hourly. Dated rows of Sub2API fall on the day before where the display
  time zone lies west of the process's.
* A session stored by a login that an edit of the credentials overtook is used
  until it ends; with refresh tokens it renews itself, for as long as the upstream
  accepts the old account (`StrangerGoes` needs it to stop). An UPDATE of
  a session row that an edit has deleted raises an error the login does not catch.
* In billing expressions the second branch of `a && b ? x : y` is described by
  "not a and not b": when only one fails, no tier applies. Conditions other than
  lengths and times vanish. A choice in parentheses in the first branch is read as
  one tier, with the label of its first and the price of its last. The first
  tier stands for the model wherever one price is shown.
* ShellAPI's lists are stored with `quota_type` the other way round, so that their
  prices come out as 0 or none; the rows that Sub2API's usage statistics yield have price 0: both
  always win a comparison of token prices. A multiplier of 0 is read as 1;
  `user_rate_multiplier` picks the representative group but is left out of the
  compared price. Rows of a plaza are told apart by model and platform, but the table is
  unique by model (`UniqueConstraint("instance_id", "model_name")`): a model on two
  platforms fails each sync of that upstream. A plaza model priced by intervals only
  has no price, and one whose row has some explicit price is never priced by its tiers.
* `effective_input` is documented (`schemas/pricing.py:71`) as `price_input ×
  min_group_ratio`. When none of a row's groups has a stored ratio (the group request got an
  empty answer, or the row names other groups), it is the raw price, which is then ranked among
  prices with their ratios applied and may win or lose wrongly: `Faithful` excludes it.
* On its first day the chart counts a new instance's lifetime total, the card 0. In a
  period with rows of other days and none of today, the chart shows 0 for today and the
  card the growth of the snapshots (`TodayAgrees` allows both, and nothing else).

## 6. Not modelled, and the plan

1. **Settings, labels, encryption**: clamping of values, assignments across
   refreshes, the rewriting of plaintext columns at start-up.
2. **The console's bulk sync**: the worker pool of `web/src/utils/batchSync.ts`.

Left out for good: HTTP and the parsing of payloads (pure I/O; the models see
what a request gives the program), stateless authentication, queries that filter or sum
one table, Alembic's linear schema changes, and presentation in the
console. The notices of automatic disabling and recovery are dispatched around
commits that only a concurrent deletion makes fail. Disk errors in the failure
handler, which would strand a row until the next restart, are assumed away by the
fairness of `HandlerCommit`.
