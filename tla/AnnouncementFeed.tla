-------------------------- MODULE AnnouncementFeed --------------------------
(***************************************************************************)
(* The announcements of one upstream: fetched without a lock by any number *)
(* of overlapping syncs, compared with the table and stored under the      *)
(* write lock (_sync_announcements), then sent one by one with the lock    *)
(* still held (_notify_announcements of app/services/sync_service.py),     *)
(* while the hourly retention pass deletes old rows without that lock.     *)
(*                                                                         *)
(* An item without an upstream id is stored under hash(), whose value is   *)
(* another one in every process: its key is the item and the process.      *)
(***************************************************************************)
EXTENDS Naturals, FiniteSets

CONSTANTS
  Items,      \* announcements the upstream may list
  WithId,     \* those that carry an id of their own
  Workers,    \* threads that sync the instance
  PushLimit,  \* notices per sync (5 in the code)
  MaxBoot,    \* bound: process starts
  NoOne

ASSUME FeedAssumption ==
  /\ WithId \subseteq Items
  /\ NoOne \notin Workers
  /\ PushLimit \in Nat
  /\ MaxBoot \in Nat \ {0}

VARIABLES
  listed,    \* items the upstream lists now
  answers,   \* does its endpoint answer, with announcement_sync_enabled?
  up,        \* is the process running?
  boot,      \* which process it is
  table,     \* announcements: the rows of each key and their notified mark
  old,       \* keys older than the retention period
  worker,    \* threads at work
  lock,      \* holder of SQLITE_WRITE_LOCK
  begun,     \* history: has any row ever been stored?
  pushed,    \* history: messages sent for an item since the table last forgot it
  quietly    \* history: items stored as the baseline, same reservation

upstream == <<listed, answers>>
process == <<up, boot>>
history == <<begun, pushed, quietly>>
vars == <<upstream, process, table, old, worker, lock, history>>

Keys == Items \X (0..MaxBoot)

(* source_id                                                                *)
Key(i) == <<i, IF i \in WithId THEN 0 ELSE boot>>

Marks == {"absent", "unsent", "notified"}
Stored == {k \in Keys : table[k] # "absent"}
Known(i) == Key(i) \in Stored

IdleWorker == [pc |-> "idle", got |-> {}, quiet |-> FALSE, fresh |-> {},
               pending |-> {}, sent |-> {}]
WorkerState ==
  [pc : {"idle", "fetched", "compared", "notifying"}, got : SUBSET Items,
   quiet : BOOLEAN, fresh : SUBSET Keys, pending : SUBSET Keys,
   sent : SUBSET Keys]

TypeOK ==
  /\ listed \subseteq Items
  /\ answers \in BOOLEAN
  /\ up \in BOOLEAN
  /\ boot \in 1..MaxBoot
  /\ table \in [Keys -> Marks]
  /\ old \subseteq Keys
  /\ worker \in [Workers -> WorkerState]
  /\ lock \in Workers \cup {NoOne}
  /\ begun \in BOOLEAN
  /\ pushed \in [Items -> 0..2]
  /\ quietly \subseteq Items

(* An instance that was never synced.                                       *)
Init ==
  /\ listed = {}
  /\ answers = TRUE
  /\ up = TRUE
  /\ boot = 1
  /\ table = [k \in Keys |-> "absent"]
  /\ old = {}
  /\ worker = [w \in Workers |-> IdleWorker]
  /\ lock = NoOne
  /\ begun = FALSE
  /\ pushed = [i \in Items |-> 0]
  /\ quietly = {}

-----------------------------------------------------------------------------
(* A sync.                                                                  *)

(* Best effort: an endpoint that fails looks like an empty list, and so     *)
(* does the switch that turns the announcements off.                        *)
Fetch(w) ==
  /\ up
  /\ worker[w].pc = "idle"
  /\ worker' = [worker EXCEPT ![w] =
       [IdleWorker EXCEPT !.pc = "fetched",
                          !.got = IF answers THEN listed ELSE {}]]
  /\ UNCHANGED <<upstream, process, table, old, lock, history>>

(* The first sync only builds a baseline: one that finds the table empty.   *)
Baseline == Stored = {}

(* Mutant: the table is read before the lock is taken.                      *)
CompareUnlocked(w) ==
  /\ worker[w].pc = "fetched"
  /\ worker' = [worker EXCEPT ![w] =
       [IdleWorker EXCEPT !.pc = "compared",
                          !.fresh = {Key(i) : i \in worker[w].got} \ Stored,
                          !.quiet = Baseline]]
  /\ UNCHANGED <<upstream, process, table, old, lock, history>>

(* Under the lock, read the keys of the table.                              *)
Compare(w) ==
  /\ worker[w].pc = "fetched"
  /\ lock = NoOne
  /\ lock' = w
  /\ worker' = [worker EXCEPT ![w] =
       [IdleWorker EXCEPT !.pc = "compared",
                          !.fresh = {Key(i) : i \in worker[w].got} \ Stored,
                          !.quiet = Baseline]]
  /\ UNCHANGED <<upstream, process, table, old, history>>

(* Mutant: the rows of the baseline are sent like any others.               *)
PendingHistory(w, enabled) ==
  IF ~enabled THEN {{}}
  ELSE {P \in SUBSET worker[w].fresh : Cardinality(P) <= PushLimit}

(* Which of the new rows are sent: the first few, unless this is the        *)
(* baseline or a switch says that nobody wants them.                        *)
Pending(w, enabled) ==
  IF worker[w].quiet \/ ~enabled THEN {{}}
  ELSE LET n == Cardinality(worker[w].fresh) IN
       {P \in SUBSET worker[w].fresh :
          Cardinality(P) = IF n < PushLimit THEN n ELSE PushLimit}

(* The new rows are stored with everything else the sync found.  (The       *)
(* switches, announcement_notify_enabled and the instance's own, are an     *)
(* input here.)                                                             *)
Commit(w, enabled) ==
  LET fresh == worker[w].fresh IN
  /\ worker[w].pc = "compared"
  /\ table' = [k \in Keys |->
                 IF k \in fresh
                 THEN IF worker[w].quiet THEN "notified" ELSE "unsent"
                 ELSE table[k]]
  /\ \E pending \in Pending(w, enabled) :
       worker' = [worker EXCEPT ![w] = [IdleWorker EXCEPT !.pc = "notifying",
                                                          !.pending = pending]]
  /\ begun' = (begun \/ fresh # {})
  /\ quietly' = IF worker[w].quiet THEN quietly \cup {k[1] : k \in fresh}
                ELSE quietly
  /\ UNCHANGED <<upstream, process, old, lock, pushed>>

(* Mutants: an error path that keeps the lock; one that nobody leaves.      *)
PersistFailLocked(w) ==
  /\ worker[w].pc = "compared"
  /\ worker' = [worker EXCEPT ![w] = IdleWorker]
  /\ UNCHANGED <<upstream, process, table, old, lock, history>>
PersistFailStuck(w) ==
  /\ worker[w].pc = "compared"
  /\ worker' = [worker EXCEPT ![w].pc = "failed"]
  /\ UNCHANGED <<upstream, process, table, old, lock, history>>

(* Anything else the persistence phase does may fail; all is rolled back.   *)
PersistFail(w) ==
  /\ worker[w].pc = "compared"
  /\ worker' = [worker EXCEPT ![w] = IdleWorker]
  /\ lock' = NoOne
  /\ UNCHANGED <<upstream, process, table, old, history>>

(* Mutant: the mark is set whether or not a channel accepted the message.   *)
PushMarked(w, k, accepted) ==
  /\ worker[w].pc = "notifying"
  /\ k \in worker[w].pending
  /\ worker' = [worker EXCEPT ![w].pending = @ \ {k}, ![w].sent = @ \cup {k}]
  /\ pushed' = IF accepted /\ pushed[k[1]] < 2
               THEN [pushed EXCEPT ![k[1]] = @ + 1] ELSE pushed
  /\ UNCHANGED <<upstream, process, table, old, lock, begun, quietly>>

(* One notice, which some channel accepts or none does.                     *)
Push(w, k, accepted) ==
  /\ worker[w].pc = "notifying"
  /\ k \in worker[w].pending
  /\ worker' = [worker EXCEPT ![w].pending = @ \ {k},
                              ![w].sent = IF accepted THEN @ \cup {k} ELSE @]
  /\ pushed' = IF accepted /\ pushed[k[1]] < 2
               THEN [pushed EXCEPT ![k[1]] = @ + 1] ELSE pushed
  /\ UNCHANGED <<upstream, process, table, old, lock, begun, quietly>>

(* The marks are committed after the last notice, or that commit fails,     *)
(* then the lock is released.  (The failure is swallowed here, but it ends  *)
(* the sync in its failure handler, SyncEngine's FinishFail; nor does a     *)
(* sync whose ratio marks failed before, RateFeed's Mark, send any notice:  *)
(* as if no channel accepted one.  Neither touches the table.)              *)
Finish(w, committed) ==
  /\ worker[w].pc = "notifying"
  /\ worker[w].pending = {}
  /\ table' = [k \in Keys |-> IF committed /\ k \in worker[w].sent
                              THEN "notified" ELSE table[k]]
  /\ worker' = [worker EXCEPT ![w] = IdleWorker]
  /\ lock' = NoOne
  /\ UNCHANGED <<upstream, process, old, history>>

-----------------------------------------------------------------------------
(* What happens around it.                                                  *)

(* (History: the program no longer knows these items.)                      *)
Forgets(items) ==
  /\ pushed' = [i \in Items |-> IF i \in items THEN 0 ELSE pushed[i]]
  /\ quietly' = quietly \ items
  /\ UNCHANGED begun

Crash ==
  /\ up
  /\ boot < MaxBoot
  /\ up' = FALSE
  /\ worker' = [w \in Workers |-> IdleWorker]
  /\ lock' = NoOne
  /\ UNCHANGED <<upstream, boot, table, old, history>>

(* A new process, with another hash().                                      *)
Restart ==
  /\ ~up
  /\ up' = TRUE
  /\ boot' = boot + 1
  /\ Forgets({i \in Items \ WithId : Known(i)})
  /\ UNCHANGED <<upstream, table, old, worker, lock>>

(* The retention period is of days, no sync lasts that long.                *)
RetentionElapses ==
  /\ \A w \in Workers : worker[w].pc = "idle"
  /\ old # Stored
  /\ old' = Stored
  /\ UNCHANGED <<upstream, process, table, worker, lock, history>>

(* Mutant: the pass deletes rows of any age.                                *)
RetentionOfAll ==
  /\ up
  /\ Stored # {}
  /\ table' = [k \in Keys |-> "absent"]
  /\ old' = {}
  /\ Forgets({i \in Items : Known(i)})
  /\ UNCHANGED <<upstream, process, worker, lock>>

(* The hourly pass.  SQLite lets it write only while no sync has begun to.  *)
Retention ==
  /\ up
  /\ old # {}
  /\ table' = [k \in Keys |-> IF k \in old THEN "absent" ELSE table[k]]
  /\ old' = {}
  /\ Forgets({i \in Items : Key(i) \in old})
  /\ UNCHANGED <<upstream, process, worker, lock>>

UpstreamChanges(i) ==
  /\ listed' = IF i \in listed THEN listed \ {i} ELSE listed \cup {i}
  /\ UNCHANGED <<answers, process, table, old, worker, lock, history>>

EndpointChanges ==
  /\ answers' = ~answers
  /\ UNCHANGED <<listed, process, table, old, worker, lock, history>>

-----------------------------------------------------------------------------
Next ==
  \/ \E w \in Workers :
       \/ Fetch(w)
       \/ Compare(w)
       \/ \E enabled \in BOOLEAN : Commit(w, enabled)
       \/ PersistFail(w)
       \/ \E k \in Keys, accepted \in BOOLEAN : Push(w, k, accepted)
       \/ \E committed \in BOOLEAN : Finish(w, committed)
  \/ Crash
  \/ Restart
  \/ RetentionElapses
  \/ Retention
  \/ \E i \in Items : UpstreamChanges(i)
  \/ EndpointChanges

Spec == Init /\ [][Next]_vars

(***************************************************************************)
(* Syncs are started again and again, a thread that holds the lock runs    *)
(* on, one that waits for it gets it sooner or later, and not every        *)
(* persistence phase fails.                                                *)
(***************************************************************************)
Fairness ==
  /\ WF_vars(Restart)
  /\ \A w \in Workers :
       /\ WF_vars(Fetch(w))
       /\ SF_vars(Compare(w))
       /\ SF_vars(\E enabled \in BOOLEAN : Commit(w, enabled))
       /\ WF_vars(\E k \in Keys, accepted \in BOOLEAN : Push(w, k, accepted))
       /\ WF_vars(\E committed \in BOOLEAN : Finish(w, committed))

FairSpec == Spec /\ Fairness

-----------------------------------------------------------------------------
(* Two overlapping syncs, a restart, a failed commit or a failed delivery   *)
(* never send an announcement twice while the table remembers it.           *)
PushedOnce == \A i \in Items : pushed[i] <= 1

(* What was there at the first sync is history and never sent.              *)
HistoryNotPushed == \A i \in quietly : pushed[i] = 0

(* A row marked as notified was sent, or belongs to the baseline.           *)
NotifiedMeansTold ==
  \A i \in Items :
    table[Key(i)] = "notified" => pushed[i] > 0 \/ i \in quietly

(* An announcement that stays listed gets into the table, whatever syncs    *)
(* failed and whatever retention deleted in between.                        *)
ListedIsStored ==
  \A i \in Items :
    <>[](answers /\ i \in listed) => []<>Known(i)

(* The promise of NewsFeed.  What is owed is what a sync has still to send. *)
Owed == {k[1] : k \in UNION {worker[w].pending : w \in Workers}}

Promise == INSTANCE NewsFeed WITH
  begun <- begun,
  known <- {i \in Items : Known(i)},
  owed <- Owed,
  told <- {i \in Items : pushed[i] > 0}

KeepsPromise == Promise!Spec
=============================================================================
