----------------------------- MODULE SyncEngine -----------------------------
(***************************************************************************)
(* The synchronisation engine: app/services/sync_service.py driven by the  *)
(* scheduler thread of app/core/scheduler.py and by the manual sync routes,*)
(* the operator's edits of app/services/instance_service.py racing with    *)
(* it, and the restart recovery of app/main.py.                            *)
(*                                                                         *)
(* The database is reduced to what this code reads back.  Of a row of      *)
(* instances: whether it exists, enabled and auto_disabled.  Of sync_runs: *)
(* the rows whose status is still "running" (one per worker and instance)  *)
(* and, newest first, the statuses of the last FailLimit scheduled rows of *)
(* each instance, all that _disable_after_consecutive_scheduled_failures   *)
(* looks at.  Times are reduced to whether the interval since a reference  *)
(* time has elapsed.  A worker is a thread with its own SQLAlchemy session:*)
(* it keeps the attribute values it loaded, and a commit writes only the   *)
(* columns it changed with respect to those.                               *)
(***************************************************************************)
EXTENDS Naturals

CONSTANTS
  Instances,   \* the ids of instances rows
  Manual,      \* threads serving manual syncs (routes and the bulk sync pool)
  Scheduler,   \* the scheduler's thread, which runs one pass at a time
  Admins,      \* request threads editing instances
  FailLimit,   \* consecutive scheduled failures that disable (5 in the code)
  NoInst,      \* no instance
  NoOne        \* no thread

ASSUME SyncAssumption ==
  /\ Instances \subseteq Nat
  /\ Scheduler \notin Manual
  /\ NoInst \notin Instances
  /\ NoOne \notin Manual \cup {Scheduler}
  /\ FailLimit \in Nat \ {0}

Workers == Manual \cup {Scheduler}

VARIABLES
  up,        \* is the process running?
  inst,      \* instances table
  running,   \* running[i]: the workers that inserted i's "running" rows
  recent,    \* recent[i]: statuses of i's latest scheduled runs, newest first
  due,       \* has the interval elapsed since last_sync_at?
  probeDue,  \* ... since the last scheduled run finished?
  healthy,   \* the instances whose upstream answers
  worker,    \* threads running a sync, with the attributes they loaded
  lock,      \* holder of SQLITE_WRITE_LOCK
  todo,      \* instances the scheduled pass still has to visit
  admin,     \* request threads in the middle of an update
  raced      \* history: instances an edit of which overlapped another writer

vars == <<up, inst, running, recent, due, probeDue, healthy, worker, lock,
          todo, admin, raced>>
db == <<inst, running, recent, due, probeDue>>

Statuses == {"none", "running", "success", "failed"}
Phases == {"idle", "network", "persist", "notifying", "failing", "failCommit"}

(* The phases a worker whose sync_runs row is still "running" can be in,    *)
(* and those that hold the process lock.                                    *)
InFlight == {"network", "persist", "failing", "failCommit"}
Locked == {"persist", "notifying", "failCommit"}

IdleWorker == [pc |-> "idle", inst |-> NoInst, enabled |-> FALSE,
               auto |-> FALSE, expired |-> FALSE]
IdleAdmin == [pc |-> "idle", inst |-> NoInst, want |-> FALSE,
              enabled |-> FALSE, auto |-> FALSE]
NoRow == [row |-> FALSE, enabled |-> FALSE, auto |-> FALSE]
NoHistory == [k \in 1..FailLimit |-> "none"]

(* A thread at work on i with the flags it has just read.                   *)
Holding(p, i, flags) ==
  [pc |-> p, inst |-> i, enabled |-> flags.enabled, auto |-> flags.auto,
   expired |-> FALSE]
Flags(r, e, a) == [row |-> r.row, enabled |-> e, auto |-> a]

(* Mutant: the history is indexed from zero.                                *)
PushFromZero(s, h) == [k \in 0..FailLimit-1 |-> IF k = 0 THEN s ELSE h[k]]

Push(s, h) == [k \in 1..FailLimit |-> IF k = 1 THEN s ELSE h[k-1]]
SetHead(s, h) == [h EXCEPT ![1] = s]

(* The persistence phase executes DML before its last network call, so it  *)
(* keeps SQLite's own write lock; every other writer waits for that lock.  *)
DbFree == \A w \in Workers : worker[w].pc # "persist"

InstanceRow == [row : BOOLEAN, enabled : BOOLEAN, auto : BOOLEAN]
WorkerState == [pc : Phases, inst : Instances \cup {NoInst},
                enabled : BOOLEAN, auto : BOOLEAN, expired : BOOLEAN]
AdminState == [pc : {"idle", "loaded"}, inst : Instances \cup {NoInst},
               want : BOOLEAN, enabled : BOOLEAN, auto : BOOLEAN]

TypeOK ==
  /\ up \in BOOLEAN
  /\ inst \in [Instances -> InstanceRow]
  /\ running \in [Instances -> SUBSET Workers]
  /\ recent \in [Instances -> [1..FailLimit -> Statuses]]
  /\ due \in [Instances -> BOOLEAN]
  /\ probeDue \in [Instances -> BOOLEAN]
  /\ healthy \subseteq Instances
  /\ worker \in [Workers -> WorkerState]
  /\ lock \in Workers \cup {NoOne}
  /\ todo \subseteq Instances
  /\ admin \in [Admins -> AdminState]
  /\ raced \subseteq Instances

Init ==
  /\ up = TRUE
  /\ inst = [i \in Instances |-> NoRow]
  /\ running = [i \in Instances |-> {}]
  /\ recent = [i \in Instances |-> NoHistory]
  /\ due = [i \in Instances |-> TRUE]
  /\ probeDue = [i \in Instances |-> TRUE]
  /\ healthy = Instances
  /\ worker = [w \in Workers |-> IdleWorker]
  /\ lock = NoOne
  /\ todo = {}
  /\ admin = [a \in Admins |-> IdleAdmin]
  /\ raced = {}

-----------------------------------------------------------------------------
(* One sync: sync_single_instance and its Sub2API twin.                     *)

(* Insert the "running" row and commit it under the write lock; the first   *)
(* attribute access after that commit loads the instance.                   *)
Start(w, i) ==
  /\ up
  /\ worker[w].pc = "idle"
  /\ lock = NoOne
  /\ inst[i].row
  /\ running' = [running EXCEPT ![i] = @ \cup {w}]
  /\ recent' = IF w = Scheduler
               THEN [recent EXCEPT ![i] = Push("running", @)]
               ELSE recent
  /\ worker' = [worker EXCEPT ![w] = Holding("network", i, inst[i])]
  /\ UNCHANGED <<up, inst, due, probeDue, healthy, lock, admin, raced>>

(* A login or token refresh commits the session row, which expires every    *)
(* loaded attribute: the instance is read again in the persistence phase.   *)
Login(w) ==
  /\ worker[w].pc = "network"
  /\ ~worker[w].expired
  /\ worker[w].inst \in healthy
  /\ inst[worker[w].inst].row
  /\ lock = NoOne
  /\ worker' = [worker EXCEPT ![w].expired = TRUE]
  /\ UNCHANGED <<up, db, healthy, lock, todo, admin, raced>>

(* All upstream calls answered: take the write lock and start writing.      *)
EnterPersist(w) ==
  LET i == worker[w].inst
      seen == IF worker[w].expired THEN inst[i] ELSE worker[w] IN
  /\ worker[w].pc = "network"
  /\ i \in healthy
  /\ worker[w].expired => inst[i].row
  /\ lock = NoOne
  /\ lock' = w
  /\ worker' = [worker EXCEPT ![w] = Holding("persist", i, seen)]
  /\ UNCHANGED <<up, db, healthy, todo, admin, raced>>

(* Mutant: the error path ends the sync without its failure handler.        *)
NetworkFailUnhandled(w) ==
  /\ worker[w].pc = "network"
  /\ \/ worker[w].inst \notin healthy
     \/ ~inst[worker[w].inst].row
  /\ worker' = [worker EXCEPT ![w] = IdleWorker]
  /\ UNCHANGED <<up, db, healthy, lock, todo, admin, raced>>

(* An upstream call failed, or the instance is gone: roll back.             *)
NetworkFail(w) ==
  /\ worker[w].pc = "network"
  /\ \/ worker[w].inst \notin healthy
     \/ ~inst[worker[w].inst].row
  /\ worker' = [worker EXCEPT ![w].pc = "failing"]
  /\ UNCHANGED <<up, db, healthy, lock, todo, admin, raced>>

(* Mutant: the lock is not released on the way out.                         *)
PersistFailLocked(w) ==
  /\ worker[w].pc = "persist"
  /\ worker[w].inst \notin healthy
  /\ worker' = [worker EXCEPT ![w].pc = "failing"]
  /\ UNCHANGED <<up, db, healthy, lock, todo, admin, raced>>

(* An upstream answer the persistence phase cannot digest.                  *)
PersistFail(w) ==
  /\ worker[w].pc = "persist"
  /\ worker[w].inst \notin healthy
  /\ lock' = NoOne
  /\ worker' = [worker EXCEPT ![w].pc = "failing"]
  /\ UNCHANGED <<up, db, healthy, todo, admin, raced>>

(* The row was deleted meanwhile: the flush matches no row and raises.      *)
PersistStale(w) ==
  /\ worker[w].pc = "persist"
  /\ w \notin running[worker[w].inst]
  /\ lock' = NoOne
  /\ worker' = [worker EXCEPT ![w].pc = "failing"]
  /\ UNCHANGED <<up, db, healthy, todo, admin, raced>>

(* Mutants: a success clears nothing; every success enables.                *)
RecoveredNever(w, r) == r
RecoveredAlways(w, r) == Flags(r, TRUE, FALSE)

(* The flags after a success: was_auto_disabled is the loaded value, and    *)
(* enabled is written only when it differs from the loaded one.             *)
Recovered(w, r) ==
  IF worker[w].auto
  THEN Flags(r, IF worker[w].enabled THEN r.enabled ELSE TRUE, FALSE)
  ELSE r

(* Commit the snapshot, the run's success and a recovery.                   *)
PersistCommit(w) ==
  LET i == worker[w].inst IN
  /\ worker[w].pc = "persist"
  /\ w \in running[i]
  /\ running' = [running EXCEPT ![i] = @ \ {w}]
  /\ inst' = [inst EXCEPT ![i] = Recovered(w, @)]
  /\ due' = [due EXCEPT ![i] = FALSE]
  /\ recent' = IF w = Scheduler
               THEN [recent EXCEPT ![i] = SetHead("success", @)]
               ELSE recent
  /\ probeDue' = IF w = Scheduler
                 THEN [probeDue EXCEPT ![i] = FALSE]
                 ELSE probeDue
  /\ worker' = [worker EXCEPT ![w].pc = "notifying"]
  /\ UNCHANGED <<up, healthy, lock, todo, admin, raced>>

(* Rate change and announcement notices go out under the process lock.      *)
Finish(w) ==
  /\ worker[w].pc = "notifying"
  /\ worker' = [worker EXCEPT ![w] = IdleWorker]
  /\ lock' = NoOne
  /\ UNCHANGED <<up, db, healthy, todo, admin, raced>>

(* A commit of the notices' marks that fails is only logged, but it leaves  *)
(* the session unusable: the read of the committed run that follows raises, *)
(* and the sync ends in the failure handler.                                *)
FinishFail(w) ==
  /\ worker[w].pc = "notifying"
  /\ worker' = [worker EXCEPT ![w].pc = "failing"]
  /\ lock' = NoOne
  /\ UNCHANGED <<up, db, healthy, todo, admin, raced>>

(* The worker's row has not been deleted: it is still running, or is the    *)
(* success that FinishFail is about to turn into a failure.  (What becomes  *)
(* of a manual run's success is in none of the variables.)                  *)
RowLeft(w, i) ==
  w \in running[i] \/ (w = Scheduler /\ recent[i][1] = "success")

(* The failure handler reads the run and the instance again under the lock; *)
(* it raises when the run was deleted.                                      *)
HandlerLoad(w) ==
  LET i == worker[w].inst IN
  /\ worker[w].pc = "failing"
  /\ lock = NoOne
  /\ IF RowLeft(w, i)
     THEN /\ lock' = w
          /\ worker' = [worker EXCEPT ![w] = Holding("failCommit", i, inst[i])]
     ELSE /\ worker' = [worker EXCEPT ![w] = IdleWorker]
          /\ UNCHANGED lock
  /\ UNCHANGED <<up, db, healthy, todo, admin, raced>>

(* Mutants: one failure too few; the wrong trigger type.                    *)
DisablesEarly(w) ==
  /\ w = Scheduler
  /\ worker[w].enabled
  /\ ~worker[w].auto
  /\ \A k \in 2..FailLimit-1 : recent[worker[w].inst][k] = "failed"
DisablesOnManual(w) ==
  /\ w # Scheduler
  /\ worker[w].enabled
  /\ ~worker[w].auto
  /\ \A k \in 2..FailLimit : recent[worker[w].inst][k] = "failed"

(* _disable_after_consecutive_scheduled_failures: the run at hand, already  *)
(* marked failed in the session, and the FailLimit - 1 before it.           *)
Disables(w) ==
  LET i == worker[w].inst IN
  /\ w = Scheduler
  /\ worker[w].enabled
  /\ ~worker[w].auto
  /\ \A k \in 2..FailLimit : recent[i][k] = "failed"

(* Commit the failure, and the automatic disabling with it.                 *)
HandlerCommit(w) ==
  LET i == worker[w].inst IN
  /\ worker[w].pc = "failCommit"
  /\ IF RowLeft(w, i)
     THEN /\ running' = [running EXCEPT ![i] = @ \ {w}]
          /\ recent' = IF w = Scheduler
                       THEN [recent EXCEPT ![i] = SetHead("failed", @)]
                       ELSE recent
          /\ probeDue' = IF w = Scheduler
                         THEN [probeDue EXCEPT ![i] = FALSE]
                         ELSE probeDue
          /\ inst' = IF Disables(w)
                     THEN [inst EXCEPT ![i] = Flags(@, FALSE, TRUE)]
                     ELSE inst
     ELSE UNCHANGED <<running, recent, probeDue, inst>>
  /\ worker' = [worker EXCEPT ![w] = IdleWorker]
  /\ lock' = NoOne
  /\ UNCHANGED <<up, due, healthy, todo, admin, raced>>

-----------------------------------------------------------------------------
(* Who starts a sync.                                                       *)

(* A manual sync accepts any instance and never looks for a run in flight.  *)
ManualSync(w, i) ==
  /\ Start(w, i)
  /\ UNCHANGED todo

(* Mutant: auto-disabled instances are no longer probed.                    *)
DueEnabled ==
  {i \in Instances : inst[i].row /\ inst[i].enabled /\ running[i] = {} /\ due[i]}

(* What the scheduled pass finds due.  (It reads a probe's reference time   *)
(* only when it comes to the instance, but no other thread moves that time.)*)
DueInstances ==
  {i \in Instances : /\ inst[i].row
                     /\ inst[i].enabled \/ inst[i].auto
                     /\ running[i] = {}
                     /\ IF inst[i].auto THEN probeDue[i] ELSE due[i]}

PassStart ==
  /\ up
  /\ worker[Scheduler].pc = "idle"
  /\ todo = {}
  /\ todo' = DueInstances
  /\ UNCHANGED <<up, db, healthy, worker, lock, admin, raced>>

(* The next instance of the pass by id: nothing that the pass read at its   *)
(* start is read again, only whether the row still exists.                  *)
PassTurn(i) ==
  /\ worker[Scheduler].pc = "idle"
  /\ i \in todo
  /\ \A j \in todo : i <= j
  /\ todo' = todo \ {i}
  /\ \/ Start(Scheduler, i)
     \/ ~inst[i].row /\ UNCHANGED <<up, db, healthy, worker, lock, admin, raced>>

-----------------------------------------------------------------------------
(* The operator.                                                            *)

CreateInstance(i, enabled) ==
  /\ up
  /\ DbFree
  /\ ~inst[i].row
  /\ inst' = [inst EXCEPT ![i] = [row |-> TRUE, enabled |-> enabled,
                                  auto |-> FALSE]]
  /\ UNCHANGED <<up, running, recent, due, probeDue, healthy, worker, lock,
                 todo, admin, raced>>

(* The cascade takes the sync_runs rows along.                              *)
DeleteInstance(i) ==
  /\ up
  /\ DbFree
  /\ inst[i].row
  /\ inst' = [inst EXCEPT ![i] = NoRow]
  /\ running' = [running EXCEPT ![i] = {}]
  /\ recent' = [recent EXCEPT ![i] = NoHistory]
  /\ due' = [due EXCEPT ![i] = TRUE]
  /\ probeDue' = [probeDue EXCEPT ![i] = TRUE]
  /\ raced' = raced \ {i}
  /\ UNCHANGED <<up, healthy, worker, lock, todo, admin>>

(* update_instance loads the row ...                                        *)
AdminLoad(a, i, want) ==
  /\ up
  /\ admin[a].pc = "idle"
  /\ inst[i].row
  /\ admin' = [admin EXCEPT ![a] =
                 [pc |-> "loaded", inst |-> i, want |-> want,
                  enabled |-> inst[i].enabled, auto |-> inst[i].auto]]
  /\ UNCHANGED <<up, db, healthy, worker, lock, todo, raced>>

(* Mutant: enabling by hand leaves auto_disabled set.                       *)
UpdatedEnabled(a, r) ==
  Flags(r, IF admin[a].want # admin[a].enabled THEN admin[a].want ELSE r.enabled,
        r.auto)

(* ... and its commit writes the columns the payload changed.               *)
Updated(a, r) ==
  Flags(r,
        IF admin[a].want # admin[a].enabled THEN admin[a].want ELSE r.enabled,
        IF admin[a].auto /\ (admin[a].want \/ admin[a].enabled)
        THEN FALSE ELSE r.auto)

(* A sync of i in flight, or flags that changed since they were loaded.     *)
Overlaps(a) ==
  LET i == admin[a].inst IN
  \/ \E w \in Workers : worker[w].inst = i
  \/ inst[i].enabled # admin[a].enabled
  \/ inst[i].auto # admin[a].auto

AdminCommit(a) ==
  LET i == admin[a].inst IN
  /\ admin[a].pc = "loaded"
  /\ DbFree
  /\ IF inst[i].row
     THEN /\ inst' = [inst EXCEPT ![i] = Updated(a, @)]
          /\ raced' = IF Overlaps(a) THEN raced \cup {i} ELSE raced
     ELSE UNCHANGED <<inst, raced>>
  /\ admin' = [admin EXCEPT ![a] = IdleAdmin]
  /\ UNCHANGED <<up, running, recent, due, probeDue, healthy, worker, lock,
                 todo>>

(* SQLite's busy timeout: the request fails and changes nothing.            *)
AdminBusy(a) ==
  /\ admin[a].pc = "loaded"
  /\ ~DbFree
  /\ admin' = [admin EXCEPT ![a] = IdleAdmin]
  /\ UNCHANGED <<up, db, healthy, worker, lock, todo, raced>>

-----------------------------------------------------------------------------
(* The process and its environment.                                         *)

Crash ==
  /\ up
  /\ up' = FALSE
  /\ worker' = [w \in Workers |-> IdleWorker]
  /\ lock' = NoOne
  /\ todo' = {}
  /\ admin' = [a \in Admins |-> IdleAdmin]
  /\ UNCHANGED <<db, healthy, raced>>

(* Mutant: the start leaves the previous process's rows running.            *)
RestartBlind ==
  /\ ~up
  /\ up' = TRUE
  /\ UNCHANGED <<db, healthy, worker, lock, todo, admin, raced>>

(* lifespan(): every row left "running" becomes failed, finished now.       *)
Restart ==
  /\ ~up
  /\ up' = TRUE
  /\ running' = [i \in Instances |-> {}]
  /\ recent' = [i \in Instances |->
                  [k \in 1..FailLimit |->
                     IF recent[i][k] = "running" THEN "failed"
                     ELSE recent[i][k]]]
  /\ probeDue' = [i \in Instances |-> probeDue[i] /\ recent[i][1] # "running"]
  /\ UNCHANGED <<inst, due, healthy, worker, lock, todo, admin, raced>>

UpstreamChanges(i) ==
  /\ healthy' = IF i \in healthy THEN healthy \ {i} ELSE healthy \cup {i}
  /\ UNCHANGED <<up, db, worker, lock, todo, admin, raced>>

SyncIntervalElapses(i) ==
  /\ ~due[i]
  /\ due' = [due EXCEPT ![i] = TRUE]
  /\ UNCHANGED <<up, inst, running, recent, probeDue, healthy, worker, lock,
                 todo, admin, raced>>

ProbeIntervalElapses(i) ==
  /\ ~probeDue[i]
  /\ probeDue' = [probeDue EXCEPT ![i] = TRUE]
  /\ UNCHANGED <<up, inst, running, recent, due, healthy, worker, lock,
                 todo, admin, raced>>

-----------------------------------------------------------------------------
SyncStep(w) ==
  \/ Login(w)
  \/ EnterPersist(w)
  \/ NetworkFail(w)
  \/ PersistFail(w)
  \/ PersistStale(w)
  \/ PersistCommit(w)
  \/ Finish(w)
  \/ FinishFail(w)
  \/ HandlerLoad(w)
  \/ HandlerCommit(w)

AdminStep(a) ==
  \/ \E i \in Instances, want \in BOOLEAN : AdminLoad(a, i, want)
  \/ AdminCommit(a)
  \/ AdminBusy(a)

Environment(i) ==
  \/ UpstreamChanges(i)
  \/ SyncIntervalElapses(i)
  \/ ProbeIntervalElapses(i)

Next ==
  \/ \E w \in Workers : SyncStep(w)
  \/ \E w \in Manual, i \in Instances : ManualSync(w, i)
  \/ PassStart
  \/ \E i \in Instances : PassTurn(i)
  \/ \E i \in Instances, enabled \in BOOLEAN : CreateInstance(i, enabled)
  \/ \E i \in Instances : DeleteInstance(i)
  \/ \E a \in Admins : AdminStep(a)
  \/ Crash
  \/ Restart
  \/ \E i \in Instances : Environment(i)

Spec == Init /\ [][Next]_vars

(***************************************************************************)
(* Every upstream call has a timeout, a thread that holds the lock keeps   *)
(* running and releases it, a thread waiting for it gets it sooner or      *)
(* later (strong fairness: others may take it in between), the scheduler   *)
(* ticks every minute and the supervisor restarts a dead process.  Nothing *)
(* is assumed of the operator, of crashes or of the upstream.              *)
(***************************************************************************)
Fairness ==
  /\ \A w \in Workers :
       /\ SF_vars(EnterPersist(w) \/ NetworkFail(w))
       /\ WF_vars(PersistCommit(w) \/ PersistStale(w))
       /\ WF_vars(Finish(w) \/ FinishFail(w))
       /\ SF_vars(HandlerLoad(w))
       /\ WF_vars(HandlerCommit(w))
  /\ WF_vars(PassStart)
  /\ \A i \in Instances :
       /\ SF_vars(PassTurn(i))
       /\ WF_vars(SyncIntervalElapses(i))
       /\ WF_vars(ProbeIntervalElapses(i))
  /\ WF_vars(Restart)

FairSpec == Spec /\ Fairness

-----------------------------------------------------------------------------
(* No row stays "running" without a thread that will finish it: the         *)
(* scheduled pass, which skips instances with such a row, never skips one   *)
(* for good.                                                                *)
NoOrphanRow ==
  up => \A i \in Instances : \A w \in running[i] :
          worker[w].pc \in InFlight /\ worker[w].inst = i

(* Only the holder of SQLITE_WRITE_LOCK is between the first write of its   *)
(* persistence phase (or the read of its failure handler) and the commit.   *)
WriteExclusion ==
  \A w \in Workers : worker[w].pc \in Locked <=> lock = w

(* A scheduled success always brings an auto-disabled instance back: one    *)
(* that is still auto-disabled has no success as its last scheduled run.    *)
AutoMeansFailing ==
  \A i \in Instances :
    inst[i].auto => recent[i][1] \in {"running", "failed"}

(* The automatic disabling is decided on FailLimit scheduled failures in a  *)
(* row, whatever manual syncs and edits happened in between.                *)
DisablesOnStreak ==
  \A i \in Instances :
    ~inst[i].auto /\ inst'[i].auto =>
      \A k \in 1..FailLimit : recent'[i][k] = "failed"

StreakDisables == [][DisablesOnStreak]_vars

ManuallyOff(r) == r.row /\ ~r.enabled /\ ~r.auto

OperatorStep(i) ==
  \E a \in Admins : admin[a].pc = "loaded" /\ admin[a].inst = i
                    /\ admin'[a].pc = "idle"

(* The flags never say both enabled and auto-disabled, unless an edit was   *)
(* committed while a sync of the instance was running or on flags that had  *)
(* changed under it.                                                        *)
FlagsExclusive ==
  \A i \in Instances \ raced : ~(inst[i].enabled /\ inst[i].auto)

(* With the same exception, what the operator switched off stays off until  *)
(* the operator switches it on.                                             *)
OffUntilOperator ==
  \A i \in Instances \ raced' :
    ManuallyOff(inst[i]) /\ inst'[i] # inst[i] /\ inst'[i].row =>
      OperatorStep(i)

OffStays == [][OffUntilOperator]_vars

(* "keep probing those disabled automatically", not those switched off by   *)
(* hand: only the operator switches such an instance on again.              *)
ManualDisableHolds ==
  [][\A i \in Instances :
       ManuallyOff(inst[i]) /\ inst'[i].enabled => OperatorStep(i)]_vars

(* Every sync ends: its row leaves "running" (or is deleted).               *)
RunsEnd ==
  \A i \in Instances, w \in Workers :
    w \in running[i] ~> w \notin running[i]

(* An auto-disabled instance whose upstream stays reachable is enabled      *)
(* again (or deleted), as long as the process stays up.                     *)
AutoDisabledRecovers ==
  \A i \in Instances :
    <>[](up /\ i \in healthy) => []<>(~inst[i].auto)

(* An enabled instance whose upstream stays unreachable is switched off,    *)
(* unless manual syncs keep the scheduled pass from ever trying it.         *)
BrokenIsDisabled ==
  \A i \in Instances :
    <>[](up /\ i \notin healthy /\ \A w \in Manual : worker[w].inst # i)
      => []<>(inst[i].auto \/ ~inst[i].enabled)
=============================================================================
