-------------------------- MODULE SyncEngineProofs --------------------------
(***************************************************************************)
(* Safety of SyncEngine for any set of instances, of manual threads and of *)
(* operators, and any FailLimit.                                           *)
(***************************************************************************)
EXTENDS SyncEngine, TLAPS

(* A thread in a sync is at work on an instance, and has reread what a login *)
(* expired by the time it writes.                                           *)
WorkerShape ==
  \A w \in Workers :
    /\ worker[w].pc # "idle" => worker[w].inst \in Instances
    /\ worker[w].pc \in {"persist", "failCommit"} => ~worker[w].expired

AdminShape ==
  \A a \in Admins : admin[a].pc = "loaded" => admin[a].inst \in Instances

(* A deleted row leaves nothing behind.                                     *)
NoLeftovers ==
  \A i \in Instances : ~inst[i].row =>
    /\ ~inst[i].enabled /\ ~inst[i].auto
    /\ running[i] = {} /\ recent[i][1] # "success"

(* The loaded attributes of w still decide what its commit writes to i.     *)
Loaded(w, i) ==
  /\ RowLeft(w, i)
  /\ worker[w].inst = i
  /\ worker[w].pc \in {"network", "persist", "failCommit"}
  /\ ~worker[w].expired

(* The scheduler is the only thread that sets auto_disabled, so a scheduled *)
(* run that loaded FALSE still has FALSE in the table when it succeeds.     *)
ScheduledSees ==
  \A i \in Instances :
    Loaded(Scheduler, i) /\ inst[i].auto => worker[Scheduler].auto

(* Without a race the flags a sync loaded are on the same side as the row's:*)
(* both manually off, or both on the enabled/auto-disabled cycle.           *)
LoadedAgrees ==
  \A i \in Instances \ raced : \A w \in Workers :
    Loaded(w, i) =>
      /\ ~(worker[w].enabled /\ worker[w].auto)
      /\ (worker[w].enabled \/ worker[w].auto)
           <=> (inst[i].enabled \/ inst[i].auto)

IInv ==
  /\ TypeOK
  /\ WorkerShape
  /\ AdminShape
  /\ NoLeftovers
  /\ WriteExclusion
  /\ NoOrphanRow
  /\ AutoMeansFailing
  /\ ScheduledSees
  /\ FlagsExclusive
  /\ LoadedAgrees

LEMMA WorkerMoves ==
  ASSUME worker \in [Workers -> WorkerState], NEW w \in Workers,
         NEW p \in Phases
  PROVE  [worker EXCEPT ![w].pc = p] \in [Workers -> WorkerState]
BY DEF WorkerState

LEMMA HoldingType ==
  ASSUME NEW p \in Phases, NEW i \in Instances, NEW r,
         r.enabled \in BOOLEAN, r.auto \in BOOLEAN
  PROVE  Holding(p, i, r) \in WorkerState
BY DEF WorkerState, Holding

LEMMA UpdatedType ==
  ASSUME TypeOK, NEW a \in Admins, NEW r \in InstanceRow
  PROVE  Updated(a, r) \in InstanceRow
BY DEF TypeOK, Updated, Flags, InstanceRow, AdminState

LEMMA RecoveredType ==
  ASSUME TypeOK, NEW w \in Workers, NEW r \in InstanceRow
  PROVE  Recovered(w, r) \in InstanceRow
BY DEF Recovered, Flags, InstanceRow

LEMMA SetHeadType ==
  ASSUME NEW s \in Statuses, NEW h \in [1..FailLimit -> Statuses]
  PROVE  SetHead(s, h) \in [1..FailLimit -> Statuses]
BY DEF SetHead

LEMMA WorkerExpires ==
  ASSUME worker \in [Workers -> WorkerState], NEW w \in Workers
  PROVE  [worker EXCEPT ![w].expired = TRUE] \in [Workers -> WorkerState]
BY DEF WorkerState

LEMMA IdleType == IdleWorker \in WorkerState
BY DEF IdleWorker, WorkerState, Phases

LEMMA LoginStep ==
  ASSUME IInv, NEW w \in Workers,
         Login(w)
  PROVE  IInv'
<1>1. TypeOK'
  BY WorkerExpires DEF IInv, TypeOK, Login, db
<1>2. WorkerShape'
  BY DEF IInv, WorkerShape, Login
<1>3. WriteExclusion'
  BY DEF IInv, WriteExclusion, Login
<1>4. NoOrphanRow'
  BY DEF IInv, NoOrphanRow, Login, db
<1>5. ScheduledSees'
  BY SyncAssumption DEF IInv, ScheduledSees, Loaded, RowLeft, Login, db, Workers
<1>6. LoadedAgrees'
  BY SyncAssumption DEF IInv, LoadedAgrees, Loaded, RowLeft, Login, db, Workers
<1>7. /\ AdminShape'
      /\ NoLeftovers'
      /\ AutoMeansFailing'
      /\ FlagsExclusive'
  BY DEF IInv, AdminShape, NoLeftovers, AutoMeansFailing, FlagsExclusive,
     Login, db
<1> QED BY <1>1, <1>2, <1>3, <1>4, <1>5, <1>6, <1>7 DEF IInv

LEMMA EnterPersistStep ==
  ASSUME IInv, NEW w \in Workers,
         EnterPersist(w)
  PROVE  IInv'
<1>1. CASE worker[w].expired
  <2>1. TypeOK'
    <3> DEFINE i == worker[w].inst
    <3>1. i \in Instances /\ inst[i] \in InstanceRow
      BY DEF IInv, TypeOK, EnterPersist
    <3>2. Holding("persist", i, inst[i]) \in WorkerState
      BY <3>1, HoldingType DEF InstanceRow, Phases
    <3>3. worker' = [worker EXCEPT ![w] = Holding("persist", i, inst[i])]
      BY <1>1 DEF EnterPersist
    <3> QED BY <3>2, <3>3 DEF IInv, TypeOK, EnterPersist, db
  <2>2. WorkerShape'
    BY <1>1 DEF IInv, WorkerShape, EnterPersist, Holding
  <2>3. WriteExclusion'
    BY <1>1, SyncAssumption DEF IInv, TypeOK, WriteExclusion, Locked,
       EnterPersist, Holding, Workers
  <2>4. NoOrphanRow'
    BY <1>1, SyncAssumption DEF IInv, NoOrphanRow, InFlight, EnterPersist,
       Holding, db
  <2>5. ScheduledSees'
    BY <1>1, SyncAssumption DEF IInv, ScheduledSees, Loaded, RowLeft, EnterPersist,
       Holding, db, Workers
  <2>6. LoadedAgrees'
    BY <1>1, SyncAssumption DEF IInv, FlagsExclusive, LoadedAgrees, Loaded, RowLeft,
       EnterPersist, Holding, db, Workers
  <2>7. /\ AdminShape'
        /\ NoLeftovers'
        /\ AutoMeansFailing'
        /\ FlagsExclusive'
    BY <1>1 DEF IInv, AdminShape, NoLeftovers, AutoMeansFailing,
       FlagsExclusive, EnterPersist, db
  <2> QED BY <2>1, <2>2, <2>3, <2>4, <2>5, <2>6, <2>7 DEF IInv
<1>2. CASE ~worker[w].expired
  <2>1. TypeOK'
    BY <1>2, HoldingType, SyncAssumption DEF IInv, TypeOK, WorkerState, Phases,
       EnterPersist, Holding, db
  <2>2. WorkerShape'
    BY <1>2 DEF IInv, WorkerShape, EnterPersist, Holding
  <2>3. WriteExclusion'
    BY <1>2, SyncAssumption DEF IInv, TypeOK, WriteExclusion, Locked,
       EnterPersist, Holding, Workers
  <2>4. NoOrphanRow'
    BY <1>2, SyncAssumption DEF IInv, NoOrphanRow, InFlight, EnterPersist,
       Holding, db
  <2>5. ScheduledSees'
    BY <1>2, SyncAssumption DEF IInv, ScheduledSees, Loaded, RowLeft, EnterPersist,
       Holding, db, Workers
  <2>6. LoadedAgrees'
    BY <1>2, SyncAssumption DEF IInv, LoadedAgrees, Loaded, RowLeft, EnterPersist,
       Holding, db, Workers
  <2>7. /\ AdminShape'
        /\ NoLeftovers'
        /\ AutoMeansFailing'
        /\ FlagsExclusive'
    BY <1>2 DEF IInv, AdminShape, NoLeftovers, AutoMeansFailing,
       FlagsExclusive, EnterPersist, db
  <2> QED BY <2>1, <2>2, <2>3, <2>4, <2>5, <2>6, <2>7 DEF IInv
<1> QED BY <1>1, <1>2

LEMMA NetworkFailStep ==
  ASSUME IInv, NEW w \in Workers,
         NetworkFail(w)
  PROVE  IInv'
<1>1. TypeOK'
  BY WorkerMoves DEF IInv, TypeOK, Phases, NetworkFail, db
<1>2. WorkerShape'
  BY DEF IInv, WorkerShape, NetworkFail
<1>3. WriteExclusion'
  BY DEF IInv, WriteExclusion, Locked, NetworkFail
<1>4. NoOrphanRow'
  BY DEF IInv, NoOrphanRow, InFlight, NetworkFail, db
<1>5. ScheduledSees'
  BY SyncAssumption DEF IInv, ScheduledSees, Loaded, RowLeft, NetworkFail, db, Workers
<1>6. LoadedAgrees'
  BY SyncAssumption DEF IInv, LoadedAgrees, Loaded, RowLeft, NetworkFail, db, Workers
<1>7. /\ AdminShape'
      /\ NoLeftovers'
      /\ AutoMeansFailing'
      /\ FlagsExclusive'
  BY DEF IInv, AdminShape, NoLeftovers, AutoMeansFailing, FlagsExclusive,
     NetworkFail, db
<1> QED BY <1>1, <1>2, <1>3, <1>4, <1>5, <1>6, <1>7 DEF IInv

LEMMA PersistFailStep ==
  ASSUME IInv, NEW w \in Workers,
         PersistFail(w)
  PROVE  IInv'
<1>1. TypeOK'
  BY WorkerMoves DEF IInv, TypeOK, Phases, PersistFail, db
<1>2. WorkerShape'
  BY DEF IInv, WorkerShape, PersistFail
<1>3. WriteExclusion'
  BY SyncAssumption DEF IInv, TypeOK, WriteExclusion, Locked, PersistFail,
     Workers
<1>4. NoOrphanRow'
  BY DEF IInv, NoOrphanRow, InFlight, PersistFail, db
<1>5. ScheduledSees'
  BY SyncAssumption DEF IInv, ScheduledSees, Loaded, RowLeft, PersistFail, db, Workers
<1>6. LoadedAgrees'
  BY SyncAssumption DEF IInv, LoadedAgrees, Loaded, RowLeft, PersistFail, db, Workers
<1>7. /\ AdminShape'
      /\ NoLeftovers'
      /\ AutoMeansFailing'
      /\ FlagsExclusive'
  BY DEF IInv, AdminShape, NoLeftovers, AutoMeansFailing, FlagsExclusive,
     PersistFail, db
<1> QED BY <1>1, <1>2, <1>3, <1>4, <1>5, <1>6, <1>7 DEF IInv

LEMMA PersistStaleStep ==
  ASSUME IInv, NEW w \in Workers,
         PersistStale(w)
  PROVE  IInv'
<1>1. TypeOK'
  BY WorkerMoves DEF IInv, TypeOK, Phases, PersistStale, db
<1>2. WorkerShape'
  BY DEF IInv, WorkerShape, PersistStale
<1>3. WriteExclusion'
  BY SyncAssumption DEF IInv, TypeOK, WriteExclusion, Locked, PersistStale,
     Workers
<1>4. NoOrphanRow'
  BY DEF IInv, NoOrphanRow, PersistStale, db
<1>5. ScheduledSees'
  BY SyncAssumption DEF IInv, ScheduledSees, Loaded, RowLeft, PersistStale, db, Workers
<1>6. LoadedAgrees'
  BY SyncAssumption DEF IInv, LoadedAgrees, Loaded, RowLeft, PersistStale, db, Workers
<1>7. /\ AdminShape'
      /\ NoLeftovers'
      /\ AutoMeansFailing'
      /\ FlagsExclusive'
  BY DEF IInv, AdminShape, NoLeftovers, AutoMeansFailing, FlagsExclusive,
     PersistStale, db
<1> QED BY <1>1, <1>2, <1>3, <1>4, <1>5, <1>6, <1>7 DEF IInv

LEMMA PersistCommitStep ==
  ASSUME IInv, NEW w \in Workers,
         PersistCommit(w)
  PROVE  IInv'
<1>1. TypeOK'
  BY WorkerMoves, RecoveredType, SyncAssumption DEF IInv, TypeOK, Statuses,
     Phases, PersistCommit, SetHead
<1>2. WorkerShape'
  BY SyncAssumption DEF IInv, WorkerShape, PersistCommit
<1>3. NoLeftovers'
  BY SyncAssumption DEF IInv, NoLeftovers, PersistCommit, Recovered, Flags,
     Workers
<1>4. WriteExclusion'
  BY SyncAssumption DEF IInv, WriteExclusion, Locked, PersistCommit, Workers
<1>5. NoOrphanRow'
  BY SyncAssumption DEF IInv, TypeOK, NoOrphanRow, PersistCommit, db, Workers
<1>6. AutoMeansFailing'
  BY SyncAssumption DEF IInv, TypeOK, WorkerShape, AutoMeansFailing,
     PersistCommit, Recovered, Flags, db, ScheduledSees, Loaded, RowLeft, NoOrphanRow,
     Workers
<1>7. ScheduledSees'
  BY SyncAssumption DEF IInv, ScheduledSees, Loaded, RowLeft, PersistCommit, Recovered,
     Flags, SetHead, db, LoadedAgrees, WriteExclusion, Locked, Workers
<1>8. FlagsExclusive'
  BY SyncAssumption DEF IInv, FlagsExclusive, PersistCommit, Recovered, Flags,
     db, LoadedAgrees, Loaded, RowLeft, Workers
<1>9. LoadedAgrees'
  BY SyncAssumption DEF IInv, WorkerShape, LoadedAgrees, Loaded, RowLeft, PersistCommit,
     Recovered, Flags, SetHead, db, WriteExclusion, Locked, Workers
<1>10. AdminShape'
  BY DEF IInv, AdminShape, PersistCommit
<1> QED BY <1>1, <1>2, <1>3, <1>4, <1>5, <1>6, <1>7, <1>8, <1>9, <1>10 DEF IInv

LEMMA FinishStep ==
  ASSUME IInv, NEW w \in Workers,
         Finish(w)
  PROVE  IInv'
<1>1. TypeOK'
  BY SyncAssumption DEF IInv, TypeOK, WorkerState, Phases, Finish, IdleWorker,
     db, Workers
<1>2. WorkerShape'
  BY DEF IInv, WorkerShape, Finish, IdleWorker
<1>3. WriteExclusion'
  BY SyncAssumption DEF IInv, TypeOK, WriteExclusion, Locked, Finish,
     IdleWorker, Workers
<1>4. NoOrphanRow'
  BY SyncAssumption DEF IInv, NoOrphanRow, InFlight, Finish, IdleWorker, db
<1>5. ScheduledSees'
  BY SyncAssumption DEF IInv, ScheduledSees, Loaded, RowLeft, Finish, IdleWorker, db,
     Workers
<1>6. LoadedAgrees'
  BY SyncAssumption DEF IInv, LoadedAgrees, Loaded, RowLeft, Finish, IdleWorker, db,
     Workers
<1>7. /\ AdminShape'
      /\ NoLeftovers'
      /\ AutoMeansFailing'
      /\ FlagsExclusive'
  BY DEF IInv, AdminShape, NoLeftovers, AutoMeansFailing, FlagsExclusive,
     Finish, db
<1> QED BY <1>1, <1>2, <1>3, <1>4, <1>5, <1>6, <1>7 DEF IInv

LEMMA FinishFailStep ==
  ASSUME IInv, NEW w \in Workers,
         FinishFail(w)
  PROVE  IInv'
<1>1. TypeOK'
  BY WorkerMoves DEF IInv, TypeOK, Phases, FinishFail, db
<1>2. WorkerShape'
  BY DEF IInv, WorkerShape, FinishFail
<1>3. WriteExclusion'
  BY SyncAssumption DEF IInv, TypeOK, WriteExclusion, Locked, FinishFail,
     Workers
<1>4. NoOrphanRow'
  BY DEF IInv, NoOrphanRow, InFlight, FinishFail, db
<1>5. ScheduledSees'
  BY SyncAssumption DEF IInv, ScheduledSees, Loaded, RowLeft, FinishFail, db,
     Workers
<1>6. LoadedAgrees'
  BY SyncAssumption DEF IInv, LoadedAgrees, Loaded, RowLeft, FinishFail, db,
     Workers
<1>7. /\ AdminShape'
      /\ NoLeftovers'
      /\ AutoMeansFailing'
      /\ FlagsExclusive'
  BY DEF IInv, AdminShape, NoLeftovers, AutoMeansFailing, FlagsExclusive,
     FinishFail, db
<1> QED BY <1>1, <1>2, <1>3, <1>4, <1>5, <1>6, <1>7 DEF IInv

LEMMA HandlerLoadStep ==
  ASSUME IInv, NEW w \in Workers,
         HandlerLoad(w)
  PROVE  IInv'
<1>1. CASE RowLeft(w, worker[w].inst)
  <2>1. TypeOK'
    <3> DEFINE i == worker[w].inst
    <3>1. i \in Instances /\ inst[i] \in InstanceRow
      BY DEF IInv, TypeOK, WorkerShape, HandlerLoad
    <3>2. Holding("failCommit", i, inst[i]) \in WorkerState
      BY <3>1, HoldingType DEF InstanceRow, Phases
    <3>3. /\ worker' = [worker EXCEPT ![w] = Holding("failCommit", i, inst[i])]
          /\ lock' = w
      BY <1>1 DEF HandlerLoad
    <3> QED BY <3>2, <3>3 DEF IInv, TypeOK, HandlerLoad, db
  <2>2. WorkerShape'
    BY <1>1 DEF IInv, TypeOK, WorkerShape, HandlerLoad, Holding, IdleWorker,
       Workers
  <2>3. WriteExclusion'
    BY <1>1, SyncAssumption DEF IInv, TypeOK, WriteExclusion, Locked,
       HandlerLoad, Holding, Workers
  <2>4. NoOrphanRow'
    BY <1>1, SyncAssumption DEF IInv, TypeOK, WorkerState, NoOrphanRow,
       InFlight, HandlerLoad, Holding, db, Workers
  <2>5. ScheduledSees'
    BY <1>1, SyncAssumption DEF IInv, TypeOK, InstanceRow, WorkerState,
       WorkerShape, NoLeftovers, ScheduledSees, Loaded, RowLeft, HandlerLoad, Holding,
       IdleWorker, db, Workers
  <2>6. LoadedAgrees'
    <3> DEFINE i == worker[w].inst
    <3>1. i \in Instances
      BY DEF IInv, WorkerShape, HandlerLoad
    <3>2. worker' = [worker EXCEPT ![w] = Holding("failCommit", i, inst[i])]
      BY <1>1 DEF HandlerLoad
    <3>3. worker'[w].inst = i /\ worker'[w].enabled = inst[i].enabled
          /\ worker'[w].auto = inst[i].auto
      BY <3>2 DEF IInv, TypeOK, Holding
    <3>4. \A v \in Workers \ {w} : worker'[v] = worker[v]
      BY <3>2
    <3> QED BY <3>1, <3>3, <3>4 DEF IInv, HandlerLoad, LoadedAgrees,
               FlagsExclusive, Loaded, RowLeft, db
  <2>7. /\ AdminShape'
        /\ NoLeftovers'
        /\ AutoMeansFailing'
        /\ FlagsExclusive'
    BY <1>1 DEF IInv, AdminShape, NoLeftovers, AutoMeansFailing,
       FlagsExclusive, HandlerLoad, db
  <2> QED BY <2>1, <2>2, <2>3, <2>4, <2>5, <2>6, <2>7 DEF IInv
<1>2. CASE ~RowLeft(w, worker[w].inst)
  <2>1. TypeOK'
    <3>1. IdleWorker \in WorkerState
      BY IdleType
    <3>2. worker' = [worker EXCEPT ![w] = IdleWorker] /\ lock' = lock
      BY <1>2 DEF HandlerLoad
    <3> QED BY <3>1, <3>2 DEF IInv, TypeOK, HandlerLoad, db
  <2>2. WorkerShape'
    <3>1. worker' = [worker EXCEPT ![w] = IdleWorker]
      BY <1>2 DEF HandlerLoad
    <3> QED BY <3>1 DEF IInv, WorkerShape, IdleWorker
  <2>3. WriteExclusion'
    BY <1>2, SyncAssumption DEF IInv, TypeOK, WorkerState, WriteExclusion,
       Locked, HandlerLoad, IdleWorker
  <2>4. NoOrphanRow'
    <3>1. /\ worker' = [worker EXCEPT ![w] = IdleWorker]
          /\ running' = running /\ up' = up
      BY <1>2 DEF HandlerLoad, db
    <3> QED BY <1>2, <3>1 DEF IInv, TypeOK, NoOrphanRow, RowLeft
  <2>5. ScheduledSees'
    BY <1>2, SyncAssumption DEF IInv, TypeOK, InstanceRow, WorkerState,
       ScheduledSees, Loaded, RowLeft, HandlerLoad, IdleWorker, db, Workers
  <2>6. LoadedAgrees'
    <3>1. worker' = [worker EXCEPT ![w] = IdleWorker]
          /\ running' = running /\ recent' = recent /\ inst' = inst /\ raced' = raced
      BY <1>2 DEF HandlerLoad, db
    <3>2. worker'[w].pc = "idle" /\ \A v \in Workers \ {w} : worker'[v] = worker[v]
      BY <3>1 DEF IInv, TypeOK, IdleWorker
    <3>3. \A v \in Workers, i \in Instances :
            Loaded(v, i)' => Loaded(v, i) /\ worker'[v] = worker[v]
      BY <3>1, <3>2 DEF Loaded, RowLeft
    <3> QED BY <3>1, <3>3 DEF IInv, LoadedAgrees
  <2>7. /\ AdminShape'
        /\ NoLeftovers'
        /\ AutoMeansFailing'
        /\ FlagsExclusive'
    BY <1>2 DEF IInv, AdminShape, NoLeftovers, AutoMeansFailing,
       FlagsExclusive, HandlerLoad, db
  <2> QED BY <2>1, <2>2, <2>3, <2>4, <2>5, <2>6, <2>7 DEF IInv
<1> QED BY <1>1, <1>2

LEMMA HandlerCommitStep ==
  ASSUME IInv, NEW w \in Workers,
         HandlerCommit(w)
  PROVE  IInv'
<1>1. CASE ~RowLeft(w, worker[w].inst)
  <2>1. TypeOK'
    BY <1>1, SyncAssumption DEF IInv, TypeOK, WorkerState, Phases,
       HandlerCommit, SetHead, IdleWorker, db, Workers
  <2>2. WorkerShape'
    BY <1>1, SyncAssumption DEF IInv, WorkerShape, HandlerCommit, IdleWorker,
       Workers
  <2>3. NoLeftovers'
    BY <1>1, SyncAssumption DEF IInv, NoLeftovers, HandlerCommit, db, Workers
  <2>4. WriteExclusion'
    BY <1>1, SyncAssumption DEF IInv, TypeOK, WriteExclusion, Locked,
       HandlerCommit, IdleWorker, db, Workers
  <2>5. NoOrphanRow'
    BY <1>1, SyncAssumption DEF IInv, NoOrphanRow, RowLeft, HandlerCommit, IdleWorker,
       db, Workers
  <2>6. AutoMeansFailing'
    BY <1>1, SyncAssumption DEF IInv, AutoMeansFailing, HandlerCommit,
       IdleWorker, db, Workers
  <2>7. ScheduledSees'
    BY <1>1, SyncAssumption DEF IInv, ScheduledSees, Loaded, RowLeft, HandlerCommit,
       Flags, SetHead, IdleWorker, db, LoadedAgrees, WriteExclusion, Locked,
       Workers
  <2>8. FlagsExclusive'
    BY <1>1, SyncAssumption DEF IInv, FlagsExclusive, HandlerCommit,
       IdleWorker, db, LoadedAgrees, Loaded, RowLeft, Workers
  <2>9. LoadedAgrees'
    BY <1>1, SyncAssumption DEF IInv, LoadedAgrees, Loaded, RowLeft, HandlerCommit,
       Disables, Flags, SetHead, IdleWorker, db, WriteExclusion, Locked,
       Workers
  <2>10. AdminShape'
    BY <1>1 DEF IInv, AdminShape, HandlerCommit
  <2> QED BY <2>1, <2>2, <2>3, <2>4, <2>5, <2>6, <2>7, <2>8, <2>9, <2>10 DEF
             IInv
<1>2. CASE RowLeft(w, worker[w].inst) /\ Disables(w)
  <2>1. TypeOK'
    <3> DEFINE i == worker[w].inst
    <3>1. i \in Instances /\ inst[i] \in InstanceRow
      BY DEF IInv, TypeOK, WorkerShape, HandlerCommit
    <3>2. Flags(inst[i], FALSE, TRUE) \in InstanceRow
      BY <3>1 DEF InstanceRow, Flags
    <3>3. inst' = [inst EXCEPT ![i] = Flags(inst[i], FALSE, TRUE)]
      BY <1>2 DEF HandlerCommit
    <3>4. recent' \in {recent, [recent EXCEPT ![i] = SetHead("failed", @)]}
      BY <1>2 DEF HandlerCommit
    <3>5. /\ running' = [running EXCEPT ![i] = @ \ {w}]
          /\ probeDue' \in {probeDue, [probeDue EXCEPT ![i] = FALSE]}
      BY <1>2 DEF HandlerCommit
    <3>6. recent' \in [Instances -> [1..FailLimit -> Statuses]]
      BY <3>1, <3>4, SetHeadType DEF IInv, TypeOK, Statuses
    <3>7. running' \in [Instances -> SUBSET Workers]
          /\ probeDue' \in [Instances -> BOOLEAN]
      BY <3>5 DEF IInv, TypeOK
    <3>8. worker' \in [Workers -> WorkerState]
      BY IdleType DEF IInv, TypeOK, HandlerCommit
    <3>9. inst' \in [Instances -> InstanceRow]
      BY <3>2, <3>3 DEF IInv, TypeOK
    <3> QED BY <3>8, <3>9, <3>6, <3>7 DEF IInv, TypeOK, HandlerCommit
  <2>2. WorkerShape'
    BY <1>2, SyncAssumption DEF IInv, WorkerShape, HandlerCommit, IdleWorker,
       Workers
  <2>3. NoLeftovers'
    <3> DEFINE i == worker[w].inst
    <3>1. /\ inst' = [inst EXCEPT ![i] = Flags(@, FALSE, TRUE)]
          /\ running' = [running EXCEPT ![i] = @ \ {w}]
          /\ recent' = [recent EXCEPT ![i] = SetHead("failed", @)]
      BY <1>2 DEF HandlerCommit, Disables
    <3>2. i \in Instances
      BY DEF IInv, WorkerShape, HandlerCommit
    <3>3. inst[i].row
      BY <1>2, <3>2 DEF IInv, NoLeftovers, RowLeft
    <3>4. inst'[i].row
      BY <3>1, <3>2, <3>3 DEF IInv, TypeOK, Flags
    <3>5. \A j \in Instances \ {i} : /\ inst'[j] = inst[j]
                                     /\ running'[j] = running[j]
                                     /\ recent'[j] = recent[j]
      BY <3>1 DEF IInv, TypeOK
    <3> QED BY <3>4, <3>5 DEF IInv, NoLeftovers
  <2>4. WriteExclusion'
    BY <1>2, SyncAssumption DEF IInv, TypeOK, WriteExclusion, Locked,
       HandlerCommit, IdleWorker, db, Workers
  <2>5. NoOrphanRow'
    <3>1. /\ worker' = [worker EXCEPT ![w] = IdleWorker]
          /\ running' = [running EXCEPT ![worker[w].inst] = @ \ {w}]
          /\ up' = up
      BY <1>2 DEF HandlerCommit
    <3> QED BY <3>1 DEF IInv, TypeOK, NoOrphanRow
  <2>6. AutoMeansFailing'
    BY <1>2, SyncAssumption DEF IInv, TypeOK, InstanceRow, AutoMeansFailing,
       HandlerCommit, Disables, Flags, SetHead, IdleWorker, db, Workers
  <2>7. ScheduledSees'
    BY <1>2, SyncAssumption DEF IInv, TypeOK, ScheduledSees, Loaded, RowLeft,
       HandlerCommit, Disables, Flags, SetHead, IdleWorker, db, LoadedAgrees,
       WriteExclusion, Locked, Workers
  <2>8. FlagsExclusive'
    <3>1. /\ inst' = [inst EXCEPT ![worker[w].inst] = Flags(@, FALSE, TRUE)]
          /\ raced' = raced
      BY <1>2 DEF HandlerCommit
    <3> QED BY <3>1 DEF IInv, TypeOK, FlagsExclusive, Flags
  <2>9. LoadedAgrees'
    BY <1>2, SyncAssumption DEF IInv, TypeOK, InstanceRow, WorkerShape,
       LoadedAgrees, Loaded, RowLeft, HandlerCommit, Disables, Flags, SetHead,
       IdleWorker, db, WriteExclusion, Locked, Workers
  <2>10. AdminShape'
    BY <1>2 DEF IInv, AdminShape, HandlerCommit
  <2> QED BY <2>1, <2>2, <2>3, <2>4, <2>5, <2>6, <2>7, <2>8, <2>9, <2>10 DEF
             IInv
<1>3. CASE RowLeft(w, worker[w].inst) /\ ~Disables(w)
  <2>1. TypeOK'
    <3> DEFINE i == worker[w].inst
    <3>1. /\ inst' = inst
          /\ running' = [running EXCEPT ![i] = @ \ {w}]
          /\ recent' \in {recent, [recent EXCEPT ![i] = SetHead("failed", @)]}
          /\ probeDue' \in {probeDue, [probeDue EXCEPT ![i] = FALSE]}
      BY <1>3 DEF HandlerCommit
    <3>2. recent' \in [Instances -> [1..FailLimit -> Statuses]]
      BY <3>1, SetHeadType DEF IInv, TypeOK, Statuses
    <3>3. /\ running' \in [Instances -> SUBSET Workers]
          /\ probeDue' \in [Instances -> BOOLEAN]
      BY <3>1 DEF IInv, TypeOK
    <3>4. worker' \in [Workers -> WorkerState]
      BY IdleType DEF IInv, TypeOK, HandlerCommit
    <3> QED BY <3>1, <3>2, <3>3, <3>4 DEF IInv, TypeOK, HandlerCommit
  <2>2. WorkerShape'
    BY <1>3, SyncAssumption DEF IInv, WorkerShape, HandlerCommit, IdleWorker,
       Workers
  <2>3. NoLeftovers'
    BY <1>3, SyncAssumption DEF IInv, TypeOK, WorkerShape, RowLeft, SetHead, NoLeftovers, HandlerCommit, db,
       Workers
  <2>4. WriteExclusion'
    BY <1>3, SyncAssumption DEF IInv, TypeOK, WriteExclusion, Locked,
       HandlerCommit, IdleWorker, db, Workers
  <2>5. NoOrphanRow'
    BY <1>3, SyncAssumption DEF IInv, TypeOK, WorkerShape, NoOrphanRow, RowLeft,
       HandlerCommit, IdleWorker, db, Workers
  <2>6. AutoMeansFailing'
    BY <1>3, SyncAssumption DEF IInv, TypeOK, InstanceRow, AutoMeansFailing,
       HandlerCommit, Disables, Flags, SetHead, IdleWorker, db, Workers
  <2>7. ScheduledSees'
    <3>1. inst' = inst /\ running' = [running EXCEPT ![worker[w].inst] = @ \ {w}]
      BY <1>3 DEF HandlerCommit
    <3>2. worker' = [worker EXCEPT ![w] = IdleWorker]
      BY DEF HandlerCommit
    <3>3. w # Scheduler => worker'[Scheduler] = worker[Scheduler]
      BY <3>2
    <3>4. worker'[w].pc = "idle"
      BY <3>2 DEF IInv, TypeOK, IdleWorker
    <3>5. /\ \A j \in Instances : running'[j] \subseteq running[j]
          /\ \A j \in Instances : recent'[j][1] = "success"
                                   => recent[j][1] = "success"
      BY <1>3, <3>1, SyncAssumption DEF HandlerCommit, SetHead, IInv, TypeOK
    <3> QED BY <3>1, <3>3, <3>4, <3>5 DEF IInv, ScheduledSees, Loaded, RowLeft
  <2>8. FlagsExclusive'
    BY <1>3, SyncAssumption DEF IInv, FlagsExclusive, HandlerCommit,
       IdleWorker, db, LoadedAgrees, Loaded, RowLeft, Workers
  <2>9. LoadedAgrees'
    BY <1>3, SyncAssumption DEF IInv, TypeOK, InstanceRow, FlagsExclusive,
       LoadedAgrees, Loaded, RowLeft, HandlerCommit, Disables, Flags, SetHead,
       IdleWorker, db, WriteExclusion, Locked, Workers
  <2>10. AdminShape'
    BY <1>3 DEF IInv, AdminShape, HandlerCommit
  <2> QED BY <2>1, <2>2, <2>3, <2>4, <2>5, <2>6, <2>7, <2>8, <2>9, <2>10 DEF
             IInv
<1> QED BY <1>1, <1>2, <1>3

LEMMA StartStep ==
  ASSUME IInv, NEW w \in Workers, NEW i \in Instances,
         Start(w, i),
         todo' \subseteq Instances
  PROVE  IInv'
<1>1. TypeOK'
  BY HoldingType, SyncAssumption DEF IInv, TypeOK, WorkerState, InstanceRow,
     Statuses, Phases, Start, Push, Workers
<1>2. WorkerShape'
  BY DEF IInv, WorkerShape, Start, Holding
<1>3. NoLeftovers'
  BY DEF IInv, NoLeftovers, Start, Workers
<1>4. WriteExclusion'
  BY SyncAssumption DEF IInv, WriteExclusion, Locked, Start, Holding
<1>5. NoOrphanRow'
  BY SyncAssumption DEF IInv, TypeOK, NoOrphanRow, InFlight, Start, Holding,
     Workers
<1>6. AutoMeansFailing'
  BY SyncAssumption DEF IInv, AutoMeansFailing, Start, Push, Workers
<1>7. ScheduledSees'
  BY SyncAssumption DEF IInv, ScheduledSees, Loaded, RowLeft, Start, Holding, Push, db,
     Workers
<1>8. LoadedAgrees'
  BY SyncAssumption DEF IInv, FlagsExclusive, LoadedAgrees, Loaded, RowLeft, Start,
     Holding, Push, db, Workers
<1>9. /\ AdminShape'
      /\ FlagsExclusive'
  BY DEF IInv, AdminShape, FlagsExclusive, Start
<1> QED BY <1>1, <1>2, <1>3, <1>4, <1>5, <1>6, <1>7, <1>8, <1>9 DEF IInv

LEMMA PassStartStep ==
  ASSUME IInv, PassStart
  PROVE  IInv'
<1>1. TypeOK'
  BY SyncAssumption DEF IInv, TypeOK, PassStart, DueInstances, db, Workers
<1>2. /\ WorkerShape'
      /\ AdminShape'
      /\ NoLeftovers'
      /\ WriteExclusion'
      /\ NoOrphanRow'
      /\ AutoMeansFailing'
      /\ ScheduledSees'
      /\ FlagsExclusive'
      /\ LoadedAgrees'
  BY SyncAssumption DEF IInv, WorkerShape, AdminShape, NoLeftovers,
     WriteExclusion, NoOrphanRow, AutoMeansFailing, ScheduledSees,
     FlagsExclusive, LoadedAgrees, Loaded, RowLeft, PassStart, db
<1> QED BY <1>1, <1>2 DEF IInv

LEMMA CreateInstanceStep ==
  ASSUME IInv, NEW i \in Instances, NEW enabled \in BOOLEAN,
         CreateInstance(i, enabled)
  PROVE  IInv'
<1>1. TypeOK'
  BY SyncAssumption DEF IInv, TypeOK, InstanceRow, CreateInstance
<1>2. NoLeftovers'
  BY DEF IInv, NoLeftovers, CreateInstance
<1>3. AutoMeansFailing'
  BY DEF IInv, AutoMeansFailing, CreateInstance
<1>4. ScheduledSees'
  BY SyncAssumption DEF IInv, ScheduledSees, Loaded, RowLeft, CreateInstance, Workers
<1>5. FlagsExclusive'
  BY DEF IInv, FlagsExclusive, CreateInstance
<1>6. LoadedAgrees'
  BY SyncAssumption DEF IInv, NoLeftovers, LoadedAgrees, Loaded, RowLeft,
     CreateInstance, db, Workers
<1>7. /\ WorkerShape'
      /\ AdminShape'
      /\ WriteExclusion'
      /\ NoOrphanRow'
  BY DEF IInv, WorkerShape, AdminShape, WriteExclusion, NoOrphanRow,
     CreateInstance
<1> QED BY <1>1, <1>2, <1>3, <1>4, <1>5, <1>6, <1>7 DEF IInv

LEMMA DeleteInstanceStep ==
  ASSUME IInv, NEW i \in Instances,
         DeleteInstance(i)
  PROVE  IInv'
<1>1. TypeOK'
  BY SyncAssumption DEF IInv, TypeOK, InstanceRow, Statuses, DeleteInstance,
     NoRow, NoHistory, db, Workers
<1>2. NoLeftovers'
  BY SyncAssumption DEF IInv, TypeOK, NoLeftovers, DeleteInstance, NoRow,
     NoHistory
<1>3. NoOrphanRow'
  BY SyncAssumption DEF IInv, NoOrphanRow, DeleteInstance, Workers
<1>4. AutoMeansFailing'
  BY SyncAssumption DEF IInv, TypeOK, AutoMeansFailing, DeleteInstance, NoRow,
     Workers
<1>5. ScheduledSees'
  BY SyncAssumption DEF IInv, ScheduledSees, Loaded, RowLeft, DeleteInstance, NoRow,
     NoHistory, db, Workers
<1>6. FlagsExclusive'
  BY SyncAssumption DEF IInv, TypeOK, FlagsExclusive, DeleteInstance, NoRow,
     Workers
<1>7. LoadedAgrees'
  BY SyncAssumption DEF IInv, TypeOK, LoadedAgrees, Loaded, RowLeft, DeleteInstance,
     NoRow, NoHistory, db, Workers
<1>8. /\ WorkerShape'
      /\ AdminShape'
      /\ WriteExclusion'
  BY DEF IInv, WorkerShape, AdminShape, WriteExclusion, DeleteInstance
<1> QED BY <1>1, <1>2, <1>3, <1>4, <1>5, <1>6, <1>7, <1>8 DEF IInv

LEMMA AdminLoadStep ==
  ASSUME IInv, NEW a \in Admins, NEW i \in Instances,
         NEW want \in BOOLEAN,
         AdminLoad(a, i, want)
  PROVE  IInv'
<1>1. TypeOK'
  BY SyncAssumption DEF IInv, TypeOK, InstanceRow, AdminState, AdminLoad, db
<1>2. AdminShape'
  BY DEF IInv, AdminShape, AdminLoad
<1>3. /\ WorkerShape'
      /\ NoLeftovers'
      /\ WriteExclusion'
      /\ NoOrphanRow'
      /\ AutoMeansFailing'
      /\ ScheduledSees'
      /\ FlagsExclusive'
      /\ LoadedAgrees'
  BY SyncAssumption DEF IInv, WorkerShape, NoLeftovers, WriteExclusion,
     NoOrphanRow, AutoMeansFailing, ScheduledSees, FlagsExclusive,
     LoadedAgrees, Loaded, RowLeft, AdminLoad, db
<1> QED BY <1>1, <1>2, <1>3 DEF IInv

LEMMA AdminCommitStep ==
  ASSUME IInv, NEW a \in Admins,
         AdminCommit(a)
  PROVE  IInv'
<1>1. CASE inst[admin[a].inst].row
  <2>1. TypeOK'
    <3> DEFINE i == admin[a].inst
    <3>1. i \in Instances /\ inst[i] \in InstanceRow
      BY DEF IInv, TypeOK, AdminShape, AdminCommit
    <3>2. inst' = [inst EXCEPT ![i] = Updated(a, inst[i])]
      BY <1>1 DEF AdminCommit
    <3>3. Updated(a, inst[i]) \in InstanceRow
      BY <3>1, UpdatedType DEF IInv
    <3>4. admin' = [admin EXCEPT ![a] = IdleAdmin] /\ IdleAdmin \in AdminState
      BY DEF AdminCommit, IdleAdmin, AdminState
    <3>5. raced' \subseteq Instances
      BY <1>1, <3>1 DEF IInv, TypeOK, AdminCommit
    <3> QED BY <3>1, <3>2, <3>3, <3>4, <3>5 DEF IInv, TypeOK, AdminCommit
  <2>2. AdminShape'
    BY <1>1, SyncAssumption DEF IInv, AdminShape, AdminCommit, IdleAdmin
  <2>3. NoLeftovers'
    BY <1>1, SyncAssumption DEF IInv, TypeOK, InstanceRow, NoLeftovers,
       AdminCommit, Updated, Flags, IdleAdmin, db, Workers
  <2>4. AutoMeansFailing'
    <3> DEFINE i == admin[a].inst
    <3>1. i \in Instances /\ inst[i] \in InstanceRow
      BY DEF IInv, TypeOK, AdminShape, AdminCommit
    <3>2. inst' = [inst EXCEPT ![i] = Updated(a, inst[i])]
      BY <1>1 DEF AdminCommit
    <3>3. Updated(a, inst[i]).auto => inst[i].auto
      BY <3>1 DEF Updated, Flags
    <3>4. \A j \in Instances : inst'[j].auto => inst[j].auto
      BY <3>1, <3>2, <3>3
    <3> QED BY <3>4 DEF IInv, AutoMeansFailing, AdminCommit
  <2>5. ScheduledSees'
    <3> DEFINE i == admin[a].inst
    <3>1. i \in Instances /\ inst[i] \in InstanceRow
      BY DEF IInv, TypeOK, AdminShape, AdminCommit
    <3>2. inst' = [inst EXCEPT ![i] = Updated(a, inst[i])]
      BY <1>1 DEF AdminCommit
    <3>3. Updated(a, inst[i]).auto => inst[i].auto
      BY <3>1 DEF Updated, Flags
    <3>4. \A j \in Instances : inst'[j].auto => inst[j].auto
      BY <3>1, <3>2, <3>3
    <3> QED BY <3>4 DEF IInv, ScheduledSees, Loaded, RowLeft, AdminCommit
  <2>6. FlagsExclusive'
    <3> DEFINE i == admin[a].inst
    <3>1. i \in Instances /\ inst[i] \in InstanceRow
      BY DEF IInv, TypeOK, AdminShape, AdminCommit
    <3>2. inst' = [inst EXCEPT ![i] = Updated(a, inst[i])]
      BY <1>1 DEF AdminCommit
    <3>3. ASSUME ~Overlaps(a), ~(inst[i].enabled /\ inst[i].auto)
          PROVE  ~(Updated(a, inst[i]).enabled /\ Updated(a, inst[i]).auto)
      BY <3>1, <3>3 DEF Overlaps, Updated, Flags
    <3>4. raced \subseteq raced' /\ (Overlaps(a) => i \in raced')
      BY <1>1 DEF AdminCommit
    <3>5. \A j \in Instances \ {i} : inst'[j] = inst[j]
      BY <3>2
    <3>6. inst'[i] = Updated(a, inst[i])
      BY <3>1, <3>2 DEF IInv, TypeOK
    <3>7. ASSUME NEW j \in Instances \ raced'
          PROVE  ~(inst'[j].enabled /\ inst'[j].auto)
      <4>1. ~(inst[j].enabled /\ inst[j].auto)
        BY <3>4, <3>7 DEF IInv, FlagsExclusive
      <4>2. CASE j = i
        BY <3>3, <3>4, <3>6, <3>7, <4>1, <4>2
      <4>3. CASE j # i
        BY <3>5, <3>7, <4>1, <4>3
      <4> QED BY <4>2, <4>3
    <3> QED BY <3>7 DEF FlagsExclusive
  <2>7. LoadedAgrees'
    BY <1>1, SyncAssumption DEF IInv, TypeOK, LoadedAgrees, Loaded, RowLeft,
       AdminCommit, Updated, Flags, Overlaps, IdleAdmin, db, Workers
  <2>8. /\ WorkerShape'
        /\ WriteExclusion'
        /\ NoOrphanRow'
    BY <1>1 DEF IInv, WorkerShape, WriteExclusion, NoOrphanRow, AdminCommit
  <2> QED BY <2>1, <2>2, <2>3, <2>4, <2>5, <2>6, <2>7, <2>8 DEF IInv
<1>2. CASE ~inst[admin[a].inst].row
  <2>1. TypeOK'
    BY <1>2, UpdatedType, SyncAssumption DEF IInv, TypeOK, AdminState,
       AdminCommit, IdleAdmin, db, Workers
  <2>2. AdminShape'
    BY <1>2, SyncAssumption DEF IInv, AdminShape, AdminCommit, IdleAdmin
  <2>3. NoLeftovers'
    BY <1>2, SyncAssumption DEF IInv, NoLeftovers, AdminCommit, IdleAdmin, db,
       Workers
  <2>4. AutoMeansFailing'
    BY <1>2, SyncAssumption DEF IInv, AutoMeansFailing, AdminCommit, Overlaps,
       IdleAdmin, db, Workers
  <2>5. ScheduledSees'
    BY <1>2, SyncAssumption DEF IInv, ScheduledSees, Loaded, RowLeft, AdminCommit,
       Updated, Flags, Overlaps, IdleAdmin, db, LoadedAgrees, Workers
  <2>6. FlagsExclusive'
    BY <1>2, SyncAssumption DEF IInv, FlagsExclusive, AdminCommit, Overlaps,
       IdleAdmin, db, LoadedAgrees, Loaded, RowLeft, Workers
  <2>7. LoadedAgrees'
    BY <1>2, SyncAssumption DEF IInv, LoadedAgrees, Loaded, RowLeft, AdminCommit,
       Updated, Flags, Overlaps, IdleAdmin, db, Workers
  <2>8. /\ WorkerShape'
        /\ WriteExclusion'
        /\ NoOrphanRow'
    BY <1>2 DEF IInv, WorkerShape, WriteExclusion, NoOrphanRow, AdminCommit
  <2> QED BY <2>1, <2>2, <2>3, <2>4, <2>5, <2>6, <2>7, <2>8 DEF IInv
<1> QED BY <1>1, <1>2

LEMMA AdminBusyStep ==
  ASSUME IInv, NEW a \in Admins,
         AdminBusy(a)
  PROVE  IInv'
<1>1. TypeOK'
  BY SyncAssumption DEF IInv, TypeOK, AdminState, AdminBusy, IdleAdmin, db,
     Workers
<1>2. AdminShape'
  BY DEF IInv, AdminShape, AdminBusy, IdleAdmin
<1>3. /\ WorkerShape'
      /\ NoLeftovers'
      /\ WriteExclusion'
      /\ NoOrphanRow'
      /\ AutoMeansFailing'
      /\ ScheduledSees'
      /\ FlagsExclusive'
      /\ LoadedAgrees'
  BY SyncAssumption DEF IInv, WorkerShape, NoLeftovers, WriteExclusion,
     NoOrphanRow, AutoMeansFailing, ScheduledSees, FlagsExclusive,
     LoadedAgrees, Loaded, RowLeft, AdminBusy, db
<1> QED BY <1>1, <1>2, <1>3 DEF IInv

LEMMA CrashStep ==
  ASSUME IInv, Crash
  PROVE  IInv'
<1>1. TypeOK'
  BY SyncAssumption DEF IInv, TypeOK, WorkerState, AdminState, Phases, Crash,
     IdleWorker, IdleAdmin, db, Workers
<1>2. WorkerShape'
  BY DEF WorkerShape, Crash, IdleWorker
<1>3. AdminShape'
  BY DEF AdminShape, Crash, IdleAdmin
<1>4. WriteExclusion'
  BY SyncAssumption DEF WriteExclusion, Locked, Crash, IdleWorker, Workers
<1>5. NoOrphanRow'
  BY SyncAssumption DEF NoOrphanRow, Crash, Workers
<1>6. ScheduledSees'
  BY SyncAssumption DEF ScheduledSees, Loaded, RowLeft, Crash, IdleWorker, IdleAdmin,
     db, Workers
<1>7. LoadedAgrees'
  BY SyncAssumption DEF LoadedAgrees, Loaded, RowLeft, Crash, IdleWorker, IdleAdmin, db,
     Workers
<1>8. /\ NoLeftovers'
      /\ AutoMeansFailing'
      /\ FlagsExclusive'
  BY DEF IInv, NoLeftovers, AutoMeansFailing, FlagsExclusive, Crash, db
<1> QED BY <1>1, <1>2, <1>3, <1>4, <1>5, <1>6, <1>7, <1>8 DEF IInv

LEMMA RestartStep ==
  ASSUME IInv, Restart
  PROVE  IInv'
<1>1. TypeOK'
  BY SyncAssumption DEF IInv, TypeOK, Statuses, Restart
<1>2. NoLeftovers'
  BY SyncAssumption DEF IInv, TypeOK, NoLeftovers, Restart
<1>3. NoOrphanRow'
  BY DEF NoOrphanRow, Restart
<1>4. AutoMeansFailing'
  BY SyncAssumption DEF IInv, NoLeftovers, AutoMeansFailing, Restart
<1>5. ScheduledSees'
  BY SyncAssumption DEF IInv, TypeOK, ScheduledSees, Loaded, RowLeft, Restart, Workers
<1>6. LoadedAgrees'
  BY SyncAssumption DEF IInv, TypeOK, LoadedAgrees, Loaded, RowLeft, Restart, db, Workers
<1>7. /\ WorkerShape'
      /\ AdminShape'
      /\ WriteExclusion'
      /\ FlagsExclusive'
  BY DEF IInv, WorkerShape, AdminShape, WriteExclusion, FlagsExclusive, Restart
<1> QED BY <1>1, <1>2, <1>3, <1>4, <1>5, <1>6, <1>7 DEF IInv

LEMMA EnvironmentStep ==
  ASSUME IInv, NEW i \in Instances,
         Environment(i)
  PROVE  IInv'
<1>1. TypeOK'
  <2>1. CASE UpstreamChanges(i)
    BY <2>1 DEF IInv, TypeOK, UpstreamChanges, db
  <2>2. CASE SyncIntervalElapses(i)
    BY <2>2 DEF IInv, TypeOK, SyncIntervalElapses
  <2>3. CASE ProbeIntervalElapses(i)
    BY <2>3 DEF IInv, TypeOK, ProbeIntervalElapses
  <2> QED BY <2>1, <2>2, <2>3 DEF Environment
<1>2. /\ WorkerShape'
      /\ AdminShape'
      /\ NoLeftovers'
      /\ WriteExclusion'
      /\ NoOrphanRow'
      /\ AutoMeansFailing'
      /\ ScheduledSees'
      /\ FlagsExclusive'
      /\ LoadedAgrees'
  BY SyncAssumption DEF IInv, WorkerShape, AdminShape, NoLeftovers,
     WriteExclusion, NoOrphanRow, AutoMeansFailing, ScheduledSees,
     FlagsExclusive, LoadedAgrees, Loaded, RowLeft, Environment, UpstreamChanges,
     SyncIntervalElapses, ProbeIntervalElapses, db
<1> QED BY <1>1, <1>2 DEF IInv

LEMMA PassTurnStep ==
  ASSUME IInv, NEW i \in Instances, PassTurn(i)
  PROVE  IInv'
<1>1. todo' \subseteq Instances
  BY DEF IInv, TypeOK, PassTurn
<1>2. CASE Start(Scheduler, i)
  BY <1>1, <1>2, StartStep DEF Workers
<1>3. CASE UNCHANGED <<up, db, healthy, worker, lock, admin, raced>>
  <2>1. TypeOK'
    BY <1>1, <1>3 DEF IInv, TypeOK, db
  <2>2. /\ WorkerShape'
        /\ AdminShape'
        /\ NoLeftovers'
        /\ WriteExclusion'
        /\ NoOrphanRow'
        /\ AutoMeansFailing'
        /\ ScheduledSees'
        /\ FlagsExclusive'
        /\ LoadedAgrees'
    BY <1>3 DEF IInv, WorkerShape, AdminShape, NoLeftovers, WriteExclusion,
       NoOrphanRow, AutoMeansFailing, ScheduledSees, FlagsExclusive,
       LoadedAgrees, Loaded, RowLeft, db
  <2> QED BY <2>1, <2>2 DEF IInv
<1> QED BY <1>2, <1>3 DEF PassTurn

LEMMA StutterStep ==
  ASSUME IInv, UNCHANGED vars
  PROVE  IInv'
BY DEF vars, IInv, TypeOK, WorkerShape, AdminShape, NoLeftovers,
   WriteExclusion, NoOrphanRow, AutoMeansFailing, ScheduledSees,
   FlagsExclusive, LoadedAgrees, Loaded, RowLeft

LEMMA InitInv == Init => IInv
<1> SUFFICES ASSUME Init PROVE IInv
  OBVIOUS
<1>1. TypeOK
  <2>1. IdleAdmin \in AdminState /\ NoRow \in InstanceRow
    BY DEF IdleAdmin, AdminState, NoRow, InstanceRow
  <2>2. NoHistory \in [1..FailLimit -> Statuses]
    BY DEF NoHistory, Statuses
  <2> QED BY <2>1, <2>2, IdleType DEF Init, TypeOK
<1>2. WorkerShape /\ AdminShape /\ WriteExclusion
  BY SyncAssumption DEF Init, WorkerShape, AdminShape, WriteExclusion, Locked,
     IdleWorker, IdleAdmin, Workers
<1>3. NoLeftovers /\ NoOrphanRow /\ AutoMeansFailing /\ FlagsExclusive
  BY SyncAssumption DEF Init, NoHistory, NoLeftovers, NoOrphanRow, AutoMeansFailing, FlagsExclusive,
     NoRow
<1>4. ScheduledSees /\ LoadedAgrees
  BY DEF Init, ScheduledSees, LoadedAgrees, Loaded, IdleWorker, Workers
<1> QED BY <1>1, <1>2, <1>3, <1>4 DEF IInv

LEMMA NextInv == IInv /\ [Next]_vars => IInv'
<1> SUFFICES ASSUME IInv, [Next]_vars PROVE IInv'
  OBVIOUS
<1>1. ASSUME NEW w \in Workers, SyncStep(w) PROVE IInv'
  BY <1>1, LoginStep, EnterPersistStep, NetworkFailStep, PersistFailStep,
     PersistStaleStep, PersistCommitStep, FinishStep, FinishFailStep, HandlerLoadStep,
     HandlerCommitStep DEF SyncStep
<1>2. ASSUME NEW w \in Manual, NEW i \in Instances, ManualSync(w, i) PROVE IInv'
  <2>1. w \in Workers /\ todo' \subseteq Instances
    BY <1>2 DEF Workers, IInv, TypeOK, ManualSync
  <2> QED BY <1>2, <2>1, StartStep DEF ManualSync
<1>3. ASSUME NEW i \in Instances,
             PassTurn(i) \/ DeleteInstance(i) \/ Environment(i)
      PROVE  IInv'
  BY <1>3, PassTurnStep, DeleteInstanceStep, EnvironmentStep
<1>4. ASSUME NEW i \in Instances, NEW enabled \in BOOLEAN,
             CreateInstance(i, enabled)
      PROVE  IInv'
  BY <1>4, CreateInstanceStep
<1>5. ASSUME NEW a \in Admins, AdminStep(a) PROVE IInv'
  BY <1>5, AdminLoadStep, AdminCommitStep, AdminBusyStep DEF AdminStep
<1>6. CASE PassStart \/ Crash \/ Restart
  BY <1>6, PassStartStep, CrashStep, RestartStep
<1>7. CASE UNCHANGED vars
  BY <1>7, StutterStep
<1> QED BY <1>1, <1>2, <1>3, <1>4, <1>5, <1>6, <1>7 DEF Next

-----------------------------------------------------------------------------
(* The inductive invariant holds of every behaviour of the engine.          *)
THEOREM InvariantHolds == Spec => []IInv
BY InitInv, NextInv, PTL DEF Spec

(* Every variable keeps its type, whatever the sync threads, the scheduled  *)
(* pass, the operator and the restarts of main.py do.                       *)
THEOREM TypeCorrect == Spec => []TypeOK
<1>1. IInv => TypeOK BY DEF IInv
<1> QED BY <1>1, InvariantHolds, PTL

(* A sync_runs row is "running" only while a thread of this process is at   *)
(* work on it: the pass's filter on running rows blocks no instance forever.*)
THEOREM NoOrphanRowHolds == Spec => []NoOrphanRow
<1>1. IInv => NoOrphanRow BY DEF IInv
<1> QED BY <1>1, InvariantHolds, PTL

(* SQLITE_WRITE_LOCK keeps the persistence phases of the sync threads and   *)
(* their failure handlers apart.                                            *)
THEOREM WriteExclusionHolds == Spec => []WriteExclusion
<1>1. IInv => WriteExclusion BY DEF IInv
<1> QED BY <1>1, InvariantHolds, PTL

(* A scheduled success never leaves the instance auto_disabled, although it *)
(* goes by the flag it loaded before its network calls.                     *)
THEOREM AutoMeansFailingHolds == Spec => []AutoMeansFailing
<1>1. IInv => AutoMeansFailing BY DEF IInv
<1> QED BY <1>1, InvariantHolds, PTL

(* enabled and auto_disabled are never both set on an instance whose edits  *)
(* did not overlap a sync or another edit of it.                            *)
THEOREM FlagsExclusiveHolds == Spec => []FlagsExclusive
<1>1. IInv => FlagsExclusive BY DEF IInv
<1> QED BY <1>1, InvariantHolds, PTL

-----------------------------------------------------------------------------
(* Who writes the flags: the persistence commit, the failure handler's      *)
(* commit and the operator's requests, and nobody else.                     *)
LEMMA FlagWriters ==
  ASSUME [Next]_vars, inst' # inst
  PROVE  \/ \E w \in Workers : PersistCommit(w) \/ HandlerCommit(w)
         \/ \E a \in Admins : AdminCommit(a)
         \/ \E i \in Instances :
              \/ DeleteInstance(i)
              \/ \E enabled \in BOOLEAN : CreateInstance(i, enabled)
<1>1. ASSUME NEW w \in Workers, SyncStep(w)
      PROVE  PersistCommit(w) \/ HandlerCommit(w)
  BY <1>1 DEF SyncStep, Login, EnterPersist, NetworkFail, PersistFail,
     PersistStale, Finish, FinishFail, HandlerLoad, db
<1>2. ASSUME NEW i \in Instances, NEW w, Start(w, i) PROVE FALSE
  BY <1>2 DEF Start
<1>3. ASSUME NEW a \in Admins, AdminStep(a) PROVE AdminCommit(a)
  BY <1>3 DEF AdminStep, AdminLoad, AdminBusy, db
<1>4. ASSUME NEW i \in Instances, PassTurn(i) \/ Environment(i) PROVE FALSE
  BY <1>2, <1>4 DEF PassTurn, Environment, UpstreamChanges,
     SyncIntervalElapses, ProbeIntervalElapses, db
<1>5. CASE PassStart \/ Crash \/ Restart \/ UNCHANGED vars
  BY <1>5 DEF PassStart, Crash, Restart, vars, db
<1> QED BY <1>1, <1>2, <1>3, <1>4, <1>5 DEF Next, ManualSync

LEMMA StreakStep ==
  ASSUME IInv, [Next]_vars, NEW i \in Instances,
         ~inst[i].auto, inst'[i].auto
  PROVE  \A k \in 1..FailLimit : recent'[i][k] = "failed"
<1>1. ASSUME NEW w \in Workers, PersistCommit(w) PROVE FALSE
  BY <1>1 DEF PersistCommit, Recovered, Flags
<1>2. ASSUME NEW w \in Workers, HandlerCommit(w)
      PROVE  \A k \in 1..FailLimit : recent'[i][k] = "failed"
  <2>1. /\ worker[w].inst \in Instances
        /\ RowLeft(w, worker[w].inst)
        /\ Disables(w)
    BY <1>2 DEF IInv, WorkerShape, HandlerCommit
  <2>2. inst' = [inst EXCEPT ![worker[w].inst] = Flags(@, FALSE, TRUE)]
    BY <1>2, <2>1 DEF HandlerCommit
  <2>3. worker[w].inst = i
    BY <2>1, <2>2 DEF IInv, TypeOK
  <2>4. recent' = [recent EXCEPT ![i] = SetHead("failed", @)]
    BY <1>2, <2>1, <2>3 DEF HandlerCommit, Disables
  <2>5. recent'[i] = SetHead("failed", recent[i])
    BY <2>4 DEF IInv, TypeOK
  <2>6. \A k \in 2..FailLimit : recent[i][k] = "failed"
    BY <2>1, <2>3 DEF Disables
  <2> QED BY <2>5, <2>6, SyncAssumption DEF IInv, TypeOK, SetHead
<1>3. ASSUME NEW a \in Admins, AdminCommit(a) PROVE FALSE
  <2>1. \/ inst' = inst
        \/ inst' = [inst EXCEPT ![admin[a].inst] = Updated(a, @)]
    BY <1>3 DEF AdminCommit
  <2>2. admin[a].inst \in Instances
    BY <1>3 DEF IInv, AdminShape, AdminCommit
  <2>3. Updated(a, inst[admin[a].inst]).auto => inst[admin[a].inst].auto
    BY <2>2 DEF Updated, Flags
  <2> QED BY <2>1, <2>2, <2>3 DEF IInv, TypeOK
<1>4. ASSUME NEW j \in Instances, DeleteInstance(j) PROVE FALSE
  BY <1>4 DEF DeleteInstance, NoRow
<1>5. ASSUME NEW j \in Instances, NEW enabled \in BOOLEAN,
             CreateInstance(j, enabled)
      PROVE  FALSE
  BY <1>5 DEF CreateInstance
<1> QED BY <1>1, <1>2, <1>3, <1>4, <1>5, FlagWriters

(* _disable_after_consecutive_scheduled_failures fires only on FailLimit    *)
(* scheduled failures in a row, whatever ran in between.                    *)
THEOREM StreakDisablesHolds == Spec => StreakDisables
<1>1. IInv /\ [Next]_vars => [DisablesOnStreak]_vars
  BY StreakStep DEF DisablesOnStreak
<1> QED BY <1>1, InvariantHolds, PTL DEF Spec, StreakDisables

LEMMA OffStep ==
  ASSUME IInv, [Next]_vars, NEW i \in Instances \ raced',
         ManuallyOff(inst[i]), inst'[i] # inst[i], inst'[i].row
  PROVE  OperatorStep(i)
<1>1. ASSUME NEW w \in Workers, PersistCommit(w) PROVE FALSE
  <2>1. /\ worker[w].inst \in Instances
        /\ i \notin raced
        /\ inst' = [inst EXCEPT ![worker[w].inst] = Recovered(w, @)]
    BY <1>1 DEF PersistCommit
  <2>2. worker[w].inst = i /\ worker[w].auto
    BY <2>1 DEF IInv, TypeOK, Recovered
  <2>3. Loaded(w, i)
    BY <1>1, <2>2 DEF IInv, WorkerShape, PersistCommit, Loaded, RowLeft
  <2> QED BY <2>1, <2>2, <2>3 DEF IInv, LoadedAgrees, ManuallyOff
<1>2. ASSUME NEW w \in Workers, HandlerCommit(w) PROVE FALSE
  <2>1. /\ worker[w].inst \in Instances
        /\ i \notin raced
    BY <1>2 DEF IInv, WorkerShape, HandlerCommit
  <2>2. /\ RowLeft(w, worker[w].inst)
        /\ Disables(w)
        /\ inst' = [inst EXCEPT ![worker[w].inst] = Flags(@, FALSE, TRUE)]
    BY <1>2 DEF HandlerCommit
  <2>3. worker[w].inst = i
    BY <2>1, <2>2 DEF IInv, TypeOK
  <2>4. Loaded(w, i) /\ worker[w].enabled
    BY <1>2, <2>2, <2>3 DEF IInv, WorkerShape, HandlerCommit, Disables, Loaded, RowLeft
  <2> QED BY <2>1, <2>4 DEF IInv, LoadedAgrees, ManuallyOff
<1>3. ASSUME NEW a \in Admins, AdminCommit(a) PROVE OperatorStep(i)
  <2>1. \/ inst' = inst
        \/ inst' = [inst EXCEPT ![admin[a].inst] = Updated(a, @)]
    BY <1>3 DEF AdminCommit
  <2>2. admin[a].inst = i /\ admin[a].pc = "loaded"
    BY <1>3, <2>1 DEF IInv, TypeOK, AdminCommit
  <2>3. admin'[a].pc = "idle"
    BY <1>3 DEF IInv, TypeOK, AdminCommit, IdleAdmin
  <2> QED BY <2>2, <2>3 DEF OperatorStep
<1>4. ASSUME NEW j \in Instances, DeleteInstance(j) PROVE FALSE
  BY <1>4 DEF DeleteInstance, NoRow
<1>5. ASSUME NEW j \in Instances, NEW enabled \in BOOLEAN,
             CreateInstance(j, enabled)
      PROVE  FALSE
  BY <1>5 DEF CreateInstance, ManuallyOff
<1> QED BY <1>1, <1>2, <1>3, <1>4, <1>5, FlagWriters

(* What the operator switched off stays off until the operator switches it  *)
(* on, unless an edit overlapped a sync or another edit of the instance.    *)
THEOREM OffStaysHolds == Spec => OffStays
<1>1. IInv /\ [Next]_vars => [OffUntilOperator]_vars
  BY OffStep DEF OffUntilOperator
<1> QED BY <1>1, InvariantHolds, PTL DEF Spec, OffStays
=============================================================================
