----------------------- MODULE AnnouncementFeedProofs -----------------------
(***************************************************************************)
(* Safety of AnnouncementFeed, and that it implements the safety part of   *)
(* NewsFeed, for any announcements, threads, PushLimit and number of       *)
(* process starts.                                                         *)
(***************************************************************************)
EXTENDS AnnouncementFeed, TLAPS

(* Only the holder of the lock compares, stores and sends.                  *)
HolderWrites ==
  \A w \in Workers :
    /\ worker[w].pc \in {"compared", "notifying"} => lock = w
    /\ worker[w].pc # "compared" => worker[w].fresh = {}
    /\ worker[w].pc # "notifying" => worker[w].pending = {} /\ worker[w].sent = {}

(* What it is about to store is new, and not taken for history once there   *)
(* is any.                                                                  *)
FreshIsNew ==
  \A w \in Workers :
    /\ \A k \in worker[w].fresh : k = Key(k[1]) /\ k \notin Stored
    /\ worker[w].pc = "compared" /\ ~worker[w].quiet => begun

(* What it is about to send has been stored, but not sent; what it has sent *)
(* has been sent once.                                                      *)
PendingUnsent ==
  \A w \in Workers : \A k \in worker[w].pending :
    /\ k = Key(k[1])
    /\ k \in Stored \ old
    /\ pushed[k[1]] = 0
    /\ k[1] \notin quietly
SentPushed ==
  \A w \in Workers : \A k \in worker[w].sent :
    /\ k = Key(k[1])
    /\ k \in Stored \ old
    /\ pushed[k[1]] > 0

DownIsIdle ==
  ~up => boot < MaxBoot /\ \A w \in Workers : worker[w].pc = "idle"

(* The table: rows of this process and of earlier ones.                     *)
TableSound ==
  /\ old \subseteq Stored
  /\ \A k \in Stored : k[2] <= boot
  /\ Stored # {} => begun

(* What the table does not know has no history.                             *)
UnknownIsNew ==
  \A i \in Items : ~Known(i) => pushed[i] = 0 /\ i \notin quietly

IInv ==
  /\ TypeOK
  /\ HolderWrites
  /\ FreshIsNew
  /\ PendingUnsent
  /\ SentPushed
  /\ DownIsIdle
  /\ TableSound
  /\ UnknownIsNew
  /\ PushedOnce
  /\ HistoryNotPushed
  /\ NotifiedMeansTold

-----------------------------------------------------------------------------
LEMMA IdleType == IdleWorker \in WorkerState
BY DEF IdleWorker, WorkerState

LEMMA KeyType ==
  ASSUME boot \in 1..MaxBoot, NEW i \in Items
  PROVE  /\ Key(i) \in Keys
         /\ Key(i)[1] = i
BY FeedAssumption DEF Key, Keys

LEMMA InitInv == Init => IInv
<1> SUFFICES ASSUME Init PROVE IInv
  OBVIOUS
<1>1. TypeOK
  <2>1. worker \in [Workers -> WorkerState]
    BY IdleType DEF Init
  <2>2. boot \in 1..MaxBoot
    BY FeedAssumption DEF Init
  <2>3. table \in [Keys -> Marks] /\ pushed \in [Items -> 0..2]
    BY DEF Init, Marks
  <2> QED BY <2>1, <2>2, <2>3 DEF Init, TypeOK
<1>2. Stored = {}
  BY DEF Init, Stored
<1>3. /\ HolderWrites
      /\ FreshIsNew
      /\ PendingUnsent
      /\ SentPushed
      /\ DownIsIdle
  BY DEF Init, HolderWrites, FreshIsNew, PendingUnsent, SentPushed, DownIsIdle,
     IdleWorker
<1>4. TableSound /\ UnknownIsNew /\ PushedOnce /\ HistoryNotPushed
  BY <1>2 DEF Init, TableSound, UnknownIsNew, PushedOnce, HistoryNotPushed
<1>5. NotifiedMeansTold
  <2>1. \A i \in Items : Key(i) \in Keys
    BY KeyType, FeedAssumption DEF Init
  <2> QED BY <2>1 DEF Init, NotifiedMeansTold
<1> QED BY <1>1, <1>3, <1>4, <1>5 DEF IInv

(* A step that leaves the table and its history alone keeps what is said of *)
(* them.                                                                    *)
LEMMA TableKept ==
  ASSUME IInv, UNCHANGED <<boot, table, old, history>>
  PROVE  /\ Stored' = Stored
         /\ \A i : Key(i)' = Key(i)
         /\ TableSound'
         /\ UnknownIsNew'
         /\ PushedOnce'
         /\ HistoryNotPushed'
         /\ NotifiedMeansTold'
<1>1. Stored' = Stored /\ \A i : Key(i)' = Key(i)
  BY DEF Stored, Key
<1> QED BY <1>1 DEF IInv, history, TableSound, UnknownIsNew, Known, PushedOnce,
           HistoryNotPushed, NotifiedMeansTold

(* So does a thread that gives up or begins anew.                           *)
LEMMA WorkerResets ==
  ASSUME IInv, NEW w \in Workers,
         \A v \in Workers \ {w} : worker'[v] = worker[v],
         worker'[w].pc \in {"idle", "fetched"},
         worker'[w].fresh = {}, worker'[w].pending = {}, worker'[w].sent = {},
         UNCHANGED <<up, boot, table, old, history>>,
         lock' = lock \/ (lock' = NoOne /\ lock = w),
         up \/ worker'[w].pc = "idle"
  PROVE  /\ HolderWrites'
         /\ FreshIsNew'
         /\ PendingUnsent'
         /\ SentPushed'
         /\ DownIsIdle'
<1>1. Stored' = Stored /\ \A i : Key(i)' = Key(i)
  BY TableKept
<1> QED BY <1>1 DEF IInv, history, HolderWrites, FreshIsNew, PendingUnsent,
           SentPushed, DownIsIdle

LEMMA FetchStep ==
  ASSUME IInv, NEW w \in Workers, Fetch(w)
  PROVE  IInv'
<1> DEFINE got == IF answers THEN listed ELSE {}
           new == [IdleWorker EXCEPT !.pc = "fetched", !.got = got]
<1>1. got \in SUBSET Items
  BY DEF IInv, TypeOK
<1> HIDE DEF got
<1>2. /\ new \in WorkerState
      /\ new.pc = "fetched"
      /\ new.fresh = {} /\ new.pending = {} /\ new.sent = {}
  BY <1>1, IdleType DEF WorkerState, IdleWorker
<1> HIDE DEF new
<1>3. /\ worker' = [worker EXCEPT ![w] = new]
      /\ up
      /\ UNCHANGED <<upstream, process, table, old, lock, history>>
  BY DEF Fetch, got, new
<1>4. TypeOK'
  BY <1>2, <1>3 DEF IInv, TypeOK, upstream, process, history
<1>5. worker'[w] = new /\ \A v \in Workers \ {w} : worker'[v] = worker[v]
  BY <1>3 DEF IInv, TypeOK
<1> QED BY <1>2, <1>3, <1>4, <1>5, TableKept, WorkerResets DEF IInv, process

LEMMA CompareStep ==
  ASSUME IInv, NEW w \in Workers, Compare(w)
  PROVE  IInv'
<1> DEFINE fresh == {Key(i) : i \in worker[w].got} \ Stored
           new == [IdleWorker EXCEPT !.pc = "compared", !.fresh = fresh,
                                     !.quiet = Baseline]
<1>1. /\ fresh \in SUBSET Keys
      /\ \A k \in fresh : k = Key(k[1]) /\ k \notin Stored
  BY KeyType DEF IInv, TypeOK, WorkerState
<1>2. Baseline \in BOOLEAN /\ (~Baseline => begun)
  BY DEF Baseline, IInv, TableSound
<1> HIDE DEF fresh
<1>3. /\ new \in WorkerState
      /\ new.pc = "compared"
      /\ new.fresh = fresh
      /\ new.pending = {} /\ new.sent = {}
      /\ ~new.quiet => begun
  BY <1>1, <1>2, IdleType DEF WorkerState, IdleWorker
<1> HIDE DEF new
<1>4. /\ worker' = [worker EXCEPT ![w] = new]
      /\ worker[w].pc = "fetched"
      /\ lock = NoOne
      /\ lock' = w
      /\ UNCHANGED <<upstream, process, table, old, history>>
  BY DEF Compare, fresh, new
<1>5. worker'[w] = new /\ \A v \in Workers \ {w} : worker'[v] = worker[v]
  BY <1>4 DEF IInv, TypeOK
<1>6. TypeOK'
  BY <1>3, <1>4 DEF IInv, TypeOK, upstream, process, history
<1>7. HolderWrites'
  BY <1>3, <1>4, <1>5, FeedAssumption DEF IInv, HolderWrites
<1>8. FreshIsNew' /\ PendingUnsent' /\ SentPushed' /\ DownIsIdle'
  BY <1>1, <1>3, <1>4, <1>5, TableKept DEF IInv, FreshIsNew, PendingUnsent,
     SentPushed, DownIsIdle, process, history
<1> QED BY <1>4, <1>6, <1>7, <1>8, TableKept DEF IInv, process

(* The new rows enter the table; those of the baseline are never pending.   *)
LEMMA CommitStep ==
  ASSUME IInv, NEW w \in Workers, NEW enabled \in BOOLEAN, Commit(w, enabled)
  PROVE  IInv'
<1> DEFINE fresh == worker[w].fresh
           quiet == worker[w].quiet
<1>1. PICK pending \in Pending(w, enabled) :
        worker' = [worker EXCEPT ![w] = [IdleWorker EXCEPT !.pc = "notifying",
                                                           !.pending = pending]]
  BY DEF Commit
<1> DEFINE new == [IdleWorker EXCEPT !.pc = "notifying", !.pending = pending]
<1>2. /\ pending \in SUBSET fresh
      /\ quiet => pending = {}
      /\ fresh \in SUBSET Keys
  BY DEF Pending, IInv, TypeOK, WorkerState
<1>3. /\ new \in WorkerState
      /\ new.pc = "notifying"
      /\ new.pending = pending
      /\ new.fresh = {} /\ new.sent = {}
  BY <1>2, IdleType DEF WorkerState, IdleWorker
<1>4. worker'[w] = new /\ \A v \in Workers \ {w} : worker'[v] = worker[v]
  BY <1>1 DEF IInv, TypeOK
<1> HIDE DEF new
<1>5. /\ worker[w].pc = "compared"
      /\ lock = w
      /\ \A k \in fresh : k = Key(k[1]) /\ k \notin Stored /\ k[1] \in Items
      /\ quiet \in BOOLEAN
      /\ \A v \in Workers \ {w} :
           worker[v].fresh = {} /\ worker[v].pending = {} /\ worker[v].sent = {}
  BY <1>2 DEF Commit, IInv, HolderWrites, FreshIsNew, TypeOK, WorkerState, Keys
<1>6. /\ table' = [k \in Keys |-> IF k \in fresh
                                  THEN IF quiet THEN "notified" ELSE "unsent"
                                  ELSE table[k]]
      /\ begun' = (begun \/ fresh # {})
      /\ quietly' = IF quiet THEN quietly \cup {k[1] : k \in fresh} ELSE quietly
      /\ UNCHANGED <<listed, answers, up, boot, old, lock, pushed>>
  BY DEF Commit, upstream, process
<1>7. Stored' = Stored \cup fresh /\ \A i : Key(i)' = Key(i)
  BY <1>2, <1>6 DEF Stored, Key
<1>8. TypeOK'
  <2>1. worker' \in [Workers -> WorkerState]
    BY <1>1, <1>3 DEF new, IInv, TypeOK
  <2>2. table' \in [Keys -> Marks]
    BY <1>6 DEF IInv, TypeOK, Marks
  <2>3. quietly' \subseteq Items /\ begun' \in BOOLEAN
    BY <1>5, <1>6 DEF IInv, TypeOK
  <2> QED BY <1>6, <2>1, <2>2, <2>3 DEF IInv, TypeOK
<1>9. HolderWrites'
  BY <1>3, <1>4, <1>5, <1>6 DEF IInv, HolderWrites
<1>10. FreshIsNew'
  BY <1>3, <1>4, <1>5, <1>6 DEF IInv, FreshIsNew
<1>11. PendingUnsent'
  <2> SUFFICES ASSUME NEW k \in pending
               PROVE  /\ k = Key(k[1]) /\ k \in Stored' \ old
                      /\ pushed[k[1]] = 0 /\ k[1] \notin quietly'
    BY <1>3, <1>4, <1>5, <1>6, <1>7 DEF PendingUnsent
  <2>1. k \in fresh /\ ~quiet
    BY <1>2
  <2>2. ~Known(k[1]) /\ k[1] \in Items
    BY <1>5, <2>1 DEF Known
  <2> QED BY <1>5, <1>6, <1>7, <2>1, <2>2 DEF IInv, UnknownIsNew, TableSound
<1>12. SentPushed' /\ DownIsIdle'
  BY <1>3, <1>4, <1>5, <1>6 DEF IInv, SentPushed, DownIsIdle
<1>13. TableSound'
  <2>1. \A k \in fresh : k[2] <= boot
    BY <1>5 DEF Key, IInv, TypeOK
  <2> QED BY <1>6, <1>7, <2>1 DEF IInv, TableSound
<1>14. UnknownIsNew'
  <2> SUFFICES ASSUME NEW i \in Items, Key(i) \notin Stored'
               PROVE  pushed[i] = 0 /\ i \notin quietly'
    BY <1>6, <1>7 DEF UnknownIsNew, Known
  <2>1. Key(i) \notin Stored /\ Key(i) \notin fresh
    BY <1>7
  <2> QED BY <1>5, <1>6, <2>1 DEF IInv, UnknownIsNew, Known
<1>15. PushedOnce' /\ HistoryNotPushed'
  <2>1. \A k \in fresh : pushed[k[1]] = 0
    BY <1>5 DEF IInv, UnknownIsNew, Known
  <2> QED BY <1>6, <2>1 DEF IInv, PushedOnce, HistoryNotPushed
<1>16. NotifiedMeansTold'
  <2> SUFFICES ASSUME NEW i \in Items, table'[Key(i)] = "notified"
               PROVE  pushed[i] > 0 \/ i \in quietly'
    BY <1>6, <1>7 DEF NotifiedMeansTold
  <2>1. Key(i) \in Keys /\ Key(i)[1] = i
    BY KeyType DEF IInv, TypeOK
  <2> QED BY <1>6, <2>1 DEF IInv, NotifiedMeansTold
<1> QED BY <1>8, <1>9, <1>10, <1>11, <1>12, <1>13, <1>14, <1>15, <1>16 DEF IInv

LEMMA PersistFailStep ==
  ASSUME IInv, NEW w \in Workers, PersistFail(w)
  PROVE  IInv'
<1>1. /\ worker' = [worker EXCEPT ![w] = IdleWorker]
      /\ lock = w /\ lock' = NoOne
      /\ UNCHANGED <<upstream, process, table, old, history>>
  BY DEF PersistFail, IInv, HolderWrites
<1>2. worker'[w] = IdleWorker /\ \A v \in Workers \ {w} : worker'[v] = worker[v]
  BY <1>1 DEF IInv, TypeOK
<1>3. TypeOK'
  BY <1>1, IdleType DEF IInv, TypeOK, upstream, process, history
<1> QED BY <1>1, <1>2, <1>3, TableKept, WorkerResets DEF IInv, process, IdleWorker

LEMMA PushStep ==
  ASSUME IInv, NEW w \in Workers, NEW k \in Keys, NEW accepted \in BOOLEAN,
         Push(w, k, accepted)
  PROVE  IInv'
<1> DEFINE i == k[1]
           pending == worker[w].pending \ {k}
           sent == IF accepted THEN worker[w].sent \cup {k} ELSE worker[w].sent
           new == [worker[w] EXCEPT !.pending = pending, !.sent = sent]
<1>1. /\ worker[w].pc = "notifying"
      /\ k \in worker[w].pending
      /\ lock = w
      /\ i \in Items
      /\ k = Key(i) /\ k \in Stored \ old
      /\ pushed[i] = 0 /\ i \notin quietly
      /\ \A v \in Workers \ {w} :
           worker[v].fresh = {} /\ worker[v].pending = {} /\ worker[v].sent = {}
  BY DEF Push, IInv, HolderWrites, PendingUnsent, Keys
<1>2. pending \in SUBSET Keys /\ sent \in SUBSET Keys
  BY DEF IInv, TypeOK, WorkerState
<1> HIDE DEF pending, sent
<1>3. /\ new \in WorkerState
      /\ new.pc = "notifying"
      /\ new.pending = pending
      /\ new.sent = sent
      /\ new.fresh = worker[w].fresh
      /\ new.quiet = worker[w].quiet
  <2>1. worker[w] \in WorkerState
    BY DEF IInv, TypeOK
  <2> QED BY <1>1, <1>2, <2>1 DEF WorkerState
<1>4. /\ worker' = [worker EXCEPT ![w] = new]
      /\ UNCHANGED <<upstream, process, table, old, lock, begun, quietly>>
  BY DEF Push, pending, sent
<1> HIDE DEF new
<1>5. worker'[w] = new /\ \A v \in Workers \ {w} : worker'[v] = worker[v]
  BY <1>4 DEF IInv, TypeOK
<1>6. /\ pushed' \in [Items -> 0..2]
      /\ accepted => pushed'[i] = 1
      /\ ~accepted => pushed' = pushed
      /\ \A j \in Items \ {i} : pushed'[j] = pushed[j]
  BY <1>1 DEF Push, IInv, TypeOK
<1>7. Stored' = Stored /\ \A j : Key(j)' = Key(j)
  BY <1>4 DEF Stored, Key, process
<1>8. TypeOK'
  BY <1>3, <1>4, <1>6 DEF IInv, TypeOK, upstream, process
<1>9. HolderWrites' /\ FreshIsNew' /\ DownIsIdle'
  BY <1>1, <1>3, <1>4, <1>5, <1>7 DEF IInv, HolderWrites, FreshIsNew, DownIsIdle,
     process
<1>10. PendingUnsent'
  <2> SUFFICES ASSUME NEW l \in pending
               PROVE  /\ l = Key(l[1]) /\ l \in Stored \ old
                      /\ pushed'[l[1]] = 0 /\ l[1] \notin quietly
    BY <1>1, <1>3, <1>4, <1>5, <1>7 DEF PendingUnsent
  <2>1. l \in worker[w].pending /\ l # k /\ l[1] \in Items
    BY DEF pending, IInv, TypeOK, WorkerState, Keys
  <2>2. l = Key(l[1]) /\ l \in Stored \ old /\ pushed[l[1]] = 0 /\ l[1] \notin quietly
    BY <2>1 DEF IInv, PendingUnsent
  <2>3. l[1] # i
    BY <1>1, <2>1, <2>2
  <2> QED BY <1>6, <2>1, <2>2, <2>3
<1>11. SentPushed'
  <2> SUFFICES ASSUME NEW l \in sent
               PROVE  l = Key(l[1]) /\ l \in Stored \ old /\ pushed'[l[1]] > 0
    BY <1>1, <1>3, <1>4, <1>5, <1>7 DEF SentPushed
  <2>1. CASE l = k /\ accepted
    BY <1>1, <1>6, <2>1
  <2>2. CASE l \in worker[w].sent
    <3>1. l = Key(l[1]) /\ l \in Stored \ old /\ pushed[l[1]] > 0 /\ l[1] \in Items
      BY <2>2 DEF IInv, SentPushed, TypeOK, WorkerState, Keys
    <3>2. l[1] # i
      BY <1>1, <3>1
    <3> QED BY <1>6, <3>1, <3>2
  <2> QED BY <2>1, <2>2 DEF sent
<1>12. TableSound' /\ NotifiedMeansTold'
  BY <1>1, <1>4, <1>6, <1>7 DEF IInv, TableSound, NotifiedMeansTold, process
<1>13. UnknownIsNew'
  BY <1>1, <1>4, <1>6, <1>7 DEF IInv, UnknownIsNew, Known
<1>14. PushedOnce'
  <2> SUFFICES ASSUME NEW j \in Items PROVE pushed'[j] <= 1
    BY DEF PushedOnce
  <2> QED BY <1>1, <1>6 DEF IInv, PushedOnce
<1>15. HistoryNotPushed'
  BY <1>1, <1>4, <1>6 DEF IInv, TypeOK, HistoryNotPushed
<1> QED BY <1>8, <1>9, <1>10, <1>11, <1>12, <1>13, <1>14, <1>15 DEF IInv

LEMMA FinishStep ==
  ASSUME IInv, NEW w \in Workers, NEW committed \in BOOLEAN, Finish(w, committed)
  PROVE  IInv'
<1> DEFINE marked == IF committed THEN worker[w].sent ELSE {}
<1>1. /\ worker' = [worker EXCEPT ![w] = IdleWorker]
      /\ lock = w /\ lock' = NoOne
      /\ table' = [k \in Keys |-> IF k \in marked THEN "notified" ELSE table[k]]
      /\ UNCHANGED <<upstream, process, old, history>>
  BY DEF Finish, IInv, HolderWrites
<1>2. /\ worker'[w] = IdleWorker
      /\ \A v \in Workers \ {w} :
           /\ worker'[v] = worker[v]
           /\ worker[v].fresh = {} /\ worker[v].pending = {} /\ worker[v].sent = {}
           /\ worker[v].pc \notin {"compared", "notifying"}
  BY <1>1 DEF IInv, TypeOK, HolderWrites
<1>3. \A k \in marked :
        k \in Keys /\ k = Key(k[1]) /\ k \in Stored \ old /\ pushed[k[1]] > 0
  BY DEF IInv, SentPushed, TypeOK, WorkerState
<1> HIDE DEF marked
<1>4. Stored' = Stored /\ \A j : Key(j)' = Key(j)
  BY <1>1, <1>3 DEF Stored, Key, process
<1>5. TypeOK'
  BY <1>1, IdleType DEF IInv, TypeOK, Marks, upstream, process, history
<1>6. HolderWrites' /\ FreshIsNew' /\ PendingUnsent' /\ SentPushed' /\ DownIsIdle'
  BY <1>1, <1>2, <1>4 DEF IInv, HolderWrites, FreshIsNew, PendingUnsent,
     SentPushed, DownIsIdle, IdleWorker, process
<1>7. TableSound' /\ UnknownIsNew' /\ PushedOnce' /\ HistoryNotPushed'
  BY <1>1, <1>4 DEF IInv, TableSound, UnknownIsNew, Known, PushedOnce,
     HistoryNotPushed, process, history
<1>8. NotifiedMeansTold'
  <2> SUFFICES ASSUME NEW i \in Items, table'[Key(i)] = "notified"
               PROVE  pushed[i] > 0 \/ i \in quietly
    BY <1>1, <1>4 DEF NotifiedMeansTold, history
  <2>1. Key(i) \in Keys /\ Key(i)[1] = i
    BY KeyType DEF IInv, TypeOK
  <2> QED BY <1>1, <1>3, <2>1 DEF IInv, NotifiedMeansTold
<1> QED BY <1>5, <1>6, <1>7, <1>8 DEF IInv

LEMMA CrashStep ==
  ASSUME IInv, Crash
  PROVE  IInv'
<1>1. /\ worker' = [w \in Workers |-> IdleWorker]
      /\ lock' = NoOne
      /\ up' = FALSE
      /\ boot < MaxBoot
      /\ UNCHANGED <<upstream, boot, table, old, history>>
  BY DEF Crash
<1>2. TypeOK'
  BY <1>1, IdleType DEF IInv, TypeOK, upstream, history
<1>3. HolderWrites' /\ FreshIsNew' /\ PendingUnsent' /\ SentPushed' /\ DownIsIdle'
  BY <1>1 DEF HolderWrites, FreshIsNew, PendingUnsent, SentPushed, DownIsIdle,
     IdleWorker
<1> QED BY <1>1, <1>2, <1>3, TableKept DEF IInv

(* The new process knows the items without an id no longer.                 *)
LEMMA RestartStep ==
  ASSUME IInv, Restart
  PROVE  IInv'
<1> DEFINE gone == {i \in Items \ WithId : Known(i)}
<1>1. /\ ~up
      /\ boot' = boot + 1
      /\ pushed' = [i \in Items |-> IF i \in gone THEN 0 ELSE pushed[i]]
      /\ quietly' = quietly \ gone
      /\ UNCHANGED <<upstream, table, old, worker, lock, begun>>
      /\ up'
  BY DEF Restart, Forgets
<1>2. /\ boot < MaxBoot /\ boot \in 1..MaxBoot
      /\ \A w \in Workers : worker[w].pc = "idle"
  BY <1>1 DEF IInv, DownIsIdle, TypeOK
<1>3. TypeOK'
  BY <1>1, <1>2, FeedAssumption DEF Restart, IInv, TypeOK, upstream
<1>4. HolderWrites' /\ DownIsIdle'
  BY <1>1, <1>2 DEF IInv, HolderWrites, DownIsIdle
<1>5. FreshIsNew' /\ PendingUnsent' /\ SentPushed'
  BY <1>1, <1>2 DEF IInv, HolderWrites, FreshIsNew, PendingUnsent, SentPushed
<1>6. /\ Stored' = Stored
      /\ \A i \in WithId : Key(i)' = Key(i)
      /\ \A i \in Items \ WithId : Key(i)' = <<i, boot + 1>>
  BY <1>1 DEF Stored, Key
<1>7. TableSound'
  BY <1>1, <1>2, <1>6 DEF IInv, TableSound, TypeOK, Stored, Keys
<1>8. \A i \in Items \ WithId :
        Key(i)' \notin Stored /\ pushed'[i] = 0 /\ i \notin quietly'
  <2> SUFFICES ASSUME NEW i \in Items \ WithId
               PROVE  Key(i)' \notin Stored /\ pushed'[i] = 0 /\ i \notin quietly'
    OBVIOUS
  <2>1. Key(i)' \notin Stored
    BY <1>2, <1>6 DEF IInv, TableSound
  <2>2. i \notin gone => pushed[i] = 0 /\ i \notin quietly
    BY DEF IInv, UnknownIsNew
  <2> QED BY <1>1, <2>1, <2>2
<1>9. \A i \in WithId : pushed'[i] = pushed[i] /\ (i \in quietly' <=> i \in quietly)
  BY <1>1, FeedAssumption
<1>10. UnknownIsNew'
  BY <1>6, <1>8, <1>9 DEF IInv, UnknownIsNew, Known
<1>11. PushedOnce' /\ HistoryNotPushed'
  BY <1>8, <1>9, <1>3 DEF IInv, PushedOnce, HistoryNotPushed, TypeOK
<1>12. NotifiedMeansTold'
  <2> SUFFICES ASSUME NEW i \in Items, table[Key(i)'] = "notified"
               PROVE  pushed'[i] > 0 \/ i \in quietly'
    BY <1>1 DEF NotifiedMeansTold
  <2>1. Key(i)' \in Keys
    BY <1>3, KeyType, FeedAssumption DEF TypeOK, Key, Keys
  <2>2. Key(i)' \in Stored
    BY <2>1 DEF Stored
  <2>3. i \in WithId
    BY <1>8, <2>2
  <2> QED BY <1>6, <1>9, <2>3, FeedAssumption DEF IInv, NotifiedMeansTold
<1> QED BY <1>3, <1>4, <1>5, <1>7, <1>10, <1>11, <1>12 DEF IInv

LEMMA ElapseStep ==
  ASSUME IInv, RetentionElapses
  PROVE  IInv'
<1>1. /\ \A w \in Workers : worker[w].pc = "idle"
      /\ old' = Stored
      /\ UNCHANGED <<upstream, process, table, worker, lock, history>>
  BY DEF RetentionElapses
<1>2. Stored' = Stored /\ \A i : Key(i)' = Key(i)
  BY <1>1 DEF Stored, Key, process
<1>3. TypeOK'
  BY <1>1 DEF IInv, TypeOK, Stored, upstream, process, history
<1>4. HolderWrites' /\ FreshIsNew' /\ PendingUnsent' /\ SentPushed' /\ DownIsIdle'
  BY <1>1 DEF IInv, HolderWrites, FreshIsNew, PendingUnsent, SentPushed,
     DownIsIdle, process
<1> QED BY <1>1, <1>2, <1>3, <1>4 DEF IInv, TableSound, UnknownIsNew, Known,
           PushedOnce, HistoryNotPushed, NotifiedMeansTold, process, history

(* Old rows belong to no sync under way; their history goes with them.      *)
LEMMA RetentionStep ==
  ASSUME IInv, Retention
  PROVE  IInv'
<1>1. /\ table' = [k \in Keys |-> IF k \in old THEN "absent" ELSE table[k]]
      /\ old' = {}
      /\ pushed' = [i \in Items |-> IF Key(i) \in old THEN 0 ELSE pushed[i]]
      /\ quietly' = quietly \ {i \in Items : Key(i) \in old}
      /\ UNCHANGED <<upstream, process, worker, lock, begun>>
  BY DEF Retention, Forgets
<1>2. Stored' = Stored \ old /\ \A i : Key(i)' = Key(i)
  BY <1>1 DEF Stored, Key, process
<1>3. TypeOK'
  BY <1>1 DEF IInv, TypeOK, Marks, upstream, process
<1>4. HolderWrites' /\ FreshIsNew' /\ DownIsIdle'
  BY <1>1, <1>2 DEF IInv, HolderWrites, FreshIsNew, DownIsIdle, process
<1>5. \A k \in Keys : k[1] \in Items
  BY DEF Keys
<1>6. PendingUnsent' /\ SentPushed'
  <2>1. \A w \in Workers : worker[w].pending \subseteq Keys /\ worker[w].sent \subseteq Keys
    BY DEF IInv, TypeOK, WorkerState
  <2> QED BY <1>1, <1>2, <1>5, <2>1 DEF IInv, PendingUnsent, SentPushed
<1>7. TableSound'
  BY <1>1, <1>2 DEF IInv, TableSound, process
<1>8. UnknownIsNew' /\ PushedOnce' /\ HistoryNotPushed'
  BY <1>1, <1>2 DEF IInv, UnknownIsNew, Known, PushedOnce, HistoryNotPushed, TypeOK
<1>9. NotifiedMeansTold'
  <2> SUFFICES ASSUME NEW i \in Items, table'[Key(i)] = "notified"
               PROVE  pushed'[i] > 0 \/ i \in quietly'
    BY <1>2 DEF NotifiedMeansTold
  <2>1. Key(i) \in Keys
    BY KeyType DEF IInv, TypeOK
  <2> QED BY <1>1, <2>1 DEF IInv, NotifiedMeansTold
<1> QED BY <1>3, <1>4, <1>6, <1>7, <1>8, <1>9 DEF IInv

LEMMA UpstreamStep ==
  ASSUME IInv, (\E i \in Items : UpstreamChanges(i)) \/ EndpointChanges
  PROVE  IInv'
<1>1. /\ listed' \subseteq Items /\ answers' \in BOOLEAN
      /\ UNCHANGED <<process, table, old, worker, lock, history>>
  BY DEF UpstreamChanges, EndpointChanges, IInv, TypeOK
<1>2. TypeOK'
  BY <1>1 DEF IInv, TypeOK, process, history
<1>3. /\ Stored' = Stored /\ \A i : Key(i)' = Key(i)
      /\ TableSound' /\ UnknownIsNew' /\ PushedOnce' /\ HistoryNotPushed'
      /\ NotifiedMeansTold'
  BY <1>1, TableKept DEF process
<1> QED BY <1>1, <1>2, <1>3 DEF IInv, HolderWrites, FreshIsNew, PendingUnsent,
           SentPushed, DownIsIdle, process, history

LEMMA Stutter ==
  ASSUME IInv, UNCHANGED vars
  PROVE  IInv'
<1>1. /\ Stored' = Stored /\ \A i : Key(i)' = Key(i)
      /\ TableSound' /\ UnknownIsNew' /\ PushedOnce' /\ HistoryNotPushed'
      /\ NotifiedMeansTold'
  BY TableKept DEF vars, process
<1> QED BY <1>1 DEF vars, IInv, TypeOK, HolderWrites, FreshIsNew, PendingUnsent,
           SentPushed, DownIsIdle, upstream, process, history

LEMMA NextInv == IInv /\ [Next]_vars => IInv'
BY FetchStep, CompareStep, CommitStep, PersistFailStep, PushStep, FinishStep,
   CrashStep, RestartStep, ElapseStep, RetentionStep, UpstreamStep, Stutter
   DEF Next

LEMMA InvariantHolds == Spec => []IInv
BY InitInv, NextInv, PTL DEF Spec

(* The announcements table, the threads and the histories keep their shape. *)
THEOREM TypeCorrect == Spec => []TypeOK
BY InvariantHolds, PTL DEF IInv

(* However syncs overlap, fail or are cut short, an announcement is sent at *)
(* most once while the announcements table remembers it.                    *)
THEOREM PushedOnceHolds == Spec => []PushedOnce
BY InvariantHolds, PTL DEF IInv

(* What _sync_announcements stored as the baseline is never sent.           *)
THEOREM HistoryNotPushedHolds == Spec => []HistoryNotPushed
BY InvariantHolds, PTL DEF IInv

(* The notified mark of an announcement is never set without a message or a *)
(* baseline behind it.                                                      *)
THEOREM NotifiedMeansToldHolds == Spec => []NotifiedMeansTold
BY InvariantHolds, PTL DEF IInv

-----------------------------------------------------------------------------
(* The refinement.  Each step of the feed is one of NewsFeed's, or none.    *)
known == {i \in Items : Known(i)}
heard == {i \in Items : pushed[i] > 0}
news == <<begun, known, Owed, heard>>

(* Only the holder of the lock owes anything.                               *)
LEMMA OwedByHolder ==
  ASSUME IInv, NEW w \in Workers, worker[w].pc \in {"compared", "notifying"}
  PROVE  Owed = {k[1] : k \in worker[w].pending}
<1>1. \A v \in Workers \ {w} : worker[v].pending = {}
  BY DEF IInv, HolderWrites
<1> QED BY <1>1 DEF Owed

LEMMA IdleOwesNothing ==
  ASSUME IInv, \A w \in Workers : worker[w].pc # "notifying"
  PROVE  Owed = {}
BY DEF IInv, HolderWrites, Owed

LEMMA OwedIsKnown ==
  ASSUME IInv
  PROVE  Owed \subseteq known /\ \A i \in Owed : Key(i) \notin old
<1> SUFFICES ASSUME NEW w \in Workers, NEW k \in worker[w].pending
             PROVE  k[1] \in known /\ Key(k[1]) \notin old
  BY DEF Owed
<1>1. k[1] \in Items
  BY DEF IInv, TypeOK, WorkerState, Keys
<1> QED BY <1>1 DEF IInv, PendingUnsent, known, Known

LEMMA FeedInit == Init => Promise!Init
<1> SUFFICES ASSUME Init PROVE Promise!Init
  OBVIOUS
<1>1. Stored = {}
  BY DEF Init, Stored
<1>2. Owed = {}
  BY DEF Init, Owed, IdleWorker
<1> QED BY <1>1, <1>2 DEF Init, Promise!Init, Known

LEMMA CommitLearns ==
  ASSUME IInv, IInv', NEW w \in Workers, NEW enabled \in BOOLEAN, Commit(w, enabled)
  PROVE  Promise!Next \/ UNCHANGED news
<1> DEFINE fresh == worker[w].fresh
           found == {k[1] : k \in fresh}
<1>1. PICK pending \in Pending(w, enabled) :
        worker' = [worker EXCEPT ![w] = [IdleWorker EXCEPT !.pc = "notifying",
                                                           !.pending = pending]]
  BY DEF Commit
<1>2. /\ worker'[w].pc = "notifying"
      /\ worker'[w].pending = pending
      /\ pending \in SUBSET fresh
      /\ pending # {} => begun
      /\ worker[w].pc = "compared"
      /\ worker[w].pending = {}
  BY <1>1 DEF Commit, IInv, TypeOK, IdleWorker, Pending, FreshIsNew, HolderWrites
<1>3. Owed = {} /\ Owed' = {k[1] : k \in pending}
  BY <1>2, OwedByHolder DEF IInv, HolderWrites, Owed
<1>4. /\ begun' = (begun \/ fresh # {})
      /\ fresh \in SUBSET Keys
      /\ UNCHANGED <<boot, pushed>>
      /\ table' = [k \in Keys |->
                     IF k \in fresh
                     THEN IF worker[w].quiet THEN "notified" ELSE "unsent"
                     ELSE table[k]]
  BY DEF Commit, process, IInv, TypeOK, WorkerState
<1>5. \A k \in fresh : k = Key(k[1]) /\ k \notin Stored /\ k[1] \in Items
  BY <1>4 DEF IInv, FreshIsNew, Keys
<1>6. Stored' = Stored \cup fresh /\ \A i : Key(i)' = Key(i)
  BY <1>4 DEF Stored, Key
<1>7. known' = known \cup found /\ found \in SUBSET (Items \ known)
  <2>1. \A i \in Items : Key(i) \in fresh <=> i \in found
    BY <1>5, KeyType DEF IInv, TypeOK
  <2> QED BY <1>5, <1>6, <2>1 DEF known, Known
<1>8. heard' = heard
  BY <1>4 DEF heard
<1>9. CASE begun'
  <2>1. {k[1] : k \in pending} \in SUBSET (IF begun THEN found ELSE {})
    BY <1>2
  <2> QED BY <1>3, <1>7, <1>8, <1>9, <2>1
          DEF Promise!Next, Promise!Learn, known, heard
<1>10. CASE ~begun'
  BY <1>2, <1>3, <1>4, <1>7, <1>8, <1>10 DEF news, IInv, TypeOK
<1> QED BY <1>9, <1>10

LEMMA PushTells ==
  ASSUME IInv, IInv', NEW w \in Workers, NEW k \in Keys, NEW accepted \in BOOLEAN,
         Push(w, k, accepted)
  PROVE  Promise!Next
<1> DEFINE i == k[1]
<1>1. /\ worker[w].pc = "notifying"
      /\ k \in worker[w].pending
      /\ i \in Items
      /\ pushed[i] = 0
      /\ UNCHANGED <<boot, table, begun>>
  BY DEF Push, process, IInv, PendingUnsent, Keys
<1>2. worker'[w].pc = "notifying" /\ worker'[w].pending = worker[w].pending \ {k}
  BY <1>1 DEF Push, IInv, TypeOK, WorkerState
<1>3. Owed = {l[1] : l \in worker[w].pending}
  BY <1>1, OwedByHolder
<1>4. Owed' = {l[1] : l \in worker'[w].pending}
  <2>1. \A v \in Workers \ {w} : worker'[v].pending = {}
    BY <1>2 DEF IInv, HolderWrites
  <2> QED BY <2>1 DEF Owed
<1>5. \A l \in worker[w].pending : l[1] = i => l = k
  BY <1>1 DEF IInv, PendingUnsent
<1>6. Owed' = Owed \ {i} /\ i \in Owed
  BY <1>1, <1>2, <1>3, <1>4, <1>5
<1>7. known' = known
  BY <1>1 DEF known, Known, Key, Stored
<1>8. CASE accepted
  <2>1. heard' = heard \cup {i}
    BY <1>1, <1>8 DEF Push, heard, IInv, TypeOK
  <2> QED BY <1>1, <1>6, <1>7, <2>1 DEF Promise!Next, Promise!Tell, known, heard
<1>9. CASE ~accepted
  <2>1. heard' = heard
    BY <1>9 DEF Push, heard
  <2>2. {i} \in SUBSET Owed
    BY <1>6
  <2> QED BY <1>1, <1>6, <1>7, <2>1, <2>2 DEF Promise!Next, Promise!Drop, known, heard
<1> QED BY <1>8, <1>9

LEMMA FinishStutters ==
  ASSUME IInv, IInv', NEW w \in Workers, NEW committed \in BOOLEAN,
         Finish(w, committed)
  PROVE  UNCHANGED news
<1>1. /\ worker[w].pc = "notifying"
      /\ worker[w].pending = {}
      /\ worker' = [worker EXCEPT ![w] = IdleWorker]
      /\ UNCHANGED <<boot, pushed, begun>>
  BY DEF Finish, process, history
<1>2. \A v \in Workers : worker[v].pending = {} /\ worker'[v].pending = {}
  BY <1>1 DEF IInv, TypeOK, HolderWrites, IdleWorker
<1>3. Owed' = Owed
  BY <1>2 DEF Owed
<1>4. \A k \in worker[w].sent : k \in Keys /\ k \in Stored
  BY DEF IInv, SentPushed, TypeOK, WorkerState
<1>5. Stored' = Stored
  BY <1>4 DEF Finish, Stored
<1> QED BY <1>1, <1>3, <1>5 DEF news, known, heard, Known, Key

LEMMA CrashDrops ==
  ASSUME IInv, IInv', Crash
  PROVE  Promise!Next
<1>1. Owed' = {}
  BY DEF Crash, Owed, IdleWorker
<1>2. known' = known /\ heard' = heard /\ begun' = begun
  BY DEF Crash, known, heard, Known, Key, Stored, history
<1>3. Promise!Drop(Owed)
  BY <1>1, <1>2 DEF Promise!Drop, known, heard
<1> QED BY <1>3 DEF Promise!Next

LEMMA RestartForgets ==
  ASSUME IInv, IInv', Restart
  PROVE  Promise!Next
<1> DEFINE gone == {i \in Items \ WithId : Known(i)}
<1>1. /\ ~up
      /\ boot' = boot + 1
      /\ pushed' = [i \in Items |-> IF i \in gone THEN 0 ELSE pushed[i]]
      /\ UNCHANGED <<table, worker, begun>>
  BY DEF Restart, Forgets
<1>2. Owed = {} /\ Owed' = {}
  BY <1>1, IdleOwesNothing DEF IInv, DownIsIdle, Owed
<1>3. /\ Stored' = Stored
      /\ \A i \in WithId : Key(i)' = Key(i)
      /\ \A i \in Items \ WithId : Key(i)' = <<i, boot + 1>>
  BY <1>1 DEF Stored, Key
<1>4. \A i \in Items \ WithId : Key(i)' \notin Stored
  BY <1>3 DEF IInv, TableSound, TypeOK
<1>5. known' = known \ gone
  BY <1>3, <1>4 DEF known, Known
<1>6. heard' = heard \ gone
  BY <1>1 DEF heard
<1>7. gone \in SUBSET (known \ Owed)
  BY <1>2 DEF known
<1> HIDE DEF gone
<1> QED BY <1>1, <1>2, <1>5, <1>6, <1>7
        DEF Promise!Next, Promise!Forget, known, heard

LEMMA RetentionForgets ==
  ASSUME IInv, IInv', Retention
  PROVE  Promise!Next
<1> DEFINE gone == {i \in Items : Key(i) \in old}
<1>1. /\ table' = [k \in Keys |-> IF k \in old THEN "absent" ELSE table[k]]
      /\ pushed' = [i \in Items |-> IF i \in gone THEN 0 ELSE pushed[i]]
      /\ UNCHANGED <<boot, worker, begun>>
  BY DEF Retention, Forgets, process
<1>2. Stored' = Stored \ old /\ \A i : Key(i)' = Key(i)
  BY <1>1 DEF Stored, Key
<1>3. Owed' = Owed
  BY <1>1 DEF Owed
<1>4. known' = known \ gone
  BY <1>2 DEF known, Known
<1>5. heard' = heard \ gone
  BY <1>1 DEF heard
<1>6. gone \in SUBSET (known \ Owed)
  BY OwedIsKnown DEF IInv, TableSound, known, Known
<1> HIDE DEF gone
<1> QED BY <1>1, <1>3, <1>4, <1>5, <1>6
        DEF Promise!Next, Promise!Forget, known, heard

(* Whatever else happens concerns neither the table nor what is pending.    *)
LEMMA OthersStutter ==
  ASSUME IInv, IInv',
         \/ \E w \in Workers : Fetch(w) \/ Compare(w) \/ PersistFail(w)
         \/ RetentionElapses
         \/ \E i \in Items : UpstreamChanges(i)
         \/ EndpointChanges
         \/ UNCHANGED vars
  PROVE  UNCHANGED news
<1>1. UNCHANGED <<boot, table, pushed, begun>>
  BY DEF Fetch, Compare, PersistFail, RetentionElapses, UpstreamChanges,
     EndpointChanges, vars, process, history
<1>2. Owed' = Owed
  <2>1. ASSUME NEW w \in Workers, Fetch(w) \/ Compare(w) \/ PersistFail(w)
        PROVE  Owed' = Owed
    <3>1. worker[w].pending = {} /\ worker'[w].pc # "notifying"
      <4>1. CASE Fetch(w)
        BY <4>1 DEF Fetch, IInv, TypeOK, HolderWrites, IdleWorker
      <4>2. CASE Compare(w)
        BY <4>2 DEF Compare, IInv, TypeOK, HolderWrites, IdleWorker
      <4>3. CASE PersistFail(w)
        BY <4>3 DEF PersistFail, IInv, TypeOK, HolderWrites, IdleWorker
      <4> QED BY <2>1, <4>1, <4>2, <4>3
    <3>2. \A v \in Workers \ {w} : worker'[v] = worker[v]
      BY <2>1 DEF Fetch, Compare, PersistFail, IInv, TypeOK
    <3>3. \A v \in Workers : worker'[v].pending = worker[v].pending
      BY <3>1, <3>2 DEF IInv, HolderWrites
    <3> QED BY <3>3 DEF Owed
  <2> QED BY <2>1 DEF RetentionElapses, UpstreamChanges, EndpointChanges, vars, Owed
<1> QED BY <1>1, <1>2 DEF news, known, heard, Known, Key, Stored

LEMMA FeedNext ==
  ASSUME IInv, IInv', [Next]_vars
  PROVE  [Promise!Next]_news
BY CommitLearns, PushTells, FinishStutters, CrashDrops, RestartForgets,
   RetentionForgets, OthersStutter DEF Next

(* Every step of the announcement sync is one NewsFeed allows: what is      *)
(* found first is never owed, what is owed is told once or dropped, and     *)
(* only what the table forgets may be told again.                           *)
THEOREM KeepsPromiseSafely == Spec => Promise!Safety
<1>1. [Next]_vars /\ IInv /\ IInv' => [Promise!Next]_Promise!feed
  BY FeedNext DEF Promise!feed, news, known, heard
<1> QED BY <1>1, FeedInit, InvariantHolds, PTL DEF Spec, Promise!Safety
=============================================================================
