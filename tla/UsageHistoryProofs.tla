------------------------- MODULE UsageHistoryProofs -------------------------
(***************************************************************************)
(* Safety of UsageHistory for any number of days, any usage, any lookback  *)
(* and retention period, and any set of threads.                           *)
(***************************************************************************)
EXTENDS UsageHistory, TLAPS

(* A thread that has read the history holds the lock until it has stored it.*)
LockHeld ==
  \A w \in Workers : worker[w].pc = "persist" => lock = w

(* What a thread has read of a day is not more than was spent on it.        *)
ReadBounded ==
  \A w \in Workers : \A d \in Days :
    worker[w].rows[d] # 0 => worker[w].rows[d] <= Accounted(d)

(* What it has read of a day that was over is what was spent.               *)
ReadFinal ==
  \A w \in Workers : \A d \in worker[w].read :
    /\ d < today
    /\ d \in Window(worker[w].day)
    /\ ~west => worker[w].rows[d] = spent[d]

(* A complete day is over, and a thread about to overwrite its row has read *)
(* it again, or failed to.                                                  *)
CompleteOver == \A d \in complete : d < today
CompleteReread ==
  ~west => \A w \in Workers : \A d \in complete :
    worker[w].pc = "persist" /\ d \in Window(worker[w].day)
      => d \in worker[w].read \cup worker[w].lost

IInv ==
  /\ TypeOK
  /\ LockHeld
  /\ ReadBounded
  /\ ReadFinal
  /\ CompleteOver
  /\ CompleteReread
  /\ NeverInvented
  /\ CompleteStays

-----------------------------------------------------------------------------
LEMMA IdleType == IdleWorker \in WorkerState
BY UsageAssumption DEF IdleWorker, WorkerState, NoRows, Days

LEMMA OneIsDay == 1 \in Days
BY UsageAssumption DEF Days

(* An upstream's account of a window is made of usages.                     *)
LEMMA AccountType ==
  ASSUME TypeOK, NEW window \in SUBSET Days
  PROVE  Account(window) \in [Days -> 0..MaxSpend]
BY UsageAssumption DEF TypeOK, Account, Accounted

LEMMA AccountedType ==
  ASSUME TypeOK, NEW d \in Days
  PROVE  Accounted(d) \in 0..MaxSpend
BY UsageAssumption DEF TypeOK, Accounted

LEMMA InitInv == Init => IInv
<1> SUFFICES ASSUME Init PROVE IInv
  OBVIOUS
<1>1. TypeOK
  BY UsageAssumption, IdleType, OneIsDay DEF Init, TypeOK, Days
<1>2. /\ LockHeld
      /\ ReadBounded
      /\ ReadFinal
      /\ CompleteOver
      /\ CompleteReread
      /\ NeverInvented
      /\ CompleteStays
  BY DEF Init, LockHeld, ReadBounded, ReadFinal, CompleteOver, CompleteReread,
     NeverInvented, CompleteStays, IdleWorker, NoRows
<1> QED BY <1>1, <1>2 DEF IInv

(* A thread that starts or gives up holds nothing.                          *)
LEMMA StampStep ==
  ASSUME IInv, NEW w \in Workers, Stamp(w)
  PROVE  IInv'
<1> USE DEF IInv
<1>1. TypeOK'
  BY IdleType DEF TypeOK, Stamp, upstream, IdleWorker, WorkerState
<1>2. /\ worker' = [worker EXCEPT ![w] = worker'[w]]
      /\ worker'[w].pc = "stamped"
      /\ worker'[w].rows = NoRows
      /\ worker'[w].read = {}
  BY DEF TypeOK, Stamp, IdleWorker
<1>3. LockHeld' /\ ReadFinal' /\ CompleteReread'
  BY <1>2 DEF TypeOK, Stamp, upstream, LockHeld, ReadFinal, CompleteReread, Window, Days
<1>4. ReadBounded'
  BY <1>2 DEF TypeOK, Stamp, upstream, ReadBounded, NoRows, Accounted, Origin
<1>5. CompleteOver' /\ NeverInvented' /\ CompleteStays'
  BY DEF Stamp, upstream, CompleteOver, NeverInvented, CompleteStays, Accounted, Origin
<1> QED BY <1>1, <1>3, <1>4, <1>5

LEMMA EnterStep ==
  ASSUME IInv, NEW w \in Workers, Enter(w)
  PROVE  IInv'
<1> USE DEF IInv
<1> DEFINE window == Window(worker[w].day)
<1>1. window \in SUBSET Days
  BY DEF Window
<1>2. /\ worker'[w].pc = "persist"
      /\ worker'[w].day = worker[w].day
      /\ worker'[w].rows = Account(window)
      /\ worker'[w].read = IF answers THEN Ended(window) ELSE {}
      /\ worker'[w].lost = IF answers THEN {} ELSE window
      /\ \A v \in Workers \ {w} : worker'[v] = worker[v]
  BY DEF TypeOK, WorkerState, Enter
<1>3. TypeOK'
  <2>1. Account(window) \in [Days -> 0..MaxSpend]
    BY <1>1, AccountType
  <2> DEFINE read == IF answers THEN Ended(window) ELSE {}
             lost == IF answers THEN {} ELSE window
  <2>2. read \in SUBSET Days /\ lost \in SUBSET Days
    BY <1>1 DEF Ended
  <2> HIDE DEF window, read, lost
  <2>3. [worker[w] EXCEPT !.pc = "persist", !.rows = Account(window),
                          !.read = read, !.lost = lost] \in WorkerState
    BY <2>1, <2>2 DEF TypeOK, WorkerState
  <2>4. worker' = [worker EXCEPT ![w] =
          [@ EXCEPT !.pc = "persist", !.rows = Account(window),
                    !.read = read, !.lost = lost]]
    BY DEF Enter, window, read, lost
  <2>5. worker' \in [Workers -> WorkerState]
    BY <2>3, <2>4 DEF TypeOK
  <2> QED BY <2>5 DEF TypeOK, Enter, upstream
<1>4. LockHeld'
  BY <1>2, UsageAssumption DEF Enter, LockHeld
<1>5. ReadBounded'
  <2>1. \A d \in Days : Accounted(d)' = Accounted(d)
    BY DEF Enter, upstream, Accounted, Origin
  <2>2. \A d \in Days : Account(window)[d] # 0 => Account(window)[d] <= Accounted(d)
    BY AccountedType DEF Account
  <2> QED BY <1>2, <2>1, <2>2 DEF ReadBounded
<1>6. ReadFinal'
  <2>1. \A d \in Ended(window) : d \in window /\ d < today /\ Origin(d) \in window
    BY <1>1 DEF Ended, Origin, Days, TypeOK
  <2>2. ASSUME answers, ~west, NEW d \in Ended(window)
        PROVE  Account(window)[d] = spent[d]
    BY <1>1, <2>1, <2>2 DEF Account, Accounted, Origin
  <2>3. UNCHANGED <<today, spent, west>>
    BY DEF Enter, upstream
  <2> QED BY <1>1, <1>2, <2>1, <2>2, <2>3 DEF ReadFinal, Window
<1>7. CompleteReread'
  <2>1. \A d \in complete \cap window : ~west => d \in Ended(window)
    BY DEF CompleteOver, Ended, Origin
  <2>2. UNCHANGED <<complete, west>>
    BY DEF Enter, upstream
  <2> QED BY <1>2, <2>1, <2>2 DEF CompleteReread, Window
<1>8. CompleteOver' /\ NeverInvented' /\ CompleteStays'
  BY DEF Enter, upstream, CompleteOver, NeverInvented, CompleteStays, Accounted,
     Origin
<1> QED BY <1>3, <1>4, <1>5, <1>6, <1>7, <1>8

(* What the lock holder stores is what it has read, nobody else holds any.  *)
LEMMA CommitStep ==
  ASSUME IInv, NEW w \in Workers, Commit(w)
  PROVE  IInv'
<1> USE DEF IInv
<1>1. /\ worker'[w] = IdleWorker
      /\ \A v \in Workers \ {w} : worker'[v] = worker[v]
      /\ UNCHANGED <<today, spent, answers, west>>
  BY DEF TypeOK, Commit, upstream
<1>2. \A v \in Workers : worker'[v].pc # "persist"
  BY <1>1 DEF Commit, LockHeld, IdleWorker
<1>3. TypeOK'
  BY IdleType DEF TypeOK, WorkerState, Commit, upstream, StoredRows
<1>4. LockHeld' /\ CompleteReread'
  BY <1>2 DEF LockHeld, CompleteReread
<1>5. ReadBounded' /\ ReadFinal'
  BY <1>1 DEF ReadBounded, ReadFinal, IdleWorker, NoRows, Accounted, Origin, Window
<1>6. CompleteOver'
  BY <1>1 DEF CompleteOver, ReadFinal, Commit
<1>7. NeverInvented'
  BY <1>1 DEF Commit, NeverInvented, ReadBounded, StoredRows, Accounted, Origin
<1>8. CompleteStays'
  <2> SUFFICES ASSUME ~west, NEW d \in complete' PROVE stats'[d] = spent[d]
    BY <1>1 DEF CompleteStays
  <2>1. d \in Days /\ stats'[d] = StoredRows(w)[d]
    BY DEF TypeOK, WorkerState, Commit
  <2>2. CASE d \in worker[w].read
    BY <2>1, <2>2 DEF ReadFinal, StoredRows
  <2>3. CASE d \notin worker[w].read
    <3>1. d \in complete \ worker[w].lost
      BY <2>3 DEF Commit
    <3>2. d \notin Window(worker[w].day)
      BY <2>3, <3>1 DEF CompleteReread, Commit
    <3> QED BY <2>1, <3>1, <3>2 DEF StoredRows, CompleteStays
  <2> QED BY <2>2, <2>3
<1> QED BY <1>3, <1>4, <1>5, <1>6, <1>7, <1>8

LEMMA FailStep ==
  ASSUME IInv, NEW w \in Workers, Fail(w)
  PROVE  IInv'
<1> USE DEF IInv
<1>1. /\ worker'[w] = IdleWorker
      /\ \A v \in Workers \ {w} : worker'[v] = worker[v]
      /\ UNCHANGED <<today, spent, answers, west, stats, complete>>
  BY DEF TypeOK, Fail, upstream
<1>2. TypeOK'
  BY IdleType DEF TypeOK, Fail, upstream
<1>3. LockHeld' /\ CompleteReread'
  BY <1>1 DEF Fail, LockHeld, CompleteReread, IdleWorker, Window
<1>4. ReadBounded' /\ ReadFinal'
  BY <1>1 DEF ReadBounded, ReadFinal, IdleWorker, NoRows, Accounted, Origin, Window
<1>5. CompleteOver' /\ NeverInvented' /\ CompleteStays'
  BY <1>1 DEF CompleteOver, NeverInvented, CompleteStays, Accounted, Origin
<1> QED BY <1>2, <1>3, <1>4, <1>5

LEMMA RetentionStep ==
  ASSUME IInv, NEW utc \in Int, Retention(utc)
  PROVE  IInv'
<1> USE DEF IInv
<1>1. UNCHANGED <<today, spent, answers, west, worker, lock>>
  BY DEF Retention, upstream
<1>2. TypeOK'
  BY <1>1 DEF TypeOK, Retention
<1>3. LockHeld' /\ ReadBounded' /\ ReadFinal'
  BY <1>1 DEF LockHeld, ReadBounded, ReadFinal, Accounted, Origin, Window
<1>4. CompleteOver' /\ CompleteReread' /\ CompleteStays'
  BY <1>1 DEF TypeOK, Retention, CompleteOver, CompleteReread, CompleteStays, Window
<1>5. NeverInvented'
  BY <1>1 DEF Retention, NeverInvented, Accounted, Origin
<1> QED BY <1>2, <1>3, <1>4, <1>5

(* Usage only grows, and only today's.                                      *)
LEMMA SpendStep ==
  ASSUME IInv, Spend
  PROVE  IInv'
<1> USE DEF IInv
<1>1. /\ UNCHANGED <<today, answers, west, stats, worker, lock, complete>>
      /\ spent' \in [Days -> 0..MaxSpend]
      /\ \A d \in Days : spent[d] <= spent'[d]
      /\ \A d \in Days : d < today => spent'[d] = spent[d]
  BY UsageAssumption DEF TypeOK, Spend, Days
<1>2. TypeOK'
  BY <1>1 DEF TypeOK
<1>3. \A d \in Days : Accounted(d) <= Accounted(d)'
  BY <1>1 DEF Accounted, Origin
<1>4. LockHeld' /\ CompleteOver' /\ CompleteReread'
  BY <1>1 DEF LockHeld, CompleteOver, CompleteReread, Window
<1>5. ReadBounded'
  <2> SUFFICES ASSUME NEW w \in Workers, NEW d \in Days, worker[w].rows[d] # 0
               PROVE  worker[w].rows[d] <= Accounted(d)'
    BY <1>1 DEF ReadBounded
  <2>1. worker[w].rows[d] \in 0..MaxSpend
    BY DEF TypeOK, WorkerState
  <2>2. /\ Accounted(d) \in 0..MaxSpend
        /\ Accounted(d)' \in 0..MaxSpend
    BY <1>2, AccountedType, UsageAssumption, <1>1 DEF TypeOK, Accounted, Origin
  <2> QED BY <1>3, <2>1, <2>2 DEF ReadBounded
<1>6. ReadFinal'
  BY <1>1 DEF ReadFinal, Window, TypeOK, WorkerState
<1>7. NeverInvented'
  <2> SUFFICES ASSUME NEW d \in Days, stats[d] \notin {NoRow, 0}
               PROVE  stats[d] <= Accounted(d)'
    BY <1>1 DEF NeverInvented
  <2>1. stats[d] \in 0..MaxSpend
    BY DEF TypeOK
  <2>2. /\ Accounted(d) \in 0..MaxSpend
        /\ Accounted(d)' \in 0..MaxSpend
    BY <1>2, AccountedType, UsageAssumption, <1>1 DEF TypeOK, Accounted, Origin
  <2> QED BY <1>3, <2>1, <2>2 DEF NeverInvented
<1>8. CompleteStays'
  BY <1>1 DEF CompleteStays, CompleteOver, TypeOK
<1> QED BY <1>2, <1>4, <1>5, <1>6, <1>7, <1>8

LEMMA MidnightStep ==
  ASSUME IInv, Midnight
  PROVE  IInv'
<1> USE DEF IInv
<1>1. /\ UNCHANGED <<spent, answers, west, stats, worker, lock, complete>>
      /\ today' \in Days
      /\ today' = today + 1
      /\ today \in Nat
  BY UsageAssumption DEF TypeOK, Midnight, Days
<1>2. TypeOK'
  BY <1>1 DEF TypeOK
<1>3. LockHeld' /\ ReadBounded' /\ CompleteReread' /\ NeverInvented' /\ CompleteStays'
  BY <1>1 DEF LockHeld, ReadBounded, CompleteReread, NeverInvented, CompleteStays,
     Accounted, Origin, Window
<1>4. ReadFinal' /\ CompleteOver'
  BY <1>1 DEF ReadFinal, CompleteOver, Window, Days, TypeOK, WorkerState
<1> QED BY <1>2, <1>3, <1>4

LEMMA EndpointStep ==
  ASSUME IInv, EndpointChanges
  PROVE  IInv'
BY DEF IInv, EndpointChanges, TypeOK, LockHeld, ReadBounded, ReadFinal,
   CompleteOver, CompleteReread, NeverInvented, CompleteStays, Accounted, Origin,
   Window

LEMMA Stutter ==
  ASSUME IInv, UNCHANGED vars
  PROVE  IInv'
BY DEF IInv, vars, upstream, TypeOK, LockHeld, ReadBounded, ReadFinal,
   CompleteOver, CompleteReread, NeverInvented, CompleteStays, Accounted, Origin,
   Window

LEMMA NextInv == IInv /\ [Next]_vars => IInv'
<1> SUFFICES ASSUME IInv, [Next]_vars PROVE IInv'
  OBVIOUS
<1>1. ASSUME NEW w \in Workers, Stamp(w) \/ Enter(w) \/ Commit(w) \/ Fail(w)
      PROVE  IInv'
  BY <1>1, StampStep, EnterStep, CommitStep, FailStep
<1>2. ASSUME NEW utc \in today - 1..today + 1, Retention(utc) PROVE IInv'
  <2>1. utc \in Int
    BY DEF IInv, TypeOK, Days
  <2> QED BY <1>2, <2>1, RetentionStep
<1> QED BY <1>1, <1>2, SpendStep, MidnightStep, EndpointStep, Stutter DEF Next

-----------------------------------------------------------------------------
LEMMA InvariantHolds == Spec => []IInv
BY InitInv, NextInv, PTL DEF Spec

(* daily_usage_stats and the state of a sync keep their shape.              *)
THEOREM TypeCorrect == Spec => []TypeOK
BY InvariantHolds, PTL DEF IInv

(* Overwriting whole days under the write lock, a sync never makes a row of *)
(* daily_usage_stats hold more than was spent on its day.                   *)
THEOREM NeverInventedHolds == Spec => []NeverInvented
BY InvariantHolds, PTL DEF IInv

(* A day of daily_usage_stats that was read in full after its end keeps its *)
(* value until a failed fetch overwrites it or retention deletes it.        *)
THEOREM CompleteStaysHolds == Spec => []CompleteStays
BY InvariantHolds, PTL DEF IInv
=============================================================================
