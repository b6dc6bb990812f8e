---------------------------- MODULE UsageHistory ----------------------------
(***************************************************************************)
(* Daily usage: each sync, holding the write lock, fetches the last days'  *)
(* usage and overwrites the rows of those days (_sync_recent_daily_usage   *)
(* and _sync_recent_sub2api_daily_usage of app/services/sync_service.py);  *)
(* retention deletes old rows.                                             *)
(*                                                                         *)
(* Days are those of the display time zone.  Requests and amounts take the *)
(* same steps, so one number stands for both.                              *)
(***************************************************************************)
EXTENDS Integers

CONSTANTS
  MaxDay,    \* bound: days
  MaxSpend,  \* bound: usage per day
  Lookback,  \* sync_history_lookback_days
  Keep,      \* retention_daily_usage_days
  Workers,   \* threads that sync the instance
  NoRow,
  NoOne

ASSUME UsageAssumption ==
  /\ MaxDay \in Nat \ {0}
  /\ MaxSpend \in Nat
  /\ Lookback \in Nat \ {0}
  /\ Keep \in Nat \ {0}
  /\ NoRow \notin Nat
  /\ NoOne \notin Workers

VARIABLES
  today,
  spent,      \* what the upstream accounts to each day
  answers,    \* does its history endpoint answer?
  west,       \* are its days dated (Sub2API), and the display time zone lies
              \* west of the process's?
  stats,      \* daily_usage_stats
  worker,     \* threads at work
  lock,       \* holder of SQLITE_WRITE_LOCK
  complete    \* history: days read in full after their end, and not lost since

upstream == <<today, spent, answers, west>>
vars == <<upstream, stats, worker, lock, complete>>

Days == 1..MaxDay

(* The days a sync stamped on this day refreshes.                           *)
Window(day) == {d \in Days : day - Lookback < d /\ d <= day}

NoRows == [d \in Days |-> 0]
IdleWorker == [pc |-> "idle", day |-> 1, rows |-> NoRows, read |-> {}, lost |-> {}]
WorkerState == [pc : {"idle", "stamped", "persist"}, day : Days,
                rows : [Days -> 0..MaxSpend],
                read : SUBSET Days, lost : SUBSET Days]

TypeOK ==
  /\ today \in Days
  /\ spent \in [Days -> 0..MaxSpend]
  /\ answers \in BOOLEAN
  /\ west \in BOOLEAN
  /\ stats \in [Days -> 0..MaxSpend \cup {NoRow}]
  /\ worker \in [Workers -> WorkerState]
  /\ lock \in Workers \cup {NoOne}
  /\ complete \subseteq Days

Init ==
  /\ today = 1
  /\ spent = [d \in Days |-> 0]
  /\ answers = TRUE
  /\ west \in BOOLEAN
  /\ stats = [d \in Days |-> NoRow]
  /\ worker = [w \in Workers |-> IdleWorker]
  /\ lock = NoOne
  /\ complete = {}

-----------------------------------------------------------------------------
(* A sync.                                                                  *)

(* snapshot_at is taken before the sync waits for the lock.                 *)
Stamp(w) ==
  /\ worker[w].pc = "idle"
  /\ worker' = [worker EXCEPT ![w] = [IdleWorker EXCEPT !.pc = "stamped", !.day = today]]
  /\ UNCHANGED <<upstream, stats, lock, complete>>

(* The day whose usage ends up in the row of day d: a row that carries only *)
(* a date is taken for midnight of the process's time zone, which in zones  *)
(* to the west of it still belongs to the day before.                       *)
Origin(d) == IF west THEN d + 1 ELSE d

(* (The bound on days ends the upstream's account too.)                      *)
Accounted(d) == IF Origin(d) \in Days THEN spent[Origin(d)] ELSE 0

(* What the upstream accounts to the days of a window.  One that does not   *)
(* answer leaves the zeros the window was filled with.                      *)
Account(window) ==
  [d \in Days |->
     IF answers /\ {d, Origin(d)} \subseteq window THEN Accounted(d) ELSE 0]

(* (History: the days of a window that are over.)                           *)
Ended(window) == {d \in window : Origin(d) \in window /\ Origin(d) < today}

(* Mutant: the history is fetched before the lock, like everything else.    *)
EnterUnlocked(w) ==
  LET window == Window(worker[w].day) IN
  /\ worker[w].pc = "stamped"
  /\ worker' = [worker EXCEPT
       ![w].pc = "persist",
       ![w].rows = Account(window),
       ![w].read = IF answers THEN Ended(window) ELSE {},
       ![w].lost = IF answers THEN {} ELSE window]
  /\ UNCHANGED <<upstream, stats, lock, complete>>

(* Under the lock, fetch the history.                                       *)
Enter(w) ==
  LET window == Window(worker[w].day) IN
  /\ worker[w].pc = "stamped"
  /\ lock = NoOne
  /\ lock' = w
  /\ worker' = [worker EXCEPT
       ![w].pc = "persist",
       ![w].rows = Account(window),
       ![w].read = IF answers THEN Ended(window) ELSE {},
       ![w].lost = IF answers THEN {} ELSE window]
  /\ UNCHANGED <<upstream, stats, complete>>

(* Mutant: usage is added to what the row holds.                            *)
StoredSum(w) ==
  [d \in Days |->
     IF d \notin Window(worker[w].day) THEN stats[d]
     ELSE IF stats[d] = NoRow THEN worker[w].rows[d]
     ELSE stats[d] + worker[w].rows[d]]

(* Mutant: a day that has a row is left alone.                              *)
StoredOnce(w) ==
  [d \in Days |-> IF d \in Window(worker[w].day) /\ stats[d] = NoRow
                  THEN worker[w].rows[d] ELSE stats[d]]

(* Every row of the window is overwritten.                                  *)
StoredRows(w) ==
  [d \in Days |-> IF d \in Window(worker[w].day) THEN worker[w].rows[d]
                  ELSE stats[d]]

Commit(w) ==
  /\ worker[w].pc = "persist"
  /\ stats' = StoredRows(w)
  /\ worker' = [worker EXCEPT ![w] = IdleWorker]
  /\ lock' = NoOne
  /\ complete' = (complete \ worker[w].lost) \cup worker[w].read
  /\ UNCHANGED upstream

(* Mutant: a phase that nobody leaves.                                      *)
FailStuck(w) ==
  /\ worker[w].pc # "idle"
  /\ worker' = [worker EXCEPT ![w].pc = "failed"]
  /\ lock' = IF lock = w THEN NoOne ELSE lock
  /\ UNCHANGED <<upstream, stats, complete>>

(* Any part of the sync fails, or the process dies under it.                *)
Fail(w) ==
  /\ worker[w].pc # "idle"
  /\ worker' = [worker EXCEPT ![w] = IdleWorker]
  /\ lock' = IF lock = w THEN NoOne ELSE lock
  /\ UNCHANGED <<upstream, stats, complete>>

-----------------------------------------------------------------------------
(* Around it.                                                               *)

(* The hourly pass, which waits for SQLite's lock too.  It counts from the  *)
(* UTC date, and that may be next to the display time zone's.               *)
Expired(utc) == {d \in Days : d < utc - Keep /\ stats[d] # NoRow}

Retention(utc) ==
  /\ lock = NoOne
  /\ Expired(utc) # {}
  /\ stats' = [d \in Days |-> IF d \in Expired(utc) THEN NoRow ELSE stats[d]]
  /\ complete' = complete \ Expired(utc)
  /\ UNCHANGED <<upstream, worker, lock>>

Spend ==
  /\ spent[today] < MaxSpend
  /\ spent' = [spent EXCEPT ![today] = @ + 1]
  /\ UNCHANGED <<today, answers, west, stats, worker, lock, complete>>

Midnight ==
  /\ today < MaxDay
  /\ today' = today + 1
  /\ UNCHANGED <<spent, answers, west, stats, worker, lock, complete>>

EndpointChanges ==
  /\ answers' = ~answers
  /\ UNCHANGED <<today, spent, west, stats, worker, lock, complete>>

Next ==
  \/ \E w \in Workers :
       Stamp(w) \/ Enter(w) \/ Commit(w) \/ Fail(w)
  \/ \E utc \in today - 1..today + 1 : Retention(utc)
  \/ Spend
  \/ Midnight
  \/ EndpointChanges

Spec == Init /\ [][Next]_vars

(* As in the other modules of a sync: they start again and again, the lock  *)
(* comes round, and not every sync fails.                                   *)
Fairness ==
  \A w \in Workers :
    /\ WF_vars(Stamp(w))
    /\ SF_vars(Enter(w))
    /\ SF_vars(Commit(w))

FairSpec == Spec /\ Fairness

-----------------------------------------------------------------------------
(* However often a day is fetched, and by how many syncs, its row never     *)
(* holds more than was spent.                                               *)
NeverInvented ==
  \A d \in Days : stats[d] \notin {NoRow, 0} => stats[d] <= Accounted(d)

(* A day that was read in full after its end keeps its final value: no      *)
(* slower sync puts an older one back, only a failed fetch wipes it out.    *)
CompleteStays ==
  ~west => \A d \in complete : stats[d] = spent[d]

(* Once the upstream answers, the rows of the days within its reach end up  *)
(* as the upstream has them, unless retention keeps deleting them: nothing  *)
(* relates its period to the lookback.                                      *)
UsageConverges ==
  \A d \in Days :
    <>[](/\ answers
         /\ {d, Origin(d)} \subseteq Window(today)
         /\ d >= today + 1 - Keep)
      => <>[](stats[d] = Accounted(d))
=============================================================================
