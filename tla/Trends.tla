------------------------------- MODULE Trends -------------------------------
(***************************************************************************)
(* What the dashboard makes of the stored usage: the chart over a period,  *)
(* per instance and in total (build_dashboard_trends of                    *)
(* app/services/dashboard_service.py), and today's count on the cards      *)
(* (today_request_count of app/services/snapshot_metrics.py).              *)
(*                                                                         *)
(* Requests and amounts take the same steps, so one number stands for      *)
(* both.  Of a day's snapshots only the last counts.                       *)
(***************************************************************************)
EXTENDS Integers, SequencesExt

CONSTANTS
  Today,          \* the last of the days
  Histories,      \* what an instance's days may be like
  MaxInstances,   \* bound: instances
  BreakdownLimit  \* instances the chart shows by themselves

VARIABLE instances  \* the histories of the instances

(* A day: what the account spent on it, whether it was synced, whether its  *)
(* row is there, and whether the upstream began to count anew before it.    *)
ASSUME TrendsAssumption ==
  /\ Today \in Nat \ {0}
  /\ MaxInstances \in Nat
  /\ BreakdownLimit \in Nat \ {0}
  /\ Histories \subseteq
       [1..Today -> [spent : Nat, synced : BOOLEAN, kept : BOOLEAN, reset : BOOLEAN]]

Sum(numbers, set) == MapThenSumSet(LAMBDA x : numbers[x], set)
Spent(h, days) == Sum([d \in 1..Today |-> h[d].spent], days)

(* The rows: of a day that was synced, or synced later and never deleted.   *)
HasRow(h, day) == h[day].kept
Row(h, day) == h[day].spent

(* The latest snapshot at the end of a day: the upstream's count as it was  *)
(* at the last sync until then.                                             *)
Synced(h, day) == {d \in 1..day : h[d].synced}
HasSnap(h, day) == Synced(h, day) # {}
LastSnap(h, day) ==
  LET sync == Max(Synced(h, day))
      began == Max({1} \cup {d \in 1..sync : h[d].reset})
  IN Spent(h, began..sync)

(* Mutant: every day is compared with the start of the period.              *)
GrowthFrom(h, first, day) ==
  IF ~HasSnap(h, day) THEN 0
  ELSE IF ~HasSnap(h, first - 1) THEN LastSnap(h, day)
  ELSE Max({0, LastSnap(h, day) - LastSnap(h, first - 1)})

(* The growth of the total over a day of a period; all of it, if there is   *)
(* no total to compare with.                                                *)
Growth(h, first, day) ==
  IF ~HasSnap(h, day) THEN 0
  ELSE IF ~HasSnap(h, day - 1) THEN LastSnap(h, day)
  ELSE Max({0, LastSnap(h, day) - LastSnap(h, day - 1)})

(* An instance's rows if it has any in the period, or else its snapshots.   *)
Trend(h, first, last) ==
  LET rows == {d \in first..last : HasRow(h, d)} IN
  [d \in first..last |->
     IF rows = {} THEN Growth(h, first, d)
     ELSE IF d \in rows THEN Row(h, d) ELSE 0]

Totals(first, last) ==
  [i \in DOMAIN instances |-> Sum(Trend(instances[i], first, last), first..last)]

(* The instances with the greatest totals, the earlier ones among equals;   *)
(* those with nothing are left out.                                         *)
Ranked(first, last) == {i \in DOMAIN instances : Totals(first, last)[i] > 0}

Before(total, i, j) == total[i] > total[j] \/ (total[i] = total[j] /\ i < j)

Selected(first, last) ==
  {i \in Ranked(first, last) :
     Cardinality({j \in Ranked(first, last) : Before(Totals(first, last), j, i)})
       < BreakdownLimit}

Others(first, last) == DOMAIN instances \ Selected(first, last)

(* A day's bars: one for each of those, and one for the others together.    *)
Bars(first, last, day) ==
  Sum([i \in DOMAIN instances |-> Trend(instances[i], first, last)[day]],
      Selected(first, last))
  + Sum([i \in DOMAIN instances |-> Trend(instances[i], first, last)[day]],
        Others(first, last))

Point(first, last, day) ==
  Sum([i \in DOMAIN instances |-> Trend(instances[i], first, last)[day]],
      DOMAIN instances)

(* Mutant: a snapshot of today is enough of a start.                        *)
TodayCountAll(h) ==
  IF HasRow(h, Today) THEN Row(h, Today)
  ELSE IF ~HasSnap(h, Today) THEN 0
  ELSE LastSnap(h, Today) - LastSnap(h, Today)

TodayCount(h) ==
  IF HasRow(h, Today) THEN Row(h, Today)
  ELSE IF ~HasSnap(h, Today - 1) \/ ~HasSnap(h, Today) THEN 0
  ELSE Max({0, LastSnap(h, Today) - LastSnap(h, Today - 1)})

-----------------------------------------------------------------------------
TrendsInit == instances = <<>>

AddInstance ==
  /\ Len(instances) < MaxInstances
  /\ \E h \in Histories : instances' = Append(instances, h)

-----------------------------------------------------------------------------
(* The amount of a period that a chart may show: what was spent since the   *)
(* sync before it.                                                          *)
SpentSince(h, first, last) ==
  Spent(h, 1 + (IF HasSnap(h, first - 1) THEN Max(Synced(h, first - 1)) ELSE 0)..last)

(* The chart adds up: of every period, each day's bars make the day's       *)
(* point, no instance drawn twice or left out, and all of them make no more *)
(* than was spent, whichever days have rows, snapshots or neither, and      *)
(* whenever the upstream began to count anew.                               *)
ChartAddsUp ==
  \A first \in 1..Today : \A last \in first..Today :
    /\ \A day \in first..last : Bars(first, last, day) = Point(first, last, day)
    /\ \A i \in DOMAIN instances :
         Totals(first, last)[i] <= SpentSince(instances[i], first, last)

(* The card and the chart on today's count, whatever period the chart       *)
(* shows, when there is anything to compare with (for a new instance the    *)
(* chart shows all it ever spent, the card nothing): the chart never shows  *)
(* more than the card, and they agree if today has a row or if no day of    *)
(* the period has one.  In a period with rows of other days only, the       *)
(* chart shows nothing for today while the card shows the snapshots' growth.*)
TodayAgrees ==
  \A i \in DOMAIN instances : \A first \in 1..Today :
    LET h == instances[i]
        shown == Trend(h, first, Today)[Today]
    IN HasRow(h, Today) \/ HasSnap(h, Today - 1)
         => /\ shown <= TodayCount(h)
            /\ HasRow(h, Today) \/ ~(\E d \in first..Today : HasRow(h, d))
                 => shown = TodayCount(h)
=============================================================================
