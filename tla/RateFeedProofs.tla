--------------------------- MODULE RateFeedProofs ---------------------------
(***************************************************************************)
(* Safety of RateFeed for any groups, ratios, answers of the upstream and  *)
(* threads, and any rate_change_min_percent.                               *)
(***************************************************************************)
EXTENDS RateFeed, TLAPS

(* Only the holder of the lock has events to report, of two kinds that do   *)
(* not overlap; and only what it sent is to be marked.                      *)
HolderReports ==
  \A w \in Workers :
    /\ worker[w].pc \in {"notifying", "sent"} => lock = w
    /\ worker[w].pc \in {"idle", "fetched"} =>
         worker[w].changed = {} /\ worker[w].moved = {}
    /\ worker[w].pc # "sent" => worker[w].sent = {}
    /\ worker[w].changed \cap worker[w].moved = {}

(* Once the message is out, every event has been told or let go.            *)
SentTold ==
  \A w \in Workers : worker[w].pc = "sent" =>
    \A g \in worker[w].changed \cup worker[w].moved :
      told[g] # stored[g] => g \in excused

(* A group told to have changed is marked, or about to be, or that failed.  *)
LoudMarked ==
  \A g \in loud :
    \/ g \in marked \cup unmarked
    \/ \E w \in Workers : g \in worker[w].sent \cap worker[w].changed

IInv ==
  /\ TypeOK
  /\ HolderReports
  /\ SentTold
  /\ LoudMarked
  /\ UntoldHasReason
  /\ OnePerCooldown

-----------------------------------------------------------------------------
LEMMA NothingType == Nothing \in [Groups -> Values]
BY DEF Nothing, Values

LEMMA AnswerType == ASSUME TypeOK PROVE answer \in [Groups -> Values]
BY RateAssumption, NothingType DEF TypeOK, Values

LEMMA IdleType == IdleWorker \in WorkerState
BY NothingType DEF IdleWorker, WorkerState

LEMMA InitInv == Init => IInv
<1> SUFFICES ASSUME Init PROVE IInv
  OBVIOUS
<1>1. TypeOK
  BY IdleType, NothingType DEF Init, TypeOK
<1>2. /\ HolderReports
      /\ SentTold
      /\ LoudMarked
      /\ UntoldHasReason
      /\ OnePerCooldown
  BY DEF Init, HolderReports, SentTold, LoudMarked, UntoldHasReason,
     OnePerCooldown, IdleWorker
<1> QED BY <1>1, <1>2 DEF IInv

LEMMA FetchStep ==
  ASSUME IInv, NEW w \in Workers, Fetch(w)
  PROVE  IInv'
<1> USE DEF IInv
<1>1. /\ worker'[w].pc = "fetched"
      /\ worker'[w].changed = {}
      /\ worker'[w].moved = {}
      /\ worker'[w].sent = {}
      /\ worker[w].sent = {}
      /\ worker[w].changed = {}
      /\ worker[w].moved = {}
      /\ \A v \in Workers \ {w} : worker'[v] = worker[v]
      /\ UNCHANGED <<answer, stored, marked, lock, history>>
  BY DEF TypeOK, Fetch, IdleWorker, HolderReports
<1>2. TypeOK'
  <2>1. [IdleWorker EXCEPT !.pc = "fetched", !.got = answer] \in WorkerState
    BY IdleType, AnswerType DEF WorkerState
  <2> QED BY <2>1 DEF Fetch, TypeOK, history
<1>3. HolderReports' /\ SentTold'
  BY <1>1 DEF HolderReports, SentTold, history
<1>4. LoudMarked' /\ UntoldHasReason' /\ OnePerCooldown'
  BY <1>1 DEF LoudMarked, UntoldHasReason, OnePerCooldown, history
<1> QED BY <1>2, <1>3, <1>4

(* A replaced table makes an event of every difference, or excuses it.      *)
LEMMA PersistStep ==
  ASSUME IInv, NEW w \in Workers, Persist(w)
  PROVE  IInv'
<1> USE DEF IInv
<1> DEFINE got == worker[w].got
           new == [IdleWorker EXCEPT !.pc = "notifying", !.changed = Changed(got),
                                     !.moved = Moved(got)]
<1>1. /\ worker' = [worker EXCEPT ![w] = new]
      /\ lock = NoOne
      /\ lock' = w
      /\ stored' = got
      /\ UNCHANGED <<answer, marked, told, loud, unmarked, again>>
  BY DEF Persist
<1>2. \A v \in Workers : /\ worker[v].pc \in {"idle", "fetched"}
                         /\ worker[v].changed = {}
                         /\ worker[v].moved = {}
                         /\ worker[v].sent = {}
  <2>1. \A v \in Workers : worker[v].pc \in {"idle", "fetched", "notifying", "sent"}
    BY DEF TypeOK, WorkerState
  <2> QED BY <1>1, <2>1, RateAssumption DEF HolderReports
<1>3. /\ worker'[w].pc = "notifying"
      /\ worker'[w].changed = Changed(got)
      /\ worker'[w].moved = Moved(got)
      /\ worker'[w].sent = {}
      /\ \A v \in Workers \ {w} : worker'[v] = worker[v]
  BY <1>1 DEF TypeOK, IdleWorker
<1>4. TypeOK'
  <2>1. /\ Changed(got) \in SUBSET Groups
        /\ Moved(got) \in SUBSET Groups
        /\ got \in [Groups -> Values]
    BY DEF TypeOK, WorkerState, Changed, Moved
  <2>2. new \in WorkerState
    BY <2>1, IdleType DEF WorkerState
  <2>3. worker' \in [Workers -> WorkerState]
    BY <1>1, <2>2 DEF TypeOK
  <2>4. excused' \subseteq Groups
    BY DEF Persist, Unheard
  <2> QED BY <1>1, <2>1, <2>3, <2>4 DEF TypeOK
<1>5. HolderReports'
  <2>1. Changed(got) \cap Moved(got) = {}
    BY DEF Changed, Moved, There
  <2> QED BY <1>1, <1>2, <1>3, <2>1 DEF HolderReports
<1>6. SentTold'
  BY <1>2, <1>3 DEF SentTold
<1>7. LoudMarked' /\ OnePerCooldown'
  BY <1>1, <1>2, <1>3 DEF LoudMarked, OnePerCooldown
<1>8. UntoldHasReason'
  <2> SUFFICES ASSUME NEW g \in Groups, told[g] # got[g], g \notin excused'
               PROVE  g \in Changed(got) \cup Moved(got)
    BY <1>1, <1>3 DEF UntoldHasReason
  <2>1. /\ ~(got[g] = stored[g] /\ g \in excused)
        /\ ~(There(g, got) /\ Small(stored[g], got[g]))
        /\ ~Baseline
    BY DEF Persist, Unheard
  <2>2. got[g] # stored[g]
    BY <1>2, <2>1 DEF UntoldHasReason
  <2> QED BY <2>1, <2>2 DEF Changed, Moved, There
<1> QED BY <1>4, <1>5, <1>6, <1>7, <1>8

LEMMA PersistFailStep ==
  ASSUME IInv, NEW w \in Workers, PersistFail(w)
  PROVE  IInv'
<1> USE DEF IInv
<1>1. /\ worker'[w] = IdleWorker
      /\ worker[w].sent = {}
      /\ worker[w].changed = {}
      /\ worker[w].moved = {}
      /\ \A v \in Workers \ {w} : worker'[v] = worker[v]
      /\ UNCHANGED <<answer, stored, marked, lock, history>>
  BY DEF TypeOK, PersistFail, HolderReports
<1>2. TypeOK'
  BY IdleType DEF PersistFail, TypeOK, history
<1>3. HolderReports' /\ SentTold'
  BY <1>1 DEF HolderReports, SentTold, history, IdleWorker
<1>4. LoudMarked' /\ UntoldHasReason' /\ OnePerCooldown'
  BY <1>1 DEF LoudMarked, UntoldHasReason, OnePerCooldown, history
<1> QED BY <1>2, <1>3, <1>4

LEMMA SendStep ==
  ASSUME IInv, NEW w \in Workers, Send(w)
  PROVE  IInv'
<1> USE DEF IInv
<1> DEFINE groups == Deliverable(w)
           changed == worker[w].changed
           moved == worker[w].moved
<1>1. /\ worker[w].pc = "notifying"
      /\ lock = w
      /\ groups = moved \cup (changed \ marked)
      /\ told' = [g \in Groups |-> IF g \in groups THEN stored[g] ELSE told[g]]
      /\ again' = again \cup (groups \cap changed \cap loud)
      /\ loud' = loud \cup (groups \cap changed)
      /\ UNCHANGED <<answer, stored, marked, lock, unmarked>>
  BY DEF Send, Deliverable, HolderReports
<1>2. /\ changed \in SUBSET Groups
      /\ moved \in SUBSET Groups
      /\ groups \in SUBSET Groups
      /\ changed \cap moved = {}
  BY DEF TypeOK, WorkerState, Deliverable, HolderReports
<1>3. /\ worker'[w].pc = "sent"
      /\ worker'[w].changed = changed
      /\ worker'[w].moved = moved
      /\ worker'[w].sent = groups
      /\ \A v \in Workers \ {w} : worker'[v] = worker[v]
  BY DEF TypeOK, WorkerState, Send
<1>4. \A v \in Workers : /\ worker[v].pc # "sent"
                         /\ worker[v].sent = {}
  BY <1>1 DEF HolderReports
<1>5. excused' \subseteq Groups
  BY DEF Send, Unheard, TypeOK, WorkerState
<1>6. TypeOK'
  <2> HIDE DEF groups
  <2>1. [worker[w] EXCEPT !.pc = "sent", !.sent = groups] \in WorkerState
    BY <1>2 DEF TypeOK, WorkerState
  <2>2. worker' = [worker EXCEPT ![w] = [@ EXCEPT !.pc = "sent", !.sent = groups]]
    BY DEF Send, groups
  <2>3. worker' \in [Workers -> WorkerState]
    BY <2>1, <2>2 DEF TypeOK
  <2>4. told' \in [Groups -> Values]
    BY <1>1 DEF TypeOK
  <2> QED BY <1>1, <1>2, <1>5, <2>3, <2>4 DEF TypeOK
<1>7. HolderReports'
  BY <1>1, <1>2, <1>3 DEF HolderReports
<1>8. SentTold'
  <2> SUFFICES ASSUME NEW g \in changed \cup moved, told'[g] # stored[g]
               PROVE  g \in excused'
    BY <1>1, <1>3, <1>4 DEF SentTold
  <2>1. g \in Groups /\ g \notin groups
    BY <1>1, <1>2
  <2>2. g \in changed \cap marked
    BY <1>1, <2>1
  <2> QED BY <2>1, <2>2 DEF Send, Unheard
<1>9. LoudMarked'
  BY <1>1, <1>3, <1>4 DEF LoudMarked
<1>10. OnePerCooldown'
  BY <1>1, <1>2, <1>4 DEF LoudMarked, OnePerCooldown
<1>11. UntoldHasReason'
  <2> SUFFICES ASSUME NEW g \in Groups, told'[g] # stored[g]
               PROVE  g \in excused' \/ \E v \in Workers :
                        g \in worker'[v].changed \cup worker'[v].moved
    BY <1>1 DEF UntoldHasReason
  <2>1. g \notin groups /\ told[g] # stored[g]
    BY <1>1
  <2>2. CASE g \in excused
    BY <2>1, <2>2 DEF Send, Unheard
  <2>3. CASE g \notin excused
    <3>1. PICK v \in Workers : g \in worker[v].changed \cup worker[v].moved
      BY <2>1, <2>3 DEF UntoldHasReason
    <3> QED BY <1>3, <3>1
  <2> QED BY <2>2, <2>3
<1> QED BY <1>6, <1>7, <1>8, <1>9, <1>10, <1>11

LEMMA SkipStep ==
  ASSUME IInv, NEW w \in Workers, Skip(w)
  PROVE  IInv'
<1> USE DEF IInv
<1>1. /\ worker'[w] = IdleWorker
      /\ worker[w].pc = "notifying"
      /\ worker[w].sent = {}
      /\ lock = w
      /\ \A v \in Workers \ {w} : worker'[v] = worker[v]
      /\ UNCHANGED <<answer, stored, marked, told, loud, unmarked, again>>
  BY DEF TypeOK, Skip, Release, HolderReports
<1>2. \A v \in Workers \ {w} : worker[v].pc \in {"idle", "fetched"}
  BY <1>1 DEF HolderReports, TypeOK, WorkerState
<1>3. TypeOK'
  BY <1>1, IdleType DEF TypeOK, Skip, Release, Unheard, WorkerState
<1>4. HolderReports' /\ SentTold'
  BY <1>1, <1>2 DEF HolderReports, SentTold, IdleWorker
<1>5. LoudMarked' /\ OnePerCooldown'
  BY <1>1 DEF LoudMarked, OnePerCooldown
<1>6. UntoldHasReason'
  <2> SUFFICES ASSUME NEW g \in Groups, told[g] # stored[g]
               PROVE  g \in excused'
    BY <1>1 DEF UntoldHasReason
  <2>1. \/ g \in excused
        \/ g \in worker[w].changed \cup worker[w].moved
    BY <1>2 DEF UntoldHasReason, HolderReports
  <2> QED BY <2>1 DEF Skip, Unheard
<1> QED BY <1>3, <1>4, <1>5, <1>6

LEMMA MarkStep ==
  ASSUME IInv, NEW w \in Workers, NEW committed \in BOOLEAN, Mark(w, committed)
  PROVE  IInv'
<1> USE DEF IInv
<1>1. /\ worker'[w] = IdleWorker
      /\ worker[w].pc = "sent"
      /\ lock = w
      /\ \A v \in Workers \ {w} : worker'[v] = worker[v]
      /\ UNCHANGED <<answer, stored, told, excused, loud, again>>
  BY DEF TypeOK, Mark, Release, HolderReports
<1>2. \A v \in Workers \ {w} : worker[v].pc \in {"idle", "fetched"}
  BY <1>1 DEF HolderReports, TypeOK, WorkerState
<1>3. /\ marked' \cup unmarked' =
           marked \cup unmarked \cup (worker[w].sent \cap worker[w].changed)
      /\ unmarked \subseteq unmarked'
  BY DEF Mark
<1>4. TypeOK'
  BY <1>1, IdleType DEF TypeOK, Mark, Release, WorkerState
<1>5. HolderReports' /\ SentTold'
  BY <1>1, <1>2 DEF HolderReports, SentTold, IdleWorker
<1>6. LoudMarked' /\ OnePerCooldown'
  BY <1>1, <1>3 DEF LoudMarked, OnePerCooldown
<1>7. UntoldHasReason'
  <2> SUFFICES ASSUME NEW g \in Groups, told[g] # stored[g]
               PROVE  g \in excused
    BY <1>1 DEF UntoldHasReason
  <2>1. \/ g \in excused
        \/ g \in worker[w].changed \cup worker[w].moved
    BY <1>2 DEF UntoldHasReason, HolderReports
  <2> QED BY <1>1, <2>1 DEF SentTold
<1> QED BY <1>4, <1>5, <1>6, <1>7

LEMMA CrashStep ==
  ASSUME IInv, Crash
  PROVE  IInv'
<1> USE DEF IInv
<1>1. /\ worker' = [w \in Workers |-> IdleWorker]
      /\ lock' = NoOne
      /\ UNCHANGED <<answer, stored, marked, told, loud, again>>
      /\ unmarked' = unmarked \cup
           UNION {worker[w].sent \cap worker[w].changed : w \in Workers}
  BY DEF Crash
<1>2. TypeOK'
  BY <1>1, IdleType DEF TypeOK, Crash, Unheard, WorkerState
<1>3. HolderReports' /\ SentTold'
  BY <1>1 DEF HolderReports, SentTold, IdleWorker
<1>4. LoudMarked' /\ OnePerCooldown'
  BY <1>1 DEF LoudMarked, OnePerCooldown
<1>5. UntoldHasReason'
  <2> SUFFICES ASSUME NEW g \in Groups, told[g] # stored[g]
               PROVE  g \in excused'
    BY <1>1 DEF UntoldHasReason
  <2>1. CASE g \in excused
    BY <2>1 DEF Crash, Unheard
  <2>2. CASE g \notin excused
    <3>1. PICK w \in Workers : g \in worker[w].changed \cup worker[w].moved
      BY <2>2 DEF UntoldHasReason
    <3>2. worker[w].pc = "notifying"
      BY <2>2, <3>1 DEF HolderReports, SentTold, TypeOK, WorkerState
    <3> QED BY <3>1, <3>2 DEF Crash, Unheard
  <2> QED BY <2>1, <2>2
<1> QED BY <1>2, <1>3, <1>4, <1>5

LEMMA CooldownStep ==
  ASSUME IInv, NEW g \in Groups, CooldownElapses(g)
  PROVE  IInv'
BY DEF IInv, CooldownElapses, TypeOK, HolderReports, SentTold, LoudMarked,
   UntoldHasReason, OnePerCooldown

LEMMA UpstreamStep ==
  ASSUME IInv, NEW now \in Answers, UpstreamChanges(now)
  PROVE  IInv'
BY DEF IInv, UpstreamChanges, history, TypeOK, HolderReports, SentTold,
   LoudMarked, UntoldHasReason, OnePerCooldown

LEMMA Stutter ==
  ASSUME IInv, UNCHANGED vars
  PROVE  IInv'
BY DEF IInv, vars, history, TypeOK, HolderReports, SentTold, LoudMarked,
   UntoldHasReason, OnePerCooldown

LEMMA NextInv == IInv /\ [Next]_vars => IInv'
BY FetchStep, PersistStep, PersistFailStep, SendStep, SkipStep, MarkStep,
   CrashStep, CooldownStep, UpstreamStep, Stutter DEF Next

-----------------------------------------------------------------------------
LEMMA InvariantHolds == Spec => []IInv
BY InitInv, NextInv, PTL DEF Spec

(* group_ratios, the event marks and the state of a sync keep their shape.  *)
THEOREM TypeCorrect == Spec => []TypeOK
BY InvariantHolds, PTL DEF IInv

(* _replace_group_ratios and _notify_rate_changes leave no difference       *)
(* between the stored ratio and the one the operator knows unexplained.     *)
THEOREM UntoldHasReasonHolds == Spec => []UntoldHasReason
BY InvariantHolds, PTL DEF IInv

(* The cooldown is per group: a group is told to have changed once within   *)
(* it, unless the commit of the first mark was lost.                        *)
THEOREM OnePerCooldownHolds == Spec => []OnePerCooldown
BY InvariantHolds, PTL DEF IInv
=============================================================================
