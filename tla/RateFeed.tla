------------------------------ MODULE RateFeed ------------------------------
(***************************************************************************)
(* The group ratios of one upstream: fetched without a lock by overlapping *)
(* syncs, replaced under the write lock together with the events that the  *)
(* comparison yields (_replace_group_ratios of                             *)
(* app/services/sync_service.py), and reported in one message with a       *)
(* cooldown per group (_notify_rate_changes) before the lock is released.  *)
(*                                                                         *)
(* A group is its name with its platform.  Ratios are whole numbers here,  *)
(* so that the percentage of a change is compared exactly.                 *)
(***************************************************************************)
EXTENDS Integers

CONSTANTS
  Groups,      \* group names
  Ratios,      \* their ratios
  Answers,     \* what the upstream may answer: ratios for all or some, or nothing
  MinPercent,  \* rate_change_min_percent
  Workers,     \* threads that sync the instance
  None,        \* no ratio: the group is not there
  NoOne

ASSUME RateAssumption ==
  /\ Ratios \subseteq Nat
  /\ MinPercent \in Nat
  /\ None \notin Ratios
  /\ NoOne \notin Workers
  /\ Answers \subseteq [Groups -> Ratios \cup {None}]

VARIABLES
  answer,    \* what a sync gets now
  stored,    \* group_ratios
  marked,    \* groups with a "changed" event notified and within the cooldown
  worker,    \* threads at work
  lock,      \* holder of SQLITE_WRITE_LOCK
  told,      \* history: the ratio the operator last heard of
  excused,   \* history: groups with a good reason why that is not the stored one
  loud,      \* history: groups told to have changed less than a cooldown ago
  unmarked,  \* history: those whose mark was not committed
  again      \* history: those told again within the cooldown

history == <<told, excused, loud, unmarked, again>>
vars == <<answer, stored, marked, worker, lock, history>>

Values == Ratios \cup {None}
Nothing == [g \in Groups |-> None]

IdleWorker == [pc |-> "idle", got |-> Nothing, changed |-> {}, moved |-> {},
               sent |-> {}]
WorkerState == [pc : {"idle", "fetched", "notifying", "sent"},
                got : [Groups -> Values], changed : SUBSET Groups,
                moved : SUBSET Groups, sent : SUBSET Groups]

TypeOK ==
  /\ answer \in Answers \cup {Nothing}
  /\ stored \in [Groups -> Values]
  /\ marked \subseteq Groups
  /\ worker \in [Workers -> WorkerState]
  /\ lock \in Workers \cup {NoOne}
  /\ told \in [Groups -> Values]
  /\ excused \subseteq Groups
  /\ loud \subseteq Groups
  /\ unmarked \subseteq Groups
  /\ again \subseteq Groups

Init ==
  /\ answer = Nothing
  /\ stored = Nothing
  /\ marked = {}
  /\ worker = [w \in Workers |-> IdleWorker]
  /\ lock = NoOne
  /\ told = Nothing
  /\ excused = {}
  /\ loud = {}
  /\ unmarked = {}
  /\ again = {}

-----------------------------------------------------------------------------
(* Mutant: groups that are not there have no entry.                         *)
FetchListed(w) ==
  /\ worker[w].pc = "idle"
  /\ LET there == {g \in Groups : answer[g] # None} IN
     worker' = [worker EXCEPT ![w] =
       [IdleWorker EXCEPT !.pc = "fetched",
                          !.got = [g \in there |-> answer[g]]]]
  /\ UNCHANGED <<answer, stored, marked, lock, history>>

(* Both clients turn failing group endpoints into an empty answer, like one *)
(* without groups: NewAPI's falls back to the groups of the price list,     *)
(* Sub2API's swallows the errors.                                           *)
Fetch(w) ==
  /\ worker[w].pc = "idle"
  /\ worker' = [worker EXCEPT ![w] =
       [IdleWorker EXCEPT !.pc = "fetched",
                          !.got = answer]]
  /\ UNCHANGED <<answer, stored, marked, lock, history>>

(* A change too small to be recorded; one from zero has no percentage and   *)
(* always counts.                                                           *)
Small(before, now) ==
  /\ before # 0
  /\ 100 * (IF now > before THEN now - before ELSE before - now)
       < MinPercent * before

(* Which groups of an answer get an event.  The first sync only builds a    *)
(* baseline, and so does every sync that finds no ratio at all.             *)
Baseline == stored = Nothing
There(g, got) == stored[g] # None /\ got[g] # None
Changed(got) == {g \in Groups : /\ There(g, got)
                                /\ stored[g] # got[g]
                                /\ ~Small(stored[g], got[g])}
Moved(got) == IF Baseline THEN {}
              ELSE {g \in Groups : (stored[g] = None) # (got[g] = None)}

(* (History: groups the operator need not hear of, until their next event.) *)
Unheard(groups, heard, actual) ==
  excused' = {g \in groups : heard[g] # actual[g]}

(* Mutant: a change too small to be recorded is not stored either.          *)
PersistChanges(w) ==
  LET got == worker[w].got
      small == {g \in Groups : There(g, got) /\ Small(stored[g], got[g])} IN
  /\ worker[w].pc = "fetched"
  /\ lock = NoOne
  /\ lock' = w
  /\ stored' = [g \in Groups |-> IF g \in small THEN stored[g] ELSE got[g]]
  /\ worker' = [worker EXCEPT ![w] =
       [IdleWorker EXCEPT !.pc = "notifying", !.changed = Changed(got),
                          !.moved = Moved(got)]]
  /\ UNCHANGED <<answer, marked, history>>

(* The ratios are replaced and the events inserted in one transaction.      *)
Persist(w) ==
  LET got == worker[w].got IN
  /\ worker[w].pc = "fetched"
  /\ lock = NoOne
  /\ lock' = w
  /\ stored' = got
  /\ worker' = [worker EXCEPT ![w] =
       [IdleWorker EXCEPT !.pc = "notifying", !.changed = Changed(got),
                          !.moved = Moved(got)]]
  /\ Unheard({g \in Groups : \/ got[g] = stored[g] /\ g \in excused
                             \/ There(g, got) /\ Small(stored[g], got[g])
                             \/ Baseline}, told, got)
  /\ UNCHANGED <<answer, marked, told, loud, unmarked, again>>

(* Another part of the sync fails, or the commit does.                      *)
PersistFail(w) ==
  /\ worker[w].pc = "fetched"
  /\ worker' = [worker EXCEPT ![w] = IdleWorker]
  /\ UNCHANGED <<answer, stored, marked, lock, history>>

(* Mutants: the cooldown of one group silences the others; none does.       *)
DeliverableByAny(w) ==
  worker[w].moved \cup (IF marked = {} THEN worker[w].changed ELSE {})
DeliverableAlways(w) == worker[w].moved \cup worker[w].changed

(* A change within the cooldown of the last notified one is passed over.    *)
Deliverable(w) == worker[w].moved \cup (worker[w].changed \ marked)

(* One message for all of them: sent, and accepted by a channel.            *)
Send(w) ==
  LET groups == Deliverable(w)
      repeated == groups \cap worker[w].changed IN
  /\ worker[w].pc = "notifying"
  /\ groups # {}
  /\ worker' = [worker EXCEPT ![w].pc = "sent", ![w].sent = groups]
  /\ told' = [g \in Groups |-> IF g \in groups THEN stored[g] ELSE told[g]]
  /\ Unheard((excused \ groups) \cup (worker[w].changed \cap marked), told', stored)
  /\ again' = again \cup (repeated \cap loud)
  /\ loud' = loud \cup repeated
  /\ UNCHANGED <<answer, stored, marked, lock, unmarked>>

Release(w) ==
  /\ worker' = [worker EXCEPT ![w] = IdleWorker]
  /\ lock' = NoOne

(* Nothing to send, or a switch is off, or no channel accepted it: it is    *)
(* not tried again.                                                         *)
Skip(w) ==
  /\ worker[w].pc = "notifying"
  /\ Release(w)
  /\ Unheard(excused \cup worker[w].changed \cup worker[w].moved, told, stored)
  /\ UNCHANGED <<answer, stored, marked, told, loud, unmarked, again>>

(* The marks of what was sent are committed, or that fails.  (The sync then *)
(* ends in its failure handler, SyncEngine's FinishFail, which touches none *)
(* of these tables.)                                                        *)
Mark(w, committed) ==
  LET groups == worker[w].sent \cap worker[w].changed IN
  /\ worker[w].pc = "sent"
  /\ Release(w)
  /\ IF committed THEN marked' = marked \cup groups /\ UNCHANGED unmarked
                  ELSE unmarked' = unmarked \cup groups /\ UNCHANGED marked
  /\ UNCHANGED <<answer, stored, told, excused, loud, again>>

-----------------------------------------------------------------------------
(* The process dies and is started again.                                   *)
Crash ==
  LET unsent == {w \in Workers : worker[w].pc = "notifying"} IN
  /\ worker' = [w \in Workers |-> IdleWorker]
  /\ lock' = NoOne
  /\ Unheard(excused \cup
             UNION {worker[w].changed \cup worker[w].moved : w \in unsent},
             told, stored)
  /\ unmarked' = unmarked \cup
       UNION {worker[w].sent \cap worker[w].changed : w \in Workers}
  /\ UNCHANGED <<answer, stored, marked, told, loud, again>>

(* Minutes at least; a message is marked in less.                           *)
CooldownElapses(g) ==
  /\ \A w \in Workers : g \notin worker[w].sent
  /\ g \in marked \cup loud
  /\ marked' = marked \ {g}
  /\ loud' = loud \ {g}
  /\ unmarked' = unmarked \ {g}
  /\ again' = again \ {g}
  /\ UNCHANGED <<answer, stored, worker, lock, told, excused>>

UpstreamChanges(now) ==
  /\ answer # now
  /\ answer' = now
  /\ UNCHANGED <<stored, marked, worker, lock, history>>

-----------------------------------------------------------------------------
Next ==
  \/ \E w \in Workers :
       \/ Fetch(w)
       \/ Persist(w)
       \/ PersistFail(w)
       \/ Send(w)
       \/ Skip(w)
       \/ \E committed \in BOOLEAN : Mark(w, committed)
  \/ Crash
  \/ \E g \in Groups : CooldownElapses(g)
  \/ \E now \in Answers : UpstreamChanges(now)

Spec == Init /\ [][Next]_vars

(***************************************************************************)
(* Syncs are started again and again, each goes on, the lock comes round   *)
(* to everyone who waits for it, and not every persistence phase fails.    *)
(***************************************************************************)
Fairness ==
  \A w \in Workers :
    /\ WF_vars(Fetch(w))
    /\ SF_vars(Persist(w))
    /\ WF_vars(Send(w) \/ Skip(w))
    /\ WF_vars(\E committed \in BOOLEAN : Mark(w, committed))

FairSpec == Spec /\ Fairness

-----------------------------------------------------------------------------
(* When the last ratio the operator heard of is not the stored one, a sync  *)
(* still has to tell, or there is a reason: the change was small, or within *)
(* a cooldown, or part of a baseline, or its message was not wanted, not    *)
(* accepted or lost with the process.                                       *)
UntoldHasReason ==
  \A g \in Groups :
    told[g] # stored[g] =>
      \/ g \in excused
      \/ \E w \in Workers : g \in worker[w].changed \cup worker[w].moved

(* Within a cooldown the operator hears once that a group changed, unless   *)
(* the mark of the first message was lost.                                  *)
OnePerCooldown == again \subseteq unmarked

(* Syncs that overlap with changes, failed fetches and crashes leave no     *)
(* wrong ratio behind: the table ends up with what the upstream offers.     *)
RatiosConverge ==
  \A g \in Groups, r \in Values :
    <>[](answer[g] = r) => <>[](stored[g] = r)
=============================================================================
