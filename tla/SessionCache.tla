---------------------------- MODULE SessionCache ----------------------------
(***************************************************************************)
(* The cached upstream session of one instance (instance_sessions): found, *)
(* checked, refreshed or replaced by every thread that talks to the        *)
(* upstream, without a lock (_ensure_session, _ensure_sub2api_session and  *)
(* _try_access_token_session of app/services/sync_service.py), and cleared *)
(* when someone edits the credentials (update_instance).                   *)
(*                                                                         *)
(* Each of a thread's requests is a step; a write is one too, since SQLite *)
(* lets in one writer at a time.  A refresh token is good once.            *)
(***************************************************************************)
EXTENDS Integers

CONSTANTS
  Accounts,
  Configs,    \* what an instance may be configured with
  Programs,   \* upstreams: "cookie" and "token" (NewAPI), "sub2api"
  Customers,  \* sets of accounts the upstream may let in
  Ids,        \* ids SQLite may give the row
  Workers,    \* threads that sync or test the instance
  MaxCrashes, \* bound: crashes
  None

ASSUME SessionAssumption ==
  /\ Configs \subseteq [owner : Accounts, password : BOOLEAN, key : BOOLEAN]
  /\ \A c \in Configs : c.password \/ c.key
  /\ Programs \subseteq {"cookie", "token", "sub2api"}
  /\ Customers \subseteq SUBSET Accounts
  /\ None \notin Ids
  /\ None \notin Workers
  /\ MaxCrashes \in Nat

VARIABLES
  program,  \* the upstream's
  valid,    \* accounts the upstream lets in
  config,   \* the row of instances: whose credentials, password or access key
  row,      \* the row of instance_sessions
  worker,   \* threads at work
  crashes   \* how often the process has died

environment == <<program, valid, crashes>>
vars == <<environment, config, row, worker>>

(* token: the refresh token is still good, or has been used, or has been    *)
(* used and what it was exchanged for is lost (history).  stray (history):  *)
(* stored by a thread that had begun before the credentials were edited.    *)
NoRow == [id |-> None]
Rows == [id : Ids, owner : Accounts, token : {"none", "good", "used", "lost"},
         stray : BOOLEAN]

(* What a thread knows of the row it found; current: the row still holds    *)
(* that session.                                                            *)
Finds == [id : Ids, owner : Accounts, stray : BOOLEAN, current : BOOLEAN]

(* outdated (history): the instance was edited while the thread was at it.  *)
WorkerState ==
  [pc : {"idle", "key", "read", "check", "refresh", "refreshed", "login",
         "loggedin", "ready"},
   config : Configs \cup {None}, found : Finds \cup {NoRow} \cup [id : Ids],
   owner : Accounts \cup {None}, stray : BOOLEAN, outdated : BOOLEAN]
IdleWorker == [pc |-> "idle", config |-> None, found |-> NoRow, owner |-> None,
               stray |-> FALSE, outdated |-> FALSE]

TypeOK ==
  /\ program \in Programs
  /\ valid \in Customers
  /\ config \in Configs
  /\ row \in Rows \cup {NoRow}
  /\ worker \in [Workers -> WorkerState]
  /\ crashes \in 0..MaxCrashes

Init ==
  /\ program \in Programs
  /\ valid \in Customers
  /\ config \in Configs
  /\ row = NoRow
  /\ worker = [w \in Workers |-> IdleWorker]
  /\ crashes = 0

-----------------------------------------------------------------------------
(* Which access keys are tried before the cache: with Sub2API a password    *)
(* comes first, with NewAPI the key.                                        *)
UsesKey(c) == c.key /\ (program = "sub2api" => ~c.password)

(* A thread loads the instance.                                             *)
Start(w) ==
  /\ worker[w].pc = "idle"
  /\ worker' = [worker EXCEPT ![w] =
       [IdleWorker EXCEPT !.pc = IF UsesKey(config) THEN "key" ELSE "read",
                          !.config = config]]
  /\ UNCHANGED <<environment, config, row>>

(* It has a session, and forgets how it came by it.                         *)
Ready(w, owner, stray) ==
  [IdleWorker EXCEPT !.pc = "ready", !.config = worker[w].config, !.owner = owner,
                     !.stray = stray, !.outdated = worker[w].outdated]

(* The access key is good.                                                  *)
KeyWorks(w) ==
  /\ worker[w].pc = "key"
  /\ worker[w].config.owner \in valid
  /\ worker' = [worker EXCEPT ![w] = Ready(w, worker[w].config.owner, FALSE)]
  /\ UNCHANGED <<environment, config, row>>

(* It is not, or the request fails: on to the password if there is one.     *)
KeyFails(w) ==
  /\ worker[w].pc = "key"
  /\ worker' = [worker EXCEPT ![w] =
       IF @.config.password THEN [@ EXCEPT !.pc = "read"] ELSE IdleWorker]
  /\ UNCHANGED <<environment, config, row>>

Read(w) ==
  /\ worker[w].pc = "read"
  /\ worker' = [worker EXCEPT ![w] =
       IF row = NoRow THEN [@ EXCEPT !.pc = "login"]
       ELSE [@ EXCEPT !.pc = "check",
                      !.found = [id |-> row.id, owner |-> row.owner,
                                 stray |-> row.stray, current |-> TRUE]]]
  /\ UNCHANGED <<environment, config, row>>

(* Mutant: the upstream is not asked.                                       *)
CheckWorksUnasked(w) ==
  /\ worker[w].pc = "check"
  /\ worker' = [worker EXCEPT ![w] = Ready(w, @.found.owner, @.found.stray)]
  /\ UNCHANGED <<environment, config, row>>

(* A request with the cached session succeeds.                              *)
CheckWorks(w) ==
  /\ worker[w].pc = "check"
  /\ worker[w].found.owner \in valid
  /\ worker' = [worker EXCEPT ![w] = Ready(w, @.found.owner, @.found.stray)]
  /\ UNCHANGED <<environment, config, row>>

(* Back to the password: of the row only the id matters now.                *)
ToLogin(w) == [worker[w] EXCEPT !.pc = "login", !.found = [id |-> @.id]]

(* expires_at has passed, or the request fails.                             *)
CheckFails(w) ==
  /\ worker[w].pc = "check"
  /\ worker' = [worker EXCEPT ![w] =
       IF program = "token" THEN [@ EXCEPT !.pc = "refresh"]
       ELSE ToLogin(w)]
  /\ UNCHANGED <<environment, config, row>>

(* The row once its session has changed, or its token has: threads that     *)
(* found what it was before know it by that.                                *)
Outrun(w, state) ==
  [u \in Workers |->
     IF u = w THEN state
     ELSE IF worker[u].pc \in {"check", "refresh", "refreshed"}
     THEN [worker[u] EXCEPT !.found.current = FALSE]
     ELSE worker[u]]

(* The refresh token is exchanged for a session and the next token, if it   *)
(* is still good; another thread may have used it, if it is not the row's.  *)
RefreshWorks(w) ==
  LET found == worker[w].found IN
  /\ worker[w].pc = "refresh"
  /\ found.owner \in valid
  /\ found.current => row.token = "good"
  /\ worker' = [worker EXCEPT ![w].pc = "refreshed", ![w].owner = found.owner,
                              ![w].stray = found.stray]
  /\ row' = IF found.current THEN [row EXCEPT !.token = "used"] ELSE row
  /\ UNCHANGED <<environment, config>>

(* Mutant: a refresh token that is not taken is an error.                   *)
RefreshFailsForGood(w) ==
  /\ worker[w].pc = "refresh"
  /\ worker' = [worker EXCEPT ![w] = IdleWorker]
  /\ UNCHANGED <<environment, config, row>>

(* It is not taken, or its answer is lost.                                  *)
RefreshFails(w) ==
  /\ worker[w].pc = "refresh"
  /\ worker' = [worker EXCEPT ![w] = ToLogin(w)]
  /\ \/ UNCHANGED row
     \/ /\ worker[w].found.current
        /\ row.token = "good"
        /\ row' = [row EXCEPT !.token = "lost"]
  /\ UNCHANGED <<environment, config>>

(* With the credentials loaded at the start.                                *)
LoginWorks(w) ==
  /\ worker[w].pc = "login"
  /\ worker[w].config.owner \in valid
  /\ worker' = [worker EXCEPT ![w].pc = "loggedin", ![w].owner = worker[w].config.owner]
  /\ UNCHANGED <<environment, config, row>>

(* The account is not let in, for good or for now.                          *)
LoginFails(w) ==
  /\ worker[w].pc = "login"
  /\ worker[w].config.owner \notin valid
  /\ worker' = [worker EXCEPT ![w] = IdleWorker]
  /\ UNCHANGED <<environment, config, row>>

(* What is stored.  Only modern NewAPI has refresh tokens.                  *)
Stored(w, id) ==
  [id |-> id, owner |-> worker[w].owner,
   token |-> IF program = "token" THEN "good" ELSE "none",
   stray |-> worker[w].stray \/ worker[w].outdated]

Storing(w) == worker[w].pc \in {"refreshed", "loggedin"}

(* No row was found: insert one.                                            *)
Insert(w, id) ==
  /\ Storing(w)
  /\ worker[w].found = NoRow
  /\ row = NoRow
  /\ row' = Stored(w, id)
  /\ worker' = [worker EXCEPT ![w] = Ready(w, @.owner, @.stray)]
  /\ UNCHANGED <<environment, config>>

(* Another thread's row is there already: take its session.                 *)
InsertConflicts(w) ==
  /\ Storing(w)
  /\ worker[w].found = NoRow
  /\ row # NoRow
  /\ worker' = [worker EXCEPT ![w] = Ready(w, row.owner, row.stray)]
  /\ UNCHANGED <<environment, config, row>>

(* Mutant: the next refresh token is not stored.                            *)
UpdateButToken(w) ==
  /\ Storing(w)
  /\ row # NoRow
  /\ row.id = worker[w].found.id
  /\ row' = [Stored(w, row.id) EXCEPT !.token = row.token]
  /\ worker' = Outrun(w, Ready(w, worker[w].owner, worker[w].stray))
  /\ UNCHANGED <<environment, config>>

(* Update the row that was found, whatever it holds by now.                 *)
Update(w) ==
  /\ Storing(w)
  /\ row # NoRow
  /\ row.id = worker[w].found.id
  /\ row' = Stored(w, row.id)
  /\ worker' = Outrun(w, Ready(w, worker[w].owner, worker[w].stray))
  /\ UNCHANGED <<environment, config>>

(* What a thread leaves that used up the row's token and stored nothing.    *)
Abandoned(threads) ==
  IF \E w \in threads : worker[w].pc = "refreshed" /\ worker[w].found.current
  THEN [row EXCEPT !.token = "lost"] ELSE row

(* That row is gone.  (A write that fails is like a crash of the thread.)   *)
StoreFails(w) ==
  /\ Storing(w)
  /\ worker[w].found # NoRow
  /\ row = NoRow \/ row.id # worker[w].found.id
  /\ row' = Abandoned({w})
  /\ worker' = [worker EXCEPT ![w] = IdleWorker]
  /\ UNCHANGED <<environment, config>>

(* Mutant: a phase that nobody leaves.                                      *)
DoneStuck(w) ==
  /\ worker[w].pc = "ready"
  /\ worker' = [worker EXCEPT ![w].pc = "done"]
  /\ UNCHANGED <<environment, config, row>>

Done(w) ==
  /\ worker[w].pc = "ready"
  /\ worker' = [worker EXCEPT ![w] = IdleWorker]
  /\ UNCHANGED <<environment, config, row>>

-----------------------------------------------------------------------------
(* Every thread at work began with what is no longer so.                    *)
Outdated(threads) ==
  [w \in Workers |-> [threads[w] EXCEPT !.outdated = threads[w].pc # "idle"]]

(* Mutant: the session is left alone.                                       *)
EditKeep(c) ==
  /\ c # config
  /\ config' = c
  /\ worker' = Outdated(worker)
  /\ UNCHANGED <<environment, row>>

(* update_instance: when a field that matters to the login changes, the     *)
(* cached session is looked up and deleted with the change.  (What another  *)
(* thread writes between the two ends up as if written before or after.)    *)
Edit(c) ==
  /\ c # config
  /\ config' = c
  /\ row' = NoRow
  /\ worker' = Outdated(IF row = NoRow THEN worker ELSE Outrun(None, IdleWorker))
  /\ UNCHANGED environment

(* An account is closed, or opened again.                                   *)
UpstreamChanges(accounts) ==
  /\ valid # accounts
  /\ valid' = accounts
  /\ UNCHANGED <<program, crashes, config, row, worker>>

(* The process dies and is started again.                                   *)
Crash ==
  /\ crashes < MaxCrashes
  /\ crashes' = crashes + 1
  /\ row' = Abandoned(Workers)
  /\ worker' = [w \in Workers |-> IdleWorker]
  /\ UNCHANGED <<program, valid, config>>

-----------------------------------------------------------------------------
Step(w) ==
  \/ Start(w)
  \/ KeyWorks(w) \/ KeyFails(w)
  \/ Read(w)
  \/ CheckWorks(w) \/ CheckFails(w)
  \/ RefreshWorks(w) \/ RefreshFails(w)
  \/ LoginWorks(w) \/ LoginFails(w)
  \/ \E id \in Ids : Insert(w, id)
  \/ InsertConflicts(w)
  \/ Update(w)
  \/ StoreFails(w)
  \/ Done(w)

Next ==
  \/ \E w \in Workers : Step(w)
  \/ \E c \in Configs : Edit(c)
  \/ \E accounts \in Customers : UpstreamChanges(accounts)
  \/ Crash

Spec == Init /\ [][Next]_vars

(***************************************************************************)
(* Threads go on, and start again.  Which requests fail is left open.      *)
(***************************************************************************)
Fairness == \A w \in Workers : WF_vars(Step(w))

FairSpec == Spec /\ Fairness

-----------------------------------------------------------------------------
(* A session of another account than the instance's is cached only if a     *)
(* login and an edit of the credentials overlapped; and a thread works with *)
(* one only if it found it there or the edit came while it was at work.     *)
OwnAccount ==
  /\ row # NoRow /\ row.owner # config.owner => row.stray
  /\ \A w \in Workers :
       worker[w].pc = "ready" /\ worker[w].owner # worker[w].config.owner
         => worker[w].stray \/ worker[w].outdated

(* A cached refresh token that has been used is about to be replaced, or    *)
(* what it was exchanged for got lost: threads that store sessions side by  *)
(* side never put a used one back.                                          *)
RotationStored ==
  row # NoRow /\ row.token = "used" =>
    \E w \in Workers : worker[w].pc = "refreshed" /\ worker[w].found.current

(* Whatever expired, was used up, lost or left by a crash: as long as the   *)
(* upstream takes the configured password, syncs keep getting in.           *)
KeepsGettingIn ==
  \A c \in Configs :
    <>[](config = c /\ c.password /\ c.owner \in valid)
      => []<>(\E w \in Workers : worker[w].pc = "ready")

(* Another account's cached session goes when the upstream stops taking it. *)
StrangerGoes ==
  \A c \in Configs :
    <>[](config = c /\ ~UsesKey(c) /\ valid = {c.owner})
      => <>[](row = NoRow \/ row.owner = c.owner)
=============================================================================
