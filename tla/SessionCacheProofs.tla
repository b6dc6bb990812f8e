------------------------- MODULE SessionCacheProofs -------------------------
(***************************************************************************)
(* Safety of SessionCache for any accounts, configurations and threads,    *)
(* any ids the row may get and any number of crashes.                      *)
(***************************************************************************)
EXTENDS SessionCache, TLAPS

Looking == {"check", "refresh", "refreshed"}
Holding == {"refreshed", "loggedin", "ready"}

(* What a thread at work knows: of the instance, unless that was edited; of *)
(* the row it found; of the session it has.                                 *)
Sound(s) ==
  /\ s.pc # "idle" => s.config \in Configs /\ (s.outdated \/ s.config = config)
  /\ s.pc \in Looking =>
       /\ s.found \in Finds
       /\ s.found.owner # s.config.owner => s.found.stray \/ s.outdated
       /\ s.found.current => row \in Rows /\ row.id = s.found.id
  /\ s.pc \in {"key", "read"} => s.found = NoRow
  /\ s.pc \in {"login", "loggedin"} => s.found \in {NoRow} \cup [id : Ids]
  /\ s.pc \in Holding =>
       /\ s.owner \in Accounts
       /\ s.owner # s.config.owner => s.stray \/ s.outdated

IInv ==
  /\ TypeOK
  /\ \A w \in Workers : Sound(worker[w])
  /\ OwnAccount
  /\ RotationStored

-----------------------------------------------------------------------------
LEMMA IdleType == IdleWorker \in WorkerState /\ Sound(IdleWorker)
BY DEF IdleWorker, WorkerState, Sound, Looking, Holding

LEMMA OwnerType == ASSUME NEW c \in Configs PROVE c.owner \in Accounts
BY SessionAssumption

LEMMA NoRowIsNone ==
  /\ NoRow.id = None
  /\ NoRow \notin Rows
  /\ NoRow \notin Finds
  /\ NoRow \notin [id : Ids]
BY SessionAssumption DEF NoRow, Rows, Finds

LEMMA InitInv == Init => IInv
<1> SUFFICES ASSUME Init PROVE IInv
  OBVIOUS
<1>1. TypeOK
  BY IdleType, SessionAssumption DEF Init, TypeOK
<1>2. \A w \in Workers : worker[w] = IdleWorker
  BY DEF Init
<1>3. \A w \in Workers : Sound(worker[w])
  BY <1>2, IdleType
<1>4. OwnAccount
  BY <1>2 DEF Init, OwnAccount, IdleWorker
<1>5. RotationStored
  BY DEF Init, RotationStored
<1> QED BY <1>1, <1>3, <1>4, <1>5 DEF IInv

(* A step of one thread that changes nothing but its own state.             *)
LEMMA OneMoves ==
  ASSUME IInv, NEW w \in Workers, NEW s \in WorkerState,
         worker' = [worker EXCEPT ![w] = s],
         UNCHANGED <<environment, config, row>>,
         Sound(s),
         worker[w].pc # "refreshed"
  PROVE  IInv'
<1>1. worker'[w] = s /\ \A v \in Workers \ {w} : worker'[v] = worker[v]
  BY DEF IInv, TypeOK
<1>2. TypeOK'
  BY DEF IInv, TypeOK, environment
<1>3. \A v \in Workers : Sound(worker[v])'
  BY <1>1 DEF IInv, Sound
<1>4. OwnAccount'
  BY <1>1, <1>3 DEF IInv, OwnAccount, Sound, Holding
<1>5. RotationStored'
  BY <1>1 DEF IInv, RotationStored
<1> QED BY <1>2, <1>3, <1>4, <1>5 DEF IInv

LEMMA ReadyIs ==
  ASSUME IInv, NEW w \in Workers, NEW owner \in Accounts, NEW stray \in BOOLEAN,
         worker[w].pc # "idle",
         owner # worker[w].config.owner => stray \/ worker[w].outdated
  PROVE  Ready(w, owner, stray) \in WorkerState /\ Sound(Ready(w, owner, stray))
<1>1. worker[w] \in WorkerState /\ Sound(worker[w])
  BY DEF IInv, TypeOK
<1>2. /\ Ready(w, owner, stray) \in WorkerState
      /\ Ready(w, owner, stray).pc = "ready"
      /\ Ready(w, owner, stray).config = worker[w].config
      /\ Ready(w, owner, stray).owner = owner
      /\ Ready(w, owner, stray).stray = stray
      /\ Ready(w, owner, stray).outdated = worker[w].outdated
  BY <1>1 DEF Ready, IdleWorker, WorkerState
<1> HIDE DEF Ready
<1> QED BY <1>1, <1>2 DEF Sound, Looking, Holding

LEMMA StartStep ==
  ASSUME IInv, NEW w \in Workers, Start(w)
  PROVE  IInv'
<1> DEFINE s == [IdleWorker EXCEPT !.pc = IF UsesKey(config) THEN "key" ELSE "read",
                                   !.config = config]
<1>1. s \in WorkerState
  BY DEF IdleWorker, WorkerState, IInv, TypeOK
<1>2. Sound(s)
  BY DEF IdleWorker, IInv, TypeOK, Sound, Looking, Holding
<1> QED BY <1>1, <1>2, OneMoves DEF Start

LEMMA KeyStep ==
  ASSUME IInv, NEW w \in Workers, KeyWorks(w) \/ KeyFails(w)
  PROVE  IInv'
<1>1. /\ worker[w] \in WorkerState
      /\ Sound(worker[w])
      /\ worker[w].pc = "key"
      /\ worker[w].config \in Configs
  BY DEF KeyWorks, KeyFails, IInv, TypeOK, Sound
<1>2. CASE KeyWorks(w)
  BY <1>1, <1>2, OwnerType, ReadyIs, OneMoves DEF KeyWorks
<1>3. CASE KeyFails(w)
  <2> DEFINE s == [worker[w] EXCEPT !.pc = "read"]
  <2>1. s \in WorkerState /\ Sound(s)
    BY <1>1 DEF WorkerState, Sound, Looking, Holding
  <2>2. \/ worker' = [worker EXCEPT ![w] = s]
        \/ worker' = [worker EXCEPT ![w] = IdleWorker]
    BY <1>3 DEF KeyFails
  <2>3. UNCHANGED <<environment, config, row>>
    BY <1>3 DEF KeyFails
  <2> HIDE DEF s
  <2> QED BY <1>1, <2>1, <2>2, <2>3, IdleType, OneMoves
<1> QED BY <1>2, <1>3

LEMMA ReadStep ==
  ASSUME IInv, NEW w \in Workers, Read(w)
  PROVE  IInv'
<1> DEFINE new == [worker[w] EXCEPT !.pc = "login"]
           found == [id |-> row.id, owner |-> row.owner, stray |-> row.stray,
                     current |-> TRUE]
           old == [worker[w] EXCEPT !.pc = "check", !.found = found]
<1>1. /\ worker[w] \in WorkerState
      /\ Sound(worker[w])
      /\ worker[w].pc = "read"
      /\ UNCHANGED <<environment, config, row>>
  BY DEF Read, IInv, TypeOK
<1>2. CASE row = NoRow
  <2>1. new \in WorkerState /\ Sound(new)
    BY <1>1 DEF WorkerState, Sound, Looking, Holding
  <2> QED BY <1>1, <1>2, <2>1, OneMoves DEF Read
<1>3. CASE row # NoRow
  <2>1. row \in Rows /\ found \in Finds
    BY <1>3 DEF IInv, TypeOK, Rows, Finds
  <2>2. found.owner # worker[w].config.owner => found.stray \/ worker[w].outdated
    BY <1>1, <1>3 DEF IInv, OwnAccount, Sound
  <2>3. found.id = row.id
    OBVIOUS
  <2> HIDE DEF found
  <2>4. /\ old \in WorkerState
        /\ old.pc = "check"
        /\ old.found = found
        /\ old.config = worker[w].config
        /\ old.outdated = worker[w].outdated
    BY <1>1, <2>1 DEF WorkerState
  <2>5. Sound(old)
    BY <1>1, <2>1, <2>2, <2>3, <2>4 DEF Sound, Looking, Holding
  <2>6. worker' = [worker EXCEPT ![w] = old]
    BY <1>3 DEF Read, found
  <2> HIDE DEF old
  <2> QED BY <1>1, <2>4, <2>5, <2>6, OneMoves
<1> QED BY <1>2, <1>3

LEMMA ToLoginIs ==
  ASSUME IInv, NEW w \in Workers, worker[w].pc \in Looking
  PROVE  /\ ToLogin(w) \in WorkerState
         /\ Sound(ToLogin(w))
         /\ ToLogin(w).pc = "login"
<1>1. /\ worker[w] \in WorkerState
      /\ Sound(worker[w])
      /\ worker[w].found \in Finds
      /\ worker[w].pc # "idle"
  BY DEF IInv, TypeOK, Sound, Looking
<1>2. [id |-> worker[w].found.id] \in [id : Ids]
  BY <1>1 DEF Finds
<1>3. /\ ToLogin(w) \in WorkerState
      /\ ToLogin(w).pc = "login"
      /\ ToLogin(w).found = [id |-> worker[w].found.id]
      /\ ToLogin(w).config = worker[w].config
      /\ ToLogin(w).outdated = worker[w].outdated
  BY <1>1, <1>2 DEF ToLogin, WorkerState
<1> HIDE DEF ToLogin
<1> QED BY <1>1, <1>2, <1>3 DEF Sound, Looking, Holding

LEMMA CheckStep ==
  ASSUME IInv, NEW w \in Workers, CheckWorks(w) \/ CheckFails(w)
  PROVE  IInv'
<1>1. /\ worker[w] \in WorkerState
      /\ Sound(worker[w])
      /\ worker[w].pc = "check"
      /\ worker[w].found \in Finds
      /\ UNCHANGED <<environment, config, row>>
  BY DEF CheckWorks, CheckFails, IInv, TypeOK, Sound, Looking
<1>2. CASE CheckWorks(w)
  <2>1. /\ worker[w].found.owner \in Accounts
        /\ worker[w].found.stray \in BOOLEAN
        /\ worker[w].found.owner # worker[w].config.owner
             => worker[w].found.stray \/ worker[w].outdated
    BY <1>1 DEF Finds, Sound, Looking
  <2> QED BY <1>1, <1>2, <2>1, ReadyIs, OneMoves DEF CheckWorks
<1>3. CASE CheckFails(w)
  <2> DEFINE s == [worker[w] EXCEPT !.pc = "refresh"]
  <2>1. s \in WorkerState /\ Sound(s)
    BY <1>1 DEF WorkerState, Sound, Looking, Holding
  <2>2. \/ worker' = [worker EXCEPT ![w] = s]
        \/ worker' = [worker EXCEPT ![w] = ToLogin(w)]
    BY <1>3 DEF CheckFails
  <2> HIDE DEF s
  <2> QED BY <1>1, <2>1, <2>2, ToLoginIs, OneMoves DEF Looking
<1> QED BY <1>2, <1>3

(* A row that keeps its id and owner, as every thread knows it.             *)
LEMMA TokenMoves ==
  ASSUME IInv, NEW w \in Workers, NEW s \in WorkerState,
         worker' = [worker EXCEPT ![w] = s],
         UNCHANGED <<environment, config>>,
         row \in Rows,
         row' \in Rows,
         row'.id = row.id, row'.owner = row.owner, row'.stray = row.stray,
         Sound(s),
         row'.token = "used" => s.pc = "refreshed" /\ s.found.current
  PROVE  IInv'
<1>1. worker'[w] = s /\ \A v \in Workers \ {w} : worker'[v] = worker[v]
  BY DEF IInv, TypeOK
<1>2. TypeOK'
  BY DEF IInv, TypeOK, environment
<1>3. \A v \in Workers : Sound(worker[v])'
  BY <1>1 DEF IInv, Sound
<1>4. OwnAccount'
  BY <1>1, <1>3, NoRowIsNone DEF IInv, OwnAccount, Sound, Holding
<1>5. RotationStored'
  BY <1>1 DEF RotationStored
<1> QED BY <1>2, <1>3, <1>4, <1>5 DEF IInv

LEMMA RefreshStep ==
  ASSUME IInv, NEW w \in Workers, RefreshWorks(w) \/ RefreshFails(w)
  PROVE  IInv'
<1>1. /\ worker[w] \in WorkerState
      /\ Sound(worker[w])
      /\ worker[w].pc = "refresh"
      /\ worker[w].found \in Finds
      /\ worker[w].found.current => row \in Rows
      /\ UNCHANGED <<environment, config>>
  BY DEF RefreshWorks, RefreshFails, IInv, TypeOK, Sound, Looking
<1>2. CASE RefreshWorks(w)
  <2> DEFINE s == [worker[w] EXCEPT !.pc = "refreshed",
                                    !.owner = worker[w].found.owner,
                                    !.stray = worker[w].found.stray]
  <2>1. /\ worker[w].found.owner \in Accounts
        /\ worker[w].found.stray \in BOOLEAN
        /\ worker[w].found.current \in BOOLEAN
    BY <1>1 DEF Finds
  <2>2. /\ s \in WorkerState
        /\ s.pc = "refreshed"
        /\ s.owner = worker[w].found.owner
        /\ s.stray = worker[w].found.stray
        /\ s.found = worker[w].found
        /\ s.config = worker[w].config
        /\ s.outdated = worker[w].outdated
    BY <1>1, <2>1 DEF WorkerState
  <2>3. worker' = [worker EXCEPT ![w] = s]
    BY <1>2 DEF RefreshWorks
  <2> HIDE DEF s
  <2>4. Sound(s)
    BY <1>1, <2>1, <2>2 DEF Sound, Looking, Holding
  <2>5. CASE worker[w].found.current
    <3>1. row' = [row EXCEPT !.token = "used"]
      BY <1>2, <2>5 DEF RefreshWorks
    <3>2. row' \in Rows /\ row'.id = row.id /\ row'.owner = row.owner
          /\ row'.stray = row.stray
      BY <1>1, <2>5, <3>1 DEF Rows
    <3> QED BY <1>1, <2>2, <2>3, <2>4, <2>5, <3>2, TokenMoves
  <2>6. CASE ~worker[w].found.current
    BY <1>1, <1>2, <2>2, <2>3, <2>4, <2>6, OneMoves DEF RefreshWorks
  <2> QED BY <2>5, <2>6
<1>3. CASE RefreshFails(w)
  <2>1. worker' = [worker EXCEPT ![w] = ToLogin(w)]
    BY <1>3 DEF RefreshFails
  <2>2. ToLogin(w) \in WorkerState /\ Sound(ToLogin(w)) /\ ToLogin(w).pc = "login"
    BY <1>1, ToLoginIs DEF Looking
  <2>3. CASE row' = row
    BY <1>1, <2>1, <2>2, <2>3, OneMoves
  <2>4. CASE row' # row
    <3>1. row \in Rows /\ row' = [row EXCEPT !.token = "lost"]
      BY <1>1, <1>3, <2>4 DEF RefreshFails
    <3>2. /\ row' \in Rows /\ row'.id = row.id /\ row'.owner = row.owner
          /\ row'.stray = row.stray /\ row'.token = "lost"
      BY <3>1 DEF Rows
    <3> QED BY <1>1, <2>1, <2>2, <3>1, <3>2, TokenMoves
  <2> QED BY <2>3, <2>4
<1> QED BY <1>2, <1>3

LEMMA LoginStep ==
  ASSUME IInv, NEW w \in Workers, LoginWorks(w) \/ LoginFails(w)
  PROVE  IInv'
<1>1. /\ worker[w] \in WorkerState
      /\ Sound(worker[w])
      /\ worker[w].pc = "login"
      /\ worker[w].config \in Configs
      /\ UNCHANGED <<environment, config, row>>
  BY DEF LoginWorks, LoginFails, IInv, TypeOK, Sound
<1>2. CASE LoginWorks(w)
  <2> DEFINE s == [worker[w] EXCEPT !.pc = "loggedin",
                                    !.owner = worker[w].config.owner]
  <2>1. worker[w].config.owner \in Accounts
    BY <1>1, OwnerType
  <2>2. /\ s \in WorkerState
        /\ s.pc = "loggedin"
        /\ s.owner = worker[w].config.owner
        /\ s.found = worker[w].found
        /\ s.config = worker[w].config
        /\ s.outdated = worker[w].outdated
    BY <1>1, <2>1 DEF WorkerState
  <2>3. worker' = [worker EXCEPT ![w] = s]
    BY <1>2 DEF LoginWorks
  <2> HIDE DEF s
  <2>4. Sound(s)
    BY <1>1, <2>1, <2>2 DEF Sound, Looking, Holding
  <2> QED BY <1>1, <2>2, <2>3, <2>4, OneMoves
<1>3. CASE LoginFails(w)
  BY <1>1, <1>3, IdleType, OneMoves DEF LoginFails
<1> QED BY <1>2, <1>3

LEMMA DoneStep ==
  ASSUME IInv, NEW w \in Workers, Done(w)
  PROVE  IInv'
BY IdleType, OneMoves DEF Done

LEMMA StoringIs ==
  ASSUME IInv, NEW w \in Workers, NEW id \in Ids, Storing(w)
  PROVE  /\ Stored(w, id) \in Rows
         /\ Stored(w, id).id = id
         /\ Stored(w, id).token # "used"
         /\ Stored(w, id).owner # config.owner => Stored(w, id).stray
         /\ Ready(w, worker[w].owner, worker[w].stray) \in WorkerState
         /\ Sound(Ready(w, worker[w].owner, worker[w].stray))
<1>1. /\ worker[w] \in WorkerState
      /\ Sound(worker[w])
      /\ worker[w].pc \in {"refreshed", "loggedin"}
      /\ worker[w].owner \in Accounts
      /\ worker[w].stray \in BOOLEAN /\ worker[w].outdated \in BOOLEAN
  BY DEF Storing, IInv, TypeOK, Sound, WorkerState, Holding
<1>2. Stored(w, id) \in Rows
  BY <1>1 DEF Stored, Rows
<1>3. Stored(w, id).id = id /\ Stored(w, id).token # "used"
  BY DEF Stored
<1>4. Stored(w, id).owner # config.owner => Stored(w, id).stray
  BY <1>1 DEF Stored, Sound, Holding
<1>5. worker[w].owner # worker[w].config.owner => worker[w].stray \/ worker[w].outdated
  BY <1>1 DEF Sound, Holding
<1> QED BY <1>1, <1>2, <1>3, <1>4, <1>5, ReadyIs

(* Nobody knows a row that is not there.                                    *)
LEMMA InsertStep ==
  ASSUME IInv, NEW w \in Workers, NEW id \in Ids, Insert(w, id)
  PROVE  IInv'
<1> DEFINE s == Ready(w, worker[w].owner, worker[w].stray)
<1>1. /\ s \in WorkerState /\ Sound(s)
      /\ worker' = [worker EXCEPT ![w] = s]
      /\ row = NoRow
      /\ row' \in Rows
      /\ row'.token # "used"
      /\ row'.owner # config.owner => row'.stray
      /\ UNCHANGED <<environment, config>>
  BY StoringIs DEF Insert
<1> HIDE DEF s
<1>2. worker'[w] = s /\ \A v \in Workers \ {w} : worker'[v] = worker[v]
  BY <1>1 DEF IInv, TypeOK
<1>3. TypeOK'
  BY <1>1 DEF IInv, TypeOK, environment
<1>4. \A v \in Workers : Sound(worker[v])'
  BY <1>1, <1>2, NoRowIsNone DEF IInv, Sound
<1>5. OwnAccount'
  BY <1>1, <1>4 DEF OwnAccount, Sound, Holding
<1>6. RotationStored'
  BY <1>1 DEF RotationStored
<1> QED BY <1>3, <1>4, <1>5, <1>6 DEF IInv

LEMMA ConflictStep ==
  ASSUME IInv, NEW w \in Workers, InsertConflicts(w)
  PROVE  IInv'
<1>1. /\ worker[w] \in WorkerState
      /\ Sound(worker[w])
      /\ worker[w].pc = "loggedin"
      /\ row \in Rows
      /\ row.owner # config.owner => row.stray
  BY NoRowIsNone DEF InsertConflicts, Storing, IInv, TypeOK, Sound, Looking, OwnAccount
<1>2. /\ row.owner \in Accounts /\ row.stray \in BOOLEAN
      /\ row.owner # worker[w].config.owner => row.stray \/ worker[w].outdated
  BY <1>1 DEF Rows, Sound
<1> QED BY <1>1, <1>2, ReadyIs, OneMoves DEF InsertConflicts

(* Threads that found what the row held before know it is no longer so.     *)
LEMMA UpdateStep ==
  ASSUME IInv, NEW w \in Workers, Update(w)
  PROVE  IInv'
<1> DEFINE s == Ready(w, worker[w].owner, worker[w].stray)
<1>1. row \in Rows /\ row.id \in Ids
  BY DEF Update, IInv, TypeOK, Rows
<1>2. /\ s \in WorkerState /\ Sound(s)
      /\ s.pc = "ready"
      /\ worker' = Outrun(w, s)
      /\ row' \in Rows
      /\ row'.token # "used"
      /\ row'.owner # config.owner => row'.stray
      /\ UNCHANGED <<environment, config>>
  BY <1>1, StoringIs DEF Update, Ready, IdleWorker
<1> HIDE DEF s
<1>3. worker'[w] = s
  BY <1>2 DEF Outrun
<1>4. \A v \in Workers \ {w} : worker'[v] \in WorkerState /\ Sound(worker[v])'
  <2> SUFFICES ASSUME NEW v \in Workers \ {w}
               PROVE  worker'[v] \in WorkerState /\ Sound(worker[v])'
    OBVIOUS
  <2>1. worker[v] \in WorkerState /\ Sound(worker[v])
    BY DEF IInv, TypeOK
  <2>2. CASE worker[v].pc \in Looking
    <3> DEFINE found == [worker[v].found EXCEPT !.current = FALSE]
               u == [worker[v] EXCEPT !.found = found]
    <3>1. worker'[v] = u
      BY <1>2, <2>2 DEF Outrun, Looking
    <3>2. /\ found \in Finds
          /\ found.owner = worker[v].found.owner
          /\ found.stray = worker[v].found.stray
          /\ ~found.current
      BY <2>1, <2>2 DEF Sound, Finds
    <3> HIDE DEF found
    <3>3. /\ u \in WorkerState
          /\ u.pc = worker[v].pc
          /\ u.found = found
          /\ u.owner = worker[v].owner
          /\ u.stray = worker[v].stray
          /\ u.config = worker[v].config
          /\ u.outdated = worker[v].outdated
      BY <2>1, <3>2 DEF WorkerState
    <3> HIDE DEF u
    <3> QED BY <1>2, <2>1, <2>2, <3>1, <3>2, <3>3 DEF Sound, Looking
  <2>3. CASE worker[v].pc \notin Looking
    <3>1. worker'[v] = worker[v]
      BY <1>2, <2>3 DEF Outrun, Looking
    <3> QED BY <1>2, <2>1, <2>3, <3>1 DEF Sound
  <2> QED BY <2>2, <2>3
<1>5. TypeOK'
  <2>1. worker' \in [Workers -> WorkerState]
    BY <1>2, <1>3, <1>4 DEF Outrun
  <2> QED BY <1>2, <2>1 DEF IInv, TypeOK, environment
<1>6. \A v \in Workers : Sound(worker[v])'
  BY <1>2, <1>3, <1>4 DEF Sound, Looking
<1>7. OwnAccount'
  BY <1>2, <1>6 DEF OwnAccount, Sound, Holding
<1>8. RotationStored'
  BY <1>2 DEF RotationStored
<1> QED BY <1>5, <1>6, <1>7, <1>8 DEF IInv

(* A thread whose refresh used the token of the row finds that row.         *)
LEMMA StoreFailsStep ==
  ASSUME IInv, NEW w \in Workers, StoreFails(w)
  PROVE  IInv'
<1>1. ~(worker[w].pc = "refreshed" /\ worker[w].found.current)
  BY NoRowIsNone DEF StoreFails, IInv, Sound, Looking
<1>2. row' = row /\ UNCHANGED <<environment, config>>
  BY <1>1 DEF StoreFails, Abandoned
<1>3. worker' = [worker EXCEPT ![w] = IdleWorker]
  BY DEF StoreFails
<1>4. worker'[w] = IdleWorker /\ \A v \in Workers \ {w} : worker'[v] = worker[v]
  BY <1>3 DEF IInv, TypeOK
<1>5. TypeOK'
  BY <1>2, <1>3, IdleType DEF IInv, TypeOK, environment
<1>6. \A v \in Workers : Sound(worker[v])'
  BY <1>2, <1>4, IdleType DEF IInv, Sound
<1>7. OwnAccount'
  BY <1>2, <1>6 DEF IInv, OwnAccount, Sound, Holding
<1>8. RotationStored'
  BY <1>1, <1>2, <1>4 DEF IInv, RotationStored
<1> QED BY <1>5, <1>6, <1>7, <1>8 DEF IInv

(* The row goes, and every thread at work is outdated from now on.          *)
LEMMA EditStep ==
  ASSUME IInv, NEW c \in Configs, Edit(c)
  PROVE  IInv'
<1>1. config' = c /\ row' = NoRow /\ UNCHANGED environment
  BY DEF Edit
<1> DEFINE threads == IF row = NoRow THEN worker ELSE Outrun(None, IdleWorker)
<1>2. worker' = Outdated(threads)
  BY DEF Edit
<1>3. ASSUME NEW v \in Workers
      PROVE  worker'[v] \in WorkerState /\ Sound(worker[v])'
  <2>1. worker[v] \in WorkerState /\ Sound(worker[v])
    BY DEF IInv, TypeOK
  <2>2. PICK t \in WorkerState :
          /\ threads[v] = t
          /\ t.pc = worker[v].pc
          /\ t.config = worker[v].config
          /\ t.owner = worker[v].owner
          /\ t.pc \in Looking => t.found \in Finds /\ ~t.found.current
          /\ t.pc \notin Looking => t.found = worker[v].found
    <3>1. CASE row = NoRow
      BY <2>1, <3>1, NoRowIsNone DEF Sound, Finds
    <3>2. CASE row # NoRow /\ worker[v].pc \in Looking
      <4> DEFINE found == [worker[v].found EXCEPT !.current = FALSE]
                 u == [worker[v] EXCEPT !.found = found]
      <4>1. threads[v] = u
        BY <3>2, SessionAssumption DEF Outrun, Looking
      <4>2. found \in Finds /\ ~found.current
        BY <2>1, <3>2 DEF Sound, Finds
      <4> HIDE DEF found, threads
      <4>3. /\ u \in WorkerState
            /\ u.pc = worker[v].pc
            /\ u.config = worker[v].config
            /\ u.owner = worker[v].owner
            /\ u.found = found
        BY <2>1, <4>2 DEF WorkerState
      <4> HIDE DEF u
      <4> QED BY <3>2, <4>1, <4>2, <4>3
    <3>3. CASE row # NoRow /\ worker[v].pc \notin Looking
      <4>1. threads[v] = worker[v]
        BY <3>3, SessionAssumption DEF Outrun, Looking
      <4> QED BY <2>1, <3>3, <4>1
    <3> QED BY <3>1, <3>2, <3>3
  <2> HIDE DEF threads
  <2>3. worker'[v] = [t EXCEPT !.outdated = t.pc # "idle"]
    BY <1>2, <2>2 DEF Outdated
  <2>4. /\ worker'[v] \in WorkerState
        /\ worker'[v].pc = t.pc
        /\ worker'[v].config = t.config
        /\ worker'[v].owner = t.owner
        /\ worker'[v].found = t.found
        /\ t.pc # "idle" => worker'[v].outdated
    BY <2>3 DEF WorkerState
  <2> QED BY <1>1, <2>1, <2>2, <2>4 DEF Sound, Looking, Holding
<1>4. worker' \in [Workers -> WorkerState]
  BY <1>2, <1>3 DEF Outdated
<1>5. TypeOK'
  BY <1>1, <1>4 DEF IInv, TypeOK, environment
<1>6. OwnAccount'
  BY <1>1, <1>3 DEF OwnAccount, Sound, Holding
<1>7. RotationStored'
  BY <1>1 DEF RotationStored
<1> QED BY <1>3, <1>5, <1>6, <1>7 DEF IInv

LEMMA UpstreamStep ==
  ASSUME IInv, NEW accounts \in Customers, UpstreamChanges(accounts)
  PROVE  IInv'
BY DEF IInv, UpstreamChanges, TypeOK, Sound, OwnAccount, RotationStored

(* A token that was used up for nothing counts as lost.                     *)
LEMMA CrashStep ==
  ASSUME IInv, Crash
  PROVE  IInv'
<1>1. /\ worker' = [w \in Workers |-> IdleWorker]
      /\ row' = Abandoned(Workers)
      /\ UNCHANGED <<program, valid, config>>
      /\ crashes' \in 0..MaxCrashes
  BY SessionAssumption DEF Crash, IInv, TypeOK
<1>2. /\ row' \in Rows \cup {NoRow}
      /\ row' # NoRow => /\ row # NoRow
                         /\ row'.owner = row.owner /\ row'.stray = row.stray
                         /\ row'.token # "used"
  <2>1. CASE \E w \in Workers : worker[w].pc = "refreshed" /\ worker[w].found.current
    <3>1. row \in Rows
      BY <2>1 DEF IInv, Sound, Looking
    <3>2. row' = [row EXCEPT !.token = "lost"]
      BY <1>1, <2>1 DEF Abandoned
    <3> QED BY <3>1, <3>2, NoRowIsNone DEF Rows
  <2>2. CASE ~\E w \in Workers : worker[w].pc = "refreshed" /\ worker[w].found.current
    BY <1>1, <2>2 DEF Abandoned, IInv, TypeOK, RotationStored
  <2> QED BY <2>1, <2>2
<1>3. TypeOK'
  BY <1>1, <1>2, IdleType DEF IInv, TypeOK
<1>4. \A w \in Workers : Sound(worker[w])'
  BY <1>1 DEF Sound, IdleWorker, Looking, Holding
<1>5. OwnAccount'
  BY <1>1, <1>2 DEF IInv, OwnAccount, IdleWorker
<1>6. RotationStored'
  BY <1>2 DEF RotationStored
<1> QED BY <1>3, <1>4, <1>5, <1>6 DEF IInv

LEMMA Stutter ==
  ASSUME IInv, UNCHANGED vars
  PROVE  IInv'
BY DEF IInv, vars, environment, TypeOK, Sound, OwnAccount, RotationStored

LEMMA NextInv == IInv /\ [Next]_vars => IInv'
<1> SUFFICES ASSUME IInv, [Next]_vars PROVE IInv'
  OBVIOUS
<1>1. ASSUME NEW w \in Workers, Step(w) PROVE IInv'
  BY <1>1, StartStep, KeyStep, ReadStep, CheckStep, RefreshStep, LoginStep,
     InsertStep, ConflictStep, UpdateStep, StoreFailsStep, DoneStep DEF Step
<1> QED BY <1>1, EditStep, UpstreamStep, CrashStep, Stutter DEF Next

-----------------------------------------------------------------------------
LEMMA InvariantHolds == Spec => []IInv
BY InitInv, NextInv, PTL DEF Spec

(* The row of instance_sessions and the state of a sync keep their shape.   *)
THEOREM TypeCorrect == Spec => []TypeOK
BY InvariantHolds, PTL DEF IInv

(* _ensure_session caches a session of another account, or works with one,  *)
(* only where an edit of the credentials came in between.                   *)
THEOREM OwnAccountHolds == Spec => []OwnAccount
BY InvariantHolds, PTL DEF IInv

(* _try_access_token_session and the sessions stored side by side leave no  *)
(* used refresh token behind as if it were good.                            *)
THEOREM RotationStoredHolds == Spec => []RotationStored
BY InvariantHolds, PTL DEF IInv
=============================================================================
