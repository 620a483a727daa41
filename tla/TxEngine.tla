------------------------------ MODULE TxEngine ------------------------------
(***************************************************************************)
(* The transaction engine of a tablet: TxEngine's serving states and its   *)
(* shutdown, the transaction pool and its killer, the stateful connection  *)
(* pool over pools.Numbered, and the per-user transaction limiter.         *)
(*                                                                         *)
(* Actors: the stateManager's transitions (one at a time: it holds its     *)
(* transitioning semaphore), the goroutine of shutdownLocked, the          *)
(* transaction killer, and one handler per connection for the RPC that     *)
(* creates or uses it (vtgate's session serialises the RPCs of one         *)
(* connection).  One step is one critical section of stateLock or of       *)
(* Numbered's mutex, or one access to the pool's atomic state.             *)
(***************************************************************************)
EXTENDS Naturals, FiniteSets

CONSTANTS
  Conns,                   \* stateful connections that may exist at a time
  PoolSize,                \* size of the transaction pool
  ReservedConns,           \* clients use reserved connections
  DBAWorkload,             \* clients may connect with workload DBA
  TwoPCEnabled,            \* -twopc_enable
  GracePeriod,             \* -shutdown_grace_period is positive
  EnableTransactionLimit,  \* -enable_transaction_limit
  MaxPerUser               \* TxLimiter's maxPerUser; the clients are one user

ASSUME SizeAssumption == PoolSize \in Nat /\ MaxPerUser \in Nat
ASSUME FlagAssumption ==
  /\ ReservedConns \in BOOLEAN /\ DBAWorkload \in BOOLEAN /\ TwoPCEnabled \in BOOLEAN
  /\ GracePeriod \in BOOLEAN /\ EnableTransactionLimit \in BOOLEAN

VARIABLES
  state,      \* TxEngine.state
  target,     \* the state the transition in progress leads to
  ctl,        \* where the transition is
  immediate,  \* shutdownLocked's local variable
  rb,         \* where shutdownLocked's goroutine is
  scp,        \* StatefulConnectionPool.state
  poolOpen,   \* its connpool is not closed
  ticking,    \* the transaction killer's timer runs
  active,     \* the connections registered in Numbered
  locked,     \* those of them that are in use
  slots,      \* connections that hold a resource of the connpool
  tainted,    \* reserved connections
  dba,        \* connections registered with enforceTimeout = false
  inTx,       \* txProps: "none", or a "rw" or "ro" transaction is open
  handler,    \* where the RPC that works on a connection is
  kind,       \* which RPC it is
  readOnly,   \* the connections whose Begin read that the state is AcceptingReadOnly
  victim,     \* who is about to release a connection it locked: "no", "killer", "shutdown"
  usage       \* TxLimiter.usageMap of the user

engVars == <<state, target, ctl, immediate, rb>>
poolVars == <<scp, poolOpen, ticking>>
connVars == <<active, locked, slots, tainted, dba, inTx>>
reqVars == <<handler, kind, readOnly>>
vars == <<engVars, poolVars, connVars, reqVars, victim, usage>>

Accepting == {"AcceptingReadAndWrite", "AcceptingReadOnly"}

(* beginRequests counts the RPCs that begin a transaction for a client. *)
BeginKinds == {"Begin", "ReserveBegin", "BeginReserved"}
beginRequests == {c \in Conns : handler[c] # "none" /\ kind[c] \in BeginKinds}

(* The RPC on c goes on to step h, or ends. *)
Advance(c, h) == handler' = [handler EXCEPT ![c] = h] /\ UNCHANGED <<kind, readOnly>>
End(c) ==
  /\ handler' = [handler EXCEPT ![c] = "none"] /\ kind' = [kind EXCEPT ![c] = "none"]
  /\ readOnly' = readOnly \ {c}

-----------------------------------------------------------------------------
(* TxLimiter *)

LimiterGet ==
  \/ ~EnableTransactionLimit /\ UNCHANGED usage
  \/ EnableTransactionLimit /\ usage < MaxPerUser /\ usage' = usage + 1

(* Mutant: the count of a user without an entry is decremented. *)
LimiterReleaseUnchecked == usage' = usage - 1

LimiterRelease == usage' = IF usage = 0 THEN 0 ELSE usage - 1

(* TxPool.txComplete, for a connection that is in a transaction. *)
TxComplete(c) == IF inTx[c] # "none" THEN LimiterRelease ELSE UNCHANGED usage

-----------------------------------------------------------------------------
(* StatefulConnection *)

(* Mutant: the database connection is not recycled. *)
ReleaseAllNoRecycle(S) ==
  /\ active' = active \ S /\ locked' = locked \ S
  /\ tainted' = tainted \ S /\ dba' = dba \ S
  /\ inTx' = [c \in Conns |-> IF c \in S THEN "none" ELSE inTx[c]]
  /\ UNCHANGED slots

(* Releasef: unregister, and recycle the database connection. *)
ReleaseAll(S) ==
  /\ active' = active \ S /\ locked' = locked \ S /\ slots' = slots \ S
  /\ tainted' = tainted \ S /\ dba' = dba \ S
  /\ inTx' = [c \in Conns |-> IF c \in S THEN "none" ELSE inTx[c]]

Release(c) == ReleaseAll({c})

(* Taint gives the resource back to the connpool. *)
Taint(c) == tainted' = tainted \cup {c} /\ slots' = slots \ {c}

(* Numbered: a registered connection that nobody uses. *)
Idle(c) == c \in active /\ c \notin locked

-----------------------------------------------------------------------------
(* Creation of a connection: Begin, ReserveBegin, Reserve, and the         *)
(* transactions TxExecutor opens for the metadata of 2PC.                  *)

(* isTxPoolAvailable needs stateLock, which a shutdown holds but while it  *)
(* waits for the begin requests.                                           *)
Available == state \in Accepting /\ ctl \in {"none", "waitBegins"}

(* The calls of 2PC do not look at the engine's state; the stateManager    *)
(* lets them in as long as it serves as a primary, a shutdown included.    *)
PrimaryServed ==
  /\ TwoPCEnabled
  /\ state = "AcceptingReadAndWrite" \/ (state = "Transitioning" /\ ~immediate)

Unused(c) == handler[c] = "none" /\ c \notin active /\ victim[c] = "no"

Request(c, k) ==
  /\ Unused(c)
  /\ \/ k = "Begin" /\ Available /\ UNCHANGED usage
     \/ k \in {"ReserveBegin", "Reserve"} /\ ReservedConns /\ Available /\ UNCHANGED usage
     \/ k = "inTransaction" /\ PrimaryServed /\ LimiterGet
  /\ handler' = [handler EXCEPT ![c] = IF k = "Begin" THEN "args" ELSE "get"]
  /\ kind' = [kind EXCEPT ![c] = k]
  /\ UNCHANGED readOnly
  /\ dba' \in IF DBAWorkload /\ k # "inTransaction" THEN {dba, dba \cup {c}} ELSE {dba}
  /\ UNCHANGED <<engVars, poolVars, active, locked, slots, tainted, inTx, victim>>

(* TxEngine.Begin reads the state for TxPool.Begin, without stateLock; that *)
(* asks the limiter for a new connection, and locks a reserved one.        *)
BeginArgs(c) ==
  /\ handler[c] = "args"
  /\ \/ /\ handler' = [handler EXCEPT ![c] = IF kind[c] = "Begin" THEN "get" ELSE "lock"]
        /\ readOnly' = IF state = "AcceptingReadOnly" THEN readOnly \cup {c} ELSE readOnly
        /\ IF kind[c] = "Begin" THEN LimiterGet ELSE UNCHANGED usage
        /\ UNCHANGED <<kind, dba>>
     \/ /\ kind[c] = "Begin" /\ EnableTransactionLimit /\ usage >= MaxPerUser
        /\ End(c)
        /\ dba' = dba \ {c}
        /\ UNCHANGED usage
  /\ UNCHANGED <<engVars, poolVars, active, locked, slots, tainted, inTx, victim>>

(* A Begin that fails gives its place in the limiter back. *)
FailedBegin(c) ==
  IF kind[c] \in {"Begin", "inTransaction"} THEN LimiterRelease ELSE UNCHANGED usage

(* NewConn takes a resource, unless the pool is closed or the context ends *)
(* first,                                                                  *)
GetConn(c) ==
  /\ handler[c] = "get"
  /\ \/ /\ poolOpen /\ Cardinality(slots) < PoolSize
        /\ slots' = slots \cup {c}
        /\ Advance(c, "register")
        /\ UNCHANGED <<dba, usage>>
     \/ /\ End(c)
        /\ FailedBegin(c)
        /\ dba' = dba \ {c}
        /\ UNCHANGED slots
  /\ UNCHANGED <<engVars, poolVars, active, locked, tainted, inTx, victim>>

(* registers the connection, unlocked,                                     *)
Register(c) ==
  /\ handler[c] = "register"
  /\ active' = active \cup {c}
  /\ Advance(c, "lock")
  /\ UNCHANGED <<engVars, poolVars, locked, slots, tainted, dba, inTx, victim, usage>>

(* and locks it, unless somebody else did in between.                      *)
GetAndLock(c) ==
  /\ handler[c] = "lock"
  /\ \/ /\ Idle(c)
        /\ locked' = locked \cup {c}
        /\ Advance(c, "init")
        /\ UNCHANGED usage
     \/ /\ ~Idle(c)
        /\ End(c)
        /\ FailedBegin(c)
        /\ UNCHANGED locked
  /\ UNCHANGED <<engVars, poolVars, active, slots, tainted, dba, inTx, victim>>

(* createTransaction; ReserveBegin reads the state only here. *)
CreateTransaction(c) ==
  LET ro == c \in readOnly \/ (kind[c] = "ReserveBegin" /\ state = "AcceptingReadOnly")
  IN  inTx' = [inTx EXCEPT ![c] = IF ro THEN "ro" ELSE "rw"]

(* The connection is tainted, or its transaction opened, or both.  On an   *)
(* error it is closed and released.                                        *)
InitConn(c) ==
  /\ handler[c] = "init"
  /\ \/ /\ IF kind[c] \in {"Reserve", "ReserveBegin"} THEN Taint(c) ELSE UNCHANGED <<tainted, slots>>
        /\ IF kind[c] = "Reserve" THEN UNCHANGED inTx ELSE CreateTransaction(c)
        /\ Advance(c, "busy")
        /\ UNCHANGED <<active, locked, dba, usage>>
     \/ /\ Release(c)
        /\ End(c)
        /\ FailedBegin(c)
  /\ UNCHANGED <<engVars, poolVars, victim>>

(* markAsNotInUse reads the pool's state. *)
ToBeKilled(c) == scp = "killingAll" \/ (scp = "killingNonTx" /\ inTx[c] = "none")

(* Unlock: a connection to be killed, or that the kill of its query        *)
(* closed, is released (the limiter is not told),                          *)
Unlock(c) ==
  /\ handler[c] = "busy" /\ kind[c] # "inTransaction"
  /\ \/ /\ ToBeKilled(c) \/ kind[c] = "use"
        /\ Release(c) /\ End(c)
     \/ /\ ~ToBeKilled(c)
        /\ Advance(c, "put")
        /\ UNCHANGED connVars
  /\ UNCHANGED <<engVars, poolVars, victim, usage>>

(* else Numbered.Put marks it as not in use.                               *)
Put(c) ==
  /\ handler[c] = "put"
  /\ locked' = locked \ {c}
  /\ End(c)
  /\ UNCHANGED <<engVars, poolVars, active, slots, tainted, dba, inTx, victim, usage>>

(* TxExecutor.inTransaction commits or rolls back, and releases. *)
EndInTransaction(c) ==
  /\ handler[c] = "busy" /\ kind[c] = "inTransaction"
  /\ Release(c) /\ End(c) /\ TxComplete(c)
  /\ UNCHANGED <<engVars, poolVars, victim>>

-----------------------------------------------------------------------------
(* RPCs on an existing connection *)

(* The RPC locks the connection and goes to step h. *)
Lock(c, h) ==
  /\ handler[c] = "none" /\ Idle(c)
  /\ locked' = locked \cup {c}
  /\ handler' = [handler EXCEPT ![c] = h]
  /\ kind' = [kind EXCEPT ![c] = "use"]
  /\ UNCHANGED readOnly

(* A query. *)
Use(c) ==
  /\ Lock(c, "busy")
  /\ UNCHANGED <<engVars, poolVars, active, slots, tainted, dba, inTx, victim, usage>>

(* Reserve of the connection of a transaction. *)
ReserveTx(c) ==
  /\ ReservedConns /\ c \notin tainted
  /\ Lock(c, "busy")
  /\ Taint(c)
  /\ UNCHANGED <<engVars, poolVars, active, dba, inTx, victim, usage>>

(* Begin on a reserved connection; the limiter is not asked. *)
BeginReserved(c) ==
  /\ Available
  /\ handler[c] = "none" /\ c \in active \cap tainted /\ inTx[c] = "none"
  /\ handler' = [handler EXCEPT ![c] = "args"]
  /\ kind' = [kind EXCEPT ![c] = "BeginReserved"]
  /\ UNCHANGED <<readOnly, engVars, poolVars, connVars, victim, usage>>

(* Commit or Rollback, which vtgate calls with the id of a transaction, *)
StartFinish(c) ==
  /\ inTx[c] # "none"
  /\ Lock(c, "finish")
  /\ UNCHANGED <<engVars, poolVars, active, slots, tainted, dba, inTx, victim, usage>>

(* txFinish: the transaction ends; a tainted connection whose transaction  *)
(* ended well is renewed: renewConn unregisters it ...                     *)
TxFinish(c) ==
  /\ handler[c] = "finish"
  /\ TxComplete(c)
  /\ \/ Release(c) /\ End(c)
     \/ /\ c \in tainted
        /\ active' = active \ {c} /\ locked' = locked \ {c}
        /\ inTx' = [inTx EXCEPT ![c] = "none"]
        /\ Advance(c, "renew")
        /\ UNCHANGED <<slots, tainted, dba>>
  /\ UNCHANGED <<engVars, poolVars, victim>>

(* ... and registers it under its new id, not in use.                      *)
RenewConn(c) ==
  /\ handler[c] = "renew"
  /\ active' = active \cup {c}
  /\ End(c)
  /\ UNCHANGED <<engVars, poolVars, locked, slots, tainted, dba, inTx, victim, usage>>

(* TxEngine.Release locks the connection, *)
StartRelease(c) ==
  /\ c \in tainted
  /\ Lock(c, "release")
  /\ UNCHANGED <<engVars, poolVars, active, slots, tainted, dba, inTx, victim, usage>>

(* and releases it (the limiter is not told). *)
ReleaseReserved(c) ==
  /\ handler[c] = "release"
  /\ Release(c) /\ End(c)
  /\ UNCHANGED <<engVars, poolVars, victim, usage>>

(* TxExecutor.Prepare locks the connection of a transaction,               *)
Prepare(c) ==
  /\ PrimaryServed
  /\ inTx[c] # "none"
  /\ Lock(c, "prepare")
  /\ UNCHANGED <<engVars, poolVars, active, slots, tainted, dba, inTx, victim, usage>>

(* which stays locked in the prepared pool, or is rolled back because that *)
(* is full, or is released because it executed nothing (the limiter is not *)
(* told).                                                                  *)
PreparePut(c) ==
  /\ handler[c] = "prepare"
  /\ \/ Advance(c, "prepared") /\ UNCHANGED <<connVars, usage>>
     \/ Release(c) /\ End(c) /\ (TxComplete(c) \/ UNCHANGED usage)
  /\ UNCHANGED <<engVars, poolVars, victim>>

(* CommitPrepared or RollbackPrepared takes it from the prepared pool,     *)
FetchPrepared(c) ==
  /\ handler[c] = "prepared"
  /\ Advance(c, "ending")
  /\ UNCHANGED <<engVars, poolVars, connVars, victim, usage>>

(* ends the transaction and releases the connection.                       *)
EndPrepared(c) ==
  /\ handler[c] = "ending"
  /\ Release(c) /\ End(c) /\ TxComplete(c)
  /\ UNCHANGED <<engVars, poolVars, victim>>

-----------------------------------------------------------------------------
(* The transaction killer *)

(* Mutant: only connections with a transaction are outdated. *)
GetOutdatedTxOnly(c) ==
  /\ ticking
  /\ Idle(c) /\ c \notin dba /\ inTx[c] # "none"
  /\ locked' = locked \cup {c}
  /\ victim' = [victim EXCEPT ![c] = "killer"]
  /\ UNCHANGED <<engVars, poolVars, active, slots, tainted, dba, inTx, reqVars, usage>>

(* GetOutdated locks a connection that exceeded its timeout, *)
GetOutdated(c) ==
  /\ ticking
  /\ Idle(c) /\ c \notin dba
  /\ locked' = locked \cup {c}
  /\ victim' = [victim EXCEPT ![c] = "killer"]
  /\ UNCHANGED <<engVars, poolVars, active, slots, tainted, dba, inTx, reqVars, usage>>

(* which the killer, or TxPool.Shutdown, rolls back and releases.          *)
ReleaseVictim(c) ==
  /\ victim[c] # "no"
  /\ victim' = [victim EXCEPT ![c] = "no"]
  /\ Release(c) /\ TxComplete(c)
  /\ UNCHANGED <<engVars, poolVars, reqVars>>

-----------------------------------------------------------------------------
(* The goroutine of shutdownLocked *)

Rb(from, to) == rb = from /\ rb' = to /\ UNCHANGED <<state, target, ctl, immediate>>

(* Mutant: connections in use are taken too. *)
GetByFilterInUse(S) ==
  LET V == {c \in S \cap active : c \notin dba}
  IN  /\ locked' = locked \cup V
      /\ victim' = [c \in Conns |-> IF c \in V THEN "shutdown" ELSE victim[c]]
      /\ UNCHANGED <<active, slots, tainted, dba, inTx>>

(* Numbered.GetByFilter locks the idle connections of S that may be killed.*)
GetByFilter(S) ==
  LET V == {c \in S : Idle(c) /\ c \notin dba}
  IN  /\ locked' = locked \cup V
      /\ victim' = [c \in Conns |-> IF c \in V THEN "shutdown" ELSE victim[c]]
      /\ UNCHANGED <<active, slots, tainted, dba, inTx>>

(* ShutdownNonTx sets the pool's state, *)
ShutdownNonTx ==
  /\ Rb("setNonTx", "filterNonTx")
  /\ scp' = "killingNonTx"
  /\ UNCHANGED <<poolOpen, ticking, connVars, reqVars, victim, usage>>

(* then takes the connections without a transaction. *)
FilterNonTx ==
  /\ Rb("filterNonTx", "dropNonTx")
  /\ GetByFilter({c \in Conns : inTx[c] = "none"})
  /\ UNCHANGED <<poolVars, reqVars, usage>>

(* The connections it took are released one by one. *)
Dropped == \A c \in Conns : victim[c] # "shutdown"

(* What comes next: roll back now, after the grace period, or only what is *)
(* prepared.                                                               *)
AfterNonTx ==
  /\ Dropped
  /\ Rb("dropNonTx", IF immediate \/ ~GracePeriod THEN "rollbackPrepared" ELSE "wait")
  /\ UNCHANGED <<poolVars, connVars, reqVars, victim, usage>>

(* The timer fires, or the pool is empty before. *)
GraceEnds ==
  /\ \/ Rb("wait", "rollbackPrepared")
     \/ Rb("wait", "done") /\ ctl = "waitRollback"
  /\ UNCHANGED <<poolVars, connVars, reqVars, victim, usage>>

(* TxPreparedPool.FetchAll; each connection is then rolled back. *)
RollbackPrepared ==
  LET P == {c \in Conns : handler[c] = "prepared"}
  IN  /\ Rb("rollbackPrepared", "dropPrepared")
      /\ victim' = [c \in Conns |-> IF c \in P THEN "shutdown" ELSE victim[c]]
      /\ handler' = [c \in Conns |-> IF c \in P THEN "none" ELSE handler[c]]
      /\ kind' = [c \in Conns |-> IF c \in P THEN "none" ELSE kind[c]]
      /\ UNCHANGED <<readOnly, poolVars, connVars, usage>>

AfterPrepared ==
  /\ Dropped
  /\ Rb("dropPrepared", IF immediate \/ GracePeriod THEN "setAll" ELSE "done")
  /\ UNCHANGED <<poolVars, connVars, reqVars, victim, usage>>

(* ShutdownAll sets the pool's state, *)
ShutdownAll ==
  /\ Rb("setAll", "filterAll")
  /\ scp' = "killingAll"
  /\ UNCHANGED <<poolOpen, ticking, connVars, reqVars, victim, usage>>

(* takes every connection that is not in use, *)
FilterAll ==
  /\ Rb("filterAll", "dropAll")
  /\ GetByFilter(Conns)
  /\ UNCHANGED <<poolVars, reqVars, usage>>

(* and TxPool.Shutdown rolls them back. *)
AfterAll ==
  /\ Dropped
  /\ Rb("dropAll", "done")
  /\ UNCHANGED <<poolVars, connVars, reqVars, victim, usage>>

-----------------------------------------------------------------------------
(* TxEngine.transition and Close *)

Ctl(from, to) == ctl = from /\ ctl' = to

(* TxPool.Open *)
Open ==
  /\ scp' = "open" /\ poolOpen' = TRUE /\ ticking' = TRUE

(* A transition from NotServing opens the pool; from an accepting state it *)
(* begins with shutdownLocked, which gives up stateLock to wait for the    *)
(* begin requests.                                                         *)
Transition(t) ==
  /\ ctl = "none" /\ t # state
  /\ \/ /\ state = "NotServing"
        /\ state' = t
        /\ Open
        /\ UNCHANGED <<target, ctl, immediate>>
     \/ /\ state \in Accepting
        /\ immediate' = (state # "AcceptingReadAndWrite")
        /\ state' = "Transitioning"
        /\ target' = t
        /\ ctl' = "waitBegins"
        /\ UNCHANGED poolVars
  /\ UNCHANGED <<rb, connVars, reqVars, victim, usage>>

(* Mutant: the begin requests are not waited for. *)
WaitBeginsNot ==
  /\ Ctl("waitBegins", "waitEmpty")
  /\ rb' = "setNonTx"
  /\ UNCHANGED <<state, target, immediate, poolVars, connVars, reqVars, victim, usage>>

(* The begin requests are done; the goroutine starts. *)
WaitBegins ==
  /\ Ctl("waitBegins", "waitEmpty")
  /\ beginRequests = {}
  /\ rb' = "setNonTx"
  /\ UNCHANGED <<state, target, immediate, poolVars, connVars, reqVars, victim, usage>>

WaitForEmpty ==
  /\ Ctl("waitEmpty", "waitRollback")
  /\ active = {}
  /\ UNCHANGED <<state, target, immediate, rb, poolVars, connVars, reqVars, victim, usage>>

(* The goroutine has returned. *)
RollbackDone ==
  /\ Ctl("waitRollback", "stopKiller")
  /\ rb = "done"
  /\ rb' = "off"
  /\ UNCHANGED <<state, target, immediate, poolVars, connVars, reqVars, victim, usage>>

(* TxPool.Close stops the killer's timer, once it does not run, *)
StopKiller ==
  /\ Ctl("stopKiller", "closeStray")
  /\ \A c \in Conns : victim[c] # "killer"
  /\ ticking' = FALSE
  /\ UNCHANGED <<state, target, immediate, rb, scp, poolOpen, connVars, reqVars, victim, usage>>

(* kills what is idle in the pool (the limiter is not told), *)
CloseStray ==
  /\ Ctl("closeStray", "closeConns")
  /\ ReleaseAll({c \in Conns : Idle(c) /\ c \notin dba})
  /\ UNCHANGED <<state, target, immediate, rb, poolVars, reqVars, victim, usage>>

(* Mutant: the connpool is closed without waiting. *)
CloseConnsAtOnce ==
  /\ Ctl("closeConns", "closed")
  /\ poolOpen' = FALSE
  /\ scp' = "closed"
  /\ UNCHANGED <<state, target, immediate, rb, ticking, connVars, reqVars, victim, usage>>

(* and closes the connpool, which waits until every resource came back.    *)
CloseConns ==
  /\ Ctl("closeConns", "closed")
  /\ slots = {}
  /\ poolOpen' = FALSE
  /\ scp' = "closed"
  /\ UNCHANGED <<state, target, immediate, rb, ticking, connVars, reqVars, victim, usage>>

(* The new state is set, and the pool opened again unless it is NotServing.*)
Arrive ==
  /\ Ctl("closed", "none")
  /\ state' = target
  /\ IF target = "NotServing" THEN UNCHANGED poolVars ELSE Open
  /\ target' = "NotServing" /\ immediate' = FALSE
  /\ UNCHANGED <<rb, connVars, reqVars, victim, usage>>

-----------------------------------------------------------------------------
Init ==
  /\ state = "NotServing" /\ target = "NotServing" /\ ctl = "none"
  /\ immediate = FALSE /\ rb = "off"
  /\ scp = "closed" /\ poolOpen = FALSE /\ ticking = FALSE
  /\ active = {} /\ locked = {} /\ slots = {} /\ tainted = {} /\ dba = {}
  /\ inTx = [c \in Conns |-> "none"]
  /\ handler = [c \in Conns |-> "none"] /\ kind = [c \in Conns |-> "none"] /\ readOnly = {}
  /\ victim = [c \in Conns |-> "no"]
  /\ usage = 0

Kinds == {"Begin", "ReserveBegin", "Reserve", "inTransaction"}

(* An RPC starts. *)
RequestNext(c) ==
  \/ \E k \in Kinds : Request(c, k)
  \/ Use(c) \/ ReserveTx(c) \/ BeginReserved(c) \/ StartFinish(c)
  \/ StartRelease(c) \/ Prepare(c) \/ FetchPrepared(c)

(* An RPC that was started goes on. *)
HandlerNext(c) ==
  \/ BeginArgs(c) \/ GetConn(c) \/ Register(c) \/ GetAndLock(c) \/ InitConn(c)
  \/ Unlock(c) \/ Put(c) \/ EndInTransaction(c) \/ TxFinish(c) \/ RenewConn(c)
  \/ ReleaseReserved(c) \/ PreparePut(c) \/ EndPrepared(c)

RollbackNext ==
  \/ ShutdownNonTx \/ FilterNonTx \/ AfterNonTx \/ GraceEnds
  \/ RollbackPrepared \/ AfterPrepared \/ ShutdownAll \/ FilterAll \/ AfterAll

CtlNext ==
  \/ WaitBegins \/ WaitForEmpty \/ RollbackDone \/ StopKiller \/ CloseStray
  \/ CloseConns \/ Arrive

Next ==
  \/ \E c \in Conns : RequestNext(c) \/ HandlerNext(c) \/ GetOutdated(c) \/ ReleaseVictim(c)
  \/ RollbackNext \/ CtlNext
  \/ \E t \in Accepting \cup {"NotServing"} : Transition(t)

Spec == Init /\ [][Next]_vars

-----------------------------------------------------------------------------
(* Properties *)

Holding == {"init", "busy", "put", "finish", "release", "prepare", "prepared", "ending"}

(* Every variable has one of the values the code gives it; what is in use  *)
(* is registered, and has exactly one user.                                *)
TypeOK ==
  /\ state \in Accepting \cup {"NotServing", "Transitioning"}
  /\ target \in Accepting \cup {"NotServing"}
  /\ ctl \in {"none", "waitBegins", "waitEmpty", "waitRollback", "stopKiller", "closeStray", "closeConns", "closed"}
  /\ rb \in {"off", "setNonTx", "filterNonTx", "dropNonTx", "wait", "rollbackPrepared", "dropPrepared",
             "setAll", "filterAll", "dropAll", "done"}
  /\ scp \in {"closed", "open", "killingNonTx", "killingAll"}
  /\ immediate \in BOOLEAN /\ poolOpen \in BOOLEAN /\ ticking \in BOOLEAN
  /\ active \subseteq Conns /\ locked \subseteq active
  /\ slots \subseteq Conns /\ tainted \subseteq Conns /\ dba \subseteq Conns
  /\ inTx \in [Conns -> {"none", "rw", "ro"}]
  /\ handler \in [Conns -> Holding \cup {"none", "args", "get", "register", "lock", "renew"}]
  /\ kind \in [Conns -> Kinds \cup {"none", "use", "BeginReserved"}]
  /\ readOnly \subseteq Conns
  /\ victim \in [Conns -> {"no", "killer", "shutdown"}]
  /\ usage \in 0..MaxPerUser

(* A connection is never worked on by an RPC and by the killer or the      *)
(* shutdown at once, and only a registered one is.                         *)
OneOwner ==
  \A c \in Conns :
    /\ handler[c] \in Holding => victim[c] = "no"
    /\ c \in locked <=> handler[c] \in Holding \/ victim[c] # "no"

(* A resource of the connpool is held by a registered connection, or by    *)
(* one about to be registered: no path of an error or a kill leaks it.     *)
NoSlotLeaks ==
  \A c \in slots : c \in active \/ handler[c] = "register"

(* An engine that does not serve has no transaction open: no begin request,*)
(* renewal or 2PC call slips past the shutdown.                            *)
NotServingNoTx ==
  state = "NotServing" => \A c \in Conns : inTx[c] = "none"

(* No client transaction of a read-write term survives into a read-only    *)
(* one: Begin may read the state while it changes, but not to this effect. *)
ReadOnlyNoWriter ==
  state = "AcceptingReadOnly" =>
    \A c \in Conns : inTx[c] = "rw" => kind[c] = "inTransaction"

(* After ShutdownNonTx no connection stays idle without a transaction:     *)
(* what was in use then is killed when it is returned.                     *)
KilledWhenReturned ==
  rb \in {"wait", "rollbackPrepared", "dropPrepared", "setAll"} =>
    \A c \in Conns : Idle(c) /\ handler[c] = "none" => inTx[c] # "none"

(* Once shutdownTransactions is over no transaction is prepared. *)
PreparedRolledBack ==
  rb = "done" /\ scp = "killingAll" => \A c \in Conns : handler[c] # "prepared"

(* The user's open transactions stay within the limit. *)
LimitRespected ==
  EnableTransactionLimit => Cardinality({c \in Conns : inTx[c] # "none"}) <= MaxPerUser

(* The limiter counts only transactions that are open or being opened. *)
LimitReturned ==
  usage <= Cardinality({c \in Conns : inTx[c] # "none" \/ handler[c] # "none" \/ victim[c] # "no"})

(* Handlers, goroutines and the killer run; clients need not do anything. *)
Fairness ==
  /\ \A c \in Conns : WF_vars(HandlerNext(c)) /\ WF_vars(GetOutdated(c)) /\ WF_vars(ReleaseVictim(c))
  /\ WF_vars(RollbackNext) /\ WF_vars(CtlNext)

FairSpec == Spec /\ Fairness

(* A transition ends, whatever the clients do with their connections.      *)
TransitionEnds == ctl # "none" ~> ctl = "none"
=============================================================================
