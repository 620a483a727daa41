# Verification of Vitess's transaction path

This directory holds TLA+ models of the part of Vitess that decides what
happens to a client's transaction and what it has to pass on its way: the
failover buffer of vtgate, the two-phase commit between vtgate and the tablets,
and on the tablet the state manager that admits requests, hot row protection,
the transaction engine and the connection pool. TLC checks them on small
instances; TLAPS proves every safety property that the passing runs check for
every instance (two of them up to the first restart of a tablet), and both
refinements. `PROJECT.json` lists the components, the runs, the source lines
behind each definition, the findings, the hazards and the theorems.

## 1. Inventory

| Component | State | Operations | What is hard | What makes it correct |
|---|---|---|---|---|
| 2PC coordinator (`vtgate/tx_conn.go`) | none that survives; everything durable is on the metadata manager's (MM) shard | `commit2PC`, `Resolve`, `resumeCommit`, `resumeRollback` | may die anywhere; calls are lost, repeated, or time out while they run | one verdict; no success before every shard committed |
| 2PC participant (`tx_executor.go`, `tx_prep_pool.go`, `twopc.go`) | prepared pool, reserved map, `redo_state`, `dt_state` | `Prepare`, `CommitPrepared`, `RollbackPrepared`, `CreateTransaction`, `StartCommit`, `SetRollback`, `ConcludeTransaction`, replay | crash between any two steps; two callers for one dtid; a commit whose outcome is unknown | applied at most once, never without the verdict, never lost after it |
| `TxEngine` (`tx_engine.go`) | serving state, begin requests, shutdown goroutine | `AcceptReadWrite`, `AcceptReadOnly`, `Close`, `Begin`, `Commit`, `Rollback`, `Reserve`, `ReserveBegin`, `Release` | shutdown against requests that are admitted, under way or returning | no transaction outlives its term; the shutdown ends |
| `TxPool`, `StatefulConnectionPool`, `pools.Numbered` | registered and in-use connections, pool state, pool resources | `Begin`, `GetAndLock`, `Unlock`, `Renew`, `Taint`, `Release`, `GetByFilter`, `GetOutdated`, killer | state read before, used after; killer, shutdown and client race for one connection | one owner at a time, no resource lost |
| `TxLimiter` | count per user | `Get`, `Release` | counted and released on different paths | count equals the open transactions |
| `stateManager` (`state_manager.go`) | wanted and current type and state, the components' states, requests, `alsoAllow` | `SetServingType`, `recheckState`, `CheckMySQL`, `StartRequest`, `EndRequest`, `Broadcast` | retry against a new target; transitions that fail half-way; late goroutines | the tablet reaches what was asked last, with the right components open and no request left behind |
| vtgate gateway | healthy tablets | `withRetry` | repeats a call that was executed | callers tolerate repetition |
| vtgate buffer (`buffer/`) | queue and state per shard, slots shared by all | `WaitForFailoverEnd`, eviction, `drain`, timeout thread, events, `Shutdown` | cancel, evict, time out and drain one entry at once; a new failover during the end of the last | a slot is released once, a channel closed once; nobody waits for ever |
| `TxSerializer` | a queue and a channel per row range | `Wait`, `unlock` | mutex given up in the middle; queues come and go | at most N calls per row, exact counts, all proceed |
| connection pool (`connpool/pool.go`, `pools/resource_pool.go`) | a channel of wrappers, counters, `Pool.mu` | `Get`, `Put`, `SetCapacity`, `Close`, `reopen`, idle closer | resizing and closing under load; failing factories | wrappers conserved; no send to a full or closed channel; everybody returns |
| consolidator, messager | caches | poll, share | | not modelled |
| reparenting, VReplication, Online DDL, planner, parser, topology, control plane | | | | outside this project (`components` in `PROJECT.json` says why) |

How they interact: vtgate sends RPCs to tablets through the gateway; the
`stateManager` admits a call (`StartRequest`; 2PC calls are admitted during a
shutdown too); the handler works on a connection that it locks in
`pools.Numbered`; `stateManager` calls `TxEngine`'s transitions one at a time;
during a failover the gateway parks calls in the buffer; a `BeginExecute` on a
hot row waits in `TxSerializer` before it takes a connection from the pool;
the killer's timer and the shutdown goroutine work on the same connections. The
tablet's watchdog asks a vtgate to resolve a transaction that was abandoned.

## 2. Modules

| Module | Models |
|---|---|
| `AtomicCommit` | what 2PC promises of one transaction: log, decide once, apply what is logged |
| `TwoPC` | `commit2PC` and `Resolve` against tablets that lose calls, crash, shut down and replay |
| `MCTwoPC` | instance of `TwoPC` for TLC (symmetry of participants and of resolvers; it is used with safety properties only) |
| `TwoPC_proofs` | inductive invariants of `TwoPC` and the safety theorems |
| `TwoPC_refinement` | `TwoPC` implements `AtomicCommit` |
| `TxEngine` | transitions and shutdown of the engine, requests, killer, pools, limiter |
| `MCTxEngine` | instance of `TxEngine` for TLC (symmetry of connections, used with invariants only) |
| `TxEngine_proofs` | inductive invariant of `TxEngine` and its safety theorems |
| `StateManager` | `stateManager`: targets, transitions with partial failures, retry loop, `CheckMySQL`, admission of requests |
| `StateManager_proofs` | inductive invariant of `StateManager` and its safety theorems |
| `BoundedBuffer` | what the failover buffer promises: a bounded buffer that lets the requests of a shard go in order, each once |
| `ShardBuffer` | `Buffer`, `shardBuffer` and `timeoutThread`; implements `BoundedBuffer` |
| `ShardBuffer_proofs` | inductive invariant of `ShardBuffer`, its safety theorems and the refinement of `BoundedBuffer` |
| `TxSerializer` | hot row protection |
| `TxSerializer_proofs` | inductive invariant of `TxSerializer` and its safety theorems |
| `ConnPool` | `connpool.Pool` over `pools.ResourcePool` |
| `ConnPool_proofs` | inductive invariant of `ConnPool` and its safety theorems |
| `SeqSetFacts` | lemmas about sequences and finite sets that the proofs of `ShardBuffer`, `TxSerializer` and `ConnPool` share: what `Tail`, `Append` and `RemoveAt` do to the range, the distinctness and the number of occurrences |
| `MCStateManager`, `MCShardBuffer`, `MCTxSerializer`, `MCConnPool` | their instances for TLC |

A definition whose comment begins with "Mutant" is a plausible wrong version of
the definition after it. No specification uses it; it is there to show that a
property notices.

### TwoPC

One distributed transaction. `dtState` and `mmTx` are the rows and the client's
transaction on the MM shard. For each participant `tx`, `conns`, `reserved` and
`redo` are the client's transaction, the prepared pool's two maps and the
`redo_state` row; `applied` counts how often its statements became durable.
`pc`, `seen`, `parts`, `reply` are the locals of the vtgate goroutines; `prep`
and `handler` are the handlers that run on the tablets; `phase` and `recovery`
are the tablet's engine and its `prepareFromRedo` goroutine. `decision` is a
history variable: the verdict outlives the row.

One step is one SQL transaction or one critical section of the prepared pool's
mutex. Calls to participants are a request, a handler in several steps and a
reply; a call may be lost, its reply may be lost, the caller may give up while
the handler goes on, and the gateway may repeat it. A call to the MM shard is
one SQL transaction, so it is one step that succeeds, fails without effect, or
takes effect and fails for the caller. The tablet may crash (memory lost,
an SQL commit under way resolved either way) or shut down (`FetchAll` rolls
prepared transactions back but leaves the redo log), and comes back with an
asynchronous replay.

`AtomicCommit` is the abstract specification. Its `redo` is the set of
participants with a redo row and its `applied` the set with `applied > 0`.

### TxEngine

`state`, `target`, `ctl`, `immediate` are the engine and where its transition
is; `rb` is the shutdown goroutine; `scp`, `poolOpen`, `ticking` the connection
pool and the killer's timer; `active`, `locked` are `Numbered`'s map and its
in-use marks; `slots` are the resources taken from the connpool (`Close` of it
waits for all of them, `ResourcePool.SetCapacity`); `tainted`, `dba`, `inTx`
are properties of a connection; `handler`, `kind`, `readOnly` say which RPC
works on it, how far it is, and what `Begin` read; `victim` who is about to
kill it; `usage` is the limiter's count.

One step is one critical section of `stateLock` or of `Numbered`'s mutex, or one
access to the pool's atomic state. So creating a connection is six steps
(admission, `BeginArgs`, `GetConn`, `Register`, `GetAndLock`, `InitConn`) and
returning one is two (`Unlock` reads the pool's state, `Put` marks it), because
that is where the code lets others in.

### StateManager

`wantType`, `wantState`, `type`, `state`, `retrying`, `replHealthy`,
`alsoAllow` are the fields of `stateManager`. `exec` is the holder of the
semaphore `transitioning` with its target and step; `asked` the callers that
wait for it. `open`, `te`, `rt` are the components that the transitions open and
close: a transition is cut where it may block (`te.Close`, `requests.Wait`) or
fail (`connect`). `running` are the requests, `graceTimers` the goroutines that
will end a grace period. `dirty` is a history variable: a transition failed
since the last `setState`. `te`'s own transition is one step here and the
subject of `TxEngine`.

### ShardBuffer

`slots` is the semaphore; `state`, `queue`, `recent` a shard's buffer (`recent`
abstracts the clock: the last failover or reparenting is too recent);
`thread`, `watched`, `woken`, `stopChan` its timeout thread and the channels it
selects on; `drain`, `drainQ`, `missing` the drain goroutine and its arguments.
`pc`, `done`, `failed`, `finished` are a request, its entry's channel and error
and its `bufferCtx`; `async` the goroutine that waits for it and whether it
releases the slot. One step is one critical section or one select. `BoundedBuffer`
sees only which requests are held, in which order, and which are leaving.

### TxSerializer

A queue is an object, since a call keeps its `*queue` while the map may lose
it. `slots` and `blocked` are the channel `availableSlots`: its elements and the
blocked senders in order. `Join` ends where `lockLocked` gives up the mutex;
`Try` and `Select` are its two selects; `Done` and `GiveUp` are the two callers
of `unlockLocked`, which looks the key up again.

### ConnPool

`resources` and `recvq` are the channel of wrappers and the goroutines blocked
in a receive from it; `hand` the wrapper that a client, the idle closer or the
controller has taken out. `ctl` is the operation that opens, closes, resizes or
reopens the pool; `mu` is held by `Pool.SetCapacity` from its start to its end
and by the other operations only within a step. A size may be 0: `SetTxPoolSize`
and `SetStreamPoolSize` pass it on. `Pool.SetCapacity` then drains and closes the
channel like `Close`, but with the idle timer running, and a scan that receives
from the closed channel is left with a zero wrapper (`idler` = `"zero"`), which it
sends (`IdleOverrun`). `broken` says how the process came to its end: `"send"`, a
send on the closed channel; `"size"`, an `Open` with size 0 (`NewResourcePool`
panics); and `"extra"`, a zero wrapper sent into the channel of a pool that has
grown again, after which the model follows the pool no further.

## 3. Runs

| Run | Instance | Shows |
|---|---|---|
| `twopc_failures` | 2 participants, 1 resolver, 2 faults, no restart; 253 000 states | `CommitNeedsDecision`, `AbortIsFinal`, `ConcludedIsCommitted`, `SuccessIsCommitted` |
| `twopc_restarts` | 2 participants, 1 resolver, 1 fault, 1 crash or shutdown; 637 000 states | `AppliedOnce`, `CommitRecoverable`, `DecisionIsFinal`, refinement of `AtomicCommit` |
| `twopc_liveness` | 1 participant, 1 fault, 1 restart, `FairSpec` | `EventuallyResolved` |
| `txengine_safety` | 2 connections, pool of 2, every feature on; 504 000 states | `OneOwner`, `NoSlotLeaks`, `NotServingNoTx`, `ReadOnlyNoWriter`, `TypeOK` |
| `txengine_liveness` | 2 connections, pool of 1, `FairSpec`; 71 000 states | `TransitionEnds` without DBA clients |
| `twopc_recovery` | 1 restart, no fault | violation: section 5 |
| `shardbuffer_safety` (`MCShardBuffer_one.cfg`) | 1 shard, 3 requests, 2 slots, repeated failovers; 420 000 states | `SlotsAccounted`, `ClosedOnce`, `InFlightBounded`, `OneFailoverAtATime`, `TypeOK`, refinement of `BoundedBuffer` |
| `shardbuffer_liveness` | 1 shard, 2 requests, 1 slot, `FairSpec`; 78 000 states | `EveryRequestReturns` |
| `txserializer` | 4 calls, 2 rows, 1 at a time, limits of 3, `FairSpec`; 24 000 states | `SameQueue`, `ConcurrencyBounded`, `CountsExact`, `ReturnNeverBlocks`, `SlotsExact`, `EveryCallProceeds` |
| `connpool` | 2 clients, sizes 0 to 2, `FairSpec`; 33 000 states | `WrappersConserved`, `CountersExact`, `SendersFindRoom`, `TypeOK`, `GetReturns`, `CloseReturns` |
| `connpool_resize` | 2 clients, sizes 1 and 2, `FairSpec` | violation: section 5 |
| `statemanager` | 2 callers, 2 requests, 3 calls, 2 failures, `FairSpec`; 444 000 states | `TransitionIsWanted`, `PartsMatchState`, `NotServingNoRequests`, `GraceWillEnd`, `NoForgottenTarget`, `Converges` |

The type invariants of `TwoPC`, `StateManager` and `TxSerializer` are proved, so
the runs do not repeat them. Some more configurations are kept for use by hand:
`MCShardBuffer_two.cfg` (two shards that share the semaphore, `SlotsAccounted`),
`MCShardBuffer_drain.cfg` (`FailoverEnds`), `MCConnPool_three.cfg` (three clients,
the safety properties), and those of the observations in
section 5.

Bounds. `MaxFaults` and `MaxRestarts` bound failures per behaviour; two faults
are enough for a lost reply followed by a failed retry, one restart for every
place between two durable steps; larger bounds multiply the states without
a new kind of case. Two
participants are needed for one to commit and the other to fail; a second
resolver is left out because `Gate` and one resolver already run the same code
against each other. The proofs of section 4 hold for any of these numbers. In `TxEngine`, two
connections let one be in transition while another holds the pool's last
resource or occupies the limiter; the number of transitions is not bounded, the
state space is finite. Three requests and two slots are what it takes for one
request to be evicted for a newer one while another is timed out, cancelled or
drained. In `ConnPool` the sizes 0 to 2 let the pool
shrink and grow below and up to its channel, and down to nothing; with size 1 two
clients and the idle closer compete for one wrapper (with three clients the run takes
three minutes and 240 000 states, and passes too). `MaxCalls` = 3 lets a tablet be
sent somewhere, be called back on the way and be sent again; `MaxFaults` = 2 lets
a retry fail too. Deadlock checking is off for `TwoPC`, `ShardBuffer` and
`ConnPool`, where everything may be over: the transaction, the requests, or,
after the deadlock or a panic of section 5, the pool.

Fairness. In `TwoPC` the handlers, the resolvers and the return of a tablet are
weakly fair: they are goroutines, a watchdog on a timer (`startWatchdog`), and
an orchestrated restart. vtgate's own `commit2PC` is not fair: it may die.
Faults are bounded, so retries succeed in the end. In `TxEngine` the handlers,
the killer (a timer), the shutdown goroutine and the transition are weakly fair;
clients are not, so they may leave connections idle for ever. `TransitionEnds`
needs nothing else since the instance has a grace period, after which every
connection is killed or killed when it is returned. In `ShardBuffer` goroutines
run, retried queries return and the timer of `MaxFailoverDuration` fires; events
of the health check, windows and cancellations need not happen. In `TxSerializer`
goroutines run and calls that were let through end. In `ConnPool` clients return
what they took, the controller runs, and the stop message is received by the
idle timer's select in the end (strong fairness of `StopIdle`: the select
chooses among what is ready). `GetReturns` and `CloseReturns` are stated for
behaviours in which no `SetCapacity` is stuck for ever and none closes the
channel under a scan of the idle closer (`Undisturbed`), because of what section 5 says.
In `StateManager` transitions and the retry loop run; the semaphore is granted
in the end to each who waits (`sync2.Semaphore` is a channel, whose waiters are
served in order); `requests.Wait` returns when the count reaches zero, if only
for a moment. `Converges` assumes that the requests do not overlap for ever.

## 4. Proofs

`TwoPC_proofs` proves for any sets of participants and resolvers and any bounds:

- `TypeCorrect`, `CommitNeedsDecisionHolds`, `AppliedOnceHolds`,
  `CommitRecoverableHolds`, `AbortIsFinalHolds`;

and `TwoPC_refinement`:

- `Refinement`: `Spec` implies `AC!Spec`; `DecisionIsFinalHolds`.

`TwoPC_proofs` also proves `ConcludedBeforeRestart` and `SuccessBeforeRestart`:
`ConcludedIsCommitted` and `SuccessIsCommitted` hold as long as `restarts = 0`.
The condition is the exact place where the code loses the property: the run
`twopc_recovery` (section 5) refutes the first after one restart. The assumptions are
`GateAssumption` (the committing goroutine is not one of the
resolvers) and `BoundAssumption` (the bounds are natural numbers).

The properties are not inductive alone. The invariant `IInv` is the conjunction of

- `TypeOK`;
- `MetadataInv`: how the row, the verdict and the MM transaction relate;
- `CoordinatorInv`: a coordinator that commits or rolls back does what the
  verdict says, even if it read the row earlier;
- `HandlerInv`: a handler that commits exists only after the verdict to commit,
  one that rolls back only without it;
- `GateInv`: while `commit2PC` may still decide to commit nothing is committed
  or reported, and a writer whose Prepare it saw succeed has its redo row (this is what makes the verdict safe, and it
  must survive crashes, shutdowns and replays of the tablet);
- `WriterInv`: only writers have redo rows, prepared connections or a replay;
- `ConnInv`: at most one connection carries the transaction's uncommitted
  statements, and none does once they are applied (this gives `AppliedOnce`
  through retries, replays and commits with an unknown outcome);
- `CommitRecoverable`.

Preservation is proved per group of actions (vtgate, resolvers, calls, tablet)
and per conjunct. The refinement uses `IInv` to show that a verdict to commit
finds every writer's log, and that a log disappears only with an apply or after
a rollback.

The theorems about the time before a restart add `RInv`: a prepared transaction
with a redo row still has its connection in the prepared pool, or is being
committed from it (`KeptInv`), so `CommitPrepared` takes only a committed
transaction for one it does not know (`CommittedInv`), and what a coordinator
has heard of a participant is true of it (`ReplyInv`). `ToldInv` separates
`commit2PC`'s own success from a resolution that follows its failure.

`TxEngine_proofs` proves for any connections, pool size, limit and flags:
`TypeCorrect`, `OneOwnerHolds`, `NoSlotLeaksHolds`, `NotServingHasNoTx` and
`ReadOnlyHasNoWriter`, from `SizeAssumption`. `NotServingNoTx` is about the end of
a shutdown and needs the whole way there: begin requests are over once
`WaitBegins` has passed and stay so, after the pool was seen empty only internal
transactions are open, and each of those holds a resource of the connpool,
whose `Close` waits for it (`TermInv`); that last fact is `ConnInv`: a registered
connection holds a resource or is tainted, and one that opens an internal
transaction is never tainted. `ReadOnlyNoWriter` needs that a `Begin` which has read the
engine's state before it changed was waited for (`ReadOnlyInv`).

`ShardBuffer_proofs` proves for any shards, requests, buffer size and dry run
mode: `TypeCorrect`, `SlotsAreAccounted`, `ChannelsCloseOnce`,
`InFlightIsBounded`, `FailoversAreSeparate` and `Implementation` (`Spec` implies
`Buffered!Spec`), from `SizeAssumption` and `ShardAssumption`. There may be
infinitely many shards and requests: that the occupants are finitely many is
part of the invariant. It says that a shard's state, drain and timeout thread agree
(`ShardInv`), that an entry is in one queue once, its channel open and without a
goroutine until somebody takes it out (`EntryInv`), that the slots taken are the
entries in queues plus the unblocked ones whose goroutine is to release
(`SlotInv`), and that a request whose client still waits has a slot
(`FlightInv`). In the refinement a request that is buffered is `Enter` or
`Replace`; the timeout thread's eviction and the drain's unblocking are `LetGo`; a
cancelled request that finds its entry is `GiveUp`; the end of
`waitForRequestFinish` with a release and of the drain's wait is `Leave`;
everything else is invisible, the hand-over of the queue to the drain included.

`ConnPool_proofs` proves for any clients and sizes, 0 included: `TypeCorrect`, `NoWrapperLost`,
`CountersAreExact` and `RoomForEverySender`, from `SizeAssumption` and
`ClientAssumption` (finitely many clients, so that they can be counted). The
invariant follows the controller (`CtlInv`: which capacity each step of a resize,
close or reopen leaves, and that the channel is closed exactly when the capacity
is 0 and drained), the blocked receivers (`QueueInv`: each waits once, with
empty hands, and only while the channel is empty), who holds a wrapper
(`HandInv`), and the two sums (`CountInv`). That a send finds room follows from the
sum, since the holder's own wrapper is not in the channel; that only a
`SetCapacity` to 0 closes the channel under a scan follows from `CtlInv`, since
`Close` and `reopen` go on only when the idle timer is off.

`StateManager_proofs` proves for any callers, requests and bounds: `TypeCorrect`,
`WantedTransition`, `PartsMatch`, `NoRequestsLeft`, `GraceEnds` and
`TargetRemembered`, from `BoundAssumption`. `PartsMatchState` is about the end of
a transition, so the invariant has to say what is open at each of its steps
whatever was open before: what `unserveCommon` has closed stays closed, what
`connect` and its successors open is exactly what is missing, and everything
else is as it should be already, since each transition closes what its state
does not have. `NotServingNoRequests` needs that from `requests.Wait` to
`setState` no ordinary request is admitted, which holds since what is wanted
cannot change while the semaphore is held.

`TxSerializer_proofs` proves for any calls, rows, queue objects and limits, dry
run or not: `TypeCorrect`, `CallsFindTheirQueue`, `AtMostConcurrent`,
`CountsAreExact`, `SlotReturnNeverBlocks` and `SlotsAreExact`, from
`LimitAssumption`, `FiniteAssumption` (the calls are finitely many, so that they
can be counted) and `NoneAssumption`. The invariant says that a queue belongs to
one key (`QueueInv`), that the blocked senders of a queue are different calls
that wait in it (`BlockedInv`), and, the heart of it, that the channel's elements
are as many as the calls that run, the first one included, while before the
channel exists the first call is alone (`SlotInv`).

The inductive invariants were checked by TLC on small instances before they were
proved. Only model-checked: the liveness properties `EventuallyResolved`,
`TransitionEnds`, `EveryRequestReturns`, `EveryCallProceeds`, `GetReturns`,
`CloseReturns` and `Converges`, since liveness under fairness and ENABLED are
beyond the prover. No module uses a RECURSIVE operator.

## 5. Findings

1. `twopc_recovery`: `CommitPrepared` answers success when the dtid is not in
   the prepared pool. Between a restart (or a shutdown's `FetchAll`) and the end
   of the replay that is wrong: the coordinator concludes, and the participant's
   changes stay in the redo log. Atomicity is lost without any fault but the
   restart.
2. `connpool_resize`: `Pool.SetCapacity` holds `Pool.mu` while it waits for
   connections, and `Put` needs it to return one. A resize below the number of
   connections in use stops the pool for good. `Pool.Close` gives the mutex up
   for this very reason.

Observations. Further properties that comments of the code suggest and that TLC
refutes, each with its configuration (run it by hand; it ends with a
counterexample):

- `MCTwoPC_orphan.cfg`, `RollbackCleansUp`: a `Prepare` that outlives its
  caller's timeout leaves a redo row or a prepared connection after
  `RollbackPrepared` is done (`tx_executor.go:45-47`).
- `MCTxEngine_dba.cfg`, `TransitionEnds`: idle transactions of DBA clients are
  exempt from the shutdown's rollback, and the shutdown waits for them without
  end (`tx_engine.go:289-291`).
- `MCTxEngine_returned.cfg`, `KilledWhenReturned`: a connection returned while
  `ShutdownNonTx` runs, or renewed by a commit, is not killed by it; the killer
  or `ShutdownAll` gets it later (`stateful_connection_pool.go:107`).
- `MCTxEngine_prepare.cfg`, `PreparedRolledBack`: a transaction prepared after
  `rollbackPrepared` is still prepared when `shutdownTransactions` ends
  (`tx_engine.go:437-440`).
- `MCTxEngine_limit.cfg`, `LimitRespected`: transactions on reserved connections
  are not counted against the user's limit (`tabletenv/config.go:144-146`).
- `MCTxEngine_quota.cfg`, `LimitReturned`: transactions that end by the release
  of their connection keep their place in the limiter (`tx_limiter.go:104-105`).
- `MCShardBuffer_wakeup.cfg`, `ThreadSeesQueue`: the timeout thread finds the
  queue empty, a request arrives and notifies nobody, and the thread then waits
  for a new channel; the request's window is not enforced until another one
  finds the queue empty or `MaxFailoverDuration` is over
  (`timeout_thread.go:25-26`).
- `MCShardBuffer_shutdown.cfg`, `ShutdownStopsAll`: a request that looked its
  shard up before `Shutdown` starts buffering after it (`buffer.go:224-226`).
- `MCConnPool_zero.cfg`, `ZeroIsClose`: `ResourcePool.SetCapacity(0)` is said to be
  equivalent to closing the pool (`resource_pool.go:354`), but `Close` stops the
  idle timer first and `SetCapacity` does not. A `closeIdleResources` under way
  receives a zero wrapper from the closed channel and panics when it sends it
  back (`resource_pool.go:223-230`), or, when the pool has grown again, puts a
  wrapper too many into the new channel. The page debug/env reaches it
  (`tabletserver.go:1785-1802`). `SendersFindRoom` says how far this goes: no holder
  of a wrapper of the pool meets a closed or full channel, and neither `Close` nor
  `reopen` closes it under a scan.
- `MCStateManager_revoked.cfg`, `ServingIsSettled`: a transition that failed
  half-way and is revoked by asking for the recorded state is not made
  (`state_manager.go:234`): the tablet says it serves with its transaction
  engine closed.

The design document (`src/doc/TwoPhaseCommitDesign.md:262`) also says that a
failed `StartCommit` makes vtgate roll the rest back; `commit2PC`
(`tx_conn.go:174-177`) only returns the error and leaves it to the watchdog.
The model follows the code.

## 6. Limits of the models

`TwoPC`: one dtid; one handler slot per caller and participant (a late handler
of an earlier call must end before the caller calls again); one `prepareFromRedo`
at a time: the code waits for the connection a replay holds, but a goroutine
that has read the redo log and not yet begun its transaction can live on into
the next term and replay a transaction that is over by then, which `AppliedOnce`
does not take into account; a refused
`preparedPool.Put` is a fault and the connection it leaks in the replay is not
followed; operators' actions on failed transactions (twopcz) are left out;
MySQL's transactions are durable and atomic. A failed commit is left to an
operator by the code, and `EventuallyResolved` says so.

`TxEngine`: transitions are serialised, as `stateManager`'s semaphore does; a
session sends one RPC at a time for a connection; `Commit` and `Rollback` are
called with open transactions; unregistering and recycling in `Releasef` are one
step; autocommit and consistent-snapshot transactions are not told apart; one
limiter user; no dry run. `GracePeriod` is TRUE in the runs: without it a
shutdown waits for the clients by design. Connections carry no data; what
their transactions contain is the subject of `TwoPC`.

`StateManager`: two types (a replica stands for every type that is not a
primary); lameduck, the time bomb of a shutdown and the normalisation of the
RESTORE and BACKUP types are left out; a component that cannot fail opens and
closes in one step with its neighbours.

`ShardBuffer`: a request enters the buffer once (its repetition is another
request); errors that are not a failover's are filtered before the model begins;
windows may fire at any time.

`TxSerializer`: `Queues` bounds the queue objects alive at a time; a call that
the limits refuse leaves no trace.

`ConnPool`: one of `Open`, `Close`, `SetCapacity` and `reopen` at a time. The code
does not enforce this for `reopen`, which the refresh goroutine calls, nor for
`SetCapacity` during `Close`, since `Pool.Close` drains without `Pool.mu`
(`pool.go:151-154`): what a reopen or a `SetCapacity` may do during a `Close` is
outside the model. A `SetCapacity` that grows the pool again replaces the channel
on which `Close` waits, so `CloseReturns` and the theorems say nothing about it.
Negative sizes are left out: an open pool refuses them, a closed one panics at the
next `Open`, as with 0. After a panic the model stops. No waiter
cap, no prefill, no `SetIdleTimeout`; connections carry no data.

Not modelled: see `components`. The reasons are external systems (topology,
MySQL, replication), sequential data conversion (parser, planner), and scope.

## 7. Plan

Done: every module of section 2, with the proofs of every safety property the
passing runs check and of both refinements.

Next, in this order:

1. Proofs: action properties of the components that have none yet, such as what
   a step may do to a shard's queue or to a connection's owner.
2. The replay joined with `TxEngine`: overlapping `prepareFromRedo` goroutines
   and the leaked connection.
3. `reopen` and `SetCapacity` against `Close` in `ConnPool`, with several
   channels; the message
   manager and the consolidators.
