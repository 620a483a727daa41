----------------------------- MODULE ShardBuffer -----------------------------
(***************************************************************************)
(* vtgate's failover buffer: Buffer, its shardBuffers over one shared      *)
(* semaphore, the timeout thread and the drain of each failover, and the   *)
(* calls of the gateway's withRetry.                                       *)
(*                                                                         *)
(* Actors: the request goroutines (a call that is not buffered leaves no   *)
(* trace, so withRetry's next call is another request), one timeout thread *)
(* and one drain goroutine per failing shard, one goroutine per entry that *)
(* was unblocked without waiting for it, the health check's listener, and  *)
(* Shutdown.  One step is one critical section of shardBuffer.mu,          *)
(* Buffer.mu or timeoutThread.mu, or one select.  Windows and the maximal  *)
(* duration are timers: they may fire at any time.                         *)
(***************************************************************************)
EXTENDS Naturals, Sequences, FiniteSets, SequencesExt

CONSTANTS
  Shards,      \* shards the gateway sends requests to
  Requests,    \* calls of WaitForFailoverEnd
  ShardOf,     \* the shard of each
  Size,        \* -buffer_size
  DryRun,      \* the shards in bufferModeDryRun; the others buffer
  Repeats      \* bound: a shard may fail over again after MinTimeBetweenFailovers

ASSUME SizeAssumption == Size \in Nat \ {0} /\ Repeats \in BOOLEAN
ASSUME ShardAssumption == ShardOf \in [Requests -> Shards] /\ DryRun \subseteq Shards

VARIABLES
  stopped,    \* Buffer.stopped
  slots,      \* free slots of bufferSizeSema
  state,      \* shardBuffer.state
  queue,      \* shardBuffer.queue (nil is the empty sequence)
  recent,     \* shards whose lastEnd or lastReparent is less than MinTimeBetweenFailovers ago
  thread,     \* where the timeout thread is
  watched,    \* the entry it waits for
  woken,      \* the channel it waits for was closed by notifyQueueNotEmpty
  stopChan,   \* its stopChan is closed
  drain,      \* where drain() is
  drainQ,     \* drain's q: the entries it has still to finish
  missing,    \* drain's err is ShardMissingError
  pc,         \* where a request is
  done,       \* entries whose done channel is closed
  failed,     \* entries whose err is set and not yet returned
  finished,   \* entries whose bufferCtx is done: it was finished, or the request's context
  async,      \* goroutines of waitForRequestFinish: "none", "release" or "keep" the slot
  shutdown,   \* where Shutdown is
  unwaited    \* the shards waitForShutdown has not waited for

semVars == <<stopped, slots>>
sbVars == <<state, queue, recent>>
threadVars == <<thread, watched, woken, stopChan>>
drainVars == <<drain, drainQ, missing>>
entryVars == <<done, failed, finished, async>>
shutVars == <<shutdown, unwaited>>
vars == <<semVars, sbVars, threadVars, drainVars, pc, entryVars, shutVars>>

Go(r, p) == pc' = [pc EXCEPT ![r] = p]

-----------------------------------------------------------------------------
(* unblockAndWait without blocking: set the error, close the channel and   *)
(* leave the rest to a goroutine.                                          *)
Unblock(r, err, mode) ==
  /\ done' = done \cup {r}
  /\ failed' = IF err THEN failed \cup {r} ELSE failed
  /\ async' = [async EXCEPT ![r] = mode]

(* Mutant: the slot is given back before the request has finished. *)
WaitForRequestFinishEarly(r) ==
  /\ async[r] # "none"
  /\ async' = [async EXCEPT ![r] = "none"]
  /\ slots' = IF async[r] = "release" THEN slots + 1 ELSE slots
  /\ UNCHANGED <<stopped, sbVars, threadVars, drainVars, pc, done, failed, finished, shutVars>>

(* Mutant: the slot that a newer entry has taken over is released too. *)
WaitForRequestFinishAlways(r) ==
  /\ async[r] # "none" /\ r \in finished
  /\ async' = [async EXCEPT ![r] = "none"] /\ slots' = slots + 1
  /\ UNCHANGED <<stopped, sbVars, threadVars, drainVars, pc, done, failed, finished, shutVars>>

WaitForRequestFinish(r) ==
  /\ async[r] # "none" /\ r \in finished
  /\ async' = [async EXCEPT ![r] = "none"]
  /\ slots' = IF async[r] = "release" THEN slots + 1 ELSE slots
  /\ UNCHANGED <<stopped, sbVars, threadVars, drainVars, pc, done, failed, finished, shutVars>>

-----------------------------------------------------------------------------
(* Requests *)

(* WaitForFailoverEnd: getOrCreateBuffer returns the shard's buffer unless *)
(* the buffer was shut down.  failing: the request has failed because of a *)
(* failover.  Requests with other errors do not get here.                  *)
GetOrCreateBuffer(r, failing) ==
  /\ pc[r] = "new" /\ ~stopped
  /\ Go(r, IF failing THEN "failing" ELSE "call")
  /\ UNCHANGED <<semVars, sbVars, threadVars, drainVars, entryVars, shutVars>>

ShouldBuffer(s, failoverDetected) ==
  \/ state[s] = "IDLE" /\ failoverDetected
  \/ state[s] = "BUFFERING"

InCall(r) == pc[r] \in {"call", "failing"}

(* The request must not wait: there is no failover, or it is being drained, *)
(* or the last one is too recent.  It returns at once.                     *)
PassThrough(r) ==
  /\ InCall(r)
  /\ \/ ~ShouldBuffer(ShardOf[r], pc[r] = "failing")
     \/ state[ShardOf[r]] = "IDLE" /\ ShardOf[r] \in recent
  /\ Go(r, "new")
  /\ UNCHANGED <<semVars, sbVars, threadVars, drainVars, entryVars, shutVars>>

(* startBufferingLocked, with a new timeout thread. *)
StartBuffering(s) ==
  /\ state' = [state EXCEPT ![s] = "BUFFERING"]
  /\ thread' = [thread EXCEPT ![s] = "loop"] /\ stopChan' = stopChan \ {s}

(* notifyQueueNotEmpty closes the channel that is current: only a thread   *)
(* that has already taken it notices.                                      *)
Notify(s) == woken' = IF thread[s] = "sleep" THEN woken \cup {s} ELSE woken

(* Mutant: the evicted entry's goroutine releases the slot that was reused. *)
BufferRequestReleases(r, s) ==
  \/ /\ slots > 0
     /\ slots' = slots - 1 /\ queue' = [queue EXCEPT ![s] = Append(@, r)]
     /\ Go(r, "wait") /\ UNCHANGED <<done, failed, async>>
  \/ /\ slots = 0 /\ queue[s] # <<>>
     /\ Unblock(Head(queue[s]), TRUE, "release")
     /\ queue' = [queue EXCEPT ![s] = Append(Tail(@), r)]
     /\ Go(r, "wait") /\ UNCHANGED slots
  \/ /\ slots = 0 /\ queue[s] = <<>>
     /\ Go(r, "new") /\ UNCHANGED <<slots, queue, done, failed, async>>

(* Mutant: the newest entry is evicted instead of the oldest. *)
BufferRequestEvictsNewest(r, s) ==
  \/ /\ slots > 0
     /\ slots' = slots - 1 /\ queue' = [queue EXCEPT ![s] = Append(@, r)]
     /\ Go(r, "wait") /\ UNCHANGED <<done, failed, async>>
  \/ /\ slots = 0 /\ queue[s] # <<>>
     /\ Unblock(Last(queue[s]), TRUE, "keep")
     /\ queue' = [queue EXCEPT ![s] = Append(Front(@), r)]
     /\ Go(r, "wait") /\ UNCHANGED slots
  \/ /\ slots = 0 /\ queue[s] = <<>>
     /\ Go(r, "new") /\ UNCHANGED <<slots, queue, done, failed, async>>

(* bufferRequestLocked: take a slot, or that of the shard's oldest entry,  *)
(* or fail.                                                                *)
BufferRequest(r, s) ==
  \/ /\ slots > 0
     /\ slots' = slots - 1 /\ queue' = [queue EXCEPT ![s] = Append(@, r)]
     /\ Go(r, "wait") /\ UNCHANGED <<done, failed, async>>
  \/ /\ slots = 0 /\ queue[s] # <<>>
     /\ Unblock(Head(queue[s]), TRUE, "keep")
     /\ queue' = [queue EXCEPT ![s] = Append(Tail(@), r)]
     /\ Go(r, "wait") /\ UNCHANGED slots
  \/ /\ slots = 0 /\ queue[s] = <<>>
     /\ Go(r, "new") /\ UNCHANGED <<slots, queue, done, failed, async>>

(* waitForFailoverEnd, when the request is to be buffered. *)
WaitForFailoverEnd(r) ==
  LET s == ShardOf[r]
      starts == state[s] = "IDLE"
  IN /\ InCall(r)
     /\ ShouldBuffer(s, pc[r] = "failing") /\ (starts => s \notin recent)
     /\ IF starts THEN StartBuffering(s)
                  ELSE UNCHANGED <<state, stopChan, thread>>
     /\ IF s \in DryRun
        THEN Go(r, "new") /\ UNCHANGED <<slots, queue, done, failed, async>>
        ELSE BufferRequest(r, s)
     /\ IF Len(queue'[s]) = 1 /\ pc'[r] = "wait" THEN Notify(s) ELSE UNCHANGED woken
     /\ UNCHANGED <<stopped, recent, watched, drainVars, finished, shutVars>>

(* wait(): the entry was unblocked.  An evicted request ends with an error *)
(* and its deferred retryDone cancels bufferCtx.                           *)
WaitReturns(r) ==
  /\ pc[r] = "wait" /\ r \in done
  /\ Go(r, IF r \in failed THEN "end" ELSE "retry")
  /\ finished' = IF r \in failed THEN finished \cup {r} ELSE finished
  /\ failed' = failed \ {r}
  /\ UNCHANGED <<semVars, sbVars, threadVars, drainVars, done, async, shutVars>>

(* wait(): the request's context is done. *)
WaitCancelled(r) ==
  /\ pc[r] = "wait" /\ r \in finished
  /\ Go(r, "remove")
  /\ UNCHANGED <<semVars, sbVars, threadVars, drainVars, entryVars, shutVars>>

(* remove: the entry may have been taken out of the queue meanwhile. *)
RemoveEntry(r) ==
  LET s == ShardOf[r]
  IN /\ pc[r] = "remove" /\ Go(r, "end")
     /\ IF r \in Range(queue[s])
        THEN /\ \E i \in DOMAIN queue[s] :
                  queue[s][i] = r /\ queue' = [queue EXCEPT ![s] = RemoveAt(@, i)]
             /\ finished' = finished \cup {r} /\ Unblock(r, FALSE, "release")
        ELSE UNCHANGED <<queue, entryVars>>
     /\ UNCHANGED <<semVars, state, recent, threadVars, drainVars, shutVars>>

(* The retry is over, with any result, and retryDone is called. *)
RetryDone(r) ==
  /\ pc[r] = "retry" /\ Go(r, "end") /\ finished' = finished \cup {r}
  /\ UNCHANGED <<semVars, sbVars, threadVars, drainVars, done, failed, async, shutVars>>

(* The client gives up, or its deadline passes. *)
CtxDone(r) ==
  /\ pc[r] \in {"wait", "retry"} /\ r \notin finished
  /\ finished' = finished \cup {r}
  /\ UNCHANGED <<semVars, sbVars, threadVars, drainVars, pc, done, failed, async, shutVars>>

-----------------------------------------------------------------------------
(* The end of a failover *)

(* Mutant: the drain does not get the queue. *)
StopBufferingDropsQueue(S, shardMissing, reparented) ==
  LET B == {s \in S : state[s] = "BUFFERING"}
  IN /\ state' = [s \in Shards |-> IF s \in B THEN "DRAINING" ELSE state[s]]
     /\ queue' = [s \in Shards |-> IF s \in B THEN <<>> ELSE queue[s]]
     /\ drain' = [s \in Shards |-> IF s \in B THEN "start" ELSE drain[s]]
     /\ missing' = IF shardMissing THEN missing \cup B ELSE missing
     /\ recent' = recent \cup B \cup (IF reparented THEN S ELSE {})
     /\ UNCHANGED drainQ

(* stopBufferingLocked for the shards of S: those that buffer change state *)
(* and hand their queue to a drain.  reparented: the primaries changed.    *)
StopBuffering(S, shardMissing, reparented) ==
  LET B == {s \in S : state[s] = "BUFFERING"}
  IN /\ state' = [s \in Shards |-> IF s \in B THEN "DRAINING" ELSE state[s]]
     /\ queue' = [s \in Shards |-> IF s \in B THEN <<>> ELSE queue[s]]
     /\ drain' = [s \in Shards |-> IF s \in B THEN "start" ELSE drain[s]]
     /\ drainQ' = [s \in Shards |-> IF s \in B THEN queue[s] ELSE drainQ[s]]
     /\ missing' = IF shardMissing THEN missing \cup B ELSE missing
     /\ recent' = recent \cup B \cup (IF reparented THEN S ELSE {})

(* recordKeyspaceEvent and recordExternallyReparentedTimestamp: a new      *)
(* primary is announced, or the shard is gone after a resharding.  The     *)
(* listener may have looked the shard up before a shutdown.                *)
RecordEvent(s, reparented, stillServing) ==
  /\ StopBuffering({s}, ~stillServing, reparented)
  /\ UNCHANGED <<semVars, threadVars, pc, entryVars, shutVars>>

(* MinTimeBetweenFailovers has passed since lastEnd and lastReparent. *)
TimePasses(s) ==
  /\ Repeats /\ s \in recent /\ recent' = recent \ {s}
  /\ UNCHANGED <<semVars, state, queue, threadVars, drainVars, pc, entryVars, shutVars>>

(* Mutant: drain does not wait for the timeout thread. *)
DrainStopNoWait(s) ==
  /\ drain[s] = "stop"
  /\ drain' = [drain EXCEPT ![s] = "next"]
  /\ UNCHANGED <<semVars, sbVars, threadVars, drainQ, missing, pc, entryVars, shutVars>>

(* drain: timeoutThread.stop() closes stopChan ... *)
DrainStart(s) ==
  /\ drain[s] = "start"
  /\ drain' = [drain EXCEPT ![s] = "stop"] /\ stopChan' = stopChan \cup {s}
  /\ UNCHANGED <<semVars, sbVars, thread, watched, woken, drainQ, missing, pc, entryVars, shutVars>>

(* ... and waits until the thread has exited. *)
DrainStop(s) ==
  /\ drain[s] = "stop" /\ thread[s] = "none"
  /\ drain' = [drain EXCEPT ![s] = "next"]
  /\ UNCHANGED <<semVars, sbVars, threadVars, drainQ, missing, pc, entryVars, shutVars>>

(* drain: unblock the next entry ... *)
DrainUnblock(s) ==
  /\ drain[s] = "next" /\ drainQ[s] # <<>>
  /\ drain' = [drain EXCEPT ![s] = "wait"]
  /\ done' = done \cup {Head(drainQ[s])}
  /\ failed' = IF s \in missing THEN failed \cup {Head(drainQ[s])} ELSE failed
  /\ UNCHANGED <<semVars, sbVars, threadVars, drainQ, missing, pc, finished, async, shutVars>>

(* ... and wait for its retry before the next one. *)
DrainWait(s) ==
  /\ drain[s] = "wait" /\ Head(drainQ[s]) \in finished
  /\ drain' = [drain EXCEPT ![s] = "next"] /\ drainQ' = [drainQ EXCEPT ![s] = Tail(@)]
  /\ slots' = slots + 1
  /\ UNCHANGED <<stopped, sbVars, threadVars, missing, pc, entryVars, shutVars>>

DrainEnd(s) ==
  /\ drain[s] = "next" /\ drainQ[s] = <<>>
  /\ drain' = [drain EXCEPT ![s] = "none"] /\ missing' = missing \ {s}
  /\ state' = [state EXCEPT ![s] = "IDLE"]
  /\ UNCHANGED <<semVars, queue, recent, threadVars, drainQ, pc, entryVars, shutVars>>

-----------------------------------------------------------------------------
(* The timeout thread *)

Thread(s, p) == thread' = [thread EXCEPT ![s] = p]
OnlyThread == UNCHANGED <<semVars, sbVars, drainVars, pc, entryVars, shutVars>>

(* run: oldestEntry. *)
ThreadLoop(s) ==
  /\ thread[s] = "loop"
  /\ IF queue[s] = <<>> THEN Thread(s, "empty") /\ UNCHANGED watched
     ELSE Thread(s, "entry") /\ watched' = [watched EXCEPT ![s] = Head(queue[s])]
  /\ UNCHANGED <<woken, stopChan>> /\ OnlyThread

(* waitForNonEmptyQueue reads the channel it is going to wait for. *)
ThreadSleeps(s) ==
  /\ thread[s] = "empty"
  /\ Thread(s, "sleep") /\ woken' = woken \ {s}
  /\ UNCHANGED <<watched, stopChan>> /\ OnlyThread

ThreadWoken(s) ==
  /\ thread[s] = "sleep" /\ s \in woken
  /\ Thread(s, "loop") /\ woken' = woken \ {s}
  /\ UNCHANGED <<watched, stopChan>> /\ OnlyThread

(* waitForEntry: the entry was unblocked, or its window is exceeded. *)
EntryDone(s) ==
  /\ thread[s] = "entry" /\ watched[s] \in done
  /\ Thread(s, "loop") /\ watched' = [watched EXCEPT ![s] = "none"]
  /\ UNCHANGED <<woken, stopChan>> /\ OnlyThread

WindowExceeded(s) ==
  /\ thread[s] = "entry" /\ Thread(s, "evict")
  /\ UNCHANGED <<watched, woken, stopChan>> /\ OnlyThread

(* Mutant: the head of the queue is evicted, whichever entry it is. *)
EvictOldestEntryUnchecked(s) ==
  /\ thread[s] = "evict" /\ Thread(s, "loop") /\ watched' = [watched EXCEPT ![s] = "none"]
  /\ Unblock(watched[s], FALSE, "release")
  /\ queue' = [queue EXCEPT ![s] = IF @ = <<>> THEN @ ELSE Tail(@)]
  /\ UNCHANGED <<semVars, state, recent, woken, stopChan, drainVars, pc, finished, shutVars>>

(* evictOldestEntry: unless the entry is no longer the head of the queue. *)
EvictOldestEntry(s) ==
  /\ thread[s] = "evict" /\ Thread(s, "loop") /\ watched' = [watched EXCEPT ![s] = "none"]
  /\ IF queue[s] # <<>> /\ Head(queue[s]) = watched[s]
     THEN /\ Unblock(watched[s], FALSE, "release")
          /\ queue' = [queue EXCEPT ![s] = Tail(@)]
     ELSE UNCHANGED <<queue, done, failed, async>>
  /\ UNCHANGED <<semVars, state, recent, woken, stopChan, drainVars, pc, finished, shutVars>>

(* The failover takes longer than MaxFailoverDuration. *)
MaxDuration(s) ==
  /\ thread[s] \in {"entry", "sleep"} /\ Thread(s, "max")
  /\ watched' = [watched EXCEPT ![s] = "none"] /\ woken' = woken \ {s}
  /\ UNCHANGED stopChan /\ OnlyThread

(* stopBufferingDueToMaxDuration, after which the thread exits. *)
StopDueToMaxDuration(s) ==
  /\ thread[s] = "max" /\ Thread(s, "none")
  /\ StopBuffering({s}, FALSE, FALSE)
  /\ UNCHANGED <<semVars, watched, woken, stopChan, pc, entryVars, shutVars>>

ThreadStops(s) ==
  /\ thread[s] \in {"entry", "sleep"} /\ s \in stopChan /\ Thread(s, "none")
  /\ watched' = [watched EXCEPT ![s] = "none"] /\ woken' = woken \ {s}
  /\ UNCHANGED stopChan /\ OnlyThread

-----------------------------------------------------------------------------
(* Buffer.Shutdown *)

Shutdown ==
  /\ shutdown = "no" /\ shutdown' = "waiting"
  /\ stopped' = TRUE /\ unwaited' = Shards
  /\ StopBuffering(Shards, FALSE, FALSE)
  /\ UNCHANGED <<slots, threadVars, pc, entryVars>>

(* shardBuffer.wg counts the drain and the goroutines of unblocked entries. *)
NoGoroutines(s) == drain[s] = "none" /\ \A r \in Requests : ShardOf[r] = s => async[r] = "none"

WaitForShutdown(s) ==
  /\ s \in unwaited /\ NoGoroutines(s) /\ unwaited' = unwaited \ {s}
  /\ shutdown' = IF unwaited' = {} THEN "returned" ELSE shutdown
  /\ UNCHANGED <<semVars, sbVars, threadVars, drainVars, pc, entryVars>>

-----------------------------------------------------------------------------
Init ==
  /\ stopped = FALSE /\ slots = Size
  /\ state = [s \in Shards |-> "IDLE"] /\ queue = [s \in Shards |-> <<>>] /\ recent = {}
  /\ thread = [s \in Shards |-> "none"] /\ watched = [s \in Shards |-> "none"]
  /\ woken = {} /\ stopChan = {}
  /\ drain = [s \in Shards |-> "none"] /\ drainQ = [s \in Shards |-> <<>>] /\ missing = {}
  /\ pc = [r \in Requests |-> "new"]
  /\ done = {} /\ failed = {} /\ finished = {} /\ async = [r \in Requests |-> "none"]
  /\ shutdown = "no" /\ unwaited = {}

RequestStep(r) ==
  \/ PassThrough(r) \/ WaitForFailoverEnd(r) \/ WaitReturns(r) \/ WaitCancelled(r)
  \/ RemoveEntry(r) \/ RetryDone(r)

DrainStep(s) == DrainStart(s) \/ DrainStop(s) \/ DrainUnblock(s) \/ DrainWait(s) \/ DrainEnd(s)

ThreadStep(s) ==
  \/ ThreadLoop(s) \/ ThreadSleeps(s) \/ ThreadWoken(s) \/ EntryDone(s)
  \/ EvictOldestEntry(s) \/ StopDueToMaxDuration(s) \/ ThreadStops(s)

(* What clients, the cluster and the clock may do but need not. *)
Environment ==
  \/ \E r \in Requests, failing \in BOOLEAN : GetOrCreateBuffer(r, failing)
  \/ \E r \in Requests : CtxDone(r)
  \/ \E s \in Shards, reparented, stillServing \in BOOLEAN : RecordEvent(s, reparented, stillServing)
  \/ \E s \in Shards : TimePasses(s) \/ WindowExceeded(s)
  \/ Shutdown

Next ==
  \/ Environment
  \/ \E r \in Requests : RequestStep(r) \/ WaitForRequestFinish(r)
  \/ \E s \in Shards : DrainStep(s) \/ ThreadStep(s) \/ MaxDuration(s) \/ WaitForShutdown(s)

Spec == Init /\ [][Next]_vars

(* Goroutines run, queries return, and the timer of MaxFailoverDuration    *)
(* fires.                                                                  *)
Fairness ==
  /\ \A r \in Requests : WF_vars(RequestStep(r)) /\ WF_vars(WaitForRequestFinish(r))
  /\ \A s \in Shards :
       WF_vars(DrainStep(s)) /\ WF_vars(ThreadStep(s)) /\ WF_vars(MaxDuration(s))
       /\ WF_vars(WaitForShutdown(s))

FairSpec == Spec /\ Fairness

-----------------------------------------------------------------------------
(* Properties *)

Threads == {"none", "loop", "entry", "empty", "sleep", "evict", "max"}
Places == {"new", "call", "failing", "wait", "remove", "retry", "end"}

(* Every variable keeps its type; the semaphore never holds more than Size *)
(* slots, or a Release would block.                                        *)
TypeOK ==
  /\ stopped \in BOOLEAN /\ slots \in 0..Size
  /\ state \in [Shards -> {"IDLE", "BUFFERING", "DRAINING"}]
  /\ queue \in [Shards -> Seq(Requests)] /\ recent \subseteq Shards
  /\ thread \in [Shards -> Threads] /\ watched \in [Shards -> Requests \cup {"none"}]
  /\ woken \subseteq Shards /\ stopChan \subseteq Shards
  /\ drain \in [Shards -> {"none", "start", "stop", "next", "wait"}]
  /\ drainQ \in [Shards -> Seq(Requests)] /\ missing \subseteq Shards
  /\ pc \in [Requests -> Places]
  /\ done \subseteq Requests /\ failed \subseteq Requests /\ finished \subseteq Requests
  /\ async \in [Requests -> {"none", "release", "keep"}]
  /\ shutdown \in {"no", "waiting", "returned"} /\ unwaited \subseteq Shards

(* The entries that wait to be unblocked, and those that were unblocked    *)
(* and whose slot is still to be released.                                 *)
Waiting(s) ==
  IF drain[s] = "none" THEN queue[s]
  ELSE IF drain[s] = "wait" THEN Tail(drainQ[s]) ELSE drainQ[s]
Draining == {Head(drainQ[s]) : s \in {x \in Shards : drain[x] = "wait"}}
Leaving == {r \in Requests : async[r] = "release"} \cup Draining
AllWaiting == UNION {Range(Waiting(s)) : s \in Shards}

(* Every slot that is taken belongs to exactly one entry, so none is lost  *)
(* or released twice, when a request is finished, evicted for a newer     *)
(* one, evicted by the timeout thread and drained at the same time.        *)
SlotsAccounted ==
  /\ slots = Size - Cardinality(AllWaiting \cup Leaving)
  /\ AllWaiting \cap Leaving = {}
  /\ Draining \cap {r \in Requests : async[r] # "none"} = {}

(* The done channel of an entry is closed once (a second close panics):    *)
(* whoever takes an entry out of a queue finds its channel open, and the   *)
(* entry is in no other queue.                                             *)
ClosedOnce ==
  /\ AllWaiting \cap done = {}
  /\ \A s \in Shards : IsInjective(Waiting(s)) /\ \A r \in Range(Waiting(s)) : ShardOf[r] = s

(* At most Size requests that their clients still wait for are buffered or *)
(* retried after it, over all shards (-buffer_size).                       *)
InFlightBounded ==
  Cardinality({r \in Requests : pc[r] \in {"wait", "retry"} /\ r \notin finished \cup failed}) <= Size

(* The state of a shard and its goroutines agree: a failover has one       *)
(* timeout thread that nobody has stopped, a new failover begins only when *)
(* the thread and the drain of the last one are gone, and requests queue   *)
(* up during the failover only.                                            *)
OneFailoverAtATime == \A s \in Shards :
  /\ state[s] = "BUFFERING" => thread[s] # "none" /\ s \notin stopChan /\ drain[s] = "none"
  /\ state[s] = "DRAINING" => drain[s] # "none" /\ queue[s] = <<>>
  /\ state[s] = "IDLE" => thread[s] = "none" /\ drain[s] = "none" /\ queue[s] = <<>>

(* The buffer behaves as a bounded buffer that lets the requests of a      *)
(* shard go in the order of their arrival, each of them once.              *)
Buffered == INSTANCE BoundedBuffer
  WITH held <- [s \in Shards |-> Waiting(s)], leaving <- Leaving, seen <- AllWaiting \cup done
ImplementsBoundedBuffer == Buffered!Spec

(* A buffered request is let go in the end, whatever events are missed,    *)
(* since the failover ends with MaxFailoverDuration at the latest.         *)
EveryRequestReturns == \A r \in Requests : pc[r] = "wait" ~> pc[r] \in {"retry", "end"}

(* A failover and its drain end, and so does a shutdown. *)
FailoverEnds ==
  /\ \A s \in Shards : state[s] = "BUFFERING" ~> state[s] = "IDLE"
  /\ shutdown = "waiting" ~> shutdown = "returned"

(* The timeout thread, when it waits for the queue to fill, is woken if    *)
(* the queue is not empty: otherwise no window is enforced.                *)
ThreadSeesQueue == \A s \in Shards :
  thread[s] = "sleep" /\ s \notin woken => queue[s] = <<>>

(* After Shutdown has returned, no goroutine of the buffer runs. *)
ShutdownStopsAll ==
  shutdown = "returned" => \A s \in Shards : thread[s] = "none" /\ NoGoroutines(s)
=============================================================================
