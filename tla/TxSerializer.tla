---------------------------- MODULE TxSerializer ----------------------------
(***************************************************************************)
(* Hot row protection: TxSerializer queues the BeginExecute calls that     *)
(* target one row (range) and lets at most concurrentTransactions of them  *)
(* through at a time.                                                      *)
(*                                                                         *)
(* A queue is an object of its own: a call keeps the one it found although *)
(* the map may lose it meanwhile.  One step is one critical section of     *)
(* TxSerializer.mu or one operation on the channel availableSlots, whose   *)
(* blocked senders are served in the order in which they came.             *)
(***************************************************************************)
EXTENDS Naturals, Sequences, FiniteSets, SequencesExt

CONSTANTS
  Txs,                     \* BeginExecute calls
  Keys,                    \* rows (ranges)
  Queues,                  \* the queue objects that may exist at a time
  concurrentTransactions,  \* -hot_row_protection_concurrent_transactions
  maxQueueSize,            \* -hot_row_protection_max_queue_size
  maxGlobalQueueSize,      \* -hot_row_protection_max_global_queue_size
  dryRun                   \* -enable_hot_row_protection_dry_run

ASSUME LimitAssumption ==
  /\ concurrentTransactions \in Nat \ {0} /\ maxQueueSize \in Nat \ {0}
  /\ maxGlobalQueueSize \in Nat \ {0} /\ dryRun \in BOOLEAN
ASSUME FiniteAssumption == IsFiniteSet(Txs)
ASSUME NoneAssumption == "none" \notin Queues

VARIABLES
  queues,      \* queues[k]: the object the map has for key k, or "none"
  size,        \* queue.size
  channel,     \* the objects whose availableSlots was created
  slots,       \* the elements in availableSlots
  blocked,     \* the calls blocked in a send to availableSlots, in order
  globalSize,  \* TxSerializer.globalSize
  pc,          \* where a call is
  key,         \* its key
  queue        \* its queue: lockLocked's q

qVars == <<queues, size, channel, slots, blocked, globalSize>>
vars == <<qVars, pc, key, queue>>

Go(t, p) == pc' = [pc EXCEPT ![t] = p]
(* The call is over. *)
Leave(t) ==
  /\ pc' = [pc EXCEPT ![t] = "idle"] /\ queue' = [queue EXCEPT ![t] = "none"]
  /\ UNCHANGED key

Referenced == {queues[k] : k \in Keys} \cup {queue[t] : t \in Txs}

-----------------------------------------------------------------------------
(* lockLocked *)

(* The first call for a row: a queue without a channel. *)
First(t, k) ==
  /\ pc[t] = "idle" /\ queues[k] = "none"
  /\ \E q \in Queues \ Referenced :
       /\ queues' = [queues EXCEPT ![k] = q] /\ queue' = [queue EXCEPT ![t] = q]
       /\ size' = [size EXCEPT ![q] = 1]
       /\ channel' = channel \ {q} /\ slots' = [slots EXCEPT ![q] = 0]
       /\ blocked' = [blocked EXCEPT ![q] = <<>>]
  /\ globalSize' = globalSize + 1
  /\ Go(t, "run") /\ key' = [key EXCEPT ![t] = k]

(* Too many calls are queued.  In dry run mode they are only reported. *)
Full(q) == ~dryRun /\ (globalSize >= maxGlobalQueueSize \/ size[q] >= maxQueueSize)

(* Mutant: the new channel has no element for the call that is running. *)
ChannelEmpty(q) ==
  /\ channel' = channel \cup {q}
  /\ UNCHANGED slots

(* The channel is created with an element for the first call when the      *)
(* second one comes.                                                       *)
Channel(q) ==
  /\ channel' = channel \cup {q}
  /\ slots' = IF q \in channel THEN slots ELSE [slots EXCEPT ![q] = 1]

(* Mutant: the call that has to wait is not counted. *)
JoinUncounted(t, k) ==
  LET q == queues[k]
  IN /\ pc[t] = "idle" /\ q # "none" /\ ~Full(q)
     /\ Channel(q)
     /\ Go(t, IF dryRun THEN "run" ELSE "try")
     /\ key' = [key EXCEPT ![t] = k] /\ queue' = [queue EXCEPT ![t] = q]
     /\ UNCHANGED <<queues, size, globalSize, blocked>>

(* Another call: it is counted, and the mutex is given up. *)
Join(t, k) ==
  LET q == queues[k]
  IN /\ pc[t] = "idle" /\ q # "none" /\ ~Full(q)
     /\ Channel(q)
     /\ globalSize' = globalSize + 1 /\ size' = [size EXCEPT ![q] = @ + 1]
     /\ Go(t, IF dryRun THEN "run" ELSE "try")
     /\ key' = [key EXCEPT ![t] = k] /\ queue' = [queue EXCEPT ![t] = q]
     /\ UNCHANGED <<queues, blocked>>

TakeSlot(t) ==
  /\ slots' = [slots EXCEPT ![queue[t]] = @ + 1] /\ Go(t, "run")
  /\ UNCHANGED <<queues, size, channel, blocked, globalSize, key, queue>>

(* Mutant: the channel has room for one more. *)
HasRoomOffByOne(q) == slots[q] <= concurrentTransactions

HasRoom(q) == slots[q] < concurrentTransactions

(* The non-blocking attempt to get a slot. *)
Try(t) ==
  /\ pc[t] = "try"
  /\ \/ HasRoom(queue[t]) /\ TakeSlot(t)
     \/ ~HasRoom(queue[t]) /\ Go(t, "select") /\ UNCHANGED <<qVars, key, queue>>

(* The blocking one: take a slot that is free by now, or queue up. *)
Select(t) ==
  /\ pc[t] = "select"
  /\ \/ HasRoom(queue[t]) /\ TakeSlot(t)
     \/ /\ ~HasRoom(queue[t]) /\ Go(t, "wait")
        /\ blocked' = [blocked EXCEPT ![queue[t]] = Append(@, t)]
        /\ UNCHANGED <<queues, size, channel, slots, globalSize, key, queue>>

(* The context is done before a slot was free. *)
CtxDone(t) ==
  /\ pc[t] \in {"select", "wait"} /\ Go(t, "cancelled")
  /\ \/ pc[t] = "select" /\ UNCHANGED blocked
     \/ \E i \in DOMAIN blocked[queue[t]] :
          /\ blocked[queue[t]][i] = t
          /\ blocked' = [blocked EXCEPT ![queue[t]] = RemoveAt(@, i)]
  /\ UNCHANGED <<queues, size, channel, slots, globalSize, key, queue>>

-----------------------------------------------------------------------------
(* unlockLocked.  It looks the queue up again. *)

Uncount(q) == size' = [size EXCEPT ![q] = @ - 1] /\ globalSize' = globalSize - 1

(* Mutant: the queue is deleted when no call runs, although some wait. *)
DeleteIfLastEarly(t, q) ==
  queues' = [queues EXCEPT ![key[t]] =
               IF \A u \in Txs \ {t} : queue[u] # q \/ pc[u] # "run" THEN "none" ELSE q]

DeleteIfLast(t, q) == queues' = [queues EXCEPT ![key[t]] = IF size[q] = 1 THEN "none" ELSE q]

(* The receive from availableSlots: the first blocked sender's element     *)
(* takes the place of the one that is received.                            *)
Receive(t, q) ==
  IF blocked[q] = <<>>
  THEN /\ slots' = [slots EXCEPT ![q] = @ - 1]
       /\ pc' = [pc EXCEPT ![t] = "idle"] /\ UNCHANGED blocked
  ELSE /\ pc' = [pc EXCEPT ![t] = "idle", ![Head(blocked[q])] = "run"]
       /\ blocked' = [blocked EXCEPT ![q] = Tail(@)] /\ UNCHANGED slots

(* Mutant: the receive is left out, and the slot is not given up. *)
DoneKeepsSlot(t) ==
  LET q == queues[key[t]]
  IN /\ pc[t] = "run" /\ q # "none"
     /\ Uncount(q) /\ DeleteIfLast(t, q) /\ Leave(t)
     /\ UNCHANGED <<channel, slots, blocked>>

(* The call's transaction has begun and executed its first statement.      *)
(* The receive blocks, with the mutex held, if the channel has no element. *)
Done(t) ==
  LET q == queues[key[t]]
  IN /\ pc[t] = "run" /\ q # "none"
     /\ Uncount(q) /\ DeleteIfLast(t, q)
     /\ \/ (size[q] = 1 \/ dryRun) /\ Go(t, "idle") /\ UNCHANGED <<slots, blocked>>
        \/ size[q] # 1 /\ ~dryRun /\ slots[q] > 0 /\ Receive(t, q)
     /\ queue' = [queue EXCEPT ![t] = "none"]
     /\ UNCHANGED <<channel, key>>

(* Mutant: unlockLocked(key, true), which gives up a slot that the call     *)
(* never got.                                                              *)
GiveUpReturnsSlot(t) ==
  LET q == queues[key[t]]
  IN /\ pc[t] = "cancelled" /\ q # "none"
     /\ Uncount(q) /\ DeleteIfLast(t, q)
     /\ \/ size[q] = 1 /\ Go(t, "idle") /\ UNCHANGED <<slots, blocked>>
        \/ size[q] # 1 /\ slots[q] > 0 /\ Receive(t, q)
     /\ queue' = [queue EXCEPT ![t] = "none"]
     /\ UNCHANGED <<channel, key>>

(* Wait, after its context was done: no slot is returned. *)
GiveUp(t) ==
  LET q == queues[key[t]]
  IN /\ pc[t] = "cancelled" /\ q # "none"
     /\ Uncount(q) /\ DeleteIfLast(t, q) /\ Leave(t)
     /\ UNCHANGED <<channel, slots, blocked>>

-----------------------------------------------------------------------------
Init ==
  /\ queues = [k \in Keys |-> "none"] /\ globalSize = 0
  /\ size = [q \in Queues |-> 0] /\ channel = {} /\ slots = [q \in Queues |-> 0]
  /\ blocked = [q \in Queues |-> <<>>]
  /\ pc = [t \in Txs |-> "idle"] /\ key \in [Txs -> Keys] /\ queue = [t \in Txs |-> "none"]

Step(t) == Try(t) \/ Select(t) \/ Done(t) \/ GiveUp(t)

Next == \E t \in Txs : Step(t) \/ CtxDone(t) \/ \E k \in Keys : First(t, k) \/ Join(t, k)

Spec == Init /\ [][Next]_vars

(* Goroutines run and the calls that were let through end. *)
FairSpec == Spec /\ \A t \in Txs : WF_vars(Step(t))

-----------------------------------------------------------------------------
(* Properties *)

(* Every variable keeps its type. *)
TypeOK ==
  /\ queues \in [Keys -> Queues \cup {"none"}] /\ globalSize \in Nat
  /\ size \in [Queues -> Nat] /\ channel \subseteq Queues
  /\ slots \in [Queues -> Nat] /\ blocked \in [Queues -> Seq(Txs)]
  /\ pc \in [Txs -> {"idle", "try", "select", "wait", "cancelled", "run"}]
  /\ key \in [Txs -> Keys] /\ queue \in [Txs -> Queues \cup {"none"}]

Running(q) == {t \in Txs : pc[t] = "run" /\ queue[t] = q}

(* A call that was counted finds its own queue when it looks the key up    *)
(* again, although the mutex was given up in between: unlockLocked never   *)
(* works on a queue that others have created meanwhile, nor on nil.        *)
SameQueue == \A t \in Txs : pc[t] # "idle" => queue[t] # "none" /\ queues[key[t]] = queue[t]

(* At most concurrentTransactions calls per row are let through, counting  *)
(* the first one, which has no slot of its own.                            *)
ConcurrencyBounded == ~dryRun => \A k \in Keys :
  Cardinality({t \in Txs : pc[t] = "run" /\ key[t] = k}) <= concurrentTransactions

(* The counts are exact: a queue leaves the map with its last call, and    *)
(* the limits compare with the number of calls that are there.             *)
CountsExact ==
  /\ \A q \in Queues : (\E k \in Keys : queues[k] = q) =>
       size[q] = Cardinality({t \in Txs : pc[t] # "idle" /\ queue[t] = q})
  /\ \A k \in Keys : queues[k] # "none" => \E t \in Txs : pc[t] # "idle" /\ key[t] = k
  /\ globalSize = Cardinality({t \in Txs : pc[t] # "idle"})

(* "This should never block.": when a call returns its slot and others are *)
(* there, the channel has an element; the mutex is held.                   *)
ReturnNeverBlocks == \A t \in Txs :
  pc[t] = "run" /\ ~dryRun /\ size[queue[t]] > 1 => queue[t] \in channel /\ slots[queue[t]] > 0

(* The slots that are taken are those of the calls that were let through,  *)
(* the first one included, which never sent its own: a call that gave up   *)
(* neither keeps a slot, which would throttle the row for as long as it is *)
(* hot, nor gives up one of a call that still runs.                        *)
SlotsExact == ~dryRun => \A k \in Keys :
  queues[k] \in channel => slots[queues[k]] = Cardinality(Running(queues[k]))

(* A call that was accepted has its turn or gives up. *)
EveryCallProceeds == \A t \in Txs : pc[t] \in {"try", "select", "wait"} ~> pc[t] \in {"run", "idle"}
=============================================================================
