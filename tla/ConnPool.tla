------------------------------ MODULE ConnPool ------------------------------
(***************************************************************************)
(* The tablet's connection pool: connpool.Pool and the ResourcePool it     *)
(* wraps.                                                                  *)
(*                                                                         *)
(* Actors: clients that Get and Put, the idle closer's timer goroutine,    *)
(* and one controller at a time, which opens, closes, resizes or reopens   *)
(* the pool.  One step is one channel operation, one atomic counter or one *)
(* critical section of Pool.mu.  A Go channel hands a sent element to the  *)
(* receiver that has waited longest; a fresh receiver finds an element     *)
(* only when nobody waits.                                                 *)
(***************************************************************************)
EXTENDS Integers, Sequences, FiniteSets, SequencesExt

CONSTANTS
  Clients,      \* users of connections
  Sizes,        \* the pool sizes that are configured or set; 0 is one the debug page accepts
  Initial       \* the one it starts with

ASSUME SizeAssumption == Sizes \subseteq Nat /\ Initial \in Sizes
ASSUME ClientAssumption == Clients \cap {"ctl", "idler"} = {} /\ IsFiniteSet(Clients)

VARIABLES
  mu,          \* Pool.mu is held by Pool.SetCapacity
  pool,        \* Pool.connections is not nil
  cpCapacity,  \* Pool.capacity
  broken,      \* how the process came to its end, if it did
  capacity,    \* ResourcePool.capacity
  maxCap,      \* cap(ResourcePool.resources)
  resources,   \* the elements of ResourcePool.resources: "open" connections or "nil"
  recvq,       \* the goroutines blocked in a receive from it
  closed,      \* it is closed
  active,      \* ResourcePool.active
  available,   \* ResourcePool.available
  pc,          \* where a client is
  hand,        \* the wrapper that a client, the idle closer or the controller has
  idler,       \* the idle timer: off, at rest, in closeIdleResources, or there with a
               \* zero wrapper from a closed channel
  idleLeft,    \* the iterations it has left
  ctl          \* the controller: its operation, its step, SetCapacity's target and loop

cpVars == <<mu, pool, cpCapacity, broken>>
chan == <<resources, recvq>>
counters == <<active, available>>
idleVars == <<idler, idleLeft>>
vars == <<cpVars, capacity, maxCap, chan, closed, counters, pc, hand, idleVars, ctl>>

Holders == Clients \cup {"ctl", "idler"}
Wrapper == {"open", "nil"}
Go(c, p) == pc' = [pc EXCEPT ![c] = p]
(* A panic ends the process: no action is enabled after it. *)
Running == broken = "no"

(* A send of w, which leaves the hand of who. *)
Send(w, who) ==
  IF recvq = <<>>
  THEN /\ Len(resources) < maxCap
       /\ resources' = Append(resources, w) /\ hand' = [hand EXCEPT ![who] = "none"]
       /\ UNCHANGED recvq
  ELSE /\ recvq' = Tail(recvq) /\ hand' = [hand EXCEPT ![who] = "none", ![Head(recvq)] = w]
       /\ UNCHANGED resources

(* A receive that finds an element. *)
Receive(who) ==
  /\ resources # <<>>
  /\ resources' = Tail(resources) /\ hand' = [hand EXCEPT ![who] = Head(resources)]
  /\ UNCHANGED recvq

(* A receive that blocks. *)
Block(who) ==
  /\ resources = <<>> /\ ~closed
  /\ recvq' = Append(recvq, who) /\ UNCHANGED <<resources, hand>>

-----------------------------------------------------------------------------
(* Get *)

(* Pool.Get reads the pool. *)
GetPool(c) ==
  /\ Running /\ pc[c] = "idle" /\ ~mu /\ pool
  /\ Go(c, "get")
  /\ UNCHANGED <<cpVars, capacity, maxCap, chan, closed, counters, hand, idleVars, ctl>>

(* ResourcePool.get: receive a wrapper, wait for one, or find the channel  *)
(* closed.  A "stale" client has a pool that was closed and replaced.      *)
Fetch(c) ==
  /\ Running
  /\ \/ pc[c] = "get" /\ Receive(c) /\ Go(c, "wait")
     \/ pc[c] = "get" /\ Block(c) /\ Go(c, "wait")
     \/ /\ pc[c] = "stale" \/ (pc[c] = "get" /\ resources = <<>> /\ closed)
        /\ Go(c, "idle") /\ UNCHANGED <<chan, hand>>
  /\ UNCHANGED <<cpVars, capacity, maxCap, closed, counters, idleVars, ctl>>

(* The caller's context, or the pool's timeout. *)
CtxDone(c) ==
  /\ Running /\ pc[c] \in {"get", "stale", "wait"} /\ hand[c] = "none" /\ Go(c, "idle")
  /\ IF Contains(recvq, c)
     THEN \E i \in DOMAIN recvq : recvq[i] = c /\ recvq' = RemoveAt(recvq, i)
     ELSE UNCHANGED recvq
  /\ UNCHANGED <<cpVars, capacity, maxCap, resources, closed, counters, hand, idleVars, ctl>>

(* The wrapper has a connection. *)
TakeOpen(c) ==
  /\ Running /\ pc[c] = "wait" /\ hand[c] = "open"
  /\ Go(c, "held") /\ available' = available - 1
  /\ UNCHANGED <<cpVars, capacity, maxCap, chan, closed, active, hand, idleVars, ctl>>

(* It has none: the factory makes one... *)
Connect(c) ==
  /\ Running /\ pc[c] = "wait" /\ hand[c] = "nil"
  /\ hand' = [hand EXCEPT ![c] = "open"] /\ Go(c, "held")
  /\ active' = active + 1 /\ available' = available - 1
  /\ UNCHANGED <<cpVars, capacity, maxCap, chan, closed, idleVars, ctl>>

(* Mutant: the wrapper is not returned. *)
ConnectFailsLoses(c) ==
  /\ Running /\ pc[c] = "wait" /\ hand[c] = "nil"
  /\ hand' = [hand EXCEPT ![c] = "none"] /\ Go(c, "idle")
  /\ UNCHANGED <<cpVars, capacity, maxCap, chan, closed, counters, idleVars, ctl>>

(* ... or fails, and the empty wrapper goes back. *)
ConnectFails(c) ==
  /\ Running /\ pc[c] = "wait" /\ hand[c] = "nil"
  /\ Send("nil", c) /\ Go(c, "idle")
  /\ UNCHANGED <<cpVars, capacity, maxCap, closed, counters, idleVars, ctl>>

-----------------------------------------------------------------------------
(* Put *)

(* Mutant: nothing is returned when reopenResource fails. *)
PutPoolDrops(c) ==
  /\ Running /\ pc[c] = "held" /\ ~mu /\ pool
  /\ \/ Go(c, "put") /\ UNCHANGED <<hand, active>>
     \/ /\ Go(c, "sent") /\ hand' = [hand EXCEPT ![c] = "none"] /\ active' = active - 1
  /\ UNCHANGED <<cpVars, capacity, maxCap, chan, closed, available, idleVars, ctl>>

(* Pool.Put reads the pool and ResourcePool.Put makes the wrapper.  For a  *)
(* connection that is not returned reopenResource makes another one, and   *)
(* the wrapper stays empty when that fails.                                *)
PutPool(c) ==
  /\ Running /\ pc[c] = "held" /\ ~mu /\ pool /\ Go(c, "put")
  /\ \/ UNCHANGED <<hand, active>>
     \/ hand' = [hand EXCEPT ![c] = "nil"] /\ active' = active - 1
  /\ UNCHANGED <<cpVars, capacity, maxCap, chan, closed, available, idleVars, ctl>>

PutSend(c) ==
  /\ Running /\ pc[c] = "put" /\ ~closed
  /\ Send(hand[c], c) /\ Go(c, "sent")
  /\ UNCHANGED <<cpVars, capacity, maxCap, closed, counters, idleVars, ctl>>

PutCount(c) ==
  /\ Running /\ pc[c] = "sent" /\ available' = available + 1 /\ Go(c, "idle")
  /\ UNCHANGED <<cpVars, capacity, maxCap, chan, closed, active, hand, idleVars, ctl>>

-----------------------------------------------------------------------------
(* closeIdleResources *)

IdleTick ==
  /\ Running /\ idler = "rest" /\ idler' = "scan" /\ idleLeft' = available
  /\ UNCHANGED <<cpVars, capacity, maxCap, chan, closed, counters, pc, hand, ctl>>

(* The next wrapper; the scan ends early when there is none.  A channel    *)
(* that was closed meanwhile yields a zero wrapper at once.                *)
IdleTake ==
  /\ Running /\ idler = "scan" /\ idleLeft > 0 /\ hand["idler"] = "none"
  /\ \/ Receive("idler") /\ UNCHANGED idleVars
     \/ /\ resources = <<>> /\ ~closed /\ idler' = "rest" /\ idleLeft' = 0
        /\ UNCHANGED <<chan, hand>>
     \/ /\ resources = <<>> /\ closed /\ idler' = "zero"
        /\ UNCHANGED <<chan, hand, idleLeft>>
  /\ UNCHANGED <<cpVars, capacity, maxCap, closed, counters, pc, ctl>>

(* Mutant: a connection that could not be replaced stays counted. *)
IdleBackUncounted ==
  /\ Running /\ hand["idler"] # "none" /\ idleLeft' = idleLeft - 1
  /\ \/ Send(hand["idler"], "idler") /\ UNCHANGED active
     \/ hand["idler"] = "open" /\ Send("nil", "idler") /\ UNCHANGED active
  /\ UNCHANGED <<cpVars, capacity, maxCap, closed, available, pc, idler, ctl>>

(* It goes back as it is (or with a new connection in place of an idle     *)
(* one), or without one when the idle one was closed and the factory       *)
(* failed.                                                                 *)
IdleBack ==
  /\ Running /\ hand["idler"] # "none" /\ idleLeft' = idleLeft - 1
  /\ \/ Send(hand["idler"], "idler") /\ UNCHANGED active
     \/ hand["idler"] = "open" /\ Send("nil", "idler") /\ active' = active - 1
  /\ UNCHANGED <<cpVars, capacity, maxCap, closed, available, pc, idler, ctl>>

IdleEnd ==
  /\ Running /\ idler = "scan" /\ idleLeft <= 0
  /\ idler' = "rest" /\ idleLeft' = 0
  /\ UNCHANGED <<cpVars, capacity, maxCap, chan, closed, counters, pc, hand, ctl>>

(* The zero wrapper is sent: on a channel that is still closed the send    *)
(* panics; on the one of a pool that has grown again it is a wrapper too   *)
(* many, and the model follows the pool no further.                        *)
IdleOverrun ==
  /\ Running /\ idler = "zero" /\ (closed \/ recvq # <<>> \/ Len(resources) < maxCap)
  /\ broken' = IF closed THEN "send" ELSE "extra"
  /\ UNCHANGED <<mu, pool, cpCapacity, capacity, maxCap, chan, closed, counters, pc, hand,
                 idleVars, ctl>>

-----------------------------------------------------------------------------
(* The controller *)

NoCtl == [op |-> "none", step |-> "none", to |-> 0, left |-> 0]
Free == ctl.op = "none"

(* ResourcePool.SetCapacity(n) up to its loop; a pool that was closed gets *)
(* a new channel.                                                          *)
SetCapacity(op, n, to) ==
  /\ capacity' = n
  /\ closed' = (closed /\ n = 0)
  /\ ctl' = IF n < capacity
            THEN [op |-> op, step |-> "shrink", to |-> to, left |-> capacity - n]
            ELSE [op |-> op, step |-> "grow", to |-> to, left |-> n - capacity]

(* Pool.Open: a new ResourcePool that can grow to its size of now.  A      *)
(* client still in the old one finds it closed, or counts there.           *)
Open ==
  /\ Running /\ Free /\ ~mu /\ ~pool /\ cpCapacity > 0 /\ pool' = TRUE
  /\ capacity' = cpCapacity /\ maxCap' = cpCapacity
  /\ resources' = [i \in 1..cpCapacity |-> "nil"] /\ recvq' = <<>> /\ closed' = FALSE
  /\ active' = 0 /\ available' = cpCapacity
  /\ idler' = "rest" /\ idleLeft' = 0
  /\ pc' = [c \in Clients |-> CASE pc[c] = "get" -> "stale" [] pc[c] = "sent" -> "idle"
                           [] OTHER -> pc[c]]
  /\ UNCHANGED <<mu, cpCapacity, broken, hand, ctl>>

(* NewResourcePool panics for a size of 0. *)
OpenPanics ==
  /\ Running /\ Free /\ ~mu /\ ~pool /\ cpCapacity = 0 /\ broken' = "size"
  /\ UNCHANGED <<mu, pool, cpCapacity, capacity, maxCap, chan, closed, counters, pc, hand,
                 idleVars, ctl>>

(* Mutant: a size beyond the channel's is not refused. *)
PoolSetCapacityUnchecked(n) ==
  /\ Running /\ Free /\ ~mu /\ pool /\ n # capacity
  /\ mu' = TRUE /\ SetCapacity("resize", n, n)
  /\ UNCHANGED <<pool, cpCapacity, broken, maxCap, chan, counters, pc, hand, idleVars>>

(* Pool.SetCapacity: it holds Pool.mu until ResourcePool.SetCapacity is    *)
(* done.  A size beyond the channel's is refused, 0 is not.                *)
PoolSetCapacity(n) ==
  /\ Running /\ Free /\ ~mu /\ pool /\ n # capacity /\ n <= maxCap
  /\ mu' = TRUE /\ SetCapacity("resize", n, n)
  /\ UNCHANGED <<pool, cpCapacity, broken, maxCap, chan, counters, pc, hand, idleVars>>

(* Pool.SetCapacity on a pool that is not open. *)
PoolSetCapacityClosed(n) ==
  /\ Running /\ Free /\ ~mu /\ ~pool /\ cpCapacity' = n
  /\ UNCHANGED <<mu, pool, broken, capacity, maxCap, chan, closed, counters, pc, hand, idleVars, ctl>>

(* Pool.Close and the refresh goroutine's reopen, which both Close the     *)
(* ResourcePool.                                                           *)
StartClose(op) ==
  /\ Running /\ Free /\ pool /\ (op = "close" => ~mu)
  /\ ctl' = [op |-> op, step |-> "stop", to |-> capacity, left |-> 0]
  /\ UNCHANGED <<cpVars, capacity, maxCap, chan, closed, counters, pc, hand, idleVars>>

(* Close's SetCapacity(0); nothing is left to do for a pool of size 0. *)
CloseSetCapacity ==
  IF capacity = 0
  THEN ctl' = [ctl EXCEPT !.step = "closed"] /\ UNCHANGED <<capacity, closed>>
  ELSE SetCapacity(ctl.op, 0, ctl.to)

(* Mutant: the idle timer is told to stop and not waited for. *)
StopIdleNoWait ==
  /\ Running /\ ctl.step = "stop"
  /\ CloseSetCapacity
  /\ UNCHANGED <<cpVars, maxCap, chan, counters, pc, hand, idleVars>>

(* idleTimer.Stop returns when closeIdleResources is not running. *)
StopIdle ==
  /\ Running /\ ctl.step = "stop" /\ idler = "rest" /\ idler' = "off"
  /\ CloseSetCapacity
  /\ UNCHANGED <<cpVars, maxCap, chan, counters, pc, hand, idleLeft>>

(* The shrinking loop waits for a wrapper... *)
Shrink ==
  /\ Running /\ ctl.step = "shrink" /\ ctl.left > 0 /\ hand["ctl"] = "none"
  /\ Receive("ctl") \/ (~Contains(recvq, "ctl") /\ Block("ctl"))
  /\ UNCHANGED <<cpVars, capacity, maxCap, closed, counters, pc, idleVars, ctl>>

(* ... and closes its connection. *)
ShrinkClose ==
  /\ Running /\ hand["ctl"] # "none" /\ hand' = [hand EXCEPT !["ctl"] = "none"]
  /\ active' = IF hand["ctl"] = "open" THEN active - 1 ELSE active
  /\ available' = available - 1 /\ ctl' = [ctl EXCEPT !.left = @ - 1]
  /\ UNCHANGED <<cpVars, capacity, maxCap, chan, closed, pc, idleVars>>

(* The growing loop. *)
Grow ==
  /\ Running /\ ctl.step = "grow" /\ ctl.left > 0
  /\ Send("nil", "ctl") /\ available' = available + 1
  /\ ctl' = [ctl EXCEPT !.left = @ - 1]
  /\ UNCHANGED <<cpVars, capacity, maxCap, closed, active, pc, idleVars>>

(* Pool.SetCapacity is done. *)
Resized ==
  /\ Running /\ ctl.op = "resize" /\ ctl.left = 0 /\ (ctl.step = "shrink" => capacity > 0)
  /\ cpCapacity' = ctl.to /\ mu' = FALSE /\ ctl' = NoCtl
  /\ UNCHANGED <<pool, broken, capacity, maxCap, chan, closed, counters, pc, hand, idleVars>>

(* SetCapacity(0) closes the channel, also when Pool.SetCapacity called it *)
(* and the idle timer was not stopped: who waits for a wrapper gets an     *)
(* error.                                                                  *)
CloseChannel ==
  /\ Running /\ capacity = 0 /\ ctl.step = "shrink" /\ ctl.left = 0
  /\ closed' = TRUE /\ recvq' = <<>> /\ ctl' = [ctl EXCEPT !.step = "closed"]
  /\ pc' = [c \in Clients |-> IF Contains(recvq, c) THEN "idle" ELSE pc[c]]
  /\ UNCHANGED <<cpVars, capacity, maxCap, resources, counters, hand, idleVars>>

(* Pool.Close ends. *)
Closed ==
  /\ Running /\ ctl.op = "close" /\ ctl.step = "closed" /\ ~mu
  /\ pool' = FALSE /\ ctl' = NoCtl
  /\ UNCHANGED <<mu, cpCapacity, broken, capacity, maxCap, chan, closed, counters, pc, hand, idleVars>>

(* reopen sets the capacity it has read before the Close... *)
Refill ==
  /\ Running /\ ctl.op = "reopen" /\ ctl.step = "closed"
  /\ SetCapacity("reopen", ctl.to, ctl.to)
  /\ UNCHANGED <<cpVars, maxCap, chan, counters, pc, hand, idleVars>>

(* ... and starts the idle timer. *)
Reopened ==
  /\ Running /\ ctl.op = "reopen" /\ ctl.step = "grow" /\ ctl.left = 0
  /\ idler' = "rest" /\ ctl' = NoCtl
  /\ UNCHANGED <<cpVars, capacity, maxCap, chan, closed, counters, pc, hand, idleLeft>>

-----------------------------------------------------------------------------
Init ==
  /\ mu = FALSE /\ pool = FALSE /\ cpCapacity = Initial /\ broken = "no"
  /\ capacity = 0 /\ maxCap = 0 /\ resources = <<>> /\ recvq = <<>> /\ closed = TRUE
  /\ active = 0 /\ available = 0
  /\ pc = [c \in Clients |-> "idle"] /\ hand = [h \in Holders |-> "none"]
  /\ idler = "off" /\ idleLeft = 0 /\ ctl = NoCtl

(* What a client does on its own once it has called Get. *)
Client(c) ==
  \/ Fetch(c) \/ TakeOpen(c) \/ Connect(c) \/ ConnectFails(c)
  \/ PutPool(c) \/ PutSend(c) \/ PutCount(c)

Idler == IdleTake \/ IdleBack \/ IdleEnd \/ IdleOverrun

Controller ==
  \/ StopIdle \/ Shrink \/ ShrinkClose \/ Grow \/ Resized
  \/ CloseChannel \/ Closed \/ Refill \/ Reopened

Request ==
  \/ Open \/ OpenPanics \/ \E op \in {"close", "reopen"} : StartClose(op)
  \/ \E n \in Sizes : PoolSetCapacity(n) \/ PoolSetCapacityClosed(n)

Next ==
  \/ \E c \in Clients : GetPool(c) \/ CtxDone(c) \/ Client(c)
  \/ IdleTick \/ Idler \/ Controller \/ Request

Spec == Init /\ [][Next]_vars

(* Goroutines run, and a client returns its connection some time.  The     *)
(* timer goroutine's select does not prefer its tick to Stop's message for *)
(* ever.                                                                   *)
FairSpec ==
  /\ Spec /\ \A c \in Clients : WF_vars(Client(c))
  /\ WF_vars(Idler) /\ WF_vars(Controller) /\ SF_vars(StopIdle)

-----------------------------------------------------------------------------
(* Properties *)

(* Every variable keeps its type; the capacity never exceeds the channel's. *)
TypeOK ==
  /\ mu \in BOOLEAN /\ pool \in BOOLEAN /\ closed \in BOOLEAN
  /\ broken \in {"no", "size", "send", "extra"}
  /\ cpCapacity \in Nat /\ maxCap \in Nat /\ capacity \in 0..maxCap
  /\ resources \in Seq(Wrapper) /\ recvq \in Seq(Holders)
  /\ active \in Nat /\ available \in Int
  /\ pc \in [Clients -> {"idle", "get", "stale", "wait", "held", "put", "sent"}]
  /\ hand \in [Holders -> Wrapper \cup {"none"}]
  /\ idler \in {"off", "rest", "scan", "zero"} /\ idleLeft \in Int
  /\ ctl \in [op : {"none", "resize", "close", "reopen"},
              step : {"none", "stop", "shrink", "grow", "closed"}, to : Nat, left : Nat]

InHand == {h \in Holders : hand[h] # "none"}
(* Wrappers SetCapacity has still to take out (positive) or to put in. *)
Excess == IF ctl.step = "shrink" THEN ctl.left ELSE IF ctl.step = "grow" THEN -ctl.left ELSE 0

(* No wrapper is lost or made up: with the ones that SetCapacity has still *)
(* to take out or put in there are as many as the capacity says, whoever   *)
(* has them, although factories fail, the idle closer takes some out, and  *)
(* clients give up.  One too few and the pool shrinks for good; one too    *)
(* many and Put panics.  A pool whose channel is closed has none left.     *)
WrappersConserved == Len(resources) + Cardinality(InHand) = capacity + Excess

(* active counts the connections that are open; available the wrappers     *)
(* that no client has, up to the Puts and Gets that are about to count.    *)
CountersExact ==
  /\ active = Cardinality({i \in DOMAIN resources : resources[i] = "open"})
              + Cardinality({h \in Holders : hand[h] = "open"})
  /\ available = capacity + Excess
                 - Cardinality({c \in Clients : pc[c] \in {"held", "put", "sent"}})

(* Who has a wrapper can return it: the pool is there, its channel is not  *)
(* closed, and it is not full, so neither Put ("attempt to Put into a full *)
(* ResourcePool") nor get's or the idle closer's send of it panics or      *)
(* blocks.  And neither Close nor reopen closes the channel under a scan   *)
(* of the idle closer: only a SetCapacity to 0 does.                       *)
SendersFindRoom ==
  /\ InHand # {} => pool /\ ~closed /\ Len(resources) < maxCap
  /\ idler \in {"scan", "zero"} /\ closed =>
       cpCapacity = 0 \/ (ctl.op = "resize" /\ ctl.to = 0)

(* "A SetCapacity of 0 is equivalent to closing the ResourcePool": like    *)
(* Close it never makes the idle closer send on the channel it closed, or  *)
(* a wrapper that is none of the pool's into the next one.                 *)
ZeroIsClose == broken \notin {"send", "extra"}

(* Every Pool.SetCapacity returns: "SetCapacity waits till the necessary   *)
(* number of resources are returned to the pool".                          *)
ResizeReturns == ctl.op = "resize" ~> ctl.op # "resize"

(* No SetCapacity is stuck for ever, and none closes the channel under a   *)
(* scan.                                                                   *)
Undisturbed == []<>(ctl.op # "resize") /\ [](idler # "zero")

(* While no SetCapacity is stuck or overruns a scan, a Get that waits gets *)
(* a connection or an error, although the pool is resized, closed and      *)
(* reopened meanwhile.                                                     *)
GetReturns == Undisturbed => \A c \in Clients : pc[c] = "wait" ~> pc[c] # "wait"

(* While no SetCapacity is stuck or overruns a scan, Close and reopen      *)
(* return, although clients keep asking for connections.                   *)
CloseReturns == Undisturbed => (ctl.op \in {"close", "reopen"} ~> ctl.op = "none")
=============================================================================
