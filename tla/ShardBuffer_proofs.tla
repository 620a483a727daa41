------------------------ MODULE ShardBuffer_proofs ------------------------
(***************************************************************************)
(* Safety of ShardBuffer, and that it implements BoundedBuffer, for any    *)
(* shards, requests, buffer size and dry run mode.                         *)
(***************************************************************************)
EXTENDS ShardBuffer, SeqSetFacts

(* Where a request is before it is buffered. *)
Early == {"new", "call", "failing"}

(* The entries of a shard, and who has a slot: they and the entries that   *)
(* were unblocked and whose goroutine releases it.                         *)
Entries(s) == Range(queue[s]) \cup Range(drainQ[s])
Occupants == {r \in Requests : r \in Entries(ShardOf[r]) \/ async[r] = "release"}

(* The state of a shard, its drain and its timeout thread agree.           *)
ShardInv == \A s \in Shards :
  /\ state[s] = "BUFFERING" => thread[s] # "none" /\ s \notin stopChan /\ drain[s] = "none"
  /\ state[s] = "DRAINING" => drain[s] # "none" /\ queue[s] = <<>>
  /\ state[s] = "IDLE" => thread[s] = "none" /\ drain[s] = "none" /\ queue[s] = <<>>
  /\ drain[s] = "none" => drainQ[s] = <<>>
  /\ drain[s] = "wait" => drainQ[s] # <<>>
  /\ drain[s] \in {"next", "wait"} => thread[s] = "none"

(* An entry is in one queue, once, and its channel is open until somebody  *)
(* takes it out; drain takes it out once its retry is over.                *)
EntryInv ==
  /\ \A s \in Shards :
       /\ IsInjective(queue[s]) /\ IsInjective(drainQ[s])
       /\ \A r \in Entries(s) : ShardOf[r] = s /\ async[r] = "none" /\ pc[r] \notin Early
       /\ \A r \in Range(queue[s]) : r \notin done
       /\ \A r \in Range(drainQ[s]) : r \in done <=> drain[s] = "wait" /\ r = Head(drainQ[s])
  /\ \A r \in Requests : (r \in done => pc[r] \notin Early) /\ (async[r] # "none" => r \in done)

(* The slots that are not free are those of the occupants.                 *)
SlotInv == IsFiniteSet(Occupants) /\ slots + Cardinality(Occupants) = Size

(* A request that its client waits for has a slot.                         *)
FlightInv == \A r \in Requests :
  pc[r] \in {"wait", "retry"} /\ r \notin finished /\ r \notin failed => r \in Occupants

IInv == TypeOK /\ ShardInv /\ EntryInv /\ SlotInv /\ FlightInv

(* The entries of a shard are requests. *)
LEMMA EntriesType ==
  ASSUME TypeOK, NEW s \in Shards
  PROVE  /\ queue[s] \in Seq(Requests) /\ drainQ[s] \in Seq(Requests)
         /\ Range(queue[s]) \subseteq Requests /\ Range(drainQ[s]) \subseteq Requests
         /\ Entries(s) \subseteq Requests
<1>1. queue[s] \in Seq(Requests) /\ drainQ[s] \in Seq(Requests)
  BY DEF TypeOK
<1>. QED BY <1>1, RangeFacts DEF Entries

(* Entries occupy the buffer. *)
LEMMA EntriesOccupy ==
  ASSUME IInv, NEW s \in Shards, NEW r \in Entries(s)
  PROVE  r \in Requests /\ ShardOf[r] = s /\ r \in Occupants /\ async[r] = "none" /\ pc[r] \notin Early
BY EntriesType DEF IInv, EntryInv, Occupants

(* The occupants only depend on the queues and the goroutines. *)
LEMMA OccupantsFrame ==
  ASSUME IInv, UNCHANGED <<queue, drainQ, async, slots>>
  PROVE  Occupants' = Occupants /\ SlotInv'
BY DEF IInv, Occupants, Entries, SlotInv

(* The initial states satisfy the invariant. *)
LEMMA InitInv == Init => IInv
<1>. SUFFICES ASSUME Init PROVE IInv
  OBVIOUS
<1>1. TypeOK
  <2>1. stopped \in BOOLEAN
    BY DEF Init
  <2>. QED BY <2>1, SizeAssumption DEF Init, TypeOK, Threads, Places
<1>2. ShardInv
  BY DEF Init, ShardInv
<1>3. \A s \in Shards : queue[s] = <<>> /\ drainQ[s] = <<>> /\ Entries(s) = {}
  BY RangeEmpty DEF Init, Entries
<1>4. EntryInv
  BY <1>3, RangeEmpty DEF Init, EntryInv
<1>5. Occupants = {}
  BY <1>3, ShardAssumption DEF Init, Occupants
<1>6. SlotInv
  BY <1>5, FS_EmptySet, SizeAssumption DEF Init, SlotInv
<1>7. FlightInv
  BY DEF Init, FlightInv
<1>. QED BY <1>1, <1>2, <1>4, <1>6, <1>7 DEF IInv

(* A request goes on, or its context is done, and no entry moves. *)
LEMMA QuietRequestStep ==
  ASSUME IInv, NEW r \in Requests,
         GetOrCreateBuffer(r, TRUE) \/ GetOrCreateBuffer(r, FALSE) \/ PassThrough(r)
           \/ WaitReturns(r) \/ WaitCancelled(r) \/ RetryDone(r) \/ CtxDone(r)
  PROVE  IInv'
<1>. USE DEF GetOrCreateBuffer, PassThrough, InCall, WaitReturns, WaitCancelled, RetryDone, CtxDone, Go,
             semVars, sbVars, threadVars, drainVars, entryVars, shutVars
<1>1. UNCHANGED <<semVars, sbVars, threadVars, drainVars, done, async, shutVars>>
  OBVIOUS
<1>2. /\ \A x \in Requests : pc'[x] \in Early <=> pc[x] \in Early
      /\ \A x \in Requests : pc'[x] \in {"wait", "retry"} /\ x \notin finished' /\ x \notin failed'
                               => pc[x] \in {"wait", "retry"} /\ x \notin finished /\ x \notin failed
  BY DEF IInv, TypeOK, Early
<1>3. TypeOK'
  BY ZenonT(60) DEF IInv, TypeOK, Places
<1>4. ShardInv'
  BY <1>1 DEF IInv, ShardInv
<1>5. EntryInv'
  BY <1>1, <1>2, EntriesType DEF IInv, EntryInv, Entries
<1>6. SlotInv' /\ FlightInv'
  BY <1>1, <1>2, OccupantsFrame DEF IInv, FlightInv
<1>. QED BY <1>3, <1>4, <1>5, <1>6 DEF IInv

(* A timeout thread goes on and takes no entry out, time passes, or        *)
(* Shutdown has waited for a shard.                                        *)
LEMMA QuietThreadStep ==
  ASSUME IInv, TypeOK',
         UNCHANGED <<slots, state, queue, stopChan, drain, drainQ, pc, done, failed, finished, async>>,
         \A s \in Shards : \/ thread'[s] = thread[s]
                           \/ thread[s] # "none" /\ (thread'[s] # "none" \/ s \in stopChan)
  PROVE  IInv'
<1>1. ShardInv'
  BY DEF IInv, ShardInv, TypeOK
<1>2. EntryInv'
  BY DEF IInv, EntryInv, Entries
<1>3. SlotInv' /\ FlightInv'
  BY OccupantsFrame DEF IInv, FlightInv
<1>. QED BY <1>1, <1>2, <1>3 DEF IInv

LEMMA ThreadQuietStep ==
  ASSUME IInv, NEW s \in Shards,
         ThreadLoop(s) \/ ThreadSleeps(s) \/ ThreadWoken(s) \/ EntryDone(s) \/ WindowExceeded(s)
           \/ MaxDuration(s) \/ ThreadStops(s)
  PROVE  IInv'
<1>. USE DEF ThreadLoop, ThreadSleeps, ThreadWoken, EntryDone, WindowExceeded, MaxDuration, ThreadStops,
             Thread, OnlyThread, semVars, sbVars, drainVars, entryVars, shutVars
<1>1. /\ UNCHANGED <<slots, state, queue, stopChan, drain, drainQ, pc, done, failed, finished, async>>
      /\ UNCHANGED <<stopped, recent, missing, shutdown, unwaited>>
  OBVIOUS
<1>2. PICK p \in Threads : thread' = [thread EXCEPT ![s] = p] /\ (p = "none" => s \in stopChan)
  BY DEF Threads
<1>3. thread[s] # "none"
  OBVIOUS
<1>4. watched' \in [Shards -> Requests \cup {"none"}] /\ woken' \subseteq Shards
  <2>1. queue[s] # <<>> => Head(queue[s]) \in Requests
    BY EntriesType, FirstElement DEF IInv
  <2>. QED BY <2>1, ZenonT(60) DEF IInv, TypeOK
<1>. HIDE DEF ThreadLoop, ThreadSleeps, ThreadWoken, EntryDone, WindowExceeded, MaxDuration, ThreadStops
<1>5. TypeOK'
  BY <1>1, <1>2, <1>4 DEF IInv, TypeOK
<1>6. \A t \in Shards : \/ thread'[t] = thread[t]
                        \/ thread[t] # "none" /\ (thread'[t] # "none" \/ t \in stopChan)
  BY <1>2, <1>3 DEF IInv, TypeOK
<1>. QED BY <1>1, <1>5, <1>6, QuietThreadStep

LEMMA OtherQuietStep ==
  ASSUME IInv, (\E s \in Shards : TimePasses(s) \/ WaitForShutdown(s)) \/ UNCHANGED vars
  PROVE  IInv'
<1>. USE DEF TimePasses, WaitForShutdown, vars, semVars, sbVars, threadVars, drainVars, entryVars, shutVars
<1>1. /\ UNCHANGED <<slots, state, queue, thread, stopChan, drain, drainQ, pc, done, failed, finished, async>>
      /\ UNCHANGED <<stopped, watched, woken, missing>>
      /\ recent' \subseteq Shards /\ unwaited' \subseteq Shards /\ shutdown' \in {"no", "waiting", "returned"}
  BY DEF IInv, TypeOK
<1>2. TypeOK'
  BY <1>1 DEF IInv, TypeOK
<1>. QED BY <1>1, <1>2, QuietThreadStep

(* Shards stop buffering and hand their queue to a drain: no entry is      *)
(* lost.                                                                   *)
LEMMA StopBufferingStep ==
  ASSUME IInv, NEW S \in SUBSET Shards, NEW m \in BOOLEAN, NEW p \in BOOLEAN, StopBuffering(S, m, p),
         UNCHANGED <<slots, stopChan, pc, done, failed, finished, async>>,
         thread' \in [Shards -> Threads],
         \A s \in Shards : thread'[s] = thread[s] \/ (s \in S /\ thread[s] # "none" /\ thread'[s] = "none")
  PROVE  /\ state' \in [Shards -> {"IDLE", "BUFFERING", "DRAINING"}]
         /\ queue' \in [Shards -> Seq(Requests)] /\ recent' \subseteq Shards
         /\ drain' \in [Shards -> {"none", "start", "stop", "next", "wait"}]
         /\ drainQ' \in [Shards -> Seq(Requests)] /\ missing' \subseteq Shards
         /\ ShardInv' /\ EntryInv' /\ SlotInv' /\ FlightInv'
<1>. DEFINE B == {s \in S : state[s] = "BUFFERING"}
<1>1. /\ state' = [s \in Shards |-> IF s \in B THEN "DRAINING" ELSE state[s]]
      /\ queue' = [s \in Shards |-> IF s \in B THEN <<>> ELSE queue[s]]
      /\ drain' = [s \in Shards |-> IF s \in B THEN "start" ELSE drain[s]]
      /\ drainQ' = [s \in Shards |-> IF s \in B THEN queue[s] ELSE drainQ[s]]
      /\ missing' \in {missing \cup B, missing}
      /\ recent' \in {recent \cup B \cup S, recent \cup B \cup {}}
  BY DEF StopBuffering
<1>2. \A s \in Shards : s \in B => drain[s] = "none" /\ drainQ[s] = <<>> /\ thread[s] # "none"
  BY DEF IInv, ShardInv
<1>3. \A s \in Shards : s \notin B /\ s \in S => state[s] # "BUFFERING"
  OBVIOUS
<1>4. B \subseteq Shards
  OBVIOUS
<1>. HIDE DEF B
<1>5. /\ state' \in [Shards -> {"IDLE", "BUFFERING", "DRAINING"}]
      /\ queue' \in [Shards -> Seq(Requests)]
      /\ drain' \in [Shards -> {"none", "start", "stop", "next", "wait"}]
      /\ drainQ' \in [Shards -> Seq(Requests)]
  BY <1>1 DEF IInv, TypeOK
<1>6. recent' \subseteq Shards /\ missing' \subseteq Shards
  BY <1>1, <1>4 DEF IInv, TypeOK
<1>7. ShardInv'
  <2>. SUFFICES ASSUME NEW s \in Shards
                PROVE  /\ state'[s] = "BUFFERING" => thread'[s] # "none" /\ s \notin stopChan' /\ drain'[s] = "none"
                       /\ state'[s] = "DRAINING" => drain'[s] # "none" /\ queue'[s] = <<>>
                       /\ state'[s] = "IDLE" => thread'[s] = "none" /\ drain'[s] = "none" /\ queue'[s] = <<>>
                       /\ drain'[s] = "none" => drainQ'[s] = <<>>
                       /\ drain'[s] = "wait" => drainQ'[s] # <<>>
                       /\ drain'[s] \in {"next", "wait"} => thread'[s] = "none"
    BY DEF ShardInv
  <2>1. CASE s \in B
    BY <1>1, <2>1
  <2>2. CASE s \notin B
    BY <1>1, <1>3, <2>2 DEF IInv, ShardInv
  <2>. QED BY <2>1, <2>2
<1>8. \A s \in Shards : Entries(s)' = Entries(s)
  BY <1>1, <1>2, RangeEmpty DEF Entries
<1>9. EntryInv'
  <2>1. ASSUME NEW s \in Shards
        PROVE  /\ IsInjective(queue'[s]) /\ IsInjective(drainQ'[s])
               /\ \A r \in Range(queue'[s]) : r \notin done'
               /\ \A r \in Range(drainQ'[s]) : r \in done' <=> drain'[s] = "wait" /\ r = Head(drainQ'[s])
    <3>1. CASE s \in B
      BY <1>1, <3>1, RangeEmpty DEF IInv, EntryInv
    <3>2. CASE s \notin B
      BY <1>1, <3>2 DEF IInv, EntryInv
    <3>. QED BY <3>1, <3>2
  <2>. QED BY <1>8, <2>1 DEF IInv, EntryInv
<1>10. Occupants' = Occupants
  BY <1>8, ShardAssumption DEF Occupants
<1>11. SlotInv' /\ FlightInv'
  BY <1>10 DEF IInv, SlotInv, FlightInv
<1>. QED BY <1>5, <1>6, <1>7, <1>9, <1>11

(* A failover ends: an event, the maximal duration, or Shutdown. *)
LEMMA FailoverEndStep ==
  ASSUME IInv,
         \/ \E s \in Shards, p, q \in BOOLEAN : RecordEvent(s, p, q)
         \/ \E s \in Shards : StopDueToMaxDuration(s)
         \/ Shutdown
  PROVE  IInv'
<1>. USE DEF semVars, threadVars, entryVars, shutVars
<1>1. ASSUME NEW s \in Shards, NEW p \in BOOLEAN, NEW q \in BOOLEAN, RecordEvent(s, p, q) PROVE IInv'
  <2>1. /\ StopBuffering({s}, ~q, p) /\ {s} \in SUBSET Shards /\ (~q) \in BOOLEAN
        /\ UNCHANGED <<semVars, threadVars, pc, entryVars, shutVars>>
    BY <1>1 DEF RecordEvent
  <2>2. thread' \in [Shards -> Threads]
    BY <2>1 DEF IInv, TypeOK
  <2>3. /\ state' \in [Shards -> {"IDLE", "BUFFERING", "DRAINING"}]
        /\ queue' \in [Shards -> Seq(Requests)] /\ recent' \subseteq Shards
        /\ drain' \in [Shards -> {"none", "start", "stop", "next", "wait"}]
        /\ drainQ' \in [Shards -> Seq(Requests)] /\ missing' \subseteq Shards
        /\ ShardInv' /\ EntryInv' /\ SlotInv' /\ FlightInv'
    BY <2>1, <2>2, StopBufferingStep
  <2>4. TypeOK'
    BY <2>1, <2>3 DEF IInv, TypeOK
  <2>. QED BY <2>3, <2>4 DEF IInv
<1>2. ASSUME NEW s \in Shards, StopDueToMaxDuration(s) PROVE IInv'
  <2>1. /\ StopBuffering({s}, FALSE, FALSE) /\ {s} \in SUBSET Shards /\ FALSE \in BOOLEAN
        /\ thread[s] = "max" /\ thread' = [thread EXCEPT ![s] = "none"]
        /\ UNCHANGED <<semVars, watched, woken, stopChan, pc, entryVars, shutVars>>
    BY <1>2 DEF StopDueToMaxDuration, Thread
  <2>2. /\ thread' \in [Shards -> Threads]
        /\ \A t \in Shards : thread'[t] = thread[t] \/ (t \in {s} /\ thread[t] # "none" /\ thread'[t] = "none")
    BY <2>1 DEF IInv, TypeOK, Threads
  <2>3. /\ state' \in [Shards -> {"IDLE", "BUFFERING", "DRAINING"}]
        /\ queue' \in [Shards -> Seq(Requests)] /\ recent' \subseteq Shards
        /\ drain' \in [Shards -> {"none", "start", "stop", "next", "wait"}]
        /\ drainQ' \in [Shards -> Seq(Requests)] /\ missing' \subseteq Shards
        /\ ShardInv' /\ EntryInv' /\ SlotInv' /\ FlightInv'
    BY <2>1, <2>2, StopBufferingStep
  <2>4. TypeOK'
    BY <2>1, <2>2, <2>3 DEF IInv, TypeOK
  <2>. QED BY <2>3, <2>4 DEF IInv
<1>3. ASSUME Shutdown PROVE IInv'
  <2>1. /\ StopBuffering(Shards, FALSE, FALSE) /\ Shards \in SUBSET Shards /\ FALSE \in BOOLEAN
        /\ shutdown' = "waiting" /\ stopped' = TRUE /\ unwaited' = Shards
        /\ UNCHANGED <<slots, threadVars, pc, entryVars>>
    BY <1>3 DEF Shutdown
  <2>2. thread' \in [Shards -> Threads]
    BY <2>1 DEF IInv, TypeOK
  <2>3. /\ state' \in [Shards -> {"IDLE", "BUFFERING", "DRAINING"}]
        /\ queue' \in [Shards -> Seq(Requests)] /\ recent' \subseteq Shards
        /\ drain' \in [Shards -> {"none", "start", "stop", "next", "wait"}]
        /\ drainQ' \in [Shards -> Seq(Requests)] /\ missing' \subseteq Shards
        /\ ShardInv' /\ EntryInv' /\ SlotInv' /\ FlightInv'
    BY <2>1, <2>2, StopBufferingStep
  <2>4. stopped' \in BOOLEAN
    BY <2>1
  <2>5. TypeOK'
    BY <2>1, <2>3, <2>4 DEF IInv, TypeOK
  <2>. QED BY <2>3, <2>5 DEF IInv
<1>. QED BY <1>1, <1>2, <1>3

(* The goroutine of an unblocked entry is done: the slot is released unless *)
(* a newer entry has it.                                                   *)
LEMMA WaitForRequestFinishStep ==
  ASSUME IInv, NEW r \in Requests, WaitForRequestFinish(r)
  PROVE  IInv'
<1>1. /\ async[r] # "none" /\ r \in finished /\ async' = [async EXCEPT ![r] = "none"]
      /\ slots' = (IF async[r] = "release" THEN slots + 1 ELSE slots)
      /\ UNCHANGED <<stopped, sbVars, threadVars, drainVars, pc, done, failed, finished, shutVars>>
  BY DEF WaitForRequestFinish
<1>. USE DEF sbVars, threadVars, drainVars, shutVars
<1>2. /\ async' \in [Requests -> {"none", "release", "keep"}] /\ async'[r] = "none"
      /\ \A x \in Requests \ {r} : async'[x] = async[x]
  BY <1>1 DEF IInv, TypeOK
<1>3. \A s \in Shards : Entries(s)' = Entries(s) /\ r \notin Entries(s)
  BY <1>1 DEF IInv, EntryInv, Entries
<1>4. /\ ShardInv' /\ EntryInv'
  BY <1>1, <1>2, <1>3, EntriesType DEF IInv, ShardInv, EntryInv
<1>5. Occupants' = IF async[r] = "release" THEN Occupants \ {r} ELSE Occupants
  BY <1>2, <1>3, ShardAssumption DEF Occupants
<1>6. async[r] = "release" => r \in Occupants
  BY DEF Occupants
<1>7. SlotInv' /\ slots' \in 0..Size
  <2>1. IsFiniteSet(Occupants) /\ Cardinality(Occupants) \in Nat /\ slots \in 0..Size /\ Size \in Nat
        /\ slots + Cardinality(Occupants) = Size
    BY FS_CardinalityType, SizeAssumption DEF IInv, SlotInv, TypeOK
  <2>2. CASE async[r] = "release"
    <3>1. /\ IsFiniteSet(Occupants \ {r}) /\ Cardinality(Occupants \ {r}) = Cardinality(Occupants) - 1
          /\ Cardinality(Occupants) # 0
      BY <1>6, <2>1, <2>2, RemoveOne, FS_RemoveElement
    <3>2. slots' = slots + 1 /\ Occupants' = Occupants \ {r}
      BY <1>1, <1>5, <2>2
    <3>. QED BY <2>1, <3>1, <3>2 DEF SlotInv
  <2>3. CASE async[r] # "release"
    BY <1>1, <1>5, <2>1, <2>3 DEF SlotInv
  <2>. QED BY <2>2, <2>3
<1>8. FlightInv'
  BY <1>1, <1>5 DEF IInv, FlightInv
<1>9. TypeOK'
  BY <1>1, <1>2, <1>7 DEF IInv, TypeOK
<1>. QED BY <1>4, <1>7, <1>8, <1>9 DEF IInv

(* The drain begins, waits for the timeout thread, and ends. *)
LEMMA DrainQuietStep ==
  ASSUME IInv, NEW s \in Shards, DrainStart(s) \/ DrainStop(s) \/ DrainEnd(s)
  PROVE  IInv'
<1>. USE DEF DrainStart, DrainStop, DrainEnd, semVars, sbVars, threadVars, drainVars, entryVars, shutVars
<1>1. /\ UNCHANGED <<slots, queue, drainQ, pc, done, failed, finished, async, thread>>
      /\ UNCHANGED <<stopped, recent, watched, woken, shutdown, unwaited>>
  OBVIOUS
<1>2. TypeOK'
  BY DEF IInv, TypeOK
<1>3. ShardInv'
  BY DEF IInv, ShardInv, TypeOK
<1>4. /\ \A t \in Shards : drain'[t] = "wait" <=> drain[t] = "wait"
  BY DEF IInv, TypeOK
<1>5. EntryInv'
  BY <1>1, <1>4 DEF IInv, EntryInv, Entries
<1>6. SlotInv' /\ FlightInv'
  BY <1>1, OccupantsFrame DEF IInv, FlightInv
<1>. QED BY <1>2, <1>3, <1>5, <1>6 DEF IInv

(* The drain unblocks its first entry. *)
LEMMA DrainUnblockStep ==
  ASSUME IInv, NEW s \in Shards, DrainUnblock(s)
  PROVE  IInv'
<1>. DEFINE h == Head(drainQ[s])
<1>1. /\ drain[s] = "next" /\ drainQ[s] # <<>> /\ drain' = [drain EXCEPT ![s] = "wait"]
      /\ done' = done \cup {h} /\ failed' \in {failed \cup {h}, failed}
      /\ UNCHANGED <<semVars, sbVars, threadVars, drainQ, missing, pc, finished, async, shutVars>>
  BY DEF DrainUnblock
<1>. USE DEF semVars, sbVars, threadVars, shutVars
<1>2. h \in Requests /\ h \in Range(drainQ[s]) /\ h \in Entries(s)
  BY <1>1, EntriesType, RangeFacts DEF IInv, Entries
<1>3. h \notin done /\ pc[h] \notin Early /\ ShardOf[h] = s
  BY <1>1, <1>2 DEF IInv, EntryInv
<1>. HIDE DEF h
<1>4. TypeOK'
  BY <1>1, <1>2 DEF IInv, TypeOK
<1>5. /\ drain'[s] = "wait" /\ \A t \in Shards \ {s} : drain'[t] = drain[t]
  BY <1>1 DEF IInv, TypeOK
<1>6. ShardInv'
  <2>1. state[s] = "DRAINING" /\ thread[s] = "none" /\ queue[s] = <<>>
    BY <1>1 DEF IInv, ShardInv, TypeOK
  <2>. QED BY <1>1, <1>5, <2>1 DEF IInv, ShardInv
<1>7. EntryInv'
  <2>1. \A t \in Shards : Entries(t)' = Entries(t)
    BY <1>1 DEF Entries
  <2>2. \A t \in Shards : \A r \in Range(queue[t]) : r # h
    <3>1. \A r \in Range(queue[s]) : FALSE
      BY <1>1, RangeEmpty DEF IInv, ShardInv, TypeOK
    <3>2. \A t \in Shards \ {s} : \A r \in Range(queue[t]) : ShardOf[r] = t
      BY DEF IInv, EntryInv, Entries
    <3>. QED BY <1>3, <3>1, <3>2
  <2>3. \A t \in Shards \ {s} : \A r \in Range(drainQ[t]) : r # h
    BY <1>3 DEF IInv, EntryInv, Entries
  <2>4. \A r \in Range(drainQ[s]) : r \notin done
    BY <1>1 DEF IInv, EntryInv
  <2>5. \A t \in Shards : \A r \in Range(drainQ'[t]) : r \in done' <=> drain'[t] = "wait" /\ r = Head(drainQ'[t])
    <3>. SUFFICES ASSUME NEW t \in Shards, NEW r \in Range(drainQ[t])
                  PROVE  r \in done' <=> drain'[t] = "wait" /\ r = Head(drainQ[t])
      BY <1>1
    <3>1. CASE t = s
      BY <1>1, <1>5, <2>4, <3>1 DEF h
    <3>2. CASE t # s
      BY <1>1, <1>5, <2>3, <3>2 DEF IInv, EntryInv
    <3>. QED BY <3>1, <3>2
  <2>6. \A t \in Shards : \A r \in Range(queue'[t]) : r \notin done'
    BY <1>1, <2>2 DEF IInv, EntryInv
  <2>7. \A r \in Requests : (r \in done' => pc'[r] \notin Early) /\ (async'[r] # "none" => r \in done')
    BY <1>1, <1>3 DEF IInv, EntryInv
  <2>8. \A t \in Shards : /\ IsInjective(queue'[t]) /\ IsInjective(drainQ'[t])
                          /\ \A r \in Entries(t)' : ShardOf[r] = t /\ async'[r] = "none" /\ pc'[r] \notin Early
    BY <1>1, <2>1 DEF IInv, EntryInv
  <2>. QED BY <2>5, <2>6, <2>7, <2>8 DEF EntryInv
<1>8. SlotInv' /\ FlightInv'
  BY <1>1, OccupantsFrame DEF IInv, FlightInv
<1>. QED BY <1>4, <1>6, <1>7, <1>8 DEF IInv

(* The retry of the entry that the drain has unblocked is over. *)
LEMMA DrainWaitStep ==
  ASSUME IInv, NEW s \in Shards, DrainWait(s)
  PROVE  IInv'
<1>. DEFINE h == Head(drainQ[s])
<1>1. /\ drain[s] = "wait" /\ h \in finished /\ drain' = [drain EXCEPT ![s] = "next"]
      /\ drainQ' = [drainQ EXCEPT ![s] = Tail(drainQ[s])] /\ slots' = slots + 1
      /\ UNCHANGED <<stopped, sbVars, threadVars, missing, pc, entryVars, shutVars>>
  BY DEF DrainWait
<1>. USE DEF sbVars, threadVars, entryVars, shutVars
<1>2. /\ drainQ[s] # <<>> /\ drainQ[s] \in Seq(Requests) /\ IsInjective(drainQ[s])
      /\ thread[s] = "none" /\ queue[s] = <<>> /\ state[s] = "DRAINING"
  BY <1>1, EntriesType DEF IInv, ShardInv, EntryInv, TypeOK
<1>3. /\ Tail(drainQ[s]) \in Seq(Requests) /\ h \in Requests /\ h \in Range(drainQ[s])
      /\ Range(Tail(drainQ[s])) = Range(drainQ[s]) \ {h} /\ IsInjective(Tail(drainQ[s]))
  BY <1>2, RangeTail
<1>4. /\ drain'[s] = "next" /\ \A t \in Shards \ {s} : drain'[t] = drain[t]
      /\ drainQ'[s] = Tail(drainQ[s]) /\ \A t \in Shards \ {s} : drainQ'[t] = drainQ[t]
      /\ drainQ' \in [Shards -> Seq(Requests)]
  BY <1>1, <1>3 DEF IInv, TypeOK
<1>5. /\ Entries(s)' = Entries(s) \ {h} /\ \A t \in Shards \ {s} : Entries(t)' = Entries(t)
      /\ h \in Entries(s) /\ ShardOf[h] = s /\ async[h] = "none"
  <2>1. Range(queue[s]) = {}
    BY <1>2, RangeEmpty
  <2>. QED BY <1>1, <1>3, <1>4, <2>1, EntriesOccupy DEF Entries
<1>6. \A r \in Range(drainQ[s]) : r \in done <=> r = h
  BY <1>1 DEF IInv, EntryInv
<1>. HIDE DEF h
<1>7. ShardInv'
  BY <1>1, <1>2, <1>4 DEF IInv, ShardInv
<1>8. EntryInv'
  <2>1. \A t \in Shards : \A r \in Range(drainQ'[t]) : r \in done' <=> drain'[t] = "wait" /\ r = Head(drainQ'[t])
    <3>. SUFFICES ASSUME NEW t \in Shards, NEW r \in Range(drainQ'[t])
                  PROVE  r \in done <=> drain'[t] = "wait" /\ r = Head(drainQ'[t])
      BY <1>1
    <3>1. CASE t = s
      BY <1>3, <1>4, <1>6, <3>1
    <3>2. CASE t # s
      BY <1>4, <3>2 DEF IInv, EntryInv
    <3>. QED BY <3>1, <3>2
  <2>2. \A t \in Shards : /\ IsInjective(queue'[t]) /\ IsInjective(drainQ'[t])
                          /\ \A r \in Range(queue'[t]) : r \notin done'
                          /\ \A r \in Entries(t)' : ShardOf[r] = t /\ async'[r] = "none" /\ pc'[r] \notin Early
    BY <1>1, <1>3, <1>4, <1>5 DEF IInv, EntryInv
  <2>. QED BY <1>1, <2>1, <2>2 DEF IInv, EntryInv
<1>9. Occupants' = Occupants \ {h} /\ h \in Occupants
  BY <1>1, <1>3, <1>5, ShardAssumption DEF Occupants
<1>10. SlotInv' /\ slots' \in 0..Size
  <2>1. IsFiniteSet(Occupants) /\ Cardinality(Occupants) \in Nat /\ slots \in 0..Size /\ Size \in Nat
        /\ slots + Cardinality(Occupants) = Size
    BY FS_CardinalityType, SizeAssumption DEF IInv, SlotInv, TypeOK
  <2>2. /\ IsFiniteSet(Occupants \ {h}) /\ Cardinality(Occupants \ {h}) = Cardinality(Occupants) - 1
        /\ Cardinality(Occupants) # 0
    BY <1>9, <2>1, RemoveOne, FS_RemoveElement
  <2>. QED BY <1>1, <1>9, <2>1, <2>2 DEF SlotInv
<1>11. FlightInv'
  BY <1>1, <1>9 DEF IInv, FlightInv
<1>12. TypeOK'
  BY <1>1, <1>4, <1>10 DEF IInv, TypeOK
<1>. QED BY <1>7, <1>8, <1>10, <1>11, <1>12 DEF IInv

(* An entry is taken out of the queue by the timeout thread or by its      *)
(* request, and a goroutine is to release its slot.                        *)
LEMMA TakeOut ==
  ASSUME IInv, NEW s \in Shards, NEW r \in Range(queue[s]), NEW q \in Seq(Requests),
         Range(q) = Range(queue[s]) \ {r}, IsInjective(q),
         queue' = [queue EXCEPT ![s] = q], Unblock(r, FALSE, "release"),
         UNCHANGED <<slots, state, stopChan, drain, drainQ>>,
         \A t \in Shards : thread'[t] = thread[t] \/ (thread[t] # "none" /\ thread'[t] # "none"),
         finished \subseteq finished',
         \A x \in Requests : pc'[x] = pc[x] \/ (x = r /\ pc'[x] = "end")
  PROVE  /\ r \in Requests /\ done' = done \cup {r} /\ failed' = failed
         /\ async' \in [Requests -> {"none", "release", "keep"}]
         /\ queue' \in [Shards -> Seq(Requests)]
         /\ ShardInv' /\ EntryInv' /\ SlotInv' /\ FlightInv'
<1>1. /\ done' = done \cup {r} /\ failed' = failed /\ async' = [async EXCEPT ![r] = "release"]
  BY DEF Unblock
<1>2. r \in Requests /\ r \in Entries(s) /\ ShardOf[r] = s /\ r \in Occupants /\ pc[r] \notin Early /\ r \notin done
  BY EntriesType, EntriesOccupy DEF IInv, Entries, EntryInv
<1>3. /\ async' \in [Requests -> {"none", "release", "keep"}] /\ async'[r] = "release"
      /\ \A x \in Requests \ {r} : async'[x] = async[x]
  BY <1>1, <1>2 DEF IInv, TypeOK
<1>4. queue' \in [Shards -> Seq(Requests)] /\ queue'[s] = q /\ \A t \in Shards \ {s} : queue'[t] = queue[t]
  BY DEF IInv, TypeOK
<1>5. state[s] = "BUFFERING" /\ drainQ[s] = <<>>
  <2>1. queue[s] # <<>>
    BY RangeEmpty
  <2>. QED BY <2>1 DEF IInv, ShardInv, TypeOK
<1>6. ShardInv'
  BY <1>4, <1>5 DEF IInv, ShardInv
<1>7. Entries(s)' = Entries(s) \ {r} /\ \A t \in Shards \ {s} : Entries(t)' = Entries(t)
  BY <1>4, <1>5, RangeEmpty DEF Entries
<1>8. \A t \in Shards : r \notin Entries(t)'
  BY <1>2, <1>7, EntriesOccupy
<1>9. EntryInv'
  <2>1. \A t \in Shards : IsInjective(queue'[t]) /\ IsInjective(drainQ'[t])
    BY <1>4 DEF IInv, EntryInv
  <2>2. \A t \in Shards : \A x \in Entries(t)' :
          /\ x \in Requests /\ x # r /\ x \in Entries(t)
          /\ ShardOf[x] = t /\ async'[x] = "none" /\ pc'[x] \notin Early
    BY <1>3, <1>7, <1>8, EntriesOccupy
  <2>3. \A t \in Shards : \A x \in Range(queue'[t]) : x \in Entries(t)' /\ x \in Range(queue[t])
    BY <1>4 DEF Entries
  <2>4. \A t \in Shards : \A x \in Range(queue'[t]) : x \notin done'
    BY <1>1, <1>8, <2>3 DEF IInv, EntryInv
  <2>5. \A t \in Shards : \A x \in Range(drainQ'[t]) : x # r
    BY <1>8 DEF Entries
  <2>6. \A t \in Shards : \A x \in Range(drainQ'[t]) : x \in done' <=> drain'[t] = "wait" /\ x = Head(drainQ'[t])
    BY <1>1, <2>5 DEF IInv, EntryInv
  <2>7. \A x \in Requests : (x \in done' => pc'[x] \notin Early) /\ (async'[x] # "none" => x \in done')
    BY <1>1, <1>2, <1>3 DEF IInv, EntryInv, Early
  <2>. QED BY <2>1, <2>2, <2>4, <2>6, <2>7 DEF EntryInv
<1>10. Occupants' = Occupants
  BY <1>2, <1>3, <1>7, ShardAssumption DEF Occupants
<1>11. SlotInv' /\ FlightInv'
  BY <1>1, <1>10 DEF IInv, SlotInv, FlightInv
<1>. QED BY <1>1, <1>2, <1>3, <1>4, <1>6, <1>9, <1>11

(* The timeout thread evicts the entry whose window is exceeded. *)
LEMMA EvictOldestEntryStep ==
  ASSUME IInv, NEW s \in Shards, EvictOldestEntry(s)
  PROVE  IInv'
<1>1. /\ thread[s] = "evict" /\ thread' = [thread EXCEPT ![s] = "loop"]
      /\ watched' = [watched EXCEPT ![s] = "none"]
      /\ UNCHANGED <<semVars, state, recent, woken, stopChan, drainVars, pc, finished, shutVars>>
  BY DEF EvictOldestEntry, Thread
<1>. USE DEF semVars, drainVars, shutVars
<1>2. /\ thread' \in [Shards -> Threads] /\ watched' \in [Shards -> Requests \cup {"none"}]
      /\ \A t \in Shards : thread'[t] = thread[t] \/ (thread[t] # "none" /\ thread'[t] # "none")
  BY <1>1 DEF IInv, TypeOK, Threads
<1>3. CASE queue[s] # <<>> /\ Head(queue[s]) = watched[s]
  <2>. DEFINE r == Head(queue[s])
              q == Tail(queue[s])
  <2>1. queue[s] \in Seq(Requests) /\ IsInjective(queue[s])
    BY EntriesType DEF IInv, EntryInv
  <2>2. /\ r \in Range(queue[s]) /\ q \in Seq(Requests) /\ Range(q) = Range(queue[s]) \ {r} /\ IsInjective(q)
    BY <1>3, <2>1, RangeTail
  <2>3. queue' = [queue EXCEPT ![s] = q] /\ Unblock(r, FALSE, "release")
    BY <1>3 DEF EvictOldestEntry
  <2>. HIDE DEF r, q
  <2>4. /\ r \in Requests /\ done' = done \cup {r} /\ failed' = failed
        /\ async' \in [Requests -> {"none", "release", "keep"}]
        /\ queue' \in [Shards -> Seq(Requests)]
        /\ ShardInv' /\ EntryInv' /\ SlotInv' /\ FlightInv'
    BY <1>1, <1>2, <2>2, <2>3, TakeOut
  <2>5. TypeOK'
    BY <1>1, <1>2, <2>4 DEF IInv, TypeOK
  <2>. QED BY <2>4, <2>5 DEF IInv
<1>4. CASE ~(queue[s] # <<>> /\ Head(queue[s]) = watched[s])
  <2>1. UNCHANGED <<queue, done, failed, async>>
    BY <1>4 DEF EvictOldestEntry
  <2>2. TypeOK'
    BY <1>1, <1>2, <2>1 DEF IInv, TypeOK
  <2>. QED BY <1>1, <1>2, <2>1, <2>2, QuietThreadStep
<1>. QED BY <1>3, <1>4

(* A request whose context is done takes its entry out. *)
LEMMA RemoveEntryStep ==
  ASSUME IInv, NEW r \in Requests, RemoveEntry(r)
  PROVE  IInv'
<1>. DEFINE s == ShardOf[r]
<1>1. /\ pc[r] = "remove" /\ pc' = [pc EXCEPT ![r] = "end"]
      /\ UNCHANGED <<semVars, state, recent, threadVars, drainVars, shutVars>>
  BY DEF RemoveEntry, Go
<1>. USE DEF semVars, threadVars, drainVars, shutVars, entryVars
<1>2. /\ pc' \in [Requests -> Places] /\ s \in Shards
      /\ \A x \in Requests : pc'[x] = pc[x] \/ (x = r /\ pc'[x] = "end")
  BY <1>1, ShardAssumption DEF IInv, TypeOK, Places
<1>3. CASE r \in Range(queue[s])
  <2>1. queue[s] \in Seq(Requests) /\ IsInjective(queue[s]) /\ DOMAIN queue[s] = 1..Len(queue[s])
    BY <1>2, EntriesType DEF IInv, EntryInv
  <2>2. PICK i \in 1..Len(queue[s]) : queue[s][i] = r /\ queue' = [queue EXCEPT ![s] = RemoveAt(queue[s], i)]
    BY <1>3, <2>1 DEF RemoveEntry
  <2>3. finished' = finished \cup {r} /\ Unblock(r, FALSE, "release")
    BY <1>3 DEF RemoveEntry
  <2>. DEFINE q == RemoveAt(queue[s], i)
  <2>4. q \in Seq(Requests) /\ Range(q) = Range(queue[s]) \ {r} /\ IsInjective(q)
    BY <2>1, <2>2, RangeRemoveAt
  <2>5. queue' = [queue EXCEPT ![s] = q]
    BY <2>2
  <2>. HIDE DEF q, s
  <2>6. /\ done' = done \cup {r} /\ failed' = failed
        /\ async' \in [Requests -> {"none", "release", "keep"}]
        /\ queue' \in [Shards -> Seq(Requests)]
        /\ ShardInv' /\ EntryInv' /\ SlotInv' /\ FlightInv'
    BY <1>1, <1>2, <1>3, <2>3, <2>4, <2>5, TakeOut
  <2>7. TypeOK'
    BY <1>1, <1>2, <2>3, <2>6 DEF IInv, TypeOK
  <2>. QED BY <2>6, <2>7 DEF IInv
<1>4. CASE r \notin Range(queue[s])
  <2>1. UNCHANGED <<queue, entryVars>>
    BY <1>4 DEF RemoveEntry
  <2>2. TypeOK'
    BY <1>1, <1>2, <2>1 DEF IInv, TypeOK
  <2>3. ShardInv'
    BY <1>1, <2>1 DEF IInv, ShardInv
  <2>4. EntryInv'
    <3>1. \A x \in Requests : pc[x] \notin Early => pc'[x] \notin Early
      BY <1>2 DEF Early
    <3>. QED BY <1>1, <2>1, <3>1, EntriesType DEF IInv, EntryInv, Entries
  <2>5. SlotInv' /\ FlightInv'
    BY <1>1, <1>2, <2>1, OccupantsFrame DEF IInv, FlightInv
  <2>. QED BY <2>2, <2>3, <2>4, <2>5 DEF IInv
<1>. QED BY <1>3, <1>4

(* A request joins the queue of its shard, and the entries of E lose their *)
(* place in it.                                                            *)
Joins(r, s, E, q) ==
  /\ ShardOf[r] = s /\ pc[r] \in Early /\ drainQ[s] = <<>>
  /\ E \subseteq Range(queue[s]) /\ Range(q) = (Range(queue[s]) \ E) \cup {r} /\ IsInjective(q)
  /\ queue' = [queue EXCEPT ![s] = q] /\ pc' = [pc EXCEPT ![r] = "wait"]
  /\ done' = done \cup E /\ failed' = failed \cup E
  /\ async' \in [Requests -> {"none", "release", "keep"}]
  /\ \A x \in Requests : async'[x] = IF x \in E THEN "keep" ELSE async[x]
  /\ UNCHANGED <<drain, drainQ, finished>>

LEMMA JoinQueue ==
  ASSUME IInv, NEW r \in Requests, NEW s \in Shards, NEW E, NEW q \in Seq(Requests), Joins(r, s, E, q)
  PROVE  /\ queue' \in [Shards -> Seq(Requests)] /\ \A t \in Shards \ {s} : queue'[t] = queue[t]
         /\ pc' \in [Requests -> Places] /\ done' \subseteq Requests /\ failed' \subseteq Requests
         /\ EntryInv' /\ FlightInv'
         /\ r \notin Occupants /\ E \subseteq Occupants /\ Occupants' = (Occupants \ E) \cup {r}
<1>. USE DEF Joins
<1>1. queue' \in [Shards -> Seq(Requests)] /\ queue'[s] = q /\ \A t \in Shards \ {s} : queue'[t] = queue[t]
  BY DEF IInv, TypeOK
<1>2. /\ pc' \in [Requests -> Places] /\ pc'[r] = "wait" /\ \A x \in Requests \ {r} : pc'[x] = pc[x]
  BY DEF IInv, TypeOK, Places
<1>3. async[r] = "none" /\ r \notin done /\ \A t \in Shards : r \notin Entries(t)
  BY EntriesOccupy DEF IInv, EntryInv, TypeOK
<1>4. /\ E \subseteq Requests /\ E \subseteq Entries(s) /\ E \subseteq Occupants /\ r \notin E
      /\ \A x \in E : ShardOf[x] = s /\ x \notin done /\ pc[x] \notin Early /\ async[x] = "none"
  BY <1>3, EntriesOccupy DEF IInv, EntryInv, Entries
<1>5. done' \subseteq Requests /\ failed' \subseteq Requests
  BY <1>4 DEF IInv, TypeOK
<1>6. Entries(s)' = (Entries(s) \ E) \cup {r} /\ \A t \in Shards \ {s} : Entries(t)' = Entries(t)
  BY <1>1, RangeEmpty DEF Entries
<1>7. \A t \in Shards : Entries(t)' \cap E = {}
  BY <1>4, <1>6, EntriesOccupy
<1>8. EntryInv'
  <2>1. \A t \in Shards : IsInjective(queue'[t]) /\ IsInjective(drainQ'[t])
    BY <1>1 DEF IInv, EntryInv
  <2>2. \A t \in Shards : \A x \in Entries(t)' : ShardOf[x] = t /\ async'[x] = "none" /\ pc'[x] \notin Early
    <3>. SUFFICES ASSUME NEW t \in Shards, NEW x \in Entries(t)'
                  PROVE  ShardOf[x] = t /\ async'[x] = "none" /\ pc'[x] \notin Early
      OBVIOUS
    <3>1. CASE x = r
      BY <1>2, <1>3, <1>4, <1>6, <3>1 DEF Early
    <3>2. CASE x # r
      BY <1>2, <1>6, <1>7, <3>2, EntriesOccupy
    <3>. QED BY <3>1, <3>2
  <2>3. \A t \in Shards : \A x \in Range(queue'[t]) : x \notin done'
    <3>. SUFFICES ASSUME NEW t \in Shards, NEW x \in Range(queue'[t]) PROVE x \notin done'
      OBVIOUS
    <3>1. x \in Entries(t)' /\ x \notin E
      BY <1>7 DEF Entries
    <3>2. x \in Range(queue[t]) \/ x = r
      BY <1>1
    <3>. QED BY <1>3, <3>1, <3>2 DEF IInv, EntryInv
  <2>4. \A t \in Shards : \A x \in Range(drainQ'[t]) : x \notin E
    BY <1>7 DEF Entries
  <2>5. \A t \in Shards : \A x \in Range(drainQ'[t]) : x \in done' <=> drain'[t] = "wait" /\ x = Head(drainQ'[t])
    BY <2>4 DEF IInv, EntryInv
  <2>6. \A x \in Requests : (x \in done' => pc'[x] \notin Early) /\ (async'[x] # "none" => x \in done')
    BY <1>2, <1>3, <1>4 DEF IInv, EntryInv, Early
  <2>. QED BY <2>1, <2>2, <2>3, <2>5, <2>6 DEF EntryInv
<1>9. r \notin Occupants /\ Occupants' = (Occupants \ E) \cup {r}
  BY <1>3, <1>4, <1>6, <1>7, ShardAssumption DEF Occupants
<1>10. FlightInv'
  BY <1>2, <1>9 DEF IInv, FlightInv
<1>. QED BY <1>1, <1>2, <1>4, <1>5, <1>8, <1>9, <1>10

(* What waitForFailoverEnd does: the shard is buffering when it returns.   *)
LEMMA FailoverRuns ==
  ASSUME IInv, NEW r \in Requests, WaitForFailoverEnd(r)
  PROVE  /\ ShardOf[r] \in Shards /\ pc[r] \in Early
         /\ UNCHANGED <<stopped, recent, watched, drainVars, finished, shutVars>>
         /\ state' = [state EXCEPT ![ShardOf[r]] = "BUFFERING"] /\ thread' \in [Shards -> Threads]
         /\ thread'[ShardOf[r]] # "none" /\ \A t \in Shards \ {ShardOf[r]} : thread'[t] = thread[t]
         /\ stopChan' \subseteq Shards /\ woken' \subseteq Shards
         /\ ShardOf[r] \notin stopChan' /\ stopChan' \subseteq stopChan
         /\ \A t \in Shards \ {ShardOf[r]} : t \in stopChan' <=> t \in stopChan
         /\ drain[ShardOf[r]] = "none" /\ drainQ[ShardOf[r]] = <<>>
<1>. DEFINE s == ShardOf[r]
<1>1. /\ InCall(r) /\ ShouldBuffer(s, pc[r] = "failing")
      /\ IF state[s] = "IDLE" THEN StartBuffering(s) ELSE UNCHANGED <<state, stopChan, thread>>
      /\ UNCHANGED woken \/ Notify(s)
      /\ UNCHANGED <<stopped, recent, watched, drainVars, finished, shutVars>>
  BY DEF WaitForFailoverEnd
<1>2. s \in Shards /\ pc[r] \in Early
  BY <1>1, ShardAssumption DEF InCall, Early
<1>. HIDE DEF s
<1>3. state[s] \in {"IDLE", "BUFFERING"}
  BY <1>1 DEF ShouldBuffer
<1>4. drain[s] = "none" /\ drainQ[s] = <<>>
  BY <1>2, <1>3 DEF IInv, ShardInv
<1>5. woken' \subseteq Shards
  BY <1>1, <1>2 DEF Notify, IInv, TypeOK
<1>6. CASE state[s] = "IDLE"
  <2>1. /\ state' = [state EXCEPT ![s] = "BUFFERING"]
        /\ thread' = [thread EXCEPT ![s] = "loop"] /\ stopChan' = stopChan \ {s}
    BY <1>1, <1>6 DEF StartBuffering
  <2>. QED BY <1>1, <1>2, <1>4, <1>5, <2>1 DEF IInv, TypeOK, Threads, s
<1>7. CASE state[s] = "BUFFERING"
  <2>1. UNCHANGED <<state, stopChan, thread>>
    BY <1>1, <1>7
  <2>2. state' = [state EXCEPT ![s] = "BUFFERING"]
    BY <1>2, <1>7, <2>1 DEF IInv, TypeOK
  <2>3. thread[s] # "none" /\ s \notin stopChan
    BY <1>2, <1>7 DEF IInv, ShardInv
  <2>. QED BY <1>1, <1>2, <1>4, <1>5, <2>1, <2>2, <2>3 DEF IInv, TypeOK, s
<1>. QED BY <1>3, <1>6, <1>7

(* A request is buffered in a free slot or in that of the oldest entry, or *)
(* it is not because the buffer is full or only a dry run.                 *)
LEMMA WaitForFailoverEndStep ==
  ASSUME IInv, NEW r \in Requests, WaitForFailoverEnd(r)
  PROVE  IInv'
<1>. DEFINE s == ShardOf[r]
<1>1. /\ s \in Shards /\ pc[r] \in Early
      /\ UNCHANGED <<stopped, recent, watched, drainVars, finished, shutVars>>
      /\ state' = [state EXCEPT ![s] = "BUFFERING"] /\ thread' \in [Shards -> Threads]
      /\ thread'[s] # "none" /\ \A t \in Shards \ {s} : thread'[t] = thread[t]
      /\ stopChan' \subseteq Shards /\ woken' \subseteq Shards
      /\ s \notin stopChan' /\ stopChan' \subseteq stopChan
      /\ \A t \in Shards \ {s} : t \in stopChan' <=> t \in stopChan
      /\ drain[s] = "none" /\ drainQ[s] = <<>>
  BY FailoverRuns
<1>2. \/ Go(r, "new") /\ UNCHANGED <<slots, queue, done, failed, async>>
      \/ BufferRequest(r, s)
  BY DEF WaitForFailoverEnd
<1>. HIDE DEF s
<1>. USE DEF drainVars, shutVars
<1>3. (\A t \in Shards \ {s} : queue'[t] = queue[t]) => ShardInv'
  <2>1. state'[s] = "BUFFERING" /\ \A t \in Shards \ {s} : state'[t] = state[t]
    BY <1>1 DEF IInv, TypeOK
  <2>. QED BY <1>1, <2>1 DEF IInv, ShardInv
<1>4. state' \in [Shards -> {"IDLE", "BUFFERING", "DRAINING"}]
  BY <1>1 DEF IInv, TypeOK
<1>5. CASE pc' = [pc EXCEPT ![r] = "new"] /\ UNCHANGED <<slots, queue, done, failed, async>>
  <2>1. /\ pc' \in [Requests -> Places] /\ pc'[r] = "new" /\ \A x \in Requests \ {r} : pc'[x] = pc[x]
    BY <1>5 DEF IInv, TypeOK, Places
  <2>2. TypeOK'
    BY <1>1, <1>4, <1>5, <2>1 DEF IInv, TypeOK
  <2>3. \A x \in Requests : pc'[x] \in Early <=> pc[x] \in Early
    BY <1>1, <2>1 DEF Early
  <2>4. EntryInv'
    BY <1>1, <1>5, <2>3, EntriesType DEF IInv, EntryInv, Entries
  <2>5. SlotInv' /\ FlightInv'
    BY <1>1, <1>5, <2>1, OccupantsFrame DEF IInv, FlightInv
  <2>. QED BY <1>3, <1>5, <2>2, <2>4, <2>5 DEF IInv
<1>6. queue[s] \in Seq(Requests) /\ IsInjective(queue[s]) /\ ShardOf[r] = s
  BY <1>1, EntriesType DEF IInv, EntryInv, s
<1>7. r \notin Range(queue[s])
  BY <1>1, EntriesOccupy DEF Entries
<1>8. /\ IsFiniteSet(Occupants) /\ Cardinality(Occupants) \in Nat /\ slots \in 0..Size /\ Size \in Nat
      /\ slots + Cardinality(Occupants) = Size
  BY FS_CardinalityType, SizeAssumption DEF IInv, SlotInv, TypeOK
<1>9. CASE /\ slots > 0 /\ slots' = slots - 1 /\ queue' = [queue EXCEPT ![s] = Append(queue[s], r)]
           /\ pc' = [pc EXCEPT ![r] = "wait"] /\ UNCHANGED <<done, failed, async>>
  <2>. DEFINE q == Append(queue[s], r)
              E == {}
  <2>1. /\ q \in Seq(Requests) /\ Range(q) = (Range(queue[s]) \ E) \cup {r} /\ IsInjective(q)
    BY <1>6, <1>7, RangeAppend
  <2>2. /\ E \in SUBSET Range(queue[s]) /\ done' = done \cup E /\ failed' = failed \cup E
        /\ async' \in [Requests -> {"none", "release", "keep"}]
        /\ \A x \in Requests : async'[x] = IF x \in E THEN "keep" ELSE async[x]
        /\ queue' = [queue EXCEPT ![s] = q]
    BY <1>9 DEF IInv, TypeOK
  <2>. HIDE DEF q, E
  <2>3. /\ queue' \in [Shards -> Seq(Requests)] /\ \A t \in Shards \ {s} : queue'[t] = queue[t]
        /\ pc' \in [Requests -> Places] /\ done' \subseteq Requests /\ failed' \subseteq Requests
        /\ EntryInv' /\ FlightInv'
        /\ r \notin Occupants /\ E \subseteq Occupants /\ Occupants' = (Occupants \ E) \cup {r}
    <3>1. drainQ[s] = <<>> /\ pc' = [pc EXCEPT ![r] = "wait"] /\ UNCHANGED <<drain, drainQ, finished>>
      BY <1>1, <1>9
    <3>2. Joins(r, s, E, q)
      BY <1>1, <1>6, <2>1, <2>2, <3>1 DEF Joins
    <3>. QED BY <1>1, <2>1, <3>2, JoinQueue
  <2>4. Occupants' = Occupants \cup {r}
    BY <2>3 DEF E
  <2>5. SlotInv'
    <3>1. IsFiniteSet(Occupants \cup {r}) /\ Cardinality(Occupants \cup {r}) = Cardinality(Occupants) + 1
      BY <1>8, <2>3, FS_AddElement
    <3>. QED BY <1>8, <1>9, <2>4, <3>1 DEF SlotInv
  <2>6. TypeOK'
    <3>1. slots' \in 0..Size
      BY <1>8, <1>9
    <3>. QED BY <1>1, <1>4, <2>2, <2>3, <3>1 DEF IInv, TypeOK
  <2>. QED BY <1>3, <2>3, <2>5, <2>6 DEF IInv
<1>10. CASE /\ slots = 0 /\ queue[s] # <<>> /\ Unblock(Head(queue[s]), TRUE, "keep")
            /\ queue' = [queue EXCEPT ![s] = Append(Tail(queue[s]), r)]
            /\ pc' = [pc EXCEPT ![r] = "wait"] /\ UNCHANGED slots
  <2>. DEFINE h == Head(queue[s])
              q == Append(Tail(queue[s]), r)
              E == {h}
  <2>1. /\ Tail(queue[s]) \in Seq(Requests) /\ h \in Requests /\ h \in Range(queue[s])
        /\ Range(Tail(queue[s])) = Range(queue[s]) \ {h} /\ IsInjective(Tail(queue[s]))
    BY <1>6, <1>10, RangeTail
  <2>2. /\ q \in Seq(Requests) /\ Range(q) = (Range(queue[s]) \ E) \cup {r} /\ IsInjective(q)
    <3>. DEFINE w == Tail(queue[s])
    <3>1. w \in Seq(Requests) /\ Range(w) = Range(queue[s]) \ E /\ IsInjective(w) /\ r \notin Range(w)
      BY <1>7, <2>1
    <3>2. q = Append(w, r)
      OBVIOUS
    <3>. HIDE DEF w, q, E, h
    <3>. QED BY <3>1, <3>2, RangeAppend
  <2>3. done' = done \cup E /\ failed' = failed \cup E /\ async' = [async EXCEPT ![h] = "keep"]
    BY <1>10 DEF Unblock
  <2>4. /\ E \in SUBSET Range(queue[s])
        /\ async' \in [Requests -> {"none", "release", "keep"}]
        /\ \A x \in Requests : async'[x] = IF x \in E THEN "keep" ELSE async[x]
        /\ queue' = [queue EXCEPT ![s] = q]
    BY <1>10, <2>1, <2>3 DEF IInv, TypeOK
  <2>. HIDE DEF q, E, h
  <2>5. /\ queue' \in [Shards -> Seq(Requests)] /\ \A t \in Shards \ {s} : queue'[t] = queue[t]
        /\ pc' \in [Requests -> Places] /\ done' \subseteq Requests /\ failed' \subseteq Requests
        /\ EntryInv' /\ FlightInv'
        /\ r \notin Occupants /\ E \subseteq Occupants /\ Occupants' = (Occupants \ E) \cup {r}
    <3>1. drainQ[s] = <<>> /\ pc' = [pc EXCEPT ![r] = "wait"] /\ UNCHANGED <<drain, drainQ, finished>>
      BY <1>1, <1>10
    <3>2. Joins(r, s, E, q)
      BY <1>1, <1>6, <2>2, <2>3, <2>4, <3>1 DEF Joins
    <3>. QED BY <1>1, <2>2, <3>2, JoinQueue
  <2>6. /\ IsFiniteSet(Occupants \ {h}) /\ Cardinality(Occupants \ {h}) = Cardinality(Occupants) - 1
        /\ r \notin Occupants \ {h}
    BY <1>8, <2>5, RemoveOne, FS_RemoveElement DEF E
  <2>7. /\ IsFiniteSet((Occupants \ {h}) \cup {r})
        /\ Cardinality((Occupants \ {h}) \cup {r}) = Cardinality(Occupants \ {h}) + 1
    BY <2>6, FS_AddElement
  <2>8. SlotInv'
    <3>1. Cardinality(Occupants') = Cardinality(Occupants) /\ IsFiniteSet(Occupants')
      BY <1>8, <2>5, <2>6, <2>7 DEF E
    <3>. QED BY <1>8, <1>10, <3>1 DEF SlotInv
  <2>9. TypeOK'
    BY <1>1, <1>4, <1>10, <2>4, <2>5 DEF IInv, TypeOK
  <2>. QED BY <1>3, <2>5, <2>8, <2>9 DEF IInv
<1>. QED BY <1>2, <1>5, <1>9, <1>10 DEF BufferRequest, Go

(* Every step keeps the invariant. *)
LEMMA StepInv == IInv /\ [Next]_vars => IInv'
<1>. SUFFICES ASSUME IInv, [Next]_vars PROVE IInv'
  OBVIOUS
<1>1. CASE UNCHANGED vars
  BY <1>1, OtherQuietStep
<1>2. CASE Environment
  <2>1. ASSUME NEW r \in Requests, NEW f \in BOOLEAN, GetOrCreateBuffer(r, f) PROVE IInv'
    <3>1. GetOrCreateBuffer(r, TRUE) \/ GetOrCreateBuffer(r, FALSE)
      BY <2>1 DEF GetOrCreateBuffer
    <3>. QED BY <3>1, QuietRequestStep
  <2>. QED BY <1>2, <2>1, QuietRequestStep, FailoverEndStep, OtherQuietStep, ThreadQuietStep DEF Environment
<1>3. ASSUME NEW r \in Requests, RequestStep(r) \/ WaitForRequestFinish(r) PROVE IInv'
  BY <1>3, QuietRequestStep, WaitForFailoverEndStep, RemoveEntryStep, WaitForRequestFinishStep DEF RequestStep
<1>4. ASSUME NEW s \in Shards, DrainStep(s) PROVE IInv'
  BY <1>4, DrainQuietStep, DrainUnblockStep, DrainWaitStep DEF DrainStep
<1>5. ASSUME NEW s \in Shards, ThreadStep(s) \/ MaxDuration(s) \/ WaitForShutdown(s) PROVE IInv'
  BY <1>5, ThreadQuietStep, EvictOldestEntryStep, FailoverEndStep, OtherQuietStep DEF ThreadStep
<1>. QED BY <1>1, <1>2, <1>3, <1>4, <1>5 DEF Next

(* The entries that wait to be unblocked: those of the queue, or those of  *)
(* the drain but for the one it has unblocked.                             *)
LEMMA WaitingFacts ==
  ASSUME IInv, NEW s \in Shards
  PROVE  /\ Waiting(s) \in Seq(Requests) /\ IsInjective(Waiting(s))
         /\ \A r \in Range(Waiting(s)) :
              r \in Requests /\ ShardOf[r] = s /\ r \in Entries(s) /\ r \notin done /\ async[r] = "none"
         /\ \A r \in Entries(s) : r \in Range(Waiting(s)) \/ (drain[s] = "wait" /\ r = Head(drainQ[s]))
<1>1. /\ queue[s] \in Seq(Requests) /\ IsInjective(queue[s])
      /\ drainQ[s] \in Seq(Requests) /\ IsInjective(drainQ[s])
  BY EntriesType DEF IInv, EntryInv
<1>2. CASE drain[s] = "none"
  <2>1. Waiting(s) = queue[s] /\ Range(drainQ[s]) = {}
    BY <1>2, RangeEmpty DEF Waiting, IInv, ShardInv
  <2>. QED BY <1>1, <2>1, EntriesOccupy DEF IInv, EntryInv, Entries
<1>3. drain[s] # "none" => Range(queue[s]) = {}
  BY RangeEmpty DEF IInv, ShardInv, TypeOK
<1>4. CASE drain[s] = "wait"
  <2>1. Waiting(s) = Tail(drainQ[s]) /\ drainQ[s] # <<>>
    BY <1>4 DEF Waiting, IInv, ShardInv
  <2>2. /\ Waiting(s) \in Seq(Requests) /\ IsInjective(Waiting(s))
        /\ Range(Waiting(s)) = Range(drainQ[s]) \ {Head(drainQ[s])}
    BY <1>1, <2>1, RangeTail
  <2>. QED BY <1>3, <1>4, <2>2, EntriesOccupy DEF IInv, EntryInv, Entries
<1>5. CASE drain[s] \notin {"none", "wait"}
  <2>1. Waiting(s) = drainQ[s]
    BY <1>5 DEF Waiting
  <2>. QED BY <1>1, <1>3, <1>5, <2>1, EntriesOccupy DEF IInv, EntryInv, Entries
<1>. QED BY <1>2, <1>4, <1>5

(* The entry that a drain has unblocked. *)
LEMMA DrainingFacts ==
  ASSUME IInv, NEW r \in Draining
  PROVE  /\ r \in Requests /\ r \in Entries(ShardOf[r]) /\ r \in done /\ async[r] = "none"
         /\ drain[ShardOf[r]] = "wait" /\ r = Head(drainQ[ShardOf[r]])
<1>1. PICK s \in Shards : drain[s] = "wait" /\ r = Head(drainQ[s])
  BY DEF Draining
<1>2. drainQ[s] # <<>> /\ drainQ[s] \in Seq(Requests)
  BY <1>1, EntriesType DEF IInv, ShardInv
<1>3. r \in Range(drainQ[s])
  BY <1>1, <1>2, RangeFacts
<1>4. r \in Entries(s) /\ r \in done
  BY <1>1, <1>3 DEF Entries, IInv, EntryInv
<1>. QED BY <1>1, <1>4, EntriesOccupy

(* Who occupies the buffer waits if its channel is open and is leaving     *)
(* otherwise.                                                              *)
LEMMA Accounting ==
  ASSUME IInv
  PROVE  /\ AllWaiting \cup Leaving = Occupants
         /\ AllWaiting \cap done = {} /\ Leaving \subseteq done
         /\ Draining \cap {r \in Requests : async[r] # "none"} = {}
<1>1. AllWaiting \subseteq Occupants /\ AllWaiting \cap done = {}
  <2>. SUFFICES ASSUME NEW r \in AllWaiting PROVE r \in Occupants /\ r \notin done
    OBVIOUS
  <2>1. PICK s \in Shards : r \in Range(Waiting(s))
    BY DEF AllWaiting
  <2>. QED BY <2>1, WaitingFacts, EntriesOccupy
<1>2. Leaving \subseteq Occupants /\ Leaving \subseteq done
  <2>. SUFFICES ASSUME NEW r \in Leaving PROVE r \in Occupants /\ r \in done
    OBVIOUS
  <2>1. CASE r \in Requests /\ async[r] = "release"
    BY <2>1 DEF Occupants, IInv, EntryInv
  <2>2. CASE r \in Draining
    BY <2>2, DrainingFacts DEF Occupants
  <2>. QED BY <2>1, <2>2 DEF Leaving
<1>3. ASSUME NEW r \in Occupants PROVE r \in AllWaiting \cup Leaving
  <2>1. r \in Requests /\ ShardOf[r] \in Shards
    BY ShardAssumption DEF Occupants
  <2>2. CASE async[r] = "release"
    BY <2>1, <2>2 DEF Leaving
  <2>3. CASE r \in Entries(ShardOf[r])
    <3>1. CASE r \in Range(Waiting(ShardOf[r]))
      BY <2>1, <3>1 DEF AllWaiting
    <3>2. CASE drain[ShardOf[r]] = "wait" /\ r = Head(drainQ[ShardOf[r]])
      BY <2>1, <3>2 DEF Leaving, Draining
    <3>. QED BY <2>1, <2>3, <3>1, <3>2, WaitingFacts
  <2>. QED BY <2>2, <2>3 DEF Occupants
<1>4. Draining \cap {r \in Requests : async[r] # "none"} = {}
  BY DrainingFacts
<1>. QED BY <1>1, <1>2, <1>3, <1>4

(* The invariant holds in every reachable state. *)
THEOREM Invariance == Spec => []IInv
BY InitInv, StepInv, PTL DEF Spec

(* Every variable keeps its type; the semaphore never holds more than Size *)
(* slots.                                                                  *)
THEOREM TypeCorrect == Spec => []TypeOK
<1>1. IInv => TypeOK
  BY DEF IInv
<1>. QED BY <1>1, Invariance, PTL

(* Every slot that is taken belongs to exactly one entry, however finished *)
(* requests, evictions by newer entries, the timeout thread and the drain  *)
(* meet.                                                                   *)
THEOREM SlotsAreAccounted == Spec => []SlotsAccounted
<1>1. IInv => SlotsAccounted
  <2>. SUFFICES ASSUME IInv PROVE SlotsAccounted
    OBVIOUS
  <2>1. /\ IsFiniteSet(Occupants) /\ Cardinality(Occupants) \in Nat /\ slots \in Nat /\ Size \in Nat
        /\ slots + Cardinality(Occupants) = Size
    BY FS_CardinalityType, SizeAssumption DEF IInv, SlotInv, TypeOK
  <2>2. slots = Size - Cardinality(Occupants)
    BY <2>1
  <2>. QED BY <2>2, Accounting DEF SlotsAccounted
<1>. QED BY <1>1, Invariance, PTL

(* The done channel of an entry is closed once: whoever takes an entry out *)
(* of a queue finds its channel open, and the entry is in no other queue.  *)
THEOREM ChannelsCloseOnce == Spec => []ClosedOnce
<1>1. IInv => ClosedOnce
  BY Accounting, WaitingFacts DEF ClosedOnce
<1>. QED BY <1>1, Invariance, PTL

(* At most -buffer_size requests that their clients still wait for are     *)
(* buffered or retried after it, over all shards.                          *)
THEOREM InFlightIsBounded == Spec => []InFlightBounded
<1>1. IInv => InFlightBounded
  <2>. SUFFICES ASSUME IInv PROVE InFlightBounded
    OBVIOUS
  <2>. DEFINE F == {r \in Requests : pc[r] \in {"wait", "retry"} /\ r \notin finished \cup failed}
  <2>1. F \in SUBSET Occupants
    BY DEF IInv, FlightInv
  <2>2. /\ IsFiniteSet(Occupants) /\ Cardinality(Occupants) \in Nat /\ slots \in Nat /\ Size \in Nat
        /\ slots + Cardinality(Occupants) = Size
    BY FS_CardinalityType, SizeAssumption DEF IInv, SlotInv, TypeOK
  <2>. HIDE DEF F
  <2>3. IsFiniteSet(F) /\ Cardinality(F) <= Cardinality(Occupants) /\ Cardinality(F) \in Nat
    BY <2>1, <2>2, FS_Subset, FS_CardinalityType
  <2>4. Cardinality(F) <= Size
    BY <2>2, <2>3
  <2>. QED BY <2>4 DEF InFlightBounded, F
<1>. QED BY <1>1, Invariance, PTL

(* A failover has one timeout thread that nobody has stopped, and the next *)
(* one begins only when the thread and the drain of the last one are gone. *)
THEOREM FailoversAreSeparate == Spec => []OneFailoverAtATime
<1>1. IInv => OneFailoverAtATime
  BY DEF IInv, ShardInv, OneFailoverAtATime
<1>. QED BY <1>1, Invariance, PTL

(* The steps that BoundedBuffer does not see. *)
LEMMA AbsStutter ==
  ASSUME \A s \in Shards : Waiting(s)' = Waiting(s), Leaving' = Leaving, done' = done
  PROVE  UNCHANGED Buffered!vars
<1>1. AllWaiting' = AllWaiting
  BY DEF AllWaiting
<1>2. [s \in Shards |-> Waiting(s)]' = [s \in Shards |-> Waiting(s)]
  OBVIOUS
<1>. QED BY <1>1, <1>2 DEF Buffered!vars

LEMMA AbsQuiet ==
  ASSUME UNCHANGED <<queue, drain, drainQ, done, async>>
  PROVE  UNCHANGED Buffered!vars
<1>1. \A s \in Shards : Waiting(s)' = Waiting(s)
  BY DEF Waiting
<1>2. Leaving' = Leaving
  BY DEF Leaving, Draining
<1>. QED BY <1>1, <1>2, AbsStutter

(* One shard's waiting entries become w: those of E go and those of F come. *)
WaitingBecomes(s, w, E, F) ==
  /\ Waiting(s)' = w /\ \A t \in Shards \ {s} : Waiting(t)' = Waiting(t)
  /\ E \subseteq Range(Waiting(s)) /\ Range(w) = (Range(Waiting(s)) \ E) \cup F

LEMMA WaitingChange ==
  ASSUME IInv, NEW s \in Shards, NEW w, NEW E, NEW F, WaitingBecomes(s, w, E, F)
  PROVE  /\ [t \in Shards |-> Waiting(t)]' = [[t \in Shards |-> Waiting(t)] EXCEPT ![s] = w]
         /\ AllWaiting' = (AllWaiting \ E) \cup F /\ E \subseteq AllWaiting
<1>. USE DEF WaitingBecomes
<1>1. [t \in Shards |-> Waiting(t)]' = [[t \in Shards |-> Waiting(t)] EXCEPT ![s] = w]
  OBVIOUS
<1>2. \A x : x \in AllWaiting <=> \E t \in Shards : x \in Range(Waiting(t))
  BY DEF AllWaiting
<1>3. \A x : x \in AllWaiting' <=> \E t \in Shards : x \in Range(Waiting(t)')
  BY DEF AllWaiting
<1>4. \A x \in E : \A t \in Shards \ {s} : x \notin Range(Waiting(t))
  BY WaitingFacts
<1>5. ASSUME NEW x PROVE x \in AllWaiting' <=> x \in (AllWaiting \ E) \cup F
  BY <1>2, <1>3, <1>4
<1>. QED BY <1>1, <1>2, <1>5

(* The size of the abstract buffer is that of the set of the occupants. *)
LEMMA AbsOccupied ==
  ASSUME IInv
  PROVE  Buffered!Occupied = Size - slots /\ slots \in Nat /\ Size \in Nat
<1>1. Buffered!Held = AllWaiting
  <2>1. {Range([s \in Shards |-> Waiting(s)][t]) : t \in Shards} = {Range(Waiting(t)) : t \in Shards}
    OBVIOUS
  <2>2. \A x : Buffered!Range(x) = Range(x)
    BY DEF Buffered!Range, Range
  <2>. QED BY <2>1, <2>2 DEF Buffered!Held, AllWaiting
<1>2. Buffered!Occupied = Cardinality(Occupants)
  <2>1. Buffered!Occupied = Buffered!Cardinality(AllWaiting \cup Leaving)
    BY <1>1 DEF Buffered!Occupied
  <2>2. Buffered!Cardinality(Occupants) = Cardinality(Occupants)
    BY DEF Buffered!Cardinality, Cardinality
  <2>. QED BY <2>1, <2>2, Accounting
<1>3. /\ Cardinality(Occupants) \in Nat /\ slots \in Nat /\ Size \in Nat
      /\ slots + Cardinality(Occupants) = Size
  BY FS_CardinalityType, SizeAssumption DEF IInv, SlotInv, TypeOK
<1>. QED BY <1>2, <1>3

(* A request is buffered. *)
LEMMA AbsWaitForFailoverEnd ==
  ASSUME IInv, NEW r \in Requests, WaitForFailoverEnd(r)
  PROVE  Buffered!Next \/ UNCHANGED Buffered!vars
<1>. DEFINE s == ShardOf[r]
<1>1. /\ s \in Shards /\ pc[r] \in Early /\ UNCHANGED <<drain, drainQ, missing>> /\ drain[s] = "none"
  BY FailoverRuns DEF drainVars
<1>2. \/ Go(r, "new") /\ UNCHANGED <<slots, queue, done, failed, async>>
      \/ BufferRequest(r, s)
  BY DEF WaitForFailoverEnd
<1>. HIDE DEF s
<1>3. r \notin AllWaiting \cup done
  <2>1. r \notin done
    BY <1>1 DEF IInv, EntryInv
  <2>2. r \notin AllWaiting
    BY <1>1, WaitingFacts, EntriesOccupy DEF AllWaiting
  <2>. QED BY <2>1, <2>2
<1>4. Waiting(s) = queue[s] /\ queue[s] \in Seq(Requests) /\ IsInjective(queue[s])
  BY <1>1, EntriesType DEF Waiting, IInv, EntryInv
<1>5. Draining' = Draining
  BY <1>1 DEF Draining
<1>6. CASE UNCHANGED <<queue, done, async>>
  BY <1>1, <1>6, AbsQuiet
<1>7. CASE slots > 0 /\ queue' = [queue EXCEPT ![s] = Append(queue[s], r)] /\ UNCHANGED <<done, async>>
  <2>. DEFINE w == Append(Waiting(s), r)
              E == {}
  <2>1. E \subseteq Range(Waiting(s)) /\ Range(w) = (Range(Waiting(s)) \ E) \cup {r}
    BY <1>4, RangeAppend
  <2>2. Waiting(s)' = w /\ \A t \in Shards \ {s} : Waiting(t)' = Waiting(t)
    BY <1>1, <1>4, <1>7 DEF Waiting, IInv, TypeOK
  <2>. HIDE DEF w, E
  <2>3. /\ [t \in Shards |-> Waiting(t)]' = [[t \in Shards |-> Waiting(t)] EXCEPT ![s] = w]
        /\ AllWaiting' = (AllWaiting \ E) \cup {r}
    <3>1. WaitingBecomes(s, w, E, {r})
      BY <2>1, <2>2 DEF WaitingBecomes
    <3>. QED BY <1>1, <3>1, WaitingChange
  <2>4. AllWaiting' \cup done' = (AllWaiting \cup done) \cup {r}
    BY <1>7, <2>3 DEF E
  <2>5. Leaving' = Leaving
    BY <1>5, <1>7 DEF Leaving
  <2>6. Buffered!Occupied < Size
    BY <1>7, AbsOccupied
  <2>7. Buffered!Enter(s, r)
    BY <1>1, <1>3, <2>3, <2>4, <2>5, <2>6 DEF Buffered!Enter, w
  <2>. QED BY <1>1, <2>7 DEF Buffered!Next
<1>8. CASE /\ slots = 0 /\ queue[s] # <<>> /\ Unblock(Head(queue[s]), TRUE, "keep")
           /\ queue' = [queue EXCEPT ![s] = Append(Tail(queue[s]), r)]
  <2>. DEFINE h == Head(Waiting(s))
              u == Tail(Waiting(s))
              w == Append(u, r)
              E == {h}
  <2>1. u \in Seq(Requests) /\ h \in Requests /\ h \in Range(Waiting(s)) /\ Range(u) = Range(Waiting(s)) \ E
    BY <1>4, <1>8, RangeTail
  <2>2. done' = done \cup E /\ async' = [async EXCEPT ![h] = "keep"] /\ async[h] = "none"
    BY <1>1, <1>4, <1>8, <2>1, WaitingFacts DEF Unblock
  <2>3. Waiting(s)' = w /\ \A t \in Shards \ {s} : Waiting(t)' = Waiting(t)
    BY <1>1, <1>4, <1>8 DEF Waiting, IInv, TypeOK
  <2>. HIDE DEF h, u
  <2>4. Range(w) = (Range(Waiting(s)) \ E) \cup {r}
    BY <2>1, RangeAppend
  <2>. HIDE DEF w, E
  <2>5. /\ [t \in Shards |-> Waiting(t)]' = [[t \in Shards |-> Waiting(t)] EXCEPT ![s] = w]
        /\ AllWaiting' = (AllWaiting \ E) \cup {r} /\ E \subseteq AllWaiting
    <3>1. WaitingBecomes(s, w, E, {r})
      BY <2>1, <2>3, <2>4 DEF WaitingBecomes, E
    <3>. QED BY <1>1, <3>1, WaitingChange
  <2>6. AllWaiting' \cup done' = (AllWaiting \cup done) \cup {r}
    BY <2>2, <2>5
  <2>7. Leaving' = Leaving
    BY <1>5, <2>1, <2>2 DEF Leaving, IInv, TypeOK
  <2>8. Buffered!Occupied = Size
    BY <1>8, AbsOccupied
  <2>9. Buffered!Replace(s, r)
    BY <1>1, <1>3, <1>4, <1>8, <2>5, <2>6, <2>7, <2>8 DEF Buffered!Replace, w, u
  <2>. QED BY <1>1, <2>9 DEF Buffered!Next
<1>. QED BY <1>2, <1>6, <1>7, <1>8 DEF BufferRequest

(* An entry is unblocked and begins to leave: the oldest one, or one that  *)
(* its request takes out.                                                  *)
LEMMA AbsUnblock ==
  ASSUME IInv, NEW s \in Shards, NEW r, r \in Range(Waiting(s)),
         NEW w, Range(w) = Range(Waiting(s)) \ {r},
         Waiting(s)' = w, \A t \in Shards \ {s} : Waiting(t)' = Waiting(t),
         done' = done \cup {r}
  PROVE  /\ [t \in Shards |-> Waiting(t)]' = [[t \in Shards |-> Waiting(t)] EXCEPT ![s] = w]
         /\ AllWaiting' \cup done' = AllWaiting \cup done
<1>. DEFINE E == {r}
            F == {}
<1>1. E \subseteq Range(Waiting(s)) /\ Range(w) = (Range(Waiting(s)) \ E) \cup F
  OBVIOUS
<1>. HIDE DEF E, F
<1>2. /\ [t \in Shards |-> Waiting(t)]' = [[t \in Shards |-> Waiting(t)] EXCEPT ![s] = w]
      /\ AllWaiting' = (AllWaiting \ E) \cup F /\ E \subseteq AllWaiting
  <2>1. WaitingBecomes(s, w, E, F)
    BY <1>1 DEF WaitingBecomes
  <2>. QED BY <2>1, WaitingChange
<1>3. AllWaiting' \cup done' = AllWaiting \cup done
  BY <1>2 DEF E, F
<1>. QED BY <1>2, <1>3

LEMMA AbsLetGo ==
  ASSUME IInv, NEW s \in Shards, Waiting(s) # <<>>,
         Waiting(s)' = Tail(Waiting(s)), \A t \in Shards \ {s} : Waiting(t)' = Waiting(t),
         done' = done \cup {Head(Waiting(s))}, Leaving' = Leaving \cup {Head(Waiting(s))}
  PROVE  Buffered!Next
<1>. DEFINE h == Head(Waiting(s))
            w == Tail(Waiting(s))
<1>1. h \in Range(Waiting(s)) /\ Range(w) = Range(Waiting(s)) \ {h}
  BY WaitingFacts, RangeTail
<1>2. Waiting(s)' = w /\ done' = done \cup {h}
  OBVIOUS
<1>. HIDE DEF h, w
<1>3. /\ [t \in Shards |-> Waiting(t)]' = [[t \in Shards |-> Waiting(t)] EXCEPT ![s] = w]
      /\ AllWaiting' \cup done' = AllWaiting \cup done
  BY <1>1, <1>2, AbsUnblock
<1>4. Buffered!LetGo(s)
  BY <1>3 DEF Buffered!LetGo, w
<1>. QED BY <1>4 DEF Buffered!Next

LEMMA AbsEvictOldestEntry ==
  ASSUME IInv, NEW s \in Shards, EvictOldestEntry(s)
  PROVE  Buffered!Next \/ UNCHANGED Buffered!vars
<1>1. UNCHANGED <<drain, drainQ>>
  BY DEF EvictOldestEntry, drainVars
<1>2. CASE queue[s] # <<>> /\ Head(queue[s]) = watched[s]
  <2>. DEFINE h == Head(queue[s])
  <2>1. queue' = [queue EXCEPT ![s] = Tail(queue[s])] /\ done' = done \cup {h} /\ async' = [async EXCEPT ![h] = "release"]
    BY <1>2 DEF EvictOldestEntry, Unblock
  <2>2. drain[s] = "none" /\ Waiting(s) = queue[s] /\ h = Head(Waiting(s)) /\ Waiting(s) # <<>>
    BY <1>2 DEF Waiting, IInv, ShardInv, TypeOK
  <2>3. Waiting(s)' = Tail(Waiting(s)) /\ \A t \in Shards \ {s} : Waiting(t)' = Waiting(t)
    BY <1>1, <2>1, <2>2 DEF Waiting, IInv, TypeOK
  <2>4. h \in Requests
    BY <2>2, WaitingFacts, FirstElement
  <2>. HIDE DEF h
  <2>5. Leaving' = Leaving \cup {h}
    BY <1>1, <2>1, <2>4 DEF Leaving, Draining, IInv, TypeOK
  <2>. QED BY <2>1, <2>2, <2>3, <2>5, AbsLetGo
<1>3. CASE ~(queue[s] # <<>> /\ Head(queue[s]) = watched[s])
  BY <1>1, <1>3, AbsQuiet DEF EvictOldestEntry
<1>. QED BY <1>2, <1>3

LEMMA AbsDrainUnblock ==
  ASSUME IInv, NEW s \in Shards, DrainUnblock(s)
  PROVE  Buffered!Next
<1>. DEFINE h == Head(drainQ[s])
<1>1. /\ drain[s] = "next" /\ drainQ[s] # <<>> /\ drain' = [drain EXCEPT ![s] = "wait"]
      /\ done' = done \cup {h} /\ UNCHANGED <<queue, drainQ, async>>
  BY DEF DrainUnblock, sbVars
<1>2. Waiting(s) = drainQ[s]
  BY <1>1 DEF Waiting
<1>3. drain'[s] = "wait" /\ \A t \in Shards \ {s} : drain'[t] = drain[t]
  BY <1>1 DEF IInv, TypeOK
<1>4. Waiting(s)' = Tail(Waiting(s)) /\ \A t \in Shards \ {s} : Waiting(t)' = Waiting(t)
  BY <1>1, <1>2, <1>3 DEF Waiting
<1>5. {x \in Shards : drain'[x] = "wait"} = {x \in Shards : drain[x] = "wait"} \cup {s}
  BY <1>3
<1>6. Draining' = Draining \cup {h}
  BY <1>1, <1>5 DEF Draining
<1>7. Leaving' = Leaving \cup {h}
  BY <1>1, <1>6 DEF Leaving
<1>. QED BY <1>1, <1>2, <1>4, <1>7, AbsLetGo

LEMMA AbsRemoveEntry ==
  ASSUME IInv, NEW r \in Requests, RemoveEntry(r)
  PROVE  Buffered!Next \/ UNCHANGED Buffered!vars
<1>. DEFINE s == ShardOf[r]
<1>1. UNCHANGED <<drain, drainQ>> /\ s \in Shards
  BY ShardAssumption DEF RemoveEntry, drainVars
<1>2. CASE r \in Range(queue[s])
  <2>1. queue[s] \in Seq(Requests) /\ IsInjective(queue[s]) /\ DOMAIN queue[s] = 1..Len(queue[s])
    BY <1>1, EntriesType DEF IInv, EntryInv
  <2>2. PICK i \in 1..Len(queue[s]) : queue[s][i] = r /\ queue' = [queue EXCEPT ![s] = RemoveAt(queue[s], i)]
    BY <1>2, <2>1 DEF RemoveEntry
  <2>3. done' = done \cup {r} /\ async' = [async EXCEPT ![r] = "release"]
    BY <1>2 DEF RemoveEntry, Unblock
  <2>. DEFINE w == RemoveAt(Waiting(s), i)
  <2>. HIDE DEF s
  <2>4. queue[s] # <<>>
    BY <1>2, RangeEmpty
  <2>5. drain[s] = "none" /\ Waiting(s) = queue[s]
    BY <1>1, <2>4 DEF Waiting, IInv, ShardInv, TypeOK
  <2>6. r \in Range(Waiting(s)) /\ Range(w) = Range(Waiting(s)) \ {r}
    BY <1>2, <2>1, <2>2, <2>5, RangeRemoveAt
  <2>7. Waiting(s)' = w /\ \A t \in Shards \ {s} : Waiting(t)' = Waiting(t)
    BY <1>1, <2>2, <2>5 DEF Waiting, IInv, TypeOK
  <2>. HIDE DEF w
  <2>8. /\ [t \in Shards |-> Waiting(t)]' = [[t \in Shards |-> Waiting(t)] EXCEPT ![s] = w]
        /\ AllWaiting' \cup done' = AllWaiting \cup done
    BY <1>1, <2>3, <2>6, <2>7, AbsUnblock
  <2>9. Leaving' = Leaving \cup {r}
    BY <1>1, <2>3 DEF Leaving, Draining, IInv, TypeOK
  <2>10. Buffered!GiveUp(s, r)
    <3>1. /\ i \in DOMAIN Waiting(s) /\ Waiting(s)[i] = r
          /\ [t \in Shards |-> Waiting(t)]' = [[t \in Shards |-> Waiting(t)] EXCEPT ![s] = RemoveAt(Waiting(s), i)]
      BY <2>1, <2>2, <2>5, <2>8 DEF w
    <3>2. \A x, j : Buffered!RemoveAt(x, j) = RemoveAt(x, j)
      BY DEF Buffered!RemoveAt, RemoveAt
    <3>. QED BY <1>1, <2>8, <2>9, <3>1, <3>2 DEF Buffered!GiveUp
  <2>. QED BY <1>1, <2>10 DEF Buffered!Next
<1>3. CASE r \notin Range(queue[s])
  BY <1>1, <1>3, AbsQuiet DEF RemoveEntry, entryVars
<1>. QED BY <1>2, <1>3

(* An entry that was unblocked is finished and its slot released. *)
LEMMA AbsLeave ==
  ASSUME NEW r \in Requests, r \in Leaving, Leaving' = Leaving \ {r},
         \A s \in Shards : Waiting(s)' = Waiting(s), done' = done
  PROVE  Buffered!Next
<1>1. AllWaiting' = AllWaiting
  BY DEF AllWaiting
<1>2. [s \in Shards |-> Waiting(s)]' = [s \in Shards |-> Waiting(s)]
  OBVIOUS
<1>3. Buffered!Leave(r)
  BY <1>1, <1>2 DEF Buffered!Leave
<1>. QED BY <1>3 DEF Buffered!Next

LEMMA AbsWaitForRequestFinish ==
  ASSUME IInv, NEW r \in Requests, WaitForRequestFinish(r)
  PROVE  Buffered!Next \/ UNCHANGED Buffered!vars
<1>1. async[r] # "none" /\ async' = [async EXCEPT ![r] = "none"] /\ UNCHANGED <<queue, drain, drainQ, done>>
  BY DEF WaitForRequestFinish, sbVars, drainVars
<1>2. Draining' = Draining /\ \A s \in Shards : Waiting(s)' = Waiting(s)
  BY <1>1 DEF Draining, Waiting
<1>3. CASE async[r] = "release"
  <2>1. r \in Leaving /\ r \notin Draining
    BY <1>3, Accounting DEF Leaving
  <2>2. Leaving' = Leaving \ {r}
    BY <1>1, <1>2, <2>1 DEF Leaving, IInv, TypeOK
  <2>. QED BY <1>1, <1>2, <2>1, <2>2, AbsLeave
<1>4. CASE async[r] # "release"
  <2>1. Leaving' = Leaving
    BY <1>1, <1>2, <1>4 DEF Leaving, IInv, TypeOK
  <2>. QED BY <1>1, <1>2, <2>1, AbsStutter
<1>. QED BY <1>3, <1>4

LEMMA AbsDrainWait ==
  ASSUME IInv, NEW s \in Shards, DrainWait(s)
  PROVE  Buffered!Next
<1>. DEFINE h == Head(drainQ[s])
<1>1. /\ drain[s] = "wait" /\ drain' = [drain EXCEPT ![s] = "next"]
      /\ drainQ' = [drainQ EXCEPT ![s] = Tail(drainQ[s])] /\ UNCHANGED <<queue, done, async>>
  BY DEF DrainWait, sbVars, entryVars
<1>2. /\ drain'[s] = "next" /\ \A t \in Shards \ {s} : drain'[t] = drain[t]
      /\ drainQ'[s] = Tail(drainQ[s]) /\ \A t \in Shards \ {s} : drainQ'[t] = drainQ[t]
  BY <1>1 DEF IInv, TypeOK
<1>3. \A t \in Shards : Waiting(t)' = Waiting(t)
  BY <1>1, <1>2 DEF Waiting
<1>4. h \in Draining
  BY <1>1 DEF Draining
<1>5. h \in Requests /\ async[h] = "none"
  BY <1>4, DrainingFacts
<1>6. \A t \in Shards : drain[t] = "wait" => ShardOf[Head(drainQ[t])] = t
  <2>. SUFFICES ASSUME NEW t \in Shards, drain[t] = "wait" PROVE ShardOf[Head(drainQ[t])] = t
    OBVIOUS
  <2>1. drainQ[t] # <<>> /\ drainQ[t] \in Seq(Requests)
    BY EntriesType DEF IInv, ShardInv
  <2>2. Head(drainQ[t]) \in Entries(t)
    BY <2>1, RangeFacts DEF Entries
  <2>. QED BY <2>2, EntriesOccupy
<1>7. Draining' = Draining \ {h}
  <2>1. ASSUME NEW x PROVE x \in Draining' <=> \E t \in Shards \ {s} : drain[t] = "wait" /\ x = Head(drainQ[t])
    BY <1>2 DEF Draining
  <2>2. ASSUME NEW x PROVE x \in Draining <=> \E t \in Shards : drain[t] = "wait" /\ x = Head(drainQ[t])
    BY DEF Draining
  <2>3. ASSUME NEW x PROVE x \in Draining' <=> x \in Draining \ {h}
    BY <1>1, <1>6, <2>1, <2>2
  <2>. QED BY <2>3
<1>. HIDE DEF h
<1>8. h \in Leaving /\ Leaving' = Leaving \ {h}
  BY <1>1, <1>4, <1>5, <1>7 DEF Leaving
<1>. QED BY <1>1, <1>3, <1>5, <1>8, AbsLeave

(* A failover ends and its drain begins or is over: nobody leaves. *)
LEMMA AbsStopBuffering ==
  ASSUME IInv, NEW S \in SUBSET Shards, NEW m \in BOOLEAN, NEW p \in BOOLEAN, StopBuffering(S, m, p),
         UNCHANGED <<done, async>>
  PROVE  UNCHANGED Buffered!vars
<1>. DEFINE B == {s \in S : state[s] = "BUFFERING"}
<1>1. /\ queue' = [s \in Shards |-> IF s \in B THEN <<>> ELSE queue[s]]
      /\ drain' = [s \in Shards |-> IF s \in B THEN "start" ELSE drain[s]]
      /\ drainQ' = [s \in Shards |-> IF s \in B THEN queue[s] ELSE drainQ[s]]
  BY DEF StopBuffering
<1>2. \A s \in Shards : s \in B => drain[s] = "none"
  BY DEF IInv, ShardInv
<1>. HIDE DEF B
<1>3. \A s \in Shards : Waiting(s)' = Waiting(s)
  BY <1>1, <1>2 DEF Waiting
<1>4. /\ {x \in Shards : drain'[x] = "wait"} = {x \in Shards : drain[x] = "wait"}
      /\ \A x \in Shards : drain[x] = "wait" => drainQ'[x] = drainQ[x]
  BY <1>1, <1>2
<1>5. Draining' = Draining
  BY <1>4 DEF Draining
<1>6. Leaving' = Leaving
  BY <1>5 DEF Leaving
<1>. QED BY <1>3, <1>6, AbsStutter

LEMMA AbsDrainQuiet ==
  ASSUME IInv, NEW s \in Shards, DrainStart(s) \/ DrainStop(s) \/ DrainEnd(s)
  PROVE  UNCHANGED Buffered!vars
<1>. USE DEF DrainStart, DrainStop, DrainEnd, sbVars, entryVars
<1>1. UNCHANGED <<queue, drainQ, done, async>>
  OBVIOUS
<1>2. PICK d : drain' = [drain EXCEPT ![s] = d] /\ d # "wait" /\ (d = "none" => drainQ[s] = <<>>)
  OBVIOUS
<1>3. drain[s] # "wait" /\ drain[s] # "none" /\ queue[s] = <<>>
  BY DEF IInv, ShardInv, TypeOK
<1>. HIDE DEF DrainStart, DrainStop, DrainEnd
<1>4. drain'[s] = d /\ \A t \in Shards \ {s} : drain'[t] = drain[t]
  BY <1>2 DEF IInv, TypeOK
<1>5. \A t \in Shards : Waiting(t)' = Waiting(t)
  BY <1>1, <1>2, <1>3, <1>4 DEF Waiting
<1>6. {x \in Shards : drain'[x] = "wait"} = {x \in Shards : drain[x] = "wait"}
  BY <1>2, <1>3, <1>4
<1>7. Leaving' = Leaving
  BY <1>1, <1>6 DEF Leaving, Draining
<1>. QED BY <1>1, <1>5, <1>7, AbsStutter

(* Every step of the buffer is a step of BoundedBuffer or invisible.       *)
LEMMA AbsStep == IInv /\ [Next]_vars => [Buffered!Next]_(Buffered!vars)
<1>. SUFFICES ASSUME IInv, [Next]_vars PROVE Buffered!Next \/ UNCHANGED Buffered!vars
  OBVIOUS
<1>. USE DEF vars, semVars, sbVars, threadVars, drainVars, entryVars, shutVars
<1>1. CASE UNCHANGED vars
  BY <1>1, AbsQuiet
<1>2. CASE Environment
  <2>1. ASSUME NEW r \in Requests, NEW f \in BOOLEAN, GetOrCreateBuffer(r, f) \/ CtxDone(r)
        PROVE  UNCHANGED Buffered!vars
    BY <2>1, AbsQuiet DEF GetOrCreateBuffer, CtxDone
  <2>2. ASSUME NEW s \in Shards, NEW p \in BOOLEAN, NEW q \in BOOLEAN, RecordEvent(s, p, q)
        PROVE  UNCHANGED Buffered!vars
    <3>1. StopBuffering({s}, ~q, p) /\ {s} \in SUBSET Shards /\ (~q) \in BOOLEAN /\ UNCHANGED <<done, async>>
      BY <2>2 DEF RecordEvent
    <3>. QED BY <3>1, AbsStopBuffering
  <2>3. ASSUME NEW s \in Shards, TimePasses(s) \/ WindowExceeded(s)
        PROVE  UNCHANGED Buffered!vars
    BY <2>3, AbsQuiet DEF TimePasses, WindowExceeded, OnlyThread
  <2>4. ASSUME Shutdown PROVE UNCHANGED Buffered!vars
    <3>1. StopBuffering(Shards, FALSE, FALSE) /\ FALSE \in BOOLEAN /\ UNCHANGED <<done, async>>
      BY <2>4 DEF Shutdown
    <3>. QED BY <3>1, AbsStopBuffering
  <2>. QED BY <1>2, <2>1, <2>2, <2>3, <2>4 DEF Environment
<1>3. ASSUME NEW r \in Requests, RequestStep(r) PROVE Buffered!Next \/ UNCHANGED Buffered!vars
  <2>1. ASSUME PassThrough(r) \/ WaitReturns(r) \/ WaitCancelled(r) \/ RetryDone(r)
        PROVE  UNCHANGED Buffered!vars
    BY <2>1, AbsQuiet DEF PassThrough, WaitReturns, WaitCancelled, RetryDone
  <2>. QED BY <1>3, <2>1, AbsWaitForFailoverEnd, AbsRemoveEntry DEF RequestStep
<1>4. ASSUME NEW s \in Shards, DrainStep(s) PROVE Buffered!Next \/ UNCHANGED Buffered!vars
  BY <1>4, AbsDrainQuiet, AbsDrainUnblock, AbsDrainWait DEF DrainStep
<1>5. ASSUME NEW s \in Shards, ThreadStep(s) PROVE Buffered!Next \/ UNCHANGED Buffered!vars
  <2>1. ASSUME ThreadLoop(s) \/ ThreadSleeps(s) \/ ThreadWoken(s) \/ EntryDone(s) \/ ThreadStops(s)
        PROVE  UNCHANGED Buffered!vars
    BY <2>1, AbsQuiet DEF ThreadLoop, ThreadSleeps, ThreadWoken, EntryDone, ThreadStops, OnlyThread
  <2>2. ASSUME StopDueToMaxDuration(s) PROVE UNCHANGED Buffered!vars
    <3>1. StopBuffering({s}, FALSE, FALSE) /\ {s} \in SUBSET Shards /\ FALSE \in BOOLEAN /\ UNCHANGED <<done, async>>
      BY <2>2 DEF StopDueToMaxDuration
    <3>. QED BY <3>1, AbsStopBuffering
  <2>. QED BY <1>5, <2>1, <2>2, AbsEvictOldestEntry DEF ThreadStep
<1>6. ASSUME NEW s \in Shards, MaxDuration(s) \/ WaitForShutdown(s) PROVE UNCHANGED Buffered!vars
  BY <1>6, AbsQuiet DEF MaxDuration, WaitForShutdown, OnlyThread
<1>. QED BY <1>1, <1>2, <1>3, <1>4, <1>5, <1>6, AbsWaitForRequestFinish DEF Next

LEMMA AbsInit == Init => Buffered!Init
<1>. SUFFICES ASSUME Init PROVE Buffered!Init
  OBVIOUS
<1>1. \A s \in Shards : Waiting(s) = <<>>
  BY DEF Init, Waiting
<1>2. AllWaiting = {}
  BY <1>1, RangeEmpty DEF AllWaiting
<1>3. Leaving = {}
  BY DEF Init, Leaving, Draining
<1>. QED BY <1>1, <1>2, <1>3 DEF Init, Buffered!Init

(* The failover buffer is a bounded buffer: at most Size requests occupy   *)
(* it, each of them once, and a shard's requests are let go in the order   *)
(* of their arrival, but for those that give up.                           *)
THEOREM Implementation == Spec => ImplementsBoundedBuffer
BY InitInv, AbsInit, AbsStep, Invariance, PTL DEF Spec, Buffered!Spec, ImplementsBoundedBuffer
===========================================================================
