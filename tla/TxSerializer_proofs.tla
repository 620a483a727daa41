------------------------ MODULE TxSerializer_proofs ------------------------
(***************************************************************************)
(* Safety of TxSerializer for any calls, keys, queue objects and limits,   *)
(* in dry run mode too.                                                    *)
(***************************************************************************)
EXTENDS TxSerializer, SeqSetFacts

Inside == {t \in Txs : pc[t] # "idle"}
Busy(q) == {t \in Txs : pc[t] # "idle" /\ queue[t] = q}

(* A call is in the queue its key has, and a queue has one key.            *)
QueueInv ==
  /\ SameQueue
  /\ \A t \in Txs : pc[t] = "idle" => queue[t] = "none"
  /\ \A k1, k2 \in Keys : queues[k1] = queues[k2] /\ queues[k1] # "none" => k1 = k2

(* The blocked senders of a queue wait in it, each once.                   *)
BlockedInv ==
  \A q \in Queues :
    /\ \A i \in 1..Len(blocked[q]) : pc[blocked[q][i]] = "wait" /\ queue[blocked[q][i]] = q
    /\ \A i, j \in 1..Len(blocked[q]) : blocked[q][i] = blocked[q][j] => i = j

(* The channel has an element for every call that runs; before there is    *)
(* one, the first call is alone.                                           *)
SlotInv ==
  ~dryRun => \A q \in Queues : (\E k \in Keys : queues[k] = q) =>
    /\ q \in channel => slots[q] = Cardinality(Running(q)) /\ slots[q] <= concurrentTransactions
    /\ q \notin channel => \E t \in Txs : Busy(q) = {t} /\ Running(q) = {t}

(* Nobody waits in dry run mode.                                           *)
DryInv == dryRun => \A t \in Txs : pc[t] \in {"idle", "run"}

(* CountsExact, written with the sets above.                               *)
CountInv ==
  /\ \A q \in Queues : (\E k \in Keys : queues[k] = q) => size[q] = Cardinality(Busy(q))
  /\ \A k \in Keys : queues[k] # "none" => \E t \in Txs : pc[t] # "idle" /\ key[t] = k
  /\ globalSize = Cardinality(Inside)

IInv ==
  /\ TypeOK /\ QueueInv /\ CountInv /\ BlockedInv /\ SlotInv /\ DryInv

(* Sets of calls are finite. *)
LEMMA FiniteSets ==
  /\ IsFiniteSet(Inside) /\ Cardinality(Inside) \in Nat
  /\ \A q : IsFiniteSet(Busy(q)) /\ Cardinality(Busy(q)) \in Nat
  /\ \A q : IsFiniteSet(Running(q)) /\ Cardinality(Running(q)) \in Nat
<1>1. \A S \in SUBSET Txs : IsFiniteSet(S) /\ Cardinality(S) \in Nat
  BY FiniteAssumption, FS_Subset, FS_CardinalityType
<1>2. Inside \in SUBSET Txs /\ \A q : Busy(q) \in SUBSET Txs /\ Running(q) \in SUBSET Txs
  BY DEF Inside, Busy, Running
<1>. QED BY <1>1, <1>2

(* The initial states satisfy the invariant. *)
LEMMA InitInv == Init => IInv
<1>. SUFFICES ASSUME Init PROVE IInv
  OBVIOUS
<1>. USE DEF Init
<1>1. TypeOK
  BY DEF TypeOK
<1>2. QueueInv /\ BlockedInv /\ SlotInv /\ DryInv
  BY NoneAssumption DEF QueueInv, SameQueue, BlockedInv, SlotInv, DryInv
<1>3. Inside = {}
  BY DEF Inside
<1>4. CountInv
  BY <1>3, FS_EmptySet, NoneAssumption DEF CountInv
<1>. QED BY <1>1, <1>2, <1>4 DEF IInv

(* The first call for a row starts a queue that nobody knows yet. *)
LEMMA FirstStep ==
  ASSUME IInv, NEW t \in Txs, NEW k \in Keys, First(t, k)
  PROVE  IInv'
<1>. USE DEF IInv, TypeOK
<1>1. PICK q \in Queues \ Referenced :
        /\ queues' = [queues EXCEPT ![k] = q] /\ queue' = [queue EXCEPT ![t] = q]
        /\ size' = [size EXCEPT ![q] = 1]
        /\ channel' = channel \ {q} /\ slots' = [slots EXCEPT ![q] = 0]
        /\ blocked' = [blocked EXCEPT ![q] = <<>>]
  BY DEF First
<1>2. /\ pc[t] = "idle" /\ queues[k] = "none" /\ globalSize' = globalSize + 1
      /\ pc' = [pc EXCEPT ![t] = "run"] /\ key' = [key EXCEPT ![t] = k]
  BY DEF First, Go
<1>3. /\ \A j \in Keys : queues[j] # q
      /\ \A u \in Txs : queue[u] # q
      /\ q # "none"
  BY NoneAssumption DEF Referenced
<1>4. TypeOK'
  BY <1>1, <1>2
<1>5. QueueInv'
  BY <1>1, <1>2, <1>3 DEF QueueInv, SameQueue
<1>6. Inside' = Inside \cup {t} /\ t \notin Inside
  BY <1>2 DEF Inside
<1>7. Busy(q)' = {t} /\ Running(q)' = {t}
  BY <1>1, <1>2, <1>3 DEF Busy, Running
<1>8. \A p \in Queues \ {q} : Busy(p)' = Busy(p) /\ Running(p)' = Running(p)
  BY <1>1, <1>2 DEF Busy, Running
<1>9. CountInv'
  <2>1. globalSize' = Cardinality(Inside')
    BY <1>2, <1>6, FiniteSets, FS_AddElement DEF CountInv
  <2>2. \A p \in Queues : (\E j \in Keys : queues'[j] = p) => size'[p] = Cardinality(Busy(p)')
    BY <1>1, <1>7, <1>8, FS_Singleton, ZenonT(60) DEF CountInv
  <2>3. \A j \in Keys : queues'[j] # "none" => \E u \in Txs : pc'[u] # "idle" /\ key'[u] = j
    BY <1>1, <1>2 DEF CountInv
  <2>. QED BY <2>1, <2>2, <2>3 DEF CountInv
<1>10. BlockedInv'
  BY <1>1, <1>2 DEF BlockedInv
<1>11. SlotInv'
  BY <1>1, <1>7, <1>8 DEF SlotInv
<1>12. DryInv'
  BY <1>1, <1>2 DEF DryInv
<1>. QED BY <1>4, <1>5, <1>9, <1>10, <1>11, <1>12

(* Another call joins a queue and makes its channel. *)
LEMMA JoinStep ==
  ASSUME IInv, NEW t \in Txs, NEW k \in Keys, Join(t, k)
  PROVE  IInv'
<1>. USE DEF IInv, TypeOK
<1>q. PICK q \in Queues : q = queues[k] /\ q # "none"
  BY NoneAssumption DEF Join
<1>1. /\ pc[t] = "idle" /\ queues[k] = q /\ q # "none"
      /\ globalSize' = globalSize + 1 /\ size' = [size EXCEPT ![q] = @ + 1]
      /\ pc' = [pc EXCEPT ![t] = IF dryRun THEN "run" ELSE "try"]
      /\ key' = [key EXCEPT ![t] = k] /\ queue' = [queue EXCEPT ![t] = q]
      /\ channel' = channel \cup {q}
      /\ slots' = IF q \in channel THEN slots ELSE [slots EXCEPT ![q] = 1]
      /\ UNCHANGED <<queues, blocked>>
  BY <1>q DEF Join, Go, Channel
<1>2. TypeOK'
  BY <1>1
<1>3. QueueInv'
  BY <1>1 DEF QueueInv, SameQueue
<1>4. Inside' = Inside \cup {t} /\ t \notin Inside
  BY <1>1 DEF Inside
<1>5. Busy(q)' = Busy(q) \cup {t} /\ t \notin Busy(q)
  BY <1>1 DEF Busy
<1>6. \A p \in Queues \ {q} : Busy(p)' = Busy(p)
  BY <1>1 DEF Busy, QueueInv
<1>7. ~dryRun => \A p \in Queues : Running(p)' = Running(p)
  BY <1>1 DEF Running
<1>8. CountInv'
  <2>1. globalSize' = Cardinality(Inside')
    BY <1>1, <1>4, FiniteSets, FS_AddElement DEF CountInv
  <2>2. Cardinality(Busy(q)') = Cardinality(Busy(q)) + 1
    BY <1>5, FiniteSets, FS_AddElement
  <2>3. \A p \in Queues : (\E j \in Keys : queues'[j] = p) => size'[p] = Cardinality(Busy(p)')
    BY <1>1, <1>6, <2>2 DEF CountInv
  <2>4. \A j \in Keys : queues'[j] # "none" => \E u \in Txs : pc'[u] # "idle" /\ key'[u] = j
    BY <1>1 DEF CountInv
  <2>. QED BY <2>1, <2>3, <2>4 DEF CountInv
<1>9. BlockedInv' /\ DryInv'
  BY <1>1 DEF BlockedInv, DryInv
<1>10. SlotInv'
  <2>. SUFFICES ASSUME ~dryRun, NEW p \in Queues, NEW j \in Keys, queues'[j] = p
                PROVE  /\ p \in channel' => /\ slots'[p] = Cardinality(Running(p)')
                                            /\ slots'[p] <= concurrentTransactions
                       /\ p \notin channel' => \E u \in Txs : Busy(p)' = {u} /\ Running(p)' = {u}
    BY DEF SlotInv
  <2>1. CASE p # q
    BY <1>1, <1>6, <1>7, <2>1, ZenonT(60) DEF SlotInv
  <2>2. CASE p = q /\ q \in channel
    BY <1>1, <1>7, <2>2 DEF SlotInv
  <2>3. CASE p = q /\ q \notin channel
    <3>1. PICK u \in Txs : Running(q) = {u}
      BY <1>1, <2>3 DEF SlotInv
    <3>2. Cardinality(Running(q)') = 1
      BY <1>7, <3>1, FS_Singleton
    <3>3. slots'[q] = 1 /\ q \in channel' /\ 1 <= concurrentTransactions
      BY <1>1, <2>3, LimitAssumption
    <3>. QED BY <2>3, <3>2, <3>3
  <2>. QED BY <2>1, <2>2, <2>3
<1>. QED BY <1>2, <1>3, <1>8, <1>9, <1>10

(* A call that has no slot takes one. *)
LEMMA TakeSlotStep ==
  ASSUME IInv, NEW t \in Txs, pc[t] \in {"try", "select"}, HasRoom(queue[t]), TakeSlot(t)
  PROVE  IInv'
<1>. USE DEF IInv, TypeOK
<1>q. PICK q \in Queues : q = queue[t]
  BY DEF QueueInv, SameQueue
<1>1. /\ queue[t] = q /\ slots[q] < concurrentTransactions
      /\ slots' = [slots EXCEPT ![q] = @ + 1] /\ pc' = [pc EXCEPT ![t] = "run"]
      /\ UNCHANGED <<queues, size, channel, blocked, globalSize, key, queue>>
      /\ queues[key[t]] = q /\ key[t] \in Keys
  BY <1>q DEF TakeSlot, Go, HasRoom, QueueInv, SameQueue
<1>2. ~dryRun
  BY DEF DryInv
<1>3. Inside' = Inside /\ \A p \in Queues : Busy(p)' = Busy(p)
  BY <1>1 DEF Inside, Busy
<1>4. Running(q)' = Running(q) \cup {t} /\ t \notin Running(q)
  BY <1>1 DEF Running
<1>5. \A p \in Queues \ {q} : Running(p)' = Running(p)
  BY <1>1 DEF Running
<1>6. q \in channel
  <2>. SUFFICES ASSUME q \notin channel PROVE FALSE
    OBVIOUS
  <2>1. PICK u \in Txs : Busy(q) = {u} /\ Running(q) = {u}
    BY <1>1, <1>2 DEF SlotInv
  <2>2. t \in Busy(q)
    BY <1>1 DEF Busy
  <2>. QED BY <1>4, <2>1, <2>2
<1>7. TypeOK' /\ QueueInv'
  BY <1>1 DEF QueueInv, SameQueue
<1>8. CountInv'
  <2>1. \A j \in Keys : queues'[j] # "none" => \E u \in Txs : pc'[u] # "idle" /\ key'[u] = j
    BY <1>1 DEF CountInv
  <2>. QED BY <1>1, <1>3, <2>1 DEF CountInv
<1>9. \A p \in Queues : \A i \in 1..Len(blocked[p]) : blocked[p][i] # t
  BY DEF BlockedInv
<1>10. BlockedInv' /\ DryInv'
  BY <1>1, <1>2, <1>9 DEF BlockedInv, DryInv
<1>11. Cardinality(Running(q)') = Cardinality(Running(q)) + 1
  BY <1>4, FiniteSets, FS_AddElement
<1>12. SlotInv'
  <2>. SUFFICES ASSUME NEW p \in Queues, NEW j \in Keys, queues'[j] = p
                PROVE  /\ p \in channel' => /\ slots'[p] = Cardinality(Running(p)')
                                            /\ slots'[p] <= concurrentTransactions
                       /\ p \notin channel' => \E u \in Txs : Busy(p)' = {u} /\ Running(p)' = {u}
    BY DEF SlotInv
  <2>1. CASE p = q
    <3>1. slots[q] = Cardinality(Running(q))
      BY <1>1, <1>2, <1>6 DEF SlotInv
    <3>2. slots'[q] = Cardinality(Running(q)') /\ slots'[q] <= concurrentTransactions
      BY <1>1, <1>11, <3>1, LimitAssumption
    <3>3. q \in channel'
      BY <1>1, <1>6
    <3>. QED BY <2>1, <3>2, <3>3
  <2>2. CASE p # q
    <3>1. Running(p)' = Running(p) /\ Busy(p)' = Busy(p) /\ slots'[p] = slots[p] /\ queues[j] = p
      BY <1>1, <1>3, <1>5, <2>2
    <3>. QED BY <1>1, <1>2, <3>1 DEF SlotInv
  <2>. QED BY <2>1, <2>2
<1>. QED BY <1>7, <1>8, <1>10, <1>12

(* A call that does not run is in a queue that has a channel. *)
LEMMA WaiterFacts ==
  ASSUME IInv, NEW t \in Txs, pc[t] \in {"try", "select", "wait", "cancelled"}
  PROVE  /\ ~dryRun /\ queue[t] \in Queues /\ key[t] \in Keys /\ queues[key[t]] = queue[t]
         /\ queue[t] \in channel /\ slots[queue[t]] <= concurrentTransactions
<1>. USE DEF IInv, TypeOK
<1>1. ~dryRun /\ queue[t] \in Queues /\ key[t] \in Keys /\ queues[key[t]] = queue[t]
  BY DEF DryInv, QueueInv, SameQueue
<1>2. t \in Busy(queue[t]) /\ t \notin Running(queue[t])
  BY DEF Busy, Running
<1>. QED BY <1>1, <1>2 DEF SlotInv

(* A step of such a call that stays in its queue and does not run changes  *)
(* no count.                                                               *)
LEMMA WaiterStep ==
  ASSUME IInv, NEW t \in Txs, pc[t] \in {"try", "select", "wait"},
         NEW p \in {"select", "wait", "cancelled"}, pc' = [pc EXCEPT ![t] = p],
         UNCHANGED <<queues, size, channel, slots, globalSize, key, queue>>
  PROVE  QueueInv' /\ CountInv' /\ SlotInv' /\ DryInv'
<1>. USE DEF IInv, TypeOK
<1>1. Inside' = Inside /\ \A q \in Queues : Busy(q)' = Busy(q) /\ Running(q)' = Running(q)
  BY DEF Inside, Busy, Running
<1>2. QueueInv' /\ DryInv'
  BY WaiterFacts DEF QueueInv, SameQueue, DryInv
<1>3. \A j \in Keys : queues'[j] # "none" => \E u \in Txs : pc'[u] # "idle" /\ key'[u] = j
  BY DEF CountInv
<1>4. CountInv'
  BY <1>1, <1>3 DEF CountInv
<1>5. SlotInv'
  BY <1>1 DEF SlotInv
<1>. QED BY <1>2, <1>4, <1>5

(* A call queues up for a slot. *)
LEMMA BlockStep ==
  ASSUME IInv, NEW t \in Txs, pc[t] = "select", ~HasRoom(queue[t]), Go(t, "wait"),
         blocked' = [blocked EXCEPT ![queue[t]] = Append(@, t)],
         UNCHANGED <<queues, size, channel, slots, globalSize, key, queue>>
  PROVE  IInv'
<1>. USE DEF IInv, TypeOK
<1>q. PICK q \in Queues : q = queue[t] /\ slots[q] <= concurrentTransactions
  BY WaiterFacts
<1>1. pc' = [pc EXCEPT ![t] = "wait"] /\ blocked' = [blocked EXCEPT ![q] = Append(@, t)]
  BY <1>q DEF Go
<1>2. TypeOK'
  <2>1. Append(blocked[q], t) \in Seq(Txs)
    OBVIOUS
  <2>. QED BY <1>1, <2>1
<1>3. QueueInv' /\ CountInv' /\ SlotInv' /\ DryInv'
  BY <1>1, WaiterStep
<1>4. \A p \in Queues : \A i \in 1..Len(blocked[p]) : blocked[p][i] # t
  BY DEF BlockedInv
<1>5. /\ Len(blocked'[q]) = Len(blocked[q]) + 1 /\ Len(blocked[q]) \in Nat
      /\ \A i \in 1..Len(blocked[q]) : blocked'[q][i] = blocked[q][i] /\ blocked[q][i] \in Txs
      /\ blocked'[q][Len(blocked[q]) + 1] = t
  BY <1>1
<1>6. BlockedInv'
  <2>1. ASSUME NEW p \in Queues, p # q
        PROVE  /\ \A i \in 1..Len(blocked'[p]) : pc'[blocked'[p][i]] = "wait" /\ queue'[blocked'[p][i]] = p
               /\ \A i, j \in 1..Len(blocked'[p]) : blocked'[p][i] = blocked'[p][j] => i = j
    BY <1>1, <1>4, <2>1 DEF BlockedInv
  <2>2. \A i \in 1..Len(blocked'[q]) : pc'[blocked'[q][i]] = "wait" /\ queue'[blocked'[q][i]] = q
    BY <1>1, <1>5, <1>q DEF BlockedInv
  <2>3. \A i, j \in 1..Len(blocked'[q]) : blocked'[q][i] = blocked'[q][j] => i = j
    BY <1>4, <1>5 DEF BlockedInv
  <2>4. ASSUME NEW p \in Queues
        PROVE  /\ \A i \in 1..Len(blocked'[p]) : pc'[blocked'[p][i]] = "wait" /\ queue'[blocked'[p][i]] = p
               /\ \A i, j \in 1..Len(blocked'[p]) : blocked'[p][i] = blocked'[p][j] => i = j
    <3>1. CASE p = q
      BY <2>2, <2>3, <3>1, ZenonT(60)
    <3>2. CASE p # q
      BY <2>1, <3>2
    <3>. QED BY <3>1, <3>2
  <2>. QED BY <2>4 DEF BlockedInv
<1>. QED BY <1>2, <1>3, <1>6

(* A call stops waiting. *)
LEMMA CtxDoneStep ==
  ASSUME IInv, NEW t \in Txs, CtxDone(t)
  PROVE  IInv'
<1>. USE DEF IInv, TypeOK
<1>q. PICK q \in Queues : q = queue[t]
  BY WaiterFacts DEF CtxDone
<1>1. /\ pc[t] \in {"select", "wait"} /\ pc' = [pc EXCEPT ![t] = "cancelled"]
      /\ UNCHANGED <<queues, size, channel, slots, globalSize, key, queue>>
  BY DEF CtxDone, Go
<1>2. QueueInv' /\ CountInv' /\ SlotInv' /\ DryInv'
  BY <1>1, WaiterStep
<1>3. CASE pc[t] = "select" /\ UNCHANGED blocked
  <2>1. \A p \in Queues : \A i \in 1..Len(blocked[p]) : blocked[p][i] # t
    BY <1>3 DEF BlockedInv
  <2>2. TypeOK'
    BY <1>1, <1>3
  <2>3. BlockedInv'
    BY <1>1, <1>3, <2>1 DEF BlockedInv
  <2>. QED BY <1>2, <2>2, <2>3
<1>4. ASSUME NEW i \in DOMAIN blocked[q], blocked[q][i] = t,
             blocked' = [blocked EXCEPT ![q] = RemoveAt(@, i)]
      PROVE  IInv'
  <2>. DEFINE rest == RemoveAt(blocked[q], i)
  <2>1. i \in 1..Len(blocked[q]) /\ blocked[q] \in Seq(Txs) /\ Len(blocked[q]) \in Nat
    BY <1>4
  <2>2. /\ rest \in Seq(Txs) /\ Len(rest) = Len(blocked[q]) - 1
        /\ \A j \in 1..(Len(blocked[q]) - 1) :
             rest[j] = IF j < i THEN blocked[q][j] ELSE blocked[q][j + 1]
    BY <2>1, RemoveAtFacts, ZenonT(60)
  <2>3. blocked' = [blocked EXCEPT ![q] = rest]
    BY <1>4
  <2>. HIDE DEF rest
  <2>4. TypeOK'
    BY <1>1, <2>2, <2>3
  <2>6. \A p \in Queues \ {q} : \A j \in 1..Len(blocked[p]) : blocked[p][j] # t
    BY <1>q DEF BlockedInv
  <2>c. /\ \A n \in 1..Len(blocked[q]) : pc[blocked[q][n]] = "wait" /\ queue[blocked[q][n]] = q
        /\ \A n, m \in 1..Len(blocked[q]) : blocked[q][n] = blocked[q][m] => n = m
    BY DEF BlockedInv
  <2>7. \A j \in 1..Len(rest) : rest[j] # t /\ pc[rest[j]] = "wait" /\ queue[rest[j]] = q
    <3>. TAKE j \in 1..Len(rest)
    <3>0. (IF j < i THEN j ELSE j + 1) \in 1..Len(blocked[q]) /\ j \in 1..(Len(blocked[q]) - 1)
      BY <2>1, <2>2
    <3>1. PICK n \in 1..Len(blocked[q]) : n = (IF j < i THEN j ELSE j + 1) /\ rest[j] = blocked[q][n]
      BY <2>2, <3>0
    <3>2. n # i
      BY <2>1, <2>2, <3>1
    <3>. QED BY <1>4, <2>1, <2>c, <3>1, <3>2
  <2>8. \A j, l \in 1..Len(rest) : rest[j] = rest[l] => j = l
    <3>. TAKE j, l \in 1..Len(rest)
    <3>1. PICK n \in 1..Len(blocked[q]) : n = (IF j < i THEN j ELSE j + 1) /\ rest[j] = blocked[q][n]
      BY <2>1, <2>2
    <3>2. PICK m \in 1..Len(blocked[q]) : m = (IF l < i THEN l ELSE l + 1) /\ rest[l] = blocked[q][m]
      BY <2>1, <2>2
    <3>3. rest[j] = rest[l] => n = m
      BY <2>c, <3>1, <3>2
    <3>. QED BY <2>1, <2>2, <3>1, <3>2, <3>3
  <2>9. \A j \in 1..Len(rest) : rest[j] \in Txs
    BY <2>2
  <2>10. BlockedInv'
    <3>1. ASSUME NEW p \in Queues, p # q
          PROVE  /\ \A j \in 1..Len(blocked'[p]) : pc'[blocked'[p][j]] = "wait" /\ queue'[blocked'[p][j]] = p
                 /\ \A j, l \in 1..Len(blocked'[p]) : blocked'[p][j] = blocked'[p][l] => j = l
      BY <1>1, <2>3, <2>6, <3>1 DEF BlockedInv
    <3>2. /\ \A j \in 1..Len(blocked'[q]) : pc'[blocked'[q][j]] = "wait" /\ queue'[blocked'[q][j]] = q
          /\ \A j, l \in 1..Len(blocked'[q]) : blocked'[q][j] = blocked'[q][l] => j = l
      BY <1>1, <2>3, <2>7, <2>8, <2>9
    <3>. QED BY <3>1, <3>2 DEF BlockedInv
  <2>. QED BY <1>2, <2>4, <2>10
<1>. QED BY <1>q, <1>3, <1>4 DEF CtxDone

(* A call leaves its queue, which goes with it when it was the last. *)
LEMMA LeaveStep ==
  ASSUME IInv, NEW t \in Txs, NEW q \in Queues, pc[t] # "idle", q = queue[t],
         Uncount(q), DeleteIfLast(t, q), queue' = [queue EXCEPT ![t] = "none"], key' = key,
         pc'[t] = "idle", \A u \in Txs \ {t} : pc'[u] = "idle" <=> pc[u] = "idle"
  PROVE  /\ QueueInv' /\ CountInv'
         /\ (size[q] = 1 /\ \A k \in Keys : queues'[k] # q) \/ (size[q] # 1 /\ queues' = queues)
         /\ \A p \in Queues \ {q} : Busy(p)' = Busy(p)
         /\ size[q] \in Nat \ {0} /\ globalSize \in Nat \ {0}
         /\ size[q] = 1 <=> Busy(q) = {t}
<1>. USE DEF IInv, TypeOK
<1>1. /\ key[t] \in Keys /\ queues[key[t]] = q /\ q # "none"
      /\ size' = [size EXCEPT ![q] = @ - 1] /\ globalSize' = globalSize - 1
      /\ queues' = [queues EXCEPT ![key[t]] = IF size[q] = 1 THEN "none" ELSE q]
  BY NoneAssumption DEF QueueInv, SameQueue, Uncount, DeleteIfLast
<1>2. \A k \in Keys : queues[k] = q => k = key[t]
  BY <1>1 DEF QueueInv
<1>3. (size[q] = 1 /\ \A k \in Keys : queues'[k] # q) \/ (size[q] # 1 /\ queues' = queues)
  BY <1>1, <1>2
<1>4. t \in Busy(q) /\ t \in Inside /\ Busy(q)' = Busy(q) \ {t} /\ Inside' = Inside \ {t}
  BY <1>1 DEF Busy, Inside
<1>5. \A p \in Queues \ {q} : Busy(p)' = Busy(p)
  BY NoneAssumption DEF Busy
<1>6. size[q] = Cardinality(Busy(q))
  BY <1>1 DEF CountInv
<1>f. IsFiniteSet(Busy(q)) /\ IsFiniteSet(Inside)
  BY FiniteSets
<1>7. size[q] = 1 <=> Busy(q) = {t}
  BY <1>4, <1>6, <1>f, RemoveOne
<1>8. QueueInv'
  <2>1. ASSUME NEW u \in Txs, pc'[u] # "idle"
        PROVE  queue'[u] # "none" /\ queues'[key'[u]] = queue'[u]
    <3>1. u # t /\ pc[u] # "idle" /\ queue'[u] = queue[u] /\ queue[u] # "none"
          /\ queues[key[u]] = queue[u] /\ key[u] \in Keys
      BY <2>1 DEF QueueInv, SameQueue
    <3>2. CASE key[u] = key[t]
      <4>1. u \in Busy(q)
        BY <1>1, <3>1, <3>2 DEF Busy
      <4>. QED BY <1>1, <1>7, <3>1, <3>2, <4>1
    <3>3. CASE key[u] # key[t]
      BY <1>1, <3>1, <3>3
    <3>. QED BY <3>2, <3>3
  <2>2. \A u \in Txs : pc'[u] = "idle" => queue'[u] = "none"
    BY DEF QueueInv
  <2>3. \A k1, k2 \in Keys : queues'[k1] = queues'[k2] /\ queues'[k1] # "none" => k1 = k2
    BY <1>1 DEF QueueInv
  <2>. QED BY <2>1, <2>2, <2>3 DEF QueueInv, SameQueue
<1>9. CountInv'
  <2>1. globalSize' = Cardinality(Inside')
    BY <1>1, <1>4, <1>f, RemoveOne DEF CountInv
  <2>2. Cardinality(Busy(q)') = Cardinality(Busy(q)) - 1
    BY <1>4, <1>f, RemoveOne, ZenonT(60)
  <2>3. ASSUME NEW p \in Queues, NEW j \in Keys, queues'[j] = p
        PROVE  size'[p] = Cardinality(Busy(p)')
    <3>1. CASE p = q
      BY <1>1, <1>6, <2>2, <3>1
    <3>2. CASE p # q
      <4>1. queues[j] = p /\ size'[p] = size[p] /\ Busy(p)' = Busy(p)
        BY <1>1, <1>5, <2>3, <3>2, NoneAssumption
      <4>. QED BY <4>1 DEF CountInv
    <3>. QED BY <3>1, <3>2
  <2>4. ASSUME NEW j \in Keys, queues'[j] # "none"
        PROVE  \E u \in Txs : pc'[u] # "idle" /\ key'[u] = j
    <3>1. CASE j = key[t]
      <4>1. PICK u \in Busy(q) : u # t
        BY <1>1, <1>4, <1>7, <2>4, <3>1
      <4>2. u \in Txs /\ pc[u] # "idle" /\ queue[u] = q
        BY <4>1 DEF Busy
      <4>3. key[u] = key[t]
        BY <1>2, <4>2 DEF QueueInv, SameQueue
      <4>. QED BY <3>1, <4>1, <4>2, <4>3
    <3>2. CASE j # key[t]
      <4>1. PICK u \in Txs : pc[u] # "idle" /\ key[u] = j
        BY <1>1, <2>4, <3>2 DEF CountInv
      <4>. QED BY <3>2, <4>1
    <3>. QED BY <3>1, <3>2
  <2>. QED BY <2>1, <2>3, <2>4 DEF CountInv
<1>10. size[q] \in Nat \ {0} /\ globalSize \in Nat \ {0}
  BY <1>4, <1>6, <1>f, RemoveOne DEF CountInv
<1>. QED BY <1>3, <1>5, <1>7, <1>8, <1>9, <1>10

(* A call whose context was done gives up. *)
LEMMA GiveUpStep ==
  ASSUME IInv, NEW t \in Txs, GiveUp(t)
  PROVE  IInv'
<1>. USE DEF IInv, TypeOK
<1>q. PICK q \in Queues : q = queue[t] /\ q = queues[key[t]] /\ q \in channel
  BY WaiterFacts DEF GiveUp
<1>1. /\ pc[t] = "cancelled" /\ Uncount(q) /\ DeleteIfLast(t, q)
      /\ pc' = [pc EXCEPT ![t] = "idle"] /\ queue' = [queue EXCEPT ![t] = "none"]
      /\ UNCHANGED <<key, channel, slots, blocked>>
  BY <1>q DEF GiveUp, Leave
<1>2. /\ QueueInv' /\ CountInv'
      /\ (size[q] = 1 /\ \A k \in Keys : queues'[k] # q) \/ (size[q] # 1 /\ queues' = queues)
      /\ \A p \in Queues \ {q} : Busy(p)' = Busy(p)
      /\ size[q] \in Nat \ {0} /\ globalSize \in Nat \ {0}
  <2>1. /\ pc'[t] = "idle" /\ \A u \in Txs \ {t} : pc'[u] = "idle" <=> pc[u] = "idle"
        /\ pc[t] # "idle" /\ key' = key
    BY <1>1
  <2>. QED BY <1>q, <1>1, <2>1, LeaveStep
<1>4. TypeOK'
  BY <1>1, <1>2 DEF Uncount, DeleteIfLast
<1>5. \A p \in Queues : \A i \in 1..Len(blocked[p]) : blocked[p][i] # t
  BY <1>1 DEF BlockedInv
<1>6. BlockedInv' /\ DryInv'
  BY <1>1, <1>5 DEF BlockedInv, DryInv
<1>7. \A p \in Queues : Running(p)' = Running(p)
  BY <1>1, NoneAssumption DEF Running
<1>8. SlotInv'
  <2>. SUFFICES ASSUME ~dryRun, NEW p \in Queues, NEW j \in Keys, queues'[j] = p
                PROVE  /\ p \in channel' => /\ slots'[p] = Cardinality(Running(p)')
                                            /\ slots'[p] <= concurrentTransactions
                       /\ p \notin channel' => \E u \in Txs : Busy(p)' = {u} /\ Running(p)' = {u}
    BY DEF SlotInv
  <2>1. queues[j] = p
    BY <1>1, <1>2, NoneAssumption DEF DeleteIfLast
  <2>2. CASE p = q
    BY <1>q, <1>1, <1>7, <2>1, <2>2 DEF SlotInv
  <2>3. CASE p # q
    BY <1>1, <1>2, <1>7, <2>1, <2>3, ZenonT(60) DEF SlotInv
  <2>. QED BY <2>2, <2>3
<1>. QED BY <1>2, <1>4, <1>6, <1>8

(* A call that ran is done: its slot goes to the first call that waits. *)
LEMMA DoneStep ==
  ASSUME IInv, NEW t \in Txs, Done(t)
  PROVE  IInv'
<1>. USE DEF IInv, TypeOK
<1>q. PICK q \in Queues : q = queue[t] /\ q = queues[key[t]]
  BY DEF Done, QueueInv, SameQueue
<1>1. /\ pc[t] = "run" /\ Uncount(q) /\ DeleteIfLast(t, q)
      /\ queue' = [queue EXCEPT ![t] = "none"] /\ UNCHANGED <<channel, key>>
      /\ \/ (size[q] = 1 \/ dryRun) /\ Go(t, "idle") /\ UNCHANGED <<slots, blocked>>
         \/ size[q] # 1 /\ ~dryRun /\ slots[q] > 0 /\ Receive(t, q)
  BY <1>q DEF Done
<1>2. \A p \in Queues : \A i \in 1..Len(blocked[p]) :
        blocked[p][i] # t /\ blocked[p][i] \in Txs /\ pc[blocked[p][i]] = "wait"
  BY <1>1 DEF BlockedInv
<1>3. t \in Running(q) /\ t \in Busy(q)
  BY <1>q, <1>1 DEF Running, Busy
<1>4. ASSUME pc' = [pc EXCEPT ![t] = "idle"]
      PROVE  /\ pc'[t] = "idle" /\ \A u \in Txs \ {t} : pc'[u] = "idle" <=> pc[u] = "idle"
             /\ Running(q)' = Running(q) \ {t} /\ \A p \in Queues \ {q} : Running(p)' = Running(p)
  BY <1>q, <1>1, <1>4, NoneAssumption DEF Running
<1>5. ASSUME pc'[t] = "idle", \A u \in Txs \ {t} : pc'[u] = "idle" <=> pc[u] = "idle"
      PROVE  /\ QueueInv' /\ CountInv'
             /\ (size[q] = 1 /\ \A k \in Keys : queues'[k] # q) \/ (size[q] # 1 /\ queues' = queues)
             /\ \A p \in Queues \ {q} : Busy(p)' = Busy(p)
             /\ size[q] \in Nat \ {0} /\ globalSize \in Nat \ {0}
             /\ size[q] = 1 <=> Busy(q) = {t}
  <2>1. pc[t] # "idle" /\ key' = key
    BY <1>1
  <2>. QED BY <1>q, <1>1, <1>5, <2>1, LeaveStep
<1>6. CASE (size[q] = 1 \/ dryRun) /\ Go(t, "idle") /\ UNCHANGED <<slots, blocked>>
  <2>1. pc' = [pc EXCEPT ![t] = "idle"]
    BY <1>6 DEF Go
  <2>2. TypeOK'
    BY <1>1, <1>4, <1>5, <1>6, <2>1 DEF Uncount, DeleteIfLast
  <2>3. BlockedInv' /\ DryInv'
    BY <1>1, <1>2, <1>6, <2>1 DEF BlockedInv, DryInv
  <2>4. SlotInv'
    <3>. SUFFICES ASSUME ~dryRun, NEW p \in Queues, NEW j \in Keys, queues'[j] = p
                  PROVE  /\ p \in channel' => /\ slots'[p] = Cardinality(Running(p)')
                                              /\ slots'[p] <= concurrentTransactions
                         /\ p \notin channel' => \E u \in Txs : Busy(p)' = {u} /\ Running(p)' = {u}
      BY DEF SlotInv
    <3>1. p # q
      BY <1>4, <1>5, <1>6, <2>1
    <3>2. queues[j] = p
      BY <1>1, <3>1, NoneAssumption DEF DeleteIfLast
    <3>3. Running(p)' = Running(p) /\ Busy(p)' = Busy(p)
      BY <1>4, <1>5, <2>1, <3>1
    <3>. QED BY <1>1, <1>6, <3>2, <3>3 DEF SlotInv
  <2>. QED BY <1>4, <1>5, <2>1, <2>2, <2>3, <2>4
<1>7. ASSUME size[q] # 1, ~dryRun, slots[q] > 0, Receive(t, q),
             pc'[t] = "idle", \A u \in Txs \ {t} : pc'[u] = "idle" <=> pc[u] = "idle",
             \A p \in Queues \ {q} : Running(p)' = Running(p) /\ slots'[p] = slots[p],
             slots'[q] \in Nat, slots'[q] <= slots[q],
             slots[q] = Cardinality(Running(q)) => slots'[q] = Cardinality(Running(q)')
      PROVE  QueueInv' /\ CountInv' /\ SlotInv'
  <2>1. queues' = queues /\ QueueInv' /\ CountInv' /\ \A p \in Queues \ {q} : Busy(p)' = Busy(p)
    BY <1>5, <1>7
  <2>2. q \in channel
    <3>. SUFFICES ASSUME q \notin channel PROVE FALSE
      OBVIOUS
    <3>1. PICK u \in Txs : Busy(q) = {u}
      BY <1>q, <1>7 DEF SlotInv
    <3>2. Busy(q) = {t}
      BY <1>3, <3>1
    <3>. QED BY <1>5, <1>7, <3>2
  <2>3. SlotInv'
    <3>. SUFFICES ASSUME NEW p \in Queues, NEW j \in Keys, queues'[j] = p
                  PROVE  /\ p \in channel' => /\ slots'[p] = Cardinality(Running(p)')
                                              /\ slots'[p] <= concurrentTransactions
                         /\ p \notin channel' => \E u \in Txs : Busy(p)' = {u} /\ Running(p)' = {u}
      BY DEF SlotInv
    <3>1. CASE p = q
      <4>1. slots[q] = Cardinality(Running(q)) /\ slots[q] <= concurrentTransactions
        BY <1>7, <2>1, <2>2, <3>1 DEF SlotInv
      <4>2. slots'[q] <= concurrentTransactions
        BY <1>7, <4>1, LimitAssumption
      <4>. QED BY <1>1, <1>7, <2>2, <3>1, <4>1, <4>2
    <3>2. CASE p # q
      <4>1. /\ Running(p)' = Running(p) /\ Busy(p)' = Busy(p) /\ slots'[p] = slots[p]
            /\ queues[j] = p /\ channel' = channel
        BY <1>1, <1>7, <2>1, <3>2
      <4>2. /\ p \in channel => slots[p] = Cardinality(Running(p)) /\ slots[p] <= concurrentTransactions
            /\ p \notin channel => \E u \in Txs : Busy(p) = {u} /\ Running(p) = {u}
        BY <1>7, <4>1 DEF SlotInv
      <4>3. Cardinality(Running(p)') = Cardinality(Running(p))
        BY <4>1
      <4>. QED BY <4>1, <4>2, <4>3
    <3>. QED BY <3>1, <3>2
  <2>. QED BY <2>1, <2>3
<1>8. CASE size[q] # 1 /\ ~dryRun /\ slots[q] > 0 /\ Receive(t, q) /\ blocked[q] = <<>>
  <2>1. /\ slots' = [slots EXCEPT ![q] = @ - 1] /\ pc' = [pc EXCEPT ![t] = "idle"]
        /\ UNCHANGED blocked
    BY <1>8 DEF Receive
  <2>2. TypeOK'
    BY <1>1, <1>4, <1>5, <1>8, <2>1 DEF Uncount, DeleteIfLast
  <2>3. BlockedInv' /\ DryInv'
    BY <1>1, <1>2, <1>8, <2>1 DEF BlockedInv, DryInv
  <2>4. Cardinality(Running(q)') = Cardinality(Running(q)) - 1
    <3>1. IsFiniteSet(Running(q))
      BY FiniteSets
    <3>. QED BY <1>3, <1>4, <2>1, <3>1, RemoveOne
  <2>5. /\ slots'[q] \in Nat /\ slots'[q] <= slots[q] /\ slots'[q] = slots[q] - 1
        /\ \A p \in Queues \ {q} : Running(p)' = Running(p) /\ slots'[p] = slots[p]
    BY <1>4, <1>8, <2>1
  <2>6. QueueInv' /\ CountInv' /\ SlotInv'
    BY <1>4, <1>7, <1>8, <2>1, <2>4, <2>5
  <2>. QED BY <2>2, <2>3, <2>6
<1>9. CASE size[q] # 1 /\ ~dryRun /\ slots[q] > 0 /\ Receive(t, q) /\ blocked[q] # <<>>
  <2>1. PICK h \in Txs : h = Head(blocked[q]) /\ h = blocked[q][1] /\ 1 \in 1..Len(blocked[q])
    BY <1>9, FirstElement
  <2>2. /\ pc' = [pc EXCEPT ![t] = "idle", ![h] = "run"]
        /\ blocked' = [blocked EXCEPT ![q] = Tail(@)] /\ UNCHANGED slots
    BY <1>9, <2>1 DEF Receive
  <2>3. h # t /\ pc[h] = "wait" /\ queue[h] = q
    BY <1>2, <2>1 DEF BlockedInv
  <2>4. pc'[t] = "idle" /\ \A u \in Txs \ {t} : pc'[u] = "idle" <=> pc[u] = "idle"
    BY <2>2, <2>3
  <2>5. /\ Running(q)' = (Running(q) \ {t}) \cup {h} /\ h \notin Running(q) \ {t}
        /\ \A p \in Queues \ {q} : Running(p)' = Running(p)
    BY <1>q, <1>1, <2>2, <2>3, NoneAssumption DEF Running
  <2>6. Cardinality(Running(q)') = Cardinality(Running(q))
    <3>1. IsFiniteSet(Running(q)) /\ Cardinality(Running(q)) \in Nat
      BY FiniteSets
    <3>2. Cardinality(Running(q) \ {t}) = Cardinality(Running(q)) - 1 /\ IsFiniteSet(Running(q) \ {t})
      BY <1>3, <3>1, RemoveOne, FS_RemoveElement
    <3>3. Cardinality(Running(q)') = Cardinality(Running(q) \ {t}) + 1
      BY <2>5, <3>2, FS_AddElement, ZenonT(60)
    <3>. QED BY <3>1, <3>2, <3>3
  <2>7. QueueInv' /\ CountInv' /\ SlotInv'
    <3>1. slots'[q] \in Nat /\ slots'[q] <= slots[q] /\ slots'[q] = slots[q]
      BY <2>2
    <3>. QED BY <1>7, <1>9, <2>2, <2>4, <2>5, <2>6, <3>1
  <2>8. /\ Tail(blocked[q]) \in Seq(Txs) /\ Len(Tail(blocked[q])) = Len(blocked[q]) - 1
        /\ Len(blocked[q]) \in Nat \ {0}
        /\ \A i \in 1..(Len(blocked[q]) - 1) :
             Tail(blocked[q])[i] = blocked[q][i + 1] /\ Tail(blocked[q])[i] \in Txs
    BY <1>9, TailFacts
  <2>9. TypeOK'
    <3>1. size[q] \in Nat \ {0} /\ globalSize \in Nat \ {0}
      BY <1>5, <2>4
    <3>2. size' \in [Queues -> Nat] /\ globalSize' \in Nat /\ queues' \in [Keys -> Queues \cup {"none"}]
      BY <1>1, <3>1 DEF Uncount, DeleteIfLast
    <3>3. blocked' \in [Queues -> Seq(Txs)]
      BY <2>2, <2>8
    <3>. QED BY <1>1, <2>2, <3>2, <3>3
  <2>10. DryInv'
    BY <1>9, <2>2 DEF DryInv
  <2>11. BlockedInv'
    <3>1. ASSUME NEW p \in Queues, p # q
          PROVE  /\ \A i \in 1..Len(blocked'[p]) : pc'[blocked'[p][i]] = "wait" /\ queue'[blocked'[p][i]] = p
                 /\ \A i, j \in 1..Len(blocked'[p]) : blocked'[p][i] = blocked'[p][j] => i = j
      <4>1. \A i \in 1..Len(blocked[p]) : blocked[p][i] # t /\ blocked[p][i] # h
        BY <1>2, <2>3, <3>1 DEF BlockedInv
      <4>2. blocked'[p] = blocked[p]
        BY <2>2, <3>1
      <4>. QED BY <1>1, <1>2, <2>2, <4>1, <4>2 DEF BlockedInv
    <3>2. ASSUME NEW i \in 1..(Len(blocked[q]) - 1)
          PROVE  i + 1 \in 1..Len(blocked[q]) /\ blocked[q][i + 1] # h
      <4>1. i + 1 \in 1..Len(blocked[q]) /\ i + 1 # 1
        BY <2>8
      <4>. QED BY <2>1, <4>1 DEF BlockedInv
    <3>3. \A i \in 1..Len(blocked'[q]) : pc'[blocked'[q][i]] = "wait" /\ queue'[blocked'[q][i]] = q
      <4>t. blocked'[q] = Tail(blocked[q])
        BY <2>2
      <4>l. Len(blocked'[q]) = Len(blocked[q]) - 1
        BY <2>8, <4>t
      <4>. SUFFICES ASSUME NEW i \in 1..Len(blocked'[q])
                    PROVE  pc'[blocked'[q][i]] = "wait" /\ queue'[blocked'[q][i]] = q
        OBVIOUS
      <4>i. i \in 1..(Len(blocked[q]) - 1)
        BY <4>l
      <4>e. blocked'[q][i] = blocked[q][i + 1]
        BY <2>8, <4>t, <4>i
      <4>1. /\ blocked[q][i + 1] \in Txs \ {t, h} /\ pc[blocked[q][i + 1]] = "wait"
            /\ queue[blocked[q][i + 1]] = q
        BY <1>2, <3>2, <4>i DEF BlockedInv
      <4>. QED BY <1>1, <2>2, <4>1, <4>e
    <3>4. ASSUME NEW i \in 1..Len(blocked'[q]), NEW j \in 1..Len(blocked'[q]),
                 blocked'[q][i] = blocked'[q][j]
          PROVE  i = j
      <4>1. blocked'[q] = Tail(blocked[q])
        BY <2>2
      <4>2. Len(blocked'[q]) = Len(blocked[q]) - 1
        BY <2>8, <4>1
      <4>3. i \in 1..(Len(blocked[q]) - 1) /\ j \in 1..(Len(blocked[q]) - 1)
        BY <4>2
      <4>4. blocked[q][i + 1] = blocked[q][j + 1]
        BY <2>8, <3>4, <4>1, <4>3
      <4>5. i + 1 = j + 1
        BY <3>2, <4>3, <4>4 DEF BlockedInv
      <4>. QED BY <4>3, <4>5
    <3>. QED BY <3>1, <3>3, <3>4 DEF BlockedInv
  <2>. QED BY <2>7, <2>9, <2>10, <2>11
<1>. QED BY <1>1, <1>6, <1>8, <1>9

(* Every step keeps the invariant. *)
LEMMA StepInv == IInv /\ [Next]_vars => IInv'
<1>. SUFFICES ASSUME IInv, [Next]_vars PROVE IInv'
  OBVIOUS
<1>1. ASSUME NEW t \in Txs, Try(t) PROVE IInv'
  <2>1. CASE HasRoom(queue[t]) /\ TakeSlot(t)
    BY <1>1, <2>1, TakeSlotStep DEF Try
  <2>2. CASE ~HasRoom(queue[t]) /\ Go(t, "select") /\ UNCHANGED <<qVars, key, queue>>
    <3>1. /\ pc[t] = "try" /\ pc' = [pc EXCEPT ![t] = "select"]
          /\ UNCHANGED <<queues, size, channel, slots, globalSize, key, queue>> /\ blocked' = blocked
      BY <1>1, <2>2 DEF Try, Go, qVars
    <3>2. QueueInv' /\ CountInv' /\ SlotInv' /\ DryInv'
      BY <3>1, WaiterStep
    <3>3. TypeOK'
      BY <3>1 DEF IInv, TypeOK
    <3>4. \A p \in Queues : \A i \in 1..Len(blocked[p]) : blocked[p][i] # t
      BY <3>1 DEF IInv, BlockedInv
    <3>5. BlockedInv'
      BY <3>1, <3>4 DEF IInv, TypeOK, BlockedInv
    <3>. QED BY <3>2, <3>3, <3>5 DEF IInv
  <2>. QED BY <1>1, <2>1, <2>2 DEF Try
<1>2. ASSUME NEW t \in Txs, Select(t) PROVE IInv'
  <2>1. CASE HasRoom(queue[t]) /\ TakeSlot(t)
    BY <1>2, <2>1, TakeSlotStep DEF Select
  <2>2. CASE ~(HasRoom(queue[t]) /\ TakeSlot(t))
    BY <1>2, <2>2, BlockStep DEF Select
  <2>. QED BY <2>1, <2>2
<1>3. CASE UNCHANGED vars
  <2>1. Inside' = Inside /\ \A q : Busy(q)' = Busy(q) /\ Running(q)' = Running(q)
    BY <1>3 DEF vars, qVars, Inside, Busy, Running
  <2>2. CountInv' /\ SlotInv'
    BY <1>3, <2>1 DEF IInv, vars, qVars, CountInv, SlotInv
  <2>3. TypeOK' /\ QueueInv' /\ BlockedInv' /\ DryInv'
    BY <1>3 DEF IInv, vars, qVars, TypeOK, QueueInv, SameQueue, BlockedInv, DryInv
  <2>. QED BY <2>2, <2>3 DEF IInv
<1>. QED BY <1>1, <1>2, <1>3, FirstStep, JoinStep, CtxDoneStep, DoneStep, GiveUpStep DEF Next, Step

(* The inductive invariant holds in every reachable state. *)
THEOREM Invariance == Spec => []IInv
BY InitInv, StepInv, PTL DEF Spec

(* Every variable keeps its type. *)
THEOREM TypeCorrect == Spec => []TypeOK
<1>1. IInv => TypeOK
  BY DEF IInv
<1>. QED BY Invariance, <1>1, PTL

(* A counted call finds its own queue when it looks its key up again       *)
(* (unlockLocked), although the mutex was given up in between.             *)
THEOREM CallsFindTheirQueue == Spec => []SameQueue
<1>1. IInv => SameQueue
  BY DEF IInv, QueueInv
<1>. QED BY Invariance, <1>1, PTL

(* At most concurrentTransactions calls per row are let through.           *)
THEOREM AtMostConcurrent == Spec => []ConcurrencyBounded
<1>1. IInv => ConcurrencyBounded
  <2>. SUFFICES ASSUME IInv, ~dryRun, NEW k \in Keys
                PROVE  Cardinality({t \in Txs : pc[t] = "run" /\ key[t] = k}) <= concurrentTransactions
    BY DEF ConcurrencyBounded
  <2>. DEFINE R == {t \in Txs : pc[t] = "run" /\ key[t] = k}
  <2>1. CASE R = {}
    BY <2>1, FS_EmptySet, LimitAssumption
  <2>2. CASE R # {}
    <3>1. PICK q \in Queues : q = queues[k]
      BY <2>2 DEF IInv, TypeOK, QueueInv, SameQueue
    <3>2. R = Running(q)
      BY <3>1, SMTT(30) DEF Running, IInv, TypeOK, QueueInv, SameQueue
    <3>3. CASE q \in channel
      <4>1. slots[q] = Cardinality(Running(q)) /\ slots[q] <= concurrentTransactions
        BY <3>1, <3>3 DEF IInv, SlotInv
      <4>. QED BY <3>2, <4>1
    <3>4. CASE q \notin channel
      <4>1. PICK t \in Txs : Running(q) = {t}
        BY <3>1, <3>4 DEF IInv, SlotInv
      <4>2. Cardinality(Running(q)) = 1
        BY <4>1, FS_Singleton
      <4>. QED BY <3>2, <4>2, LimitAssumption
    <3>. QED BY <3>3, <3>4
  <2>. QED BY <2>1, <2>2
<1>. QED BY Invariance, <1>1, PTL

(* queue.size and globalSize are the numbers of the calls that are there,  *)
(* and a queue leaves the map with its last call.                          *)
THEOREM CountsAreExact == Spec => []CountsExact
<1>1. IInv => CountsExact
  BY DEF IInv, CountInv, CountsExact, Busy, Inside
<1>. QED BY Invariance, <1>1, PTL

(* The receive of unlockLocked, done with the mutex held, never blocks.    *)
THEOREM SlotReturnNeverBlocks == Spec => []ReturnNeverBlocks
<1>1. IInv => ReturnNeverBlocks
  <2>. SUFFICES ASSUME IInv, NEW t \in Txs, pc[t] = "run", ~dryRun, size[queue[t]] > 1
                PROVE  queue[t] \in channel /\ slots[queue[t]] > 0
    BY DEF ReturnNeverBlocks
  <2>q. PICK q \in Queues : q = queue[t] /\ key[t] \in Keys /\ queues[key[t]] = q
    BY DEF IInv, TypeOK, QueueInv, SameQueue
  <2>1. t \in Running(q) /\ t \in Busy(q)
    BY <2>q DEF Running, Busy
  <2>2. IsFiniteSet(Running(q)) /\ IsFiniteSet(Busy(q))
    BY FiniteSets
  <2>3. Cardinality(Busy(q)) # 1
    BY <2>q DEF IInv, CountInv
  <2>4. q \in channel
    BY <2>q, <2>3, FS_Singleton DEF IInv, SlotInv
  <2>5. slots[q] = Cardinality(Running(q)) /\ Cardinality(Running(q)) \in Nat \ {0}
    BY <2>q, <2>1, <2>2, <2>4, RemoveOne DEF IInv, SlotInv
  <2>. QED BY <2>q, <2>4, <2>5
<1>. QED BY Invariance, <1>1, PTL

(* The elements of availableSlots are those of the calls let through: who  *)
(* gave up took none and returned none.                                    *)
THEOREM SlotsAreExact == Spec => []SlotsExact
<1>1. IInv => SlotsExact
  <2>. SUFFICES ASSUME IInv, ~dryRun, NEW k \in Keys, queues[k] \in channel
                PROVE  slots[queues[k]] = Cardinality(Running(queues[k]))
    BY DEF SlotsExact
  <2>1. queues[k] \in Queues
    BY DEF IInv, TypeOK
  <2>. QED BY <2>1 DEF IInv, SlotInv
<1>. QED BY Invariance, <1>1, PTL
=============================================================================
