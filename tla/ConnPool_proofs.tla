-------------------------- MODULE ConnPool_proofs --------------------------
(***************************************************************************)
(* Safety of ConnPool for any finite set of clients and any sizes.         *)
(***************************************************************************)
EXTENDS ConnPool, SeqSetFacts

(* 1 if x is y, 0 otherwise. *)
Is(x, y) == IF x = y THEN 1 ELSE 0
(* 1 if a client at p is counted as having a connection. *)
Out(p) == IF p \in {"held", "put", "sent"} THEN 1 ELSE 0
Held(h) == {x \in Holders : h[x] # "none"}
Opened(h) == {x \in Holders : h[x] = "open"}
Changed(g, h, x, w) == g = [h EXCEPT ![x] = w]
Counted == {c \in Clients : pc[c] \in {"held", "put", "sent"}}
Wrappers == Len(resources) + Cardinality(Held(hand))
Opens == Cardinality(At(resources, "open")) + Cardinality(Opened(hand))

(* What the controller is doing, and what it has done to the pool.         *)
CtlInv ==
  /\ mu <=> ctl.op = "resize"
  /\ ctl.op = "none" <=> ctl.step = "none"
  /\ ctl.op = "resize" =>
       ctl.step \in {"shrink", "grow", "closed"} /\ pool /\ ctl.to \in Sizes /\ capacity = ctl.to
  /\ ctl.op \in {"close", "reopen"} =>
       /\ pool /\ ctl.to = cpCapacity /\ ctl.to <= maxCap
       /\ ctl.step = "stop" => capacity = ctl.to
       /\ ctl.step \in {"shrink", "closed"} => capacity = 0
       /\ ctl.step = "grow" => capacity = ctl.to /\ ctl.op = "reopen"
       /\ ctl.step # "stop" => idler = "off"
  /\ ctl.step = "shrink" => capacity + ctl.left <= maxCap
  /\ pool /\ ctl.op = "none" => capacity = cpCapacity
  /\ ~pool => capacity = 0 /\ ctl.op = "none" /\ idler = "off"
  /\ closed <=> capacity = 0 /\ ctl.step # "shrink"
  /\ cpCapacity \in Sizes

(* Who is blocked in a receive waits for a wrapper, once, and there is     *)
(* none in the channel.                                                    *)
QueueInv ==
  /\ \A i \in 1..Len(recvq) :
       /\ hand[recvq[i]] = "none"
       /\ recvq[i] \in Clients => pc[recvq[i]] = "wait"
       /\ recvq[i] \notin Clients => recvq[i] = "ctl" /\ ctl.step = "shrink" /\ ctl.left > 0
  /\ \A i, j \in 1..Len(recvq) : recvq[i] = recvq[j] => i = j
  /\ recvq # <<>> => resources = <<>> /\ ~closed

(* Who has a wrapper.                                                      *)
HandInv ==
  /\ \A c \in Clients :
       /\ pc[c] \in {"idle", "get", "stale", "sent"} => hand[c] = "none"
       /\ pc[c] = "held" => hand[c] = "open"
       /\ pc[c] = "put" => hand[c] # "none"
  /\ hand["ctl"] # "none" => ctl.step = "shrink" /\ ctl.left > 0

(* WrappersConserved and CountersExact, written with the sums above.       *)
CountInv ==
  /\ Wrappers = capacity + Excess
  /\ active = Opens
  /\ available = (capacity + Excess) - Cardinality(Counted)

IInv == TypeOK /\ CtlInv /\ QueueInv /\ HandInv /\ CountInv

(* Sets of holders are finite. *)
LEMMA FiniteHolders ==
  /\ \A S \in SUBSET Holders : IsFiniteSet(S) /\ Cardinality(S) \in Nat
  /\ \A S \in SUBSET Clients : IsFiniteSet(S) /\ Cardinality(S) \in Nat
<1>1. IsFiniteSet(Clients \cup {"ctl"})
  BY ClientAssumption, FS_AddElement
<1>2. IsFiniteSet((Clients \cup {"ctl"}) \cup {"idler"})
  BY <1>1, FS_AddElement
<1>3. Holders = (Clients \cup {"ctl"}) \cup {"idler"}
  BY DEF Holders
<1>. QED BY <1>2, <1>3, ClientAssumption, FS_Subset, FS_CardinalityType

(* The clients are neither the controller nor the idle closer. *)
LEMMA HolderFacts ==
  /\ Clients \subseteq Holders /\ "ctl" \in Holders /\ "idler" \in Holders
  /\ "ctl" \notin Clients /\ "idler" \notin Clients
BY ClientAssumption DEF Holders

(* The sums are numbers. *)
LEMMA SumTypes ==
  ASSUME NEW r \in Seq(Wrapper), NEW h
  PROVE  /\ Len(r) + Cardinality(Held(h)) \in Nat
         /\ Cardinality(At(r, "open")) + Cardinality(Opened(h)) \in Nat
<1>1. /\ Cardinality(Held(h)) \in Nat
      /\ Cardinality(Opened(h)) \in Nat
  BY FiniteHolders DEF Held, Opened
<1>2. Len(r) \in Nat /\ Cardinality(At(r, "open")) \in Nat
  BY AtFinite
<1>. QED BY <1>1, <1>2

(* The hands after one of them has changed. *)
LEMMA HandChange ==
  ASSUME NEW h \in [Holders -> Wrapper \cup {"none"}], NEW x \in Holders,
         NEW w \in Wrapper \cup {"none"}, NEW g, Changed(g, h, x, w)
  PROVE  /\ g \in [Holders -> Wrapper \cup {"none"}]
         /\ Cardinality(Held(g)) = Cardinality(Held(h)) + Is(h[x], "none") - Is(w, "none")
         /\ Cardinality(Opened(g)) = Cardinality(Opened(h)) + Is(w, "open") - Is(h[x], "open")
<1>0. g = [h EXCEPT ![x] = w]
  BY DEF Changed
<1>1. Held(g) = IF w # "none" THEN Held(h) \cup {x} ELSE Held(h) \ {x}
  BY <1>0 DEF Held
<1>2. Opened(g) = IF w = "open" THEN Opened(h) \cup {x} ELSE Opened(h) \ {x}
  BY <1>0 DEF Opened
<1>3. (x \in Held(h) <=> h[x] # "none") /\ (x \in Opened(h) <=> h[x] = "open")
  BY DEF Held, Opened
<1>4. /\ IsFiniteSet(Held(h)) /\ Cardinality(Held(h)) \in Nat
      /\ IsFiniteSet(Opened(h)) /\ Cardinality(Opened(h)) \in Nat
  BY FiniteHolders DEF Held, Opened
<1>5. g \in [Holders -> Wrapper \cup {"none"}]
  BY <1>0
<1>6. Cardinality(Held(g)) = Cardinality(Held(h)) + Is(h[x], "none") - Is(w, "none")
  <2>1. /\ Cardinality(Held(h) \cup {x}) = IF x \in Held(h) THEN Cardinality(Held(h)) ELSE Cardinality(Held(h)) + 1
        /\ Cardinality(Held(h) \ {x}) = IF x \in Held(h) THEN Cardinality(Held(h)) - 1 ELSE Cardinality(Held(h))
    BY <1>4, FS_AddElement, FS_RemoveElement
  <2>. QED BY <1>1, <1>3, <1>4, <2>1 DEF Is
<1>7. Cardinality(Opened(g)) = Cardinality(Opened(h)) + Is(w, "open") - Is(h[x], "open")
  <2>1. /\ Cardinality(Opened(h) \cup {x}) = IF x \in Opened(h) THEN Cardinality(Opened(h)) ELSE Cardinality(Opened(h)) + 1
        /\ Cardinality(Opened(h) \ {x}) = IF x \in Opened(h) THEN Cardinality(Opened(h)) - 1 ELSE Cardinality(Opened(h))
    BY <1>4, FS_AddElement, FS_RemoveElement
  <2>. QED BY <1>2, <1>3, <1>4, <2>1 DEF Is
<1>. QED BY <1>5, <1>6, <1>7

(* A client that is counted as having a connection, or no longer. *)
LEMMA CountedChange ==
  ASSUME TypeOK, NEW c \in Clients, NEW p, Go(c, p)
  PROVE  Cardinality(Counted') = Cardinality(Counted) + Out(p) - Out(pc[c])
<1>1. Counted' = IF p \in {"held", "put", "sent"} THEN Counted \cup {c} ELSE Counted \ {c}
  BY DEF Counted, Go, TypeOK
<1>2. c \in Counted <=> pc[c] \in {"held", "put", "sent"}
  BY DEF Counted
<1>3. IsFiniteSet(Counted) /\ Cardinality(Counted) \in Nat
  BY FiniteHolders DEF Counted
<1>4. /\ Cardinality(Counted \cup {c}) = IF c \in Counted THEN Cardinality(Counted) ELSE Cardinality(Counted) + 1
      /\ Cardinality(Counted \ {c}) = IF c \in Counted THEN Cardinality(Counted) - 1 ELSE Cardinality(Counted)
  BY <1>3, FS_AddElement, FS_RemoveElement
<1>. QED BY <1>1, <1>2, <1>3, <1>4 DEF Out

(* What a send does: the wrapper goes to the channel or to who has waited  *)
(* longest.                                                                *)
LEMMA SendFacts ==
  ASSUME TypeOK, QueueInv, NEW w \in Wrapper, NEW who \in Holders,
         \A i \in 1..Len(recvq) : recvq[i] # who, Send(w, who)
  PROVE  /\ resources' \in Seq(Wrapper) /\ recvq' \in Seq(Holders)
         /\ hand' \in [Holders -> Wrapper \cup {"none"}]
         /\ Wrappers' = Wrappers + Is(hand[who], "none")
         /\ Opens' = Opens + Is(w, "open") - Is(hand[who], "open")
         /\ hand'[who] = "none"
         /\ \A h \in Holders \ {who} :
              hand'[h] = hand[h] \/ (\E i \in 1..Len(recvq) : recvq[i] = h)
         /\ \A i \in 1..Len(recvq') :
              hand'[recvq'[i]] = "none" /\ (\E j \in 1..Len(recvq) : recvq'[i] = recvq[j])
         /\ \A i, j \in 1..Len(recvq') : recvq'[i] = recvq'[j] => i = j
         /\ recvq' # <<>> => recvq # <<>> /\ resources' = resources
<1>t. /\ recvq \in Seq(Holders) /\ resources \in Seq(Wrapper)
      /\ hand \in [Holders -> Wrapper \cup {"none"}]
  BY DEF TypeOK
<1>0. Len(recvq) \in Nat /\ \A i \in 1..Len(recvq) : recvq[i] \in Holders
  BY <1>t
<1>1. /\ Cardinality(Held(hand)) \in Nat /\ Cardinality(Opened(hand)) \in Nat
      /\ Len(resources) \in Nat /\ Cardinality(At(resources, "open")) \in Nat
      /\ w # "none" /\ w \in Wrapper \cup {"none"} /\ "none" \in Wrapper \cup {"none"}
  BY <1>t, FiniteHolders, AtFinite DEF Held, Opened, Wrapper
<1>. DEFINE g == [hand EXCEPT ![who] = "none"]
<1>2. /\ g \in [Holders -> Wrapper \cup {"none"}] /\ g[who] = "none"
      /\ Cardinality(Held(g)) = Cardinality(Held(hand)) + Is(hand[who], "none") - 1
      /\ Cardinality(Opened(g)) = Cardinality(Opened(hand)) - Is(hand[who], "open")
  <2>1. /\ Cardinality(Held(g)) = Cardinality(Held(hand)) + Is(hand[who], "none") - Is("none", "none")
        /\ Cardinality(Opened(g)) = Cardinality(Opened(hand)) + Is("none", "open") - Is(hand[who], "open")
    <3>1. hand \in [Holders -> Wrapper \cup {"none"}] /\ Changed(g, hand, who, "none")
      BY <1>t DEF Changed
    <3>. HIDE DEF g
    <3>. QED BY <1>1, <3>1, HandChange
  <2>2. g \in [Holders -> Wrapper \cup {"none"}] /\ g[who] = "none"
    BY <1>t
  <2>. QED BY <1>1, <2>1, <2>2 DEF Is
<1>3. CASE recvq = <<>>
  <2>1. resources' = Append(resources, w) /\ recvq' = recvq /\ hand' = g
    BY <1>3 DEF Send
  <2>2. resources' \in Seq(Wrapper) /\ Len(resources') = Len(resources) + 1
    BY <1>t, <2>1
  <2>3. Cardinality(At(resources', "open")) = Cardinality(At(resources, "open")) + Is(w, "open")
    BY <1>t, <2>1, AtAppend DEF Is
  <2>4. /\ Wrappers' = Wrappers + Is(hand[who], "none")
        /\ Opens' = Opens + Is(w, "open") - Is(hand[who], "open")
    <3>. HIDE DEF g
    <3>. QED BY <1>1, <1>2, <2>1, <2>2, <2>3, SMTT(30) DEF Wrappers, Opens, Is
  <2>5. /\ \A i \in 1..Len(recvq') : FALSE
        /\ \A h \in Holders \ {who} : hand'[h] = hand[h]
    BY <1>t, <1>3, <2>1
  <2>. QED BY <1>2, <1>3, <2>1, <2>2, <2>4, <2>5
<1>4. CASE recvq # <<>>
  <2>. DEFINE hd == Head(recvq)
  <2>1. hd = recvq[1] /\ 1 \in 1..Len(recvq) /\ hd \in Holders /\ hand[hd] = "none" /\ hd # who
    BY <1>t, <1>4, FirstElement DEF QueueInv
  <2>2. recvq' = Tail(recvq) /\ resources' = resources /\ hand' = [g EXCEPT ![hd] = w]
    BY <1>t, <1>4, <2>1 DEF Send
  <2>3. /\ recvq' \in Seq(Holders)
        /\ \A i \in 1..Len(recvq') : recvq'[i] = recvq[i + 1] /\ i + 1 \in 1..Len(recvq) /\ i + 1 # 1
        /\ Len(recvq') \in Nat
    <3>1. /\ Tail(recvq) \in Seq(Holders) /\ Len(Tail(recvq)) = Len(recvq) - 1 /\ Len(recvq) \in Nat \ {0}
          /\ \A i \in 1..(Len(recvq) - 1) : Tail(recvq)[i] = recvq[i + 1]
      BY <1>t, <1>4, TailFacts
    <3>. QED BY <2>2, <3>1
  <2>4. g[hd] = "none" /\ \A h \in Holders \ {who} : g[h] = hand[h]
    BY <1>t, <2>1
  <2>. HIDE DEF hd, g
  <2>5. /\ hand' \in [Holders -> Wrapper \cup {"none"}]
        /\ Cardinality(Held(hand')) = Cardinality(Held(g)) + Is(g[hd], "none") - Is(w, "none")
        /\ Cardinality(Opened(hand')) = Cardinality(Opened(g)) + Is(w, "open") - Is(g[hd], "open")
    <3>1. Changed(hand', g, hd, w)
      BY <2>2 DEF Changed
    <3>. QED BY <1>1, <1>2, <2>1, <3>1, HandChange
  <2>6. /\ Wrappers' = Wrappers + Is(hand[who], "none")
        /\ Opens' = Opens + Is(w, "open") - Is(hand[who], "open")
    BY <1>1, <1>2, <2>2, <2>4, <2>5 DEF Wrappers, Opens, Is
  <2>7. hand'[who] = "none" /\ \A h \in Holders \ {who, hd} : hand'[h] = hand[h]
    BY <1>2, <2>1, <2>2, <2>4
  <2>8. \A i \in 1..Len(recvq') : hand'[recvq'[i]] = "none"
    <3>. SUFFICES ASSUME NEW i \in 1..Len(recvq') PROVE hand'[recvq'[i]] = "none"
      OBVIOUS
    <3>1. recvq'[i] = recvq[i + 1] /\ i + 1 \in 1..Len(recvq) /\ i + 1 # 1
      BY <2>3
    <3>2. recvq[i + 1] # hd /\ recvq[i + 1] \in Holders \ {who} /\ hand[recvq[i + 1]] = "none"
      BY <1>0, <2>1, <3>1 DEF QueueInv
    <3>. QED BY <2>7, <3>1, <3>2
  <2>9. \A i \in 1..Len(recvq') : \E j \in 1..Len(recvq) : recvq'[i] = recvq[j]
    BY <2>3
  <2>10. \A i, j \in 1..Len(recvq') : recvq'[i] = recvq'[j] => i = j
    <3>. SUFFICES ASSUME NEW i \in 1..Len(recvq'), NEW j \in 1..Len(recvq'), recvq'[i] = recvq'[j] PROVE i = j
      OBVIOUS
    <3>1. i + 1 = j + 1
      BY <2>3 DEF QueueInv
    <3>. QED BY <2>3, <3>1
  <2>11. \A h \in Holders \ {who} : hand'[h] = hand[h] \/ (\E i \in 1..Len(recvq) : recvq[i] = h)
    BY <2>1, <2>7
  <2>12. resources' \in Seq(Wrapper)
    BY <1>t, <2>2
  <2>. QED BY <1>4, <2>2, <2>3, <2>5, <2>6, <2>7, <2>8, <2>9, <2>10, <2>11, <2>12
<1>. QED BY <1>3, <1>4

(* What a receive that finds an element does. *)
LEMMA ReceiveFacts ==
  ASSUME TypeOK, QueueInv, NEW who \in Holders, hand[who] = "none", Receive(who)
  PROVE  /\ resources' \in Seq(Wrapper) /\ recvq = <<>> /\ recvq' = <<>>
         /\ hand' \in [Holders -> Wrapper \cup {"none"}]
         /\ Wrappers' = Wrappers /\ Opens' = Opens
         /\ \A h \in Holders \ {who} : hand'[h] = hand[h]
<1>t. /\ recvq \in Seq(Holders) /\ resources \in Seq(Wrapper)
      /\ hand \in [Holders -> Wrapper \cup {"none"}]
  BY DEF TypeOK
<1>. DEFINE w == Head(resources)
<1>1. /\ resources # <<>> /\ resources' = Tail(resources) /\ hand' = [hand EXCEPT ![who] = w]
      /\ recvq' = recvq
  BY DEF Receive
<1>2. w \in Wrapper /\ w # "none"
  BY <1>t, <1>1, FirstElement DEF Wrapper
<1>3. resources' \in Seq(Wrapper) /\ Len(resources') = Len(resources) - 1 /\ Len(resources) \in Nat
  BY <1>t, <1>1, TailFacts
<1>4. /\ Cardinality(At(resources, "open")) = Cardinality(At(resources', "open")) + Is(w, "open")
      /\ Cardinality(At(resources', "open")) \in Nat
  BY <1>t, <1>1, <1>3, AtTail, AtFinite DEF Is
<1>. HIDE DEF w
<1>5. /\ hand' \in [Holders -> Wrapper \cup {"none"}]
      /\ Cardinality(Held(hand')) = Cardinality(Held(hand)) + Is(hand[who], "none") - Is(w, "none")
      /\ Cardinality(Opened(hand')) = Cardinality(Opened(hand)) + Is(w, "open") - Is(hand[who], "open")
  <2>1. hand \in [Holders -> Wrapper \cup {"none"}] /\ w \in Wrapper \cup {"none"} /\ Changed(hand', hand, who, w)
    BY <1>t, <1>1, <1>2 DEF Changed
  <2>. QED BY <2>1, HandChange
<1>6. Cardinality(Held(hand)) \in Nat /\ Cardinality(Opened(hand)) \in Nat
  BY FiniteHolders DEF Held, Opened
<1>7. Wrappers' = Wrappers
  <2>1. Is(hand[who], "none") = 1 /\ Is(w, "none") = 0
    BY <1>2 DEF Is
  <2>. QED BY <1>3, <1>5, <1>6, <2>1 DEF Wrappers
<1>8. Opens' = Opens
  <2>1. Is(hand[who], "open") = 0 /\ Is(w, "open") \in {0, 1}
    BY DEF Is
  <2>. QED BY <1>4, <1>5, <1>6, <2>1 DEF Opens
<1>. QED BY <1>t, <1>1, <1>3, <1>5, <1>7, <1>8 DEF QueueInv

(* A hand changes and the channel does not. *)
LEMMA ChangeHere ==
  ASSUME TypeOK, NEW x \in Holders, NEW w \in Wrapper \cup {"none"},
         hand' = [hand EXCEPT ![x] = w], resources' = resources
  PROVE  /\ Wrappers' = Wrappers + Is(hand[x], "none") - Is(w, "none")
         /\ Opens' = Opens + Is(w, "open") - Is(hand[x], "open")
<1>1. hand \in [Holders -> Wrapper \cup {"none"}] /\ Changed(hand', hand, x, w)
  BY DEF TypeOK, Changed
<1>2. /\ Cardinality(Held(hand')) = Cardinality(Held(hand)) + Is(hand[x], "none") - Is(w, "none")
      /\ Cardinality(Opened(hand')) = Cardinality(Opened(hand)) + Is(w, "open") - Is(hand[x], "open")
  BY <1>1, HandChange
<1>3. /\ Cardinality(Held(hand)) \in Nat /\ Cardinality(Opened(hand)) \in Nat
      /\ Len(resources) \in Nat /\ Cardinality(At(resources, "open")) \in Nat
  BY FiniteHolders, AtFinite DEF Held, Opened, TypeOK
<1>4. Is(hand[x], "none") \in {0, 1} /\ Is(w, "none") \in {0, 1} /\ Is(w, "open") \in {0, 1} /\ Is(hand[x], "open") \in {0, 1}
  BY DEF Is
<1>5. Wrappers' = Wrappers + Is(hand[x], "none") - Is(w, "none")
  BY <1>2, <1>3, <1>4 DEF Wrappers
<1>6. Opens' = Opens + Is(w, "open") - Is(hand[x], "open")
  BY <1>2, <1>3, <1>4 DEF Opens
<1>. QED BY <1>5, <1>6

(* The controller's part of the invariant only depends on its variables. *)
LEMMA CtlFrame ==
  ASSUME IInv, UNCHANGED <<cpVars, capacity, maxCap, closed, idler, ctl>>
  PROVE  CtlInv' /\ Excess' = Excess
BY DEF IInv, CtlInv, Excess, cpVars

(* The sums only depend on the channel and the hands. *)
LEMMA SumFrame ==
  ASSUME UNCHANGED <<resources, hand>>
  PROVE  Wrappers' = Wrappers /\ Opens' = Opens
BY DEF Wrappers, Opens

(* Numbers that the invariant relates. *)
LEMMA Numbers ==
  ASSUME IInv
  PROVE  /\ Cardinality(Counted) \in Nat /\ Excess \in Int /\ capacity \in Nat /\ maxCap \in Nat
         /\ Wrappers \in Nat /\ Opens \in Nat /\ active \in Nat /\ available \in Int
         /\ ctl.left \in Nat /\ ctl.to \in Nat /\ idleLeft \in Int
<1>1. Wrappers \in Nat /\ Opens \in Nat
  BY SumTypes DEF IInv, TypeOK, Wrappers, Opens
<1>2. Cardinality(Counted) \in Nat
  BY FiniteHolders DEF Counted
<1>. QED BY <1>1, <1>2 DEF IInv, TypeOK, Excess

(* Whoever a wrapper is sent to, the queue and the hands stay in order. *)
LEMMA SendOrder ==
  ASSUME IInv, NEW w \in Wrapper, NEW who \in Holders,
         \A i \in 1..Len(recvq) : recvq[i] # who, Send(w, who),
         \A c \in Clients \ {who} : pc'[c] = pc[c],
         ctl.step = "shrink" => ctl' = ctl, closed' = closed
  PROVE  /\ QueueInv'
         /\ \A c \in Clients \ {who} :
              /\ pc'[c] \in {"idle", "get", "stale", "sent"} => hand'[c] = "none"
              /\ pc'[c] = "held" => hand'[c] = "open"
              /\ pc'[c] = "put" => hand'[c] # "none"
         /\ hand'["ctl"] # "none" => ctl'.step = "shrink" /\ ctl'.left > 0
<1>1. TypeOK /\ QueueInv /\ HandInv
  BY DEF IInv
<1>2. /\ hand'[who] = "none"
      /\ \A h \in Holders \ {who} : hand'[h] = hand[h] \/ (\E i \in 1..Len(recvq) : recvq[i] = h)
      /\ \A i \in 1..Len(recvq') :
           hand'[recvq'[i]] = "none" /\ (\E j \in 1..Len(recvq) : recvq'[i] = recvq[j])
      /\ \A i, j \in 1..Len(recvq') : recvq'[i] = recvq'[j] => i = j
      /\ recvq' # <<>> => recvq # <<>> /\ resources' = resources
  BY <1>1, SendFacts
<1>3. \A i \in 1..Len(recvq) :
        /\ recvq[i] \in Clients => recvq[i] # who /\ pc[recvq[i]] = "wait" /\ pc'[recvq[i]] = "wait"
        /\ recvq[i] \notin Clients => recvq[i] = "ctl" /\ ctl.step = "shrink" /\ ctl.left > 0 /\ ctl' = ctl
  BY <1>1 DEF QueueInv
<1>4. QueueInv'
  BY <1>1, <1>2, <1>3 DEF QueueInv
<1>5. ASSUME NEW c \in Clients \ {who}
      PROVE  /\ pc'[c] \in {"idle", "get", "stale", "sent"} => hand'[c] = "none"
             /\ pc'[c] = "held" => hand'[c] = "open"
             /\ pc'[c] = "put" => hand'[c] # "none"
  <2>1. c \in Holders \ {who}
    BY HolderFacts
  <2>2. hand'[c] = hand[c] \/ pc'[c] = "wait"
    BY <1>2, <1>3, <2>1
  <2>. QED BY <1>1, <2>2 DEF HandInv
<1>6. hand'["ctl"] # "none" => ctl'.step = "shrink" /\ ctl'.left > 0
  <2>. SUFFICES ASSUME hand'["ctl"] # "none" PROVE ctl'.step = "shrink" /\ ctl'.left > 0
    OBVIOUS
  <2>1. "ctl" \in Holders \ {who} /\ "ctl" \notin Clients
    BY <1>2, HolderFacts
  <2>2. hand'["ctl"] = hand["ctl"] \/ (ctl.step = "shrink" /\ ctl.left > 0)
    BY <1>2, <1>3, <2>1
  <2>. QED BY <1>1, <2>2 DEF HandInv
<1>. QED BY <1>4, <1>5, <1>6

(* The initial states satisfy the invariant: there is no pool yet. *)
LEMMA InitInv == Init => IInv
<1>. SUFFICES ASSUME Init PROVE IInv
  OBVIOUS
<1>1. TypeOK
  <2>1. mu \in BOOLEAN /\ pool \in BOOLEAN /\ closed \in BOOLEAN
    BY DEF Init
  <2>2. /\ cpCapacity \in Nat /\ maxCap \in Nat /\ capacity \in 0..maxCap
        /\ active \in Nat /\ available \in Int /\ idleLeft \in Int
        /\ resources \in Seq(Wrapper) /\ recvq \in Seq(Holders)
    BY SizeAssumption DEF Init
  <2>3. /\ pc \in [Clients -> {"idle", "get", "stale", "wait", "held", "put", "sent"}]
        /\ hand \in [Holders -> Wrapper \cup {"none"}] /\ idler \in {"off", "rest", "scan", "zero"}
        /\ broken \in {"no", "size", "send", "extra"}
    BY DEF Init
  <2>4. ctl \in [op : {"none", "resize", "close", "reopen"},
                step : {"none", "stop", "shrink", "grow", "closed"}, to : Nat, left : Nat]
    BY DEF Init, NoCtl
  <2>. QED BY <2>1, <2>2, <2>3, <2>4 DEF TypeOK
<1>2. CtlInv /\ HandInv
  BY SizeAssumption, HolderFacts DEF Init, CtlInv, HandInv, NoCtl
<1>3. QueueInv
  BY DEF Init, QueueInv
<1>4. Held(hand) = {} /\ Opened(hand) = {} /\ Counted = {} /\ At(resources, "open") = {} /\ Excess = 0
  BY DEF Init, Held, Opened, Counted, At, Excess, NoCtl
<1>5. /\ capacity = 0 /\ active = 0 /\ available = 0 /\ Len(resources) = 0
  BY DEF Init
<1>6. CountInv
  <2>1. Cardinality({}) = 0
    BY FS_EmptySet
  <2>2. Wrappers = 0 /\ Opens = 0 /\ Cardinality(Counted) = 0
    <3>1. Wrappers = 0
      BY <1>4, <1>5, <2>1 DEF Wrappers
    <3>2. Opens = 0
      BY <1>4, <2>1 DEF Opens
    <3>. QED BY <1>4, <2>1, <3>1, <3>2
  <2>. QED BY <1>4, <1>5, <2>2 DEF CountInv
<1>. QED BY <1>1, <1>2, <1>3, <1>6 DEF IInv

(* A client calls Get. *)
LEMMA GetPoolStep ==
  ASSUME IInv, NEW c \in Clients, GetPool(c)
  PROVE  IInv'
<1>1. /\ pc[c] = "idle" /\ Go(c, "get") /\ pc' = [pc EXCEPT ![c] = "get"]
      /\ UNCHANGED <<cpVars, capacity, maxCap, chan, closed, counters, hand, idleVars, ctl>>
  BY DEF GetPool, Go
<1>. USE DEF cpVars, chan, counters, idleVars
<1>2. TypeOK'
  BY <1>1 DEF IInv, TypeOK
<1>3. QueueInv' /\ HandInv'
  BY <1>1 DEF IInv, TypeOK, QueueInv, HandInv
<1>4. CountInv'
  BY <1>1, CtlFrame, SumFrame, Numbers, CountedChange DEF IInv, CountInv, Out
<1>. QED BY <1>1, <1>2, <1>3, <1>4, CtlFrame DEF IInv

(* A client receives a wrapper, blocks, or finds the channel closed. *)
LEMMA FetchStep ==
  ASSUME IInv, NEW c \in Clients, Fetch(c)
  PROVE  IInv'
<1>1. UNCHANGED <<cpVars, capacity, maxCap, closed, counters, idleVars, ctl>>
  BY DEF Fetch
<1>. USE DEF cpVars, chan, counters, idleVars
<1>2. TypeOK /\ QueueInv /\ HandInv /\ c \in Holders
  BY HolderFacts DEF IInv
<1>3. CtlInv' /\ Excess' = Excess
  BY <1>1, CtlFrame
<1>4. CASE pc[c] = "get" /\ Receive(c) /\ Go(c, "wait")
  <2>1. hand[c] = "none"
    BY <1>2, <1>4 DEF HandInv
  <2>2. /\ resources' \in Seq(Wrapper) /\ recvq' = <<>>
        /\ hand' \in [Holders -> Wrapper \cup {"none"}]
        /\ Wrappers' = Wrappers /\ Opens' = Opens
        /\ \A h \in Holders \ {c} : hand'[h] = hand[h]
    BY <1>2, <1>4, <2>1, ReceiveFacts
  <2>3. pc' = [pc EXCEPT ![c] = "wait"]
    BY <1>4 DEF Go
  <2>4. TypeOK'
    BY <1>1, <1>2, <2>2, <2>3 DEF TypeOK
  <2>5. QueueInv'
    BY <2>2 DEF QueueInv
  <2>6. HandInv'
    BY <1>1, <1>2, <2>2, <2>3, HolderFacts DEF HandInv, TypeOK
  <2>7. CountInv'
    <3>1. Cardinality(Counted') = Cardinality(Counted)
      BY <1>2, <1>4, CountedChange, Numbers DEF Out
    <3>. QED BY <1>1, <1>3, <2>2, <3>1 DEF IInv, CountInv
  <2>. QED BY <1>3, <2>4, <2>5, <2>6, <2>7 DEF IInv
<1>5. CASE pc[c] = "get" /\ Block(c) /\ Go(c, "wait")
  <2>1. hand[c] = "none" /\ \A i \in 1..Len(recvq) : recvq[i] # c
    BY <1>2, <1>5 DEF HandInv, QueueInv
  <2>2. /\ resources = <<>> /\ ~closed /\ recvq' = Append(recvq, c) /\ UNCHANGED <<resources, hand>>
        /\ pc' = [pc EXCEPT ![c] = "wait"]
    BY <1>5 DEF Block, Go
  <2>3. /\ recvq' \in Seq(Holders) /\ Len(recvq') = Len(recvq) + 1 /\ Len(recvq) \in Nat
        /\ \A i \in 1..Len(recvq) : recvq'[i] = recvq[i]
        /\ recvq'[Len(recvq) + 1] = c
    BY <1>2, <2>2 DEF TypeOK
  <2>4. TypeOK'
    BY <1>1, <1>2, <2>2, <2>3 DEF TypeOK
  <2>5. QueueInv'
    <3>1. \A i \in 1..Len(recvq') : (i \in 1..Len(recvq) /\ recvq'[i] = recvq[i]) \/ (i = Len(recvq) + 1 /\ recvq'[i] = c)
      BY <2>3
    <3>2. \A x \in Clients \ {c} : pc'[x] = pc[x]
      BY <1>2, <2>2 DEF TypeOK
    <3>3. pc'[c] = "wait"
      BY <1>2, <2>2 DEF TypeOK
    <3>4. \A i \in 1..Len(recvq') :
            /\ hand'[recvq'[i]] = "none"
            /\ recvq'[i] \in Clients => pc'[recvq'[i]] = "wait"
            /\ recvq'[i] \notin Clients => recvq'[i] = "ctl" /\ ctl'.step = "shrink" /\ ctl'.left > 0
      BY <1>1, <1>2, <2>1, <2>2, <3>1, <3>2, <3>3 DEF QueueInv
    <3>5. \A i, j \in 1..Len(recvq') : recvq'[i] = recvq'[j] => i = j
      BY <1>2, <2>1, <3>1 DEF QueueInv
    <3>. QED BY <1>1, <2>2, <3>4, <3>5 DEF QueueInv
  <2>6. HandInv'
    BY <1>1, <1>2, <2>2 DEF HandInv, TypeOK
  <2>7. CountInv'
    <3>1. Cardinality(Counted') = Cardinality(Counted)
      BY <1>2, <1>5, CountedChange, Numbers DEF Out
    <3>. QED BY <1>1, <1>3, <2>2, <3>1, SumFrame DEF IInv, CountInv
  <2>. QED BY <1>3, <2>4, <2>5, <2>6, <2>7 DEF IInv
<1>6. CASE /\ pc[c] \in {"stale", "get"}
           /\ Go(c, "idle") /\ UNCHANGED <<chan, hand>>
  <2>1. pc' = [pc EXCEPT ![c] = "idle"]
    BY <1>6 DEF Go
  <2>2. TypeOK' /\ QueueInv' /\ HandInv'
    BY <1>1, <1>2, <1>6, <2>1 DEF TypeOK, QueueInv, HandInv
  <2>3. CountInv'
    BY <1>1, <1>3, <1>6, SumFrame, Numbers, CountedChange DEF IInv, CountInv, Out
  <2>. QED BY <1>3, <2>2, <2>3 DEF IInv
<1>. QED BY <1>4, <1>5, <1>6 DEF Fetch

(* A client gives up. *)
LEMMA CtxDoneStep ==
  ASSUME IInv, NEW c \in Clients, CtxDone(c)
  PROVE  IInv'
<1>1. /\ pc[c] \in {"get", "stale", "wait"} /\ hand[c] = "none" /\ Go(c, "idle") /\ pc' = [pc EXCEPT ![c] = "idle"]
      /\ UNCHANGED <<cpVars, capacity, maxCap, resources, closed, counters, hand, idleVars, ctl>>
  BY DEF CtxDone, Go
<1>. USE DEF cpVars, chan, counters, idleVars
<1>2. TypeOK /\ QueueInv /\ HandInv /\ c \in Holders
  BY HolderFacts DEF IInv
<1>3. /\ recvq' \in Seq(Holders)
      /\ \A i \in 1..Len(recvq') : recvq'[i] # c /\ \E k \in 1..Len(recvq) : recvq'[i] = recvq[k]
      /\ \A i, j \in 1..Len(recvq') : recvq'[i] = recvq'[j] => i = j
      /\ recvq' # <<>> => recvq # <<>>
  <2>1. recvq \in Seq(Holders) /\ \A i, j \in 1..Len(recvq) : recvq[i] = recvq[j] => i = j
    BY <1>2 DEF TypeOK, QueueInv
  <2>2. CASE Contains(recvq, c)
    <3>1. PICK i \in 1..Len(recvq) : recvq[i] = c /\ recvq' = RemoveAt(recvq, i)
      BY <2>1, <2>2 DEF CtxDone
    <3>2. recvq' \in Seq(Holders)
      BY <2>1, <3>1, RemoveAtFacts
    <3>3. /\ \A j \in 1..Len(recvq') : recvq'[j] # recvq[i]
          /\ \A j \in 1..Len(recvq') : \E k \in 1..Len(recvq) : recvq'[j] = recvq[k]
          /\ \A j, k \in 1..Len(recvq') : recvq'[j] = recvq'[k] => j = k
      <4>. DEFINE r == RemoveAt(recvq, i)
      <4>1. /\ \A j \in 1..Len(r) : r[j] # recvq[i]
            /\ \A j \in 1..Len(r) : \E k \in 1..Len(recvq) : r[j] = recvq[k]
            /\ \A j, k \in 1..Len(r) : r[j] = r[k] => j = k
        <5>1. i \in 1..Len(recvq)
          BY <3>1
        <5>. QED BY ONLY <2>1, <5>1, RemoveAtDistinct
      <4>2. recvq' = r
        BY <3>1
      <4>. HIDE DEF r
      <4>. QED BY ONLY <4>1, <4>2
    <3>4. recvq # <<>>
      BY <2>1
    <3>. QED BY <3>1, <3>2, <3>3, <3>4
  <2>3. CASE ~Contains(recvq, c)
    <3>1. recvq' = recvq /\ \A i \in 1..Len(recvq) : recvq[i] # c
      BY <2>3 DEF CtxDone, Contains
    <3>. QED BY <2>1, <3>1
  <2>. QED BY <2>2, <2>3
<1>4. TypeOK'
  BY <1>1, <1>2, <1>3 DEF TypeOK
<1>5. QueueInv'
  <2>1. \A x \in Clients \ {c} : pc'[x] = pc[x]
    BY <1>1, <1>2 DEF TypeOK
  <2>2. \A i \in 1..Len(recvq') :
          /\ hand'[recvq'[i]] = "none"
          /\ recvq'[i] \in Clients => pc'[recvq'[i]] = "wait"
          /\ recvq'[i] \notin Clients => recvq'[i] = "ctl" /\ ctl'.step = "shrink" /\ ctl'.left > 0
    BY <1>1, <1>2, <1>3, <2>1 DEF QueueInv
  <2>. QED BY <1>1, <1>2, <1>3, <2>2 DEF QueueInv
<1>6. HandInv'
  BY <1>1, <1>2 DEF HandInv, TypeOK
<1>7. CountInv'
  BY <1>1, CtlFrame, SumFrame, Numbers, CountedChange DEF IInv, CountInv, Out
<1>. QED BY <1>1, <1>4, <1>5, <1>6, <1>7, CtlFrame DEF IInv

(* A client takes the connection of its wrapper. *)
LEMMA TakeOpenStep ==
  ASSUME IInv, NEW c \in Clients, TakeOpen(c)
  PROVE  IInv'
<1>1. /\ pc[c] = "wait" /\ hand[c] = "open" /\ Go(c, "held") /\ pc' = [pc EXCEPT ![c] = "held"]
      /\ available' = available - 1
      /\ UNCHANGED <<cpVars, capacity, maxCap, chan, closed, active, hand, idleVars, ctl>>
  BY DEF TakeOpen, Go
<1>. USE DEF cpVars, chan, idleVars
<1>2. TypeOK'
  BY <1>1 DEF IInv, TypeOK
<1>3. QueueInv' /\ HandInv'
  BY <1>1 DEF IInv, TypeOK, QueueInv, HandInv
<1>4. CountInv'
  BY <1>1, CtlFrame, SumFrame, Numbers, CountedChange DEF IInv, CountInv, Out
<1>. QED BY <1>1, <1>2, <1>3, <1>4, CtlFrame DEF IInv

(* A client makes a connection for its wrapper. *)
LEMMA ConnectStep ==
  ASSUME IInv, NEW c \in Clients, Connect(c)
  PROVE  IInv'
<1>1. /\ pc[c] = "wait" /\ hand[c] = "nil" /\ Go(c, "held") /\ pc' = [pc EXCEPT ![c] = "held"]
      /\ hand' = [hand EXCEPT ![c] = "open"] /\ active' = active + 1 /\ available' = available - 1
      /\ UNCHANGED <<cpVars, capacity, maxCap, chan, closed, idleVars, ctl>>
  BY DEF Connect, Go
<1>. USE DEF cpVars, chan, idleVars
<1>2. TypeOK /\ QueueInv /\ HandInv /\ c \in Holders
  BY HolderFacts DEF IInv
<1>3. TypeOK'
  BY <1>1, <1>2 DEF TypeOK, Wrapper
<1>4. QueueInv'
  <2>1. \A i \in 1..Len(recvq) : recvq[i] # c /\ recvq[i] \in Holders
    BY <1>1, <1>2 DEF QueueInv, TypeOK
  <2>2. /\ \A h \in Holders \ {c} : hand'[h] = hand[h]
        /\ \A h \in Clients \ {c} : pc'[h] = pc[h]
    BY <1>1, <1>2 DEF TypeOK
  <2>. QED BY <1>1, <1>2, <2>1, <2>2 DEF QueueInv
<1>5. HandInv'
  BY <1>1, <1>2, HolderFacts DEF HandInv, TypeOK
<1>6. Wrappers' = Wrappers /\ Opens' = Opens + 1
  <2>1. "open" \in Wrapper \cup {"none"} /\ Wrappers \in Nat /\ Opens \in Nat
    BY Numbers DEF Wrapper
  <2>2. /\ Wrappers' = Wrappers + Is("nil", "none") - Is("open", "none")
        /\ Opens' = Opens + Is("open", "open") - Is("nil", "open")
    BY <1>1, <1>2, <2>1, ChangeHere
  <2>. QED BY <2>1, <2>2 DEF Is
<1>7. CountInv'
  BY <1>1, <1>6, CtlFrame, Numbers, CountedChange DEF IInv, CountInv, Out
<1>. QED BY <1>1, <1>3, <1>4, <1>5, <1>7, CtlFrame DEF IInv

(* The factory fails and the empty wrapper goes back. *)
LEMMA ConnectFailsStep ==
  ASSUME IInv, NEW c \in Clients, ConnectFails(c)
  PROVE  IInv'
<1>1. /\ pc[c] = "wait" /\ hand[c] = "nil" /\ Send("nil", c) /\ Go(c, "idle") /\ pc' = [pc EXCEPT ![c] = "idle"]
      /\ UNCHANGED <<cpVars, capacity, maxCap, closed, counters, idleVars, ctl>>
  BY DEF ConnectFails, Go
<1>. USE DEF cpVars, counters, idleVars
<1>2. TypeOK /\ QueueInv /\ HandInv /\ c \in Holders /\ "nil" \in Wrapper
  BY HolderFacts DEF IInv, Wrapper
<1>3. /\ \A i \in 1..Len(recvq) : recvq[i] # c
      /\ \A h \in Clients \ {c} : pc'[h] = pc[h] /\ pc'[c] = "idle"
  BY <1>1, <1>2 DEF QueueInv, TypeOK
<1>4. /\ resources' \in Seq(Wrapper) /\ recvq' \in Seq(Holders)
      /\ hand' \in [Holders -> Wrapper \cup {"none"}] /\ hand'[c] = "none"
      /\ Wrappers' = Wrappers + Is(hand[c], "none")
      /\ Opens' = Opens + Is("nil", "open") - Is(hand[c], "open")
  BY <1>1, <1>2, <1>3, SendFacts
<1>5. TypeOK'
  BY <1>1, <1>2, <1>4 DEF TypeOK
<1>6. QueueInv' /\ HandInv'
  BY <1>1, <1>2, <1>3, <1>4, SendOrder DEF HandInv, TypeOK
<1>7. CountInv'
  <2>1. Wrappers' = Wrappers /\ Opens' = Opens
    BY <1>1, <1>4, Numbers DEF Is
  <2>2. Cardinality(Counted') = Cardinality(Counted)
    BY <1>1, <1>2, CountedChange, Numbers DEF Out
  <2>. QED BY <1>1, <2>1, <2>2, CtlFrame DEF IInv, CountInv
<1>. QED BY <1>1, <1>5, <1>6, <1>7, CtlFrame DEF IInv

(* A client calls Put. *)
LEMMA PutPoolStep ==
  ASSUME IInv, NEW c \in Clients, PutPool(c)
  PROVE  IInv'
<1>1. /\ pc[c] = "held" /\ Go(c, "put") /\ pc' = [pc EXCEPT ![c] = "put"]
      /\ UNCHANGED <<cpVars, capacity, maxCap, chan, closed, available, idleVars, ctl>>
      /\ \/ UNCHANGED <<hand, active>>
         \/ hand' = [hand EXCEPT ![c] = "nil"] /\ active' = active - 1
  BY DEF PutPool, Go
<1>. USE DEF cpVars, chan, idleVars
<1>2. TypeOK /\ QueueInv /\ HandInv /\ c \in Holders /\ hand[c] = "open"
  BY <1>1, HolderFacts DEF IInv, HandInv
<1>3. Cardinality(Counted') = Cardinality(Counted)
  BY <1>1, <1>2, CountedChange, Numbers DEF Out
<1>4. /\ \A i \in 1..Len(recvq) : recvq[i] # c /\ recvq[i] \in Holders
      /\ \A h \in Holders \ {c} : hand'[h] = hand[h]
      /\ \A h \in Clients \ {c} : pc'[h] = pc[h]
      /\ pc'[c] = "put" /\ hand'[c] \in {"open", "nil"}
      /\ hand' \in [Holders -> Wrapper \cup {"none"}]
  BY <1>1, <1>2, SMTT(30) DEF QueueInv, TypeOK, Wrapper
<1>5. QueueInv'
  BY <1>1, <1>2, <1>4 DEF QueueInv
<1>6. HandInv'
  BY <1>1, <1>2, <1>4, HolderFacts DEF HandInv
<1>7. Wrappers' = Wrappers /\ active' = Opens' /\ active' \in Nat
  <2>1. CASE UNCHANGED <<hand, active>>
    BY <1>1, <2>1, SumFrame, Numbers DEF IInv, CountInv
  <2>2. CASE hand' = [hand EXCEPT ![c] = "nil"] /\ active' = active - 1
    <3>1. "nil" \in Wrapper \cup {"none"} /\ Wrappers \in Nat /\ Opens \in Nat /\ active = Opens
      BY Numbers DEF Wrapper, IInv, CountInv
    <3>2. /\ Wrappers' = Wrappers + Is("open", "none") - Is("nil", "none")
          /\ Opens' = Opens + Is("nil", "open") - Is("open", "open")
      BY <1>1, <1>2, <2>2, <3>1, ChangeHere
    <3>3. Wrappers' = Wrappers /\ Opens' = Opens - 1
      BY <3>1, <3>2 DEF Is
    <3>4. Opens' \in Nat
      <4>1. resources' \in Seq(Wrapper)
        BY <1>1, <1>2 DEF TypeOK
      <4>. QED BY <4>1, SumTypes DEF Opens
    <3>. QED BY <2>2, <3>1, <3>3, <3>4
  <2>. QED BY <1>1, <2>1, <2>2
<1>8. TypeOK'
  BY <1>1, <1>2, <1>4, <1>7 DEF TypeOK
<1>9. CountInv'
  BY <1>1, <1>3, <1>7, CtlFrame DEF IInv, CountInv
<1>. QED BY <1>1, <1>5, <1>6, <1>8, <1>9, CtlFrame DEF IInv

(* Put sends the wrapper. *)
LEMMA PutSendStep ==
  ASSUME IInv, NEW c \in Clients, PutSend(c)
  PROVE  IInv'
<1>1. /\ pc[c] = "put" /\ Send(hand[c], c) /\ Go(c, "sent") /\ pc' = [pc EXCEPT ![c] = "sent"]
      /\ UNCHANGED <<cpVars, capacity, maxCap, closed, counters, idleVars, ctl>>
  BY DEF PutSend, Go
<1>. USE DEF cpVars, counters, idleVars
<1>2. TypeOK /\ QueueInv /\ HandInv /\ c \in Holders /\ hand[c] \in Wrapper
  BY <1>1, HolderFacts DEF IInv, HandInv, TypeOK
<1>3. /\ \A i \in 1..Len(recvq) : recvq[i] # c
      /\ \A h \in Clients \ {c} : pc'[h] = pc[h] /\ pc'[c] = "sent"
  BY <1>1, <1>2 DEF QueueInv, TypeOK
<1>4. /\ resources' \in Seq(Wrapper) /\ recvq' \in Seq(Holders)
      /\ hand' \in [Holders -> Wrapper \cup {"none"}] /\ hand'[c] = "none"
      /\ Wrappers' = Wrappers + Is(hand[c], "none")
      /\ Opens' = Opens + Is(hand[c], "open") - Is(hand[c], "open")
  BY <1>1, <1>2, <1>3, SendFacts
<1>5. TypeOK'
  BY <1>1, <1>2, <1>4 DEF TypeOK
<1>6. QueueInv' /\ HandInv'
  BY <1>1, <1>2, <1>3, <1>4, SendOrder DEF HandInv, TypeOK
<1>7. CountInv'
  <2>1. Wrappers' = Wrappers /\ Opens' = Opens
    BY <1>2, <1>4, Numbers DEF Is, Wrapper
  <2>2. Cardinality(Counted') = Cardinality(Counted)
    BY <1>1, <1>2, CountedChange, Numbers DEF Out
  <2>. QED BY <1>1, <2>1, <2>2, CtlFrame DEF IInv, CountInv
<1>. QED BY <1>1, <1>5, <1>6, <1>7, CtlFrame DEF IInv

(* Put counts the wrapper it has sent. *)
LEMMA PutCountStep ==
  ASSUME IInv, NEW c \in Clients, PutCount(c)
  PROVE  IInv'
<1>1. /\ pc[c] = "sent" /\ Go(c, "idle") /\ pc' = [pc EXCEPT ![c] = "idle"] /\ available' = available + 1
      /\ UNCHANGED <<cpVars, capacity, maxCap, chan, closed, active, hand, idleVars, ctl>>
  BY DEF PutCount, Go
<1>. USE DEF cpVars, chan, idleVars
<1>2. TypeOK'
  BY <1>1 DEF IInv, TypeOK
<1>3. QueueInv' /\ HandInv'
  BY <1>1 DEF IInv, TypeOK, QueueInv, HandInv
<1>4. CountInv'
  <2>1. Cardinality(Counted') = Cardinality(Counted) - 1
    BY <1>1, CountedChange, Numbers DEF IInv, Out
  <2>. QED BY <1>1, <2>1, CtlFrame, SumFrame, Numbers DEF IInv, CountInv
<1>. QED BY <1>1, <1>2, <1>3, <1>4, CtlFrame DEF IInv

(* The idle timer fires, and closeIdleResources ends or finds nothing. *)
LEMMA IdlerQuietStep ==
  ASSUME IInv, (idler # "off" /\ idler' \in {"rest", "scan", "zero"}), idleLeft' \in Int,
         UNCHANGED <<cpVars, capacity, maxCap, chan, closed, counters, pc, hand, ctl>>
  PROVE  IInv'
<1>. USE DEF cpVars, chan, counters
<1>1. TypeOK' /\ QueueInv' /\ HandInv'
  BY DEF IInv, TypeOK, QueueInv, HandInv
<1>2. CtlInv' /\ Excess' = Excess /\ Counted' = Counted
  BY DEF IInv, CtlInv, Excess, Counted
<1>3. CountInv'
  BY <1>2, SumFrame DEF IInv, CountInv
<1>. QED BY <1>1, <1>2, <1>3 DEF IInv

(* closeIdleResources takes a wrapper. *)
LEMMA IdleTakeStep ==
  ASSUME IInv, IdleTake
  PROVE  IInv'
<1>1. /\ idler = "scan" /\ hand["idler"] = "none"
      /\ UNCHANGED <<cpVars, capacity, maxCap, closed, counters, pc, ctl>>
      /\ \/ Receive("idler") /\ UNCHANGED idleVars
         \/ idler' = "rest" /\ idleLeft' = 0 /\ UNCHANGED <<chan, hand>>
         \/ idler' = "zero" /\ idleLeft' = idleLeft /\ UNCHANGED <<chan, hand>>
  BY DEF IdleTake
<1>2. CASE /\ (idler' = "rest" /\ idleLeft' = 0) \/ (idler' = "zero" /\ idleLeft' = idleLeft)
           /\ UNCHANGED <<chan, hand>>
  <2>1. idleLeft' \in Int
    BY <1>2 DEF IInv, TypeOK
  <2>. QED BY <1>1, <1>2, <2>1, IdlerQuietStep
<1>3. CASE Receive("idler") /\ UNCHANGED idleVars
  <2>. USE DEF cpVars, chan, counters, idleVars
  <2>1. TypeOK /\ QueueInv /\ HandInv /\ "idler" \in Holders
    BY HolderFacts DEF IInv
  <2>2. /\ resources' \in Seq(Wrapper) /\ recvq' = <<>>
        /\ hand' \in [Holders -> Wrapper \cup {"none"}]
        /\ Wrappers' = Wrappers /\ Opens' = Opens
        /\ \A h \in Holders \ {"idler"} : hand'[h] = hand[h]
    BY <1>1, <1>3, <2>1, ReceiveFacts
  <2>3. TypeOK' /\ QueueInv'
    BY <1>1, <1>3, <2>1, <2>2 DEF TypeOK, QueueInv
  <2>4. HandInv'
    BY <1>1, <2>1, <2>2, HolderFacts DEF HandInv
  <2>5. CountInv'
    BY <1>1, <1>3, <2>2, CtlFrame DEF IInv, CountInv, Counted
  <2>. QED BY <1>1, <1>3, <2>3, <2>4, <2>5, CtlFrame DEF IInv
<1>. QED BY <1>1, <1>2, <1>3

(* The process ends with nothing else changed: the idle closer sends a zero *)
(* wrapper, or Open panics.                                                *)
LEMMA BrokenStep ==
  ASSUME IInv, broken' \in {"size", "send", "extra"},
         UNCHANGED <<mu, pool, cpCapacity, capacity, maxCap, chan, closed, counters, pc, hand,
                     idleVars, ctl>>
  PROVE  IInv'
<1>. USE DEF chan, counters, idleVars
<1>1. TypeOK' /\ QueueInv' /\ HandInv'
  BY DEF IInv, TypeOK, QueueInv, HandInv
<1>2. CtlInv' /\ Excess' = Excess /\ Counted' = Counted
  BY DEF IInv, CtlInv, Excess, Counted
<1>3. CountInv'
  BY <1>2, SumFrame DEF IInv, CountInv
<1>. QED BY <1>1, <1>2, <1>3 DEF IInv

(* closeIdleResources returns it. *)
LEMMA IdleBackStep ==
  ASSUME IInv, IdleBack
  PROVE  IInv'
<1>1. /\ hand["idler"] # "none" /\ idleLeft' = idleLeft - 1
      /\ UNCHANGED <<cpVars, capacity, maxCap, closed, available, pc, idler, ctl>>
  BY DEF IdleBack
<1>. USE DEF cpVars
<1>2. /\ TypeOK /\ QueueInv /\ HandInv /\ "idler" \in Holders /\ "idler" \notin Clients
      /\ hand["idler"] \in Wrapper /\ "nil" \in Wrapper
  BY <1>1, HolderFacts DEF IInv, TypeOK, Wrapper
<1>3. \A i \in 1..Len(recvq) : recvq[i] # "idler"
  BY <1>1, <1>2 DEF QueueInv
<1>4. PICK w \in Wrapper : Send(w, "idler") /\ active' = active + Is(w, "open") - Is(hand["idler"], "open")
  <2>1. CASE Send(hand["idler"], "idler") /\ UNCHANGED active
    BY <1>2, <2>1, Numbers DEF Is
  <2>2. CASE hand["idler"] = "open" /\ Send("nil", "idler") /\ active' = active - 1
    BY <1>2, <2>2, Numbers DEF Is
  <2>. QED BY <2>1, <2>2 DEF IdleBack
<1>5. /\ resources' \in Seq(Wrapper) /\ recvq' \in Seq(Holders)
      /\ hand' \in [Holders -> Wrapper \cup {"none"}]
      /\ Wrappers' = Wrappers + Is(hand["idler"], "none")
      /\ Opens' = Opens + Is(w, "open") - Is(hand["idler"], "open")
  BY <1>2, <1>3, <1>4, SendFacts
<1>6. Wrappers' = Wrappers /\ active' = Opens' /\ active' \in Nat
  <2>1. Opens' \in Nat
    BY <1>5, SumTypes DEF Opens
  <2>. QED BY <1>1, <1>4, <1>5, <2>1, Numbers DEF Is, IInv, CountInv
<1>7. TypeOK'
  BY <1>1, <1>2, <1>5, <1>6 DEF TypeOK
<1>8. QueueInv' /\ HandInv'
  <2>1. \A c \in Clients \ {"idler"} : pc'[c] = pc[c]
    BY <1>1
  <2>. QED BY <1>1, <1>2, <1>3, <1>4, <2>1, SendOrder DEF HandInv
<1>9. CountInv'
  BY <1>1, <1>6, CtlFrame DEF IInv, CountInv, Counted
<1>. QED BY <1>1, <1>7, <1>8, <1>9, CtlFrame DEF IInv

(* The controller does something that leaves the channel alone. *)
LEMMA CtlQuietStep ==
  ASSUME IInv, TypeOK', CtlInv', UNCHANGED <<chan, counters, pc, hand>>, closed' => closed,
         ~(ctl.step = "shrink" /\ ctl.left > 0),
         capacity' + Excess' = capacity + Excess
  PROVE  IInv'
<1>. USE DEF chan, counters
<1>1. \A i \in 1..Len(recvq) : recvq[i] \in Clients
  BY DEF IInv, QueueInv
<1>2. QueueInv'
  BY <1>1 DEF IInv, QueueInv
<1>3. HandInv'
  BY DEF IInv, HandInv
<1>4. CountInv'
  <2>1. Counted' = Counted /\ Wrappers' = Wrappers /\ Opens' = Opens
    BY SumFrame DEF Counted
  <2>2. /\ Wrappers = capacity + Excess /\ active = Opens
        /\ available = (capacity + Excess) - Cardinality(Counted)
    BY DEF IInv, CountInv
  <2>4. active' = active /\ available' = available
    OBVIOUS
  <2>5. Wrappers' = capacity' + Excess'
    BY <2>1, <2>2
  <2>6. active' = Opens'
    BY <2>1, <2>2, <2>4
  <2>7. available' = (capacity' + Excess') - Cardinality(Counted')
    BY <2>1, <2>2, <2>4
  <2>. QED BY <2>5, <2>6, <2>7 DEF CountInv
<1>. QED BY <1>2, <1>3, <1>4 DEF IInv

(* ResourcePool.SetCapacity begins: what there is too much or too little   *)
(* of is to be taken out or put in.                                        *)
LEMMA SetCapacityFacts ==
  ASSUME IInv, NEW op \in {"resize", "close", "reopen"}, NEW n \in Nat, NEW to \in Nat,
         SetCapacity(op, n, to), n <= maxCap, ctl.step \notin {"shrink", "grow"}
  PROVE  /\ capacity' = n /\ capacity' + Excess' = capacity + Excess
         /\ closed' \in BOOLEAN /\ (closed' <=> closed /\ n = 0) /\ (closed' => closed)
         /\ ctl' \in [op : {"none", "resize", "close", "reopen"},
                      step : {"none", "stop", "shrink", "grow", "closed"}, to : Nat, left : Nat]
         /\ ctl'.op = op /\ ctl'.to = to /\ ctl'.step = (IF n < capacity THEN "shrink" ELSE "grow")
         /\ ctl'.step = "shrink" => n + ctl'.left <= maxCap
<1>1. /\ capacity \in Nat /\ capacity <= maxCap /\ maxCap \in Nat /\ closed \in BOOLEAN
  BY DEF IInv, TypeOK
<1>2. capacity' = n /\ closed' = (closed /\ n = 0)
  BY DEF SetCapacity
<1>3. closed' \in BOOLEAN /\ (closed' <=> closed /\ n = 0) /\ (closed' => closed)
  BY <1>1, <1>2
<1>4. Excess = 0
  BY DEF Excess
<1>5. CASE n < capacity
  <2>1. ctl' = [op |-> op, step |-> "shrink", to |-> to, left |-> capacity - n] /\ capacity - n \in Nat
    BY <1>1, <1>5 DEF SetCapacity
  <2>2. Excess' = capacity - n
    BY <2>1 DEF Excess
  <2>. QED BY <1>1, <1>2, <1>3, <1>4, <1>5, <2>1, <2>2
<1>6. CASE ~(n < capacity)
  <2>1. ctl' = [op |-> op, step |-> "grow", to |-> to, left |-> n - capacity] /\ n - capacity \in Nat
    BY <1>1, <1>6 DEF SetCapacity
  <2>2. Excess' = -(n - capacity)
    BY <2>1 DEF Excess
  <2>. QED BY <1>1, <1>2, <1>3, <1>4, <1>6, <2>1, <2>2
<1>. QED BY <1>5, <1>6

(* Pool.SetCapacity begins. *)
LEMMA PoolSetCapacityStep ==
  ASSUME IInv, NEW n \in Sizes, PoolSetCapacity(n)
  PROVE  IInv'
<1>1. /\ ctl.op = "none" /\ ~mu /\ pool /\ n # capacity /\ n <= maxCap /\ mu' = TRUE
      /\ SetCapacity("resize", n, n)
      /\ UNCHANGED <<pool, cpCapacity, broken, maxCap, chan, counters, pc, hand, idleVars>>
  BY DEF PoolSetCapacity, Free
<1>2. n \in Nat /\ ctl.step = "none" /\ (closed <=> capacity = 0) /\ capacity \in Nat
  BY <1>1, SizeAssumption DEF IInv, CtlInv, TypeOK
<1>3. /\ capacity' = n /\ capacity' + Excess' = capacity + Excess
      /\ closed' \in BOOLEAN /\ (closed' <=> closed /\ n = 0) /\ (closed' => closed)
      /\ ctl' \in [op : {"none", "resize", "close", "reopen"},
                   step : {"none", "stop", "shrink", "grow", "closed"}, to : Nat, left : Nat]
      /\ ctl'.op = "resize" /\ ctl'.to = n /\ ctl'.step = (IF n < capacity THEN "shrink" ELSE "grow")
      /\ ctl'.step = "shrink" => n + ctl'.left <= maxCap
  BY <1>1, <1>2, SetCapacityFacts
<1>. USE DEF chan, counters, idleVars
<1>4. TypeOK'
  BY <1>1, <1>2, <1>3 DEF IInv, TypeOK
<1>5. CtlInv'
  BY <1>1, <1>2, <1>3 DEF IInv, CtlInv
<1>. QED BY <1>1, <1>2, <1>3, <1>4, <1>5, CtlQuietStep

(* Pool.SetCapacity on a pool that is not open. *)
LEMMA PoolSetCapacityClosedStep ==
  ASSUME IInv, NEW n \in Sizes, PoolSetCapacityClosed(n)
  PROVE  IInv'
<1>1. /\ ctl.op = "none" /\ cpCapacity' = n
      /\ ~pool /\ UNCHANGED <<mu, pool, broken, capacity, maxCap, chan, closed, counters, pc, hand, idleVars, ctl>>
  BY DEF PoolSetCapacityClosed, Free
<1>. USE DEF chan, counters, idleVars
<1>2. TypeOK'
  BY <1>1, SizeAssumption DEF IInv, TypeOK
<1>3. CtlInv' /\ ctl.step = "none" /\ Excess' = Excess
  BY <1>1 DEF IInv, CtlInv, Excess
<1>. QED BY <1>1, <1>2, <1>3, CtlQuietStep

(* Close or reopen begins. *)
LEMMA StartCloseStep ==
  ASSUME IInv, NEW op \in {"close", "reopen"}, StartClose(op)
  PROVE  IInv'
<1>1. /\ ctl.op = "none" /\ pool /\ ctl' = [op |-> op, step |-> "stop", to |-> capacity, left |-> 0]
      /\ UNCHANGED <<cpVars, capacity, maxCap, chan, closed, counters, pc, hand, idleVars>>
  BY DEF StartClose, Free
<1>. USE DEF chan, counters, idleVars, cpVars
<1>2. TypeOK'
  BY <1>1 DEF IInv, TypeOK
<1>3. CtlInv' /\ ctl.step = "none" /\ Excess' = Excess
  BY <1>1 DEF IInv, CtlInv, Excess, TypeOK
<1>. QED BY <1>1, <1>2, <1>3, CtlQuietStep

(* The idle timer has stopped, and Close sets the capacity to 0. *)
LEMMA StopIdleStep ==
  ASSUME IInv, StopIdle
  PROVE  IInv'
<1>1. /\ ctl.step = "stop" /\ idler' = "off" /\ CloseSetCapacity
      /\ UNCHANGED <<cpVars, maxCap, chan, counters, pc, hand, idleLeft>>
  BY DEF StopIdle
<1>2. /\ ctl.op \in {"close", "reopen"} /\ ctl.op \in {"resize", "close", "reopen"}
      /\ ctl.to \in Nat /\ 0 \in Nat /\ capacity = ctl.to /\ capacity \in Nat
      /\ 0 <= maxCap /\ pool /\ (closed <=> capacity = 0)
  BY <1>1 DEF IInv, TypeOK, CtlInv
<1>. USE DEF chan, counters, cpVars
<1>3. CASE capacity = 0
  <2>1. ctl' = [ctl EXCEPT !.step = "closed"] /\ UNCHANGED <<capacity, closed>>
    BY <1>1, <1>3 DEF CloseSetCapacity
  <2>2. /\ ctl'.op = ctl.op /\ ctl'.to = ctl.to /\ ctl'.step = "closed"
        /\ ctl' \in [op : {"none", "resize", "close", "reopen"},
                     step : {"none", "stop", "shrink", "grow", "closed"}, to : Nat, left : Nat]
    BY <2>1 DEF IInv, TypeOK
  <2>3. TypeOK'
    BY <1>1, <1>2, <2>1, <2>2 DEF IInv, TypeOK
  <2>4. CtlInv'
    BY <1>1, <1>2, <1>3, <2>1, <2>2 DEF IInv, CtlInv
  <2>5. capacity' + Excess' = capacity + Excess
    <3>1. Excess = 0 /\ Excess' = 0
      BY <1>1, <2>2 DEF Excess
    <3>. QED BY <2>1, <3>1
  <2>. QED BY <1>1, <2>1, <2>3, <2>4, <2>5, CtlQuietStep
<1>4. CASE capacity # 0
  <2>0. SetCapacity(ctl.op, 0, ctl.to) /\ 0 < capacity
    BY <1>1, <1>2, <1>4 DEF CloseSetCapacity
  <2>1. /\ capacity' = 0 /\ capacity' + Excess' = capacity + Excess
        /\ closed' \in BOOLEAN /\ (closed' <=> closed /\ 0 = 0) /\ (closed' => closed)
        /\ ctl' \in [op : {"none", "resize", "close", "reopen"},
                     step : {"none", "stop", "shrink", "grow", "closed"}, to : Nat, left : Nat]
        /\ ctl'.op = ctl.op /\ ctl'.to = ctl.to /\ ctl'.step = (IF 0 < capacity THEN "shrink" ELSE "grow")
        /\ ctl'.step = "shrink" => 0 + ctl'.left <= maxCap
    BY <1>1, <1>2, <2>0, SetCapacityFacts
  <2>2. TypeOK'
    BY <1>1, <1>2, <2>1 DEF IInv, TypeOK
  <2>3. ctl'.step = "shrink" /\ ~closed'
    BY <1>2, <2>0, <2>1
  <2>4. CtlInv'
    BY <1>1, <1>2, <2>1, <2>3 DEF IInv, CtlInv
  <2>. QED BY <1>1, <2>1, <2>2, <2>4, CtlQuietStep
<1>. QED BY <1>3, <1>4

(* reopen sets the capacity again. *)
LEMMA RefillStep ==
  ASSUME IInv, Refill
  PROVE  IInv'
<1>1. /\ ctl.op = "reopen" /\ ctl.step = "closed" /\ SetCapacity("reopen", ctl.to, ctl.to)
      /\ UNCHANGED <<cpVars, maxCap, chan, counters, pc, hand, idleVars>>
  BY DEF Refill
<1>2. /\ ctl.to \in Nat /\ ctl.to <= maxCap /\ capacity = 0 /\ pool /\ closed
  BY <1>1 DEF IInv, TypeOK, CtlInv
<1>3. /\ capacity' = ctl.to /\ capacity' + Excess' = capacity + Excess
      /\ closed' \in BOOLEAN /\ (closed' <=> closed /\ ctl.to = 0) /\ (closed' => closed)
      /\ ctl' \in [op : {"none", "resize", "close", "reopen"},
                   step : {"none", "stop", "shrink", "grow", "closed"}, to : Nat, left : Nat]
      /\ ctl'.op = "reopen" /\ ctl'.to = ctl.to
      /\ ctl'.step = (IF ctl.to < capacity THEN "shrink" ELSE "grow")
  BY <1>1, <1>2, SetCapacityFacts
<1>. USE DEF chan, counters, cpVars, idleVars
<1>4. TypeOK'
  BY <1>1, <1>2, <1>3 DEF IInv, TypeOK
<1>5. ctl'.step = "grow" /\ (closed' <=> ctl.to = 0)
  BY <1>2, <1>3
<1>6. CtlInv'
  BY <1>1, <1>2, <1>3, <1>5 DEF IInv, CtlInv
<1>. QED BY <1>1, <1>3, <1>4, <1>6, CtlQuietStep

(* Pool.SetCapacity, Close and reopen end. *)
LEMMA EndStep ==
  ASSUME IInv, Resized \/ Closed \/ Reopened
  PROVE  IInv'
<1>. USE DEF chan, counters, cpVars, idleVars
<1>1. /\ UNCHANGED <<capacity, maxCap, chan, closed, counters, pc, hand, idleLeft, broken>> /\ ctl' = NoCtl
      /\ ~(ctl.step = "shrink" /\ ctl.left > 0)
  BY DEF Resized, Closed, Reopened, IInv, TypeOK
<1>2. capacity' + Excess' = capacity + Excess
  <2>1. Excess = 0 /\ Excess' = 0
    BY <1>1 DEF Excess, NoCtl, Resized, Closed, Reopened, IInv, CtlInv
  <2>. QED BY <1>1, <2>1
<1>3. mu' \in BOOLEAN /\ pool' \in BOOLEAN
  BY DEF Resized, Closed, Reopened, IInv, TypeOK
<1>4. /\ cpCapacity' \in Nat /\ cpCapacity' \in Sizes
  BY SizeAssumption DEF Resized, Closed, Reopened, IInv, TypeOK, CtlInv
<1>5. TypeOK'
  <2>1. ctl' \in [op : {"none", "resize", "close", "reopen"},
                  step : {"none", "stop", "shrink", "grow", "closed"}, to : Nat, left : Nat]
    BY <1>1 DEF NoCtl
  <2>2. idler' \in {"off", "rest", "scan", "zero"}
    BY DEF Resized, Closed, Reopened, IInv, TypeOK
  <2>. QED BY <1>1, <1>3, <1>4, <2>1, <2>2 DEF IInv, TypeOK
<1>6. CtlInv'
  <2>1. ctl'.op = "none" /\ ctl'.step = "none"
    BY <1>1 DEF NoCtl
  <2>2. CASE Resized
    BY <1>1, <1>4, <2>1, <2>2 DEF Resized, IInv, CtlInv
  <2>3. CASE Closed
    BY <1>1, <1>4, <2>1, <2>3 DEF Closed, IInv, CtlInv
  <2>4. CASE Reopened
    BY <1>1, <1>4, <2>1, <2>4 DEF Reopened, IInv, CtlInv
  <2>. QED BY <2>2, <2>3, <2>4
<1>. QED BY <1>1, <1>2, <1>5, <1>6, CtlQuietStep

(* The shrinking loop takes a wrapper or waits for one. *)
LEMMA ShrinkStep ==
  ASSUME IInv, Shrink
  PROVE  IInv'
<1>1. /\ ctl.step = "shrink" /\ ctl.left > 0 /\ hand["ctl"] = "none"
      /\ Receive("ctl") \/ (~Contains(recvq, "ctl") /\ Block("ctl"))
      /\ UNCHANGED <<cpVars, capacity, maxCap, closed, counters, pc, idleVars, ctl>>
  BY DEF Shrink
<1>. USE DEF cpVars, counters, idleVars
<1>2. /\ TypeOK /\ QueueInv /\ HandInv /\ "ctl" \in Holders /\ "ctl" \notin Clients
      /\ CtlInv' /\ Excess' = Excess /\ Counted' = Counted
  BY <1>1, HolderFacts, CtlFrame DEF IInv, Counted
<1>3. CASE Receive("ctl")
  <2>1. /\ resources' \in Seq(Wrapper) /\ recvq' = <<>>
        /\ hand' \in [Holders -> Wrapper \cup {"none"}]
        /\ Wrappers' = Wrappers /\ Opens' = Opens
        /\ \A h \in Holders \ {"ctl"} : hand'[h] = hand[h]
    BY <1>1, <1>2, <1>3, ReceiveFacts
  <2>2. TypeOK' /\ QueueInv'
    BY <1>1, <1>2, <2>1 DEF TypeOK, QueueInv
  <2>3. HandInv'
    BY <1>1, <1>2, <2>1, HolderFacts DEF HandInv
  <2>4. CountInv'
    BY <1>1, <1>2, <2>1 DEF IInv, CountInv
  <2>. QED BY <1>2, <2>2, <2>3, <2>4 DEF IInv
<1>4. CASE ~Contains(recvq, "ctl") /\ Block("ctl")
  <2>1. \A i \in 1..Len(recvq) : recvq[i] # "ctl"
    BY <1>4 DEF Contains
  <2>2. resources = <<>> /\ ~closed /\ recvq' = Append(recvq, "ctl") /\ UNCHANGED <<resources, hand>>
    BY <1>4 DEF Block
  <2>3. /\ recvq' \in Seq(Holders) /\ Len(recvq') = Len(recvq) + 1 /\ Len(recvq) \in Nat
        /\ \A i \in 1..Len(recvq) : recvq'[i] = recvq[i]
        /\ recvq'[Len(recvq) + 1] = "ctl"
    BY <1>2, <2>2 DEF TypeOK
  <2>4. TypeOK' /\ HandInv'
    BY <1>1, <1>2, <2>2, <2>3 DEF TypeOK, HandInv
  <2>5. QueueInv'
    <3>1. \A i \in 1..Len(recvq') : (i \in 1..Len(recvq) /\ recvq'[i] = recvq[i]) \/ (i = Len(recvq) + 1 /\ recvq'[i] = "ctl")
      BY <2>3
    <3>2. \A i \in 1..Len(recvq') :
            /\ hand'[recvq'[i]] = "none"
            /\ recvq'[i] \in Clients => pc'[recvq'[i]] = "wait"
            /\ recvq'[i] \notin Clients => recvq'[i] = "ctl" /\ ctl'.step = "shrink" /\ ctl'.left > 0
      BY <1>1, <1>2, <2>2, <3>1 DEF QueueInv
    <3>3. \A i, j \in 1..Len(recvq') : recvq'[i] = recvq'[j] => i = j
      BY <1>2, <2>1, <3>1 DEF QueueInv
    <3>. QED BY <1>1, <2>2, <3>2, <3>3 DEF QueueInv
  <2>6. CountInv'
    BY <1>1, <1>2, <2>2, SumFrame DEF IInv, CountInv
  <2>. QED BY <1>2, <2>4, <2>5, <2>6 DEF IInv
<1>. QED BY <1>1, <1>3, <1>4

(* The shrinking loop closes the connection of the wrapper it took. *)
LEMMA ShrinkCloseStep ==
  ASSUME IInv, ShrinkClose
  PROVE  IInv'
<1>1. /\ hand["ctl"] # "none" /\ hand' = [hand EXCEPT !["ctl"] = "none"]
      /\ active' = (IF hand["ctl"] = "open" THEN active - 1 ELSE active)
      /\ available' = available - 1 /\ ctl' = [ctl EXCEPT !.left = @ - 1]
      /\ UNCHANGED <<cpVars, capacity, maxCap, chan, closed, pc, idleVars>>
  BY DEF ShrinkClose
<1>. USE DEF cpVars, chan, idleVars
<1>2. /\ TypeOK /\ QueueInv /\ HandInv /\ "ctl" \in Holders /\ "ctl" \notin Clients
      /\ ctl.step = "shrink" /\ ctl.left > 0 /\ hand["ctl"] \in {"open", "nil"}
  BY <1>1, HolderFacts DEF IInv, HandInv, TypeOK, Wrapper
<1>3. /\ ctl'.op = ctl.op /\ ctl'.step = ctl.step /\ ctl'.to = ctl.to /\ ctl'.left = ctl.left - 1
      /\ ctl' \in [op : {"none", "resize", "close", "reopen"},
                   step : {"none", "stop", "shrink", "grow", "closed"}, to : Nat, left : Nat]
  <2>1. /\ ctl \in [op : {"none", "resize", "close", "reopen"},
                   step : {"none", "stop", "shrink", "grow", "closed"}, to : Nat, left : Nat]
        /\ ctl.left > 0
    BY <1>1, <1>2 DEF TypeOK
  <2>2. ctl.left - 1 \in Nat
    BY <2>1
  <2>. QED BY <1>1, <2>1, <2>2
<1>4. /\ hand' \in [Holders -> Wrapper \cup {"none"}] /\ hand'["ctl"] = "none"
      /\ \A h \in Holders \ {"ctl"} : hand'[h] = hand[h]
  BY <1>1, <1>2 DEF TypeOK
<1>5. /\ Wrappers' = Wrappers - 1 /\ active' = Opens' /\ active' \in Nat
  <2>1. "none" \in Wrapper \cup {"none"} /\ Wrappers \in Nat /\ Opens \in Nat /\ active = Opens
    BY Numbers DEF IInv, CountInv
  <2>2. /\ Wrappers' = Wrappers + Is(hand["ctl"], "none") - Is("none", "none")
        /\ Opens' = Opens + Is("none", "open") - Is(hand["ctl"], "open")
    BY <1>1, <1>2, <2>1, ChangeHere
  <2>3. Wrappers' = Wrappers - 1 /\ Opens' = (IF hand["ctl"] = "open" THEN Opens - 1 ELSE Opens)
    BY <1>2, <2>1, <2>2 DEF Is
  <2>4. Opens' \in Nat
    <3>1. resources' \in Seq(Wrapper)
      BY <1>1, <1>2 DEF TypeOK
    <3>. QED BY <3>1, SumTypes DEF Opens
  <2>. QED BY <1>1, <2>1, <2>3, <2>4
<1>6. TypeOK'
  BY <1>1, <1>2, <1>3, <1>4, <1>5 DEF TypeOK
<1>7. CtlInv'
  <2>1. capacity + ctl.left <= maxCap => capacity + ctl'.left <= maxCap
    BY <1>2, <1>3, Numbers
  <2>. QED BY <1>1, <1>2, <1>3, <2>1 DEF IInv, CtlInv
<1>8. QueueInv'
  <2>1. \A i \in 1..Len(recvq) : recvq[i] # "ctl" /\ recvq[i] \in Holders /\ recvq[i] \in Clients
    BY <1>1, <1>2, SMTT(30) DEF QueueInv, TypeOK
  <2>. QED BY <1>1, <1>2, <1>4, <2>1 DEF QueueInv
<1>9. HandInv'
  BY <1>1, <1>2, <1>4, HolderFacts DEF HandInv
<1>10. CountInv'
  <2>1. Excess = ctl.left /\ Excess' = ctl.left - 1 /\ Counted' = Counted
    BY <1>1, <1>2, <1>3 DEF Excess, Counted
  <2>. QED BY <1>1, <1>5, <2>1, Numbers DEF IInv, CountInv
<1>. QED BY <1>6, <1>7, <1>8, <1>9, <1>10 DEF IInv

(* The growing loop sends an empty wrapper. *)
LEMMA GrowStep ==
  ASSUME IInv, Grow
  PROVE  IInv'
<1>1. /\ ctl.step = "grow" /\ ctl.left > 0 /\ Send("nil", "ctl") /\ available' = available + 1
      /\ ctl' = [ctl EXCEPT !.left = @ - 1]
      /\ UNCHANGED <<cpVars, capacity, maxCap, closed, active, pc, idleVars>>
  BY DEF Grow
<1>. USE DEF cpVars, idleVars
<1>2. /\ TypeOK /\ QueueInv /\ HandInv /\ "ctl" \in Holders /\ "ctl" \notin Clients
      /\ hand["ctl"] = "none" /\ "nil" \in Wrapper
  BY <1>1, HolderFacts DEF IInv, HandInv, TypeOK, Wrapper
<1>3. /\ ctl'.op = ctl.op /\ ctl'.step = ctl.step /\ ctl'.to = ctl.to /\ ctl'.left = ctl.left - 1
      /\ ctl' \in [op : {"none", "resize", "close", "reopen"},
                   step : {"none", "stop", "shrink", "grow", "closed"}, to : Nat, left : Nat]
  <2>1. /\ ctl \in [op : {"none", "resize", "close", "reopen"},
                   step : {"none", "stop", "shrink", "grow", "closed"}, to : Nat, left : Nat]
        /\ ctl.left > 0
    BY <1>1, <1>2 DEF TypeOK
  <2>2. ctl.left - 1 \in Nat
    BY <2>1
  <2>. QED BY <1>1, <2>1, <2>2
<1>4. /\ \A i \in 1..Len(recvq) : recvq[i] # "ctl"
      /\ \A c \in Clients \ {"ctl"} : pc'[c] = pc[c]
  BY <1>1, <1>2 DEF QueueInv
<1>5. /\ resources' \in Seq(Wrapper) /\ recvq' \in Seq(Holders)
      /\ hand' \in [Holders -> Wrapper \cup {"none"}]
      /\ Wrappers' = Wrappers + Is(hand["ctl"], "none")
      /\ Opens' = Opens + Is("nil", "open") - Is(hand["ctl"], "open")
  BY <1>1, <1>2, <1>4, SendFacts
<1>6. Wrappers' = Wrappers + 1 /\ Opens' = Opens
  BY <1>2, <1>5, Numbers DEF Is
<1>7. TypeOK'
  BY <1>1, <1>2, <1>3, <1>5, SMTT(30) DEF TypeOK
<1>8. CtlInv'
  BY <1>1, <1>2, <1>3 DEF IInv, CtlInv, TypeOK
<1>9. QueueInv' /\ HandInv'
  BY <1>1, <1>2, <1>4, SendOrder DEF HandInv
<1>10. CountInv'
  <2>1. Excess = -ctl.left /\ Excess' = -(ctl.left - 1) /\ Counted' = Counted
    BY <1>1, <1>2, <1>3 DEF Excess, Counted
  <2>. QED BY <1>1, <1>6, <2>1, Numbers DEF IInv, CountInv
<1>. QED BY <1>7, <1>8, <1>9, <1>10 DEF IInv

(* The channel of the drained pool is closed. *)
LEMMA CloseChannelStep ==
  ASSUME IInv, CloseChannel
  PROVE  IInv'
<1>1. /\ capacity = 0 /\ ctl.step = "shrink" /\ ctl.left = 0
      /\ closed' = TRUE /\ recvq' = <<>> /\ ctl' = [ctl EXCEPT !.step = "closed"]
      /\ pc' = [c \in Clients |-> IF Contains(recvq, c) THEN "idle" ELSE pc[c]]
      /\ UNCHANGED <<cpVars, capacity, maxCap, resources, counters, hand, idleVars>>
  BY DEF CloseChannel
<1>. USE DEF cpVars, counters, idleVars
<1>2. TypeOK /\ QueueInv /\ HandInv
  BY DEF IInv
<1>3. /\ ctl'.op = ctl.op /\ ctl'.step = "closed" /\ ctl'.to = ctl.to
      /\ ctl' \in [op : {"none", "resize", "close", "reopen"},
                   step : {"none", "stop", "shrink", "grow", "closed"}, to : Nat, left : Nat]
  BY <1>1, <1>2 DEF TypeOK
<1>4. \A c \in Clients : pc'[c] = pc[c] \/ (pc[c] = "wait" /\ hand[c] = "none" /\ pc'[c] = "idle")
  BY <1>1, <1>2 DEF QueueInv, Contains
<1>5. TypeOK'
  BY <1>1, <1>2, <1>3 DEF TypeOK
<1>6. CtlInv'
  BY <1>1, <1>3 DEF IInv, CtlInv
<1>7. QueueInv'
  BY <1>1 DEF QueueInv
<1>8. HandInv'
  BY <1>1, <1>2, <1>4 DEF HandInv
<1>9. CountInv'
  <2>1. Excess = 0 /\ Excess' = 0
    BY <1>1, <1>3 DEF Excess
  <2>2. Counted' = Counted
    BY <1>4 DEF Counted
  <2>. QED BY <1>1, <2>1, <2>2, SumFrame DEF IInv, CountInv
<1>. QED BY <1>5, <1>6, <1>7, <1>8, <1>9 DEF IInv

(* A new pool: nobody has a wrapper of the old one. *)
LEMMA OpenStep ==
  ASSUME IInv, Open
  PROVE  IInv'
<1>1. /\ ctl.op = "none" /\ ~pool /\ cpCapacity > 0 /\ pool' = TRUE
      /\ capacity' = cpCapacity /\ maxCap' = cpCapacity
      /\ resources' = [i \in 1..cpCapacity |-> "nil"] /\ recvq' = <<>> /\ closed' = FALSE
      /\ active' = 0 /\ available' = cpCapacity
      /\ idler' = "rest" /\ idleLeft' = 0
      /\ pc' = [c \in Clients |-> CASE pc[c] = "get" -> "stale" [] pc[c] = "sent" -> "idle"
                                    [] OTHER -> pc[c]]
      /\ UNCHANGED <<mu, cpCapacity, broken, hand, ctl>>
  BY DEF Open, Free
<1>2. TypeOK /\ HandInv /\ cpCapacity \in Nat /\ cpCapacity > 0 /\ capacity = 0 /\ ctl.step = "none"
  BY <1>1, SizeAssumption DEF IInv, CtlInv
<1>3. Excess = 0 /\ Excess' = 0
  BY <1>1, <1>2 DEF Excess
<1>4. Held(hand) = {} /\ \A h \in Holders : hand[h] = "none"
  <2>1. Wrappers = 0
    BY <1>2, <1>3 DEF IInv, CountInv
  <2>2. Len(resources) \in Nat /\ IsFiniteSet(Held(hand)) /\ Cardinality(Held(hand)) \in Nat
    BY <1>2, FiniteHolders DEF TypeOK, Held
  <2>3. Cardinality(Held(hand)) = 0
    BY <2>1, <2>2 DEF Wrappers
  <2>4. Held(hand) = {}
    BY <2>2, <2>3, FS_EmptySet
  <2>. QED BY <2>4 DEF Held
<1>5. /\ resources' \in Seq(Wrapper) /\ Len(resources') = cpCapacity
      /\ \A i \in DOMAIN resources' : resources'[i] = "nil"
  BY <1>1, <1>2 DEF Wrapper
<1>6. \A c \in Clients : pc'[c] \in {"idle", "stale", "wait"} /\ hand'[c] = "none"
  <2>. SUFFICES ASSUME NEW c \in Clients PROVE pc'[c] \in {"idle", "stale", "wait"} /\ hand'[c] = "none"
    OBVIOUS
  <2>1. /\ hand[c] = "none" /\ pc[c] \in {"idle", "get", "stale", "wait", "held", "put", "sent"}
        /\ pc[c] # "held" /\ pc[c] # "put"
    BY <1>2, <1>4, HolderFacts DEF HandInv, TypeOK
  <2>2. pc'[c] = CASE pc[c] = "get" -> "stale" [] pc[c] = "sent" -> "idle" [] OTHER -> pc[c]
    BY <1>1
  <2>. QED BY <1>1, <2>1, <2>2
<1>7. TypeOK'
  <2>1. pc' \in [Clients -> {"idle", "get", "stale", "wait", "held", "put", "sent"}]
    <3>1. pc' = [c \in Clients |-> pc'[c]]
      BY <1>1
    <3>. QED BY <1>6, <3>1
  <2>2. mu' \in BOOLEAN /\ pool' \in BOOLEAN /\ closed' \in BOOLEAN
    BY <1>1, <1>2 DEF TypeOK
  <2>3. recvq' \in Seq(Holders) /\ capacity' \in 0..maxCap'
    BY <1>1, <1>2
  <2>. QED BY <1>1, <1>2, <1>5, <2>1, <2>2, <2>3 DEF TypeOK
<1>8. CtlInv'
  BY <1>1, <1>2 DEF IInv, CtlInv
<1>9. QueueInv'
  BY <1>1 DEF QueueInv
<1>10. HandInv'
  BY <1>1, <1>2, <1>6 DEF HandInv
<1>11. CountInv'
  <2>1. Held(hand') = {} /\ Opened(hand') = {} /\ Counted' = {} /\ At(resources', "open") = {}
    BY <1>1, <1>4, <1>5, <1>6 DEF Held, Opened, Counted, At
  <2>2. Wrappers' = cpCapacity /\ Opens' = 0 /\ Cardinality(Counted') = 0
    <3>1. Cardinality({}) = 0
      BY FS_EmptySet
    <3>2. Wrappers' = cpCapacity
      BY <1>2, <1>5, <2>1, <3>1 DEF Wrappers
    <3>3. Opens' = 0
      BY <2>1, <3>1 DEF Opens
    <3>. QED BY <2>1, <3>1, <3>2, <3>3
  <2>. QED BY <1>1, <1>2, <1>3, <2>2 DEF CountInv
<1>. QED BY <1>7, <1>8, <1>9, <1>10, <1>11 DEF IInv

(* Every step keeps the invariant. *)
LEMMA StepInv == IInv /\ [Next]_vars => IInv'
<1>. SUFFICES ASSUME IInv, [Next]_vars PROVE IInv'
  OBVIOUS
<1>1. ASSUME NEW c \in Clients, GetPool(c) \/ CtxDone(c) \/ Client(c) PROVE IInv'
  BY <1>1, GetPoolStep, CtxDoneStep, FetchStep, TakeOpenStep, ConnectStep, ConnectFailsStep,
     PutPoolStep, PutSendStep, PutCountStep DEF Client
<1>2. CASE IdleTick \/ IdleEnd
  <2>1. /\ idler # "off" /\ idler' \in {"rest", "scan", "zero"} /\ idleLeft' \in Int
        /\ UNCHANGED <<cpVars, capacity, maxCap, chan, closed, counters, pc, hand, ctl>>
    BY <1>2, Numbers DEF IdleTick, IdleEnd
  <2>. QED BY <2>1, IdlerQuietStep
<1>p. CASE IdleOverrun \/ OpenPanics
  <2>1. broken' \in {"size", "send", "extra"}
    BY <1>p DEF IdleOverrun, OpenPanics
  <2>. QED BY <1>p, <2>1, BrokenStep DEF IdleOverrun, OpenPanics
<1>3. CASE Idler
  BY <1>2, <1>3, <1>p, IdleTakeStep, IdleBackStep DEF Idler
<1>4. CASE Controller
  BY <1>4, StopIdleStep, ShrinkStep, ShrinkCloseStep, GrowStep, EndStep, CloseChannelStep, RefillStep
     DEF Controller
<1>5. CASE Request
  BY <1>5, <1>p, OpenStep, StartCloseStep, PoolSetCapacityStep, PoolSetCapacityClosedStep DEF Request
<1>6. CASE UNCHANGED vars
  <2>. USE <1>6 DEF vars, cpVars, chan, counters, idleVars
  <2>1. TypeOK' /\ QueueInv' /\ HandInv'
    BY DEF IInv, TypeOK, QueueInv, HandInv
  <2>2. CountInv'
    BY CtlFrame, SumFrame DEF IInv, CountInv, Counted
  <2>. QED BY <2>1, <2>2, CtlFrame DEF IInv
<1>. QED BY <1>1, <1>2, <1>3, <1>4, <1>5, <1>6 DEF Next

(* The invariant holds in every reachable state. *)
THEOREM Invariance == Spec => []IInv
BY InitInv, StepInv, PTL DEF Spec

(* Every variable keeps its type; the capacity never exceeds the channel's.*)
THEOREM TypeCorrect == Spec => []TypeOK
<1>1. IInv => TypeOK
  BY DEF IInv
<1>. QED BY <1>1, Invariance, PTL

(* No wrapper is lost or made up by Get, Put, the idle closer, SetCapacity,*)
(* Close or reopen, whoever has it and whoever waits for it.               *)
THEOREM NoWrapperLost == Spec => []WrappersConserved
<1>1. IInv => WrappersConserved
  <2>1. InHand = Held(hand)
    BY DEF InHand, Held
  <2>. QED BY <2>1 DEF IInv, CountInv, WrappersConserved, Wrappers
<1>. QED BY <1>1, Invariance, PTL

(* active and available say what they count. *)
THEOREM CountersAreExact == Spec => []CountersExact
<1>1. IInv => CountersExact
  <2>. SUFFICES ASSUME IInv PROVE CountersExact
    OBVIOUS
  <2>1. /\ active = Opens /\ available = (capacity + Excess) - Cardinality(Counted)
        /\ capacity \in Nat /\ Excess \in Int /\ Cardinality(Counted) \in Nat
    BY Numbers DEF IInv, CountInv
  <2>2. available = capacity + Excess - Cardinality(Counted)
    BY <2>1
  <2>. QED BY <2>1, <2>2 DEF CountersExact, Opens, At, Opened, Counted
<1>. QED BY <1>1, Invariance, PTL

(* Who has a wrapper finds the pool open and room in its channel: no Put   *)
(* panics.                                                                 *)
THEOREM RoomForEverySender == Spec => []SendersFindRoom
<1>1. IInv => SendersFindRoom
  <2>. SUFFICES ASSUME IInv PROVE SendersFindRoom
    OBVIOUS
  <2>1. ASSUME InHand # {} PROVE pool /\ ~closed /\ Len(resources) < maxCap
    <3>1. InHand = Held(hand) /\ IsFiniteSet(Held(hand)) /\ Cardinality(Held(hand)) \in Nat
      BY FiniteHolders DEF InHand, Held
    <3>2. Cardinality(Held(hand)) # 0
      BY <2>1, <3>1, FS_EmptySet
    <3>3. Len(resources) \in Nat /\ Len(resources) < capacity + Excess
      <4>1. Len(resources) \in Nat /\ Excess \in Int /\ capacity \in Nat
        BY Numbers DEF IInv, TypeOK
      <4>. QED BY <3>1, <3>2, <4>1 DEF IInv, CountInv, Wrappers
    <3>4. capacity + Excess <= maxCap
      BY DEF IInv, TypeOK, CtlInv, Excess
    <3>5. pool /\ ~closed
      <4>1. ~pool \/ closed => capacity + Excess <= 0
        BY DEF IInv, CtlInv, Excess, TypeOK
      <4>. QED BY <3>3, <4>1, Numbers DEF IInv, TypeOK
    <3>. QED BY <3>3, <3>4, <3>5, Numbers
  <2>2. idler \in {"scan", "zero"} /\ closed => cpCapacity = 0 \/ (ctl.op = "resize" /\ ctl.to = 0)
    BY DEF IInv, CtlInv, TypeOK
  <2>. QED BY <2>1, <2>2 DEF SendersFindRoom
<1>. QED BY <1>1, Invariance, PTL
=============================================================================
