---------------------------- MODULE SeqSetFacts ----------------------------
(***************************************************************************)
(* Facts about queues and finite sets that the proofs of several           *)
(* components use: what Append, Tail and RemoveAt do to a queue, and how   *)
(* they change the number of its elements of one value.                    *)
(***************************************************************************)
EXTENDS Integers, Sequences, FiniteSets, SequencesExt, FiniteSetTheorems, SequenceTheorems, TLAPS

(* The places of e in s. *)
At(s, e) == {i \in DOMAIN s : s[i] = e}

(* A finite set that loses an element. *)
LEMMA RemoveOne ==
  ASSUME NEW S, NEW e \in S, IsFiniteSet(S)
  PROVE  /\ Cardinality(S) \in Nat \ {0}
         /\ Cardinality(S \ {e}) = Cardinality(S) - 1
         /\ Cardinality(S) = 1 <=> S = {e}
<1>1. Cardinality(S) \in Nat /\ Cardinality(S) # 0
  BY FS_CardinalityType, FS_EmptySet
<1>2. IsFiniteSet(S \ {e}) /\ Cardinality(S \ {e}) = Cardinality(S) - 1
  BY FS_RemoveElement
<1>3. Cardinality(S) = 1 => S = {e}
  <2>1. Cardinality(S \ {e}) = 0 <=> S \ {e} = {}
    BY <1>2, FS_EmptySet
  <2>. QED BY <1>1, <1>2, <2>1
<1>4. S = {e} => Cardinality(S) = 1
  BY FS_Singleton
<1>. QED BY <1>1, <1>2, <1>3, <1>4

(* A sequence that is not empty has a first element. *)
LEMMA FirstElement ==
  ASSUME NEW S, NEW s \in Seq(S), s # <<>>
  PROVE  Len(s) \in Nat \ {0} /\ 1 \in 1..Len(s) /\ s[1] \in S /\ Head(s) = s[1]
OBVIOUS

(* The rest of a sequence. *)
LEMMA TailFacts ==
  ASSUME NEW S, NEW s \in Seq(S), s # <<>>
  PROVE  /\ Tail(s) \in Seq(S) /\ Len(Tail(s)) = Len(s) - 1 /\ Len(s) \in Nat \ {0}
         /\ \A i \in 1..(Len(s) - 1) : Tail(s)[i] = s[i + 1] /\ Tail(s)[i] \in S
OBVIOUS

(* A sequence that loses the element at a place. *)
LEMMA RemoveAtFacts ==
  ASSUME NEW S, NEW s \in Seq(S), NEW i \in 1..Len(s)
  PROVE  /\ RemoveAt(s, i) \in Seq(S)
         /\ Len(RemoveAt(s, i)) = Len(s) - 1
         /\ \A j \in 1..(Len(s) - 1) : RemoveAt(s, i)[j] = IF j < i THEN s[j] ELSE s[j + 1]
<1>. DEFINE a == SubSeq(s, 1, i - 1)
            b == SubSeq(s, i + 1, Len(s))
<1>1. Len(s) \in Nat /\ i \in Nat /\ i >= 1 /\ i <= Len(s)
  OBVIOUS
<1>2. a \in Seq(S) /\ Len(a) = i - 1 /\ \A j \in 1..(i - 1) : a[j] = s[j]
  BY <1>1
<1>3. b \in Seq(S) /\ Len(b) = Len(s) - i /\ \A j \in 1..(Len(s) - i) : b[j] = s[i + j]
  BY <1>1
<1>. HIDE DEF a, b
<1>4. a \o b \in Seq(S) /\ Len(a \o b) = Len(s) - 1
  <2>1. a \o b \in Seq(S) /\ Len(a \o b) = Len(a) + Len(b)
    BY <1>2, <1>3, ConcatProperties
  <2>. QED BY <1>1, <1>2, <1>3, <2>1
<1>5. ASSUME NEW j \in 1..(Len(s) - 1) PROVE (a \o b)[j] = IF j < i THEN s[j] ELSE s[j + 1]
  <2>1. CASE j < i
    BY <1>1, <1>2, <1>3, <2>1
  <2>2. CASE ~(j < i)
    <3>1. (a \o b)[j] = b[j - (i - 1)]
      BY <1>1, <1>2, <1>3, <2>2
    <3>2. j - (i - 1) \in 1..(Len(s) - i) /\ i + (j - (i - 1)) = j + 1
      BY <1>1, <2>2
    <3>. QED BY <1>3, <2>2, <3>1, <3>2
  <2>. QED BY <2>1, <2>2
<1>. QED BY <1>4, <1>5 DEF RemoveAt, a, b

(* A sequence without repetitions keeps none when an element is removed,   *)
(* and the element is gone.                                                *)
LEMMA RemoveAtDistinct ==
  ASSUME NEW S, NEW s \in Seq(S), NEW i \in 1..Len(s),
         \A j, k \in 1..Len(s) : s[j] = s[k] => j = k
  PROVE  /\ \A j, k \in 1..Len(RemoveAt(s, i)) : RemoveAt(s, i)[j] = RemoveAt(s, i)[k] => j = k
         /\ \A j \in 1..Len(RemoveAt(s, i)) : RemoveAt(s, i)[j] # s[i]
         /\ \A j \in 1..Len(RemoveAt(s, i)) : \E k \in 1..Len(s) : RemoveAt(s, i)[j] = s[k]
         /\ \A k \in 1..Len(s) : k # i => \E j \in 1..Len(RemoveAt(s, i)) : RemoveAt(s, i)[j] = s[k]
<1>. DEFINE r == RemoveAt(s, i)
            from(j) == IF j < i THEN j ELSE j + 1
<1>1. Len(s) \in Nat /\ Len(r) = Len(s) - 1 /\ \A j \in 1..Len(r) : r[j] = s[from(j)]
  <2>1. /\ Len(r) = Len(s) - 1
        /\ \A j \in 1..(Len(s) - 1) : r[j] = IF j < i THEN s[j] ELSE s[j + 1]
    BY RemoveAtFacts
  <2>. HIDE DEF r
  <2>. QED BY <2>1
<1>2. /\ \A j \in 1..Len(r) : from(j) \in 1..Len(s) /\ from(j) # i
      /\ \A j, k \in 1..Len(r) : from(j) = from(k) => j = k
  BY <1>1
<1>3. \A k \in 1..Len(s) : k # i => \E j \in 1..Len(r) : from(j) = k
  <2>. SUFFICES ASSUME NEW k \in 1..Len(s), k # i PROVE \E j \in 1..Len(r) : from(j) = k
    OBVIOUS
  <2>1. CASE k < i
    <3>1. k \in 1..Len(r) /\ from(k) = k
      BY <1>1, <2>1
    <3>. QED BY <3>1
  <2>2. CASE k > i
    <3>1. k - 1 \in 1..Len(r) /\ from(k - 1) = k
      BY <1>1, <2>2
    <3>. QED BY <3>1
  <2>. QED BY <2>1, <2>2
<1>. HIDE DEF r, from
<1>4. /\ \A j, k \in 1..Len(r) : r[j] = r[k] => j = k
      /\ \A j \in 1..Len(r) : r[j] # s[i]
      /\ \A j \in 1..Len(r) : \E k \in 1..Len(s) : r[j] = s[k]
  BY <1>1, <1>2
<1>5. \A k \in 1..Len(s) : k # i => \E j \in 1..Len(r) : r[j] = s[k]
  BY <1>1, <1>3
<1>. QED BY <1>4, <1>5 DEF r

(* The places of an element are finitely many. *)
LEMMA AtFinite ==
  ASSUME NEW S, NEW s \in Seq(S), NEW e
  PROVE  IsFiniteSet(At(s, e)) /\ Cardinality(At(s, e)) \in Nat
<1>1. IsFiniteSet(1..Len(s)) /\ At(s, e) \in SUBSET (1..Len(s))
  BY FS_Interval DEF At
<1>. QED BY <1>1, FS_Subset, FS_CardinalityType

(* One more element. *)
LEMMA AtAppend ==
  ASSUME NEW S, NEW s \in Seq(S), NEW x \in S, NEW e
  PROVE  Cardinality(At(Append(s, x), e)) = Cardinality(At(s, e)) + (IF x = e THEN 1 ELSE 0)
<1>1. /\ Append(s, x) \in Seq(S) /\ Len(Append(s, x)) = Len(s) + 1 /\ Len(s) \in Nat
      /\ \A i \in 1..Len(s) : Append(s, x)[i] = s[i]
      /\ Append(s, x)[Len(s) + 1] = x
      /\ DOMAIN Append(s, x) = 1..(Len(s) + 1) /\ DOMAIN s = 1..Len(s)
  OBVIOUS
<1>2. At(Append(s, x), e) = IF x = e THEN At(s, e) \cup {Len(s) + 1} ELSE At(s, e)
  BY <1>1 DEF At
<1>3. Len(s) + 1 \notin At(s, e)
  BY <1>1 DEF At
<1>4. IsFiniteSet(At(s, e)) /\ Cardinality(At(s, e)) \in Nat
  BY AtFinite
<1>5. Cardinality(At(s, e) \cup {Len(s) + 1}) = Cardinality(At(s, e)) + 1
  BY <1>3, <1>4, FS_AddElement
<1>. QED BY <1>2, <1>4, <1>5

(* One element fewer: the places move down by one. *)
LEMMA AtTail ==
  ASSUME NEW S, NEW s \in Seq(S), s # <<>>, NEW e
  PROVE  Cardinality(At(s, e)) = Cardinality(At(Tail(s), e)) + (IF Head(s) = e THEN 1 ELSE 0)
<1>. DEFINE T == At(Tail(s), e)
            U == At(s, e) \ {1}
            f == [i \in T |-> i + 1]
<1>1. /\ Tail(s) \in Seq(S) /\ Len(Tail(s)) = Len(s) - 1 /\ Len(s) \in Nat \ {0}
      /\ \A i \in 1..(Len(s) - 1) : Tail(s)[i] = s[i + 1]
      /\ DOMAIN s = 1..Len(s) /\ DOMAIN Tail(s) = 1..(Len(s) - 1)
      /\ 1 \in 1..Len(s) /\ Head(s) = s[1]
  BY TailFacts, FirstElement
<1>2. f \in [T -> U] /\ \A i, j \in T : f[i] = f[j] => i = j
  BY <1>1 DEF At
<1>3. \A u \in U : \E i \in T : f[i] = u
  <2>. SUFFICES ASSUME NEW u \in U PROVE u - 1 \in T /\ f[u - 1] = u
    OBVIOUS
  <2>1. u \in 1..Len(s) /\ u # 1 /\ s[u] = e
    BY <1>1 DEF At
  <2>2. u - 1 \in 1..(Len(s) - 1) /\ (u - 1) + 1 = u
    BY <1>1, <2>1
  <2>. QED BY <1>1, <2>1, <2>2 DEF At
<1>4. IsFiniteSet(T) /\ Cardinality(T) = Cardinality(U)
  <2>1. f \in Bijection(T, U)
    BY <1>2, <1>3 DEF Bijection, Injection, Surjection, IsInjective
  <2>2. ExistsBijection(T, U)
    BY <2>1 DEF ExistsBijection
  <2>3. IsFiniteSet(T)
    BY <1>1, AtFinite
  <2>. QED BY <2>2, <2>3, FS_Bijection
<1>5. IsFiniteSet(At(s, e)) /\ Cardinality(At(s, e)) \in Nat
  BY AtFinite
<1>6. 1 \in At(s, e) <=> Head(s) = e
  BY <1>1 DEF At
<1>7. Cardinality(U) = IF 1 \in At(s, e) THEN Cardinality(At(s, e)) - 1 ELSE Cardinality(At(s, e))
  BY <1>5, FS_RemoveElement
<1>. QED BY <1>4, <1>5, <1>6, <1>7

(* The elements of a sequence. *)
LEMMA RangeFacts ==
  ASSUME NEW S, NEW s \in Seq(S)
  PROVE  /\ Range(s) \subseteq S
         /\ \A x : x \in Range(s) <=> \E i \in 1..Len(s) : s[i] = x
         /\ s # <<>> => Head(s) \in Range(s)
         /\ Range(s) = {} => s = <<>>
<1>1. DOMAIN s = 1..Len(s) /\ \A i \in 1..Len(s) : s[i] \in S
  OBVIOUS
<1>2. s # <<>> => 1 \in 1..Len(s) /\ Head(s) = s[1]
  BY FirstElement
<1>. QED BY <1>1, <1>2 DEF Range

(* The empty sequence has none. *)
LEMMA RangeEmpty == Range(<<>>) = {} /\ IsInjective(<<>>)
BY DEF Range, IsInjective

(* One more element. *)
LEMMA RangeAppend ==
  ASSUME NEW S, NEW s \in Seq(S), NEW x \in S
  PROVE  /\ Append(s, x) \in Seq(S) /\ Append(s, x) # <<>>
         /\ Range(Append(s, x)) = Range(s) \cup {x}
         /\ IsInjective(s) /\ x \notin Range(s) => IsInjective(Append(s, x))
<1>1. /\ Append(s, x) \in Seq(S) /\ Len(Append(s, x)) = Len(s) + 1 /\ Len(s) \in Nat
      /\ \A i \in 1..Len(s) : Append(s, x)[i] = s[i]
      /\ Append(s, x)[Len(s) + 1] = x
      /\ DOMAIN Append(s, x) = 1..(Len(s) + 1) /\ DOMAIN s = 1..Len(s)
  OBVIOUS
<1>2. \A i \in 1..(Len(s) + 1) :
        \/ i \in 1..Len(s) /\ Append(s, x)[i] = s[i]
        \/ i = Len(s) + 1 /\ Append(s, x)[i] = x
  BY <1>1
<1>3. Len(s) + 1 \in 1..(Len(s) + 1) /\ \A i \in 1..Len(s) : i \in 1..(Len(s) + 1)
  BY <1>1
<1>4. Range(Append(s, x)) = Range(s) \cup {x}
  BY <1>1, <1>2, <1>3 DEF Range
<1>5. ASSUME IsInjective(s), x \notin Range(s) PROVE IsInjective(Append(s, x))
  BY <1>1, <1>2, <1>5 DEF IsInjective, Range
<1>6. Append(s, x) # <<>>
  BY <1>1
<1>. QED BY <1>1, <1>4, <1>5, <1>6

(* The first element of a sequence without repetitions goes. *)
LEMMA RangeTail ==
  ASSUME NEW S, NEW s \in Seq(S), s # <<>>, IsInjective(s)
  PROVE  /\ Tail(s) \in Seq(S) /\ Head(s) \in S /\ Head(s) \in Range(s)
         /\ Range(Tail(s)) = Range(s) \ {Head(s)}
         /\ IsInjective(Tail(s))
<1>1. /\ Tail(s) \in Seq(S) /\ Len(Tail(s)) = Len(s) - 1 /\ Len(s) \in Nat \ {0}
      /\ \A i \in 1..(Len(s) - 1) : Tail(s)[i] = s[i + 1] /\ i + 1 \in 1..Len(s) /\ i + 1 # 1
      /\ DOMAIN s = 1..Len(s) /\ DOMAIN Tail(s) = 1..(Len(s) - 1)
      /\ 1 \in 1..Len(s) /\ Head(s) = s[1] /\ s[1] \in S
  <2>1. /\ Tail(s) \in Seq(S) /\ Len(Tail(s)) = Len(s) - 1 /\ Len(s) \in Nat \ {0}
        /\ \A i \in 1..(Len(s) - 1) : Tail(s)[i] = s[i + 1]
    BY TailFacts
  <2>2. 1 \in 1..Len(s) /\ Head(s) = s[1] /\ s[1] \in S
    BY FirstElement
  <2>3. DOMAIN s = 1..Len(s) /\ DOMAIN Tail(s) = 1..Len(Tail(s))
    BY <2>1
  <2>. QED BY <2>1, <2>2, <2>3
<1>2. \A k \in 1..Len(s) : k # 1 => k - 1 \in 1..(Len(s) - 1) /\ (k - 1) + 1 = k
  BY <1>1
<1>3. Range(Tail(s)) \subseteq Range(s) \ {Head(s)}
  BY <1>1 DEF Range, IsInjective
<1>4. ASSUME NEW x \in Range(s) \ {Head(s)} PROVE x \in Range(Tail(s))
  <2>1. PICK k \in 1..Len(s) : s[k] = x
    BY <1>1 DEF Range
  <2>2. k # 1
    BY <1>1, <2>1
  <2>3. k - 1 \in 1..(Len(s) - 1) /\ Tail(s)[k - 1] = x
    BY <1>1, <1>2, <2>1, <2>2
  <2>. QED BY <1>1, <2>3 DEF Range
<1>5. IsInjective(Tail(s))
  <2>. SUFFICES ASSUME NEW i \in 1..(Len(s) - 1), NEW j \in 1..(Len(s) - 1), Tail(s)[i] = Tail(s)[j] PROVE i = j
    BY <1>1 DEF IsInjective
  <2>1. i + 1 = j + 1
    BY <1>1 DEF IsInjective
  <2>. QED BY <1>1, <2>1
<1>. QED BY <1>1, <1>3, <1>4, <1>5 DEF Range

(* An element of a sequence without repetitions is removed. *)
LEMMA RangeRemoveAt ==
  ASSUME NEW S, NEW s \in Seq(S), NEW i \in 1..Len(s), IsInjective(s)
  PROVE  /\ RemoveAt(s, i) \in Seq(S)
         /\ Range(RemoveAt(s, i)) = Range(s) \ {s[i]}
         /\ IsInjective(RemoveAt(s, i))
<1>. DEFINE r == RemoveAt(s, i)
<1>1. r \in Seq(S) /\ DOMAIN r = 1..Len(r) /\ DOMAIN s = 1..Len(s)
  BY RemoveAtFacts
<1>2. \A j, k \in 1..Len(s) : s[j] = s[k] => j = k
  BY <1>1 DEF IsInjective
<1>3. /\ \A j, k \in 1..Len(r) : r[j] = r[k] => j = k
      /\ \A j \in 1..Len(r) : r[j] # s[i]
      /\ \A j \in 1..Len(r) : \E k \in 1..Len(s) : r[j] = s[k]
      /\ \A k \in 1..Len(s) : k # i => \E j \in 1..Len(r) : r[j] = s[k]
  BY <1>2, RemoveAtDistinct
<1>. HIDE DEF r
<1>4. Range(r) = Range(s) \ {s[i]}
  <2>1. \A x : x \in Range(s) <=> \E k \in 1..Len(s) : x = s[k]
    BY <1>1 DEF Range
  <2>2. \A x : x \in Range(r) <=> \E j \in 1..Len(r) : x = r[j]
    BY <1>1 DEF Range
  <2>3. ASSUME NEW x \in Range(s) \ {s[i]} PROVE x \in Range(r)
    BY <1>3, <2>1, <2>2, <2>3
  <2>. QED BY <1>3, <2>1, <2>2, <2>3
<1>5. IsInjective(r)
  BY <1>1, <1>3 DEF IsInjective
<1>. QED BY <1>1, <1>4, <1>5 DEF r
=============================================================================
