---------------------------- MODULE BoundedBuffer ----------------------------
(***************************************************************************)
(* What vtgate's failover buffer promises, whatever its threads do: at     *)
(* most Size requests occupy it over all shards, a request occupies it at  *)
(* most once, and the requests of a shard are let go in the order in which *)
(* they came, but for those that give up by themselves.                    *)
(***************************************************************************)
EXTENDS Naturals, Sequences, FiniteSets, SequencesExt

CONSTANTS
  Shards,    \* shards that may fail over
  Requests,  \* requests of clients
  Size       \* -buffer_size

VARIABLES
  held,      \* held[s]: the requests that wait, oldest first
  leaving,   \* requests that were let go and still occupy their slot
  seen       \* requests that were ever held

vars == <<held, leaving, seen>>

Held == UNION {Range(held[s]) : s \in Shards}
Occupied == Cardinality(Held \cup leaving)

Init == held = [s \in Shards |-> <<>>] /\ leaving = {} /\ seen = {}

(* A request finds a free slot. *)
Enter(s, r) ==
  /\ r \notin seen /\ Occupied < Size
  /\ held' = [held EXCEPT ![s] = Append(@, r)]
  /\ seen' = seen \cup {r} /\ UNCHANGED leaving

(* A request takes over the slot of the shard's oldest one. *)
Replace(s, r) ==
  /\ r \notin seen /\ Occupied = Size /\ held[s] # <<>>
  /\ held' = [held EXCEPT ![s] = Append(Tail(@), r)]
  /\ seen' = seen \cup {r} /\ UNCHANGED leaving

(* The shard's oldest request is let go: it is retried or fails. *)
LetGo(s) ==
  /\ held[s] # <<>>
  /\ held' = [held EXCEPT ![s] = Tail(@)]
  /\ leaving' = leaving \cup {Head(held[s])} /\ UNCHANGED seen

(* A waiting request gives up. *)
GiveUp(s, r) ==
  /\ \E i \in DOMAIN held[s] : held[s][i] = r /\ held' = [held EXCEPT ![s] = RemoveAt(@, i)]
  /\ leaving' = leaving \cup {r} /\ UNCHANGED seen

(* A request that was let go is over and its slot is free. *)
Leave(r) == r \in leaving /\ leaving' = leaving \ {r} /\ UNCHANGED <<held, seen>>

Next ==
  \/ \E s \in Shards, r \in Requests : Enter(s, r) \/ Replace(s, r) \/ GiveUp(s, r)
  \/ \E s \in Shards : LetGo(s)
  \/ \E r \in Requests : Leave(r)

Spec == Init /\ [][Next]_vars
=============================================================================
