-------------------------- MODULE TxEngine_proofs --------------------------
(***************************************************************************)
(* Safety of TxEngine for any connections, pool size, limit and flags.     *)
(***************************************************************************)
EXTENDS TxEngine, TLAPS

(* Where the RPC that creates or begins on a connection has not opened its *)
(* transaction yet.                                                        *)
Opening == {"args", "get", "register", "lock", "init"}

(* Where a transition is once the pool was seen empty.                     *)
Emptied == {"waitRollback", "stopKiller", "closeStray", "closeConns", "closed"}

(* An RPC and the step it is at fit together.                              *)
HandlerInv ==
  \A c \in Conns :
    /\ handler[c] = "none" <=> kind[c] = "none"
    /\ handler[c] = "args" => kind[c] \in {"Begin", "BeginReserved"}
    /\ handler[c] \in {"get", "register"} => kind[c] \in Kinds
    /\ handler[c] \in {"lock", "init"} => kind[c] \in Kinds \cup {"BeginReserved"}
    /\ kind[c] = "inTransaction" => handler[c] \in {"get", "register", "lock", "init", "busy"}

(* A connection is registered, tainted and in a transaction only where its *)
(* RPC has come that far; a registered one that is not tainted holds a     *)
(* resource of the connpool.                                               *)
ConnInv ==
  \A c \in Conns :
    /\ inTx[c] # "none" => c \in active /\ handler[c] \notin Opening
    /\ c \in active => c \in tainted \cup slots
    /\ c \in tainted => /\ c \in active \/ handler[c] = "renew"
                        /\ c \notin slots /\ kind[c] # "inTransaction"
    /\ handler[c] \in {"get", "register"} \/ (handler[c] = "args" /\ kind[c] = "Begin")
         => c \notin active \cup tainted
    /\ handler[c] = "register" => c \in slots
    /\ handler[c] = "renew" => c \in tainted /\ c \notin active

(* A transition holds the state Transitioning; begin requests are over     *)
(* when it goes on, transactions of clients when the pool was empty, and   *)
(* every resource is back when the connpool is closed.                     *)
TermInv ==
  /\ ctl = "none" <=> state # "Transitioning"
  /\ state = "NotServing" \/ ctl \in Emptied \cup {"waitEmpty"} => beginRequests = {}
  /\ ctl \in Emptied => \A c \in Conns : inTx[c] # "none" => kind[c] = "inTransaction"
  /\ state = "NotServing" \/ ctl = "closed" => ~poolOpen /\ slots = {}

(* In a read-only term a Begin that will open a transaction has read that. *)
ReadOnlyInv ==
  state = "AcceptingReadOnly" =>
    \A c \in Conns :
      kind[c] \in {"Begin", "BeginReserved"} /\ handler[c] \in Opening \ {"args"} => c \in readOnly

IInv ==
  /\ TypeOK /\ OneOwner /\ NoSlotLeaks /\ HandlerInv /\ ConnInv /\ TermInv /\ ReadOnlyInv
  /\ NotServingNoTx /\ ReadOnlyNoWriter

(* A new RPC starts on a connection that does not exist yet. *)
LEMMA RequestStep ==
  ASSUME IInv, NEW c \in Conns, NEW k \in Kinds, Request(c, k)
  PROVE  IInv'
<1>. USE DEF IInv, TypeOK, Holding, Kinds, Accepting, engVars, poolVars, connVars, reqVars,
      Request, Unused, Available, PrimaryServed, LimiterGet
<1>1. TypeOK' /\ OneOwner' /\ NoSlotLeaks'
  BY SizeAssumption DEF OneOwner, NoSlotLeaks, HandlerInv, ConnInv
<1>2. HandlerInv' /\ ConnInv'
  BY DEF HandlerInv, ConnInv, OneOwner, NoSlotLeaks, Opening
<1>3. TermInv'
  BY DEF TermInv, OneOwner, HandlerInv, ConnInv, Opening, Emptied, beginRequests, BeginKinds
<1>4. ReadOnlyInv' /\ NotServingNoTx' /\ ReadOnlyNoWriter'
  BY DEF ReadOnlyInv, NotServingNoTx, ReadOnlyNoWriter, TermInv, HandlerInv, ConnInv, OneOwner, Opening,
    beginRequests, BeginKinds
<1>. QED BY <1>1, <1>2, <1>3, <1>4

(* A query locks an idle connection. *)
LEMMA UseStep ==
  ASSUME IInv, NEW c \in Conns, Use(c)
  PROVE  IInv'
<1>. USE DEF IInv, TypeOK, Holding, Kinds, Accepting, engVars, poolVars, connVars, reqVars, Use,
      Lock, Idle
<1>1. TypeOK' /\ OneOwner' /\ NoSlotLeaks'
  BY DEF OneOwner, NoSlotLeaks, HandlerInv, ConnInv
<1>2. HandlerInv' /\ ConnInv'
  BY DEF HandlerInv, ConnInv, OneOwner, NoSlotLeaks, Opening
<1>3. TermInv'
  BY DEF TermInv, OneOwner, HandlerInv, ConnInv, Opening, Emptied, beginRequests, BeginKinds
<1>4. ReadOnlyInv' /\ NotServingNoTx' /\ ReadOnlyNoWriter'
  BY DEF ReadOnlyInv, NotServingNoTx, ReadOnlyNoWriter, TermInv, HandlerInv, ConnInv, OneOwner, Opening,
    beginRequests, BeginKinds
<1>. QED BY <1>1, <1>2, <1>3, <1>4

(* Reserve taints the connection of a transaction. *)
LEMMA ReserveTxStep ==
  ASSUME IInv, NEW c \in Conns, ReserveTx(c)
  PROVE  IInv'
<1>. USE DEF IInv, TypeOK, Holding, Kinds, Accepting, engVars, poolVars, connVars, reqVars,
      ReserveTx, Lock, Idle, Taint
<1>1. TypeOK' /\ OneOwner' /\ NoSlotLeaks'
  BY DEF OneOwner, NoSlotLeaks, HandlerInv, ConnInv
<1>2. HandlerInv' /\ ConnInv'
  BY DEF HandlerInv, ConnInv, OneOwner, NoSlotLeaks, Opening
<1>3. TermInv'
  BY DEF TermInv, OneOwner, HandlerInv, ConnInv, Opening, Emptied, beginRequests, BeginKinds
<1>4. ReadOnlyInv' /\ NotServingNoTx' /\ ReadOnlyNoWriter'
  BY DEF ReadOnlyInv, NotServingNoTx, ReadOnlyNoWriter, TermInv, HandlerInv, ConnInv, OneOwner, Opening,
    beginRequests, BeginKinds
<1>. QED BY <1>1, <1>2, <1>3, <1>4

(* Begin on a reserved connection starts. *)
LEMMA BeginReservedStep ==
  ASSUME IInv, NEW c \in Conns, BeginReserved(c)
  PROVE  IInv'
<1>. USE DEF IInv, TypeOK, Holding, Kinds, Accepting, engVars, poolVars, connVars, reqVars,
      BeginReserved, Available
<1>1. TypeOK' /\ OneOwner' /\ NoSlotLeaks'
  BY DEF OneOwner, NoSlotLeaks, HandlerInv, ConnInv
<1>2. HandlerInv' /\ ConnInv'
  BY DEF HandlerInv, ConnInv, OneOwner, NoSlotLeaks, Opening
<1>3. TermInv'
  BY DEF TermInv, OneOwner, HandlerInv, ConnInv, Opening, Emptied, beginRequests, BeginKinds
<1>4. ReadOnlyInv' /\ NotServingNoTx' /\ ReadOnlyNoWriter'
  BY DEF ReadOnlyInv, NotServingNoTx, ReadOnlyNoWriter, TermInv, HandlerInv, ConnInv, OneOwner, Opening,
    beginRequests, BeginKinds
<1>. QED BY <1>1, <1>2, <1>3, <1>4

(* Commit or Rollback locks the connection. *)
LEMMA StartFinishStep ==
  ASSUME IInv, NEW c \in Conns, StartFinish(c)
  PROVE  IInv'
<1>. USE DEF IInv, TypeOK, Holding, Kinds, Accepting, engVars, poolVars, connVars, reqVars,
      StartFinish, Lock, Idle
<1>1. TypeOK' /\ OneOwner' /\ NoSlotLeaks'
  BY DEF OneOwner, NoSlotLeaks, HandlerInv, ConnInv
<1>2. HandlerInv' /\ ConnInv'
  BY DEF HandlerInv, ConnInv, OneOwner, NoSlotLeaks, Opening
<1>3. TermInv'
  BY DEF TermInv, OneOwner, HandlerInv, ConnInv, Opening, Emptied, beginRequests, BeginKinds
<1>4. ReadOnlyInv' /\ NotServingNoTx' /\ ReadOnlyNoWriter'
  BY DEF ReadOnlyInv, NotServingNoTx, ReadOnlyNoWriter, TermInv, HandlerInv, ConnInv, OneOwner, Opening,
    beginRequests, BeginKinds
<1>. QED BY <1>1, <1>2, <1>3, <1>4

(* Release locks the connection. *)
LEMMA StartReleaseStep ==
  ASSUME IInv, NEW c \in Conns, StartRelease(c)
  PROVE  IInv'
<1>. USE DEF IInv, TypeOK, Holding, Kinds, Accepting, engVars, poolVars, connVars, reqVars,
      StartRelease, Lock, Idle
<1>1. TypeOK' /\ OneOwner' /\ NoSlotLeaks'
  BY DEF OneOwner, NoSlotLeaks, HandlerInv, ConnInv
<1>2. HandlerInv' /\ ConnInv'
  BY DEF HandlerInv, ConnInv, OneOwner, NoSlotLeaks, Opening
<1>3. TermInv'
  BY DEF TermInv, OneOwner, HandlerInv, ConnInv, Opening, Emptied, beginRequests, BeginKinds
<1>4. ReadOnlyInv' /\ NotServingNoTx' /\ ReadOnlyNoWriter'
  BY DEF ReadOnlyInv, NotServingNoTx, ReadOnlyNoWriter, TermInv, HandlerInv, ConnInv, OneOwner, Opening,
    beginRequests, BeginKinds
<1>. QED BY <1>1, <1>2, <1>3, <1>4

(* Prepare locks the connection. *)
LEMMA PrepareStep ==
  ASSUME IInv, NEW c \in Conns, Prepare(c)
  PROVE  IInv'
<1>. USE DEF IInv, TypeOK, Holding, Kinds, Accepting, engVars, poolVars, connVars, reqVars,
      Prepare, Lock, Idle
<1>1. TypeOK' /\ OneOwner' /\ NoSlotLeaks'
  BY DEF OneOwner, NoSlotLeaks, HandlerInv, ConnInv
<1>2. HandlerInv' /\ ConnInv'
  BY DEF HandlerInv, ConnInv, OneOwner, NoSlotLeaks, Opening
<1>3. TermInv'
  BY DEF TermInv, OneOwner, HandlerInv, ConnInv, Opening, Emptied, beginRequests, BeginKinds
<1>4. ReadOnlyInv' /\ NotServingNoTx' /\ ReadOnlyNoWriter'
  BY DEF ReadOnlyInv, NotServingNoTx, ReadOnlyNoWriter, TermInv, HandlerInv, ConnInv, OneOwner, Opening,
    beginRequests, BeginKinds
<1>. QED BY <1>1, <1>2, <1>3, <1>4

(* A prepared connection is taken from its pool. *)
LEMMA FetchPreparedStep ==
  ASSUME IInv, NEW c \in Conns, FetchPrepared(c)
  PROVE  IInv'
<1>. USE DEF IInv, TypeOK, Holding, Kinds, Accepting, engVars, poolVars, connVars, reqVars,
      FetchPrepared, Advance
<1>1. TypeOK' /\ OneOwner' /\ NoSlotLeaks'
  BY DEF OneOwner, NoSlotLeaks, HandlerInv, ConnInv
<1>2. HandlerInv' /\ ConnInv'
  BY DEF HandlerInv, ConnInv, OneOwner, NoSlotLeaks, Opening
<1>3. TermInv'
  BY DEF TermInv, OneOwner, HandlerInv, ConnInv, Opening, Emptied, beginRequests, BeginKinds
<1>4. ReadOnlyInv' /\ NotServingNoTx' /\ ReadOnlyNoWriter'
  BY DEF ReadOnlyInv, NotServingNoTx, ReadOnlyNoWriter, TermInv, HandlerInv, ConnInv, OneOwner, Opening,
    beginRequests, BeginKinds
<1>. QED BY <1>1, <1>2, <1>3, <1>4

(* Begin reads the state: the read-only term is remembered. *)
LEMMA BeginArgsStep ==
  ASSUME IInv, NEW c \in Conns, BeginArgs(c)
  PROVE  IInv'
<1>. USE DEF IInv, TypeOK, Holding, Kinds, Accepting, engVars, poolVars, connVars, reqVars,
      BeginArgs, LimiterGet, End
<1>1. TypeOK' /\ OneOwner' /\ NoSlotLeaks'
  BY SizeAssumption DEF OneOwner, NoSlotLeaks, HandlerInv, ConnInv
<1>2. HandlerInv' /\ ConnInv'
  BY DEF HandlerInv, ConnInv, OneOwner, NoSlotLeaks, Opening
<1>3. TermInv'
  BY DEF TermInv, OneOwner, HandlerInv, ConnInv, Opening, Emptied, beginRequests, BeginKinds
<1>4. ReadOnlyInv' /\ NotServingNoTx' /\ ReadOnlyNoWriter'
  BY DEF ReadOnlyInv, NotServingNoTx, ReadOnlyNoWriter, TermInv, HandlerInv, ConnInv, OneOwner, Opening,
    beginRequests, BeginKinds
<1>. QED BY <1>1, <1>2, <1>3, <1>4

(* A resource is taken, or the RPC fails. *)
LEMMA GetConnStep ==
  ASSUME IInv, NEW c \in Conns, GetConn(c)
  PROVE  IInv'
<1>. USE DEF IInv, TypeOK, Holding, Kinds, Accepting, engVars, poolVars, connVars, reqVars,
      GetConn, Advance, End, FailedBegin, LimiterRelease
<1>1. TypeOK' /\ OneOwner' /\ NoSlotLeaks'
  BY SizeAssumption DEF OneOwner, NoSlotLeaks, HandlerInv, ConnInv
<1>2. HandlerInv' /\ ConnInv'
  BY DEF HandlerInv, ConnInv, OneOwner, NoSlotLeaks, Opening
<1>3. TermInv'
  BY DEF TermInv, OneOwner, HandlerInv, ConnInv, Opening, Emptied, beginRequests, BeginKinds
<1>4. ReadOnlyInv' /\ NotServingNoTx' /\ ReadOnlyNoWriter'
  BY DEF ReadOnlyInv, NotServingNoTx, ReadOnlyNoWriter, TermInv, HandlerInv, ConnInv, OneOwner, Opening,
    beginRequests, BeginKinds
<1>. QED BY <1>1, <1>2, <1>3, <1>4

(* The connection becomes visible to the killer. *)
LEMMA RegisterStep ==
  ASSUME IInv, NEW c \in Conns, Register(c)
  PROVE  IInv'
<1>. USE DEF IInv, TypeOK, Holding, Kinds, Accepting, engVars, poolVars, connVars, reqVars,
      Register, Advance
<1>1. TypeOK' /\ OneOwner' /\ NoSlotLeaks'
  BY DEF OneOwner, NoSlotLeaks, HandlerInv, ConnInv
<1>2. HandlerInv' /\ ConnInv'
  BY DEF HandlerInv, ConnInv, OneOwner, NoSlotLeaks, Opening
<1>3. TermInv'
  BY DEF TermInv, OneOwner, HandlerInv, ConnInv, Opening, Emptied, beginRequests, BeginKinds
<1>4. ReadOnlyInv' /\ NotServingNoTx' /\ ReadOnlyNoWriter'
  BY DEF ReadOnlyInv, NotServingNoTx, ReadOnlyNoWriter, TermInv, HandlerInv, ConnInv, OneOwner, Opening,
    beginRequests, BeginKinds
<1>. QED BY <1>1, <1>2, <1>3, <1>4

(* It is locked, or somebody was faster. *)
LEMMA GetAndLockStep ==
  ASSUME IInv, NEW c \in Conns, GetAndLock(c)
  PROVE  IInv'
<1>. USE DEF IInv, TypeOK, Holding, Kinds, Accepting, engVars, poolVars, connVars, reqVars,
      GetAndLock, Idle, Advance, End, FailedBegin, LimiterRelease
<1>1. TypeOK' /\ OneOwner' /\ NoSlotLeaks'
  BY SizeAssumption DEF OneOwner, NoSlotLeaks, HandlerInv, ConnInv
<1>2. HandlerInv' /\ ConnInv'
  BY DEF HandlerInv, ConnInv, OneOwner, NoSlotLeaks, Opening
<1>3. TermInv'
  BY DEF TermInv, OneOwner, HandlerInv, ConnInv, Opening, Emptied, beginRequests, BeginKinds
<1>4. ReadOnlyInv' /\ NotServingNoTx' /\ ReadOnlyNoWriter'
  BY DEF ReadOnlyInv, NotServingNoTx, ReadOnlyNoWriter, TermInv, HandlerInv, ConnInv, OneOwner, Opening,
    beginRequests, BeginKinds
<1>. QED BY <1>1, <1>2, <1>3, <1>4

(* The transaction is opened: only 2PC does so once the engine has stopped. *)
LEMMA InitConnStep ==
  ASSUME IInv, NEW c \in Conns, InitConn(c)
  PROVE  IInv'
<1>. USE DEF IInv, TypeOK, Holding, Kinds, Accepting, engVars, poolVars, connVars, reqVars,
      InitConn, Taint, CreateTransaction, Advance, Release, ReleaseAll, End, FailedBegin,
      LimiterRelease
<1>1. TypeOK' /\ OneOwner' /\ NoSlotLeaks'
  BY SizeAssumption DEF OneOwner, NoSlotLeaks, HandlerInv, ConnInv
<1>2. HandlerInv' /\ ConnInv'
  BY DEF HandlerInv, ConnInv, OneOwner, NoSlotLeaks, Opening
<1>3. TermInv'
  BY DEF TermInv, OneOwner, HandlerInv, ConnInv, Opening, Emptied, beginRequests, BeginKinds
<1>4. ReadOnlyInv' /\ NotServingNoTx' /\ ReadOnlyNoWriter'
  BY DEF ReadOnlyInv, NotServingNoTx, ReadOnlyNoWriter, TermInv, HandlerInv, ConnInv, OneOwner, Opening,
    beginRequests, BeginKinds
<1>. QED BY <1>1, <1>2, <1>3, <1>4

(* A connection is returned, or released because it is to be killed. *)
LEMMA UnlockStep ==
  ASSUME IInv, NEW c \in Conns, Unlock(c)
  PROVE  IInv'
<1>. USE DEF IInv, TypeOK, Holding, Kinds, Accepting, engVars, poolVars, connVars, reqVars,
      Unlock, ToBeKilled, Release, ReleaseAll, End, Advance
<1>1. TypeOK' /\ OneOwner' /\ NoSlotLeaks'
  BY DEF OneOwner, NoSlotLeaks, HandlerInv, ConnInv
<1>2. HandlerInv' /\ ConnInv'
  BY DEF HandlerInv, ConnInv, OneOwner, NoSlotLeaks, Opening
<1>3. TermInv'
  BY DEF TermInv, OneOwner, HandlerInv, ConnInv, Opening, Emptied, beginRequests, BeginKinds
<1>4. ReadOnlyInv' /\ NotServingNoTx' /\ ReadOnlyNoWriter'
  BY DEF ReadOnlyInv, NotServingNoTx, ReadOnlyNoWriter, TermInv, HandlerInv, ConnInv, OneOwner, Opening,
    beginRequests, BeginKinds
<1>. QED BY <1>1, <1>2, <1>3, <1>4

(* A connection is marked as not in use. *)
LEMMA PutStep ==
  ASSUME IInv, NEW c \in Conns, Put(c)
  PROVE  IInv'
<1>. USE DEF IInv, TypeOK, Holding, Kinds, Accepting, engVars, poolVars, connVars, reqVars, Put,
      End
<1>1. TypeOK' /\ OneOwner' /\ NoSlotLeaks'
  BY DEF OneOwner, NoSlotLeaks, HandlerInv, ConnInv
<1>2. HandlerInv' /\ ConnInv'
  BY DEF HandlerInv, ConnInv, OneOwner, NoSlotLeaks, Opening
<1>3. TermInv'
  BY DEF TermInv, OneOwner, HandlerInv, ConnInv, Opening, Emptied, beginRequests, BeginKinds
<1>4. ReadOnlyInv' /\ NotServingNoTx' /\ ReadOnlyNoWriter'
  BY DEF ReadOnlyInv, NotServingNoTx, ReadOnlyNoWriter, TermInv, HandlerInv, ConnInv, OneOwner, Opening,
    beginRequests, BeginKinds
<1>. QED BY <1>1, <1>2, <1>3, <1>4

(* A transaction of 2PC ends. *)
LEMMA EndInTransactionStep ==
  ASSUME IInv, NEW c \in Conns, EndInTransaction(c)
  PROVE  IInv'
<1>. USE DEF IInv, TypeOK, Holding, Kinds, Accepting, engVars, poolVars, connVars, reqVars,
      EndInTransaction, Release, ReleaseAll, End, TxComplete, LimiterRelease
<1>1. TypeOK' /\ OneOwner' /\ NoSlotLeaks'
  BY SizeAssumption DEF OneOwner, NoSlotLeaks, HandlerInv, ConnInv
<1>2. HandlerInv' /\ ConnInv'
  BY DEF HandlerInv, ConnInv, OneOwner, NoSlotLeaks, Opening
<1>3. TermInv'
  BY DEF TermInv, OneOwner, HandlerInv, ConnInv, Opening, Emptied, beginRequests, BeginKinds
<1>4. ReadOnlyInv' /\ NotServingNoTx' /\ ReadOnlyNoWriter'
  BY DEF ReadOnlyInv, NotServingNoTx, ReadOnlyNoWriter, TermInv, HandlerInv, ConnInv, OneOwner, Opening,
    beginRequests, BeginKinds
<1>. QED BY <1>1, <1>2, <1>3, <1>4

(* A transaction ends; a tainted connection is on its way to a new id. *)
LEMMA TxFinishStep ==
  ASSUME IInv, NEW c \in Conns, TxFinish(c)
  PROVE  IInv'
<1>. USE DEF IInv, TypeOK, Holding, Kinds, Accepting, engVars, poolVars, connVars, reqVars,
      TxFinish, TxComplete, LimiterRelease, Release, ReleaseAll, End, Advance
<1>1. TypeOK' /\ OneOwner' /\ NoSlotLeaks'
  BY SizeAssumption DEF OneOwner, NoSlotLeaks, HandlerInv, ConnInv
<1>2. HandlerInv' /\ ConnInv'
  BY DEF HandlerInv, ConnInv, OneOwner, NoSlotLeaks, Opening
<1>3. TermInv'
  BY DEF TermInv, OneOwner, HandlerInv, ConnInv, Opening, Emptied, beginRequests, BeginKinds
<1>4. ReadOnlyInv' /\ NotServingNoTx' /\ ReadOnlyNoWriter'
  BY DEF ReadOnlyInv, NotServingNoTx, ReadOnlyNoWriter, TermInv, HandlerInv, ConnInv, OneOwner, Opening,
    beginRequests, BeginKinds
<1>. QED BY <1>1, <1>2, <1>3, <1>4

(* The renewed connection is registered, without a transaction. *)
LEMMA RenewConnStep ==
  ASSUME IInv, NEW c \in Conns, RenewConn(c)
  PROVE  IInv'
<1>. USE DEF IInv, TypeOK, Holding, Kinds, Accepting, engVars, poolVars, connVars, reqVars,
      RenewConn, End
<1>1. TypeOK' /\ OneOwner' /\ NoSlotLeaks'
  BY DEF OneOwner, NoSlotLeaks, HandlerInv, ConnInv
<1>2. HandlerInv' /\ ConnInv'
  BY DEF HandlerInv, ConnInv, OneOwner, NoSlotLeaks, Opening
<1>3. TermInv'
  BY DEF TermInv, OneOwner, HandlerInv, ConnInv, Opening, Emptied, beginRequests, BeginKinds
<1>4. ReadOnlyInv' /\ NotServingNoTx' /\ ReadOnlyNoWriter'
  BY DEF ReadOnlyInv, NotServingNoTx, ReadOnlyNoWriter, TermInv, HandlerInv, ConnInv, OneOwner, Opening,
    beginRequests, BeginKinds
<1>. QED BY <1>1, <1>2, <1>3, <1>4

(* A reserved connection is released. *)
LEMMA ReleaseReservedStep ==
  ASSUME IInv, NEW c \in Conns, ReleaseReserved(c)
  PROVE  IInv'
<1>. USE DEF IInv, TypeOK, Holding, Kinds, Accepting, engVars, poolVars, connVars, reqVars,
      ReleaseReserved, Release, ReleaseAll, End
<1>1. TypeOK' /\ OneOwner' /\ NoSlotLeaks'
  BY DEF OneOwner, NoSlotLeaks, HandlerInv, ConnInv
<1>2. HandlerInv' /\ ConnInv'
  BY DEF HandlerInv, ConnInv, OneOwner, NoSlotLeaks, Opening
<1>3. TermInv'
  BY DEF TermInv, OneOwner, HandlerInv, ConnInv, Opening, Emptied, beginRequests, BeginKinds
<1>4. ReadOnlyInv' /\ NotServingNoTx' /\ ReadOnlyNoWriter'
  BY DEF ReadOnlyInv, NotServingNoTx, ReadOnlyNoWriter, TermInv, HandlerInv, ConnInv, OneOwner, Opening,
    beginRequests, BeginKinds
<1>. QED BY <1>1, <1>2, <1>3, <1>4

(* A connection enters the prepared pool, or is released. *)
LEMMA PreparePutStep ==
  ASSUME IInv, NEW c \in Conns, PreparePut(c)
  PROVE  IInv'
<1>. USE DEF IInv, TypeOK, Holding, Kinds, Accepting, engVars, poolVars, connVars, reqVars,
      PreparePut, Advance, Release, ReleaseAll, End, TxComplete, LimiterRelease
<1>1. TypeOK' /\ OneOwner' /\ NoSlotLeaks'
  BY SizeAssumption DEF OneOwner, NoSlotLeaks, HandlerInv, ConnInv
<1>2. HandlerInv' /\ ConnInv'
  BY DEF HandlerInv, ConnInv, OneOwner, NoSlotLeaks, Opening
<1>3. TermInv'
  BY DEF TermInv, OneOwner, HandlerInv, ConnInv, Opening, Emptied, beginRequests, BeginKinds
<1>4. ReadOnlyInv' /\ NotServingNoTx' /\ ReadOnlyNoWriter'
  BY DEF ReadOnlyInv, NotServingNoTx, ReadOnlyNoWriter, TermInv, HandlerInv, ConnInv, OneOwner, Opening,
    beginRequests, BeginKinds
<1>. QED BY <1>1, <1>2, <1>3, <1>4

(* A prepared transaction ends. *)
LEMMA EndPreparedStep ==
  ASSUME IInv, NEW c \in Conns, EndPrepared(c)
  PROVE  IInv'
<1>. USE DEF IInv, TypeOK, Holding, Kinds, Accepting, engVars, poolVars, connVars, reqVars,
      EndPrepared, Release, ReleaseAll, End, TxComplete, LimiterRelease
<1>1. TypeOK' /\ OneOwner' /\ NoSlotLeaks'
  BY SizeAssumption DEF OneOwner, NoSlotLeaks, HandlerInv, ConnInv
<1>2. HandlerInv' /\ ConnInv'
  BY DEF HandlerInv, ConnInv, OneOwner, NoSlotLeaks, Opening
<1>3. TermInv'
  BY DEF TermInv, OneOwner, HandlerInv, ConnInv, Opening, Emptied, beginRequests, BeginKinds
<1>4. ReadOnlyInv' /\ NotServingNoTx' /\ ReadOnlyNoWriter'
  BY DEF ReadOnlyInv, NotServingNoTx, ReadOnlyNoWriter, TermInv, HandlerInv, ConnInv, OneOwner, Opening,
    beginRequests, BeginKinds
<1>. QED BY <1>1, <1>2, <1>3, <1>4

(* The killer locks an idle connection. *)
LEMMA GetOutdatedStep ==
  ASSUME IInv, NEW c \in Conns, GetOutdated(c)
  PROVE  IInv'
<1>. USE DEF IInv, TypeOK, Holding, Kinds, Accepting, engVars, poolVars, connVars, reqVars,
      GetOutdated, Idle
<1>1. TypeOK' /\ OneOwner' /\ NoSlotLeaks'
  BY DEF OneOwner, NoSlotLeaks, HandlerInv, ConnInv
<1>2. HandlerInv' /\ ConnInv'
  BY DEF HandlerInv, ConnInv, OneOwner, NoSlotLeaks, Opening
<1>3. TermInv'
  BY DEF TermInv, OneOwner, HandlerInv, ConnInv, Opening, Emptied, beginRequests, BeginKinds
<1>4. ReadOnlyInv' /\ NotServingNoTx' /\ ReadOnlyNoWriter'
  BY DEF ReadOnlyInv, NotServingNoTx, ReadOnlyNoWriter, TermInv, HandlerInv, ConnInv, OneOwner, Opening,
    beginRequests, BeginKinds
<1>. QED BY <1>1, <1>2, <1>3, <1>4

(* The killer or the shutdown releases it. *)
LEMMA ReleaseVictimStep ==
  ASSUME IInv, NEW c \in Conns, ReleaseVictim(c)
  PROVE  IInv'
<1>. USE DEF IInv, TypeOK, Holding, Kinds, Accepting, engVars, poolVars, connVars, reqVars,
      ReleaseVictim, Release, ReleaseAll, TxComplete, LimiterRelease
<1>1. TypeOK' /\ OneOwner' /\ NoSlotLeaks'
  BY SizeAssumption DEF OneOwner, NoSlotLeaks, HandlerInv, ConnInv
<1>2. HandlerInv' /\ ConnInv'
  BY DEF HandlerInv, ConnInv, OneOwner, NoSlotLeaks, Opening
<1>3. TermInv'
  BY DEF TermInv, OneOwner, HandlerInv, ConnInv, Opening, Emptied, beginRequests, BeginKinds
<1>4. ReadOnlyInv' /\ NotServingNoTx' /\ ReadOnlyNoWriter'
  BY DEF ReadOnlyInv, NotServingNoTx, ReadOnlyNoWriter, TermInv, HandlerInv, ConnInv, OneOwner, Opening,
    beginRequests, BeginKinds
<1>. QED BY <1>1, <1>2, <1>3, <1>4

(* The shutdown locks idle connections. *)
LEMMA FilterStep ==
  ASSUME IInv, FilterNonTx \/ FilterAll
  PROVE  IInv'
<1>. USE DEF IInv, TypeOK, Holding, Kinds, Accepting, engVars, poolVars, connVars, reqVars,
      FilterNonTx, FilterAll, Rb, GetByFilter, Idle
<1>1. TypeOK' /\ OneOwner' /\ NoSlotLeaks'
  BY DEF OneOwner, NoSlotLeaks, HandlerInv, ConnInv
<1>2. HandlerInv' /\ ConnInv'
  BY DEF HandlerInv, ConnInv, OneOwner, NoSlotLeaks, Opening
<1>3. TermInv'
  BY DEF TermInv, OneOwner, HandlerInv, ConnInv, Opening, Emptied, beginRequests, BeginKinds
<1>4. ReadOnlyInv' /\ NotServingNoTx' /\ ReadOnlyNoWriter'
  BY DEF ReadOnlyInv, NotServingNoTx, ReadOnlyNoWriter, TermInv, HandlerInv, ConnInv, OneOwner, Opening,
    beginRequests, BeginKinds
<1>. QED BY <1>1, <1>2, <1>3, <1>4

(* Steps of the shutdown that leave the connections alone. *)
LEMMA QuietStep ==
  ASSUME IInv, 
         \/ ShutdownNonTx \/ AfterNonTx \/ GraceEnds \/ AfterPrepared
         \/ ShutdownAll \/ AfterAll \/ RollbackDone \/ StopKiller
  PROVE  IInv'
<1>. USE DEF IInv, TypeOK, Holding, Kinds, Accepting, engVars, poolVars, connVars, reqVars,
      ShutdownNonTx, AfterNonTx, GraceEnds, AfterPrepared, ShutdownAll, AfterAll, Rb,
      RollbackDone, StopKiller, Ctl
<1>1. TypeOK' /\ OneOwner' /\ NoSlotLeaks'
  <2>1. CASE ShutdownNonTx \/ ShutdownAll
    BY <2>1 DEF OneOwner, NoSlotLeaks
  <2>2. CASE AfterNonTx
    BY <2>2 DEF OneOwner, NoSlotLeaks
  <2>3. CASE GraceEnds \/ AfterPrepared \/ AfterAll
    BY <2>3 DEF OneOwner, NoSlotLeaks
  <2>4. CASE RollbackDone \/ StopKiller
    <3>1. ticking' \in BOOLEAN
      BY <2>4
    <3>. QED BY <2>4, <3>1 DEF OneOwner, NoSlotLeaks
  <2>. QED BY <2>1, <2>2, <2>3, <2>4
<1>2. HandlerInv' /\ ConnInv'
  BY DEF HandlerInv, ConnInv, OneOwner, NoSlotLeaks, Opening
<1>3. TermInv'
  BY DEF TermInv, OneOwner, HandlerInv, ConnInv, Opening, Emptied, beginRequests, BeginKinds
<1>4. ReadOnlyInv' /\ NotServingNoTx' /\ ReadOnlyNoWriter'
  BY DEF ReadOnlyInv, NotServingNoTx, ReadOnlyNoWriter, TermInv, HandlerInv, ConnInv, OneOwner, Opening,
    beginRequests, BeginKinds
<1>. QED BY <1>1, <1>2, <1>3, <1>4

(* The prepared connections change hands. *)
LEMMA RollbackPreparedStep ==
  ASSUME IInv, RollbackPrepared
  PROVE  IInv'
<1>. USE DEF IInv, TypeOK, Holding, Kinds, Accepting, engVars, poolVars, connVars, reqVars,
      RollbackPrepared, Rb
<1>1. TypeOK' /\ OneOwner' /\ NoSlotLeaks'
  BY DEF OneOwner, NoSlotLeaks, HandlerInv, ConnInv
<1>2. HandlerInv' /\ ConnInv'
  BY DEF HandlerInv, ConnInv, OneOwner, NoSlotLeaks, Opening
<1>3. TermInv'
  BY DEF TermInv, OneOwner, HandlerInv, ConnInv, Opening, Emptied, beginRequests, BeginKinds
<1>4. ReadOnlyInv' /\ NotServingNoTx' /\ ReadOnlyNoWriter'
  BY DEF ReadOnlyInv, NotServingNoTx, ReadOnlyNoWriter, TermInv, HandlerInv, ConnInv, OneOwner, Opening,
    beginRequests, BeginKinds
<1>. QED BY <1>1, <1>2, <1>3, <1>4

(* The begin requests are over. *)
LEMMA WaitBeginsStep ==
  ASSUME IInv, WaitBegins
  PROVE  IInv'
<1>. USE DEF IInv, TypeOK, Holding, Kinds, Accepting, engVars, poolVars, connVars, reqVars,
      WaitBegins, Ctl
<1>1. TypeOK' /\ OneOwner' /\ NoSlotLeaks'
  BY DEF OneOwner, NoSlotLeaks, HandlerInv, ConnInv
<1>2. HandlerInv' /\ ConnInv'
  BY DEF HandlerInv, ConnInv, OneOwner, NoSlotLeaks, Opening
<1>3. TermInv'
  BY DEF TermInv, OneOwner, HandlerInv, ConnInv, Opening, Emptied, beginRequests, BeginKinds
<1>4. ReadOnlyInv' /\ NotServingNoTx' /\ ReadOnlyNoWriter'
  BY DEF ReadOnlyInv, NotServingNoTx, ReadOnlyNoWriter, TermInv, HandlerInv, ConnInv, OneOwner, Opening,
    beginRequests, BeginKinds
<1>. QED BY <1>1, <1>2, <1>3, <1>4

(* The pool is empty: no client transaction is left. *)
LEMMA WaitForEmptyStep ==
  ASSUME IInv, WaitForEmpty
  PROVE  IInv'
<1>. USE DEF IInv, TypeOK, Holding, Kinds, Accepting, engVars, poolVars, connVars, reqVars,
      WaitForEmpty, Ctl
<1>1. TypeOK' /\ OneOwner' /\ NoSlotLeaks'
  BY DEF OneOwner, NoSlotLeaks, HandlerInv, ConnInv
<1>2. HandlerInv' /\ ConnInv'
  BY DEF HandlerInv, ConnInv, OneOwner, NoSlotLeaks, Opening
<1>3. TermInv'
  BY DEF TermInv, OneOwner, HandlerInv, ConnInv, Opening, Emptied, beginRequests, BeginKinds
<1>4. ReadOnlyInv' /\ NotServingNoTx' /\ ReadOnlyNoWriter'
  BY DEF ReadOnlyInv, NotServingNoTx, ReadOnlyNoWriter, TermInv, HandlerInv, ConnInv, OneOwner, Opening,
    beginRequests, BeginKinds
<1>. QED BY <1>1, <1>2, <1>3, <1>4

(* What is idle is released. *)
LEMMA CloseStrayStep ==
  ASSUME IInv, CloseStray
  PROVE  IInv'
<1>. USE DEF IInv, TypeOK, Holding, Kinds, Accepting, engVars, poolVars, connVars, reqVars,
      CloseStray, Ctl, ReleaseAll, Idle
<1>1. TypeOK' /\ OneOwner' /\ NoSlotLeaks'
  BY DEF OneOwner, NoSlotLeaks, HandlerInv, ConnInv
<1>2. HandlerInv' /\ ConnInv'
  BY DEF HandlerInv, ConnInv, OneOwner, NoSlotLeaks, Opening
<1>3. TermInv'
  BY DEF TermInv, OneOwner, HandlerInv, ConnInv, Opening, Emptied, beginRequests, BeginKinds
<1>4. ReadOnlyInv' /\ NotServingNoTx' /\ ReadOnlyNoWriter'
  BY DEF ReadOnlyInv, NotServingNoTx, ReadOnlyNoWriter, TermInv, HandlerInv, ConnInv, OneOwner, Opening,
    beginRequests, BeginKinds
<1>. QED BY <1>1, <1>2, <1>3, <1>4

(* Every resource came back. *)
LEMMA CloseConnsStep ==
  ASSUME IInv, CloseConns
  PROVE  IInv'
<1>. USE DEF IInv, TypeOK, Holding, Kinds, Accepting, engVars, poolVars, connVars, reqVars,
      CloseConns, Ctl
<1>1. TypeOK' /\ OneOwner' /\ NoSlotLeaks'
  BY ZenonT(60) DEF OneOwner, NoSlotLeaks, HandlerInv, ConnInv
<1>2. HandlerInv' /\ ConnInv'
  BY DEF HandlerInv, ConnInv, OneOwner, NoSlotLeaks, Opening
<1>3. TermInv'
  BY DEF TermInv, OneOwner, HandlerInv, ConnInv, Opening, Emptied, beginRequests, BeginKinds
<1>4. ReadOnlyInv' /\ NotServingNoTx' /\ ReadOnlyNoWriter'
  BY DEF ReadOnlyInv, NotServingNoTx, ReadOnlyNoWriter, TermInv, HandlerInv, ConnInv, OneOwner, Opening,
    beginRequests, BeginKinds
<1>. QED BY <1>1, <1>2, <1>3, <1>4

(* The new term starts without a transaction. *)
LEMMA ArriveStep ==
  ASSUME IInv, Arrive
  PROVE  IInv'
<1>. USE DEF IInv, TypeOK, Holding, Kinds, Accepting, engVars, poolVars, connVars, reqVars,
      Arrive, Ctl, Open
<1>1. TypeOK' /\ OneOwner' /\ NoSlotLeaks'
  BY ZenonT(60) DEF OneOwner, NoSlotLeaks, HandlerInv, ConnInv
<1>2. HandlerInv' /\ ConnInv'
  BY DEF HandlerInv, ConnInv, OneOwner, NoSlotLeaks, Opening
<1>3. TermInv'
  BY DEF TermInv, OneOwner, HandlerInv, ConnInv, Opening, Emptied, beginRequests, BeginKinds
<1>4. ReadOnlyInv' /\ NotServingNoTx' /\ ReadOnlyNoWriter'
  BY DEF ReadOnlyInv, NotServingNoTx, ReadOnlyNoWriter, TermInv, HandlerInv, ConnInv, OneOwner, Opening,
    beginRequests, BeginKinds, Emptied
<1>. QED BY <1>1, <1>2, <1>3, <1>4

(* A transition starts, or a closed engine opens. *)
LEMMA TransitionStep ==
  ASSUME IInv, NEW t \in Accepting \cup {"NotServing"}, Transition(t)
  PROVE  IInv'
<1>. USE DEF IInv, TypeOK, Holding, Kinds, Accepting, engVars, poolVars, connVars, reqVars,
      Transition, Open
<1>1. TypeOK' /\ OneOwner' /\ NoSlotLeaks'
  BY ZenonT(60) DEF OneOwner, NoSlotLeaks, HandlerInv, ConnInv
<1>2. HandlerInv' /\ ConnInv'
  BY DEF HandlerInv, ConnInv, OneOwner, NoSlotLeaks, Opening
<1>3. TermInv'
  BY DEF TermInv, OneOwner, HandlerInv, ConnInv, Opening, Emptied, beginRequests, BeginKinds
<1>4. ReadOnlyInv' /\ NotServingNoTx' /\ ReadOnlyNoWriter'
  BY DEF ReadOnlyInv, NotServingNoTx, ReadOnlyNoWriter, TermInv, HandlerInv, ConnInv, OneOwner, Opening,
    beginRequests, BeginKinds
<1>. QED BY <1>1, <1>2, <1>3, <1>4

(* The initial states satisfy the invariant. *)
LEMMA InitInv == Init => IInv
<1>. SUFFICES ASSUME Init PROVE IInv
  OBVIOUS
<1>. USE DEF Init
<1>0. immediate \in BOOLEAN /\ poolOpen \in BOOLEAN /\ ticking \in BOOLEAN
  OBVIOUS
<1>1. TypeOK /\ OneOwner /\ NoSlotLeaks
  BY <1>0, SizeAssumption DEF TypeOK, OneOwner, NoSlotLeaks, Holding, Accepting, Kinds
<1>2. HandlerInv /\ ConnInv /\ TermInv /\ ReadOnlyInv
  BY DEF HandlerInv, ConnInv, TermInv, ReadOnlyInv, Opening, Emptied, beginRequests, Kinds
<1>. QED BY <1>1, <1>2 DEF IInv, NotServingNoTx, ReadOnlyNoWriter

(* Every step preserves it. *)
LEMMA StepInv == IInv /\ [Next]_vars => IInv'
<1>. SUFFICES ASSUME IInv, [Next]_vars PROVE IInv'
  OBVIOUS
<1>1. ASSUME NEW c \in Conns, RequestNext(c) PROVE IInv'
  BY <1>1, RequestStep, UseStep, ReserveTxStep, BeginReservedStep, StartFinishStep, StartReleaseStep,
    PrepareStep, FetchPreparedStep DEF RequestNext
<1>2. ASSUME NEW c \in Conns, HandlerNext(c) PROVE IInv'
  BY <1>2, BeginArgsStep, GetConnStep, RegisterStep, GetAndLockStep, InitConnStep, UnlockStep, PutStep,
    EndInTransactionStep, TxFinishStep, RenewConnStep, ReleaseReservedStep, PreparePutStep,
    EndPreparedStep DEF HandlerNext
<1>3. ASSUME NEW c \in Conns, GetOutdated(c) \/ ReleaseVictim(c) PROVE IInv'
  BY <1>3, GetOutdatedStep, ReleaseVictimStep
<1>4. CASE RollbackNext
  BY <1>4, FilterStep, QuietStep, RollbackPreparedStep DEF RollbackNext
<1>5. CASE CtlNext
  BY <1>5, WaitBeginsStep, WaitForEmptyStep, QuietStep, CloseStrayStep, CloseConnsStep, ArriveStep DEF CtlNext
<1>6. ASSUME NEW t \in Accepting \cup {"NotServing"}, Transition(t) PROVE IInv'
  BY <1>6, TransitionStep
<1>7. CASE UNCHANGED vars
  BY <1>7 DEF vars, engVars, poolVars, connVars, reqVars, IInv, TypeOK, OneOwner, NoSlotLeaks, HandlerInv,
    ConnInv, TermInv, ReadOnlyInv, NotServingNoTx, ReadOnlyNoWriter, beginRequests
<1>. QED BY <1>1, <1>2, <1>3, <1>4, <1>5, <1>6, <1>7 DEF Next

LEMMA Invariance == Spec => []IInv
BY InitInv, StepInv, PTL DEF Spec

-----------------------------------------------------------------------------
(* Every variable of the engine, its pool and its limiter keeps its type,  *)
(* whatever requests, kills and transitions interleave: only registered    *)
(* connections are in use, and the limiter never counts beyond its bound.  *)
THEOREM TypeCorrect == Spec => []TypeOK
BY Invariance, PTL DEF IInv

(* An RPC handler, the transaction killer and the shutdown never work on a *)
(* connection at the same time: Numbered's in-use mark has one owner.      *)
THEOREM OneOwnerHolds == Spec => []OneOwner
BY Invariance, PTL DEF IInv

(* No error path, kill, renewal or shutdown leaks a resource of the        *)
(* connpool: who holds one is registered, or about to be.                  *)
THEOREM NoSlotLeaksHolds == Spec => []NoSlotLeaks
BY Invariance, PTL DEF IInv

(* When the engine has come to NotServing, no transaction is open: neither *)
(* a Begin in progress nor a renewed connection nor a metadata transaction *)
(* of 2PC slips past shutdownLocked.                                       *)
THEOREM NotServingHasNoTx == Spec => []NotServingNoTx
BY Invariance, PTL DEF IInv

(* A read-only term has no read-write transaction of a client, although    *)
(* Begin reads the engine's state without stateLock.                       *)
THEOREM ReadOnlyHasNoWriter == Spec => []ReadOnlyNoWriter
BY Invariance, PTL DEF IInv
=============================================================================
