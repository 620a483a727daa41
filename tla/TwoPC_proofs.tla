---------------------------- MODULE TwoPC_proofs ----------------------------
(***************************************************************************)
(* Safety of TwoPC for any participants, resolvers and fault bounds.       *)
(***************************************************************************)
EXTENDS TwoPC, TLAPS

(* Where commit2PC may still start to commit. *)
Early == {"create", "prepare", "startCommit"}

Committing == {"commitRequest", "fetched", "committed", "failing", "marking"}
RollingBack == {"rollbackRequest", "deleted", "notDeleted"}

(* The metadata row, the client's MM transaction and the verdict agree.    *)
MetadataInv ==
  /\ mmTx = "committed" <=> decision = "commit"
  /\ dtState = "PREPARE" => decision = "none"
  /\ dtState = "COMMIT" => decision = "commit"
  /\ dtState = "ROLLBACK" => decision = "rollback"
  /\ pc[Gate] = "create" => dtState = "none" /\ decision = "none"

(* A coordinator that acts on a verdict acts on the one that was reached.  *)
CoordinatorInv ==
  \A c \in Coordinators :
    /\ pc[c] \in Early => c = Gate
    /\ seen[c] = "COMMIT" => decision = "commit"
    /\ seen[c] = "ROLLBACK" => decision = "rollback"
    /\ pc[c] = "readParts" => seen[c] # "none"
    /\ pc[c] = "commit" => decision = "commit"
    /\ pc[c] = "rollback" => decision = "rollback"
    /\ pc[c] = "conclude" => decision # "none"

(* So does every handler, however late it runs.                            *)
HandlerInv ==
  \A c \in Coordinators, p \in Participants :
    /\ handler[c][p] \in Committing => decision = "commit"
    /\ handler[c][p] \in RollingBack => decision = "rollback"

(* While commit2PC may still commit nobody has, and it has told nothing;   *)
(* a Prepare it saw succeed is over and left a redo log.                   *)
GateInv ==
  /\ pc[Gate] \in Early =>
       /\ decision # "commit" /\ result = "none"
       /\ \A p \in Participants : handler[Gate][p] = "idle"
  /\ result = "aborted" => decision # "commit"
  /\ \A p \in Participants :
       \/ pc[Gate] = "prepare" /\ reply[Gate][p] = "ok"
       \/ pc[Gate] = "startCommit"
       => /\ prep[p] = "ended"
          /\ p \in writers /\ decision # "rollback" => redo[p] # "none"
  /\ decision = "commit" => \A p \in Participants : prep[p] = "ended"

(* Only a writer has anything to log, to hold or to commit.                *)
WriterInv ==
  \A p \in Participants :
    \/ prep[p] \in {"put", "saving"} \/ conns[p] # "none" \/ redo[p] # "none"
    \/ recovery[p] = "replay" \/ \E c \in Coordinators : handler[c][p] = "fetched"
    => p \in writers

Fetched(p) == \E c \in Coordinators : handler[c][p] = "fetched"

(* One connection at most holds a participant's changes: the client's, the *)
(* one in the prepared pool, the one a handler took, or the replayed one;  *)
(* and none once they are applied.                                         *)
ConnInv ==
  /\ \A p \in Participants :
       /\ tx[p] = "active" => conns[p] = "none"
       /\ conns[p] = "replayed" => tx[p] = "done"
       /\ phase[p] = "down" => /\ conns[p] = "none" /\ tx[p] = "done" /\ ~Fetched(p)
                               /\ recovery[p] # "replay"
       /\ recovery[p] # "idle" => conns[p] = "none" /\ tx[p] = "done" /\ ~Fetched(p)
       /\ Fetched(p) => conns[p] = "none" /\ tx[p] = "done"
       /\ applied[p] # 0 => /\ applied[p] = 1 /\ decision = "commit"
                            /\ redo[p] = "none" /\ conns[p] = "none"
                            /\ recovery[p] # "replay" /\ ~Fetched(p)
  /\ \A p \in Participants, c1, c2 \in Coordinators :
       handler[c1][p] = "fetched" /\ handler[c2][p] = "fetched" => c1 = c2

IInv ==
  /\ TypeOK /\ MetadataInv /\ CoordinatorInv /\ HandlerInv /\ GateInv
  /\ WriterInv /\ ConnInv /\ CommitRecoverable

-----------------------------------------------------------------------------
(* Type correctness *)

LEMMA TypeGate ==
  ASSUME TypeOK, GateNext
  PROVE  TypeOK'
  <1> USE DEF mmVars, callVars, gateVars, poolVars, dataVars, engineVars
  <1> Gate \in Coordinators BY DEF Coordinators
  <1>1. CASE GateCreate
    BY <1>1 DEF TypeOK, PcType, PrepType, ReplyType, GateCreate, CreateTransaction, Goto
  <1>2. CASE GateCreateFails
    BY <1>2 DEF TypeOK, PcType, TxType, GateCreateFails, SessionRollback, Fault, Goto
  <1>3. CASE GatePrepareCollect
    BY <1>3 DEF TypeOK, PcType, GatePrepareCollect, Goto
  <1>4. CASE GateStartCommit
    BY <1>4 DEF TypeOK, PcType, PartsType, HandlerType, ReplyType, GateStartCommit, StartCommit, Transition, Goto, Send
  <1>5. CASE GateStartCommitFails
    BY <1>5 DEF TypeOK, PcType, GateStartCommitFails, StartCommitFails, StartCommit, Transition, Fault, NoFault, Goto
  <1> QED BY <1>1, <1>2, <1>3, <1>4, <1>5 DEF GateNext

LEMMA TypeResolve ==
  ASSUME TypeOK, NEW c \in Coordinators, ResolveNext(c)
  PROVE  TypeOK'
  <1> USE DEF mmVars, callVars, gateVars, poolVars, dataVars, engineVars
  <1> Gate \in Coordinators BY DEF Coordinators
  <1>1. CASE ResolveStart(c)
    BY <1>1 DEF TypeOK, PcType, ResolveStart, Goto
  <1>2. CASE ReadState(c)
    BY <1>2 DEF TypeOK, PcType, SeenType, ReadState, Goto, Return
  <1>3. CASE ReadParticipants(c)
    <2>1. pc' \in PcType
      BY <1>3 DEF TypeOK, PcType, ReadParticipants, Goto, Send
    <2>2. parts' \in PartsType
      BY <1>3 DEF TypeOK, PartsType, ReadParticipants, Goto, Send
    <2>3. handler' \in HandlerType
      BY <1>3 DEF TypeOK, HandlerType, PartsType, ReadParticipants, Goto, Send
    <2>4. reply' \in ReplyType
      BY <1>3 DEF TypeOK, ReplyType, PartsType, ReadParticipants, Goto, Send
    <2> QED BY <1>3, <2>1, <2>2, <2>3, <2>4 DEF TypeOK, ReadParticipants, Goto, Send
  <1>4. CASE ResolveSetRollback(c)
    BY <1>4 DEF TypeOK, PcType, HandlerType, ReplyType, PartsType, ResolveSetRollback, SetRollback, RollbackMMTx, Transition, Goto, Send
  <1>5. CASE Resume(c)
    BY <1>5 DEF TypeOK, PcType, Resume, Goto, Return
  <1>6. CASE Conclude(c)
    BY <1>6 DEF TypeOK, PcType, Conclude, ConcludeTransaction, DeleteTransaction, Goto, Return
  <1>7. CASE MMCallFails(c)
    BY <1>7 DEF TypeOK, PcType, MMCallFails, SetRollback, RollbackMMTx, Transition, ConcludeTransaction, DeleteTransaction, Goto, Return, Fault, NoFault
  <1> QED BY <1>1, <1>2, <1>3, <1>4, <1>5, <1>6, <1>7 DEF ResolveNext

LEMMA TypeCall ==
  ASSUME TypeOK, NEW c \in Coordinators, NEW p \in Participants, CallNext(c, p)
  PROVE  TypeOK'
  <1> USE DEF mmVars, callVars, gateVars, poolVars, dataVars, engineVars
  <1> Gate \in Coordinators BY DEF Coordinators
  <1>1. CASE FetchForCommit(c, p)
    <2>1. handler' \in HandlerType
      BY <1>1 DEF TypeOK, HandlerType, FetchForCommit, Answer, Advance
    <2>2. reply' \in ReplyType
      BY <1>1 DEF TypeOK, ReplyType, FetchForCommit, Answer, Advance
    <2>3. conns' \in ConnsType
      BY <1>1 DEF TypeOK, ConnsType, FetchForCommit, Answer, Advance
    <2>4. reserved' \in ReservedType
      BY <1>1 DEF TypeOK, ReservedType, FetchForCommit, Answer, Advance
    <2>5. tx' \in TxType
      BY <1>1 DEF TypeOK, TxType, FetchForCommit, Answer, Advance
    <2> QED BY <1>1, <2>1, <2>2, <2>3, <2>4, <2>5 DEF TypeOK, FetchForCommit, Answer, Advance
  <1>2. CASE CommitFetched(c, p)
    <2>1. handler' \in HandlerType
      BY <1>2 DEF TypeOK, HandlerType, CommitFetched, CommitConn, Advance, Fault, NoFault
    <2>2. redo' \in RedoType
      BY <1>2 DEF TypeOK, RedoType, CommitFetched, CommitConn, Advance, Fault, NoFault
    <2>3. applied' \in AppliedType
      BY <1>2 DEF TypeOK, AppliedType, CommitFetched, CommitConn, Advance, Fault, NoFault
    <2> QED BY <1>2, <2>1, <2>2, <2>3 DEF TypeOK, CommitFetched, CommitConn, Advance, Fault, NoFault
  <1>3. CASE Forget(c, p)
    BY <1>3 DEF TypeOK, HandlerType, ReplyType, ReservedType, Forget, Answer
  <1>4. CASE SetFailed(c, p)
    BY <1>4 DEF TypeOK, HandlerType, ReservedType, SetFailed, Advance
  <1>5. CASE UpdateRedo(c, p)
    BY <1>5 DEF TypeOK, HandlerType, ReplyType, RedoType, UpdateRedo, Answer, Fault, NoFault
  <1>6. CASE DeleteRedo(c, p)
    BY <1>6, SMTT(30) DEF TypeOK, HandlerType, RedoType, DeleteRedo, Advance, Fault, NoFault
  <1>7. CASE FetchForRollback(c, p)
    <2>1. handler' \in HandlerType
      BY <1>7 DEF TypeOK, HandlerType, FetchForRollback, Answer
    <2>2. reply' \in ReplyType
      BY <1>7 DEF TypeOK, ReplyType, FetchForRollback, Answer
    <2>3. conns' \in ConnsType
      BY <1>7 DEF TypeOK, ConnsType, FetchForRollback, Answer
    <2>4. reserved' \in ReservedType
      BY <1>7 DEF TypeOK, ReservedType, FetchForRollback, Answer
    <2>5. tx' \in TxType
      BY <1>7 DEF TypeOK, TxType, FetchForRollback, Answer
    <2> QED BY <1>7, <2>1, <2>2, <2>3, <2>4, <2>5 DEF TypeOK, FetchForRollback, Answer
  <1>8. CASE LoseRequest(c, p)
    BY <1>8 DEF TypeOK, HandlerType, ReplyType, LoseRequest, Answer, Fault, NoFault, Requests
  <1>9. CASE Timeout(c, p)
    BY <1>9 DEF TypeOK, ReplyType, Timeout, Fault
  <1>10. CASE GatewayRetry(c, p)
    <2>1. prep' \in PrepType
      BY <1>10 DEF TypeOK, PrepType, GatewayRetry, Fault
    <2>2. handler' \in HandlerType
      BY <1>10 DEF TypeOK, HandlerType, GatewayRetry, Fault
    <2>3. reply' \in ReplyType
      BY <1>10 DEF TypeOK, ReplyType, GatewayRetry, Fault
    <2> QED BY <1>10, <2>1, <2>2, <2>3 DEF TypeOK, GatewayRetry, Fault
  <1> QED BY <1>1, <1>2, <1>3, <1>4, <1>5, <1>6, <1>7, <1>8, <1>9, <1>10 DEF CallNext

LEMMA TypeTablet ==
  ASSUME TypeOK, NEW p \in Participants, TabletNext(p)
  PROVE  TypeOK'
  <1> USE DEF mmVars, callVars, gateVars, poolVars, dataVars, engineVars
  <1> Gate \in Coordinators BY DEF Coordinators
  <1>1. CASE PreparePut(p)
    BY <1>1 DEF TypeOK, PrepType, ReplyType, ConnsType, TxType, PreparePut, AnswerPrepare, CanPut, Fault, NoFault
  <1>2. CASE PrepareReadQueries(p)
    BY <1>2 DEF TypeOK, PrepType, ReplyType, PrepareReadQueries, AnswerPrepare, Fault, NoFault
  <1>3. CASE PrepareSaveRedo(p)
    <2>1. prep' \in PrepType
      BY <1>3 DEF TypeOK, PrepType, PrepareSaveRedo, AnswerPrepare, SaveRedo, Fault, NoFault
    <2>2. reply' \in ReplyType
      BY <1>3 DEF TypeOK, ReplyType, PrepareSaveRedo, AnswerPrepare, SaveRedo, Fault, NoFault
    <2>3. redo' \in RedoType
      BY <1>3 DEF TypeOK, RedoType, PrepareSaveRedo, AnswerPrepare, SaveRedo, Fault, NoFault
    <2> QED BY <1>3, <2>1, <2>2, <2>3 DEF TypeOK, PrepareSaveRedo, AnswerPrepare, SaveRedo, Fault, NoFault
  <1>4. CASE LosePrepare(p)
    BY <1>4 DEF TypeOK, PrepType, ReplyType, LosePrepare, AnswerPrepare, Fault, NoFault
  <1>5. CASE KillTx(p)
    BY <1>5 DEF TypeOK, TxType, KillTx
  <1>6. CASE Shutdown(p)
    BY <1>6 DEF TypeOK, PhaseType, ConnsType, ReservedType, TxType, Shutdown, FetchAll, Restart
  <1>7. CASE Drained(p)
    BY <1>7 DEF TypeOK, PhaseType, Drained
  <1>8. CASE Crash(p)
    <2>1. phase' \in PhaseType
      BY <1>8 DEF TypeOK, PhaseType, Crash, Restart, CommitConn, SaveRedo
    <2>2. recovery' \in RecoveryType
      BY <1>8 DEF TypeOK, RecoveryType, Crash, Restart, CommitConn, SaveRedo
    <2>3. conns' \in ConnsType
      BY <1>8 DEF TypeOK, ConnsType, Crash, Restart, CommitConn, SaveRedo
    <2>4. reserved' \in ReservedType
      BY <1>8 DEF TypeOK, ReservedType, Crash, Restart, CommitConn, SaveRedo
    <2>5. tx' \in TxType
      BY <1>8 DEF TypeOK, TxType, Crash, Restart, CommitConn, SaveRedo
    <2>6. redo' \in RedoType
      BY <1>8 DEF TypeOK, RedoType, Crash, Restart, CommitConn, SaveRedo
    <2>7. applied' \in AppliedType
      BY <1>8 DEF TypeOK, AppliedType, Crash, Restart, CommitConn, SaveRedo
    <2>8. prep' \in PrepType
      BY <1>8 DEF TypeOK, PrepType, Crash, Restart, CommitConn, SaveRedo
    <2>9. handler' \in HandlerType
      BY <1>8 DEF TypeOK, HandlerType, Crash, Restart, CommitConn, SaveRedo
    <2>10. reply' \in ReplyType
      BY <1>8 DEF TypeOK, ReplyType, Crash, Restart, CommitConn, SaveRedo
    <2> QED BY <1>8, <2>1, <2>2, <2>3, <2>4, <2>5, <2>6, <2>7, <2>8, <2>9, <2>10 DEF TypeOK, Crash, Restart, CommitConn, SaveRedo
  <1>9. CASE AcceptReadWrite(p)
    BY <1>9 DEF TypeOK, PhaseType, RecoveryType, AcceptReadWrite
  <1>10. CASE ReadAllRedo(p)
    BY <1>10 DEF TypeOK, RecoveryType, ReadAllRedo, Fault, NoFault
  <1>11. CASE ReplayPut(p)
    BY <1>11 DEF TypeOK, ConnsType, RecoveryType, ReplayPut, CanPut, Fault, NoFault
  <1>12. CASE ReplayFailed(p)
    BY <1>12 DEF TypeOK, ReservedType, RecoveryType, ReplayFailed
  <1> QED BY <1>1, <1>2, <1>3, <1>4, <1>5, <1>6, <1>7, <1>8, <1>9, <1>10, <1>11, <1>12 DEF TabletNext

-----------------------------------------------------------------------------
(* What the groups of actions leave alone *)

LEMMA FrameCall ==
  ASSUME NEW c \in Coordinators, NEW p \in Participants, CallNext(c, p)
  PROVE  UNCHANGED <<mmVars, gateVars, engineVars, writers>>
  BY DEF mmVars, gateVars, engineVars, CallNext, FetchForCommit, CommitFetched, Forget, SetFailed, UpdateRedo,
    DeleteRedo, FetchForRollback, LoseRequest, Timeout, GatewayRetry

LEMMA FrameTablet ==
  ASSUME NEW p \in Participants, TabletNext(p)
  PROVE  UNCHANGED <<mmVars, gateVars, writers>>
  BY DEF mmVars, gateVars, TabletNext, PreparePut, PrepareReadQueries, PrepareSaveRedo, LosePrepare, KillTx,
    Shutdown, FetchAll, Drained, Crash, AcceptReadWrite, ReadAllRedo, ReplayPut, ReplayFailed

LEMMA FrameResolve ==
  ASSUME NEW c \in Coordinators, ResolveNext(c)
  PROVE  UNCHANGED <<prep, poolVars, dataVars, engineVars, writers>>
  BY DEF callVars, poolVars, dataVars, engineVars, ResolveNext, ResolveStart, ReadState, ReadParticipants,
    ResolveSetRollback, Resume, Conclude, MMCallFails, RollbackMMTx

LEMMA FrameGate ==
  ASSUME GateNext
  PROVE  UNCHANGED <<poolVars, redo, applied, engineVars, writers>>
  BY DEF poolVars, dataVars, engineVars, GateNext, GateCreate, GateCreateFails, SessionRollback, GatePrepareCollect,
    GateStartCommit, GateStartCommitFails

-----------------------------------------------------------------------------
(* The metadata row and the coordinators *)

LEMMA MetadataGate ==
  ASSUME IInv, GateNext
  PROVE  MetadataInv'
  <1> USE DEF mmVars, callVars, gateVars, poolVars, dataVars, engineVars
  <1> Gate \in Coordinators BY DEF Coordinators
  <1>1. CASE GateCreate
    BY <1>1 DEF IInv, TypeOK, PcType, MetadataInv, GateCreate, CreateTransaction, Goto
  <1>2. CASE GateCreateFails
    BY <1>2 DEF IInv, TypeOK, PcType, MetadataInv, GateCreateFails, SessionRollback, Fault, Goto
  <1>3. CASE GatePrepareCollect
    BY <1>3 DEF IInv, TypeOK, PcType, MetadataInv, GatePrepareCollect, Goto
  <1>4. CASE GateStartCommit
    BY <1>4 DEF IInv, TypeOK, PcType, MetadataInv, GateStartCommit, StartCommit, Transition, Goto, Send
  <1>5. CASE GateStartCommitFails
    BY <1>5 DEF IInv, TypeOK, PcType, MetadataInv, GateStartCommitFails, StartCommitFails, StartCommit, Transition, Fault, NoFault, Goto
  <1> QED BY <1>1, <1>2, <1>3, <1>4, <1>5 DEF GateNext

LEMMA MetadataResolve ==
  ASSUME IInv, NEW c \in Coordinators, ResolveNext(c)
  PROVE  MetadataInv'
  <1> USE DEF mmVars, callVars, gateVars, poolVars, dataVars, engineVars
  <1> Gate \in Coordinators BY DEF Coordinators
  <1>1. CASE ResolveStart(c)
    BY <1>1 DEF IInv, TypeOK, PcType, MetadataInv, CoordinatorInv, Early, ResolveStart, Goto
  <1>2. CASE ReadState(c)
    BY <1>2 DEF IInv, TypeOK, PcType, MetadataInv, CoordinatorInv, Early, ReadState, Goto, Return
  <1>3. CASE ReadParticipants(c)
    BY <1>3 DEF IInv, TypeOK, PcType, MetadataInv, CoordinatorInv, Early, ReadParticipants, Goto, Send
  <1>4. CASE ResolveSetRollback(c)
    BY <1>4 DEF IInv, TypeOK, PcType, MetadataInv, CoordinatorInv, Early, ResolveSetRollback, SetRollback, RollbackMMTx, Transition, Goto, Send
  <1>5. CASE Resume(c)
    BY <1>5 DEF IInv, TypeOK, PcType, MetadataInv, CoordinatorInv, Early, Resume, Goto, Return
  <1>6. CASE Conclude(c)
    BY <1>6 DEF IInv, TypeOK, PcType, MetadataInv, CoordinatorInv, Early, Conclude, ConcludeTransaction, DeleteTransaction, Goto, Return
  <1>7. CASE MMCallFails(c)
    BY <1>7 DEF IInv, TypeOK, PcType, MetadataInv, CoordinatorInv, Early, MMCallFails, SetRollback, RollbackMMTx, Transition, ConcludeTransaction, DeleteTransaction, Goto, Return, Fault, NoFault
  <1> QED BY <1>1, <1>2, <1>3, <1>4, <1>5, <1>6, <1>7 DEF ResolveNext

LEMMA CoordinatorGate ==
  ASSUME IInv, GateNext
  PROVE  CoordinatorInv'
  <1> USE DEF mmVars, callVars, gateVars, poolVars, dataVars, engineVars
  <1> Gate \in Coordinators BY DEF Coordinators
  <1>1. CASE GateCreate
    BY <1>1 DEF IInv, TypeOK, PcType, SeenType, MetadataInv, CoordinatorInv, Early, GateCreate, CreateTransaction, Goto
  <1>2. CASE GateCreateFails
    BY <1>2 DEF IInv, TypeOK, PcType, SeenType, MetadataInv, CoordinatorInv, Early, GateCreateFails, SessionRollback, Fault, Goto
  <1>3. CASE GatePrepareCollect
    BY <1>3 DEF IInv, TypeOK, PcType, SeenType, MetadataInv, CoordinatorInv, Early, GatePrepareCollect, Goto
  <1>4. CASE GateStartCommit
    BY <1>4 DEF IInv, TypeOK, PcType, SeenType, MetadataInv, CoordinatorInv, Early, GateStartCommit, StartCommit, Transition, Goto, Send
  <1>5. CASE GateStartCommitFails
    BY <1>5 DEF IInv, TypeOK, PcType, SeenType, MetadataInv, CoordinatorInv, Early, GateStartCommitFails, StartCommitFails, StartCommit, Transition, Fault, NoFault, Goto
  <1> QED BY <1>1, <1>2, <1>3, <1>4, <1>5 DEF GateNext

LEMMA CoordinatorResolve ==
  ASSUME IInv, NEW c \in Coordinators, ResolveNext(c)
  PROVE  CoordinatorInv'
  <1> USE DEF mmVars, callVars, gateVars, poolVars, dataVars, engineVars
  <1> Gate \in Coordinators BY DEF Coordinators
  <1>1. CASE ResolveStart(c)
    BY <1>1 DEF IInv, TypeOK, PcType, SeenType, MetadataInv, CoordinatorInv, Early, ResolveStart, Goto
  <1>2. CASE ReadState(c)
    BY <1>2 DEF IInv, TypeOK, PcType, SeenType, MetadataInv, CoordinatorInv, Early, ReadState, Goto, Return
  <1>3. CASE ReadParticipants(c)
    BY <1>3 DEF IInv, TypeOK, PcType, SeenType, MetadataInv, CoordinatorInv, Early, ReadParticipants, Goto, Send
  <1>4. CASE ResolveSetRollback(c)
    BY <1>4 DEF IInv, TypeOK, PcType, SeenType, MetadataInv, CoordinatorInv, Early, ResolveSetRollback, SetRollback, RollbackMMTx, Transition, Goto, Send
  <1>5. CASE Resume(c)
    BY <1>5 DEF IInv, TypeOK, PcType, SeenType, MetadataInv, CoordinatorInv, Early, Resume, Goto, Return
  <1>6. CASE Conclude(c)
    BY <1>6 DEF IInv, TypeOK, PcType, SeenType, MetadataInv, CoordinatorInv, Early, Conclude, ConcludeTransaction, DeleteTransaction, Goto, Return
  <1>7. CASE MMCallFails(c)
    BY <1>7 DEF IInv, TypeOK, PcType, SeenType, MetadataInv, CoordinatorInv, Early, MMCallFails, SetRollback, RollbackMMTx, Transition, ConcludeTransaction, DeleteTransaction, Goto, Return, Fault, NoFault
  <1> QED BY <1>1, <1>2, <1>3, <1>4, <1>5, <1>6, <1>7 DEF ResolveNext

-----------------------------------------------------------------------------
(* The handlers *)

LEMMA HandlerGate ==
  ASSUME IInv, GateNext
  PROVE  HandlerInv'
  <1> USE DEF mmVars, callVars, gateVars, poolVars, dataVars, engineVars
  <1> Gate \in Coordinators BY DEF Coordinators
  <1>1. CASE GateStartCommit
    BY <1>1 DEF IInv, TypeOK, HandlerType, MetadataInv, HandlerInv, Committing, RollingBack, GateStartCommit, StartCommit, Transition, Goto, Send
<1> QED BY <1>1 DEF GateNext, IInv, MetadataInv, HandlerInv, Committing, RollingBack, StartCommit,
    StartCommitFails, Transition, CreateTransaction, GateCreate, GateCreateFails, SessionRollback, GatePrepareCollect,
    GateStartCommitFails

LEMMA HandlerResolve ==
  ASSUME IInv, NEW c \in Coordinators, ResolveNext(c)
  PROVE  HandlerInv'
  <1> USE DEF mmVars, callVars, gateVars, poolVars, dataVars, engineVars
  <1> Gate \in Coordinators BY DEF Coordinators
  <1>1. CASE ReadParticipants(c)
    BY <1>1 DEF IInv, TypeOK, HandlerType, MetadataInv, HandlerInv, Committing, RollingBack, CoordinatorInv, PartsType, ReadParticipants, Goto, Send
  <1>2. CASE ResolveSetRollback(c)
    BY <1>2 DEF IInv, TypeOK, HandlerType, MetadataInv, HandlerInv, Committing, RollingBack, CoordinatorInv, PartsType, ResolveSetRollback, SetRollback, RollbackMMTx, Transition, Goto, Send
<1> QED BY <1>1, <1>2 DEF ResolveNext, IInv, MetadataInv, HandlerInv, Committing, RollingBack, SetRollback, RollbackMMTx,
    ConcludeTransaction, DeleteTransaction, Transition, ResolveStart, ReadState, Resume, Conclude, MMCallFails

(* A step of one call leaves the handlers of the others alone. *)
LEMMA OtherHandlers ==
  ASSUME TypeOK, NEW c \in Coordinators, NEW p \in Participants, CallNext(c, p),
         NEW d \in Coordinators, NEW q \in Participants, d # c \/ q # p
  PROVE  handler'[d][q] = handler[d][q]
  BY DEF TypeOK, HandlerType, CallNext, FetchForCommit, CommitFetched, Forget, SetFailed, UpdateRedo, DeleteRedo,
    FetchForRollback, LoseRequest, Timeout, GatewayRetry, Answer, Advance

LEMMA HandlerCall ==
  ASSUME IInv, NEW c \in Coordinators, NEW p \in Participants, CallNext(c, p)
  PROVE  HandlerInv'
  <1> USE DEF mmVars, callVars, gateVars, poolVars, dataVars, engineVars
  <1> Gate \in Coordinators BY DEF Coordinators
  <1>1. CASE FetchForCommit(c, p)
    <2>1. decision = "commit" /\ decision' = decision
      BY <1>1 DEF IInv, HandlerInv, Committing, FetchForCommit
    <2>2. handler'[c][p] \in {"idle", "fetched"}
      BY <1>1 DEF IInv, TypeOK, HandlerType, FetchForCommit, Answer, Advance
    <2> QED BY <2>1, <2>2, OtherHandlers DEF IInv, HandlerInv, Committing, RollingBack
  <1>2. CASE CommitFetched(c, p)
    BY <1>2 DEF IInv, TypeOK, HandlerType, MetadataInv, HandlerInv, Committing, RollingBack, CoordinatorInv, CommitFetched, CommitConn, Advance, Fault, NoFault
  <1>3. CASE Forget(c, p)
    BY <1>3 DEF IInv, TypeOK, HandlerType, MetadataInv, HandlerInv, Committing, RollingBack, CoordinatorInv, Forget, Answer
  <1>4. CASE SetFailed(c, p)
    BY <1>4 DEF IInv, TypeOK, HandlerType, MetadataInv, HandlerInv, Committing, RollingBack, CoordinatorInv, SetFailed, Advance
  <1>5. CASE UpdateRedo(c, p)
    BY <1>5 DEF IInv, TypeOK, HandlerType, MetadataInv, HandlerInv, Committing, RollingBack, CoordinatorInv, UpdateRedo, Answer, Fault, NoFault
  <1>6. CASE DeleteRedo(c, p)
    BY <1>6 DEF IInv, TypeOK, HandlerType, MetadataInv, HandlerInv, Committing, RollingBack, CoordinatorInv, DeleteRedo, Advance, Fault, NoFault
  <1>7. CASE FetchForRollback(c, p)
    BY <1>7 DEF IInv, TypeOK, HandlerType, MetadataInv, HandlerInv, Committing, RollingBack, CoordinatorInv, FetchForRollback, Answer
  <1>8. CASE LoseRequest(c, p)
    BY <1>8 DEF IInv, TypeOK, HandlerType, MetadataInv, HandlerInv, Committing, RollingBack, CoordinatorInv, LoseRequest, Answer, Fault, NoFault, Requests
  <1>9. CASE Timeout(c, p)
    BY <1>9 DEF IInv, TypeOK, HandlerType, MetadataInv, HandlerInv, Committing, RollingBack, CoordinatorInv, Timeout, Fault
  <1>10. CASE GatewayRetry(c, p)
    BY <1>10 DEF IInv, TypeOK, HandlerType, MetadataInv, HandlerInv, Committing, RollingBack, CoordinatorInv, GatewayRetry, Fault
  <1> QED BY <1>1, <1>2, <1>3, <1>4, <1>5, <1>6, <1>7, <1>8, <1>9, <1>10 DEF CallNext

LEMMA HandlerTablet ==
  ASSUME IInv, NEW p \in Participants, TabletNext(p)
  PROVE  HandlerInv'
  <1> USE DEF mmVars, callVars, gateVars, poolVars, dataVars, engineVars
  <1> Gate \in Coordinators BY DEF Coordinators
  <1>1. CASE Crash(p)
    BY <1>1 DEF IInv, TypeOK, HandlerType, MetadataInv, HandlerInv, Committing, RollingBack, Crash, Restart, CommitConn, SaveRedo
<1> QED BY <1>1 DEF TabletNext, IInv, HandlerInv, PreparePut, PrepareReadQueries, PrepareSaveRedo, LosePrepare,
    KillTx, Shutdown, FetchAll, Drained, AcceptReadWrite, ReadAllRedo, ReplayPut, ReplayFailed

-----------------------------------------------------------------------------
(* The commit decision *)

LEMMA GateGate ==
  ASSUME IInv, GateNext
  PROVE  GateInv'
  <1> USE DEF mmVars, callVars, gateVars, poolVars, dataVars, engineVars
  <1> Gate \in Coordinators BY DEF Coordinators
  <1>1. CASE GateCreate
    BY <1>1 DEF IInv, TypeOK, PcType, ReplyType, PrepType, HandlerType, RedoType, MetadataInv, GateInv, Early, GateCreate, CreateTransaction, Goto
  <1>2. CASE GateCreateFails
    BY <1>2 DEF IInv, TypeOK, PcType, ReplyType, PrepType, HandlerType, RedoType, MetadataInv, GateInv, Early, GateCreateFails, SessionRollback, Fault, Goto
  <1>3. CASE GatePrepareCollect
    BY <1>3 DEF IInv, TypeOK, PcType, ReplyType, PrepType, HandlerType, RedoType, MetadataInv, GateInv, Early, GatePrepareCollect, Goto, Collected, AllOk
  <1>4. CASE GateStartCommit
    BY <1>4 DEF IInv, TypeOK, PcType, ReplyType, PrepType, HandlerType, RedoType, MetadataInv, GateInv, Early, GateStartCommit, StartCommit, Transition, Goto, Send
  <1>5. CASE GateStartCommitFails
    BY <1>5 DEF IInv, TypeOK, PcType, ReplyType, PrepType, HandlerType, RedoType, MetadataInv, GateInv, Early, GateStartCommitFails, StartCommitFails, StartCommit, Transition, Fault, NoFault, Goto
  <1> QED BY <1>1, <1>2, <1>3, <1>4, <1>5 DEF GateNext

LEMMA GateResolve ==
  ASSUME IInv, NEW c \in Coordinators, ResolveNext(c)
  PROVE  GateInv'
  <1> USE DEF mmVars, callVars, gateVars, poolVars, dataVars, engineVars
  <1> Gate \in Coordinators BY DEF Coordinators
  <1>1. CASE ResolveStart(c)
    BY <1>1 DEF IInv, TypeOK, PcType, ReplyType, PrepType, HandlerType, RedoType, MetadataInv, GateInv, Early, CoordinatorInv, PartsType, ResolveStart, Goto
  <1>2. CASE ReadState(c)
    BY <1>2 DEF IInv, TypeOK, PcType, ReplyType, PrepType, HandlerType, RedoType, MetadataInv, GateInv, Early, CoordinatorInv, PartsType, ReadState, Goto, Return
  <1>3. CASE ReadParticipants(c)
    BY <1>3 DEF IInv, TypeOK, PcType, ReplyType, PrepType, HandlerType, RedoType, MetadataInv, GateInv, Early, CoordinatorInv, PartsType, ReadParticipants, Goto, Send
  <1>4. CASE ResolveSetRollback(c)
    BY <1>4 DEF IInv, TypeOK, PcType, ReplyType, PrepType, HandlerType, RedoType, MetadataInv, GateInv, Early, CoordinatorInv, PartsType, ResolveSetRollback, SetRollback, RollbackMMTx, Transition, Goto, Send
  <1>5. CASE Resume(c)
    BY <1>5 DEF IInv, TypeOK, PcType, ReplyType, PrepType, HandlerType, RedoType, MetadataInv, GateInv, Early, CoordinatorInv, PartsType, Resume, Goto, Return
  <1>6. CASE Conclude(c)
    BY <1>6 DEF IInv, TypeOK, PcType, ReplyType, PrepType, HandlerType, RedoType, MetadataInv, GateInv, Early, CoordinatorInv, PartsType, Conclude, ConcludeTransaction, DeleteTransaction, Goto, Return
  <1>7. CASE MMCallFails(c)
    BY <1>7 DEF IInv, TypeOK, PcType, ReplyType, PrepType, HandlerType, RedoType, MetadataInv, GateInv, Early, CoordinatorInv, PartsType, MMCallFails, SetRollback, RollbackMMTx, Transition, ConcludeTransaction, DeleteTransaction, Goto, Return, Fault, NoFault
  <1> QED BY <1>1, <1>2, <1>3, <1>4, <1>5, <1>6, <1>7 DEF ResolveNext

LEMMA GateCall ==
  ASSUME IInv, NEW c \in Coordinators, NEW p \in Participants, CallNext(c, p)
  PROVE  GateInv'
  <1> USE DEF mmVars, callVars, gateVars, poolVars, dataVars, engineVars
  <1> Gate \in Coordinators BY DEF Coordinators
  <1>1. CASE FetchForCommit(c, p)
    BY <1>1 DEF IInv, TypeOK, PcType, ReplyType, PrepType, HandlerType, RedoType, MetadataInv, GateInv, Early, CoordinatorInv, HandlerInv, Committing, RollingBack, FetchForCommit, Answer, Advance
  <1>2. CASE CommitFetched(c, p)
    BY <1>2 DEF IInv, TypeOK, PcType, ReplyType, PrepType, HandlerType, RedoType, MetadataInv, GateInv, Early, CoordinatorInv, HandlerInv, Committing, RollingBack, CommitFetched, CommitConn, Advance, Fault, NoFault
  <1>3. CASE Forget(c, p)
    BY <1>3 DEF IInv, TypeOK, PcType, ReplyType, PrepType, HandlerType, RedoType, MetadataInv, GateInv, Early, CoordinatorInv, HandlerInv, Committing, RollingBack, Forget, Answer
  <1>4. CASE SetFailed(c, p)
    BY <1>4 DEF IInv, TypeOK, PcType, ReplyType, PrepType, HandlerType, RedoType, MetadataInv, GateInv, Early, CoordinatorInv, HandlerInv, Committing, RollingBack, SetFailed, Advance
  <1>5. CASE UpdateRedo(c, p)
    BY <1>5 DEF IInv, TypeOK, PcType, ReplyType, PrepType, HandlerType, RedoType, MetadataInv, GateInv, Early, CoordinatorInv, HandlerInv, Committing, RollingBack, UpdateRedo, Answer, Fault, NoFault
  <1>6. CASE DeleteRedo(c, p)
    BY <1>6, ZenonT(60) DEF IInv, TypeOK, PcType, ReplyType, PrepType, HandlerType, RedoType, MetadataInv, GateInv, Early, CoordinatorInv, HandlerInv, Committing, RollingBack, DeleteRedo, Advance, Fault, NoFault
  <1>7. CASE FetchForRollback(c, p)
    BY <1>7 DEF IInv, TypeOK, PcType, ReplyType, PrepType, HandlerType, RedoType, MetadataInv, GateInv, Early, CoordinatorInv, HandlerInv, Committing, RollingBack, FetchForRollback, Answer
  <1>8. CASE LoseRequest(c, p)
    BY <1>8 DEF IInv, TypeOK, PcType, ReplyType, PrepType, HandlerType, RedoType, MetadataInv, GateInv, Early, CoordinatorInv, HandlerInv, Committing, RollingBack, LoseRequest, Answer, Fault, NoFault, Requests
  <1>9. CASE Timeout(c, p)
    BY <1>9 DEF IInv, TypeOK, PcType, ReplyType, PrepType, HandlerType, RedoType, MetadataInv, GateInv, Early, CoordinatorInv, HandlerInv, Committing, RollingBack, Timeout, Fault
  <1>10. CASE GatewayRetry(c, p)
    BY <1>10 DEF IInv, TypeOK, PcType, ReplyType, PrepType, HandlerType, RedoType, MetadataInv, GateInv, Early, CoordinatorInv, HandlerInv, Committing, RollingBack, GatewayRetry, Fault
  <1> QED BY <1>1, <1>2, <1>3, <1>4, <1>5, <1>6, <1>7, <1>8, <1>9, <1>10 DEF CallNext

LEMMA GateTablet ==
  ASSUME IInv, NEW p \in Participants, TabletNext(p)
  PROVE  GateInv'
  <1> USE DEF mmVars, callVars, gateVars, poolVars, dataVars, engineVars
  <1> Gate \in Coordinators BY DEF Coordinators
  <1>1. CASE PreparePut(p)
    BY <1>1 DEF IInv, TypeOK, PcType, ReplyType, PrepType, HandlerType, RedoType, MetadataInv, GateInv, Early, HandlerInv, Committing, WriterInv, PreparePut, AnswerPrepare, CanPut, Fault, NoFault
  <1>2. CASE PrepareReadQueries(p)
    BY <1>2 DEF IInv, TypeOK, PcType, ReplyType, PrepType, HandlerType, RedoType, MetadataInv, GateInv, Early, HandlerInv, Committing, WriterInv, PrepareReadQueries, AnswerPrepare, Fault, NoFault
  <1>3. CASE PrepareSaveRedo(p)
    BY <1>3 DEF IInv, TypeOK, PcType, ReplyType, PrepType, HandlerType, RedoType, MetadataInv, GateInv, Early, HandlerInv, Committing, WriterInv, PrepareSaveRedo, AnswerPrepare, SaveRedo, Fault, NoFault
  <1>4. CASE LosePrepare(p)
    BY <1>4 DEF IInv, TypeOK, PcType, ReplyType, PrepType, HandlerType, RedoType, MetadataInv, GateInv, Early, HandlerInv, Committing, WriterInv, LosePrepare, AnswerPrepare, Fault, NoFault
  <1>5. CASE Crash(p)
    BY <1>5 DEF IInv, TypeOK, PcType, ReplyType, PrepType, HandlerType, RedoType, MetadataInv, GateInv, Early, HandlerInv, Committing, WriterInv, Crash, Restart, CommitConn, SaveRedo
<1> QED BY <1>1, <1>2, <1>3, <1>4, <1>5 DEF TabletNext, IInv, GateInv, KillTx, Shutdown, FetchAll, Drained,
    AcceptReadWrite, ReadAllRedo, ReplayPut, ReplayFailed

-----------------------------------------------------------------------------
(* The connections *)

(* Coordinators neither take a connection from a handler nor give it one. *)
LEMMA FrameFetched ==
  ASSUME IInv, NEW p \in Participants, NEW d \in Coordinators,
         GateNext \/ \E c \in Coordinators : ResolveNext(c)
  PROVE  handler'[d][p] = "fetched" <=> handler[d][p] = "fetched"
  <1> USE DEF callVars, gateVars, IInv, TypeOK, HandlerType
  <1> Gate \in Coordinators BY DEF Coordinators
  <1>1. CASE GateNext
    BY <1>1 DEF GateNext, GateCreate, GateCreateFails, SessionRollback, GatePrepareCollect, GateStartCommit, GateStartCommitFails, Send
  <1>2. ASSUME NEW c \in Coordinators, ResolveNext(c)
        PROVE  handler'[d][p] = "fetched" <=> handler[d][p] = "fetched"
    BY <1>2 DEF PartsType, ResolveNext, ResolveStart, ReadState, ReadParticipants,
      ResolveSetRollback, Resume, Conclude, MMCallFails, RollbackMMTx, Send
  <1> QED BY <1>1, <1>2

LEMMA WriterCall ==
  ASSUME IInv, NEW c \in Coordinators, NEW p \in Participants, CallNext(c, p)
  PROVE  WriterInv'
  <1> USE DEF mmVars, callVars, gateVars, poolVars, dataVars, engineVars
  <1> Gate \in Coordinators BY DEF Coordinators
  <1>1. CASE FetchForCommit(c, p)
    BY <1>1 DEF IInv, TypeOK, HandlerType, PrepType, ConnsType, RedoType, RecoveryType, WriterInv, FetchForCommit, Answer, Advance
  <1>2. CASE CommitFetched(c, p)
    BY <1>2 DEF IInv, TypeOK, HandlerType, PrepType, ConnsType, RedoType, RecoveryType, WriterInv, CommitFetched, CommitConn, Advance, Fault, NoFault
  <1>3. CASE Forget(c, p)
    BY <1>3 DEF IInv, TypeOK, HandlerType, PrepType, ConnsType, RedoType, RecoveryType, WriterInv, Forget, Answer
  <1>4. CASE SetFailed(c, p)
    BY <1>4 DEF IInv, TypeOK, HandlerType, PrepType, ConnsType, RedoType, RecoveryType, WriterInv, SetFailed, Advance
  <1>5. CASE UpdateRedo(c, p)
    BY <1>5 DEF IInv, TypeOK, HandlerType, PrepType, ConnsType, RedoType, RecoveryType, WriterInv, UpdateRedo, Answer, Fault, NoFault
  <1>6. CASE DeleteRedo(c, p)
    BY <1>6 DEF IInv, TypeOK, HandlerType, PrepType, ConnsType, RedoType, RecoveryType, WriterInv, DeleteRedo, Advance, Fault, NoFault
  <1>7. CASE FetchForRollback(c, p)
    BY <1>7 DEF IInv, TypeOK, HandlerType, PrepType, ConnsType, RedoType, RecoveryType, WriterInv, FetchForRollback, Answer
  <1>8. CASE LoseRequest(c, p)
    BY <1>8 DEF IInv, TypeOK, HandlerType, PrepType, ConnsType, RedoType, RecoveryType, WriterInv, LoseRequest, Answer, Fault, NoFault, Requests
  <1>9. CASE GatewayRetry(c, p)
    BY <1>9 DEF IInv, TypeOK, HandlerType, PrepType, ConnsType, RedoType, RecoveryType, WriterInv, GatewayRetry, Fault
<1> QED BY <1>1, <1>2, <1>3, <1>4, <1>5, <1>6, <1>7, <1>8, <1>9 DEF CallNext, IInv, WriterInv, Timeout

LEMMA WriterTablet ==
  ASSUME IInv, NEW p \in Participants, TabletNext(p)
  PROVE  WriterInv'
  <1> USE DEF mmVars, callVars, gateVars, poolVars, dataVars, engineVars
  <1> Gate \in Coordinators BY DEF Coordinators
  <1>1. CASE PreparePut(p)
    BY <1>1 DEF IInv, TypeOK, HandlerType, PrepType, ConnsType, RedoType, RecoveryType, WriterInv, PreparePut, AnswerPrepare, CanPut, Fault, NoFault
  <1>2. CASE PrepareReadQueries(p)
    BY <1>2 DEF IInv, TypeOK, HandlerType, PrepType, ConnsType, RedoType, RecoveryType, WriterInv, PrepareReadQueries, AnswerPrepare, Fault, NoFault
  <1>3. CASE PrepareSaveRedo(p)
    BY <1>3 DEF IInv, TypeOK, HandlerType, PrepType, ConnsType, RedoType, RecoveryType, WriterInv, PrepareSaveRedo, AnswerPrepare, SaveRedo, Fault, NoFault
  <1>4. CASE LosePrepare(p)
    BY <1>4 DEF IInv, TypeOK, HandlerType, PrepType, ConnsType, RedoType, RecoveryType, WriterInv, LosePrepare, AnswerPrepare, Fault, NoFault
  <1>5. CASE KillTx(p)
    BY <1>5 DEF IInv, TypeOK, HandlerType, PrepType, ConnsType, RedoType, RecoveryType, WriterInv, KillTx
  <1>6. CASE Shutdown(p)
    BY <1>6 DEF IInv, TypeOK, HandlerType, PrepType, ConnsType, RedoType, RecoveryType, WriterInv, Shutdown, FetchAll, Restart
  <1>7. CASE Drained(p)
    BY <1>7 DEF IInv, TypeOK, HandlerType, PrepType, ConnsType, RedoType, RecoveryType, WriterInv, Drained
  <1>8. CASE Crash(p)
    BY <1>8 DEF IInv, TypeOK, HandlerType, PrepType, ConnsType, RedoType, RecoveryType, WriterInv, Crash, Restart, CommitConn, SaveRedo
  <1>9. CASE AcceptReadWrite(p)
    BY <1>9 DEF IInv, TypeOK, HandlerType, PrepType, ConnsType, RedoType, RecoveryType, WriterInv, AcceptReadWrite
  <1>10. CASE ReadAllRedo(p)
    BY <1>10 DEF IInv, TypeOK, HandlerType, PrepType, ConnsType, RedoType, RecoveryType, WriterInv, ReadAllRedo, Fault, NoFault
  <1>11. CASE ReplayPut(p)
    BY <1>11 DEF IInv, TypeOK, HandlerType, PrepType, ConnsType, RedoType, RecoveryType, WriterInv, ReplayPut, CanPut, Fault, NoFault
  <1>12. CASE ReplayFailed(p)
    BY <1>12 DEF IInv, TypeOK, HandlerType, PrepType, ConnsType, RedoType, RecoveryType, WriterInv, ReplayFailed
  <1> QED BY <1>1, <1>2, <1>3, <1>4, <1>5, <1>6, <1>7, <1>8, <1>9, <1>10, <1>11, <1>12 DEF TabletNext

LEMMA ConnCall ==
  ASSUME IInv, NEW c \in Coordinators, NEW p \in Participants, CallNext(c, p)
  PROVE  ConnInv'
  <1> USE DEF mmVars, callVars, gateVars, poolVars, dataVars, engineVars
  <1> Gate \in Coordinators BY DEF Coordinators
  <1>1. CASE FetchForCommit(c, p)
    <2>1. CASE handler'[c][p] = "fetched"
      <3>1. /\ conns[p] # "none" /\ conns' = [conns EXCEPT ![p] = "none"]
            /\ tx' = [tx EXCEPT ![p] = IF conns[p] = "original" THEN "done" ELSE @]
            /\ UNCHANGED <<applied, redo, phase, recovery, decision>>
        BY <1>1, <2>1 DEF IInv, TypeOK, HandlerType, FetchForCommit, Answer
      <3>2. ~Fetched(p) /\ phase[p] # "down" /\ recovery[p] = "idle" /\ applied[p] = 0 /\ tx'[p] = "done"
        BY <3>1 DEF IInv, TypeOK, ConnInv, TxType, ConnsType
      <3>3. \A q \in Participants \ {p} : conns'[q] = conns[q] /\ tx'[q] = tx[q]
        BY <3>1 DEF IInv, TypeOK, ConnsType, TxType
      <3>4. conns'[p] = "none"
        BY <3>1 DEF IInv, TypeOK, ConnsType
      <3> QED BY <3>1, <3>2, <3>3, <3>4, OtherHandlers DEF IInv, ConnInv, Fetched
    <2>2. CASE handler'[c][p] # "fetched"
      <3>1. UNCHANGED <<conns, tx, applied, redo, phase, recovery, decision>>
        BY <1>1, <2>2 DEF IInv, TypeOK, HandlerType, FetchForCommit, Advance
      <3> QED BY <3>1, <2>2, OtherHandlers DEF IInv, ConnInv, Fetched
    <2> QED BY <2>1, <2>2
  <1>2. CASE CommitFetched(c, p)
    <2>1. /\ Fetched(p) /\ conns[p] = "none" /\ tx[p] = "done" /\ decision = "commit"
          /\ applied[p] = 0 /\ recovery[p] = "idle" /\ phase[p] # "down"
      BY <1>2 DEF IInv, TypeOK, ConnInv, Fetched, HandlerInv, Committing, CommitFetched
    <2>2. handler'[c][p] # "fetched"
      BY <1>2 DEF IInv, TypeOK, HandlerType, CommitFetched, Advance
    <2>3. ~Fetched(p)'
      BY <1>2, <2>2, OtherHandlers DEF IInv, ConnInv, Fetched, CommitFetched
    <2>4. /\ UNCHANGED <<conns, tx, phase, recovery, decision>>
          /\ applied'[p] # 0 => applied'[p] = 1 /\ redo'[p] = "none"
          /\ \A q \in Participants \ {p} : applied'[q] = applied[q] /\ redo'[q] = redo[q]
      <3>1. CommitConn(p) \/ UNCHANGED <<redo, applied>>
        BY <1>2 DEF CommitFetched
      <3>2. UNCHANGED <<conns, tx, phase, recovery, decision>>
        BY <1>2 DEF CommitFetched
      <3> QED BY <2>1, <3>1, <3>2 DEF IInv, TypeOK, AppliedType, RedoType, CommitConn
    <2> QED BY <2>1, <2>2, <2>3, <2>4, OtherHandlers DEF IInv, ConnInv, Fetched
  <1>3. CASE Forget(c, p)
    BY <1>3 DEF IInv, TypeOK, HandlerType, TxType, ConnsType, RedoType, AppliedType, PhaseType, RecoveryType, HandlerInv, Committing, RollingBack, ConnInv, Fetched, Forget, Answer
  <1>4. CASE SetFailed(c, p)
    BY <1>4 DEF IInv, TypeOK, HandlerType, TxType, ConnsType, RedoType, AppliedType, PhaseType, RecoveryType, HandlerInv, Committing, RollingBack, ConnInv, Fetched, SetFailed, Advance
  <1>5. CASE UpdateRedo(c, p)
    BY <1>5 DEF IInv, TypeOK, HandlerType, TxType, ConnsType, RedoType, AppliedType, PhaseType, RecoveryType, HandlerInv, Committing, RollingBack, ConnInv, Fetched, UpdateRedo, Answer, Fault, NoFault
  <1>6. CASE DeleteRedo(c, p)
    <2>1. handler'[c][p] # "fetched" /\ UNCHANGED <<conns, tx, applied, phase, recovery, decision>>
      BY <1>6 DEF IInv, TypeOK, HandlerType, DeleteRedo, Advance
    <2>2. \A q \in Participants : redo'[q] \in {redo[q], "none"}
      BY <1>6 DEF IInv, TypeOK, RedoType, DeleteRedo
    <2> QED BY <2>1, <2>2, OtherHandlers DEF IInv, ConnInv, Fetched
  <1>7. CASE FetchForRollback(c, p)
    BY <1>7 DEF IInv, TypeOK, HandlerType, TxType, ConnsType, RedoType, AppliedType, PhaseType, RecoveryType, HandlerInv, Committing, RollingBack, ConnInv, Fetched, FetchForRollback, Answer
  <1>8. CASE LoseRequest(c, p)
    BY <1>8 DEF IInv, TypeOK, HandlerType, TxType, ConnsType, RedoType, AppliedType, PhaseType, RecoveryType, HandlerInv, Committing, RollingBack, ConnInv, Fetched, LoseRequest, Answer, Fault, NoFault, Requests
  <1>9. CASE Timeout(c, p)
    BY <1>9 DEF IInv, TypeOK, HandlerType, TxType, ConnsType, RedoType, AppliedType, PhaseType, RecoveryType, HandlerInv, Committing, RollingBack, ConnInv, Fetched, Timeout, Fault
  <1>10. CASE GatewayRetry(c, p)
    <2>1. /\ handler'[c][p] = "fetched" => handler[c][p] = "fetched"
          /\ UNCHANGED <<conns, tx, redo, applied, phase, recovery, decision>>
      BY <1>10 DEF IInv, TypeOK, HandlerType, GatewayRetry
    <2> QED BY <2>1, OtherHandlers DEF IInv, ConnInv, Fetched
  <1> QED BY <1>1, <1>2, <1>3, <1>4, <1>5, <1>6, <1>7, <1>8, <1>9, <1>10 DEF CallNext

LEMMA ConnTablet ==
  ASSUME IInv, NEW p \in Participants, TabletNext(p)
  PROVE  ConnInv'
  <1> USE DEF mmVars, callVars, gateVars, poolVars, dataVars, engineVars
  <1> Gate \in Coordinators BY DEF Coordinators
  <1>1. CASE PreparePut(p)
    BY <1>1 DEF IInv, TypeOK, HandlerType, TxType, ConnsType, RedoType, AppliedType, PhaseType, RecoveryType, HandlerInv, Committing, RollingBack, ConnInv, Fetched, GateInv, PreparePut, AnswerPrepare, CanPut, Fault, NoFault
  <1>2. CASE PrepareReadQueries(p)
    BY <1>2 DEF IInv, TypeOK, HandlerType, TxType, ConnsType, RedoType, AppliedType, PhaseType, RecoveryType, HandlerInv, Committing, RollingBack, ConnInv, Fetched, GateInv, PrepareReadQueries, AnswerPrepare, Fault, NoFault
  <1>3. CASE PrepareSaveRedo(p)
    BY <1>3 DEF IInv, TypeOK, HandlerType, TxType, ConnsType, RedoType, AppliedType, PhaseType, RecoveryType, HandlerInv, Committing, RollingBack, ConnInv, Fetched, GateInv, PrepareSaveRedo, AnswerPrepare, SaveRedo, Fault, NoFault
  <1>4. CASE LosePrepare(p)
    BY <1>4 DEF IInv, TypeOK, HandlerType, TxType, ConnsType, RedoType, AppliedType, PhaseType, RecoveryType, HandlerInv, Committing, RollingBack, ConnInv, Fetched, GateInv, LosePrepare, AnswerPrepare, Fault, NoFault
  <1>5. CASE KillTx(p)
    BY <1>5 DEF IInv, TypeOK, HandlerType, TxType, ConnsType, RedoType, AppliedType, PhaseType, RecoveryType, HandlerInv, Committing, RollingBack, ConnInv, Fetched, GateInv, KillTx
  <1>6. CASE Shutdown(p)
    BY <1>6 DEF IInv, TypeOK, HandlerType, TxType, ConnsType, RedoType, AppliedType, PhaseType, RecoveryType, HandlerInv, Committing, RollingBack, ConnInv, Fetched, GateInv, Shutdown, FetchAll, Restart
  <1>7. CASE Drained(p)
    BY <1>7 DEF IInv, TypeOK, HandlerType, TxType, ConnsType, RedoType, AppliedType, PhaseType, RecoveryType, HandlerInv, Committing, RollingBack, ConnInv, Fetched, GateInv, Drained, Requests
  <1>8. CASE Crash(p)
    BY <1>8 DEF IInv, TypeOK, HandlerType, TxType, ConnsType, RedoType, AppliedType, PhaseType, RecoveryType, HandlerInv, Committing, RollingBack, ConnInv, Fetched, GateInv, Crash, Restart, CommitConn, SaveRedo
  <1>9. CASE AcceptReadWrite(p)
    BY <1>9 DEF IInv, TypeOK, HandlerType, TxType, ConnsType, RedoType, AppliedType, PhaseType, RecoveryType, HandlerInv, Committing, RollingBack, ConnInv, Fetched, GateInv, AcceptReadWrite
  <1>10. CASE ReadAllRedo(p)
    BY <1>10 DEF IInv, TypeOK, HandlerType, TxType, ConnsType, RedoType, AppliedType, PhaseType, RecoveryType, HandlerInv, Committing, RollingBack, ConnInv, Fetched, GateInv, ReadAllRedo, Fault, NoFault
  <1>11. CASE ReplayPut(p)
    BY <1>11 DEF IInv, TypeOK, HandlerType, TxType, ConnsType, RedoType, AppliedType, PhaseType, RecoveryType, HandlerInv, Committing, RollingBack, ConnInv, Fetched, GateInv, ReplayPut, CanPut, Fault, NoFault
  <1>12. CASE ReplayFailed(p)
    BY <1>12 DEF IInv, TypeOK, HandlerType, TxType, ConnsType, RedoType, AppliedType, PhaseType, RecoveryType, HandlerInv, Committing, RollingBack, ConnInv, Fetched, GateInv, ReplayFailed
  <1> QED BY <1>1, <1>2, <1>3, <1>4, <1>5, <1>6, <1>7, <1>8, <1>9, <1>10, <1>11, <1>12 DEF TabletNext

LEMMA RecoverableGate ==
  ASSUME IInv, GateNext
  PROVE  CommitRecoverable'
  <1> USE DEF mmVars, callVars, gateVars, poolVars, dataVars, engineVars
  <1> Gate \in Coordinators BY DEF Coordinators
  <1>1. CASE GateStartCommit
    BY <1>1 DEF IInv, TypeOK, RedoType, AppliedType, CommitRecoverable, HandlerInv, Committing, RollingBack, MetadataInv, GateInv, Early, GateStartCommit, StartCommit, Transition, Goto, Send
  <1>2. CASE GateStartCommitFails
    BY <1>2 DEF IInv, TypeOK, RedoType, AppliedType, CommitRecoverable, HandlerInv, Committing, RollingBack, MetadataInv, GateInv, Early, GateStartCommitFails, StartCommitFails, StartCommit, Transition, Fault, NoFault, Goto
<1> QED BY <1>1, <1>2 DEF GateNext, IInv, CommitRecoverable, CreateTransaction, GateCreate, GateCreateFails, SessionRollback,
    GatePrepareCollect

LEMMA RecoverableCall ==
  ASSUME IInv, NEW c \in Coordinators, NEW p \in Participants, CallNext(c, p)
  PROVE  CommitRecoverable'
  <1> USE DEF mmVars, callVars, gateVars, poolVars, dataVars, engineVars
  <1> Gate \in Coordinators BY DEF Coordinators
  <1>1. CASE CommitFetched(c, p)
    BY <1>1 DEF IInv, TypeOK, RedoType, AppliedType, CommitRecoverable, HandlerInv, Committing, RollingBack, CommitFetched, CommitConn, Advance, Fault, NoFault
  <1>2. CASE UpdateRedo(c, p)
    BY <1>2 DEF IInv, TypeOK, RedoType, AppliedType, CommitRecoverable, HandlerInv, Committing, RollingBack, UpdateRedo, Answer, Fault, NoFault
  <1>3. CASE DeleteRedo(c, p)
    BY <1>3 DEF IInv, TypeOK, RedoType, AppliedType, CommitRecoverable, HandlerInv, Committing, RollingBack, DeleteRedo, Advance, Fault, NoFault
<1> QED BY <1>1, <1>2, <1>3 DEF CallNext, IInv, CommitRecoverable, FetchForCommit, Forget, SetFailed,
    FetchForRollback, LoseRequest, Timeout, GatewayRetry

LEMMA RecoverableTablet ==
  ASSUME IInv, NEW p \in Participants, TabletNext(p)
  PROVE  CommitRecoverable'
  <1> USE DEF mmVars, callVars, gateVars, poolVars, dataVars, engineVars
  <1> Gate \in Coordinators BY DEF Coordinators
  <1>1. CASE PrepareSaveRedo(p)
    BY <1>1 DEF IInv, TypeOK, RedoType, AppliedType, CommitRecoverable, HandlerInv, Committing, RollingBack, PrepareSaveRedo, AnswerPrepare, SaveRedo, Fault, NoFault
  <1>2. CASE Crash(p)
    BY <1>2 DEF IInv, TypeOK, RedoType, AppliedType, CommitRecoverable, HandlerInv, Committing, RollingBack, Crash, Restart, CommitConn, SaveRedo
<1> QED BY <1>1, <1>2 DEF TabletNext, IInv, CommitRecoverable, PreparePut, PrepareReadQueries, LosePrepare,
    KillTx, Shutdown, FetchAll, Drained, AcceptReadWrite, ReadAllRedo, ReplayPut, ReplayFailed
-----------------------------------------------------------------------------
(* The invariant is inductive *)

LEMMA IInvInit == Init => IInv
  <1> SUFFICES ASSUME Init PROVE IInv OBVIOUS
  <1> Gate \in Coordinators BY DEF Coordinators
  <1>1. TypeOK
    BY DEF Init, TypeOK, PcType, SeenType, PartsType, ReplyType, PrepType, HandlerType, TxType, RedoType,
      AppliedType, ConnsType, ReservedType, PhaseType, RecoveryType
  <1>2. MetadataInv /\ CoordinatorInv /\ HandlerInv
    BY DEF Init, MetadataInv, CoordinatorInv, HandlerInv, Early, Committing, RollingBack
  <1>3. GateInv /\ WriterInv
    BY DEF Init, GateInv, WriterInv, Early
  <1>4. ConnInv /\ CommitRecoverable
    BY DEF Init, ConnInv, Fetched, CommitRecoverable
  <1> QED BY <1>1, <1>2, <1>3, <1>4 DEF IInv

LEMMA IInvGate ==
  ASSUME IInv, GateNext PROVE IInv'
  <1>1. TypeOK' /\ MetadataInv' /\ CoordinatorInv' /\ HandlerInv' /\ GateInv' /\ CommitRecoverable'
    BY TypeGate, MetadataGate, CoordinatorGate, HandlerGate, GateGate, RecoverableGate DEF IInv
  <1>2. \A p \in Participants : prep'[p] \in {"put", "saving"} => prep[p] = prep'[p]
    BY DEF IInv, TypeOK, PrepType, callVars, GateNext, GateCreate, GateCreateFails, SessionRollback, GatePrepareCollect,
      GateStartCommit, GateStartCommitFails
  <1>3. WriterInv'
    BY <1>2, FrameGate, FrameFetched DEF IInv, WriterInv, poolVars, engineVars
  <1>4. \A p \in Participants : tx'[p] \in {tx[p], "done"}
    BY DEF IInv, TypeOK, TxType, dataVars, GateNext, GateCreate, GateCreateFails, SessionRollback, GatePrepareCollect,
      GateStartCommit, GateStartCommitFails
  <1>5. decision = "commit" => decision' = "commit"
    BY DEF IInv, MetadataInv, mmVars, GateNext, GateCreate, GateCreateFails, SessionRollback, GatePrepareCollect,
      GateStartCommit, GateStartCommitFails, CreateTransaction, StartCommit, StartCommitFails, Transition
  <1>6. ConnInv'
    BY <1>4, <1>5, FrameGate, FrameFetched DEF IInv, TypeOK, TxType, ConnInv, Fetched, poolVars, engineVars
  <1> QED BY <1>1, <1>3, <1>6 DEF IInv

LEMMA IInvResolve ==
  ASSUME IInv, NEW c \in Coordinators, ResolveNext(c) PROVE IInv'
  <1>1. TypeOK' /\ MetadataInv' /\ CoordinatorInv' /\ HandlerInv' /\ GateInv'
    BY TypeResolve, MetadataResolve, CoordinatorResolve, HandlerResolve, GateResolve DEF IInv
  <1>2. WriterInv'
    BY FrameResolve, FrameFetched DEF IInv, WriterInv, poolVars, dataVars, engineVars
  <1>3. decision = "commit" <=> decision' = "commit"
    BY DEF IInv, MetadataInv, mmVars, ResolveNext, ResolveStart, ReadState, ReadParticipants,
      ResolveSetRollback, Resume, Conclude, MMCallFails, SetRollback, RollbackMMTx, Transition, ConcludeTransaction, DeleteTransaction
  <1>4. ConnInv'
    BY <1>3, FrameResolve, FrameFetched DEF IInv, ConnInv, Fetched, poolVars, dataVars, engineVars
  <1>5. CommitRecoverable'
    BY <1>3, FrameResolve DEF IInv, CommitRecoverable, dataVars
  <1> QED BY <1>1, <1>2, <1>4, <1>5 DEF IInv

LEMMA IInvCall ==
  ASSUME IInv, NEW c \in Coordinators, NEW p \in Participants, CallNext(c, p) PROVE IInv'
  <1>1. TypeOK' /\ HandlerInv' /\ GateInv' /\ WriterInv' /\ ConnInv' /\ CommitRecoverable'
    BY TypeCall, HandlerCall, GateCall, WriterCall, ConnCall, RecoverableCall DEF IInv
  <1>2. MetadataInv' /\ CoordinatorInv'
    BY FrameCall DEF IInv, MetadataInv, CoordinatorInv, mmVars, gateVars
  <1> QED BY <1>1, <1>2 DEF IInv

LEMMA IInvTablet ==
  ASSUME IInv, NEW p \in Participants, TabletNext(p) PROVE IInv'
  <1>1. TypeOK' /\ HandlerInv' /\ GateInv' /\ WriterInv' /\ ConnInv' /\ CommitRecoverable'
    BY TypeTablet, HandlerTablet, GateTablet, WriterTablet, ConnTablet, RecoverableTablet DEF IInv
  <1>2. MetadataInv' /\ CoordinatorInv'
    BY FrameTablet DEF IInv, MetadataInv, CoordinatorInv, mmVars, gateVars
  <1> QED BY <1>1, <1>2 DEF IInv

LEMMA IInvKillMMTx ==
  ASSUME IInv, KillMMTx PROVE IInv'
  <1> USE DEF KillMMTx, mmVars, callVars, gateVars, poolVars, dataVars, engineVars
  <1>1. TypeOK' /\ MetadataInv'
    BY DEF IInv, TypeOK, MetadataInv
  <1>2. CoordinatorInv' /\ HandlerInv' /\ GateInv' /\ WriterInv' /\ ConnInv' /\ CommitRecoverable'
    BY DEF IInv, CoordinatorInv, HandlerInv, GateInv, WriterInv, ConnInv, Fetched, CommitRecoverable
  <1> QED BY <1>1, <1>2 DEF IInv

LEMMA IInvStutter ==
  ASSUME IInv, UNCHANGED vars PROVE IInv'
  BY DEF vars, mmVars, callVars, gateVars, poolVars, dataVars, engineVars, IInv, TypeOK, MetadataInv,
    CoordinatorInv, HandlerInv, GateInv, WriterInv, ConnInv, Fetched, CommitRecoverable

LEMMA IInvStep == IInv /\ [Next]_vars => IInv'
  BY IInvGate, IInvResolve, IInvCall, IInvTablet, IInvKillMMTx, IInvStutter DEF Next

LEMMA IInvInvariant == Spec => []IInv
  BY IInvInit, IInvStep, PTL DEF Spec

-----------------------------------------------------------------------------
(* Safety *)

(* Every variable keeps the type the code gives it. *)
THEOREM TypeCorrect == Spec => []TypeOK
  BY IInvInvariant, PTL DEF IInv

(* Neither the MM shard nor a participant commits anything unless the      *)
(* commit decision is durable in the dt_state row.                         *)
THEOREM CommitNeedsDecisionHolds == Spec => []CommitNeedsDecision
  <1>1. IInv => CommitNeedsDecision
    BY DEF IInv, TypeOK, AppliedType, MetadataInv, ConnInv, CommitNeedsDecision
  <1> QED BY <1>1, IInvInvariant, PTL

(* No retry, replay or failed commit applies a participant's changes twice. *)
THEOREM AppliedOnceHolds == Spec => []AppliedOnce
  <1>1. IInv => AppliedOnce
    BY DEF IInv, TypeOK, AppliedType, ConnInv, AppliedOnce
  <1> QED BY <1>1, IInvInvariant, PTL

(* Once commit is decided a writer's changes are applied or in its redo    *)
(* log, through every crash, shutdown and failed commit.                   *)
THEOREM CommitRecoverableHolds == Spec => []CommitRecoverable
  BY IInvInvariant, PTL DEF IInv

(* A transaction commit2PC reports as aborted commits nowhere. *)
THEOREM AbortIsFinalHolds == Spec => []AbortIsFinal
  <1>1. IInv => AbortIsFinal
    BY DEF IInv, GateInv, AbortIsFinal
  <1> QED BY <1>1, IInvInvariant, PTL

-----------------------------------------------------------------------------
(* Until a tablet restarts, what is concluded is committed.  The prepared  *)
(* pool then keeps the connection of every redo log, so that CommitPrepared *)
(* takes only a transaction that was committed for one that it does not    *)
(* know.                                                                   *)

CommittedInv ==
  \A c \in Coordinators, p \in Participants : handler[c][p] = "committed" => applied[p] > 0

(* commit2PC resolves a transaction only after it has told of the failure. *)
ToldInv ==
  /\ pc[Gate] \in {"read", "readParts", "setRollback", "rollback"} => result = "aborted"
  /\ pc[Gate] = "conclude" /\ result = "none" => decision = "commit"

KeptInv ==
  decision # "rollback" =>
    \A p \in Participants :
      prep[p] \in {"put", "saving"} \/ redo[p] # "none" => conns[p] # "none" \/ reserved[p] # "no"

AllApplied == \A p \in writers : applied[p] > 0

(* Who has heard that a writer committed, or is about to conclude.         *)
ReplyInv ==
  \A c \in Coordinators :
    /\ pc[c] = "commit" => \A p \in writers : reply[c][p] = "ok" => applied[p] > 0
    /\ pc[c] = "conclude" /\ decision = "commit" => AllApplied

RInv ==
  /\ CommittedInv /\ ToldInv
  /\ restarts = 0 => KeptInv /\ ReplyInv /\ ConcludedIsCommitted /\ SuccessIsCommitted

LEMMA RInvInit == Init => RInv
  BY DEF Init, RInv, CommittedInv, ToldInv, KeptInv, ReplyInv, ConcludedIsCommitted, SuccessIsCommitted, Coordinators

(* What commit2PC does: at StartCommit every redo log has its connection.  *)
LEMMA RInvGate ==
  ASSUME IInv, RInv, GateNext
  PROVE  RInv'
  <1> USE DEF mmVars, callVars, gateVars, poolVars, dataVars, engineVars, IInv, TypeOK, Early
  <1> Gate \in Coordinators BY DEF Coordinators
  <1>1. UNCHANGED <<redo, applied, conns, reserved, restarts, writers>>
    BY FrameGate
  <1>2. CASE GateCreate
    BY <1>1, <1>2 DEF GateCreate, CreateTransaction, Goto, PcType, ReplyType, PrepType, MetadataInv, GateInv,
      RInv, CommittedInv, ToldInv, KeptInv, AllApplied, ReplyInv, ConcludedIsCommitted, SuccessIsCommitted
  <1>3. CASE GateCreateFails
    BY <1>1, <1>3 DEF GateCreateFails, SessionRollback, Goto, PcType, MetadataInv, GateInv,
      RInv, CommittedInv, ToldInv, KeptInv, AllApplied, ReplyInv, ConcludedIsCommitted, SuccessIsCommitted
  <1>4. CASE GatePrepareCollect
    BY <1>1, <1>4 DEF GatePrepareCollect, Goto, PcType, GateInv,
      RInv, CommittedInv, ToldInv, KeptInv, AllApplied, ReplyInv, ConcludedIsCommitted, SuccessIsCommitted
  <1>5. CASE GateStartCommit
    <2>1. CommittedInv' /\ ToldInv'
      BY <1>1, <1>5 DEF GateStartCommit, StartCommit, Transition, Goto, Send, PcType, HandlerType, RInv, CommittedInv, ToldInv
    <2>2. ASSUME restarts' = 0 PROVE KeptInv'
      BY <1>1, <1>5, <2>2 DEF GateStartCommit, StartCommit, Transition, Goto, Send, MetadataInv, RInv, KeptInv
    <2>3. ASSUME restarts' = 0 PROVE ReplyInv'
      BY <1>1, <1>5, <2>3 DEF GateStartCommit, StartCommit, Transition, Goto, Send, PcType, ReplyType, MetadataInv, CoordinatorInv, RInv, AllApplied, ReplyInv
    <2>4. ASSUME restarts' = 0 PROVE ConcludedIsCommitted' /\ SuccessIsCommitted'
      BY <1>1, <1>5, <2>4 DEF GateStartCommit, StartCommit, Transition, Goto, Send, MetadataInv, GateInv, RInv, ConcludedIsCommitted, SuccessIsCommitted
    <2> QED BY <2>1, <2>2, <2>3, <2>4 DEF RInv
  <1>6. CASE GateStartCommitFails
    <2>1. CommittedInv' /\ ToldInv'
      BY <1>1, <1>6 DEF GateStartCommitFails, StartCommitFails, StartCommit, Transition, Goto, PcType, RInv, CommittedInv, ToldInv
    <2>2. ASSUME restarts' = 0 PROVE KeptInv'
      BY <1>1, <1>6, <2>2 DEF GateStartCommitFails, StartCommitFails, StartCommit, Transition, Goto, MetadataInv, RInv, KeptInv
    <2>3. ASSUME restarts' = 0 PROVE ReplyInv'
      BY <1>1, <1>6, <2>3 DEF GateStartCommitFails, StartCommitFails, StartCommit, Transition, Goto, PcType, MetadataInv, CoordinatorInv, RInv, AllApplied, ReplyInv
    <2>4. ASSUME restarts' = 0 PROVE ConcludedIsCommitted' /\ SuccessIsCommitted'
      BY <1>1, <1>6, <2>4 DEF GateStartCommitFails, StartCommitFails, StartCommit, Transition, Goto, MetadataInv, GateInv, RInv, ConcludedIsCommitted, SuccessIsCommitted
    <2> QED BY <2>1, <2>2, <2>3, <2>4 DEF RInv
  <1> QED BY <1>2, <1>3, <1>4, <1>5, <1>6 DEF GateNext

(* What Resolve does: it concludes when every participant has answered.    *)
LEMMA RInvResolve ==
  ASSUME IInv, RInv, NEW c \in Coordinators, ResolveNext(c)
  PROVE  RInv'
  <1> USE DEF mmVars, callVars, gateVars, poolVars, dataVars, engineVars, IInv, TypeOK, Early
  <1> Gate \in Coordinators BY DEF Coordinators
  <1>1. UNCHANGED <<prep, redo, applied, conns, reserved, restarts, writers>>
    BY FrameResolve
  <1>2. CASE ResolveStart(c)
    BY <1>1, <1>2, GateAssumption DEF ResolveStart, Goto, PcType,
      RInv, CommittedInv, ToldInv, KeptInv, AllApplied, ReplyInv, ConcludedIsCommitted, SuccessIsCommitted
  <1>3. CASE ReadState(c)
    BY <1>1, <1>3 DEF ReadState, Return, Goto, PcType,
      RInv, CommittedInv, ToldInv, KeptInv, AllApplied, ReplyInv, ConcludedIsCommitted, SuccessIsCommitted
  <1>4. CASE ReadParticipants(c)
    <2>1. CommittedInv' /\ ToldInv'
      BY <1>1, <1>4, SMTT(30) DEF ReadParticipants, Goto, Send, PcType, PartsType, HandlerType, RInv, CommittedInv, ToldInv
    <2>2. ASSUME restarts' = 0 PROVE KeptInv'
      BY <1>1, <1>4, <2>2 DEF ReadParticipants, Goto, RInv, KeptInv
    <2>3. ASSUME restarts' = 0 PROVE ReplyInv'
      BY <1>1, <1>4, <2>3 DEF ReadParticipants, Goto, Send, PcType, PartsType, ReplyType, CoordinatorInv, ConcludedIsCommitted, RInv, AllApplied, ReplyInv
    <2>4. ASSUME restarts' = 0 PROVE ConcludedIsCommitted' /\ SuccessIsCommitted'
      BY <1>1, <1>4, <2>4 DEF ReadParticipants, Goto, RInv, ConcludedIsCommitted, SuccessIsCommitted
    <2> QED BY <2>1, <2>2, <2>3, <2>4 DEF RInv
  <1>5. CASE ResolveSetRollback(c)
    BY <1>1, <1>5 DEF ResolveSetRollback, SetRollback, RollbackMMTx, Transition, Send, Goto, PcType, ReplyType, PartsType, HandlerType,
      MetadataInv, CoordinatorInv, GateInv,
      RInv, CommittedInv, ToldInv, KeptInv, AllApplied, ReplyInv, ConcludedIsCommitted, SuccessIsCommitted
  <1>6. CASE Resume(c)
    BY <1>1, <1>6 DEF Resume, AllOk, Return, Goto, PcType, CoordinatorInv,
      RInv, CommittedInv, ToldInv, KeptInv, AllApplied, ReplyInv, ConcludedIsCommitted, SuccessIsCommitted
  <1>7. CASE Conclude(c)
    BY <1>1, <1>7 DEF Conclude, ConcludeTransaction, DeleteTransaction, Return, Goto, PcType, CoordinatorInv,
      RInv, CommittedInv, ToldInv, KeptInv, AllApplied, ReplyInv, ConcludedIsCommitted, SuccessIsCommitted
  <1>8. CASE MMCallFails(c)
    BY <1>1, <1>8 DEF MMCallFails, SetRollback, RollbackMMTx, Transition, ConcludeTransaction, DeleteTransaction, Return, Goto, PcType,
      MetadataInv, CoordinatorInv, GateInv,
      RInv, CommittedInv, ToldInv, KeptInv, AllApplied, ReplyInv, ConcludedIsCommitted, SuccessIsCommitted
  <1> QED BY <1>2, <1>3, <1>4, <1>5, <1>6, <1>7, <1>8 DEF ResolveNext

(* What the handlers of CommitPrepared and RollbackPrepared do.            *)
LEMMA RInvCall ==
  ASSUME IInv, RInv, NEW c \in Coordinators, NEW p \in Participants, CallNext(c, p)
  PROVE  RInv'
  <1> USE DEF mmVars, callVars, gateVars, poolVars, dataVars, engineVars, IInv, TypeOK, HandlerType, ReplyType,
    ConnsType, ReservedType, RedoType, AppliedType
  <1> Gate \in Coordinators BY DEF Coordinators
  <1>1. UNCHANGED <<dtState, decision, pc, result, restarts, writers>>
    BY FrameCall
  <1>2. CASE FetchForCommit(c, p)
    <2>1. CommittedInv' /\ ToldInv'
      BY <1>1, <1>2, SMTT(30) DEF FetchForCommit, Answer, Advance, RInv, CommittedInv, ToldInv
    <2>2. ASSUME restarts' = 0 PROVE KeptInv'
      BY <1>1, <1>2, <2>2 DEF FetchForCommit, Answer, Advance, RInv, KeptInv
    <2>3. ASSUME restarts' = 0 PROVE ReplyInv'
      <3>1. \A d \in Coordinators, q \in Participants :
              reply'[d][q] = "ok" => reply[d][q] = "ok" \/ (d = c /\ q = p /\ reserved[p] = "no" /\ conns[p] = "none")
        BY <1>2 DEF FetchForCommit, Answer, Advance
      <3>2. p \in writers /\ reserved[p] = "no" /\ conns[p] = "none" => applied[p] > 0
        BY <1>1, <1>2, <2>3 DEF FetchForCommit, RInv, KeptInv, HandlerInv, Committing, CommitRecoverable
      <3>3. UNCHANGED applied
        BY <1>2 DEF FetchForCommit
      <3> QED BY <1>1, <2>3, <3>1, <3>2, <3>3 DEF RInv, AllApplied, ReplyInv
    <2>4. ASSUME restarts' = 0 PROVE ConcludedIsCommitted' /\ SuccessIsCommitted'
      BY <1>1, <1>2, <2>4 DEF FetchForCommit, Answer, Advance, RInv, ConcludedIsCommitted, SuccessIsCommitted
    <2> QED BY <2>1, <2>2, <2>3, <2>4 DEF RInv
  <1>3. CASE CommitFetched(c, p)
    <2>1. CommittedInv' /\ ToldInv'
      BY <1>1, <1>3, SMTT(30) DEF CommitFetched, CommitConn, Advance, RInv, CommittedInv, ToldInv
    <2>2. ASSUME restarts' = 0 PROVE KeptInv'
      BY <1>1, <1>3, <2>2 DEF CommitFetched, CommitConn, Advance, RInv, KeptInv
    <2>3. ASSUME restarts' = 0 PROVE ReplyInv'
      <3>1. UNCHANGED reply /\ \A q \in Participants : applied[q] > 0 => applied'[q] > 0
        BY <1>3 DEF CommitFetched, CommitConn, Advance
      <3> QED BY <1>1, <2>3, <3>1 DEF RInv, AllApplied, ReplyInv
    <2>4. ASSUME restarts' = 0 PROVE ConcludedIsCommitted' /\ SuccessIsCommitted'
      BY <1>1, <1>3, <2>4 DEF CommitFetched, CommitConn, Advance, RInv, ConcludedIsCommitted, SuccessIsCommitted
    <2> QED BY <2>1, <2>2, <2>3, <2>4 DEF RInv
  <1>4. CASE Forget(c, p)
    <2>1. CommittedInv' /\ ToldInv'
      BY <1>1, <1>4 DEF Forget, Answer, RInv, CommittedInv, ToldInv
    <2>2. ASSUME restarts' = 0 PROVE KeptInv'
      <3>1. applied[p] > 0 /\ decision = "commit"
        BY <1>4 DEF Forget, HandlerInv, Committing, RInv, CommittedInv
      <3>2. redo[p] = "none"
        BY <3>1 DEF ConnInv
      <3>3. prep[p] \notin {"put", "saving"}
        BY <3>1 DEF GateInv, PrepType
      <3>4. /\ UNCHANGED <<prep, redo, conns, decision>>
            /\ \A q \in Participants : q # p => reserved'[q] = reserved[q]
        BY <1>4 DEF Forget
      <3> QED BY <1>1, <2>2, <3>2, <3>3, <3>4 DEF RInv, KeptInv
    <2>3. ASSUME restarts' = 0 PROVE ReplyInv'
      BY <1>1, <1>4, <2>3 DEF Forget, Answer, RInv, AllApplied, ReplyInv, CommittedInv
    <2>4. ASSUME restarts' = 0 PROVE ConcludedIsCommitted' /\ SuccessIsCommitted'
      BY <1>1, <1>4, <2>4 DEF Forget, Answer, RInv, ConcludedIsCommitted, SuccessIsCommitted
    <2> QED BY <2>1, <2>2, <2>3, <2>4 DEF RInv
  <1>5. CASE SetFailed(c, p)
    <2>1. CommittedInv' /\ ToldInv'
      BY <1>1, <1>5 DEF SetFailed, Advance, RInv, CommittedInv, ToldInv
    <2>2. ASSUME restarts' = 0 PROVE KeptInv'
      BY <1>1, <1>5, <2>2 DEF SetFailed, Advance, RInv, KeptInv
    <2>3. ASSUME restarts' = 0 PROVE ReplyInv'
      BY <1>1, <1>5, <2>3 DEF SetFailed, Advance, RInv, AllApplied, ReplyInv, CommittedInv
    <2>4. ASSUME restarts' = 0 PROVE ConcludedIsCommitted' /\ SuccessIsCommitted'
      BY <1>1, <1>5, <2>4 DEF SetFailed, Advance, RInv, ConcludedIsCommitted, SuccessIsCommitted
    <2> QED BY <2>1, <2>2, <2>3, <2>4 DEF RInv
  <1>6. CASE UpdateRedo(c, p)
    <2>1. CommittedInv' /\ ToldInv'
      BY <1>1, <1>6 DEF UpdateRedo, Answer, RInv, CommittedInv, ToldInv
    <2>2. ASSUME restarts' = 0 PROVE KeptInv'
      BY <1>1, <1>6, <2>2 DEF UpdateRedo, Answer, RInv, KeptInv
    <2>3. ASSUME restarts' = 0 PROVE ReplyInv'
      BY <1>1, <1>6, <2>3 DEF UpdateRedo, Answer, RInv, AllApplied, ReplyInv, CommittedInv
    <2>4. ASSUME restarts' = 0 PROVE ConcludedIsCommitted' /\ SuccessIsCommitted'
      BY <1>1, <1>6, <2>4 DEF UpdateRedo, Answer, RInv, ConcludedIsCommitted, SuccessIsCommitted
    <2> QED BY <2>1, <2>2, <2>3, <2>4 DEF RInv
  <1>7. CASE DeleteRedo(c, p)
    <2>1. CommittedInv' /\ ToldInv'
      <3>1. UNCHANGED applied /\ \E h \in {"deleted", "notDeleted"} : handler' = [handler EXCEPT ![c][p] = h]
        BY <1>7 DEF DeleteRedo, Advance
      <3>2. \A d \in Coordinators, q \in Participants : handler'[d][q] = "committed" => handler[d][q] = "committed"
        BY <3>1
      <3> QED BY <1>1, <3>1, <3>2 DEF RInv, CommittedInv, ToldInv
    <2>2. ASSUME restarts' = 0 PROVE KeptInv'
      BY <1>1, <1>7, <2>2 DEF DeleteRedo, Advance, HandlerInv, RollingBack, RInv, KeptInv
    <2>3. ASSUME restarts' = 0 PROVE ReplyInv'
      BY <1>1, <1>7, <2>3 DEF DeleteRedo, Advance, RInv, AllApplied, ReplyInv, CommittedInv
    <2>4. ASSUME restarts' = 0 PROVE ConcludedIsCommitted' /\ SuccessIsCommitted'
      BY <1>1, <1>7, <2>4 DEF DeleteRedo, Advance, RInv, ConcludedIsCommitted, SuccessIsCommitted
    <2> QED BY <2>1, <2>2, <2>3, <2>4 DEF RInv
  <1>8. CASE FetchForRollback(c, p)
    <2>1. CommittedInv' /\ ToldInv'
      BY <1>1, <1>8 DEF FetchForRollback, Answer, RInv, CommittedInv, ToldInv
    <2>2. ASSUME restarts' = 0 PROVE KeptInv'
      BY <1>1, <1>8, <2>2 DEF FetchForRollback, Answer, HandlerInv, RollingBack, CoordinatorInv, RInv, KeptInv
    <2>3. ASSUME restarts' = 0 PROVE ReplyInv'
      <3>1. decision = "rollback"
        BY <1>8 DEF FetchForRollback, HandlerInv, RollingBack
      <3>2. \A d \in Coordinators : pc[d] # "commit"
        BY <3>1 DEF CoordinatorInv
      <3> QED BY <1>1, <3>1, <3>2 DEF ReplyInv
    <2>4. ASSUME restarts' = 0 PROVE ConcludedIsCommitted' /\ SuccessIsCommitted'
      BY <1>1, <1>8, <2>4 DEF FetchForRollback, Answer, RInv, ConcludedIsCommitted, SuccessIsCommitted
    <2> QED BY <2>1, <2>2, <2>3, <2>4 DEF RInv
  <1>9. CASE LoseRequest(c, p) \/ Timeout(c, p)
    <2>1. CommittedInv' /\ ToldInv'
      BY <1>1, <1>9 DEF LoseRequest, Timeout, Answer, RInv, CommittedInv, ToldInv
    <2>2. ASSUME restarts' = 0 PROVE KeptInv'
      BY <1>1, <1>9, <2>2 DEF LoseRequest, Timeout, Answer, RInv, KeptInv
    <2>3. ASSUME restarts' = 0 PROVE ReplyInv'
      BY <1>1, <1>9, <2>3 DEF LoseRequest, Timeout, Answer, RInv, AllApplied, ReplyInv
    <2>4. ASSUME restarts' = 0 PROVE ConcludedIsCommitted' /\ SuccessIsCommitted'
      BY <1>1, <1>9, <2>4 DEF LoseRequest, Timeout, Answer, RInv, ConcludedIsCommitted, SuccessIsCommitted
    <2> QED BY <2>1, <2>2, <2>3, <2>4 DEF RInv
  <1>10. CASE GatewayRetry(c, p)
    <2>1. CommittedInv' /\ ToldInv'
      BY <1>1, <1>10, SMTT(30) DEF GatewayRetry, PrepType, RInv, CommittedInv, ToldInv
    <2>2. ASSUME restarts' = 0 PROVE KeptInv'
      BY <1>1, <1>10, <2>2 DEF GatewayRetry, PrepType, RInv, KeptInv
    <2>3. ASSUME restarts' = 0 PROVE ReplyInv'
      BY <1>1, <1>10, <2>3 DEF GatewayRetry, PrepType, RInv, AllApplied, ReplyInv
    <2>4. ASSUME restarts' = 0 PROVE ConcludedIsCommitted' /\ SuccessIsCommitted'
      BY <1>1, <1>10, <2>4 DEF GatewayRetry, PrepType, RInv, ConcludedIsCommitted, SuccessIsCommitted
    <2> QED BY <2>1, <2>2, <2>3, <2>4 DEF RInv
  <1> QED BY <1>2, <1>3, <1>4, <1>5, <1>6, <1>7, <1>8, <1>9, <1>10 DEF CallNext

(* What a participant does by itself, short of a restart.                  *)
LEMMA RInvTablet ==
  ASSUME IInv, RInv, NEW p \in Participants, TabletNext(p)
  PROVE  RInv'
  <1> USE DEF mmVars, callVars, gateVars, poolVars, dataVars, engineVars, IInv, TypeOK, HandlerType, ReplyType, PrepType,
    ConnsType, ReservedType, RedoType, AppliedType
  <1> Gate \in Coordinators BY DEF Coordinators
  <1>1. UNCHANGED <<dtState, decision, pc, result, writers>>
    BY FrameTablet
  <1>2. CASE PreparePut(p)
    <2>1. CommittedInv' /\ ToldInv'
      BY <1>1, <1>2 DEF PreparePut, AnswerPrepare, CanPut, RInv, CommittedInv, ToldInv
    <2>2. ASSUME restarts' = 0 PROVE KeptInv'
      BY <1>1, <1>2, <2>2 DEF PreparePut, AnswerPrepare, CanPut, RInv, KeptInv
    <2>3. ASSUME restarts' = 0 PROVE ReplyInv'
      <3>1. \A d \in Coordinators, q \in Participants : reply'[d][q] # reply[d][q] => pc[d] = "prepare"
        BY <1>2 DEF PreparePut, AnswerPrepare
      <3>2. UNCHANGED <<applied, restarts>>
        BY <1>2 DEF PreparePut
      <3> QED BY <1>1, <2>3, <3>1, <3>2 DEF RInv, AllApplied, ReplyInv
    <2>4. ASSUME restarts' = 0 PROVE ConcludedIsCommitted' /\ SuccessIsCommitted'
      BY <1>1, <1>2, <2>4 DEF PreparePut, AnswerPrepare, CanPut, RInv, ConcludedIsCommitted, SuccessIsCommitted
    <2> QED BY <2>1, <2>2, <2>3, <2>4 DEF RInv
  <1>3. CASE PrepareReadQueries(p)
    BY <1>1, <1>3 DEF PrepareReadQueries, AnswerPrepare,
      RInv, CommittedInv, ToldInv, KeptInv, AllApplied, ReplyInv, ConcludedIsCommitted, SuccessIsCommitted
  <1>4. CASE PrepareSaveRedo(p)
    <2>1. CommittedInv' /\ ToldInv'
      BY <1>1, <1>4 DEF PrepareSaveRedo, SaveRedo, AnswerPrepare, RInv, CommittedInv, ToldInv
    <2>2. ASSUME restarts' = 0 PROVE KeptInv'
      BY <1>1, <1>4, <2>2 DEF PrepareSaveRedo, SaveRedo, AnswerPrepare, RInv, KeptInv
    <2>3. ASSUME restarts' = 0 PROVE ReplyInv'
      BY <1>1, <1>4, <2>3 DEF PrepareSaveRedo, SaveRedo, AnswerPrepare, RInv, AllApplied, ReplyInv
    <2>4. ASSUME restarts' = 0 PROVE ConcludedIsCommitted' /\ SuccessIsCommitted'
      BY <1>1, <1>4, <2>4 DEF PrepareSaveRedo, SaveRedo, AnswerPrepare, RInv, ConcludedIsCommitted, SuccessIsCommitted
    <2> QED BY <2>1, <2>2, <2>3, <2>4 DEF RInv
  <1>5. CASE LosePrepare(p)
    BY <1>1, <1>5 DEF LosePrepare, AnswerPrepare,
      RInv, CommittedInv, ToldInv, KeptInv, AllApplied, ReplyInv, ConcludedIsCommitted, SuccessIsCommitted
  <1>6. CASE Shutdown(p)
    BY <1>1, <1>6 DEF Shutdown, Restart, FetchAll, RInv, CommittedInv, ToldInv
  <1>7. CASE Crash(p)
    BY <1>1, <1>7 DEF Crash, Restart, CommitConn, RInv, CommittedInv, ToldInv
  <1>8. CASE KillTx(p) \/ Drained(p) \/ AcceptReadWrite(p) \/ ReadAllRedo(p)
    BY <1>1, <1>8 DEF KillTx, Drained, AcceptReadWrite, ReadAllRedo,
      RInv, CommittedInv, ToldInv, KeptInv, AllApplied, ReplyInv, ConcludedIsCommitted, SuccessIsCommitted
  <1>9. CASE ReplayPut(p) \/ ReplayFailed(p)
    BY <1>1, <1>9 DEF ReplayPut, ReplayFailed,
      RInv, CommittedInv, ToldInv, KeptInv, AllApplied, ReplyInv, ConcludedIsCommitted, SuccessIsCommitted
  <1> QED BY <1>2, <1>3, <1>4, <1>5, <1>6, <1>7, <1>8, <1>9 DEF TabletNext

LEMMA RInvStep == IInv /\ RInv /\ [Next]_vars => RInv'
  <1>1. ASSUME RInv, KillMMTx \/ UNCHANGED vars PROVE RInv'
    BY <1>1 DEF KillMMTx, vars, mmVars, callVars, gateVars, poolVars, dataVars, engineVars,
      RInv, CommittedInv, ToldInv, KeptInv, AllApplied, ReplyInv, ConcludedIsCommitted, SuccessIsCommitted
  <1> QED BY <1>1, RInvGate, RInvResolve, RInvCall, RInvTablet DEF Next

LEMMA RInvInvariant == Spec => []RInv
  BY RInvInit, RInvStep, IInvInvariant, PTL DEF Spec

(* As long as no participant restarts, the metadata of a committed         *)
(* transaction disappears only when every writer has committed, whatever   *)
(* calls are lost, late or retried and however many resolvers run.  The    *)
(* condition is needed: a restart empties the prepared pool.               *)
THEOREM ConcludedBeforeRestart == Spec => [](restarts = 0 => ConcludedIsCommitted)
  BY RInvInvariant, PTL DEF RInv

(* As long as no participant restarts, commit2PC reports success only      *)
(* after every writer has committed.                                       *)
THEOREM SuccessBeforeRestart == Spec => [](restarts = 0 => SuccessIsCommitted)
  BY RInvInvariant, PTL DEF RInv

=============================================================================
