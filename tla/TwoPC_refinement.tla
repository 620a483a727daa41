-------------------------- MODULE TwoPC_refinement --------------------------
(***************************************************************************)
(* TwoPC implements AtomicCommit, and its verdict is final.                *)
(***************************************************************************)
EXTENDS TwoPC_proofs

Logs == {p \in Participants : redo[p] # "none"}
Applied == {p \in Participants : applied[p] > 0}

(* The steps that AtomicCommit does not see. *)
LEMMA AbsStutter ==
  ASSUME UNCHANGED <<decision, writers>>,
         \A p \in Participants : redo'[p] = "none" <=> redo[p] = "none",
         \A p \in Participants : applied'[p] = applied[p]
  PROVE  UNCHANGED AC!vars
  <1>1. Logs' = Logs /\ Applied' = Applied
    BY DEF Logs, Applied
  <1> QED BY <1>1 DEF AC!vars, Logs, Applied

(* StartCommit and SetRollback reach the verdict. *)
LEMMA AbsDecide ==
  ASSUME NEW d \in {"commit", "rollback"}, decision = "none", decision' = d,
         d = "commit" => \A p \in writers : p \in Participants /\ redo[p] # "none",
         UNCHANGED <<writers, redo, applied>>
  PROVE  AC!Next
  <1>1. AC!Decide(d)
    BY DEF AC!Decide
  <1> QED BY <1>1 DEF AC!Next

(* Prepare saves the redo log. *)
LEMMA AbsLog ==
  ASSUME IInv, NEW p \in writers, SaveRedo(p), applied[p] = 0, UNCHANGED <<decision, writers, applied>>
  PROVE  AC!Next
  <1>1. p \in Participants
    BY DEF IInv, TypeOK
  <1>2. Logs' = Logs \cup {p} /\ p \notin Logs /\ p \notin Applied
    BY <1>1 DEF IInv, TypeOK, RedoType, Logs, Applied, SaveRedo
  <1>3. Applied' = Applied
    BY DEF Applied
  <1>4. AC!Log(p)
    BY <1>2, <1>3 DEF AC!Log, Logs, Applied
  <1> QED BY <1>1, <1>4 DEF AC!Next

(* RollbackPrepared deletes it. *)
LEMMA AbsDiscard ==
  ASSUME IInv, NEW p \in Participants, redo[p] # "none", redo' = [redo EXCEPT ![p] = "none"],
         decision = "rollback", UNCHANGED <<decision, writers, applied>>
  PROVE  AC!Next
  <1>1. Logs' = Logs \ {p} /\ p \in Logs
    BY DEF IInv, TypeOK, RedoType, Logs
  <1>2. Applied' = Applied
    BY DEF Applied
  <1>3. AC!Discard(p)
    BY <1>1, <1>2 DEF AC!Discard, Logs, Applied
  <1> QED BY <1>3 DEF AC!Next

(* CommitPrepared deletes it with the commit. *)
LEMMA AbsApply ==
  ASSUME IInv, NEW p \in Participants, Fetched(p), CommitConn(p), UNCHANGED <<decision, writers>>
  PROVE  AC!Next
  <1>1. decision = "commit" /\ p \in writers /\ applied[p] = 0
    BY DEF IInv, HandlerInv, Committing, WriterInv, ConnInv, Fetched
  <1>2. redo[p] # "none"
    BY <1>1 DEF IInv, TypeOK, AppliedType, CommitRecoverable
  <1>3. Logs' = Logs \ {p} /\ p \in Logs
    BY <1>2 DEF IInv, TypeOK, RedoType, Logs, CommitConn
  <1>4. Applied' = Applied \cup {p}
    BY <1>1 DEF IInv, TypeOK, AppliedType, Applied, CommitConn
  <1>5. AC!Apply(p)
    BY <1>1, <1>3, <1>4 DEF AC!Apply, Logs, Applied
  <1> QED BY <1>5 DEF AC!Next
LEMMA AbsGate ==
  ASSUME IInv, GateNext
  PROVE  AC!Next \/ UNCHANGED AC!vars
  <1>1. UNCHANGED <<writers, redo, applied>>
    BY FrameGate
  <1>2. CASE UNCHANGED decision
    BY <1>1, <1>2, AbsStutter
  <1>3. CASE decision' # decision
    <2>1. pc[Gate] = "startCommit" /\ Transition("COMMIT")
      BY <1>3 DEF mmVars, GateNext, GateCreate, GateCreateFails, SessionRollback, GatePrepareCollect, GateStartCommit,
        GateStartCommitFails, CreateTransaction, StartCommit, StartCommitFails
    <2>2. decision = "none" /\ decision' = "commit"
      BY <2>1 DEF IInv, MetadataInv, Transition
    <2>3. \A p \in writers : p \in Participants /\ redo[p] # "none"
      BY <2>1, <2>2 DEF IInv, TypeOK, GateInv
    <2> QED BY <1>1, <2>2, <2>3, AbsDecide
  <1> QED BY <1>2, <1>3

LEMMA AbsResolve ==
  ASSUME IInv, NEW c \in Coordinators, ResolveNext(c)
  PROVE  AC!Next \/ UNCHANGED AC!vars
  <1>1. UNCHANGED <<writers, redo, applied>>
    BY FrameResolve DEF dataVars
  <1>2. CASE UNCHANGED decision
    BY <1>1, <1>2, AbsStutter
  <1>3. CASE decision' # decision
    <2>1. Transition("ROLLBACK")
      BY <1>3 DEF mmVars, ResolveNext, ResolveStart, ReadState, ReadParticipants, ResolveSetRollback, Resume,
        Conclude, MMCallFails, SetRollback, RollbackMMTx, ConcludeTransaction, DeleteTransaction
    <2>2. decision = "none" /\ decision' = "rollback"
      BY <2>1 DEF IInv, MetadataInv, Transition
    <2> QED BY <1>1, <2>2, AbsDecide
  <1> QED BY <1>2, <1>3

LEMMA AbsCall ==
  ASSUME IInv, NEW c \in Coordinators, NEW p \in Participants, CallNext(c, p)
  PROVE  AC!Next \/ UNCHANGED AC!vars
  <1>1. UNCHANGED <<decision, writers>>
    BY FrameCall DEF mmVars
  <1>2. CASE CommitFetched(c, p)
    <2>1. CommitConn(p) \/ UNCHANGED <<redo, applied>>
      BY <1>2 DEF CommitFetched
    <2>2. Fetched(p)
      BY <1>2 DEF CommitFetched, Fetched
    <2> QED BY <1>1, <2>1, <2>2, AbsApply, AbsStutter
  <1>3. CASE UpdateRedo(c, p)
    <2>1. UNCHANGED applied /\ \A q \in Participants : redo'[q] = "none" <=> redo[q] = "none"
      BY <1>3 DEF IInv, TypeOK, RedoType, UpdateRedo
    <2> QED BY <1>1, <2>1, AbsStutter
  <1>4. CASE DeleteRedo(c, p)
    <2>1. UNCHANGED applied /\ (UNCHANGED redo \/ redo' = [redo EXCEPT ![p] = "none"])
      BY <1>4 DEF DeleteRedo
    <2>2. decision = "rollback"
      BY <1>4 DEF IInv, HandlerInv, RollingBack, DeleteRedo
    <2>3. CASE redo[p] = "none" \/ UNCHANGED redo
      BY <1>1, <2>1, <2>3, AbsStutter DEF IInv, TypeOK, RedoType
    <2>4. CASE redo[p] # "none" /\ redo' = [redo EXCEPT ![p] = "none"]
      BY <1>1, <2>1, <2>2, <2>4, AbsDiscard
    <2> QED BY <2>1, <2>3, <2>4
  <1>5. CASE UNCHANGED <<redo, applied>>
    BY <1>1, <1>5, AbsStutter
  <1> QED BY <1>2, <1>3, <1>4, <1>5 DEF dataVars, CallNext, FetchForCommit, Forget, SetFailed,
    FetchForRollback, LoseRequest, Timeout, GatewayRetry

LEMMA AbsTablet ==
  ASSUME IInv, NEW p \in Participants, TabletNext(p)
  PROVE  AC!Next \/ UNCHANGED AC!vars
  <1>1. UNCHANGED <<decision, writers>>
    BY FrameTablet DEF mmVars
  <1>2. prep[p] = "saving" => p \in writers /\ applied[p] = 0
    BY DEF IInv, WriterInv, GateInv, ConnInv
  <1>3. CASE PrepareSaveRedo(p)
    <2>1. prep[p] = "saving" /\ UNCHANGED applied /\ (SaveRedo(p) \/ UNCHANGED redo)
      BY <1>3 DEF PrepareSaveRedo
    <2> QED BY <1>1, <1>2, <2>1, AbsLog, AbsStutter
  <1>4. CASE Crash(p)
    <2>1. \/ UNCHANGED <<redo, applied>>
          \/ Fetched(p) /\ CommitConn(p)
          \/ prep[p] = "saving" /\ SaveRedo(p) /\ UNCHANGED applied
      BY <1>4 DEF Crash, Fetched
    <2> QED BY <1>1, <1>2, <2>1, AbsLog, AbsApply, AbsStutter
  <1>5. CASE UNCHANGED <<redo, applied>>
    BY <1>1, <1>5, AbsStutter
  <1> QED BY <1>3, <1>4, <1>5 DEF dataVars, TabletNext, PreparePut, PrepareReadQueries, LosePrepare, KillTx,
    Shutdown, FetchAll, Drained, AcceptReadWrite, ReadAllRedo, ReplayPut, ReplayFailed

(* Every step is a step of AtomicCommit or one it does not see. *)
LEMMA AbsStep == IInv /\ [Next]_vars => [AC!Next]_(AC!vars)
  <1> SUFFICES ASSUME IInv, [Next]_vars PROVE AC!Next \/ UNCHANGED AC!vars
    OBVIOUS
  <1>1. CASE KillMMTx \/ UNCHANGED vars
    <2>1. UNCHANGED <<decision, writers, redo, applied>>
      BY <1>1 DEF KillMMTx, vars, mmVars, dataVars
    <2> QED BY <2>1, AbsStutter
  <1> QED BY <1>1, AbsGate, AbsResolve, AbsCall, AbsTablet DEF Next

(* commit2PC, Resolve, the tablets' handlers and their recovery implement  *)
(* atomic commit with logs, whatever fails and whoever restarts.           *)
THEOREM Refinement == Spec => ImplementsAtomicCommit
  <1>1. Init => AC!Init
    BY DEF Init, AC!Init
  <1> QED BY <1>1, IInvInvariant, AbsStep, PTL DEF Spec, ImplementsAtomicCommit, AC!Spec

(* The dt_state row changes only forward, and a verdict is never replaced. *)
THEOREM DecisionIsFinalHolds == Spec => DecisionIsFinal
  <1> DEFINE Forward ==
        /\ decision # "none" => decision' = decision
        /\ dtState' # dtState =>
             \/ dtState = "none" /\ dtState' = "PREPARE" /\ decision = "none"
             \/ dtState = "PREPARE" /\ dtState' \in {"COMMIT", "ROLLBACK"}
             \/ dtState \in {"COMMIT", "ROLLBACK"} /\ dtState' = "none"
  <1>1. IInv /\ [Next]_vars => [Forward]_vars
    <2> SUFFICES ASSUME IInv, Next PROVE Forward
      OBVIOUS
    <2> Gate \in Coordinators BY DEF Coordinators
    <2> USE DEF mmVars, IInv, TypeOK, MetadataInv
    <2>1. CASE GateNext
      BY <2>1 DEF GateNext, GateCreate, GateCreateFails, SessionRollback, GatePrepareCollect, GateStartCommit,
        GateStartCommitFails, CreateTransaction, StartCommit, StartCommitFails, Transition
    <2>2. ASSUME NEW c \in Coordinators, ResolveNext(c) PROVE Forward
      BY <2>2 DEF CoordinatorInv, ResolveNext, ResolveStart, ReadState, ReadParticipants, ResolveSetRollback,
        Resume, Conclude, MMCallFails, SetRollback, RollbackMMTx, ConcludeTransaction, DeleteTransaction, Transition
    <2>3. ASSUME NEW c \in Coordinators, NEW p \in Participants, CallNext(c, p) PROVE Forward
      BY <2>3, FrameCall
    <2>4. ASSUME NEW p \in Participants, TabletNext(p) PROVE Forward
      BY <2>4, FrameTablet
    <2>5. CASE KillMMTx
      BY <2>5 DEF KillMMTx
    <2> QED BY <2>1, <2>2, <2>3, <2>4, <2>5 DEF Next
  <1> QED BY <1>1, IInvInvariant, PTL DEF Spec, DecisionIsFinal

=============================================================================
