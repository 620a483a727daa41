------------------------------- MODULE TwoPC -------------------------------
(***************************************************************************)
(* Vitess's two-phase commit of ONE distributed transaction (one dtid):    *)
(*                                                                         *)
(*   vtgate      TxConn.commit2PC run by Gate, and TxConn.Resolve run by   *)
(*               every coordinator (by Gate after a failed Prepare, by the *)
(*               Resolvers when a tablet's watchdog asks for it);          *)
(*   MM shard    the dt_state / dt_participant rows of the dtid and the    *)
(*               client's transaction on the metadata manager's shard;     *)
(*   participant the client's transaction, the prepared pool's entry, the  *)
(*               redo log's row, the handlers of the RPCs in progress, the *)
(*               shutdown of the transaction engine, and its recovery.     *)
(*                                                                         *)
(* One step is one SQL transaction or one critical section of the prepared *)
(* pool's mutex.  An RPC may be lost, may time out at the caller while its *)
(* handler goes on, may lose its reply, and may be retried by the gateway. *)
(* A process that stops is a caller all of whose later RPCs are lost.      *)
(***************************************************************************)
EXTENDS Naturals, FiniteSets

CONSTANTS
  Participants,   \* shards other than the metadata manager's
  Gate,           \* the vtgate goroutine that runs commit2PC
  Resolvers,      \* the goroutines that serve the watchdog's ResolveTransaction
  MaxFaults,      \* bound on RPC and SQL failures in a behaviour
  MaxRestarts     \* bound on crashes and shutdowns of participant tablets

ASSUME GateAssumption == Gate \notin Resolvers
ASSUME BoundAssumption == MaxFaults \in Nat /\ MaxRestarts \in Nat

Coordinators == {Gate} \cup Resolvers

VARIABLES
  dtState,    \* dt_state row: "none" (no row), "PREPARE", "COMMIT" or "ROLLBACK"
  mmTx,       \* the client's transaction on the metadata manager's shard
  pc,         \* what each coordinator does next
  seen,       \* the state each resolver read in the dt_state row
  parts,      \* the participants each coordinator works on
  reply,      \* reply[c][p]: the answer to c's current call of p
  result,     \* what commit2PC told its client
  writers,    \* the participants whose transaction executed a query
  tx,         \* the client's transaction on a participant
  prep,       \* the handler of Gate's Prepare on a participant
  handler,    \* handler[c][p]: the handler of c's last call of p
  conns,      \* TxPreparedPool.conns[dtid]: "none" or which connection it holds
  reserved,   \* TxPreparedPool.reserved[dtid]: "no", "committing" or "failed"
  redo,       \* redo_state row: "none" (no row), "prepared" or "failed"
  applied,    \* how many times a participant's changes became durable
  phase,      \* the participant's transaction engine
  recovery,   \* its prepareFromRedo goroutine
  decision,   \* history: the state dt_state left PREPARE for
  faults, restarts

mmVars == <<dtState, mmTx, decision>>
callVars == <<reply, prep, handler>>
gateVars == <<pc, seen, parts, result>>
poolVars == <<conns, reserved>>
dataVars == <<tx, redo, applied>>
engineVars == <<phase, recovery, restarts>>
vars == <<mmVars, callVars, gateVars, poolVars, dataVars, engineVars, writers, faults>>

-----------------------------------------------------------------------------
(* A failure is taken from a budget, so that behaviours stay finite. *)
Fault == faults < MaxFaults /\ faults' = faults + 1
NoFault == UNCHANGED faults

(* The handler of c's call of p ends; c hears of it unless it gave up. *)
Answer(c, p, r) ==
  /\ handler' = [handler EXCEPT ![c][p] = "idle"]
  /\ reply' = [reply EXCEPT ![c][p] = IF @ = "wait" THEN r ELSE @]

Advance(c, p, h) ==
  /\ handler' = [handler EXCEPT ![c][p] = h]
  /\ UNCHANGED reply

AnswerPrepare(p, r) ==
  /\ prep' = [prep EXCEPT ![p] = "ended"]
  /\ reply' = [reply EXCEPT ![Gate][p] = IF @ = "wait" /\ pc[Gate] = "prepare" THEN r ELSE @]

(* runSessions and runTargets call every participant in parallel ...       *)
Send(c, ps, h) ==
  /\ \A p \in ps : handler[c][p] = "idle"
  /\ handler' = [handler EXCEPT ![c] = [p \in Participants |-> IF p \in ps THEN h ELSE @[p]]]
  /\ reply' = [reply EXCEPT ![c] = [p \in Participants |-> IF p \in ps THEN "wait" ELSE "ok"]]

(* ... wait for all of them, and collect the errors.                       *)
Collected(c) == \A p \in Participants : reply[c][p] # "wait"
AllOk(c) == \A p \in Participants : reply[c][p] = "ok"

-----------------------------------------------------------------------------
(* The transaction metadata on the MM shard.  A failed call may have taken *)
(* effect: the reply was lost.  Ok and effect agree unless there is one.   *)

(* Mutant: the update has no "where state = PREPARE". *)
TransitionAnyState(s) ==
  /\ dtState # "none"
  /\ dtState' = s
  /\ decision' = IF s = "COMMIT" THEN "commit" ELSE "rollback"

(* twopc.Transition updates the row only where its state is PREPARE. *)
Transition(s) ==
  /\ dtState = "PREPARE"
  /\ dtState' = s
  /\ decision' = IF s = "COMMIT" THEN "commit" ELSE "rollback"

(* TxExecutor.CreateTransaction *)
CreateTransaction ==
  /\ dtState = "none"
  /\ dtState' = "PREPARE"
  /\ UNCHANGED <<mmTx, decision>>

(* Mutant: the number of rows the transition changed is not checked. *)
StartCommitUnchecked ==
  /\ mmTx = "open"
  /\ IF dtState = "PREPARE" THEN Transition("COMMIT") ELSE UNCHANGED <<dtState, decision>>
  /\ mmTx' = "committed"

(* TxExecutor.StartCommit: the row and the client's transaction on the MM  *)
(* shard commit together, or the transaction is rolled back.               *)
StartCommit ==
  /\ mmTx = "open"
  /\ Transition("COMMIT")
  /\ mmTx' = "committed"

StartCommitFails ==
  /\ mmTx' = IF mmTx = "open" THEN "rolledback" ELSE mmTx
  /\ UNCHANGED <<dtState, decision>>

(* TxEngine.Rollback of the client's transaction on the MM shard: its      *)
(* error is ignored, so nothing happens while StartCommit has the          *)
(* connection locked.                                                      *)
RollbackMMTx ==
  \/ mmTx = "open" /\ mmTx' = "rolledback"
  \/ (mmTx # "open" \/ pc[Gate] = "startCommit") /\ UNCHANGED mmTx

(* TxExecutor.SetRollback rolls the client's transaction back first. *)
SetRollback ==
  /\ RollbackMMTx
  /\ Transition("ROLLBACK")

(* twopc.DeleteTransaction: the dt_state and dt_participant rows go in one *)
(* transaction; deleting rows that are gone succeeds.                      *)
DeleteTransaction == dtState' = "none"

(* TxExecutor.ConcludeTransaction *)
ConcludeTransaction ==
  /\ DeleteTransaction
  /\ UNCHANGED <<mmTx, decision>>

-----------------------------------------------------------------------------
(* TxConn.commit2PC.  Participants is not empty: with one shard or less    *)
(* commit2PC is commitNormal.                                              *)

Goto(c, l) == pc' = [pc EXCEPT ![c] = l]

(* CreateTransaction succeeds and Prepare is sent to every participant. *)
GateCreate ==
  /\ pc[Gate] = "create"
  /\ CreateTransaction
  /\ Goto(Gate, "prepare")
  /\ prep' = [p \in Participants |-> "request"]
  /\ reply' = [reply EXCEPT ![Gate] = [p \in Participants |-> "wait"]]
  /\ UNCHANGED <<seen, parts, result, handler, poolVars, dataVars, engineVars, writers, faults>>

(* TxConn.Rollback calls every shard of the session, and each call may     *)
(* fail: its transaction is then left to the shard's transaction killer.   *)
SessionRollback ==
  /\ mmTx' \in {mmTx, "rolledback"}
  /\ \E done \in SUBSET Participants :
       tx' = [p \in Participants |-> IF p \in done THEN "done" ELSE tx[p]]

(* CreateTransaction fails: the session is rolled back. *)
GateCreateFails ==
  /\ pc[Gate] = "create"
  /\ Fault
  /\ dtState' \in {dtState, "PREPARE"}
  /\ SessionRollback
  /\ UNCHANGED decision
  /\ Goto(Gate, "done")
  /\ result' = "aborted"
  /\ UNCHANGED <<seen, parts, callVars, poolVars, redo, applied, engineVars, writers>>

(* Mutant: the error of a Prepare is kept for the caller but not acted on. *)
GatePrepareCollectGoesOn ==
  /\ pc[Gate] = "prepare"
  /\ Collected(Gate)
  /\ Goto(Gate, "startCommit")
  /\ result' = IF AllOk(Gate) THEN result ELSE "aborted"
  /\ UNCHANGED <<mmVars, seen, parts, callVars, poolVars, dataVars, engineVars, writers, faults>>

(* After a failed Prepare the caller is told so, and Resolve is run. *)
GatePrepareCollect ==
  /\ pc[Gate] = "prepare"
  /\ Collected(Gate)
  /\ IF AllOk(Gate)
       THEN Goto(Gate, "startCommit") /\ UNCHANGED result
       ELSE Goto(Gate, "read") /\ result' = "aborted"
  /\ UNCHANGED <<mmVars, seen, parts, callVars, poolVars, dataVars, engineVars, writers, faults>>

GateStartCommit ==
  /\ pc[Gate] = "startCommit"
  /\ StartCommit
  /\ Goto(Gate, "commit")
  /\ parts' = [parts EXCEPT ![Gate] = Participants]
  /\ Send(Gate, Participants, "commitRequest")
  /\ UNCHANGED <<seen, result, prep, poolVars, dataVars, engineVars, writers, faults>>

(* The error leaves the transaction to the watchdog. *)
GateStartCommitFails ==
  /\ pc[Gate] = "startCommit"
  /\ \/ (mmTx # "open" \/ dtState # "PREPARE") /\ StartCommitFails /\ NoFault
     \/ Fault /\ (StartCommit \/ StartCommitFails \/ UNCHANGED mmVars)
  /\ Goto(Gate, "done")
  /\ result' = "unknown"
  /\ UNCHANGED <<seen, parts, callVars, poolVars, dataVars, engineVars, writers>>

-----------------------------------------------------------------------------
(* TxConn.Resolve *)

(* A resolver that ends can be asked again; commit2PC returns, with the    *)
(* error of its Prepare if it had one.                                     *)
Return(c, r) ==
  /\ Goto(c, IF c = Gate THEN "done" ELSE "idle")
  /\ result' = IF c = Gate /\ result = "none" THEN r ELSE result

(* The watchdog of the MM tablet finds the row abandoned. *)
ResolveStart(c) ==
  /\ c \in Resolvers
  /\ pc[c] = "idle"
  /\ dtState # "none"
  /\ Goto(c, "read")
  /\ UNCHANGED <<mmVars, seen, parts, result, callVars, poolVars, dataVars, engineVars, writers, faults>>

(* ReadTransaction reads the dt_state row, *)
ReadState(c) ==
  /\ pc[c] = "read"
  /\ seen' = [seen EXCEPT ![c] = dtState]
  /\ IF dtState = "none"
       THEN Return(c, "unknown")
       ELSE Goto(c, "readParts") /\ UNCHANGED result
  /\ UNCHANGED <<mmVars, parts, callVars, poolVars, dataVars, engineVars, writers, faults>>

(* Mutant: participants are rolled back without SetRollback. *)
ReadParticipantsNoSetRollback(c) ==
  /\ pc[c] = "readParts"
  /\ parts' = [parts EXCEPT ![c] = IF dtState = "none" THEN {} ELSE Participants]
  /\ LET ok == seen[c] = "COMMIT"
     IN  /\ Goto(c, IF ok THEN "commit" ELSE "rollback")
         /\ Send(c, parts'[c], IF ok THEN "commitRequest" ELSE "rollbackRequest")
  /\ UNCHANGED <<mmVars, seen, result, prep, poolVars, dataVars, engineVars, writers, faults>>

(* then the dt_participant rows, which may be gone by now; then the        *)
(* decision is taken on the state it read.                                 *)
ReadParticipants(c) ==
  /\ pc[c] = "readParts"
  /\ parts' = [parts EXCEPT ![c] = IF dtState = "none" THEN {} ELSE Participants]
  /\ \/ seen[c] = "PREPARE" /\ Goto(c, "setRollback") /\ UNCHANGED callVars
     \/ seen[c] = "ROLLBACK" /\ Goto(c, "rollback") /\ Send(c, parts'[c], "rollbackRequest") /\ UNCHANGED prep
     \/ seen[c] = "COMMIT" /\ Goto(c, "commit") /\ Send(c, parts'[c], "commitRequest") /\ UNCHANGED prep
  /\ UNCHANGED <<mmVars, seen, result, poolVars, dataVars, engineVars, writers, faults>>

(* The rollback decision comes before any participant rolls back. *)
ResolveSetRollback(c) ==
  /\ pc[c] = "setRollback"
  /\ SetRollback
  /\ Goto(c, "rollback")
  /\ Send(c, parts[c], "rollbackRequest")
  /\ UNCHANGED <<seen, parts, result, prep, poolVars, dataVars, engineVars, writers, faults>>

(* Mutant: the transaction is concluded although a participant failed. *)
ResumeIgnoresErrors(c) ==
  /\ pc[c] \in {"rollback", "commit"}
  /\ Collected(c)
  /\ Goto(c, "conclude")
  /\ UNCHANGED <<mmVars, seen, parts, result, callVars, poolVars, dataVars, engineVars, writers, faults>>

(* resumeRollback, resumeCommit and the end of commit2PC: conclude only if *)
(* every participant succeeded.                                            *)
Resume(c) ==
  /\ pc[c] \in {"rollback", "commit"}
  /\ Collected(c)
  /\ IF AllOk(c) THEN Goto(c, "conclude") /\ UNCHANGED result
                 ELSE Return(c, "unknown")
  /\ UNCHANGED <<mmVars, seen, parts, callVars, poolVars, dataVars, engineVars, writers, faults>>

Conclude(c) ==
  /\ pc[c] = "conclude"
  /\ ConcludeTransaction
  /\ Return(c, "ok")
  /\ UNCHANGED <<seen, parts, callVars, poolVars, dataVars, engineVars, writers, faults>>

(* A call of the MM shard fails, before or after its effect. *)
MMCallFails(c) ==
  /\ \/ pc[c] \in {"read", "readParts"} /\ Fault /\ UNCHANGED mmVars
     \/ pc[c] = "setRollback" /\ Fault /\ (SetRollback \/ UNCHANGED mmVars)
     \/ /\ pc[c] = "setRollback"
        /\ IF dtState # "PREPARE" THEN NoFault ELSE Fault
        /\ RollbackMMTx
        /\ UNCHANGED <<dtState, decision>>
     \/ pc[c] = "conclude" /\ Fault /\ (ConcludeTransaction \/ UNCHANGED mmVars)
  /\ Return(c, "unknown")
  /\ UNCHANGED <<seen, parts, callVars, poolVars, dataVars, engineVars, writers>>

-----------------------------------------------------------------------------
(* RPCs to participants *)

(* The caller's context expires; the handler goes on. *)
Timeout(c, p) ==
  /\ reply[c][p] = "wait"
  /\ Fault
  /\ reply' = [reply EXCEPT ![c][p] = "err"]
  /\ UNCHANGED <<mmVars, gateVars, prep, handler, poolVars, dataVars, engineVars, writers>>

Requests == {"commitRequest", "rollbackRequest"}

(* A request is lost, or refused by a tablet that does not serve. *)
LoseRequest(c, p) ==
  /\ handler[c][p] \in Requests
  /\ IF phase[p] = "down" THEN NoFault ELSE Fault
  /\ Answer(c, p, "err")
  /\ UNCHANGED <<mmVars, gateVars, prep, poolVars, dataVars, engineVars, writers>>

LosePrepare(p) ==
  /\ prep[p] = "request"
  /\ IF phase[p] = "down" THEN NoFault ELSE Fault
  /\ AnswerPrepare(p, "err")
  /\ UNCHANGED <<mmVars, gateVars, handler, poolVars, dataVars, engineVars, writers>>

(* TabletGateway.withRetry sends a failed call again: its first attempt    *)
(* may have been executed.                                                 *)
GatewayRetry(c, p) ==
  /\ reply[c][p] = "err"
  /\ Fault
  /\ \/ /\ c = Gate /\ pc[c] = "prepare" /\ prep[p] = "ended"
        /\ prep' = [prep EXCEPT ![p] = "request"]
        /\ UNCHANGED handler
     \/ /\ pc[c] \in {"commit", "rollback"} /\ handler[c][p] = "idle"
        /\ handler' = [handler EXCEPT ![c][p] = IF pc[c] = "commit" THEN "commitRequest" ELSE "rollbackRequest"]
        /\ UNCHANGED prep
  /\ reply' = [reply EXCEPT ![c][p] = "wait"]
  /\ UNCHANGED <<mmVars, gateVars, poolVars, dataVars, engineVars, writers>>

-----------------------------------------------------------------------------
(* TxExecutor.Prepare *)

(* TxPreparedPool.Put refuses a dtid it knows. *)
CanPut(p) == reserved[p] = "no" /\ conns[p] = "none"

(* GetAndLock, then either nothing was written, or Put: in the pool, or    *)
(* the transaction is rolled back (a fault fills the pool with others).    *)
PreparePut(p) ==
  /\ prep[p] = "request"
  /\ phase[p] # "down"
  /\ \/ /\ tx[p] # "active"
        /\ AnswerPrepare(p, "err")
        /\ UNCHANGED <<tx, conns, faults>>
     \/ /\ tx[p] = "active" /\ p \notin writers
        /\ AnswerPrepare(p, "ok")
        /\ tx' = [tx EXCEPT ![p] = "done"]
        /\ UNCHANGED <<conns, faults>>
     \/ /\ tx[p] = "active" /\ p \in writers /\ CanPut(p)
        /\ conns' = [conns EXCEPT ![p] = "original"]
        /\ tx' = [tx EXCEPT ![p] = "prepared"]
        /\ prep' = [prep EXCEPT ![p] = "put"]
        /\ UNCHANGED <<reply, faults>>
     \/ /\ tx[p] = "active" /\ p \in writers
        /\ IF CanPut(p) THEN Fault ELSE NoFault
        /\ AnswerPrepare(p, "err")
        /\ tx' = [tx EXCEPT ![p] = "done"]
        /\ UNCHANGED conns
  /\ UNCHANGED <<mmVars, gateVars, handler, reserved, redo, applied, engineVars, writers>>

(* The redo log's transaction begins and reads the statements off the      *)
(* connection, which has none (a panic, and an error) once rolled back.    *)
PrepareReadQueries(p) ==
  /\ prep[p] = "put"
  /\ \/ /\ tx[p] = "prepared" /\ phase[p] # "down"
        /\ prep' = [prep EXCEPT ![p] = "saving"]
        /\ UNCHANGED <<reply, faults>>
     \/ /\ IF tx[p] # "prepared" \/ phase[p] = "down" THEN NoFault ELSE Fault
        /\ AnswerPrepare(p, "err")
  /\ UNCHANGED <<mmVars, gateVars, handler, poolVars, dataVars, engineVars, writers>>

(* twopc.SaveRedo and the commit of its transaction. *)
SaveRedo(p) == redo[p] = "none" /\ redo' = [redo EXCEPT ![p] = "prepared"]

PrepareSaveRedo(p) ==
  /\ prep[p] = "saving"
  /\ \/ SaveRedo(p) /\ AnswerPrepare(p, "ok") /\ NoFault
     \/ Fault /\ (SaveRedo(p) \/ UNCHANGED redo) /\ AnswerPrepare(p, "err")
  /\ UNCHANGED <<mmVars, gateVars, handler, poolVars, tx, applied, engineVars, writers>>

-----------------------------------------------------------------------------
(* TxExecutor.CommitPrepared *)

(* Mutant: a reserved dtid counts as already resolved. *)
FetchForCommitReservedOk(c, p) ==
  /\ handler[c][p] = "commitRequest"
  /\ phase[p] # "down"
  /\ \/ conns[p] = "none" /\ Answer(c, p, "ok") /\ UNCHANGED <<poolVars, tx>>
     \/ /\ reserved[p] = "no" /\ conns[p] # "none"
        /\ conns' = [conns EXCEPT ![p] = "none"]
        /\ reserved' = [reserved EXCEPT ![p] = "committing"]
        /\ tx' = [tx EXCEPT ![p] = IF conns[p] = "original" THEN "done" ELSE @]
        /\ Advance(c, p, "fetched")
  /\ UNCHANGED <<mmVars, gateVars, prep, redo, applied, engineVars, writers, faults>>

(* Mutant: the connection stays in the pool when it is handed out. *)
FetchForCommitKeeps(c, p) ==
  /\ handler[c][p] = "commitRequest"
  /\ phase[p] # "down"
  /\ \/ reserved[p] # "no" /\ Answer(c, p, "err") /\ UNCHANGED reserved
     \/ reserved[p] = "no" /\ conns[p] = "none" /\ Answer(c, p, "ok") /\ UNCHANGED reserved
     \/ /\ reserved[p] = "no" /\ conns[p] # "none"
        /\ reserved' = [reserved EXCEPT ![p] = "committing"]
        /\ Advance(c, p, "fetched")
  /\ UNCHANGED <<mmVars, gateVars, prep, conns, dataVars, engineVars, writers, faults>>

(* TxPreparedPool.FetchForCommit: reserved is an error, no entry is        *)
(* success, an entry moves to the reserved list as "committing".           *)
FetchForCommit(c, p) ==
  /\ handler[c][p] = "commitRequest"
  /\ phase[p] # "down"
  /\ \/ reserved[p] # "no" /\ Answer(c, p, "err") /\ UNCHANGED <<poolVars, tx>>
     \/ reserved[p] = "no" /\ conns[p] = "none" /\ Answer(c, p, "ok") /\ UNCHANGED <<poolVars, tx>>
     \/ /\ reserved[p] = "no" /\ conns[p] # "none"
        /\ conns' = [conns EXCEPT ![p] = "none"]
        /\ reserved' = [reserved EXCEPT ![p] = "committing"]
        /\ tx' = [tx EXCEPT ![p] = IF conns[p] = "original" THEN "done" ELSE @]
        /\ Advance(c, p, "fetched")
  /\ UNCHANGED <<mmVars, gateVars, prep, redo, applied, engineVars, writers, faults>>

(* DeleteRedo and the statements of the transaction commit together. *)
CommitConn(p) ==
  /\ redo' = [redo EXCEPT ![p] = "none"]
  /\ applied' = [applied EXCEPT ![p] = @ + 1]

(* Mutant: DeleteRedo commits on its own, ahead of the transaction. *)
CommitFetchedSplit(c, p) ==
  /\ handler[c][p] = "fetched"
  /\ \/ CommitConn(p) /\ Advance(c, p, "committed") /\ NoFault
     \/ Fault /\ redo' = [redo EXCEPT ![p] = "none"] /\ UNCHANGED applied /\ Advance(c, p, "failing")
  /\ UNCHANGED <<mmVars, gateVars, prep, poolVars, tx, engineVars, writers>>

CommitFetched(c, p) ==
  /\ handler[c][p] = "fetched"
  /\ \/ CommitConn(p) /\ Advance(c, p, "committed") /\ NoFault
     \/ Fault /\ (CommitConn(p) \/ UNCHANGED <<redo, applied>>) /\ Advance(c, p, "failing")
  /\ UNCHANGED <<mmVars, gateVars, prep, poolVars, tx, engineVars, writers>>

(* Mutant: the reserved entry is never removed. *)
ForgetNothing(c, p) ==
  /\ handler[c][p] = "committed"
  /\ Answer(c, p, "ok")
  /\ UNCHANGED <<mmVars, gateVars, prep, poolVars, dataVars, engineVars, writers, faults>>

(* TxPreparedPool.Forget *)
Forget(c, p) ==
  /\ handler[c][p] = "committed"
  /\ reserved' = [reserved EXCEPT ![p] = "no"]
  /\ Answer(c, p, "ok")
  /\ UNCHANGED <<mmVars, gateVars, prep, conns, dataVars, engineVars, writers, faults>>

(* markFailed: TxPreparedPool.SetFailed, *)
SetFailed(c, p) ==
  /\ handler[c][p] = "failing"
  /\ reserved' = [reserved EXCEPT ![p] = "failed"]
  /\ Advance(c, p, "marking")
  /\ UNCHANGED <<mmVars, gateVars, prep, conns, dataVars, engineVars, writers, faults>>

(* then UpdateRedo, which changes nothing if the row is gone; its errors   *)
(* are logged.                                                             *)
UpdateRedo(c, p) ==
  /\ handler[c][p] = "marking"
  /\ \/ redo' = [redo EXCEPT ![p] = IF @ = "none" THEN @ ELSE "failed"] /\ NoFault
     \/ UNCHANGED redo /\ Fault
  /\ Answer(c, p, "err")
  /\ UNCHANGED <<mmVars, gateVars, prep, poolVars, tx, applied, engineVars, writers>>

-----------------------------------------------------------------------------
(* TxExecutor.RollbackPrepared, as resumeRollback calls it (originalID 0). *)

DeleteRedo(c, p) ==
  /\ handler[c][p] = "rollbackRequest"
  /\ phase[p] # "down"
  /\ \/ redo' = [redo EXCEPT ![p] = "none"] /\ Advance(c, p, "deleted") /\ NoFault
     \/ Fault /\ redo' \in {redo, [redo EXCEPT ![p] = "none"]} /\ Advance(c, p, "notDeleted")
  /\ UNCHANGED <<mmVars, gateVars, prep, poolVars, tx, applied, engineVars, writers>>

(* TxPreparedPool.FetchForRollback runs whether or not DeleteRedo          *)
(* succeeded: it clears a reserved entry, else takes the connection.       *)
FetchForRollback(c, p) ==
  /\ handler[c][p] \in {"deleted", "notDeleted"}
  /\ IF reserved[p] # "no"
       THEN reserved' = [reserved EXCEPT ![p] = "no"] /\ UNCHANGED <<conns, tx>>
       ELSE /\ conns' = [conns EXCEPT ![p] = "none"]
            /\ tx' = [tx EXCEPT ![p] = IF conns[p] = "original" THEN "done" ELSE @]
            /\ UNCHANGED reserved
  /\ Answer(c, p, IF handler[c][p] = "deleted" THEN "ok" ELSE "err")
  /\ UNCHANGED <<mmVars, gateVars, prep, redo, applied, engineVars, writers, faults>>

-----------------------------------------------------------------------------
(* The participant's transaction engine *)

(* The transaction killer, or a shutdown, rolls back an idle transaction.  *)
KillTx(p) ==
  /\ tx[p] = "active"
  /\ tx' = [tx EXCEPT ![p] = "done"]
  /\ UNCHANGED <<mmVars, gateVars, callVars, poolVars, redo, applied, engineVars, writers, faults>>

KillMMTx ==
  /\ mmTx = "open"
  /\ mmTx' = "rolledback"
  /\ UNCHANGED <<dtState, decision, gateVars, callVars, poolVars, dataVars, engineVars, writers, faults>>

Restart == restarts < MaxRestarts /\ restarts' = restarts + 1

(* TxPreparedPool.FetchAll empties both maps of the pool. *)
FetchAll(p) ==
  /\ conns' = [conns EXCEPT ![p] = "none"]
  /\ reserved' = [reserved EXCEPT ![p] = "no"]

(* shutdownLocked: rollbackPrepared takes every connection out of the pool *)
(* and rolls it back.  RPCs are still served.                              *)
Shutdown(p) ==
  /\ phase[p] = "serving"
  /\ Restart
  /\ phase' = [phase EXCEPT ![p] = "closing"]
  /\ FetchAll(p)
  /\ tx' = [tx EXCEPT ![p] = IF conns[p] = "original" THEN "done" ELSE @]
  /\ UNCHANGED <<mmVars, gateVars, callVars, redo, applied, recovery, writers, faults>>

(* WaitForEmpty: every connection of the transaction pool was returned. *)
Drained(p) ==
  /\ phase[p] = "closing"
  /\ conns[p] = "none" /\ tx[p] = "done" /\ prep[p] # "saving"
  /\ recovery[p] # "replay"
  /\ \A c \in Coordinators : handler[c][p] \in Requests \cup {"idle", "deleted", "notDeleted"}
  /\ phase' = [phase EXCEPT ![p] = "down"]
  /\ UNCHANGED <<mmVars, gateVars, callVars, poolVars, dataVars, recovery, restarts, writers, faults>>

(* The process dies and MySQL rolls its open transactions back; a commit   *)
(* it was sent may have been executed.  Callers see their calls fail.      *)
Crash(p) ==
  /\ phase[p] # "down"
  /\ Restart
  /\ phase' = [phase EXCEPT ![p] = "down"]
  /\ recovery' = [recovery EXCEPT ![p] = "idle"]
  /\ conns' = [conns EXCEPT ![p] = "none"]
  /\ reserved' = [reserved EXCEPT ![p] = "no"]
  /\ tx' = [tx EXCEPT ![p] = "done"]
  /\ \/ UNCHANGED <<redo, applied>>
     \/ (\E c \in Coordinators : handler[c][p] = "fetched") /\ CommitConn(p)
     \/ prep[p] = "saving" /\ SaveRedo(p) /\ UNCHANGED applied
  /\ prep' = [prep EXCEPT ![p] = IF @ = "none" THEN "none" ELSE "ended"]
  /\ handler' = [c \in Coordinators |-> [handler[c] EXCEPT ![p] = "idle"]]
  /\ reply' = [c \in Coordinators |-> [reply[c] EXCEPT ![p] = IF @ = "wait" THEN "err" ELSE @]]
  /\ UNCHANGED <<mmVars, gateVars, writers, faults>>

(* transition(AcceptingReadAndWrite): RPCs are served at once, and         *)
(* prepareFromRedo runs in a goroutine of its own.                         *)
AcceptReadWrite(p) ==
  /\ phase[p] = "down"
  /\ phase' = [phase EXCEPT ![p] = "serving"]
  /\ recovery' = [recovery EXCEPT ![p] = "pending"]
  /\ UNCHANGED <<mmVars, gateVars, callVars, poolVars, dataVars, restarts, writers, faults>>

(* prepareFromRedo: ReadAllRedo, which may fail, *)
ReadAllRedo(p) ==
  /\ recovery[p] = "pending"
  /\ \/ /\ phase[p] # "down" /\ NoFault
        /\ \/ redo[p] = "none" /\ recovery' = [recovery EXCEPT ![p] = "idle"]
           \/ redo[p] = "prepared" /\ recovery' = [recovery EXCEPT ![p] = "replay"]
           \/ redo[p] = "failed" /\ recovery' = [recovery EXCEPT ![p] = "setFailed"]
     \/ recovery' = [recovery EXCEPT ![p] = "idle"] /\ Fault
  /\ UNCHANGED <<mmVars, gateVars, callVars, poolVars, dataVars, phase, restarts, writers>>

(* then replay the statements and Put the connection (an error of the      *)
(* replay or of Put is only logged),                                       *)
ReplayPut(p) ==
  /\ recovery[p] = "replay"
  /\ \/ CanPut(p) /\ conns' = [conns EXCEPT ![p] = "replayed"] /\ NoFault
     \/ (IF CanPut(p) THEN Fault ELSE NoFault) /\ UNCHANGED conns
  /\ recovery' = [recovery EXCEPT ![p] = "idle"]
  /\ UNCHANGED <<mmVars, gateVars, callVars, reserved, dataVars, phase, restarts, writers>>

(* or register the failure. *)
ReplayFailed(p) ==
  /\ recovery[p] = "setFailed"
  /\ reserved' = [reserved EXCEPT ![p] = "failed"]
  /\ recovery' = [recovery EXCEPT ![p] = "idle"]
  /\ UNCHANGED <<mmVars, gateVars, callVars, conns, dataVars, phase, restarts, writers, faults>>

-----------------------------------------------------------------------------
Init ==
  /\ dtState = "none" /\ mmTx = "open" /\ decision = "none"
  /\ pc = [c \in Coordinators |-> IF c = Gate THEN "create" ELSE "idle"]
  /\ seen = [c \in Coordinators |-> "none"]
  /\ parts = [c \in Coordinators |-> {}]
  /\ reply = [c \in Coordinators |-> [p \in Participants |-> "ok"]]
  /\ result = "none"
  /\ writers \in SUBSET Participants
  /\ tx = [p \in Participants |-> "active"]
  /\ prep = [p \in Participants |-> "none"]
  /\ handler = [c \in Coordinators |-> [p \in Participants |-> "idle"]]
  /\ conns = [p \in Participants |-> "none"]
  /\ reserved = [p \in Participants |-> "no"]
  /\ redo = [p \in Participants |-> "none"]
  /\ applied = [p \in Participants |-> 0]
  /\ phase = [p \in Participants |-> "serving"]
  /\ recovery = [p \in Participants |-> "idle"]
  /\ faults = 0 /\ restarts = 0

GateNext ==
  \/ GateCreate \/ GateCreateFails \/ GatePrepareCollect
  \/ GateStartCommit \/ GateStartCommitFails

ResolveNext(c) ==
  \/ ResolveStart(c) \/ ReadState(c) \/ ReadParticipants(c) \/ ResolveSetRollback(c)
  \/ Resume(c) \/ Conclude(c) \/ MMCallFails(c)

CallNext(c, p) ==
  \/ FetchForCommit(c, p) \/ CommitFetched(c, p) \/ Forget(c, p)
  \/ SetFailed(c, p) \/ UpdateRedo(c, p)
  \/ DeleteRedo(c, p) \/ FetchForRollback(c, p)
  \/ LoseRequest(c, p) \/ Timeout(c, p) \/ GatewayRetry(c, p)

TabletNext(p) ==
  \/ PreparePut(p) \/ PrepareReadQueries(p) \/ PrepareSaveRedo(p) \/ LosePrepare(p)
  \/ KillTx(p) \/ Shutdown(p) \/ Drained(p) \/ Crash(p) \/ AcceptReadWrite(p)
  \/ ReadAllRedo(p) \/ ReplayPut(p) \/ ReplayFailed(p)

Next ==
  \/ GateNext \/ KillMMTx
  \/ \E c \in Coordinators : ResolveNext(c)
  \/ \E c \in Coordinators, p \in Participants : CallNext(c, p)
  \/ \E p \in Participants : TabletNext(p)

Spec == Init /\ [][Next]_vars
-----------------------------------------------------------------------------
(* Properties *)

PcType == [Coordinators -> {"create", "prepare", "startCommit", "idle", "read", "readParts",
                            "setRollback", "rollback", "commit", "conclude", "done"}]
SeenType == [Coordinators -> {"none", "PREPARE", "COMMIT", "ROLLBACK"}]
PartsType == [Coordinators -> SUBSET Participants]
ReplyType == [Coordinators -> [Participants -> {"wait", "ok", "err"}]]
TxType == [Participants -> {"active", "prepared", "done"}]
PrepType == [Participants -> {"none", "request", "put", "saving", "ended"}]
HandlerType == [Coordinators -> [Participants ->
                 {"idle", "commitRequest", "fetched", "committed", "failing", "marking",
                  "rollbackRequest", "deleted", "notDeleted"}]]
ConnsType == [Participants -> {"none", "original", "replayed"}]
ReservedType == [Participants -> {"no", "committing", "failed"}]
RedoType == [Participants -> {"none", "prepared", "failed"}]
AppliedType == [Participants -> Nat]
PhaseType == [Participants -> {"serving", "closing", "down"}]
RecoveryType == [Participants -> {"idle", "pending", "replay", "setFailed"}]

(* Every variable has one of the values the code gives it. *)
TypeOK ==
  /\ dtState \in {"none", "PREPARE", "COMMIT", "ROLLBACK"}
  /\ mmTx \in {"open", "committed", "rolledback"}
  /\ decision \in {"none", "commit", "rollback"}
  /\ result \in {"none", "ok", "aborted", "unknown"}
  /\ pc \in PcType /\ seen \in SeenType /\ parts \in PartsType
  /\ reply \in ReplyType /\ prep \in PrepType /\ handler \in HandlerType
  /\ writers \in SUBSET Participants
  /\ tx \in TxType /\ redo \in RedoType /\ applied \in AppliedType
  /\ conns \in ConnsType /\ reserved \in ReservedType
  /\ phase \in PhaseType /\ recovery \in RecoveryType
  /\ faults \in Nat /\ restarts \in Nat

(* The MM shard's own changes and every participant's are durable only if  *)
(* commit was decided: the dt_state row commits with the MM transaction,   *)
(* and CommitPrepared is only called after it.                             *)
CommitNeedsDecision ==
  /\ mmTx = "committed" <=> decision = "commit"
  /\ \A p \in Participants : applied[p] > 0 => decision = "commit"

(* A participant's changes are applied at most once, whatever is retried,  *)
(* replayed from the redo log or committed with an error.                  *)
AppliedOnce == \A p \in Participants : applied[p] <= 1

(* Once commit is decided no crash, shutdown, failed commit or resolver    *)
(* loses a writer's changes: they are applied, or still in the redo log.   *)
CommitRecoverable ==
  decision = "commit" =>
    \A p \in writers : applied[p] > 0 \/ redo[p] # "none"

(* commit2PC reports a failed Prepare only for a transaction that never    *)
(* commits anywhere.                                                       *)
AbortIsFinal == result = "aborted" => decision # "commit"

(* The metadata row disappears after a commit only when every writer has   *)
(* committed.                                                              *)
ConcludedIsCommitted ==
  decision = "commit" /\ dtState = "none" => \A p \in writers : applied[p] > 0

(* commit2PC reports success only after every writer has committed.        *)
SuccessIsCommitted ==
  result = "ok" => decision = "commit" /\ \A p \in writers : applied[p] > 0

(* A rolled back and concluded transaction leaves no redo log and no       *)
(* connection in the prepared pool: RollbackPrepared cleaned up whatever   *)
(* Prepare had done.                                                       *)
RollbackCleansUp ==
  decision = "rollback" /\ dtState = "none" =>
    \A p \in Participants : redo[p] = "none" /\ conns[p] = "none"

(* The dt_state row goes none, PREPARE, one of COMMIT and ROLLBACK, none,  *)
(* and a verdict once written is never replaced by the other.              *)
DecisionIsFinal ==
  [][/\ decision # "none" => decision' = decision
     /\ dtState' # dtState =>
          \/ dtState = "none" /\ dtState' = "PREPARE" /\ decision = "none"
          \/ dtState = "PREPARE" /\ dtState' \in {"COMMIT", "ROLLBACK"}
          \/ dtState \in {"COMMIT", "ROLLBACK"} /\ dtState' = "none"]_vars

(* Every step is a step of AtomicCommit, or changes nothing it speaks of:  *)
(* the redo rows are its logs, whatever pool, handler or recovery holds.   *)
AC == INSTANCE AtomicCommit WITH
        redo    <- {p \in Participants : redo[p] # "none"},
        applied <- {p \in Participants : applied[p] > 0}

ImplementsAtomicCommit == AC!Spec

(* Scheduling: handlers and the goroutines of a tablet run on, a resolver  *)
(* goes on once started and the watchdog starts it again while the row is  *)
(* there, a tablet that is down comes back.  Gate may stop for ever.       *)
Fairness ==
  /\ \A c \in Resolvers : WF_vars(ResolveNext(c))
  /\ \A c \in Coordinators, p \in Participants : WF_vars(CallNext(c, p))
  /\ \A p \in Participants : WF_vars(AcceptReadWrite(p))

FairSpec == Spec /\ Fairness

(* Whatever becomes of vtgate, the watchdog's resolvers bring every        *)
(* recorded transaction to an end, unless a participant's commit failed,   *)
(* which the code leaves to an operator.                                   *)
EventuallyResolved ==
  dtState # "none" ~> (dtState = "none" \/ \E p \in Participants : reserved[p] = "failed")
=============================================================================
