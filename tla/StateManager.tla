---------------------------- MODULE StateManager ----------------------------
(***************************************************************************)
(* stateManager: the transitions of a tablet server between types and      *)
(* serving states, the components they open and close, and the requests it *)
(* admits meanwhile.                                                       *)
(*                                                                         *)
(* Actors: the callers of SetServingType, the retry loop, CheckMySQL's     *)
(* goroutine, the requests, the goroutines that end a transition grace     *)
(* period, and Broadcast.  One step is one critical section of             *)
(* stateManager.mu or one stretch of a transition between points where it  *)
(* may block or fail.  TxEngine's own transitions (module TxEngine) are    *)
(* one step here.  Lameduck and what is broadcast are left out.            *)
(***************************************************************************)
EXTENDS Naturals, FiniteSets

CONSTANTS
  Callers,     \* callers of SetServingType
  Requests,    \* requests
  MaxCalls,    \* bound: calls of SetServingType
  MaxFaults    \* bound: failures of connect and of CheckMySQL

ASSUME BoundAssumption == MaxCalls \in Nat /\ MaxFaults \in Nat

Types == {"PRIMARY", "REPLICA"}
States == {"NotConnected", "NotServing", "Serving"}

VARIABLES
  wantType, wantState,   \* what was asked for last
  type, state,           \* target.TabletType and state
  retrying,              \* the retry loop runs
  replHealthy,           \* the last reading of replication health
  alsoAllow,             \* the type that is also served during the grace period
  graceTimers,           \* goroutines that will end a grace period
  asked,                 \* the request of a caller that waits in mustTransition
  exec,                  \* who has the semaphore: its target and its step
  open,                  \* the components that are open
  te,                    \* the transaction engine: closed, ro or rw
  rt,                    \* the replication tracker's mode
  running,               \* the requests that were started, and how
  dirty,                 \* history: a transition failed since the last setState
  calls, faults          \* for the bounds

want == <<wantType, wantState>>
now == <<type, state, replHealthy, alsoAllow, graceTimers>>
parts == <<open, te, rt>>
bounds == <<calls, faults>>
vars == <<want, now, retrying, asked, exec, parts, running, dirty, bounds>>

Connection == {"se", "vstreamer", "qe", "txThrottler"}
Components == Connection \cup {"tracker", "watcher", "messager", "throttler", "tableGC", "ddle"}

NoExec == [by |-> "none", op |-> "none", type |-> "PRIMARY", step |-> "none"]
NoCall == [type |-> "PRIMARY", state |-> "none"]
Free == exec.by = "none"
Reached == wantType = type /\ wantState = state
Step(s) == exec' = [exec EXCEPT !.step = s]

(* execTransition's switch. *)
Op(t, s) ==
  CASE s = "NotConnected" -> "closeAll"
    [] s = "Serving"      -> IF t = "PRIMARY" THEN "servePrimary" ELSE "serveNonPrimary"
    [] s = "NotServing"   -> IF t = "PRIMARY" THEN "unservePrimary" ELSE "unserveNonPrimary"

Start(by, t, s) == exec' = [by |-> by, op |-> Op(t, s), type |-> t, step |-> "start"]

-----------------------------------------------------------------------------
(* Who starts a transition *)

(* Mutant: what is wanted is recorded before the semaphore is acquired. *)
SetServingTypeEarly(c, t, s) ==
  /\ asked[c] = NoCall /\ calls < MaxCalls /\ calls' = calls + 1
  /\ asked' = [asked EXCEPT ![c] = [type |-> t, state |-> s]]
  /\ wantType' = t /\ wantState' = s
  /\ UNCHANGED <<now, retrying, exec, parts, running, dirty, faults>>

(* SetServingType is called and waits for the semaphore. *)
SetServingType(c, t, s) ==
  /\ asked[c] = NoCall /\ calls < MaxCalls /\ calls' = calls + 1
  /\ asked' = [asked EXCEPT ![c] = [type |-> t, state |-> s]]
  /\ UNCHANGED <<want, now, retrying, exec, parts, running, dirty, faults>>

(* mustTransition: what is already there needs no transition. *)
MustTransition(c) ==
  LET a == asked[c]
  IN /\ a # NoCall /\ Free
     /\ asked' = [asked EXCEPT ![c] = NoCall]
     /\ wantType' = a.type /\ wantState' = a.state
     /\ IF a.type = type /\ a.state = state THEN UNCHANGED exec ELSE Start("caller", a.type, a.state)
     /\ UNCHANGED <<now, retrying, parts, running, dirty, bounds>>

(* recheckState in the retry loop. *)
RecheckState ==
  /\ retrying
  /\ \/ Reached /\ retrying' = FALSE /\ UNCHANGED exec
     \/ ~Reached /\ Free /\ Start("retry", wantType, wantState) /\ UNCHANGED retrying
  /\ UNCHANGED <<want, now, asked, parts, running, dirty, bounds>>

(* CheckMySQL, when MySQL cannot be reached and no transition runs.  It is *)
(* called by components, which the first SetServingType opens.             *)
CheckMySQL ==
  /\ Free /\ calls > 0 /\ faults < MaxFaults /\ faults' = faults + 1
  /\ exec' = [by |-> "check", op |-> "closeAll", type |-> wantType, step |-> "start"]
  /\ UNCHANGED <<want, now, retrying, asked, parts, running, dirty, calls>>

-----------------------------------------------------------------------------
(* The transition *)

Unserves == {"unservePrimary", "unserveNonPrimary", "closeAll"}

(* unserveCommon up to the close of the transaction engine. *)
UnserveCommon ==
  /\ exec.step = "start" /\ exec.op \in Unserves
  /\ open' = open \ {"ddle", "tableGC", "throttler", "messager"} /\ Step("te")
  /\ UNCHANGED <<want, now, retrying, asked, te, rt, running, dirty, bounds>>

CloseTe ==
  /\ exec.step = "te" /\ te' = "closed" /\ open' = open \ {"tracker"} /\ Step("wait")
  /\ UNCHANGED <<want, now, retrying, asked, rt, running, dirty, bounds>>

NoRequests == \A r \in Requests : running[r] = "no"

(* requests.Wait, and unservePrimary's close of the watcher. *)
WaitForRequests ==
  /\ exec.step = "wait" /\ NoRequests
  /\ Step(IF exec.op = "closeAll" THEN "shut" ELSE "connect")
  /\ open' = IF exec.op = "unservePrimary" THEN open \ {"watcher"} ELSE open
  /\ UNCHANGED <<want, now, retrying, asked, te, rt, running, dirty, bounds>>

(* The rest of closeAll. *)
CloseRest ==
  /\ exec.step = "shut" /\ Step("set")
  /\ open' = open \ (Connection \cup {"watcher"}) /\ rt' = "closed"
  /\ UNCHANGED <<want, now, retrying, asked, te, running, dirty, bounds>>

(* Mutant: serveNonPrimary leaves the messager open. *)
BeginServeForgets ==
  /\ exec.step = "start" /\ Step("connect")
  /\ \/ exec.op = "servePrimary" /\ open' = open \ {"watcher"}
     \/ exec.op = "serveNonPrimary" /\ open' = open \ {"ddle", "tableGC", "tracker"}
  /\ UNCHANGED <<want, now, retrying, asked, te, rt, running, dirty, bounds>>

(* servePrimary and serveNonPrimary up to connect. *)
BeginServe ==
  /\ exec.step = "start" /\ Step("connect")
  /\ \/ exec.op = "servePrimary" /\ open' = open \ {"watcher"}
     \/ exec.op = "serveNonPrimary" /\ open' = open \ {"ddle", "tableGC", "messager", "tracker"}
  /\ UNCHANGED <<want, now, retrying, asked, te, rt, running, dirty, bounds>>

Connect ==
  /\ exec.step = "connect" /\ Step("rest") /\ open' = open \cup Connection
  /\ UNCHANGED <<want, now, retrying, asked, te, rt, running, dirty, bounds>>

(* connect fails at the database or the schema engine, at the query        *)
(* engine, or at the throttler; what it has opened stays open.             *)
ConnectFails ==
  /\ exec.step = "connect" /\ faults < MaxFaults /\ faults' = faults + 1 /\ Step("failed")
  /\ \E some \in {{}, {"se", "vstreamer"}, {"se", "vstreamer", "qe"}} : open' = open \cup some
  /\ dirty' = TRUE
  /\ UNCHANGED <<want, now, retrying, asked, te, rt, running, calls>>

(* What follows connect, up to setState. *)
AfterConnect ==
  /\ exec.step = "rest" /\ Step("set")
  /\ \/ /\ exec.op = "servePrimary" /\ te' = "rw" /\ rt' = "primary"
        /\ open' = open \cup {"tracker", "messager", "throttler", "tableGC", "ddle"}
     \/ /\ exec.op = "serveNonPrimary" /\ te' = "ro" /\ rt' = "nonPrimary"
        /\ open' = open \cup {"watcher", "throttler"}
     \/ /\ exec.op = "unservePrimary" /\ rt' = "primary" /\ UNCHANGED <<te, open>>
     \/ /\ exec.op = "unserveNonPrimary" /\ rt' = "nonPrimary"
        /\ open' = open \cup {"watcher"} /\ UNCHANGED te
  /\ UNCHANGED <<want, now, retrying, asked, running, dirty, bounds>>

NewState(op) ==
  CASE op \in {"servePrimary", "serveNonPrimary"} -> "Serving"
    [] op \in {"unservePrimary", "unserveNonPrimary"} -> "NotServing"
    [] op = "closeAll" -> "NotConnected"

(* refreshReplHealthLocked: a primary is healthy; replication may be. *)
RefreshReplHealth(t) == IF t = "PRIMARY" THEN replHealthy' = TRUE ELSE replHealthy' \in BOOLEAN

(* Mutant: the old type stays allowed when the tablet is not a primary     *)
(* any more.                                                               *)
HandleGracePeriodKeeps(t) ==
  IF t # "PRIMARY" THEN UNCHANGED <<alsoAllow, graceTimers>>
  ELSE IF type # "PRIMARY" THEN alsoAllow' = {type} /\ graceTimers' = graceTimers + 1
  ELSE UNCHANGED <<alsoAllow, graceTimers>>

(* The previous type stays allowed for a while after a promotion. *)
HandleGracePeriod(t) ==
  IF t # "PRIMARY" THEN alsoAllow' = {} /\ UNCHANGED graceTimers
  ELSE IF type # "PRIMARY" THEN alsoAllow' = {type} /\ graceTimers' = graceTimers + 1
  ELSE UNCHANGED <<alsoAllow, graceTimers>>

(* setState; closeAll leaves the type to what is wanted. *)
SetState ==
  LET t == IF exec.op = "closeAll" THEN wantType ELSE exec.type
  IN /\ exec.step = "set" /\ Step("done")
     /\ HandleGracePeriod(t) /\ type' = t /\ state' = NewState(exec.op) /\ dirty' = FALSE
     /\ IF state = "NotConnected" THEN RefreshReplHealth(t) ELSE UNCHANGED replHealthy
     /\ UNCHANGED <<want, retrying, asked, parts, running, bounds>>

(* Mutant: CheckMySQL does not start the retry loop. *)
EndTransitionNoRetry ==
  /\ exec.step \in {"done", "failed"} /\ exec' = NoExec
  /\ retrying' = (retrying \/ exec.step = "failed")
  /\ UNCHANGED <<want, now, asked, parts, running, dirty, bounds>>

(* The semaphore is released, after retryTransition when the transition    *)
(* failed or was CheckMySQL's.                                             *)
EndTransition ==
  /\ exec.step \in {"done", "failed"} /\ exec' = NoExec
  /\ retrying' = (retrying \/ exec.step = "failed" \/ exec.by = "check")
  /\ UNCHANGED <<want, now, asked, parts, running, dirty, bounds>>

-----------------------------------------------------------------------------
(* Requests, the grace period and Broadcast *)

(* Mutant: a request is admitted whatever is wanted. *)
StartRequestAlways(r, t, how) ==
  /\ running[r] = "no" /\ state = "Serving" /\ replHealthy
  /\ t = type \/ t \in alsoAllow
  /\ running' = [running EXCEPT ![r] = how]
  /\ UNCHANGED <<want, now, retrying, asked, exec, parts, dirty, bounds>>

(* StartRequest, and the ones that are let in on shutdown. *)
StartRequest(r, t, how) ==
  /\ running[r] = "no" /\ state = "Serving" /\ replHealthy
  /\ wantState = "Serving" \/ how = "allowOnShutdown"
  /\ t = type \/ t \in alsoAllow
  /\ running' = [running EXCEPT ![r] = how]
  /\ UNCHANGED <<want, now, retrying, asked, exec, parts, dirty, bounds>>

(* EndRequest. *)
EndRequest(r) ==
  /\ running[r] # "no" /\ running' = [running EXCEPT ![r] = "no"]
  /\ UNCHANGED <<want, now, retrying, asked, exec, parts, dirty, bounds>>

(* The goroutine of handleGracePeriod wakes up, for whatever transition. *)
GracePeriodEnds ==
  /\ graceTimers > 0 /\ graceTimers' = graceTimers - 1 /\ alsoAllow' = {}
  /\ UNCHANGED <<want, type, state, replHealthy, retrying, asked, exec, parts, running, dirty, bounds>>

Broadcast ==
  /\ RefreshReplHealth(type)
  /\ UNCHANGED <<want, type, state, alsoAllow, graceTimers, retrying, asked, exec, parts, running,
                 dirty, bounds>>

-----------------------------------------------------------------------------
(* wantType is not read before the first SetServingType sets it. *)
Init ==
  /\ type \in Types /\ state = "NotConnected" /\ wantType = type /\ wantState = "NotConnected"
  /\ retrying = FALSE /\ replHealthy = FALSE /\ alsoAllow = {} /\ graceTimers = 0
  /\ asked = [c \in Callers |-> NoCall] /\ exec = NoExec
  /\ open = {} /\ te = "closed" /\ rt = "closed"
  /\ running = [r \in Requests |-> "no"] /\ dirty = FALSE /\ calls = 0 /\ faults = 0

Transition ==
  \/ UnserveCommon \/ CloseTe \/ WaitForRequests \/ CloseRest
  \/ BeginServe \/ Connect \/ ConnectFails \/ AfterConnect \/ SetState \/ EndTransition

Next ==
  \/ \E c \in Callers : MustTransition(c) \/ \E t \in Types, s \in States : SetServingType(c, t, s)
  \/ RecheckState \/ CheckMySQL \/ Transition
  \/ \E r \in Requests : EndRequest(r)
       \/ \E t \in Types, how \in {"normal", "allowOnShutdown"} : StartRequest(r, t, how)
  \/ GracePeriodEnds \/ Broadcast

Spec == Init /\ [][Next]_vars

(* Goroutines run and sleeps end.  The WaitGroup releases requests.Wait    *)
(* whenever its counter reaches zero, if only for a moment.                *)
FairSpec ==
  /\ Spec
  /\ WF_vars(Transition) /\ SF_vars(WaitForRequests) /\ WF_vars(RecheckState) /\ WF_vars(GracePeriodEnds)
  /\ \A c \in Callers : SF_vars(MustTransition(c))

-----------------------------------------------------------------------------
(* Properties *)

(* Every variable keeps its type. *)
TypeOK ==
  /\ wantType \in Types /\ wantState \in States /\ type \in Types /\ state \in States
  /\ retrying \in BOOLEAN /\ replHealthy \in BOOLEAN /\ dirty \in BOOLEAN
  /\ alsoAllow \subseteq Types /\ graceTimers \in Nat /\ calls \in Nat /\ faults \in Nat
  /\ asked \in [Callers -> [type : Types, state : States] \cup {NoCall}]
  /\ exec \in [by : {"none", "caller", "retry", "check"},
               op : Unserves \cup {"none", "servePrimary", "serveNonPrimary"}, type : Types,
               step : {"none", "start", "te", "wait", "shut", "connect", "rest", "set", "done", "failed"}]
  /\ open \subseteq Components /\ te \in {"closed", "ro", "rw"}
  /\ rt \in {"closed", "primary", "nonPrimary"}
  /\ running \in [Requests -> {"no", "normal", "allowOnShutdown"}]

(* The transition that runs leads to what is wanted now: neither a later   *)
(* SetServingType nor the retry loop's goroutine, which gets its target as *)
(* arguments, makes it one to a state that is not wanted any more.         *)
TransitionIsWanted ==
  exec.by \in {"caller", "retry"} => exec.op = Op(wantType, wantState) /\ exec.type = wantType

(* What is open in each state. *)
Parts(t, s) ==
  CASE s = "NotConnected" -> [open |-> {}, te |-> "closed", rt |-> "closed"]
    [] s = "NotServing" /\ t = "PRIMARY" -> [open |-> Connection, te |-> "closed", rt |-> "primary"]
    [] s = "NotServing" /\ t # "PRIMARY" ->
         [open |-> Connection \cup {"watcher"}, te |-> "closed", rt |-> "nonPrimary"]
    [] s = "Serving" /\ t = "PRIMARY" ->
         [open |-> Components \ {"watcher"}, te |-> "rw", rt |-> "primary"]
    [] s = "Serving" /\ t # "PRIMARY" ->
         [open |-> Connection \cup {"watcher", "throttler"}, te |-> "ro", rt |-> "nonPrimary"]

Settled == [open |-> open, te |-> te, rt |-> rt] = Parts(type, state)

(* Whatever transitions were made, in any order and after any partial      *)
(* failure, a transition that ran to its end leaves exactly the components *)
(* of its state open, and the transaction engine in its mode.              *)
PartsMatchState == Free /\ ~dirty => Settled

(* A tablet that is not serving because it was asked to has no request     *)
(* left but those that are let in on shutdown.                             *)
NotServingNoRequests ==
  state = "NotServing" => \A r \in Requests : running[r] # "normal"

(* A type other than the tablet's is allowed on a primary only, it is not  *)
(* the primary's own, and a goroutine is there that will end it, although  *)
(* the goroutine of an earlier promotion may end it early.                 *)
GraceWillEnd == alsoAllow # {} => type = "PRIMARY" /\ "PRIMARY" \notin alsoAllow /\ graceTimers > 0

(* A tablet that is not in the wanted state is on its way: a transition    *)
(* runs or the retry loop does.                                            *)
NoForgottenTarget == ~Reached => ~Free \/ retrying

(* "to ensure that the request will eventually be honored": failed         *)
(* transitions and MySQL's failures notwithstanding, the tablet gets to    *)
(* the state that was asked for last, if its requests do not overlap for   *)
(* ever while a transition waits for them.                                 *)
Converges == []<>NoRequests => <>[]Reached

(* A tablet that is asked to serve, and is recorded as serving, has its    *)
(* components open and its transaction engine in the mode of its type.     *)
(* The code does not keep it: when a transition has failed half-way and is *)
(* revoked by asking for the state that is still recorded, mustTransition  *)
(* sees nothing to do.                                                     *)
ServingIsSettled == Free /\ Reached /\ state = "Serving" => Settled
=============================================================================
