------------------------ MODULE StateManager_proofs ------------------------
(***************************************************************************)
(* Safety of stateManager for any callers, requests and bounds.            *)
(***************************************************************************)
EXTENDS StateManager, TLAPS

Serves == {"servePrimary", "serveNonPrimary"}
Stops == {"unservePrimary", "unserveNonPrimary"}

(* What holds the semaphore and what it does belong together.              *)
ExecInv ==
  /\ Free <=> exec.step = "none"
  /\ Free => exec.op = "none"
  /\ ~Free => exec.op # "none"
  /\ exec.by = "check" => exec.op = "closeAll"
  /\ exec.op \in {"servePrimary", "unservePrimary"} => exec.type = "PRIMARY"
  /\ exec.op \in {"serveNonPrimary", "unserveNonPrimary"} => exec.type = "REPLICA"
  /\ exec.step \in {"te", "wait"} => exec.op \in Unserves
  /\ exec.step = "shut" => exec.op = "closeAll"
  /\ exec.step \in {"connect", "rest", "failed"} => exec.op \in Serves \cup Stops
  /\ exec.step = "failed" => dirty
  /\ exec.step = "done" => ~dirty /\ state = NewState(exec.op)

(* What is closed, or open, at each step of a transition, whatever was     *)
(* open when it began.                                                     *)
StepInv ==
  /\ exec.step \in {"te", "wait"} => open \cap {"ddle", "tableGC", "throttler", "messager"} = {}
  /\ exec.step = "wait" => te = "closed" /\ "tracker" \notin open
  /\ exec.step = "shut" => te = "closed" /\ open \subseteq Connection \cup {"watcher"}
  /\ exec.step \in {"connect", "rest"} =>
       /\ exec.op = "servePrimary" => "watcher" \notin open
       /\ exec.op = "serveNonPrimary" => open \cap {"ddle", "tableGC", "messager", "tracker"} = {}
       /\ exec.op = "unservePrimary" => te = "closed" /\ open \subseteq Connection
       /\ exec.op = "unserveNonPrimary" => te = "closed" /\ open \subseteq Connection \cup {"watcher"}
  /\ exec.step = "rest" => Connection \subseteq open
  /\ exec.step = "set" => [open |-> open, te |-> te, rt |-> rt] = Parts(exec.type, NewState(exec.op))
  /\ exec.step = "done" => Settled

(* Once the requests were waited for no ordinary one is let in.            *)
QuietInv ==
  /\ exec.op \in Stops /\ exec.step \in {"connect", "rest", "set", "done"} =>
       \A r \in Requests : running[r] # "normal"
  /\ exec.op \in Stops => wantState = "NotServing"

(* A transition that was asked for ends in what is wanted.                 *)
DoneInv == exec.step = "done" /\ exec.by # "check" => Reached

IInv ==
  /\ TypeOK /\ ExecInv /\ TransitionIsWanted /\ StepInv /\ PartsMatchState
  /\ QuietInv /\ NotServingNoRequests /\ GraceWillEnd /\ DoneInv /\ NoForgottenTarget

(* The initial states satisfy the invariant. *)
LEMMA InitInv == Init => IInv
<1>. SUFFICES ASSUME Init PROVE IInv
  OBVIOUS
<1>. USE DEF Init, NoExec, Free, Reached
<1>1. TypeOK
  BY DEF TypeOK, Types, States, NoCall, Unserves, Components
<1>2. ExecInv /\ TransitionIsWanted /\ QuietInv /\ DoneInv
  BY DEF ExecInv, TransitionIsWanted, QuietInv, DoneInv, Stops
<1>3. StepInv
  BY DEF StepInv
<1>4. PartsMatchState
  BY DEF PartsMatchState, Settled, Parts
<1>5. NotServingNoRequests /\ GraceWillEnd /\ NoForgottenTarget
  BY DEF NotServingNoRequests, GraceWillEnd, NoForgottenTarget
<1>. QED BY <1>1, <1>2, <1>3, <1>4, <1>5 DEF IInv

(* Op names the transition for a type and a state; NewState is its inverse. *)
LEMMA OpFacts ==
  ASSUME NEW t \in Types, NEW s \in States
  PROVE  /\ Op(t, s) \in Unserves \cup Serves
         /\ NewState(Op(t, s)) = s
         /\ Op(t, s) \in {"servePrimary", "unservePrimary"} => t = "PRIMARY"
         /\ Op(t, s) \in {"serveNonPrimary", "unserveNonPrimary"} => t = "REPLICA"
         /\ Op(t, s) \in Stops => s = "NotServing"
         /\ Op(t, s) # "none"
BY DEF Op, NewState, Types, States, Unserves, Serves, Stops

(* Types are preserved. *)
LEMMA TypeStep == IInv /\ [Next]_vars => TypeOK'
<1>. SUFFICES ASSUME IInv, [Next]_vars PROVE TypeOK'
  OBVIOUS
<1>. USE DEF IInv, TypeOK
<1>1. ASSUME NEW c \in Callers, NEW t \in Types, NEW s \in States, 
            SetServingType(c, t, s)
     PROVE  TypeOK'
  BY <1>1 DEF SetServingType, now, want, parts, bounds, Types, States
<1>2. ASSUME NEW c \in Callers, MustTransition(c) PROVE TypeOK'
  <2>1. PICK a \in [type : Types, state : States] : a = asked[c] /\ asked[c] # NoCall
    BY <1>2 DEF MustTransition, NoCall, Types, States
  <2>2. CASE a.type = type /\ a.state = state
    BY <1>2, <2>1, <2>2 DEF MustTransition, now, want, parts, bounds, NoCall, Types, Serves
  <2>3. CASE ~(a.type = type /\ a.state = state)
    BY <1>2, <2>1, <2>3, OpFacts DEF MustTransition, Start, now, want, parts, bounds, NoCall, Types, Serves
  <2>. QED BY <2>2, <2>3
<1>3. CASE RecheckState
  <2>1. CASE Reached
    BY <1>3, <2>1 DEF RecheckState, now, want, parts, bounds
  <2>2. CASE ~Reached
    <3>1. Op(wantType, wantState) \in Unserves \cup Serves
      BY OpFacts
    <3>2. /\ Start("retry", wantType, wantState)
          /\ UNCHANGED <<retrying, want, now, asked, parts, running, dirty, bounds>>
      BY <1>3, <2>2 DEF RecheckState
    <3>. QED BY <3>1, <3>2 DEF Start, now, want, parts, bounds, Serves
  <2>. QED BY <2>1, <2>2
<1>4. CASE CheckMySQL
  BY <1>4 DEF CheckMySQL, now, want, parts, bounds, Unserves
<1>5. CASE UnserveCommon
  BY <1>5 DEF UnserveCommon, now, want, parts, bounds, Step
<1>6. CASE CloseTe
  BY <1>6 DEF CloseTe, now, want, parts, bounds, Step
<1>7. CASE WaitForRequests
  BY <1>7 DEF WaitForRequests, now, want, parts, bounds, Step
<1>8. CASE CloseRest
  BY <1>8 DEF CloseRest, now, want, parts, bounds, Step
<1>9. CASE BeginServe
  BY <1>9 DEF BeginServe, now, want, parts, bounds, Step
<1>10. CASE Connect
  BY <1>10 DEF Connect, now, want, parts, bounds, Step, Components
<1>11. CASE ConnectFails
  BY <1>11 DEF ConnectFails, now, want, parts, bounds, Step, Components, Connection
<1>12. CASE AfterConnect
  BY <1>12 DEF AfterConnect, now, want, parts, bounds, Step, Components, Connection
<1>13. CASE SetState
  <2>1. replHealthy' \in BOOLEAN
    BY <1>13 DEF SetState, RefreshReplHealth
  <2>2. alsoAllow' \subseteq Types /\ graceTimers' \in Nat
    BY <1>13 DEF SetState, HandleGracePeriod
  <2>3. state' \in States
    BY <1>13 DEF SetState, NewState, States, Unserves, ExecInv, Free
  <2>4. type' \in Types /\ exec' \in [by : {"none", "caller", "retry", "check"},
               op : Unserves \cup {"none", "servePrimary", "serveNonPrimary"}, type : Types,
               step : {"none", "start", "te", "wait", "shut", "connect", "rest", "set", "done", "failed"}]
    BY <1>13 DEF SetState, Step
  <2>. QED BY <1>13, <2>1, <2>2, <2>3, <2>4 DEF SetState, want, parts, bounds
<1>14. CASE EndTransition
  BY <1>14 DEF EndTransition, now, want, parts, bounds, NoExec, Types
<1>15. ASSUME NEW r \in Requests, NEW t \in Types, NEW how \in {"normal", "allowOnShutdown"},
            StartRequest(r, t, how)
     PROVE  TypeOK'
  BY <1>15 DEF StartRequest, now, want, parts, bounds
<1>16. ASSUME NEW r \in Requests, EndRequest(r) PROVE TypeOK'
  BY <1>16 DEF EndRequest, now, want, parts, bounds
<1>17. CASE GracePeriodEnds
  BY <1>17 DEF GracePeriodEnds, now, want, parts, bounds
<1>18. CASE Broadcast
  <2>1. replHealthy' \in BOOLEAN
    BY <1>18 DEF Broadcast, RefreshReplHealth
  <2>. QED BY <1>18, <2>1 DEF Broadcast, want, parts, bounds
<1>19. CASE UNCHANGED vars
  BY <1>19 DEF now, want, parts, bounds, vars
<1>. QED
  BY <1>1, <1>2, <1>3, <1>4, <1>5, <1>6, <1>7, <1>8, <1>9, <1>10, <1>11, <1>12, <1>13,
     <1>14, <1>15, <1>16, <1>17, <1>18, <1>19 DEF Next, Transition

(* The transition that runs stays the one that is wanted. *)
LEMMA WantedStep == IInv /\ [Next]_vars => TransitionIsWanted'
<1>. SUFFICES ASSUME IInv, [Next]_vars PROVE TransitionIsWanted'
  OBVIOUS
<1>. USE DEF IInv, TypeOK, ExecInv, TransitionIsWanted, Free
<1>1. ASSUME NEW c \in Callers, NEW t \in Types, NEW s \in States, 
            SetServingType(c, t, s)
     PROVE  TransitionIsWanted'
  BY <1>1 DEF SetServingType, now, want, parts, bounds
<1>2. ASSUME NEW c \in Callers, MustTransition(c) PROVE TransitionIsWanted'
  <2>1. PICK a \in [type : Types, state : States] : a = asked[c] /\ asked[c] # NoCall
    BY <1>2 DEF MustTransition, NoCall, Types, States
  <2>2. CASE a.type = type /\ a.state = state
    BY <1>2, <2>1, <2>2 DEF MustTransition, now, want, parts, bounds, NoCall, Types
  <2>3. CASE ~(a.type = type /\ a.state = state)
    BY <1>2, <2>1, <2>3, OpFacts DEF MustTransition, Start, now, want, parts, bounds, NoCall, Types
  <2>. QED BY <2>2, <2>3
<1>3. CASE RecheckState
  <2>1. CASE Reached
    BY <1>3, <2>1 DEF RecheckState, now, want, parts, bounds
  <2>2. CASE ~Reached
    <3>1. /\ Start("retry", wantType, wantState)
          /\ UNCHANGED <<retrying, want, now, asked, parts, running, dirty, bounds>>
      BY <1>3, <2>2 DEF RecheckState
    <3>. QED BY <2>2, <3>1, OpFacts DEF Start, now, want, parts, bounds
  <2>. QED BY <2>1, <2>2
<1>4. CASE CheckMySQL
  BY <1>4 DEF CheckMySQL, now, want, parts, bounds
<1>5. CASE UnserveCommon
  BY <1>5 DEF UnserveCommon, now, want, parts, bounds, Step
<1>6. CASE CloseTe
  BY <1>6 DEF CloseTe, now, want, parts, bounds, Step
<1>7. CASE WaitForRequests
  BY <1>7 DEF WaitForRequests, now, want, parts, bounds, Step
<1>8. CASE CloseRest
  BY <1>8 DEF CloseRest, now, want, parts, bounds, Step
<1>9. CASE BeginServe
  BY <1>9 DEF BeginServe, now, want, parts, bounds, Step
<1>10. CASE Connect
  BY <1>10 DEF Connect, now, want, parts, bounds, Step
<1>11. CASE ConnectFails
  BY <1>11 DEF ConnectFails, now, want, parts, bounds, Step
<1>12. CASE AfterConnect
  BY <1>12 DEF AfterConnect, now, want, parts, bounds, Step
<1>13. CASE SetState
  BY <1>13 DEF SetState, now, want, parts, bounds, Step
<1>14. CASE EndTransition
  BY <1>14 DEF EndTransition, now, want, parts, bounds, NoExec
<1>15. ASSUME NEW r \in Requests, NEW t \in Types, NEW how \in {"normal", "allowOnShutdown"},
            StartRequest(r, t, how)
     PROVE  TransitionIsWanted'
  BY <1>15 DEF StartRequest, now, want, parts, bounds
<1>16. ASSUME NEW r \in Requests, EndRequest(r) PROVE TransitionIsWanted'
  BY <1>16 DEF EndRequest, now, want, parts, bounds
<1>17. CASE GracePeriodEnds
  BY <1>17 DEF GracePeriodEnds, now, want, parts, bounds
<1>18. CASE Broadcast
  BY <1>18 DEF Broadcast, now, want, parts, bounds
<1>19. CASE UNCHANGED vars
  BY <1>19 DEF now, want, parts, bounds, vars
<1>. QED
  BY <1>1, <1>2, <1>3, <1>4, <1>5, <1>6, <1>7, <1>8, <1>9, <1>10, <1>11, <1>12, <1>13,
     <1>14, <1>15, <1>16, <1>17, <1>18, <1>19 DEF Next, Transition

(* The holder of the semaphore and its step stay consistent. *)
LEMMA ExecStep == IInv /\ [Next]_vars => ExecInv'
<1>. SUFFICES ASSUME IInv, [Next]_vars PROVE ExecInv'
  OBVIOUS
<1>. USE DEF IInv, TypeOK, ExecInv, Free
<1>1. ASSUME NEW c \in Callers, NEW t \in Types, NEW s \in States, 
            SetServingType(c, t, s)
     PROVE  ExecInv'
  BY <1>1 DEF SetServingType, now, want, parts, bounds
<1>2. ASSUME NEW c \in Callers, MustTransition(c) PROVE ExecInv'
  <2>1. PICK a \in [type : Types, state : States] : a = asked[c] /\ asked[c] # NoCall
    BY <1>2 DEF MustTransition, NoCall, Types, States
  <2>2. CASE a.type = type /\ a.state = state
    BY <1>2, <2>1, <2>2 DEF MustTransition, now, want, parts, bounds, NoCall, Types, Unserves, Serves, Stops
  <2>3. CASE ~(a.type = type /\ a.state = state)
    BY <1>2, <2>1, <2>3, OpFacts DEF MustTransition, Start, now, want, parts, bounds, NoCall, Types, Unserves, Serves, Stops
  <2>. QED BY <2>2, <2>3
<1>3. CASE RecheckState
  <2>1. CASE Reached
    BY <1>3, <2>1 DEF RecheckState, now, want, parts, bounds, Unserves, Serves, Stops
  <2>2. CASE ~Reached
    <3>1. /\ Start("retry", wantType, wantState)
          /\ UNCHANGED <<retrying, want, now, asked, parts, running, dirty, bounds>>
      BY <1>3, <2>2 DEF RecheckState
    <3>. QED BY <2>2, <3>1, OpFacts DEF Start, now, want, parts, bounds, Unserves, Serves, Stops
  <2>. QED BY <2>1, <2>2
<1>4. CASE CheckMySQL
  BY <1>4 DEF CheckMySQL, now, want, parts, bounds, Serves, Stops
<1>5. CASE UnserveCommon
  BY <1>5 DEF UnserveCommon, now, want, parts, bounds, Step, Unserves
<1>6. CASE CloseTe
  BY <1>6 DEF CloseTe, now, want, parts, bounds, Step, Unserves
<1>7. CASE WaitForRequests
  BY <1>7 DEF WaitForRequests, now, want, parts, bounds, Step, Unserves, Stops, Serves
<1>8. CASE CloseRest
  BY <1>8 DEF CloseRest, now, want, parts, bounds, Step
<1>9. CASE BeginServe
  BY <1>9 DEF BeginServe, now, want, parts, bounds, Step, Serves
<1>10. CASE Connect
  BY <1>10 DEF Connect, now, want, parts, bounds, Step
<1>11. CASE ConnectFails
  BY <1>11 DEF ConnectFails, now, want, parts, bounds, Step
<1>12. CASE AfterConnect
  BY <1>12 DEF AfterConnect, now, want, parts, bounds, Step
<1>13. CASE SetState
  BY <1>13 DEF SetState, now, want, parts, bounds, Step
<1>14. CASE EndTransition
  BY <1>14 DEF EndTransition, now, want, parts, bounds, NoExec
<1>15. ASSUME NEW r \in Requests, NEW t \in Types, NEW how \in {"normal", "allowOnShutdown"},
            StartRequest(r, t, how)
     PROVE  ExecInv'
  BY <1>15 DEF StartRequest, now, want, parts, bounds
<1>16. ASSUME NEW r \in Requests, EndRequest(r) PROVE ExecInv'
  BY <1>16 DEF EndRequest, now, want, parts, bounds
<1>17. CASE GracePeriodEnds
  BY <1>17 DEF GracePeriodEnds, now, want, parts, bounds
<1>18. CASE Broadcast
  BY <1>18 DEF Broadcast, now, want, parts, bounds
<1>19. CASE UNCHANGED vars
  BY <1>19 DEF now, want, parts, bounds, vars
<1>. QED
  BY <1>1, <1>2, <1>3, <1>4, <1>5, <1>6, <1>7, <1>8, <1>9, <1>10, <1>11, <1>12, <1>13,
     <1>14, <1>15, <1>16, <1>17, <1>18, <1>19 DEF Next, Transition

(* What is open at each step. *)
LEMMA StepStep == IInv /\ [Next]_vars => StepInv'
<1>. SUFFICES ASSUME IInv, [Next]_vars PROVE StepInv'
  OBVIOUS
<1>. USE DEF IInv, TypeOK, ExecInv, StepInv, Settled, Free
<1>1. ASSUME NEW c \in Callers, NEW t \in Types, NEW s \in States, 
            SetServingType(c, t, s)
     PROVE  StepInv'
  BY <1>1 DEF SetServingType, now, want, parts, bounds
<1>2. ASSUME NEW c \in Callers, MustTransition(c) PROVE StepInv'
  <2>1. PICK a \in [type : Types, state : States] : a = asked[c] /\ asked[c] # NoCall
    BY <1>2 DEF MustTransition, NoCall, Types, States
  <2>2. CASE a.type = type /\ a.state = state
    BY <1>2, <2>1, <2>2 DEF MustTransition, now, want, parts, bounds, NoCall, Types
  <2>3. CASE ~(a.type = type /\ a.state = state)
    BY <1>2, <2>1, <2>3, OpFacts DEF MustTransition, Start, now, want, parts, bounds, NoCall, Types
  <2>. QED BY <2>2, <2>3
<1>3. CASE RecheckState
  <2>1. CASE Reached
    BY <1>3, <2>1 DEF RecheckState, now, want, parts, bounds
  <2>2. CASE ~Reached
    <3>1. /\ Start("retry", wantType, wantState)
          /\ UNCHANGED <<retrying, want, now, asked, parts, running, dirty, bounds>>
      BY <1>3, <2>2 DEF RecheckState
    <3>. QED BY <2>2, <3>1, OpFacts DEF Start, now, want, parts, bounds
  <2>. QED BY <2>1, <2>2
<1>4. CASE CheckMySQL
  BY <1>4 DEF CheckMySQL, now, want, parts, bounds
<1>5. CASE UnserveCommon
  BY <1>5 DEF UnserveCommon, now, want, parts, bounds, Step
<1>6. CASE CloseTe
  BY <1>6 DEF CloseTe, now, want, parts, bounds, Step
<1>7. CASE WaitForRequests
  BY <1>7 DEF WaitForRequests, now, want, parts, bounds, Step, Unserves, Components, Connection
<1>8. CASE CloseRest
  BY <1>8 DEF CloseRest, now, want, parts, bounds, Step, Parts, NewState
<1>9. CASE BeginServe
  BY <1>9 DEF BeginServe, now, want, parts, bounds, Step
<1>10. CASE Connect
  BY <1>10 DEF Connect, now, want, parts, bounds, Step, Connection
<1>11. CASE ConnectFails
  BY <1>11 DEF ConnectFails, now, want, parts, bounds, Step
<1>12. CASE AfterConnect
  <2>. USE DEF AfterConnect, Step, now, want, bounds
  <2>1. exec.step = "rest" /\ exec'.step = "set" /\ exec'.op = exec.op /\ exec'.type = exec.type
    BY <1>12
  <2>2. CASE exec.op = "servePrimary"
    <3>1. open' = Components \ {"watcher"}
      BY <1>12, <2>1, <2>2 DEF Components, Connection
    <3>. QED BY <1>12, <2>1, <2>2, <3>1 DEF Parts, NewState
  <2>3. CASE exec.op = "serveNonPrimary"
    <3>1. open' = Connection \cup {"watcher", "throttler"}
      BY <1>12, <2>1, <2>3 DEF Components, Connection
    <3>. QED BY <1>12, <2>1, <2>3, <3>1 DEF Parts, NewState
  <2>4. CASE exec.op = "unservePrimary"
    <3>1. open' = Connection
      BY <1>12, <2>1, <2>4 DEF Connection
    <3>. QED BY <1>12, <2>1, <2>4, <3>1 DEF Parts, NewState
  <2>5. CASE exec.op = "unserveNonPrimary"
    <3>1. open' = Connection \cup {"watcher"}
      BY <1>12, <2>1, <2>5 DEF Connection
    <3>. QED BY <1>12, <2>1, <2>5, <3>1 DEF Parts, NewState
  <2>. QED BY <1>12, <2>2, <2>3, <2>4, <2>5
<1>13. CASE SetState
  BY <1>13 DEF SetState, now, want, parts, bounds, Step, Settled, Parts, NewState
<1>14. CASE EndTransition
  BY <1>14 DEF EndTransition, now, want, parts, bounds, NoExec
<1>15. ASSUME NEW r \in Requests, NEW t \in Types, NEW how \in {"normal", "allowOnShutdown"},
            StartRequest(r, t, how)
     PROVE  StepInv'
  BY <1>15 DEF StartRequest, now, want, parts, bounds
<1>16. ASSUME NEW r \in Requests, EndRequest(r) PROVE StepInv'
  BY <1>16 DEF EndRequest, now, want, parts, bounds
<1>17. CASE GracePeriodEnds
  BY <1>17 DEF GracePeriodEnds, now, want, parts, bounds
<1>18. CASE Broadcast
  BY <1>18 DEF Broadcast, now, want, parts, bounds
<1>19. CASE UNCHANGED vars
  BY <1>19 DEF now, want, parts, bounds, vars
<1>. QED
  BY <1>1, <1>2, <1>3, <1>4, <1>5, <1>6, <1>7, <1>8, <1>9, <1>10, <1>11, <1>12, <1>13,
     <1>14, <1>15, <1>16, <1>17, <1>18, <1>19 DEF Next, Transition

(* Settled tablets stay settled. *)
LEMMA PartsStep == IInv /\ [Next]_vars => PartsMatchState'
<1>. SUFFICES ASSUME IInv, [Next]_vars PROVE PartsMatchState'
  OBVIOUS
<1>. USE DEF IInv, TypeOK, ExecInv, StepInv, PartsMatchState, Settled, Free
<1>1. ASSUME NEW c \in Callers, NEW t \in Types, NEW s \in States, 
            SetServingType(c, t, s)
     PROVE  PartsMatchState'
  BY <1>1 DEF SetServingType, now, want, parts, bounds, Settled
<1>2. ASSUME NEW c \in Callers, MustTransition(c) PROVE PartsMatchState'
  <2>1. PICK a \in [type : Types, state : States] : a = asked[c] /\ asked[c] # NoCall
    BY <1>2 DEF MustTransition, NoCall, Types, States
  <2>2. CASE a.type = type /\ a.state = state
    BY <1>2, <2>1, <2>2 DEF MustTransition, now, want, parts, bounds, NoCall, Types
  <2>3. CASE ~(a.type = type /\ a.state = state)
    BY <1>2, <2>1, <2>3, OpFacts DEF MustTransition, Start, now, want, parts, bounds, NoCall, Types
  <2>. QED BY <2>2, <2>3
<1>3. CASE RecheckState
  <2>1. CASE Reached
    BY <1>3, <2>1 DEF RecheckState, now, want, parts, bounds
  <2>2. CASE ~Reached
    <3>1. /\ Start("retry", wantType, wantState)
          /\ UNCHANGED <<retrying, want, now, asked, parts, running, dirty, bounds>>
      BY <1>3, <2>2 DEF RecheckState
    <3>. QED BY <2>2, <3>1, OpFacts DEF Start, now, want, parts, bounds
  <2>. QED BY <2>1, <2>2
<1>4. CASE CheckMySQL
  BY <1>4 DEF CheckMySQL, now, want, parts, bounds
<1>5. CASE UnserveCommon
  BY <1>5 DEF UnserveCommon, now, want, parts, bounds, Step
<1>6. CASE CloseTe
  BY <1>6 DEF CloseTe, now, want, parts, bounds, Step
<1>7. CASE WaitForRequests
  BY <1>7 DEF WaitForRequests, now, want, parts, bounds, Step
<1>8. CASE CloseRest
  BY <1>8 DEF CloseRest, now, want, parts, bounds, Step
<1>9. CASE BeginServe
  BY <1>9 DEF BeginServe, now, want, parts, bounds, Step
<1>10. CASE Connect
  BY <1>10 DEF Connect, now, want, parts, bounds, Step
<1>11. CASE ConnectFails
  BY <1>11 DEF ConnectFails, now, want, parts, bounds, Step
<1>12. CASE AfterConnect
  BY <1>12 DEF AfterConnect, now, want, parts, bounds, Step
<1>13. CASE SetState
  BY <1>13 DEF SetState, now, want, parts, bounds, Step
<1>14. CASE EndTransition
  BY <1>14 DEF EndTransition, now, want, parts, bounds, NoExec, Settled
<1>15. ASSUME NEW r \in Requests, NEW t \in Types, NEW how \in {"normal", "allowOnShutdown"},
            StartRequest(r, t, how)
     PROVE  PartsMatchState'
  BY <1>15 DEF StartRequest, now, want, parts, bounds, Settled
<1>16. ASSUME NEW r \in Requests, EndRequest(r) PROVE PartsMatchState'
  BY <1>16 DEF EndRequest, now, want, parts, bounds, Settled
<1>17. CASE GracePeriodEnds
  BY <1>17 DEF GracePeriodEnds, now, want, parts, bounds, Settled
<1>18. CASE Broadcast
  BY <1>18 DEF Broadcast, now, want, parts, bounds, Settled
<1>19. CASE UNCHANGED vars
  BY <1>19 DEF now, want, parts, bounds, vars
<1>. QED
  BY <1>1, <1>2, <1>3, <1>4, <1>5, <1>6, <1>7, <1>8, <1>9, <1>10, <1>11, <1>12, <1>13,
     <1>14, <1>15, <1>16, <1>17, <1>18, <1>19 DEF Next, Transition

(* Requests that stopped being admitted stay out. *)
LEMMA QuietStep == IInv /\ [Next]_vars => QuietInv'
<1>. SUFFICES ASSUME IInv, [Next]_vars PROVE QuietInv'
  OBVIOUS
<1>. USE DEF IInv, TypeOK, ExecInv, QuietInv, TransitionIsWanted, Free
<1>1. ASSUME NEW c \in Callers, NEW t \in Types, NEW s \in States, 
            SetServingType(c, t, s)
     PROVE  QuietInv'
  BY <1>1 DEF SetServingType, now, want, parts, bounds
<1>2. ASSUME NEW c \in Callers, MustTransition(c) PROVE QuietInv'
  <2>1. PICK a \in [type : Types, state : States] : a = asked[c] /\ asked[c] # NoCall
    BY <1>2 DEF MustTransition, NoCall, Types, States
  <2>2. CASE a.type = type /\ a.state = state
    BY <1>2, <2>1, <2>2 DEF MustTransition, now, want, parts, bounds, NoCall, Types, Stops
  <2>3. CASE ~(a.type = type /\ a.state = state)
    BY <1>2, <2>1, <2>3, OpFacts DEF MustTransition, Start, now, want, parts, bounds, NoCall, Types, Stops
  <2>. QED BY <2>2, <2>3
<1>3. CASE RecheckState
  <2>1. CASE Reached
    BY <1>3, <2>1 DEF RecheckState, now, want, parts, bounds, Stops
  <2>2. CASE ~Reached
    <3>1. /\ Start("retry", wantType, wantState)
          /\ UNCHANGED <<retrying, want, now, asked, parts, running, dirty, bounds>>
      BY <1>3, <2>2 DEF RecheckState
    <3>. QED BY <2>2, <3>1, OpFacts DEF Start, now, want, parts, bounds, Stops
  <2>. QED BY <2>1, <2>2
<1>4. CASE CheckMySQL
  BY <1>4 DEF CheckMySQL, now, want, parts, bounds, Stops
<1>5. CASE UnserveCommon
  BY <1>5 DEF UnserveCommon, now, want, parts, bounds, Step
<1>6. CASE CloseTe
  BY <1>6 DEF CloseTe, now, want, parts, bounds, Step
<1>7. CASE WaitForRequests
  BY <1>7 DEF WaitForRequests, now, want, parts, bounds, Step, NoRequests
<1>8. CASE CloseRest
  BY <1>8 DEF CloseRest, now, want, parts, bounds, Step, Stops
<1>9. CASE BeginServe
  BY <1>9 DEF BeginServe, now, want, parts, bounds, Step, Stops
<1>10. CASE Connect
  BY <1>10 DEF Connect, now, want, parts, bounds, Step
<1>11. CASE ConnectFails
  BY <1>11 DEF ConnectFails, now, want, parts, bounds, Step
<1>12. CASE AfterConnect
  BY <1>12 DEF AfterConnect, now, want, parts, bounds, Step
<1>13. CASE SetState
  BY <1>13 DEF SetState, now, want, parts, bounds, Step
<1>14. CASE EndTransition
  BY <1>14 DEF EndTransition, now, want, parts, bounds, NoExec, Stops
<1>15. ASSUME NEW r \in Requests, NEW t \in Types, NEW how \in {"normal", "allowOnShutdown"},
            StartRequest(r, t, how)
     PROVE  QuietInv'
  BY <1>15 DEF StartRequest, now, want, parts, bounds
<1>16. ASSUME NEW r \in Requests, EndRequest(r) PROVE QuietInv'
  BY <1>16 DEF EndRequest, now, want, parts, bounds
<1>17. CASE GracePeriodEnds
  BY <1>17 DEF GracePeriodEnds, now, want, parts, bounds
<1>18. CASE Broadcast
  BY <1>18 DEF Broadcast, now, want, parts, bounds
<1>19. CASE UNCHANGED vars
  BY <1>19 DEF now, want, parts, bounds, vars
<1>. QED
  BY <1>1, <1>2, <1>3, <1>4, <1>5, <1>6, <1>7, <1>8, <1>9, <1>10, <1>11, <1>12, <1>13,
     <1>14, <1>15, <1>16, <1>17, <1>18, <1>19 DEF Next, Transition

(* Nor are they there when the tablet does not serve. *)
LEMMA NotServingStep == IInv /\ [Next]_vars => NotServingNoRequests'
<1>. SUFFICES ASSUME IInv, [Next]_vars PROVE NotServingNoRequests'
  OBVIOUS
<1>. USE DEF IInv, TypeOK, ExecInv, QuietInv, NotServingNoRequests
<1>1. ASSUME NEW c \in Callers, NEW t \in Types, NEW s \in States, 
            SetServingType(c, t, s)
     PROVE  NotServingNoRequests'
  BY <1>1 DEF SetServingType, now, want, parts, bounds
<1>2. ASSUME NEW c \in Callers, MustTransition(c) PROVE NotServingNoRequests'
  <2>1. PICK a \in [type : Types, state : States] : a = asked[c] /\ asked[c] # NoCall
    BY <1>2 DEF MustTransition, NoCall, Types, States
  <2>2. CASE a.type = type /\ a.state = state
    BY <1>2, <2>1, <2>2 DEF MustTransition, now, want, parts, bounds, NoCall, Types
  <2>3. CASE ~(a.type = type /\ a.state = state)
    BY <1>2, <2>1, <2>3, OpFacts DEF MustTransition, Start, now, want, parts, bounds, NoCall, Types
  <2>. QED BY <2>2, <2>3
<1>3. CASE RecheckState
  <2>1. CASE Reached
    BY <1>3, <2>1 DEF RecheckState, now, want, parts, bounds
  <2>2. CASE ~Reached
    <3>1. /\ Start("retry", wantType, wantState)
          /\ UNCHANGED <<retrying, want, now, asked, parts, running, dirty, bounds>>
      BY <1>3, <2>2 DEF RecheckState
    <3>. QED BY <2>2, <3>1, OpFacts DEF Start, now, want, parts, bounds
  <2>. QED BY <2>1, <2>2
<1>4. CASE CheckMySQL
  BY <1>4 DEF CheckMySQL, now, want, parts, bounds
<1>5. CASE UnserveCommon
  BY <1>5 DEF UnserveCommon, now, want, parts, bounds, Step
<1>6. CASE CloseTe
  BY <1>6 DEF CloseTe, now, want, parts, bounds, Step
<1>7. CASE WaitForRequests
  BY <1>7 DEF WaitForRequests, now, want, parts, bounds, Step
<1>8. CASE CloseRest
  BY <1>8 DEF CloseRest, now, want, parts, bounds, Step
<1>9. CASE BeginServe
  BY <1>9 DEF BeginServe, now, want, parts, bounds, Step
<1>10. CASE Connect
  BY <1>10 DEF Connect, now, want, parts, bounds, Step
<1>11. CASE ConnectFails
  BY <1>11 DEF ConnectFails, now, want, parts, bounds, Step
<1>12. CASE AfterConnect
  BY <1>12 DEF AfterConnect, now, want, parts, bounds, Step
<1>13. CASE SetState
  BY <1>13 DEF SetState, now, want, parts, bounds, Step, NewState, Stops, Free, Unserves
<1>14. CASE EndTransition
  BY <1>14 DEF EndTransition, now, want, parts, bounds, NoExec
<1>15. ASSUME NEW r \in Requests, NEW t \in Types, NEW how \in {"normal", "allowOnShutdown"},
            StartRequest(r, t, how)
     PROVE  NotServingNoRequests'
  BY <1>15 DEF StartRequest, now, want, parts, bounds
<1>16. ASSUME NEW r \in Requests, EndRequest(r) PROVE NotServingNoRequests'
  BY <1>16 DEF EndRequest, now, want, parts, bounds
<1>17. CASE GracePeriodEnds
  BY <1>17 DEF GracePeriodEnds, now, want, parts, bounds
<1>18. CASE Broadcast
  BY <1>18 DEF Broadcast, now, want, parts, bounds
<1>19. CASE UNCHANGED vars
  BY <1>19 DEF now, want, parts, bounds, vars
<1>. QED
  BY <1>1, <1>2, <1>3, <1>4, <1>5, <1>6, <1>7, <1>8, <1>9, <1>10, <1>11, <1>12, <1>13,
     <1>14, <1>15, <1>16, <1>17, <1>18, <1>19 DEF Next, Transition

(* A grace period keeps its goroutine. *)
LEMMA GraceStep == IInv /\ [Next]_vars => GraceWillEnd'
<1>. SUFFICES ASSUME IInv, [Next]_vars PROVE GraceWillEnd'
  OBVIOUS
<1>. USE DEF IInv, TypeOK, GraceWillEnd
<1>1. ASSUME NEW c \in Callers, NEW t \in Types, NEW s \in States, 
            SetServingType(c, t, s)
     PROVE  GraceWillEnd'
  BY <1>1 DEF SetServingType, now, want, parts, bounds
<1>2. ASSUME NEW c \in Callers, MustTransition(c) PROVE GraceWillEnd'
  <2>1. PICK a \in [type : Types, state : States] : a = asked[c] /\ asked[c] # NoCall
    BY <1>2 DEF MustTransition, NoCall, Types, States
  <2>2. CASE a.type = type /\ a.state = state
    BY <1>2, <2>1, <2>2 DEF MustTransition, now, want, parts, bounds, NoCall, Types
  <2>3. CASE ~(a.type = type /\ a.state = state)
    BY <1>2, <2>1, <2>3, OpFacts DEF MustTransition, Start, now, want, parts, bounds, NoCall, Types
  <2>. QED BY <2>2, <2>3
<1>3. CASE RecheckState
  <2>1. CASE Reached
    BY <1>3, <2>1 DEF RecheckState, now, want, parts, bounds
  <2>2. CASE ~Reached
    <3>1. /\ Start("retry", wantType, wantState)
          /\ UNCHANGED <<retrying, want, now, asked, parts, running, dirty, bounds>>
      BY <1>3, <2>2 DEF RecheckState
    <3>. QED BY <2>2, <3>1, OpFacts DEF Start, now, want, parts, bounds
  <2>. QED BY <2>1, <2>2
<1>4. CASE CheckMySQL
  BY <1>4 DEF CheckMySQL, now, want, parts, bounds
<1>5. CASE UnserveCommon
  BY <1>5 DEF UnserveCommon, now, want, parts, bounds, Step
<1>6. CASE CloseTe
  BY <1>6 DEF CloseTe, now, want, parts, bounds, Step
<1>7. CASE WaitForRequests
  BY <1>7 DEF WaitForRequests, now, want, parts, bounds, Step
<1>8. CASE CloseRest
  BY <1>8 DEF CloseRest, now, want, parts, bounds, Step
<1>9. CASE BeginServe
  BY <1>9 DEF BeginServe, now, want, parts, bounds, Step
<1>10. CASE Connect
  BY <1>10 DEF Connect, now, want, parts, bounds, Step
<1>11. CASE ConnectFails
  BY <1>11 DEF ConnectFails, now, want, parts, bounds, Step
<1>12. CASE AfterConnect
  BY <1>12 DEF AfterConnect, now, want, parts, bounds, Step
<1>13. CASE SetState
  BY <1>13 DEF SetState, now, want, parts, bounds, HandleGracePeriod, Types
<1>14. CASE EndTransition
  BY <1>14 DEF EndTransition, now, want, parts, bounds, NoExec
<1>15. ASSUME NEW r \in Requests, NEW t \in Types, NEW how \in {"normal", "allowOnShutdown"},
            StartRequest(r, t, how)
     PROVE  GraceWillEnd'
  BY <1>15 DEF StartRequest, now, want, parts, bounds
<1>16. ASSUME NEW r \in Requests, EndRequest(r) PROVE GraceWillEnd'
  BY <1>16 DEF EndRequest, now, want, parts, bounds
<1>17. CASE GracePeriodEnds
  BY <1>17 DEF GracePeriodEnds, now, want, parts, bounds
<1>18. CASE Broadcast
  BY <1>18 DEF Broadcast, now, want, parts, bounds
<1>19. CASE UNCHANGED vars
  BY <1>19 DEF now, want, parts, bounds, vars
<1>. QED
  BY <1>1, <1>2, <1>3, <1>4, <1>5, <1>6, <1>7, <1>8, <1>9, <1>10, <1>11, <1>12, <1>13,
     <1>14, <1>15, <1>16, <1>17, <1>18, <1>19 DEF Next, Transition

(* A transition that is done has reached its target. *)
LEMMA DoneStep == IInv /\ [Next]_vars => DoneInv'
<1>. SUFFICES ASSUME IInv, [Next]_vars PROVE DoneInv'
  OBVIOUS
<1>. USE DEF IInv, TypeOK, ExecInv, TransitionIsWanted, DoneInv, Reached, Free
<1>1. ASSUME NEW c \in Callers, NEW t \in Types, NEW s \in States, 
            SetServingType(c, t, s)
     PROVE  DoneInv'
  BY <1>1 DEF SetServingType, now, want, parts, bounds
<1>2. ASSUME NEW c \in Callers, MustTransition(c) PROVE DoneInv'
  <2>1. PICK a \in [type : Types, state : States] : a = asked[c] /\ asked[c] # NoCall
    BY <1>2 DEF MustTransition, NoCall, Types, States
  <2>2. CASE a.type = type /\ a.state = state
    BY <1>2, <2>1, <2>2 DEF MustTransition, now, want, parts, bounds, NoCall, Types
  <2>3. CASE ~(a.type = type /\ a.state = state)
    BY <1>2, <2>1, <2>3, OpFacts DEF MustTransition, Start, now, want, parts, bounds, NoCall, Types
  <2>. QED BY <2>2, <2>3
<1>3. CASE RecheckState
  <2>1. CASE Reached
    BY <1>3, <2>1 DEF RecheckState, now, want, parts, bounds
  <2>2. CASE ~Reached
    <3>1. /\ Start("retry", wantType, wantState)
          /\ UNCHANGED <<retrying, want, now, asked, parts, running, dirty, bounds>>
      BY <1>3, <2>2 DEF RecheckState
    <3>. QED BY <2>2, <3>1, OpFacts DEF Start, now, want, parts, bounds
  <2>. QED BY <2>1, <2>2
<1>4. CASE CheckMySQL
  BY <1>4 DEF CheckMySQL, now, want, parts, bounds
<1>5. CASE UnserveCommon
  BY <1>5 DEF UnserveCommon, now, want, parts, bounds, Step
<1>6. CASE CloseTe
  BY <1>6 DEF CloseTe, now, want, parts, bounds, Step
<1>7. CASE WaitForRequests
  BY <1>7 DEF WaitForRequests, now, want, parts, bounds, Step
<1>8. CASE CloseRest
  BY <1>8 DEF CloseRest, now, want, parts, bounds, Step
<1>9. CASE BeginServe
  BY <1>9 DEF BeginServe, now, want, parts, bounds, Step
<1>10. CASE Connect
  BY <1>10 DEF Connect, now, want, parts, bounds, Step
<1>11. CASE ConnectFails
  BY <1>11 DEF ConnectFails, now, want, parts, bounds, Step
<1>12. CASE AfterConnect
  BY <1>12 DEF AfterConnect, now, want, parts, bounds, Step
<1>13. CASE SetState
  <2>1. NewState(Op(wantType, wantState)) = wantState
    BY OpFacts
  <2>. QED BY <1>13, <2>1 DEF SetState, Step, now, want, parts, bounds
<1>14. CASE EndTransition
  BY <1>14 DEF EndTransition, now, want, parts, bounds, NoExec
<1>15. ASSUME NEW r \in Requests, NEW t \in Types, NEW how \in {"normal", "allowOnShutdown"},
            StartRequest(r, t, how)
     PROVE  DoneInv'
  BY <1>15 DEF StartRequest, now, want, parts, bounds
<1>16. ASSUME NEW r \in Requests, EndRequest(r) PROVE DoneInv'
  BY <1>16 DEF EndRequest, now, want, parts, bounds
<1>17. CASE GracePeriodEnds
  BY <1>17 DEF GracePeriodEnds, now, want, parts, bounds
<1>18. CASE Broadcast
  BY <1>18 DEF Broadcast, now, want, parts, bounds
<1>19. CASE UNCHANGED vars
  BY <1>19 DEF now, want, parts, bounds, vars
<1>. QED
  BY <1>1, <1>2, <1>3, <1>4, <1>5, <1>6, <1>7, <1>8, <1>9, <1>10, <1>11, <1>12, <1>13,
     <1>14, <1>15, <1>16, <1>17, <1>18, <1>19 DEF Next, Transition

(* The target is not forgotten. *)
LEMMA ForgottenStep == IInv /\ [Next]_vars => NoForgottenTarget'
<1>. SUFFICES ASSUME IInv, [Next]_vars PROVE NoForgottenTarget'
  OBVIOUS
<1>. USE DEF IInv, TypeOK, ExecInv, DoneInv, NoForgottenTarget, Free, Reached
<1>1. ASSUME NEW c \in Callers, NEW t \in Types, NEW s \in States, 
            SetServingType(c, t, s)
     PROVE  NoForgottenTarget'
  BY <1>1 DEF SetServingType, now, want, parts, bounds
<1>2. ASSUME NEW c \in Callers, MustTransition(c) PROVE NoForgottenTarget'
  <2>1. PICK a \in [type : Types, state : States] : a = asked[c] /\ asked[c] # NoCall
    BY <1>2 DEF MustTransition, NoCall, Types, States
  <2>2. CASE a.type = type /\ a.state = state
    BY <1>2, <2>1, <2>2 DEF MustTransition, now, want, parts, bounds, NoCall, Types
  <2>3. CASE ~(a.type = type /\ a.state = state)
    BY <1>2, <2>1, <2>3, OpFacts DEF MustTransition, Start, now, want, parts, bounds, NoCall, Types
  <2>. QED BY <2>2, <2>3
<1>3. CASE RecheckState
  <2>1. CASE Reached
    BY <1>3, <2>1 DEF RecheckState, now, want, parts, bounds
  <2>2. CASE ~Reached
    <3>1. /\ Start("retry", wantType, wantState)
          /\ UNCHANGED <<retrying, want, now, asked, parts, running, dirty, bounds>>
      BY <1>3, <2>2 DEF RecheckState
    <3>. QED BY <2>2, <3>1, OpFacts DEF Start, now, want, parts, bounds
  <2>. QED BY <2>1, <2>2
<1>4. CASE CheckMySQL
  BY <1>4 DEF CheckMySQL, now, want, parts, bounds
<1>5. CASE UnserveCommon
  BY <1>5 DEF UnserveCommon, now, want, parts, bounds, Step
<1>6. CASE CloseTe
  BY <1>6 DEF CloseTe, now, want, parts, bounds, Step
<1>7. CASE WaitForRequests
  BY <1>7 DEF WaitForRequests, now, want, parts, bounds, Step
<1>8. CASE CloseRest
  BY <1>8 DEF CloseRest, now, want, parts, bounds, Step
<1>9. CASE BeginServe
  BY <1>9 DEF BeginServe, now, want, parts, bounds, Step
<1>10. CASE Connect
  BY <1>10 DEF Connect, now, want, parts, bounds, Step
<1>11. CASE ConnectFails
  BY <1>11 DEF ConnectFails, now, want, parts, bounds, Step
<1>12. CASE AfterConnect
  BY <1>12 DEF AfterConnect, now, want, parts, bounds, Step
<1>13. CASE SetState
  BY <1>13 DEF SetState, now, want, parts, bounds, Step
<1>14. CASE EndTransition
  BY <1>14 DEF EndTransition, now, want, parts, bounds, NoExec
<1>15. ASSUME NEW r \in Requests, NEW t \in Types, NEW how \in {"normal", "allowOnShutdown"},
            StartRequest(r, t, how)
     PROVE  NoForgottenTarget'
  BY <1>15 DEF StartRequest, now, want, parts, bounds
<1>16. ASSUME NEW r \in Requests, EndRequest(r) PROVE NoForgottenTarget'
  BY <1>16 DEF EndRequest, now, want, parts, bounds
<1>17. CASE GracePeriodEnds
  BY <1>17 DEF GracePeriodEnds, now, want, parts, bounds
<1>18. CASE Broadcast
  BY <1>18 DEF Broadcast, now, want, parts, bounds
<1>19. CASE UNCHANGED vars
  BY <1>19 DEF now, want, parts, bounds, vars
<1>. QED
  BY <1>1, <1>2, <1>3, <1>4, <1>5, <1>6, <1>7, <1>8, <1>9, <1>10, <1>11, <1>12, <1>13,
     <1>14, <1>15, <1>16, <1>17, <1>18, <1>19 DEF Next, Transition

(* Every step preserves the invariant. *)
LEMMA StepPreserves == IInv /\ [Next]_vars => IInv'
<1>. SUFFICES ASSUME IInv, [Next]_vars PROVE IInv'
  OBVIOUS
<1>. QED BY TypeStep, WantedStep, ExecStep, StepStep, PartsStep, QuietStep, NotServingStep, GraceStep,
            DoneStep, ForgottenStep DEF IInv

(* The invariant holds in every behaviour. *)
THEOREM Invariance == Spec => []IInv
<1>. QED BY InitInv, StepPreserves, PTL DEF Spec

(* Types are respected. *)
THEOREM TypeCorrect == Spec => []TypeOK
<1>1. IInv => TypeOK
  BY DEF IInv
<1>. QED BY Invariance, <1>1, PTL

(* The transition that runs is always the one that is wanted, although the *)
(* retry loop passes its target to a goroutine.                            *)
THEOREM WantedTransition == Spec => []TransitionIsWanted
<1>1. IInv => TransitionIsWanted
  BY DEF IInv
<1>. QED BY Invariance, <1>1, PTL

(* Any sequence of transitions, failed ones among them, that ends with one *)
(* that succeeds leaves the components of its state open and no others.    *)
THEOREM PartsMatch == Spec => []PartsMatchState
<1>1. IInv => PartsMatchState
  BY DEF IInv
<1>. QED BY Invariance, <1>1, PTL

(* A tablet that does not serve has no ordinary request left. *)
THEOREM NoRequestsLeft == Spec => []NotServingNoRequests
<1>1. IInv => NotServingNoRequests
  BY DEF IInv
<1>. QED BY Invariance, <1>1, PTL

(* The type that is also allowed will not stay so. *)
THEOREM GraceEnds == Spec => []GraceWillEnd
<1>1. IInv => GraceWillEnd
  BY DEF IInv
<1>. QED BY Invariance, <1>1, PTL

(* A tablet that is not where it was asked to be is on its way there. *)
THEOREM TargetRemembered == Spec => []NoForgottenTarget
<1>1. IInv => NoForgottenTarget
  BY DEF IInv
<1>. QED BY Invariance, <1>1, PTL
=============================================================================
