-------------------------- MODULE AgentRunsProofs --------------------------
(* Theorems about AgentRuns, for any number of calls and objects and, but  *)
(* where a theorem says otherwise, any entry points, provider and store.   *)
EXTENDS AgentRuns, TLAPS

-----------------------------------------------------------------------------
(* Type correctness.                                                       *)

\* The part of TypeOK about calls.
CallsOK ==
    /\ call \in [Calls -> CallStates]
    /\ \A c \in Calls : call[c].at \in Attached => call[c].on # None

\* finalizeForegroundTurn leaves a well-formed agent.
LEMMA FinalizedType ==
    ASSUME NEW a \in Agents
    PROVE  Finalized(a) \in Agents
BY DEF Finalized, HeldBusy, Agents, Lifecycles, CallSlot

\* finalizeForegroundTurn emits one of the statuses of a live agent.
LEMMA FinalizeIntoType ==
    ASSUME TypeOK, NEW s \in Sessions, NEW a \in Agents, FinalizeInto(s, a)
    PROVE  /\ agent' \in [Sessions -> Agents]
           /\ emitted' \in Lifecycles \cup {"closed", None}
<1>1. Finalized(a) \in Agents
  BY FinalizedType
<1>2. Finalized(a).life \in Lifecycles
  BY <1>1 DEF Agents
<1> QED
  BY <1>1, <1>2 DEF FinalizeInto, TypeOK

\* What a returned call leaves behind is well formed.
LEMMA FinishType ==
    ASSUME TypeOK, NEW c \in Calls, Finish(c)
    PROVE  CallsOK'
BY DEF TypeOK, CallsOK, Finish, Returned, NewCall, CallStates, Stages,
       CallSlot, Attached

\* Replacing the record of one call.
LEMMA CallUpdateType ==
    ASSUME TypeOK, NEW c \in Calls, NEW r \in CallStates,
           r.at \in Attached => r.on # None,
           call' = [call EXCEPT ![c] = r]
    PROVE  CallsOK'
BY DEF TypeOK, CallsOK

\* Writing a well-formed object back keeps all objects well formed.
LEMMA AgentUpdateType ==
    ASSUME TypeOK, NEW s \in Sessions, NEW a \in Agents
    PROVE  [agent EXCEPT ![s] = a] \in [Sessions -> Agents]
BY DEF TypeOK

\* Moving a call to another await leaves it well formed.
LEMMA GotoType ==
    ASSUME TypeOK, NEW c \in Calls, NEW stage \in Stages, Goto(c, stage),
           stage \in Attached => call[c].on # None
    PROVE  CallsOK'
BY DEF TypeOK, CallsOK, Goto, CallStates

\* The accepted half of streamAgent preserves types.
LEMMA StartRunType ==
    ASSUME TypeOK, NEW c \in Calls, NEW op \in EntryPoints, current # None,
           StartRun(c, op)
    PROVE  TypeOK'
<1>1. current \in Sessions
  BY DEF TypeOK
<1>2. agent' \in [Sessions -> Agents]
  <2> DEFINE a == [agent[current] EXCEPT !.replacing = FALSE, !.failed = FALSE]
  <2>1. a \in Agents
    BY <1>1 DEF TypeOK, Agents
  <2>2. agent' = [agent EXCEPT ![current] = a]
    BY <1>1 DEF TypeOK, StartRun
  <2> QED
    BY <1>1, <2>1, <2>2, AgentUpdateType
<1>3. CallsOK'
  <2>1. PICK stage \in {"startTurn", "startRefused"} :
           call' = [call EXCEPT ![c] = [NewCall(op, stage) EXCEPT !.on = current]]
    BY DEF StartRun
  <2> DEFINE r == [NewCall(op, stage) EXCEPT !.on = current]
  <2>2. r \in CallStates /\ r.on # None
    BY <1>1, <2>1, SessionsAssumption DEF NewCall, CallStates, Stages, CallSlot
  <2> QED
    BY <2>1, <2>2, CallUpdateType
<1>4. session' \in [Sessions -> Provider]
  <2> DEFINE p == [session[current] EXCEPT !.turn = c, !.announced = FALSE]
  <2>1. p \in Provider /\ session \in [Sessions -> Provider]
    BY <1>1 DEF TypeOK, Provider, CallSlot
  <2>2. session' = [session EXCEPT ![current] = p] \/ session' = session
    BY <1>1, <2>1 DEF StartRun
  <2> HIDE DEF p
  <2> QED
    BY <1>1, <2>1, <2>2
<1> QED
  BY <1>2, <1>3, <1>4 DEF TypeOK, CallsOK, StartRun, CallSlot

\* What cancelAgentRun snapshots is well formed.
LEMMA BeginCancelType ==
    ASSUME TypeOK, NEW c \in Calls, NEW op \in EntryPoints, current # None,
           BeginCancel(c, op)
    PROVE  CallsOK'
<1>1. current \in Sessions
  BY DEF TypeOK
<1>2. agent[current].turn \in CallSlot
  BY <1>1 DEF TypeOK, Agents
<1> QED
  BY <1>1, <1>2, SessionsAssumption
     DEF TypeOK, CallsOK, BeginCancel, NewCall, CallStates, Stages, CallSlot

\* How cancelAgentRun returns is well formed.
LEMMA CancelReturnsType ==
    ASSUME TypeOK, NEW c \in Calls, CancelReturns(c)
    PROVE  CallsOK'
<1>1. CASE call[c].op = "cancel"
  <2>1. Finish(c)
    BY <1>1 DEF CancelReturns
  <2> QED
    BY <2>1, FinishType
<1>2. CASE call[c].op # "cancel"
  BY <1>2 DEF TypeOK, CallsOK, CancelReturns, CallStates, Stages, CallSlot,
              Attached
<1> QED
  BY <1>1, <1>2

\* So is the status it may emit.
LEMMA CancelReturnsEmits ==
    ASSUME TypeOK, NEW c \in Calls, CancelReturns(c), call[c].at \in Attached
    PROVE  emitted' \in Lifecycles \cup {"closed", None}
<1>1. call[c].on \in Sessions
  BY DEF TypeOK, CallStates
<1> QED
  BY <1>1 DEF CancelReturns, TypeOK, Agents

\* What reloadAgentSession and resumeAgentFromPersistence capture.
LEMMA BeginResumingType ==
    ASSUME TypeOK, NEW c \in Calls, NEW op \in EntryPoints,
           NEW s \in Sessions \cup {None}, BeginResuming(c, op, s)
    PROVE  CallsOK'
<1>1. (IF s = None THEN FALSE ELSE agent[s].failed) \in BOOLEAN
  BY DEF TypeOK, Agents
<1> QED
  BY <1>1 DEF TypeOK, CallsOK, BeginResuming, NewCall, CallStates, Stages,
              CallSlot, Attached

\* Telling a forwarder that its turn is over.
LEMMA NotifiedType ==
    ASSUME TypeOK, NEW turn, NEW wanted
    PROVE  Notified(turn, wanted)
             \in [Calls -> {"none", "live", "settled", "notified"}]
BY DEF TypeOK, Notified

\* streamAgent, its answer from the provider and its forwarder's end
\* preserve types.
LEMMA RunStepType ==
    ASSUME TypeOK, NEW c \in Calls,
           \/ StreamAgent(c)       \/ StartTurnResolves(c)
           \/ StartTurnRejects(c)  \/ ForwarderEnds(c)
    PROVE  TypeOK'
<1>1. CASE StreamAgent(c)
  BY <1>1, StartRunType DEF StreamAgent, EntryPoints
<1>2. CASE StartTurnResolves(c)
  <2>1. call[c].on \in Sessions
    BY <1>2 DEF StartTurnResolves, TypeOK, Attached, CallStates
  <2>2. agent' \in [Sessions -> Agents]
    <3>1. agent[call[c].on] \in Agents /\ agent \in [Sessions -> Agents]
      BY <2>1 DEF TypeOK
    <3>2. [agent[call[c].on] EXCEPT !.turn = c, !.life = "running"] \in Agents
      BY <3>1 DEF Agents, Lifecycles, CallSlot
    <3>3. agent' = [agent EXCEPT ![call[c].on] =
                      [agent[call[c].on] EXCEPT !.turn = c, !.life = "running"]]
      BY <1>2, <2>1, <3>1 DEF StartTurnResolves
    <3> QED
      BY <3>1, <3>2, <3>3
  <2>3. CallsOK'
    BY <1>2, <2>1, SessionsAssumption, GotoType DEF StartTurnResolves, Stages
  <2> QED
    BY <1>2, <2>2, <2>3 DEF StartTurnResolves, TypeOK, CallsOK, Lifecycles
<1>3. CASE StartTurnRejects(c)
  <2> DEFINE s == call[c].on
             a == [agent[s] EXCEPT !.life = "error", !.failed = TRUE]
  <2>1. s \in Sessions
    BY <1>3 DEF StartTurnRejects, TypeOK, Attached, CallStates
  <2>2. a \in Agents
    <3>1. agent[s] \in Agents
      BY <2>1 DEF TypeOK
    <3> QED
      BY <3>1 DEF Agents, Lifecycles
  <2>3. FinalizeInto(s, a)
    BY <1>3 DEF StartTurnRejects
  <2>4. /\ agent' \in [Sessions -> Agents]
        /\ emitted' \in Lifecycles \cup {"closed", None}
    BY <2>1, <2>2, <2>3, FinalizeIntoType
  <2>5. CallsOK'
    BY <1>3, FinishType, GotoType DEF StartTurnRejects, Stages, Attached
  <2>6. session' \in [Sessions -> Provider]
    <3> DEFINE p == [session[s] EXCEPT !.turn = None,
                                       !.autonomous = @ \/ session[s].announced]
    <3>1. p \in Provider /\ session \in [Sessions -> Provider]
      <4>1. session \in [Sessions -> Provider] /\ session[s] \in Provider
        BY <2>1 DEF TypeOK
      <4>2. (session[s].autonomous \/ session[s].announced) \in BOOLEAN
        OBVIOUS
      <4> QED
        BY <4>1, <4>2 DEF Provider, CallSlot
    <3>2. session' = [session EXCEPT ![s] = p] \/ session' = session
      BY <1>3, <2>1, <3>1 DEF StartTurnRejects
    <3> HIDE DEF p
    <3> QED
      BY <2>1, <3>1, <3>2
  <2> QED
    BY <1>3, <2>1, <2>4, <2>5, <2>6 DEF StartTurnRejects, TypeOK, CallsOK
<1>4. CASE ForwarderEnds(c)
  <2>1. CallsOK'
    BY <1>4, FinishType DEF ForwarderEnds
  <2> QED
    BY <1>4, <2>1 DEF ForwarderEnds, TypeOK, CallsOK, CallSlot
<1> QED
  BY <1>1, <1>2, <1>3, <1>4

\* cancelAgentRun and replaceAgentRun preserve types at every await.
LEMMA CancelStepType ==
    ASSUME TypeOK, NEW c \in Calls,
           \/ CancelAgentRun(c)    \/ ReplaceAgentRun(c)
           \/ CancelObserved(c)    \/ CancelForced(c)   \/ StaleRunSettled(c)
           \/ ReplacementStarts(c) \/ ReplacementFails(c)
    PROVE  TypeOK'
<1>1. CASE CancelAgentRun(c)
  <2>1. CallsOK'
    BY <1>1, BeginCancelType DEF CancelAgentRun, HasInFlightRun, EntryPoints
  <2> QED
    BY <1>1, <2>1 DEF CancelAgentRun, TypeOK, CallsOK
<1>2. CASE ReplaceAgentRun(c)
  <2>1. CASE ~HasInFlightRun
    BY <1>2, <2>1, StartRunType DEF ReplaceAgentRun, EntryPoints
  <2>2. CASE HasInFlightRun
    <3>1. CallsOK'
      BY <1>2, <2>2, BeginCancelType DEF ReplaceAgentRun, EntryPoints
    <3>2. agent' \in [Sessions -> Agents]
      <4> DEFINE a == [agent[current] EXCEPT !.replacing = TRUE]
      <4>1. current \in Sessions /\ a \in Agents
        BY <1>2 DEF ReplaceAgentRun, TypeOK, Agents
      <4>2. agent' = [agent EXCEPT ![current] = a]
        BY <1>2, <2>2, <4>1 DEF ReplaceAgentRun, TypeOK
      <4> QED
        BY <4>1, <4>2, AgentUpdateType
    <3> QED
      BY <1>2, <2>2, <3>1, <3>2 DEF ReplaceAgentRun, TypeOK, CallsOK
  <2> QED
    BY <2>1, <2>2
<1>3. CASE CancelObserved(c)
  <2>1. CallsOK' /\ emitted' \in Lifecycles \cup {"closed", None}
    BY <1>3, CancelReturnsType, CancelReturnsEmits DEF CancelObserved, Attached
  <2> QED
    BY <1>3, <2>1 DEF CancelObserved, TypeOK, CallsOK
<1>4. CASE CancelForced(c)
  <2> DEFINE s == call[c].on
             a == [agent[s] EXCEPT !.failed = FALSE]
  <2>1. s \in Sessions
    BY <1>4 DEF CancelForced, TypeOK, Attached, CallStates
  <2>2. a \in Agents /\ FinalizeInto(s, a)
    <3>1. agent[s] \in Agents
      BY <2>1 DEF TypeOK
    <3>2. a \in Agents
      BY <3>1 DEF Agents
    <3> QED
      BY <1>4, <3>2 DEF CancelForced
  <2>3. /\ agent' \in [Sessions -> Agents]
        /\ emitted' \in Lifecycles \cup {"closed", None}
    BY <2>1, <2>2, FinalizeIntoType
  <2>4. CallsOK'
    <3>1. call' = [call EXCEPT ![c].at = "awaitStale", ![c].run = pendingRun]
      BY <1>4 DEF CancelForced
    <3>2. call[c] \in CallStates /\ pendingRun \in CallSlot
      BY DEF TypeOK
    <3> DEFINE r == [call[c] EXCEPT !.at = "awaitStale", !.run = pendingRun]
    <3>3. r \in CallStates /\ r.on # None
      BY <3>2, <2>1, SessionsAssumption DEF CallStates, Stages
    <3>4. call' = [call EXCEPT ![c] = r]
      BY <3>1
    <3> HIDE DEF r
    <3> QED
      BY <3>3, <3>4, CallUpdateType
  <2>5. waiter' \in [Calls -> {"none", "live", "settled", "notified"}]
    BY <1>4, NotifiedType DEF CancelForced
  <2> QED
    BY <1>4, <2>3, <2>4, <2>5 DEF CancelForced, TypeOK, CallsOK
<1>5. CASE StaleRunSettled(c)
  <2>1. CallsOK' /\ emitted' \in Lifecycles \cup {"closed", None}
    BY <1>5, CancelReturnsType, CancelReturnsEmits DEF StaleRunSettled, Attached
  <2> QED
    BY <1>5, <2>1 DEF StaleRunSettled, TypeOK, CallsOK
<1>6. CASE ReplacementStarts(c)
  BY <1>6, StartRunType DEF ReplacementStarts, EntryPoints
<1>7. CASE ReplacementFails(c)
  <2>1. CallsOK'
    BY <1>7, FinishType DEF ReplacementFails
  <2>2. CASE current = None
    BY <1>7, <2>1, <2>2 DEF ReplacementFails, TypeOK, CallsOK
  <2>3. CASE current # None
    <3> DEFINE a == [agent[current] EXCEPT !.replacing = FALSE]
               b == IF a.turn = None /\ a.life = "running"
                    THEN [a EXCEPT !.life = "idle"] ELSE a
    <3>1. agent' \in [Sessions -> Agents]
      <4>1. current \in Sessions /\ agent[current] \in Agents
        BY <2>3 DEF TypeOK
      <4>2. a \in Agents
        BY <4>1 DEF Agents
      <4>3. [a EXCEPT !.life = "idle"] \in Agents
        BY <4>2 DEF Agents, Lifecycles
      <4>4. agent' = [agent EXCEPT ![current] = b]
        BY <1>7, <2>3 DEF ReplacementFails
      <4> QED
        BY <4>1, <4>2, <4>3, <4>4 DEF TypeOK
    <3>2. emitted' \in Lifecycles \cup {"closed", None}
      BY <1>7, <2>3 DEF ReplacementFails, TypeOK, Lifecycles
    <3> QED
      BY <1>7, <2>1, <3>1, <3>2 DEF ReplacementFails, TypeOK, CallsOK
  <2> QED
    BY <2>2, <2>3
<1> QED
  BY <1>1, <1>2, <1>3, <1>4, <1>5, <1>6, <1>7

\* closeAgent preserves types.
LEMMA CloseStepType ==
    ASSUME TypeOK, NEW c \in Calls, CloseAgent(c) \/ CloseReturns(c)
    PROVE  TypeOK'
<1>1. CASE CloseAgent(c)
  <2>1. current \in Sessions
    BY <1>1 DEF CloseAgent, TypeOK
  <2>2. CallsOK'
    BY <1>1 DEF CloseAgent, TypeOK, CallsOK, NewCall, CallStates, Stages,
                CallSlot, Attached, EntryPoints
  <2>3. session' \in [Sessions -> Provider]
    BY <1>1, <2>1 DEF CloseAgent, TypeOK, Silent, Provider, CallSlot
  <2>4. waiter' \in [Calls -> {"none", "live", "settled", "notified"}]
    BY <1>1 DEF CloseAgent, TypeOK
  <2> QED
    BY <1>1, <2>2, <2>3, <2>4 DEF CloseAgent, TypeOK, CallsOK, CallSlot
<1>2. CASE CloseReturns(c)
  <2>1. CallsOK'
    BY <1>2, FinishType DEF CloseReturns
  <2> QED
    BY <1>2, <2>1 DEF CloseReturns, TypeOK, CallsOK
<1> QED
  BY <1>1, <1>2

\* reloadAgentSession and resumeAgentFromPersistence preserve types up to
\* registerSession.
LEMMA ResumeStepType ==
    ASSUME TypeOK, NEW c \in Calls,
           \/ ReloadAgentSession(c) \/ ReloadContinues(c) \/ ResumeAgent(c)
           \/ SessionResumed(c)     \/ ResumeFails(c)
           \/ OldSessionClosed(c)
    PROVE  TypeOK'
<1>1. CASE ReloadAgentSession(c)
  <2>1. CallsOK'
    BY <1>1, BeginCancelType, BeginResumingType
       DEF ReloadAgentSession, EntryPoints, TypeOK
  <2> QED
    BY <1>1, <2>1 DEF ReloadAgentSession, TypeOK, CallsOK
<1>2. CASE ReloadContinues(c)
  <2>1. CallsOK'
    BY <1>2, FinishType, BeginResumingType
       DEF ReloadContinues, EntryPoints, TypeOK
  <2> QED
    BY <1>2, <2>1 DEF ReloadContinues, TypeOK, CallsOK
<1>3. CASE ResumeAgent(c)
  <2>1. CallsOK'
    BY <1>3, BeginResumingType DEF ResumeAgent, EntryPoints
  <2> QED
    BY <1>3, <2>1 DEF ResumeAgent, TypeOK, CallsOK
<1>4. CASE SessionResumed(c)
  <2>1. CASE call[c].on = None
    <3>1. CallsOK'
      BY <1>4, <2>1, GotoType DEF SessionResumed, Stages, Attached
    <3> QED
      BY <1>4, <2>1, <3>1 DEF SessionResumed, TypeOK, CallsOK
  <2>2. CASE call[c].on # None
    <3>1. call[c].on \in Sessions
      BY <2>2 DEF TypeOK, CallStates
    <3>2. CallsOK'
      <4>1. call' = [call EXCEPT ![c].at = "closingOld", ![c].on = None]
        BY <1>4, <2>2 DEF SessionResumed
      <4> DEFINE r == [call[c] EXCEPT !.at = "closingOld", !.on = None]
      <4>2. call[c] \in CallStates
        BY DEF TypeOK
      <4>3. r \in CallStates /\ r.at \notin Attached
        BY <4>2 DEF CallStates, Stages, Attached
      <4> QED
        BY <4>1, <4>3, CallUpdateType
    <3>3. session' \in [Sessions -> Provider]
      <4>1. session' = [session EXCEPT ![call[c].on] = Silent]
        BY <1>4, <2>2 DEF SessionResumed
      <4>2. Silent \in Provider
        BY DEF Silent, Provider, CallSlot
      <4> QED
        BY <4>1, <4>2 DEF TypeOK
    <3>4. waiter' \in [Calls -> {"none", "live", "settled", "notified"}]
      BY <1>4, <2>2 DEF SessionResumed, TypeOK
    <3> QED
      BY <1>4, <2>2, <3>2, <3>3, <3>4
         DEF SessionResumed, TypeOK, CallsOK, CallSlot
  <2> QED
    BY <2>1, <2>2
<1>5. CASE ResumeFails(c)
  <2>1. CallsOK'
    BY <1>5, FinishType DEF ResumeFails
  <2> QED
    BY <1>5, <2>1 DEF ResumeFails, TypeOK, CallsOK
<1>6. CASE OldSessionClosed(c)
  <2>1. CallsOK'
    BY <1>6, GotoType DEF OldSessionClosed, Stages, Attached
  <2> QED
    BY <1>6, <2>1 DEF OldSessionClosed, TypeOK, CallsOK
<1> QED
  BY <1>1, <1>2, <1>3, <1>4, <1>5, <1>6

\* registerSession preserves types.
LEMMA RegisterStepType ==
    ASSUME TypeOK, NEW c \in Calls,
           \/ \E s \in Sessions : Register(c, s)
           \/ RegistrationEmits(c) \/ RegistrationSettles(c)
           \/ RegistrationEnds(c)
    PROVE  TypeOK'
<1>1. CASE \E s \in Sessions : Register(c, s)
  <2>1. PICK s \in Sessions : Register(c, s)
    BY <1>1
  <2>2. call[c].failed \in BOOLEAN
    BY DEF TypeOK, CallStates
  <2>3. agent' \in [Sessions -> Agents]
    BY <2>1, <2>2 DEF Register, TypeOK, Agents, Lifecycles, CallSlot
  <2>4. session' \in [Sessions -> Provider]
    BY <2>1 DEF Register, TypeOK, Silent, Provider, CallSlot
  <2>5. CallsOK'
    <3>1. call' = [call EXCEPT ![c].at = "registered", ![c].on = s]
      BY <2>1 DEF Register
    <3> DEFINE r == [call[c] EXCEPT !.at = "registered", !.on = s]
    <3>2. call[c] \in CallStates
      BY DEF TypeOK
    <3>3. r \in CallStates /\ r.on # None
      BY <3>2, SessionsAssumption DEF CallStates, Stages
    <3>4. call' = [call EXCEPT ![c] = r]
      BY <3>1
    <3> HIDE DEF r
    <3> QED
      BY <3>3, <3>4, CallUpdateType
  <2> QED
    BY <2>1, <2>3, <2>4, <2>5 DEF Register, TypeOK, CallsOK, Lifecycles
<1>2. CASE RegistrationEmits(c)
  <2>1. call[c].on \in Sessions
    BY <1>2 DEF RegistrationEmits, TypeOK, Attached, CallStates
  <2>2. CallsOK'
    BY <1>2, <2>1, SessionsAssumption, GotoType DEF RegistrationEmits, Stages
  <2> QED
    <3>1. agent[call[c].on].life \in Lifecycles
      BY <2>1 DEF TypeOK, Agents
    <3> QED
      BY <1>2, <2>2, <3>1 DEF RegistrationEmits, TypeOK, CallsOK
<1>3. CASE RegistrationSettles(c)
  <2>1. call[c].on \in Sessions
    BY <1>3 DEF RegistrationSettles, TypeOK, Attached, CallStates
  <2>2. CallsOK'
    BY <1>3, <2>1, SessionsAssumption, GotoType
       DEF RegistrationSettles, Stages
  <2>3. agent' \in [Sessions -> Agents]
    <3> DEFINE a == [agent[call[c].on] EXCEPT !.life = "idle"]
    <3>1. a \in Agents
      <4>1. agent[call[c].on] \in Agents
        BY <2>1 DEF TypeOK
      <4> QED
        BY <4>1 DEF Agents, Lifecycles
    <3>2. agent' = [agent EXCEPT ![call[c].on] = a]
      BY <1>3, <2>1 DEF RegistrationSettles, TypeOK
    <3> QED
      BY <2>1, <3>1, <3>2, AgentUpdateType
  <2> QED
    BY <1>3, <2>2, <2>3 DEF RegistrationSettles, TypeOK, CallsOK
<1>4. CASE RegistrationEnds(c)
  <2>1. call[c].on \in Sessions
    BY <1>4 DEF RegistrationEnds, TypeOK, Attached, CallStates
  <2>2. CallsOK'
    BY <1>4, FinishType DEF RegistrationEnds
  <2>3. session' \in [Sessions -> Provider]
    BY <1>4, <2>1 DEF RegistrationEnds, TypeOK, Provider
  <2> QED
    BY <1>4, <2>1, <2>2, <2>3 DEF RegistrationEnds, TypeOK, CallsOK, Agents
<1> QED
  BY <1>1, <1>2, <1>3, <1>4

\* Handling the first event of the tail preserves types.
LEMMA EventStepType ==
    ASSUME TypeOK, HandleEvents
    PROVE  TypeOK'
<1> DEFINE e == Head(tail)
<1>1. ASSUME NextEvent
      PROVE  tail' \in Seq(Events) /\ e \in Events
  BY <1>1 DEF NextEvent, TypeOK
<1>2. ASSUME current # None
      PROVE  current \in Sessions /\ agent[current] \in Agents
  BY <1>2 DEF TypeOK
<1>3. ASSUME current # None
      PROVE  WithFailure(e) \in Agents
  BY <1>2, <1>3 DEF WithFailure, Agents, Lifecycles
<1>4. CASE DropEvent
  BY <1>4, <1>1 DEF DropEvent, TypeOK
<1>5. CASE HandleTurnStarted
  <2>1. current # None /\ NextEvent
    BY <1>5 DEF HandleTurnStarted
  <2>2. agent' \in [Sessions -> Agents]
    <3>1. [agent[current] EXCEPT !.life = "running"] \in Agents
      BY <1>2, <2>1 DEF Agents, Lifecycles
    <3> QED
      BY <1>5, <1>2, <2>1, <3>1 DEF HandleTurnStarted, TypeOK
  <2> QED
    BY <1>5, <1>1, <2>1, <2>2 DEF HandleTurnStarted, TypeOK, Lifecycles
<1>6. CASE HandleTurnOver
  <2> DEFINE a == [agent[current] EXCEPT !.failed = FALSE]
             rests == IF a.replacing THEN a ELSE [a EXCEPT !.life = "idle"]
  <2>1. current # None /\ NextEvent
    BY <1>6 DEF HandleTurnOver
  <2>2. a \in Agents
    BY <1>2, <2>1 DEF Agents
  <2>3. rests \in Agents
    BY <2>2 DEF Agents, Lifecycles
  <2>4. rests.life \in Lifecycles
    BY <2>3 DEF Agents
  <2>5. /\ agent' \in [Sessions -> Agents]
        /\ emitted' \in Lifecycles \cup {"closed", None}
    <3>1. CASE Foreground(e)
      <4>1. FinalizeInto(current, a)
        BY <1>6, <3>1 DEF HandleTurnOver
      <4> QED
        BY <4>1, <1>2, <2>1, <2>2, FinalizeIntoType
    <3>2. CASE ~Foreground(e)
      <4>1. /\ agent' = [agent EXCEPT ![current] = rests]
            /\ emitted' = emitted \/ emitted' = rests.life
        BY <1>6, <3>2 DEF HandleTurnOver
      <4> QED
        BY <4>1, <1>2, <2>1, <2>3, <2>4 DEF TypeOK
    <3> QED
      BY <3>1, <3>2
  <2>6. waiter' \in [Calls -> {"none", "live", "settled", "notified"}]
    BY <1>6, NotifiedType DEF HandleTurnOver
  <2> QED
    BY <1>6, <1>1, <2>1, <2>5, <2>6 DEF HandleTurnOver, TypeOK
<1>7. CASE HandleTurnFailed
  <2>1. current # None /\ NextEvent
    BY <1>7 DEF HandleTurnFailed, HandlesFailure
  <2>2. agent' \in [Sessions -> Agents]
    BY <1>7, <1>2, <1>3, <2>1 DEF HandleTurnFailed, TypeOK
  <2>3. handling' \in Suspends \cup {None}
    <3>1. e.turn \in CallSlot
      BY <1>1, <2>1 DEF Events
    <3>2. Foreground(e) \in BOOLEAN /\ WaitsOn(current, e.turn) \in BOOLEAN
      BY DEF Foreground, WaitsOn
    <3>3. handling' = [on |-> current, turn |-> e.turn,
                       foreground |-> Foreground(e),
                       notify |-> WaitsOn(current, e.turn)]
      BY <1>7 DEF HandleTurnFailed
    <3> HIDE DEF e
    <3> QED
      BY <1>2, <2>1, <3>1, <3>2, <3>3 DEF Suspends
  <2> QED
    BY <1>7, <1>1, <2>1, <2>2, <2>3 DEF HandleTurnFailed, TypeOK
<1>8. CASE TurnFailedResumes
  <2>1. handling \in Suspends
    BY <1>8 DEF TurnFailedResumes, TypeOK
  <2>2. handling.on \in Sessions /\ agent[handling.on] \in Agents
    BY <2>1 DEF Suspends, TypeOK
  <2>3. /\ agent' \in [Sessions -> Agents]
        /\ emitted' \in Lifecycles \cup {"closed", None}
    <3>1. CASE handling.foreground
      BY <1>8, <2>2, <3>1, FinalizeIntoType DEF TurnFailedResumes
    <3>2. CASE ~handling.foreground
      BY <1>8, <2>2, <3>2 DEF TurnFailedResumes, TypeOK, Agents
    <3> QED
      BY <3>1, <3>2
  <2>4. waiter' \in [Calls -> {"none", "live", "settled", "notified"}]
    BY <1>8, NotifiedType DEF TurnFailedResumes
  <2> QED
    BY <1>8, <2>3, <2>4 DEF TurnFailedResumes, TypeOK
<1>9. CASE HandleTurnFailedAtOnce
  <2>1. current # None /\ NextEvent
    BY <1>9 DEF HandleTurnFailedAtOnce, HandlesFailure
  <2>2. /\ agent' \in [Sessions -> Agents]
        /\ emitted' \in Lifecycles \cup {"closed", None}
    <3>1. CASE Foreground(e)
      BY <1>9, <1>2, <1>3, <2>1, <3>1, FinalizeIntoType
         DEF HandleTurnFailedAtOnce
    <3>2. CASE ~Foreground(e)
      <4>1. WithFailure(e).life \in Lifecycles
        BY <1>3, <2>1 DEF Agents
      <4> QED
        BY <1>9, <1>2, <1>3, <2>1, <3>2, <4>1
           DEF HandleTurnFailedAtOnce, TypeOK
    <3> QED
      BY <3>1, <3>2
  <2>3. waiter' \in [Calls -> {"none", "live", "settled", "notified"}]
    BY <1>9, NotifiedType DEF HandleTurnFailedAtOnce
  <2> QED
    BY <1>9, <1>1, <2>1, <2>2, <2>3 DEF HandleTurnFailedAtOnce, TypeOK
<1> QED
  BY <1>4, <1>5, <1>6, <1>7, <1>8, <1>9 DEF HandleEvents

\* What a provider does preserves types.
LEMMA ProviderStepType ==
    ASSUME TypeOK, NEW s \in Sessions, ProviderActs(s)
    PROVE  TypeOK'
<1>1. session[s] \in Provider
  BY DEF TypeOK
<1>2. ASSUME NEW type \in Terminals \cup {"turn_started"},
             NEW turn \in CallSlot, Emits(s, type, turn)
      PROVE  tail' \in Seq(Events)
  <2>1. [type |-> type, turn |-> turn] \in Events
    BY DEF Events
  <2> QED
    BY <1>2, <2>1 DEF Emits, TypeOK
<1>3. CASE ProviderStartsTurn(s)
  <2>1. tail' \in Seq(Events)
    BY <1>1, <1>2, <1>3 DEF ProviderStartsTurn, Provider
  <2> QED
    BY <1>1, <1>3, <2>1 DEF ProviderStartsTurn, TypeOK, Provider
<1>4. CASE ProviderRunsAutonomously(s)
  <2>1. tail' \in Seq(Events)
    BY <1>2, <1>4 DEF ProviderRunsAutonomously, CallSlot
  <2> QED
    BY <1>1, <1>4, <2>1 DEF ProviderRunsAutonomously, TypeOK, Provider
<1>5. ASSUME NEW type \in Terminals, ProviderEndsTurn(s, type)
      PROVE  TypeOK'
  <2>1. tail' \in Seq(Events)
    BY <1>1, <1>2, <1>5 DEF ProviderEndsTurn, Provider
  <2> QED
    BY <1>1, <1>5, <2>1 DEF ProviderEndsTurn, TypeOK, Provider, CallSlot
<1>6. ASSUME NEW type \in Terminals, ProviderEndsAutonomously(s, type)
      PROVE  TypeOK'
  <2>1. tail' \in Seq(Events)
    BY <1>2, <1>6 DEF ProviderEndsAutonomously, CallSlot
  <2> QED
    BY <1>1, <1>6, <2>1 DEF ProviderEndsAutonomously, TypeOK, Provider
<1> QED
  BY <1>3, <1>4, <1>5, <1>6 DEF ProviderActs

\* Every step preserves types.
LEMMA TypeStep == TypeOK /\ [Next]_vars => TypeOK'
<1> SUFFICES ASSUME TypeOK, [Next]_vars
             PROVE  TypeOK'
  OBVIOUS
<1>1. ASSUME NEW c \in Calls, Request(c)
      PROVE  TypeOK'
  BY <1>1, RunStepType, CancelStepType, CloseStepType, ResumeStepType
     DEF Request
<1>2. ASSUME NEW c \in Calls, Continue(c)
      PROVE  TypeOK'
  BY <1>2, RunStepType, CancelStepType, CloseStepType, ResumeStepType,
     RegisterStepType DEF Continue
<1>3. ASSUME NEW s \in Sessions, FailedStartEmits(s)
      PROVE  TypeOK'
  BY <1>3 DEF FailedStartEmits, TypeOK, Agents
<1>4. ASSUME NEW s \in Sessions, ProviderActs(s)
      PROVE  TypeOK'
  BY <1>4, ProviderStepType
<1>5. CASE HandleEvents
  BY <1>5, EventStepType
<1>6. CASE EmitState
  BY <1>6 DEF EmitState, TypeOK, Agents
<1>7. CASE UNCHANGED vars
  BY <1>7 DEF vars, TypeOK
<1> QED
  BY <1>1, <1>2, <1>3, <1>4, <1>5, <1>6, <1>7 DEF Next

\* The agent the calls find is well formed.
LEMMA TypeInit == Init => TypeOK
<1> SUFFICES ASSUME NEW s \in Sessions,
                    current = s,
                    agent = [t \in Sessions |->
                               [life |-> "idle", turn |-> None,
                                replacing |-> FALSE, failed |-> FALSE]],
                    pendingRun = None, emitted = "idle",
                    call = [c \in Calls |-> Returned],
                    waiter = [c \in Calls |-> "none"],
                    tail = <<>>, handling = None, owed = {},
                    session = [t \in Sessions |->
                                 [Silent EXCEPT !.subscribed = (t = s)]]
             PROVE  TypeOK
  BY DEF Init
<1>1. agent \in [Sessions -> Agents]
  BY DEF Agents, Lifecycles, CallSlot
<1>2. call \in [Calls -> CallStates]
  BY DEF Returned, NewCall, CallStates, Stages, CallSlot
<1>3. \A c \in Calls : call[c].at \notin Attached
  BY DEF Returned, NewCall, Attached
<1>4. session \in [Sessions -> Provider]
  BY DEF Silent, Provider, CallSlot
<1>5. /\ current \in Sessions \cup {None}
      /\ pendingRun \in CallSlot
      /\ emitted \in Lifecycles \cup {"closed", None}
      /\ waiter \in [Calls -> {"none", "live", "settled", "notified"}]
      /\ tail \in Seq(Events)
      /\ handling \in Suspends \cup {None}
      /\ owed \subseteq Sessions
  BY DEF CallSlot, Lifecycles
<1> QED
  BY <1>1, <1>2, <1>3, <1>4, <1>5 DEF TypeOK

\* Type correctness: whatever calls, continuations and provider events
\* interleave, the fields of AgentManager keep the shapes TypeOK states; in
\* particular the continuations of streamAgent, cancelAgentRun and
\* registerSession always have the object they go on with.
THEOREM TypeCorrect == Spec => []TypeOK
<1> QED
  BY TypeInit, TypeStep, PTL DEF Spec

-----------------------------------------------------------------------------
(* One foreground run.  OneForegroundRun is inductive given TypeOK: a run  *)
(* starts only when no pending run is registered, and then nobody occupies *)
(* the agent; an object is registered only when no call can reach it.      *)

\* A step changes the record of no other call, and leaves its own call
\* neither starting nor streaming.
Withdraws(c) ==
    /\ \A d \in Calls : d # c => call'[d] = call[d]
    /\ call'[c].at \notin {"startTurn", "startRefused", "streaming"}

\* Returning, and going on to any other await, withdraws.
LEMMA FinishWithdraws ==
    ASSUME TypeOK, NEW c \in Calls, Finish(c)
    PROVE  Withdraws(c)
BY DEF TypeOK, Finish, Returned, NewCall, Withdraws

\* A call that goes on to another await withdraws.
LEMMA GotoWithdraws ==
    ASSUME TypeOK, NEW c \in Calls,
           NEW stage \in Stages \ {"startTurn", "startRefused", "streaming"},
           Goto(c, stage)
    PROVE  Withdraws(c)
BY DEF TypeOK, Goto, CallStates, Withdraws

\* Entering cancelAgentRun withdraws.
LEMMA BeginCancelWithdraws ==
    ASSUME TypeOK, NEW c \in Calls, NEW op, BeginCancel(c, op)
    PROVE  Withdraws(c)
BY DEF TypeOK, BeginCancel, NewCall, Withdraws

\* Returning from cancelAgentRun withdraws.
LEMMA CancelReturnsWithdraws ==
    ASSUME TypeOK, NEW c \in Calls, CancelReturns(c)
    PROVE  Withdraws(c)
BY FinishWithdraws DEF TypeOK, CancelReturns, CallStates, Withdraws

\* Entering resumeAgentFromPersistence withdraws.
LEMMA BeginResumingWithdraws ==
    ASSUME TypeOK, NEW c \in Calls, NEW op, NEW s, BeginResuming(c, op, s)
    PROVE  Withdraws(c)
BY DEF TypeOK, BeginResuming, NewCall, Withdraws

\* A step in which one call withdraws keeps the agent to one run, unless it
\* touches the pending run or registers another object.
LEMMA WithdrawingKeepsOneRun ==
    ASSUME OneForegroundRun, NEW c \in Calls, Withdraws(c),
           \/ current' = None
           \/ current' = current /\ pendingRun' = pendingRun
           \/ current' = current /\ pendingRun = c
    PROVE  OneForegroundRun'
BY DEF OneForegroundRun, Withdraws, Occupies, Starting

\* An accepted streamAgent finds nobody starting or streaming.
LEMMA StartRunKeepsOneRun ==
    ASSUME TypeOK, OneForegroundRun, NEW c \in Calls, NEW op, current # None,
           pendingRun = None, StartRun(c, op)
    PROVE  OneForegroundRun'
<1>1. \A d \in Calls : ~(Occupies(d) /\ call[d].on = current)
  BY CallsAssumption DEF OneForegroundRun
<1>2. /\ \A d \in Calls : d # c => call'[d] = call[d]
      /\ pendingRun' = c /\ current' = current
  BY DEF StartRun, TypeOK
<1> QED
  BY <1>1, <1>2 DEF OneForegroundRun, Occupies, Starting

\* A request keeps the agent to one run.
LEMMA RequestKeepsOneRun ==
    ASSUME TypeOK, OneForegroundRun, NEW c \in Calls, Request(c)
    PROVE  OneForegroundRun'
<1>1. CASE StreamAgent(c)
  BY <1>1, StartRunKeepsOneRun DEF StreamAgent, SlotFree
<1>2. CASE ReplaceAgentRun(c)
  <2>1. CASE HasInFlightRun
    BY <1>2, <2>1, BeginCancelWithdraws, WithdrawingKeepsOneRun
       DEF ReplaceAgentRun
  <2>2. CASE ~HasInFlightRun
    BY <1>2, <2>2, StartRunKeepsOneRun DEF ReplaceAgentRun, HasInFlightRun
  <2> QED
    BY <2>1, <2>2
<1>3. CASE CancelAgentRun(c)
  BY <1>3, BeginCancelWithdraws, WithdrawingKeepsOneRun DEF CancelAgentRun
<1>4. CASE CloseAgent(c)
  BY <1>4 DEF CloseAgent, OneForegroundRun
<1>5. CASE ReloadAgentSession(c)
  BY <1>5, BeginCancelWithdraws, BeginResumingWithdraws,
     WithdrawingKeepsOneRun DEF ReloadAgentSession
<1>6. CASE ResumeAgent(c)
  BY <1>6, BeginResumingWithdraws, WithdrawingKeepsOneRun DEF ResumeAgent
<1> QED
  BY <1>1, <1>2, <1>3, <1>4, <1>5, <1>6 DEF Request

\* A continuation keeps the agent to one run.
LEMMA ContinueKeepsOneRun ==
    ASSUME TypeOK, OneForegroundRun, NEW c \in Calls, Continue(c)
    PROVE  OneForegroundRun'
<1>1. CASE StartTurnResolves(c)
  BY <1>1 DEF StartTurnResolves, Goto, OneForegroundRun, Occupies, Starting,
              TypeOK, CallStates
<1>2. CASE StartTurnRejects(c)
  BY <1>2, FinishWithdraws, GotoWithdraws, WithdrawingKeepsOneRun
     DEF StartTurnRejects, Stages
<1>3. CASE ForwarderEnds(c)
  BY <1>3, FinishWithdraws, WithdrawingKeepsOneRun DEF ForwarderEnds
<1>4. CASE CancelObserved(c) \/ StaleRunSettled(c)
  BY <1>4, CancelReturnsWithdraws, WithdrawingKeepsOneRun
     DEF CancelObserved, StaleRunSettled
<1>5. CASE CancelForced(c)
  <2>1. call' = [call EXCEPT ![c].at = "awaitStale", ![c].run = pendingRun]
    BY <1>5 DEF CancelForced
  <2>2. Withdraws(c)
    BY <2>1 DEF TypeOK, CallStates, Withdraws
  <2> QED
    BY <1>5, <2>2, WithdrawingKeepsOneRun DEF CancelForced
<1>6. CASE ReplacementStarts(c)
  BY <1>6, StartRunKeepsOneRun DEF ReplacementStarts, SlotFree
<1>7. CASE ReplacementFails(c)
  BY <1>7, FinishWithdraws, WithdrawingKeepsOneRun DEF ReplacementFails
<1>8. CASE CloseReturns(c) \/ ResumeFails(c) \/ RegistrationEnds(c)
  BY <1>8, FinishWithdraws, WithdrawingKeepsOneRun
     DEF CloseReturns, ResumeFails, RegistrationEnds
<1>9. CASE ReloadContinues(c)
  BY <1>9, FinishWithdraws, BeginResumingWithdraws, WithdrawingKeepsOneRun
     DEF ReloadContinues
<1>10. CASE SessionResumed(c)
  BY <1>10, GotoWithdraws, WithdrawingKeepsOneRun
     DEF SessionResumed, Stages, OneForegroundRun
<1>11. CASE OldSessionClosed(c)
  BY <1>11, GotoWithdraws, WithdrawingKeepsOneRun
     DEF OldSessionClosed, Stages
<1>12. CASE RegistrationEmits(c) \/ RegistrationSettles(c)
  BY <1>12, GotoWithdraws, WithdrawingKeepsOneRun
     DEF RegistrationEmits, RegistrationSettles, Stages
<1>13. ASSUME NEW s \in Sessions, Register(c, s)
       PROVE  OneForegroundRun'
  <2>1. \A d \in Calls : call[d].on # s
    BY <1>13 DEF Register, Reachable
  <2>2. /\ \A d \in Calls : d # c => call'[d] = call[d]
        /\ call'[c].at = "registered" /\ current' = s
    BY <1>13 DEF Register, TypeOK, CallStates
  <2> QED
    BY <2>1, <2>2 DEF OneForegroundRun, Occupies, Starting
<1> QED
  BY <1>1, <1>2, <1>3, <1>4, <1>5, <1>6, <1>7, <1>8, <1>9, <1>10, <1>11,
     <1>12, <1>13 DEF Continue

\* Events, providers and repeated emissions do not touch calls.
LEMMA OthersLeaveCalls ==
    ASSUME \/ HandleEvents \/ EmitState \/ UNCHANGED vars
           \/ \E s \in Sessions : FailedStartEmits(s) \/ ProviderActs(s)
    PROVE  UNCHANGED <<current, pendingRun, call>>
BY DEF HandleEvents, DropEvent, HandleTurnStarted, HandleTurnOver,
       HandleTurnFailed, TurnFailedResumes, HandleTurnFailedAtOnce, EmitState,
       FailedStartEmits, ProviderActs, ProviderStartsTurn, ProviderEndsTurn,
       ProviderRunsAutonomously, ProviderEndsAutonomously, vars

\* Every step keeps the agent to one run.
LEMMA OneForegroundRunStep ==
    TypeOK /\ OneForegroundRun /\ [Next]_vars => OneForegroundRun'
<1> SUFFICES ASSUME TypeOK, OneForegroundRun, [Next]_vars
             PROVE  OneForegroundRun'
  OBVIOUS
<1>1. CASE \E c \in Calls : Request(c) \/ Continue(c)
  BY <1>1, RequestKeepsOneRun, ContinueKeepsOneRun
<1>2. CASE UNCHANGED <<current, pendingRun, call>>
  BY <1>2 DEF OneForegroundRun, Occupies, Starting
<1> QED
  BY <1>1, <1>2, OthersLeaveCalls DEF Next

\* A provider session never has two foreground runs: a call that starts or
\* streams a turn on the registered agent owns its pendingForegroundRuns
\* entry, whatever replacements, cancels, closes and reloads interleave.
THEOREM OneForegroundRunHolds == Spec => []OneForegroundRun
<1>1. Init => OneForegroundRun
  BY DEF Init, OneForegroundRun, Occupies, Starting, Returned, NewCall
<1> QED
  BY <1>1, OneForegroundRunStep, TypeCorrect, PTL DEF Spec

-----------------------------------------------------------------------------
(* The busy hold.  HeldBusyHasReplacer is inductive given TypeOK: only     *)
(* replaceAgentRun raises the hold, and whatever ends a replacement before *)
(* its run clears the hold of the registered object.                       *)

\* Call d is a replacement that has not given up.
Replaces(d) ==
    /\ call[d].op = "replace"
    /\ call[d].at \in {"canceling", "awaitStale", "canceled"}

KeepsReplacers ==
    \A d \in Calls :
        Replaces(d) => Replaces(d)' /\ call'[d].on = call[d].on

RaisesNoHold ==
    \A s \in Sessions : agent'[s].replacing => agent[s].replacing

\* A step that raises no hold and interrupts no replacement.
LEMMA HoldKept ==
    ASSUME TypeOK, HeldBusyHasReplacer, KeepsReplacers, RaisesNoHold,
           current' = current \/ current' = None
    PROVE  HeldBusyHasReplacer'
<1> SUFFICES ASSUME current' # None, agent'[current'].replacing
             PROVE  \E c \in Calls :
                       /\ call'[c].op = "replace"
                       /\ call'[c].on = current'
                       /\ call'[c].at \in {"canceling", "awaitStale",
                                           "canceled"}
  BY DEF HeldBusyHasReplacer
<1>1. current \in Sessions /\ current' = current /\ agent[current].replacing
  BY DEF TypeOK, RaisesNoHold
<1>2. PICK c \in Calls : Replaces(c) /\ call[c].on = current
  BY <1>1, SessionsAssumption DEF HeldBusyHasReplacer, Replaces
<1> QED
  BY <1>1, <1>2 DEF KeepsReplacers, Replaces

\* A step that leaves the registered object without a hold.
LEMMA HoldCleared ==
    ASSUME current' = None \/ ~agent'[current'].replacing
    PROVE  HeldBusyHasReplacer'
BY DEF HeldBusyHasReplacer

\* An accepted streamAgent clears the hold.
LEMMA StartRunClearsHold ==
    ASSUME TypeOK, NEW c \in Calls, NEW op, current # None, StartRun(c, op)
    PROVE  HeldBusyHasReplacer'
<1>1. current \in Sessions /\ agent[current] \in Agents
  BY DEF TypeOK
<1>2. agent'[current].replacing = FALSE /\ current' = current
  BY <1>1 DEF StartRun, TypeOK, Agents
<1> QED
  BY <1>2, HoldCleared

\* finalizeForegroundTurn does not touch the hold.
LEMMA FinalizeRaisesNoHold ==
    ASSUME TypeOK, NEW s \in Sessions, NEW a \in Agents,
           a.replacing = agent[s].replacing, FinalizeInto(s, a)
    PROVE  RaisesNoHold
<1>1. Finalized(a).replacing = a.replacing
  BY DEF Finalized, Agents
<1> QED
  BY <1>1 DEF FinalizeInto, RaisesNoHold, TypeOK

\* A call that is no replacement under way, or stays one, may move on.
LEMMA OneCallKeepsReplacers ==
    ASSUME TypeOK, NEW c \in Calls,
           \A d \in Calls : d # c => call'[d] = call[d],
           ~Replaces(c) \/ (Replaces(c)' /\ call'[c].on = call[c].on)
    PROVE  KeepsReplacers
BY DEF KeepsReplacers, Replaces

\* A request raises a hold only for a replacement it begins.
LEMMA RequestKeepsHold ==
    ASSUME TypeOK, HeldBusyHasReplacer, NEW c \in Calls, Request(c)
    PROVE  HeldBusyHasReplacer'
<1>1. ASSUME call[c].at = "out", Withdraws(c), UNCHANGED agent,
             UNCHANGED current
      PROVE  HeldBusyHasReplacer'
  <2>1. KeepsReplacers
    BY <1>1, OneCallKeepsReplacers DEF Withdraws, Replaces
  <2>2. RaisesNoHold
    BY <1>1 DEF RaisesNoHold
  <2> QED
    BY <1>1, <2>1, <2>2, HoldKept
<1>2. CASE StreamAgent(c)
  BY <1>2, StartRunClearsHold DEF StreamAgent
<1>3. CASE ReplaceAgentRun(c)
  <2>1. CASE HasInFlightRun
    <3>1. /\ call'[c].op = "replace" /\ call'[c].at = "canceling"
          /\ call'[c].on = current /\ current' = current
      BY <1>3, <2>1 DEF ReplaceAgentRun, BeginCancel, NewCall, TypeOK
    <3> QED
      BY <3>1 DEF HeldBusyHasReplacer
  <2>2. CASE ~HasInFlightRun
    BY <1>3, <2>2, StartRunClearsHold DEF ReplaceAgentRun
  <2> QED
    BY <2>1, <2>2
<1>4. CASE CancelAgentRun(c)
  BY <1>1, <1>4, BeginCancelWithdraws DEF CancelAgentRun, Fresh
<1>5. CASE CloseAgent(c)
  BY <1>5, HoldCleared DEF CloseAgent
<1>6. CASE ReloadAgentSession(c)
  BY <1>1, <1>6, BeginCancelWithdraws, BeginResumingWithdraws
     DEF ReloadAgentSession, Fresh
<1>7. CASE ResumeAgent(c)
  BY <1>1, <1>7, BeginResumingWithdraws DEF ResumeAgent, Fresh
<1> QED
  BY <1>2, <1>3, <1>4, <1>5, <1>6, <1>7 DEF Request

\* A continuation of a call other than a replacement's cancel interrupts no
\* replacement.
LEMMA OtherContinuationsKeepHold ==
    ASSUME TypeOK, HeldBusyHasReplacer, NEW c \in Calls,
           \/ StartTurnResolves(c) \/ StartTurnRejects(c) \/ ForwarderEnds(c)
           \/ CloseReturns(c)      \/ ReloadContinues(c)
           \/ SessionResumed(c)    \/ ResumeFails(c)
           \/ OldSessionClosed(c)
           \/ RegistrationEmits(c) \/ RegistrationSettles(c)
           \/ RegistrationEnds(c)
    PROVE  HeldBusyHasReplacer'
<1>1. current' = current \/ current' = None
  BY DEF StartTurnResolves, StartTurnRejects, ForwarderEnds, CloseReturns,
         ReloadContinues, SessionResumed, ResumeFails, OldSessionClosed,
         RegistrationEmits, RegistrationSettles, RegistrationEnds
<1>2. ~Replaces(c)
  BY DEF StartTurnResolves, StartTurnRejects, ForwarderEnds, CloseReturns,
         ReloadContinues, SessionResumed, ResumeFails, OldSessionClosed,
         RegistrationEmits, RegistrationSettles, RegistrationEnds, Replaces
<1>3. \A d \in Calls : d # c => call'[d] = call[d]
  BY DEF StartTurnResolves, StartTurnRejects, ForwarderEnds, CloseReturns,
         ReloadContinues, SessionResumed, ResumeFails, OldSessionClosed,
         RegistrationEmits, RegistrationSettles, RegistrationEnds, Goto,
         Finish, BeginResuming, TypeOK
<1>4. RaisesNoHold
  <2>1. CASE UNCHANGED agent
    BY <2>1 DEF RaisesNoHold
  <2>2. CASE StartTurnResolves(c) \/ RegistrationSettles(c)
    <3> DEFINE o == agent[call[c].on]
    <3>1. call[c].on \in Sessions
      BY <2>2 DEF StartTurnResolves, RegistrationSettles, TypeOK, Attached,
                  CallStates
    <3>2. o \in Agents
      BY <3>1 DEF TypeOK
    <3>3. /\ [o EXCEPT !.turn = c, !.life = "running"].replacing = o.replacing
          /\ [o EXCEPT !.life = "idle"].replacing = o.replacing
      BY <3>2 DEF Agents
    <3>4. agent'[call[c].on].replacing = o.replacing
      <4>1. CASE StartTurnResolves(c)
        BY <3>1, <3>3, <4>1 DEF StartTurnResolves, TypeOK
      <4>2. CASE RegistrationSettles(c)
        BY <3>1, <3>3, <4>2 DEF RegistrationSettles, TypeOK
      <4> QED
        BY <2>2, <4>1, <4>2
    <3>5. \A s \in Sessions : s # call[c].on => agent'[s] = agent[s]
      BY <2>2 DEF StartTurnResolves, RegistrationSettles, TypeOK
    <3> QED
      BY <3>4, <3>5 DEF RaisesNoHold
  <2>3. CASE StartTurnRejects(c)
    <3> DEFINE s == call[c].on
               a == [agent[s] EXCEPT !.life = "error", !.failed = TRUE]
    <3>1. s \in Sessions
      BY <2>3 DEF StartTurnRejects, TypeOK, Attached, CallStates
    <3>2. agent[s] \in Agents
      BY <3>1 DEF TypeOK
    <3>3. a \in Agents /\ a.replacing = agent[s].replacing
      BY <3>2 DEF Agents, Lifecycles
    <3>4. FinalizeInto(s, a)
      BY <2>3 DEF StartTurnRejects
    <3> QED
      BY <3>1, <3>3, <3>4, FinalizeRaisesNoHold
  <2> QED
    BY <2>1, <2>2, <2>3
       DEF ForwarderEnds, CloseReturns, ReloadContinues, SessionResumed,
           ResumeFails, OldSessionClosed, RegistrationEmits, RegistrationEnds
<1> QED
  BY <1>1, <1>2, <1>3, <1>4, OneCallKeepsReplacers, HoldKept

\* A continuation interrupts no replacement without clearing its hold.
LEMMA ContinueKeepsHold ==
    ASSUME TypeOK, HeldBusyHasReplacer, NEW c \in Calls, Continue(c)
    PROVE  HeldBusyHasReplacer'
<1>1. ASSUME CancelReturns(c)
      PROVE  KeepsReplacers
  <2>1. CASE call[c].op = "replace"
    <3>1. call' = [call EXCEPT ![c].at = "canceled", ![c].turn = None,
                               ![c].run = None]
      BY <1>1, <2>1 DEF CancelReturns
    <3>2. /\ Replaces(c) => Replaces(c)' /\ call'[c].on = call[c].on
          /\ \A d \in Calls : d # c => call'[d] = call[d]
      BY <2>1, <3>1 DEF Replaces, TypeOK, CallStates
    <3> QED
      BY <3>2, OneCallKeepsReplacers
  <2>2. CASE call[c].op # "replace"
    BY <1>1, <2>2, CancelReturnsWithdraws, OneCallKeepsReplacers
       DEF Withdraws, Replaces
  <2> QED
    BY <2>1, <2>2
<1>2. CASE CancelObserved(c) \/ StaleRunSettled(c)
  <2>1. KeepsReplacers
    BY <1>1, <1>2 DEF CancelObserved, StaleRunSettled
  <2>2. RaisesNoHold /\ current' = current
    BY <1>2 DEF CancelObserved, StaleRunSettled, RaisesNoHold
  <2> QED
    BY <2>1, <2>2, HoldKept
<1>3. CASE CancelForced(c)
  <2> DEFINE s == call[c].on
             a == [agent[s] EXCEPT !.failed = FALSE]
  <2>1. s \in Sessions
    BY <1>3 DEF CancelForced, TypeOK, Attached, CallStates
  <2>2. agent[s] \in Agents
    BY <2>1 DEF TypeOK
  <2>3. a \in Agents /\ a.replacing = agent[s].replacing
    BY <2>2 DEF Agents
  <2>4. FinalizeInto(s, a) /\ current' = current
    BY <1>3 DEF CancelForced
  <2>5. RaisesNoHold
    BY <2>1, <2>3, <2>4, FinalizeRaisesNoHold
  <2>6. call' = [call EXCEPT ![c].at = "awaitStale", ![c].run = pendingRun]
    BY <1>3 DEF CancelForced
  <2>7. /\ Replaces(c) => Replaces(c)' /\ call'[c].on = call[c].on
        /\ \A d \in Calls : d # c => call'[d] = call[d]
    BY <2>6 DEF Replaces, TypeOK, CallStates
  <2> QED
    BY <2>4, <2>5, <2>7, OneCallKeepsReplacers, HoldKept
<1>4. CASE ReplacementStarts(c)
  BY <1>4, StartRunClearsHold DEF ReplacementStarts
<1>5. CASE ReplacementFails(c)
  <2>1. CASE current = None
    BY <1>5, <2>1, HoldCleared DEF ReplacementFails
  <2>2. CASE current # None
    <3> DEFINE a == [agent[current] EXCEPT !.replacing = FALSE]
               b == IF a.turn = None /\ a.life = "running"
                    THEN [a EXCEPT !.life = "idle"] ELSE a
    <3>1. current \in Sessions /\ agent[current] \in Agents
      BY <2>2 DEF TypeOK
    <3>2. a \in Agents /\ ~a.replacing
      BY <3>1 DEF Agents
    <3>3. ~b.replacing
      <4>1. ~[a EXCEPT !.life = "idle"].replacing
        BY <3>2 DEF Agents
      <4> QED
        BY <3>2, <4>1
    <3>4. agent' = [agent EXCEPT ![current] = b] /\ current' = current
      BY <1>5, <2>2 DEF ReplacementFails
    <3>5. ~agent'[current'].replacing
      <4> HIDE DEF b
      <4> QED
        BY <3>1, <3>3, <3>4 DEF TypeOK
    <3> QED
      BY <3>5, HoldCleared
  <2> QED
    BY <2>1, <2>2
<1>6. ASSUME NEW s \in Sessions, Register(c, s)
      PROVE  HeldBusyHasReplacer'
  <2>1. ~agent'[s].replacing /\ current' = s
    BY <1>6 DEF Register, TypeOK
  <2> QED
    BY <2>1, HoldCleared
<1> QED
  BY <1>2, <1>3, <1>4, <1>5, <1>6, OtherContinuationsKeepHold DEF Continue

\* Neither events nor the provider raise a hold.
LEMMA OthersRaiseNoHold ==
    ASSUME TypeOK,
           \/ HandleEvents \/ EmitState \/ UNCHANGED vars
           \/ \E s \in Sessions : FailedStartEmits(s) \/ ProviderActs(s)
    PROVE  RaisesNoHold
<1> DEFINE e == Head(tail)
<1>1. CASE UNCHANGED agent
  BY <1>1 DEF RaisesNoHold
<1>2. ASSUME current # None
      PROVE  current \in Sessions /\ agent[current] \in Agents
  BY <1>2 DEF TypeOK
<1>3. ASSUME current # None
      PROVE  /\ WithFailure(e) \in Agents
             /\ WithFailure(e).replacing = agent[current].replacing
  BY <1>2, <1>3 DEF WithFailure, Agents, Lifecycles
<1>4. CASE HandleTurnStarted
  <2>1. current # None
    BY <1>4 DEF HandleTurnStarted
  <2>2. [agent[current] EXCEPT !.life = "running"].replacing
          = agent[current].replacing
    BY <1>2, <2>1 DEF Agents
  <2> QED
    BY <1>2, <1>4, <2>1, <2>2 DEF HandleTurnStarted, TypeOK, RaisesNoHold
<1>5. CASE HandleTurnOver
  <2> DEFINE a == [agent[current] EXCEPT !.failed = FALSE]
             rests == IF a.replacing THEN a ELSE [a EXCEPT !.life = "idle"]
  <2>1. current # None
    BY <1>5 DEF HandleTurnOver
  <2>2. a \in Agents /\ a.replacing = agent[current].replacing
    BY <1>2, <2>1 DEF Agents
  <2>3. rests.replacing = agent[current].replacing
    BY <2>2 DEF Agents
  <2>4. CASE Foreground(e)
    <3>1. FinalizeInto(current, a)
      BY <1>5, <2>4 DEF HandleTurnOver
    <3> QED
      BY <1>2, <2>1, <2>2, <3>1, FinalizeRaisesNoHold
  <2>5. CASE ~Foreground(e)
    <3>1. agent' = [agent EXCEPT ![current] = rests]
      BY <1>5, <2>5 DEF HandleTurnOver
    <3> QED
      BY <1>2, <2>1, <2>3, <3>1 DEF TypeOK, RaisesNoHold
  <2> QED
    BY <2>4, <2>5
<1>6. CASE HandleTurnFailed
  <2>1. current # None /\ agent' = [agent EXCEPT ![current] = WithFailure(e)]
    BY <1>6 DEF HandleTurnFailed, HandlesFailure
  <2> QED
    BY <1>2, <1>3, <2>1 DEF TypeOK, RaisesNoHold
<1>7. CASE TurnFailedResumes
  <2>1. handling.on \in Sessions
    BY <1>7 DEF TurnFailedResumes, TypeOK, Suspends
  <2>2. agent[handling.on] \in Agents
    BY <2>1 DEF TypeOK
  <2> QED
    BY <1>1, <1>7, <2>1, <2>2, FinalizeRaisesNoHold DEF TurnFailedResumes
<1>8. CASE HandleTurnFailedAtOnce
  <2>1. current # None
    BY <1>8 DEF HandleTurnFailedAtOnce, HandlesFailure
  <2>2. CASE Foreground(e)
    BY <1>2, <1>3, <1>8, <2>1, <2>2, FinalizeRaisesNoHold
       DEF HandleTurnFailedAtOnce
  <2>3. CASE ~Foreground(e)
    BY <1>2, <1>3, <1>8, <2>1, <2>3
       DEF HandleTurnFailedAtOnce, TypeOK, RaisesNoHold
  <2> QED
    BY <2>2, <2>3
<1> QED
  BY <1>1, <1>4, <1>5, <1>6, <1>7, <1>8
     DEF HandleEvents, DropEvent, EmitState, FailedStartEmits, ProviderActs,
         ProviderStartsTurn, ProviderEndsTurn, ProviderRunsAutonomously,
         ProviderEndsAutonomously, vars

\* Every step leaves a hold to somebody who will release it.
LEMMA HeldBusyStep ==
    TypeOK /\ HeldBusyHasReplacer /\ [Next]_vars => HeldBusyHasReplacer'
<1> SUFFICES ASSUME TypeOK, HeldBusyHasReplacer, [Next]_vars
             PROVE  HeldBusyHasReplacer'
  OBVIOUS
<1>1. CASE \E c \in Calls : Request(c) \/ Continue(c)
  BY <1>1, RequestKeepsHold, ContinueKeepsHold
<1>2. ASSUME \/ HandleEvents \/ EmitState \/ UNCHANGED vars
             \/ \E s \in Sessions : FailedStartEmits(s) \/ ProviderActs(s)
      PROVE  HeldBusyHasReplacer'
  <2>1. UNCHANGED <<current, pendingRun, call>>
    BY <1>2, OthersLeaveCalls
  <2>2. KeepsReplacers
    BY <2>1 DEF KeepsReplacers, Replaces
  <2> QED
    BY <1>2, <2>1, <2>2, OthersRaiseNoHold, HoldKept
<1> QED
  BY <1>1, <1>2 DEF Next

\* An agent that pendingReplacement holds busy always has a replacing call
\* that has not given up: however replacements, cancels, closes and reloads
\* interleave, no hold is left behind without somebody to release it.
THEOREM HeldBusyHasReplacerHolds == Spec => []HeldBusyHasReplacer
<1>1. Init => HeldBusyHasReplacer
  BY DEF Init, HeldBusyHasReplacer
<1> QED
  BY <1>1, HeldBusyStep, TypeCorrect, PTL DEF Spec

-----------------------------------------------------------------------------
(* The active turn.  ActiveTurnHasForwarder is inductive with what is said *)
(* below of those who end a turn later than they looked at it: a suspended *)
(* handler and a cancelAgentRun.                                           *)

\* The waits of cancelAgentRun.
Canceling == {"canceling", "awaitStale"}

\* The turn of call t was started: t will not make it an active turn again.
Begun(calls, t) == t \in Calls /\ calls[t].at \in {"streaming", "out"}

LiveForwardersStream ==
    \A d \in Calls : waiter[d] = "live" => call[d].at = "streaming"

\* A suspended handler that is going to wake a forwarder wakes one of its own
\* object; if it found the turn not active, the turn has not become so.
NotifyFits ==
    handling # None /\ handling.notify =>
        /\ Begun(call, handling.turn)
        /\ call[handling.turn].at = "streaming" =>
             call[handling.turn].on = handling.on
        /\ ~handling.foreground => agent[handling.on].turn # handling.turn

\* A cancel is about a turn that was started, and is over once it is forced.
CancelsFit ==
    \A c \in Calls : call[c].at \in Canceling /\ call[c].turn # None =>
        /\ Begun(call, call[c].turn)
        /\ call[c].at = "awaitStale" =>
             agent[call[c].on].turn # call[c].turn

TurnsFit ==
    ActiveTurnHasForwarder /\ LiveForwardersStream /\ NotifyFits /\ CancelsFit

\* What call c may do in a step that makes no turn active.
GoesOn(c) ==
    /\ call[c].at = "streaming" =>
         \/ call'[c] = call[c]
         \/ /\ call'[c].at = "out"
            /\ waiter[c] \in {"notified", "settled"} /\ waiter'[c] # "live"
    /\ call[c].at = "out" /\ Mentioned(c) => call'[c] = call[c]
    /\ call'[c].at \in Canceling /\ call'[c].turn # None =>
         \/ /\ call[c].at \in Canceling
            /\ call'[c].turn = call[c].turn /\ call'[c].on = call[c].on
            /\ call'[c].at = "awaitStale" =>
                 \/ call[c].at = "awaitStale"
                 \/ agent'[call[c].on].turn # call[c].turn
         \/ /\ call'[c].at = "canceling" /\ current # None
            /\ call'[c].turn = agent[current].turn

\* When cancelAgentRun of c goes on, the turn it is about is not active.
CancelEnds(c) ==
    call[c].at \in Canceling /\ call[c].turn # None
    /\ call'[c].at \notin Canceling
    => agent'[call[c].on].turn # call[c].turn

TurnsOnlyEnd == \A s \in Sessions : agent'[s].turn \in {agent[s].turn, None}

EndingStep ==
    /\ \/ current' = current \/ current' = None
       \/ current' \in Sessions /\ agent'[current'].turn = None
    /\ TurnsOnlyEnd
    /\ \A d \in Calls : waiter'[d] = "live" => waiter[d] = "live"
    /\ \A d \in Calls : waiter[d] = "live" /\ waiter'[d] # "live" =>
         current' = None \/ agent'[current'].turn # d
    /\ \A c \in Calls : GoesOn(c)
    /\ handling' \in {handling, None}

\* A step that makes no turn active keeps what is said of turns.
LEMMA EndingStepKeepsTurns ==
    ASSUME TypeOK, TurnsFit, EndingStep
    PROVE  TurnsFit'
<1>1. ActiveTurnHasForwarder'
  <2> SUFFICES ASSUME current' # None, agent'[current'].turn # None
               PROVE  /\ call'[agent'[current'].turn].at = "streaming"
                      /\ call'[agent'[current'].turn].on = current'
                      /\ waiter'[agent'[current'].turn] = "live"
    BY DEF ActiveTurnHasForwarder
  <2> DEFINE t == agent[current].turn
  <2>1. current' = current /\ current \in Sessions
    BY DEF EndingStep, TypeOK
  <2>2. agent'[current'].turn = t /\ t \in Calls
    BY <2>1 DEF EndingStep, TurnsOnlyEnd, TypeOK, Agents, CallSlot
  <2>3. call[t].at = "streaming" /\ call[t].on = current /\ waiter[t] = "live"
    BY <2>1, <2>2 DEF TurnsFit, ActiveTurnHasForwarder
  <2>4. call'[t] = call[t]
    BY <2>2, <2>3 DEF EndingStep, GoesOn
  <2>5. waiter'[t] = "live"
    BY <2>1, <2>2, <2>3 DEF EndingStep
  <2> QED
    BY <2>1, <2>2, <2>3, <2>4, <2>5
<1>2. LiveForwardersStream'
  BY DEF TurnsFit, LiveForwardersStream, EndingStep, GoesOn
<1>3. ASSUME NEW t, Begun(call, t), call[t].at = "out" => Mentioned(t)
      PROVE  /\ Begun(call', t)
             /\ call'[t].at = "streaming" =>
                  call[t].at = "streaming" /\ call'[t].on = call[t].on
  BY <1>3 DEF EndingStep, GoesOn, Begun
<1>4. NotifyFits'
  <2> SUFFICES ASSUME handling' # None, handling'.notify
               PROVE  /\ Begun(call', handling'.turn)
                      /\ call'[handling'.turn].at = "streaming" =>
                           call'[handling'.turn].on = handling'.on
                      /\ ~handling'.foreground =>
                           agent'[handling'.on].turn # handling'.turn
    BY DEF NotifyFits, Begun
  <2>1. handling' = handling /\ handling # None /\ handling.notify
    BY DEF EndingStep
  <2>2. /\ Begun(call, handling.turn)
        /\ call[handling.turn].at = "streaming" =>
             call[handling.turn].on = handling.on
        /\ ~handling.foreground => agent[handling.on].turn # handling.turn
    BY <2>1 DEF TurnsFit, NotifyFits
  <2>3. Mentioned(handling.turn) /\ handling.on \in Sessions
    BY <2>1 DEF Mentioned, TypeOK, Suspends
  <2>4. /\ Begun(call', handling.turn)
        /\ call'[handling.turn].at = "streaming" =>
             /\ call[handling.turn].at = "streaming"
             /\ call'[handling.turn].on = call[handling.turn].on
    BY <1>3, <2>1, <2>2, <2>3
  <2>5. handling.turn # None
    BY <2>2, CallsAssumption DEF Begun
  <2> QED
    BY <2>1, <2>2, <2>3, <2>4, <2>5 DEF EndingStep, TurnsOnlyEnd, Begun
<1>5. CancelsFit'
  <2> SUFFICES ASSUME NEW c \in Calls, call'[c].at \in Canceling,
                      call'[c].turn # None
               PROVE  /\ Begun(call', call'[c].turn)
                      /\ call'[c].at = "awaitStale" =>
                           agent'[call'[c].on].turn # call'[c].turn
    BY DEF CancelsFit, Begun
  <2>1. CASE /\ call[c].at \in Canceling
             /\ call'[c].turn = call[c].turn /\ call'[c].on = call[c].on
             /\ call'[c].at = "awaitStale" =>
                  \/ call[c].at = "awaitStale"
                  \/ agent'[call[c].on].turn # call[c].turn
    <3>1. /\ Begun(call, call[c].turn)
          /\ call[c].at = "awaitStale" =>
               agent[call[c].on].turn # call[c].turn
      BY <2>1 DEF TurnsFit, CancelsFit
    <3>2. Mentioned(call[c].turn)
      BY DEF Mentioned
    <3>3. Begun(call', call'[c].turn)
      <4>1. Begun(call', call[c].turn)
        BY <1>3, <3>1, <3>2
      <4> QED
        BY <2>1, <4>1
    <3>4. call[c].on \in Sessions
      BY <2>1 DEF TypeOK, CallStates, Canceling, Attached
    <3> QED
      BY <2>1, <3>1, <3>3, <3>4 DEF EndingStep, TurnsOnlyEnd
  <2>2. CASE /\ call'[c].at = "canceling" /\ current # None
             /\ call'[c].turn = agent[current].turn
    <3>1. call[agent[current].turn].at = "streaming"
      BY <2>2 DEF TurnsFit, ActiveTurnHasForwarder
    <3>2. Begun(call, agent[current].turn)
      BY <2>2, <3>1 DEF Begun, TypeOK, Agents, CallSlot
    <3>3. Begun(call', call'[c].turn)
      <4>1. Begun(call', agent[current].turn)
        BY <1>3, <3>1, <3>2
      <4> QED
        BY <2>2, <4>1
    <3> QED
      BY <2>2, <3>3
  <2> QED
    BY <2>1, <2>2 DEF EndingStep, GoesOn
<1> QED
  BY <1>1, <1>2, <1>4, <1>5 DEF TurnsFit

\* Writing an object back with its turn or without one.
LEMMA TurnWrittenBack ==
    ASSUME TypeOK, NEW s \in Sessions, NEW a, agent' = [agent EXCEPT ![s] = a],
           a.turn \in {agent[s].turn, None}
    PROVE  TurnsOnlyEnd
BY DEF TypeOK, TurnsOnlyEnd

\* finalizeForegroundTurn ends the turn of its object and no other.
LEMMA FinalizeEndsTurn ==
    ASSUME TypeOK, NEW s \in Sessions, NEW a \in Agents, FinalizeInto(s, a)
    PROVE  TurnsOnlyEnd /\ agent'[s].turn = None
<1>1. Finalized(a).turn = None
  BY DEF Finalized, Agents
<1>2. agent' = [agent EXCEPT ![s] = Finalized(a)]
  BY DEF FinalizeInto
<1> QED
  BY <1>1, <1>2 DEF TypeOK, TurnsOnlyEnd

\* Where nobody is told anything only one call matters.
LEMMA OneCallGoesOn ==
    ASSUME TypeOK, NEW c \in Calls,
           \A d \in Calls : d # c => call'[d] = call[d],
           call[c].at # "streaming", call[c].at = "out" => ~Mentioned(c),
           call'[c].at \notin Canceling \/ GoesOn(c), CancelEnds(c),
           UNCHANGED <<waiter, handling>>, TurnsOnlyEnd,
           \/ current' = current \/ current' = None
           \/ current' \in Sessions /\ agent'[current'].turn = None
    PROVE  EndingStep /\ \A d \in Calls : CancelEnds(d)
<1>1. GoesOn(c)
  BY DEF GoesOn
<1>2. \A d \in Calls : d # c => GoesOn(d) /\ CancelEnds(d)
  BY DEF GoesOn, CancelEnds
<1> QED
  BY <1>1, <1>2 DEF EndingStep

\* An accepted streamAgent makes no turn active yet.
LEMMA StartRunEndsNoTurn ==
    ASSUME TypeOK, NEW c \in Calls, NEW op, current # None, StartRun(c, op),
           call[c].at \notin Canceling, call[c].at # "streaming",
           call[c].at = "out" => ~Mentioned(c)
    PROVE  EndingStep /\ \A d \in Calls : CancelEnds(d)
<1>1. current \in Sessions /\ agent[current] \in Agents
  BY DEF TypeOK
<1>2. TurnsOnlyEnd
  <2> DEFINE a == [agent[current] EXCEPT !.replacing = FALSE, !.failed = FALSE]
  <2>1. a.turn = agent[current].turn
    BY <1>1 DEF Agents
  <2>2. agent' = [agent EXCEPT ![current] = a]
    BY <1>1 DEF TypeOK, StartRun
  <2> HIDE DEF a
  <2> QED
    BY <1>1, <2>1, <2>2, TurnWrittenBack
<1>3. /\ \A d \in Calls : d # c => call'[d] = call[d]
      /\ call'[c].at \notin Canceling
  BY DEF StartRun, NewCall, TypeOK, Canceling
<1>4. UNCHANGED <<current, waiter, handling>>
  BY DEF StartRun
<1>5. CancelEnds(c)
  BY DEF CancelEnds
<1> QED
  BY <1>2, <1>3, <1>4, <1>5, OneCallGoesOn

\* cancelAgentRun takes the active turn for the one it is about.
LEMMA BeginCancelGoesOn ==
    ASSUME TypeOK, NEW c \in Calls, NEW op, BeginCancel(c, op), current # None,
           call[c].at = "out"
    PROVE  /\ \A d \in Calls : d # c => call'[d] = call[d]
           /\ ~Mentioned(c) => GoesOn(c)
           /\ CancelEnds(c)
<1>1. /\ \A d \in Calls : d # c => call'[d] = call[d]
      /\ call'[c].at = "canceling" /\ call'[c].turn = agent[current].turn
  BY DEF BeginCancel, NewCall, TypeOK
<1> QED
  BY <1>1 DEF GoesOn, CancelEnds, Canceling

\* No request makes a turn active.
LEMMA RequestEndsNoTurn ==
    ASSUME TypeOK, NEW c \in Calls, Request(c)
    PROVE  EndingStep /\ \A d \in Calls : CancelEnds(d)
<1>0. call[c].at = "out" /\ ~Mentioned(c)
  BY DEF Request, StreamAgent, ReplaceAgentRun, CancelAgentRun, CloseAgent,
         ReloadAgentSession, ResumeAgent, Fresh
<1>1. ASSUME UNCHANGED <<current, agent, waiter, handling>>,
             \/ \E op : BeginCancel(c, op) /\ current # None
             \/ \E op, s : BeginResuming(c, op, s)
      PROVE  EndingStep /\ \A d \in Calls : CancelEnds(d)
  <2>1. TurnsOnlyEnd
    BY <1>1 DEF TurnsOnlyEnd
  <2>2. CASE \E op : BeginCancel(c, op) /\ current # None
    BY <1>0, <1>1, <2>1, <2>2, BeginCancelGoesOn, OneCallGoesOn
  <2>3. CASE \E op, s : BeginResuming(c, op, s)
    <3>1. /\ \A d \in Calls : d # c => call'[d] = call[d]
          /\ call'[c].at = "resuming"
      BY <2>3 DEF BeginResuming, NewCall, TypeOK
    <3> QED
      BY <1>0, <1>1, <2>1, <3>1, OneCallGoesOn DEF Canceling, CancelEnds
  <2> QED
    BY <1>1, <2>2, <2>3
<1>2. CASE StreamAgent(c)
  BY <1>0, <1>2, StartRunEndsNoTurn DEF StreamAgent, Canceling
<1>3. CASE ReplaceAgentRun(c)
  <2>1. CASE HasInFlightRun
    <3> DEFINE a == [agent[current] EXCEPT !.replacing = TRUE]
    <3>1. current \in Sessions /\ agent[current] \in Agents /\ current # None
      BY <1>3 DEF ReplaceAgentRun, TypeOK
    <3>2. a.turn = agent[current].turn
      BY <3>1 DEF Agents
    <3>3. /\ agent' = [agent EXCEPT ![current] = a]
          /\ BeginCancel(c, "replace") /\ UNCHANGED <<current, waiter, handling>>
      BY <1>3, <2>1, <3>1 DEF ReplaceAgentRun, TypeOK
    <3> HIDE DEF a
    <3>4. TurnsOnlyEnd
      BY <3>1, <3>2, <3>3, TurnWrittenBack
    <3> QED
      BY <1>0, <3>1, <3>3, <3>4, BeginCancelGoesOn, OneCallGoesOn
  <2>2. CASE ~HasInFlightRun
    BY <1>0, <1>3, <2>2, StartRunEndsNoTurn DEF ReplaceAgentRun, Canceling
  <2> QED
    BY <2>1, <2>2
<1>4. CASE CancelAgentRun(c)
  BY <1>1, <1>4 DEF CancelAgentRun, HasInFlightRun
<1>5. CASE CloseAgent(c)
  <2>1. /\ \A d \in Calls : d # c => call'[d] = call[d]
        /\ call'[c].at = "closing" /\ current' = None
        /\ UNCHANGED <<agent, handling>>
        /\ \A d \in Calls : waiter'[d] = "live" => waiter[d] = "live"
    BY <1>5 DEF CloseAgent, NewCall, TypeOK
  <2>2. \A d \in Calls : GoesOn(d) /\ CancelEnds(d)
    BY <1>0, <2>1 DEF GoesOn, CancelEnds, Canceling
  <2> QED
    BY <2>1, <2>2 DEF EndingStep, TurnsOnlyEnd
<1>6. CASE ReloadAgentSession(c)
  BY <1>1, <1>6 DEF ReloadAgentSession
<1>7. CASE ResumeAgent(c)
  BY <1>1, <1>7 DEF ResumeAgent
<1> QED
  BY <1>2, <1>3, <1>4, <1>5, <1>6, <1>7 DEF Request

\* cancelAgentRun goes on when its turn is not active any more.
LEMMA CancelContinuesEndsNoTurn ==
    ASSUME TypeOK, TurnsFit, NEW c \in Calls,
           CancelObserved(c) \/ CancelForced(c) \/ StaleRunSettled(c)
    PROVE  EndingStep /\ \A d \in Calls : CancelEnds(d)
<1>1. call[c].on \in Sessions /\ agent[call[c].on] \in Agents
  BY DEF CancelObserved, CancelForced, StaleRunSettled, TypeOK, Attached,
         CallStates
<1>2. CASE CancelObserved(c) \/ StaleRunSettled(c)
  <2>1. /\ \A d \in Calls : d # c => call'[d] = call[d]
        /\ call'[c].at \notin Canceling
    <3>1. CancelReturns(c)
      BY <1>2 DEF CancelObserved, StaleRunSettled
    <3> QED
      BY <3>1 DEF CancelReturns, Finish, Returned, NewCall, TypeOK,
                  CallStates, Canceling
  <2>2. UNCHANGED <<current, agent, waiter, handling>>
    BY <1>2 DEF CancelObserved, StaleRunSettled
  <2>3. call[c].turn # None => agent[call[c].on].turn # call[c].turn
    BY <1>2 DEF CancelObserved, StillActive, StaleRunSettled, TurnsFit,
                CancelsFit, Canceling
  <2>4. CancelEnds(c) /\ TurnsOnlyEnd
    BY <2>2, <2>3 DEF CancelEnds, TurnsOnlyEnd
  <2>5. call[c].at \notin {"streaming", "out"}
    BY <1>2 DEF CancelObserved, StaleRunSettled
  <2> QED
    BY <2>1, <2>2, <2>4, <2>5, OneCallGoesOn
<1>3. CASE CancelForced(c)
  <2> DEFINE s == call[c].on
             turn == call[c].turn
             a == [agent[s] EXCEPT !.failed = FALSE]
  <2>1. a \in Agents
    BY <1>1 DEF Agents
  <2>2. /\ call[c].at = "canceling" /\ StillActive(c) /\ FinalizeInto(s, a)
        /\ waiter' = Notified(turn, WaitsOn(s, turn))
        /\ call' = [call EXCEPT ![c].at = "awaitStale", ![c].run = pendingRun]
        /\ UNCHANGED <<current, handling>>
    BY <1>3 DEF CancelForced
  <2>3. TurnsOnlyEnd /\ agent'[s].turn = None
    BY <1>1, <2>1, <2>2, FinalizeEndsTurn
  <2>4. /\ turn # None /\ agent[s].turn = turn
        /\ \A d \in Calls : d # c => call'[d] = call[d]
        /\ call'[c].at = "awaitStale" /\ call'[c].turn = turn /\ call'[c].on = s
    BY <2>2 DEF StillActive, TypeOK, CallStates
  <2>5. \A d \in Calls : GoesOn(d) /\ CancelEnds(d)
    BY <2>2, <2>3, <2>4 DEF GoesOn, CancelEnds, Canceling
  <2>6. /\ \A d \in Calls : waiter'[d] = "live" => waiter[d] = "live"
        /\ \A d \in Calls : waiter[d] = "live" /\ waiter'[d] # "live" =>
             d = turn /\ call[d].on = s
    BY <2>2 DEF Notified, WaitsOn, TypeOK
  <2>7. ASSUME NEW d \in Calls, waiter[d] = "live", waiter'[d] # "live",
               current # None, agent'[current].turn = d
        PROVE  FALSE
    <3>1. current \in Sessions /\ d # None
      BY <2>7, CallsAssumption DEF TypeOK
    <3>2. agent[current].turn = d
      BY <2>3, <2>7, <3>1 DEF TurnsOnlyEnd
    <3>3. call[d].on = current
      BY <2>7, <3>1, <3>2 DEF TurnsFit, ActiveTurnHasForwarder
    <3>4. current = s
      BY <2>6, <2>7, <3>3
    <3> QED
      BY <2>3, <2>7, <3>1, <3>4
  <2> QED
    BY <2>2, <2>3, <2>5, <2>6, <2>7 DEF EndingStep
<1> QED
  BY <1>2, <1>3

\* A rejected start makes no turn active.
LEMMA StartTurnRejectsEndsNoTurn ==
    ASSUME TypeOK, NEW c \in Calls, StartTurnRejects(c)
    PROVE  EndingStep /\ \A d \in Calls : CancelEnds(d)
<1> DEFINE s == call[c].on
           a == [agent[s] EXCEPT !.life = "error", !.failed = TRUE]
<1>1. s \in Sessions /\ agent[s] \in Agents
  BY DEF StartTurnRejects, TypeOK, Attached, CallStates
<1>2. a \in Agents
  BY <1>1 DEF Agents, Lifecycles
<1>3. FinalizeInto(s, a)
  BY DEF StartTurnRejects
<1>4. TurnsOnlyEnd
  BY <1>1, <1>2, <1>3, FinalizeEndsTurn
<1>5. /\ \A d \in Calls : d # c => call'[d] = call[d]
      /\ call'[c].at \notin Canceling
  BY DEF StartTurnRejects, Finish, Goto, Returned, NewCall, TypeOK,
         CallStates, Canceling
<1>6. UNCHANGED <<current, waiter, handling>>
  BY DEF StartTurnRejects
<1>7. call[c].at \in {"startTurn", "startRefused"} /\ CancelEnds(c)
  BY DEF StartTurnRejects, CancelEnds, Canceling
<1> QED
  BY <1>4, <1>5, <1>6, <1>7, OneCallGoesOn

\* A forwarder ends only when it was told to.
LEMMA ForwarderEndsNoTurn ==
    ASSUME TypeOK, NEW c \in Calls, ForwarderEnds(c)
    PROVE  EndingStep /\ \A d \in Calls : CancelEnds(d)
<1>1. /\ call[c].at = "streaming" /\ waiter[c] \in {"notified", "settled"}
      /\ \A d \in Calls : d # c => call'[d] = call[d] /\ waiter'[d] = waiter[d]
      /\ call'[c].at = "out" /\ waiter'[c] = "none"
      /\ UNCHANGED <<current, agent, handling>>
  BY DEF ForwarderEnds, Finish, Returned, NewCall, TypeOK
<1>2. \A d \in Calls : GoesOn(d) /\ CancelEnds(d)
  BY <1>1 DEF GoesOn, CancelEnds, Canceling
<1>3. TurnsOnlyEnd
  BY <1>1 DEF TurnsOnlyEnd
<1> QED
  BY <1>1, <1>2, <1>3 DEF EndingStep

\* A replacement that gives up leaves every turn as it is.
LEMMA ReplacementFailsEndsNoTurn ==
    ASSUME TypeOK, NEW c \in Calls, ReplacementFails(c)
    PROVE  EndingStep /\ \A d \in Calls : CancelEnds(d)
<1>1. call[c].at \in {"startFailed", "canceled"}
  BY DEF ReplacementFails, ReplacementThrew, Replacing
<1>2. /\ \A d \in Calls : d # c => call'[d] = call[d]
      /\ call'[c].at \notin Canceling
  BY DEF ReplacementFails, Finish, Returned, NewCall, TypeOK, Canceling
<1>3. UNCHANGED <<current, waiter, handling>>
  BY DEF ReplacementFails
<1>4. TurnsOnlyEnd
  <2>1. CASE current = None
    BY <2>1 DEF ReplacementFails, TurnsOnlyEnd
  <2>2. CASE current # None
    <3> DEFINE a == [agent[current] EXCEPT !.replacing = FALSE]
               b == IF a.turn = None /\ a.life = "running"
                    THEN [a EXCEPT !.life = "idle"] ELSE a
    <3>1. current \in Sessions /\ agent[current] \in Agents
      BY <2>2 DEF TypeOK
    <3>2. a.turn = agent[current].turn /\ a \in Agents
      BY <3>1 DEF Agents
    <3>3. b.turn = agent[current].turn
      BY <3>2 DEF Agents
    <3>4. agent' = [agent EXCEPT ![current] = b]
      BY <2>2 DEF ReplacementFails
    <3> HIDE DEF b
    <3> QED
      BY <3>1, <3>3, <3>4, TurnWrittenBack
  <2> QED
    BY <2>1, <2>2
<1>5. CancelEnds(c)
  BY <1>1 DEF CancelEnds, Canceling
<1> QED
  BY <1>1, <1>2, <1>3, <1>4, <1>5, OneCallGoesOn

\* A reload drops the registered object and settles the waiters of another.
LEMMA SessionResumedEndsNoTurn ==
    ASSUME TypeOK, NEW c \in Calls, SessionResumed(c)
    PROVE  EndingStep /\ \A d \in Calls : CancelEnds(d)
<1>1. /\ call[c].at = "resuming"
      /\ \A d \in Calls : d # c => call'[d] = call[d]
      /\ call'[c].at \in {"naming", "closingOld"}
      /\ UNCHANGED <<agent, handling>>
  BY DEF SessionResumed, Goto, TypeOK, CallStates
<1>2. \A d \in Calls : GoesOn(d) /\ CancelEnds(d)
  BY <1>1 DEF GoesOn, CancelEnds, Canceling
<1>3. TurnsOnlyEnd
  BY <1>1 DEF TurnsOnlyEnd
<1>4. \/ UNCHANGED <<current, waiter>>
      \/ /\ current' = None
         /\ \A d \in Calls : waiter'[d] = "live" => waiter[d] = "live"
  BY DEF SessionResumed
<1> QED
  BY <1>1, <1>2, <1>3, <1>4 DEF EndingStep

\* A registered object starts without a turn.
LEMMA RegistrationEndsNoTurn ==
    ASSUME TypeOK, NEW c \in Calls,
           \/ \E s \in Sessions : Register(c, s)
           \/ RegistrationEmits(c) \/ RegistrationSettles(c)
           \/ RegistrationEnds(c)
    PROVE  EndingStep /\ \A d \in Calls : CancelEnds(d)
<1>1. call[c].at \in {"naming", "registered", "initializing", "announcing"}
  BY DEF Register, RegistrationEmits, RegistrationSettles, RegistrationEnds
<1>2. /\ \A d \in Calls : d # c => call'[d] = call[d]
      /\ call'[c].at \notin Canceling
  BY DEF Register, RegistrationEmits, RegistrationSettles, RegistrationEnds,
         Goto, Finish, Returned, NewCall, TypeOK, CallStates, Canceling
<1>3. UNCHANGED <<waiter, handling>>
  BY DEF Register, RegistrationEmits, RegistrationSettles, RegistrationEnds
<1>4. CancelEnds(c)
  BY <1>1 DEF CancelEnds, Canceling
<1>5. ASSUME NEW s \in Sessions, Register(c, s)
      PROVE  TurnsOnlyEnd /\ current' \in Sessions /\ agent'[current'].turn = None
  <2> DEFINE a == [life |-> "initializing", turn |-> None,
                   replacing |-> FALSE, failed |-> call[c].failed]
  <2>1. agent' = [agent EXCEPT ![s] = a] /\ current' = s /\ a.turn = None
    BY <1>5 DEF Register
  <2> HIDE DEF a
  <2>2. TurnsOnlyEnd
    BY <2>1, TurnWrittenBack
  <2>3. agent'[s] = a
    BY <2>1 DEF TypeOK
  <2> QED
    BY <2>1, <2>2, <2>3
<1>6. ASSUME RegistrationSettles(c)
      PROVE  TurnsOnlyEnd /\ current' = current
  <2> DEFINE s == call[c].on
             a == [agent[s] EXCEPT !.life = "idle"]
  <2>1. s \in Sessions /\ agent[s] \in Agents
    BY <1>6 DEF RegistrationSettles, TypeOK, Attached, CallStates
  <2>2. a.turn = agent[s].turn
    BY <2>1 DEF Agents
  <2>3. agent' = [agent EXCEPT ![s] = a] /\ current' = current
    BY <1>6, <2>1 DEF RegistrationSettles, TypeOK
  <2> HIDE DEF a
  <2> QED
    BY <2>1, <2>2, <2>3, TurnWrittenBack
<1>7. ASSUME RegistrationEmits(c) \/ RegistrationEnds(c)
      PROVE  TurnsOnlyEnd /\ current' = current
  BY <1>7 DEF RegistrationEmits, RegistrationEnds, TurnsOnlyEnd
<1> QED
  BY <1>1, <1>2, <1>3, <1>4, <1>5, <1>6, <1>7, OneCallGoesOn

\* The rest of close, reload and resume.
LEMMA ReopeningEndsNoTurn ==
    ASSUME TypeOK, NEW c \in Calls,
           \/ CloseReturns(c) \/ ReloadContinues(c) \/ ResumeFails(c)
           \/ OldSessionClosed(c)
    PROVE  EndingStep /\ \A d \in Calls : CancelEnds(d)
<1>1. call[c].at \in {"closing", "canceled", "resuming", "closingOld"}
  BY DEF CloseReturns, ReloadContinues, ResumeFails, OldSessionClosed
<1>2. /\ \A d \in Calls : d # c => call'[d] = call[d]
      /\ call'[c].at \notin Canceling
  <2>1. CASE Finish(c)
    BY <2>1 DEF Finish, Returned, NewCall, TypeOK, Canceling
  <2>2. CASE BeginResuming(c, "reload", current)
    BY <2>2 DEF BeginResuming, NewCall, TypeOK, Canceling
  <2>3. CASE Goto(c, "naming")
    BY <2>3 DEF Goto, TypeOK, CallStates, Canceling
  <2> QED
    BY <2>1, <2>2, <2>3
       DEF CloseReturns, ReloadContinues, ResumeFails, OldSessionClosed
<1>3. UNCHANGED <<current, agent, waiter, handling>>
  BY DEF CloseReturns, ReloadContinues, ResumeFails, OldSessionClosed
<1>4. CancelEnds(c) /\ TurnsOnlyEnd
  BY <1>1, <1>3 DEF CancelEnds, Canceling, TurnsOnlyEnd
<1> QED
  BY <1>1, <1>2, <1>3, <1>4, OneCallGoesOn

\* No continuation but a resolved start makes a turn active.
LEMMA ContinueEndsNoTurn ==
    ASSUME TypeOK, TurnsFit, NEW c \in Calls, Continue(c),
           ~StartTurnResolves(c)
    PROVE  EndingStep /\ \A d \in Calls : CancelEnds(d)
<1>1. CASE ReplacementStarts(c)
  BY <1>1, StartRunEndsNoTurn DEF ReplacementStarts, Replacing, Canceling
<1>2. CASE CancelObserved(c) \/ CancelForced(c) \/ StaleRunSettled(c)
  BY <1>2, CancelContinuesEndsNoTurn
<1>3. CASE \/ \E s \in Sessions : Register(c, s)
           \/ RegistrationEmits(c) \/ RegistrationSettles(c)
           \/ RegistrationEnds(c)
  BY <1>3, RegistrationEndsNoTurn
<1>4. CASE \/ CloseReturns(c) \/ ReloadContinues(c) \/ ResumeFails(c)
           \/ OldSessionClosed(c)
  BY <1>4, ReopeningEndsNoTurn
<1> QED
  BY <1>1, <1>2, <1>3, <1>4, StartTurnRejectsEndsNoTurn, ForwarderEndsNoTurn,
     ReplacementFailsEndsNoTurn, SessionResumedEndsNoTurn DEF Continue

\* An event about turn t that wakes its forwarder leaves t inactive.
LEMMA EventEndsTurn ==
    ASSUME TypeOK, NEW t, NEW wakes, waiter' = Notified(t, wakes), TurnsOnlyEnd,
           wakes => t # None /\ (current # None => agent'[current].turn # t),
           UNCHANGED <<current, call>>, handling' \in {handling, None}
    PROVE  EndingStep /\ \A d \in Calls : CancelEnds(d)
<1>1. \A d \in Calls : /\ waiter'[d] = "live" => waiter[d] = "live"
                       /\ waiter'[d] # waiter[d] => d = t /\ wakes
  BY DEF Notified, TypeOK
<1>2. \A d \in Calls : GoesOn(d) /\ CancelEnds(d)
  BY DEF GoesOn, CancelEnds
<1> QED
  BY <1>1, <1>2 DEF EndingStep

\* So does a step that touches no forwarder.
LEMMA QuietStepEndsTurns ==
    ASSUME TypeOK, TurnsOnlyEnd, UNCHANGED <<current, call, waiter>>,
           handling' \in {handling, None}
    PROVE  EndingStep /\ \A d \in Calls : CancelEnds(d)
<1>1. \A d \in Calls : GoesOn(d) /\ CancelEnds(d)
  BY DEF GoesOn, CancelEnds
<1> QED
  BY <1>1 DEF EndingStep

\* The event handled next.
LEMMA NextEventType ==
    ASSUME TypeOK, NextEvent
    PROVE  Head(tail) \in Events /\ handling = None
BY DEF NextEvent, TypeOK

\* turn_completed, turn_canceled and turn_failed, handled at once.
LEMMA OverEndsTurn ==
    ASSUME TypeOK, HandleTurnOver \/ HandleTurnFailedAtOnce
    PROVE  EndingStep /\ \A d \in Calls : CancelEnds(d)
<1> DEFINE e == Head(tail)
           s == current
<1>1. s \in Sessions /\ agent[s] \in Agents
  BY DEF HandleTurnOver, HandleTurnFailedAtOnce, HandlesFailure, TypeOK
<1>2. /\ waiter' = Notified(e.turn, WaitsOn(s, e.turn))
      /\ UNCHANGED <<current, call, handling>>
  BY DEF HandleTurnOver, HandleTurnFailedAtOnce
<1>3. PICK a \in Agents :
        /\ a.turn = agent[s].turn
        /\ \/ Foreground(e) /\ FinalizeInto(s, a)
           \/ ~Foreground(e) /\ agent' = [agent EXCEPT ![s] = a]
  <2>1. CASE HandleTurnOver
    <3> DEFINE b == [agent[s] EXCEPT !.failed = FALSE]
               rests == IF b.replacing THEN b ELSE [b EXCEPT !.life = "idle"]
    <3>1. b \in Agents /\ b.turn = agent[s].turn
      BY <1>1 DEF Agents
    <3>2. rests \in Agents /\ rests.turn = agent[s].turn
      BY <3>1 DEF Agents, Lifecycles
    <3>3. \/ Foreground(e) /\ FinalizeInto(s, b)
          \/ ~Foreground(e) /\ agent' = [agent EXCEPT ![s] = rests]
      BY <2>1 DEF HandleTurnOver
    <3> HIDE DEF b, rests
    <3> QED
      BY <3>1, <3>2, <3>3
  <2>2. CASE HandleTurnFailedAtOnce
    <3>1. WithFailure(e) \in Agents /\ WithFailure(e).turn = agent[s].turn
      BY <1>1 DEF WithFailure, Agents, Lifecycles
    <3>2. \/ Foreground(e) /\ FinalizeInto(s, WithFailure(e))
          \/ ~Foreground(e) /\ agent' = [agent EXCEPT ![s] = WithFailure(e)]
      BY <2>2 DEF HandleTurnFailedAtOnce
    <3> QED
      BY <3>1, <3>2
  <2> QED
    BY <2>1, <2>2
<1>4. /\ TurnsOnlyEnd
      /\ WaitsOn(s, e.turn) => e.turn # None /\ agent'[s].turn # e.turn
  <2>1. CASE Foreground(e) /\ FinalizeInto(s, a)
    <3>1. TurnsOnlyEnd /\ agent'[s].turn = None
      BY <1>1, <1>3, <2>1, FinalizeEndsTurn
    <3> QED
      BY <2>1, <3>1 DEF Foreground
  <2>2. CASE ~Foreground(e) /\ agent' = [agent EXCEPT ![s] = a]
    <3>1. TurnsOnlyEnd /\ agent'[s].turn = agent[s].turn
      BY <1>1, <1>3, <2>2 DEF TypeOK, TurnsOnlyEnd
    <3> QED
      BY <2>2, <3>1 DEF Foreground, WaitsOn
  <2> QED
    BY <1>3, <2>1, <2>2
<1> HIDE DEF e, s
<1> DEFINE wakes == WaitsOn(s, e.turn)
<1>5. wakes => e.turn # None /\ (current # None => agent'[current].turn # e.turn)
  BY <1>4 DEF s
<1> HIDE DEF wakes
<1>6. waiter' = Notified(e.turn, wakes)
  BY <1>2 DEF wakes
<1> QED
  BY <1>2, <1>4, <1>5, <1>6, EventEndsTurn

\* A suspended turn_failed wakes the forwarder of a turn that has ended.
LEMMA ResumingEndsTurn ==
    ASSUME TypeOK, TurnsFit, TurnFailedResumes
    PROVE  EndingStep /\ \A d \in Calls : CancelEnds(d)
<1> DEFINE s == handling.on
           t == handling.turn
<1>1. s \in Sessions /\ agent[s] \in Agents /\ handling # None
  BY DEF TurnFailedResumes, TypeOK, Suspends
<1>2. /\ TurnsOnlyEnd
      /\ handling.foreground => agent'[s].turn = None
  <2>1. CASE handling.foreground
    BY <1>1, <2>1, FinalizeEndsTurn DEF TurnFailedResumes
  <2>2. CASE ~handling.foreground
    BY <2>2 DEF TurnFailedResumes, TurnsOnlyEnd
  <2> QED
    BY <2>1, <2>2
<1>3. ASSUME handling.notify
      PROVE  t # None /\ (current # None => agent'[current].turn # t)
  <2>1. /\ Begun(call, t) /\ t # None
        /\ call[t].at = "streaming" => call[t].on = s
        /\ ~handling.foreground => agent[s].turn # t
    BY <1>1, <1>3, CallsAssumption DEF TurnsFit, NotifyFits, Begun
  <2>2. ASSUME current # None, agent'[current].turn = t
        PROVE  FALSE
    <3>1. agent[current].turn = t
      BY <1>2, <2>1, <2>2 DEF TurnsOnlyEnd, TypeOK
    <3>2. call[t].at = "streaming" /\ call[t].on = current
      BY <2>1, <2>2, <3>1 DEF TurnsFit, ActiveTurnHasForwarder
    <3>3. current = s
      BY <2>1, <3>2
    <3> QED
      BY <1>2, <2>1, <2>2, <3>1, <3>3
  <2> QED
    BY <2>1, <2>2
<1>4. /\ waiter' = Notified(t, handling.notify)
      /\ UNCHANGED <<current, call>> /\ handling' = None
  BY DEF TurnFailedResumes
<1> HIDE DEF s, t
<1> QED
  BY <1>2, <1>3, <1>4, EventEndsTurn

\* What is left of the events, and what the provider does.
LEMMA QuietOthersEndNoTurn ==
    ASSUME TypeOK,
           \/ DropEvent \/ HandleTurnStarted \/ EmitState \/ UNCHANGED vars
           \/ \E s \in Sessions : FailedStartEmits(s) \/ ProviderActs(s)
    PROVE  EndingStep /\ \A d \in Calls : CancelEnds(d)
<1>1. UNCHANGED <<current, call, waiter, handling>>
  BY DEF DropEvent, HandleTurnStarted, EmitState, FailedStartEmits,
         ProviderActs, ProviderStartsTurn, ProviderEndsTurn,
         ProviderRunsAutonomously, ProviderEndsAutonomously, vars
<1>2. CASE UNCHANGED agent
  <2>1. TurnsOnlyEnd
    BY <1>2 DEF TurnsOnlyEnd
  <2> QED
    BY <1>1, <2>1, QuietStepEndsTurns
<1>3. CASE HandleTurnStarted /\ ~UNCHANGED agent
  <2> DEFINE a == [agent[current] EXCEPT !.life = "running"]
  <2>1. current \in Sessions /\ agent[current] \in Agents
    BY <1>3 DEF HandleTurnStarted, TypeOK
  <2>2. a.turn = agent[current].turn
    BY <2>1 DEF Agents
  <2>3. agent' = [agent EXCEPT ![current] = a]
    BY <1>3, <2>1 DEF HandleTurnStarted, TypeOK
  <2> HIDE DEF a
  <2>4. TurnsOnlyEnd
    BY <2>1, <2>2, <2>3, TurnWrittenBack
  <2> QED
    BY <1>1, <2>4, QuietStepEndsTurns
<1> QED
  BY <1>2, <1>3
     DEF DropEvent, EmitState, FailedStartEmits, ProviderActs,
         ProviderStartsTurn, ProviderEndsTurn, ProviderRunsAutonomously,
         ProviderEndsAutonomously, vars

\* The one step that makes a turn active gives it a forwarder.
LEMMA StartTurnResolvesKeepsTurns ==
    ASSUME TypeOK, TurnsFit, NEW c \in Calls, StartTurnResolves(c)
    PROVE  TurnsFit' /\ \A d \in Calls : CancelEnds(d)
<1> DEFINE s == call[c].on
<1>1. s \in Sessions /\ call[c].at = "startTurn"
  BY DEF StartTurnResolves, TypeOK, Attached, CallStates
<1>2. /\ agent'[s].turn = c
      /\ \A u \in Sessions : u # s => agent'[u] = agent[u]
  BY <1>1 DEF StartTurnResolves, TypeOK, Agents
<1>3. /\ call'[c].at = "streaming" /\ call'[c].on = s /\ waiter'[c] = "live"
      /\ \A d \in Calls : d # c => call'[d] = call[d] /\ waiter'[d] = waiter[d]
      /\ UNCHANGED <<current, handling>>
  BY DEF StartTurnResolves, Goto, TypeOK, CallStates
<1>4. ASSUME NEW t, Begun(call, t)
      PROVE  t # c /\ Begun(call', t) /\ call'[t] = call[t]
  BY <1>1, <1>3, <1>4 DEF Begun
<1>5. ActiveTurnHasForwarder'
  <2> SUFFICES ASSUME current' # None, agent'[current'].turn # None
               PROVE  /\ call'[agent'[current'].turn].at = "streaming"
                      /\ call'[agent'[current'].turn].on = current'
                      /\ waiter'[agent'[current'].turn] = "live"
    BY DEF ActiveTurnHasForwarder
  <2>1. CASE current = s
    BY <1>2, <1>3, <2>1
  <2>2. CASE current # s
    <3>1. current \in Sessions /\ agent'[current'] = agent[current]
      BY <1>2, <1>3, <2>2 DEF TypeOK
    <3>2. /\ call[agent[current].turn].at = "streaming"
          /\ call[agent[current].turn].on = current
          /\ waiter[agent[current].turn] = "live"
      BY <3>1, <1>3 DEF TurnsFit, ActiveTurnHasForwarder
    <3>3. agent[current].turn \in Calls
      BY <3>1 DEF TypeOK, Agents, CallSlot
    <3> QED
      BY <1>1, <1>3, <3>1, <3>2, <3>3
  <2> QED
    BY <2>1, <2>2
<1>6. LiveForwardersStream'
  BY <1>3 DEF TurnsFit, LiveForwardersStream
<1>7. NotifyFits'
  <2> SUFFICES ASSUME handling # None, handling.notify
               PROVE  /\ Begun(call', handling.turn)
                      /\ call'[handling.turn].at = "streaming" =>
                           call'[handling.turn].on = handling.on
                      /\ ~handling.foreground =>
                           agent'[handling.on].turn # handling.turn
    BY <1>3 DEF NotifyFits, Begun
  <2>1. /\ Begun(call, handling.turn)
        /\ call[handling.turn].at = "streaming" =>
             call[handling.turn].on = handling.on
        /\ ~handling.foreground => agent[handling.on].turn # handling.turn
    BY DEF TurnsFit, NotifyFits
  <2>2. handling.on \in Sessions
    BY DEF TypeOK, Suspends
  <2> QED
    BY <1>2, <1>4, <2>1, <2>2
<1>8. CancelsFit'
  <2> SUFFICES ASSUME NEW d \in Calls, call'[d].at \in Canceling,
                      call'[d].turn # None
               PROVE  /\ Begun(call', call'[d].turn)
                      /\ call'[d].at = "awaitStale" =>
                           agent'[call'[d].on].turn # call'[d].turn
    BY DEF CancelsFit, Begun
  <2>1. d # c /\ call'[d] = call[d]
    BY <1>3 DEF Canceling
  <2>2. /\ Begun(call, call[d].turn)
        /\ call[d].at = "awaitStale" =>
             agent[call[d].on].turn # call[d].turn
    BY <2>1 DEF TurnsFit, CancelsFit
  <2>3. call[d].on \in Sessions
    BY <2>1 DEF TypeOK, CallStates, Canceling, Attached
  <2> QED
    BY <1>2, <1>4, <2>1, <2>2, <2>3
<1>9. \A d \in Calls : CancelEnds(d)
  BY <1>1, <1>3 DEF CancelEnds, Canceling
<1> QED
  BY <1>5, <1>6, <1>7, <1>8, <1>9 DEF TurnsFit

\* A turn_failed that suspends has looked at the turn it is going to end.
LEMMA HandleTurnFailedKeepsTurns ==
    ASSUME TypeOK, TurnsFit, HandleTurnFailed
    PROVE  TurnsFit' /\ \A d \in Calls : CancelEnds(d)
<1> DEFINE e == Head(tail)
<1>1. /\ current \in Sessions /\ current # None /\ agent[current] \in Agents
      /\ e \in Events
  BY NextEventType DEF HandleTurnFailed, HandlesFailure, TypeOK
<1>2. /\ handling' = [on |-> current, turn |-> e.turn,
                      foreground |-> Foreground(e),
                      notify |-> WaitsOn(current, e.turn)]
      /\ agent' = [agent EXCEPT ![current] = WithFailure(e)]
      /\ UNCHANGED <<current, call, waiter>>
  BY DEF HandleTurnFailed
<1>3. WithFailure(e).turn = agent[current].turn
  BY <1>1 DEF WithFailure, Agents
<1>4. \A s \in Sessions : agent'[s].turn = agent[s].turn
  BY <1>1, <1>2, <1>3 DEF TypeOK
<1>5. ActiveTurnHasForwarder' /\ LiveForwardersStream'
  BY <1>1, <1>2, <1>4
     DEF TurnsFit, ActiveTurnHasForwarder, LiveForwardersStream
<1>6. NotifyFits'
  <2> SUFFICES ASSUME WaitsOn(current, e.turn)
               PROVE  /\ Begun(call', e.turn)
                      /\ call'[e.turn].on = current
                      /\ ~Foreground(e) => agent'[current].turn # e.turn
    BY <1>2 DEF NotifyFits, Begun
  <2>1. e.turn \in Calls
    BY <1>1 DEF WaitsOn, Events, CallSlot
  <2>2. call[e.turn].at = "streaming" /\ call[e.turn].on = current
    BY <2>1 DEF WaitsOn, TurnsFit, LiveForwardersStream
  <2> QED
    BY <1>1, <1>2, <1>4, <2>1, <2>2 DEF Begun, Foreground, WaitsOn
<1>7. CancelsFit'
  <2>1. \A d \in Calls : call[d].at \in Canceling => call[d].on \in Sessions
    BY DEF TypeOK, CallStates, Canceling, Attached
  <2> QED
    BY <1>2, <1>4, <2>1 DEF TurnsFit, CancelsFit, Begun
<1>8. \A d \in Calls : CancelEnds(d)
  BY <1>2 DEF CancelEnds
<1> QED
  BY <1>5, <1>6, <1>7, <1>8 DEF TurnsFit

\* Every step keeps what is said of turns and lets a cancel go on only when
\* its turn is over.
LEMMA TurnsFitStep ==
    ASSUME TypeOK, TurnsFit, [Next]_vars
    PROVE  TurnsFit' /\ \A d \in Calls : CancelEnds(d)
<1>1. CASE \E c \in Calls : StartTurnResolves(c)
  BY <1>1, StartTurnResolvesKeepsTurns
<1>2. CASE HandleTurnFailed
  BY <1>2, HandleTurnFailedKeepsTurns
<1>3. CASE \E c \in Calls :
             Request(c) \/ (Continue(c) /\ ~StartTurnResolves(c))
  BY <1>3, RequestEndsNoTurn, ContinueEndsNoTurn, EndingStepKeepsTurns
<1>4. CASE HandleTurnOver \/ HandleTurnFailedAtOnce
  BY <1>4, OverEndsTurn, EndingStepKeepsTurns
<1>5. CASE TurnFailedResumes
  BY <1>5, ResumingEndsTurn, EndingStepKeepsTurns
<1>6. CASE \/ DropEvent \/ HandleTurnStarted \/ EmitState \/ UNCHANGED vars
           \/ \E s \in Sessions : FailedStartEmits(s) \/ ProviderActs(s)
  BY <1>6, QuietOthersEndNoTurn, EndingStepKeepsTurns
<1> QED
  BY <1>1, <1>2, <1>3, <1>4, <1>5, <1>6 DEF Next, HandleEvents

\* No turn is active, suspended on or canceled at first.
LEMMA TurnsFitInit == Init => TurnsFit
BY DEF Init, TurnsFit, ActiveTurnHasForwarder, LiveForwardersStream,
       NotifyFits, CancelsFit, Canceling, Returned, NewCall

LEMMA TurnsFitHolds == Spec => []TurnsFit
BY TurnsFitInit, TurnsFitStep, TypeCorrect, PTL DEF Spec

\* The active foreground turn of the registered agent always has a forwarder
\* that waits for it: no cancel, late event or suspended handler of
\* handleStreamEvent leaves activeForegroundTurnId set with nobody to clear
\* the pending run when the turn ends.
THEOREM ActiveTurnHasForwarderHolds == Spec => []ActiveTurnHasForwarder
<1>1. TurnsFit => ActiveTurnHasForwarder
  BY DEF TurnsFit
<1> QED
  BY <1>1, TurnsFitHolds, PTL

\* When cancelAgentRun goes on or returns, its turn is not the active turn of
\* its agent: not because a timer ended the wait, nor because another call
\* finished the turn first, can the turn come back.
THEOREM CancelLeavesTurnInactiveHolds == Spec => CancelLeavesTurnInactive
<1> DEFINE Ends ==
        \A c \in Calls :
            call[c].at \in {"canceling", "awaitStale"} /\ call[c].turn # None
            /\ call'[c].at \notin {"canceling", "awaitStale"}
            => agent'[call[c].on].turn # call[c].turn
<1>1. TypeOK /\ TurnsFit /\ [Next]_vars => [Ends]_vars
  BY TurnsFitStep DEF CancelEnds, Canceling
<1>2. CancelLeavesTurnInactive <=> [][Ends]_vars
  BY DEF CancelLeavesTurnInactive
<1> HIDE DEF Ends
<1> QED
  BY <1>1, <1>2, TurnsFitHolds, TypeCorrect, PTL DEF Spec

-----------------------------------------------------------------------------
(* An agent that stays open.  Between a registration and its subscription  *)
(* events are lost, and a close emits late, so what is said of statuses    *)
(* below is of an agent that nobody closes, reloads or resumes.            *)

StaysOpen == Ops \cap {"close", "reload", "resume"} = {}

OpenStages == {"out", "startTurn", "startRefused", "streaming", "startFailed",
               "canceling", "awaitStale", "canceled"}

\* Call c is at an await of streamAgent, replaceAgentRun or cancelAgentRun on
\* the one object there ever is.
OpenCall(c) ==
    /\ call[c].at \in OpenStages
    /\ call[c].at \in Canceling => call[c].op \in {"cancel", "replace"}
    /\ call[c].at = "canceled" => call[c].op = "replace"
    /\ call[c].on \in {current, None}

Open ==
    /\ current \in Sessions
    /\ session[current].subscribed
    /\ \A s \in Sessions : session[s].subscribed => s = current
    /\ owed \subseteq {current}
    /\ handling # None => handling.on = current
    /\ \A c \in Calls : OpenCall(c)

\* What can happen to an open agent.
OpenRequest(c) == StreamAgent(c) \/ ReplaceAgentRun(c) \/ CancelAgentRun(c)

OpenContinue(c) ==
    \/ StartTurnResolves(c)  \/ StartTurnRejects(c) \/ ForwarderEnds(c)
    \/ CancelObserved(c)     \/ CancelForced(c)     \/ StaleRunSettled(c)
    \/ ReplacementStarts(c)  \/ ReplacementFails(c)

OpenEvents ==
    \/ HandleTurnStarted \/ HandleTurnOver
    \/ HandleTurnFailed  \/ TurnFailedResumes \/ HandleTurnFailedAtOnce

OpenProvider ==
    \/ ProviderStartsTurn(current)
    \/ ProviderRunsAutonomously(current)
    \/ \E type \in Terminals : ProviderEndsTurn(current, type)
                                 \/ ProviderEndsAutonomously(current, type)

OpenNext ==
    \/ \E c \in Calls : OpenRequest(c) \/ OpenContinue(c)
    \/ FailedStartEmits(current) \/ OpenProvider
    \/ OpenEvents \/ EmitState

\* Nothing else happens to an open agent.
LEMMA OpenSteps ==
    ASSUME TypeOK, StaysOpen, Open, [Next]_vars
    PROVE  [OpenNext]_vars
<1>1. current # None
  BY SessionsAssumption DEF Open
<1>2. \A c \in Calls : Request(c) => OpenRequest(c)
  BY DEF Request, OpenRequest, StaysOpen, CloseAgent, ReloadAgentSession,
         ResumeAgent, Fresh
<1>3. \A c \in Calls : Continue(c) => OpenContinue(c)
  <2> SUFFICES ASSUME NEW c \in Calls, Continue(c)
               PROVE  OpenContinue(c)
    OBVIOUS
  <2>1. OpenCall(c)
    BY DEF Open
  <2>2. ~ \/ CloseReturns(c) \/ ReloadContinues(c) \/ SessionResumed(c)
          \/ ResumeFails(c)  \/ OldSessionClosed(c)
    BY <2>1 DEF OpenCall, OpenStages, CloseReturns, ReloadContinues,
                SessionResumed, ResumeFails, OldSessionClosed
  <2>3. ~ \/ \E s \in Sessions : Register(c, s)
          \/ RegistrationEmits(c) \/ RegistrationSettles(c)
          \/ RegistrationEnds(c)
    BY <2>1 DEF OpenCall, OpenStages, Register, RegistrationEmits,
                RegistrationSettles, RegistrationEnds
  <2> QED
    BY <2>2, <2>3 DEF Continue, OpenContinue
<1>4. ASSUME NEW s \in Sessions, FailedStartEmits(s) \/ ProviderActs(s)
      PROVE  FailedStartEmits(current) \/ OpenProvider
  <2>1. s = current
    BY <1>4, SessionsAssumption
       DEF FailedStartEmits, ProviderActs, Reachable, Open, OpenCall
  <2> QED
    BY <1>4, <2>1 DEF ProviderActs, OpenProvider
<1>5. HandleEvents => OpenEvents
  BY <1>1 DEF HandleEvents, OpenEvents, DropEvent
<1> QED
  BY <1>2, <1>3, <1>4, <1>5 DEF Next, OpenNext

\* The one session the manager listens to stays the one.
SubscriptionsKept ==
    \A s \in Sessions : session'[s].subscribed = session[s].subscribed

\* A step of call c that leaves an open agent open.
LEMMA OpenCallMoves ==
    ASSUME Open, NEW c \in Calls, \A d \in Calls : d # c => call'[d] = call[d],
           OpenCall(c)', current' = current, SubscriptionsKept,
           owed' \subseteq {current}, UNCHANGED handling
    PROVE  Open'
BY DEF Open, OpenCall, SubscriptionsKept

\* An accepted streamAgent leaves the agent open.
LEMMA StartRunKeepsOpen ==
    ASSUME TypeOK, Open, NEW c \in Calls, NEW op, StartRun(c, op)
    PROVE  Open'
<1>1. current \in Sessions
  BY DEF Open
<1>2. /\ \A d \in Calls : d # c => call'[d] = call[d]
      /\ call'[c].at \in {"startTurn", "startRefused"} /\ call'[c].on = current
      /\ UNCHANGED <<current, owed, handling>>
  BY DEF StartRun, NewCall, TypeOK
<1>3. SubscriptionsKept
  BY <1>1 DEF StartRun, SubscriptionsKept, TypeOK, Provider
<1>4. OpenCall(c)'
  BY <1>2 DEF OpenCall, OpenStages, Canceling
<1> QED
  BY <1>2, <1>3, <1>4, OpenCallMoves DEF Open

\* So does a call that begins a cancel, moves to a later await or returns.
LEMMA OpenMoveTypes ==
    ASSUME TypeOK, Open, NEW c \in Calls,
           \/ Finish(c)
           \/ CancelReturns(c) /\ call[c].at \in Canceling
           \/ \E op \in {"cancel", "replace"} : BeginCancel(c, op)
           \/ \E stage \in OpenStages \ {"canceling", "awaitStale", "canceled"} :
                 Goto(c, stage)
           \/ \E run : /\ call' = [call EXCEPT ![c].at = "awaitStale",
                                               ![c].run = run]
                       /\ call[c].at = "canceling"
    PROVE  /\ \A d \in Calls : d # c => call'[d] = call[d]
           /\ current' = current => OpenCall(c)'
<1>1. call[c] \in CallStates /\ call \in [Calls -> CallStates] /\ OpenCall(c)
  BY DEF TypeOK, Open
<1>2. CASE Finish(c)
  BY <1>1, <1>2 DEF Finish, Returned, NewCall, OpenCall, OpenStages, Canceling
<1>3. CASE \E op \in {"cancel", "replace"} : BeginCancel(c, op)
  BY <1>1, <1>3 DEF BeginCancel, NewCall, OpenCall, OpenStages, Canceling
<1>4. CASE CancelReturns(c) /\ call[c].at \in Canceling /\ call[c].op # "cancel"
  BY <1>1, <1>4 DEF CancelReturns, CallStates, OpenCall, OpenStages, Canceling
<1>5. CASE \E stage \in OpenStages \ {"canceling", "awaitStale", "canceled"} :
             Goto(c, stage)
  <2>1. PICK stage \in OpenStages \ {"canceling", "awaitStale", "canceled"} :
           Goto(c, stage)
    BY <1>5
  <2>2. /\ \A d \in Calls : d # c => call'[d] = call[d]
        /\ call'[c].at = stage /\ call'[c].on = call[c].on
    BY <1>1, <2>1 DEF Goto, CallStates
  <2> QED
    BY <1>1, <2>1, <2>2 DEF OpenCall, OpenStages, Canceling
<1>6. CASE \E run : /\ call' = [call EXCEPT ![c].at = "awaitStale",
                                            ![c].run = run]
                    /\ call[c].at = "canceling"
  <2>1. PICK run : call' = [call EXCEPT ![c].at = "awaitStale", ![c].run = run]
    BY <1>6
  <2>2. /\ \A d \in Calls : d # c => call'[d] = call[d]
        /\ call'[c].at = "awaitStale" /\ call'[c].on = call[c].on
        /\ call'[c].op = call[c].op
    BY <1>1, <2>1 DEF CallStates
  <2> QED
    BY <1>1, <1>6, <2>2 DEF OpenCall, OpenStages, Canceling
<1> QED
  BY <1>2, <1>3, <1>4, <1>5, <1>6 DEF CancelReturns

\* No call closes an open agent.
LEMMA CallsKeepOpen ==
    ASSUME TypeOK, Open, NEW c \in Calls, OpenRequest(c) \/ OpenContinue(c)
    PROVE  Open'
<1> DEFINE Moves ==
        \/ Finish(c)
        \/ CancelReturns(c) /\ call[c].at \in Canceling
        \/ \E op \in {"cancel", "replace"} : BeginCancel(c, op)
        \/ \E stage \in OpenStages \ {"canceling", "awaitStale", "canceled"} :
              Goto(c, stage)
        \/ \E run : /\ call' = [call EXCEPT ![c].at = "awaitStale",
                                            ![c].run = run]
                    /\ call[c].at = "canceling"
<1>1. /\ current \in Sessions /\ owed \subseteq {current}
      /\ UNCHANGED session => SubscriptionsKept
  BY DEF Open, SubscriptionsKept
<1>2. ASSUME Moves, UNCHANGED <<current, handling>>, owed' \subseteq {current},
             SubscriptionsKept
      PROVE  Open'
  <2>1. /\ \A d \in Calls : d # c => call'[d] = call[d]
        /\ OpenCall(c)'
    BY <1>2, OpenMoveTypes
  <2> QED
    BY <1>2, <2>1, OpenCallMoves
<1>3. CASE StreamAgent(c) \/ ReplacementStarts(c)
  BY <1>3, StartRunKeepsOpen DEF StreamAgent, ReplacementStarts
<1>4. CASE ReplaceAgentRun(c)
  BY <1>1, <1>2, <1>4, StartRunKeepsOpen DEF ReplaceAgentRun
<1>5. CASE CancelAgentRun(c)
  BY <1>1, <1>2, <1>5 DEF CancelAgentRun
<1>6. CASE StartTurnResolves(c)
  BY <1>1, <1>2, <1>6 DEF StartTurnResolves, OpenStages
<1>7. CASE StartTurnRejects(c)
  <2>1. call[c].on = current
    BY <1>7 DEF StartTurnRejects, TypeOK, Attached, Open, OpenCall
  <2>2. SubscriptionsKept
    BY <1>1, <1>7, <2>1 DEF StartTurnRejects, SubscriptionsKept, TypeOK, Provider
  <2>3. Moves
    <3>1. Finish(c) \/ Goto(c, "startFailed")
      BY <1>7 DEF StartTurnRejects
    <3> QED
      BY <3>1 DEF OpenStages
  <2> QED
    BY <1>1, <1>2, <1>7, <2>1, <2>2, <2>3 DEF StartTurnRejects
<1>8. CASE ForwarderEnds(c) \/ ReplacementFails(c)
  <2>1. Finish(c) /\ UNCHANGED <<current, handling, owed, session>>
    BY <1>8 DEF ForwarderEnds, ReplacementFails
  <2> QED
    BY <1>1, <1>2, <2>1
<1>9. CASE CancelObserved(c) \/ StaleRunSettled(c)
  BY <1>1, <1>2, <1>9 DEF CancelObserved, StaleRunSettled, Canceling
<1>10. CASE CancelForced(c)
  BY <1>1, <1>2, <1>10 DEF CancelForced
<1> QED
  BY <1>3, <1>4, <1>5, <1>6, <1>7, <1>8, <1>9, <1>10
     DEF OpenRequest, OpenContinue

\* An agent that stays open is open.
LEMMA OpenStep ==
    ASSUME TypeOK, StaysOpen, Open, [Next]_vars
    PROVE  Open'
<1>0. [OpenNext]_vars
  BY OpenSteps
<1>1. CASE \E c \in Calls : OpenRequest(c) \/ OpenContinue(c)
  BY <1>1, CallsKeepOpen
<1>2. ASSUME FailedStartEmits(current) \/ OpenEvents \/ EmitState
             \/ UNCHANGED vars
      PROVE  Open'
  <2>1. UNCHANGED <<current, call, session>> /\ owed' \subseteq owed
    BY <1>2 DEF FailedStartEmits, OpenEvents, HandleTurnStarted,
                HandleTurnOver, HandleTurnFailed, TurnFailedResumes,
                HandleTurnFailedAtOnce, EmitState, vars
  <2>2. handling' # None => handling'.on = current
    BY <1>2 DEF FailedStartEmits, OpenEvents, HandleTurnStarted, Open,
                HandleTurnOver, HandleTurnFailed, TurnFailedResumes,
                HandleTurnFailedAtOnce, EmitState, vars
  <2> QED
    BY <2>1, <2>2 DEF Open, OpenCall
<1>3. CASE OpenProvider
  <2>1. UNCHANGED <<current, call, owed, handling>>
    BY <1>3 DEF OpenProvider, ProviderStartsTurn, ProviderRunsAutonomously,
                ProviderEndsTurn, ProviderEndsAutonomously
  <2>2. SubscriptionsKept
    <3>1. current \in Sessions /\ session[current].subscribed
      BY DEF Open
    <3>2. session[current] \in Provider /\ session \in [Sessions -> Provider]
      BY <3>1 DEF TypeOK
    <3>3. \/ session' = [session EXCEPT ![current].announced = TRUE]
          \/ session' = [session EXCEPT ![current].turn = None]
          \/ session' = [session EXCEPT ![current].autonomous = TRUE]
          \/ session' = [session EXCEPT ![current].autonomous = FALSE]
      BY <1>3 DEF OpenProvider, ProviderStartsTurn, ProviderEndsTurn,
                  ProviderRunsAutonomously, ProviderEndsAutonomously
    <3> QED
      BY <3>1, <3>2, <3>3 DEF SubscriptionsKept, Provider
  <2> QED
    BY <2>1, <2>2 DEF Open, OpenCall, SubscriptionsKept
<1> QED
  BY <1>0, <1>1, <1>2, <1>3 DEF OpenNext

LEMMA OpenHolds == ASSUME StaysOpen PROVE Spec => []Open
<1>1. ASSUME Init
      PROVE  Open
  <2>1. PICK s \in Sessions :
          /\ current = s
          /\ session = [t \in Sessions |-> [Silent EXCEPT !.subscribed = (t = s)]]
    BY <1>1 DEF Init
  <2>2. \A t \in Sessions : session[t].subscribed <=> t = current
    BY <2>1 DEF Silent
  <2>3. /\ owed = {} /\ handling = None
        /\ \A c \in Calls : OpenCall(c)
    BY <1>1 DEF Init, OpenCall, OpenStages, Canceling, Returned, NewCall
  <2> QED
    BY <2>1, <2>2, <2>3 DEF Open
<1>2. TypeOK /\ Open /\ [Next]_vars => Open'
  BY OpenStep
<1> QED
  BY <1>1, <1>2, TypeCorrect, PTL DEF Spec


-----------------------------------------------------------------------------
(* What subscribers see.  SubscribersUpToDate is inductive with one fact   *)
(* more: while a replacement holds the agent busy no turn is active, so a  *)
(* replacement that gives up puts the agent to idle and says so.           *)

\* The object finalizeForegroundTurn leaves behind.
LEMMA FinalizedShape ==
    ASSUME TypeOK, NEW s \in Sessions, NEW a \in Agents, FinalizeInto(s, a)
    PROVE  /\ agent'[s].turn = None
           /\ agent'[s].replacing = a.replacing
           /\ agent'[s].life = "running" <=> HeldBusy(a)
           /\ emitted' = IF HeldBusy(a) THEN emitted ELSE agent'[s].life
<1>1. agent'[s] = Finalized(a)
  BY DEF FinalizeInto, TypeOK
<1>2. /\ Finalized(a).turn = None
      /\ Finalized(a).replacing = a.replacing
      /\ Finalized(a).life = "running" <=> HeldBusy(a)
  BY DEF Finalized, HeldBusy, Agents
<1> QED
  BY <1>1, <1>2 DEF FinalizeInto

SubscribersFit ==
    emitted # agent[current].life =>
        \/ handling # None
        \/ /\ agent[current].life = "running" /\ agent[current].turn = None
           /\ ReplacementUnderWay

\* A step that emits, or suspends a failed turn.
LEMMA EmittingFits ==
    ASSUME emitted' = agent'[current'].life \/ handling' # None
    PROVE  SubscribersFit'
BY DEF SubscribersFit

\* A step that finalizes a turn emits, unless a replacement holds the agent.
LEMMA FinalizingFits ==
    ASSUME TypeOK, Open, NEW a \in Agents, FinalizeInto(current, a),
           current' = current, HeldBusyHasReplacer'
    PROVE  SubscribersFit'
<1>1. current \in Sessions /\ current # None
  BY SessionsAssumption DEF Open
<1>2. /\ agent'[current].turn = None
      /\ agent'[current].replacing = a.replacing
      /\ agent'[current].life = "running" <=> HeldBusy(a)
      /\ emitted' = IF HeldBusy(a) THEN emitted ELSE agent'[current].life
  BY <1>1, FinalizedShape
<1>3. CASE HeldBusy(a)
  <2>1. ReplacementUnderWay'
    BY <1>1, <1>2, <1>3 DEF HeldBusy, HeldBusyHasReplacer, ReplacementUnderWay
  <2> QED
    BY <1>2, <1>3, <2>1 DEF SubscribersFit
<1>4. CASE ~HeldBusy(a)
  BY <1>2, <1>4 DEF SubscribersFit
<1> QED
  BY <1>3, <1>4

\* Call c is a replacement of the registered object that is under way.
UnderWay(c) ==
    /\ call[c].op = "replace"
    /\ call[c].on = current
    /\ \/ Starting(c)
       \/ call[c].at \in {"canceling", "awaitStale", "canceled"}

\* A step that emits nothing changes nothing subscribers would be told of.
LEMMA QuietFits ==
    ASSUME SubscribersFit, UNCHANGED <<current, emitted, handling>>,
           agent'[current].life = agent[current].life,
           agent'[current].turn = agent[current].turn,
           \A c \in Calls : UnderWay(c) => UnderWay(c)'
    PROVE  SubscribersFit'
<1>1. ReplacementUnderWay => ReplacementUnderWay'
  BY DEF ReplacementUnderWay, UnderWay
<1> QED
  BY <1>1 DEF SubscribersFit

\* An accepted streamAgent.
LEMMA StartRunFits ==
    ASSUME TypeOK, Open, SubscribersFit, NEW c \in Calls, NEW op,
           StartRun(c, op), UnderWay(c) => op = "replace"
    PROVE  SubscribersFit'
<1>1. current \in Sessions /\ agent[current] \in Agents
  BY DEF Open, TypeOK
<1>2. /\ agent'[current].life = agent[current].life
      /\ agent'[current].turn = agent[current].turn
      /\ UNCHANGED <<current, emitted, handling>>
  BY <1>1 DEF StartRun, TypeOK, Agents
<1>3. /\ \A d \in Calls : d # c => call'[d] = call[d]
      /\ call'[c].at \in {"startTurn", "startRefused"}
      /\ call'[c].on = current /\ call'[c].op = op
  BY DEF StartRun, NewCall, TypeOK
<1>4. \A d \in Calls : UnderWay(d) => UnderWay(d)'
  BY <1>2, <1>3 DEF UnderWay, Starting
<1> QED
  BY <1>2, <1>4, QuietFits

\* A request emits nothing.
LEMMA RequestFits ==
    ASSUME TypeOK, Open, SubscribersFit, NEW c \in Calls, OpenRequest(c)
    PROVE  SubscribersFit'
<1>1. current \in Sessions /\ agent[current] \in Agents
  BY DEF Open, TypeOK
<1>2. call[c].at = "out" /\ ~UnderWay(c)
  BY DEF OpenRequest, StreamAgent, ReplaceAgentRun, CancelAgentRun, Fresh,
         UnderWay, Starting
<1>3. ASSUME NEW op, BeginCancel(c, op),
             UNCHANGED <<current, emitted, handling>>,
             agent'[current].life = agent[current].life,
             agent'[current].turn = agent[current].turn
      PROVE  SubscribersFit'
  <2>1. \A d \in Calls : d # c => call'[d] = call[d]
    BY <1>3 DEF BeginCancel
  <2>2. \A d \in Calls : UnderWay(d) => UnderWay(d)'
    BY <1>2, <1>3, <2>1 DEF UnderWay, Starting
  <2> QED
    BY <1>3, <2>2, QuietFits
<1>4. CASE StreamAgent(c)
  BY <1>2, <1>4, StartRunFits DEF StreamAgent
<1>5. CASE CancelAgentRun(c)
  BY <1>3, <1>5 DEF CancelAgentRun
<1>6. CASE ReplaceAgentRun(c) /\ HasInFlightRun
  <2>1. /\ agent'[current].life = agent[current].life
        /\ agent'[current].turn = agent[current].turn
    BY <1>1, <1>6 DEF ReplaceAgentRun, TypeOK, Agents
  <2> QED
    BY <1>3, <1>6, <2>1 DEF ReplaceAgentRun
<1>7. CASE ReplaceAgentRun(c) /\ ~HasInFlightRun
  BY <1>2, <1>7, StartRunFits DEF ReplaceAgentRun
<1> QED
  BY <1>4, <1>5, <1>6, <1>7 DEF OpenRequest

\* A continuation that changes the status emits it, but for a replacement
\* that keeps the hold.
LEMMA ContinueFits ==
    ASSUME TypeOK, Open, SubscribersFit, NEW c \in Calls, OpenContinue(c),
           HeldBusyHasReplacer'
    PROVE  SubscribersFit'
<1>1. /\ current \in Sessions /\ agent[current] \in Agents /\ OpenCall(c)
      /\ current # None
  BY SessionsAssumption DEF Open, TypeOK
<1>2. call[c].at \in Attached => call[c].on = current
  BY <1>1 DEF OpenCall, TypeOK
<1>3. CASE StartTurnResolves(c)
  <2>1. call[c].on = current
    BY <1>2, <1>3 DEF StartTurnResolves, Attached
  <2>2. agent'[current].life = "running"
    BY <1>1, <1>3, <2>1 DEF StartTurnResolves, TypeOK, Agents
  <2> QED
    BY <1>3, <2>2, EmittingFits DEF StartTurnResolves
<1>4. CASE StartTurnRejects(c)
  <2> DEFINE a == [agent[current] EXCEPT !.life = "error", !.failed = TRUE]
  <2>1. call[c].on = current
    BY <1>2, <1>4 DEF StartTurnRejects, Attached
  <2>2. a \in Agents
    BY <1>1 DEF Agents, Lifecycles
  <2>3. FinalizeInto(current, a) /\ current' = current
    BY <1>4, <2>1 DEF StartTurnRejects
  <2> HIDE DEF a
  <2> QED
    BY <2>2, <2>3, FinalizingFits
<1>5. CASE ForwarderEnds(c) \/ CancelObserved(c) \/ StaleRunSettled(c)
  <2>1. /\ UNCHANGED <<current, agent, handling>>
        /\ emitted' \in {emitted, agent[current].life}
    BY <1>2, <1>5 DEF ForwarderEnds, CancelObserved, StaleRunSettled,
                      CancelReturns, Attached
  <2>2. (Finish(c) /\ ~UnderWay(c)) \/ CancelReturns(c)
    BY <1>5 DEF ForwarderEnds, CancelObserved, StaleRunSettled, UnderWay,
                Starting
  <2>3. \A d \in Calls : d # c => call'[d] = call[d]
    BY <2>2 DEF Finish, CancelReturns, TypeOK
  <2>4. UnderWay(c) => UnderWay(c)'
    <3> SUFFICES ASSUME UnderWay(c)
                 PROVE  UnderWay(c)'
      OBVIOUS
    <3>1. call[c].op = "replace" /\ call[c].on = current /\ CancelReturns(c)
      BY <2>2 DEF UnderWay
    <3>2. call' = [call EXCEPT ![c].at = "canceled", ![c].turn = None,
                               ![c].run = None]
      BY <3>1 DEF CancelReturns
    <3>3. /\ call'[c].at = "canceled" /\ call'[c].op = call[c].op
          /\ call'[c].on = call[c].on
      BY <3>2 DEF TypeOK, CallStates
    <3> QED
      BY <2>1, <3>1, <3>3 DEF UnderWay
  <2>5. \A d \in Calls : UnderWay(d) => UnderWay(d)'
    BY <2>1, <2>3, <2>4 DEF UnderWay, Starting
  <2>6. CASE UNCHANGED emitted
    BY <2>1, <2>5, <2>6, QuietFits
  <2>7. CASE emitted' = agent[current].life
    BY <2>1, <2>7, EmittingFits
  <2> QED
    BY <2>1, <2>6, <2>7
<1>6. CASE CancelForced(c)
  <2> DEFINE a == [agent[current] EXCEPT !.failed = FALSE]
  <2>1. call[c].on = current
    BY <1>2, <1>6 DEF CancelForced, Attached
  <2>2. a \in Agents
    BY <1>1 DEF Agents
  <2>3. FinalizeInto(current, a) /\ current' = current
    BY <1>6, <2>1 DEF CancelForced
  <2> HIDE DEF a
  <2> QED
    BY <2>2, <2>3, FinalizingFits
<1>7. CASE ReplacementStarts(c)
  BY <1>7, StartRunFits DEF ReplacementStarts
<1>8. CASE ReplacementFails(c)
  <2> DEFINE a == [agent[current] EXCEPT !.replacing = FALSE]
             toIdle == a.turn = None /\ a.life = "running"
  <2>1. a.turn = agent[current].turn /\ a.life = agent[current].life
    BY <1>1 DEF Agents
  <2>2. /\ agent' = [agent EXCEPT ![current] =
                       IF toIdle THEN [a EXCEPT !.life = "idle"] ELSE a]
        /\ emitted' = IF toIdle THEN "idle" ELSE emitted
        /\ UNCHANGED <<current, handling>>
    BY <1>1, <1>8 DEF ReplacementFails
  <2>3. agent'[current] = IF toIdle THEN [a EXCEPT !.life = "idle"] ELSE a
    BY <1>1, <2>2 DEF TypeOK
  <2>4. CASE toIdle
    <3>1. [a EXCEPT !.life = "idle"].life = "idle"
      BY <1>1 DEF Agents
    <3> QED
      BY <2>2, <2>3, <2>4, <3>1, EmittingFits
  <2>5. CASE ~toIdle
    BY <2>1, <2>2, <2>3, <2>5 DEF SubscribersFit
  <2> QED
    BY <2>4, <2>5
<1> QED
  BY <1>3, <1>4, <1>5, <1>6, <1>7, <1>8 DEF OpenContinue

\* So does an event.
LEMMA EventFits ==
    ASSUME TypeOK, Open, SubscribersFit, OpenEvents, HeldBusyHasReplacer'
    PROVE  SubscribersFit'
<1> DEFINE e == Head(tail)
<1>1. /\ current \in Sessions /\ agent[current] \in Agents /\ current # None
  BY SessionsAssumption DEF Open, TypeOK
<1>2. UNCHANGED <<current, call>>
  BY DEF OpenEvents, HandleTurnStarted, HandleTurnOver, HandleTurnFailed,
         TurnFailedResumes, HandleTurnFailedAtOnce
<1>3. \A c \in Calls : UnderWay(c) => UnderWay(c)'
  BY <1>2 DEF UnderWay, Starting
<1>4. CASE HandleTurnStarted
  <2>1. CASE Foreground(e)
    BY <1>2, <1>3, <1>4, <2>1, QuietFits DEF HandleTurnStarted
  <2>2. CASE ~Foreground(e)
    <3>1. agent'[current].life = "running" /\ emitted' = "running"
      BY <1>1, <1>4, <2>2 DEF HandleTurnStarted, TypeOK, Agents
    <3> QED
      BY <1>2, <3>1, EmittingFits
  <2> QED
    BY <2>1, <2>2
<1>5. CASE HandleTurnOver
  <2> DEFINE a == [agent[current] EXCEPT !.failed = FALSE]
             rests == IF a.replacing THEN a ELSE [a EXCEPT !.life = "idle"]
             silent == /\ e.type = "turn_completed"
                       /\ (a.life = "idle" \/ a.replacing)
  <2>1. /\ a \in Agents /\ a.turn = agent[current].turn
        /\ a.life = agent[current].life
    BY <1>1 DEF Agents
  <2>2. CASE Foreground(e)
    <3>1. FinalizeInto(current, a)
      BY <1>5, <2>2 DEF HandleTurnOver
    <3> HIDE DEF a
    <3> QED
      BY <1>2, <2>1, <3>1, FinalizingFits
  <2>3. CASE ~Foreground(e)
    <3>1. /\ agent' = [agent EXCEPT ![current] = rests]
          /\ emitted' = IF silent THEN emitted ELSE rests.life
          /\ UNCHANGED handling
      BY <1>5, <2>3 DEF HandleTurnOver
    <3>2. agent'[current] = rests
      BY <1>1, <3>1 DEF TypeOK
    <3>3. CASE silent
      <4>1. rests.life = a.life /\ rests.turn = a.turn
        BY <2>1, <3>3 DEF Agents
      <4> QED
        BY <1>2, <1>3, <2>1, <3>1, <3>2, <3>3, <4>1, QuietFits
    <3>4. CASE ~silent
      BY <1>2, <3>1, <3>2, <3>4, EmittingFits
    <3> QED
      BY <3>3, <3>4
  <2> QED
    BY <2>2, <2>3
<1>6. CASE HandleTurnFailed
  <2>1. e \in Events /\ Foreground(e) \in BOOLEAN
        /\ WaitsOn(current, e.turn) \in BOOLEAN
    BY <1>6, NextEventType
       DEF HandleTurnFailed, HandlesFailure, Foreground, WaitsOn
  <2>2. handling' \in Suspends
    BY <1>1, <1>6, <2>1 DEF HandleTurnFailed, Suspends, Events
  <2> QED
    BY <2>2, NoneAssumption, EmittingFits
<1>7. CASE TurnFailedResumes
  <2>1. handling.on = current /\ UNCHANGED current
    BY <1>7 DEF TurnFailedResumes, Open
  <2>2. CASE handling.foreground
    BY <1>1, <1>7, <2>1, <2>2, FinalizingFits DEF TurnFailedResumes
  <2>3. CASE ~handling.foreground
    BY <1>7, <2>1, <2>3, EmittingFits DEF TurnFailedResumes
  <2> QED
    BY <2>2, <2>3
<1>8. CASE HandleTurnFailedAtOnce
  <2>1. WithFailure(e) \in Agents
    BY <1>1 DEF WithFailure, Agents, Lifecycles
  <2>2. CASE Foreground(e)
    BY <1>2, <1>8, <2>1, <2>2, FinalizingFits DEF HandleTurnFailedAtOnce
  <2>3. CASE ~Foreground(e)
    <3>1. agent'[current] = WithFailure(e) /\ emitted' = WithFailure(e).life
      BY <1>1, <1>8, <2>3 DEF HandleTurnFailedAtOnce, TypeOK
    <3> QED
      BY <1>2, <3>1, EmittingFits
  <2> QED
    BY <2>2, <2>3
<1> QED
  BY <1>4, <1>5, <1>6, <1>7, <1>8 DEF OpenEvents

\* Every step of an open agent keeps its subscribers up to date.
LEMMA SubscribersFitStep ==
    ASSUME TypeOK, Open, [OpenNext]_vars, SubscribersFit, HeldBusyHasReplacer'
    PROVE  SubscribersFit'
<1>1. current \in Sessions
  BY DEF Open
<1>2. CASE \E c \in Calls : OpenRequest(c) \/ OpenContinue(c)
  BY <1>2, RequestFits, ContinueFits
<1>3. CASE FailedStartEmits(current) \/ EmitState
  BY <1>3, EmittingFits DEF FailedStartEmits, EmitState
<1>4. CASE OpenEvents
  BY <1>4, EventFits
<1>5. CASE OpenProvider \/ UNCHANGED vars
  <2>1. UNCHANGED <<current, agent, emitted, call, handling>>
    BY <1>5 DEF OpenProvider, ProviderStartsTurn, ProviderRunsAutonomously,
                ProviderEndsTurn, ProviderEndsAutonomously, vars
  <2>2. \A c \in Calls : UnderWay(c) => UnderWay(c)'
    BY <2>1 DEF UnderWay, Starting
  <2> QED
    BY <2>1, <2>2, QuietFits
<1> QED
  BY <1>2, <1>3, <1>4, <1>5 DEF OpenNext

\* The status subscribers saw last is the status of the agent, except while a
\* replacement holds it busy or a failed turn is being written down: no
\* interleaving of emitState calls with finalizeForegroundTurn leaves an open
\* agent shown in a status it is not in.
THEOREM SubscribersUpToDateHolds ==
    ASSUME StaysOpen PROVE Spec => []SubscribersUpToDate
<1>1. Init => SubscribersFit
  BY DEF Init, SubscribersFit
<1>2. /\ TypeOK /\ Open /\ SubscribersFit /\ HeldBusyHasReplacer'
      /\ [Next]_vars
      => SubscribersFit'
  BY OpenSteps, SubscribersFitStep
<1>3. SubscribersFit => SubscribersUpToDate
  BY DEF SubscribersFit, SubscribersUpToDate
<1> QED
  BY <1>1, <1>2, <1>3, OpenHolds, HeldBusyHasReplacerHolds, TypeCorrect, PTL
     DEF Spec


-----------------------------------------------------------------------------
(* Why an agent is running.  RunningIsJustified is inductive with what is  *)
(* said below of the events on their way: a turn_started is followed by an *)
(* end or the provider still runs something.                               *)

Ends(q, i) == q[i].type \in Terminals

\* An event that ends some turn waits.
EndWaits == \E i \in 1..Len(tail) : Ends(tail, i)

\* A suspended handler is going to finalize the agent.
Finalizing == handling # None /\ handling.foreground

\* The provider runs a turn it has announced.
ProviderBusy ==
    \/ session[current].turn # None /\ session[current].announced
    \/ session[current].autonomous

StartIsUnderWay == \E c \in Calls : Starting(c) /\ call[c].on = current

RunningFits ==
    agent[current].life = "running" =>
        \/ agent[current].replacing \/ StartIsUnderWay
        \/ agent[current].turn # None
        \/ session[current].turn # None \/ session[current].autonomous
        \/ EndWaits \/ Finalizing

AnnouncedTurnsEnd ==
    \A i \in 1..Len(tail) : tail[i].type = "turn_started" =>
        ProviderBusy \/ \E j \in 1..Len(tail) : i < j /\ Ends(tail, j)

RunsFit == RunningFits /\ AnnouncedTurnsEnd

\* Where the provider and its events stand still, an agent that is running
\* was so before, or is held busy, or has an active turn.
LEMMA RunsFitFrame ==
    ASSUME RunsFit, UNCHANGED <<current, tail, handling, session>>,
           agent'[current].life = "running" =>
             \/ agent'[current].replacing
             \/ agent'[current].turn # None
             \/ /\ agent[current].life = "running" /\ ~agent[current].replacing
                /\ agent[current].turn = None
                /\ StartIsUnderWay => StartIsUnderWay'
    PROVE  RunsFit'
<1>1. RunningFits'
  BY DEF RunsFit, RunningFits, EndWaits, Ends, Finalizing
<1>2. AnnouncedTurnsEnd'
  BY DEF RunsFit, AnnouncedTurnsEnd, ProviderBusy, Ends
<1> QED
  BY <1>1, <1>2 DEF RunsFit

\* An accepted streamAgent is a start under way.
LEMMA StartRunFitsRuns ==
    ASSUME TypeOK, Open, RunsFit, NEW c \in Calls, NEW op, StartRun(c, op)
    PROVE  RunsFit'
<1> DEFINE free == session[current].turn = None
<1>1. current \in Sessions /\ agent[current] \in Agents
      /\ session[current] \in Provider /\ session \in [Sessions -> Provider]
  BY DEF Open, TypeOK
<1>2. /\ agent'[current].turn = agent[current].turn
      /\ UNCHANGED <<current, tail, handling>>
  BY <1>1 DEF StartRun, TypeOK, Agents
<1>3. /\ \A d \in Calls : d # c => call'[d] = call[d]
      /\ call'[c].at = IF free THEN "startTurn" ELSE "startRefused"
      /\ call'[c].on = current
  BY DEF StartRun, NewCall, TypeOK
<1>4. RunningFits'
  BY <1>2, <1>3 DEF RunningFits, StartIsUnderWay, Starting
<1>5. ProviderBusy => ProviderBusy'
  <2>1. CASE free
    <3>1. session'[current].autonomous = session[current].autonomous
      BY <1>1, <2>1 DEF StartRun, Provider
    <3> QED
      BY <1>2, <2>1, <3>1 DEF ProviderBusy
  <2>2. CASE ~free
    BY <1>2, <2>2 DEF StartRun, ProviderBusy
  <2> QED
    BY <2>1, <2>2
<1>6. AnnouncedTurnsEnd'
  BY <1>2, <1>5 DEF RunsFit, AnnouncedTurnsEnd, Ends
<1> QED
  BY <1>4, <1>6 DEF RunsFit

\* Requests of an open agent.
LEMMA RequestFitsRuns ==
    ASSUME TypeOK, Open, RunsFit, NEW c \in Calls, OpenRequest(c)
    PROVE  RunsFit'
<1>1. current \in Sessions /\ agent[current] \in Agents
  BY DEF Open, TypeOK
<1>2. call[c].at = "out"
  BY DEF OpenRequest, StreamAgent, ReplaceAgentRun, CancelAgentRun, Fresh
<1>3. ASSUME NEW op, BeginCancel(c, op),
             UNCHANGED <<current, tail, handling, session>>,
             agent'[current].life = agent[current].life,
             agent'[current].turn = agent[current].turn,
             agent[current].replacing => agent'[current].replacing
      PROVE  RunsFit'
  <2>1. /\ \A d \in Calls : d # c => call'[d] = call[d]
        /\ call'[c].at = "canceling"
    BY <1>3 DEF BeginCancel, NewCall, TypeOK
  <2>2. StartIsUnderWay => StartIsUnderWay'
    BY <1>2, <1>3, <2>1 DEF StartIsUnderWay, Starting
  <2> QED
    BY <1>3, <2>1, <2>2, RunsFitFrame
<1>4. CASE StreamAgent(c)
  BY <1>4, StartRunFitsRuns DEF StreamAgent
<1>5. CASE CancelAgentRun(c)
  BY <1>3, <1>5 DEF CancelAgentRun
<1>6. CASE ReplaceAgentRun(c) /\ HasInFlightRun
  <2>1. /\ agent'[current].life = agent[current].life
        /\ agent'[current].turn = agent[current].turn
        /\ agent'[current].replacing
    BY <1>1, <1>6 DEF ReplaceAgentRun, TypeOK, Agents
  <2> QED
    BY <1>3, <1>6, <2>1 DEF ReplaceAgentRun
<1>7. CASE ReplaceAgentRun(c) /\ ~HasInFlightRun
  BY <1>7, StartRunFitsRuns DEF ReplaceAgentRun
<1> QED
  BY <1>4, <1>5, <1>6, <1>7 DEF OpenRequest

\* The turn that the manager makes active is what the agent runs for, even if
\* the provider has ended it already.
LEMMA StartTurnResolvesFitsRuns ==
    ASSUME TypeOK, Open, RunsFit, NEW c \in Calls, StartTurnResolves(c)
    PROVE  RunsFit'
<1>1. /\ current \in Sessions /\ call[c].on = current
      /\ UNCHANGED <<current, tail, handling, session>>
  BY DEF StartTurnResolves, TypeOK, Attached, Open, OpenCall
<1>2. agent'[current].turn # None
  BY <1>1, CallsAssumption DEF StartTurnResolves, TypeOK, Agents
<1> QED
  BY <1>1, <1>2, RunsFitFrame

\* After a rejected start the agent is in error, and a turn the provider had
\* announced goes on as its own.
LEMMA StartTurnRejectsFitsRuns ==
    ASSUME TypeOK, Open, RunsFit, NEW c \in Calls, StartTurnRejects(c)
    PROVE  RunsFit'
<1> DEFINE a == [agent[current] EXCEPT !.life = "error", !.failed = TRUE]
<1>1. /\ current \in Sessions /\ agent[current] \in Agents
      /\ session[current] \in Provider /\ session \in [Sessions -> Provider]
      /\ call[c].on = current
  BY DEF StartTurnRejects, TypeOK, Attached, Open, OpenCall
<1>2. a \in Agents /\ a.failed
  BY <1>1 DEF Agents, Lifecycles
<1>3. FinalizeInto(current, a) /\ UNCHANGED <<current, tail, handling>>
  BY <1>1 DEF StartTurnRejects
<1>4. agent'[current].turn = None /\ agent'[current].life # "running"
  BY <1>1, <1>2, <1>3, FinalizedShape DEF HeldBusy
<1>5. RunningFits'
  BY <1>3, <1>4 DEF RunningFits
<1>6. ProviderBusy => ProviderBusy'
  <2>1. CASE session[current].turn # c
    BY <1>1, <1>3, <2>1 DEF StartTurnRejects, ProviderBusy
  <2>2. CASE session[current].turn = c
    <3>1. session' = [session EXCEPT
                        ![current].turn = None,
                        ![current].autonomous = @ \/ session[current].announced]
      BY <1>1, <2>2 DEF StartTurnRejects
    <3>2. session'[current].autonomous =
            (session[current].autonomous \/ session[current].announced)
      BY <1>1, <3>1 DEF Provider
    <3> QED
      BY <1>3, <3>2 DEF ProviderBusy
  <2> QED
    BY <2>1, <2>2
<1>7. AnnouncedTurnsEnd'
  BY <1>3, <1>6 DEF RunsFit, AnnouncedTurnsEnd, Ends
<1> QED
  BY <1>5, <1>7 DEF RunsFit

\* Cancels, forwarders and replacements that fail leave the provider alone.
LEMMA ContinueFitsRuns ==
    ASSUME TypeOK, Open, RunsFit, NEW c \in Calls, OpenContinue(c)
    PROVE  RunsFit'
<1>1. /\ current \in Sessions /\ agent[current] \in Agents /\ current # None
  BY SessionsAssumption DEF Open, TypeOK
<1>2. ASSUME \A d \in Calls : d # c => call'[d] = call[d], ~Starting(c),
             UNCHANGED current
      PROVE  StartIsUnderWay => StartIsUnderWay'
  BY <1>2 DEF StartIsUnderWay, Starting
<1>3. CASE ForwarderEnds(c) \/ CancelObserved(c) \/ StaleRunSettled(c)
  <2>1. UNCHANGED <<current, agent, tail, handling, session>>
    BY <1>3 DEF ForwarderEnds, CancelObserved, StaleRunSettled
  <2>2. \A d \in Calls : d # c => call'[d] = call[d]
    <3>1. Finish(c) \/ CancelReturns(c)
      BY <1>3 DEF ForwarderEnds, CancelObserved, StaleRunSettled
    <3> QED
      BY <3>1, FinishWithdraws, CancelReturnsWithdraws DEF Withdraws
  <2>3. ~Starting(c)
    BY <1>3 DEF ForwarderEnds, CancelObserved, StaleRunSettled, Starting
  <2> QED
    BY <1>2, <2>1, <2>2, <2>3, RunsFitFrame
<1>4. CASE CancelForced(c)
  <2> DEFINE a == [agent[current] EXCEPT !.failed = FALSE]
  <2>1. call[c].on = current
    BY <1>4 DEF CancelForced, TypeOK, Attached, Open, OpenCall
  <2>2. a \in Agents
    BY <1>1 DEF Agents
  <2>3. /\ FinalizeInto(current, a)
        /\ UNCHANGED <<current, tail, handling, session>>
    BY <1>4, <2>1 DEF CancelForced
  <2>4. /\ agent'[current].turn = None
        /\ agent'[current].life = "running" => agent'[current].replacing
    BY <1>1, <2>2, <2>3, FinalizedShape DEF HeldBusy
  <2> QED
    BY <2>3, <2>4, RunsFitFrame
<1>5. CASE ReplacementFails(c)
  <2> DEFINE a == [agent[current] EXCEPT !.replacing = FALSE]
             toIdle == a.turn = None /\ a.life = "running"
             b == IF toIdle THEN [a EXCEPT !.life = "idle"] ELSE a
  <2>1. /\ a.turn = agent[current].turn /\ a.life = agent[current].life
        /\ a \in Agents
    BY <1>1 DEF Agents
  <2>2. /\ b.turn = agent[current].turn
        /\ b.life = "running" => b.turn # None
    BY <2>1 DEF Agents
  <2>3. /\ agent' = [agent EXCEPT ![current] = b] /\ Finish(c)
        /\ UNCHANGED <<current, tail, handling, session>>
    BY <1>1, <1>5 DEF ReplacementFails
  <2>4. agent'[current] = b
    BY <1>1, <2>3 DEF TypeOK
  <2> HIDE DEF b
  <2> QED
    BY <2>2, <2>3, <2>4, RunsFitFrame
<1>6. CASE ReplacementStarts(c)
  BY <1>6, StartRunFitsRuns DEF ReplacementStarts
<1> QED
  BY <1>3, <1>4, <1>5, <1>6, StartTurnResolvesFitsRuns,
     StartTurnRejectsFitsRuns DEF OpenContinue

\* Taking the next event: what is left of the queue.
LEMMA TailShifts ==
    ASSUME NEW q \in Seq(Events), q # <<>>
    PROVE  /\ Len(Tail(q)) = Len(q) - 1 /\ Len(q) \in Nat
           /\ \A i \in 1..Len(Tail(q)) : i + 1 \in 1..Len(q)
                                         /\ Tail(q)[i] = q[i + 1]
           /\ \A i \in 1..Len(q) : 1 < i =>
                i - 1 \in 1..Len(Tail(q)) /\ Tail(q)[i - 1] = q[i]
           /\ Head(q) = q[1] /\ 1 \in 1..Len(q)
OBVIOUS

LEMMA NextEventKeepsQueue ==
    ASSUME TypeOK, NextEvent
    PROVE  /\ EndWaits => EndWaits' \/ Head(tail).type \in Terminals
           /\ AnnouncedTurnsEnd /\ (ProviderBusy => ProviderBusy')
                => AnnouncedTurnsEnd'
           /\ AnnouncedTurnsEnd /\ Head(tail).type = "turn_started"
                => ProviderBusy \/ EndWaits'
<1>1. tail \in Seq(Events) /\ tail # <<>> /\ tail' = Tail(tail)
  BY DEF TypeOK, NextEvent
<1> DEFINE n == Len(tail)
<1>2. /\ Len(tail') = n - 1 /\ n \in Nat
      /\ \A i \in 1..Len(tail') : i + 1 \in 1..n /\ tail'[i] = tail[i + 1]
      /\ \A i \in 1..n : 1 < i =>
           i - 1 \in 1..Len(tail') /\ tail'[i - 1] = tail[i]
      /\ Head(tail) = tail[1] /\ 1 \in 1..n
  BY <1>1, TailShifts
<1>4. ASSUME EndWaits, ~EndWaits'
      PROVE  Head(tail).type \in Terminals
  <2>1. PICK i \in 1..n : Ends(tail, i)
    BY <1>4 DEF EndWaits
  <2>2. ~(1 < i)
    BY <1>2, <1>4, <2>1 DEF EndWaits, Ends
  <2>3. i = 1
    BY <1>2, <2>2
  <2> QED
    BY <1>2, <2>1, <2>3 DEF Ends
<1>5. ASSUME AnnouncedTurnsEnd, ProviderBusy => ProviderBusy'
      PROVE  AnnouncedTurnsEnd'
  <2> SUFFICES ASSUME NEW i \in 1..Len(tail'), tail'[i].type = "turn_started",
                      ~ProviderBusy'
               PROVE  \E j \in 1..Len(tail') : i < j /\ Ends(tail', j)
    BY DEF AnnouncedTurnsEnd, Ends
  <2>1. PICK j \in 1..n : i + 1 < j /\ Ends(tail, j)
    BY <1>2, <1>5 DEF AnnouncedTurnsEnd
  <2>2. j - 1 \in 1..Len(tail') /\ tail'[j - 1] = tail[j] /\ i < j - 1
    BY <1>2, <2>1
  <2> QED
    BY <2>1, <2>2 DEF Ends
<1>6. ASSUME AnnouncedTurnsEnd, Head(tail).type = "turn_started", ~ProviderBusy
      PROVE  EndWaits'
  <2>1. PICK j \in 1..n : 1 < j /\ Ends(tail, j)
    BY <1>2, <1>6 DEF AnnouncedTurnsEnd
  <2> QED
    BY <1>2, <2>1 DEF EndWaits, Ends
<1> QED
  BY <1>4, <1>5, <1>6

\* An event that arrives.
LEMMA EventArrives ==
    ASSUME TypeOK, NEW e \in Events, tail' = Append(tail, e)
    PROVE  /\ EndWaits => EndWaits'
           /\ e.type \in Terminals => EndWaits' /\ AnnouncedTurnsEnd'
           /\ AnnouncedTurnsEnd /\ (ProviderBusy => ProviderBusy')
              /\ (e.type = "turn_started" => ProviderBusy')
                => AnnouncedTurnsEnd'
<1> DEFINE n == Len(tail)
<1>1. /\ n \in Nat /\ Len(tail') = n + 1
      /\ \A i \in 1..n : i \in 1..Len(tail') /\ tail'[i] = tail[i]
      /\ n + 1 \in 1..Len(tail') /\ tail'[n + 1] = e
      /\ \A i \in 1..Len(tail') : i = n + 1 \/ (i \in 1..n /\ i < n + 1)
  BY DEF TypeOK
<1>3. EndWaits => EndWaits'
  BY <1>1 DEF EndWaits, Ends
<1>4. e.type \in Terminals => EndWaits'
  BY <1>1 DEF EndWaits, Ends
<1>5. e.type \in Terminals => AnnouncedTurnsEnd'
  BY <1>1 DEF AnnouncedTurnsEnd, Ends, Terminals
<1>6. ASSUME AnnouncedTurnsEnd, ProviderBusy => ProviderBusy',
             e.type = "turn_started" => ProviderBusy'
      PROVE  AnnouncedTurnsEnd'
  <2> SUFFICES ASSUME NEW i \in 1..Len(tail'), tail'[i].type = "turn_started",
                      ~ProviderBusy'
               PROVE  \E j \in 1..Len(tail') : i < j /\ Ends(tail', j)
    BY DEF AnnouncedTurnsEnd, Ends
  <2>1. i \in 1..n /\ tail[i].type = "turn_started"
    BY <1>1, <1>6
  <2>2. PICK j \in 1..n : i < j /\ Ends(tail, j)
    BY <1>6, <2>1 DEF AnnouncedTurnsEnd
  <2> QED
    BY <1>1, <2>2 DEF Ends
<1> QED
  BY <1>3, <1>4, <1>5, <1>6

\* What the provider does leaves a reason to run or the end of it.
LEMMA ProviderFitsRuns ==
    ASSUME TypeOK, Open, RunsFit, OpenProvider
    PROVE  RunsFit'
<1>1. /\ current \in Sessions /\ current # None
      /\ session[current] \in Provider /\ session \in [Sessions -> Provider]
      /\ session[current].subscribed
  BY SessionsAssumption DEF Open, TypeOK
<1>2. UNCHANGED <<current, agent, call, handling>>
  BY DEF OpenProvider, ProviderStartsTurn, ProviderEndsTurn,
         ProviderRunsAutonomously, ProviderEndsAutonomously
<1>3. CASE \/ ProviderStartsTurn(current) \/ ProviderRunsAutonomously(current)
  <2>1. PICK e \in Events :
          e.type = "turn_started" /\ tail' = Append(tail, e)
    <3>1. session[current].turn \in CallSlot /\ None \in CallSlot
      BY <1>1 DEF Provider, CallSlot
    <3>2. \A t \in CallSlot : [type |-> "turn_started", turn |-> t] \in Events
      BY DEF Events
    <3>3. \E t \in CallSlot : Emits(current, "turn_started", t)
      BY <1>3, <3>1 DEF ProviderStartsTurn, ProviderRunsAutonomously
    <3> QED
      BY <1>1, <3>2, <3>3 DEF Emits
  <2>2. /\ session'[current].turn = session[current].turn
        /\ session[current].autonomous => session'[current].autonomous
        /\ ProviderBusy' /\ (ProviderBusy => ProviderBusy')
    BY <1>1, <1>2, <1>3
       DEF ProviderStartsTurn, ProviderRunsAutonomously, Provider, ProviderBusy
  <2>3. AnnouncedTurnsEnd'
    BY <2>1, <2>2, EventArrives DEF RunsFit
  <2>4. RunningFits'
    BY <1>2, <2>1, <2>2, EventArrives
       DEF RunsFit, RunningFits, StartIsUnderWay, Starting, Finalizing
  <2> QED
    BY <2>3, <2>4 DEF RunsFit
<1>4. CASE \E type \in Terminals : ProviderEndsTurn(current, type)
                                     \/ ProviderEndsAutonomously(current, type)
  <2>1. PICK type \in Terminals, t \in CallSlot :
          \/ ProviderEndsTurn(current, type) /\ t = session[current].turn
          \/ ProviderEndsAutonomously(current, type) /\ t = None
    BY <1>1, <1>4 DEF Provider, CallSlot
  <2> DEFINE e == [type |-> type, turn |-> t]
  <2>2. e \in Events /\ e.type \in Terminals
    BY DEF Events
  <2>3. tail' = Append(tail, e)
    BY <1>1, <2>1 DEF ProviderEndsTurn, ProviderEndsAutonomously, Emits
  <2> HIDE DEF e
  <2>4. EndWaits' /\ AnnouncedTurnsEnd'
    BY <2>2, <2>3, EventArrives DEF RunsFit
  <2>5. RunningFits'
    BY <2>4 DEF RunningFits
  <2> QED
    BY <2>4, <2>5 DEF RunsFit
<1> QED
  BY <1>3, <1>4 DEF OpenProvider

\* The end of a turn, once handled, ends the active turn or the running.
LEMMA EventFitsRuns ==
    ASSUME TypeOK, Open, RunsFit, OpenEvents
    PROVE  RunsFit'
<1> DEFINE e == Head(tail)
<1>1. /\ current \in Sessions /\ agent[current] \in Agents /\ current # None
  BY SessionsAssumption DEF Open, TypeOK
<1>2. UNCHANGED <<current, call, session>>
  BY DEF OpenEvents, HandleTurnStarted, HandleTurnOver, HandleTurnFailed,
         TurnFailedResumes, HandleTurnFailedAtOnce
<1>3. (ProviderBusy => ProviderBusy') /\ (StartIsUnderWay => StartIsUnderWay')
  BY <1>2 DEF ProviderBusy, StartIsUnderWay, Starting
<1>4. CASE TurnFailedResumes
  <2>1. handling.on = current /\ handling # None /\ UNCHANGED tail
    BY <1>4 DEF TurnFailedResumes, Open
  <2>2. AnnouncedTurnsEnd'
    BY <1>3, <2>1 DEF RunsFit, AnnouncedTurnsEnd, Ends
  <2>3. CASE handling.foreground
    <3>1. FinalizeInto(current, agent[current])
      BY <1>4, <2>1, <2>3 DEF TurnFailedResumes
    <3>2. /\ agent'[current].turn = None
          /\ agent'[current].life = "running" => agent'[current].replacing
      BY <1>1, <3>1, FinalizedShape DEF HeldBusy
    <3> QED
      BY <1>2, <2>2, <3>2 DEF RunsFit, RunningFits
  <2>4. CASE ~handling.foreground
    <3>1. UNCHANGED agent /\ ~Finalizing
      BY <1>4, <2>4 DEF TurnFailedResumes, Finalizing
    <3>2. RunningFits'
      BY <1>2, <1>3, <2>1, <3>1 DEF RunsFit, RunningFits, EndWaits, Ends
    <3> QED
      BY <2>2, <3>2 DEF RunsFit
  <2> QED
    BY <2>3, <2>4
<1>5. ASSUME NextEvent
      PROVE  /\ EndWaits => EndWaits' \/ e.type \in Terminals
             /\ AnnouncedTurnsEnd'
             /\ e.type = "turn_started" => ProviderBusy \/ EndWaits'
             /\ ~Finalizing
  BY <1>3, <1>5, NextEventKeepsQueue DEF RunsFit, NextEvent, Finalizing
<1>7. CASE HandleTurnStarted
  <2>1. NextEvent /\ e.type = "turn_started" /\ UNCHANGED handling
    BY <1>7 DEF HandleTurnStarted
  <2>3. e.type \notin Terminals
    BY <2>1 DEF Terminals
  <2>5. RunningFits'
    <3>1. CASE Foreground(e)
      <4>1. UNCHANGED agent
        BY <1>7, <3>1 DEF HandleTurnStarted
      <4> QED
        BY <1>2, <1>3, <1>5, <2>1, <2>3, <4>1 DEF RunsFit, RunningFits
    <3>2. CASE ~Foreground(e)
      BY <1>2, <1>5, <2>1 DEF RunningFits, ProviderBusy
    <3> QED
      BY <3>1, <3>2
  <2> QED
    BY <1>5, <2>1, <2>5 DEF RunsFit
<1>8. ASSUME NextEvent, NEW a \in Agents, FinalizeInto(current, a)
      PROVE  RunsFit'
  <2>1. /\ agent'[current].turn = None
        /\ agent'[current].life = "running" => agent'[current].replacing
    BY <1>1, <1>8, FinalizedShape DEF HeldBusy
  <2> QED
    BY <1>2, <1>5, <1>8, <2>1 DEF RunsFit, RunningFits
<1>9. ASSUME NextEvent,
             agent'[current].life = "running" => agent'[current].replacing
      PROVE  RunsFit'
  BY <1>2, <1>5, <1>9 DEF RunsFit, RunningFits
<1>10. CASE HandleTurnOver
  <2> DEFINE a == [agent[current] EXCEPT !.failed = FALSE]
             rests == IF a.replacing THEN a ELSE [a EXCEPT !.life = "idle"]
  <2>1. a \in Agents
    BY <1>1 DEF Agents
  <2>2. CASE Foreground(e)
    <3>1. NextEvent /\ FinalizeInto(current, a)
      BY <1>10, <2>2 DEF HandleTurnOver
    <3> HIDE DEF a
    <3> QED
      BY <1>8, <2>1, <3>1
  <2>3. CASE ~Foreground(e)
    <3>1. rests.life = "running" => rests.replacing
      BY <2>1 DEF Agents
    <3>2. NextEvent /\ agent' = [agent EXCEPT ![current] = rests]
      BY <1>10, <2>3 DEF HandleTurnOver
    <3>3. agent'[current] = rests
      BY <1>1, <3>2 DEF TypeOK
    <3> HIDE DEF rests
    <3> QED
      BY <1>9, <3>1, <3>2, <3>3
  <2> QED
    BY <2>2, <2>3
<1>11. /\ WithFailure(e) \in Agents
       /\ WithFailure(e).life =
            IF Foreground(e) THEN agent[current].life ELSE "error"
       /\ WithFailure(e).replacing = agent[current].replacing
  BY <1>1 DEF WithFailure, Agents, Lifecycles
<1>12. CASE HandleTurnFailedAtOnce
  <2>1. NextEvent
    BY <1>12 DEF HandleTurnFailedAtOnce, HandlesFailure
  <2>2. CASE Foreground(e)
    BY <1>8, <1>11, <1>12, <2>1, <2>2 DEF HandleTurnFailedAtOnce
  <2>3. CASE ~Foreground(e)
    <3>1. agent'[current] = WithFailure(e)
      BY <1>1, <1>12, <2>3 DEF HandleTurnFailedAtOnce, TypeOK
    <3> QED
      BY <1>9, <1>11, <2>1, <2>3, <3>1
  <2> QED
    BY <2>2, <2>3
<1>13. CASE HandleTurnFailed
  <2>1. NextEvent /\ agent' = [agent EXCEPT ![current] = WithFailure(e)]
    BY <1>13 DEF HandleTurnFailed, HandlesFailure
  <2>2. agent'[current] = WithFailure(e)
    BY <1>1, <2>1 DEF TypeOK
  <2>3. CASE ~Foreground(e)
    BY <1>9, <1>11, <2>1, <2>2, <2>3
  <2>4. CASE Foreground(e)
    <3>1. e \in Events
      BY <2>1, NextEventType
    <3>2. handling' \in Suspends /\ handling'.foreground
      BY <1>1, <1>13, <2>4, <3>1
         DEF HandleTurnFailed, Suspends, Events, WaitsOn
    <3>3. Finalizing'
      BY <3>2, NoneAssumption DEF Finalizing
    <3> QED
      BY <1>5, <2>1, <3>3 DEF RunsFit, RunningFits
  <2> QED
    BY <2>3, <2>4
<1> QED
  BY <1>4, <1>7, <1>10, <1>12, <1>13 DEF OpenEvents

\* Every step of an open agent leaves a reason to be running.
LEMMA RunsFitStep ==
    ASSUME TypeOK, Open, [OpenNext]_vars, RunsFit
    PROVE  RunsFit'
<1>1. CASE \E c \in Calls : OpenRequest(c) \/ OpenContinue(c)
  BY <1>1, RequestFitsRuns, ContinueFitsRuns
<1>2. CASE FailedStartEmits(current) \/ EmitState \/ UNCHANGED vars
  <2>1. UNCHANGED <<current, agent, call, tail, handling, session>>
    BY <1>2 DEF FailedStartEmits, EmitState, vars
  <2> QED
    BY <2>1 DEF RunsFit, RunningFits, AnnouncedTurnsEnd, StartIsUnderWay,
                Starting, EndWaits, Ends, Finalizing, ProviderBusy
<1> QED
  BY <1>1, <1>2, ProviderFitsRuns, EventFitsRuns DEF OpenNext

\* An open agent is running only for a turn of its provider, the end of one on
\* its way to handleStreamEvent, a start, a replacement, or an active turn whose
\* forwarder a cancel can wake: no order of starts, cancels, early and late
\* events strands it as "running" with nothing left that could end it.
THEOREM RunningIsJustifiedHolds ==
    ASSUME StaysOpen PROVE Spec => []RunningIsJustified
<1>1. Init => RunsFit
  <2> SUFFICES ASSUME Init
               PROVE  RunsFit
    OBVIOUS
  <2>1. /\ agent[current].life = "idle" /\ agent[current].turn = None
        /\ tail = <<>> /\ \A c \in Calls : call[c].at = "out"
    BY DEF Init, Returned, NewCall
  <2> QED
    BY <2>1 DEF RunsFit, RunningFits, AnnouncedTurnsEnd
<1>2. TypeOK /\ Open /\ RunsFit /\ [Next]_vars => RunsFit'
  BY OpenSteps, RunsFitStep
<1>3. TypeOK /\ RunsFit /\ ActiveTurnHasForwarder => RunningIsJustified
  <2> SUFFICES ASSUME TypeOK, RunsFit, ActiveTurnHasForwarder,
                      current # None, agent[current].life = "running"
               PROVE  RunningIsJustified
    BY DEF RunningIsJustified
  <2>1. CASE Finalizing
    <3>1. \E c \in CallSlot : EndQueued(c)
      BY <2>1 DEF Finalizing, EndQueued, TypeOK, Suspends
    <3> QED
      BY <3>1 DEF RunningIsJustified
  <2>2. CASE EndWaits
    <3>1. PICK i \in 1..Len(tail) : Ends(tail, i)
      BY <2>2 DEF EndWaits
    <3>2. tail[i] \in Events
      BY DEF TypeOK
    <3>3. \E c \in CallSlot : EndQueued(c)
      BY <3>1, <3>2 DEF EndQueued, Ends, Events
    <3> QED
      BY <3>3 DEF RunningIsJustified
  <2>3. CASE agent[current].turn # None
    <3>1. agent[current].turn \in Calls
      BY <2>3 DEF TypeOK, Agents, CallSlot
    <3> QED
      BY <2>3, <3>1 DEF ActiveTurnHasForwarder, RunningIsJustified
  <2> QED
    BY <2>1, <2>2, <2>3
       DEF RunsFit, RunningFits, RunningIsJustified, StartIsUnderWay
<1> QED
  BY <1>1, <1>2, <1>3, OpenHolds, TypeCorrect, ActiveTurnHasForwarderHolds, PTL
     DEF Spec

-----------------------------------------------------------------------------
(* The wait of cancelAgentRun that has no timer.                           *)

\* Where the call that a pending run belongs to may stand: it has registered
\* the run and does not come back to register another.
RunStages == {"startTurn", "startRefused", "startFailed", "streaming", "out"}

Told(calls, waiters, t) ==
    calls[t].at = "streaming" /\ waiters[t] = "notified"

\* The pending run, and every run a cancel waits for, was registered; while
\* the agent of the cancel is the registered one its run is told to end.
AwaitsFit ==
    /\ pendingRun # None => call[pendingRun].at \in RunStages
    /\ \A c \in Calls : call[c].at = "awaitStale" /\ call[c].run # None =>
         /\ call[call[c].run].at \in RunStages
         /\ call[c].on = current /\ call[c].run = pendingRun =>
              Told(call, waiter, call[c].run)

\* Who has registered a run does not register another while it is mentioned.
RunsStay ==
    \A t \in Calls : call[t].at \in RunStages
                     /\ (call[t].at = "out" => Mentioned(t))
                     => call'[t].at \in RunStages

\* No cancel begins to wait, and what one waits for is kept.
NoNewAwait ==
    /\ \A c \in Calls : call'[c].at = "awaitStale" => call'[c] = call[c]
    /\ \A c \in Calls : call[c].at = "awaitStale" =>
         (call[c].on = current' => call[c].on = current)

ToldStay == \A t \in Calls : Told(call, waiter, t) => Told(call', waiter', t) \/ pendingRun' # t

\* Such a step keeps the promise if it registers no run.
LEMMA AwaitsKept ==
    ASSUME TypeOK, AwaitsFit, RunsStay, NoNewAwait, ToldStay,
           pendingRun' \in {pendingRun, None}
    PROVE  AwaitsFit'
<1>1. pendingRun' # None => call'[pendingRun'].at \in RunStages
  BY CallsAssumption DEF AwaitsFit, RunsStay, TypeOK, CallSlot, Mentioned
<1>2. ASSUME NEW c \in Calls, call'[c].at = "awaitStale", call'[c].run # None
      PROVE  /\ call'[call'[c].run].at \in RunStages
             /\ call'[c].on = current' /\ call'[c].run = pendingRun' =>
                  Told(call', waiter', call'[c].run)
  <2>1. call'[c] = call[c] /\ call[c].at = "awaitStale"
    BY <1>2 DEF NoNewAwait
  <2>2. PICK run \in Calls : run = call[c].run
    BY <1>2, <2>1 DEF TypeOK, CallStates, CallSlot
  <2>3. call[run].at \in RunStages /\ Mentioned(run)
    BY <1>2, <2>1, <2>2 DEF AwaitsFit, Mentioned
  <2>4. call'[run].at \in RunStages
    BY <2>3 DEF RunsStay
  <2>5. ASSUME call[c].on = current', run = pendingRun'
        PROVE  Told(call', waiter', run)
    <3>1. run = pendingRun /\ call[c].on = current
      BY <1>2, <2>1, <2>2, <2>5, CallsAssumption DEF NoNewAwait
    <3>2. Told(call, waiter, run)
      BY <1>2, <2>1, <2>2, <3>1 DEF AwaitsFit
    <3> QED
      BY <2>5, <3>2 DEF ToldStay
  <2>6. call'[c].run = run
    BY <2>1, <2>2
  <2> QED
    BY <2>1, <2>4, <2>5, <2>6 DEF Told
<1> QED
  BY <1>1, <1>2 DEF AwaitsFit

\* An accepted streamAgent registers a run that no cancel waits for.
LEMMA StartRunKeepsAwaits ==
    ASSUME TypeOK, AwaitsFit, NEW c \in Calls, NEW op, current # None,
           StartRun(c, op), ~Mentioned(c) \/ call[c].at = "canceled"
    PROVE  AwaitsFit'
<1>1. /\ call'[c].at \in {"startTurn", "startRefused"}
      /\ \A d \in Calls : d # c => call'[d] = call[d]
      /\ pendingRun' = c /\ UNCHANGED <<current, waiter>>
  BY DEF StartRun, NewCall, TypeOK
<1>2. ASSUME NEW d \in Calls, call'[d].at = "awaitStale", call'[d].run # None
      PROVE  /\ call'[call'[d].run].at \in RunStages
             /\ call'[d].run # pendingRun'
  <2>1. d # c /\ call'[d] = call[d]
    BY <1>1, <1>2
  <2>2. PICK run \in Calls : run = call[d].run
    BY <1>2, <2>1 DEF TypeOK, CallStates, CallSlot
  <2>3. call[run].at \in RunStages /\ Mentioned(run)
    BY <1>2, <2>1, <2>2 DEF AwaitsFit, Mentioned
  <2>4. run # c
    BY <2>3 DEF RunStages
  <2> QED
    BY <1>1, <2>1, <2>2, <2>3, <2>4
<1> QED
  BY <1>1, <1>2 DEF AwaitsFit, RunStages

\* A step of one call that stands at none of the run's awaits.
LEMMA OneCallKeepsAwaits ==
    ASSUME TypeOK, AwaitsFit, NEW c \in Calls,
           \A d \in Calls : d # c => call'[d] = call[d],
           \/ call[c].at \notin RunStages \/ call'[c].at \in RunStages
           \/ call[c].at = "out" /\ ~Mentioned(c),
           call'[c].at # "awaitStale", ~Told(call, waiter, c) \/ pendingRun' # c,
           \A d \in Calls : d # c /\ waiter[d] = "notified" =>
                               waiter'[d] = "notified",
           \/ current' \in {current, None}
           \/ \A d \in Calls : call[d].on # current',
           pendingRun' \in {pendingRun, None}
    PROVE  AwaitsFit'
<1>1. RunsStay
  BY DEF RunsStay
<1>2. NoNewAwait
  BY DEF NoNewAwait, TypeOK, Attached
<1>3. ToldStay
  BY DEF ToldStay, Told
<1> QED
  BY <1>1, <1>2, <1>3, AwaitsKept

\* Requests.
LEMMA RequestKeepsAwaits ==
    ASSUME TypeOK, AwaitsFit, NEW c \in Calls, Request(c)
    PROVE  AwaitsFit'
<1>1. call[c].at = "out" /\ ~Mentioned(c)
  BY DEF Request, StreamAgent, ReplaceAgentRun, CancelAgentRun, CloseAgent,
         ReloadAgentSession, ResumeAgent, Fresh
<1>2. ASSUME \A d \in Calls : d # c => call'[d] = call[d],
             call'[c].at # "awaitStale",
             \A d \in Calls : waiter[d] = "notified" => waiter'[d] = "notified",
             current' \in {current, None}, pendingRun' \in {pendingRun, None}
      PROVE  AwaitsFit'
  BY <1>1, <1>2, OneCallKeepsAwaits DEF Told
<1>3. CASE \E op : current # None /\ StartRun(c, op)
  BY <1>1, <1>3, StartRunKeepsAwaits
<1>4. CASE \/ \E op : BeginCancel(c, op) /\ UNCHANGED <<current, waiter, pendingRun>>
           \/ \E op, s : BeginResuming(c, op, s)
                         /\ UNCHANGED <<current, waiter, pendingRun>>
  <2>1. /\ \A d \in Calls : d # c => call'[d] = call[d]
        /\ call'[c].at \in {"canceling", "resuming"}
    <3>1. CASE \E op : BeginCancel(c, op)
      BY <3>1 DEF BeginCancel, NewCall, TypeOK
    <3>2. CASE \E op, s : BeginResuming(c, op, s)
      BY <3>2 DEF BeginResuming, NewCall, TypeOK
    <3> QED
      BY <1>4, <3>1, <3>2
  <2> QED
    BY <1>2, <1>4, <2>1
<1>5. CASE CloseAgent(c)
  <2>1. /\ \A d \in Calls : d # c => call'[d] = call[d]
        /\ call'[c].at = "closing"
        /\ \A d \in Calls : waiter[d] = "notified" => waiter'[d] = "notified"
        /\ current' = None /\ pendingRun' = None
    BY <1>5 DEF CloseAgent, NewCall, TypeOK, WaitersOf
  <2> QED
    BY <1>2, <2>1
<1> QED
  BY <1>3, <1>4, <1>5
     DEF Request, StreamAgent, ReplaceAgentRun, CancelAgentRun,
         ReloadAgentSession, ResumeAgent, HasInFlightRun

\* The synthetic turn_canceled wakes the forwarder of the turn, and the turn
\* is the one whose run is pending.
LEMMA CancelForcedKeepsAwaits ==
    ASSUME TypeOK, OneForegroundRun, TurnsFit, AwaitsFit, NEW c \in Calls,
           CancelForced(c)
    PROVE  AwaitsFit'
<1>1. /\ call' = [call EXCEPT ![c].at = "awaitStale", ![c].run = pendingRun]
      /\ call[c].at = "canceling" /\ StillActive(c)
      /\ waiter' = Notified(call[c].turn, WaitsOn(call[c].on, call[c].turn))
      /\ UNCHANGED <<current, pendingRun>>
  BY DEF CancelForced
<1>2. /\ \A d \in Calls : d # c => call'[d] = call[d]
      /\ call'[c].at = "awaitStale" /\ call'[c].run = pendingRun
      /\ call'[c].on = call[c].on
  BY <1>1 DEF TypeOK, CallStates
<1>3. \A d \in Calls : Told(call, waiter, d) => Told(call', waiter', d)
  BY <1>1, <1>2 DEF Told, Notified, TypeOK
<1>4. \A d \in Calls : call[d].at \in RunStages => call'[d].at \in RunStages
  BY <1>1, <1>2 DEF RunStages
<1>5. call[c].on = current /\ pendingRun # None => Told(call', waiter', pendingRun)
  <2> SUFFICES ASSUME call[c].on = current
               PROVE  Told(call', waiter', pendingRun)
    OBVIOUS
  <2>1. PICK t \in Calls : t = call[c].turn /\ t = agent[current].turn
    BY <1>1 DEF StillActive, TypeOK, CallStates, CallSlot
  <2>2. current # None
    BY <1>1 DEF TypeOK, Attached
  <2>3. call[t].at = "streaming" /\ call[t].on = current /\ waiter[t] = "live"
    BY <2>1, <2>2, CallsAssumption DEF TurnsFit, ActiveTurnHasForwarder
  <2>4. pendingRun = t
    BY <2>2, <2>3 DEF OneForegroundRun, Occupies
  <2>5. waiter'[t] = "notified"
    BY <1>1, <2>1, <2>3, CallsAssumption DEF Notified, WaitsOn, TypeOK
  <2>6. call'[t] = call[t]
    BY <1>1, <1>2, <2>3
  <2> QED
    BY <1>1, <2>3, <2>4, <2>5, <2>6 DEF Told
<1>6. pendingRun # None => pendingRun \in Calls
  BY DEF TypeOK, CallSlot
<1>7. ASSUME NEW d \in Calls, call'[d].at = "awaitStale", call'[d].run # None
      PROVE  /\ call'[call'[d].run].at \in RunStages
             /\ call'[d].on = current' /\ call'[d].run = pendingRun' =>
                  Told(call', waiter', call'[d].run)
  <2>1. CASE d = c
    <3>1. call'[d].run = pendingRun /\ call'[d].on = call[c].on
      BY <1>2, <2>1
    <3>2. call'[pendingRun].at \in RunStages
      BY <1>4, <1>6, <1>7, <3>1 DEF AwaitsFit
    <3> QED
      BY <1>1, <1>5, <1>7, <3>1, <3>2 DEF Told
  <2>2. CASE d # c
    <3>1. call'[d] = call[d]
      BY <1>2, <2>2
    <3>2. PICK run \in Calls : run = call[d].run
      BY <1>7, <3>1 DEF TypeOK, CallStates, CallSlot
    <3>3. /\ call[run].at \in RunStages
          /\ call[d].on = current /\ run = pendingRun => Told(call, waiter, run)
      BY <1>7, <3>1, <3>2 DEF AwaitsFit
    <3>4. call'[d].run = run
      BY <3>1, <3>2
    <3> QED
      BY <1>1, <1>3, <1>4, <3>1, <3>3, <3>4 DEF Told
  <2> QED
    BY <2>1, <2>2
<1> QED
  BY <1>1, <1>4, <1>6, <1>7 DEF AwaitsFit

\* What goes on after an await.
LEMMA ContinueKeepsAwaits ==
    ASSUME TypeOK, OneForegroundRun, TurnsFit, AwaitsFit, NEW c \in Calls,
           Continue(c)
    PROVE  AwaitsFit'
<1>1. CASE CancelForced(c)
  BY <1>1, CancelForcedKeepsAwaits
<1>2. CASE ReplacementStarts(c)
  BY <1>2, StartRunKeepsAwaits DEF ReplacementStarts, Replacing
<1>3. CASE ForwarderEnds(c)
  <2>1. /\ \A d \in Calls : d # c => call'[d] = call[d]
        /\ call'[c].at = "out" /\ pendingRun' # c
        /\ pendingRun' \in {pendingRun, None} /\ current' = current
        /\ \A d \in Calls : d # c => waiter'[d] = waiter[d]
    BY <1>3, CallsAssumption
       DEF ForwarderEnds, Finish, Returned, NewCall, TypeOK
  <2> QED
    BY <2>1, OneCallKeepsAwaits DEF RunStages
<1>4. CASE StartTurnResolves(c) \/ StartTurnRejects(c)
  <2>1. /\ \A d \in Calls : d # c => call'[d] = call[d]
        /\ call[c].at # "streaming" /\ call'[c].at \in RunStages
        /\ UNCHANGED <<pendingRun, current>>
        /\ \A d \in Calls : d # c => waiter'[d] = waiter[d]
    BY <1>4 DEF StartTurnResolves, StartTurnRejects, Goto, Finish, Returned,
                NewCall, TypeOK, CallStates, RunStages
  <2> QED
    BY <2>1, OneCallKeepsAwaits DEF RunStages, Told
<1>5. CASE ReplacementFails(c)
  <2>1. /\ \A d \in Calls : d # c => call'[d] = call[d]
        /\ call'[c].at = "out" /\ UNCHANGED <<pendingRun, current, waiter>>
        /\ call[c].at # "streaming"
    BY <1>5 DEF ReplacementFails, ReplacementThrew, Replacing, Finish, Returned,
                NewCall, TypeOK
  <2> QED
    BY <2>1, OneCallKeepsAwaits DEF RunStages, Told
<1>6. CASE \/ CancelObserved(c) \/ StaleRunSettled(c) \/ CloseReturns(c)
           \/ ReloadContinues(c) \/ ResumeFails(c) \/ OldSessionClosed(c)
           \/ RegistrationEmits(c) \/ RegistrationSettles(c)
           \/ RegistrationEnds(c)
  <2>1. /\ \A d \in Calls : d # c => call'[d] = call[d]
        /\ call[c].at \notin RunStages /\ call'[c].at # "awaitStale"
        /\ UNCHANGED <<pendingRun, current, waiter>>
    <3>1. CASE CancelObserved(c) \/ StaleRunSettled(c)
      <4>1. /\ CancelReturns(c) /\ call[c].at \in {"canceling", "awaitStale"}
            /\ UNCHANGED <<pendingRun, current, waiter>>
        BY <3>1 DEF CancelObserved, StaleRunSettled
      <4>2. CASE Finish(c)
        BY <4>1, <4>2 DEF Finish, Returned, NewCall, TypeOK, RunStages
      <4>3. CASE call' = [call EXCEPT ![c].at = "canceled", ![c].turn = None,
                                      ![c].run = None]
        BY <4>1, <4>3 DEF TypeOK, CallStates, RunStages
      <4> QED
        BY <4>1, <4>2, <4>3 DEF CancelReturns
    <3>2. CASE ReloadContinues(c)
      <4>1. /\ Finish(c) \/ BeginResuming(c, "reload", current)
            /\ call[c].at = "canceled"
            /\ UNCHANGED <<pendingRun, current, waiter>>
        BY <3>2 DEF ReloadContinues
      <4>2. CASE Finish(c)
        BY <4>1, <4>2 DEF Finish, Returned, NewCall, TypeOK, RunStages
      <4>3. CASE BeginResuming(c, "reload", current)
        BY <4>1, <4>3 DEF BeginResuming, NewCall, TypeOK, RunStages
      <4> QED
        BY <4>1, <4>2, <4>3
    <3>3. CASE CloseReturns(c) \/ ResumeFails(c)
      BY <3>3 DEF CloseReturns, ResumeFails, Finish, Returned, NewCall, TypeOK,
                  RunStages
    <3>4. CASE \/ OldSessionClosed(c) \/ RegistrationEmits(c)
               \/ RegistrationSettles(c) \/ RegistrationEnds(c)
      <4>1. /\ \/ Finish(c)
               \/ \E stage \in Stages \ {"awaitStale"} : Goto(c, stage)
            /\ call[c].at \notin RunStages
            /\ UNCHANGED <<pendingRun, current, waiter>>
        BY <3>4 DEF OldSessionClosed, RegistrationEmits, RegistrationSettles,
                    RegistrationEnds, RunStages, Stages
      <4> QED
        BY <4>1 DEF Goto, Finish, Returned, NewCall, TypeOK, CallStates
    <3> QED
      BY <1>6, <3>1, <3>2, <3>3, <3>4
  <2> QED
    BY <2>1, OneCallKeepsAwaits DEF RunStages, Told
<1>7. CASE SessionResumed(c)
  <2>1. /\ \A d \in Calls : d # c => call'[d] = call[d]
        /\ call[c].at \notin RunStages /\ call'[c].at # "awaitStale"
        /\ pendingRun' \in {pendingRun, None} /\ current' \in {current, None}
        /\ \A d \in Calls : waiter[d] = "notified" => waiter'[d] = "notified"
    BY <1>7 DEF SessionResumed, Goto, TypeOK, CallStates, RunStages, WaitersOf
  <2> QED
    BY <2>1, OneCallKeepsAwaits DEF RunStages, Told
<1>8. CASE \E s \in Sessions : Register(c, s)
  <2>1. PICK s \in Sessions : Register(c, s)
    BY <1>8
  <2>2. /\ \A d \in Calls : d # c => call'[d] = call[d]
        /\ call[c].at \notin RunStages /\ call'[c].at # "awaitStale"
        /\ UNCHANGED <<pendingRun, waiter>>
        /\ \A d \in Calls : call[d].on # current'
    BY <2>1 DEF Register, Reachable, TypeOK, CallStates, RunStages
  <2> QED
    BY <2>2, OneCallKeepsAwaits DEF RunStages, Told
<1> QED
  BY <1>1, <1>2, <1>3, <1>4, <1>5, <1>6, <1>7, <1>8 DEF Continue

\* Nobody else takes a woken forwarder back to its wait.
LEMMA OthersKeepNotified ==
    ASSUME TypeOK,
           \/ HandleEvents \/ EmitState \/ UNCHANGED vars
           \/ \E s \in Sessions : FailedStartEmits(s) \/ ProviderActs(s)
    PROVE  \A t \in Calls : waiter[t] = "notified" => waiter'[t] = "notified"
BY DEF HandleEvents, DropEvent, HandleTurnStarted, HandleTurnOver,
       HandleTurnFailed, TurnFailedResumes, HandleTurnFailedAtOnce, EmitState,
       FailedStartEmits, ProviderActs, ProviderStartsTurn, ProviderEndsTurn,
       ProviderRunsAutonomously, ProviderEndsAutonomously, vars, Notified,
       TypeOK

LEMMA AwaitsFitStep ==
    ASSUME TypeOK, OneForegroundRun, TurnsFit, AwaitsFit, [Next]_vars
    PROVE  AwaitsFit'
<1>1. CASE \E c \in Calls : Request(c) \/ Continue(c)
  BY <1>1, RequestKeepsAwaits, ContinueKeepsAwaits
<1>2. CASE \/ HandleEvents \/ EmitState \/ UNCHANGED vars
           \/ \E s \in Sessions : FailedStartEmits(s) \/ ProviderActs(s)
  <2>1. UNCHANGED <<current, pendingRun, call>>
    BY <1>2, OthersLeaveCalls
  <2>2. \A t \in Calls : waiter[t] = "notified" => waiter'[t] = "notified"
    BY <1>2, OthersKeepNotified
  <2> QED
    BY <2>1, <2>2, AwaitsKept DEF RunsStay, NoNewAwait, ToldStay, Told
<1> QED
  BY <1>1, <1>2 DEF Next

\* A cancelAgentRun that waits without a timer for a pending run of the
\* registered agent waits for a forwarder that has been woken: the wait ends,
\* whoever cancels, replaces, closes or reloads meanwhile.
THEOREM CancelsWaitForEndingRunsHolds == Spec => []CancelsWaitForEndingRuns
<1>1. Init => AwaitsFit
  BY DEF Init, AwaitsFit, Returned, NewCall
<1>2. TypeOK /\ OneForegroundRun /\ TurnsFit /\ AwaitsFit /\ [Next]_vars
      => AwaitsFit'
  BY AwaitsFitStep
<1>3. AwaitsFit => CancelsWaitForEndingRuns
  BY DEF AwaitsFit, CancelsWaitForEndingRuns, Told
<1> QED
  BY <1>1, <1>2, <1>3, TypeCorrect, OneForegroundRunHolds, TurnsFitHolds, PTL
     DEF Spec

-----------------------------------------------------------------------------
(* Live forwarders: the converse of ActiveTurnHasForwarder.                *)

NoneSuspended == handling = None

\* Without a durable store no turn_failed is ever suspended.
LEMMA NothingSuspended ==
    ASSUME ~SlowStore
    PROVE  Spec => []NoneSuspended
<1>1. Init => NoneSuspended
  BY DEF Init, NoneSuspended
<1>2. NoneSuspended /\ [Next]_vars => NoneSuspended'
  <2> SUFFICES ASSUME handling = None, [Next]_vars
               PROVE  handling' = None
    BY DEF NoneSuspended
  <2>1. CASE \E c \in Calls : Request(c)
    BY <2>1
       DEF Request, StreamAgent, ReplaceAgentRun, CancelAgentRun, CloseAgent,
           ReloadAgentSession, ResumeAgent, StartRun
  <2>2. CASE \E c \in Calls : Continue(c)
    BY <2>2
       DEF Continue, StartTurnResolves, StartTurnRejects, ForwarderEnds,
           CancelObserved, CancelForced, StaleRunSettled, ReplacementStarts,
           StartRun, ReplacementFails, CloseReturns, ReloadContinues,
           SessionResumed, ResumeFails, OldSessionClosed, Register,
           RegistrationEmits, RegistrationSettles, RegistrationEnds
  <2>3. CASE \/ HandleEvents \/ EmitState \/ UNCHANGED vars
             \/ \E s \in Sessions : FailedStartEmits(s) \/ ProviderActs(s)
    BY <2>3
       DEF HandleEvents, DropEvent, HandleTurnStarted, HandleTurnOver,
           HandleTurnFailed, TurnFailedResumes, HandleTurnFailedAtOnce,
           EmitState, FailedStartEmits, ProviderActs, ProviderStartsTurn,
           ProviderEndsTurn, ProviderRunsAutonomously,
           ProviderEndsAutonomously, vars
  <2> QED
    BY <2>1, <2>2, <2>3 DEF Next
<1> QED
  BY <1>1, <1>2, PTL DEF Spec

\* A step of one call that has no forwarder waiting, and that leaves the
\* active turn of the registered agent alone.
LEMMA OneCallKeepsLive ==
    ASSUME TypeOK, LiveForwardersStream, LiveForwardersAreActive,
           NEW c \in Calls,
           \A d \in Calls : d # c => call'[d] = call[d],
           call[c].at # "streaming" \/ waiter'[c] # "live",
           \A d \in Calls : waiter'[d] = "live" => waiter[d] = "live",
           \/ current' = current /\ agent'[current].turn = agent[current].turn
           \/ current' = None
           \/ \A d \in Calls : call[d].on # current'
    PROVE  LiveForwardersAreActive'
<1> SUFFICES ASSUME current' # None, NEW d \in Calls, waiter'[d] = "live",
                    call'[d].on = current'
             PROVE  agent'[current'].turn = d
  BY DEF LiveForwardersAreActive
<1>1. waiter[d] = "live" /\ call[d].at = "streaming"
  BY DEF LiveForwardersStream
<1>2. d # c /\ call'[d] = call[d]
  BY <1>1
<1> QED
  BY <1>1, <1>2 DEF LiveForwardersAreActive

\* An accepted streamAgent leaves the active turn alone.
LEMMA StartRunKeepsLive ==
    ASSUME TypeOK, LiveForwardersStream, LiveForwardersAreActive,
           NEW c \in Calls, NEW op, current # None, StartRun(c, op),
           call[c].at # "streaming"
    PROVE  LiveForwardersAreActive'
<1>1. /\ \A d \in Calls : d # c => call'[d] = call[d]
      /\ UNCHANGED <<current, waiter>>
  BY DEF StartRun, TypeOK
<1>2. agent'[current].turn = agent[current].turn
  BY DEF StartRun, TypeOK, Agents
<1> QED
  BY <1>1, <1>2, OneCallKeepsLive

\* Requests.
LEMMA RequestKeepsLive ==
    ASSUME TypeOK, LiveForwardersStream, LiveForwardersAreActive,
           NEW c \in Calls, Request(c)
    PROVE  LiveForwardersAreActive'
<1>1. call[c].at = "out"
  BY DEF Request, StreamAgent, ReplaceAgentRun, CancelAgentRun, CloseAgent,
         ReloadAgentSession, ResumeAgent, Fresh
<1>2. CASE \E op : current # None /\ StartRun(c, op)
  BY <1>1, <1>2, StartRunKeepsLive
<1>3. CASE \/ \E op : BeginCancel(c, op) /\ UNCHANGED <<current, waiter>>
                      /\ agent'[current].turn = agent[current].turn
           \/ \E op, s : BeginResuming(c, op, s)
                         /\ UNCHANGED <<current, waiter, agent>>
  <2>1. \A d \in Calls : d # c => call'[d] = call[d]
    BY <1>3 DEF BeginCancel, BeginResuming, TypeOK
  <2> QED
    BY <1>1, <1>3, <2>1, OneCallKeepsLive
<1>4. CASE CloseAgent(c)
  BY <1>4 DEF CloseAgent, LiveForwardersAreActive
<1>5. CASE ReplaceAgentRun(c) /\ HasInFlightRun
  <2>1. agent'[current].turn = agent[current].turn
    BY <1>5 DEF ReplaceAgentRun, TypeOK, Agents
  <2> QED
    BY <1>3, <1>5, <2>1 DEF ReplaceAgentRun
<1> QED
  BY <1>2, <1>3, <1>4, <1>5
     DEF Request, StreamAgent, ReplaceAgentRun, CancelAgentRun,
         ReloadAgentSession, ResumeAgent

\* A turn starts, or is refused, where no forwarder waits: the call that
\* starts it owns the pending run.
LEMMA StartTurnKeepsLive ==
    ASSUME TypeOK, OneForegroundRun, LiveForwardersStream,
           LiveForwardersAreActive, NEW c \in Calls,
           StartTurnResolves(c) \/ StartTurnRejects(c)
    PROVE  LiveForwardersAreActive'
<1>1. /\ Starting(c) /\ call[c].on \in Sessions
      /\ \A d \in Calls : d # c => /\ call'[d] = call[d]
                                   /\ waiter'[d] = waiter[d]
      /\ current' = current
  BY DEF StartTurnResolves, StartTurnRejects, Starting, TypeOK, CallStates,
         Attached, Goto, Finish
<1>2. /\ \A s \in Sessions : s # call[c].on => agent'[s] = agent[s]
      /\ waiter'[c] = "live" =>
           agent'[call[c].on].turn = c /\ call'[c].on = call[c].on
  <2>1. CASE StartTurnResolves(c)
    BY <1>1, <2>1 DEF StartTurnResolves, Goto, TypeOK, CallStates, Agents
  <2>2. CASE StartTurnRejects(c)
    BY <1>1, <2>2
       DEF StartTurnRejects, FinalizeInto, TypeOK, Starting, LiveForwardersStream
  <2> QED
    BY <2>1, <2>2
<1> SUFFICES ASSUME current' # None, NEW d \in Calls, waiter'[d] = "live",
                    call'[d].on = current'
             PROVE  agent'[current'].turn = d
  BY DEF LiveForwardersAreActive
<1>3. CASE d = c
  BY <1>1, <1>2, <1>3
<1>4. CASE d # c
  <2>1. waiter[d] = "live" /\ call[d].on = current /\ current # None
    BY <1>1, <1>4
  <2>2. pendingRun = d
    BY <2>1 DEF OneForegroundRun, Occupies, LiveForwardersStream
  <2>3. call[c].on # current
    BY <1>1, <1>4, <2>1, <2>2 DEF OneForegroundRun, Occupies
  <2> QED
    BY <1>1, <1>2, <2>1, <2>3 DEF LiveForwardersAreActive, TypeOK
<1> QED
  BY <1>3, <1>4

\* A turn that ends takes the forwarder that waits for it along: the only
\* live one of the registered agent.
LEMMA EndingKeepsLive ==
    ASSUME TypeOK, LiveForwardersStream, LiveForwardersAreActive,
           NEW s \in Sessions, NEW t,
           waiter' = Notified(t, WaitsOn(s, t)), current' = current,
           \A d \in Calls : waiter'[d] = "live" => call'[d].on = call[d].on,
           \A u \in Sessions : u # s => agent'[u] = agent[u],
           \/ agent'[s].turn = agent[s].turn
           \/ agent[s].turn = t /\ t # None
    PROVE  LiveForwardersAreActive'
<1> SUFFICES ASSUME current' # None, NEW d \in Calls, waiter'[d] = "live",
                    call'[d].on = current'
             PROVE  agent'[current'].turn = d
  BY DEF LiveForwardersAreActive
<1>1. waiter[d] = "live"
  BY DEF Notified, TypeOK
<1>2. call[d].on = current /\ agent[current].turn = d
  BY <1>1 DEF LiveForwardersAreActive
<1>3. CASE current # s \/ agent'[s].turn = agent[s].turn
  BY <1>2, <1>3 DEF TypeOK
<1>4. CASE current = s /\ agent[s].turn = t /\ t # None
  <2>1. d = t /\ WaitsOn(s, t)
    BY <1>1, <1>2, <1>4 DEF WaitsOn
  <2>2. waiter'[d] = "notified"
    BY <1>1, <2>1 DEF Notified, TypeOK
  <2> QED
    BY <2>2
<1> QED
  BY <1>3, <1>4

\* The synthetic turn_canceled.
LEMMA CancelForcedKeepsLive ==
    ASSUME TypeOK, LiveForwardersStream, LiveForwardersAreActive,
           NEW c \in Calls, CancelForced(c)
    PROVE  LiveForwardersAreActive'
<1> DEFINE s == call[c].on
           t == call[c].turn
<1>1. s \in Sessions /\ t # None /\ agent[s].turn = t
  BY DEF CancelForced, StillActive, TypeOK, Attached, CallStates
<1>2. /\ waiter' = Notified(t, WaitsOn(s, t)) /\ current' = current
      /\ \A d \in Calls : call'[d].on = call[d].on
  BY DEF CancelForced, TypeOK, CallStates
<1>3. \A u \in Sessions : u # s => agent'[u] = agent[u]
  BY <1>1 DEF CancelForced, FinalizeInto, TypeOK
<1> HIDE DEF s, t
<1> QED
  BY <1>1, <1>2, <1>3, EndingKeepsLive

\* turn_completed, turn_canceled and turn_failed, handled at once.
LEMMA OverKeepsLive ==
    ASSUME TypeOK, LiveForwardersStream, LiveForwardersAreActive,
           HandleTurnOver \/ HandleTurnFailedAtOnce
    PROVE  LiveForwardersAreActive'
<1> DEFINE e == Head(tail)
           s == current
<1>1. s \in Sessions /\ agent[s] \in Agents
  BY DEF HandleTurnOver, HandleTurnFailedAtOnce, HandlesFailure, TypeOK
<1>2. /\ waiter' = Notified(e.turn, WaitsOn(s, e.turn))
      /\ UNCHANGED <<current, call>>
  BY DEF HandleTurnOver, HandleTurnFailedAtOnce
<1>3. /\ \A u \in Sessions : u # s => agent'[u] = agent[u]
      /\ ~Foreground(e) => agent'[s].turn = agent[s].turn
  <2>1. PICK a :
          /\ ~Foreground(e) => a.turn = agent[s].turn
          /\ agent' = [agent EXCEPT ![s] = a]
    <3>1. CASE HandleTurnOver
      <4> DEFINE b == [agent[s] EXCEPT !.failed = FALSE]
                 rests == IF b.replacing THEN b ELSE [b EXCEPT !.life = "idle"]
      <4>1. rests.turn = agent[s].turn
        BY <1>1 DEF Agents
      <4>2. \/ Foreground(e) /\ agent' = [agent EXCEPT ![s] = Finalized(b)]
            \/ ~Foreground(e) /\ agent' = [agent EXCEPT ![s] = rests]
        BY <3>1 DEF HandleTurnOver, FinalizeInto
      <4> HIDE DEF b, rests
      <4> QED
        BY <4>1, <4>2
    <3>2. CASE HandleTurnFailedAtOnce
      <4>1. WithFailure(e).turn = agent[s].turn
        BY <1>1 DEF WithFailure, Agents
      <4>2. \/ /\ Foreground(e)
               /\ agent' = [agent EXCEPT ![s] = Finalized(WithFailure(e))]
            \/ ~Foreground(e) /\ agent' = [agent EXCEPT ![s] = WithFailure(e)]
        BY <3>2 DEF HandleTurnFailedAtOnce, FinalizeInto
      <4> QED
        BY <4>1, <4>2
    <3> QED
      BY <3>1, <3>2
  <2> QED
    BY <1>1, <2>1 DEF TypeOK
<1>4. Foreground(e) => agent[s].turn = e.turn /\ e.turn # None
  BY DEF Foreground
<1> HIDE DEF e, s
<1> QED
  BY <1>1, <1>2, <1>3, <1>4, EndingKeepsLive DEF s

\* What goes on after an await.
LEMMA ContinueKeepsLive ==
    ASSUME TypeOK, OneForegroundRun, LiveForwardersStream,
           LiveForwardersAreActive, NEW c \in Calls, Continue(c)
    PROVE  LiveForwardersAreActive'
<1>1. CASE StartTurnResolves(c) \/ StartTurnRejects(c)
  BY <1>1, StartTurnKeepsLive
<1>2. CASE CancelForced(c)
  BY <1>2, CancelForcedKeepsLive
<1>3. CASE ReplacementStarts(c)
  BY <1>3, StartRunKeepsLive DEF ReplacementStarts, Replacing
<1>4. CASE ForwarderEnds(c)
  <2>1. /\ \A d \in Calls : d # c => /\ call'[d] = call[d]
                                     /\ waiter'[d] = waiter[d]
        /\ waiter'[c] = "none" /\ UNCHANGED <<current, agent>>
    BY <1>4 DEF ForwarderEnds, Finish, TypeOK
  <2> QED
    BY <2>1, OneCallKeepsLive
<1>5. CASE ReplacementFails(c)
  <2>1. /\ \A d \in Calls : d # c => call'[d] = call[d]
        /\ call[c].at # "streaming" /\ UNCHANGED <<current, waiter>>
    BY <1>5 DEF ReplacementFails, ReplacementThrew, Replacing, Finish, TypeOK
  <2>2. current # None => agent'[current].turn = agent[current].turn
    BY <1>5 DEF ReplacementFails, TypeOK, Agents
  <2> QED
    BY <2>1, <2>2, OneCallKeepsLive
<1>6. CASE \/ CancelObserved(c) \/ StaleRunSettled(c) \/ CloseReturns(c)
           \/ ReloadContinues(c) \/ ResumeFails(c) \/ OldSessionClosed(c)
           \/ RegistrationEmits(c) \/ RegistrationEnds(c)
  <2>1. /\ \A d \in Calls : d # c => call'[d] = call[d]
        /\ call[c].at # "streaming" /\ UNCHANGED <<current, agent, waiter>>
    BY <1>6
       DEF CancelObserved, StaleRunSettled, CancelReturns, CloseReturns,
           ReloadContinues, BeginResuming, ResumeFails, OldSessionClosed,
           RegistrationEmits, RegistrationEnds, Goto, Finish, TypeOK
  <2> QED
    BY <2>1, OneCallKeepsLive
<1>7. CASE RegistrationSettles(c)
  <2>1. /\ \A d \in Calls : d # c => call'[d] = call[d]
        /\ call[c].at # "streaming" /\ UNCHANGED <<current, waiter>>
    BY <1>7 DEF RegistrationSettles, Goto, TypeOK
  <2>2. \A s \in Sessions : agent'[s].turn = agent[s].turn
    BY <1>7 DEF RegistrationSettles, TypeOK, Agents
  <2> QED
    BY <2>1, <2>2, OneCallKeepsLive DEF TypeOK
<1>8. CASE SessionResumed(c)
  <2>1. current' = None
    BY <1>8 DEF SessionResumed
  <2> QED
    BY <2>1 DEF LiveForwardersAreActive
<1>9. CASE \E s \in Sessions : Register(c, s)
  <2>1. /\ \A d \in Calls : d # c => call'[d] = call[d]
        /\ call[c].at # "streaming" /\ UNCHANGED waiter
        /\ \A d \in Calls : call[d].on # current'
    BY <1>9 DEF Register, Reachable, TypeOK
  <2> QED
    BY <2>1, OneCallKeepsLive
<1> QED
  BY <1>1, <1>2, <1>3, <1>4, <1>5, <1>6, <1>7, <1>8, <1>9 DEF Continue

\* Every step, while no handler is suspended.
LEMMA LiveStep ==
    ASSUME TypeOK, OneForegroundRun, LiveForwardersStream,
           LiveForwardersAreActive, ~SlowStore, handling = None, [Next]_vars
    PROVE  LiveForwardersAreActive'
<1>1. CASE \E c \in Calls : Request(c) \/ Continue(c)
  BY <1>1, RequestKeepsLive, ContinueKeepsLive
<1>2. CASE HandleTurnOver \/ HandleTurnFailedAtOnce
  BY <1>2, OverKeepsLive
<1>3. CASE HandleTurnFailed \/ TurnFailedResumes
  BY <1>3 DEF HandleTurnFailed, TurnFailedResumes
<1>4. CASE \/ DropEvent \/ HandleTurnStarted \/ EmitState \/ UNCHANGED vars
           \/ \E s \in Sessions : FailedStartEmits(s) \/ ProviderActs(s)
  <2>1. UNCHANGED <<current, call, waiter>>
    BY <1>4
       DEF DropEvent, HandleTurnStarted, EmitState, FailedStartEmits,
           ProviderActs, ProviderStartsTurn, ProviderEndsTurn,
           ProviderRunsAutonomously, ProviderEndsAutonomously, vars
  <2>2. current # None => agent'[current].turn = agent[current].turn
    BY <1>4
       DEF DropEvent, HandleTurnStarted, EmitState, FailedStartEmits,
           ProviderActs, ProviderStartsTurn, ProviderEndsTurn,
           ProviderRunsAutonomously, ProviderEndsAutonomously, vars, TypeOK,
           Agents
  <2> QED
    BY <2>1, <2>2 DEF LiveForwardersAreActive
<1> QED
  BY <1>1, <1>2, <1>3, <1>4 DEF Next, HandleEvents

\* A forwarder of the registered agent that has not been told of an end waits
\* for the active turn, so that cancelAgentRun finds what it has to end.  It
\* assumes a manager without a durable timeline store: with one, a suspended
\* turn_failed handler clears whatever turn is active when it resumes.
THEOREM LiveForwardersAreActiveHolds ==
    ASSUME ~SlowStore
    PROVE  Spec => []LiveForwardersAreActive
<1>1. Init => LiveForwardersAreActive
  BY DEF Init, LiveForwardersAreActive
<1>2. TypeOK /\ OneForegroundRun /\ TurnsFit /\ NoneSuspended
      /\ LiveForwardersAreActive /\ [Next]_vars => LiveForwardersAreActive'
  BY LiveStep DEF TurnsFit, NoneSuspended
<1> QED
  BY <1>1, <1>2, NothingSuspended, TypeCorrect, OneForegroundRunHolds,
     TurnsFitHolds, PTL DEF Spec
=============================================================================
