----------------------------- MODULE AgentRuns -----------------------------
(***************************************************************************)
(* The foreground-run protocol of AgentManager (packages/server/src/server *)
(* /agent/agent-manager.ts) for ONE agent id: concurrent callers stream,   *)
(* replace, cancel, close, reload and resume the agent while its provider  *)
(* session starts turns, ends them and emits events of its own accord.     *)
(*                                                                         *)
(* JavaScript runs to completion between awaits, so an action is the code  *)
(* from one await to the next, and every await is a point where any other  *)
(* call may run.  A wait raced with a timer may end at any moment, since   *)
(* the model has no clock.                                                 *)
(*                                                                         *)
(* A call id stands for the call, for the token of the pending run it      *)
(* registers and for the turn id its session returns: the three are        *)
(* created together and never reused.  Ids are recycled once nothing       *)
(* mentions them, so histories are unbounded.  A session id stands for a   *)
(* ManagedAgent object together with its AgentSession.                     *)
(*                                                                         *)
(* Permissions, timeline rows, attention and persistence are touched by    *)
(* the same handlers but never read by this protocol; they are left out.   *)
(***************************************************************************)
EXTENDS Naturals, Sequences

CONSTANTS
    Calls,       \* calls that may be in flight at once
    Sessions,    \* ManagedAgent objects that may be alive at once
    None,        \* undefined / null
    Ops,         \* the entry points this instance exercises
    Autonomous,  \* whether the provider starts turns of its own accord
    EarlyEnd,    \* whether a turn may end before its startTurn has resolved
    SlowStore,   \* whether reading the committed timeline takes an event-loop turn
    MaxTail      \* bound on events queued behind sessionEventTails

EntryPoints == {"stream", "replace", "cancel", "close", "reload", "resume"}

ASSUME CallsAssumption    == None \notin Calls
ASSUME SessionsAssumption == None \notin Sessions
ASSUME OpsAssumption      == Ops \subseteq EntryPoints
ASSUME BoundsAssumption   == MaxTail \in Nat
ASSUME ProviderAssumption == {Autonomous, EarlyEnd, SlowStore} \subseteq BOOLEAN

VARIABLES
    current,      \* agents.get(id): the registered object, or None
    agent,        \* agent[s]: the run-related fields of object s
    pendingRun,   \* pendingForegroundRuns.get(id): token, or None
    emitted,      \* previousStatuses.get(id): the status subscribers saw last
    call,         \* call[c]: where call c stands
    waiter,       \* waiter[c]: the ForegroundTurnWaiter of c's forwarder
    tail,         \* events waiting behind sessionEventTails.get(id)
    handling,     \* a turn_failed suspended inside handleStreamEvent, or None
    owed,         \* objects whose failed start has yet to emit once more
    session       \* session[s]: the provider side (external)

vars == <<current, agent, pendingRun, emitted, call, waiter, tail, handling,
          owed, session>>

Lifecycles == {"initializing", "idle", "running", "error"}
Terminals  == {"turn_completed", "turn_failed", "turn_canceled"}
CallSlot   == Calls \cup {None}

Agents   == [life : Lifecycles, turn : CallSlot, replacing : BOOLEAN,
             failed : BOOLEAN]
Events   == [type : Terminals \cup {"turn_started"}, turn : CallSlot]
Suspends == [on : Sessions, turn : CallSlot, foreground : BOOLEAN,
             notify : BOOLEAN]
Provider == [turn : CallSlot, announced : BOOLEAN, autonomous : BOOLEAN,
             subscribed : BOOLEAN]

ASSUME NoneAssumption == None \notin Suspends

(* Where a call stands: the await it is suspended at, "out" when it has    *)
(* returned.  on: the object it captured; turn and run: the turn id and    *)
(* the pending run cancelAgentRun snapshots; failed: preservedLastError.   *)
Stages == {"out", "startTurn", "startRefused", "streaming", "startFailed",
           "canceling", "awaitStale", "canceled", "closing", "resuming", "closingOld",
           "naming", "registered", "initializing", "announcing"}
CallStates == [op : EntryPoints \cup {None}, at : Stages, on : Sessions \cup {None},
               turn : CallSlot, run : CallSlot, failed : BOOLEAN]

(* The awaits after which a call goes on with the object it captured.      *)
Attached == {"startTurn", "startRefused", "streaming", "canceling",
             "awaitStale", "registered", "initializing", "announcing"}

\* Shapes of the variables; a call that goes on with a captured object has
\* one (the closures of streamAgent, cancelAgentRun and registerSession).
TypeOK ==
    /\ current    \in Sessions \cup {None}
    /\ agent      \in [Sessions -> Agents]
    /\ pendingRun \in CallSlot
    /\ emitted    \in Lifecycles \cup {"closed", None}
    /\ call       \in [Calls -> CallStates]
    /\ \A c \in Calls : call[c].at \in Attached => call[c].on # None
    /\ waiter     \in [Calls -> {"none", "live", "settled", "notified"}]
    /\ tail       \in Seq(Events)
    /\ handling   \in Suspends \cup {None}
    /\ owed       \subseteq Sessions
    /\ session    \in [Sessions -> Provider]

-----------------------------------------------------------------------------
(* Helpers.                                                                *)

NewCall(op, stage) == [op |-> op, at |-> stage, on |-> None, turn |-> None,
                       run |-> None, failed |-> FALSE]

Returned == NewCall(None, "out")

Finish(c) == call' = [call EXCEPT ![c] = Returned]

Goto(c, stage) == call' = [call EXCEPT ![c].at = stage]

(* A session that runs nothing and whose events nobody hears: a new one,   *)
(* and one that close() was called on after the manager unsubscribed.      *)
Silent == [turn |-> None, announced |-> FALSE, autonomous |-> FALSE,
           subscribed |-> FALSE]

(* An object is garbage when neither the manager nor a suspended          *)
(* continuation can reach it, and its session tells nobody anything.       *)
Reachable(s) ==
    \/ s = current
    \/ session[s].subscribed
    \/ s \in owed
    \/ \E c \in Calls : call[c].on = s
    \/ handling # None /\ handling.on = s

(* A call id may stand for a new call once nothing mentions it.            *)
Mentioned(c) ==
    \/ pendingRun = c
    \/ \E d \in Calls : call[d].turn = c \/ call[d].run = c
    \/ \E s \in Sessions :
          Reachable(s) /\ (agent[s].turn = c \/ session[s].turn = c)
    \/ \E i \in 1..Len(tail) : tail[i].turn = c
    \/ handling # None /\ handling.turn = c

Fresh(c, op) == op \in Ops /\ call[c].at = "out" /\ ~Mentioned(c)

(* agent-manager.ts hasInFlightRun, and the same test in replaceAgentRun   *)
(* and cancelAgentRun.                                                     *)
HasInFlightRun ==
    /\ current # None
    /\ \/ agent[current].life = "running"
       \/ agent[current].turn # None
       \/ pendingRun # None

(* finalizeForegroundTurn: a pending replacement keeps the agent busy,     *)
(* unless the turn ended in an error.                                      *)
HeldBusy(a) == a.replacing /\ ~a.failed

(* Mutants: the turn is never cleared; a status no live agent has.         *)
FinalizedKeepsTurn(a) ==
    [a EXCEPT !.life = IF a.failed THEN "error" ELSE "idle"]
FinalizedAsClosed(a) == [a EXCEPT !.turn = None, !.life = "closed"]

Finalized(a) ==
    [a EXCEPT !.turn = None,
              !.life = IF HeldBusy(a) THEN "running"
                       ELSE IF a.failed THEN "error" ELSE "idle"]

(* Mutant: the new state is not emitted.                                   *)
FinalizeSilently(s, a) ==
    /\ agent'   = [agent EXCEPT ![s] = Finalized(a)]
    /\ emitted' = emitted

(* finalizeForegroundTurn emits the state it computed, unless held busy.   *)
FinalizeInto(s, a) ==
    /\ agent'   = [agent EXCEPT ![s] = Finalized(a)]
    /\ emitted' = IF HeldBusy(a) THEN emitted ELSE Finalized(a).life

(* An unsettled waiter of object s for this turn receives a terminal      *)
(* event, which wakes its forwarder.                                       *)
WaitsOn(s, turn) ==
    turn # None /\ call[turn].on = s /\ waiter[turn] = "live"

Notified(turn, wanted) ==
    IF wanted /\ waiter[turn] # "none"
    THEN [waiter EXCEPT ![turn] = "notified"] ELSE waiter

-----------------------------------------------------------------------------
(* streamAgent, runAgent and the start of a replacement.                   *)

(* Mutant: a run that has not started yet is overlooked.                   *)
NoActiveTurn == agent[current].turn = None

SlotFree == agent[current].turn = None /\ pendingRun = None

(* The accepted half of streamAgent: both fields are reset, the pending    *)
(* run is registered, and the forwarder calls session.startTurn, which a   *)
(* session that still runs a foreground turn is going to reject.           *)
StartRun(c, op) ==
    LET free == session[current].turn = None IN
    /\ agent' = [agent EXCEPT ![current].replacing = FALSE,
                              ![current].failed = FALSE]
    /\ pendingRun' = c
    /\ call' = [call EXCEPT ![c] =
                  [NewCall(op, IF free THEN "startTurn" ELSE "startRefused")
                     EXCEPT !.on = current]]
    /\ session' = IF free THEN [session EXCEPT ![current].turn = c,
                                               ![current].announced = FALSE]
                  ELSE session
    /\ UNCHANGED <<current, emitted, waiter, tail, handling, owed>>

(* A call that finds the slot taken throws and changes nothing.            *)
StreamAgent(c) ==
    /\ Fresh(c, "stream")
    /\ current # None
    /\ SlotFree
    /\ StartRun(c, "stream")

StartTurnResolves(c) ==
    LET s == call[c].on IN
    /\ call[c].at = "startTurn"
    /\ agent'   = [agent EXCEPT ![s].turn = c, ![s].life = "running"]
    /\ emitted' = "running"
    /\ waiter'  = [waiter EXCEPT ![c] = "live"]
    /\ Goto(c, "streaming")
    /\ UNCHANGED <<current, pendingRun, tail, handling, owed, session>>

(* The catch block runs handleStreamEvent(turn_failed), which suspends     *)
(* before its emitState, then finalizeForegroundTurn, then rethrows.  A    *)
(* turn the provider had already announced goes on without an owner.       *)
StartTurnRejects(c) ==
    LET s == call[c].on
        a == [agent[s] EXCEPT !.life = "error", !.failed = TRUE] IN
    /\ call[c].at \in {"startTurn", "startRefused"}
    /\ FinalizeInto(s, a)
    /\ owed' = owed \cup {s}
    /\ session' = IF session[s].turn # c THEN session
                  ELSE [session EXCEPT
                          ![s].turn = None,
                          ![s].autonomous = @ \/ session[s].announced]
    /\ IF call[c].op = "replace" THEN Goto(c, "startFailed") ELSE Finish(c)
    /\ UNCHANGED <<current, pendingRun, waiter, tail, handling>>

(* The suspended handleStreamEvent(turn_failed) of a rejected start emits. *)
FailedStartEmits(s) ==
    /\ s \in owed
    /\ owed' = owed \ {s}
    /\ emitted' = agent[s].life
    /\ UNCHANGED <<current, agent, pendingRun, call, waiter, tail, handling,
                   session>>

(* The forwarder's finally block: it was woken by a terminal event, which  *)
(* is also the only one a consumer throws at, or it finds its waiter       *)
(* settled before it goes to sleep on an empty queue.                      *)
ForwarderEnds(c) ==
    /\ call[c].at = "streaming"
    /\ waiter[c] \in {"notified", "settled"}
    /\ waiter' = [waiter EXCEPT ![c] = "none"]
    /\ pendingRun' = IF pendingRun = c THEN None ELSE pendingRun
    /\ Finish(c)
    /\ UNCHANGED <<current, agent, emitted, tail, handling, owed, session>>

-----------------------------------------------------------------------------
(* cancelAgentRun, alone or as the first half of a replace or a reload.    *)

BeginCancel(c, op) ==
    call' = [call EXCEPT ![c] =
               [NewCall(op, "canceling") EXCEPT
                  !.on = current,
                  !.turn = agent[current].turn,
                  !.run = pendingRun]]

CancelAgentRun(c) ==
    /\ Fresh(c, "cancel")
    /\ HasInFlightRun
    /\ BeginCancel(c, "cancel")
    /\ UNCHANGED <<current, agent, pendingRun, emitted, waiter, tail,
                   handling, owed, session>>

(* On an idle agent replaceAgentRun is streamAgent.                        *)
ReplaceAgentRun(c) ==
    /\ Fresh(c, "replace")
    /\ current # None
    /\ IF HasInFlightRun
       THEN /\ agent' = [agent EXCEPT ![current].replacing = TRUE]
            /\ BeginCancel(c, "replace")
            /\ UNCHANGED <<current, pendingRun, emitted, waiter, tail,
                           handling, owed, session>>
       ELSE StartRun(c, "stream")

(* Permissions that are still pending are denied, and the object emitted.  *)
CancelReturns(c) ==
    /\ emitted' \in {emitted, agent[call[c].on].life}
    /\ IF call[c].op = "cancel" THEN Finish(c)
       ELSE call' = [call EXCEPT ![c].at = "canceled", ![c].turn = None,
                                 ![c].run = None]

(* Mutant: only a cancel that found no turn forces anything.               *)
NeverStillActive(c) == call[c].turn = None /\ agent[call[c].on].turn # None

StillActive(c) ==
    call[c].turn # None /\ agent[call[c].on].turn = call[c].turn

(* Interrupt and the waits after it are raced with timers; when they are   *)
(* over and the turn is no longer the active one, there is nothing to do.  *)
CancelObserved(c) ==
    /\ call[c].at = "canceling"
    /\ ~StillActive(c)
    /\ CancelReturns(c)
    /\ UNCHANGED <<current, agent, pendingRun, waiter, tail, handling, owed,
                   session>>

(* Mutant: the forwarder of the canceled turn is not woken.                *)
CancelForcedSilently(c) ==
    /\ call[c].at = "canceling"
    /\ StillActive(c)
    /\ FinalizeInto(call[c].on, [agent[call[c].on] EXCEPT !.failed = FALSE])
    /\ call' = [call EXCEPT ![c].at = "awaitStale", ![c].run = pendingRun]
    /\ UNCHANGED <<current, pendingRun, waiter, tail, handling, owed, session>>

(* Otherwise a synthetic turn_canceled finalizes the turn, and the cancel  *)
(* then waits, without a timer, for whatever pending run it finds.         *)
CancelForced(c) ==
    LET s == call[c].on
        turn == call[c].turn IN
    /\ call[c].at = "canceling"
    /\ StillActive(c)
    /\ FinalizeInto(s, [agent[s] EXCEPT !.failed = FALSE])
    /\ waiter' = Notified(turn, WaitsOn(s, turn))
    /\ call' = [call EXCEPT ![c].at = "awaitStale", ![c].run = pendingRun]
    /\ UNCHANGED <<current, pendingRun, tail, handling, owed, session>>

StaleRunSettled(c) ==
    /\ call[c].at = "awaitStale"
    /\ call[c].run = None \/ call[c].run # pendingRun
    /\ CancelReturns(c)
    /\ UNCHANGED <<current, agent, pendingRun, waiter, tail, handling, owed,
                   session>>

Replacing(c) == call[c].at = "canceled" /\ call[c].op = "replace"

(* replaceRunForwarder goes on to streamAgent on whatever is registered.   *)
ReplacementStarts(c) ==
    /\ Replacing(c)
    /\ current # None
    /\ SlotFree
    /\ StartRun(c, "replace")

(* When the catch block of replaceRunForwarder runs: streamAgent threw, or *)
(* the turn could not be started.                                          *)
ReplacementThrew(c) ==
    \/ call[c].at = "startFailed"
    \/ Replacing(c) /\ (current # None => ~SlotFree)

(* Mutants: the catch block forgets the hold; it forgets the status.       *)
ReplacementFailsHolding(c) ==
    /\ ReplacementThrew(c)
    /\ Finish(c)
    /\ UNCHANGED <<current, agent, pendingRun, emitted, waiter, tail,
                   handling, owed, session>>
ReplacementFailsRunning(c) ==
    /\ ReplacementThrew(c)
    /\ Finish(c)
    /\ agent' = IF current = None THEN agent
                ELSE [agent EXCEPT ![current].replacing = FALSE]
    /\ UNCHANGED <<current, pendingRun, emitted, waiter, tail, handling,
                   owed, session>>

(* It clears the hold of whatever is registered now, and its busy status   *)
(* too unless a turn is active.                                            *)
ReplacementFails(c) ==
    /\ ReplacementThrew(c)
    /\ Finish(c)
    /\ IF current = None THEN UNCHANGED <<agent, emitted>>
       ELSE LET a == [agent[current] EXCEPT !.replacing = FALSE]
                toIdle == a.turn = None /\ a.life = "running" IN
            /\ agent' = [agent EXCEPT ![current] =
                           IF toIdle THEN [a EXCEPT !.life = "idle"] ELSE a]
            /\ emitted' = IF toIdle THEN "idle" ELSE emitted
    /\ UNCHANGED <<current, pendingRun, waiter, tail, handling, owed, session>>

-----------------------------------------------------------------------------
(* closeAgent.                                                             *)

WaitersOf(s) == {c \in Calls : call[c].on = s /\ waiter[c] = "live"}

(* prepareAgentForClosure: the entry goes first, and every forwarder is    *)
(* woken with a turn_canceled.  The object itself keeps its turn id.       *)
CloseAgent(c) ==
    /\ Fresh(c, "close")
    /\ current # None
    /\ current' = None
    /\ emitted' = None
    /\ session' = [session EXCEPT ![current] = Silent]
    /\ waiter' = [d \in Calls |-> IF d \in WaitersOf(current)
                                  THEN "notified" ELSE waiter[d]]
    /\ pendingRun' = None
    /\ call' = [call EXCEPT ![c] = NewCall("close", "closing")]
    /\ UNCHANGED <<agent, tail, handling, owed>>

(* session.close() answered: the closed snapshot is emitted.  When it      *)
(* throws, nothing is.                                                     *)
CloseReturns(c) ==
    /\ call[c].at = "closing"
    /\ Finish(c)
    /\ emitted' \in {emitted, "closed"}
    /\ UNCHANGED <<current, agent, pendingRun, waiter, tail, handling, owed,
                   session>>

-----------------------------------------------------------------------------
(* reloadAgentSession, resumeAgentFromPersistence and registerSession.     *)

BeginResuming(c, op, s) ==
    call' = [call EXCEPT ![c] =
               [NewCall(op, "resuming") EXCEPT
                  !.on = s,
                  !.failed = IF s = None THEN FALSE ELSE agent[s].failed]]

ReloadAgentSession(c) ==
    /\ Fresh(c, "reload")
    /\ current # None
    /\ IF HasInFlightRun THEN BeginCancel(c, "reload")
       ELSE BeginResuming(c, "reload", current)
    /\ UNCHANGED <<current, agent, pendingRun, emitted, waiter, tail,
                   handling, owed, session>>

(* After its cancel a reload looks the agent up again, and throws if it    *)
(* is gone.                                                                *)
ReloadContinues(c) ==
    /\ call[c].at = "canceled"
    /\ call[c].op = "reload"
    /\ IF current = None THEN Finish(c)
       ELSE BeginResuming(c, "reload", current)
    /\ UNCHANGED <<current, agent, pendingRun, emitted, waiter, tail,
                   handling, owed, session>>

(* resumeAgentFromPersistence on an id that is not loaded.                 *)
ResumeAgent(c) ==
    /\ Fresh(c, "resume")
    /\ current = None
    /\ BeginResuming(c, "resume", None)
    /\ UNCHANGED <<current, agent, pendingRun, emitted, waiter, tail,
                   handling, owed, session>>

(* client.resumeSession or createSession answered.  A reload drops the     *)
(* entry of the id, whichever object it holds, settles the waiters of the  *)
(* object it captured WITHOUT an event, and the pending run of the id.     *)
SessionResumed(c) ==
    LET old == call[c].on IN
    /\ call[c].at = "resuming"
    /\ IF old = None
       THEN /\ Goto(c, "naming")
            /\ current = None
            /\ UNCHANGED <<current, waiter, pendingRun, session>>
       ELSE /\ current' = None
            /\ session' = [session EXCEPT ![old] = Silent]
            /\ waiter' = [d \in Calls |-> IF d \in WaitersOf(old)
                                          THEN "settled" ELSE waiter[d]]
            /\ pendingRun' = None
            /\ call' = [call EXCEPT ![c].at = "closingOld", ![c].on = None]
    /\ UNCHANGED <<agent, emitted, tail, handling, owed>>

(* The provider failed, or registerSession found the id registered.        *)
ResumeFails(c) ==
    /\ \/ call[c].at = "resuming"
       \/ call[c].at = "closingOld" /\ current # None
    /\ Finish(c)
    /\ UNCHANGED <<current, agent, pendingRun, emitted, waiter, tail,
                   handling, owed, session>>

(* closeReloadedSession answered or timed out; registerSession begins.     *)
OldSessionClosed(c) ==
    /\ call[c].at = "closingOld"
    /\ current = None
    /\ Goto(c, "naming")
    /\ UNCHANGED <<current, agent, pendingRun, emitted, waiter, tail,
                   handling, owed, session>>

(* The has-check passed an await ago: agents.set does not look again.      *)
Register(c, s) ==
    /\ call[c].at = "naming"
    /\ ~Reachable(s)
    /\ current' = s
    /\ agent' = [agent EXCEPT ![s] = [life |-> "initializing", turn |-> None,
                                      replacing |-> FALSE,
                                      failed |-> call[c].failed]]
    /\ session' = [session EXCEPT ![s] = Silent]
    /\ emitted' = "initializing"
    /\ call' = [call EXCEPT ![c].at = "registered", ![c].on = s]
    /\ UNCHANGED <<pendingRun, waiter, tail, handling, owed>>

RegistrationEmits(c) ==
    /\ call[c].at = "registered"
    /\ emitted' = agent[call[c].on].life
    /\ Goto(c, "initializing")
    /\ UNCHANGED <<current, agent, pendingRun, waiter, tail, handling, owed,
                   session>>

(* refreshSessionState answered: the status is overwritten.                *)
RegistrationSettles(c) ==
    /\ call[c].at = "initializing"
    /\ agent' = [agent EXCEPT ![call[c].on].life = "idle"]
    /\ Goto(c, "announcing")
    /\ UNCHANGED <<current, pendingRun, emitted, waiter, tail, handling, owed,
                   session>>

RegistrationEnds(c) ==
    /\ call[c].at = "announcing"
    /\ emitted' = agent[call[c].on].life
    /\ session' = [session EXCEPT ![call[c].on].subscribed = TRUE]
    /\ Finish(c)
    /\ UNCHANGED <<current, agent, pendingRun, waiter, tail, handling, owed>>

-----------------------------------------------------------------------------
(* enqueueSessionEvent and handleStreamEvent: events of one agent id are   *)
(* handled one at a time, against the object registered when their turn    *)
(* comes, which need not be the object whose session emitted them.         *)

NextEvent == /\ tail # <<>>
             /\ handling = None
             /\ tail' = Tail(tail)

Foreground(e) == e.turn # None /\ agent[current].turn = e.turn

DropEvent ==
    /\ NextEvent
    /\ current = None
    /\ UNCHANGED <<current, agent, pendingRun, emitted, call, waiter,
                   handling, owed, session>>

HandleTurnStarted ==
    /\ NextEvent
    /\ current # None
    /\ Head(tail).type = "turn_started"
    /\ IF Foreground(Head(tail)) THEN UNCHANGED <<agent, emitted>>
       ELSE /\ agent' = [agent EXCEPT ![current].life = "running"]
            /\ emitted' = "running"
    /\ UNCHANGED <<current, pendingRun, call, waiter, handling, owed, session>>

(* turn_completed and turn_canceled of a turn that is not the active one   *)
(* make the agent idle, unless a replacement is pending.                   *)
HandleTurnOver ==
    LET e == Head(tail)
        a == [agent[current] EXCEPT !.failed = FALSE]
        rests == IF a.replacing THEN a ELSE [a EXCEPT !.life = "idle"]
        silent == e.type = "turn_completed" /\ (a.life = "idle" \/ a.replacing)
    IN
    /\ NextEvent
    /\ current # None
    /\ e.type \in {"turn_completed", "turn_canceled"}
    /\ IF Foreground(e) THEN FinalizeInto(current, a)
       ELSE /\ agent' = [agent EXCEPT ![current] = rests]
            /\ emitted' = IF silent THEN emitted ELSE rests.life
    /\ waiter' = Notified(e.turn, WaitsOn(current, e.turn))
    /\ UNCHANGED <<current, pendingRun, call, handling, owed, session>>

WithFailure(e) ==
    [agent[current] EXCEPT !.failed = TRUE,
                           !.life = IF Foreground(e) THEN @ ELSE "error"]

HandlesFailure ==
    /\ NextEvent
    /\ current # None
    /\ Head(tail).type = "turn_failed"

(* turn_failed suspends while the error is appended to the timeline, for   *)
(* as long as a durable store takes to read the last committed item...     *)
HandleTurnFailed ==
    LET e == Head(tail) IN
    /\ SlowStore
    /\ HandlesFailure
    /\ agent' = [agent EXCEPT ![current] = WithFailure(e)]
    /\ handling' = [on |-> current, turn |-> e.turn,
                    foreground |-> Foreground(e),
                    notify |-> WaitsOn(current, e.turn)]
    /\ UNCHANGED <<current, pendingRun, emitted, call, waiter, owed, session>>

(* ...and resumes on the object, and with the foreground test, it began    *)
(* with.                                                                   *)
TurnFailedResumes ==
    /\ handling # None
    /\ IF handling.foreground
       THEN FinalizeInto(handling.on, agent[handling.on])
       ELSE /\ emitted' = agent[handling.on].life
            /\ UNCHANGED agent
    /\ waiter' = Notified(handling.turn, handling.notify)
    /\ handling' = None
    /\ UNCHANGED <<current, pendingRun, call, tail, owed, session>>

(* Without a durable store, as bootstrap.ts builds the manager, the await  *)
(* ends before any timer, request or provider message is served.           *)
HandleTurnFailedAtOnce ==
    LET e == Head(tail) IN
    /\ ~SlowStore
    /\ HandlesFailure
    /\ IF Foreground(e) THEN FinalizeInto(current, WithFailure(e))
       ELSE /\ agent' = [agent EXCEPT ![current] = WithFailure(e)]
            /\ emitted' = WithFailure(e).life
    /\ waiter' = Notified(e.turn, WaitsOn(current, e.turn))
    /\ UNCHANGED <<current, pendingRun, call, handling, owed, session>>

(* setAgentMode, recordUserMessage, usage_updated, a changed runtimeInfo:  *)
(* emitState outside the protocol.                                         *)
EmitState ==
    /\ current # None
    /\ emitted' = agent[current].life
    /\ UNCHANGED <<current, agent, pendingRun, call, waiter, tail, handling,
                   owed, session>>

-----------------------------------------------------------------------------
(* The provider session, as claude-agent.ts implements AgentSession (the   *)
(* other adapters keep the same contract): it rejects startTurn while it   *)
(* runs a foreground turn, and tags events with that turn.  With EarlyEnd  *)
(* a turn may end any time, as when claude cancels one whose startTurn     *)
(* still awaits ensureQuery; without, only after the forwarder has set up  *)
(* its waiter, like the provider of agent-manager.test.ts:118.             *)

Emits(s, type, turn) ==
    /\ Len(tail) < MaxTail
    /\ tail' = IF session[s].subscribed
               THEN Append(tail, [type |-> type, turn |-> turn]) ELSE tail

ProviderStartsTurn(s) ==
    /\ session[s].subscribed
    /\ session[s].turn # None
    /\ ~session[s].announced
    /\ session' = [session EXCEPT ![s].announced = TRUE]
    /\ Emits(s, "turn_started", session[s].turn)
    /\ UNCHANGED <<current, agent, pendingRun, emitted, call, waiter,
                   handling, owed>>

ProviderEndsTurn(s, type) ==
    LET c == session[s].turn IN
    /\ c # None
    /\ EarlyEnd \/ call[c].at # "startTurn"
    /\ session' = [session EXCEPT ![s].turn = None]
    /\ Emits(s, type, c)
    /\ UNCHANGED <<current, agent, pendingRun, emitted, call, waiter,
                   handling, owed>>

ProviderRunsAutonomously(s) ==
    /\ Autonomous
    /\ session[s].subscribed
    /\ session[s].turn = None /\ ~session[s].autonomous
    /\ session' = [session EXCEPT ![s].autonomous = TRUE]
    /\ Emits(s, "turn_started", None)
    /\ UNCHANGED <<current, agent, pendingRun, emitted, call, waiter,
                   handling, owed>>

ProviderEndsAutonomously(s, type) ==
    /\ session[s].autonomous
    /\ session' = [session EXCEPT ![s].autonomous = FALSE]
    /\ Emits(s, type, None)
    /\ UNCHANGED <<current, agent, pendingRun, emitted, call, waiter,
                   handling, owed>>

-----------------------------------------------------------------------------
(* An agent that createAgent has finished registering, before any call.    *)
Init ==
    \E s \in Sessions :
    /\ current = s
    /\ agent = [t \in Sessions |-> [life |-> "idle", turn |-> None,
                                    replacing |-> FALSE, failed |-> FALSE]]
    /\ pendingRun = None
    /\ emitted = "idle"
    /\ call = [c \in Calls |-> Returned]
    /\ waiter = [c \in Calls |-> "none"]
    /\ tail = <<>>
    /\ handling = None
    /\ owed = {}
    /\ session = [t \in Sessions |-> [Silent EXCEPT !.subscribed = (t = s)]]

(* Continuations of calls already made.                                    *)
Continue(c) ==
    \/ StartTurnResolves(c)  \/ StartTurnRejects(c)
    \/ ForwarderEnds(c)
    \/ CancelObserved(c)     \/ CancelForced(c)      \/ StaleRunSettled(c)
    \/ ReplacementStarts(c)  \/ ReplacementFails(c)
    \/ CloseReturns(c)
    \/ ReloadContinues(c)    \/ SessionResumed(c)    \/ ResumeFails(c)
    \/ OldSessionClosed(c)   \/ \E s \in Sessions : Register(c, s)
    \/ RegistrationEmits(c)  \/ RegistrationSettles(c)
    \/ RegistrationEnds(c)

Request(c) ==
    \/ StreamAgent(c)  \/ ReplaceAgentRun(c)    \/ CancelAgentRun(c)
    \/ CloseAgent(c)   \/ ReloadAgentSession(c) \/ ResumeAgent(c)

HandleEvents ==
    \/ DropEvent        \/ HandleTurnStarted \/ HandleTurnOver
    \/ HandleTurnFailed \/ TurnFailedResumes \/ HandleTurnFailedAtOnce

(* A refused startTurn has already thrown: the manager hears of it before  *)
(* anything the provider does next.                                        *)
ProviderActs(s) ==
    /\ Reachable(s)
    /\ \A c \in Calls : call[c].at # "startRefused"
    /\ \/ ProviderStartsTurn(s)
       \/ ProviderRunsAutonomously(s)
       \/ \E type \in Terminals :
             ProviderEndsTurn(s, type) \/ ProviderEndsAutonomously(s, type)

Next ==
    \/ \E c \in Calls : Request(c) \/ Continue(c)
    \/ \E s \in Sessions : FailedStartEmits(s) \/ ProviderActs(s)
    \/ HandleEvents
    \/ EmitState

Spec == Init /\ [][Next]_vars

(* The event loop runs every continuation that is ready, timers end every  *)
(* timed wait, and a provider answers startTurn (each bounds it by a       *)
(* timer of its own) -- but nothing makes a provider end a turn, or wakes  *)
(* a forwarder whose waiter was settled while it slept.                    *)
Fairness ==
    /\ \A c \in Calls : WF_vars(waiter[c] # "settled" /\ Continue(c))
    /\ \A s \in Sessions : WF_vars(FailedStartEmits(s))
    /\ WF_vars(HandleEvents)

FairSpec == Spec /\ Fairness

-----------------------------------------------------------------------------
(* Safety.                                                                 *)

Starting(c) == call[c].at \in {"startTurn", "startRefused"}
Occupies(c) == Starting(c) \/ call[c].at = "streaming"

\* A call that is starting or streaming a turn on the registered agent owns
\* the agent's pendingForegroundRuns entry, so two such calls never overlap:
\* the guard of streamAgent (agent-manager.ts:1196) and the token test of
\* settlePendingForegroundRun keep a session to one foreground run whatever
\* cancels, replacements, reloads and closes happen around it.
OneForegroundRun ==
    current # None =>
        \A c \in Calls : Occupies(c) /\ call[c].on = current => pendingRun = c

\* The active foreground turn of the registered agent always has a forwarder
\* that waits for it, not yet told that it is over: no cancel, late event or
\* suspended handler leaves activeForegroundTurnId set with nobody to clear
\* the pending run when the turn ends.
ActiveTurnHasForwarder ==
    current # None /\ agent[current].turn # None =>
        LET c == agent[current].turn IN
        /\ call[c].at = "streaming"
        /\ call[c].on = current
        /\ waiter[c] = "live"

\* A forwarder of the registered agent that has not been told of an end waits
\* for the active turn, so that a cancel of the agent finds and ends it.  (Not
\* with SlowStore: a turn_failed handler that was suspended clears whatever
\* turn is active when it resumes, agent-manager.ts:2543.)
LiveForwardersAreActive ==
    current # None =>
        \A c \in Calls : waiter[c] = "live" /\ call[c].on = current
                         => agent[current].turn = c

\* An agent held busy for a replacement (pendingReplacement) has a replacing
\* call under way that has not given up: the hold of finalizeForegroundTurn
\* is always someone's to release.
HeldBusyHasReplacer ==
    current # None /\ agent[current].replacing =>
        \E c \in Calls : /\ call[c].op = "replace"
                         /\ call[c].on = current
                         /\ call[c].at \in {"canceling", "awaitStale", "canceled"}

\* A status event of the tail, or of the suspended handler, that ends turn c.
EndQueued(c) ==
    \/ \E i \in 1..Len(tail) : tail[i].type \in Terminals /\ tail[i].turn = c
    \/ handling # None /\ handling.turn = c

\* The registered agent is running only for a reason that ends or that a
\* cancel ends: a turn its provider still runs, an event that says it is over
\* and is queued, a start in flight, a replacement, or an active turn with a
\* forwarder that the synthetic turn_canceled of cancelAgentRun wakes
\* (agent-manager.ts:1578).  Nothing else strands it as "running".
RunningIsJustified ==
    current # None /\ agent[current].life = "running" =>
        \/ agent[current].replacing
        \/ \E c \in Calls : Starting(c) /\ call[c].on = current
        \/ session[current].turn # None \/ session[current].autonomous
        \/ \E c \in CallSlot : EndQueued(c)
        \/ \E c \in Calls : agent[current].turn = c /\ waiter[c] = "live"

ReplacementUnderWay ==
    \E c \in Calls : /\ call[c].op = "replace"
                     /\ call[c].on = current
                     /\ \/ Starting(c)
                        \/ call[c].at \in {"canceling", "awaitStale",
                                           "canceled"}

\* The status subscribers saw last is the registered agent's status, except
\* while a replacement holds it busy or a failed turn is being written down.
SubscribersUpToDate ==
    current # None /\ emitted # agent[current].life =>
        \/ agent[current].life = "running" /\ ReplacementUnderWay
        \/ handling # None

\* A cancelAgentRun that waits, without a timer, for the pending run it found
\* after its synthetic turn_canceled (agent-manager.ts:1592) waits, if its
\* agent is still the registered one, for a forwarder that has been woken and
\* is going to settle that run: never for a run that may go on.
CancelsWaitForEndingRuns ==
    \A c \in Calls :
        LET run == call[c].run IN
        call[c].at = "awaitStale" /\ call[c].on = current
        /\ run # None /\ run = pendingRun
        => call[run].at = "streaming" /\ waiter[run] = "notified"

\* When cancelAgentRun goes on or returns, the turn it set out to cancel is
\* no longer the active turn of its agent: by its own event, by the
\* synthetic turn_canceled, or because another call finished it first.
CancelLeavesTurnInactive ==
    [][\A c \in Calls :
         call[c].at \in {"canceling", "awaitStale"} /\ call[c].turn # None
         /\ call'[c].at \notin {"canceling", "awaitStale"}
         => agent'[call[c].on].turn # call[c].turn]_vars

-----------------------------------------------------------------------------
(* What comments and tests say, and the code does not do.                  *)

\* agent-manager.ts:1563 waits so that "the next streamAgent call doesn't see
\* a stale entry": a pending run belongs to a call that is still under way.
PendingRunHasOwner == pendingRun # None => Occupies(pendingRun)

\* agent-manager.ts:1533: "The interrupt will produce a turn_canceled/
\* turn_failed event via subscribe(), which flows through the session event
\* dispatcher and settles the foreground turn waiter."  So a waiter that is not
\* settled waits for a turn the provider runs, or whose end is queued.
EndsSettleWaiters ==
    current # None =>
        \A c \in Calls : waiter[c] = "live" /\ call[c].on = current
                         => session[current].turn = c \/ EndQueued(c)

\* agent-manager.ts:2425 and the tests "replaceAgentRun does not emit idle
\* ..." and "... stays running when a stale old terminal arrives before the
\* replacement turn is current" (agent-manager.test.ts:2137, 2251): while a
\* replacement is under way the agent does not go from running to idle.
NoIdleFlash ==
    [][current # None /\ current' = current /\ ReplacementUnderWay
       /\ ReplacementUnderWay' /\ agent[current].life = "running"
       => agent'[current].life # "idle"]_vars

\* "closeAgent persists one final closed snapshot"
\* (agent-manager.test.ts:4042): once the closed snapshot of an agent is
\* emitted and persisted, no older object of the agent emits another status.
ClosedSnapshotIsFinal ==
    [][emitted = "closed" => emitted' \in {"closed", "initializing"}]_vars

\* agent-manager.ts:1589: "The synthetic event unblocks the streamForwarder
\* generator, whose finally block settles the pending foreground run
\* asynchronously. Wait for it."
CancelsWaitForTheirRun ==
    \A c \in Calls :
        LET run == call[c].run IN
        call[c].at = "awaitStale" /\ run # None /\ run = pendingRun
        => call[run].at = "streaming" /\ waiter[run] = "notified"

-----------------------------------------------------------------------------
(* Liveness.                                                               *)

\* cancelAgentRun returns even if the provider never reacts: every wait is
\* timed but the one after the synthetic event, which the forwarder ends.
CancelReturnsEventually ==
    \A c \in Calls :
        call[c].at \in {"canceling", "awaitStale"}
        ~> call[c].at \notin {"canceling", "awaitStale"}

\* A turn somebody cancels is over for its caller too: the forwarder ends.
CanceledRunEnds ==
    \A d \in Calls :
        (\E c \in Calls : call[c].at = "canceling" /\ call[c].turn = d)
        ~> call[d].at # "streaming"

\* The busy hold of a replacement is released.
HoldIsReleased ==
    \A s \in Sessions :
        s = current /\ agent[s].replacing
        ~> ~(s = current /\ agent[s].replacing)
=============================================================================
