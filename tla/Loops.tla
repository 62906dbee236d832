-------------------------------- MODULE Loops --------------------------------
(* The loop service (loop-service.ts): one loop, whose iterations run a      *)
(* worker agent and then verify its work by commands and by a verifier agent,*)
(* calls that create it and stop it, the one file all loops are saved in, and*)
(* crashes and failed writes.                                                *)
(*                                                                           *)
(* Writes go one after the other through persistQueue and each takes the     *)
(* loops as they are when its turn comes.  Iterations are not numbered: the  *)
(* limits on their number and on their time may be met before any of them,   *)
(* and the loop may verify with any mix of commands and verifier.            *)
EXTENDS Naturals, Sequences, FiniteSets, SequencesExt

CONSTANTS
    None,
    Nothing, Torn,  \* a file without loops, and one a write has not filled
    MaxRetries,     \* getStructuredAgentResponse: prompts after the first
    MaxCrashes,     \* bound: crashes
    MaxFailures     \* bound: writes that fail

ASSUME ConstantsAssumption == MaxRetries \in Nat /\ MaxCrashes \in Nat /\ MaxFailures \in Nat

Roles == {"worker", "verifier"}
Over == {"succeeded", "failed", "stopped"}
Statuses == {"running"} \cup Over
Owners == {"boot", "run", "loop", "stream", "stop"}

VARIABLES
    up,             \* the daemon runs
    loop,           \* the record of the loop in memory, or None
    file,           \* loops.json: None, Torn or a record
    queue,          \* persistQueue: whom each write is for
    writing,        \* the record the first of them writes, None before it starts
    rejected,       \* the callers whose write failed
    run,            \* a runLoop call waits for its write
    pc,             \* where executeLoop is
    outcome,        \* how the agent's run, or the command, ended
    retries,        \* prompts the verifier may still be given
    agents,         \* the loop's open agents: "idle", "running" or "canceled"
    handle,         \* running: executeLoop's promise can be found and aborted
    aborted,        \* its signal
    stop,           \* where a stopLoop call is, and whether it found the handle
    crashes, failures

faults == <<crashes, failures>>
store == <<file, queue, writing, rejected>>
execution == <<pc, outcome, retries, agents, handle>>
vars == <<up, loop, store, run, execution, aborted, stop, faults>>

(* status; the last iteration's, None before the first; whether              *)
(* activeIteration is set; whose active...AgentId is set.                    *)
Loop == [status : Statuses, iteration : Statuses \cup {None},
         active : BOOLEAN, shown : Roles \cup {None}]
ASSUME NoneAssumption ==
    None \notin Loop \cup Roles \cup Statuses \cup {"idle", "canceled"}
NewLoop == [status |-> "running", iteration |-> None, active |-> FALSE, shown |-> None]
Idle == [at |-> "idle", found |-> FALSE]
AtRest == [at |-> "none", role |-> None]
At(a) == [at |-> a, role |-> None]
With(a, r) == [at |-> a, role |-> r]

Init ==
    /\ up = FALSE /\ loop = None /\ file = None
    /\ queue = <<>> /\ writing = None /\ rejected = {}
    /\ run = FALSE /\ pc = AtRest /\ outcome = None /\ retries = 0
    /\ agents = [r \in Roles |-> None]
    /\ handle = FALSE /\ aborted = FALSE /\ stop = Idle /\ crashes = 0 /\ failures = 0

-----------------------------------------------------------------------------
(* The file.                                                                 *)

Persist(owner) == queue' = Append(queue, owner)
Waiting(owner) == owner \in Range(queue)
Persisted(owner) == ~Waiting(owner) /\ owner \notin rejected
Threw(owner) == ~Waiting(owner) /\ owner \in rejected

(* writeFile empties the file before it fills it.                            *)
WriteStarts ==
    /\ up /\ queue # <<>> /\ writing = None
    /\ writing' = IF loop = None THEN Nothing ELSE loop
    /\ file' = Torn
    /\ UNCHANGED <<up, loop, queue, rejected, run, execution, aborted, stop, faults>>

WriteEnds ==
    /\ up /\ writing # None
    /\ file' = IF writing = Nothing THEN None ELSE writing
    /\ writing' = None /\ queue' = Tail(queue)
    /\ UNCHANGED <<up, loop, rejected, run, execution, aborted, stop, faults>>

(* Memory, agents and calls end with the process.                            *)
Down ==
    /\ up' = FALSE /\ loop' = None
    /\ queue' = <<>> /\ writing' = None /\ rejected' = {}
    /\ run' = FALSE /\ pc' = AtRest /\ outcome' = None /\ retries' = 0
    /\ agents' = [r \in Roles |-> None]
    /\ handle' = FALSE /\ aborted' = FALSE /\ stop' = Idle

(* A write may fail before or after the file is emptied.  Nobody waits for   *)
(* the writes of the agents' stream, nor for the last one of executeLoop     *)
(* unless a stop does: an unhandled rejection ends the process, as a failed  *)
(* write of initialize does.                                                 *)
Unhandled(owner) ==
    \/ owner \in {"boot", "stream"}
    \/ owner = "loop" /\ pc.at = "saveOver" /\ stop.at # "waiting"

WriteFails ==
    /\ up /\ queue # <<>> /\ failures < MaxFailures /\ failures' = failures + 1
    /\ IF Unhandled(Head(queue))
       THEN Down
       ELSE /\ queue' = Tail(queue) /\ writing' = None
            /\ rejected' = rejected \cup {Head(queue)}
            /\ UNCHANGED <<up, loop, run, execution, aborted, stop>>
    /\ UNCHANGED <<file, crashes>>

Crash ==
    /\ up /\ crashes < MaxCrashes /\ crashes' = crashes + 1
    /\ Down /\ UNCHANGED <<file, failures>>

-----------------------------------------------------------------------------
(* initialize: a loop that was running was interrupted; a file that does not *)
(* parse is logged and replaced.                                             *)

RecoveredAsItWas(record) == record
Recovered(record) ==
    IF record.status # "running" THEN record
    ELSE [status |-> "stopped", active |-> FALSE, shown |-> None,
          iteration |-> IF record.iteration = "running" THEN "stopped" ELSE record.iteration]

Initialize ==
    /\ ~up /\ up' = TRUE
    /\ loop' = IF file \in {None, Torn} THEN None ELSE Recovered(file)
    /\ Persist("boot")
    /\ UNCHANGED <<file, writing, rejected, run, execution, aborted, stop, faults>>

Serving == up /\ ~Waiting("boot")

-----------------------------------------------------------------------------
(* executeLoop: how a step goes on.                                          *)

(* finishLoop; the number of the iteration is gone when the catch block      *)
(* looks for it, so a running iteration keeps its status.                    *)
Finished(l, status) == [l EXCEPT !.status = status, !.active = FALSE, !.shown = None]

Goes(p) == pc' = p /\ UNCHANGED <<loop, queue, handle>>
Saves(l, p) == loop' = l /\ Persist("loop") /\ pc' = p /\ UNCHANGED handle
Throws(l, status) == Saves(Finished(l, status), At("saveOver"))
ReturnsListed(l) == loop' = l /\ pc' = AtRest /\ UNCHANGED <<handle, queue>>
Returns(l) == loop' = l /\ pc' = AtRest /\ handle' = FALSE /\ UNCHANGED queue

Begun == [loop EXCEPT !.iteration = "running", !.active = TRUE]
NextIteration ==
    \/ aborted /\ Throws(loop, "stopped")
    \/ ~aborted /\ Returns(Finished(loop, "failed"))
    \/ ~aborted /\ Saves(Begun, At("saveIteration"))

IterationFails(l) ==
    Saves([l EXCEPT !.iteration = IF @ = "running" THEN "failed" ELSE @,
                    !.active = FALSE, !.shown = None], At("saveEnd"))
IterationSucceeds ==
    Returns([Finished(loop, "succeeded") EXCEPT !.iteration = "succeeded"])

NextCommand ==
    \/ aborted /\ Throws(loop, "stopped")
    \/ ~aborted /\ Goes(At("check"))
Verifies == NextCommand \/ Goes(With("create", "verifier"))

-----------------------------------------------------------------------------
(* runLoop and executeLoop: one action from one await to the next.           *)

Own == UNCHANGED <<up, file, writing, run, aborted, stop, faults>>

(* runLoop saves the loop before it executes it and before a stop can find   *)
(* it among the running.                                                     *)
RunLoop ==
    /\ Serving /\ loop = None
    /\ loop' = NewLoop /\ run' = TRUE /\ Persist("run")
    /\ UNCHANGED <<up, file, writing, rejected, execution, aborted, stop, faults>>

RunLoopContinues ==
    /\ up /\ run /\ Persisted("run") /\ run' = FALSE
    /\ \/ /\ loop' = Begun /\ Persist("loop")
          /\ pc' = At("saveIteration") /\ handle' = TRUE
       \/ loop' = Finished(loop, "failed") /\ UNCHANGED <<queue, pc, handle>>
    /\ UNCHANGED <<up, file, writing, rejected, outcome, retries, agents,
                   aborted, stop, faults>>

RunLoopThrows ==
    /\ up /\ run /\ Threw("run") /\ run' = FALSE
    /\ rejected' = rejected \ {"run"}
    /\ UNCHANGED <<up, loop, file, queue, writing, execution, aborted, stop, faults>>

Saved(at) == up /\ pc.at = at /\ Persisted("loop") /\ UNCHANGED rejected /\ Own
Reaches(at) == up /\ pc.at = at /\ UNCHANGED rejected /\ Own

(* A write that fails ends the loop; an agent it has stays open.             *)
SaveThrows ==
    /\ up /\ pc # AtRest /\ Threw("loop") /\ rejected' = rejected \ {"loop"}
    /\ IF pc.at = "saveOver" THEN Returns(loop) ELSE Throws(loop, "failed")
    /\ UNCHANGED <<outcome, retries, agents>> /\ Own

IterationSaved ==
    /\ Saved("saveIteration") /\ Goes(With("create", "worker"))
    /\ UNCHANGED <<outcome, retries, agents>>

CreateAgent ==
    /\ Reaches("create")
    /\ agents' = [agents EXCEPT ![pc.role] = "idle"]
    /\ Saves([loop EXCEPT !.shown = pc.role], With("saveAgent", pc.role))
    /\ UNCHANGED <<outcome, retries>>

CreateAgentThrows ==
    /\ Reaches("create") /\ Throws(loop, "failed")
    /\ UNCHANGED <<outcome, retries, agents>>

RunAgent ==
    /\ Saved("saveAgent") /\ Goes(With("run", pc.role))
    /\ agents' = [agents EXCEPT ![pc.role] = "running"]
    /\ retries' = IF pc.role = "verifier" THEN MaxRetries ELSE 0
    /\ UNCHANGED outcome

(* Output of the agent is appended to the log and saved.                     *)
AgentStreams ==
    /\ up /\ pc.at = "run" /\ ~Waiting("stream") /\ Persist("stream")
    /\ UNCHANGED <<up, loop, file, writing, rejected, run, execution, aborted, stop, faults>>

(* runAgent returns or throws.  A worker that was canceled, by whomever,     *)
(* stops its iteration; a verifier whose answer does not parse, as that of   *)
(* most canceled ones, is prompted again.                                    *)
VerifierRetries ==
    /\ Reaches("run") /\ pc.role = "verifier" /\ retries > 0
    /\ retries' = retries - 1
    /\ agents' = [agents EXCEPT !["verifier"] = "running"]
    /\ UNCHANGED <<loop, queue, pc, outcome, handle>>

Result(role) ==
    CASE role = "worker" /\ agents[role] = "canceled" -> {"stopped"}
      [] role = "worker" /\ agents[role] # "canceled" -> {"passed", "failed", "stopped"}
      [] role = "verifier" -> {"passed", "failed", "threw"}

(* The finally block of runWorkerIteration and of runVerification.           *)
RunEnds ==
    /\ Reaches("run") /\ outcome' \in Result(pc.role)
    /\ agents["verifier"] = "canceled" /\ outcome' = "threw" => retries = 0
    /\ agents' = [agents EXCEPT ![pc.role] = "idle"]
    /\ Saves([loop EXCEPT !.shown = None,
                !.iteration = IF outcome' = "stopped" THEN "stopped" ELSE @],
             With("saveRun", pc.role))
    /\ retries' = 0

RunSaved ==
    /\ Saved("saveRun") /\ Goes(With("close", pc.role))
    /\ UNCHANGED <<outcome, retries, agents>>

(* archiveAgent or closeAgent; what it throws is ignored.                    *)
ClosedUnlessAborted(role) == IF aborted THEN agents ELSE [agents EXCEPT ![role] = None]
Closed(role) == [agents EXCEPT ![role] = None]

WorkerClosed ==
    /\ Reaches("close") /\ pc.role = "worker" /\ agents' = Closed("worker")
    /\ LET l == IF aborted /\ loop.iteration = "running"
                THEN [loop EXCEPT !.iteration = "stopped"] ELSE loop
       IN \/ aborted /\ Throws(l, "stopped")
          \/ ~aborted /\ outcome # "passed" /\ IterationFails(l)
          \/ ~aborted /\ outcome = "passed" /\ Verifies
    /\ outcome' = None /\ UNCHANGED retries

(* The command runs to its end whatever happens to the loop.                 *)
CommandEnds ==
    /\ Reaches("check") /\ outcome' \in {"passed", "failed"}
    /\ Saves(loop, At("saveCheck"))
    /\ UNCHANGED <<retries, agents>>

CommandSaved ==
    /\ Saved("saveCheck")
    /\ \/ outcome = "failed" /\ IterationFails(loop)
       \/ outcome = "passed" /\ (Verifies \/ IterationSucceeds)
    /\ outcome' = None /\ UNCHANGED <<retries, agents>>

VerifierClosed ==
    /\ Reaches("close") /\ pc.role = "verifier" /\ agents' = Closed("verifier")
    /\ \/ outcome = "passed" /\ IterationSucceeds
       \/ outcome = "failed" /\ IterationFails(loop)
       \/ outcome = "threw" /\ Throws(loop, "failed")
    /\ outcome' = None /\ UNCHANGED retries

(* Without a sleep the next iteration follows at once.                       *)
EndSaved ==
    /\ Saved("saveEnd")
    /\ NextIteration \/ Saves(loop, At("saveSleep"))
    /\ UNCHANGED <<outcome, retries, agents>>

SleepSaved ==
    /\ Saved("saveSleep") /\ Goes(At("sleep"))
    /\ UNCHANGED <<outcome, retries, agents>>

(* The timer fires, or the signal ends the sleep.                            *)
SleepEnds ==
    /\ Reaches("sleep") /\ NextIteration
    /\ UNCHANGED <<outcome, retries, agents>>

OverSaved ==
    /\ Saved("saveOver") /\ Returns(loop)
    /\ UNCHANGED <<outcome, retries, agents>>

-----------------------------------------------------------------------------
(* stopLoop.                                                                 *)

Executing == <<up, file, writing, run, pc, outcome, retries, handle, faults>>

StopLoop ==
    /\ Serving /\ stop.at = "idle" /\ loop # None /\ loop.status = "running"
    /\ stop' = [at |-> "saving", found |-> handle] /\ Persist("stop")
    /\ UNCHANGED <<Executing, loop, rejected, agents, aborted>>

(* The agent the loop shows, if it runs.  cancelAgentRun does nothing to one *)
(* without a run, and one whose startTurn still awaits may run on (AgentRuns,*)
(* EndsSettleWaiters); one that runs after the abort is not canceled again.  *)
ShownCanceled ==
    [r \in Roles |->
        IF loop.shown = r /\ agents[r] = "running" THEN "canceled" ELSE agents[r]]

(* Mutant: the signal is not aborted.                                        *)
StopSavedOnlyCancels ==
    /\ up /\ stop.at = "saving" /\ Persisted("stop") /\ stop.found
    /\ stop' = [stop EXCEPT !.at = "waiting"]
    /\ agents' \in {agents, ShownCanceled}
    /\ UNCHANGED <<Executing, loop, queue, rejected, aborted>>

StopSaved ==
    /\ up /\ stop.at = "saving" /\ Persisted("stop") /\ stop.found
    /\ aborted' = TRUE
    /\ stop' = [stop EXCEPT !.at = IF loop.shown = None THEN "waiting" ELSE "canceling"]
    /\ agents' \in {agents, ShownCanceled}
    /\ UNCHANGED <<Executing, loop, queue, rejected>>

CancelReturns ==
    /\ up /\ stop.at = "canceling" /\ stop' = [stop EXCEPT !.at = "waiting"]
    /\ UNCHANGED <<Executing, loop, queue, rejected, agents, aborted>>

StopReturns ==
    /\ up /\ stop.at = "waiting" /\ pc = AtRest /\ stop' = Idle
    /\ UNCHANGED <<Executing, loop, queue, rejected, agents, aborted>>

(* A loop that runLoop has not started is only marked.                       *)
StopAlone ==
    /\ up /\ stop.at = "saving" /\ Persisted("stop") /\ ~stop.found
    /\ loop' = [loop EXCEPT !.status = "stopped"]
    /\ stop' = [stop EXCEPT !.at = "marked"] /\ Persist("stop")
    /\ UNCHANGED <<Executing, rejected, agents, aborted>>

StopMarked ==
    /\ up /\ stop.at = "marked" /\ Persisted("stop") /\ stop' = Idle
    /\ UNCHANGED <<Executing, loop, queue, rejected, agents, aborted>>

StopThrows ==
    /\ up /\ stop.at # "idle" /\ Threw("stop")
    /\ rejected' = rejected \ {"stop"} /\ stop' = Idle
    /\ UNCHANGED <<Executing, loop, queue, agents, aborted>>

-----------------------------------------------------------------------------
File == WriteStarts \/ WriteEnds
RunStep == RunLoopContinues \/ RunLoopThrows
LoopStep ==
    \/ SaveThrows \/ IterationSaved \/ CreateAgent \/ CreateAgentThrows \/ RunAgent
    \/ VerifierRetries \/ RunEnds \/ RunSaved \/ WorkerClosed \/ CommandEnds
    \/ CommandSaved \/ VerifierClosed \/ EndSaved \/ SleepSaved \/ SleepEnds \/ OverSaved
StopStep ==
    \/ StopSaved \/ CancelReturns \/ StopReturns \/ StopAlone \/ StopMarked \/ StopThrows

Next ==
    \/ Initialize \/ RunLoop \/ RunStep \/ LoopStep \/ AgentStreams
    \/ StopLoop \/ StopStep \/ File \/ WriteFails \/ Crash

Spec == Init /\ [][Next]_vars

(* What the loop waits for without a timer: a command, creating or closing   *)
(* an agent, and an agent's turn that no cancel reached.                     *)
WaitsOutside ==
    \/ pc.at \in {"create", "check", "close"}
    \/ pc.at = "run" /\ agents[pc.role] # "canceled"

(* Writes end or fail, awaits that are over are followed, and a turn that    *)
(* was canceled ends (AgentRuns, CanceledRunEnds).  Nothing makes a command  *)
(* or another turn end; callers, output, crashes and failures are free.      *)
Fairness ==
    /\ WF_vars(File) /\ WF_vars(RunStep) /\ WF_vars(StopStep)
    /\ WF_vars(~WaitsOutside /\ LoopStep)
FairSpec == Spec /\ Fairness

-----------------------------------------------------------------------------
(* Where executeLoop can be; the steps about an agent know which.            *)
Plain == {"none", "saveIteration", "check", "saveCheck", "saveEnd", "saveSleep", "sleep",
          "saveOver"}
OfAgent == {"create", "saveAgent", "run", "saveRun", "close"}
Places == [at : Plain, role : {None}] \cup [at : OfAgent, role : Roles]

(* Every variable keeps its type; at most one write of each caller is        *)
(* queued; whoever a running loop shows as active is an open agent.          *)
TypeOK ==
    /\ up \in BOOLEAN /\ loop \in Loop \cup {None}
    /\ file \in Loop \cup {None, Torn}
    /\ queue \in Seq(Owners) /\ IsInjective(queue)
    /\ writing \in Loop \cup {None, Nothing} /\ rejected \subseteq Owners
    /\ run \in BOOLEAN /\ pc \in Places
    /\ outcome \in {None, "passed", "failed", "stopped", "threw"}
    /\ retries \in 0..MaxRetries
    /\ agents \in [Roles -> {None, "idle", "running", "canceled"}]
    /\ handle \in BOOLEAN /\ aborted \in BOOLEAN /\ handle = (pc # AtRest)
    /\ stop \in [at : {"idle", "saving", "canceling", "waiting", "marked"}, found : BOOLEAN]
    /\ crashes \in 0..MaxCrashes /\ failures \in 0..MaxFailures
    /\ loop # None /\ loop.status = "running" /\ loop.shown # None =>
        agents[loop.shown] # None

(* A loop listed as running is being executed, or is about to be: a daemon   *)
(* that was killed does not leave it running for ever.  (initialize;         *)
(* a runLoop whose own write failed is the exception.)                       *)
RunningLoopsExecute ==
    up /\ loop # None /\ loop.status = "running" /\ failures = 0
        => pc # AtRest \/ run

(* However an iteration ends - verified, failed, canceled or aborted - its   *)
(* agents are closed before the loop goes on or is over, unless a write      *)
(* failed; the worker is closed before the verifier is created.              *)
AgentsAreClosed ==
    failures = 0 =>
        /\ pc = AtRest => \A r \in Roles : agents[r] = None
        /\ agents["worker"] = None \/ agents["verifier"] = None

(* A stop returns, unless the loop is held up for ever by one command or by  *)
(* one agent that no cancel reached (loop-service.ts:251, 478): whatever the *)
(* abort finds it at - saving, working, verifying, closing or asleep - the   *)
(* loop begins nothing that could keep the stop waiting again and again.     *)
StopCallsReturn ==
    (stop.at # "idle" ~> stop.at = "idle") \/ <>[]WaitsOutside

(* How many steps executeLoop takes at most from a place if no iteration or  *)
(* command follows, with n prompts left for a verifier that runs.            *)
StepsFrom(p, n) ==
    CASE p.role = "verifier" -> (CASE p.at = "close" -> 5
                                   [] p.at = "saveRun" -> 6
                                   [] p.at = "run" -> 7 + n
                                   [] p.at = "saveAgent" -> 8 + MaxRetries
                                   [] p.at = "create" -> 9 + MaxRetries)
      [] p.role = "worker" -> (CASE p.at = "close" -> 12
                                 [] p.at = "saveRun" -> 13
                                 [] p.at = "run" -> 14
                                 [] p.at = "saveAgent" -> 15
                                 [] p.at = "create" -> 16) + MaxRetries
      [] p.role = None -> (CASE p.at = "none" -> 0
                             [] p.at = "saveOver" -> 1
                             [] p.at = "sleep" -> 2
                             [] p.at = "saveSleep" -> 3
                             [] p.at = "saveEnd" -> 4
                             [] p.at = "saveCheck" -> 10 + MaxRetries
                             [] p.at = "check" -> 11 + MaxRetries
                             [] p.at = "saveIteration" -> 17 + MaxRetries)
StepsLeft == StepsFrom(pc, retries)

(* Once a stop has aborted a loop every step of executeLoop brings it nearer *)
(* its end: no iteration and no command follows, and the prompts of a        *)
(* canceled verifier are counted.                                            *)
AbortedLoopsCountDown ==
    [][aborted /\ <<pc, retries>>' # <<pc, retries>> => StepsLeft' < StepsLeft]_vars

(* What a killed daemon leaves is a whole file.  (docs/DATA_MODEL.md:3:      *)
(* "written atomically (write to temp file, then rename)".)                  *)
WrittenAtomically == ~up => file # Torn

(* Once a stop has canceled the worker, the worker runs no more.             *)
StopCancelsWorker == stop.at = "waiting" => agents["worker"] # "running"
=============================================================================
