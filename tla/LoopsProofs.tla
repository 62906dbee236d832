----------------------------- MODULE LoopsProofs -----------------------------
(* A loop that is listed as running is executed, its agents are closed, and   *)
(* an aborted loop comes nearer to its end with every step, for any number of *)
(* retries, crashes and failed writes.                                        *)
EXTENDS Loops, SequenceTheorems, TLAPS

------------------------------------------------------------------------------
(* The invariant.                                                             *)

Saving == {"saveIteration", "saveAgent", "saveRun", "saveCheck", "saveEnd", "saveSleep",
           "saveOver"}
Agents == [Roles -> {None, "idle", "running", "canceled"}]

\* A daemon that does not run has nothing under way.
DownRests ==
    ~up => /\ loop = None /\ queue = <<>> /\ writing = None /\ ~run /\ pc = AtRest
           /\ agents = [r \in Roles |-> None] /\ stop = Idle

\* Whoever executes or stops the loop has one; it is executed once.
LoopExists ==
    /\ run \/ pc # AtRest \/ stop.at # "idle" => loop \in Loop
    /\ run => pc = AtRest

\* A caller whose write is queued waits for it, and what is written is queued.
WritersWait ==
    /\ writing # None => queue # <<>>
    /\ Waiting("run") => run
    /\ Waiting("loop") => pc.at \in Saving
    /\ Waiting("stop") => stop.at \in {"saving", "marked"}

\* While the loop runs, an agent is shown from its creation to its end.
ShownExists ==
    loop \in Loop /\ loop.status = "running" /\ loop.shown # None =>
        pc.at \in {"saveAgent", "run"} /\ agents[loop.shown] # None

\* No write has been rejected unless one failed.
NoneRejected == failures = 0 => rejected = {}

\* A loop whose last save is under way is over.
OverIsOver == pc.at = "saveOver" => loop.status # "running"

\* Before an agent is created the other one is closed, and after it is closed
\* there is none.
AgentsFollow ==
    failures = 0 =>
        /\ pc.at \in Plain \cup {"create"} => \A r \in Roles : agents[r] = None
        /\ pc.at \in OfAgent => \A r \in Roles : r # pc.role => agents[r] = None

Types ==
    /\ up \in BOOLEAN /\ loop \in Loop \cup {None} /\ file \in Loop \cup {None, Torn}
    /\ queue \in Seq(Owners) /\ IsInjective(queue)
    /\ writing \in Loop \cup {None, Nothing} /\ rejected \subseteq Owners
    /\ run \in BOOLEAN /\ pc \in Places
    /\ outcome \in {None, "passed", "failed", "stopped", "threw"}
    /\ retries \in 0..MaxRetries /\ agents \in Agents
    /\ handle \in BOOLEAN /\ aborted \in BOOLEAN /\ handle = (pc # AtRest)
    /\ stop \in [at : {"idle", "saving", "canceling", "waiting", "marked"}, found : BOOLEAN]
    /\ crashes \in 0..MaxCrashes /\ failures \in 0..MaxFailures

Inv ==
    /\ Types /\ DownRests /\ LoopExists /\ WritersWait /\ ShownExists
    /\ NoneRejected /\ OverIsOver /\ AgentsFollow /\ RunningLoopsExecute

------------------------------------------------------------------------------
(* The queue of writes.                                                       *)

\* A caller that is not waiting queues a write.
LEMMA QueueExtends ==
    ASSUME queue \in Seq(Owners), IsInjective(queue),
           NEW o \in Owners, ~Waiting(o), Persist(o)
    PROVE  /\ queue' \in Seq(Owners) /\ IsInjective(queue') /\ queue' # <<>>
           /\ \A p : Waiting(p)' => Waiting(p) \/ p = o
<1>1. Len(queue) \in Nat /\ DOMAIN queue = 1 .. Len(queue)
  BY LenProperties
<1>2. /\ queue' \in Seq(Owners) /\ Len(queue') = Len(queue) + 1
      /\ \A i \in 1 .. Len(queue) : queue'[i] = queue[i]
      /\ queue'[Len(queue) + 1] = o
  BY AppendProperties DEF Persist
<1>3. DOMAIN queue' = 1 .. Len(queue')
  BY <1>2, LenProperties
<1>4. \A i \in DOMAIN queue' :
        (i \in DOMAIN queue /\ queue'[i] = queue[i]) \/ (i = Len(queue) + 1 /\ queue'[i] = o)
  BY <1>1, <1>2, <1>3
<1>5. \A i \in DOMAIN queue : queue[i] # o
  BY DEF Waiting, Range
<1>6. ASSUME NEW a \in DOMAIN queue', NEW b \in DOMAIN queue', queue'[a] = queue'[b]
      PROVE  a = b
  BY <1>4, <1>5, <1>6 DEF IsInjective
<1>7. IsInjective(queue')
  BY <1>6 DEF IsInjective
<1>8. \A p : Waiting(p)' => Waiting(p) \/ p = o
  BY <1>4 DEF Waiting, Range
<1>9. queue' # <<>>
  BY <1>1, <1>2, EmptySeq
<1>. QED  BY <1>2, <1>7, <1>8, <1>9

\* The first write is over.
LEMMA QueueAdvances ==
    ASSUME queue \in Seq(Owners), IsInjective(queue), queue # <<>>, queue' = Tail(queue)
    PROVE  /\ queue' \in Seq(Owners) /\ IsInjective(queue') /\ Head(queue) \in Owners
           /\ \A p : Waiting(p)' => Waiting(p)
<1>1. Len(queue) \in Nat /\ DOMAIN queue = 1 .. Len(queue)
  BY LenProperties
<1>2. /\ queue' \in Seq(Owners) /\ Head(queue) \in Owners /\ Len(queue') = Len(queue) - 1
      /\ \A i \in 1 .. Len(queue') : queue'[i] = queue[i + 1]
  BY HeadTailProperties
<1>3. DOMAIN queue' = 1 .. Len(queue')
  BY <1>2, LenProperties
<1>4. \A i \in DOMAIN queue' : i \in Nat /\ i + 1 \in DOMAIN queue /\ queue'[i] = queue[i + 1]
  BY <1>1, <1>2, <1>3
<1>5. ASSUME NEW a \in DOMAIN queue', NEW b \in DOMAIN queue', queue'[a] = queue'[b]
      PROVE  a = b
  <2>1. a + 1 = b + 1
    BY <1>4, <1>5 DEF IsInjective
  <2>. QED  BY <1>4, <2>1
<1>6. IsInjective(queue')
  BY <1>5 DEF IsInjective
<1>7. \A p : Waiting(p)' => Waiting(p)
  BY <1>4 DEF Waiting, Range
<1>. QED  BY <1>2, <1>6, <1>7

------------------------------------------------------------------------------
(* The steps of executeLoop.                                                  *)

\* Where executeLoop goes: it saves or it does not, and a loop that goes on
\* running was running.
Advances(ats) ==
    /\ loop' \in Loop /\ pc' \in Places /\ pc'.at \in ats /\ handle' = (pc' # AtRest)
    /\ UNCHANGED queue \/ (Persist("loop") /\ pc'.at \in Saving)
    /\ loop'.status = "running" =>
         /\ pc' # AtRest /\ pc'.at # "saveOver"
         /\ loop.status = "running" /\ loop'.shown \in {loop.shown, None}

\* What is common to the steps of executeLoop.
Executes ==
    /\ up /\ pc # AtRest /\ ~Waiting("loop") /\ Own /\ rejected' \subseteq rejected
    /\ outcome' \in {None, "passed", "failed", "stopped", "threw"}
    /\ retries' \in 0..MaxRetries /\ agents' \in Agents

\* The places a step can go to.
LEMMA PlacesOf ==
    /\ \A a \in Plain : At(a) \in Places /\ At(a).at = a
    /\ \A a \in OfAgent, r \in Roles : With(a, r) \in Places /\ With(a, r).at = a
                                      /\ With(a, r).role = r
    /\ AtRest \in Places /\ AtRest.at = "none"
    /\ \A p \in Places : /\ p = AtRest <=> p.at = "none"
                         /\ p.at \in Plain \cup OfAgent
                         /\ p.at \in OfAgent => p.role \in Roles
BY DEF Places, Plain, OfAgent, At, With, AtRest

\* The records a step can make of the loop.
LEMMA Records ==
    ASSUME NEW l \in Loop
    PROVE  /\ \A st \in Over : /\ Finished(l, st) \in Loop /\ Finished(l, st).status = st
                               /\ Finished(l, st).status # "running"
           /\ \A i \in Statuses : [l EXCEPT !.iteration = i] \in Loop
           /\ [l EXCEPT !.iteration = "running", !.active = TRUE] \in Loop
           /\ \A r \in Roles \cup {None} : [l EXCEPT !.shown = r] \in Loop
BY DEF Loop, Finished, Over, Statuses, Roles

LEMMA ThrowsAdvances ==
    ASSUME handle = TRUE, NEW l \in Loop, NEW st \in Over, Throws(l, st)
    PROVE  Advances({"saveOver"})
<1>1. "saveOver" \in Plain /\ "saveOver" \in Saving
  BY DEF Plain, Saving
<1>2. loop' = Finished(l, st) /\ Persist("loop") /\ pc' = At("saveOver") /\ handle' = handle
  BY DEF Throws, Saves
<1>3. pc' \in Places /\ pc'.at = "saveOver" /\ pc' # AtRest
  BY <1>1, <1>2, PlacesOf
<1>4. loop' \in Loop /\ loop'.status # "running"
  BY <1>2, Records
<1>. QED  BY <1>1, <1>2, <1>3, <1>4 DEF Advances

LEMMA IterationFailsAdvances ==
    ASSUME handle = TRUE, NEW l \in Loop, l.status = loop.status, IterationFails(l)
    PROVE  Advances({"saveEnd"})
<1> DEFINE m == [l EXCEPT !.iteration = IF @ = "running" THEN "failed" ELSE @,
                          !.active = FALSE, !.shown = None]
<1>1. m \in Loop /\ m.status = loop.status /\ m.shown = None
  BY DEF Loop, Statuses, Over
<1>2. loop' = m /\ Persist("loop") /\ pc' = At("saveEnd") /\ handle' = handle
  BY DEF IterationFails, Saves
<1>3. "saveEnd" \in Plain /\ "saveEnd" \in Saving
  BY DEF Plain, Saving
<1>4. pc' \in Places /\ pc'.at = "saveEnd" /\ pc' # AtRest
  BY <1>2, <1>3, PlacesOf
<1>. HIDE DEF m
<1>. QED  BY <1>1, <1>2, <1>3, <1>4 DEF Advances

LEMMA IterationSucceedsAdvances ==
    ASSUME loop \in Loop, IterationSucceeds PROVE Advances({"none"})
<1> DEFINE m == [Finished(loop, "succeeded") EXCEPT !.iteration = "succeeded"]
<1>1. m \in Loop /\ m.status = "succeeded"
  BY DEF Loop, Statuses, Over, Finished
<1>2. loop' = m /\ pc' = AtRest /\ handle' = FALSE /\ UNCHANGED queue
  BY DEF IterationSucceeds, Returns
<1>. HIDE DEF m
<1>. QED  BY <1>1, <1>2, PlacesOf DEF Advances

LEMMA NextIterationAdvances ==
    ASSUME loop \in Loop, handle = TRUE, NextIteration
    PROVE  Advances({"saveOver", "none", "saveIteration"})
<1>1. CASE Throws(loop, "stopped")
  <2>1. Advances({"saveOver"})
    BY <1>1, ThrowsAdvances DEF Over
  <2>. QED  BY <2>1 DEF Advances
<1>2. CASE Returns(Finished(loop, "failed"))
  <2>1. loop' \in Loop /\ loop'.status # "running" /\ pc' = AtRest /\ handle' = FALSE /\ UNCHANGED queue
    BY <1>2, Records DEF Returns, Over
  <2>. QED  BY <2>1, PlacesOf DEF Advances
<1>3. CASE Saves(Begun, At("saveIteration"))
  <2>1. "saveIteration" \in Plain /\ "saveIteration" \in Saving
    BY DEF Plain, Saving
  <2>2. loop' = Begun /\ Persist("loop") /\ pc' = At("saveIteration") /\ handle' = handle
    BY <1>3 DEF Saves
  <2>3. pc' \in Places /\ pc'.at = "saveIteration" /\ pc' # AtRest
    BY <2>1, <2>2, PlacesOf
  <2>4. loop' \in Loop /\ loop'.status = loop.status /\ loop'.shown = loop.shown
    BY <2>2, Records DEF Begun, Loop
  <2>. QED  BY <2>1, <2>2, <2>3, <2>4 DEF Advances
<1>. QED  BY <1>1, <1>2, <1>3 DEF NextIteration

LEMMA VerifiesAdvances ==
    ASSUME loop \in Loop, handle = TRUE, Verifies
    PROVE  Advances({"saveOver", "check", "create"}) /\ (pc'.at = "create" => pc'.role = "verifier")
<1>1. CASE Throws(loop, "stopped")
  <2>1. Advances({"saveOver"})
    BY <1>1, ThrowsAdvances DEF Over
  <2>. QED  BY <2>1 DEF Advances
<1>2. CASE Goes(At("check"))
  <2>1. pc' = At("check") /\ UNCHANGED <<loop, queue, handle>> /\ "check" \in Plain
    BY <1>2 DEF Goes, Plain
  <2>2. pc' \in Places /\ pc'.at = "check" /\ pc' # AtRest
    BY <2>1, PlacesOf
  <2>. QED  BY <2>1, <2>2 DEF Advances
<1>3. CASE Goes(With("create", "verifier"))
  <2>1. pc' = With("create", "verifier") /\ UNCHANGED <<loop, queue, handle>>
        /\ "create" \in OfAgent /\ "verifier" \in Roles
    BY <1>3 DEF Goes, OfAgent, Roles
  <2>2. pc' \in Places /\ pc'.at = "create" /\ pc'.role = "verifier" /\ pc' # AtRest
    BY <2>1, PlacesOf
  <2>. QED  BY <2>1, <2>2 DEF Advances
<1>. QED  BY <1>1, <1>2, <1>3 DEF Verifies, NextCommand

\* What a step of executeLoop has to show.
LEMMA ExecutionKeeps ==
    ASSUME Inv, Executes,
           loop' \in Loop, pc' \in Places, handle' = (pc' # AtRest),
           UNCHANGED queue \/ (Persist("loop") /\ pc'.at \in Saving),
           loop'.status = "running" => pc' # AtRest /\ pc'.at # "saveOver",
           ShownExists', AgentsFollow'
    PROVE  Inv'
<1> USE DEF Inv, Executes, Own, faults
<1>1. /\ queue' \in Seq(Owners) /\ IsInjective(queue') /\ (writing' # None => queue' # <<>>)
      /\ \A p : Waiting(p)' => Waiting(p) \/ (p = "loop" /\ pc'.at \in Saving)
  <2>1. CASE UNCHANGED queue
    BY <2>1 DEF Types, Waiting, WritersWait
  <2>2. CASE Persist("loop") /\ pc'.at \in Saving
    <3>1. "loop" \in Owners
      BY DEF Owners
    <3>. QED  BY <2>2, <3>1, QueueExtends DEF Types
  <2>. QED  BY <2>1, <2>2
<1>2. Types'
  BY <1>1 DEF Types
<1>3. WritersWait'
  BY <1>1 DEF WritersWait
<1>4. DownRests' /\ LoopExists' /\ NoneRejected' /\ OverIsOver' /\ RunningLoopsExecute'
  BY DEF DownRests, LoopExists, NoneRejected, OverIsOver, RunningLoopsExecute
<1>. QED  BY <1>2, <1>3, <1>4

\* The same when no agent is shown before.
LEMMA AdvanceKeeps ==
    ASSUME Inv, Executes, NEW ats, Advances(ats), pc.at \notin {"saveAgent", "run"}, AgentsFollow'
    PROVE  Inv'
<1>1. loop \in Loop
  BY DEF Inv, LoopExists, Executes
<1>2. ShownExists'
  BY <1>1 DEF Advances, ShownExists, Inv
<1>. QED  BY <1>2, ExecutionKeeps DEF Advances

\* What every step of executeLoop may rely on.
LEMMA ExecutionFacts ==
    ASSUME Inv, up, pc.at # "none", pc.at \in Saving => ~Waiting("loop")
    PROVE  /\ pc # AtRest /\ loop \in Loop /\ handle = TRUE /\ ~Waiting("loop")
           /\ agents \in Agents /\ pc \in Places /\ retries \in 0..MaxRetries
           /\ outcome \in {None, "passed", "failed", "stopped", "threw"}
           /\ pc.at \in OfAgent => pc.role \in Roles
<1>1. pc # AtRest
  BY DEF AtRest
<1>. QED  BY <1>1, PlacesOf DEF Inv, LoopExists, WritersWait, Types

\* No agent is open at the places between agents.
LEMMA NoAgentOpen ==
    ASSUME Inv, failures = 0, pc.at \in Plain \cup {"create"}
    PROVE  \A r \in Roles : agents[r] = None
BY DEF Inv, AgentsFollow

\* Steps that go on without an agent keep that there is none.
LEMMA NoAgentFollows ==
    ASSUME pc' \in Places, UNCHANGED failures,
           failures = 0 => \A r \in Roles : agents'[r] = None
    PROVE  AgentsFollow'
BY DEF AgentsFollow

LEMMA SaveThrowsKeeps == ASSUME Inv, SaveThrows PROVE Inv'
<1>1. up /\ pc # AtRest /\ pc.at # "none" /\ ~Waiting("loop") /\ failures # 0
  BY PlacesOf DEF SaveThrows, Threw, Inv, NoneRejected, Types
<1>2. loop \in Loop /\ handle = TRUE
  BY <1>1, ExecutionFacts
<1>3. Executes
  BY <1>1 DEF SaveThrows, Executes, Inv, Types
<1>4. AgentsFollow'
  BY <1>1, <1>3 DEF AgentsFollow, Executes, Own, faults
<1>5. CASE pc.at = "saveOver"
  <2>1. loop' = loop /\ pc' = AtRest /\ handle' = FALSE /\ UNCHANGED queue
    BY <1>5 DEF SaveThrows, Returns
  <2>2. Advances({"none"})
    BY <1>2, <1>5, <2>1, PlacesOf DEF Advances, Inv, OverIsOver
  <2>. QED  BY <1>3, <1>4, <1>5, <2>2, AdvanceKeeps
<1>6. CASE pc.at # "saveOver"
  <2>1. Throws(loop, "failed")
    BY <1>6 DEF SaveThrows
  <2>2. Advances({"saveOver"})
    BY <1>2, <2>1, ThrowsAdvances DEF Over
  <2>3. ShownExists'
    BY <2>2 DEF Advances, ShownExists
  <2>. QED  BY <1>3, <1>4, <2>2, <2>3, ExecutionKeeps DEF Advances
<1>. QED  BY <1>5, <1>6

\* An agent is created once the iteration is saved, or work was checked.
LEMMA IterationSavedKeeps == ASSUME Inv, IterationSaved PROVE Inv'
<1>1. /\ up /\ pc.at = "saveIteration" /\ ~Waiting("loop")
      /\ pc' = With("create", "worker") /\ UNCHANGED <<loop, queue, handle, outcome, retries, agents>>
      /\ UNCHANGED rejected /\ Own
  BY DEF IterationSaved, Saved, Persisted, Goes
<1>2. /\ pc # AtRest /\ loop \in Loop /\ handle = TRUE
      /\ agents \in Agents /\ retries \in 0..MaxRetries
      /\ outcome \in {None, "passed", "failed", "stopped", "threw"}
  BY <1>1, ExecutionFacts
<1>3. "create" \in OfAgent /\ "worker" \in Roles /\ pc.at \in Plain
  BY <1>1 DEF OfAgent, Roles, Plain
<1>4. pc' \in Places /\ pc'.at = "create" /\ pc' # AtRest
  BY <1>1, <1>3, PlacesOf
<1>5. Executes /\ Advances({"create"})
  BY <1>1, <1>2, <1>4 DEF Executes, Advances
<1>6. AgentsFollow'
  BY <1>1, <1>3, <1>4, NoAgentOpen, NoAgentFollows DEF Own, faults
<1>. QED  BY <1>1, <1>5, <1>6, AdvanceKeeps

LEMMA CreateAgentKeeps == ASSUME Inv, CreateAgent PROVE Inv'
<1> DEFINE r == pc.role
           l == [loop EXCEPT !.shown = r]
<1>1. /\ up /\ pc.at = "create" /\ UNCHANGED <<rejected, outcome, retries, handle>> /\ Own
      /\ agents' = [agents EXCEPT ![r] = "idle"]
      /\ loop' = l /\ Persist("loop") /\ pc' = With("saveAgent", r)
  BY DEF CreateAgent, Reaches, Saves
<1>2. /\ pc # AtRest /\ loop \in Loop /\ handle = TRUE /\ ~Waiting("loop") /\ r \in Roles
      /\ agents \in Agents /\ retries \in 0..MaxRetries
      /\ outcome \in {None, "passed", "failed", "stopped", "threw"}
  BY <1>1, ExecutionFacts DEF Saving, OfAgent
<1>3. "saveAgent" \in OfAgent /\ "saveAgent" \in Saving
  BY DEF OfAgent, Saving
<1>4. pc' \in Places /\ pc'.at = "saveAgent" /\ pc'.role = r /\ pc' # AtRest
  BY <1>1, <1>2, <1>3, PlacesOf
<1>5. loop' \in Loop /\ loop'.status = loop.status /\ loop'.shown = r
  BY <1>1, <1>2, Records DEF Loop
<1>6. agents' \in Agents /\ agents'[r] = "idle" /\ \A q \in Roles : q # r => agents'[q] = agents[q]
  BY <1>1, <1>2 DEF Agents
<1>7. None # "idle"
  BY NoneAssumption
<1>8. Executes
  BY <1>1, <1>2, <1>6 DEF Executes
<1>9. ShownExists'
  BY <1>4, <1>5, <1>6, <1>7 DEF ShownExists
<1>10. AgentsFollow'
  <2>1. failures = 0 => \A q \in Roles : agents[q] = None
    BY <1>1, NoAgentOpen
  <2>. QED  BY <1>1, <1>4, <1>6, <2>1 DEF AgentsFollow, Own, faults, Plain
<1>. QED  BY <1>1, <1>2, <1>3, <1>4, <1>5, <1>8, <1>9, <1>10, ExecutionKeeps

LEMMA CreateAgentThrowsKeeps == ASSUME Inv, CreateAgentThrows PROVE Inv'
<1>1. /\ up /\ pc.at = "create" /\ UNCHANGED <<rejected, outcome, retries, agents>> /\ Own
      /\ Throws(loop, "failed")
  BY DEF CreateAgentThrows, Reaches
<1>2. /\ pc # AtRest /\ loop \in Loop /\ handle = TRUE /\ ~Waiting("loop")
      /\ agents \in Agents /\ retries \in 0..MaxRetries
      /\ outcome \in {None, "passed", "failed", "stopped", "threw"}
  BY <1>1, ExecutionFacts DEF Saving
<1>3. Advances({"saveOver"})
  BY <1>1, <1>2, ThrowsAdvances DEF Over
<1>4. AgentsFollow'
  BY <1>1, <1>3, NoAgentOpen, NoAgentFollows DEF Own, faults, Advances
<1>5. Executes
  BY <1>1, <1>2 DEF Executes
<1>. QED  BY <1>1, <1>3, <1>4, <1>5, AdvanceKeeps

\* While the agent of a step is there the other one is not.
LEMMA OtherAgentFollows ==
    ASSUME Inv, UNCHANGED failures, pc.at \in OfAgent, pc' \in Places,
           pc'.at \in OfAgent \ {"create"}, pc'.role = pc.role,
           \A q \in Roles : q # pc.role => agents'[q] = agents[q]
    PROVE  AgentsFollow'
<1>1. pc'.at \notin Plain \cup {"create"}
  BY DEF Plain, OfAgent
<1>2. failures = 0 => \A q \in Roles : q # pc.role => agents[q] = None
  BY DEF Inv, AgentsFollow
<1>. QED  BY <1>1, <1>2 DEF AgentsFollow

\* The prompt is sent.
LEMMA RunAgentKeeps == ASSUME Inv, RunAgent PROVE Inv'
<1> DEFINE r == pc.role
<1>1. /\ up /\ pc.at = "saveAgent" /\ ~Waiting("loop") /\ UNCHANGED <<rejected, outcome>> /\ Own
      /\ pc' = With("run", r) /\ UNCHANGED <<loop, queue, handle>>
      /\ agents' = [agents EXCEPT ![r] = "running"]
      /\ retries' = IF r = "verifier" THEN MaxRetries ELSE 0
  BY DEF RunAgent, Saved, Persisted, Goes
<1>2. /\ pc # AtRest /\ loop \in Loop /\ handle = TRUE /\ pc.at \in OfAgent /\ r \in Roles
      /\ agents \in Agents
      /\ outcome \in {None, "passed", "failed", "stopped", "threw"}
  BY <1>1, ExecutionFacts DEF OfAgent
<1>3. "run" \in OfAgent \ {"create"}
  BY DEF OfAgent
<1>4. pc' \in Places /\ pc'.at = "run" /\ pc'.role = r /\ pc' # AtRest
  BY <1>1, <1>2, <1>3, PlacesOf
<1>5. agents' \in Agents /\ agents'[r] = "running" /\ \A q \in Roles : q # r => agents'[q] = agents[q]
  BY <1>1, <1>2 DEF Agents
<1>6. retries' \in 0..MaxRetries
  BY <1>1, ConstantsAssumption
<1>7. Executes
  BY <1>1, <1>2, <1>5, <1>6 DEF Executes
<1>8. ShownExists'
  <2>1. None # "running"
    BY NoneAssumption DEF Statuses
  <2>. QED  BY <1>1, <1>4, <1>5, <2>1 DEF ShownExists, Inv, Loop
<1>9. AgentsFollow'
  BY <1>1, <1>2, <1>3, <1>4, <1>5, OtherAgentFollows DEF Own, faults
<1>10. handle' = (pc' # AtRest)
  BY <1>1, <1>2, <1>4
<1>. QED  BY <1>1, <1>2, <1>4, <1>7, <1>8, <1>9, <1>10, ExecutionKeeps

\* A verifier is prompted again.
LEMMA VerifierRetriesKeeps == ASSUME Inv, VerifierRetries PROVE Inv'
<1>1. /\ up /\ pc.at = "run" /\ pc.role = "verifier" /\ UNCHANGED <<rejected, outcome>> /\ Own
      /\ UNCHANGED <<loop, queue, pc, handle>>
      /\ agents' = [agents EXCEPT !["verifier"] = "running"]
      /\ retries > 0 /\ retries' = retries - 1
  BY DEF VerifierRetries, Reaches
<1>2. /\ pc # AtRest /\ loop \in Loop /\ handle = TRUE /\ ~Waiting("loop")
      /\ pc.at \in OfAgent \ {"create"} /\ pc \in Places
      /\ agents \in Agents /\ retries \in 0..MaxRetries
      /\ outcome \in {None, "passed", "failed", "stopped", "threw"}
  BY <1>1, ExecutionFacts DEF OfAgent, Saving
<1>3. /\ agents' \in Agents /\ agents'["verifier"] = "running"
      /\ \A q \in Roles : q # "verifier" => agents'[q] = agents[q]
  BY <1>1, <1>2 DEF Agents, Roles
<1>4. retries' \in 0..MaxRetries
  BY <1>1, <1>2, ConstantsAssumption
<1>5. Executes
  BY <1>1, <1>2, <1>3, <1>4 DEF Executes
<1>6. ShownExists'
  <2>1. None # "running"
    BY NoneAssumption DEF Statuses
  <2>. QED  BY <1>1, <1>3, <2>1 DEF ShownExists, Inv, Loop
<1>7. AgentsFollow'
  BY <1>1, <1>2, <1>3, OtherAgentFollows DEF Own, faults
<1>. QED  BY <1>1, <1>2, <1>5, <1>6, <1>7, ExecutionKeeps

\* The turn of an agent ends.
LEMMA RunEndsKeeps == ASSUME Inv, RunEnds PROVE Inv'
<1> DEFINE r == pc.role
           l == [loop EXCEPT !.shown = None,
                    !.iteration = IF outcome' = "stopped" THEN "stopped" ELSE @]
<1>1. /\ up /\ pc.at = "run" /\ UNCHANGED rejected /\ Own
      /\ outcome' \in Result(r) /\ agents' = [agents EXCEPT ![r] = "idle"] /\ retries' = 0
      /\ loop' = l /\ Persist("loop") /\ pc' = With("saveRun", r) /\ handle' = handle
  BY DEF RunEnds, Reaches, Saves
<1>2. /\ pc # AtRest /\ loop \in Loop /\ handle = TRUE /\ ~Waiting("loop")
      /\ pc.at \in OfAgent /\ r \in Roles /\ agents \in Agents
  BY <1>1, ExecutionFacts DEF OfAgent, Saving
<1>3. "saveRun" \in OfAgent \ {"create"} /\ "saveRun" \in Saving
  BY DEF OfAgent, Saving
<1>4. pc' \in Places /\ pc'.at = "saveRun" /\ pc'.role = r /\ pc' # AtRest
  BY <1>1, <1>2, <1>3, PlacesOf
<1>5. agents' \in Agents /\ \A q \in Roles : q # r => agents'[q] = agents[q]
  BY <1>1, <1>2 DEF Agents
<1>6. loop' \in Loop /\ loop'.shown = None
  BY <1>1, <1>2 DEF Loop, Statuses, Over
<1>7. outcome' \in {None, "passed", "failed", "stopped", "threw"}
  BY <1>1, <1>2 DEF Result, Roles
<1>8. Executes
  BY <1>1, <1>2, <1>5, <1>7, ConstantsAssumption DEF Executes
<1>9. ShownExists'
  BY <1>6 DEF ShownExists
<1>10. AgentsFollow'
  BY <1>1, <1>2, <1>3, <1>4, <1>5, OtherAgentFollows DEF Own, faults
<1>11. handle' = (pc' # AtRest)
  BY <1>1, <1>2, <1>4
<1>12. Persist("loop") /\ pc'.at \in Saving /\ pc'.at # "saveOver"
  BY <1>1, <1>3, <1>4
<1>. HIDE DEF l
<1>. QED  BY <1>4, <1>6, <1>8, <1>9, <1>10, <1>11, <1>12, ExecutionKeeps

\* The agent is about to be closed.
LEMMA RunSavedKeeps == ASSUME Inv, RunSaved PROVE Inv'
<1> DEFINE r == pc.role
<1>1. /\ up /\ pc.at = "saveRun" /\ ~Waiting("loop") /\ UNCHANGED rejected /\ Own
      /\ pc' = With("close", r) /\ UNCHANGED <<loop, queue, handle, outcome, retries, agents>>
  BY DEF RunSaved, Saved, Persisted, Goes
<1>2. /\ pc # AtRest /\ loop \in Loop /\ handle = TRUE
      /\ pc.at \in OfAgent /\ r \in Roles /\ agents \in Agents /\ retries \in 0..MaxRetries
      /\ outcome \in {None, "passed", "failed", "stopped", "threw"}
  BY <1>1, ExecutionFacts DEF OfAgent
<1>3. "close" \in OfAgent \ {"create"}
  BY DEF OfAgent
<1>4. pc' \in Places /\ pc'.at = "close" /\ pc'.role = r /\ pc' # AtRest
  BY <1>1, <1>2, <1>3, PlacesOf
<1>5. Executes /\ Advances({"close"})
  BY <1>1, <1>2, <1>4 DEF Executes, Advances
<1>6. AgentsFollow'
  BY <1>1, <1>2, <1>3, <1>4, OtherAgentFollows DEF Own, faults
<1>. QED  BY <1>1, <1>5, <1>6, AdvanceKeeps

\* The agent is closed, and with it the last one that was open.
LEMMA ClosedLeavesNone ==
    ASSUME Inv, pc.at = "close", agents' = Closed(pc.role)
    PROVE  agents' \in Agents /\ (failures = 0 => \A q \in Roles : agents'[q] = None)
<1>1. agents \in Agents /\ pc.role \in Roles /\ pc.at \in OfAgent
  BY PlacesOf DEF Inv, Types, OfAgent
<1>2. failures = 0 => \A q \in Roles : q # pc.role => agents[q] = None
  BY <1>1 DEF Inv, AgentsFollow
<1>. QED  BY <1>1, <1>2 DEF Closed, Agents

LEMMA WorkerClosedKeeps == ASSUME Inv, WorkerClosed PROVE Inv'
<1> DEFINE l == IF aborted /\ loop.iteration = "running"
                THEN [loop EXCEPT !.iteration = "stopped"] ELSE loop
<1>1. /\ up /\ pc.at = "close" /\ pc.role = "worker" /\ UNCHANGED <<rejected, retries>> /\ Own
      /\ agents' = Closed("worker") /\ outcome' = None
      /\ Throws(l, "stopped") \/ IterationFails(l) \/ Verifies
  BY DEF WorkerClosed, Reaches
<1>2. /\ pc # AtRest /\ loop \in Loop /\ handle = TRUE /\ ~Waiting("loop") /\ retries \in 0..MaxRetries
  BY <1>1, ExecutionFacts DEF Saving
<1>3. agents' \in Agents /\ (failures = 0 => \A q \in Roles : agents'[q] = None)
  BY <1>1, ClosedLeavesNone
<1>4. l \in Loop /\ l.status = loop.status
  BY <1>2, Records DEF Statuses, Over, Loop
<1>5. Executes
  BY <1>1, <1>2, <1>3 DEF Executes
<1>. HIDE DEF l
<1>6. \E ats : Advances(ats)
  <2>1. Throws(l, "stopped") => Advances({"saveOver"})
    BY <1>2, <1>4, ThrowsAdvances DEF Over
  <2>2. IterationFails(l) => Advances({"saveEnd"})
    BY <1>2, <1>4, IterationFailsAdvances
  <2>3. Verifies => Advances({"saveOver", "check", "create"})
    BY <1>2, VerifiesAdvances
  <2>. QED  BY <1>1, <2>1, <2>2, <2>3
<1>7. AgentsFollow'
  BY <1>1, <1>3, <1>6, NoAgentFollows DEF Own, faults, Advances
<1>. QED  BY <1>1, <1>5, <1>6, <1>7, AdvanceKeeps

LEMMA VerifierClosedKeeps == ASSUME Inv, VerifierClosed PROVE Inv'
<1>1. /\ up /\ pc.at = "close" /\ pc.role = "verifier" /\ UNCHANGED <<rejected, retries>> /\ Own
      /\ agents' = Closed("verifier") /\ outcome' = None
      /\ IterationSucceeds \/ IterationFails(loop) \/ Throws(loop, "failed")
  BY DEF VerifierClosed, Reaches
<1>2. /\ pc # AtRest /\ loop \in Loop /\ handle = TRUE /\ ~Waiting("loop") /\ retries \in 0..MaxRetries
  BY <1>1, ExecutionFacts DEF Saving
<1>3. agents' \in Agents /\ (failures = 0 => \A q \in Roles : agents'[q] = None)
  BY <1>1, ClosedLeavesNone
<1>4. Executes
  BY <1>1, <1>2, <1>3 DEF Executes
<1>5. \E ats : Advances(ats)
  <2>1. Throws(loop, "failed") => Advances({"saveOver"})
    BY <1>2, ThrowsAdvances DEF Over
  <2>2. IterationFails(loop) => Advances({"saveEnd"})
    BY <1>2, IterationFailsAdvances
  <2>3. IterationSucceeds => Advances({"none"})
    BY <1>2, IterationSucceedsAdvances
  <2>. QED  BY <1>1, <2>1, <2>2, <2>3
<1>6. AgentsFollow'
  BY <1>1, <1>3, <1>5, NoAgentFollows DEF Own, faults, Advances
<1>. QED  BY <1>1, <1>4, <1>5, <1>6, AdvanceKeeps

\* The steps without an agent.
LEMMA PlainStepKeeps ==
    ASSUME Inv, up, pc.at \in Plain \ {"none"}, ~Waiting("loop"), Own, UNCHANGED <<rejected, agents, retries>>,
           outcome' \in {None, "passed", "failed", "stopped", "threw"},
           \E ats : Advances(ats)
    PROVE  Inv'
<1>1. /\ pc # AtRest /\ loop \in Loop /\ handle = TRUE /\ retries \in 0..MaxRetries /\ agents \in Agents
  BY ExecutionFacts
<1>2. Executes
  BY <1>1 DEF Executes
<1>3. AgentsFollow'
  BY NoAgentOpen, NoAgentFollows DEF Own, faults, Advances
<1>4. pc.at \notin {"saveAgent", "run"}
  BY DEF Plain
<1>. QED  BY <1>2, <1>3, <1>4, AdvanceKeeps

LEMMA CommandStepsKeep == ASSUME Inv, CommandEnds \/ CommandSaved PROVE Inv'
<1>1. CASE CommandEnds
  <2>1. /\ up /\ pc.at = "check" /\ UNCHANGED <<rejected, retries, agents>> /\ Own
        /\ outcome' \in {None, "passed", "failed", "stopped", "threw"}
        /\ loop' = loop /\ Persist("loop") /\ pc' = At("saveCheck") /\ handle' = handle
    BY <1>1 DEF CommandEnds, Reaches, Saves
  <2>2. loop \in Loop /\ handle = TRUE /\ ~Waiting("loop")
    BY <2>1, ExecutionFacts DEF Saving
  <2>3. "saveCheck" \in Plain /\ "saveCheck" \in Saving /\ pc.at \in Plain \ {"none"}
    BY <2>1 DEF Plain, Saving
  <2>4. pc' \in Places /\ pc'.at = "saveCheck" /\ pc' # AtRest
    BY <2>1, <2>3, PlacesOf
  <2>5. Advances({"saveCheck"})
    BY <2>1, <2>2, <2>3, <2>4 DEF Advances
  <2>. QED  BY <2>1, <2>2, <2>3, <2>5, PlainStepKeeps
<1>2. CASE CommandSaved
  <2>1. /\ up /\ pc.at = "saveCheck" /\ ~Waiting("loop") /\ UNCHANGED <<rejected, retries, agents>> /\ Own
        /\ outcome' = None
        /\ IterationFails(loop) \/ Verifies \/ IterationSucceeds
    BY <1>2 DEF CommandSaved, Saved, Persisted
  <2>2. loop \in Loop /\ handle = TRUE /\ pc.at \in Plain \ {"none"}
    BY <2>1, ExecutionFacts DEF Plain
  <2>3. \E ats : Advances(ats)
    <3>1. IterationFails(loop) => Advances({"saveEnd"})
      BY <2>2, IterationFailsAdvances
    <3>2. Verifies => Advances({"saveOver", "check", "create"})
      BY <2>2, VerifiesAdvances
    <3>3. IterationSucceeds => Advances({"none"})
      BY <2>2, IterationSucceedsAdvances
    <3>. QED  BY <2>1, <3>1, <3>2, <3>3
  <2>. QED  BY <2>1, <2>2, <2>3, PlainStepKeeps
<1>. QED  BY <1>1, <1>2

LEMMA IterationStepsKeep ==
    ASSUME Inv, EndSaved \/ SleepSaved \/ SleepEnds \/ OverSaved PROVE Inv'
<1>1. /\ up /\ pc.at \in {"saveEnd", "saveSleep", "sleep", "saveOver"}
      /\ pc.at \in Saving => ~Waiting("loop")
      /\ UNCHANGED <<rejected, outcome, retries, agents>> /\ Own
  BY DEF EndSaved, SleepSaved, SleepEnds, OverSaved, Saved, Reaches, Persisted, Saving
<1>2. pc.at \in Plain \ {"none"}
  BY <1>1 DEF Plain
<1>3. /\ pc # AtRest /\ loop \in Loop /\ handle = TRUE /\ ~Waiting("loop")
      /\ outcome' \in {None, "passed", "failed", "stopped", "threw"}
  BY <1>1, <1>2, ExecutionFacts
<1>4. CASE NextIteration
  <2>1. \E ats : Advances(ats)
    BY <1>3, <1>4, NextIterationAdvances
  <2>. QED  BY <1>1, <1>2, <1>3, <2>1, PlainStepKeeps
<1>5. CASE Saves(loop, At("saveSleep"))
  <2>1. "saveSleep" \in Plain /\ "saveSleep" \in Saving
    BY DEF Plain, Saving
  <2>2. loop' = loop /\ Persist("loop") /\ pc' = At("saveSleep") /\ handle' = handle
    BY <1>5 DEF Saves
  <2>3. pc' \in Places /\ pc'.at = "saveSleep" /\ pc' # AtRest
    BY <2>1, <2>2, PlacesOf
  <2>4. Advances({"saveSleep"})
    BY <1>3, <2>1, <2>2, <2>3 DEF Advances
  <2>. QED  BY <1>1, <1>2, <1>3, <2>4, PlainStepKeeps
<1>6. CASE Goes(At("sleep"))
  <2>1. "sleep" \in Plain
    BY DEF Plain
  <2>2. pc' = At("sleep") /\ UNCHANGED <<loop, queue, handle>>
    BY <1>6 DEF Goes
  <2>3. pc' \in Places /\ pc'.at = "sleep" /\ pc' # AtRest
    BY <2>1, <2>2, PlacesOf
  <2>4. Advances({"sleep"})
    BY <1>3, <2>1, <2>2, <2>3 DEF Advances
  <2>. QED  BY <1>1, <1>2, <1>3, <2>4, PlainStepKeeps
<1>7. CASE pc.at = "saveOver" /\ Returns(loop)
  <2>1. loop' = loop /\ pc' = AtRest /\ handle' = FALSE /\ UNCHANGED queue
    BY <1>7 DEF Returns
  <2>2. loop.status # "running"
    BY <1>7 DEF Inv, OverIsOver
  <2>3. Advances({"none"})
    BY <1>3, <2>1, <2>2, PlacesOf DEF Advances
  <2>. QED  BY <1>1, <1>2, <1>3, <2>3, PlainStepKeeps
<1>. QED  BY <1>4, <1>5, <1>6, <1>7
          DEF EndSaved, SleepSaved, SleepEnds, OverSaved, Saved, Reaches

LEMMA LoopStepKeeps == ASSUME Inv, LoopStep PROVE Inv'
BY SaveThrowsKeeps, IterationSavedKeeps, CreateAgentKeeps, CreateAgentThrowsKeeps, RunAgentKeeps,
   VerifierRetriesKeeps, RunEndsKeeps, RunSavedKeeps, WorkerClosedKeeps, VerifierClosedKeeps,
   CommandStepsKeep, IterationStepsKeep DEF LoopStep

------------------------------------------------------------------------------
(* The daemon, the file and the calls.                                        *)

NoAgents == [r \in Roles |-> None]

\* Memory, agents and calls end with the process.
LEMMA DownKeeps ==
    ASSUME Inv, Down, UNCHANGED file,
           crashes' \in 0..MaxCrashes, failures' \in 0..MaxFailures
    PROVE  Inv'
<1>1. queue' \in Seq(Owners) /\ DOMAIN queue' = {} /\ \A p : ~Waiting(p)'
  BY EmptySeq DEF Down, Waiting, Range
<1>2. IsInjective(queue')
  BY <1>1 DEF IsInjective
<1>3. agents' \in Agents /\ \A r \in Roles : agents'[r] = None
  BY DEF Down, Agents
<1>4. AtRest \in Places /\ AtRest.at = "none" /\ "none" \notin OfAgent
  BY PlacesOf DEF OfAgent
<1>5. Types'
  <2>1. /\ ~up' /\ loop' = None /\ writing' = None /\ rejected' = {} /\ ~run' /\ pc' = AtRest
        /\ outcome' = None /\ retries' = 0 /\ ~handle' /\ ~aborted' /\ stop' = Idle
        /\ up' \in BOOLEAN /\ run' \in BOOLEAN /\ handle' \in BOOLEAN /\ aborted' \in BOOLEAN
    BY DEF Down
  <2>2. Idle \in [at : {"idle", "saving", "canceling", "waiting", "marked"}, found : BOOLEAN]
    BY DEF Idle
  <2>3. file' \in Loop \cup {None, Torn} /\ retries' \in 0..MaxRetries
    BY <2>1, ConstantsAssumption DEF Inv, Types
  <2>4. handle' = (pc' # AtRest)
    BY <2>1
  <2>. QED  BY <1>1, <1>2, <1>3, <1>4, <2>1, <2>2, <2>3, <2>4 DEF Types
<1>6. loop' = None /\ None \notin Loop
  BY NoneAssumption DEF Down
<1>7. WritersWait' /\ AgentsFollow' /\ OverIsOver' /\ ShownExists'
  BY <1>1, <1>3, <1>4, <1>6 DEF Down, WritersWait, AgentsFollow, OverIsOver, ShownExists
<1>8. DownRests' /\ LoopExists' /\ NoneRejected' /\ RunningLoopsExecute'
  BY DEF Down, DownRests, LoopExists, NoneRejected, RunningLoopsExecute, Idle
<1>. QED  BY <1>5, <1>7, <1>8 DEF Inv

LEMMA CrashKeeps == ASSUME Inv, Crash PROVE Inv'
<1>1. crashes' \in 0..MaxCrashes /\ failures' \in 0..MaxFailures
  BY ConstantsAssumption DEF Crash, Inv, Types
<1>. QED  BY <1>1, DownKeeps DEF Crash

\* Writes do not touch the loop or its execution.
LEMMA FileKeeps == ASSUME Inv, File PROVE Inv'
<1> USE DEF Inv, execution, faults
<1>1. /\ up /\ UNCHANGED <<up, loop, rejected, run, execution, aborted, stop, faults>>
      /\ \/ queue # <<>> /\ queue' = queue
         \/ queue # <<>> /\ queue' = Tail(queue) /\ writing' = None
  BY DEF File, WriteStarts, WriteEnds, WritersWait
<1>2. queue' \in Seq(Owners) /\ IsInjective(queue') /\ \A p : Waiting(p)' => Waiting(p)
  BY <1>1, QueueAdvances DEF Types, Waiting
<1>3. /\ writing' \in Loop \cup {None, Nothing} /\ file' \in Loop \cup {None, Torn}
  BY DEF File, WriteStarts, WriteEnds, Types
<1>4. Types'
  BY <1>1, <1>2, <1>3 DEF Types
<1>6. WritersWait'
  BY <1>1, <1>2 DEF WritersWait
<1>7. DownRests' /\ LoopExists' /\ ShownExists' /\ NoneRejected' /\ OverIsOver' /\ AgentsFollow'
      /\ RunningLoopsExecute'
  BY <1>1 DEF DownRests, LoopExists, ShownExists, NoneRejected, OverIsOver, AgentsFollow,
              RunningLoopsExecute
<1>. QED  BY <1>4, <1>6, <1>7

\* A write fails: somebody learns of it, or the process ends.
LEMMA WriteFailsKeeps == ASSUME Inv, WriteFails PROVE Inv'
<1>1. /\ up /\ queue # <<>> /\ failures' = failures + 1 /\ UNCHANGED <<file, crashes>>
      /\ failures' \in 0..MaxFailures /\ crashes' \in 0..MaxCrashes /\ failures' # 0
  BY ConstantsAssumption DEF WriteFails, Inv, Types
<1>2. CASE Unhandled(Head(queue))
  BY <1>1, <1>2, DownKeeps DEF WriteFails
<1>3. CASE ~Unhandled(Head(queue))
  <2>1. /\ queue' = Tail(queue) /\ writing' = None /\ rejected' = rejected \cup {Head(queue)}
        /\ UNCHANGED <<up, loop, run, pc, outcome, retries, agents, handle, aborted, stop>>
    BY <1>3 DEF WriteFails, execution
  <2>2. queue' \in Seq(Owners) /\ IsInjective(queue') /\ Head(queue) \in Owners
        /\ \A p : Waiting(p)' => Waiting(p)
    BY <1>1, <2>1, QueueAdvances DEF Inv, Types
  <2>3. Types'
    BY <1>1, <2>1, <2>2 DEF Inv, Types
  <2>4. WritersWait'
    BY <2>1, <2>2 DEF Inv, WritersWait
  <2>5. DownRests' /\ LoopExists' /\ ShownExists' /\ NoneRejected' /\ OverIsOver' /\ AgentsFollow'
        /\ RunningLoopsExecute'
    BY <1>1, <2>1 DEF Inv, DownRests, LoopExists, ShownExists, NoneRejected, OverIsOver, AgentsFollow,
                      RunningLoopsExecute
  <2>. QED  BY <2>3, <2>4, <2>5 DEF Inv
<1>. QED  BY <1>2, <1>3

\* A loop that was running is stopped when the daemon starts.
LEMMA InitializeKeeps == ASSUME Inv, Initialize PROVE Inv'
<1>1. /\ ~up /\ up' = TRUE /\ queue = <<>>
      /\ UNCHANGED <<file, writing, rejected, run, pc, outcome, retries, agents, handle, aborted,
                     stop, crashes, failures>>
      /\ ~run /\ pc = AtRest /\ agents = NoAgents /\ stop = Idle /\ Persist("boot")
  BY DEF Initialize, Inv, DownRests, execution, faults, NoAgents
<1>2. loop' \in Loop \cup {None} /\ (loop' \in Loop => loop'.status # "running")
  <2>1. file \in Loop => Recovered(file) \in Loop /\ Recovered(file).status # "running"
    BY DEF Loop, Recovered, Statuses, Over
  <2>2. loop' = IF file \in {None, Torn} THEN None ELSE Recovered(file)
    BY DEF Initialize
  <2>. QED  BY <2>1, <2>2, NoneAssumption DEF Inv, Types
<1>3. ~Waiting("boot") /\ "boot" \in Owners
  BY <1>1, EmptySeq DEF Waiting, Range, Owners
<1>4. /\ queue' \in Seq(Owners) /\ IsInjective(queue') /\ queue' # <<>>
      /\ \A p : Waiting(p)' => Waiting(p) \/ p = "boot"
  BY <1>1, <1>3, QueueExtends DEF Inv, Types
<1>5. Types'
  BY <1>1, <1>2, <1>4 DEF Inv, Types
<1>6. WritersWait'
  BY <1>1, <1>4 DEF Inv, WritersWait
<1>7. AtRest.at = "none" /\ "none" \notin OfAgent
  BY PlacesOf DEF OfAgent
<1>8. DownRests' /\ LoopExists' /\ ShownExists' /\ NoneRejected' /\ OverIsOver' /\ AgentsFollow'
      /\ RunningLoopsExecute'
  BY <1>1, <1>2, <1>7 DEF Inv, DownRests, LoopExists, ShownExists, NoneRejected, OverIsOver,
                      AgentsFollow, RunningLoopsExecute, Idle
<1>. QED  BY <1>5, <1>6, <1>8 DEF Inv

\* A loop is run: saved first, then executed.
LEMMA RunLoopKeeps == ASSUME Inv, RunLoop PROVE Inv'
<1>1. /\ up /\ loop = None /\ loop' = NewLoop /\ run' = TRUE /\ Persist("run")
      /\ UNCHANGED <<up, file, writing, rejected, pc, outcome, retries, agents, handle, aborted,
                     stop, crashes, failures>>
  BY DEF RunLoop, Serving, execution, faults
<1>2. ~run /\ pc = AtRest /\ stop.at = "idle"
  BY <1>1, NoneAssumption DEF Inv, LoopExists, Types
<1>3. ~Waiting("run") /\ "run" \in Owners
  BY <1>2 DEF Inv, WritersWait, Owners
<1>4. /\ queue' \in Seq(Owners) /\ IsInjective(queue') /\ queue' # <<>>
      /\ \A p : Waiting(p)' => Waiting(p) \/ p = "run"
  BY <1>1, <1>3, QueueExtends DEF Inv, Types
<1>5. loop' \in Loop /\ loop'.shown = None
  BY <1>1 DEF NewLoop, Loop, Statuses
<1>6. Types'
  BY <1>1, <1>4, <1>5 DEF Inv, Types
<1>7. WritersWait'
  BY <1>1, <1>4 DEF Inv, WritersWait
<1>8. AtRest.at = "none"
  BY PlacesOf
<1>9. DownRests' /\ LoopExists' /\ ShownExists' /\ NoneRejected' /\ OverIsOver' /\ AgentsFollow'
      /\ RunningLoopsExecute'
  BY <1>1, <1>2, <1>5, <1>8 DEF Inv, DownRests, LoopExists, ShownExists, NoneRejected, OverIsOver,
                      AgentsFollow, RunningLoopsExecute
<1>. QED  BY <1>6, <1>7, <1>9 DEF Inv

\* runLoop goes on only when nothing executes the loop.
LEMMA RunLoopContinuesKeeps == ASSUME Inv, RunLoopContinues PROVE Inv'
<1>1. /\ up /\ run /\ run' = FALSE /\ ~Waiting("run")
      /\ UNCHANGED <<up, file, writing, rejected, outcome, retries, agents, aborted, stop,
                     crashes, failures>>
      /\ \/ /\ loop' = Begun /\ Persist("loop")
            /\ pc' = At("saveIteration") /\ handle' = TRUE
         \/ loop' = Finished(loop, "failed") /\ UNCHANGED <<queue, pc, handle>>
  BY DEF RunLoopContinues, Persisted, faults
<1>2. loop \in Loop /\ pc = AtRest /\ ~Waiting("loop") /\ AtRest.at = "none"
  BY <1>1, PlacesOf DEF Inv, LoopExists, WritersWait, Saving
<1>3. failures = 0 => \A r \in Roles : agents[r] = None
  BY <1>2, NoAgentOpen DEF Plain
<1>4. CASE /\ loop' = Begun /\ Persist("loop")
           /\ pc' = At("saveIteration") /\ handle' = TRUE
  <2>1. "saveIteration" \in Plain /\ "saveIteration" \in Saving /\ "loop" \in Owners
    BY DEF Plain, Saving, Owners
  <2>2. pc' \in Places /\ pc'.at = "saveIteration" /\ pc' # AtRest
    BY <1>4, <2>1, PlacesOf
  <2>3. loop' \in Loop /\ loop'.status = loop.status /\ loop'.shown = loop.shown
    BY <1>2, <1>4 DEF Begun, Loop, Statuses
  <2>4. /\ queue' \in Seq(Owners) /\ IsInjective(queue') /\ queue' # <<>>
        /\ \A p : Waiting(p)' => Waiting(p) \/ p = "loop"
    BY <1>2, <1>4, <2>1, QueueExtends DEF Inv, Types
  <2>5. Types'
    BY <1>1, <1>4, <2>2, <2>3, <2>4 DEF Inv, Types
  <2>6. WritersWait'
    BY <1>1, <2>1, <2>2, <2>4 DEF Inv, WritersWait
  <2>7. AgentsFollow'
    BY <1>1, <1>3, <2>2, NoAgentFollows
  <2>8. DownRests' /\ LoopExists' /\ ShownExists' /\ NoneRejected' /\ OverIsOver'
        /\ RunningLoopsExecute'
    BY <1>1, <1>2, <2>2, <2>3 DEF Inv, DownRests, LoopExists, ShownExists, NoneRejected, OverIsOver,
                      RunningLoopsExecute
  <2>. QED  BY <2>5, <2>6, <2>7, <2>8 DEF Inv
<1>5. CASE loop' = Finished(loop, "failed") /\ UNCHANGED <<queue, pc, handle>>
  <2>1. loop' \in Loop /\ loop'.status # "running"
    BY <1>2, <1>5, Records DEF Over
  <2>2. Types'
    BY <1>1, <1>5, <2>1 DEF Inv, Types
  <2>3. WritersWait'
    BY <1>1, <1>5 DEF Inv, WritersWait, Waiting
  <2>4. DownRests' /\ LoopExists' /\ ShownExists' /\ NoneRejected' /\ OverIsOver'
        /\ RunningLoopsExecute' /\ AgentsFollow'
    BY <1>1, <1>5, <2>1 DEF Inv, DownRests, LoopExists, ShownExists, NoneRejected, OverIsOver,
                      RunningLoopsExecute, AgentsFollow
  <2>. QED  BY <2>2, <2>3, <2>4 DEF Inv
<1>. QED  BY <1>1, <1>4, <1>5

LEMMA RunLoopThrowsKeeps == ASSUME Inv, RunLoopThrows PROVE Inv'
<1>1. /\ up /\ run' = FALSE /\ rejected' = rejected \ {"run"} /\ ~Waiting("run") /\ "run" \in rejected
      /\ UNCHANGED <<up, loop, file, queue, writing, pc, outcome, retries, agents, handle,
                     aborted, stop, crashes, failures>>
  BY DEF RunLoopThrows, Threw, execution, faults
<1>2. Types' /\ failures # 0
  <2>1. failures # 0
    BY <1>1 DEF Inv, NoneRejected
  <2>2. run' \in BOOLEAN /\ rejected' \subseteq Owners
    BY <1>1 DEF Inv, Types
  <2>3. IsInjective(queue') /\ queue' = queue
    BY <1>1 DEF Inv, Types
  <2>. QED  BY <1>1, <2>1, <2>2, <2>3 DEF Inv, Types
<1>3. WritersWait'
  BY <1>1 DEF Inv, WritersWait, Waiting
<1>4. DownRests' /\ LoopExists' /\ ShownExists' /\ NoneRejected' /\ OverIsOver'
      /\ RunningLoopsExecute' /\ AgentsFollow'
  BY <1>1, <1>2 DEF Inv, DownRests, LoopExists, ShownExists, NoneRejected, OverIsOver,
                    RunningLoopsExecute, AgentsFollow
<1>. QED  BY <1>2, <1>3, <1>4 DEF Inv

\* Output is saved.
LEMMA AgentStreamsKeeps == ASSUME Inv, AgentStreams PROVE Inv'
<1>1. /\ up /\ ~Waiting("stream") /\ Persist("stream") /\ "stream" \in Owners
      /\ UNCHANGED <<up, loop, file, writing, rejected, run, pc, outcome, retries, agents, handle,
                     aborted, stop, crashes, failures>>
  BY DEF AgentStreams, Owners, execution, faults
<1>2. /\ queue' \in Seq(Owners) /\ IsInjective(queue') /\ queue' # <<>>
      /\ \A p : Waiting(p)' => Waiting(p) \/ p = "stream"
  BY <1>1, QueueExtends DEF Inv, Types
<1>3. Types'
  BY <1>1, <1>2 DEF Inv, Types
<1>4. WritersWait'
  BY <1>1, <1>2 DEF Inv, WritersWait
<1>5. DownRests' /\ LoopExists' /\ ShownExists' /\ NoneRejected' /\ OverIsOver'
      /\ RunningLoopsExecute' /\ AgentsFollow'
  BY <1>1 DEF Inv, DownRests, LoopExists, ShownExists, NoneRejected, OverIsOver,
              RunningLoopsExecute, AgentsFollow
<1>. QED  BY <1>3, <1>4, <1>5 DEF Inv

Stops == [at : {"idle", "saving", "canceling", "waiting", "marked"}, found : BOOLEAN]

\* What a step of stopLoop has to show: it runs no agent, and it marks the
\* loop as stopped or leaves it alone.
LEMMA StopKeeps ==
    ASSUME Inv, up, UNCHANGED Executing, aborted' \in BOOLEAN, stop' \in Stops, loop' \in Loop \cup {None},
           rejected' \subseteq rejected,
           stop'.at # "idle" => loop \in Loop,
           loop' = loop \/ (loop \in Loop /\ loop' = [loop EXCEPT !.status = "stopped"]),
           agents' \in Agents, \A r \in Roles : agents'[r] = None <=> agents[r] = None,
           \/ UNCHANGED queue /\ (Waiting("stop") => stop'.at \in {"saving", "marked"})
           \/ ~Waiting("stop") /\ Persist("stop") /\ stop'.at \in {"saving", "marked"}
    PROVE  Inv'
<1> USE DEF Inv, Executing, faults
<1>1. /\ queue' \in Seq(Owners) /\ IsInjective(queue') /\ (writing' # None => queue' # <<>>)
      /\ \A p : Waiting(p)' => IF p = "stop" THEN stop'.at \in {"saving", "marked"} ELSE Waiting(p)
  <2>1. CASE UNCHANGED queue /\ (Waiting("stop") => stop'.at \in {"saving", "marked"})
    BY <2>1 DEF Types, Waiting, WritersWait
  <2>2. CASE ~Waiting("stop") /\ Persist("stop") /\ stop'.at \in {"saving", "marked"}
    <3>1. "stop" \in Owners
      BY DEF Owners
    <3>. QED  BY <2>2, <3>1, QueueExtends DEF Types
  <2>. QED  BY <2>1, <2>2
<1>2. Types'
  BY <1>1 DEF Types, Stops
<1>3. WritersWait'
  BY <1>1 DEF WritersWait
<1>4. loop' \in Loop => loop \in Loop /\ loop'.shown = loop.shown
                        /\ (loop'.status = "running" => loop.status = "running")
  BY DEF Loop
<1>5. loop \in Loop => loop' \in Loop
  BY DEF Loop, Statuses, Over
<1>6. ShownExists' /\ AgentsFollow'
  <2>1. loop' \in Loop => loop'.shown \in Roles \cup {None}
    BY DEF Loop
  <2>. QED  BY <1>4, <2>1 DEF ShownExists, AgentsFollow
<1>7. OverIsOver'
  <2> SUFFICES ASSUME pc.at = "saveOver" PROVE loop'.status # "running"
    BY DEF OverIsOver
  <2>1. loop \in Loop /\ loop.status # "running"
    BY PlacesOf DEF LoopExists, OverIsOver, Types
  <2>. QED  BY <1>4, <1>5, <2>1
<1>8. DownRests' /\ LoopExists' /\ NoneRejected'
  BY <1>5 DEF DownRests, LoopExists, NoneRejected
<1>9. RunningLoopsExecute'
  <2> SUFFICES ASSUME loop' # None, loop'.status = "running", failures = 0
               PROVE  pc # AtRest \/ run
    BY DEF RunningLoopsExecute
  <2>1. loop # None /\ loop.status = "running"
    BY <1>4, NoneAssumption
  <2>. QED  BY <2>1 DEF RunningLoopsExecute
<1>. QED  BY <1>2, <1>3, <1>6, <1>7, <1>8, <1>9

LEMMA StopLoopKeeps == ASSUME Inv, StopLoop PROVE Inv'
<1>1. /\ up /\ stop.at = "idle" /\ loop # None /\ stop' = [at |-> "saving", found |-> handle]
      /\ Persist("stop") /\ UNCHANGED <<Executing, loop, rejected, agents, aborted>>
  BY DEF StopLoop, Serving
<1>2. ~Waiting("stop") /\ loop \in Loop /\ stop' \in Stops /\ aborted' \in BOOLEAN /\ agents' \in Agents
  BY <1>1 DEF Inv, WritersWait, Types, Stops
<1>. QED  BY <1>1, <1>2, StopKeeps

LEMMA StopStepKeeps == ASSUME Inv, StopStep PROVE Inv'
<1>1. /\ stop \in Stops /\ loop \in Loop \cup {None} /\ aborted \in BOOLEAN /\ agents \in Agents
      /\ Waiting("stop") => stop.at \in {"saving", "marked"}
      /\ stop.at # "idle" => loop \in Loop
  BY DEF Inv, Types, Stops, WritersWait, LoopExists
<1>2. CASE StopSaved
  <2>1. /\ up /\ stop.at = "saving" /\ ~Waiting("stop") /\ aborted' = TRUE
        /\ stop' = [stop EXCEPT !.at = IF loop.shown = None THEN "waiting" ELSE "canceling"]
        /\ agents' \in {agents, ShownCanceled}
        /\ UNCHANGED <<Executing, loop, queue, rejected>>
    BY <1>2 DEF StopSaved, Persisted
  <2>2. stop' \in Stops /\ aborted' \in BOOLEAN
    BY <1>1, <2>1 DEF Stops
  <2>3. agents' \in Agents /\ \A r \in Roles : agents'[r] = None <=> agents[r] = None
    <3>1. None # "canceled" /\ None # "running"
      BY NoneAssumption DEF Statuses
    <3>2. CASE agents' = agents
      BY <1>1, <3>2
    <3>3. CASE agents' = ShownCanceled
      BY <1>1, <3>1, <3>3 DEF Agents, ShownCanceled
    <3>. QED  BY <2>1, <3>2, <3>3
  <2>. QED  BY <1>1, <2>1, <2>2, <2>3, StopKeeps
<1>3. CASE CancelReturns
  <2>1. /\ up /\ stop.at = "canceling" /\ stop' = [stop EXCEPT !.at = "waiting"]
        /\ UNCHANGED <<Executing, loop, queue, rejected, agents, aborted>>
    BY <1>3 DEF CancelReturns
  <2>2. stop' \in Stops
    BY <1>1, <2>1 DEF Stops
  <2>. QED  BY <1>1, <2>1, <2>2, StopKeeps
<1>4. CASE StopReturns
  <2>1. /\ up /\ stop.at = "waiting" /\ stop' = Idle
        /\ UNCHANGED <<Executing, loop, queue, rejected, agents, aborted>>
    BY <1>4 DEF StopReturns
  <2>2. stop' \in Stops /\ stop'.at = "idle"
    BY <2>1 DEF Stops, Idle
  <2>. QED  BY <1>1, <2>1, <2>2, StopKeeps
<1>5. CASE StopAlone
  <2>1. /\ up /\ stop.at = "saving" /\ ~Waiting("stop") /\ Persist("stop")
        /\ loop' = [loop EXCEPT !.status = "stopped"] /\ stop' = [stop EXCEPT !.at = "marked"]
        /\ UNCHANGED <<Executing, rejected, agents, aborted>>
    BY <1>5 DEF StopAlone, Persisted
  <2>2. stop' \in Stops /\ stop'.at = "marked" /\ loop' \in Loop
    BY <1>1, <2>1 DEF Stops, Loop, Statuses, Over
  <2>. QED  BY <1>1, <2>1, <2>2, StopKeeps
<1>6. CASE StopMarked
  <2>1. /\ up /\ ~Waiting("stop") /\ stop' = Idle
        /\ UNCHANGED <<Executing, loop, queue, rejected, agents, aborted>>
    BY <1>6 DEF StopMarked, Persisted
  <2>2. stop' \in Stops /\ stop'.at = "idle"
    BY <2>1 DEF Stops, Idle
  <2>. QED  BY <1>1, <2>1, <2>2, StopKeeps
<1>7. CASE StopThrows
  <2>1. /\ up /\ ~Waiting("stop") /\ stop' = Idle /\ rejected' = rejected \ {"stop"}
        /\ UNCHANGED <<Executing, loop, queue, agents, aborted>>
    BY <1>7 DEF StopThrows, Threw
  <2>2. stop' \in Stops /\ stop'.at = "idle"
    BY <2>1 DEF Stops, Idle
  <2>. QED  BY <1>1, <2>1, <2>2, StopKeeps
<1>. QED  BY <1>2, <1>3, <1>4, <1>5, <1>6, <1>7 DEF StopStep

LEMMA InitHasInv == ASSUME Init PROVE Inv
<1>1. queue \in Seq(Owners) /\ DOMAIN queue = {} /\ \A p : ~Waiting(p)
  BY EmptySeq DEF Init, Waiting, Range
<1>2. IsInjective(queue)
  BY <1>1 DEF IsInjective
<1>3. agents \in Agents /\ \A r \in Roles : agents[r] = None
  BY DEF Init, Agents
<1>4. AtRest \in Places /\ AtRest.at = "none" /\ "none" \notin OfAgent
  BY PlacesOf DEF OfAgent
<1>5. Idle \in [at : {"idle", "saving", "canceling", "waiting", "marked"}, found : BOOLEAN]
  BY DEF Idle
<1>6. Types
  <2>1. /\ pc \in Places /\ stop \in [at : {"idle", "saving", "canceling", "waiting", "marked"},
                                     found : BOOLEAN]
        /\ pc = AtRest /\ handle = FALSE
    BY <1>4, <1>5 DEF Init
  <2>2. up \in BOOLEAN /\ loop \in Loop \cup {None} /\ file \in Loop \cup {None, Torn}
        /\ writing \in Loop \cup {None, Nothing} /\ rejected \subseteq Owners /\ run \in BOOLEAN
        /\ outcome \in {None, "passed", "failed", "stopped", "threw"} /\ aborted \in BOOLEAN
    BY DEF Init
  <2>3. retries \in 0..MaxRetries /\ crashes \in 0..MaxCrashes /\ failures \in 0..MaxFailures
    BY ConstantsAssumption DEF Init
  <2>. QED  BY <1>1, <1>2, <1>3, <2>1, <2>2, <2>3 DEF Types
<1>7. loop = None /\ None \notin Loop
  BY NoneAssumption DEF Init
<1>8. WritersWait /\ AgentsFollow /\ OverIsOver /\ ShownExists
  BY <1>1, <1>3, <1>4, <1>7 DEF Init, WritersWait, AgentsFollow, OverIsOver, ShownExists
<1>9. DownRests /\ LoopExists /\ NoneRejected /\ RunningLoopsExecute
  BY DEF Init, DownRests, LoopExists, NoneRejected, RunningLoopsExecute, Idle
<1>. QED  BY <1>6, <1>8, <1>9 DEF Inv

LEMMA InvHolds == Spec => []Inv
<1>1. Init => Inv
  BY InitHasInv
<1>2. Inv /\ [Next]_vars => Inv'
  <2> SUFFICES ASSUME Inv, [Next]_vars PROVE Inv'
    OBVIOUS
  <2>1. CASE UNCHANGED vars
    BY <2>1 DEF vars, store, execution, faults, Inv, Types, DownRests, LoopExists, WritersWait, Waiting,
       ShownExists, NoneRejected, OverIsOver, AgentsFollow, RunningLoopsExecute
  <2>2. CASE RunStep
    BY <2>2, RunLoopContinuesKeeps, RunLoopThrowsKeeps DEF RunStep
  <2>. QED  BY <2>1, <2>2, InitializeKeeps, RunLoopKeeps, LoopStepKeeps, AgentStreamsKeeps,
               StopLoopKeeps, StopStepKeeps, FileKeeps, WriteFailsKeeps, CrashKeeps DEF Next
<1>. QED  BY <1>1, <1>2, PTL DEF Spec

------------------------------------------------------------------------------
(* The theorems.                                                              *)

\* Memory, file, queue and calls stay well formed; no caller has two writes
\* queued, and whoever a running loop shows as active is an open agent.
THEOREM TypeCorrect == Spec => []TypeOK
<1>1. Inv => TypeOK
  <2> SUFFICES ASSUME Inv PROVE TypeOK
    OBVIOUS
  <2>2. loop # None /\ loop.status = "running" /\ loop.shown # None => agents[loop.shown] # None
    BY DEF Inv, Types, ShownExists
  <2>. QED  BY <2>2 DEF Inv, Types, TypeOK, Agents
<1>. QED  BY <1>1, InvHolds, PTL

\* A loop listed as running is being executed or about to be, whatever was
\* killed before (loop-service.ts: initialize).
THEOREM RunningLoopsExecuteHolds == Spec => []RunningLoopsExecute
<1>1. Inv => RunningLoopsExecute
  BY DEF Inv
<1>. QED  BY <1>1, InvHolds, PTL

\* However an iteration ends its agents are closed, and never are two open
\* (loop-service.ts: runWorkerIteration, runVerification).
THEOREM AgentsAreClosedHolds == Spec => []AgentsAreClosed
<1>1. Inv => AgentsAreClosed
  <2> SUFFICES ASSUME Inv, failures = 0
               PROVE  /\ pc = AtRest => \A r \in Roles : agents[r] = None
                      /\ agents["worker"] = None \/ agents["verifier"] = None
    BY DEF AgentsAreClosed
  <2>1. pc.at \in Plain \cup OfAgent /\ (pc.at \in OfAgent => pc.role \in Roles)
        /\ (pc = AtRest => pc.at \in Plain)
    BY PlacesOf DEF Inv, Types, Plain
  <2>. QED  BY <2>1 DEF Inv, AgentsFollow, Roles
<1>. QED  BY <1>1, InvHolds, PTL

------------------------------------------------------------------------------
(* An aborted loop comes to its end.                                          *)

\* Prompts are left for a verifier that runs only, a write of executeLoop that
\* was rejected is one it waits for, and a loop that a stop has found was not
\* waiting to be run.
AbortedFits ==
    /\ "loop" \in rejected => pc.at \in Saving
    /\ retries # 0 => pc = With("run", "verifier")
    /\ aborted \/ stop.found => loop # None /\ ~run

\* The places are in the order in which they are passed.
LEMMA StepsFromPlaces ==
    ASSUME NEW n \in 0..MaxRetries
    PROVE  /\ MaxRetries \in Nat /\ n \in Nat /\ n =< MaxRetries
           /\ StepsFrom(AtRest, n) = 0
           /\ StepsFrom(At("saveOver"), n) = 1
           /\ StepsFrom(At("sleep"), n) = 2
           /\ StepsFrom(At("saveSleep"), n) = 3
           /\ StepsFrom(At("saveEnd"), n) = 4
           /\ StepsFrom(With("close", "verifier"), n) = 5
           /\ StepsFrom(With("saveRun", "verifier"), n) = 6
           /\ StepsFrom(With("run", "verifier"), n) = 7 + n
           /\ StepsFrom(With("saveAgent", "verifier"), n) = 8 + MaxRetries
           /\ StepsFrom(With("create", "verifier"), n) = 9 + MaxRetries
           /\ StepsFrom(At("saveCheck"), n) = 10 + MaxRetries
           /\ StepsFrom(At("check"), n) = 11 + MaxRetries
           /\ StepsFrom(With("close", "worker"), n) = 12 + MaxRetries
           /\ StepsFrom(With("saveRun", "worker"), n) = 13 + MaxRetries
           /\ StepsFrom(With("run", "worker"), n) = 14 + MaxRetries
           /\ StepsFrom(With("saveAgent", "worker"), n) = 15 + MaxRetries
           /\ StepsFrom(With("create", "worker"), n) = 16 + MaxRetries
           /\ StepsFrom(At("saveIteration"), n) = 17 + MaxRetries
<1>1. None # "verifier" /\ None # "worker"
  BY NoneAssumption DEF Roles
<1>2. MaxRetries \in Nat /\ n \in Nat /\ n =< MaxRetries
  BY ConstantsAssumption
<1>3. /\ StepsFrom(AtRest, n) = 0
      /\ StepsFrom(At("saveOver"), n) = 1
      /\ StepsFrom(At("sleep"), n) = 2
      /\ StepsFrom(At("saveSleep"), n) = 3
      /\ StepsFrom(At("saveEnd"), n) = 4
      /\ StepsFrom(At("saveCheck"), n) = 10 + MaxRetries
      /\ StepsFrom(At("check"), n) = 11 + MaxRetries
      /\ StepsFrom(At("saveIteration"), n) = 17 + MaxRetries
  BY <1>1, <1>2 DEF StepsFrom, AtRest, At
<1>4. /\ StepsFrom(With("close", "verifier"), n) = 5
      /\ StepsFrom(With("saveRun", "verifier"), n) = 6
      /\ StepsFrom(With("run", "verifier"), n) = 7 + n
      /\ StepsFrom(With("saveAgent", "verifier"), n) = 8 + MaxRetries
      /\ StepsFrom(With("create", "verifier"), n) = 9 + MaxRetries
  BY <1>1, <1>2 DEF StepsFrom, With
<1>5. /\ StepsFrom(With("close", "worker"), n) = 12 + MaxRetries
      /\ StepsFrom(With("saveRun", "worker"), n) = 13 + MaxRetries
      /\ StepsFrom(With("run", "worker"), n) = 14 + MaxRetries
      /\ StepsFrom(With("saveAgent", "worker"), n) = 15 + MaxRetries
      /\ StepsFrom(With("create", "worker"), n) = 16 + MaxRetries
  BY <1>1, <1>2 DEF StepsFrom, With
<1>. QED  BY <1>2, <1>3, <1>4, <1>5

\* A place is known by what executeLoop does there and for which agent.
LEMMA PlaceIs ==
    ASSUME NEW p \in Places
    PROVE  /\ p.at \in Plain => p = At(p.at)
           /\ p.at \in OfAgent => p = With(p.at, p.role) /\ p.role \in {"worker", "verifier"}
           /\ p.at \in Plain \cup OfAgent
BY DEF Places, Plain, OfAgent, At, With, Roles

\* Every place is at least as far as its neighbour.
LEMMA StepsFromBounds ==
    ASSUME NEW p \in Places, NEW n \in 0..MaxRetries
    PROVE  /\ StepsFrom(p, n) \in Nat
           /\ p # AtRest => StepsFrom(p, n) > 0
           /\ p # AtRest /\ p.at # "saveOver" => StepsFrom(p, n) > 1
<1>1. \/ p \in {At(a) : a \in Plain}
      \/ p \in {With(a, "worker") : a \in OfAgent}
      \/ p \in {With(a, "verifier") : a \in OfAgent}
  BY PlaceIs
<1>2. At("none") = AtRest /\ At("saveOver").at = "saveOver"
  BY DEF At, AtRest
<1>. QED  BY <1>1, <1>2, StepsFromPlaces DEF Plain, OfAgent

LEMMA NextIterationAborted ==
    ASSUME aborted, NextIteration
    PROVE  pc' = At("saveOver")
BY DEF NextIteration, Throws, Saves

LEMMA VerifiesAborted ==
    ASSUME aborted, Verifies
    PROVE  pc' \in {At("saveOver"), With("create", "verifier")}
BY DEF Verifies, NextCommand, Throws, Saves, Goes

\* Where the steps of executeLoop go to once the loop is aborted.
LEMMA LoopStepCountsDown ==
    ASSUME Inv, AbortedFits, LoopStep, aborted
    PROVE  StepsLeft' < StepsLeft
<1> DEFINE left == StepsFrom(pc, retries)
           then == StepsFrom(pc', retries')
<1>0. Inv' /\ retries \in 0..MaxRetries /\ retries' \in 0..MaxRetries /\ pc \in Places /\ pc' \in Places
  BY LoopStepKeeps DEF Inv, Types
<1>1. SUFFICES then < left
  BY DEF StepsLeft
<1>n. \A p \in Places : StepsFrom(p, retries) \in Nat /\ StepsFrom(p, retries') \in Nat
  BY <1>0, StepsFromBounds
<1>p. /\ pc.at \in Plain => pc = At(pc.at)
      /\ pc.at \in OfAgent => pc = With(pc.at, pc.role) /\ pc.role \in {"worker", "verifier"}
  BY <1>0, PlaceIs
<1> DEFINE Orders(n) ==
      /\ MaxRetries \in Nat /\ n \in Nat /\ n =< MaxRetries
      /\ StepsFrom(AtRest, n) = 0
      /\ StepsFrom(At("saveOver"), n) = 1
      /\ StepsFrom(At("sleep"), n) = 2
      /\ StepsFrom(At("saveSleep"), n) = 3
      /\ StepsFrom(At("saveEnd"), n) = 4
      /\ StepsFrom(With("close", "verifier"), n) = 5
      /\ StepsFrom(With("saveRun", "verifier"), n) = 6
      /\ StepsFrom(With("run", "verifier"), n) = 7 + n
      /\ StepsFrom(With("saveAgent", "verifier"), n) = 8 + MaxRetries
      /\ StepsFrom(With("create", "verifier"), n) = 9 + MaxRetries
      /\ StepsFrom(At("saveCheck"), n) = 10 + MaxRetries
      /\ StepsFrom(At("check"), n) = 11 + MaxRetries
      /\ StepsFrom(With("close", "worker"), n) = 12 + MaxRetries
      /\ StepsFrom(With("saveRun", "worker"), n) = 13 + MaxRetries
      /\ StepsFrom(With("run", "worker"), n) = 14 + MaxRetries
      /\ StepsFrom(With("saveAgent", "worker"), n) = 15 + MaxRetries
      /\ StepsFrom(With("create", "worker"), n) = 16 + MaxRetries
      /\ StepsFrom(At("saveIteration"), n) = 17 + MaxRetries
<1>o. \A n \in 0..MaxRetries : Orders(n)
  BY StepsFromPlaces
<1>s. Orders(retries) /\ Orders(retries')
  BY <1>0, <1>o
<1> HIDE DEF left, then
<1>2. CASE SaveThrows
  <2>1. \/ pc.at = "saveOver" /\ pc' = AtRest
        \/ pc.at # "saveOver" /\ pc' = At("saveOver")
    BY <1>2 DEF SaveThrows, Returns, Throws, Saves
  <2>2. pc # AtRest
    BY <1>2 DEF SaveThrows
  <2>. QED  BY <2>1, <2>2, <1>0, <1>s, <1>n, StepsFromBounds DEF left, then
<1>3. CASE IterationSaved
  BY <1>3, <1>s, <1>p DEF IterationSaved, Saved, Goes, Plain, left, then
<1>4. CASE CreateAgent
  BY <1>4, <1>s, <1>p DEF CreateAgent, Reaches, Saves, OfAgent, left, then
<1>5. CASE CreateAgentThrows
  BY <1>5, <1>s, <1>p DEF CreateAgentThrows, Reaches, Throws, Saves, OfAgent, left, then
<1>6. CASE RunAgent
  <2>1. pc = With("saveAgent", pc.role) /\ pc' = With("run", pc.role) /\ pc.role \in {"worker", "verifier"}
    BY <1>6, <1>p DEF RunAgent, Saved, Goes, OfAgent
  <2>. QED  BY <2>1, <1>s DEF left, then
<1>7. CASE VerifierRetries
  BY <1>7, <1>s, <1>p DEF VerifierRetries, Reaches, OfAgent, left, then
<1>8. CASE RunEnds
  BY <1>8, <1>s, <1>p DEF RunEnds, Reaches, Saves, OfAgent, left, then
<1>9. CASE RunSaved
  BY <1>9, <1>s, <1>p DEF RunSaved, Saved, Goes, OfAgent, left, then
<1>10. CASE WorkerClosed
  <2>1. pc' = At("saveOver") /\ pc = With("close", "worker")
    BY <1>10, <1>p DEF WorkerClosed, Reaches, Throws, Saves, OfAgent
  <2>. QED  BY <2>1, <1>s DEF left, then
<1>11. CASE CommandEnds
  BY <1>11, <1>s, <1>p DEF CommandEnds, Reaches, Saves, Plain, left, then
<1>12. CASE CommandSaved
  <2>1. pc = At("saveCheck")
    BY <1>12, <1>p DEF CommandSaved, Saved, Plain
  <2>2. pc' \in {At("saveEnd"), At("saveOver"), With("create", "verifier"), AtRest}
    BY <1>12, VerifiesAborted DEF CommandSaved, IterationFails, Saves, IterationSucceeds, Returns
  <2>. QED  BY <2>1, <2>2, <1>s DEF left, then
<1>13. CASE VerifierClosed
  <2>1. pc = With("close", "verifier") /\ pc' \in {At("saveEnd"), At("saveOver"), AtRest}
    BY <1>13, <1>p DEF VerifierClosed, Reaches, IterationFails, Saves, IterationSucceeds,
       Returns, Throws, OfAgent
  <2>. QED  BY <2>1, <1>s DEF left, then
<1>14. CASE EndSaved
  <2>1. pc = At("saveEnd") /\ pc' \in {At("saveOver"), At("saveSleep")}
    BY <1>14, <1>p, NextIterationAborted DEF EndSaved, Saved, Saves, Plain
  <2>. QED  BY <2>1, <1>s DEF left, then
<1>15. CASE SleepSaved
  BY <1>15, <1>s, <1>p DEF SleepSaved, Saved, Goes, Plain, left, then
<1>16. CASE SleepEnds
  <2>1. pc = At("sleep") /\ pc' = At("saveOver")
    BY <1>16, <1>p, NextIterationAborted DEF SleepEnds, Reaches, Plain
  <2>. QED  BY <2>1, <1>s DEF left, then
<1>17. CASE OverSaved
  <2>1. pc = At("saveOver") /\ pc' = AtRest
    BY <1>17, <1>p DEF OverSaved, Saved, Returns, Plain
  <2>. QED  BY <2>1, <1>s DEF left, then
<1>. QED  BY <1>2, <1>3, <1>4, <1>5, <1>6, <1>7, <1>8, <1>9, <1>10, <1>11, <1>12, <1>13,
             <1>14, <1>15, <1>16, <1>17 DEF LoopStep

\* The steps of others leave executeLoop where it is, or end the process.
LEMMA OtherSteps ==
    ASSUME [Next]_vars, ~LoopStep, ~RunLoopContinues
    PROVE  UNCHANGED <<pc, retries>> \/ (pc' = AtRest /\ retries' = 0 /\ aborted' = FALSE /\ stop' = Idle)
BY DEF Next, Initialize, RunLoop, RunStep, RunLoopThrows, AgentStreams, StopLoop, StopStep,
       StopSaved, CancelReturns, StopReturns, StopAlone, StopMarked, StopThrows, File,
       WriteStarts, WriteEnds, WriteFails, Crash, Down, Executing, execution, vars

\* A loop that is executed exists when its execution is over.
LEMMA LoopStepLeavesLoop ==
    ASSUME Inv, LoopStep
    PROVE  loop' # None
<1>0. Inv' /\ None \notin Loop
  BY LoopStepKeeps, NoneAssumption
<1>1. CASE pc' # AtRest
  BY <1>0, <1>1 DEF Inv, LoopExists
<1>2. CASE pc' = AtRest
  <2>1. pc # AtRest
    BY DEF LoopStep, SaveThrows, IterationSaved, CreateAgent, CreateAgentThrows, RunAgent,
       VerifierRetries, RunEnds, RunSaved, WorkerClosed, CommandEnds, CommandSaved,
       VerifierClosed, EndSaved, SleepSaved, SleepEnds, OverSaved, Saved, Reaches, AtRest
  <2>2. loop \in Loop
    BY <2>1 DEF Inv, LoopExists
  <2>3. \A a : At(a) = AtRest => a = "none"
    BY DEF At, AtRest
  <2>4. \A a, r : With(a, r) = AtRest => a = "none"
    BY DEF With, AtRest
  <2>5. \/ loop' = loop \/ loop' = Finished(loop, "failed") \/ IterationSucceeds
    BY <1>2, <2>3, <2>4 DEF LoopStep, SaveThrows, IterationSaved, CreateAgent, CreateAgentThrows,
       RunAgent, VerifierRetries, RunEnds, RunSaved, WorkerClosed, CommandEnds, CommandSaved,
       VerifierClosed, EndSaved, SleepSaved, SleepEnds, OverSaved, Verifies, NextCommand,
       NextIteration, IterationFails, Goes, Saves, Throws, Returns
  <2>6. loop' \in Loop
    BY <2>2, <2>5, Records, IterationSucceedsAdvances DEF Over, Advances
  <2>. QED  BY <1>0, <2>6
<1>. QED  BY <1>1, <1>2

LEMMA LoopStepKeepsRetries ==
    ASSUME Inv, AbortedFits, LoopStep
    PROVE  retries' # 0 => pc' = With("run", "verifier")
<1>r. retries \in 0..MaxRetries /\ (retries # 0 => pc = With("run", "verifier"))
  BY DEF Inv, Types, AbortedFits
<1>w. /\ \A a \in Plain : pc.at = a => retries = 0
      /\ \A a \in OfAgent : pc.at = a /\ a # "run" => retries = 0
      /\ pc.role # "verifier" => retries = 0
  BY <1>r DEF With, Plain, OfAgent
<1>1. CASE SaveThrows
  <2>1. pc.at \in Saving
    BY <1>1 DEF SaveThrows, AbortedFits, Threw
  <2>. QED  BY <1>1, <2>1, <1>w DEF SaveThrows, Saving, Plain, OfAgent
<1>2. CASE RunAgent
  <2>1. pc \in Places /\ pc.at = "saveAgent" /\ pc' = With("run", pc.role)
    BY <1>2 DEF RunAgent, Saved, Goes, Inv, Types
  <2>. QED  BY <1>2, <2>1 DEF RunAgent
<1>3. CASE VerifierRetries
  BY <1>3, <1>r DEF VerifierRetries
<1>4. CASE RunEnds
  BY <1>4 DEF RunEnds
<1>5. CASE IterationSaved \/ CreateAgent \/ CreateAgentThrows \/ RunSaved \/ WorkerClosed
           \/ CommandEnds \/ CommandSaved \/ VerifierClosed \/ EndSaved \/ SleepSaved
           \/ SleepEnds \/ OverSaved
  <2>1. pc.at \in Plain \cup OfAgent /\ pc.at # "run" /\ retries' = retries
    BY <1>5 DEF IterationSaved, CreateAgent, CreateAgentThrows, RunSaved, WorkerClosed,
       CommandEnds, CommandSaved, VerifierClosed, EndSaved, SleepSaved, SleepEnds, OverSaved,
       Saved, Reaches, Plain, OfAgent
  <2>. QED  BY <2>1, <1>w
<1>. QED  BY <1>1, <1>2, <1>3, <1>4, <1>5 DEF LoopStep

LEMMA LoopStepTakesRejection ==
    ASSUME Inv, AbortedFits, LoopStep
    PROVE  "loop" \notin rejected'
<1>1. CASE SaveThrows
  BY <1>1 DEF SaveThrows
<1>2. CASE IterationSaved \/ RunAgent \/ RunSaved \/ CommandSaved \/ EndSaved \/ SleepSaved
           \/ OverSaved
  BY <1>2 DEF IterationSaved, RunAgent, RunSaved, CommandSaved, EndSaved, SleepSaved, OverSaved,
     Saved, Persisted
<1>3. CASE CreateAgent \/ CreateAgentThrows \/ VerifierRetries \/ RunEnds \/ WorkerClosed
           \/ CommandEnds \/ VerifierClosed \/ SleepEnds
  BY <1>3 DEF CreateAgent, CreateAgentThrows, VerifierRetries, RunEnds, WorkerClosed, CommandEnds,
     VerifierClosed, SleepEnds, Reaches, AbortedFits, Saving
<1>. QED  BY <1>1, <1>2, <1>3 DEF LoopStep

\* A write that is rejected was waited for.
LEMMA OthersKeepRejection ==
    ASSUME Inv, AbortedFits, [Next]_vars, ~LoopStep
    PROVE  "loop" \in rejected' => pc'.at \in Saving
<1>1. CASE WriteFails
  <2>1. Head(queue) = "loop" => Waiting("loop")
    BY <1>1, HeadTailProperties, LenProperties, EmptySeq DEF WriteFails, Inv, Types, Waiting, Range
  <2>. QED  BY <1>1, <2>1 DEF WriteFails, Down, execution, AbortedFits, Inv, WritersWait
<1>2. CASE RunLoopContinues
  <2>1. run /\ pc = AtRest /\ UNCHANGED rejected
    BY <1>2 DEF RunLoopContinues, Inv, LoopExists
  <2>. QED  BY <2>1 DEF AbortedFits, AtRest, Saving
<1>3. CASE ~WriteFails /\ ~RunLoopContinues
  BY <1>3 DEF Next, Initialize, RunLoop, RunStep, RunLoopThrows, AgentStreams, StopLoop, StopStep,
       StopSaved, CancelReturns, StopReturns, StopAlone, StopMarked, StopThrows, File,
       WriteStarts, WriteEnds, Crash, Down, Executing, store, execution, vars, AbortedFits
<1>. QED  BY <1>1, <1>2, <1>3

LEMMA AbortedFitsStep ==
    ASSUME Inv, AbortedFits, [Next]_vars
    PROVE  AbortedFits'
<1>0. /\ None \notin Loop /\ (up \/ (loop = None /\ stop = Idle /\ ~run))
      /\ (stop.at # "idle" => loop \in Loop)
      /\ (run => pc = AtRest) /\ handle = (pc # AtRest)
      /\ (run \/ pc # AtRest => loop \in Loop)
      /\ (retries # 0 => pc = With("run", "verifier"))
      /\ (aborted \/ stop.found => loop # None /\ ~run)
  BY NoneAssumption DEF Inv, DownRests, LoopExists, Types, AbortedFits
<1>1. CASE LoopStep
  <2>1. UNCHANGED <<aborted, stop, run>>
    BY <1>1 DEF LoopStep, SaveThrows, IterationSaved, CreateAgent, CreateAgentThrows, RunAgent,
       VerifierRetries, RunEnds, RunSaved, WorkerClosed, CommandEnds, CommandSaved,
       VerifierClosed, EndSaved, SleepSaved, SleepEnds, OverSaved, Saved, Reaches, Own
  <2>. QED  BY <1>1, <2>1, LoopStepLeavesLoop, LoopStepKeepsRetries,
            LoopStepTakesRejection DEF AbortedFits
<1>2. CASE RunLoopContinues
  <2>1. /\ run /\ ~run' /\ UNCHANGED <<aborted, stop, retries>>
    BY <1>2 DEF RunLoopContinues
  <2>2. retries = 0
    BY <1>0, <2>1 DEF AtRest, With
  <2>3. "loop" \in rejected' => pc'.at \in Saving
    BY <1>0, <1>2, <2>1 DEF RunLoopContinues, AtRest, AbortedFits, Saving
  <2>. QED  BY <1>0, <2>1, <2>2, <2>3 DEF AbortedFits
<1>3. CASE ~LoopStep /\ ~RunLoopContinues
  <2>1. retries' # 0 => pc' = With("run", "verifier")
    BY <1>0, <1>3, OtherSteps
  <2>2. aborted' \/ stop'.found => loop' # None /\ ~run'
    <3>1. CASE Crash \/ WriteFails
      BY <3>1, <1>0 DEF Crash, WriteFails, Down, Idle
    <3>2. CASE RunLoop
      BY <3>2, <1>0 DEF RunLoop
    <3>3. CASE Initialize
      BY <3>3, <1>0 DEF Initialize, Idle
    <3>4. CASE StopLoop
      <4>1. stop' = [at |-> "saving", found |-> handle] /\ loop # None /\ UNCHANGED <<loop, run, pc, aborted>>
        BY <3>4 DEF StopLoop, Executing
      <4>2. stop'.found = handle
        BY <4>1
      <4>. QED  BY <4>1, <4>2, <1>0
    <3>5. CASE StopSaved
      BY <3>5, <1>0 DEF StopSaved, Executing
    <3>6. CASE CancelReturns
      <4>1. stop' = [stop EXCEPT !.at = "waiting"] /\ UNCHANGED <<loop, run, aborted>>
        BY <3>6 DEF CancelReturns, Executing
      <4>2. stop'.found = stop.found
        BY <4>1 DEF Inv, Types
      <4>. QED  BY <4>1, <4>2, <1>0
    <3>7. CASE StopReturns \/ StopMarked \/ StopThrows
      BY <3>7, <1>0 DEF StopReturns, StopMarked, StopThrows, Executing, Idle
    <3>8. CASE StopAlone
      <4>1. /\ stop' = [stop EXCEPT !.at = "marked"] /\ loop' = [loop EXCEPT !.status = "stopped"]
            /\ UNCHANGED <<run, aborted>> /\ loop \in Loop
        BY <3>8, <1>0 DEF StopAlone, Executing
      <4>2. stop'.found = stop.found
        BY <4>1 DEF Inv, Types
      <4>3. loop' \in Loop
        BY <4>1 DEF Loop, Statuses, Over
      <4>. QED  BY <4>1, <4>2, <4>3, <1>0
    <3>9. CASE RunLoopThrows \/ AgentStreams \/ File \/ UNCHANGED vars
      BY <3>9, <1>0 DEF RunLoopThrows, AgentStreams, File, WriteStarts, WriteEnds, vars
    <3>. QED  BY <1>3, <3>1, <3>2, <3>3, <3>4, <3>5, <3>6, <3>7, <3>8, <3>9
              DEF Next, RunStep, StopStep
  <2>. QED  BY <1>3, <2>1, <2>2, OthersKeepRejection DEF AbortedFits
<1>. QED  BY <1>1, <1>2, <1>3

\* Every step of executeLoop after a stop has aborted it brings it nearer its
\* end, through commands, canceled agents, prompts that are repeated and
\* writes that fail, for any number of prompts and failures: stopLoop does not
\* wait for a loop that goes on (loop-service.ts: stopLoop, executeLoop).
THEOREM AbortedLoopsCountDownHolds == Spec => AbortedLoopsCountDown
<1>1. Init => AbortedFits
  BY DEF Init, AbortedFits, Idle
<1>2. Inv /\ AbortedFits /\ [Next]_vars => AbortedFits'
  BY AbortedFitsStep
<1>3. Inv /\ AbortedFits /\ [Next]_vars
      => [aborted /\ <<pc, retries>>' # <<pc, retries>> => StepsLeft' < StepsLeft]_vars
  <2> SUFFICES ASSUME Inv, AbortedFits, [Next]_vars, aborted, <<pc, retries>>' # <<pc, retries>>
               PROVE  StepsLeft' < StepsLeft
    OBVIOUS
  <2>1. CASE LoopStep
    BY <2>1, LoopStepCountsDown
  <2>2. CASE RunLoopContinues
    BY <2>2 DEF AbortedFits, RunLoopContinues
  <2>3. CASE ~LoopStep /\ ~RunLoopContinues
    <3>1. pc' = AtRest /\ retries' = 0
      BY <2>3, OtherSteps
    <3>2. pc # AtRest
      BY <3>1 DEF AbortedFits, AtRest, With
    <3>3. StepsFrom(pc, retries) > 0 /\ StepsFrom(AtRest, 0) = 0
      BY <3>2, StepsFromBounds, StepsFromPlaces, ConstantsAssumption DEF Inv, Types
    <3>4. StepsFrom(pc', retries') = 0
      BY <3>1, <3>3
    <3>. QED  BY <3>3, <3>4 DEF StepsLeft
  <2>. QED  BY <2>1, <2>2, <2>3
<1>4. Spec => []AbortedFits
  BY <1>1, <1>2, InvHolds, PTL DEF Spec
<1>. QED  BY <1>3, <1>4, InvHolds, PTL DEF Spec, AbortedLoopsCountDown
=============================================================================
