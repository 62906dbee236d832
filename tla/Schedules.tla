----------------------------- MODULE Schedules -----------------------------
(***************************************************************************)
(* ScheduleService and ScheduleStore (packages/server/src/server/schedule  *)
(* /service.ts, store.ts): ticks, client requests and recovery at startup  *)
(* read and rewrite one JSON file per schedule.                            *)
(*                                                                         *)
(* setInterval starts a tick every second whether or not the last one has  *)
(* returned, so several ticks are under way while runs last; each works    *)
(* through the records it listed when it began.  Nothing locks a file:     *)
(* between the read and the write of one actor all others may run.  The    *)
(* process may be killed at any point and started again.                   *)
(*                                                                         *)
(* writeFile truncates the file when it opens it and writes it later, so a *)
(* reader, a crash or another writer can come in between (SplitWrites).    *)
(* Names, prompts, targets, outputs and time stamps nobody compares are    *)
(* left out; the clock counts multiples of the cadence's resolution.       *)
(*                                                                         *)
(* Of the execution history of a record the model keeps what the code asks *)
(* of it: how many runs have ended, which tick's run is the one in         *)
(* progress, and whether one, or more, still say "running" although        *)
(* nobody is left to end them ("lost").  Counts saturate where nothing     *)
(* tells larger values apart, so histories are unbounded.                  *)
(***************************************************************************)
EXTENDS Integers

CONSTANTS
    Ids,         \* schedule ids, in the order of createdAt
    Ticks,       \* tick() invocations that may be under way at once
    Requests,    \* client requests that may be under way at once
    Boot,        \* the recovery pass of start()
    Ops,         \* the client requests this instance exercises
    Every,       \* the cadence: an occurrence every so many units
    MaxRuns,     \* maxRuns of the schedules, or None
    ExpiresAt,   \* expiresAt of the schedules, or None
    LastAt,      \* the occurrence after which a cron has none for over a year, or None
    MaxClock,    \* bound on the clock
    SplitWrites, \* whether opening and writing a file are separate steps
    Faults,      \* whether a write may fail
    Crashes,     \* whether the process may be killed
    None,        \* null
    Absent,      \* no such file
    Empty,       \* a file that was truncated and not written yet
    Corrupt      \* a file whose content no longer parses

Actors  == Ticks \cup Requests \cup {Boot}
Markers == {None, Absent, Empty, Corrupt}

ASSUME IdsAssumption     == Ids \subseteq Nat
ASSUME ActorsAssumption  == /\ Ticks \cap Requests = {}
                            /\ Boot \notin Ticks \cup Requests
                            /\ None \notin Ids \cup Ticks
ASSUME OpsAssumption     == Ops \subseteq {"create", "pause", "resume", "delete"}
ASSUME CadenceAssumption == Every \in Nat \ {0}
ASSUME LimitsAssumption  == /\ MaxRuns \in (Nat \ {0}) \cup {None}
                            /\ {ExpiresAt, LastAt} \subseteq Nat \cup {None}
                            /\ MaxClock \in Nat
                            /\ None \notin Nat
ASSUME SwitchAssumption  == {SplitWrites, Faults, Crashes} \subseteq BOOLEAN

VARIABLES
    file,     \* file[i]: schedules/<i>.json: a record, Absent, Empty or Corrupt
    claimed,  \* runningScheduleIds
    job,      \* job[a]: where actor a stands
    daemon,   \* "down", "recovering" or "up"
    boot,     \* the time recoverInterruptedRuns took when the process started
    clock,    \* now()
    invoked   \* history: runs of i started since i was created, up to Cap + 1

vars == <<file, claimed, job, daemon, boot, clock, invoked>>

(* Nothing asks whether more than maxRuns runs have ended.                 *)
Cap == IF MaxRuns = None THEN 0 ELSE MaxRuns

(* StoredSchedule: next is nextRunAt; ended, by and lost stand for runs:   *)
(* lost = 2 means two or more.                                             *)
Schedules == [status : {"active", "paused", "completed"},
              next : Nat \cup {None}, ended : 0..Cap,
              by : Ticks \cup {None}, lost : 0..2]

ASSUME MarkersAssumption == \A m \in Markers : m \notin Schedules

(* at: the await an actor is suspended at ("looping": tick has records of  *)
(* its list left); io: how far its writeFile of put to file id has come;   *)
(* todo: listed records it has yet to look at; now: the time its tick or   *)
(* recovery took; outcome: what finishRun is called with.                  *)
TickStages == {"listing", "looping", "completing", "starting", "running",
               "finishing", "recording", "recorded"}
Stages == TickStages \cup {"out", "saving", "recovering"}
Jobs == [at : Stages, io : {"none", "asked", "open", "unlinked"},
         id : Ids \cup {None}, put : Schedules \cup {None},
         todo : [Ids -> Schedules \cup {None}], now : Nat,
         outcome : {"succeeded", "failed"}]

RunStages == {"starting", "running", "finishing", "recording", "recorded"}
PutStages == {"completing", "starting", "recording", "saving", "recovering"}

\* Shapes of the variables: an actor inside a run has the id of a schedule,
\* one that is writing has a record to write.
TypeOK ==
    /\ file \in [Ids -> Schedules \cup {Absent, Empty, Corrupt}]
    /\ claimed \subseteq Ids
    /\ job \in [Actors -> Jobs]
    /\ \A a \in Actors :
         /\ job[a].at \in RunStages => job[a].id \in Ids
         /\ job[a].io # "none" => /\ job[a].id \in Ids
                                  /\ job[a].put \in Schedules
                                  /\ job[a].at \in PutStages
    /\ daemon \in {"down", "recovering", "up"}
    /\ boot \in Nat
    /\ clock \in Nat
    /\ invoked \in [Ids -> 0..(Cap + 1)]

-----------------------------------------------------------------------------
(* Records.                                                                *)

Readable(i) == file[i] \notin {Absent, Empty, Corrupt}

(* list() rejects when any file does not parse.                            *)
Listable == \A i \in Ids : file[i] \notin {Empty, Corrupt}

Listed == [i \in Ids |-> IF Readable(i) THEN file[i] ELSE None]

(* computeNextRunAt and the loops around it: the first occurrence of the   *)
(* cadence counted from after that is later than now.                      *)
NextRunAfter(after, now) ==
    IF now < after THEN after + Every
    ELSE after + Every * (((now - after) \div Every) + 1)

(* computeNextRunAt looks no further than 366 days and throws (cron.ts:148) *)
(* when a cron expression has no occurrence in them, as 29 February has    *)
(* none after one.                                                         *)
NoNextRun(after, now) == LastAt # None /\ NextRunAfter(after, now) > LastAt

ShouldComplete(s, now) ==
    \/ ExpiresAt # None /\ ExpiresAt <= now
    \/ MaxRuns # None /\ s.ended >= MaxRuns

CompleteSchedule(s) == [s EXCEPT !.status = "completed", !.next = None]

NewSchedule(now) == [status |-> "active", next |-> now + Every,
                     ended |-> 0, by |-> None, lost |-> 0]

UpTo(limit, n) == IF n > limit THEN limit ELSE n

WithRun(s, t) == [s EXCEPT !.by = t]

(* What finishRun makes of the record it has just read: the run it looks   *)
(* for may not be there any more.                                          *)
EndRun(s, t) ==
    IF s.by = t THEN [s EXCEPT !.by = None, !.ended = UpTo(Cap, @ + 1)] ELSE s

(* The run of a tick in T is over: copies that still say "running" will    *)
(* say so until a recovery.                                                *)
Lose(s, T) ==
    IF s \notin Markers /\ s.by \in T
    THEN [s EXCEPT !.by = None, !.lost = UpTo(2, @ + 1)] ELSE s

(* Mutant: a finished run re-arms its schedule, paused or not.             *)
RearmPaused(s, now) ==
    IF ShouldComplete(s, now) THEN CompleteSchedule(s)
    ELSE [s EXCEPT !.next = NextRunAfter(IF s.next = None THEN now ELSE s.next, now)]

After(s, now) == IF s.next = None THEN now ELSE s.next

Rearm(s, now) ==
    CASE ShouldComplete(s, now) -> CompleteSchedule(s)
      [] ~ShouldComplete(s, now) /\ s.status = "paused" -> [s EXCEPT !.next = None]
      [] OTHER -> [s EXCEPT !.next = NextRunAfter(After(s, now), now)]

RearmThrows(s, now) ==
    /\ ~ShouldComplete(s, now)
    /\ s.status # "paused"
    /\ NoNextRun(After(s, now), now)

Stale(s, now) == s.status = "active" /\ s.next # None /\ s.next <= now

(* What recoverInterruptedRuns may make of a record: the FIRST running run *)
(* has failed (of two or more, one or more remain), and an active schedule *)
(* has no occurrence in the past.                                          *)
(* Mutant: recovery leaves the timetable alone.                            *)
RecoveredInPlace(s, now) ==
    {[s EXCEPT !.ended = IF s.lost = 0 THEN @ ELSE UpTo(Cap, @ + 1), !.lost = 0]}

Recovered(s, now) ==
    {[s EXCEPT !.ended = IF s.lost = 0 THEN @ ELSE UpTo(Cap, @ + 1),
               !.lost = n,
               !.next = IF Stale(s, now)
                        THEN NextRunAfter(s.next, now) ELSE s.next] :
       n \in CASE s.lost = 0 -> {0} [] s.lost = 1 -> {0} [] s.lost = 2 -> {1, 2}}

-----------------------------------------------------------------------------
(* ScheduleStore.                                                          *)

Idle == [at |-> "out", io |-> "none", id |-> None, put |-> None,
         todo |-> [i \in Ids |-> None], now |-> 0,
         outcome |-> "failed"]

(* Job j calls put(s) for schedule i and awaits it at stage.               *)
Putting(j, stage, i, s) ==
    [j EXCEPT !.at = stage, !.io = "asked", !.id = i, !.put = s]

(* Mutant: runSchedule does not await the put of the running run.          *)
AfterPutUnawaited(j) ==
    IF j.at = "starting" THEN [j EXCEPT !.at = "running"] ELSE Idle

(* Where an actor goes on once its put has resolved.                       *)
AfterPut(j) ==
    CASE j.at = "starting"  -> [j EXCEPT !.at = "running", !.io = "none", !.put = None]
      [] j.at = "recording" -> [j EXCEPT !.at = "recorded", !.io = "none", !.put = None]
      [] j.at = "completing" -> [j EXCEPT !.at = "looping", !.io = "none",
                                          !.id = None, !.put = None]
      [] j.at = "recovering" -> [j EXCEPT !.io = "none", !.id = None, !.put = None]
      [] OTHER -> Idle

(* open(path, "w"): the file is there and empty from now on.               *)
FileOpened(a) ==
    /\ SplitWrites
    /\ job[a].io = "asked"
    /\ file' = [file EXCEPT ![job[a].id] = Empty]
    /\ job' = [job EXCEPT ![a].io = "open"]
    /\ UNCHANGED <<claimed, daemon, boot, clock, invoked>>

(* The content arrives.  Into a file somebody else has written since it    *)
(* was opened it goes on top: a longer old content leaves a tail behind.   *)
(* A file that was deleted since it was opened stays deleted.              *)
Overwrites(a, f) ==
    LET j == job[a] IN
    \/ j.io = "unlinked" /\ f = file[j.id]
    \/ j.io # "unlinked" /\ f = j.put
    \/ j.io = "open" /\ file[j.id] # Empty /\ f = Corrupt

FileWritten(a) ==
    /\ job[a].io \in (IF SplitWrites THEN {"open", "unlinked"} ELSE {"asked"})
    /\ \E f \in {job[a].put, file[job[a].id], Corrupt} :
         /\ Overwrites(a, f)
         /\ file' = [file EXCEPT ![job[a].id] = f]
    /\ invoked' = IF job[a].at = "starting"
                  THEN [invoked EXCEPT ![job[a].id] = UpTo(Cap + 1, @ + 1)]
                  ELSE invoked
    /\ job' = [job EXCEPT ![a] = AfterPut(job[a])]
    /\ UNCHANGED <<claimed, daemon, boot, clock>>

(* The runs of the ticks in T are over; tick t goes on as jt.              *)
Losing(j, T) ==
    [j EXCEPT !.put = Lose(@, T), !.todo = [i \in Ids |-> Lose(@[i], T)]]

RunsOver(T, t, jt) ==
    /\ file' = [i \in Ids |-> Lose(file[i], T)]
    /\ job' = [[a \in Actors |-> Losing(job[a], T)] EXCEPT ![t] = jt]

(* Mutant: no finally, the claim survives a finishRun that throws.         *)
FinishThrowsClaimed(t) ==
    /\ RunsOver({t}, t, Idle)
    /\ UNCHANGED claimed

(* finishRun throws: in the try block it is called again with "failed";    *)
(* in the catch block the finally runs and the tick rejects.               *)
FinishThrows(t) ==
    \/ /\ job[t].outcome = "succeeded"
       /\ job' = [job EXCEPT ![t].at = "finishing", ![t].outcome = "failed",
                             ![t].io = "none", ![t].put = None]
       /\ UNCHANGED <<file, claimed>>
    \/ /\ job[t].outcome = "failed"
       /\ RunsOver({t}, t, Idle)
       /\ claimed' = claimed \ {job[t].id}

(* The disk refuses.  The put of a starting run is outside the try block,  *)
(* so the claim on its schedule is kept.                                   *)
PutFails(a) ==
    /\ Faults
    /\ job[a].io \in {"asked", "open", "unlinked"}
    /\ \/ job[a].at = "recording" /\ FinishThrows(a) /\ UNCHANGED daemon
       \/ /\ job[a].at \in {"starting", "completing", "saving"}
          /\ job' = [job EXCEPT ![a] = Idle]
          /\ UNCHANGED <<file, claimed, daemon>>
       \/ /\ job[a].at = "recovering"
          /\ job' = [job EXCEPT ![a] = Idle]
          /\ daemon' = "down"
          /\ UNCHANGED <<file, claimed>>
    /\ UNCHANGED <<boot, clock, invoked>>

-----------------------------------------------------------------------------
(* Client requests.                                                        *)

Request(r, op) ==
    /\ op \in Ops
    /\ daemon = "up"
    /\ job[r].at = "out"

Saves(r, i, s) ==
    /\ job' = [job EXCEPT ![r] = Putting(Idle, "saving", i, s)]
    /\ UNCHANGED <<file, claimed, daemon, boot, clock>>

(* Somebody still holds a record of i, listed or about to be written.      *)
Mentioned(i) ==
    \E a \in Actors : job[a].id = i \/ job[a].todo[i] # None

(* A new id: one that is neither on disk nor in memory.                    *)
Create(r, i) ==
    /\ Request(r, "create")
    /\ file[i] = Absent /\ ~Mentioned(i) /\ i \notin claimed
    /\ ~NoNextRun(clock, clock)
    /\ Saves(r, i, NewSchedule(clock))
    /\ invoked' = [invoked EXCEPT ![i] = 0]

(* pause and resume: what they read decides, what they write is what they  *)
(* read with the status changed.  The other cases change nothing.          *)
Pause(r, i) ==
    /\ Request(r, "pause")
    /\ Readable(i)
    /\ file[i].status = "active"
    /\ Saves(r, i, [file[i] EXCEPT !.status = "paused", !.next = None])
    /\ UNCHANGED invoked

Resume(r, i) ==
    /\ Request(r, "resume")
    /\ Readable(i)
    /\ file[i].status = "paused"
    /\ ~NoNextRun(clock, clock)
    /\ Saves(r, i, [file[i] EXCEPT !.status = "active", !.next = clock + Every])
    /\ UNCHANGED invoked

Delete(r, i) ==
    /\ Request(r, "delete")
    /\ file[i] # Absent
    /\ file' = [file EXCEPT ![i] = Absent]
    /\ job' = [a \in Actors |-> IF job[a].id = i /\ job[a].io = "open"
                                THEN [job[a] EXCEPT !.io = "unlinked"] ELSE job[a]]
    /\ UNCHANGED <<claimed, daemon, boot, clock, invoked>>

-----------------------------------------------------------------------------
(* Ticks.                                                                  *)

(* Mutant: no tick starts while another one is under way.                  *)
TickStartsAlone(t) ==
    /\ daemon = "up"
    /\ \A u \in Ticks : job[u].at = "out"
    /\ job' = [job EXCEPT ![t] = [Idle EXCEPT !.at = "listing", !.now = clock]]
    /\ UNCHANGED <<file, claimed, daemon, boot, clock, invoked>>

(* The timer fires: tick takes the time and asks for the files...          *)
TickStarts(t) ==
    /\ daemon = "up"
    /\ job[t].at = "out"
    /\ job' = [job EXCEPT ![t] = [Idle EXCEPT !.at = "listing", !.now = clock]]
    /\ UNCHANGED <<file, claimed, daemon, boot, clock, invoked>>

(* ...and gets them later; when one does not parse the tick is over.       *)
TickLists(t) ==
    /\ job[t].at = "listing"
    /\ job' = [job EXCEPT ![t] = IF Listable
                                 THEN [@ EXCEPT !.at = "looping", !.todo = Listed]
                                 ELSE Idle]
    /\ UNCHANGED <<file, claimed, daemon, boot, clock, invoked>>

IsDue(s, now) ==
    /\ s # None
    /\ s.status = "active"
    /\ s.next # None
    /\ ShouldComplete(s, now) \/ s.next <= now

(* Mutant: tick does not look at runningScheduleIds.                       *)
WantedThoughBusy(t, i, busy) == IsDue(job[t].todo[i], job[t].now)

(* tick does something about the listed record of i.                       *)
Wanted(t, i, busy) == i \notin busy /\ IsDue(job[t].todo[i], job[t].now)

Rest(t, i) == [k \in Ids |-> IF k > i THEN job[t].todo[k] ELSE None]

(* tick runs on to its next await: records nothing is to be done about are *)
(* passed over; a schedule at its end is completed; one that is due is     *)
(* claimed and run.  Coming from a run, its finally releases the claim.    *)
TickGoesOn(t) ==
    LET s     == job[t].todo
        j     == [Idle EXCEPT !.at = "looping", !.now = job[t].now]
        busy  == IF job[t].at = "recorded" THEN claimed \ {job[t].id} ELSE claimed
        ended == IF job[t].at = "recorded" THEN {t} ELSE {}
    IN
    /\ job[t].at \in {"looping", "recorded"}
    /\ \/ /\ \A i \in Ids : ~Wanted(t, i, busy)
          /\ RunsOver(ended, t, Idle)
          /\ claimed' = busy
       \/ \E i \in Ids :
            /\ Wanted(t, i, busy)
            /\ \A k \in Ids : k < i => ~Wanted(t, k, busy)
            /\ \/ /\ ShouldComplete(s[i], job[t].now)
                  /\ RunsOver(ended, t, [Putting(j, "completing", i, CompleteSchedule(s[i]))
                                EXCEPT !.todo = Rest(t, i)])
                  /\ claimed' = busy
               \/ /\ ~ShouldComplete(s[i], job[t].now)
                  /\ RunsOver(ended, t, [Putting(j, "starting", i, WithRun(s[i], t))
                                EXCEPT !.todo = Rest(t, i)])
                  /\ claimed' = busy \cup {i}
    /\ UNCHANGED <<daemon, boot, clock, invoked>>

(* The runner (an agent's turn: external) succeeds or throws.              *)
RunnerEnds(t) ==
    /\ job[t].at = "running"
    /\ \E outcome \in {"succeeded", "failed"} :
         job' = [job EXCEPT ![t].at = "finishing", ![t].outcome = outcome]
    /\ UNCHANGED <<file, claimed, daemon, boot, clock, invoked>>

(* finishRun reads the schedule again and writes the run's end into it.    *)
FinishRun(t) ==
    LET i == job[t].id IN
    /\ job[t].at = "finishing"
    /\ \/ /\ Readable(i)
          /\ ~RearmThrows(EndRun(file[i], t), clock)
          /\ job' = [job EXCEPT ![t] = Putting(@, "recording", i,
                       Rearm(EndRun(file[i], t), clock))]
          /\ UNCHANGED <<file, claimed>>
       \/ /\ Readable(i) => RearmThrows(EndRun(file[i], t), clock)
          /\ FinishThrows(t)
    /\ UNCHANGED <<daemon, boot, clock, invoked>>

-----------------------------------------------------------------------------
(* The process.                                                            *)

(* start(): nothing else runs before recovery is over (bootstrap.ts:516).  *)
(* When a file does not parse, start rejects and the daemon stays down.    *)
Starts ==
    /\ daemon = "down"
    /\ Listable
    /\ daemon' = "recovering"
    /\ boot' = clock
    /\ job' = [job EXCEPT ![Boot] = [Idle EXCEPT !.at = "recovering",
                                       !.todo = Listed, !.now = clock]]
    /\ UNCHANGED <<file, claimed, clock, invoked>>

Dirty(i) == LET s == job[Boot].todo[i] IN
            /\ s # None
            /\ s.lost # 0 \/ Stale(s, job[Boot].now)

(* recoverInterruptedRuns throws, and so does start.                       *)
RecoveryThrows(s, now) == Stale(s, now) /\ NoNextRun(s.next, now)

Recover ==
    /\ daemon = "recovering"
    /\ job[Boot].at = "recovering" /\ job[Boot].io = "none"
    /\ \/ /\ \A i \in Ids : ~Dirty(i)
          /\ job' = [job EXCEPT ![Boot] = Idle]
          /\ daemon' = "up"
       \/ \E i \in Ids :
            /\ Dirty(i)
            /\ \A k \in Ids : k < i => ~Dirty(k)
            /\ \/ /\ RecoveryThrows(job[Boot].todo[i], job[Boot].now)
                  /\ job' = [job EXCEPT ![Boot] = Idle]
                  /\ daemon' = "down"
               \/ /\ ~RecoveryThrows(job[Boot].todo[i], job[Boot].now)
                  /\ \E s \in Recovered(job[Boot].todo[i], job[Boot].now) :
                       job' = [job EXCEPT ![Boot] =
                         [Putting(@, "recovering", i, s) EXCEPT !.todo = Rest(Boot, i)]]
                  /\ UNCHANGED daemon
    /\ UNCHANGED <<file, claimed, boot, clock, invoked>>

(* The process is killed: what was in memory is gone, files stay as they   *)
(* are, truncated ones included.                                           *)
Crash ==
    /\ Crashes
    /\ daemon # "down"
    /\ daemon' = "down"
    /\ job' = [a \in Actors |-> Idle]
    /\ claimed' = {}
    /\ file' = [i \in Ids |-> Lose(file[i], Ticks)]
    /\ UNCHANGED <<boot, clock, invoked>>

ClockAdvances ==
    /\ clock < MaxClock
    /\ clock' = clock + 1
    /\ UNCHANGED <<file, claimed, job, daemon, boot, invoked>>

-----------------------------------------------------------------------------
Init ==
    /\ file = [i \in Ids |-> Absent]
    /\ claimed = {}
    /\ job = [a \in Actors |-> Idle]
    /\ daemon = "down"
    /\ boot = 0
    /\ clock = 0
    /\ invoked = [i \in Ids |-> 0]

Store(a) == FileOpened(a) \/ FileWritten(a)

RequestStep(r) ==
    \E i \in Ids : Create(r, i) \/ Pause(r, i) \/ Resume(r, i) \/ Delete(r, i)

Next ==
    \/ \E a \in Actors : Store(a) \/ PutFails(a)
    \/ \E r \in Requests : RequestStep(r)
    \/ \E t \in Ticks : \/ TickStarts(t) \/ TickLists(t) \/ TickGoesOn(t)
                       \/ RunnerEnds(t) \/ FinishRun(t)
    \/ Starts \/ Recover \/ Crash \/ ClockAdvances

Spec == Init /\ [][Next]_vars

(* The event loop serves what is ready, the disk answers, the timer keeps  *)
(* firing.  Nothing makes a run end: an agent may take for ever.  Clients   *)
(* stop deleting: a deleted schedule is written back by its run, deleted    *)
(* again, and so on.                                                        *)
Fairness ==
    /\ WF_vars(\E t \in Ticks : TickStarts(t))
    /\ \A a \in Actors : WF_vars(Store(a))
    /\ \A t \in Ticks : /\ WF_vars(TickLists(t)) /\ WF_vars(TickGoesOn(t))
                       /\ WF_vars(FinishRun(t))
    /\ WF_vars(Starts) /\ WF_vars(Recover)
    /\ <>[][~\E r \in Requests, i \in Ids : Delete(r, i)]_vars

FairSpec == Spec /\ Fairness

-----------------------------------------------------------------------------
(* Safety.                                                                 *)

InRun(t) == job[t].at \in RunStages

\* Ticks overlap and work from old lists, yet runningScheduleIds (service.ts:
\* 234, 291, 330) keeps them from running one schedule twice at a time, and
\* a schedule that is being run is claimed until its run has been recorded.
OneRunAtATime ==
    \A t \in Ticks : InRun(t) =>
        /\ job[t].id \in claimed
        /\ \A u \in Ticks \ {t} : InRun(u) => job[u].id # job[t].id

\* A claimed schedule is being run: however finishRun fails, the finally of
\* runSchedule (service.ts:329) releases the claim.  Where writes may fail
\* this is not so: the put of line 308 is outside the try block.
ClaimsHaveOwners ==
    \A i \in claimed : \E t \in Ticks : InRun(t) /\ job[t].id = i

\* An occurrence that fell into the time the daemon was down is never made
\* up for: recoverInterruptedRuns (service.ts:270) moves it past the start,
\* and nothing an old list, a resume or a finished run writes brings it back.
MissedOccurrencesAreSkipped ==
    \A t \in Ticks : job[t].at = "starting" => job[t].put.next > boot

\* A stored schedule has a next occurrence exactly while it is active: a run
\* that ends after its schedule was paused, or a recovery, does not re-arm
\* it (service.ts:365), and an active one never drops out of the timetable.
ActiveMeansArmed ==
    \A i \in Ids : Readable(i) => (file[i].status = "active" <=> file[i].next # None)

-----------------------------------------------------------------------------
(* What docs, comments and tests say, and the code does not do.            *)

\* "keeps schedules paused when an in-flight run finishes after pause"
\* (service.test.ts:414): a paused schedule becomes active by a resume only.
PausedStaysPaused ==
    [][\A i \in Ids :
         Readable(i) /\ file[i].status = "paused"
         /\ Readable(i)' /\ file'[i].status = "active"
         => \E r \in Requests : job[r].at = "saving" /\ job[r].id = i
                                /\ job'[r].at = "out"]_vars

\* "Max executions before completing" (docs/DATA_MODEL.md:188).
MaxRunsRespected == MaxRuns # None => \A i \in Ids : invoked[i] <= MaxRuns

\* "Mark any in-flight runs as failed" (service.ts:255): when recovery is
\* over, no stored run is still running.
RecoveryEndsAllRuns ==
    [][daemon = "recovering" /\ daemon' = "up" =>
         \A i \in Ids : Readable(i) => file[i].lost = 0]_vars

-----------------------------------------------------------------------------
(* Liveness.                                                               *)

Due(i) == daemon = "up" /\ Readable(i) /\ IsDue(file[i], clock)

\* A schedule that is due is run (or completed, paused, deleted), although
\* the runs of other schedules may never end: their ticks hang, but the
\* timer goes on firing and every new tick passes over what is claimed.
DueSchedulesRun == \A i \in Ids : Due(i) ~> (i \in claimed \/ ~Due(i))

=============================================================================
