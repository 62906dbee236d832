-------------------------- MODULE SchedulesProofs --------------------------
(* Theorems about Schedules, for any sets of schedules, ticks and requests, *)
(* any cadence and any limits.                                             *)
EXTENDS Schedules, TLAPS

-----------------------------------------------------------------------------
(* The next occurrence.                                                    *)

\* Rounding a time difference up to whole periods oversteps it.
LEMMA WholePeriods ==
    ASSUME NEW n \in Nat, NEW d \in Nat \ {0}
    PROVE  /\ d * ((n \div d) + 1) \in Nat
           /\ d * ((n \div d) + 1) > n
<1>1. /\ n = d * (n \div d) + (n % d)
      /\ n % d \in 0..(d - 1)
      /\ n \div d \in Nat
  OBVIOUS
<1> DEFINE q == n \div d
<1>2. d * (q + 1) = d * q + d
  BY <1>1
<1>3. d * q \in Nat
  BY <1>1
<1>. QED  BY <1>1, <1>2, <1>3

\* The model's next occurrence of an evenly spaced cadence is later than now.
LEMMA NextRunIsLater ==
    ASSUME NEW after \in Nat, NEW now \in Nat
    PROVE  /\ NextRunAfter(after, now) \in Nat
           /\ NextRunAfter(after, now) > now
<1>1. CASE now < after
  BY <1>1, CadenceAssumption DEF NextRunAfter
<1>2. CASE ~(now < after)
  <2>1. now - after \in Nat
    BY <1>2
  <2>2. /\ Every * (((now - after) \div Every) + 1) \in Nat
        /\ Every * (((now - after) \div Every) + 1) > now - after
    BY <2>1, WholePeriods, CadenceAssumption
  <2>. QED  BY <1>2, <2>2 DEF NextRunAfter
<1>. QED  BY <1>1, <1>2

-----------------------------------------------------------------------------
(* Operators on records and jobs.                                          *)

\* Ending counts stay within maxRuns, and every operator on records gives a
\* record.
LEMMA CapIsNat == Cap \in Nat
BY LimitsAssumption DEF Cap

\* Counting up to a limit stays below it and never counts down.
LEMMA UpToType ==
    ASSUME NEW limit \in Nat, NEW n \in 0..limit
    PROVE  /\ UpTo(limit, n + 1) \in 0..limit
           /\ UpTo(limit, n + 1) >= n
BY DEF UpTo

\* So do the ended and the lost runs of a record.
LEMMA CountType ==
    ASSUME NEW s \in Schedules
    PROVE  /\ UpTo(Cap, s.ended + 1) \in 0..Cap
           /\ UpTo(Cap, s.ended + 1) >= s.ended
           /\ UpTo(2, s.lost + 1) \in 0..2
<1>1. s.ended \in 0..Cap /\ s.lost \in 0..2
  BY DEF Schedules
<1>. QED  BY <1>1, CapIsNat, UpToType

\* finishRun writes a well-formed record.
LEMMA EndRunType ==
    ASSUME NEW s \in Schedules, NEW t PROVE EndRun(s, t) \in Schedules
<1>1. UpTo(Cap, s.ended + 1) \in 0..Cap
  BY CountType
<1>. QED  BY <1>1 DEF EndRun, Schedules

\* A record whose running runs were abandoned is still well formed.
LEMMA LoseType ==
    ASSUME NEW s, NEW T
    PROVE  /\ s \in Schedules => Lose(s, T) \in Schedules
           /\ s \in Markers => Lose(s, T) = s
<1>1. ASSUME s \in Schedules PROVE Lose(s, T) \in Schedules
  <2>1. UpTo(2, s.lost + 1) \in 0..2
    BY <1>1, CountType
  <2>. QED  BY <1>1, <2>1 DEF Lose, Schedules
<1>. QED  BY <1>1 DEF Lose

\* The record finishRun rearms or completes is well formed.
LEMMA RearmType ==
    ASSUME NEW s \in Schedules, NEW now \in Nat PROVE Rearm(s, now) \in Schedules
<1> DEFINE after == After(s, now)
<1>1. after \in Nat
  BY DEF Schedules, After
<1>2. NextRunAfter(after, now) \in Nat
  BY <1>1, NextRunIsLater
<1>. HIDE DEF after
<1>3. [s EXCEPT !.next = NextRunAfter(after, now)] \in Schedules
  BY <1>2 DEF Schedules
<1>4. CompleteSchedule(s) \in Schedules /\ [s EXCEPT !.next = None] \in Schedules
  BY DEF CompleteSchedule, Schedules
<1>. QED  BY <1>3, <1>4 DEF Rearm, after

\* Whatever recoverInterruptedRuns writes is well formed.
LEMMA RecoveredType ==
    ASSUME NEW s \in Schedules, NEW now \in Nat PROVE Recovered(s, now) \subseteq Schedules
<1> DEFINE ended == IF s.lost = 0 THEN s.ended ELSE UpTo(Cap, s.ended + 1)
           next  == IF Stale(s, now)
                    THEN NextRunAfter(s.next, now) ELSE s.next
           left  == CASE s.lost = 0 -> {0} [] s.lost = 1 -> {0} [] s.lost = 2 -> {1, 2}
<1>1. ended \in 0..Cap
  <2>1. UpTo(Cap, s.ended + 1) \in 0..Cap
    BY CountType
  <2>. QED  BY <2>1 DEF Schedules
<1>2. next \in Nat \cup {None}
  BY NextRunIsLater DEF Schedules, Stale
<1>3. left \subseteq 0..2
  <2>1. s.lost \in {0, 1, 2}
    BY DEF Schedules
  <2>. QED  BY <2>1
<1>4. Recovered(s, now) = {[s EXCEPT !.ended = ended, !.lost = n, !.next = next] : n \in left}
  BY DEF Recovered
<1>. HIDE DEF ended, next, left
<1>5. \A n \in 0..2 : [s EXCEPT !.ended = ended, !.lost = n, !.next = next] \in Schedules
  BY <1>1, <1>2 DEF Schedules
<1>. QED  BY <1>3, <1>4, <1>5

\* Not doing anything is a job.
LEMMA IdleType == Idle \in Jobs
BY DEF Idle, Jobs, Stages

\* Awaiting a put is a job.
LEMMA PuttingType ==
    ASSUME NEW j \in Jobs, NEW stage \in Stages, NEW i \in Ids, NEW s \in Schedules
    PROVE  Putting(j, stage, i, s) \in Jobs
BY DEF Putting, Jobs

\* What an actor does after its put is a job.
LEMMA AfterPutType ==
    ASSUME NEW j \in Jobs PROVE AfterPut(j) \in Jobs
<1>1. CASE j.at \in {"starting", "recording"}
  <2>1. PICK stage \in {"running", "recorded"} :
            AfterPut(j) = [j EXCEPT !.at = stage, !.io = "none", !.put = None]
    BY <1>1 DEF AfterPut
  <2>2. stage \in Stages
    BY DEF Stages, TickStages
  <2>3. [j EXCEPT !.at = stage, !.io = "none", !.put = None] \in Jobs
    BY <2>2 DEF Jobs
  <2>. QED  BY <2>1, <2>3
<1>2. CASE j.at \in {"completing", "recovering"}
  <2>1. PICK stage \in {"looping", "recovering"} :
            AfterPut(j) = [j EXCEPT !.at = stage, !.io = "none", !.id = None, !.put = None]
    BY <1>2 DEF AfterPut, Jobs
  <2>2. stage \in Stages
    BY DEF Stages, TickStages
  <2>3. [j EXCEPT !.at = stage, !.io = "none", !.id = None, !.put = None] \in Jobs
    BY <2>2 DEF Jobs
  <2>. QED  BY <2>1, <2>3
<1>3. CASE j.at \notin {"starting", "recording", "completing", "recovering"}
  BY <1>3, IdleType DEF AfterPut
<1>. QED  BY <1>1, <1>2, <1>3

\* Abandoning runs leaves jobs in the records they hold.
LEMMA LosingType ==
    ASSUME NEW j \in Jobs, NEW T PROVE Losing(j, T) \in Jobs
<1>1. Lose(j.put, T) \in Schedules \cup {None}
  BY LoseType DEF Jobs, Markers
<1>2. [i \in Ids |-> Lose(j.todo[i], T)] \in [Ids -> Schedules \cup {None}]
  BY LoseType DEF Jobs, Markers
<1>. QED  BY <1>1, <1>2 DEF Losing, Jobs

-----------------------------------------------------------------------------
(* Type correctness.                                                       *)

\* What TypeOK says of one job.
JobOK(j) ==
    /\ j \in Jobs
    /\ j.at \in RunStages => j.id \in Ids
    /\ j.io # "none" => j.id \in Ids /\ j.put \in Schedules /\ j.at \in PutStages

Records == Schedules \cup {Absent, Empty, Corrupt}

\* TypeOK, with what it says of each job taken together.
LEMMA JobsOfTypeOK ==
    TypeOK <=> /\ file \in [Ids -> Records]
               /\ claimed \subseteq Ids
               /\ job \in [Actors -> Jobs] /\ \A a \in Actors : JobOK(job[a])
               /\ daemon \in {"down", "recovering", "up"}
               /\ boot \in Nat /\ clock \in Nat
               /\ invoked \in [Ids -> 0..(Cap + 1)]
BY DEF TypeOK, JobOK, Records

\* An idle job is well formed.
LEMMA IdleOK == JobOK(Idle)
BY IdleType DEF JobOK, Idle, RunStages

\* A put of a well-formed record is a well-formed job.
LEMMA PuttingOK ==
    ASSUME NEW j \in Jobs, NEW stage \in PutStages, NEW i \in Ids, NEW s \in Schedules
    PROVE  JobOK(Putting(j, stage, i, s))
<1>1. stage \in Stages
  BY DEF PutStages, Stages, TickStages
<1>2. Putting(j, stage, i, s) \in Jobs
  BY <1>1, PuttingType
<1>. QED  BY <1>2 DEF JobOK, Putting, Jobs

\* What follows a well-formed put is well formed.
LEMMA AfterPutOK ==
    ASSUME NEW j, JobOK(j) PROVE JobOK(AfterPut(j))
<1>1. j \in Jobs /\ AfterPut(j) \in Jobs
  BY AfterPutType DEF JobOK
<1>2. AfterPut(j).at \in RunStages => AfterPut(j).id \in Ids
  BY <1>1 DEF JobOK, AfterPut, Jobs, RunStages, Idle
<1>3. AfterPut(j).io = "none"
  BY <1>1 DEF AfterPut, Jobs, Idle
<1>. QED  BY <1>1, <1>2, <1>3 DEF JobOK

\* Abandoning runs leaves jobs well formed.
LEMMA LosingOK ==
    ASSUME NEW j, JobOK(j), NEW T PROVE JobOK(Losing(j, T))
<1>1. j \in Jobs /\ Losing(j, T) \in Jobs
  BY LosingType DEF JobOK
<1>2. /\ Losing(j, T).at = j.at /\ Losing(j, T).id = j.id /\ Losing(j, T).io = j.io
      /\ Losing(j, T).put = Lose(j.put, T)
  BY <1>1 DEF Losing, Jobs
<1>3. j.put \in Schedules => Lose(j.put, T) \in Schedules
  BY LoseType
<1>. QED  BY <1>1, <1>2, <1>3 DEF JobOK

\* A step that replaces one job by a well-formed one keeps all well formed.
LEMMA OneJobOK ==
    ASSUME TypeOK, NEW a \in Actors, NEW j, JobOK(j), job' = [job EXCEPT ![a] = j]
    PROVE  job' \in [Actors -> Jobs] /\ \A b \in Actors : JobOK(job'[b])
BY JobsOfTypeOK DEF JobOK

\* The end of runs keeps files and jobs well formed.
LEMMA RunsOverOK ==
    ASSUME TypeOK, NEW T, NEW t \in Actors, NEW jt, JobOK(jt), RunsOver(T, t, jt)
    PROVE  /\ file' \in [Ids -> Records]
           /\ job' \in [Actors -> Jobs] /\ \A b \in Actors : JobOK(job'[b])
<1>1. file' \in [Ids -> Records]
  <2>1. \A i \in Ids : Lose(file[i], T) \in Records
    BY JobsOfTypeOK, LoseType DEF Records, Markers
  <2>. QED  BY <2>1 DEF RunsOver
<1>2. \A b \in Actors : JobOK(Losing(job[b], T))
  BY JobsOfTypeOK, LosingOK
<1>3. \A b \in Actors : job'[b] = IF b = t THEN jt ELSE Losing(job[b], T)
  BY DEF RunsOver
<1>4. DOMAIN job' = Actors /\ job' = [b \in Actors |-> job'[b]]
  BY DEF RunsOver
<1>. QED  BY <1>1, <1>2, <1>3, <1>4 DEF JobOK

\* A throwing finishRun keeps files, claims and jobs well formed.
LEMMA FinishThrowsOK ==
    ASSUME TypeOK, NEW t \in Actors, job[t].at \in RunStages, FinishThrows(t)
    PROVE  /\ file' \in [Ids -> Records]
           /\ claimed' \subseteq Ids
           /\ job' \in [Actors -> Jobs] /\ \A b \in Actors : JobOK(job'[b])
<1>0. JobOK(job[t])
  BY JobsOfTypeOK
<1>1. CASE job[t].outcome = "succeeded" /\ UNCHANGED <<file, claimed>>
           /\ job' = [job EXCEPT ![t].at = "finishing", ![t].outcome = "failed",
                                 ![t].io = "none", ![t].put = None]
  <2> DEFINE j == [job[t] EXCEPT !.at = "finishing", !.outcome = "failed",
                                 !.io = "none", !.put = None]
  <2>1. job' = [job EXCEPT ![t] = j]
    BY <1>1, <1>0, JobsOfTypeOK
  <2>2. JobOK(j)
    BY <1>0 DEF JobOK, Jobs, Stages, TickStages
  <2>. HIDE DEF j
  <2>. QED  BY <1>0, <1>1, <2>1, <2>2, OneJobOK, JobsOfTypeOK
<1>2. CASE RunsOver({t}, t, Idle) /\ claimed' = claimed \ {job[t].id}
  BY <1>0, <1>2, RunsOverOK, IdleOK, JobsOfTypeOK
<1>. QED  BY <1>1, <1>2 DEF FinishThrows

\* What get and list read from files are records.
LEMMA ReadableIsRecord ==
    ASSUME TypeOK
    PROVE  /\ \A i \in Ids : Readable(i) => file[i] \in Schedules
           /\ Listed \in [Ids -> Schedules \cup {None}]
BY JobsOfTypeOK DEF Readable, Listed, Records

\* The put a request awaits is a well-formed job.
LEMMA SavesOK ==
    ASSUME TypeOK, NEW r \in Requests, NEW i \in Ids, NEW s \in Schedules, Saves(r, i, s)
    PROVE  /\ UNCHANGED <<file, claimed, daemon, boot, clock>>
           /\ job' \in [Actors -> Jobs] /\ \A b \in Actors : JobOK(job'[b])
<1>1. r \in Actors
  BY DEF Actors
<1>2. JobOK(Putting(Idle, "saving", i, s))
  BY IdleType, PuttingOK DEF PutStages
<1>. QED  BY <1>1, <1>2, OneJobOK DEF Saves

\* A listed record and a free slot make a well-formed listing job.
LEMMA ListingOK ==
    ASSUME NEW todo \in [Ids -> Schedules \cup {None}], NEW now \in Nat
    PROVE  JobOK([Idle EXCEPT !.at = "recovering", !.todo = todo, !.now = now])
BY IdleType DEF JobOK, Jobs, Idle, Stages, TickStages, RunStages

\* tick takes the time, and later gets its list.
LEMMA TickListsOK ==
    ASSUME NEW now \in Nat, NEW todo \in [Ids -> Schedules \cup {None}], NEW j \in Jobs, JobOK(j)
    PROVE  /\ JobOK([Idle EXCEPT !.at = "listing", !.now = now])
           /\ j.at = "listing" => JobOK([j EXCEPT !.at = "looping", !.todo = todo])
<1>1. JobOK([Idle EXCEPT !.at = "listing", !.now = now])
  BY IdleType DEF JobOK, Jobs, Idle, Stages, TickStages, RunStages
<1>2. ASSUME j.at = "listing" PROVE JobOK([j EXCEPT !.at = "looping", !.todo = todo])
  BY <1>2 DEF JobOK, Jobs, Stages, TickStages, RunStages, PutStages
<1>. QED  BY <1>1, <1>2

\* tick and recovery put a record and keep the rest of their list.
LEMMA PutAndRestOK ==
    ASSUME TypeOK, NEW a \in Actors, NEW j \in Jobs, NEW stage \in PutStages,
           NEW i \in Ids, NEW s \in Schedules
    PROVE  JobOK([Putting(j, stage, i, s) EXCEPT !.todo = Rest(a, i)])
<1>1. job[a].todo \in [Ids -> Schedules \cup {None}]
  BY JobsOfTypeOK DEF JobOK, Jobs
<1>2. Rest(a, i) \in [Ids -> Schedules \cup {None}]
  BY <1>1 DEF Rest
<1>3. JobOK(Putting(j, stage, i, s)) /\ Putting(j, stage, i, s) \in Jobs
  BY PuttingOK DEF JobOK
<1> DEFINE k == Putting(j, stage, i, s)
<1>. HIDE DEF k
<1>4. k \in Jobs /\ JobOK(k)
  BY <1>3 DEF k
<1>5. JobOK([k EXCEPT !.todo = Rest(a, i)])
  BY <1>2, <1>4 DEF JobOK, Jobs
<1>. QED  BY <1>5 DEF k

\* The empty home directory has the shapes of the variables.
LEMMA InitTypeOK == Init => TypeOK
<1>1. 0 \in 0..(Cap + 1)
  BY CapIsNat
<1>. QED  BY <1>1, IdleOK, IdleType, JobsOfTypeOK DEF Init, Records

\* The new state has the shapes when each of its parts has.
LEMMA NextTypeOK ==
    ASSUME file' \in [Ids -> Records], claimed' \subseteq Ids,
           job' \in [Actors -> Jobs], \A a \in Actors : JobOK(job'[a]),
           daemon' \in {"down", "recovering", "up"}, boot' \in Nat, clock' \in Nat,
           invoked' \in [Ids -> 0..(Cap + 1)]
    PROVE  TypeOK'
BY DEF TypeOK, JobOK, Records

\* A tick that goes on: it is over, it completes a schedule, or it starts one.
LEMMA TickGoesOnOK ==
    ASSUME TypeOK, NEW t \in Ticks, TickGoesOn(t)
    PROVE  /\ file' \in [Ids -> Records]
           /\ claimed' \subseteq Ids
           /\ job' \in [Actors -> Jobs] /\ \A b \in Actors : JobOK(job'[b])
<1> DEFINE s     == job[t].todo
           j     == [Idle EXCEPT !.at = "looping", !.now = job[t].now]
           busy  == IF job[t].at = "recorded" THEN claimed \ {job[t].id} ELSE claimed
           ended == IF job[t].at = "recorded" THEN {t} ELSE {}
<1>1. t \in Actors /\ job[t] \in Jobs /\ busy \subseteq Ids
  BY JobsOfTypeOK DEF Actors
<1>2. j \in Jobs
  BY <1>1, IdleType DEF Idle, Jobs, Stages, TickStages
<1>3. ASSUME NEW i \in Ids, Wanted(t, i, busy) PROVE s[i] \in Schedules
  BY <1>1, <1>3 DEF Wanted, IsDue, Jobs
<1>4. ASSUME NEW r \in Schedules
      PROVE  CompleteSchedule(r) \in Schedules /\ WithRun(r, t) \in Schedules
  BY DEF CompleteSchedule, WithRun, Schedules
<1>. HIDE DEF j
<1>5. ASSUME NEW stage \in PutStages, NEW i \in Ids, NEW r \in Schedules
      PROVE  JobOK([Putting(j, stage, i, r) EXCEPT !.todo = Rest(t, i)])
  BY <1>1, <1>2, PutAndRestOK
<1>. HIDE DEF s, busy, ended
<1>6. CASE RunsOver(ended, t, Idle) /\ claimed' = busy
  BY <1>1, <1>6, IdleOK, RunsOverOK
<1>7. ASSUME NEW i \in Ids, Wanted(t, i, busy), claimed' = busy,
             RunsOver(ended, t, [Putting(j, "completing", i, CompleteSchedule(s[i]))
                          EXCEPT !.todo = Rest(t, i)])
      PROVE  /\ file' \in [Ids -> Records]
             /\ claimed' \subseteq Ids
             /\ job' \in [Actors -> Jobs] /\ \A b \in Actors : JobOK(job'[b])
  <2>1. JobOK([Putting(j, "completing", i, CompleteSchedule(s[i])) EXCEPT !.todo = Rest(t, i)])
    BY <1>3, <1>4, <1>5, <1>7 DEF PutStages
  <2>. QED  BY <1>1, <1>7, <2>1, RunsOverOK
<1>8. ASSUME NEW i \in Ids, Wanted(t, i, busy), claimed' = busy \cup {i},
             RunsOver(ended, t, [Putting(j, "starting", i, WithRun(s[i], t))
                          EXCEPT !.todo = Rest(t, i)])
      PROVE  /\ file' \in [Ids -> Records]
             /\ claimed' \subseteq Ids
             /\ job' \in [Actors -> Jobs] /\ \A b \in Actors : JobOK(job'[b])
  <2>1. JobOK([Putting(j, "starting", i, WithRun(s[i], t)) EXCEPT !.todo = Rest(t, i)])
    BY <1>3, <1>4, <1>5, <1>8 DEF PutStages
  <2>. QED  BY <1>1, <1>8, <2>1, RunsOverOK
<1>. QED  BY <1>6, <1>7, <1>8 DEF TickGoesOn, s, j, busy, ended

\* Every step keeps the shapes of the variables.
LEMMA TypeOKStep == TypeOK /\ [Next]_vars => TypeOK'
<1> SUFFICES ASSUME TypeOK, [Next]_vars PROVE TypeOK'
  OBVIOUS
<1> USE JobsOfTypeOK
<1>1. ASSUME NEW a \in Actors, FileOpened(a) PROVE TypeOK'
  <2>1. job[a].id \in Ids /\ JobOK([job[a] EXCEPT !.io = "open"])
    BY <1>1 DEF FileOpened, JobOK, Jobs
  <2>2. job' = [job EXCEPT ![a] = [job[a] EXCEPT !.io = "open"]]
    BY <1>1 DEF FileOpened
  <2>3. file' \in [Ids -> Records]
    BY <1>1, <2>1 DEF FileOpened, Records
  <2>. QED  BY <1>1, <2>1, <2>2, <2>3, OneJobOK, NextTypeOK DEF FileOpened
<1>2. ASSUME NEW a \in Actors, FileWritten(a) PROVE TypeOK'
  <2>1. job[a].id \in Ids /\ job[a].put \in Schedules
    BY <1>2 DEF FileWritten, JobOK
  <2>2. file' \in [Ids -> Records]
    BY <1>2, <2>1 DEF FileWritten, Records
  <2>3. invoked' \in [Ids -> 0..(Cap + 1)]
    <3>1. Cap + 1 \in Nat /\ invoked[job[a].id] \in 0..(Cap + 1)
      BY <2>1, CapIsNat
    <3>2. UpTo(Cap + 1, invoked[job[a].id] + 1) \in 0..(Cap + 1)
      BY <3>1, UpToType
    <3>. QED  BY <1>2, <2>1, <3>2 DEF FileWritten
  <2>4. JobOK(AfterPut(job[a])) /\ job' = [job EXCEPT ![a] = AfterPut(job[a])]
    BY <1>2, AfterPutOK DEF FileWritten
  <2>. QED  BY <1>2, <2>2, <2>3, <2>4, OneJobOK, NextTypeOK DEF FileWritten
<1>3. ASSUME NEW a \in Actors, PutFails(a) PROVE TypeOK'
  <2>1. CASE job[a].at = "recording" /\ FinishThrows(a) /\ UNCHANGED daemon
    BY <1>3, <2>1, FinishThrowsOK, NextTypeOK DEF PutFails, RunStages
  <2>2. CASE job' = [job EXCEPT ![a] = Idle] /\ UNCHANGED <<file, claimed>>
             /\ daemon' \in {daemon, "down"}
    BY <1>3, <2>2, IdleOK, OneJobOK, NextTypeOK DEF PutFails
  <2>. QED  BY <1>3, <2>1, <2>2 DEF PutFails
<1>4. ASSUME NEW r \in Requests, NEW i \in Ids, Create(r, i) PROVE TypeOK'
  <2>1. NewSchedule(clock) \in Schedules
    BY CapIsNat, CadenceAssumption DEF NewSchedule, Schedules
  <2>2. 0 \in 0..(Cap + 1)
    BY CapIsNat
  <2>. QED  BY <1>4, <2>1, <2>2, SavesOK, NextTypeOK DEF Create
<1>5. ASSUME NEW r \in Requests, NEW i \in Ids, Pause(r, i) PROVE TypeOK'
  <2>1. [file[i] EXCEPT !.status = "paused", !.next = None] \in Schedules
    BY <1>5, ReadableIsRecord DEF Pause, Schedules
  <2>. QED  BY <1>5, <2>1, SavesOK, NextTypeOK DEF Pause
<1>6. ASSUME NEW r \in Requests, NEW i \in Ids, Resume(r, i) PROVE TypeOK'
  <2>1. clock + Every \in Nat
    BY CadenceAssumption
  <2>2. [file[i] EXCEPT !.status = "active", !.next = clock + Every] \in Schedules
    BY <1>6, <2>1, ReadableIsRecord DEF Resume, Schedules
  <2>. QED  BY <1>6, <2>2, SavesOK, NextTypeOK DEF Resume
<1>7. ASSUME NEW r \in Requests, NEW i \in Ids, Delete(r, i) PROVE TypeOK'
  <2>1. file' \in [Ids -> Records]
    BY <1>7 DEF Delete, Records
  <2>2. \A a \in Actors : job[a].io = "open" => JobOK([job[a] EXCEPT !.io = "unlinked"])
    BY DEF JobOK, Jobs
  <2>3. \A a \in Actors : JobOK(job'[a])
    BY <1>7, <2>2 DEF Delete
  <2>4. job' \in [Actors -> Jobs]
    BY <1>7, <2>3 DEF Delete, JobOK
  <2>. QED  BY <1>7, <2>1, <2>3, <2>4, NextTypeOK DEF Delete
<1>8. ASSUME NEW t \in Ticks, TickStarts(t) PROVE TypeOK'
  <2>1. t \in Actors /\ JobOK([Idle EXCEPT !.at = "listing", !.now = clock])
    BY ReadableIsRecord, TickListsOK, IdleOK DEF Actors, JobOK
  <2>. QED  BY <1>8, <2>1, OneJobOK, NextTypeOK DEF TickStarts
<1>17. ASSUME NEW t \in Ticks, TickLists(t) PROVE TypeOK'
  <2>1. t \in Actors /\ JobOK(job[t]) /\ job[t].at = "listing"
    BY <1>17 DEF Actors, TickLists
  <2>2. JobOK([job[t] EXCEPT !.at = "looping", !.todo = Listed])
    BY <2>1, ReadableIsRecord, TickListsOK DEF JobOK
  <2>3. \E j : JobOK(j) /\ job' = [job EXCEPT ![t] = j]
    BY <1>17, <2>1, <2>2, IdleOK DEF TickLists
  <2>. QED  BY <1>17, <2>1, <2>3, OneJobOK, NextTypeOK DEF TickLists
<1>9. ASSUME NEW t \in Ticks, TickGoesOn(t) PROVE TypeOK'
  BY <1>9, TickGoesOnOK, NextTypeOK DEF TickGoesOn
<1>10. ASSUME NEW t \in Ticks, RunnerEnds(t) PROVE TypeOK'
  <2>0. t \in Actors
    BY DEF Actors
  <2>1. PICK outcome \in {"succeeded", "failed"} :
            job' = [job EXCEPT ![t].at = "finishing", ![t].outcome = outcome]
    BY <1>10 DEF RunnerEnds
  <2>2. JobOK([job[t] EXCEPT !.at = "finishing", !.outcome = outcome])
    <3> DEFINE j == job[t]
    <3>1. JobOK(j) /\ j.at = "running"
      BY <1>10, <2>0 DEF RunnerEnds
    <3>2. j \in Jobs /\ j.io = "none" /\ j.id \in Ids
      BY <3>1 DEF JobOK, PutStages, RunStages
    <3>. QED  BY <3>2 DEF JobOK, Jobs, Stages, TickStages, RunStages
  <2>3. job' = [job EXCEPT ![t] = [job[t] EXCEPT !.at = "finishing", !.outcome = outcome]]
    BY <2>0, <2>1
  <2>. QED  BY <1>10, <2>0, <2>2, <2>3, OneJobOK, NextTypeOK DEF RunnerEnds
<1>11. ASSUME NEW t \in Ticks, FinishRun(t) PROVE TypeOK'
  <2>0. t \in Actors /\ job[t].at \in RunStages /\ job[t].id \in Ids
    BY <1>11 DEF Actors, FinishRun, RunStages, JobOK
  <2>1. CASE /\ Readable(job[t].id)
             /\ ~RearmThrows(EndRun(file[job[t].id], t), clock)
    <3> DEFINE i == job[t].id
               s == Rearm(EndRun(file[i], t), clock)
    <3>1. s \in Schedules
      BY <2>0, <2>1, ReadableIsRecord, EndRunType, RearmType
    <3>2. JobOK(Putting(job[t], "recording", i, s))
      BY <2>0, <3>1, PuttingOK DEF PutStages
    <3>. HIDE DEF s
    <3>3. job' = [job EXCEPT ![t] = Putting(job[t], "recording", i, s)]
          /\ UNCHANGED <<file, claimed>>
      BY <1>11, <2>0, <2>1 DEF FinishRun, s, FinishThrows
    <3>. QED  BY <1>11, <2>0, <3>2, <3>3, OneJobOK, NextTypeOK DEF FinishRun
  <2>2. CASE FinishThrows(t)
    BY <1>11, <2>0, <2>2, FinishThrowsOK, NextTypeOK DEF FinishRun
  <2>. QED  BY <1>11, <2>1, <2>2 DEF FinishRun
<1>12. ASSUME Starts PROVE TypeOK'
  <2>1. JobOK([Idle EXCEPT !.at = "recovering", !.todo = Listed, !.now = clock])
    BY ReadableIsRecord, ListingOK
  <2>. QED  BY <1>12, <2>1, OneJobOK, NextTypeOK DEF Starts, Actors
<1>13. ASSUME Recover PROVE TypeOK'
  <2>1. CASE job' = [job EXCEPT ![Boot] = Idle] /\ daemon' \in {"up", "down"}
    BY <1>13, <2>1, IdleOK, OneJobOK, NextTypeOK DEF Recover, Actors
  <2>2. ASSUME NEW i \in Ids, Dirty(i), UNCHANGED daemon,
               NEW s \in Recovered(job[Boot].todo[i], job[Boot].now),
               job' = [job EXCEPT ![Boot] =
                   [Putting(@, "recovering", i, s) EXCEPT !.todo = Rest(Boot, i)]]
        PROVE  TypeOK'
    <3>1. Boot \in Actors /\ job[Boot] \in Jobs
      BY DEF Actors
    <3>2. job[Boot].todo[i] \in Schedules /\ job[Boot].now \in Nat
      BY <2>2, <3>1 DEF Dirty, Jobs
    <3>3. s \in Schedules
      BY <2>2, <3>2, RecoveredType
    <3>4. JobOK([Putting(job[Boot], "recovering", i, s) EXCEPT !.todo = Rest(Boot, i)])
      BY <3>1, <3>3, PutAndRestOK DEF PutStages
    <3>. QED  BY <1>13, <2>2, <3>1, <3>4, OneJobOK, NextTypeOK DEF Recover
  <2>. QED  BY <1>13, <2>1, <2>2 DEF Recover
<1>14. ASSUME Crash PROVE TypeOK'
  <2>1. \A i \in Ids : Lose(file[i], Ticks) \in Records
    BY LoseType DEF Records, Markers
  <2>. QED  BY <1>14, <2>1, IdleOK, IdleType, NextTypeOK DEF Crash
<1>15. ASSUME ClockAdvances PROVE TypeOK'
  BY <1>15, NextTypeOK DEF ClockAdvances
<1>16. ASSUME UNCHANGED vars PROVE TypeOK'
  BY <1>16, NextTypeOK DEF vars
<1>. QED  BY <1>1, <1>2, <1>3, <1>4, <1>5, <1>6, <1>7, <1>8, <1>9, <1>10, <1>11, <1>12,
             <1>13, <1>14, <1>15, <1>16, <1>17 DEF Next, Store, RequestStep

\* Whatever ticks, requests, failing writes and crashes do in between, every
\* stored, listed or about to be written record is a well-formed schedule.
THEOREM TypeCorrect == Spec => []TypeOK
<1> QED
  BY InitTypeOK, TypeOKStep, PTL DEF Spec

-----------------------------------------------------------------------------
(* Runs and claims.                                                        *)

\* Requests and recovery never stand inside a run.
StagesFit ==
    /\ \A t \in Ticks    : job[t].at \in TickStages \cup {"out"}
    /\ \A r \in Requests : job[r].at \in {"out", "saving"}
    /\ job[Boot].at \in {"out", "recovering"}

StageFits(a, stage) ==
    \/ stage = "out"
    \/ a \in Ticks /\ stage \in TickStages
    \/ a \in Requests /\ stage = "saving"
    \/ a = Boot /\ stage = "recovering"

\* StagesFit, stage by stage of one actor.
LEMMA StagesFitEach ==
    StagesFit <=> \A a \in Actors : StageFits(a, job[a].at)
BY ActorsAssumption DEF StagesFit, StageFits, Actors, TickStages

(* What a step may do to the runs under way and the claims on them.        *)
SameRun(t) == /\ InRun(t)' <=> InRun(t)
              /\ InRun(t) => job'[t].id = job[t].id

OtherRunsStay(u) == \A t \in Ticks \ {u} : SameRun(t)

RunsStay     == claimed' = claimed /\ \A t \in Ticks : SameRun(t)
RunReleased(u) == /\ InRun(u) /\ ~InRun(u)' /\ OtherRunsStay(u)
                  /\ claimed' = claimed \ {job[u].id}
RunAbandoned(u) == /\ Faults
                   /\ InRun(u) /\ ~InRun(u)' /\ OtherRunsStay(u)
                   /\ claimed' = claimed
RunStarted(u, busy, i) == /\ i \notin busy /\ claimed' = busy \cup {i}
                          /\ InRun(u)' /\ job'[u].id = i /\ OtherRunsStay(u)
                          /\ \/ busy = claimed /\ ~InRun(u)
                             \/ busy = claimed \ {job[u].id} /\ InRun(u)
RunsGone     == claimed' = {} /\ \A t \in Ticks : ~InRun(t)'

RunStep ==
    \/ RunsStay \/ RunsGone
    \/ \E u \in Ticks : RunReleased(u) \/ RunAbandoned(u)
    \/ \E u \in Ticks, i \in Ids, busy \in SUBSET Ids : RunStarted(u, busy, i)

\* A step of one actor that keeps its run, or that has none, keeps all runs.
LEMMA OneActorRuns ==
    ASSUME TypeOK, NEW a \in Actors, NEW j, job' = [job EXCEPT ![a] = j],
           claimed' = claimed,
           a \in Ticks => /\ j.at \in RunStages <=> job[a].at \in RunStages
                          /\ job[a].at \in RunStages => j.id = job[a].id
    PROVE  RunsStay
BY DEF TypeOK, RunsStay, SameRun, InRun, Actors

\* Runs that are over elsewhere change nothing in where the others stand.
LEMMA RunsOverRuns ==
    ASSUME TypeOK, NEW T, NEW u \in Ticks, NEW j, RunsOver(T, u, j)
    PROVE  /\ OtherRunsStay(u)
           /\ job'[u] = j
           /\ \A a \in Actors \ {u} : job'[a].at = job[a].at
<1>1. \A a \in Actors \ {u} : job'[a] = Losing(job[a], T)
  BY DEF RunsOver
<1>2. \A a \in Actors : Losing(job[a], T).at = job[a].at
                       /\ Losing(job[a], T).id = job[a].id
  BY DEF TypeOK, Losing, Jobs
<1>3. job'[u] = j
  BY DEF RunsOver, Actors
<1>. QED  BY <1>1, <1>2, <1>3 DEF OtherRunsStay, SameRun, InRun, Actors

\* Where finishRun throws, the run goes on or its claim is released.
LEMMA FinishThrowsRuns ==
    ASSUME TypeOK, StagesFit, NEW a \in Actors, InRun(a), FinishThrows(a)
    PROVE  a \in Ticks /\ RunStep /\ StagesFit'
<1>1. a \in Ticks
  BY StagesFitEach DEF StageFits, InRun, RunStages, TickStages
<1>2. CASE job[a].outcome = "succeeded" /\ UNCHANGED <<file, claimed>>
           /\ job' = [job EXCEPT ![a].at = "finishing", ![a].outcome = "failed",
                                 ![a].io = "none", ![a].put = None]
  <2> DEFINE j == [job[a] EXCEPT !.at = "finishing", !.outcome = "failed",
                                 !.io = "none", !.put = None]
  <2>1. j.at = "finishing" /\ j.id = job[a].id
    BY DEF TypeOK, Jobs
  <2>2. job' = [job EXCEPT ![a] = j]
    BY <1>2 DEF TypeOK
  <2>. HIDE DEF j
  <2>3. RunsStay
    BY <1>2, <2>1, <2>2, OneActorRuns DEF InRun, RunStages
  <2>4. StagesFit'
    BY <1>1, <2>1, <2>2, ActorsAssumption DEF StagesFit, TickStages, TypeOK, Actors
  <2>. QED  BY <1>1, <2>3, <2>4 DEF RunStep
<1>3. CASE RunsOver({a}, a, Idle) /\ claimed' = claimed \ {job[a].id}
  <2>1. RunReleased(a)
    BY <1>1, <1>3, RunsOverRuns DEF RunReleased, InRun, Idle, RunStages
  <2>2. StagesFit'
    BY <1>1, <1>3, RunsOverRuns, ActorsAssumption DEF StagesFit, Idle, Actors
  <2>. QED  BY <1>1, <2>1, <2>2 DEF RunStep
<1>. QED  BY <1>2, <1>3 DEF FinishThrows

\* A step of one actor fits as soon as its new stage does.
LEMMA OneActorFits ==
    ASSUME TypeOK, StagesFit, NEW a \in Actors, NEW j,
           job' = [job EXCEPT ![a] = j], StageFits(a, j.at)
    PROVE  StagesFit'
<1>1. \A b \in Actors : StageFits(b, job'[b].at)
  BY StagesFitEach DEF TypeOK
<1>. QED  BY <1>1, ActorsAssumption DEF StagesFit, StageFits, Actors, TickStages

\* An actor outside a run that takes a step outside runs.
LEMMA OutsideRuns ==
    ASSUME TypeOK, StagesFit, NEW a \in Actors, NEW j,
           job' = [job EXCEPT ![a] = j], claimed' = claimed,
           StageFits(a, j.at), j.at \notin RunStages, job[a].at \notin RunStages
    PROVE  RunStep /\ StagesFit'
BY OneActorRuns, OneActorFits DEF RunStep

\* A tick that stays in its run.
LEMMA InsideRuns ==
    ASSUME TypeOK, StagesFit, NEW t \in Ticks, NEW j,
           job' = [job EXCEPT ![t] = j], claimed' = claimed,
           j.at \in RunStages, job[t].at \in RunStages, j.id = job[t].id
    PROVE  RunStep /\ StagesFit'
<1>1. t \in Actors /\ StageFits(t, j.at)
  BY DEF Actors, StageFits, RunStages, TickStages
<1>. QED  BY <1>1, OneActorRuns, OneActorFits DEF RunStep

\* A write that ends leaves runs alone or releases the one it ended.
LEMMA FileWrittenRuns ==
    ASSUME TypeOK, StagesFit, NEW a \in Actors, FileWritten(a)
    PROVE  RunStep /\ StagesFit'
<1>1. /\ job' = [job EXCEPT ![a] = AfterPut(job[a])] /\ claimed' = claimed
      /\ job[a] \in Jobs /\ job[a].at \in PutStages
  BY DEF FileWritten, TypeOK
<1>2. StageFits(a, job[a].at)
  BY StagesFitEach
<1>3. CASE job[a].at \in {"starting", "recording"}
  <2>1. a \in Ticks
    BY <1>2, <1>3 DEF StageFits
  <2>2. AfterPut(job[a]).at \in RunStages /\ AfterPut(job[a]).id = job[a].id
    BY <1>1, <1>3 DEF AfterPut, Jobs, RunStages
  <2>3. job[a].at \in RunStages
    BY <1>3 DEF RunStages
  <2>. HIDE DEF RunStages
  <2>. QED  BY <1>1, <2>1, <2>2, <2>3, InsideRuns
<1>4. CASE job[a].at \in {"completing", "saving", "recovering"}
  <2>1. AfterPut(job[a]).at \notin RunStages /\ job[a].at \notin RunStages
    BY <1>1, <1>4 DEF AfterPut, Jobs, RunStages, Idle
  <2>2. StageFits(a, AfterPut(job[a]).at)
    BY <1>1, <1>2, <1>4 DEF AfterPut, Jobs, StageFits, Idle, TickStages
  <2>. QED  BY <1>1, <2>1, <2>2, OutsideRuns
<1>. QED  BY <1>1, <1>3, <1>4 DEF PutStages

\* A put that fails leaves runs alone or releases the one it was for.
LEMMA PutFailsRuns ==
    ASSUME TypeOK, StagesFit, NEW a \in Actors, PutFails(a)
    PROVE  RunStep /\ StagesFit'
<1>1. CASE job[a].at = "recording" /\ FinishThrows(a)
  BY <1>1, FinishThrowsRuns DEF InRun, RunStages
<1>2. CASE job' = [job EXCEPT ![a] = Idle] /\ claimed' = claimed
  <2>1. StageFits(a, Idle.at) /\ Idle.at \notin RunStages
    BY DEF StageFits, Idle, RunStages
  <2>2. CASE job[a].at \notin RunStages
    BY <1>2, <2>1, <2>2, OutsideRuns
  <2>3. CASE InRun(a)
    <3>1. a \in Ticks
      BY <2>3, StagesFitEach DEF StageFits, InRun, RunStages, TickStages
    <3>2. RunAbandoned(a)
      BY <1>2, <2>1, <2>3, <3>1 DEF RunAbandoned, InRun, OtherRunsStay, SameRun,
                                    PutFails, TypeOK, Actors
    <3>. QED  BY <1>2, <2>1, <3>1, <3>2, OneActorFits DEF RunStep
  <2>. QED  BY <2>2, <2>3 DEF InRun
<1>. QED  BY <1>1, <1>2 DEF PutFails

\* A tick that goes on leaves runs alone or starts one nobody claimed.
LEMMA TickGoesOnRuns ==
    ASSUME TypeOK, StagesFit, NEW t \in Ticks, TickGoesOn(t)
    PROVE  RunStep /\ StagesFit'
<1> DEFINE s     == job[t].todo
           j     == [Idle EXCEPT !.at = "looping", !.now = job[t].now]
           busy  == IF job[t].at = "recorded" THEN claimed \ {job[t].id} ELSE claimed
           ended == IF job[t].at = "recorded" THEN {t} ELSE {}
           P(stage, i, r) == [Putting(j, stage, i, r) EXCEPT !.todo = Rest(t, i)]
<1>1. \/ job[t].at = "looping"  /\ busy = claimed /\ ~InRun(t)
      \/ job[t].at = "recorded" /\ busy = claimed \ {job[t].id} /\ InRun(t)
  BY DEF TickGoesOn, InRun, RunStages
<1>2. \A stage, i, r : P(stage, i, r).at = stage /\ P(stage, i, r).id = i
  BY DEF Putting, Idle
<1>3. busy \in SUBSET Ids
  BY DEF TypeOK
<1>4. ASSUME NEW jt, RunsOver(ended, t, jt), jt.at \in TickStages \cup {"out"}
      PROVE  StagesFit'
  BY <1>4, RunsOverRuns, ActorsAssumption DEF StagesFit, Actors
<1>5. ASSUME NEW jt, RunsOver(ended, t, jt), jt.at \notin RunStages, claimed' = busy
      PROVE  RunStep
  BY <1>1, <1>5, RunsOverRuns
     DEF RunStep, RunReleased, RunsStay, OtherRunsStay, SameRun, InRun
<1>6. ASSUME NEW i \in Ids, i \notin busy, NEW jt, RunsOver(ended, t, jt),
             jt.at \in RunStages, jt.id = i, claimed' = busy \cup {i}
      PROVE  RunStep
  <2>1. RunStarted(t, busy, i)
    BY <1>1, <1>6, RunsOverRuns DEF RunStarted, InRun
  <2>. QED  BY <1>3, <2>1 DEF RunStep
<1>. HIDE DEF P, busy, ended
<1>7. CASE RunsOver(ended, t, Idle) /\ claimed' = busy
  BY <1>4, <1>5, <1>7 DEF Idle, RunStages
<1>8. ASSUME NEW i \in Ids, claimed' = busy,
             RunsOver(ended, t, P("completing", i, CompleteSchedule(s[i])))
      PROVE  RunStep /\ StagesFit'
  BY <1>2, <1>4, <1>5, <1>8 DEF RunStages, TickStages
<1>9. ASSUME NEW i \in Ids, Wanted(t, i, busy), claimed' = busy \cup {i},
             RunsOver(ended, t, P("starting", i, WithRun(s[i], t)))
      PROVE  RunStep /\ StagesFit'
  BY <1>2, <1>4, <1>6, <1>9 DEF RunStages, TickStages, Wanted
<1>. QED  BY <1>7, <1>8, <1>9 DEF TickGoesOn, P, busy, ended

\* Every step leaves the runs and the claims alone, ends one run, starts one
\* that nobody has claimed, or is the end of the process.
LEMMA StepRuns ==
    ASSUME TypeOK, StagesFit, [Next]_vars
    PROVE  RunStep /\ StagesFit'
<1>1. ASSUME NEW a \in Actors, FileOpened(a) PROVE RunStep /\ StagesFit'
  <2>1. \A b \in Actors : job'[b].at = job[b].at /\ job'[b].id = job[b].id
    BY <1>1 DEF FileOpened, TypeOK, Jobs
  <2>. QED  BY <1>1, <2>1 DEF FileOpened, RunStep, RunsStay, SameRun, InRun, StagesFit, Actors
<1>2. ASSUME NEW r \in Requests, NEW i, NEW s, Saves(r, i, s), Idle.at = job[r].at
      PROVE  RunStep /\ StagesFit'
  <2>1. StageFits(r, "saving") /\ Putting(Idle, "saving", i, s).at = "saving"
    BY DEF StageFits, Putting, Idle
  <2>2. "saving" \notin RunStages /\ Idle.at \notin RunStages
    BY DEF RunStages, Idle
  <2>3. r \in Actors
    BY DEF Actors
  <2>. QED  BY <1>2, <2>1, <2>2, <2>3, OutsideRuns DEF Saves
<1>3. ASSUME NEW r \in Requests, NEW i \in Ids, Create(r, i) \/ Pause(r, i) \/ Resume(r, i)
      PROVE  RunStep /\ StagesFit'
  BY <1>2, <1>3 DEF Create, Pause, Resume, Request, Idle
<1>4. ASSUME NEW r \in Requests, NEW i \in Ids, Delete(r, i) PROVE RunStep /\ StagesFit'
  <2>1. \A b \in Actors : job'[b].at = job[b].at /\ job'[b].id = job[b].id
    BY <1>4 DEF Delete, TypeOK, Jobs
  <2>. QED  BY <1>4, <2>1 DEF Delete, RunStep, RunsStay, SameRun, InRun, StagesFit, Actors
<1>5. ASSUME NEW t \in Ticks, TickStarts(t) PROVE RunStep /\ StagesFit'
  <2> DEFINE j == [Idle EXCEPT !.at = "listing", !.now = clock]
  <2>1. StageFits(t, j.at) /\ j.at \notin RunStages /\ t \in Actors
    BY DEF StageFits, Idle, TickStages, RunStages, Actors
  <2>. QED  BY <1>5, <2>1, OutsideRuns DEF TickStarts, RunStages
<1>13. ASSUME NEW t \in Ticks, TickLists(t) PROVE RunStep /\ StagesFit'
  <2>1. t \in Actors /\ job[t] \in Jobs /\ job[t].at = "listing"
    BY <1>13 DEF Actors, TypeOK, TickLists
  <2>2. PICK j : /\ job' = [job EXCEPT ![t] = j]
                 /\ j = Idle \/ j = [job[t] EXCEPT !.at = "looping", !.todo = Listed]
    BY <1>13, <2>1 DEF TickLists
  <2>3. j.at \in {"out", "looping"}
    <3>1. Idle.at = "out"
      BY DEF Idle
    <3>2. [job[t] EXCEPT !.at = "looping", !.todo = Listed].at = "looping"
      BY <2>1 DEF Jobs
    <3>. QED  BY <2>2, <3>1, <3>2
  <2>4. StageFits(t, j.at) /\ j.at \notin RunStages
    BY <2>3 DEF StageFits, TickStages, RunStages
  <2>. HIDE DEF Idle
  <2>. QED  BY <1>13, <2>1, <2>2, <2>4, OutsideRuns DEF TickLists, RunStages
<1>6. ASSUME NEW t \in Ticks, RunnerEnds(t) PROVE RunStep /\ StagesFit'
  <2>1. PICK outcome : job' = [job EXCEPT ![t].at = "finishing", ![t].outcome = outcome]
    BY <1>6 DEF RunnerEnds
  <2> DEFINE j == [job[t] EXCEPT !.at = "finishing", !.outcome = outcome]
  <2>2. job' = [job EXCEPT ![t] = j]
    BY <2>1 DEF TypeOK, Actors
  <2>3. j.at \in RunStages /\ job[t].at \in RunStages /\ j.id = job[t].id
    BY <1>6 DEF RunnerEnds, RunStages, TypeOK, Jobs, Actors
  <2>. HIDE DEF j
  <2>. QED  BY <1>6, <2>2, <2>3, InsideRuns DEF RunnerEnds
<1>7. ASSUME NEW t \in Ticks, FinishRun(t) PROVE RunStep /\ StagesFit'
  <2>1. t \in Actors /\ InRun(t)
    BY <1>7 DEF FinishRun, InRun, RunStages, Actors
  <2>2. ASSUME NEW s, job' = [job EXCEPT ![t] = Putting(@, "recording", job[t].id, s)],
               claimed' = claimed
        PROVE  RunStep /\ StagesFit'
    <3>1. /\ Putting(job[t], "recording", job[t].id, s).at \in RunStages
          /\ Putting(job[t], "recording", job[t].id, s).id = job[t].id
      BY <2>1 DEF Putting, TypeOK, Jobs, RunStages
    <3>. QED  BY <2>1, <2>2, <3>1, InsideRuns DEF InRun
  <2>. QED  BY <1>7, <2>1, <2>2, FinishThrowsRuns DEF FinishRun
<1>8. ASSUME NEW j, job' = [job EXCEPT ![Boot] = j], claimed' = claimed,
             j.at \in {"out", "recovering"}
      PROVE  RunStep /\ StagesFit'
  <2>1. Boot \in Actors /\ StageFits(Boot, j.at)
    BY <1>8 DEF Actors, StageFits
  <2>2. j.at \notin RunStages /\ job[Boot].at \notin RunStages
    BY <1>8 DEF RunStages, StagesFit
  <2>. QED  BY <1>8, <2>1, <2>2, OutsideRuns
<1>9. CASE Starts
  BY <1>8, <1>9 DEF Starts, Idle
<1>10. CASE Recover
  <2>1. CASE job' = [job EXCEPT ![Boot] = Idle]
    BY <1>8, <1>10, <2>1 DEF Recover, Idle
  <2>2. ASSUME NEW i, NEW s,
               job' = [job EXCEPT ![Boot] =
                   [Putting(@, "recovering", i, s) EXCEPT !.todo = Rest(Boot, i)]]
        PROVE  RunStep /\ StagesFit'
    <3> DEFINE j == [Putting(job[Boot], "recovering", i, s) EXCEPT !.todo = Rest(Boot, i)]
    <3>1. j.at = "recovering" /\ job' = [job EXCEPT ![Boot] = j]
      BY <2>2 DEF Putting, TypeOK, Jobs, Actors
    <3>. HIDE DEF j
    <3>. QED  BY <1>8, <1>10, <3>1 DEF Recover
  <2>. QED  BY <1>10, <2>1, <2>2 DEF Recover
<1>11. CASE Crash
  <2>1. \A a \in Actors : job'[a].at = "out"
    BY <1>11 DEF Crash, Idle
  <2>. QED  BY <1>11, <2>1 DEF Crash, RunStep, RunsGone, InRun, RunStages, StagesFit, Actors
<1>12. CASE ClockAdvances \/ UNCHANGED vars
  BY <1>12 DEF ClockAdvances, vars, RunStep, RunsStay, SameRun, InRun, StagesFit
<1>. QED  BY <1>1, <1>3, <1>4, <1>5, <1>6, <1>7, <1>9, <1>10, <1>11, <1>12, <1>13,
             FileWrittenRuns, PutFailsRuns, TickGoesOnRuns DEF Next, Store, RequestStep

\* At first there are neither runs nor claims.
LEMMA InitRuns == Init => StagesFit /\ OneRunAtATime /\ ClaimsHaveOwners
BY DEF Init, Idle, StagesFit, Actors, OneRunAtATime, ClaimsHaveOwners, InRun, RunStages

\* No step of a kind StepRuns lists makes a second run of a schedule.
LEMMA OneRunStep ==
    ASSUME OneRunAtATime, RunStep PROVE OneRunAtATime'
<1>1. CASE RunsStay
  BY <1>1 DEF RunsStay, SameRun, OneRunAtATime, InRun
<1>2. CASE RunsGone
  BY <1>2 DEF RunsGone, OneRunAtATime
<1>3. ASSUME NEW u \in Ticks, RunReleased(u) \/ RunAbandoned(u) PROVE OneRunAtATime'
  BY <1>3 DEF RunReleased, RunAbandoned, OtherRunsStay, SameRun, OneRunAtATime, InRun
<1>4. ASSUME NEW u \in Ticks, NEW i \in Ids, NEW busy \in SUBSET Ids, RunStarted(u, busy, i)
      PROVE  OneRunAtATime'
  <2>1. \A t \in Ticks \ {u} : InRun(t)' => InRun(t) /\ job'[t].id = job[t].id
    BY <1>4 DEF RunStarted, OtherRunsStay, SameRun
  <2>2. \A t \in Ticks \ {u} : InRun(t) => job[t].id \in busy
    BY <1>4 DEF RunStarted, OneRunAtATime
  <2>3. InRun(u)' /\ job'[u].id = i /\ i \notin busy /\ claimed' = busy \cup {i}
    BY <1>4 DEF RunStarted
  <2>. QED  BY <2>1, <2>2, <2>3 DEF OneRunAtATime
<1>. QED  BY <1>1, <1>2, <1>3, <1>4 DEF RunStep

\* Without faults, no such step leaves a claim without its run.
LEMMA ClaimsStep ==
    ASSUME ~Faults, ClaimsHaveOwners, RunStep PROVE ClaimsHaveOwners'
<1>1. CASE RunsStay
  BY <1>1 DEF RunsStay, SameRun, ClaimsHaveOwners
<1>2. CASE RunsGone
  BY <1>2 DEF RunsGone, ClaimsHaveOwners
<1>3. ASSUME NEW u \in Ticks, RunReleased(u) PROVE ClaimsHaveOwners'
  BY <1>3 DEF RunReleased, OtherRunsStay, SameRun, ClaimsHaveOwners
<1>4. ASSUME NEW u \in Ticks, NEW i \in Ids, NEW busy \in SUBSET Ids, RunStarted(u, busy, i)
      PROVE  ClaimsHaveOwners'
  <2>1. ASSUME NEW k \in busy PROVE \E t \in Ticks \ {u} : InRun(t) /\ job[t].id = k
    BY <1>4, <2>1 DEF RunStarted, ClaimsHaveOwners
  <2>. QED  BY <1>4, <2>1 DEF RunStarted, OtherRunsStay, SameRun, ClaimsHaveOwners
<1>. QED  BY <1>1, <1>2, <1>3, <1>4 DEF RunStep, RunAbandoned

\* However many ticks are under way, on whatever lists, and whatever fails or
\* crashes: a schedule that is being run is claimed, by one tick only.
THEOREM OneRunAtATimeHolds == Spec => []OneRunAtATime
<1>1. TypeOK /\ StagesFit /\ OneRunAtATime /\ [Next]_vars
        => (StagesFit /\ OneRunAtATime)'
  BY StepRuns, OneRunStep
<1>. QED
  BY <1>1, InitRuns, TypeCorrect, PTL DEF Spec

\* As long as no write fails, a claim is held for a run that is under way:
\* ends, failures of finishRun and crashes release it.
THEOREM ClaimsHaveOwnersHolds == ASSUME ~Faults PROVE Spec => []ClaimsHaveOwners
<1>1. TypeOK /\ StagesFit /\ ClaimsHaveOwners /\ [Next]_vars
        => (StagesFit /\ ClaimsHaveOwners)'
  BY StepRuns, ClaimsStep
<1>. QED
  BY <1>1, InitRuns, TypeCorrect, PTL DEF Spec

-----------------------------------------------------------------------------
(* The timetable: what every stored, listed or about to be written record  *)
(* has in common, at the time now and with no occurrence up to since.      *)

Sound(r, now, since) ==
    r \notin Markers =>
      /\ r.status = "active" <=> r.next # None
      /\ r.status = "completed" => ShouldComplete(r, now)
      /\ r.next # None => r.next > since

SoundJob(j, now, since) ==
    /\ Sound(j.put, now, since)
    /\ \A i \in Ids : Sound(j.todo[i], now, since)
    /\ j.now <= now
    /\ j.at = "starting" => j.put \in Schedules /\ j.put.next # None

\* Time passing, and a weaker lower bound, keep a record sound.
LEMMA SoundLater ==
    ASSUME NEW r \in Schedules \cup Markers, NEW now \in Nat, NEW later \in Nat, now <= later,
           NEW since \in Int, NEW before \in Int, before <= since, Sound(r, now, since)
    PROVE  Sound(r, later, before)
<1>1. CASE r \in Schedules
  <2>1. ShouldComplete(r, now) => ShouldComplete(r, later)
    BY LimitsAssumption DEF ShouldComplete
  <2>2. r.next \in Nat \cup {None}
    BY <1>1 DEF Schedules
  <2>. QED  BY <2>1, <2>2 DEF Sound
<1>. QED  BY <1>1 DEF Sound

\* The same for all records that a job holds.
LEMMA SoundJobLater ==
    ASSUME NEW j \in Jobs, NEW now \in Nat, NEW later \in Nat, now <= later,
           NEW since \in Int, NEW before \in Int, before <= since, SoundJob(j, now, since)
    PROVE  SoundJob(j, later, before)
<1>1. /\ j.put \in Schedules \cup Markers
      /\ \A i \in Ids : j.todo[i] \in Schedules \cup Markers
      /\ j.now \in Nat
  BY DEF Jobs, Markers
<1>. QED  BY <1>1, SoundLater DEF SoundJob

\* Abandoning the runs of a record does not touch its timetable.
LEMMA LoseSound ==
    ASSUME NEW r \in Schedules \cup Markers, NEW T, NEW now, NEW since, Sound(r, now, since)
    PROVE  Sound(Lose(r, T), now, since)
<1>1. CASE r \in Schedules
  <2>1. r \notin Markers /\ Lose(r, T) \notin Markers
    BY <1>1, MarkersAssumption, LoseType
  <2>2. /\ Lose(r, T).status = r.status /\ Lose(r, T).next = r.next
        /\ Lose(r, T).ended = r.ended
    BY <1>1 DEF Lose, Schedules
  <2>. QED  BY <2>1, <2>2 DEF Sound, ShouldComplete
<1>2. CASE r \in Markers
  BY <1>2 DEF Lose
<1>. QED  BY <1>1, <1>2

\* Ending a run does not make a sound record unsound.
LEMMA EndRunSound ==
    ASSUME NEW s \in Schedules, NEW t, NEW now \in Nat, NEW since, Sound(s, now, since)
    PROVE  Sound(EndRun(s, t), now, since)
<1>1. s \notin Markers /\ EndRun(s, t) \notin Markers
  BY MarkersAssumption, EndRunType
<1>2. /\ EndRun(s, t).status = s.status /\ EndRun(s, t).next = s.next
      /\ EndRun(s, t).ended \in 0..Cap /\ EndRun(s, t).ended >= s.ended /\ s.ended \in 0..Cap
  BY CountType, CapIsNat DEF EndRun, Schedules
<1>3. ShouldComplete(s, now) => ShouldComplete(EndRun(s, t), now)
  BY <1>2, CapIsNat, LimitsAssumption DEF ShouldComplete
<1>. QED  BY <1>1, <1>2, <1>3 DEF Sound

\* Completing is sound at any time the schedule has reached its end.
LEMMA CompleteSound ==
    ASSUME NEW s \in Schedules, NEW now \in Nat, NEW since, ShouldComplete(s, now)
    PROVE  Sound(CompleteSchedule(s), now, since)
<1>1. /\ CompleteSchedule(s).status = "completed" /\ CompleteSchedule(s).next = None
      /\ CompleteSchedule(s).ended = s.ended
  BY DEF CompleteSchedule, Schedules
<1>. QED  BY <1>1 DEF Sound, ShouldComplete

\* The record finishRun rearms or completes is sound.
LEMMA RearmSound ==
    ASSUME NEW s \in Schedules, NEW now \in Nat, NEW since \in Int, since <= now,
           Sound(s, now, since)
    PROVE  Sound(Rearm(s, now), now, since)
<1>1. CASE ShouldComplete(s, now)
  BY <1>1, CompleteSound DEF Rearm
<1>2. CASE ~ShouldComplete(s, now) /\ s.status = "paused"
  <2>1. Rearm(s, now) = [s EXCEPT !.next = None]
    BY <1>2 DEF Rearm
  <2>2. Rearm(s, now).status = "paused" /\ Rearm(s, now).next = None
    BY <1>2, <2>1 DEF Schedules
  <2>. QED  BY <2>2 DEF Sound
<1>3. CASE ~ShouldComplete(s, now) /\ s.status # "paused"
  <2> DEFINE after == After(s, now)
             next  == NextRunAfter(after, now)
  <2>1. after \in Nat
    BY DEF Schedules, After
  <2>2. next \in Nat /\ next > now
    BY <2>1, NextRunIsLater
  <2>3. Rearm(s, now) = [s EXCEPT !.next = next]
    BY <1>3 DEF Rearm
  <2>4. s.status = "active"
    BY <1>3, MarkersAssumption DEF Sound, Schedules
  <2>. HIDE DEF next
  <2>5. Rearm(s, now).status = "active" /\ Rearm(s, now).next = next
    BY <2>3, <2>4 DEF Schedules
  <2>. QED  BY <2>2, <2>5, LimitsAssumption DEF Sound
<1>. QED  BY <1>1, <1>2, <1>3

\* Recovery leaves no occurrence up to the time it took, nor up to since.
LEMMA RecoveredSound ==
    ASSUME NEW s \in Schedules, NEW now \in Nat, NEW at \in Nat, NEW since \in Int,
           since <= at, Sound(s, now, since), NEW r \in Recovered(s, at)
    PROVE  Sound(r, now, since) /\ Sound(r, now, at)
<1> DEFINE next  == IF Stale(s, at)
                    THEN NextRunAfter(s.next, at) ELSE s.next
           ended == IF s.lost = 0 THEN s.ended ELSE UpTo(Cap, s.ended + 1)
<1>1. s \notin Markers /\ s.next \in Nat \cup {None} /\ s.ended \in 0..Cap
  BY MarkersAssumption DEF Schedules
<1>2. ended \in 0..Cap /\ ended >= s.ended
  BY <1>1, CountType, CapIsNat
<1>3. /\ next = None <=> s.next = None
      /\ next # None => next > since /\ next > at
  <2>1. CASE s.next = None
    BY <2>1 DEF Stale
  <2>2. CASE s.next # None
    <3>1. s.status = "active" /\ s.next \in Nat
      BY <1>1, <2>2 DEF Sound
    <3>2. NextRunAfter(s.next, at) \in Nat /\ NextRunAfter(s.next, at) > at
      BY <3>1, NextRunIsLater
    <3>3. CASE s.next <= at
      <4>1. next = NextRunAfter(s.next, at)
        BY <2>2, <3>1, <3>3 DEF Stale
      <4>. HIDE DEF next
      <4>. QED  BY <2>2, <3>2, <4>1, LimitsAssumption
    <3>4. CASE ~(s.next <= at)
      <4>1. next = s.next
        BY <3>4 DEF Stale
      <4>. HIDE DEF next
      <4>. QED  BY <2>2, <3>1, <3>4, <4>1
    <3>. QED  BY <3>3, <3>4
  <2>. QED  BY <2>1, <2>2
<1>. HIDE DEF next, ended
<1>4. r.status = s.status /\ r.next = next /\ r.ended = ended
  BY DEF Recovered, Schedules, next, ended
<1>5. ShouldComplete(s, now) => ShouldComplete(r, now)
  BY <1>1, <1>2, <1>4, CapIsNat, LimitsAssumption DEF ShouldComplete
<1>. QED  BY <1>1, <1>3, <1>4, <1>5 DEF Sound

\* An idle job holds no record, sound or not.
LEMMA SoundIdle ==
    ASSUME NEW now \in Nat, NEW since PROVE SoundJob(Idle, now, since)
BY DEF SoundJob, Sound, Idle, Markers

\* A put of a sound record is a sound job.
LEMMA SoundPutting ==
    ASSUME NEW j \in Jobs, NEW stage, NEW i, NEW s, NEW now, NEW since,
           SoundJob(j, now, since), Sound(s, now, since),
           stage = "starting" => s \in Schedules /\ s.next # None
    PROVE  SoundJob(Putting(j, stage, i, s), now, since)
BY DEF SoundJob, Putting, Jobs

\* What is left of a sound list is sound.
LEMMA SoundRest ==
    ASSUME TypeOK, NEW a \in Actors, NEW j \in Jobs, NEW i, NEW now, NEW since,
           SoundJob(j, now, since), SoundJob(job[a], now, since)
    PROVE  SoundJob([j EXCEPT !.todo = Rest(a, i)], now, since)
<1>1. \A k \in Ids : Sound(Rest(a, i)[k], now, since)
  BY DEF Rest, SoundJob, Sound, Markers
<1>. QED  BY <1>1 DEF SoundJob, Jobs

\* What follows a put holds no new record.
LEMMA SoundAfterPut ==
    ASSUME NEW j \in Jobs, NEW now \in Nat, NEW since, SoundJob(j, now, since)
    PROVE  SoundJob(AfterPut(j), now, since)
<1>1. Sound(None, now, since)
  BY DEF Sound, Markers
<1>. QED  BY <1>1, SoundIdle DEF AfterPut, SoundJob, Jobs

\* Abandoning runs leaves the records of a job sound.
LEMMA SoundLosing ==
    ASSUME NEW j \in Jobs, NEW T, NEW now, NEW since, SoundJob(j, now, since)
    PROVE  SoundJob(Losing(j, T), now, since)
<1>1. j.put \in Schedules \cup Markers /\ \A i \in Ids : j.todo[i] \in Schedules \cup Markers
  BY DEF Jobs, Markers
<1>2. Sound(Lose(j.put, T), now, since) /\ \A i \in Ids : Sound(Lose(j.todo[i], T), now, since)
  BY <1>1, LoseSound DEF SoundJob
<1>3. j.put \in Schedules => Lose(j.put, T) \in Schedules /\ Lose(j.put, T).next = j.put.next
  BY LoseType DEF Lose, Schedules
<1>. QED  BY <1>2, <1>3 DEF SoundJob, Losing, Jobs

\* While the daemon is up no occurrence up to its start is kept; before that
\* nothing is known.
Since == IF daemon = "up" THEN boot ELSE -1

Timetable ==
    /\ boot <= clock
    /\ \A i \in Ids : Sound(file[i], clock, Since)
    /\ \A a \in Actors : SoundJob(job[a], clock, Since)

\* Nobody works on schedules before recovery is over; what recovery has not
\* yet put right it still has on its list.
Phases ==
    /\ daemon # "up" => \A a \in Ticks \cup Requests : job[a] = Idle
    /\ daemon # "recovering" => job[Boot] = Idle
    /\ daemon = "recovering" =>
         /\ job[Boot].now = boot
         /\ job[Boot].io # "unlinked"
         /\ job[Boot].io # "none" => Sound(job[Boot].put, clock, boot)
         /\ \A i \in Ids : \/ Sound(file[i], clock, boot)
                           \/ job[Boot].todo[i] = file[i]
                           \/ job[Boot].io # "none" /\ job[Boot].id = i

\* Recovery is busy while recovering only, the others while up only.
LEMMA WhoIsBusy ==
    ASSUME Phases, NEW a \in Actors, job[a] # Idle
    PROVE  \/ a = Boot /\ daemon = "recovering"
           \/ a # Boot /\ daemon = "up"
BY ActorsAssumption DEF Phases, Actors

\* The types that the steps of Timetable need.
LEMMA TimetableTypes ==
    ASSUME TypeOK, boot <= clock
    PROVE  /\ Since \in Int /\ Since <= clock /\ -1 <= Since
           /\ clock \in Nat /\ boot \in Nat
           /\ \A i \in Ids : file[i] \in Schedules \cup Markers
           /\ \A a \in Actors : job[a] \in Jobs
BY DEF TypeOK, Since, Markers

\* A step of one actor to a sound job keeps the timetable.
LEMMA OneJobSound ==
    ASSUME TypeOK, Timetable, NEW a \in Actors, NEW j, job' = [job EXCEPT ![a] = j],
           SoundJob(j, clock, Since), UNCHANGED <<boot, clock>>, Since' = Since,
           \A i \in Ids : Sound(file'[i], clock, Since)
    PROVE  Timetable'
<1>1. \A b \in Actors : SoundJob(job'[b], clock, Since)
  BY DEF TypeOK, Timetable
<1>. QED  BY <1>1 DEF Timetable

\* The end of runs keeps the timetable.
LEMMA RunsOverSound ==
    ASSUME TypeOK, Timetable, NEW T, NEW t \in Actors, NEW j, RunsOver(T, t, j),
           SoundJob(j, clock, Since), UNCHANGED <<boot, clock>>, Since' = Since
    PROVE  Timetable'
<1>1. \A i \in Ids : Sound(Lose(file[i], T), clock, Since)
  BY TimetableTypes, LoseSound DEF Timetable
<1>2. \A a \in Actors : SoundJob(Losing(job[a], T), clock, Since)
  BY TimetableTypes, SoundLosing DEF Timetable
<1>3. \A a \in Actors : job'[a] = IF a = t THEN j ELSE Losing(job[a], T)
  BY DEF RunsOver
<1>4. \A i \in Ids : file'[i] = Lose(file[i], T)
  BY DEF RunsOver
<1>. QED  BY <1>1, <1>2, <1>3, <1>4 DEF Timetable

\* A throwing finishRun keeps the timetable.
LEMMA FinishThrowsSound ==
    ASSUME TypeOK, Timetable, NEW a \in Actors, FinishThrows(a),
           UNCHANGED <<boot, clock>>, Since' = Since
    PROVE  Timetable'
<1>1. CASE job' = [job EXCEPT ![a].at = "finishing", ![a].outcome = "failed",
                             ![a].io = "none", ![a].put = None] /\ UNCHANGED file
  <2> DEFINE j == [job[a] EXCEPT !.at = "finishing", !.outcome = "failed",
                                 !.io = "none", !.put = None]
  <2>1. job' = [job EXCEPT ![a] = j]
    BY <1>1 DEF TypeOK
  <2>2. SoundJob(j, clock, Since)
    BY DEF TypeOK, Jobs, Timetable, SoundJob, Sound, Markers
  <2>. HIDE DEF j
  <2>. QED  BY <1>1, <2>1, <2>2, OneJobSound DEF Timetable
<1>2. CASE RunsOver({a}, a, Idle)
  BY <1>2, RunsOverSound, SoundIdle, TimetableTypes DEF Timetable
<1>. QED  BY <1>1, <1>2 DEF FinishThrows

\* A request that saves a sound record keeps the timetable.
LEMMA SavesSound ==
    ASSUME TypeOK, Timetable, NEW r \in Requests, NEW i, NEW s \in Schedules,
           Saves(r, i, s), Sound(s, clock, Since)
    PROVE  Timetable'
<1>1. SoundJob(Putting(Idle, "saving", i, s), clock, Since)
  BY IdleType, SoundIdle, SoundPutting, TimetableTypes DEF Timetable
<1>2. r \in Actors /\ Since' = Since
  BY DEF Actors, Saves, Since
<1>. QED  BY <1>1, <1>2, OneJobSound DEF Saves, Timetable

\* A tick that goes on completes or starts from sound records.
LEMMA TickGoesOnSound ==
    ASSUME TypeOK, Timetable, NEW t \in Ticks, TickGoesOn(t)
    PROVE  Timetable'
<1> DEFINE s     == job[t].todo
           j     == [Idle EXCEPT !.at = "looping", !.now = job[t].now]
           busy  == IF job[t].at = "recorded" THEN claimed \ {job[t].id} ELSE claimed
           ended == IF job[t].at = "recorded" THEN {t} ELSE {}
           P(stage, i, r) == [Putting(j, stage, i, r) EXCEPT !.todo = Rest(t, i)]
<1>1. /\ t \in Actors /\ job[t] \in Jobs /\ clock \in Nat /\ Since \in Int
      /\ SoundJob(job[t], clock, Since) /\ Since' = Since /\ UNCHANGED <<boot, clock>>
  BY TimetableTypes DEF Actors, Timetable, TickGoesOn, Since
<1>2. j \in Jobs /\ SoundJob(j, clock, Since)
  <2>1. Idle \in Jobs /\ SoundJob(Idle, clock, Since) /\ job[t].now \in Nat
    BY <1>1, IdleType, SoundIdle DEF Jobs
  <2>2. j \in Jobs
    BY <2>1 DEF Jobs, Stages, TickStages
  <2>3. /\ j.put = Idle.put /\ j.todo = Idle.todo /\ j.at = "looping"
          /\ j.now = job[t].now /\ job[t].now <= clock
    BY <1>1 DEF Idle, SoundJob
  <2>. QED  BY <2>1, <2>2, <2>3 DEF SoundJob
<1>3. ASSUME NEW i \in Ids, Wanted(t, i, busy)
      PROVE  s[i] \in Schedules /\ s[i].next # None /\ Sound(s[i], clock, Since)
  BY <1>1, <1>3 DEF Wanted, IsDue, Jobs, SoundJob
<1>. HIDE DEF j
<1>4. ASSUME NEW stage \in {"completing", "starting"}, NEW i \in Ids, NEW r \in Schedules,
             Sound(r, clock, Since), stage = "starting" => r.next # None
      PROVE  SoundJob(P(stage, i, r), clock, Since)
  <2>1. Putting(j, stage, i, r) \in Jobs
    BY <1>2, <1>4, PuttingType DEF Stages, TickStages
  <2>2. SoundJob(Putting(j, stage, i, r), clock, Since)
    BY <1>2, <1>4, SoundPutting
  <2>. QED  BY <1>1, <2>1, <2>2, SoundRest
<1>. HIDE DEF P, s, busy, ended
<1>5. CASE RunsOver(ended, t, Idle)
  BY <1>1, <1>5, RunsOverSound, SoundIdle
<1>6. ASSUME NEW i \in Ids, Wanted(t, i, busy), ShouldComplete(s[i], job[t].now),
             RunsOver(ended, t, P("completing", i, CompleteSchedule(s[i])))
      PROVE  Timetable'
  <2>1. s[i] \in Schedules /\ job[t].now \in Nat /\ job[t].now <= clock
    BY <1>1, <1>3, <1>6 DEF Jobs, SoundJob
  <2>2. ShouldComplete(s[i], clock)
    BY <1>1, <1>6, <2>1, LimitsAssumption DEF ShouldComplete
  <2>3. CompleteSchedule(s[i]) \in Schedules
    BY <2>1 DEF CompleteSchedule, Schedules
  <2>4. Sound(CompleteSchedule(s[i]), clock, Since)
    BY <1>1, <2>1, <2>2, CompleteSound
  <2>5. SoundJob(P("completing", i, CompleteSchedule(s[i])), clock, Since)
    BY <1>4, <2>3, <2>4
  <2>. QED  BY <1>1, <1>6, <2>5, RunsOverSound
<1>7. ASSUME NEW i \in Ids, Wanted(t, i, busy),
             RunsOver(ended, t, P("starting", i, WithRun(s[i], t)))
      PROVE  Timetable'
  <2>1. s[i] \in Schedules /\ s[i].next # None /\ Sound(s[i], clock, Since)
    BY <1>3, <1>7
  <2> DEFINE r == WithRun(s[i], t)
  <2>2. /\ r \in Schedules /\ r.status = s[i].status
        /\ r.next = s[i].next /\ r.ended = s[i].ended
    BY <2>1 DEF WithRun, Schedules
  <2>. HIDE DEF r
  <2>3. Sound(r, clock, Since)
    BY <2>1, <2>2, MarkersAssumption DEF Sound, ShouldComplete
  <2>4. SoundJob(P("starting", i, r), clock, Since)
    BY <1>4, <2>1, <2>2, <2>3
  <2>. QED  BY <1>1, <1>7, <2>4, RunsOverSound DEF r
<1>. QED  BY <1>5, <1>6, <1>7 DEF TickGoesOn, s, P, j, busy, ended

\* The actions of the store.
LEMMA StoreSound ==
    ASSUME TypeOK, StagesFit, Timetable, Phases, NEW a \in Actors,
           FileOpened(a) \/ FileWritten(a) \/ PutFails(a)
    PROVE  Timetable'
<1>1. /\ job[a] \in Jobs /\ clock \in Nat /\ SoundJob(job[a], clock, Since)
      /\ \A i \in Ids : Sound(file[i], clock, Since)
      /\ job[a].io # "none" => job[a].id \in Ids
  BY TimetableTypes DEF Timetable, TypeOK
<1>2. \A m \in Markers : Sound(m, clock, Since)
  BY DEF Sound
<1>3. CASE FileOpened(a)
  <2> DEFINE j == [job[a] EXCEPT !.io = "open"]
  <2>1. job' = [job EXCEPT ![a] = j] /\ Since' = Since /\ UNCHANGED <<boot, clock>>
    BY <1>3 DEF FileOpened, TypeOK, Since
  <2>2. SoundJob(j, clock, Since)
    BY <1>1 DEF SoundJob, Jobs
  <2>3. \A i \in Ids : Sound(file'[i], clock, Since)
    BY <1>1, <1>2, <1>3 DEF FileOpened, TypeOK, Markers
  <2>. HIDE DEF j
  <2>. QED  BY <2>1, <2>2, <2>3, OneJobSound
<1>4. CASE FileWritten(a)
  <2>1. job' = [job EXCEPT ![a] = AfterPut(job[a])] /\ Since' = Since /\ UNCHANGED <<boot, clock>>
    BY <1>4 DEF FileWritten, Since
  <2>2. SoundJob(AfterPut(job[a]), clock, Since)
    BY <1>1, SoundAfterPut
  <2>3. \A i \in Ids : Sound(file'[i], clock, Since)
    <3>1. job[a].id \in Ids
      BY <1>1, <1>4 DEF FileWritten
    <3>2. PICK f \in {job[a].put, file[job[a].id], Corrupt} :
              file' = [file EXCEPT ![job[a].id] = f]
      BY <1>4 DEF FileWritten
    <3>3. Sound(f, clock, Since)
      BY <1>1, <1>2, <3>1 DEF SoundJob, Markers
    <3>. QED  BY <1>1, <3>1, <3>2, <3>3 DEF TypeOK
  <2>. QED  BY <2>1, <2>2, <2>3, OneJobSound
<1>5. CASE PutFails(a)
  <2>1. UNCHANGED <<boot, clock>>
    BY <1>5 DEF PutFails
  <2>2. CASE FinishThrows(a) /\ UNCHANGED daemon
    BY <2>1, <2>2, FinishThrowsSound DEF Since
  <2>3. CASE job' = [job EXCEPT ![a] = Idle] /\ UNCHANGED file /\ Since' = Since
    BY <1>1, <2>1, <2>3, OneJobSound, SoundIdle
  <2>4. CASE job[a].at = "recovering" /\ daemon' = "down"
    <3>1. a = Boot
      BY <2>4, StagesFitEach DEF StageFits, TickStages
    <3>2. Since' = Since
      BY <1>5, <2>4, <3>1 DEF Since, Phases, Idle
    <3>. QED  BY <1>5, <2>3, <2>4, <3>2 DEF PutFails
  <2>5. CASE UNCHANGED <<file, daemon>> /\ job' = [job EXCEPT ![a] = Idle]
    BY <2>1, <2>3, <2>5 DEF Since
  <2>. QED  BY <1>5, <2>2, <2>4, <2>5 DEF PutFails
<1>. QED  BY <1>3, <1>4, <1>5

\* A record that recovery passes over has no occurrence up to the start.
LEMMA CleanIsSound ==
    ASSUME TypeOK, Timetable, Phases, daemon = "recovering", NEW k \in Ids, ~Dirty(k),
           job[Boot].todo[k] = file[k]
    PROVE  Sound(file[k], clock, boot)
<1>1. Sound(file[k], clock, Since) /\ file[k] \in Schedules \cup Markers /\ boot \in Nat
  BY TimetableTypes DEF Timetable
<1>2. CASE file[k] \in Markers
  BY <1>2 DEF Sound
<1>3. CASE file[k] \in Schedules
  <2>1. file[k] \notin Markers /\ file[k] # None /\ file[k].next \in Nat \cup {None}
    BY <1>3, MarkersAssumption DEF Markers, Schedules
  <2>2. file[k].next # None => file[k].status = "active" /\ ~(file[k].next <= boot)
    BY <1>1, <2>1 DEF Sound, Dirty, Stale, Phases
  <2>. QED  BY <1>1, <2>1, <2>2 DEF Sound
<1>. QED  BY <1>1, <1>2, <1>3

\* When recovery is over everything in the files is later than the start.
LEMMA RecoverSound ==
    ASSUME TypeOK, Timetable, Phases, Recover
    PROVE  Timetable'
<1>1. /\ Boot \in Actors /\ job[Boot] \in Jobs /\ clock \in Nat /\ boot \in Nat /\ boot <= clock
      /\ SoundJob(job[Boot], clock, Since) /\ Since = -1 /\ UNCHANGED <<boot, clock, file>>
      /\ job[Boot].now = boot /\ daemon = "recovering" /\ job[Boot].io = "none"
  BY TimetableTypes DEF Actors, Timetable, Recover, Since, Phases
<1>2. CASE (\A i \in Ids : ~Dirty(i)) /\ job' = [job EXCEPT ![Boot] = Idle] /\ daemon' = "up"
  <2>1. \A i \in Ids : Sound(file[i], clock, boot)
    BY <1>1, <1>2, CleanIsSound DEF Phases
  <2>2. \A a \in Actors : job'[a] = Idle
    BY <1>1, <1>2 DEF Phases, Actors, TypeOK
  <2>3. Since' = boot
    BY <1>1, <1>2 DEF Since
  <2>. QED  BY <1>1, <2>1, <2>2, <2>3, SoundIdle DEF Timetable
<1>4. CASE job' = [job EXCEPT ![Boot] = Idle] /\ daemon' = "down"
  <2>1. Since' = Since
    BY <1>1, <1>4 DEF Since
  <2>. QED  BY <1>1, <1>4, <2>1, OneJobSound, SoundIdle DEF Timetable
<1>3. ASSUME NEW i \in Ids, Dirty(i), daemon' = daemon,
             NEW s \in Recovered(job[Boot].todo[i], job[Boot].now),
             job' = [job EXCEPT ![Boot] =
                 [Putting(@, "recovering", i, s) EXCEPT !.todo = Rest(Boot, i)]]
      PROVE  Timetable'
  <2> DEFINE j == [Putting(job[Boot], "recovering", i, s) EXCEPT !.todo = Rest(Boot, i)]
  <2>1. job[Boot].todo[i] \in Schedules /\ Sound(job[Boot].todo[i], clock, -1)
    BY <1>1, <1>3 DEF Dirty, Jobs, SoundJob
  <2>2. s \in Schedules /\ Sound(s, clock, Since)
    BY <1>1, <1>3, <2>1, RecoveredSound, RecoveredType
  <2>3. Putting(job[Boot], "recovering", i, s) \in Jobs
    BY <1>1, <2>2, PuttingType DEF Stages
  <2>4. SoundJob(Putting(job[Boot], "recovering", i, s), clock, Since)
    BY <1>1, <2>2, SoundPutting
  <2>5. SoundJob(j, clock, Since)
    BY <1>1, <2>3, <2>4, SoundRest
  <2>6. job' = [job EXCEPT ![Boot] = j] /\ Since' = Since
    BY <1>1, <1>3 DEF TypeOK, Since
  <2>. HIDE DEF j
  <2>. QED  BY <1>1, <2>5, <2>6, OneJobSound DEF Timetable
<1>. QED  BY <1>2, <1>3, <1>4 DEF Recover

\* Every step keeps the timetable of files, lists and puts.
LEMMA TimetableStep ==
    ASSUME TypeOK, StagesFit, Timetable, Phases, [Next]_vars
    PROVE  Timetable'
<1>1. /\ clock \in Nat /\ boot \in Nat /\ boot <= clock /\ Since \in Int /\ Since <= clock
      /\ \A i \in Ids : Sound(file[i], clock, Since)
      /\ \A a \in Actors : job[a] \in Jobs /\ SoundJob(job[a], clock, Since)
  BY TimetableTypes DEF Timetable
<1>2. \A m \in Markers : Sound(m, clock, Since)
  BY DEF Sound
<1>3. ASSUME NEW r \in Requests, NEW i \in Ids, Create(r, i) PROVE Timetable'
  <2>1. NewSchedule(clock) \in Schedules
    BY <1>1, CapIsNat, CadenceAssumption DEF NewSchedule, Schedules
  <2>2. Sound(NewSchedule(clock), clock, Since)
    BY <1>1, CadenceAssumption, LimitsAssumption DEF NewSchedule, Sound
  <2>. QED  BY <1>3, <2>1, <2>2, SavesSound DEF Create
<1>4. ASSUME NEW r \in Requests, NEW i \in Ids, Pause(r, i) PROVE Timetable'
  <2> DEFINE s == [file[i] EXCEPT !.status = "paused", !.next = None]
  <2>1. s \in Schedules /\ s.status = "paused" /\ s.next = None
    BY <1>4, ReadableIsRecord DEF Pause, Schedules
  <2>. HIDE DEF s
  <2>2. Sound(s, clock, Since)
    BY <2>1 DEF Sound
  <2>. QED  BY <1>4, <2>1, <2>2, SavesSound DEF Pause, s
<1>5. ASSUME NEW r \in Requests, NEW i \in Ids, Resume(r, i) PROVE Timetable'
  <2> DEFINE next == clock + Every
             s    == [file[i] EXCEPT !.status = "active", !.next = next]
  <2>1. next \in Nat /\ next > Since /\ next # None
    BY <1>1, CadenceAssumption, LimitsAssumption
  <2>2. s \in Schedules /\ s.status = "active" /\ s.next = next
    BY <1>5, <2>1, ReadableIsRecord DEF Resume, Schedules
  <2>. HIDE DEF s, next
  <2>3. Sound(s, clock, Since)
    BY <2>1, <2>2 DEF Sound
  <2>. QED  BY <1>5, <2>2, <2>3, SavesSound DEF Resume, s, next
<1>6. ASSUME NEW r \in Requests, NEW i \in Ids, Delete(r, i) PROVE Timetable'
  <2>1. \A k \in Ids : Sound(file'[k], clock, Since)
    BY <1>1, <1>2, <1>6 DEF Delete, TypeOK, Markers
  <2>2. \A a \in Actors : SoundJob([job[a] EXCEPT !.io = "unlinked"], clock, Since)
    BY <1>1 DEF SoundJob, Jobs
  <2>3. \A a \in Actors : SoundJob(job'[a], clock, Since)
    BY <1>1, <1>6, <2>2 DEF Delete
  <2>. QED  BY <1>1, <1>6, <2>1, <2>3 DEF Delete, Timetable, Since
<1>7. ASSUME NEW t \in Ticks, TickLists(t) PROVE Timetable'
  <2>1. t \in Actors /\ job[t] \in Jobs /\ job[t].at = "listing"
    BY <1>1, <1>7 DEF Actors, TickLists
  <2> DEFINE jl == [job[t] EXCEPT !.at = "looping", !.todo = Listed]
  <2>2. \A i \in Ids : Sound(Listed[i], clock, Since)
    BY <1>1, <1>2 DEF Listed, Markers
  <2>3. SoundJob(jl, clock, Since)
    BY <1>1, <2>1, <2>2 DEF SoundJob, Jobs
  <2>. HIDE DEF jl
  <2>4. PICK j : job' = [job EXCEPT ![t] = j] /\ (j = Idle \/ j = jl)
    BY <1>7, <2>1 DEF TickLists, jl
  <2>5. SoundJob(j, clock, Since)
    BY <1>1, <2>3, <2>4, SoundIdle
  <2>. QED  BY <1>1, <1>7, <2>1, <2>4, <2>5, OneJobSound DEF TickLists, Since
<1>8. ASSUME NEW t \in Ticks, TickStarts(t) PROVE Timetable'
  <2> DEFINE j == [Idle EXCEPT !.at = "listing", !.now = clock]
  <2>1. SoundJob(j, clock, Since)
    BY <1>1, <1>2 DEF SoundJob, Idle, Markers
  <2>. HIDE DEF j
  <2>2. t \in Actors /\ job' = [job EXCEPT ![t] = j]
    BY <1>8 DEF TickStarts, Actors, j
  <2>. QED  BY <1>1, <1>8, <2>1, <2>2, OneJobSound DEF TickStarts, Since
<1>9. ASSUME NEW t \in Ticks, RunnerEnds(t) PROVE Timetable'
  <2>1. PICK outcome : job' = [job EXCEPT ![t].at = "finishing", ![t].outcome = outcome]
    BY <1>9 DEF RunnerEnds
  <2> DEFINE j == [job[t] EXCEPT !.at = "finishing", !.outcome = outcome]
  <2>2. t \in Actors /\ job' = [job EXCEPT ![t] = j]
    BY <2>1 DEF TypeOK, Actors
  <2>3. SoundJob(j, clock, Since)
    BY <1>1, <2>2 DEF SoundJob, Jobs
  <2>. HIDE DEF j
  <2>. QED  BY <1>1, <1>9, <2>2, <2>3, OneJobSound DEF RunnerEnds, Since
<1>10. ASSUME NEW t \in Ticks, FinishRun(t) PROVE Timetable'
  <2> DEFINE i == job[t].id
             s == Rearm(EndRun(file[i], t), clock)
  <2>0. t \in Actors /\ i \in Ids
    BY <1>10 DEF Actors, FinishRun, TypeOK, RunStages
  <2>1. CASE Readable(i) /\ job' = [job EXCEPT ![t] = Putting(@, "recording", i, s)]
             /\ UNCHANGED file
    <3>1. file[i] \in Schedules /\ EndRun(file[i], t) \in Schedules
      BY <2>0, <2>1, ReadableIsRecord, EndRunType
    <3>2. Sound(EndRun(file[i], t), clock, Since)
      BY <1>1, <2>0, <3>1, EndRunSound
    <3>3. Sound(s, clock, Since)
      BY <1>1, <3>1, <3>2, RearmSound
    <3>. HIDE DEF s
    <3>4. SoundJob(Putting(job[t], "recording", i, s), clock, Since)
      BY <1>1, <2>0, <3>3, SoundPutting
    <3>. QED  BY <1>1, <1>10, <2>0, <2>1, <3>4, OneJobSound DEF FinishRun, Since
  <2>2. CASE FinishThrows(t)
    BY <1>10, <2>0, <2>2, FinishThrowsSound DEF FinishRun, Since
  <2>. QED  BY <1>10, <2>1, <2>2 DEF FinishRun
<1>11. CASE Starts
  <2>1. Since = -1 /\ Since' = -1 /\ clock' = clock /\ boot' = clock /\ file' = file
    BY <1>11 DEF Starts, Since
  <2> DEFINE j == [Idle EXCEPT !.at = "recovering", !.todo = Listed, !.now = clock]
  <2>2. SoundJob(j, clock, Since)
    <3>1. \A i \in Ids : Sound(Listed[i], clock, Since)
      BY <1>1, <1>2 DEF Listed, Markers
    <3>. QED  BY <1>1, <1>2, <3>1 DEF SoundJob, Idle, Markers
  <2>3. job' = [job EXCEPT ![Boot] = j]
    BY <1>11 DEF Starts
  <2>. HIDE DEF j
  <2>. QED  BY <1>1, <2>1, <2>2, <2>3 DEF Timetable, TypeOK
<1>12. CASE Crash
  <2>1. \A i \in Ids : Sound(file'[i], clock, -1)
    <3>1. \A i \in Ids : Sound(file[i], clock, -1)
      BY <1>1, SoundLater, TimetableTypes
    <3>. QED  BY <1>1, <1>12, <3>1, LoseSound, TimetableTypes DEF Crash
  <2>2. Since' = -1 /\ UNCHANGED <<boot, clock>> /\ \A a \in Actors : job'[a] = Idle
    BY <1>12 DEF Crash, Since
  <2>. QED  BY <1>1, <2>1, <2>2, SoundIdle DEF Timetable
<1>13. CASE ClockAdvances
  <2>1. clock' \in Nat /\ clock <= clock' /\ Since' = Since /\ UNCHANGED <<file, job, boot>>
    BY <1>1, <1>13 DEF ClockAdvances, Since
  <2>2. \A i \in Ids : Sound(file[i], clock', Since)
    BY <1>1, <2>1, SoundLater, TimetableTypes
  <2>3. \A a \in Actors : SoundJob(job[a], clock', Since)
    BY <1>1, <2>1, SoundJobLater
  <2>. QED  BY <1>1, <2>1, <2>2, <2>3 DEF Timetable
<1>14. CASE UNCHANGED vars
  BY <1>14 DEF vars, Timetable, Since
<1>. QED  BY <1>3, <1>4, <1>5, <1>6, <1>7, <1>8, <1>9, <1>10, <1>11, <1>12, <1>13,
             <1>14, StoreSound, TickGoesOnSound, RecoverSound DEF Next, Store, RequestStep

\* Steps of ticks and requests happen while the daemon is up, and are none of
\* recovery's business.
LEMMA LosingIdle == ASSUME NEW T PROVE Losing(Idle, T) = Idle
<1>1. Lose(None, T) = None
  BY DEF Lose, Markers
<1>2. Idle.put = None /\ Idle.todo = [i \in Ids |-> None]
  BY DEF Idle
<1>3. [i \in Ids |-> Lose(Idle.todo[i], T)] = Idle.todo
  BY <1>1, <1>2
<1>4. Losing(Idle, T) = [Idle EXCEPT !.put = Idle.put, !.todo = Idle.todo]
  BY <1>1, <1>2, <1>3 DEF Losing
<1>. QED  BY <1>4 DEF Idle

\* A step of a tick or a request keeps the phases of the process.
LEMMA UpStaysUp ==
    ASSUME TypeOK, Phases, NEW a \in Ticks \cup Requests,
           daemon = "up" \/ job[a] # Idle, daemon' = daemon,
           \/ \E j : job' = [job EXCEPT ![a] = j]
           \/ \E T, j : RunsOver(T, a, j)
    PROVE  Phases'
<1>1. /\ daemon = "up" /\ a # Boot /\ a \in Actors /\ Boot \in Actors
      /\ job[Boot] = Idle
  BY WhoIsBusy, ActorsAssumption DEF Actors, Phases
<1>2. job'[Boot] = Idle
  BY <1>1, LosingIdle DEF RunsOver, TypeOK
<1>. QED  BY <1>1, <1>2 DEF Phases

\* So does a throwing finishRun.
LEMMA FinishThrowsPhases ==
    ASSUME TypeOK, Phases, NEW a \in Ticks, job[a] # Idle, FinishThrows(a), daemon' = daemon
    PROVE  Phases'
<1>1. CASE job' = [job EXCEPT ![a].at = "finishing", ![a].outcome = "failed",
                             ![a].io = "none", ![a].put = None]
  <2>1. job' = [job EXCEPT ![a] = [job[a] EXCEPT !.at = "finishing", !.outcome = "failed",
                                                 !.io = "none", !.put = None]]
    BY <1>1 DEF TypeOK
  <2>. QED  BY <2>1, UpStaysUp
<1>2. CASE RunsOver({a}, a, Idle)
  BY <1>2, UpStaysUp
<1>. QED  BY <1>1, <1>2 DEF FinishThrows

\* Recovery's own writes.
LEMMA BootPhases ==
    ASSUME TypeOK, StagesFit, Phases, job[Boot] # Idle,
           FileOpened(Boot) \/ FileWritten(Boot) \/ PutFails(Boot)
    PROVE  Phases'
<1>1. /\ Boot \in Actors /\ daemon = "recovering" /\ clock' = clock /\ boot' = boot
      /\ job[Boot] \in Jobs
      /\ Sound(job[Boot].put, clock, boot) /\ job[Boot].now = boot /\ job[Boot].io # "unlinked"
      /\ job[Boot].id \in Ids /\ job[Boot].io # "none" /\ job[Boot].at \in PutStages
  BY ActorsAssumption DEF Actors, Phases, FileOpened, FileWritten, PutFails, TypeOK
<1>2. job[Boot].at = "recovering"
  BY <1>1 DEF StagesFit, PutStages
<1>3. CASE FileOpened(Boot)
  <2>1. \A a \in Actors \ {Boot} : job'[a] = job[a]
    BY <1>3 DEF FileOpened, TypeOK
  <2>2. job'[Boot] = [job[Boot] EXCEPT !.io = "open"]
    BY <1>1, <1>3 DEF FileOpened, TypeOK
  <2>3. /\ job'[Boot].now = boot /\ job'[Boot].io = "open" /\ job'[Boot].put = job[Boot].put
        /\ job'[Boot].id = job[Boot].id /\ job'[Boot].todo = job[Boot].todo
    BY <1>1, <2>2 DEF Jobs
  <2>4. \A i \in Ids : i # job[Boot].id => file'[i] = file[i]
    BY <1>3 DEF FileOpened, TypeOK
  <2>. QED  BY <1>1, <1>3, <2>1, <2>3, <2>4, ActorsAssumption DEF Phases, FileOpened, Actors
<1>4. CASE FileWritten(Boot)
  <2>1. \A a \in Actors \ {Boot} : job'[a] = job[a]
    BY <1>4 DEF FileWritten, TypeOK
  <2>2. job'[Boot] = AfterPut(job[Boot])
    BY <1>1, <1>4 DEF FileWritten, TypeOK
  <2>3. /\ job'[Boot].now = boot /\ job'[Boot].io = "none"
        /\ job'[Boot].todo = job[Boot].todo
    BY <1>1, <1>2, <2>2 DEF Jobs, AfterPut
  <2>4. \A i \in Ids : i # job[Boot].id => file'[i] = file[i]
    BY <1>4 DEF FileWritten, TypeOK
  <2>5. file'[job[Boot].id] \in {job[Boot].put, Corrupt}
    BY <1>1, <1>4 DEF FileWritten, Overwrites, TypeOK
  <2>6. Sound(file'[job[Boot].id], clock, boot)
    BY <1>1, <2>5 DEF Sound, Markers
  <2>. QED  BY <1>1, <1>4, <2>1, <2>3, <2>4, <2>6, ActorsAssumption DEF Phases, FileWritten, Actors
<1>5. CASE PutFails(Boot)
  <2>1. job' = [job EXCEPT ![Boot] = Idle] /\ daemon' = "down"
    BY <1>2, <1>5 DEF PutFails
  <2>. QED  BY <1>1, <2>1, ActorsAssumption DEF Phases, Actors, TypeOK
<1>. QED  BY <1>3, <1>4, <1>5

\* So does every step of the store, recovery's own ones included.
LEMMA StorePhases ==
    ASSUME TypeOK, StagesFit, Phases, NEW a \in Actors,
           FileOpened(a) \/ FileWritten(a) \/ PutFails(a)
    PROVE  Phases'
<1>1. job[a] # Idle /\ StageFits(a, job[a].at)
  BY StagesFitEach DEF FileOpened, FileWritten, PutFails, Idle
<1>2. CASE a = Boot
  BY <1>1, <1>2, BootPhases
<1>3. CASE a \in Ticks \cup Requests
  <2>1. a # Boot
    BY <1>3, ActorsAssumption
  <2>2. CASE FileOpened(a)
    <3>1. job' = [job EXCEPT ![a] = [job[a] EXCEPT !.io = "open"]] /\ daemon' = daemon
      BY <2>2 DEF FileOpened, TypeOK
    <3>. QED  BY <1>1, <1>3, <3>1, UpStaysUp
  <2>3. CASE FileWritten(a)
    BY <1>1, <1>3, <2>3, UpStaysUp DEF FileWritten
  <2>4. CASE FinishThrows(a) /\ job[a].at = "recording" /\ UNCHANGED daemon
    BY <1>1, <2>1, <2>4, FinishThrowsPhases DEF StageFits
  <2>5. CASE job' = [job EXCEPT ![a] = Idle] /\ UNCHANGED daemon
    BY <1>1, <1>3, <2>5, UpStaysUp
  <2>6. job[a].at # "recovering"
    BY <1>1, <2>1 DEF StageFits, TickStages
  <2>. QED  BY <2>2, <2>3, <2>4, <2>5, <2>6 DEF PutFails
<1>. QED  BY <1>2, <1>3 DEF Actors

\* Recovery writes what is not past boot, or comes up with none left.
LEMMA RecoverPhases ==
    ASSUME TypeOK, Timetable, Phases, Recover
    PROVE  Phases'
<1>1. /\ Boot \in Actors /\ daemon = "recovering" /\ UNCHANGED <<clock, boot, file>>
      /\ job[Boot] \in Jobs /\ job[Boot].now = boot /\ job[Boot].io = "none"
      /\ clock \in Nat /\ boot \in Nat /\ boot <= clock /\ SoundJob(job[Boot], clock, -1)
  BY TimetableTypes DEF Actors, Phases, Recover, Timetable, Since
<1>2. CASE job' = [job EXCEPT ![Boot] = Idle] /\ daemon' = "up"
  BY <1>1, <1>2 DEF Phases, TypeOK
<1>4. CASE job' = [job EXCEPT ![Boot] = Idle] /\ daemon' = "down"
  BY <1>1, <1>4, ActorsAssumption DEF Phases, Actors, TypeOK
<1>3. ASSUME NEW i \in Ids, Dirty(i), \A k \in Ids : k < i => ~Dirty(k), daemon' = daemon,
             NEW s \in Recovered(job[Boot].todo[i], job[Boot].now),
             job' = [job EXCEPT ![Boot] =
                 [Putting(@, "recovering", i, s) EXCEPT !.todo = Rest(Boot, i)]]
      PROVE  Phases'
  <2>1. job[Boot].todo[i] \in Schedules /\ Sound(job[Boot].todo[i], clock, -1)
    BY <1>1, <1>3 DEF Dirty, Jobs, SoundJob
  <2>2. Sound(s, clock, boot)
    BY <1>1, <1>3, <2>1, RecoveredSound
  <2>3. job'[Boot] = [Putting(job[Boot], "recovering", i, s) EXCEPT !.todo = Rest(Boot, i)]
    BY <1>1, <1>3 DEF TypeOK
  <2>4. /\ job'[Boot].now = boot /\ job'[Boot].io = "asked" /\ job'[Boot].put = s
        /\ job'[Boot].id = i /\ job'[Boot].todo = Rest(Boot, i)
    BY <1>1, <2>3 DEF Jobs, Putting
  <2>5. ASSUME NEW k \in Ids, k # i
        PROVE  Sound(file[k], clock, boot) \/ Rest(Boot, i)[k] = file[k]
    <3>1. CASE k > i
      BY <1>1, <3>1 DEF Phases, Rest
    <3>2. CASE k < i
      BY <1>1, <1>3, <3>2, CleanIsSound DEF Phases
    <3>3. i \in Int /\ k \in Int
      BY IdsAssumption
    <3>4. k < i \/ k > i
      BY <2>5, <3>3
    <3>. QED  BY <3>1, <3>2, <3>4
  <2>6. \A a \in Ticks \cup Requests : job'[a] = job[a]
    BY <1>3, ActorsAssumption DEF TypeOK, Actors
  <2>. QED  BY <1>1, <1>3, <2>2, <2>4, <2>5, <2>6 DEF Phases
<1>. QED  BY <1>2, <1>3, <1>4 DEF Recover

\* Every step keeps the phases of the process.
LEMMA PhasesStep ==
    ASSUME TypeOK, StagesFit, Timetable, Phases, [Next]_vars
    PROVE  Phases'
<1>1. ASSUME NEW r \in Requests, NEW i \in Ids, NEW s, Saves(r, i, s), daemon = "up"
      PROVE  Phases'
  BY <1>1, UpStaysUp DEF Saves
<1>2. ASSUME NEW r \in Requests, NEW i \in Ids, Create(r, i) \/ Pause(r, i) \/ Resume(r, i)
      PROVE  Phases'
  BY <1>1, <1>2 DEF Create, Pause, Resume, Request
<1>3. ASSUME NEW r \in Requests, NEW i \in Ids, Delete(r, i) PROVE Phases'
  <2>1. daemon = "up" /\ daemon' = "up" /\ job[Boot] = Idle
    BY <1>3 DEF Delete, Request, Phases
  <2>2. job'[Boot] = Idle
    BY <1>3, <2>1 DEF Delete, Actors, Idle
  <2>. QED  BY <2>1, <2>2 DEF Phases
<1>4. ASSUME NEW t \in Ticks, TickStarts(t) PROVE Phases'
  BY <1>4, UpStaysUp DEF TickStarts
<1>12. ASSUME NEW t \in Ticks, TickLists(t) PROVE Phases'
  <2>1. job[t] # Idle /\ daemon' = daemon
    BY <1>12 DEF TickLists, Idle
  <2>2. \E j : job' = [job EXCEPT ![t] = j]
    <3> DEFINE jl == IF Listable THEN [job[t] EXCEPT !.at = "looping", !.todo = Listed] ELSE Idle
    <3>1. job' = [job EXCEPT ![t] = jl]
      BY <1>12 DEF TickLists, TypeOK, Actors
    <3>. QED  BY <3>1
  <2>. QED  BY <2>1, <2>2, UpStaysUp
<1>5. ASSUME NEW t \in Ticks, TickGoesOn(t) PROVE Phases'
  <2>1. job[t] # Idle /\ daemon' = daemon
    BY <1>5 DEF TickGoesOn, Idle
  <2>2. \E T, j : RunsOver(T, t, j)
    BY <1>5 DEF TickGoesOn
  <2>. QED  BY <2>1, <2>2, UpStaysUp
<1>6. ASSUME NEW t \in Ticks, RunnerEnds(t) PROVE Phases'
  <2>1. PICK outcome : job' = [job EXCEPT ![t].at = "finishing", ![t].outcome = outcome]
    BY <1>6 DEF RunnerEnds
  <2>2. job' = [job EXCEPT ![t] = [job[t] EXCEPT !.at = "finishing", !.outcome = outcome]]
    BY <2>1 DEF TypeOK, Actors
  <2>3. job[t] # Idle /\ daemon' = daemon
    BY <1>6 DEF RunnerEnds, Idle
  <2>. QED  BY <2>2, <2>3, UpStaysUp
<1>7. ASSUME NEW t \in Ticks, FinishRun(t) PROVE Phases'
  <2>1. job[t] # Idle /\ daemon' = daemon
    BY <1>7 DEF FinishRun, Idle
  <2>2. \/ FinishThrows(t)
        \/ \E j : job' = [job EXCEPT ![t] = j]
    <3>1. ASSUME NEW s, job' = [job EXCEPT ![t] = Putting(@, "recording", job[t].id, s)]
          PROVE  job' = [job EXCEPT ![t] = Putting(job[t], "recording", job[t].id, s)]
      BY <3>1 DEF TypeOK, Actors
    <3>. QED  BY <1>7, <3>1 DEF FinishRun
  <2>. QED  BY <2>1, <2>2, UpStaysUp, FinishThrowsPhases
<1>8. CASE Starts
  <2>1. \A a \in Ticks \cup Requests : job'[a] = Idle
    BY <1>8, ActorsAssumption DEF Starts, Phases, TypeOK, Actors
  <2>2. job'[Boot] = [Idle EXCEPT !.at = "recovering", !.todo = Listed, !.now = clock]
    BY <1>8 DEF Starts, TypeOK, Actors
  <2>3. /\ job'[Boot].now = clock /\ job'[Boot].io = "none" /\ job'[Boot].todo = Listed
    BY <2>2 DEF Idle
  <2>4. \A i \in Ids : Sound(file[i], clock, clock) \/ Listed[i] = file[i]
    BY DEF Listed, Readable, Sound, Markers
  <2>. QED  BY <1>8, <2>1, <2>3, <2>4 DEF Starts, Phases
<1>9. CASE Crash
  BY <1>9 DEF Crash, Phases, Actors
<1>10. CASE ClockAdvances
  <2>1. /\ clock' \in Nat /\ clock \in Nat /\ clock <= clock' /\ boot \in Int /\ boot \in Nat
        /\ UNCHANGED <<file, job, daemon, boot>>
    BY <1>10, TimetableTypes DEF ClockAdvances, Timetable
  <2>2. \A i \in Ids : Sound(file[i], clock, boot) => Sound(file[i], clock', boot)
    BY <2>1, SoundLater, TimetableTypes DEF Timetable
  <2>3. Boot \in Actors /\ job[Boot].put \in Schedules \cup Markers
    BY DEF Actors, TypeOK, Jobs, Markers
  <2>4. Sound(job[Boot].put, clock, boot) => Sound(job[Boot].put, clock', boot)
    BY <2>1, <2>3, SoundLater
  <2>. QED  BY <2>1, <2>2, <2>4 DEF Phases
<1>11. CASE UNCHANGED vars
  BY <1>11 DEF vars, Phases
<1>. QED  BY <1>2, <1>3, <1>4, <1>5, <1>6, <1>7, <1>8, <1>9, <1>10, <1>11, <1>12,
             StorePhases, RecoverPhases DEF Next, Store, RequestStep

\* At first there are no records, and the process is down.
LEMMA InitTimetable == Init => Timetable /\ Phases
<1>1. \A i \in Ids : Sound(Absent, 0, -1)
  BY DEF Sound, Markers
<1>. QED  BY <1>1, SoundIdle DEF Init, Timetable, Phases, Since, Actors

\* The timetable, with all that its induction needs, always holds.
LEMMA TimetableHolds == Spec => [](TypeOK /\ StagesFit /\ Timetable /\ Phases)
<1>1. TypeOK /\ StagesFit /\ Timetable /\ Phases /\ [Next]_vars
        => (StagesFit /\ Timetable /\ Phases)'
  BY StepRuns, TimetableStep, PhasesStep
<1>. QED
  BY <1>1, InitRuns, InitTimetable, TypeCorrect, PTL DEF Spec

\* Whatever interleaves: a stored schedule has a next occurrence exactly while
\* it is active.
THEOREM ActiveMeansArmedHolds == Spec => []ActiveMeansArmed
<1>1. TypeOK /\ Timetable => ActiveMeansArmed
  BY ReadableIsRecord, MarkersAssumption DEF Timetable, Sound, ActiveMeansArmed
<1>. QED
  BY <1>1, TimetableHolds, PTL

\* Whatever interleaves, fails or crashes: a run that starts is for an
\* occurrence later than the start of the daemon.
THEOREM MissedOccurrencesAreSkippedHolds == Spec => []MissedOccurrencesAreSkipped
<1>1. ASSUME TypeOK, Timetable, Phases, NEW t \in Ticks, job[t].at = "starting"
      PROVE  job[t].put.next > boot
  <2>1. t \in Actors /\ job[t] # Idle /\ t # Boot
    BY <1>1, ActorsAssumption DEF Actors, Idle
  <2>2. Since = boot
    BY <1>1, <2>1, WhoIsBusy DEF Since
  <2>3. SoundJob(job[t], clock, boot)
    BY <1>1, <2>1, <2>2 DEF Timetable
  <2>. QED  BY <1>1, <2>3, MarkersAssumption DEF SoundJob, Sound
<1>2. TypeOK /\ Timetable /\ Phases => MissedOccurrencesAreSkipped
  BY <1>1 DEF MissedOccurrencesAreSkipped
<1>. QED
  BY <1>2, TimetableHolds, PTL
=============================================================================
