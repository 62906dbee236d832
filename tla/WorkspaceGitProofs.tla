-------------------------- MODULE WorkspaceGitProofs --------------------------
(* Reads forced after a mutation are fresh, and unless their target was       *)
(* closed while it was set up subscribers are registered and show its         *)
(* snapshot, for any number of targets, subscribers, readers, changes and     *)
(* failures.                                                                  *)
EXTENDS WorkspaceGit, TLAPS

------------------------------------------------------------------------------
(* The invariant.                                                             *)

TargetType ==
    [phase : {"unused", "loading", "probing", "ready", "failed", "removed"},
     listeners : SUBSET Subs, watching : BOOLEAN,
     debounce : {None, "forced", "unforced"}, heal : BOOLEAN,
     refresh : Refresh \cup {None}, snapshot : Versions \cup {None},
     warm : BOOLEAN, throttled : BOOLEAN, dropped : BOOLEAN]

\* In a repository of version v: what a refresh has read is not older than its
\* beginning, and a target that was never used has nothing.
Fine(x, v) ==
    /\ x.refresh # None =>
         /\ x.refresh.queued => ~x.refresh.force
         /\ x.refresh.began <= v
         /\ x.refresh.read # None => x.refresh.began <= x.refresh.read /\ x.refresh.read <= v
    /\ x.phase = "unused" => x = Unused

\* Whoever needs what the repository was at version v will get it from the
\* refresh of x, or from the one queued behind it.
Serves(x, v) ==
    x.refresh # None /\ (x.refresh.queued \/ (x.refresh.force /\ v <= x.refresh.began))

TargetsFine ==
    /\ \A t \in Targets : Fine(target[t], repo)
    /\ current # None => target[current].phase # "unused"

ReadersServed ==
    \A r \in Readers :
        /\ reader[r].at = "reading" => /\ reader[r].of \in Targets /\ reader[r].since \in Versions
                                       /\ reader[r].since <= repo
                                       /\ Serves(target[reader[r].of], reader[r].since)
        /\ reader[r].at = "ensuring" => reader[r].of \in Targets

\* What is set up is the current target, or was dropped; subscribers are
\* listeners of the current target, or theirs was dropped.
WellHeld ==
    /\ \A t \in Targets : target[t].phase \in {"loading", "probing"} => setup = t
    /\ setup # None => current = setup \/ (current = None /\ target[setup].dropped)
    /\ current # None => ~target[current].dropped
    /\ \A s \in Subs :
         /\ sub[s].at \in {"in", "loading"} =>
              sub[s].of \in Targets /\ (target[sub[s].of].dropped \/ Registered(s))
         /\ sub[s].at = "ensuring" => setup # None /\ sub[s].of = setup

Inv == TypeOK /\ TargetsFine /\ ReadersServed /\ ForcedReadsAreFresh /\ WellHeld

------------------------------------------------------------------------------
(* Targets that go on.                                                        *)

LEMMA Typed ==
    ASSUME Inv
    PROVE  /\ repo \in Versions /\ repo \in Nat /\ failures \in 0..MaxFailures /\ fetches \in BOOLEAN
           /\ current \in Targets \cup {None} /\ setup \in Targets \cup {None}
           /\ target \in [Targets -> TargetType] /\ \A t \in Targets : target[t] \in TargetType
           /\ sub \in [Subs -> [at : {"out", "ensuring", "loading", "in"},
                                of : Targets \cup {None}, saw : Versions \cup {None}]]
           /\ reader \in [Readers -> [at : {"out", "ensuring", "reading", "done"},
                                      of : Targets \cup {None}, since : Versions \cup {None},
                                      got : Versions \cup {None}]]
<1>1. target \in [Targets -> TargetType]
  BY DEF Inv, TypeOK, TargetType
<1>2. repo \in Versions /\ repo \in Nat
  BY ConstantsAssumption DEF Inv, TypeOK, Versions
<1>. QED  BY <1>1, <1>2 DEF Inv, TypeOK

\* A step of a target that keeps who listens to it and serves who waits for it.
Keeps(x, y, v) ==
    /\ y \in TargetType /\ y.phase = x.phase /\ y.listeners = x.listeners /\ Fine(y, v)
    /\ y.dropped = x.dropped
    /\ \A s \in Versions : s <= repo /\ Serves(x, s) => Serves(y, s)

TargetsKeep ==
    /\ target' \in [Targets -> TargetType]
    /\ \A t \in Targets : Keeps(target[t], target'[t], repo')
    /\ repo' \in Versions /\ repo <= repo'

LEMMA TargetsKeepKeeps ==
    ASSUME Inv, TargetsKeep, UNCHANGED <<current, setup, fetches, sub, reader, failures>>
    PROVE  Inv'
<1>1. TypeOK'
  <2>1. \A t \in Targets : target'[t].refresh # None /\ target'[t].refresh.queued =>
                             ~target'[t].refresh.force
    BY DEF TargetsKeep, Keeps, Fine
  <2>. QED  BY <2>1, Typed DEF TargetsKeep, TypeOK, TargetType
<1>2. TargetsFine'
  <2>1. current \in Targets \cup {None}
    BY Typed
  <2>2. current # None => target'[current].phase # "unused"
    BY <2>1 DEF Inv, TargetsFine, TargetsKeep, Keeps
  <2>. QED  BY <2>2 DEF TargetsFine, TargetsKeep, Keeps
<1>3. ReadersServed'
  <2> SUFFICES ASSUME NEW r \in Readers
               PROVE  /\ reader[r].at = "reading" =>
                            /\ reader[r].of \in Targets /\ reader[r].since \in Versions
                            /\ reader[r].since <= repo'
                            /\ Serves(target'[reader[r].of], reader[r].since)
                      /\ reader[r].at = "ensuring" => reader[r].of \in Targets
    BY DEF ReadersServed
  <2>1. repo \in Nat /\ repo' \in Nat /\ Versions \subseteq Nat
    BY Typed DEF TargetsKeep, Versions
  <2>2. CASE reader[r].at = "reading"
    <3>1. /\ reader[r].of \in Targets /\ reader[r].since \in Versions /\ reader[r].since <= repo
          /\ Serves(target[reader[r].of], reader[r].since)
      BY <2>2 DEF Inv, ReadersServed
    <3>2. Serves(target'[reader[r].of], reader[r].since)
      BY <3>1 DEF TargetsKeep, Keeps
    <3>3. reader[r].since <= repo'
      <4>1. repo <= repo' /\ reader[r].since \in Nat
        BY <2>1, <3>1 DEF TargetsKeep
      <4>. QED  BY <2>1, <3>1, <4>1
    <3>. QED  BY <2>2, <3>1, <3>2, <3>3
  <2>3. reader[r].at = "ensuring" => reader[r].of \in Targets
    BY DEF Inv, ReadersServed
  <2>. QED  BY <2>2, <2>3
<1>4. ForcedReadsAreFresh'
  BY DEF Inv, ForcedReadsAreFresh
<1>5. WellHeld'
  <2>1. current \in Targets \cup {None} /\ setup \in Targets \cup {None}
    BY Typed
  <2>2. \A u \in Targets : /\ target'[u].phase = target[u].phase
                           /\ target'[u].listeners = target[u].listeners
                           /\ target'[u].dropped = target[u].dropped
    BY DEF TargetsKeep, Keeps
  <2>. QED  BY <2>1, <2>2, NoneAssumption DEF Inv, WellHeld, Registered
<1>. QED  BY <1>1, <1>2, <1>3, <1>4, <1>5 DEF Inv

\* What the helpers make of a target in use.
LEMMA StartedIs ==
    ASSUME NEW x \in TargetType, NEW f \in BOOLEAN, NEW n \in BOOLEAN, repo \in Versions
    PROVE  /\ Started(x, f, n) \in TargetType /\ Started(x, f, n).phase = x.phase
           /\ Started(x, f, n).listeners = x.listeners /\ Started(x, f, n).dropped = x.dropped
           /\ Started(x, f, n).refresh # None
           /\ Started(x, f, n).refresh.force = f /\ Started(x, f, n).refresh.began = repo
           /\ Started(x, f, n).refresh.read = None /\ Started(x, f, n).refresh.queued = FALSE
<1> DEFINE r == [force |-> f, notify |-> n, began |-> repo, read |-> None, queued |-> FALSE]
           y == [x EXCEPT !.throttled = TRUE, !.refresh = r]
<1>1. r \in Refresh /\ r # None
  <2>1. r \in Refresh
    BY DEF Refresh
  <2>. HIDE DEF r
  <2>. QED  BY <2>1, NoneAssumption
<1>2. Started(x, f, n) = y
  BY DEF Started
<1>3. y.refresh = r /\ y.phase = x.phase /\ y.listeners = x.listeners /\ y.dropped = x.dropped
  BY DEF TargetType
<1>4. y \in TargetType
  <2>. HIDE DEF r
  <2>. QED  BY <1>1 DEF TargetType
<1>. QED  BY <1>1, <1>2, <1>3, <1>4

LEMMA RequestedKeeps ==
    ASSUME Inv, NEW x \in TargetType, NEW f \in BOOLEAN, Fine(x, repo), x.phase # "unused"
    PROVE  /\ Keeps(x, Requested(x, f), repo)
           /\ Requested(x, TRUE).refresh # None
<1>1. repo \in Versions /\ repo \in Nat /\ Versions \subseteq Nat
  BY Typed DEF Versions
<1>2. CASE x.refresh # None
  <2> DEFINE q == x.refresh.queued \/ (f /\ ~x.refresh.force)
             y == [x EXCEPT !.refresh.queued = @ \/ (f /\ ~x.refresh.force)]
  <2>1. x.refresh \in Refresh
    BY <1>2 DEF TargetType
  <2>2. q \in BOOLEAN /\ (x.refresh.queued => q)
    BY <2>1 DEF Refresh
  <2>3. y = [x EXCEPT !.refresh = [x.refresh EXCEPT !.queued = q]]
    BY <1>2, <2>1 DEF TargetType
  <2>4. /\ y \in TargetType /\ y.phase = x.phase /\ y.listeners = x.listeners
        /\ y.dropped = x.dropped /\ y.refresh = [x.refresh EXCEPT !.queued = q] /\ y.refresh \in Refresh
    <3>1. [x.refresh EXCEPT !.queued = q] \in Refresh
      BY <2>1, <2>2 DEF Refresh
    <3>. HIDE DEF q, y
    <3>. QED  BY <2>3, <3>1 DEF TargetType
  <2>5. /\ y.refresh.force = x.refresh.force /\ y.refresh.began = x.refresh.began
        /\ y.refresh.read = x.refresh.read /\ (y.refresh.queued <=> q) /\ y.refresh # None
    BY <2>1, <2>2, <2>4, NoneAssumption DEF Refresh
  <2>6. Requested(x, f) = y /\ Requested(x, TRUE).refresh # None
    <3>1. [x.refresh EXCEPT !.queued = @ \/ ~x.refresh.force] \in Refresh
      BY <2>1 DEF Refresh
    <3>2. Requested(x, TRUE).refresh = [x.refresh EXCEPT !.queued = @ \/ (TRUE /\ ~x.refresh.force)]
      BY <1>2 DEF Requested, TargetType
    <3>3. Requested(x, TRUE).refresh \in Refresh
      BY <3>2, <2>1 DEF Refresh
    <3>. QED  BY <1>2, <3>3, NoneAssumption DEF Requested
  <2>. HIDE DEF q, y
  <2>7. Fine(y, repo)
    BY <1>2, <2>4, <2>5 DEF q, Fine
  <2>8. \A s \in Versions : s <= repo /\ Serves(x, s) => Serves(y, s)
    BY <2>2, <2>5 DEF Serves
  <2>. QED  BY <2>4, <2>6, <2>7, <2>8 DEF Keeps
<1>3. CASE x.refresh = None
  <2>1. \/ Requested(x, f) = x
        \/ Requested(x, f) = Started(x, f, TRUE)
    BY <1>3 DEF Requested
  <2>2. Requested(x, TRUE) = Started(x, TRUE, TRUE)
    BY <1>3 DEF Requested
  <2>3. Keeps(x, x, repo)
    BY <1>1 DEF Keeps
  <2>4. Keeps(x, Started(x, f, TRUE), repo)
    <3> DEFINE y == Started(x, f, TRUE)
    <3>1. /\ y \in TargetType /\ y.phase = x.phase /\ y.listeners = x.listeners /\ y.refresh # None
          /\ y.dropped = x.dropped /\ y.refresh.began = repo /\ y.refresh.read = None /\ y.refresh.queued = FALSE
      BY <1>1, StartedIs
    <3>2. Fine(y, repo)
      <4>. HIDE DEF y
      <4>. QED  BY <1>1, <3>1 DEF Fine
    <3>3. \A s \in Versions : ~Serves(x, s)
      BY <1>3 DEF Serves
    <3>4. Keeps(x, y, repo)
      <4>. HIDE DEF y
      <4>. QED  BY <3>1, <3>2, <3>3 DEF Keeps
    <3>. QED  BY <3>4
  <2>5. Started(x, TRUE, TRUE).refresh # None
    BY <1>1, StartedIs
  <2>. QED  BY <2>1, <2>2, <2>3, <2>4, <2>5
<1>. QED  BY <1>2, <1>3

\* One target goes on.
LEMMA OneTargetKeeps ==
    ASSUME Inv, NEW t \in Targets, NEW y, target' = [target EXCEPT ![t] = y],
           Keeps(target[t], y, repo'), repo' \in Versions, repo <= repo'
    PROVE  TargetsKeep
<1>1. target \in [Targets -> TargetType] /\ repo \in Nat /\ repo' \in Nat
  BY Typed DEF Versions
<1>2. target' \in [Targets -> TargetType]
  BY <1>1 DEF Keeps
<1>3. \A u \in Targets : target'[u] = IF u = t THEN y ELSE target[u]
  BY <1>1
<1>4. ASSUME NEW u \in Targets PROVE Keeps(target[u], target'[u], repo')
  <2>1. CASE u = t
    BY <1>3, <2>1
  <2>2. CASE u # t
    <3>1. target'[u] = target[u] /\ target[u] \in TargetType /\ Fine(target[u], repo)
      BY <1>1, <1>3, <2>2 DEF Inv, TargetsFine
    <3>2. target[u].refresh # None => /\ target[u].refresh.began \in Nat
                                      /\ target[u].refresh.read \in Nat \cup {None}
      BY <3>1 DEF TargetType, Refresh, Versions
    <3>3. Fine(target[u], repo')
      BY <1>1, <3>1, <3>2 DEF Fine
    <3>. QED  BY <3>1, <3>3 DEF Keeps
  <2>. QED  BY <2>1, <2>2
<1>. QED  BY <1>2, <1>4 DEF TargetsKeep

\* A step that leaves the refresh of a target in use alone.
LEMMA SameRefreshKeeps ==
    ASSUME Inv, NEW x \in TargetType, NEW y \in TargetType, Fine(x, repo), x.phase # "unused",
           y.phase = x.phase, y.listeners = x.listeners, y.refresh = x.refresh,
           y.dropped = x.dropped,
           repo' \in Versions, repo <= repo'
    PROVE  Keeps(x, y, repo')
<1>1. repo \in Nat /\ repo' \in Nat
  BY Typed DEF Versions
<1>2. x.refresh # None => x.refresh.began \in Nat /\ x.refresh.read \in Nat \cup {None}
  BY DEF TargetType, Refresh, Versions
<1>3. Fine(y, repo')
  BY <1>1, <1>2 DEF Fine
<1>. QED  BY <1>3 DEF Keeps, Serves

LEMMA InUse ==
    ASSUME Inv
    PROVE  /\ \A t \in Targets : target[t] \in TargetType /\ Fine(target[t], repo)
           /\ \A t \in Targets : target[t].phase = "unused" => target[t] = Unused
           /\ current # None => current \in Targets /\ target[current].phase # "unused"
           /\ repo \in Versions /\ repo <= repo
<1>1. current \in Targets \cup {None} /\ repo \in Nat /\ repo \in Versions
  BY Typed
<1>. QED  BY <1>1, Typed DEF Inv, TargetsFine, Fine

------------------------------------------------------------------------------
(* Refreshes, timers and changes.                                             *)

LEMMA RefreshReadsKeeps == ASSUME Inv, NEW t \in Targets, RefreshReads(t) PROVE Inv'
<1> DEFINE x == target[t]
           q == [x.refresh EXCEPT !.read = repo]
           y == [x EXCEPT !.refresh = q]
<1>1. /\ x.refresh # None /\ target' = [target EXCEPT ![t].refresh.read = repo]
      /\ UNCHANGED <<repo, current, setup, fetches, sub, reader, failures>>
  BY DEF RefreshReads
<1>2. x \in TargetType /\ Fine(x, repo) /\ x.phase # "unused" /\ repo \in Versions /\ repo <= repo
      /\ repo \in Nat
  BY <1>1, InUse, Typed DEF Unused
<1>3. x.refresh \in Refresh
  BY <1>1, <1>2 DEF TargetType
<1>4. q \in Refresh /\ q.force = x.refresh.force /\ q.began = x.refresh.began
      /\ q.queued = x.refresh.queued /\ q.read = repo
  BY <1>2, <1>3 DEF Refresh
<1>5. q # None
  <2>. HIDE DEF q
  <2>. QED  BY <1>4, NoneAssumption
<1>6. target' = [target EXCEPT ![t] = y]
  BY <1>1, <1>2, <1>3 DEF TargetType
<1>7. /\ y \in TargetType /\ y.refresh = q /\ y.phase = x.phase /\ y.listeners = x.listeners
      /\ y.dropped = x.dropped
  <2>. HIDE DEF q
  <2>. QED  BY <1>2, <1>4 DEF TargetType
<1>8. Keeps(x, y, repo)
  <2>. HIDE DEF q, y, x
  <2>1. Fine(y, repo)
    BY <1>1, <1>2, <1>4, <1>5, <1>7 DEF Fine
  <2>2. \A s \in Versions : s <= repo /\ Serves(x, s) => Serves(y, s)
    BY <1>4, <1>5, <1>7 DEF Serves
  <2>. QED  BY <1>7, <2>1, <2>2 DEF Keeps
<1>9. TargetsKeep
  <2>. HIDE DEF q, y
  <2>. QED  BY <1>1, <1>2, <1>6, <1>8, OneTargetKeeps
<1>. QED  BY <1>1, <1>9, TargetsKeepKeeps

LEMMA DebounceFiresKeeps == ASSUME Inv, NEW t \in Targets, DebounceFires(t) PROVE Inv'
<1> DEFINE x == target[t]
           f == x.debounce = Debounced(TRUE)
           z == Requested(x, f)
           y == [z EXCEPT !.debounce = None]
<1>1. /\ x.debounce # None /\ target' = [target EXCEPT ![t] = y]
      /\ UNCHANGED <<repo, current, setup, fetches, sub, reader, failures>>
  BY DEF DebounceFires
<1>2. x \in TargetType /\ Fine(x, repo) /\ x.phase # "unused" /\ repo \in Versions /\ repo <= repo
      /\ f \in BOOLEAN
  BY <1>1, InUse DEF Unused
<1>. HIDE DEF x, f
<1>3. Keeps(x, z, repo)
  BY <1>2, RequestedKeeps
<1>. HIDE DEF z
<1>4. /\ y \in TargetType /\ y.phase = z.phase /\ y.listeners = z.listeners
      /\ y.refresh = z.refresh /\ y.dropped = z.dropped
  BY <1>3 DEF Keeps, TargetType
<1>. HIDE DEF y
<1>5. Keeps(x, y, repo)
  <2>1. Fine(y, repo)
    BY <1>2, <1>3, <1>4 DEF Keeps, Fine
  <2>. QED  BY <1>3, <1>4, <2>1 DEF Keeps, Serves
<1>6. TargetsKeep
  BY <1>1, <1>2, <1>5, OneTargetKeeps DEF x
<1>. QED  BY <1>1, <1>6, TargetsKeepKeeps

\* A target in use is asked for a refresh.
LEMMA RequestKeeps ==
    ASSUME Inv, NEW t \in Targets, NEW f \in BOOLEAN, target[t].phase # "unused",
           target' = [target EXCEPT ![t] = Requested(target[t], f)], UNCHANGED repo
    PROVE  TargetsKeep
<1>1. Keeps(target[t], Requested(target[t], f), repo)
  BY InUse, RequestedKeeps
<1>. QED  BY <1>1, InUse, OneTargetKeeps

LEMMA PolledKeeps == ASSUME Inv, Polled PROVE Inv'
<1>1. /\ current # None /\ target' = [target EXCEPT ![current] = Requested(target[current], FALSE)]
      /\ UNCHANGED <<repo, current, setup, fetches, sub, reader, failures>>
  BY DEF Polled
<1>2. TargetsKeep
  BY <1>1, InUse, RequestKeeps
<1>. QED  BY <1>1, <1>2, TargetsKeepKeeps

LEMMA GapEndsKeeps == ASSUME Inv, NEW t \in Targets, GapEnds(t) \/ SnapshotAges(t) PROVE Inv'
<1> DEFINE x == target[t]
<1>1. PICK y : /\ y = [x EXCEPT !.throttled = FALSE] \/ y = [x EXCEPT !.warm = FALSE]
               /\ target' = [target EXCEPT ![t] = y] /\ (x.throttled \/ x.warm)
               /\ UNCHANGED <<repo, current, setup, fetches, sub, reader, failures>>
  BY DEF GapEnds, SnapshotAges
<1>2. x \in TargetType /\ Fine(x, repo) /\ x.phase # "unused" /\ repo \in Versions /\ repo <= repo
  BY <1>1, InUse DEF Unused
<1>. HIDE DEF x
<1>3. /\ y \in TargetType /\ y.phase = x.phase /\ y.listeners = x.listeners
      /\ y.refresh = x.refresh /\ y.dropped = x.dropped
  BY <1>1, <1>2 DEF TargetType
<1>4. Keeps(x, y, repo')
  BY <1>1, <1>2, <1>3, SameRefreshKeeps
<1>5. repo' \in Versions /\ repo <= repo' /\ target' = [target EXCEPT ![t] = y]
  <2>1. repo' = repo
    BY <1>1
  <2>2. repo' \in Versions /\ repo <= repo'
    BY <1>2, <2>1
  <2>3. target' = [target EXCEPT ![t] = y]
    BY <1>1
  <2>. QED  BY <2>2, <2>3
<1>6. Keeps(target[t], y, repo')
  BY <1>4 DEF x
<1>7. TargetsKeep
  BY <1>5, <1>6, OneTargetKeeps
<1>. QED  BY <1>1, <1>7, TargetsKeepKeeps

LEMMA ChangesIs == ASSUME Inv, Changes PROVE repo' \in Versions /\ repo <= repo' /\ repo \in Nat
BY Typed, ConstantsAssumption DEF Changes, Versions

\* Targets that stay are as fine as they were when the repository goes on.
LEMMA StayingKeeps ==
    ASSUME Inv, NEW t \in Targets, repo' \in Versions, repo <= repo'
    PROVE  Keeps(target[t], target[t], repo')
<1> DEFINE x == target[t]
<1>1. x \in TargetType /\ Fine(x, repo) /\ repo \in Nat /\ repo' \in Nat
  BY InUse, Typed DEF Versions
<1>. HIDE DEF x
<1>2. x.refresh # None => x.refresh.began \in Nat /\ x.refresh.read \in Nat \cup {None}
  BY <1>1 DEF TargetType, Refresh, Versions
<1>3. Fine(x, repo')
  BY <1>1, <1>2 DEF Fine
<1>. QED  BY <1>1, <1>3 DEF Keeps, x

LEMMA EnvironmentKeeps == ASSUME Inv, Environment PROVE Inv'
<1>1. Changes /\ UNCHANGED <<current, setup, fetches, sub, reader, failures>>
  BY DEF Environment, RepositoryChanges, BranchChanges, WorkingTreeChanges
<1>2. repo' \in Versions /\ repo <= repo' /\ repo \in Nat
  BY <1>1, ChangesIs
<1>3. CASE RepositoryChanges
  <2>1. target' = target
    BY <1>3 DEF RepositoryChanges
  <2>2. TargetsKeep
    BY <1>2, <2>1, StayingKeeps, Typed DEF TargetsKeep
  <2>. QED  BY <1>1, <2>2, TargetsKeepKeeps
<1>4. CASE BranchChanges
  <2>1. target' = [t \in Targets |-> IF target[t].watching
                                    THEN [target[t] EXCEPT !.debounce = "unforced"] ELSE target[t]]
    BY <1>4 DEF BranchChanges, Debounced
  <2>2. ASSUME NEW t \in Targets PROVE Keeps(target[t], target'[t], repo')
    <3> DEFINE x == target[t]
               y == [x EXCEPT !.debounce = "unforced"]
    <3>1. CASE x.watching
      <4>1. x \in TargetType /\ Fine(x, repo) /\ x.phase # "unused"
        BY <3>1, InUse DEF Unused
      <4>2. /\ y \in TargetType /\ y.phase = x.phase /\ y.listeners = x.listeners
            /\ y.refresh = x.refresh /\ y.dropped = x.dropped
        <5>. HIDE DEF x
        <5>. QED  BY <4>1 DEF TargetType
      <4>3. Keeps(x, y, repo')
        <5>. HIDE DEF x, y
        <5>. QED  BY <1>2, <4>1, <4>2, SameRefreshKeeps
      <4>. QED  BY <2>1, <3>1, <4>3
    <3>2. CASE ~x.watching
      BY <1>2, <2>1, <3>2, StayingKeeps
    <3>. QED  BY <3>1, <3>2
  <2>3. TargetsKeep
    BY <1>2, <2>1, <2>2 DEF TargetsKeep, Keeps
  <2>. QED  BY <1>1, <2>3, TargetsKeepKeeps
<1>5. CASE WorkingTreeChanges
  <2> DEFINE x == target[current]
             y == [x EXCEPT !.debounce = "forced"]
  <2>1. current # None /\ target' = [target EXCEPT ![current] = y]
    BY <1>5 DEF WorkingTreeChanges, Debounced
  <2>2. current \in Targets /\ x \in TargetType /\ Fine(x, repo) /\ x.phase # "unused"
    BY <2>1, InUse
  <2>3. /\ y \in TargetType /\ y.phase = x.phase /\ y.listeners = x.listeners
        /\ y.refresh = x.refresh /\ y.dropped = x.dropped
    <3>. HIDE DEF x
    <3>. QED  BY <2>2 DEF TargetType
  <2>4. Keeps(x, y, repo')
    <3>. HIDE DEF x, y
    <3>. QED  BY <1>2, <2>2, <2>3, SameRefreshKeeps
  <2>5. TargetsKeep
    <3>. HIDE DEF y
    <3>. QED  BY <1>2, <2>1, <2>2, <2>4, OneTargetKeeps
  <2>. QED  BY <1>1, <2>5, TargetsKeepKeeps
<1>. QED  BY <1>3, <1>4, <1>5 DEF Environment

------------------------------------------------------------------------------
(* Those who need a target.                                                   *)

\* Everybody who is new waits for the target that is set up.
Waiters ==
    /\ sub' \in [Subs -> [at : {"out", "ensuring", "loading", "in"},
                          of : Targets \cup {None}, saw : Versions \cup {None}]]
    /\ reader' \in [Readers -> [at : {"out", "ensuring", "reading", "done"},
                                of : Targets \cup {None}, since : Versions \cup {None},
                                got : Versions \cup {None}]]
    /\ \A s \in Subs :
         sub'[s] = sub[s] \/ (sub'[s].at = "ensuring" /\ sub'[s].of = setup')
    /\ \A r \in Readers : reader'[r] = reader[r] \/ (reader'[r].at = "ensuring" /\ reader'[r].of = setup')

LEMMA WaitsForSetup ==
    ASSUME Inv, Waiters, current = None, setup # None,
           UNCHANGED <<repo, target, current, setup, fetches, failures>>
    PROVE  Inv'
<1>1. TypeOK' /\ TargetsFine'
  BY DEF Inv, TypeOK, TargetsFine, Waiters
<1>2. setup \in Targets
  BY Typed
<1>3. ReadersServed' /\ ForcedReadsAreFresh'
  BY <1>2 DEF Inv, ReadersServed, ForcedReadsAreFresh, Waiters
<1>4. WellHeld'
  BY <1>2, NoneAssumption DEF Inv, WellHeld, Registered, Waiters
<1>. QED  BY <1>1, <1>3, <1>4 DEF Inv

\* A target is created for whoever needs one.
LEMMA CreatesTarget ==
    ASSUME Inv, NEW t \in Free, target' = [target EXCEPT ![t] = Created(t)],
           current = None, setup = None, current' = t, setup' = t, Waiters,
           UNCHANGED <<repo, fetches, failures>>
    PROVE  Inv'
<1> DEFINE y == [Started(Unused, FALSE, FALSE) EXCEPT !.phase = "loading"]
<1>1. t \in Targets /\ target[t] = Unused /\ target[t].refresh = None
  <2>1. t \in Targets /\ target[t].phase = "unused"
    BY DEF Free
  <2>2. target[t] = Unused
    BY <2>1, InUse
  <2>. QED  BY <2>1, <2>2 DEF Unused
<1>2. Unused \in TargetType /\ Unused.listeners = {} /\ Unused.dropped = FALSE
  BY DEF Unused, TargetType
<1>3. LET z == Started(Unused, FALSE, FALSE)
      IN  /\ z \in TargetType /\ z.listeners = {} /\ z.refresh # None /\ z.refresh.force = FALSE
          /\ z.dropped = FALSE /\ z.refresh.began = repo /\ z.refresh.read = None /\ z.refresh.queued = FALSE
  BY <1>2, StartedIs, Typed
<1>4. /\ y \in TargetType /\ y.phase = "loading" /\ y.refresh # None /\ y.refresh.force = FALSE
      /\ y.refresh.began = repo /\ y.refresh.read = None /\ y.refresh.queued = FALSE
      /\ y.listeners = {} /\ y.dropped = FALSE
  <2> DEFINE z == Started(Unused, FALSE, FALSE)
  <2>1. /\ z \in TargetType /\ z.listeners = {} /\ z.refresh # None /\ z.refresh.force = FALSE
        /\ z.dropped = FALSE /\ z.refresh.began = repo /\ z.refresh.read = None /\ z.refresh.queued = FALSE
    BY <1>3
  <2>2. y = [z EXCEPT !.phase = "loading"]
    OBVIOUS
  <2>. HIDE DEF z, y
  <2>. QED  BY <2>1, <2>2 DEF TargetType
<1>5. \A u \in Targets : target'[u] = IF u = t THEN y ELSE target[u]
  BY <1>1, Typed DEF Created
<1>. HIDE DEF y
<1>6. target' \in [Targets -> TargetType]
  BY <1>1, <1>4, Typed DEF Created, y
<1>f. \A u \in Targets : Fine(target'[u], repo)
  <2>1. Fine(y, repo)
    BY <1>4, Typed DEF Fine
  <2>. QED  BY <1>5, <2>1, InUse
<1>7. TargetsFine'
  BY <1>1, <1>4, <1>5, <1>f DEF TargetsFine
<1>8. TypeOK'
  <2>1. \A u \in Targets : target'[u].refresh # None /\ target'[u].refresh.queued =>
                             ~target'[u].refresh.force
    BY <1>f DEF Fine
  <2>. QED  BY <1>1, <1>6, <2>1, Typed DEF TypeOK, TargetType, Waiters
<1>9. ReadersServed'
  <2> SUFFICES ASSUME NEW r \in Readers
               PROVE  /\ reader'[r].at = "reading" =>
                            /\ reader'[r].of \in Targets /\ reader'[r].since \in Versions
                            /\ reader'[r].since <= repo
                            /\ Serves(target'[reader'[r].of], reader'[r].since)
                      /\ reader'[r].at = "ensuring" => reader'[r].of \in Targets
    BY DEF ReadersServed
  <2>1. CASE reader'[r] = reader[r]
    BY <1>1, <1>5, <2>1 DEF Inv, ReadersServed, Serves
  <2>2. CASE reader'[r].at = "ensuring" /\ reader'[r].of = t
    BY <1>1, <2>2
  <2>. QED  BY <2>1, <2>2 DEF Waiters
<1>10. ForcedReadsAreFresh'
  BY DEF Inv, ForcedReadsAreFresh, Waiters
<1>11. WellHeld'
  <2>1. \A u \in Targets : target'[u].phase \in {"loading", "probing"} => setup' = u
    <3>1. \A u \in Targets : target[u].phase \notin {"loading", "probing"}
      BY NoneAssumption DEF Inv, WellHeld
    <3>. QED  BY <1>5, <3>1
  <2>2. ASSUME NEW s \in Subs, sub'[s].at \in {"in", "loading"}
        PROVE  sub'[s].of \in Targets /\ target'[sub'[s].of].dropped
    <3>1. sub'[s] = sub[s]
      BY <2>2 DEF Waiters
    <3>2. sub[s].of \in Targets /\ (target[sub[s].of].dropped \/ current = sub[s].of)
      BY <2>2, <3>1 DEF Inv, WellHeld, Registered
    <3>3. target[sub[s].of].dropped
      BY <3>2, NoneAssumption
    <3>4. sub[s].of # t
      BY <1>1, <1>2, <3>3
    <3>. QED  BY <1>5, <3>1, <3>2, <3>3, <3>4
  <2>3. t # None /\ ~target'[t].dropped
    BY <1>1, <1>4, <1>5, NoneAssumption
  <2>4. \A s \in Subs : sub'[s].at = "ensuring" => sub'[s].of = setup'
    BY DEF Inv, WellHeld, Waiters
  <2>. QED  BY <2>1, <2>2, <2>3, <2>4 DEF WellHeld
<1>. QED  BY <1>7, <1>8, <1>9, <1>10, <1>11 DEF Inv

\* The two ways to wait.
LEMMA WaitingKeeps ==
    ASSUME Inv, Waiters, current = None, UNCHANGED <<repo, fetches, failures>>,
           \/ setup # None /\ UNCHANGED <<target, current, setup>>
           \/ /\ setup = None /\ Free # {} /\ current' = setup'
              /\ setup' = (CHOOSE f \in Free : TRUE)
              /\ target' = [target EXCEPT ![setup'] = Created(setup')]
    PROVE  Inv'
<1>1. CASE setup # None /\ UNCHANGED <<target, current, setup>>
  BY <1>1, WaitsForSetup
<1>2. CASE /\ setup = None /\ Free # {} /\ current' = setup'
           /\ setup' = (CHOOSE f \in Free : TRUE)
           /\ target' = [target EXCEPT ![setup'] = Created(setup')]
  <2>1. setup' \in Free
    BY <1>2
  <2>. QED  BY <1>2, <2>1, CreatesTarget
<1>. QED  BY <1>1, <1>2

LEMMA SelfHealKeeps == ASSUME Inv, NEW t \in Targets, SelfHeal(t) PROVE Inv'
<1>1. UNCHANGED <<repo, fetches, sub, reader, failures>>
  BY DEF SelfHeal
<1>2. CASE current # None
  <2>1. target' = [target EXCEPT ![current] = Requested(target[current], FALSE)]
        /\ UNCHANGED <<current, setup>>
    BY <1>2 DEF SelfHeal, Ensure
  <2>2. TargetsKeep
    BY <1>1, <1>2, <2>1, InUse, RequestKeeps
  <2>. QED  BY <1>1, <2>1, <2>2, TargetsKeepKeeps
<1>3. CASE current = None
  <2>1. \/ setup # None /\ UNCHANGED <<target, current, setup>>
        \/ /\ setup = None /\ Free # {} /\ current' = setup'
           /\ setup' = (CHOOSE f \in Free : TRUE)
           /\ target' = [target EXCEPT ![setup'] = Created(setup')]
    BY <1>3 DEF SelfHeal, Ensure
  <2>2. Waiters
    BY <1>1, Typed DEF Waiters
  <2>. QED  BY <1>1, <1>3, <2>1, <2>2, WaitingKeeps
<1>. QED  BY <1>2, <1>3

------------------------------------------------------------------------------
(* Subscribers and readers come and go.                                       *)

SubType == [at : {"out", "ensuring", "loading", "in"},
            of : Targets \cup {None}, saw : Versions \cup {None}]
ReaderType == [at : {"out", "ensuring", "reading", "done"}, of : Targets \cup {None},
               since : Versions \cup {None}, got : Versions \cup {None}]

\* A step of target t to y that changes no version.
OneTarget(t, y) ==
    /\ repo' = repo /\ failures' \in 0..MaxFailures /\ fetches' \in BOOLEAN
    /\ current' \in Targets \cup {None} /\ setup' \in Targets \cup {None}
    /\ current' # None => current' = current \/ current' = t
    /\ y \in TargetType /\ Fine(y, repo) /\ y.phase # "unused"
    /\ \A u \in Targets : target'[u] = IF u = t THEN y ELSE target[u]
    /\ target' \in [Targets -> TargetType]
    /\ sub' \in [Subs -> SubType] /\ reader' \in [Readers -> ReaderType]

LEMMA OneTargetFine ==
    ASSUME Inv, NEW t \in Targets, NEW y, OneTarget(t, y)
    PROVE  TypeOK' /\ TargetsFine'
<1>1. \A u \in Targets : Fine(target'[u], repo')
  BY InUse DEF OneTarget
<1>2. current' # None => target'[current'].phase # "unused"
  BY InUse DEF OneTarget
<1>3. \A u \in Targets : target'[u].refresh # None /\ target'[u].refresh.queued =>
                           ~target'[u].refresh.force
  BY <1>1 DEF Fine
<1>. QED  BY <1>1, <1>2, <1>3, Typed DEF TypeOK, TargetsFine, OneTarget, TargetType, SubType, ReaderType

\* What is asked of a reader.
Served(r, x) ==
    /\ r.of \in Targets /\ r.since \in Versions /\ r.since <= repo /\ Serves(x, r.since)

LEMMA ReadersServedKeeps ==
    ASSUME Inv, NEW t \in Targets, NEW y, OneTarget(t, y),
           \A r \in Readers :
              \/ /\ reader'[r] = reader[r]
                 /\ reader[r].at = "reading" /\ reader[r].of = t =>
                      (Serves(target[t], reader[r].since) => Serves(y, reader[r].since))
              \/ reader'[r].at = "reading" /\ reader'[r].of = t /\ Served(reader'[r], y)
              \/ reader'[r].at = "done" /\ reader'[r].got >= reader'[r].since
              \/ reader'[r].at = "out"
    PROVE  ReadersServed' /\ ForcedReadsAreFresh'
<1>1. ASSUME NEW r \in Readers
      PROVE  /\ reader'[r].at = "reading" =>
                   /\ reader'[r].of \in Targets /\ reader'[r].since \in Versions
                   /\ reader'[r].since <= repo
                   /\ Serves(target'[reader'[r].of], reader'[r].since)
             /\ reader'[r].at = "ensuring" => reader'[r].of \in Targets
             /\ reader'[r].at = "done" => reader'[r].got >= reader'[r].since
  <2>1. CASE /\ reader'[r] = reader[r]
             /\ reader[r].at = "reading" /\ reader[r].of = t =>
                  (Serves(target[t], reader[r].since) => Serves(y, reader[r].since))
    BY <2>1 DEF Inv, ReadersServed, ForcedReadsAreFresh, OneTarget
  <2>2. CASE reader'[r].at = "reading" /\ reader'[r].of = t /\ Served(reader'[r], y)
    BY <2>2 DEF Served, OneTarget
  <2>3. CASE \/ reader'[r].at = "done" /\ reader'[r].got >= reader'[r].since
             \/ reader'[r].at = "out"
    BY <2>3
  <2>. QED  BY <2>1, <2>2, <2>3
<1>2. repo' = repo
  BY DEF OneTarget
<1>. QED  BY <1>1, <1>2 DEF ReadersServed, ForcedReadsAreFresh

\* A forced request serves whoever makes it.
SinceOf(x) == IF x.refresh # None /\ x.refresh.force /\ ~x.refresh.queued
              THEN x.refresh.began ELSE repo

LEMMA RequestedServes ==
    ASSUME Inv, NEW x \in TargetType, Fine(x, repo)
    PROVE  /\ SinceOf(x) \in Versions /\ SinceOf(x) <= repo
           /\ Serves(Requested(x, TRUE), SinceOf(x))
<1>1. repo \in Versions /\ repo \in Nat
  BY Typed
<1>2. CASE x.refresh # None
  <2> DEFINE q == [x.refresh EXCEPT !.queued = @ \/ (TRUE /\ ~x.refresh.force)]
  <2>1. x.refresh \in Refresh
    BY <1>2 DEF TargetType
  <2>2. Requested(x, TRUE).refresh = q
    BY <1>2 DEF Requested, TargetType
  <2>3. /\ q \in Refresh /\ q.force = x.refresh.force /\ q.began = x.refresh.began
        /\ q.queued <=> (x.refresh.queued \/ ~x.refresh.force)
    BY <2>1 DEF Refresh
  <2>4. q # None
    <3>. HIDE DEF q
    <3>. QED  BY <2>3, NoneAssumption
  <2>. HIDE DEF q
  <2>5. x.refresh.began \in Versions /\ x.refresh.began <= repo /\ x.refresh.began \in Nat
    BY <1>2, <2>1 DEF Fine, Refresh, Versions
  <2>6. Serves(Requested(x, TRUE), SinceOf(x))
    <3> DEFINE z == Requested(x, TRUE)
    <3>1. z.refresh = q /\ z.refresh # None
      BY <2>2, <2>4
    <3>. HIDE DEF z
    <3>2. CASE x.refresh.force /\ ~x.refresh.queued
      <4>1. SinceOf(x) = x.refresh.began
        BY <1>2, <3>2 DEF SinceOf
      <4>2. z.refresh.force /\ z.refresh.began = x.refresh.began
        BY <2>3, <3>1, <3>2
      <4>3. Serves(z, x.refresh.began)
        BY <2>5, <3>1, <4>2 DEF Serves
      <4>4. Serves(z, SinceOf(x))
        BY <4>1, <4>3
      <4>. QED  BY <4>4 DEF z
    <3>3. CASE ~(x.refresh.force /\ ~x.refresh.queued)
      <4>1. z.refresh.queued
        BY <2>3, <3>1, <3>3
      <4>2. Serves(z, SinceOf(x))
        BY <3>1, <4>1 DEF Serves
      <4>. QED  BY <4>2 DEF z
    <3>. QED  BY <3>2, <3>3
  <2>7. SinceOf(x) \in Versions /\ SinceOf(x) <= repo
    BY <1>1, <2>5 DEF SinceOf
  <2>. QED  BY <2>6, <2>7
<1>3. CASE x.refresh = None
  <2>1. Requested(x, TRUE) = Started(x, TRUE, TRUE) /\ SinceOf(x) = repo
    BY <1>3 DEF Requested, SinceOf
  <2>2. LET z == Started(x, TRUE, TRUE)
        IN  z.refresh # None /\ z.refresh.force = TRUE /\ z.refresh.began = repo
    BY <1>1, StartedIs
  <2>3. repo <= repo
    BY <1>1
  <2>4. Serves(Started(x, TRUE, TRUE), repo)
    BY <2>2, <2>3 DEF Serves
  <2>. QED  BY <1>1, <2>1, <2>3, <2>4
<1>. QED  BY <1>2, <1>3

\* Listeners are added to a target in use.
LEMMA ListeningIs ==
    ASSUME Inv, NEW x \in TargetType, Fine(x, repo), x.phase # "unused", NEW ss \in SUBSET Subs
    PROVE  LET y == Listening(x, ss)
           IN  /\ y \in TargetType /\ Fine(y, repo) /\ y.phase = x.phase /\ y.refresh = x.refresh
               /\ y.listeners = x.listeners \cup ss /\ y.snapshot = x.snapshot
               /\ y.dropped = x.dropped
<1> DEFINE y == Listening(x, ss)
<1>1. /\ y \in TargetType /\ y.phase = x.phase /\ y.refresh = x.refresh
      /\ y.listeners = x.listeners \cup ss /\ y.snapshot = x.snapshot /\ y.dropped = x.dropped
  BY DEF Listening, TargetType
<1>. HIDE DEF y
<1>2. Fine(y, repo)
  BY <1>1 DEF Fine
<1>3. /\ y \in TargetType /\ Fine(y, repo) /\ y.phase = x.phase /\ y.refresh = x.refresh
      /\ y.listeners = x.listeners \cup ss /\ y.snapshot = x.snapshot /\ y.dropped = x.dropped
  BY <1>1, <1>2
<1>. QED  BY <1>3 DEF y

LEMMA JoinedIs ==
    ASSUME Inv, NEW t \in Targets
    PROVE  Joined(t) \in SubType /\ Joined(t).of = t /\ Joined(t).at \in {"loading", "in"}
<1>1. target[t].snapshot \in Versions \cup {None}
  BY Typed DEF TargetType
<1>. QED  BY <1>1 DEF Joined, SubType

LEMMA SubscribeKeeps == ASSUME Inv, NEW s \in Subs, Subscribe(s) PROVE Inv'
<1>1. sub[s].at = "out" /\ UNCHANGED <<repo, fetches, reader, failures>>
  BY DEF Subscribe
<1>t. sub \in [Subs -> SubType] /\ reader \in [Readers -> ReaderType]
  BY Typed DEF SubType, ReaderType
<1>2. CASE current # None
  <2> DEFINE x == target[current]
             y == Listening(x, {s})
  <2>1. /\ target' = [target EXCEPT ![current] = y] /\ sub' = [sub EXCEPT ![s] = Joined(current)]
        /\ UNCHANGED <<current, setup>>
    BY <1>2 DEF Subscribe, Ensure
  <2>2. current \in Targets /\ x \in TargetType /\ Fine(x, repo) /\ x.phase # "unused"
    BY <1>2, InUse
  <2>3. /\ y \in TargetType /\ Fine(y, repo) /\ y.phase = x.phase /\ y.refresh = x.refresh
        /\ y.listeners = x.listeners \cup {s} /\ y.dropped = x.dropped
    BY <2>2, ListeningIs
  <2>. HIDE DEF y
  <2>4. Joined(current) \in SubType /\ Joined(current).of = current
    BY <2>2, JoinedIs
  <2>5. \A u \in Targets : target'[u] = IF u = current THEN y ELSE target[u]
    BY <2>1, Typed
  <2>6. \A z \in Subs : sub'[z] = IF z = s THEN Joined(current) ELSE sub[z]
    BY <1>t, <2>1
  <2>7. OneTarget(current, y)
    <3>1. target' \in [Targets -> TargetType] /\ sub' \in [Subs -> SubType]
      BY <1>t, <2>1, <2>3, <2>4, Typed
    <3>. QED  BY <1>1, <1>t, <2>1, <2>2, <2>3, <2>5, <3>1, Typed DEF OneTarget
  <2>8. TypeOK' /\ TargetsFine'
    BY <2>2, <2>7, OneTargetFine
  <2>9. ReadersServed' /\ ForcedReadsAreFresh'
    <3>1. \A r \in Readers : /\ reader'[r] = reader[r]
                             /\ Serves(target[current], reader[r].since) => Serves(y, reader[r].since)
      BY <1>1, <2>3 DEF Serves
    <3>. QED  BY <2>2, <2>7, <3>1, ReadersServedKeeps
  <2>10. WellHeld'
    <3>1. \A u \in Targets : /\ target'[u].phase = target[u].phase
                             /\ target'[u].dropped = target[u].dropped
                             /\ target[u].listeners \subseteq target'[u].listeners
      BY <2>3, <2>5
    <3>2. Registered(s)'
      BY <2>1, <2>2, <2>3, <2>4, <2>5, <2>6 DEF Registered
    <3>3. \A z \in Subs : z # s /\ Registered(z) /\ sub[z].of \in Targets => Registered(z)'
      BY <1>2, <2>1, <2>2, <2>6, <3>1 DEF Registered
    <3>4. setup \in Targets \cup {None}
      BY Typed
    <3>5. ASSUME NEW z \in Subs
          PROVE  /\ sub'[z].at \in {"in", "loading"} =>
                      sub'[z].of \in Targets /\ (target'[sub'[z].of].dropped \/ Registered(z)')
                 /\ sub'[z].at = "ensuring" => setup # None /\ sub'[z].of = setup
      <4>1. CASE z = s
        BY <2>2, <2>4, <2>6, <3>2, <4>1, JoinedIs
      <4>2. CASE z # s
        BY <2>6, <3>1, <3>3, <4>2 DEF Inv, WellHeld
      <4>. QED  BY <4>1, <4>2
    <3>. QED  BY <2>1, <2>2, <3>1, <3>4, <3>5 DEF Inv, WellHeld
  <2>. QED  BY <2>8, <2>9, <2>10 DEF Inv
<1>3. CASE current = None
  <2>1. \/ setup # None /\ UNCHANGED <<target, current, setup>>
        \/ /\ setup = None /\ Free # {} /\ current' = setup'
           /\ setup' = (CHOOSE f \in Free : TRUE)
           /\ target' = [target EXCEPT ![setup'] = Created(setup')]
    BY <1>3 DEF Subscribe, Ensure
  <2>2. sub' = [sub EXCEPT ![s] = [Out EXCEPT !.at = "ensuring", !.of = setup']]
    BY <1>3 DEF Subscribe, Ensure
  <2>3. setup' \in Targets
    BY <2>1, Typed DEF Free
  <2>4. Waiters
    <3>1. /\ [Out EXCEPT !.at = "ensuring", !.of = setup'] \in SubType
          /\ [Out EXCEPT !.at = "ensuring", !.of = setup'].at = "ensuring"
          /\ [Out EXCEPT !.at = "ensuring", !.of = setup'].of = setup'
      BY <2>3 DEF Out, SubType
    <3>2. sub' \in [Subs -> SubType]
      BY <1>t, <2>2, <3>1
    <3>3. \A z \in Subs : sub'[z] = IF z = s THEN [Out EXCEPT !.at = "ensuring", !.of = setup']
                                    ELSE sub[z]
      BY <1>t, <2>2
    <3>. QED  BY <1>1, <1>t, <3>1, <3>2, <3>3 DEF Waiters, SubType, ReaderType
  <2>. QED  BY <1>1, <1>3, <2>1, <2>4, WaitingKeeps
<1>. QED  BY <1>2, <1>3

LEMMA ForcedReadKeeps == ASSUME Inv, NEW r \in Readers, ForcedRead(r) PROVE Inv'
<1>1. reader[r].at = "out" /\ UNCHANGED <<repo, fetches, sub, failures>>
  BY DEF ForcedRead
<1>t. sub \in [Subs -> SubType] /\ reader \in [Readers -> ReaderType]
  BY Typed DEF SubType, ReaderType
<1>2. CASE current # None
  <2> DEFINE x == target[current]
             y == Requested(x, TRUE)
  <2>1. /\ target' = [target EXCEPT ![current] = y] /\ reader' = [reader EXCEPT ![r] = Reading(current)]
        /\ UNCHANGED <<current, setup>>
    BY <1>2 DEF ForcedRead, Ensure
  <2>2. current \in Targets /\ x \in TargetType /\ Fine(x, repo) /\ x.phase # "unused"
    BY <1>2, InUse
  <2>3. Keeps(x, y, repo)
    BY <2>2, RequestedKeeps
  <2>4. /\ Reading(current) \in ReaderType /\ Reading(current).at = "reading"
        /\ Reading(current).of = current /\ Served(Reading(current), y)
    <3>1. /\ SinceOf(x) \in Versions /\ SinceOf(x) <= repo /\ Serves(y, SinceOf(x))
      BY <2>2, RequestedServes
    <3>2. Reading(current) = [at |-> "reading", of |-> current, since |-> SinceOf(x), got |-> None]
      BY DEF Reading, Since, SinceOf
    <3>. HIDE DEF x, y
    <3>. QED  BY <2>2, <3>1, <3>2 DEF ReaderType, Served
  <2>. HIDE DEF y
  <2>5. \A u \in Targets : target'[u] = IF u = current THEN y ELSE target[u]
    BY <2>1, Typed
  <2>6. \A z \in Readers : reader'[z] = IF z = r THEN Reading(current) ELSE reader[z]
    BY <1>t, <2>1
  <2>7. OneTarget(current, y)
    <3>1. target' \in [Targets -> TargetType] /\ reader' \in [Readers -> ReaderType]
      BY <1>t, <2>1, <2>3, <2>4, Typed DEF Keeps
    <3>. QED  BY <1>1, <1>t, <2>1, <2>2, <2>3, <2>5, <3>1, Typed DEF OneTarget, Keeps
  <2>8. TypeOK' /\ TargetsFine'
    BY <2>2, <2>7, OneTargetFine
  <2>9. ReadersServed' /\ ForcedReadsAreFresh'
    <3>1. ASSUME NEW z \in Readers, reader[z].at = "reading", reader[z].of = current
          PROVE  Serves(target[current], reader[z].since) => Serves(y, reader[z].since)
      BY <2>3, <3>1 DEF Inv, ReadersServed, Keeps
    <3>. QED  BY <2>2, <2>4, <2>6, <2>7, <3>1, ReadersServedKeeps
  <2>10. WellHeld'
    <3>1. \A u \in Targets : /\ target'[u].phase = target[u].phase
                             /\ target'[u].dropped = target[u].dropped
                             /\ target'[u].listeners = target[u].listeners
      BY <2>3, <2>5 DEF Keeps
    <3>2. setup \in Targets \cup {None}
      BY Typed
    <3>. QED  BY <1>1, <2>1, <2>2, <3>1, <3>2, NoneAssumption DEF Inv, WellHeld, Registered
  <2>. QED  BY <2>8, <2>9, <2>10 DEF Inv
<1>3. CASE current = None
  <2>1. \/ setup # None /\ UNCHANGED <<target, current, setup>>
        \/ /\ setup = None /\ Free # {} /\ current' = setup'
           /\ setup' = (CHOOSE f \in Free : TRUE)
           /\ target' = [target EXCEPT ![setup'] = Created(setup')]
    BY <1>3 DEF ForcedRead, Ensure
  <2>2. reader' = [reader EXCEPT ![r] = [NoRead EXCEPT !.at = "ensuring", !.of = setup']]
    BY <1>3 DEF ForcedRead, Ensure
  <2>3. setup' \in Targets
    BY <2>1, Typed DEF Free
  <2>4. Waiters
    <3>1. /\ [NoRead EXCEPT !.at = "ensuring", !.of = setup'] \in ReaderType
          /\ [NoRead EXCEPT !.at = "ensuring", !.of = setup'].at = "ensuring"
          /\ [NoRead EXCEPT !.at = "ensuring", !.of = setup'].of = setup'
      BY <2>3 DEF NoRead, ReaderType
    <3>2. reader' \in [Readers -> ReaderType]
      BY <1>t, <2>2, <3>1
    <3>3. \A z \in Readers : reader'[z] = IF z = r THEN [NoRead EXCEPT !.at = "ensuring", !.of = setup']
                                          ELSE reader[z]
      BY <1>t, <2>2
    <3>. QED  BY <1>1, <1>t, <3>1, <3>2, <3>3 DEF Waiters, SubType, ReaderType
  <2>. QED  BY <1>1, <1>3, <2>1, <2>4, WaitingKeeps
<1>. QED  BY <1>2, <1>3

LEMMA UnsubscribeKeeps == ASSUME Inv, NEW s \in Subs, Unsubscribe(s) PROVE Inv'
<1>1. /\ sub[s].at = "in" /\ sub' = [sub EXCEPT ![s] = Out]
      /\ UNCHANGED <<repo, setup, reader, failures>>
  BY DEF Unsubscribe
<1>2. /\ sub \in [Subs -> SubType] /\ reader \in [Readers -> ReaderType] /\ Out \in SubType
      /\ Out.at = "out"
  BY Typed DEF SubType, ReaderType, Out
<1>3. /\ sub' \in [Subs -> SubType]
      /\ \A z \in Subs : sub'[z] = IF z = s THEN Out ELSE sub[z]
  BY <1>1, <1>2
<1>4. CASE current = None
  <2>1. target' = target /\ UNCHANGED <<current, fetches>>
    BY <1>4, Typed, NoneAssumption DEF Unsubscribe
  <2>2. WellHeld'
    BY <1>1, <1>2, <1>3, <1>4, <2>1 DEF Inv, WellHeld, Registered
  <2>3. TypeOK' /\ TargetsFine' /\ ReadersServed' /\ ForcedReadsAreFresh'
    BY <1>1, <1>3, <2>1 DEF Inv, TypeOK, TargetsFine, ReadersServed, ForcedReadsAreFresh, SubType
  <2>. QED  BY <2>2, <2>3 DEF Inv
<1>5. CASE current # None
  <2> DEFINE x == target[current]
             gone == x.listeners \subseteq {s}
             y == IF gone THEN Removed(current) ELSE [x EXCEPT !.listeners = @ \ {s}]
  <2>1. /\ \A u \in Targets : target'[u] = IF u = current THEN y ELSE target[u]
        /\ target' = [target EXCEPT ![current] = y]
        /\ current' = IF gone THEN None ELSE current
        /\ fetches' = IF gone THEN fetches /\ x.phase # "ready" ELSE fetches
    BY <1>5, Typed DEF Unsubscribe
  <2>2. current \in Targets /\ x \in TargetType /\ Fine(x, repo) /\ x.phase # "unused"
    BY <1>5, InUse
  <2>3. /\ y \in TargetType /\ Fine(y, repo) /\ y.phase # "unused"
        /\ \A v : Serves(x, v) => Serves(y, v)
        /\ ~gone => y.listeners = x.listeners \ {s}
        /\ y.phase \in {"loading", "probing"} => x.phase = y.phase
        /\ y.dropped <=> (gone /\ setup = current)
    <3>d. x.dropped = FALSE
      BY <1>5, <2>2 DEF Inv, WellHeld, TargetType
    <3>1. CASE gone /\ x.refresh = None /\ setup # current
      <4>1. y = [Unused EXCEPT !.phase = "removed"]
        BY <3>1 DEF Removed
      <4>2. /\ y \in TargetType /\ y.phase = "removed" /\ y.refresh = None /\ y.dropped = FALSE
        BY <4>1 DEF Unused, TargetType
      <4>. HIDE DEF y
      <4>. QED  BY <3>1, <4>2 DEF Fine, Serves
    <3>2. CASE gone /\ ~(x.refresh = None /\ setup # current)
      <4>1. y = [Closed(x) EXCEPT !.dropped = setup = current]
        BY <3>2 DEF Removed
      <4>2. /\ y \in TargetType /\ y.phase = x.phase /\ y.refresh = x.refresh
            /\ y.dropped = (setup = current)
        <5>1. Closed(x) \in TargetType /\ Closed(x).phase = x.phase /\ Closed(x).refresh = x.refresh
          <6>. HIDE DEF x
          <6>. QED  BY <2>2 DEF Closed, TargetType
        <5>. HIDE DEF x, y
        <5>. QED  BY <4>1, <5>1 DEF TargetType
      <4>. HIDE DEF x, y
      <4>3. Fine(y, repo)
        BY <2>2, <4>2 DEF Fine
      <4>. QED  BY <2>2, <3>2, <4>2, <4>3 DEF Serves
    <3>3. CASE ~gone
      <4>1. y = [x EXCEPT !.listeners = @ \ {s}]
        BY <3>3
      <4>2. /\ y \in TargetType /\ y.phase = x.phase /\ y.refresh = x.refresh
            /\ y.listeners = x.listeners \ {s} /\ y.dropped = x.dropped
        <5>. HIDE DEF x, y
        <5>. QED  BY <2>2, <4>1 DEF TargetType
      <4>. HIDE DEF x, y
      <4>3. Fine(y, repo)
        BY <2>2, <4>2 DEF Fine
      <4>. QED  BY <2>2, <3>3, <3>d, <4>2, <4>3 DEF Serves, x
    <3>. QED  BY <3>1, <3>2, <3>3
  <2>. HIDE DEF y
  <2>4. OneTarget(current, y)
    <3>1. target' \in [Targets -> TargetType]
      BY <2>1, <2>3, Typed
    <3>2. fetches' \in BOOLEAN
      BY <2>1, Typed
    <3>3. current' \in Targets \cup {None} /\ (current' # None => current' = current)
      BY <2>1, <2>2
    <3>. QED  BY <1>1, <1>2, <1>3, <2>1, <2>3, <3>1, <3>2, <3>3, Typed DEF OneTarget
  <2>5. TypeOK' /\ TargetsFine'
    BY <2>2, <2>4, OneTargetFine
  <2>6. ReadersServed' /\ ForcedReadsAreFresh'
    BY <1>1, <2>2, <2>3, <2>4, ReadersServedKeeps
  <2>7. WellHeld'
    <3>1. \A u \in Targets : target'[u].phase \in {"loading", "probing"} => setup' = u
      BY <1>1, <2>1, <2>3 DEF Inv, WellHeld
    <3>2. /\ setup' # None => \/ current' = setup'
                               \/ (current' = None /\ target'[setup'].dropped)
          /\ current' # None => ~target'[current'].dropped
      BY <1>1, <1>5, <2>1, <2>2, <2>3, Typed DEF Inv, WellHeld
    <3>3. ASSUME NEW z \in Subs, sub'[z].at \in {"in", "loading"}
          PROVE  sub'[z].of \in Targets /\ (target'[sub'[z].of].dropped \/ Registered(z)')
      <4>1. z # s /\ sub'[z] = sub[z]
        BY <1>2, <1>3, <3>3
      <4>2. sub[z].of \in Targets /\ (target[sub[z].of].dropped \/ Registered(z))
        BY <3>3, <4>1 DEF Inv, WellHeld
      <4>3. CASE target[sub[z].of].dropped
        <5>1. sub[z].of # current
          BY <1>5, <4>3 DEF Inv, WellHeld
        <5>. QED  BY <2>1, <4>1, <4>2, <4>3, <5>1
      <4>4. CASE Registered(z)
        <5>1. current = sub[z].of /\ z \in x.listeners
          BY <4>4 DEF Registered
        <5>2. ~gone
          BY <4>1, <5>1
        <5>3. current' = current /\ z \in target'[current].listeners
          BY <2>1, <2>2, <2>3, <4>1, <5>1, <5>2
        <5>. QED  BY <4>1, <4>2, <5>1, <5>3 DEF Registered
      <4>. QED  BY <4>2, <4>3, <4>4
    <3>4. \A z \in Subs : sub'[z].at = "ensuring" => setup' # None /\ sub'[z].of = setup'
      BY <1>1, <1>2, <1>3 DEF Inv, WellHeld
    <3>. QED  BY <3>1, <3>2, <3>3, <3>4 DEF WellHeld
  <2>. QED  BY <2>5, <2>6, <2>7 DEF Inv
<1>. QED  BY <1>4, <1>5

------------------------------------------------------------------------------
(* Refreshes and set-ups end.                                                 *)

LEMMA RefreshEndsKeeps == ASSUME Inv, NEW t \in Targets, RefreshEnds(t) PROVE Inv'
<1> DEFINE x == target[t]
           y == Remembered(x)
           read == x.refresh.read
           last == ~x.refresh.queued
<1>1. /\ x.refresh # None /\ read # None /\ target' = [target EXCEPT ![t] = y]
      /\ UNCHANGED <<repo, current, setup, fetches, failures>>
  BY DEF RefreshEnds
<1>2. sub' = [s \in Subs |->
               IF last /\ sub[s].at = "loading" /\ sub[s].of = t
               THEN [sub[s] EXCEPT !.at = "in", !.saw = read]
               ELSE IF Emits(target[t]) /\ s \in target[t].listeners /\ sub[s].at = "in"
               THEN [sub[s] EXCEPT !.saw = read] ELSE sub[s]]
  BY DEF RefreshEnds
<1>3. reader' = [r \in Readers |->
               IF last /\ reader[r].at = "reading" /\ reader[r].of = t
               THEN [reader[r] EXCEPT !.at = "done", !.of = None, !.got = read]
               ELSE reader[r]]
  BY DEF RefreshEnds
<1>4. /\ x \in TargetType /\ Fine(x, repo) /\ x.phase # "unused" /\ repo \in Versions /\ repo \in Nat
  BY <1>1, InUse, Typed DEF Unused
<1>5. sub \in [Subs -> SubType] /\ reader \in [Readers -> ReaderType]
  BY Typed DEF SubType, ReaderType
<1>6. /\ x.refresh \in Refresh /\ read \in Versions /\ x.refresh.began \in Versions
      /\ x.refresh.began <= read /\ read <= repo
  <2>1. x.refresh \in Refresh
    BY <1>1, <1>4 DEF TargetType
  <2>. HIDE DEF x
  <2>. QED  BY <1>1, <1>4, <2>1 DEF Refresh, Fine
<1>7. /\ y \in TargetType /\ Fine(y, repo) /\ y.phase # "unused" /\ y.listeners = x.listeners
      /\ y.dropped = x.dropped /\ (y.phase \in {"loading", "probing"} =>
                                     x.phase \in {"loading", "probing"})
      /\ ~last => \A v \in Versions : v <= repo => Serves(y, v)
  <2> DEFINE kept == [x EXCEPT !.snapshot = read, !.warm = TRUE]
  <2>1. /\ kept \in TargetType /\ kept.phase = x.phase /\ kept.listeners = x.listeners
        /\ kept.refresh = x.refresh /\ kept.dropped = x.dropped
    <3>. HIDE DEF x, read
    <3>. QED  BY <1>4, <1>6 DEF TargetType
  <2>2. CASE ~last
    <3>1. y = Started(kept, TRUE, TRUE)
      BY <2>2 DEF Remembered
    <3>. HIDE DEF kept, y
    <3>2. /\ y \in TargetType /\ y.phase = x.phase /\ y.listeners = x.listeners
          /\ y.refresh # None /\ y.refresh.force = TRUE /\ y.refresh.began = repo
          /\ y.dropped = x.dropped /\ y.refresh.read = None /\ y.refresh.queued = FALSE
      BY <1>4, <2>1, <3>1, StartedIs
    <3>. HIDE DEF x
    <3>3. Fine(y, repo)
      BY <1>4, <3>2 DEF Fine
    <3>4. \A v \in Versions : v <= repo => Serves(y, v)
      BY <3>2 DEF Serves
    <3>. QED  BY <1>4, <3>2, <3>3, <3>4
  <2>3. CASE last
    <3>1. y = [kept EXCEPT !.refresh = None,
                           !.phase = IF @ = "loading" THEN "probing" ELSE @]
      BY <2>3 DEF Remembered
    <3>. HIDE DEF kept, y
    <3>2. /\ y \in TargetType /\ y.listeners = x.listeners /\ y.refresh = None
          /\ y.dropped = x.dropped
          /\ y.phase = IF x.phase = "loading" THEN "probing" ELSE x.phase
      BY <2>1, <3>1 DEF TargetType
    <3>. HIDE DEF x
    <3>3. Fine(y, repo)
      BY <1>4, <3>2 DEF Fine
    <3>. QED  BY <1>4, <2>3, <3>2, <3>3
  <2>. QED  BY <2>2, <2>3
<1>. HIDE DEF x, y, read, last
<1>8. \A u \in Targets : target'[u] = IF u = t THEN y ELSE target[u]
  BY <1>1, Typed
<1>9. /\ sub' \in [Subs -> SubType]
      /\ \A s \in Subs : /\ sub'[s].of = sub[s].of
                         /\ \/ sub'[s].at = sub[s].at
                            \/ sub[s].at = "loading" /\ sub'[s].at = "in"
  <2>1. \A s \in Subs : sub[s] \in SubType /\ [sub[s] EXCEPT !.saw = read] \in SubType
                        /\ [sub[s] EXCEPT !.at = "in", !.saw = read] \in SubType
    BY <1>5, <1>6 DEF SubType
  <2>2. \A s \in Subs : /\ [sub[s] EXCEPT !.saw = read].of = sub[s].of
                        /\ [sub[s] EXCEPT !.saw = read].at = sub[s].at
                        /\ [sub[s] EXCEPT !.at = "in", !.saw = read].of = sub[s].of
                        /\ [sub[s] EXCEPT !.at = "in", !.saw = read].at = "in"
    BY <1>5 DEF SubType
  <2>. QED  BY <1>2, <2>1, <2>2
<1>10. /\ reader' \in [Readers -> ReaderType]
       /\ \A r \in Readers :
            IF last /\ reader[r].at = "reading" /\ reader[r].of = t
            THEN reader'[r].at = "done" /\ reader'[r].got = read /\ reader'[r].since = reader[r].since
            ELSE reader'[r] = reader[r]
  <2>1. \A r \in Readers :
          LET z == [reader[r] EXCEPT !.at = "done", !.of = None, !.got = read]
          IN  z \in ReaderType /\ z.at = "done" /\ z.got = read /\ z.since = reader[r].since
    BY <1>5, <1>6 DEF ReaderType
  <2>. QED  BY <1>3, <1>5, <2>1
<1>11. OneTarget(t, y)
  <2>1. target' \in [Targets -> TargetType]
    BY <1>1, <1>7, Typed
  <2>. QED  BY <1>1, <1>7, <1>8, <1>9, <1>10, <2>1, Typed DEF OneTarget
<1>12. TypeOK' /\ TargetsFine'
  BY <1>11, OneTargetFine
<1>13. ReadersServed' /\ ForcedReadsAreFresh'
  <2>1. ASSUME NEW r \in Readers
        PROVE  \/ /\ reader'[r] = reader[r]
                  /\ reader[r].at = "reading" /\ reader[r].of = t =>
                       (Serves(target[t], reader[r].since) => Serves(y, reader[r].since))
               \/ reader'[r].at = "done" /\ reader'[r].got >= reader'[r].since
    <3>1. CASE reader[r].at = "reading" /\ reader[r].of = t
      <4>1. /\ reader[r].since \in Versions /\ reader[r].since <= repo /\ Serves(x, reader[r].since)
        BY <3>1 DEF Inv, ReadersServed, x
      <4>2. CASE last
        <5>1. reader'[r].at = "done" /\ reader'[r].got = read /\ reader'[r].since = reader[r].since
          BY <1>10, <3>1, <4>2
        <5>2. reader[r].since <= x.refresh.began
          BY <4>1, <4>2 DEF Serves, last
        <5>3. read >= reader[r].since
          BY <1>6, <4>1, <5>2 DEF Versions
        <5>. QED  BY <5>1, <5>3
      <4>3. CASE ~last
        BY <1>7, <1>10, <4>1, <4>3
      <4>. QED  BY <4>2, <4>3
    <3>2. CASE ~(reader[r].at = "reading" /\ reader[r].of = t)
      BY <1>10, <3>2
    <3>. QED  BY <3>1, <3>2
  <2>. QED  BY <1>11, <2>1, ReadersServedKeeps
<1>14. WellHeld'
  <2>1. \A u \in Targets : target'[u].phase \in {"loading", "probing"} => setup' = u
    BY <1>1, <1>7, <1>8 DEF Inv, WellHeld, x
  <2>2. \A u \in Targets : /\ target'[u].listeners = target[u].listeners
                           /\ target'[u].dropped = target[u].dropped
    BY <1>7, <1>8 DEF x
  <2>3. current \in Targets \cup {None} /\ setup \in Targets \cup {None}
    BY Typed
  <2>. QED  BY <1>1, <1>9, <2>1, <2>2, <2>3, NoneAssumption DEF Inv, WellHeld, Registered
<1>. QED  BY <1>12, <1>13, <1>14 DEF Inv

LEMMA RefreshFailsKeeps == ASSUME Inv, NEW t \in Targets, RefreshFails(t) PROVE Inv'
<1> DEFINE x == target[t]
           y == [x EXCEPT !.refresh = None]
<1>1. /\ x.refresh # None /\ failures < MaxFailures /\ failures' = failures + 1
      /\ target' = [target EXCEPT ![t] = y]
      /\ UNCHANGED <<repo, current, setup, fetches, sub>>
  BY DEF RefreshFails
<1>2. reader' = [r \in Readers |->
               IF reader[r].of = t /\ reader[r].at = "reading" THEN NoRead ELSE reader[r]]
  BY DEF RefreshFails
<1>3. x \in TargetType /\ Fine(x, repo) /\ x.phase # "unused"
  BY <1>1, InUse DEF Unused
<1>4. /\ sub \in [Subs -> SubType] /\ reader \in [Readers -> ReaderType]
      /\ NoRead \in ReaderType /\ NoRead.at = "out"
  BY Typed DEF SubType, ReaderType, NoRead
<1>5. failures' \in 0..MaxFailures
  BY <1>1, Typed, ConstantsAssumption
<1>6. /\ y \in TargetType /\ y.refresh = None /\ y.phase = x.phase
      /\ y.listeners = x.listeners /\ y.dropped = x.dropped
  <2>. HIDE DEF x
  <2>. QED  BY <1>3 DEF TargetType
<1>. HIDE DEF y
<1>7. Fine(y, repo) /\ y.phase # "unused"
  BY <1>3, <1>6 DEF Fine
<1>8. \A u \in Targets : target'[u] = IF u = t THEN y ELSE target[u]
  BY <1>1, Typed
<1>9. reader' \in [Readers -> ReaderType]
  BY <1>2, <1>4
<1>10. OneTarget(t, y)
  <2>1. target' \in [Targets -> TargetType]
    BY <1>1, <1>6, Typed
  <2>. QED  BY <1>1, <1>4, <1>5, <1>6, <1>7, <1>8, <1>9, <2>1, Typed DEF OneTarget
<1>11. TypeOK' /\ TargetsFine'
  BY <1>10, OneTargetFine
<1>12. ReadersServed' /\ ForcedReadsAreFresh'
  <2>1. \A r \in Readers : \/ reader'[r] = reader[r] /\ ~(reader[r].at = "reading" /\ reader[r].of = t)
                           \/ reader'[r].at = "out"
    BY <1>2, <1>4
  <2>. QED  BY <1>10, <2>1, ReadersServedKeeps
<1>13. WellHeld'
  <2>1. \A u \in Targets : /\ target'[u].phase = target[u].phase
                           /\ target'[u].dropped = target[u].dropped
                           /\ target'[u].listeners = target[u].listeners
    BY <1>6, <1>8
  <2>2. current \in Targets \cup {None} /\ setup \in Targets \cup {None}
    BY Typed
  <2>. QED  BY <1>1, <2>1, <2>2, NoneAssumption DEF Inv, WellHeld, Registered
<1>. QED  BY <1>11, <1>12, <1>13 DEF Inv

\* What is left of a target whose set-up fails.
FailedSetup(x) ==
    [(IF x.phase = "loading" THEN Unused ELSE Closed(x)) EXCEPT !.phase = "failed",
                                                                !.dropped = TRUE]

LEMMA FailedSetupIs ==
    ASSUME NEW x \in TargetType
    PROVE  LET y == FailedSetup(x)
           IN  /\ y \in TargetType /\ y.phase = "failed" /\ y.dropped = TRUE /\ y.listeners = {}
               /\ y.refresh = (IF x.phase = "loading" THEN None ELSE x.refresh)
               /\ y.snapshot = (IF x.phase = "loading" THEN None ELSE x.snapshot)
<1> DEFINE z == IF x.phase = "loading" THEN Unused ELSE Closed(x)
<1>1. Unused \in TargetType /\ Unused.listeners = {} /\ Unused.refresh = None
      /\ Unused.snapshot = None
  BY DEF Unused, TargetType
<1>2. Closed(x) \in TargetType /\ Closed(x).listeners = {} /\ Closed(x).refresh = x.refresh
      /\ Closed(x).snapshot = x.snapshot
  BY DEF Closed, TargetType
<1>3. /\ z \in TargetType /\ z.listeners = {}
      /\ z.refresh = (IF x.phase = "loading" THEN None ELSE x.refresh)
      /\ z.snapshot = (IF x.phase = "loading" THEN None ELSE x.snapshot)
  BY <1>1, <1>2
<1>4. FailedSetup(x) = [z EXCEPT !.phase = "failed", !.dropped = TRUE]
  BY DEF FailedSetup
<1>. HIDE DEF z
<1>5. LET y == [z EXCEPT !.phase = "failed", !.dropped = TRUE]
      IN  /\ y \in TargetType /\ y.phase = "failed" /\ y.dropped = TRUE
          /\ y.listeners = z.listeners /\ y.refresh = z.refresh /\ y.snapshot = z.snapshot
  BY <1>3 DEF TargetType
<1>. QED  BY <1>3, <1>4, <1>5

LEMMA SetupFailsKeeps == ASSUME Inv, NEW t \in Targets, SetupFails(t) PROVE Inv'
<1> DEFINE x == target[t]
           y == FailedSetup(x)
           told == IF x.phase = "loading" THEN {"reading", "ensuring"} ELSE {"ensuring"}
<1>1. /\ setup = t /\ failures < MaxFailures /\ failures' = failures + 1
      /\ target' = [target EXCEPT ![t] = y]
      /\ current' = None /\ setup' = None /\ UNCHANGED <<repo, fetches>>
  BY DEF SetupFails, FailedSetup
<1>2. /\ sub' = [s \in Subs |->
               IF sub[s].of = t /\ sub[s].at \in {"loading", "ensuring"} THEN Out ELSE sub[s]]
      /\ reader' = [r \in Readers |->
               IF reader[r].of = t /\ reader[r].at \in told THEN NoRead ELSE reader[r]]
  BY DEF SetupFails
<1>3. x \in TargetType /\ Fine(x, repo)
  BY InUse
<1>4. /\ sub \in [Subs -> SubType] /\ reader \in [Readers -> ReaderType]
      /\ Out \in SubType /\ Out.at = "out" /\ NoRead \in ReaderType /\ NoRead.at = "out"
  BY Typed DEF SubType, ReaderType, Out, NoRead
<1>5. failures' \in 0..MaxFailures
  BY <1>1, Typed, ConstantsAssumption
<1>6. /\ y \in TargetType /\ y.phase = "failed" /\ y.dropped = TRUE
      /\ y.refresh = (IF x.phase = "loading" THEN None ELSE x.refresh)
  <2>. HIDE DEF x
  <2>. QED  BY <1>3, FailedSetupIs
<1>. HIDE DEF x, y
<1>7. Fine(y, repo)
  BY <1>3, <1>6 DEF Fine
<1>8. \A u \in Targets : target'[u] = IF u = t THEN y ELSE target[u]
  BY <1>1, Typed
<1>9. sub' \in [Subs -> SubType] /\ reader' \in [Readers -> ReaderType]
  BY <1>2, <1>4
<1>10. OneTarget(t, y)
  <2>1. target' \in [Targets -> TargetType]
    BY <1>1, <1>6, Typed
  <2>. QED  BY <1>1, <1>5, <1>6, <1>7, <1>8, <1>9, <2>1, Typed DEF OneTarget
<1>11. TypeOK' /\ TargetsFine'
  BY <1>10, OneTargetFine
<1>12. ReadersServed' /\ ForcedReadsAreFresh'
  <2>1. ASSUME NEW r \in Readers
        PROVE  \/ /\ reader'[r] = reader[r]
                  /\ reader[r].at = "reading" /\ reader[r].of = t =>
                       (Serves(target[t], reader[r].since) => Serves(y, reader[r].since))
               \/ reader'[r].at = "out"
    <3>1. CASE x.phase = "loading"
      BY <1>2, <1>4, <3>1
    <3>2. CASE x.phase # "loading"
      BY <1>2, <1>4, <1>6, <3>2 DEF Serves, x
    <3>. QED  BY <3>1, <3>2
  <2>. QED  BY <1>10, <2>1, ReadersServedKeeps
<1>13. WellHeld'
  <2>1. \A u \in Targets : target'[u].phase \notin {"loading", "probing"}
    BY <1>1, <1>6, <1>8 DEF Inv, WellHeld
  <2>2. ASSUME NEW s \in Subs
        PROVE  /\ sub'[s].at \in {"in", "loading"} =>
                    sub'[s].of \in Targets /\ target'[sub'[s].of].dropped
               /\ sub'[s].at # "ensuring"
    <3>1. sub'[s].at # "ensuring" /\ (sub'[s].at \in {"in", "loading"} => sub'[s] = sub[s])
      BY <1>1, <1>2, <1>4 DEF Inv, WellHeld
    <3>2. sub[s].at \in {"in", "loading"} =>
            sub[s].of \in Targets /\ (target[sub[s].of].dropped \/ current = sub[s].of)
      BY DEF Inv, WellHeld, Registered
    <3>3. current = None \/ current = t
      BY <1>1, NoneAssumption DEF Inv, WellHeld
    <3>4. sub[s].at \in {"in", "loading"} =>
            sub[s].of \in Targets /\ (target[sub[s].of].dropped \/ sub[s].of = t)
      BY <3>2, <3>3, NoneAssumption
    <3>. QED  BY <1>6, <1>8, <3>1, <3>4
  <2>. QED  BY <1>1, <2>1, <2>2 DEF WellHeld
<1>. QED  BY <1>11, <1>12, <1>13 DEF Inv

LEMMA SetupEndsKeeps == ASSUME Inv, NEW t \in Targets, SetupEnds(t) PROVE Inv'
<1> DEFINE x == target[t]
           ss == {s \in Subs : sub[s].at = "ensuring" /\ sub[s].of = t}
           rs == {r \in Readers : reader[r].at = "ensuring" /\ reader[r].of = t}
           z == Listening(x, ss)
           ready == [z EXCEPT !.phase = "ready", !.watching = TRUE]
           y == IF rs = {} THEN ready ELSE Requested(ready, TRUE)
<1>1. /\ setup = t /\ x.phase = "probing" /\ setup' = None /\ fetches' = TRUE
      /\ target' = [target EXCEPT ![t] = y]
      /\ UNCHANGED <<repo, current, failures>>
  BY DEF SetupEnds
<1>2. /\ sub' = [s \in Subs |-> IF s \in ss THEN Joined(t) ELSE sub[s]]
      /\ reader' = [r \in Readers |-> IF r \in rs THEN Reading(t) ELSE reader[r]]
  BY DEF SetupEnds
<1>3. x \in TargetType /\ Fine(x, repo) /\ x.phase # "unused" /\ repo \in Nat
  BY <1>1, InUse, Typed
<1>4. /\ sub \in [Subs -> SubType] /\ reader \in [Readers -> ReaderType]
  BY Typed DEF SubType, ReaderType
<1>5. /\ z \in TargetType /\ z.refresh = x.refresh /\ z.listeners = x.listeners \cup ss
      /\ z.dropped = x.dropped
  <2>1. ss \in SUBSET Subs
    OBVIOUS
  <2>. HIDE DEF ss, x
  <2>. QED  BY <1>3, <2>1, ListeningIs
<1>6. /\ ready \in TargetType /\ ready.refresh = x.refresh /\ ready.phase = "ready"
      /\ ready.listeners = x.listeners \cup ss /\ ready.dropped = x.dropped
  <2>. HIDE DEF z, ss, x
  <2>. QED  BY <1>5 DEF TargetType
<1>7. Fine(ready, repo)
  <2>. HIDE DEF x, ready
  <2>. QED  BY <1>3, <1>6 DEF Fine
<1>8. Keeps(ready, y, repo) /\ (rs # {} => y = Requested(ready, TRUE))
  <2>1. Keeps(ready, ready, repo)
    BY <1>6, <1>7 DEF Keeps
  <2>2. Keeps(ready, Requested(ready, TRUE), repo)
    <3>. HIDE DEF ready
    <3>. QED  BY <1>6, <1>7, RequestedKeeps
  <2>. HIDE DEF ready, rs
  <2>. QED  BY <2>1, <2>2
<1>9. Reading(t) = [at |-> "reading", of |-> t, since |-> SinceOf(x), got |-> None]
  BY DEF Reading, Since, SinceOf
<1>10. rs # {} => Served(Reading(t), y) /\ Reading(t) \in ReaderType
  <2>1. SinceOf(ready) = SinceOf(x)
    <3>. HIDE DEF ready, x
    <3>. QED  BY <1>6 DEF SinceOf
  <2>2. /\ SinceOf(ready) \in Versions /\ SinceOf(ready) <= repo
        /\ Serves(Requested(ready, TRUE), SinceOf(ready))
    <3>. HIDE DEF ready
    <3>. QED  BY <1>6, <1>7, RequestedServes
  <2>. HIDE DEF ready, x, y, rs
  <2>3. /\ Reading(t).of = t /\ Reading(t).since = SinceOf(x)
        /\ Reading(t) \in ReaderType
    BY <1>9, <2>1, <2>2 DEF ReaderType
  <2>. HIDE DEF Reading
  <2>4. rs # {} => Serves(y, SinceOf(x))
    BY <1>8, <2>1, <2>2
  <2>. QED  BY <2>1, <2>2, <2>3, <2>4 DEF Served
<1>11. Joined(t) \in SubType /\ Joined(t).of = t /\ Joined(t).at \in {"loading", "in"}
  BY JoinedIs
<1>12. /\ y \in TargetType /\ Fine(y, repo) /\ y.phase = "ready" /\ y.listeners = x.listeners \cup ss
       /\ y.dropped = x.dropped
       /\ \A v \in Versions : v <= repo /\ Serves(x, v) => Serves(y, v)
  <2>1. \A v : Serves(x, v) => Serves(ready, v)
    <3>. HIDE DEF ready, x
    <3>. QED  BY <1>6 DEF Serves
  <2>. HIDE DEF ready, x, y
  <2>. QED  BY <1>6, <1>8, <2>1 DEF Keeps
<1>. HIDE DEF y, ready, z
<1>13. \A u \in Targets : target'[u] = IF u = t THEN y ELSE target[u]
  BY <1>1, Typed
<1>14. sub' \in [Subs -> SubType] /\ reader' \in [Readers -> ReaderType]
  <2>1. \A r \in Readers : reader'[r] \in ReaderType
    BY <1>2, <1>4, <1>10
  <2>2. reader' \in [Readers -> ReaderType]
    BY <1>2, <2>1
  <2>. QED  BY <1>2, <1>4, <1>11, <2>2
<1>15. OneTarget(t, y)
  <2>1. target' \in [Targets -> TargetType]
    BY <1>1, <1>12, Typed
  <2>. QED  BY <1>1, <1>12, <1>13, <1>14, <2>1, Typed DEF OneTarget
<1>16. TypeOK' /\ TargetsFine'
  BY <1>15, OneTargetFine
<1>17. ReadersServed' /\ ForcedReadsAreFresh'
  <2>1. ASSUME NEW r \in Readers
        PROVE  \/ /\ reader'[r] = reader[r]
                  /\ reader[r].at = "reading" /\ reader[r].of = t =>
                       (Serves(target[t], reader[r].since) => Serves(y, reader[r].since))
               \/ reader'[r].at = "reading" /\ reader'[r].of = t /\ Served(reader'[r], y)
    <3>1. CASE r \in rs
      <4>1. reader'[r] = Reading(t)
        BY <1>2, <3>1
      <4>2. Served(Reading(t), y)
        BY <1>10, <3>1
      <4>. QED  BY <1>9, <4>1, <4>2
    <3>2. CASE r \notin rs
      <4>1. reader'[r] = reader[r]
        BY <1>2, <3>2
      <4>2. reader[r].at = "reading" /\ reader[r].of = t =>
              reader[r].since \in Versions /\ reader[r].since <= repo
        BY DEF Inv, ReadersServed
      <4>. QED  BY <1>12, <4>1, <4>2
    <3>. QED  BY <3>1, <3>2
  <2>. QED  BY <1>15, <2>1, ReadersServedKeeps
<1>18. WellHeld'
  <2>1. x.dropped \/ current = t
    BY <1>1, NoneAssumption DEF Inv, WellHeld
  <2>2. \A u \in Targets : target'[u].phase \notin {"loading", "probing"}
    BY <1>1, <1>12, <1>13 DEF Inv, WellHeld
  <2>3. ASSUME NEW s \in Subs
        PROVE  /\ sub'[s].at \in {"in", "loading"} =>
                    sub'[s].of \in Targets /\ (target'[sub'[s].of].dropped \/ Registered(s)')
               /\ sub'[s].at # "ensuring"
    <3>1. CASE s \in ss
      BY <1>1, <1>2, <1>11, <1>12, <1>13, <2>1, <3>1 DEF Registered
    <3>2. CASE s \notin ss
      <4>1. sub'[s] = sub[s]
        BY <1>2, <3>2
      <4>2. sub[s].at # "ensuring"
        BY <1>1, <3>2 DEF Inv, WellHeld
      <4>3. sub[s].at \in {"in", "loading"} =>
              sub[s].of \in Targets /\ (target[sub[s].of].dropped \/ Registered(s))
        BY DEF Inv, WellHeld
      <4>4. Registered(s) /\ sub[s].of \in Targets => Registered(s)'
        BY <1>1, <1>12, <1>13, <4>1 DEF Registered
      <4>. QED  BY <1>12, <1>13, <4>1, <4>2, <4>3, <4>4
    <3>. QED  BY <3>1, <3>2
  <2>4. current # None => ~target'[current].dropped
    BY <1>12, <1>13, Typed DEF Inv, WellHeld
  <2>. QED  BY <1>1, <2>2, <2>3, <2>4 DEF WellHeld
<1>. QED  BY <1>16, <1>17, <1>18 DEF Inv

------------------------------------------------------------------------------
(* The theorems.                                                              *)

LEMMA InitInv == Init => Inv
<1> SUFFICES ASSUME Init PROVE Inv
  OBVIOUS
<1>1. 0 \in Versions /\ 0 \in 0..MaxFailures
  BY ConstantsAssumption DEF Versions
<1>2. /\ Unused \in TargetType /\ Unused.refresh = None /\ Unused.phase = "unused"
      /\ Out \in SubType /\ Out.at = "out" /\ NoRead \in ReaderType /\ NoRead.at = "out"
  BY DEF Unused, TargetType, Out, SubType, NoRead, ReaderType
<1>3. /\ \A t \in Targets : target[t] = Unused
      /\ \A s \in Subs : sub[s] = Out
      /\ \A r \in Readers : reader[r] = NoRead
      /\ target \in [Targets -> TargetType] /\ sub \in [Subs -> SubType]
      /\ reader \in [Readers -> ReaderType]
  BY <1>2 DEF Init
<1>4. TypeOK
  BY <1>1, <1>2, <1>3 DEF Init, TypeOK, TargetType, SubType, ReaderType
<1>5. TargetsFine /\ ReadersServed /\ ForcedReadsAreFresh /\ WellHeld
  BY <1>2, <1>3 DEF Init, TargetsFine, Fine, ReadersServed, ForcedReadsAreFresh, WellHeld
<1>. QED  BY <1>4, <1>5 DEF Inv

LEMMA NextInv == Inv /\ [Next]_vars => Inv'
<1> SUFFICES ASSUME Inv, [Next]_vars PROVE Inv'
  OBVIOUS
<1>1. CASE \E s \in Subs : Subscribe(s) \/ Unsubscribe(s)
  BY <1>1, SubscribeKeeps, UnsubscribeKeeps
<1>2. CASE \E r \in Readers : ForcedRead(r)
  BY <1>2, ForcedReadKeeps
<1>3. CASE \E t \in Targets : Works(t) \/ RefreshFails(t) \/ SetupFails(t)
  <2>1. PICK t \in Targets : Works(t) \/ RefreshFails(t) \/ SetupFails(t)
    BY <1>3
  <2>2. \/ RefreshReads(t) \/ RefreshEnds(t) \/ SetupEnds(t) \/ DebounceFires(t) \/ SelfHeal(t)
        \/ GapEnds(t) \/ SnapshotAges(t) \/ RefreshFails(t) \/ SetupFails(t)
    BY <2>1 DEF Works
  <2>. QED  BY <2>2, RefreshReadsKeeps, RefreshEndsKeeps, SetupEndsKeeps, DebounceFiresKeeps,
               SelfHealKeeps, GapEndsKeeps, RefreshFailsKeeps, SetupFailsKeeps
<1>4. CASE Polled \/ Environment
  BY <1>4, PolledKeeps, EnvironmentKeeps
<1>5. CASE UNCHANGED vars
  BY <1>5 DEF vars, Inv, TypeOK, TargetsFine, ReadersServed, ForcedReadsAreFresh, WellHeld, Registered
<1>. QED  BY <1>1, <1>2, <1>3, <1>4, <1>5 DEF Next

LEMMA InvHolds == Spec => []Inv
<1>. QED  BY InitInv, NextInv, PTL DEF Spec

\* Every variable keeps its type, and a refresh waits only behind an unforced
\* one, whatever is subscribed, forced, polled, changed or failing.
THEOREM TypeCorrect == Spec => []TypeOK
<1>1. Inv => TypeOK
  BY DEF Inv
<1>. QED  BY <1>1, InvHolds, PTL

\* A read forced after a mutation answers with what was read after it was
\* asked for, or after the start of the forced refresh it joined.
THEOREM ForcedReadsAreFreshHolds == Spec => []ForcedReadsAreFresh
<1>1. Inv => ForcedReadsAreFresh
  BY DEF Inv
<1>. QED  BY <1>1, InvHolds, PTL

\* Every subscriber is a listener of the target the directory has, unless its
\* target was closed while it was set up: whoever comes, leaves or fails at any
\* other time takes the target away from nobody.
THEOREM SubscribersAreRegisteredHolds == Spec => []SubscribersAreRegistered
<1>1. Inv => SubscribersAreRegistered
  BY DEF Inv, WellHeld, SubscribersAreRegistered
<1>. QED  BY <1>1, InvHolds, PTL

------------------------------------------------------------------------------
(* Subscribers show the snapshot of their target.                             *)

\* A target with listeners has its timer, what a refresh that notifies nobody
\* reads is the first snapshot, and a target that is ready has one.
TargetFits(x) ==
    /\ x.listeners # {} => x.heal
    /\ x.refresh # None /\ ~x.refresh.notify => x.snapshot = None
    /\ x.phase \in {"probing", "ready"} => x.snapshot # None

ListenersSubscribe ==
    \A t \in Targets : ~target[t].dropped =>
        \A s \in target[t].listeners : sub[s].at \in {"in", "loading"} /\ sub[s].of = t

\* Whom a dropped target disturbs may be shown anything.
ShownFits ==
    /\ \A t \in Targets : TargetFits(target[t])
    /\ ListenersSubscribe
    /\ current # None => target[current].phase \in {"loading", "probing", "ready"}
    /\ setup # None /\ target[setup].dropped => target[setup].listeners = {}
    /\ \A s \in Subs :
         /\ sub[s].at = "loading" => target[sub[s].of].phase = "loading"
         /\ sub[s].at = "in" =>
              Disturbed(s) \/ (sub[s].saw # None /\ sub[s].saw = target[sub[s].of].snapshot)

\* Steps that change nothing a subscriber sees.
Alike(x, y) ==
    /\ y.listeners = x.listeners /\ y.phase = x.phase /\ y.snapshot = x.snapshot
    /\ y.heal = x.heal /\ y.dropped = x.dropped /\ TargetFits(y)

LEMMA SubscribersOf ==
    ASSUME Inv
    PROVE  /\ current \in Targets \cup {None} /\ setup \in Targets \cup {None} /\ None \notin Targets
           /\ setup # None => current = setup \/ (current = None /\ target[setup].dropped)
           /\ current # None => current \in Targets /\ ~target[current].dropped
           /\ \A t \in Targets : target[t].phase \in {"loading", "probing"} => setup = t
           /\ \A t \in Targets : target[t] \in TargetType
           /\ \A s \in Subs : /\ sub[s].at \in {"in", "loading"} =>
                                   /\ sub[s].of \in Targets
                                   /\ ~target[sub[s].of].dropped =>
                                        sub[s].of = current /\ s \in target[current].listeners
                              /\ sub[s].at = "ensuring" => setup \in Targets /\ sub[s].of = setup
                              /\ sub[s].at \in {"out", "ensuring", "loading", "in"}
                              /\ sub[s] \in SubType
BY Typed, NoneAssumption DEF Inv, WellHeld, Registered, SubType

LEMMA AlikeKeeps ==
    ASSUME Inv, ShownFits, UNCHANGED <<current, setup, sub>>,
           \A t \in Targets : Alike(target[t], target'[t])
    PROVE  ShownFits'
<1>1. \A t \in Targets : /\ target'[t].listeners = target[t].listeners
                         /\ target'[t].dropped = target[t].dropped
                         /\ target'[t].phase = target[t].phase
                         /\ target'[t].snapshot = target[t].snapshot
                         /\ TargetFits(target'[t])
  BY DEF Alike
<1>2. \A s \in Subs : Disturbed(s) => Disturbed(s)'
  BY <1>1 DEF Disturbed
<1>3. ListenersSubscribe'
  BY <1>1 DEF ShownFits, ListenersSubscribe
<1>. QED  BY <1>1, <1>2, <1>3, SubscribersOf DEF ShownFits

LEMMA OneAlikeKeeps ==
    ASSUME Inv, ShownFits, UNCHANGED <<current, setup, sub>>,
           NEW t \in Targets, NEW y, Alike(target[t], y), target' = [target EXCEPT ![t] = y]
    PROVE  ShownFits'
<1>1. \A u \in Targets : target'[u] = IF u = t THEN y ELSE target[u]
  BY Typed
<1>. QED  BY <1>1, AlikeKeeps DEF Alike, ShownFits

\* A refresh that is asked for notifies the listeners.
LEMMA RequestedAlike ==
    ASSUME Inv, NEW x \in TargetType, TargetFits(x), NEW f \in BOOLEAN
    PROVE  Alike(x, Requested(x, f)) /\ Requested(x, f) \in TargetType
<1>r. repo \in Versions
  BY Typed
<1>1. CASE x.refresh # None
  <2> DEFINE q == x.refresh.queued \/ (f /\ ~x.refresh.force)
  <2>1. x.refresh \in Refresh /\ q \in BOOLEAN
    BY <1>1 DEF TargetType, Refresh
  <2>2. /\ [x.refresh EXCEPT !.queued = q] \in Refresh
        /\ [x.refresh EXCEPT !.queued = q].notify = x.refresh.notify
    BY <2>1 DEF Refresh
  <2>3. Requested(x, f) = [x EXCEPT !.refresh = [x.refresh EXCEPT !.queued = q]]
    BY <1>1 DEF Requested
  <2>. HIDE DEF q
  <2>4. LET y == [x EXCEPT !.refresh = [x.refresh EXCEPT !.queued = q]]
        IN  /\ y \in TargetType /\ y.listeners = x.listeners /\ y.phase = x.phase
            /\ y.snapshot = x.snapshot /\ y.heal = x.heal /\ y.refresh.notify = x.refresh.notify
            /\ y.dropped = x.dropped
    BY <2>2 DEF TargetType
  <2>. QED  BY <1>1, <2>3, <2>4 DEF Alike, TargetFits
<1>2. CASE x.refresh = None /\ Requested(x, f) = x
  BY <1>2 DEF Alike
<1>3. CASE Requested(x, f) = Started(x, f, TRUE)
  <2> DEFINE r == [force |-> f, notify |-> TRUE, began |-> repo, read |-> None, queued |-> FALSE]
             y == [x EXCEPT !.throttled = TRUE, !.refresh = r]
  <2>1. Started(x, f, TRUE) = y /\ r.notify = TRUE /\ r \in Refresh
    BY <1>r DEF Started, Refresh
  <2>. HIDE DEF r
  <2>2. /\ y.listeners = x.listeners /\ y.phase = x.phase /\ y \in TargetType
        /\ y.snapshot = x.snapshot /\ y.heal = x.heal /\ y.refresh = r
        /\ y.dropped = x.dropped
    BY <2>1 DEF TargetType
  <2>. QED  BY <1>3, <2>1, <2>2 DEF Alike, TargetFits
<1>. QED  BY <1>1, <1>2, <1>3 DEF Requested

LEMMA RequestedShown ==
    ASSUME Inv, ShownFits, UNCHANGED <<current, setup, sub>>, NEW t \in Targets,
           NEW f \in BOOLEAN, target' = [target EXCEPT ![t] = Requested(target[t], f)]
    PROVE  ShownFits'
<1>1. Alike(target[t], Requested(target[t], f))
  BY RequestedAlike, Typed DEF ShownFits
<1>. QED  BY <1>1, OneAlikeKeeps

\* Who was disturbed stays so as long as it stays where it is.
LEMMA DisturbedStays ==
    ASSUME NEW t \in Targets, NEW y, NEW s \in Subs,
           \A u \in Targets : target'[u] = IF u = t THEN y ELSE target[u],
           target[t].dropped => y.dropped /\ target[t].listeners \subseteq y.listeners,
           Disturbed(s), sub'[s].of = sub[s].of
    PROVE  Disturbed(s)'
<1>1. PICK w \in Targets : target[w].dropped /\ (w = sub[s].of \/ s \in target[w].listeners)
  BY DEF Disturbed
<1>2. target'[w].dropped /\ (w = sub'[s].of \/ s \in target'[w].listeners)
  BY <1>1
<1>. QED  BY <1>2 DEF Disturbed

\* One target changes, and with it what its subscribers see.
LEMMA OneTargetShown ==
    ASSUME Inv, ShownFits, NEW t \in Targets, NEW y,
           \A u \in Targets : target'[u] = IF u = t THEN y ELSE target[u],
           TargetFits(y),
           target[t].dropped => y.dropped /\ target[t].listeners \subseteq y.listeners,
           ~y.dropped => \A s \in y.listeners : sub'[s].at \in {"in", "loading"} /\ sub'[s].of = t,
           \/ current' = None
           \/ current' = t /\ y.phase \in {"loading", "probing", "ready"}
           \/ current' = current /\ current # t,
           setup' \in {None, t} \/ (setup' = setup /\ setup # t),
           setup' = t /\ y.dropped => y.listeners = {},
           \A s \in Subs :
             \/ sub'[s] = sub[s] /\ (sub[s].at \in {"in", "loading"} => sub[s].of # t)
             \/ /\ \A u \in Targets : u # t /\ ~target[u].dropped => s \notin target[u].listeners
                /\ \/ sub'[s].at \notin {"in", "loading"}
                   \/ sub'[s].at = "loading" /\ sub'[s].of = t /\ y.phase = "loading"
                   \/ /\ sub'[s].at = "in" /\ sub'[s].of = t
                      /\ Disturbed(s)' \/ (sub'[s].saw # None /\ sub'[s].saw = y.snapshot)
             \/ sub[s].at = "in" /\ sub'[s].at = "in" /\ sub'[s].of = sub[s].of /\ Disturbed(s)'
    PROVE  ShownFits'
<1>1. \A u \in Targets : TargetFits(target'[u])
  BY DEF ShownFits
<1>2. ListenersSubscribe'
  <2> SUFFICES ASSUME NEW u \in Targets, ~target'[u].dropped, NEW s \in target'[u].listeners
               PROVE  sub'[s].at \in {"in", "loading"} /\ sub'[s].of = u
    BY DEF ListenersSubscribe
  <2>1. CASE u = t
    BY <2>1
  <2>2. CASE u # t
    <3>1. /\ s \in Subs /\ s \in target[u].listeners /\ ~target[u].dropped
          /\ sub[s].of = u /\ sub[s].at \in {"in", "loading"}
      BY <2>2, SubscribersOf DEF ShownFits, ListenersSubscribe, TargetType
    <3>. QED  BY <2>2, <3>1
  <2>. QED  BY <2>1, <2>2
<1>3. current' # None => target'[current'].phase \in {"loading", "probing", "ready"}
  BY SubscribersOf DEF ShownFits
<1>4. setup' # None /\ target'[setup'].dropped => target'[setup'].listeners = {}
  BY SubscribersOf DEF ShownFits
<1>5. ASSUME NEW s \in Subs
      PROVE  /\ sub'[s].at = "loading" => target'[sub'[s].of].phase = "loading"
             /\ sub'[s].at = "in" =>
                  \/ Disturbed(s)'
                  \/ sub'[s].saw # None /\ sub'[s].saw = target'[sub'[s].of].snapshot
  <2>1. CASE sub'[s] = sub[s] /\ (sub[s].at \in {"in", "loading"} => sub[s].of # t)
    <3>1. Disturbed(s) => Disturbed(s)'
      BY <2>1, DisturbedStays
    <3>2. sub[s].at \in {"in", "loading"} => target'[sub[s].of] = target[sub[s].of]
      BY <2>1, SubscribersOf
    <3>. QED  BY <2>1, <3>1, <3>2 DEF ShownFits
  <2>2. CASE \/ sub'[s].at \notin {"in", "loading"}
             \/ sub'[s].at = "loading" /\ sub'[s].of = t /\ y.phase = "loading"
             \/ /\ sub'[s].at = "in" /\ sub'[s].of = t
                /\ Disturbed(s)' \/ (sub'[s].saw # None /\ sub'[s].saw = y.snapshot)
    BY <2>2
  <2>3. CASE sub'[s].at = "in" /\ Disturbed(s)'
    BY <2>3
  <2>. QED  BY <2>1, <2>2, <2>3
<1>. QED  BY <1>1, <1>2, <1>3, <1>4, <1>5 DEF ShownFits

\* Who listens to a target that was not dropped subscribes to it and to no other.
LEMMA NotElsewhere ==
    ASSUME ShownFits, NEW t \in Targets, NEW s \in Subs,
           sub[s].of = t \/ sub[s].at \notin {"in", "loading"}
    PROVE  \A u \in Targets : u # t /\ ~target[u].dropped => s \notin target[u].listeners
BY DEF ShownFits, ListenersSubscribe

\* A subscriber of a target that stays as it was for it.
LEMMA StaysShown ==
    ASSUME Inv, ShownFits, NEW t \in Targets, NEW y, NEW s \in Subs,
           \A u \in Targets : target'[u] = IF u = t THEN y ELSE target[u],
           target[t].dropped => y.dropped /\ target[t].listeners \subseteq y.listeners,
           y.phase = target[t].phase \/ target[t].phase # "loading", y.snapshot = target[t].snapshot,
           sub'[s] = sub[s]
    PROVE  \/ sub'[s] = sub[s] /\ (sub[s].at \in {"in", "loading"} => sub[s].of # t)
           \/ /\ \A u \in Targets : u # t /\ ~target[u].dropped => s \notin target[u].listeners
              /\ \/ sub'[s].at \notin {"in", "loading"}
                 \/ sub'[s].at = "loading" /\ sub'[s].of = t /\ y.phase = "loading"
                 \/ /\ sub'[s].at = "in" /\ sub'[s].of = t
                    /\ Disturbed(s)' \/ (sub'[s].saw # None /\ sub'[s].saw = y.snapshot)
<1>1. Disturbed(s) => Disturbed(s)'
  BY DisturbedStays
<1>2. CASE sub[s].at \in {"in", "loading"} /\ sub[s].of = t
  <2>1. \A u \in Targets : u # t /\ ~target[u].dropped => s \notin target[u].listeners
    BY <1>2, NotElsewhere
  <2>. QED  BY <1>1, <1>2, <2>1 DEF ShownFits
<1>. QED  BY <1>2

\* A target that is created has no subscriber yet.
LEMMA CreatedShown ==
    ASSUME Inv, ShownFits, current = None, setup = None, NEW t \in Free,
           target' = [target EXCEPT ![t] = Created(t)], current' = t, setup' = t,
           \A s \in Subs : sub'[s] = sub[s] \/ (sub[s].at = "out" /\ sub'[s].at = "ensuring")
    PROVE  ShownFits'
<1>1. t \in Targets /\ ~target[t].dropped
  <2>1. t \in Targets /\ target[t].phase = "unused"
    BY DEF Free
  <2>2. target[t] = Unused
    BY <2>1, InUse
  <2>. QED  BY <2>1, <2>2 DEF Unused
<1>2. LET y == Created(t)
      IN  /\ y.listeners = {} /\ y.phase = "loading" /\ y.snapshot = None /\ y.dropped = FALSE
  BY DEF Created, Started, Unused
<1>3. TargetFits(Created(t))
  BY <1>2 DEF TargetFits
<1>4. \A u \in Targets : target'[u] = IF u = t THEN Created(t) ELSE target[u]
  BY <1>1, Typed
<1>5. ASSUME NEW s \in Subs
      PROVE  \/ sub'[s] = sub[s] /\ (sub[s].at \in {"in", "loading"} => sub[s].of # t)
             \/ /\ \A u \in Targets : u # t /\ ~target[u].dropped => s \notin target[u].listeners
                /\ sub'[s].at \notin {"in", "loading"}
  <2>1. CASE sub'[s] = sub[s]
    <3>1. sub[s].at \in {"in", "loading"} => sub[s].of # t
      BY <1>1, SubscribersOf
    <3>. QED  BY <2>1, <3>1
  <2>2. CASE sub[s].at = "out" /\ sub'[s].at = "ensuring"
    <3>1. \A u \in Targets : u # t /\ ~target[u].dropped => s \notin target[u].listeners
      BY <1>1, <2>2, NotElsewhere
    <3>. QED  BY <2>2, <3>1
  <2>. QED  BY <2>1, <2>2
<1>. QED  BY <1>1, <1>2, <1>3, <1>4, <1>5, OneTargetShown

\* Asking for a target that is not there changes nothing for the subscribers.
LEMMA WaitingShown ==
    ASSUME Inv, ShownFits, current = None,
           \A s \in Subs : sub'[s] = sub[s] \/ (sub[s].at = "out" /\ sub'[s].at = "ensuring"),
           \/ setup # None /\ UNCHANGED <<target, current, setup>>
           \/ /\ setup = None /\ Free # {} /\ current' = setup'
              /\ setup' = (CHOOSE f \in Free : TRUE)
              /\ target' = [target EXCEPT ![setup'] = Created(setup')]
    PROVE  ShownFits'
<1>1. CASE setup # None /\ UNCHANGED <<target, current, setup>>
  <2>1. ListenersSubscribe'
    <3> SUFFICES ASSUME NEW u \in Targets, ~target[u].dropped, NEW s \in target[u].listeners
                 PROVE  sub'[s].at \in {"in", "loading"} /\ sub'[s].of = u
      BY <1>1 DEF ListenersSubscribe
    <3>1. s \in Subs /\ sub[s].at \in {"in", "loading"} /\ sub[s].of = u
      BY SubscribersOf DEF ShownFits, ListenersSubscribe, TargetType
    <3>. QED  BY <3>1
  <2>2. \A s \in Subs : sub'[s] = sub[s] /\ Disturbed(s) => Disturbed(s)'
    BY <1>1 DEF Disturbed
  <2>. QED  BY <1>1, <2>1, <2>2 DEF ShownFits
<1>2. CASE /\ setup = None /\ Free # {} /\ current' = setup'
           /\ setup' = (CHOOSE f \in Free : TRUE)
           /\ target' = [target EXCEPT ![setup'] = Created(setup')]
  <2>1. setup' \in Free
    BY <1>2
  <2>. QED  BY <1>2, <2>1, CreatedShown
<1>. QED  BY <1>1, <1>2

LEMMA JoinedShows ==
    ASSUME Inv, NEW t \in Targets
    PROVE  /\ Joined(t).of = t /\ Joined(t).at \in {"in", "loading"}
           /\ Joined(t).at = "loading" => target[t].snapshot = None
           /\ Joined(t).at = "in" => Joined(t).saw # None /\ Joined(t).saw = target[t].snapshot
BY DEF Joined

LEMMA ListeningShows ==
    ASSUME NEW x \in TargetType, TargetFits(x), NEW ss \in SUBSET Subs
    PROVE  LET y == Listening(x, ss)
           IN  /\ TargetFits(y) /\ y \in TargetType /\ y.listeners = x.listeners \cup ss
               /\ y.phase = x.phase /\ y.snapshot = x.snapshot /\ y.refresh = x.refresh
               /\ y.dropped = x.dropped
<1> DEFINE y == Listening(x, ss)
<1>1. /\ y.listeners = x.listeners \cup ss /\ y.phase = x.phase /\ y.snapshot = x.snapshot
      /\ y.refresh = x.refresh /\ y.heal = (x.heal \/ x.listeners \cup ss # {})
      /\ y.dropped = x.dropped
      /\ y \in TargetType
  BY DEF Listening, TargetType
<1>. HIDE DEF y
<1>2. TargetFits(y)
  BY <1>1 DEF TargetFits
<1>3. /\ TargetFits(y) /\ y \in TargetType /\ y.listeners = x.listeners \cup ss
      /\ y.phase = x.phase /\ y.snapshot = x.snapshot /\ y.refresh = x.refresh
      /\ y.dropped = x.dropped
  BY <1>1, <1>2
<1>. QED  BY <1>3 DEF y

LEMMA SubscribeShown ==
    ASSUME Inv, ShownFits, NEW s \in Subs, Subscribe(s)
    PROVE  ShownFits'
<1>1. sub[s].at = "out"
  BY DEF Subscribe
<1>2. CASE current # None
  <2> DEFINE x == target[current]
             y == Listening(x, {s})
  <2>1. /\ target' = [target EXCEPT ![current] = y] /\ sub' = [sub EXCEPT ![s] = Joined(current)]
        /\ UNCHANGED <<current, setup>>
    BY <1>2 DEF Subscribe, Ensure
  <2>2. current \in Targets /\ x \in TargetType /\ TargetFits(x) /\ ~x.dropped
    BY <1>2, SubscribersOf DEF ShownFits
  <2>3. /\ TargetFits(y) /\ y.listeners = x.listeners \cup {s} /\ y.dropped = x.dropped
        /\ y.phase = x.phase /\ y.snapshot = x.snapshot
    <3>. HIDE DEF x
    <3>. QED  BY <2>2, ListeningShows
  <2>. HIDE DEF y
  <2>4. \A u \in Targets : target'[u] = IF u = current THEN y ELSE target[u]
    BY <2>1, Typed
  <2>5. \A z \in Subs : sub'[z] = IF z = s THEN Joined(current) ELSE sub[z]
    BY <2>1, Typed
  <2>6. x.phase \in {"loading", "probing", "ready"}
    BY <1>2 DEF ShownFits
  <2>7. /\ Joined(current).of = current /\ Joined(current).at \in {"in", "loading"}
        /\ Joined(current).at = "loading" => x.snapshot = None
        /\ Joined(current).at = "in" => Joined(current).saw # None /\ Joined(current).saw = x.snapshot
    BY <2>2, JoinedShows
  <2>8. Joined(current).at = "loading" => y.phase = "loading"
    BY <2>2, <2>3, <2>6, <2>7 DEF TargetFits
  <2>9. ASSUME NEW z \in Subs
        PROVE  \/ sub'[z] = sub[z] /\ (sub[z].at \in {"in", "loading"} => sub[z].of # current)
               \/ /\ \A u \in Targets : u # current /\ ~target[u].dropped => z \notin target[u].listeners
                  /\ \/ sub'[z].at \notin {"in", "loading"}
                     \/ sub'[z].at = "loading" /\ sub'[z].of = current /\ y.phase = "loading"
                     \/ /\ sub'[z].at = "in" /\ sub'[z].of = current
                        /\ Disturbed(z)' \/ (sub'[z].saw # None /\ sub'[z].saw = y.snapshot)
    <3>1. CASE z = s
      <4>1. \A u \in Targets : u # current /\ ~target[u].dropped => z \notin target[u].listeners
        BY <1>1, <2>2, <3>1, NotElsewhere
      <4>. QED  BY <2>3, <2>5, <2>7, <2>8, <3>1, <4>1
    <3>2. CASE z # s
      <4>1. sub'[z] = sub[z]
        BY <2>5, <3>2
      <4>. QED  BY <2>2, <2>3, <2>4, <4>1, StaysShown
    <3>. QED  BY <3>1, <3>2
  <2>10. \A z \in y.listeners : sub'[z].at \in {"in", "loading"} /\ sub'[z].of = current
    BY <2>2, <2>3, <2>5, <2>7 DEF ShownFits, ListenersSubscribe, TargetType
  <2>11. current' = current /\ y.phase \in {"loading", "probing", "ready"}
    BY <2>1, <2>3, <2>6
  <2>12. setup' \in {None, current}
    BY <1>2, <2>1, SubscribersOf
  <2>. QED  BY <2>2, <2>3, <2>4, <2>9, <2>10, <2>11, <2>12, OneTargetShown
<1>3. CASE current = None
  <2>1. \/ setup # None /\ UNCHANGED <<target, current, setup>>
        \/ /\ setup = None /\ Free # {} /\ current' = setup'
           /\ setup' = (CHOOSE f \in Free : TRUE)
           /\ target' = [target EXCEPT ![setup'] = Created(setup')]
    BY <1>3 DEF Subscribe, Ensure
  <2>2. sub' = [sub EXCEPT ![s] = [Out EXCEPT !.at = "ensuring", !.of = setup']]
    BY <1>3 DEF Subscribe, Ensure
  <2>3. [Out EXCEPT !.at = "ensuring", !.of = setup'].at = "ensuring"
    BY DEF Out
  <2>4. \A z \in Subs : sub'[z] = sub[z] \/ (sub[z].at = "out" /\ sub'[z].at = "ensuring")
    BY <1>1, <2>2, <2>3, Typed
  <2>. QED  BY <1>3, <2>1, <2>4, WaitingShown
<1>. QED  BY <1>2, <1>3

LEMMA UnsubscribeShown ==
    ASSUME Inv, ShownFits, NEW s \in Subs, Unsubscribe(s)
    PROVE  ShownFits'
<1>1. /\ sub[s].at = "in" /\ setup' = setup /\ sub[s].of \in Targets
      /\ \A z \in Subs : sub'[z] = IF z = s THEN Out ELSE sub[z]
  BY SubscribersOf, Typed DEF Unsubscribe
<1>2. Out.at = "out"
  BY DEF Out
<1>3. \A u \in Targets : u # current /\ ~target[u].dropped => s \notin target[u].listeners
  BY <1>1, SubscribersOf DEF ShownFits, ListenersSubscribe
<1>4. CASE current = None
  <2> DEFINE t == sub[s].of
             y == target[t]
  <2>1. target' = target /\ current' = None
    BY <1>4, Typed, NoneAssumption DEF Unsubscribe
  <2>2. t \in Targets /\ y.dropped /\ TargetFits(y)
    BY <1>1, <1>4, SubscribersOf DEF ShownFits
  <2>3. \A u \in Targets : target'[u] = IF u = t THEN y ELSE target[u]
    BY <2>1
  <2>4. setup' = t => y.listeners = {}
    BY <1>1, <2>2, NoneAssumption DEF ShownFits
  <2>5. ASSUME NEW z \in Subs
        PROVE  \/ sub'[z] = sub[z] /\ (sub[z].at \in {"in", "loading"} => sub[z].of # t)
               \/ /\ \A u \in Targets : u # t /\ ~target[u].dropped => z \notin target[u].listeners
                  /\ \/ sub'[z].at \notin {"in", "loading"}
                     \/ sub'[z].at = "loading" /\ sub'[z].of = t /\ y.phase = "loading"
                     \/ /\ sub'[z].at = "in" /\ sub'[z].of = t
                        /\ Disturbed(z)' \/ (sub'[z].saw # None /\ sub'[z].saw = y.snapshot)
    <3>1. CASE z = s
      <4>1. \A u \in Targets : u # t /\ ~target[u].dropped => s \notin target[u].listeners
        BY <2>2, NotElsewhere
      <4>. QED  BY <1>1, <1>2, <3>1, <4>1
    <3>2. CASE z # s
      <4>1. sub'[z] = sub[z]
        BY <1>1, <3>2
      <4>. QED  BY <2>2, <2>3, <4>1, StaysShown
    <3>. QED  BY <3>1, <3>2
  <2>. HIDE DEF y, t
  <2>6. setup' \in {None, t} \/ (setup' = setup /\ setup # t)
    BY <1>1
  <2>7. target[t] = y
    BY DEF y
  <2>. QED  BY <2>1, <2>2, <2>3, <2>4, <2>5, <2>6, <2>7, OneTargetShown
<1>5. CASE current # None
  <2> DEFINE x == target[current]
             gone == x.listeners \subseteq {s}
             y == IF gone THEN Removed(current) ELSE [x EXCEPT !.listeners = @ \ {s}]
  <2>1. /\ current \in Targets /\ x \in TargetType /\ TargetFits(x) /\ x.dropped = FALSE
        /\ x.phase \in {"loading", "probing", "ready"}
    BY <1>5, SubscribersOf DEF ShownFits, TargetType
  <2>2. /\ target' = [target EXCEPT ![current] = y]
        /\ current' = IF gone THEN None ELSE current
    BY <1>5, <2>1, Typed DEF Unsubscribe
  <2>3. \A u \in Targets : target'[u] = IF u = current THEN y ELSE target[u]
    BY <2>2, Typed
  <2>4. \A z \in x.listeners : z \in Subs /\ sub[z].at \in {"in", "loading"} /\ sub[z].of = current
    BY <2>1 DEF ShownFits, ListenersSubscribe, TargetType
  <2>5. /\ TargetFits(y) /\ (gone => y.listeners = {})
        /\ ~gone => /\ y.listeners = x.listeners \ {s} /\ y.phase = x.phase
                    /\ y.snapshot = x.snapshot /\ y.dropped = FALSE
    <3>1. CASE gone /\ x.refresh = None /\ setup # current
      <4>1. y = [Unused EXCEPT !.phase = "removed"]
        BY <3>1 DEF Removed
      <4>2. y.listeners = {} /\ y.phase = "removed" /\ y.refresh = None
        BY <4>1 DEF Unused
      <4>. HIDE DEF y
      <4>. QED  BY <3>1, <4>2 DEF TargetFits
    <3>2. CASE gone /\ ~(x.refresh = None /\ setup # current)
      <4> DEFINE c == Closed(x)
      <4>1. y = [c EXCEPT !.dropped = setup = current]
        BY <3>2 DEF Removed
      <4>2. /\ c \in TargetType /\ c.listeners = {} /\ c.phase = x.phase
            /\ c.refresh = x.refresh /\ c.snapshot = x.snapshot
        <5>. HIDE DEF x
        <5>. QED  BY <2>1 DEF Closed, TargetType
      <4>. HIDE DEF c, y
      <4>3. /\ y.listeners = {} /\ y.phase = x.phase
            /\ y.refresh = x.refresh /\ y.snapshot = x.snapshot
        BY <4>1, <4>2 DEF TargetType
      <4>. HIDE DEF x
      <4>4. TargetFits(y)
        BY <2>1, <4>3 DEF TargetFits
      <4>. QED  BY <3>2, <4>3, <4>4
    <3>3. CASE ~gone
      <4>1. y = [x EXCEPT !.listeners = x.listeners \ {s}]
        BY <3>3
      <4>. HIDE DEF y, x
      <4>2. /\ y.listeners = x.listeners \ {s} /\ y.phase = x.phase /\ y.refresh = x.refresh
            /\ y.snapshot = x.snapshot /\ y.heal = x.heal /\ y.dropped = x.dropped
        BY <2>1, <4>1 DEF TargetType
      <4>3. TargetFits(y)
        BY <2>1, <4>2 DEF TargetFits
      <4>. QED  BY <2>1, <3>3, <4>2, <4>3
    <3>. QED  BY <3>1, <3>2, <3>3
  <2>. HIDE DEF y
  <2>6. ASSUME NEW z \in Subs
        PROVE  \/ sub'[z] = sub[z] /\ (sub[z].at \in {"in", "loading"} => sub[z].of # current)
               \/ /\ \A u \in Targets : u # current /\ ~target[u].dropped => z \notin target[u].listeners
                  /\ \/ sub'[z].at \notin {"in", "loading"}
                     \/ sub'[z].at = "loading" /\ sub'[z].of = current /\ y.phase = "loading"
                     \/ /\ sub'[z].at = "in" /\ sub'[z].of = current
                        /\ Disturbed(z)' \/ (sub'[z].saw # None /\ sub'[z].saw = y.snapshot)
    <3>1. CASE z = s
      BY <1>1, <1>2, <1>3, <3>1
    <3>2. CASE z # s /\ gone
      <4>1. sub'[z] = sub[z]
        BY <1>1, <3>2
      <4>2. sub[z].at \in {"in", "loading"} => sub[z].of # current
        BY <2>1, <3>2, SubscribersOf
      <4>. QED  BY <4>1, <4>2
    <3>3. CASE z # s /\ ~gone
      <4>1. sub'[z] = sub[z]
        BY <1>1, <3>3
      <4>. QED  BY <2>1, <2>3, <2>5, <3>3, <4>1, StaysShown
    <3>. QED  BY <3>1, <3>2, <3>3
  <2>7. \A z \in y.listeners : sub'[z].at \in {"in", "loading"} /\ sub'[z].of = current
    BY <1>1, <2>4, <2>5
  <2>8. \/ current' = None
        \/ current' = current /\ y.phase \in {"loading", "probing", "ready"}
    BY <2>1, <2>2, <2>5
  <2>9. setup' \in {None, current}
    BY <1>1, <1>5, SubscribersOf
  <2>10. setup' = current /\ y.dropped => y.listeners = {}
    BY <2>5
  <2>. QED  BY <2>1, <2>3, <2>5, <2>6, <2>7, <2>8, <2>9, <2>10, OneTargetShown
<1>. QED  BY <1>4, <1>5

\* A refresh that ends shows its result to whoever waited for it and, unless
\* they have seen it, to the other listeners.
LEMMA RememberedShows ==
    ASSUME Inv, NEW x \in TargetType, TargetFits(x), x.refresh # None, x.refresh.read # None
    PROVE  LET y == Remembered(x)
           IN  /\ TargetFits(y) /\ y.listeners = x.listeners
               /\ y.snapshot = x.refresh.read /\ y.dropped = x.dropped
               /\ y.phase = IF x.phase = "loading" /\ ~x.refresh.queued THEN "probing" ELSE x.phase
<1> DEFINE read == x.refresh.read
           kept == [x EXCEPT !.snapshot = read, !.warm = TRUE]
           y == Remembered(x)
<1>1. x.refresh \in Refresh /\ read \in Versions /\ repo \in Versions
  <2>1. x.refresh \in Refresh
    BY DEF TargetType
  <2>. QED  BY <2>1, Typed DEF Refresh
<1>2. /\ kept \in TargetType /\ kept.phase = x.phase /\ kept.listeners = x.listeners
      /\ kept.heal = x.heal /\ kept.snapshot = read /\ kept.dropped = x.dropped
  <2>. HIDE DEF read
  <2>. QED  BY <1>1 DEF TargetType
<1>3. CASE x.refresh.queued
  <2> DEFINE r == [force |-> TRUE, notify |-> TRUE, began |-> repo, read |-> None, queued |-> FALSE]
  <2>1. y = [kept EXCEPT !.throttled = TRUE, !.refresh = r] /\ r.notify = TRUE
    BY <1>3 DEF Remembered, Started
  <2>. HIDE DEF kept, y, r
  <2>2. /\ y.phase = x.phase /\ y.listeners = x.listeners /\ y.heal = x.heal
        /\ y.snapshot = read /\ y.refresh = r /\ y.dropped = x.dropped
    BY <1>2, <2>1 DEF TargetType
  <2>. HIDE DEF read
  <2>3. TargetFits(y)
    BY <2>1, <2>2 DEF TargetFits, read
  <2>. QED  BY <1>3, <2>2, <2>3 DEF y, read
<1>4. CASE ~x.refresh.queued
  <2>1. y = [kept EXCEPT !.refresh = None,
                         !.phase = IF @ = "loading" THEN "probing" ELSE @]
    BY <1>4 DEF Remembered
  <2>. HIDE DEF kept, y
  <2>2. /\ y.phase = (IF x.phase = "loading" THEN "probing" ELSE x.phase)
        /\ y.listeners = x.listeners /\ y.heal = x.heal /\ y.snapshot = read /\ y.refresh = None
        /\ y.dropped = x.dropped
    BY <1>2, <2>1 DEF TargetType
  <2>3. TargetFits(y)
    BY <2>2 DEF TargetFits
  <2>. QED  BY <1>4, <2>2, <2>3 DEF y
<1>. QED  BY <1>3, <1>4

LEMMA RefreshEndsShown ==
    ASSUME Inv, ShownFits, NEW t \in Targets, RefreshEnds(t)
    PROVE  ShownFits'
<1> DEFINE x == target[t]
           y == Remembered(x)
           read == x.refresh.read
           last == ~x.refresh.queued
<1>1. /\ x.refresh # None /\ read # None /\ target' = [target EXCEPT ![t] = y]
      /\ UNCHANGED <<current, setup>>
  BY DEF RefreshEnds
<1>2. sub' = [s \in Subs |->
               IF last /\ sub[s].at = "loading" /\ sub[s].of = t
               THEN [sub[s] EXCEPT !.at = "in", !.saw = read]
               ELSE IF Emits(x) /\ s \in x.listeners /\ sub[s].at = "in"
               THEN [sub[s] EXCEPT !.saw = read] ELSE sub[s]]
  BY DEF RefreshEnds
<1>3. x \in TargetType /\ TargetFits(x)
  BY Typed DEF ShownFits
<1>4. /\ TargetFits(y) /\ y.listeners = x.listeners /\ y.snapshot = read /\ y.dropped = x.dropped
      /\ y.phase = IF x.phase = "loading" /\ last THEN "probing" ELSE x.phase
  <2>. HIDE DEF x
  <2>. QED  BY <1>1, <1>3, RememberedShows
<1>5. x.refresh.notify = FALSE \/ Emits(x) \/ x.snapshot = read
  <2>1. x.refresh \in Refresh
    BY <1>1, <1>3 DEF TargetType
  <2>2. x.refresh.notify \in BOOLEAN
    <3>. HIDE DEF x
    <3>. QED  BY <2>1 DEF Refresh
  <2>. QED  BY <2>2 DEF Emits
<1>. HIDE DEF y
<1>6. \A u \in Targets : target'[u] = IF u = t THEN y ELSE target[u]
  BY <1>1, Typed
<1>d. ASSUME NEW s \in Subs, Disturbed(s), sub'[s].of = sub[s].of PROVE Disturbed(s)'
  BY <1>4, <1>6, <1>d, DisturbedStays
<1>7. ASSUME NEW s \in Subs
      PROVE  \/ sub'[s] = sub[s] /\ (sub[s].at \in {"in", "loading"} => sub[s].of # t)
             \/ /\ \A u \in Targets : u # t /\ ~target[u].dropped => s \notin target[u].listeners
                /\ \/ sub'[s].at \notin {"in", "loading"}
                   \/ sub'[s].at = "loading" /\ sub'[s].of = t /\ y.phase = "loading"
                   \/ /\ sub'[s].at = "in" /\ sub'[s].of = t
                      /\ Disturbed(s)' \/ (sub'[s].saw # None /\ sub'[s].saw = y.snapshot)
             \/ sub[s].at = "in" /\ sub'[s].at = "in" /\ sub'[s].of = sub[s].of /\ Disturbed(s)'
  <2>1. sub[s] \in SubType /\ sub[s].at \in {"out", "ensuring", "loading", "in"}
    BY SubscribersOf
  <2>2. CASE sub[s].at \notin {"in", "loading"}
    BY <1>2, <2>2
  <2>3. CASE sub[s].at \in {"in", "loading"} /\ sub[s].of # t /\ ~(sub[s].at = "in" /\ s \in x.listeners)
    BY <1>2, <2>3
  <2>4. CASE sub[s].at = "in" /\ sub[s].of # t /\ s \in x.listeners
    <3>1. x.dropped
      BY <2>4 DEF ShownFits, ListenersSubscribe
    <3>2. Disturbed(s)
      BY <2>4, <3>1 DEF Disturbed
    <3>3. sub'[s] = [sub[s] EXCEPT !.saw = read] \/ sub'[s] = sub[s]
      BY <1>2, <2>4
    <3>4. sub'[s].at = "in" /\ sub'[s].of = sub[s].of
      BY <2>1, <2>4, <3>3 DEF SubType
    <3>. QED  BY <1>d, <2>4, <3>2, <3>4
  <2>5. CASE sub[s].at = "loading" /\ sub[s].of = t
    <3>1. \A u \in Targets : u # t /\ ~target[u].dropped => s \notin target[u].listeners
      BY <2>5, NotElsewhere
    <3>2. x.phase = "loading"
      BY <2>5 DEF ShownFits
    <3>3. CASE last
      <4>1. sub'[s] = [sub[s] EXCEPT !.at = "in", !.saw = read]
        BY <1>2, <2>5, <3>3
      <4>2. sub'[s].at = "in" /\ sub'[s].of = t /\ sub'[s].saw = read
        BY <2>1, <2>5, <4>1 DEF SubType
      <4>. QED  BY <1>1, <1>4, <3>1, <4>2
    <3>4. CASE ~last
      <4>1. sub'[s] = sub[s]
        BY <1>2, <2>5, <3>4
      <4>. QED  BY <1>4, <2>5, <3>1, <3>2, <3>4, <4>1
    <3>. QED  BY <3>3, <3>4
  <2>6. CASE sub[s].at = "in" /\ sub[s].of = t
    <3>1. \A u \in Targets : u # t /\ ~target[u].dropped => s \notin target[u].listeners
      BY <2>6, NotElsewhere
    <3>2. sub'[s] = [sub[s] EXCEPT !.saw = read] \/ sub'[s] = sub[s]
      BY <1>2, <2>6
    <3>3. sub'[s].at = "in" /\ sub'[s].of = t
      BY <2>1, <2>6, <3>2 DEF SubType
    <3>4. CASE Disturbed(s)
      BY <1>d, <2>6, <3>1, <3>3, <3>4
    <3>5. CASE ~Disturbed(s)
      <4>1. ~x.dropped
        BY <2>6, <3>5 DEF Disturbed
      <4>2. s \in x.listeners
        BY <2>6, <4>1, SubscribersOf
      <4>3. sub[s].saw # None /\ sub[s].saw = x.snapshot
        BY <2>6, <3>5 DEF ShownFits
      <4>4. CASE Emits(x)
        <5>1. sub'[s] = [sub[s] EXCEPT !.saw = read]
          BY <1>2, <2>6, <4>2, <4>4
        <5>2. sub'[s].saw = read
          BY <2>1, <5>1 DEF SubType
        <5>. QED  BY <1>1, <1>4, <3>1, <3>3, <5>2
      <4>5. CASE ~Emits(x)
        <5>1. x.refresh.notify # FALSE
          BY <1>1, <1>3, <4>3 DEF TargetFits
        <5>2. x.snapshot = read
          BY <1>5, <4>5, <5>1
        <5>3. sub'[s] = sub[s]
          BY <1>2, <2>6, <4>5
        <5>. QED  BY <1>4, <3>1, <3>3, <4>3, <5>2, <5>3
      <4>. QED  BY <4>4, <4>5
    <3>. QED  BY <3>4, <3>5
  <2>. QED  BY <2>1, <2>2, <2>3, <2>4, <2>5, <2>6
<1>8. ~y.dropped => \A s \in y.listeners : sub'[s].at \in {"in", "loading"} /\ sub'[s].of = t
  <2> SUFFICES ASSUME ~y.dropped, NEW s \in y.listeners
               PROVE  sub'[s].at \in {"in", "loading"} /\ sub'[s].of = t
    OBVIOUS
  <2>1. s \in Subs /\ sub[s].at \in {"in", "loading"} /\ sub[s].of = t
    BY <1>3, <1>4 DEF ShownFits, ListenersSubscribe, TargetType
  <2>2. sub[s] \in SubType
    BY <2>1, SubscribersOf
  <2>3. \/ sub'[s] = sub[s] \/ sub'[s] = [sub[s] EXCEPT !.saw = read]
        \/ sub'[s] = [sub[s] EXCEPT !.at = "in", !.saw = read]
    BY <1>2, <2>1
  <2>. QED  BY <2>1, <2>2, <2>3 DEF SubType
<1>9. \/ current' = None
      \/ current' = t /\ y.phase \in {"loading", "probing", "ready"}
      \/ current' = current /\ current # t
  <2>1. current # None => target[current].phase \in {"loading", "probing", "ready"}
    BY DEF ShownFits
  <2>. QED  BY <1>1, <1>4, <2>1
<1>10. /\ setup' \in {None, t} \/ (setup' = setup /\ setup # t)
       /\ setup' = t /\ y.dropped => y.listeners = {}
  <2>1. t # None
    BY NoneAssumption
  <2>. QED  BY <1>1, <1>4, <2>1 DEF ShownFits
<1>11. x.dropped => y.dropped /\ x.listeners \subseteq y.listeners
  BY <1>4
<1>. QED  BY <1>4, <1>6, <1>7, <1>8, <1>9, <1>10, <1>11, OneTargetShown

\* A refresh that fails loses only what it has read.
LEMMA RefreshFailsShown ==
    ASSUME Inv, ShownFits, NEW t \in Targets, RefreshFails(t)
    PROVE  ShownFits'
<1> DEFINE x == target[t]
           y == [x EXCEPT !.refresh = None]
<1>1. target' = [target EXCEPT ![t] = y] /\ UNCHANGED <<current, setup, sub>>
  BY DEF RefreshFails
<1>2. x \in TargetType /\ TargetFits(x)
  BY Typed DEF ShownFits
<1>3. Alike(x, y)
  <2>. HIDE DEF x
  <2>1. /\ y.listeners = x.listeners /\ y.phase = x.phase /\ y.snapshot = x.snapshot
        /\ y.heal = x.heal /\ y.dropped = x.dropped /\ y.refresh = None
    BY <1>2 DEF TargetType
  <2>. HIDE DEF y
  <2>. QED  BY <1>2, <2>1 DEF Alike, TargetFits
<1>. HIDE DEF y
<1>. QED  BY <1>1, <1>3, OneAlikeKeeps

\* A set-up that fails drops its target, and whoever is left on it.
LEMMA SetupFailsShown ==
    ASSUME Inv, ShownFits, NEW t \in Targets, SetupFails(t)
    PROVE  ShownFits'
<1> DEFINE x == target[t]
           y == FailedSetup(x)
<1>1. /\ setup = t /\ target' = [target EXCEPT ![t] = y] /\ current' = None /\ setup' = None
  BY DEF SetupFails, FailedSetup
<1>2. \A s \in Subs : sub'[s] = IF sub[s].of = t /\ sub[s].at \in {"loading", "ensuring"}
                                THEN Out ELSE sub[s]
  BY DEF SetupFails
<1>3. x \in TargetType /\ TargetFits(x) /\ Out.at = "out" /\ t # None
  BY Typed, NoneAssumption DEF ShownFits, Out
<1>4. /\ y.phase = "failed" /\ y.dropped = TRUE /\ y.listeners = {}
      /\ y.refresh = (IF x.phase = "loading" THEN None ELSE x.refresh)
      /\ y.snapshot = (IF x.phase = "loading" THEN None ELSE x.snapshot)
  <2>. HIDE DEF x
  <2>. QED  BY <1>3, FailedSetupIs
<1>5. x.dropped => x.listeners = {}
  BY <1>1, <1>3 DEF ShownFits
<1>. HIDE DEF y
<1>6. TargetFits(y)
  <2>. HIDE DEF x
  <2>. QED  BY <1>3, <1>4 DEF TargetFits
<1>7. \A u \in Targets : target'[u] = IF u = t THEN y ELSE target[u]
  BY <1>1, Typed
<1>8. ASSUME NEW s \in Subs
      PROVE  \/ sub'[s] = sub[s] /\ (sub[s].at \in {"in", "loading"} => sub[s].of # t)
             \/ /\ \A u \in Targets : u # t /\ ~target[u].dropped => s \notin target[u].listeners
                /\ \/ sub'[s].at \notin {"in", "loading"}
                   \/ sub'[s].at = "in" /\ sub'[s].of = t /\ Disturbed(s)'
  <2>1. CASE sub[s].of = t
    <3>1. \A u \in Targets : u # t /\ ~target[u].dropped => s \notin target[u].listeners
      BY <2>1, NotElsewhere
    <3>2. CASE sub[s].at = "in"
      <4>1. sub'[s] = sub[s]
        BY <1>2, <3>2
      <4>2. Disturbed(s)'
        BY <1>4, <1>7, <2>1, <4>1 DEF Disturbed
      <4>. QED  BY <2>1, <3>1, <3>2, <4>1, <4>2
    <3>3. CASE sub[s].at # "in"
      BY <1>2, <1>3, <2>1, <3>1, <3>3
    <3>. QED  BY <3>2, <3>3
  <2>2. CASE sub[s].of # t
    BY <1>2, <2>2
  <2>. QED  BY <2>1, <2>2
<1>9. x.dropped => y.dropped /\ x.listeners \subseteq y.listeners
  BY <1>4, <1>5
<1>. QED  BY <1>1, <1>4, <1>6, <1>7, <1>8, <1>9, OneTargetShown

\* Whoever waited for the set-up joins a target that has a snapshot.
LEMMA SetupEndsShown ==
    ASSUME Inv, ShownFits, NEW t \in Targets, SetupEnds(t)
    PROVE  ShownFits'
<1> DEFINE x == target[t]
           ss == {s \in Subs : sub[s].at = "ensuring" /\ sub[s].of = t}
           rs == {r \in Readers : reader[r].at = "ensuring" /\ reader[r].of = t}
           z == Listening(x, ss)
           ready == [z EXCEPT !.phase = "ready", !.watching = TRUE]
           y == IF rs = {} THEN ready ELSE Requested(ready, TRUE)
<1>1. /\ setup = t /\ x.phase = "probing" /\ target' = [target EXCEPT ![t] = y]
      /\ current' = current /\ setup' = None
  BY DEF SetupEnds
<1>2. sub' = [s \in Subs |-> IF s \in ss THEN Joined(t) ELSE sub[s]]
  BY DEF SetupEnds
<1>3. x \in TargetType /\ TargetFits(x) /\ x.snapshot # None
  BY <1>1, Typed DEF ShownFits, TargetFits
<1>4. current' = None \/ current' = t
  BY <1>1, SubscribersOf
<1>5. /\ z \in TargetType /\ TargetFits(z) /\ z.listeners = x.listeners \cup ss
      /\ z.snapshot = x.snapshot /\ z.dropped = x.dropped
  <2>1. ss \in SUBSET Subs
    OBVIOUS
  <2>. HIDE DEF ss, x
  <2>. QED  BY <1>3, <2>1, ListeningShows
<1>6. /\ ready \in TargetType /\ TargetFits(ready) /\ ready.phase = "ready"
      /\ ready.listeners = x.listeners \cup ss /\ ready.snapshot = x.snapshot
      /\ ready.dropped = x.dropped
  <2>. HIDE DEF z, ss, x
  <2>1. /\ ready \in TargetType /\ ready.phase = "ready" /\ ready.listeners = z.listeners
        /\ ready.dropped = z.dropped /\ ready.snapshot = z.snapshot /\ ready.refresh = z.refresh /\ ready.heal = z.heal
    BY <1>5 DEF TargetType
  <2>. HIDE DEF ready
  <2>. QED  BY <1>3, <1>5, <2>1 DEF TargetFits
<1>7. /\ TargetFits(y) /\ y.phase = "ready" /\ y.listeners = x.listeners \cup ss
      /\ y.snapshot = x.snapshot /\ y.dropped = x.dropped
  <2>. HIDE DEF ready, rs, ss, x
  <2>1. CASE rs = {}
    BY <1>6, <2>1
  <2>2. CASE rs # {}
    <3>1. y = Requested(ready, TRUE)
      BY <2>2
    <3>2. Alike(ready, Requested(ready, TRUE))
      BY <1>6, RequestedAlike
    <3>. QED  BY <1>6, <3>1, <3>2 DEF Alike
  <2>. QED  BY <2>1, <2>2
<1>8. Joined(t).at = "in" /\ Joined(t).of = t /\ Joined(t).saw = x.snapshot
  BY <1>3 DEF Joined
<1>. HIDE DEF y, ready, z
<1>9. \A u \in Targets : target'[u] = IF u = t THEN y ELSE target[u]
  BY <1>1, Typed
<1>10. ASSUME NEW s \in Subs
       PROVE  \/ sub'[s] = sub[s] /\ (sub[s].at \in {"in", "loading"} => sub[s].of # t)
              \/ /\ \A u \in Targets : u # t /\ ~target[u].dropped => s \notin target[u].listeners
                 /\ \/ sub'[s].at \notin {"in", "loading"}
                    \/ sub'[s].at = "loading" /\ sub'[s].of = t /\ y.phase = "loading"
                    \/ /\ sub'[s].at = "in" /\ sub'[s].of = t
                       /\ Disturbed(s)' \/ (sub'[s].saw # None /\ sub'[s].saw = y.snapshot)
  <2>1. CASE s \in ss
    <3>1. \A u \in Targets : u # t /\ ~target[u].dropped => s \notin target[u].listeners
      BY <2>1, NotElsewhere
    <3>. QED  BY <1>2, <1>3, <1>7, <1>8, <2>1, <3>1
  <2>2. CASE s \notin ss
    <3>1. sub'[s] = sub[s]
      BY <1>2, <2>2
    <3>. QED  BY <1>1, <1>7, <1>9, <3>1, StaysShown
  <2>. QED  BY <2>1, <2>2
<1>11. ~y.dropped => \A s \in y.listeners : sub'[s].at \in {"in", "loading"} /\ sub'[s].of = t
  <2>1. ~y.dropped => \A s \in y.listeners :
          s \in Subs /\ (s \in ss \/ (sub[s].at \in {"in", "loading"} /\ sub[s].of = t))
    BY <1>3, <1>7 DEF ShownFits, ListenersSubscribe, TargetType
  <2>. QED  BY <1>10, <1>2, <1>8, <2>1
<1>12. x.dropped => y.dropped /\ x.listeners \subseteq y.listeners
  BY <1>7
<1>13. t # None
  BY NoneAssumption
<1>14. setup' = None /\ (current' = None \/ (current' = t /\ y.phase = "ready"))
  BY <1>1, <1>4, <1>7
<1>. QED  BY <1>7, <1>9, <1>10, <1>11, <1>12, <1>13, <1>14, OneTargetShown

LEMMA ForcedReadShown ==
    ASSUME Inv, ShownFits, NEW r \in Readers, ForcedRead(r)
    PROVE  ShownFits'
<1>1. UNCHANGED sub
  BY DEF ForcedRead
<1>2. CASE current # None
  <2>1. target' = [target EXCEPT ![current] = Requested(@, TRUE)] /\ UNCHANGED <<current, setup>>
    BY <1>2 DEF ForcedRead, Ensure
  <2>. QED  BY <1>1, <1>2, <2>1, Typed, RequestedShown
<1>3. CASE current = None
  <2>1. \/ setup # None /\ UNCHANGED <<target, current, setup>>
        \/ /\ setup = None /\ Free # {} /\ current' = setup'
           /\ setup' = (CHOOSE f \in Free : TRUE)
           /\ target' = [target EXCEPT ![setup'] = Created(setup')]
    BY <1>3 DEF ForcedRead, Ensure
  <2>. QED  BY <1>1, <1>3, <2>1, WaitingShown
<1>. QED  BY <1>2, <1>3

LEMMA SelfHealShown ==
    ASSUME Inv, ShownFits, NEW t \in Targets, SelfHeal(t)
    PROVE  ShownFits'
<1>1. UNCHANGED sub
  BY DEF SelfHeal
<1>2. CASE current # None
  <2>1. target' = [target EXCEPT ![current] = Requested(@, FALSE)] /\ UNCHANGED <<current, setup>>
    BY <1>2 DEF SelfHeal, Ensure
  <2>. QED  BY <1>1, <1>2, <2>1, Typed, RequestedShown
<1>3. CASE current = None
  <2>1. \/ setup # None /\ UNCHANGED <<target, current, setup>>
        \/ /\ setup = None /\ Free # {} /\ current' = setup'
           /\ setup' = (CHOOSE f \in Free : TRUE)
           /\ target' = [target EXCEPT ![setup'] = Created(setup')]
    BY <1>3 DEF SelfHeal, Ensure
  <2>. QED  BY <1>1, <1>3, <2>1, WaitingShown
<1>. QED  BY <1>2, <1>3

\* Timers and watchers touch nothing a subscriber sees.
LEMMA TimersAlike ==
    ASSUME NEW x \in TargetType, TargetFits(x)
    PROVE  /\ \A d : Alike(x, [x EXCEPT !.debounce = d])
           /\ Alike(x, [x EXCEPT !.throttled = FALSE]) /\ Alike(x, [x EXCEPT !.warm = FALSE])
<1>1. ASSUME NEW y, y.listeners = x.listeners, y.phase = x.phase, y.snapshot = x.snapshot,
             y.heal = x.heal, y.dropped = x.dropped, y.refresh = x.refresh
      PROVE  Alike(x, y)
  BY <1>1 DEF Alike, TargetFits
<1>2. ASSUME NEW d PROVE Alike(x, [x EXCEPT !.debounce = d])
  <2> DEFINE y == [x EXCEPT !.debounce = d]
  <2>1. /\ y.listeners = x.listeners /\ y.phase = x.phase /\ y.snapshot = x.snapshot
        /\ y.heal = x.heal /\ y.dropped = x.dropped /\ y.refresh = x.refresh
    BY DEF TargetType
  <2>. HIDE DEF y
  <2>2. Alike(x, y)
    BY <1>1, <2>1
  <2>. QED  BY <2>2 DEF y
<1>3. Alike(x, [x EXCEPT !.throttled = FALSE])
  <2> DEFINE y == [x EXCEPT !.throttled = FALSE]
  <2>1. /\ y.listeners = x.listeners /\ y.phase = x.phase /\ y.snapshot = x.snapshot
        /\ y.heal = x.heal /\ y.dropped = x.dropped /\ y.refresh = x.refresh
    BY DEF TargetType
  <2>. HIDE DEF y
  <2>2. Alike(x, y)
    BY <1>1, <2>1
  <2>. QED  BY <2>2 DEF y
<1>4. Alike(x, [x EXCEPT !.warm = FALSE])
  <2> DEFINE y == [x EXCEPT !.warm = FALSE]
  <2>1. /\ y.listeners = x.listeners /\ y.phase = x.phase /\ y.snapshot = x.snapshot
        /\ y.heal = x.heal /\ y.dropped = x.dropped /\ y.refresh = x.refresh
    BY DEF TargetType
  <2>. HIDE DEF y
  <2>2. Alike(x, y)
    BY <1>1, <2>1
  <2>. QED  BY <2>2 DEF y
<1>. QED  BY <1>2, <1>3, <1>4

LEMMA TimersShown ==
    ASSUME Inv, ShownFits, NEW t \in Targets,
           RefreshReads(t) \/ DebounceFires(t) \/ GapEnds(t) \/ SnapshotAges(t)
    PROVE  ShownFits'
<1> DEFINE x == target[t]
<1>1. x \in TargetType /\ TargetFits(x)
  BY Typed DEF ShownFits
<1>2. UNCHANGED <<current, setup, sub>>
  BY DEF RefreshReads, DebounceFires, GapEnds, SnapshotAges
<1>3. CASE RefreshReads(t)
  <2> DEFINE r == [x.refresh EXCEPT !.read = repo]
             y == [x EXCEPT !.refresh = r]
  <2>1. target' = [target EXCEPT ![t] = y] /\ x.refresh # None
    BY <1>3 DEF RefreshReads
  <2>2. r.notify = x.refresh.notify
    <3>1. x.refresh \in Refresh
      BY <1>1, <2>1 DEF TargetType
    <3>. QED  BY <3>1 DEF Refresh
  <2>. HIDE DEF r, x
  <2>3. /\ y.listeners = x.listeners /\ y.phase = x.phase /\ y.snapshot = x.snapshot
        /\ y.heal = x.heal /\ y.dropped = x.dropped /\ y.refresh = r
    BY <1>1 DEF TargetType
  <2>. HIDE DEF y
  <2>4. Alike(x, y)
    BY <1>1, <2>1, <2>2, <2>3 DEF Alike, TargetFits
  <2>. QED  BY <1>2, <2>1, <2>4, OneAlikeKeeps DEF x
<1>4. CASE DebounceFires(t)
  <2> DEFINE f == x.debounce = Debounced(TRUE)
             q == Requested(x, f)
             y == [q EXCEPT !.debounce = None]
  <2>1. target' = [target EXCEPT ![t] = y]
    BY <1>4 DEF DebounceFires
  <2>2. f \in BOOLEAN
    OBVIOUS
  <2>. HIDE DEF f, x
  <2>3. Alike(x, q) /\ q \in TargetType
    BY <1>1, <2>2, RequestedAlike
  <2>. HIDE DEF q
  <2>4. Alike(q, y)
    BY <2>3, TimersAlike DEF Alike
  <2>5. Alike(x, y)
    BY <2>3, <2>4 DEF Alike
  <2>. QED  BY <1>2, <2>1, <2>5, OneAlikeKeeps DEF x
<1>5. CASE GapEnds(t)
  <2>1. target' = [target EXCEPT ![t] = [x EXCEPT !.throttled = FALSE]]
    BY <1>5 DEF GapEnds
  <2>2. Alike(x, [x EXCEPT !.throttled = FALSE])
    BY <1>1, TimersAlike
  <2>. QED  BY <1>2, <2>1, <2>2, OneAlikeKeeps
<1>6. CASE SnapshotAges(t)
  <2>1. target' = [target EXCEPT ![t] = [x EXCEPT !.warm = FALSE]]
    BY <1>6 DEF SnapshotAges
  <2>2. Alike(x, [x EXCEPT !.warm = FALSE])
    BY <1>1, TimersAlike
  <2>. QED  BY <1>2, <2>1, <2>2, OneAlikeKeeps
<1>. QED  BY <1>3, <1>4, <1>5, <1>6

LEMMA EnvironmentShown ==
    ASSUME Inv, ShownFits, Environment
    PROVE  ShownFits'
<1>1. \A u \in Targets : target[u] \in TargetType /\ Alike(target[u], target[u])
  BY Typed DEF ShownFits, Alike
<1>2. CASE RepositoryChanges
  BY <1>1, <1>2, AlikeKeeps DEF RepositoryChanges
<1>3. CASE BranchChanges
  <2>1. \A u \in Targets : \/ target'[u] = target[u]
                           \/ target'[u] = [target[u] EXCEPT !.debounce = Debounced(FALSE)]
    BY <1>3 DEF BranchChanges
  <2>2. ASSUME NEW u \in Targets PROVE Alike(target[u], target'[u])
    <3>1. Alike(target[u], [target[u] EXCEPT !.debounce = Debounced(FALSE)])
      <4>1. target[u] \in TargetType /\ TargetFits(target[u])
        BY <1>1 DEF Alike
      <4>. QED  BY <4>1, TimersAlike
    <3>. QED  BY <1>1, <2>1, <3>1
  <2>. QED  BY <1>3, <2>2, AlikeKeeps DEF BranchChanges
<1>4. CASE WorkingTreeChanges
  <2>1. /\ current \in Targets /\ UNCHANGED <<current, setup, sub>>
        /\ target' = [target EXCEPT ![current] = [target[current] EXCEPT !.debounce = Debounced(TRUE)]]
    BY <1>4, Typed DEF WorkingTreeChanges
  <2>2. Alike(target[current], [target[current] EXCEPT !.debounce = Debounced(TRUE)])
    BY <1>1, <2>1, TimersAlike DEF ShownFits
  <2>. QED  BY <2>1, <2>2, OneAlikeKeeps
<1>. QED  BY <1>2, <1>3, <1>4 DEF Environment

LEMMA PolledShown ==
    ASSUME Inv, ShownFits, Polled
    PROVE  ShownFits'
<1>1. /\ current \in Targets /\ UNCHANGED <<current, setup, sub>>
      /\ target' = [target EXCEPT ![current] = Requested(target[current], FALSE)]
  BY Typed DEF Polled
<1>. QED  BY <1>1, RequestedShown

LEMMA NextShown == Inv /\ ShownFits /\ [Next]_vars => ShownFits'
<1> SUFFICES ASSUME Inv, ShownFits, [Next]_vars PROVE ShownFits'
  OBVIOUS
<1>1. CASE \E s \in Subs : Subscribe(s) \/ Unsubscribe(s)
  BY <1>1, SubscribeShown, UnsubscribeShown
<1>2. CASE \E r \in Readers : ForcedRead(r)
  BY <1>2, ForcedReadShown
<1>3. CASE \E t \in Targets : Works(t) \/ RefreshFails(t) \/ SetupFails(t)
  <2>1. PICK t \in Targets : Works(t) \/ RefreshFails(t) \/ SetupFails(t)
    BY <1>3
  <2>2. \/ RefreshReads(t) \/ DebounceFires(t) \/ GapEnds(t) \/ SnapshotAges(t)
        \/ RefreshEnds(t) \/ SetupEnds(t) \/ SelfHeal(t) \/ RefreshFails(t)
        \/ SetupFails(t)
    BY <2>1 DEF Works
  <2>. QED  BY <2>2, TimersShown, RefreshEndsShown, SetupEndsShown, SelfHealShown, RefreshFailsShown,
               SetupFailsShown
<1>4. CASE Polled \/ Environment
  BY <1>4, PolledShown, EnvironmentShown
<1>5. CASE UNCHANGED vars
  BY <1>5 DEF vars, ShownFits, ListenersSubscribe, Disturbed
<1>. QED  BY <1>1, <1>2, <1>3, <1>4, <1>5 DEF Next

\* Every subscriber was last shown the snapshot its target has, and the target's
\* timer will ask for the next one, unless a target closed while it was set up
\* holds the subscriber or a listener it left behind.
THEOREM SubscribersShowSnapshotHolds == Spec => []SubscribersShowSnapshot
<1>1. Init => ShownFits
  <2> SUFFICES ASSUME Init PROVE ShownFits
    OBVIOUS
  <2>1. /\ \A t \in Targets : target[t] = Unused
        /\ \A s \in Subs : sub[s] = Out
        /\ current = None /\ setup = None
    BY DEF Init
  <2>2. Unused.listeners = {} /\ Unused.refresh = None /\ Unused.phase = "unused" /\ Out.at = "out"
    BY DEF Unused, Out
  <2>. QED  BY <2>1, <2>2 DEF ShownFits, ListenersSubscribe, TargetFits
<1>2. Inv /\ ShownFits => SubscribersShowSnapshot
  <2> SUFFICES ASSUME Inv, ShownFits, NEW s \in Subs, sub[s].at = "in", ~Disturbed(s)
               PROVE  sub[s].saw = target[sub[s].of].snapshot /\ target[sub[s].of].heal
    BY DEF SubscribersShowSnapshot
  <2>1. sub[s].of \in Targets /\ ~target[sub[s].of].dropped
    BY SubscribersOf DEF Disturbed
  <2>2. s \in target[sub[s].of].listeners
    BY <2>1, SubscribersOf
  <2>. QED  BY <2>1, <2>2 DEF ShownFits, TargetFits
<1>. QED  BY <1>1, <1>2, NextShown, InvHolds, PTL DEF Spec
===============================================================================
