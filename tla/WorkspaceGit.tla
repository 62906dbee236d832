----------------------------- MODULE WorkspaceGit -----------------------------
(* The git state of one workspace directory as the daemon's sessions see it   *)
(* (workspace-git-service.ts): targets that cache a snapshot and refresh it,  *)
(* the subscribers a refresh notifies, and the reads forced after a mutation  *)
(* (session.ts: syncWorkspaceGitWatchTarget, notifyGitMutation).              *)
(*                                                                            *)
(* The repository is a version number; a snapshot is the version it was read  *)
(* at.  Targets are objects: one that was removed lives on in whoever still   *)
(* holds it.  The 2 s gap between unforced refreshes, the 15 s life of a      *)
(* snapshot, the 500 ms debounce and the 60 s self-heal interval are steps.   *)
EXTENDS Naturals, FiniteSets

CONSTANTS
    None,
    Subs,               \* subscribers: sessions that show the workspace
    Readers,            \* reads forced after a git mutation
    MaxTargets,         \* bound: target objects
    MaxChanges,         \* bound: changes of the repository
    MaxFailures         \* bound: refreshes and set-ups that fail

ASSUME ConstantsAssumption ==
    /\ MaxTargets \in Nat \ {0} /\ MaxChanges \in Nat /\ MaxFailures \in Nat

Targets == 1..MaxTargets
Versions == 0..MaxChanges

VARIABLES
    repo,           \* the version of the repository
    target,         \* the target objects
    current,        \* workspaceTargets.get(cwd)
    setup,          \* the target of workspaceTargetSetups.get(cwd)
    fetches,        \* the timer of the repository's target runs
    sub,            \* per subscriber: where it is, the version it was shown
    reader,         \* per reader: where it is, what its answer must include
    failures

vars == <<repo, target, current, setup, fetches, sub, reader, failures>>

(* refreshState: who began it, whether it is forced and notifies, what it     *)
(* has read, and the forced request that is queued behind it.                 *)
Refresh == [force : BOOLEAN, notify : BOOLEAN, began : Versions,
            read : Versions \cup {None}, queued : BOOLEAN]
(* dropped is history: the target was closed while it was set up, by the last *)
(* listener that left or by a failure.                                        *)
ASSUME NoneAssumption == None \notin Refresh \cup Targets \cup Versions
Unused == [phase |-> "unused", listeners |-> {}, watching |-> FALSE, debounce |-> None,
           heal |-> FALSE, refresh |-> None, snapshot |-> None,
           warm |-> FALSE, throttled |-> FALSE, dropped |-> FALSE]
Out == [at |-> "out", of |-> None, saw |-> None]
NoRead == [at |-> "out", of |-> None, since |-> None, got |-> None]

Init ==
    /\ repo = 0 /\ target = [t \in Targets |-> Unused]
    /\ current = None /\ setup = None /\ fetches = FALSE
    /\ sub = [s \in Subs |-> Out] /\ reader = [r \in Readers |-> NoRead]
    /\ failures = 0

------------------------------------------------------------------------------
(* Refreshes of a target.                                                     *)

Started(t, force, notify) ==
    [t EXCEPT !.throttled = TRUE,
              !.refresh = [force |-> force, notify |-> notify, began |-> repo,
                           read |-> None, queued |-> FALSE]]

(* requestWorkspaceSnapshot: a forced request waits behind an unforced        *)
(* refresh and joins a forced one.                                            *)
RequestedJoining(t, force) ==
    IF t.refresh # None THEN t
    ELSE IF ~force /\ t.snapshot # None /\ t.throttled THEN t
    ELSE Started(t, force, TRUE)
RequestedQueueing(t, force) ==
    IF t.refresh # None THEN [t EXCEPT !.refresh.queued = @ \/ force]
    ELSE IF ~force /\ t.snapshot # None /\ t.throttled THEN t
    ELSE Started(t, force, TRUE)
Requested(t, force) ==
    IF t.refresh # None
    THEN [t EXCEPT !.refresh.queued = @ \/ (force /\ ~t.refresh.force)]
    ELSE IF ~force /\ t.snapshot # None /\ t.throttled THEN t
    ELSE Started(t, force, TRUE)

(* createWorkspaceTarget: it is current before anything of it is known.       *)
Free == {t \in Targets : target[t].phase = "unused"}
Created(t) == [Started(Unused, FALSE, FALSE) EXCEPT !.phase = "loading"]

(* ensureWorkspaceTarget: the current target, the one that is being set up -  *)
(* though it is no longer current - or a new one.  What the caller does is    *)
(* Found(t) with a target at once, Waits(t) with one to come.                 *)
Ensure(Found(_), Waits(_)) ==
    \/ current # None /\ Found(current) /\ UNCHANGED <<current, setup>>
    \/ /\ current = None /\ setup # None /\ Waits(setup)
       /\ UNCHANGED <<target, current, setup>>
    \/ /\ current = None /\ setup = None /\ Free # {}
       /\ LET t == CHOOSE f \in Free : TRUE IN
           /\ target' = [target EXCEPT ![t] = Created(t)]
           /\ current' = t /\ setup' = t /\ Waits(t)

(* closeWorkspaceTarget, and what callbacks of the object still find.         *)
Closed(t) == [t EXCEPT !.debounce = None, !.heal = FALSE, !.watching = FALSE,
                       !.listeners = {}]

------------------------------------------------------------------------------
(* Subscribers.                                                               *)

(* A subscriber whose target has no snapshot yet waits for the refresh that   *)
(* is under way; its listener is there already.                               *)
ListeningAlone(t, ss) == [t EXCEPT !.listeners = ss, !.heal = @ \/ ss # {}]
Listening(t, ss) == [t EXCEPT !.listeners = @ \cup ss,
                              !.heal = @ \/ t.listeners \cup ss # {}]
Joined(t) == IF target[t].snapshot = None
             THEN [at |-> "loading", of |-> t, saw |-> None]
             ELSE [at |-> "in", of |-> t, saw |-> target[t].snapshot]

Subscribe(s) ==
    /\ sub[s].at = "out"
    /\ LET Found(t) == /\ sub' = [sub EXCEPT ![s] = Joined(t)]
                       /\ target' = [target EXCEPT ![t] = Listening(@, {s})]
           Waits(t) == sub' = [sub EXCEPT ![s] = [Out EXCEPT !.at = "ensuring", !.of = t]]
       IN Ensure(Found, Waits)
    /\ UNCHANGED <<repo, fetches, reader, failures>>

(* Nobody holds an object that is removed at rest.                            *)
Removed(t) == IF target[t].refresh = None /\ setup # t
              THEN [Unused EXCEPT !.phase = "removed"]
              ELSE [Closed(target[t]) EXCEPT !.dropped = setup = t]

(* removeWorkspaceListener: by directory, so it finds the current target      *)
(* whichever the subscriber joined; that others wait for its set-up does not  *)
(* keep it.                                                                   *)
Unsubscribe(s) ==
    /\ sub[s].at = "in"
    /\ sub' = [sub EXCEPT ![s] = Out]
    /\ IF current # None /\ target[current].listeners \subseteq {s}
       THEN /\ target' = [target EXCEPT ![current] = Removed(current)]
            /\ current' = None
            /\ fetches' = (fetches /\ target[current].phase # "ready")
       ELSE /\ target' = [t \in Targets |->
                 IF t = current THEN [target[t] EXCEPT !.listeners = @ \ {s}] ELSE target[t]]
            /\ UNCHANGED <<current, fetches>>
    /\ UNCHANGED <<repo, setup, reader, failures>>

------------------------------------------------------------------------------
(* Reads forced after a mutation: getSnapshot with force.                     *)

(* What the answer must include: the repository as it is now or, for a read   *)
(* that joins a forced refresh, as it was when that began.                    *)
Since(t) == IF target[t].refresh # None /\ target[t].refresh.force
               /\ ~target[t].refresh.queued
            THEN target[t].refresh.began ELSE repo
Reading(t) == [at |-> "reading", of |-> t, since |-> Since(t), got |-> None]

ForcedRead(r) ==
    /\ reader[r].at = "out"
    /\ LET Found(t) == /\ reader' = [reader EXCEPT ![r] = Reading(t)]
                       /\ target' = [target EXCEPT ![t] = Requested(@, TRUE)]
           Waits(t) == reader' = [reader EXCEPT ![r] =
                                    [NoRead EXCEPT !.at = "ensuring", !.of = t]]
       IN Ensure(Found, Waits)
    /\ UNCHANGED <<repo, fetches, sub, failures>>

------------------------------------------------------------------------------
(* The steps of a refresh.                                                    *)

RefreshReads(t) ==
    /\ target[t].refresh # None /\ target[t].refresh.read = None
    /\ target' = [target EXCEPT ![t].refresh.read = repo]
    /\ UNCHANGED <<repo, current, setup, fetches, sub, reader, failures>>

(* rememberSnapshot, where the fingerprint is always that of the snapshot; the *)
(* refresh loop goes on with what was queued.                                 *)
Remembered(t) ==
    LET r == t.refresh
        kept == [t EXCEPT !.snapshot = r.read, !.warm = TRUE]
    IN IF r.queued THEN Started(kept, TRUE, TRUE)
       ELSE [kept EXCEPT !.refresh = None,
                         !.phase = IF @ = "loading" THEN "probing" ELSE @]
EmitsFirst(t) == t.refresh.notify /\ t.snapshot = None
Emits(t) == t.refresh.notify /\ (t.refresh.force \/ t.snapshot # t.refresh.read)

RefreshEnds(t) ==
    /\ target[t].refresh # None /\ target[t].refresh.read # None
    /\ LET read == target[t].refresh.read
           last == ~target[t].refresh.queued
       IN /\ target' = [target EXCEPT ![t] = Remembered(@)]
          /\ sub' = [s \in Subs |->
               IF last /\ sub[s].at = "loading" /\ sub[s].of = t
               THEN [sub[s] EXCEPT !.at = "in", !.saw = read]
               ELSE IF Emits(target[t]) /\ s \in target[t].listeners /\ sub[s].at = "in"
               THEN [sub[s] EXCEPT !.saw = read] ELSE sub[s]]
          /\ reader' = [r \in Readers |->
               IF last /\ reader[r].at = "reading" /\ reader[r].of = t
               THEN [reader[r] EXCEPT !.at = "done", !.of = None, !.got = read]
               ELSE reader[r]]
    /\ UNCHANGED <<repo, current, setup, fetches, failures>>

(* A git command fails: what was queued is lost and the callers are told.  No *)
(* subscriber is among them once the first refresh is done.                   *)
RefreshFails(t) ==
    /\ target[t].refresh # None /\ target[t].phase # "loading"
    /\ failures < MaxFailures /\ failures' = failures + 1
    /\ target' = [target EXCEPT ![t].refresh = None]
    /\ reader' = [r \in Readers |->
         IF reader[r].of = t /\ reader[r].at = "reading" THEN NoRead ELSE reader[r]]
    /\ UNCHANGED <<repo, current, setup, fetches, sub>>

(* createWorkspaceTarget throws: in the first refresh, or in what follows it. *)
(* The target is closed, whichever is current removed, and those who wait for *)
(* the set-up are told; listeners that joined meanwhile are not.              *)
SetupFails(t) ==
    /\ setup = t /\ failures < MaxFailures /\ failures' = failures + 1
    /\ target' = [target EXCEPT ![t] =
         [(IF @.phase = "loading" THEN Unused ELSE Closed(@)) EXCEPT !.phase = "failed",
                                                                     !.dropped = TRUE]]
    /\ sub' = [s \in Subs |->
         IF sub[s].of = t /\ sub[s].at \in {"loading", "ensuring"} THEN Out ELSE sub[s]]
    /\ LET told == IF target[t].phase = "loading" THEN {"reading", "ensuring"}
                   ELSE {"ensuring"}
       IN reader' = [r \in Readers |->
            IF reader[r].of = t /\ reader[r].at \in told THEN NoRead ELSE reader[r]]
    /\ current' = None /\ setup' = None
    /\ UNCHANGED <<repo, fetches>>

(* The rest of createWorkspaceTarget, and of those who waited for it; that    *)
(* the target was removed meanwhile is not noticed.                           *)
SetupEnds(t) ==
    /\ setup = t /\ target[t].phase = "probing"
    /\ LET ss == {s \in Subs : sub[s].at = "ensuring" /\ sub[s].of = t}
           rs == {r \in Readers : reader[r].at = "ensuring" /\ reader[r].of = t}
           ready == [Listening(target[t], ss) EXCEPT !.phase = "ready", !.watching = TRUE]
       IN /\ target' = [target EXCEPT ![t] = IF rs = {} THEN ready ELSE Requested(ready, TRUE)]
          /\ sub' = [s \in Subs |-> IF s \in ss THEN Joined(t) ELSE sub[s]]
          /\ reader' = [r \in Readers |-> IF r \in rs THEN Reading(t) ELSE reader[r]]
    /\ setup' = None /\ fetches' = TRUE
    /\ UNCHANGED <<repo, current, failures>>

------------------------------------------------------------------------------
(* What happens to the repository, and what sets refreshes off.               *)

Changes == repo < MaxChanges /\ repo' = repo + 1

(* A change nothing watches.                                                  *)
RepositoryChanges ==
    /\ Changes /\ UNCHANGED <<target, current, setup, fetches, sub, reader, failures>>

(* A branch moves: the watchers of every target that has them see it.         *)
Debounced(force) == IF force THEN "forced" ELSE "unforced"
BranchChanges ==
    /\ Changes
    /\ target' = [t \in Targets |-> IF target[t].watching
                                    THEN [target[t] EXCEPT !.debounce = Debounced(FALSE)]
                                    ELSE target[t]]
    /\ UNCHANGED <<current, setup, fetches, sub, reader, failures>>

(* A working tree watch: for the current target.                              *)
WorkingTreeChanges ==
    /\ Changes /\ current # None
    /\ target' = [target EXCEPT ![current].debounce = Debounced(TRUE)]
    /\ UNCHANGED <<current, setup, fetches, sub, reader, failures>>

(* The last event before the timer fires decides whether it is forced.        *)
DebounceFires(t) ==
    /\ target[t].debounce # None
    /\ target' = [target EXCEPT ![t] =
         [Requested(target[t], target[t].debounce = Debounced(TRUE)) EXCEPT !.debounce = None]]
    /\ UNCHANGED <<repo, current, setup, fetches, sub, reader, failures>>

(* The fetch of the repository, and the poll of its pull request: unforced.   *)
Polled ==
    /\ current # None /\ (fetches \/ target[current].listeners # {})
    /\ target' = [target EXCEPT ![current] = Requested(@, FALSE)]
    /\ UNCHANGED <<repo, current, setup, fetches, sub, reader, failures>>

(* The timer of a target reads the directory's snapshot, so a target that was *)
(* removed sets up another.                                                   *)
SelfHeal(t) ==
    /\ target[t].heal
    /\ LET Found(c) == /\ ~target[c].warm
                       /\ target' = [target EXCEPT ![c] = Requested(@, FALSE)]
           Waits(c) == TRUE
       IN Ensure(Found, Waits)
    /\ UNCHANGED <<repo, fetches, sub, reader, failures>>

GapEnds(t) ==
    /\ target[t].throttled
    /\ target' = [target EXCEPT ![t].throttled = FALSE]
    /\ UNCHANGED <<repo, current, setup, fetches, sub, reader, failures>>

SnapshotAges(t) ==
    /\ target[t].warm /\ ~target[t].throttled
    /\ target' = [target EXCEPT ![t].warm = FALSE]
    /\ UNCHANGED <<repo, current, setup, fetches, sub, reader, failures>>

------------------------------------------------------------------------------
(* Time passes for the targets somebody may still ask.                        *)
Works(t) ==
    \/ RefreshReads(t) \/ RefreshEnds(t) \/ SetupEnds(t) \/ DebounceFires(t) \/ SelfHeal(t)
    \/ (t = current \/ target[t].watching) /\ (GapEnds(t) \/ SnapshotAges(t))
Environment == RepositoryChanges \/ BranchChanges \/ WorkingTreeChanges

Next ==
    \/ \E s \in Subs : Subscribe(s) \/ Unsubscribe(s)
    \/ \E r \in Readers : ForcedRead(r)
    \/ \E t \in Targets : Works(t) \/ RefreshFails(t) \/ SetupFails(t)
    \/ Polled \/ Environment

Spec == Init /\ [][Next]_vars

(* Commands end and timers fire, the self-heal timer again and again; users,  *)
(* polls, changes and failures are free.                                      *)
Fairness == WF_vars(\E t \in Targets : Works(t))
FairSpec == Spec /\ Fairness

------------------------------------------------------------------------------
(* Every variable keeps its type, a refresh waits only behind an unforced     *)
(* one, and a listener belongs to a subscriber of its target or to one that   *)
(* was refused.                                                               *)
TypeOK ==
    /\ repo \in Versions /\ failures \in 0..MaxFailures /\ fetches \in BOOLEAN
    /\ current \in Targets \cup {None} /\ setup \in Targets \cup {None}
    /\ target \in [Targets ->
         [phase : {"unused", "loading", "probing", "ready", "failed", "removed"},
          listeners : SUBSET Subs, watching : BOOLEAN,
          debounce : {None, "forced", "unforced"}, heal : BOOLEAN,
          refresh : Refresh \cup {None}, snapshot : Versions \cup {None},
          warm : BOOLEAN, throttled : BOOLEAN, dropped : BOOLEAN]]
    /\ sub \in [Subs -> [at : {"out", "ensuring", "loading", "in"},
                         of : Targets \cup {None}, saw : Versions \cup {None}]]
    /\ reader \in [Readers -> [at : {"out", "ensuring", "reading", "done"},
                               of : Targets \cup {None}, since : Versions \cup {None},
                               got : Versions \cup {None}]]
    /\ \A t \in Targets : target[t].refresh # None /\ target[t].refresh.queued =>
                             ~target[t].refresh.force

(* What a read forced after a mutation returns was read after it was asked    *)
(* for, or after the start of the forced refresh it joined: it is never the   *)
(* result of an unforced refresh that was under way.                          *)
ForcedReadsAreFresh ==
    \A r \in Readers : reader[r].at = "done" => reader[r].got >= reader[r].since

(* A target that was closed while it was set up holds the subscriber, or a    *)
(* listener the subscriber left behind.                                       *)
Disturbed(s) ==
    \E t \in Targets : target[t].dropped /\ (t = sub[s].of \/ s \in target[t].listeners)

(* A subscriber that stays is shown the repository as it is in the end,       *)
(* whatever was throttled, debounced, dropped by a failure or not watched,    *)
(* unless a closing in mid-set-up left it, or a listener of it, behind.       *)
SubscribersCatchUp ==
    \A s \in Subs :
        sub[s].at = "in"
        ~> (sub[s].at # "in" \/ sub[s].saw = repo \/ Disturbed(s))

Registered(s) == current = sub[s].of /\ s \in target[current].listeners

(* Subscribers are listeners of the target the directory has: refreshes reach *)
(* them, and leaving removes them.  The only way to be left on another object *)
(* is that a target was closed while it was set up (ensureWorkspaceTarget     *)
(* hands it out all the same): no leaver, failure, timer or replacement takes *)
(* a target that is ready away from a subscriber.                             *)
SubscribersAreRegistered ==
    \A s \in Subs : sub[s].at = "in" => Registered(s) \/ target[sub[s].of].dropped

(* What a subscriber was last shown is the snapshot of its target - no        *)
(* refresh that changes it, and none that finds it unchanged or notifies      *)
(* nobody, leaves a subscriber behind - and the target's timer will ask for   *)
(* the next one.                                                              *)
SubscribersShowSnapshot ==
    \A s \in Subs : sub[s].at = "in" =>
        \/ Disturbed(s)
        \/ sub[s].saw = target[sub[s].of].snapshot /\ target[sub[s].of].heal

------------------------------------------------------------------------------
(* What tests say, and the code does not do.                                  *)

(* Whoever is subscribed to a workspace is a listener of the target its       *)
(* directory has, so the changes of the working tree reach it                 *)
(* (workspace-git-service.test.ts:666: "working tree changes force a fresh    *)
(* diff stat for workspace subscribers").                                     *)
SubscribersAreReached == \A s \in Subs : sub[s].at = "in" => Registered(s)

(* When the last subscriber has left no self-heal timer runs                  *)
(* (workspace-git-service.primitive.test.ts:679: "unsubscribe with no         *)
(* remaining subscribers clears the self-heal timer").                        *)
TimersStopWithSubscribers ==
    (\A s \in Subs : sub[s].at = "out") => \A t \in Targets : ~target[t].heal
==============================================================================
