---------------------------- MODULE AgentStorage ----------------------------
(* The file-backed record of one agent (agent-storage.ts) and the callers   *)
(* that read it, change it and write it back (agent-manager.ts,             *)
(* mcp-server.ts, session.ts).                                              *)
(*                                                                          *)
(* Writes of one agent are chained; each goes to a temporary file that is   *)
(* renamed.  A record found elsewhere on disk - at the root of the          *)
(* directory or in another project's - moves with its first write.  The     *)
(* daemon may be killed anywhere, and a write may fail.  The promise kept   *)
(* in pendingWrites then rejects: when nobody listens to it the process     *)
(* ends shortly (a kill), when somebody does it lives on, and every later   *)
(* write rejects with it.  Unlinking is taken not to fail.                  *)
EXTENDS Naturals, Sequences

CONSTANTS
    None,
    Ops,            \* operations under way at once
    Titles,         \* titles an agent may have
    MaxQueue        \* bound: writes queued when an operation starts

ASSUME ConstantsAssumption == None \notin Titles /\ MaxQueue \in Nat
ASSUME NoneAssumption ==
    None \notin [title : Titles \cup {None}, archived : BOOLEAN] \cup {"elsewhere", "home"}

Paths == {"elsewhere", "home"}
Kinds == {"snapshot", "title", "rename", "archive", "unarchive"}

VARIABLES
    files,          \* what is on disk at each path: a record or None
    readLast,       \* the path whose file a scan of the directory meets last
    up,             \* the daemon runs
    known,          \* the manager or the storage knows the agent
    cache,          \* AgentStorage.cache, or None
    pathById,       \* AgentStorage.pathById, or None
    pathsById,      \* AgentStorage.pathsById
    chain,          \* the writes chained in pendingWrites, the oldest first
    failed,         \* the promise in pendingWrites has rejected
    deleting,       \* AgentStorage.deleting
    removal,        \* remove: "none", "waiting", "unlinking", "done"
    op              \* the operations: where each is; the record it will write

index == <<cache, pathById, pathsById>>
disk == <<files, readLast>>
vars == <<disk, up, known, index, chain, failed, deleting, removal, op>>

Record(t, a) == [title |-> t, archived |-> a]
Records == [title : Titles \cup {None}, archived : BOOLEAN]
Idle == [at |-> "idle", kind |-> None, title |-> None, record |-> None, behind |-> None]

(* A scan puts every file it meets in the cache: the last one stays.        *)
Other(p) == CHOOSE q \in Paths : q # p
Winner == IF files[readLast] # None THEN readLast
          ELSE IF files[Other(readLast)] # None THEN Other(readLast) ELSE None
OnDisk == {p \in Paths : files[p] # None}

Init ==
    /\ \E p \in Paths, r \in Records \cup {None} :
        files = [q \in Paths |-> IF q = p THEN r ELSE None]
    /\ readLast \in Paths
    /\ up = FALSE /\ known = TRUE
    /\ cache = None /\ pathById = None /\ pathsById = {}
    /\ chain = <<>> /\ failed = FALSE /\ deleting = FALSE /\ removal = "none"
    /\ op = [o \in Ops |-> Idle]

----------------------------------------------------------------------------
(* The life of the daemon.                                                  *)

(* initialize: scanDisk fills the cache and the two indexes.                *)
Load ==
    /\ ~up /\ up' = TRUE
    /\ cache' = IF Winner = None THEN None ELSE files[Winner]
    /\ pathById' = Winner /\ pathsById' = OnDisk
    /\ UNCHANGED <<disk, known, chain, failed, deleting, removal, op>>

(* An agent without a record is gone with the process.                      *)
Crash ==
    /\ up /\ up' = FALSE
    /\ known' = (Winner # None)
    /\ cache' = None /\ pathById' = None /\ pathsById' = {}
    /\ chain' = <<>> /\ failed' = FALSE /\ deleting' = FALSE
    /\ removal' = IF removal = "done" THEN "done" ELSE "none"
    /\ op' = [o \in Ops |-> Idle]
    /\ UNCHANGED disk

----------------------------------------------------------------------------
(* Operations: read the record, change it, write it back.                   *)

(* Snapshots and title changes of a live agent wait for the write that is   *)
(* the last of the chain now; the others read at once.                      *)
Waits(kind) == kind \in {"snapshot", "title"}

Begin(o, kind, t) ==
    /\ up /\ known /\ op[o].at = "idle" /\ Len(chain) < MaxQueue
    /\ op' = [op EXCEPT ![o] =
         [at |-> IF Waits(kind) /\ chain # <<>> THEN "waiting" ELSE "reading",
          kind |-> kind, title |-> t, record |-> None,
          behind |-> IF Waits(kind) /\ chain # <<>> THEN chain[Len(chain)].op ELSE None]]
    /\ UNCHANGED <<disk, up, known, index, chain, failed, deleting, removal>>

(* What an operation makes of the record it reads; only snapshots and       *)
(* titles may create one.                                                   *)
Applicable(o) ==
    \/ Waits(op[o].kind)
    \/ cache # None /\ (op[o].kind = "unarchive" => cache.archived)
Changed(o) ==
    LET old == IF cache = None THEN Record(None, FALSE) ELSE cache IN
    Record(IF op[o].kind \in {"title", "rename"} THEN op[o].title ELSE old.title,
           IF op[o].kind \in {"archive", "unarchive"} THEN op[o].kind = "archive"
           ELSE old.archived)

Read(o) ==
    /\ up /\ op[o].at = "reading"
    /\ op' = IF Applicable(o)
             THEN [op EXCEPT ![o].at = "upserting", ![o].record = Changed(o)]
             ELSE [op EXCEPT ![o] = Idle]
    /\ UNCHANGED <<disk, up, known, index, chain, failed, deleting, removal>>

(* Mutant: a write does not wait for the one before it.                     *)
UpsertUnchained(o) ==
    /\ up /\ op[o].at = "upserting"
    /\ chain' = Append(chain, [op |-> o, record |-> op[o].record, at |-> "started"])
    /\ op' = [op EXCEPT ![o].at = "writing"]
    /\ UNCHANGED <<disk, up, known, index, failed, deleting, removal>>

(* A write chained to a promise that has rejected rejects with it.          *)
Upsert(o) ==
    /\ up /\ op[o].at = "upserting"
    /\ IF failed THEN op' = [op EXCEPT ![o] = Idle] /\ UNCHANGED chain
       ELSE /\ chain' = Append(chain, [op |-> o, record |-> op[o].record, at |-> "queued"])
            /\ op' = [op EXCEPT ![o].at = "writing"]
    /\ UNCHANGED <<disk, up, known, index, failed, deleting, removal>>

----------------------------------------------------------------------------
(* The chain.                                                               *)

(* The write at the head is over: its caller returns, and whoever waited    *)
(* for it goes on.                                                          *)
HeadReturns ==
    LET over == chain[1].op IN
    /\ chain' = Tail(chain)
    /\ op' = [o \in Ops |->
                IF o = over THEN Idle
                ELSE IF op[o].behind = over THEN [op[o] EXCEPT !.at = "reading", !.behind = None]
                ELSE op[o]]

(* Mutant: a write that was queued when the removal began is made.          *)
WriteStartsAnyway ==
    /\ up /\ chain # <<>> /\ chain[1].at = "queued"
    /\ chain' = [chain EXCEPT ![1].at = "started"]
    /\ UNCHANGED <<disk, up, known, index, failed, deleting, removal, op>>

WriteStarts ==
    /\ up /\ chain # <<>> /\ chain[1].at = "queued"
    /\ IF deleting THEN HeadReturns
       ELSE chain' = [chain EXCEPT ![1].at = "started"] /\ UNCHANGED op
    /\ UNCHANGED <<disk, up, known, index, failed, deleting, removal>>

WriteRenames ==
    /\ up /\ chain # <<>> /\ chain[1].at = "started"
    /\ files' = [files EXCEPT !["home"] = chain[1].record]
    /\ pathsById' = pathsById \cup {"home"}
    /\ chain' = [chain EXCEPT ![1].at = "renamed"]
    /\ UNCHANGED <<readLast, up, known, cache, pathById, failed, deleting, removal, op>>

(* The write fails, and with it those chained to it, and the removal that   *)
(* awaits them; who only waits for it to be over goes on.                   *)
WriteFails ==
    /\ up /\ chain # <<>> /\ chain[1].at = "started"
    /\ chain' = <<>> /\ failed' = TRUE
    /\ op' = [o \in Ops |->
                IF op[o].at = "writing" THEN Idle
                ELSE IF op[o].at = "waiting" THEN [op[o] EXCEPT !.at = "reading", !.behind = None]
                ELSE op[o]]
    /\ removal' = IF removal = "waiting" THEN "none" ELSE removal
    /\ UNCHANGED <<disk, up, known, index, deleting>>

(* Mutant: the old file stays when the record moves.                        *)
NeverMoved == pathById = "nowhere"

Moved == pathById \notin {None, "home"}

(* The old file goes when there was one, then cache and index are set.      *)
WriteEnds ==
    /\ up /\ chain # <<>> /\ chain[1].at = "renamed"
    /\ files' = IF Moved THEN [files EXCEPT ![pathById] = None] ELSE files
    /\ pathsById' = IF Moved THEN pathsById \ {pathById} ELSE pathsById
    /\ cache' = chain[1].record
    /\ pathById' = "home"
    /\ HeadReturns
    /\ UNCHANGED <<readLast, up, known, failed, deleting, removal>>

----------------------------------------------------------------------------
(* remove: refuse new writes, wait for the one that has started, unlink     *)
(* every file the index knows.                                              *)
BeginDelete ==
    /\ up /\ removal = "none"
    /\ deleting' = TRUE
    /\ removal' = IF failed THEN "none" ELSE "waiting"
    /\ UNCHANGED <<disk, up, known, index, chain, failed, op>>

Started == chain # <<>> /\ chain[1].at # "queued"

RemoveUnlinks(p) ==
    /\ up /\ removal \in {"waiting", "unlinking"} /\ ~Started
    /\ p \in pathsById /\ files[p] # None
    /\ files' = [files EXCEPT ![p] = None]
    /\ removal' = "unlinking"
    /\ UNCHANGED <<readLast, up, known, index, chain, failed, deleting, op>>

RemoveReturns ==
    /\ up /\ removal \in {"waiting", "unlinking"} /\ ~Started
    /\ \A p \in pathsById : files[p] = None
    /\ cache' = None /\ pathById' = None /\ pathsById' = {}
    /\ removal' = "done"
    /\ UNCHANGED <<disk, up, known, chain, failed, deleting, op>>

----------------------------------------------------------------------------
Operate(o) ==
    \/ \E kind \in Kinds, t \in Titles \cup {None} :
        (t = None <=> kind \notin {"title", "rename"}) /\ Begin(o, kind, t)
    \/ Read(o) \/ Upsert(o)

Next ==
    \/ Load \/ Crash
    \/ \E o \in Ops : Operate(o)
    \/ WriteStarts \/ WriteRenames \/ WriteFails \/ WriteEnds
    \/ BeginDelete \/ (\E p \in Paths : RemoveUnlinks(p)) \/ RemoveReturns

Spec == Init /\ [][Next]_vars

----------------------------------------------------------------------------
(* Properties.                                                              *)

Entries == [op : Ops, record : Records, at : {"queued", "started", "renamed"}]

(* The variables are well formed; only the head of the chain has started.   *)
TypeOK ==
    /\ files \in [Paths -> Records \cup {None}] /\ readLast \in Paths
    /\ up \in BOOLEAN /\ known \in BOOLEAN
    /\ failed \in BOOLEAN /\ deleting \in BOOLEAN
    /\ cache \in Records \cup {None}
    /\ pathById \in Paths \cup {None} /\ pathsById \subseteq Paths
    /\ chain \in Seq(Entries)
    /\ \A i \in DOMAIN chain : i > 1 => chain[i].at = "queued"
    /\ removal \in {"none", "waiting", "unlinking", "done"}
    /\ op \in [Ops -> [at : {"idle", "waiting", "reading", "upserting", "writing"},
                       kind : Kinds \cup {None}, title : Titles \cup {None},
                       record : Records \cup {None}, behind : Ops \cup {None}]]

(* What a restart would read is the record as the last write that returned  *)
(* left it, or as the write in progress will: however a crash falls between *)
(* renaming the new file and unlinking the old one, and in whatever order   *)
(* the directory is read, no saved record is replaced by an older one.      *)
Renamed == chain # <<>> /\ chain[1].at = "renamed"
SavedRecordSurvives ==
    up /\ removal \in {"none", "waiting"} =>
        LET found == IF Winner = None THEN None ELSE files[Winner] IN
        \/ found = cache
        \/ Renamed /\ found = chain[1].record

(* An agent that was removed has no file, and none comes back: not from a   *)
(* write queued before, a snapshot taken later, or a file in another place. *)
RemovedStaysRemoved == removal = "done" => OnDisk = {}

(* A snapshot leaves the title and the archived flag of the record alone.   *)
SnapshotsKeepTheRest ==
    [][\A o \in Ops :
        (op[o].kind = "snapshot" /\ op[o].at = "writing" /\ op'[o].at = "idle" /\ up' /\ ~deleting)
            => cache' = cache \/ cache = None]_vars
============================================================================
