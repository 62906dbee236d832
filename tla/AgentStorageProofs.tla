------------------------- MODULE AgentStorageProofs -------------------------
(* No saved record is lost and none comes back, for any number of titles and *)
(* of operations under way.                                                  *)
EXTENDS AgentStorage, SequenceTheorems, TLAPS

-----------------------------------------------------------------------------
(* The invariant.                                                            *)

AllIdle == \A o \in Ops : op[o].at = "idle"

\* Nothing is under way in a daemon that does not run.
DownRests == ~up => chain = <<>> /\ AllIdle

\* A removal that is under way refuses writes.
RemovalRefuses == removal \in {"waiting", "unlinking"} => up /\ deleting

\* The index knows every file there is.
IndexComplete == up => OnDisk \subseteq pathsById

\* Once the agent is removed no write has started, and none will: they are
\* refused, or nobody knows the agent any more.
RemovedForGood ==
    removal = "done" =>
        /\ OnDisk = {} /\ ~Started
        /\ (up /\ deleting) \/ (~known /\ chain = <<>> /\ AllIdle)

\* The file that a scan meets last is the one the cache and the index are
\* about; between the two file operations of a write it is that one, the new
\* one, or both are there.
Found == IF Winner = None THEN None ELSE files[Winner]
CacheIsFound == pathById = Winner /\ cache = Found
WriteIsFound ==
    /\ files["home"] = chain[1].record
    /\ pathById = "elsewhere" => files["elsewhere"] = cache
    /\ pathById = "home" => readLast = "home" \/ files["elsewhere"] = None
    /\ pathById = None => files["elsewhere"] = None
CacheAgrees ==
    up /\ removal \in {"none", "waiting"} => IF Renamed THEN WriteIsFound ELSE CacheIsFound

\* An operation that will write has what it writes.
OperationsReady == \A o \in Ops : op[o].at = "upserting" => op[o].record \in Records

Inv ==
    /\ TypeOK /\ DownRests /\ RemovalRefuses /\ OperationsReady
    /\ IndexComplete /\ RemovedForGood /\ CacheAgrees
-----------------------------------------------------------------------------
(* What a scan finds, and what the steps of a write do to the chain.         *)

\* The other path.
LEMMA OtherPath == Other("home") = "elsewhere" /\ Other("elsewhere") = "home"
<1>1. \A p \in Paths : \E q \in Paths : q # p
  BY DEF Paths
<1>2. \A p \in Paths : Other(p) \in Paths /\ Other(p) # p
  BY <1>1 DEF Other
<1>. QED  BY <1>2 DEF Paths

\* Nothing is found only when there is nothing.
LEMMA WinnerFound ==
    ASSUME TypeOK
    PROVE  /\ Winner = IF readLast = "home"
                       THEN IF files["home"] # None THEN "home"
                            ELSE IF files["elsewhere"] # None THEN "elsewhere" ELSE None
                       ELSE IF files["elsewhere"] # None THEN "elsewhere"
                            ELSE IF files["home"] # None THEN "home" ELSE None
           /\ readLast \in {"home", "elsewhere"}
           /\ Winner \in Paths \cup {None}
           /\ Winner = None <=> OnDisk = {}
           /\ None # "home" /\ None # "elsewhere" /\ None \notin Records
<1>1. readLast \in {"home", "elsewhere"} /\ readLast \in Paths
  BY DEF TypeOK, Paths
<1>2. None # "home" /\ None # "elsewhere" /\ None \notin Records
  BY NoneAssumption DEF Records
<1>3. Winner = IF readLast = "home"
               THEN IF files["home"] # None THEN "home"
                    ELSE IF files["elsewhere"] # None THEN "elsewhere" ELSE None
               ELSE IF files["elsewhere"] # None THEN "elsewhere"
                    ELSE IF files["home"] # None THEN "home" ELSE None
  BY <1>1, OtherPath DEF Winner
<1>4. Winner = None <=> OnDisk = {}
  BY <1>1, <1>2, <1>3 DEF OnDisk, Paths
<1>. QED  BY <1>1, <1>2, <1>3, <1>4 DEF Paths

\* The head of the chain and what follows it.
LEMMA ChainParts ==
    ASSUME TypeOK, chain # <<>>
    PROVE  /\ 1 \in DOMAIN chain /\ chain[1] \in Entries /\ chain[1].op \in Ops
           /\ chain[1].record \in Records
           /\ Tail(chain) \in Seq(Entries)
           /\ \A i \in DOMAIN Tail(chain) : Tail(chain)[i].at = "queued"
<1>1. chain \in Seq(Entries) /\ DOMAIN chain = 1 .. Len(chain) /\ Len(chain) \in Nat
  BY LenProperties DEF TypeOK
<1>2. 1 \in DOMAIN chain /\ chain[1] \in Entries
  BY <1>1, EmptySeq, ElementOfSeq
<1>3. /\ Tail(chain) \in Seq(Entries) /\ Len(Tail(chain)) = Len(chain) - 1
      /\ \A i \in 1 .. Len(Tail(chain)) : Tail(chain)[i] = chain[i + 1]
  BY <1>1, HeadTailProperties
<1>4. DOMAIN Tail(chain) = 1 .. Len(Tail(chain))
  BY <1>3, LenProperties
<1>5. \A i \in 1 .. Len(Tail(chain)) : i + 1 \in DOMAIN chain /\ i + 1 > 1
  BY <1>1, <1>3
<1>6. \A i \in DOMAIN Tail(chain) : Tail(chain)[i].at = "queued"
  BY <1>3, <1>4, <1>5 DEF TypeOK
<1>. QED  BY <1>2, <1>3, <1>6 DEF Entries

\* A write that is queued changes nothing at the head.
LEMMA ChainAppends ==
    ASSUME TypeOK, NEW o \in Ops, NEW r \in Records,
           chain' = Append(chain, [op |-> o, record |-> r, at |-> "queued"])
    PROVE  /\ chain' \in Seq(Entries) /\ chain' # <<>>
           /\ \A i \in DOMAIN chain' : i > 1 => chain'[i].at = "queued"
           /\ (Started' <=> Started) /\ (Renamed' <=> Renamed)
           /\ (Renamed => chain'[1] = chain[1])
<1> DEFINE e == [op |-> o, record |-> r, at |-> "queued"]
<1>1. chain \in Seq(Entries) /\ DOMAIN chain = 1 .. Len(chain) /\ Len(chain) \in Nat
      /\ e \in Entries /\ e.at = "queued"
  BY LenProperties DEF TypeOK, Entries
<1> HIDE DEF e
<1>2. /\ chain' \in Seq(Entries) /\ Len(chain') = Len(chain) + 1
      /\ \A i \in 1 .. Len(chain) : chain'[i] = chain[i]
      /\ chain'[Len(chain) + 1] = e
  BY <1>1, AppendProperties DEF e
<1>3. DOMAIN chain' = 1 .. Len(chain')
  BY <1>2, LenProperties
<1>4. \A i \in DOMAIN chain' :
        (i \in DOMAIN chain /\ chain'[i] = chain[i]) \/ (i = Len(chain) + 1 /\ chain'[i] = e)
  BY <1>1, <1>2, <1>3
<1>q. \A i \in DOMAIN chain : i > 1 => chain[i].at = "queued"
  BY DEF TypeOK
<1>5. \A i \in DOMAIN chain' : i > 1 => chain'[i].at = "queued"
  <2> SUFFICES ASSUME NEW i \in DOMAIN chain', i > 1 PROVE chain'[i].at = "queued"
    OBVIOUS
  <2>1. CASE i \in DOMAIN chain /\ chain'[i] = chain[i]
    BY <1>q, <2>1
  <2>2. CASE i = Len(chain) + 1 /\ chain'[i] = e
    BY <1>1, <2>2
  <2>. QED  BY <1>4, <2>1, <2>2
<1>6. chain' # <<>>
  BY <1>1, <1>2, EmptySeq
<1>7. CASE chain = <<>>
  <2>1. chain'[1] = e
    BY <1>2, <1>7, EmptySeq
  <2>. QED  BY <1>1, <1>2, <1>5, <1>6, <1>7, <2>1 DEF Started, Renamed
<1>8. CASE chain # <<>>
  <2>1. chain'[1] = chain[1]
    BY <1>1, <1>2, <1>8, EmptySeq
  <2>. QED  BY <1>2, <1>5, <1>6, <1>8, <2>1 DEF Started, Renamed
<1>. QED  BY <1>7, <1>8

\* The head of the chain goes on to the next file operation.
LEMMA ChainAdvances ==
    ASSUME TypeOK, chain # <<>>, NEW a \in {"started", "renamed"},
           chain' = [chain EXCEPT ![1].at = a]
    PROVE  /\ chain' \in Seq(Entries) /\ chain' # <<>>
           /\ \A i \in DOMAIN chain' : i > 1 => chain'[i].at = "queued"
           /\ chain'[1].at = a /\ chain'[1].record = chain[1].record
<1>1. /\ chain \in Seq(Entries) /\ 1 \in DOMAIN chain /\ chain[1] \in Entries
  BY ChainParts DEF TypeOK
<1>l. DOMAIN chain = 1 .. Len(chain) /\ Len(chain) \in Nat
  BY <1>1, LenProperties
<1> DEFINE e == [chain[1] EXCEPT !.at = a]
<1>2. e \in Entries /\ e.at = a /\ e.record = chain[1].record
  BY <1>1 DEF Entries
<1>3. chain' = [chain EXCEPT ![1] = e]
  OBVIOUS
<1> HIDE DEF e
<1>4. /\ chain' \in Seq(Entries) /\ Len(chain') = Len(chain)
      /\ \A i \in 1 .. Len(chain) : chain'[i] = IF i = 1 THEN e ELSE chain[i]
  BY <1>1, <1>l, <1>2, <1>3, ExceptSeq
<1>5. DOMAIN chain' = DOMAIN chain
  BY <1>4, <1>l, LenProperties
<1>6. chain' # <<>>
  BY <1>1, <1>5
<1>. QED  BY <1>1, <1>l, <1>2, <1>4, <1>5, <1>6 DEF TypeOK

Ats == {"idle", "waiting", "reading", "upserting", "writing"}
Operations == [at : Ats, kind : Kinds \cup {None}, title : Titles \cup {None},
               record : Records \cup {None}, behind : Ops \cup {None}]

\* A write that is over leaves the head of the chain to one that is queued.
LEMMA HeadIsOver ==
    ASSUME TypeOK, chain # <<>>, HeadReturns
    PROVE  /\ chain' \in Seq(Entries)
           /\ \A i \in DOMAIN chain' : i > 1 => chain'[i].at = "queued"
           /\ ~Started' /\ ~Renamed'
           /\ op' \in [Ops -> Operations]
           /\ \A o \in Ops : op'[o] = op[o] \/ op'[o].at \in {"idle", "reading"}
<1>1. chain' = Tail(chain)
  BY DEF HeadReturns
<1>2. /\ chain' \in Seq(Entries)
      /\ \A i \in DOMAIN chain' : chain'[i].at = "queued"
  BY <1>1, ChainParts
<1>3. chain' # <<>> => 1 \in DOMAIN chain'
  BY <1>2, LenProperties, EmptySeq
<1>4. ~Started' /\ ~Renamed'
  BY <1>2, <1>3 DEF Started, Renamed
<1>5. op' \in [Ops -> Operations]
  <2>1. op \in [Ops -> Operations]
    BY DEF TypeOK, Operations, Ats
  <2>2. Idle \in Operations
    BY DEF Idle, Operations, Ats
  <2>3. \A o \in Ops : [op[o] EXCEPT !.at = "reading", !.behind = None] \in Operations
    BY <2>1 DEF Operations, Ats
  <2>. QED  BY <2>1, <2>2, <2>3 DEF HeadReturns
<1>6. \A o \in Ops : op'[o] = op[o] \/ op'[o].at \in {"idle", "reading"}
  BY DEF HeadReturns, Idle, TypeOK
<1>. QED  BY <1>2, <1>4, <1>5, <1>6

-----------------------------------------------------------------------------
(* Every step keeps the invariant.                                           *)

\* The daemon starts.
LEMMA LoadKeeps == ASSUME Inv, Load PROVE Inv'
<1> USE DEF Inv
<1>1. Winner \in Paths \cup {None} /\ None \notin Records
  BY WinnerFound
<1>2. Winner # None => files[Winner] \in Records \cup {None}
  BY <1>1 DEF TypeOK
<1>3. TypeOK'
  BY <1>1, <1>2 DEF Load, TypeOK, disk, OnDisk
<1>4. chain = <<>> /\ removal \notin {"waiting", "unlinking"} /\ ~Renamed
  BY DEF Load, DownRests, RemovalRefuses, Renamed
<1>5. IndexComplete' /\ RemovalRefuses' /\ DownRests' /\ OperationsReady'
  BY <1>4 DEF Load, OperationsReady, disk, IndexComplete, RemovalRefuses, DownRests, OnDisk, AllIdle
<1>6. RemovedForGood'
  BY <1>4 DEF Load, disk, RemovedForGood, OnDisk, AllIdle, Started
<1>7. CacheAgrees'
  <2>1. Winner' = Winner /\ Found' = Found /\ ~Renamed'
    BY <1>4 DEF Load, disk, Winner, Found, Renamed, Other
  <2>2. CacheIsFound'
    BY <2>1 DEF Load, CacheIsFound, Found
  <2>. QED  BY <2>1, <2>2 DEF CacheAgrees
<1>. QED  BY <1>3, <1>5, <1>6, <1>7

\* The daemon is killed.
LEMMA CrashKeeps == ASSUME Inv, Crash PROVE Inv'
<1> USE DEF Inv
<1>1. TypeOK'
  <2>1. Idle \in [at : {"idle", "waiting", "reading", "upserting", "writing"},
                  kind : Kinds \cup {None}, title : Titles \cup {None},
                  record : Records \cup {None}, behind : Ops \cup {None}]
    BY DEF Idle
  <2>2. chain' \in Seq(Entries) /\ DOMAIN chain' = {}
    BY EmptySeq DEF Crash
  <2>. QED  BY <2>1, <2>2 DEF Crash, TypeOK, disk
<1>2. DownRests' /\ RemovalRefuses' /\ IndexComplete' /\ CacheAgrees' /\ OperationsReady'
  BY DEF Crash, OperationsReady, DownRests, RemovalRefuses, IndexComplete, CacheAgrees, AllIdle, Idle, TypeOK
<1>3. RemovedForGood'
  <2> SUFFICES ASSUME removal' = "done"
               PROVE  OnDisk = {} /\ ~known' /\ chain' = <<>> /\ AllIdle'
    BY DEF RemovedForGood, Crash, disk, OnDisk, Started
  <2>1. removal = "done" /\ OnDisk = {}
    BY DEF Crash, RemovedForGood
  <2>2. Winner = None
    BY <2>1, WinnerFound
  <2>. QED  BY <2>1, <2>2 DEF Crash, AllIdle, Idle
<1>. QED  BY <1>1, <1>2, <1>3

\* The files, the cache and the index are as they were, and no write goes on.
LEMMA NothingSaved ==
    ASSUME Inv, UNCHANGED <<disk, up, index, removal>>, Renamed' <=> Renamed,
           Renamed => chain'[1] = chain[1]
    PROVE  CacheAgrees' /\ IndexComplete' /\ OnDisk' = OnDisk
<1>1. Winner' = Winner /\ Found' = Found /\ OnDisk' = OnDisk
  BY DEF disk, Winner, Found, Other, OnDisk
<1>. QED  BY <1>1 DEF Inv, CacheAgrees, WriteIsFound, CacheIsFound, IndexComplete, disk, index

\* An operation begins, reads, and queues its write.
LEMMA BeginKeeps ==
    ASSUME Inv, NEW o \in Ops, NEW kind \in Kinds, NEW t \in Titles \cup {None}, Begin(o, kind, t)
    PROVE  Inv'
<1> USE DEF Inv
<1>1. UNCHANGED <<disk, up, known, index, chain, failed, deleting, removal>>
  BY DEF Begin
<1>2. TypeOK'
  <2> DEFINE x == [at |-> IF Waits(kind) /\ chain # <<>> THEN "waiting" ELSE "reading",
                   kind |-> kind, title |-> t, record |-> None,
                   behind |-> IF Waits(kind) /\ chain # <<>> THEN chain[Len(chain)].op ELSE None]
  <2>1. chain # <<>> => chain[Len(chain)] \in Entries
    BY ElementOfSeq, LenProperties, EmptySeq DEF TypeOK
  <2>2. x \in Operations
    BY <2>1 DEF Operations, Ats, Entries
  <2>3. op' = [op EXCEPT ![o] = x]
    BY DEF Begin
  <2>. HIDE DEF x
  <2>4. op' \in [Ops -> Operations]
    BY <2>2, <2>3 DEF TypeOK, Operations, Ats
  <2>. QED  BY <1>1, <2>4 DEF TypeOK, disk, index, Operations, Ats
<1>3. CacheAgrees' /\ IndexComplete' /\ OnDisk' = OnDisk
  BY <1>1, NothingSaved DEF Renamed
<1>4. DownRests' /\ RemovalRefuses' /\ OperationsReady'
  BY <1>1 DEF Begin, TypeOK, OperationsReady, DownRests, RemovalRefuses
<1>5. RemovedForGood'
  BY <1>1, <1>3 DEF Begin, RemovedForGood, Started
<1>. QED  BY <1>2, <1>3, <1>4, <1>5

LEMMA ReadKeeps == ASSUME Inv, NEW o \in Ops, Read(o) PROVE Inv'
<1> USE DEF Inv
<1>1. UNCHANGED <<disk, up, known, index, chain, failed, deleting, removal>> /\ op[o].at = "reading" /\ up
  BY DEF Read
<1>2a. Changed(o) \in Records
  <2>1. (IF cache = None THEN Record(None, FALSE) ELSE cache) \in Records
    BY DEF TypeOK, Record, Records
  <2>2. op[o].title \in Titles \cup {None}
    BY DEF TypeOK
  <2>. QED  BY <2>1, <2>2 DEF Changed, Record, Records
<1>2. TypeOK'
  <2>1. op \in [Ops -> Operations]
    BY DEF TypeOK, Operations, Ats
  <2>2. Changed(o) \in Records
    BY <1>2a
  <2>3. Idle \in Operations
    BY DEF Idle, Operations, Ats
  <2>4. op' \in [Ops -> Operations]
    BY <2>1, <2>2, <2>3 DEF Read, Operations, Ats
  <2>. QED  BY <1>1, <2>4 DEF TypeOK, disk, index, Operations, Ats
<1>3. CacheAgrees' /\ IndexComplete' /\ OnDisk' = OnDisk
  BY <1>1, NothingSaved DEF Renamed
<1>4. DownRests' /\ RemovalRefuses' /\ RemovedForGood'
  BY <1>1, <1>3 DEF DownRests, RemovalRefuses, RemovedForGood, Started, AllIdle
<1>5. OperationsReady'
  BY <1>2a DEF Read, OperationsReady, TypeOK, Idle
<1>. QED  BY <1>2, <1>3, <1>4, <1>5

\* An operation that is not idle has what it will write once it has read.
LEMMA UpsertKeeps == ASSUME Inv, NEW o \in Ops, Upsert(o) PROVE Inv'
<1> USE DEF Inv
<1> SUFFICES ASSUME ~failed PROVE Inv'
  <2>1. ASSUME failed PROVE Inv'
    <3>1. /\ UNCHANGED <<disk, up, known, index, chain, failed, deleting, removal>>
          /\ op' = [op EXCEPT ![o] = Idle] /\ op[o].at = "upserting"
      BY <2>1 DEF Upsert
    <3>2. TypeOK'
      <4>1. Idle \in Operations
        BY DEF Idle, Operations, Ats
      <4>2. op' \in [Ops -> Operations]
        BY <3>1, <4>1 DEF TypeOK, Operations, Ats
      <4>. QED  BY <3>1, <4>2 DEF TypeOK, disk, index, Operations, Ats
    <3>3. CacheAgrees' /\ IndexComplete' /\ OnDisk' = OnDisk
      BY <3>1, NothingSaved DEF Renamed
    <3>4. DownRests' /\ RemovalRefuses' /\ RemovedForGood' /\ OperationsReady'
      BY <3>1, <3>3 DEF DownRests, RemovalRefuses, RemovedForGood, Started, AllIdle,
                        OperationsReady, TypeOK, Idle
    <3>. QED  BY <3>2, <3>3, <3>4
  <2>. QED  BY <2>1
<1>1. UNCHANGED <<disk, up, known, index, failed, deleting, removal>> /\ op[o].at = "upserting" /\ up
      /\ chain' = Append(chain, [op |-> o, record |-> op[o].record, at |-> "queued"])
      /\ op' = [op EXCEPT ![o].at = "writing"] /\ op[o].record \in Records
  BY DEF Upsert, OperationsReady
<1>2. /\ chain' \in Seq(Entries) /\ chain' # <<>>
      /\ \A i \in DOMAIN chain' : i > 1 => chain'[i].at = "queued"
      /\ (Started' <=> Started) /\ (Renamed' <=> Renamed)
      /\ (Renamed => chain'[1] = chain[1])
  BY <1>1, ChainAppends
<1>3. TypeOK'
  <2>1. op' \in [Ops -> Operations]
    BY <1>1 DEF TypeOK, Operations, Ats
  <2>. QED  BY <1>1, <1>2, <2>1 DEF TypeOK, disk, index, Operations, Ats
<1>4. CacheAgrees' /\ IndexComplete' /\ OnDisk' = OnDisk
  BY <1>1, <1>2, NothingSaved
<1>5. DownRests' /\ RemovalRefuses' /\ OperationsReady'
  BY <1>1 DEF DownRests, RemovalRefuses, OperationsReady, TypeOK
<1>6. RemovedForGood'
  <2> SUFFICES ASSUME removal = "done" PROVE OnDisk' = {} /\ ~Started' /\ up' /\ deleting'
    BY <1>1 DEF RemovedForGood
  <2>. QED  BY <1>1, <1>2, <1>4 DEF RemovedForGood, AllIdle
<1>. QED  BY <1>3, <1>4, <1>5, <1>6

\* The write at the head of the chain starts, or is refused.
LEMMA WriteStartsKeeps == ASSUME Inv, WriteStarts PROVE Inv'
<1> USE DEF Inv
<1>1. /\ UNCHANGED <<disk, up, known, index, failed, deleting, removal>>
      /\ up /\ chain # <<>> /\ chain[1].at = "queued" /\ ~Renamed
  BY DEF WriteStarts, Renamed
<1>2. CASE deleting
  <2>1. HeadReturns
    BY <1>2 DEF WriteStarts
  <2>2. /\ chain' \in Seq(Entries)
        /\ \A i \in DOMAIN chain' : i > 1 => chain'[i].at = "queued"
        /\ ~Started' /\ ~Renamed'
        /\ op' \in [Ops -> Operations]
        /\ \A o \in Ops : op'[o] = op[o] \/ op'[o].at \in {"idle", "reading"}
    BY <1>1, <2>1, HeadIsOver
  <2>3. TypeOK'
    BY <1>1, <2>2 DEF TypeOK, disk, index, Operations, Ats
  <2>4. CacheAgrees' /\ IndexComplete' /\ OnDisk' = OnDisk
    BY <1>1, <2>2, NothingSaved
  <2>5. DownRests' /\ RemovalRefuses' /\ OperationsReady'
    BY <1>1, <2>2 DEF DownRests, RemovalRefuses, OperationsReady
  <2>6. RemovedForGood'
    BY <1>1, <1>2, <2>2, <2>4 DEF RemovedForGood
  <2>. QED  BY <2>3, <2>4, <2>5, <2>6
<1>3. CASE ~deleting
  <2>1. chain' = [chain EXCEPT ![1].at = "started"] /\ UNCHANGED op
    BY <1>3 DEF WriteStarts
  <2>2. /\ chain' \in Seq(Entries) /\ chain' # <<>>
        /\ \A i \in DOMAIN chain' : i > 1 => chain'[i].at = "queued"
        /\ chain'[1].at = "started"
    BY <1>1, <2>1, ChainAdvances
  <2>3. TypeOK'
    BY <1>1, <2>1, <2>2 DEF TypeOK, disk, index
  <2>4. ~Renamed'
    BY <2>2 DEF Renamed
  <2>5. CacheAgrees' /\ IndexComplete' /\ OnDisk' = OnDisk
    BY <1>1, <2>4, NothingSaved
  <2>6. DownRests' /\ RemovalRefuses' /\ OperationsReady'
    BY <1>1, <2>1 DEF DownRests, RemovalRefuses, OperationsReady
  <2>7. RemovedForGood'
    BY <1>1, <1>3 DEF RemovedForGood
  <2>. QED  BY <2>3, <2>5, <2>6, <2>7
<1>. QED  BY <1>2, <1>3

\* A write that goes on or ends does so before the removal has unlinked
\* anything.
LEMMA WriteIsNotRemoved ==
    ASSUME Inv, up, Started PROVE removal # "done"
BY DEF Inv, RemovedForGood

\* A write that fails has saved nothing.
LEMMA WriteFailsKeeps == ASSUME Inv, WriteFails PROVE Inv'
<1> USE DEF Inv
<1>1. /\ UNCHANGED <<disk, up, known, index, deleting>>
      /\ up /\ Started /\ ~Renamed /\ removal # "done"
      /\ chain' = <<>> /\ failed' = TRUE
      /\ removal' = IF removal = "waiting" THEN "none" ELSE removal
  <2>1. Started
    BY DEF WriteFails, Started
  <2>. QED  BY <2>1, WriteIsNotRemoved DEF WriteFails, Renamed
<1>2. ~Renamed' /\ chain' \in Seq(Entries) /\ DOMAIN chain' = {}
  BY <1>1, EmptySeq DEF Renamed
<1>3. op' \in [Ops -> Operations]
  <2>1. op \in [Ops -> Operations]
    BY DEF TypeOK, Operations, Ats
  <2>2. Idle \in Operations
    BY DEF Idle, Operations, Ats
  <2>3. \A o \in Ops : [op[o] EXCEPT !.at = "reading", !.behind = None] \in Operations
    BY <2>1 DEF Operations, Ats
  <2>. QED  BY <2>1, <2>2, <2>3 DEF WriteFails
<1>4. \A o \in Ops : op'[o] = op[o] \/ op'[o].at \in {"idle", "reading"}
  BY DEF WriteFails, Idle, TypeOK
<1>5. TypeOK'
  BY <1>1, <1>2, <1>3 DEF TypeOK, disk, index, Operations, Ats
<1>6. Winner' = Winner /\ Found' = Found /\ OnDisk' = OnDisk
  BY <1>1 DEF disk, Winner, Found, Other, OnDisk
<1>7. DownRests' /\ RemovalRefuses' /\ RemovedForGood' /\ OperationsReady' /\ IndexComplete'
  BY <1>1, <1>4, <1>6
     DEF DownRests, RemovalRefuses, RemovedForGood, OperationsReady, IndexComplete, index
<1>8. CacheAgrees'
  <2>1. removal' \in {"none", "waiting"} => removal \in {"none", "waiting"}
    BY <1>1
  <2>. QED  BY <1>1, <1>2, <1>6, <2>1 DEF CacheAgrees, CacheIsFound, index
<1>. QED  BY <1>5, <1>7, <1>8

\* The new file takes the place of what was there.
LEMMA WriteRenamesKeeps == ASSUME Inv, WriteRenames PROVE Inv'
<1> USE DEF Inv
<1> DEFINE r == chain[1].record
<1>1. /\ UNCHANGED <<readLast, up, known, cache, pathById, failed, deleting, removal, op>>
      /\ up /\ chain # <<>> /\ Started /\ ~Renamed /\ removal # "done"
      /\ files' = [files EXCEPT !["home"] = r] /\ pathsById' = pathsById \cup {"home"}
      /\ chain' = [chain EXCEPT ![1].at = "renamed"]
  <2>1. Started
    BY DEF WriteRenames, Started
  <2>. QED  BY <2>1, WriteIsNotRemoved DEF WriteRenames, Renamed
<1>2. /\ chain' \in Seq(Entries) /\ chain' # <<>>
      /\ \A i \in DOMAIN chain' : i > 1 => chain'[i].at = "queued"
      /\ chain'[1].at = "renamed" /\ chain'[1].record = r
  BY <1>1, ChainAdvances
<1>3. r \in Records
  BY <1>1, ChainParts
<1>4. /\ files'["home"] = r /\ files'["elsewhere"] = files["elsewhere"]
      /\ files' \in [Paths -> Records \cup {None}]
  BY <1>1, <1>3 DEF TypeOK, Paths
<1>5. TypeOK'
  BY <1>1, <1>2, <1>4 DEF TypeOK, Paths
<1>6. DownRests' /\ RemovalRefuses' /\ OperationsReady' /\ RemovedForGood'
  BY <1>1 DEF DownRests, RemovalRefuses, OperationsReady, RemovedForGood
<1>7. IndexComplete'
  BY <1>1, <1>4 DEF IndexComplete, OnDisk, Paths
<1>8. CacheAgrees'
  <2> SUFFICES ASSUME removal \in {"none", "waiting"} PROVE WriteIsFound'
    BY <1>1, <1>2 DEF CacheAgrees, Renamed
  <2>1. pathById = Winner /\ cache = Found
    BY <1>1 DEF CacheAgrees, CacheIsFound
  <2>2. pathById = "elsewhere" => files["elsewhere"] = cache
    BY <2>1, WinnerFound DEF Found
  <2>3. pathById = "home" => readLast = "home" \/ files["elsewhere"] = None
    BY <2>1, WinnerFound
  <2>4. pathById = None => files["elsewhere"] = None
    BY <2>1, WinnerFound
  <2>. QED  BY <1>1, <1>2, <1>4, <2>2, <2>3, <2>4 DEF WriteIsFound
<1>. QED  BY <1>5, <1>6, <1>7, <1>8

\* The old file goes, and cache and index are set.
LEMMA WriteEndsKeeps == ASSUME Inv, WriteEnds PROVE Inv'
<1> USE DEF Inv
<1> DEFINE r == chain[1].record
<1>1. /\ UNCHANGED <<readLast, up, known, failed, deleting, removal>>
      /\ up /\ chain # <<>> /\ Renamed /\ removal # "done" /\ HeadReturns
      /\ files' = IF Moved THEN [files EXCEPT ![pathById] = None] ELSE files
      /\ pathsById' = IF Moved THEN pathsById \ {pathById} ELSE pathsById
      /\ cache' = r /\ pathById' = "home"
  <2>1. Started /\ Renamed
    BY DEF WriteEnds, Started, Renamed
  <2>. QED  BY <2>1, WriteIsNotRemoved DEF WriteEnds
<1>2. /\ chain' \in Seq(Entries)
      /\ \A i \in DOMAIN chain' : i > 1 => chain'[i].at = "queued"
      /\ ~Started' /\ ~Renamed'
      /\ op' \in [Ops -> Operations]
      /\ \A o \in Ops : op'[o] = op[o] \/ op'[o].at \in {"idle", "reading"}
  BY <1>1, HeadIsOver
<1>3. r \in Records /\ None \notin Records /\ None # "home" /\ None # "elsewhere"
  BY <1>1, ChainParts, WinnerFound
<1>m. Moved <=> pathById = "elsewhere"
  BY <1>3 DEF Moved, TypeOK, Paths
<1>4. /\ files' \in [Paths -> Records \cup {None}] /\ pathsById' \subseteq Paths
      /\ files'["home"] = files["home"]
      /\ files'["elsewhere"] = IF Moved THEN None ELSE files["elsewhere"]
  BY <1>1, <1>m DEF TypeOK, Paths
<1>5. TypeOK'
  BY <1>1, <1>2, <1>3, <1>4 DEF TypeOK, Paths, Operations, Ats
<1>6. DownRests' /\ RemovalRefuses' /\ OperationsReady' /\ RemovedForGood'
  BY <1>1, <1>2 DEF DownRests, RemovalRefuses, OperationsReady, RemovedForGood
<1>7. IndexComplete'
  BY <1>1, <1>m, <1>4 DEF IndexComplete, OnDisk, Paths
<1>8. CacheAgrees'
  <2> SUFFICES ASSUME removal \in {"none", "waiting"} PROVE CacheIsFound'
    BY <1>1, <1>2 DEF CacheAgrees
  <2>1. WriteIsFound
    BY <1>1 DEF CacheAgrees
  <2>2. files'["home"] = r
    BY <1>4, <2>1 DEF WriteIsFound
  <2>3. readLast' = "home" \/ files'["elsewhere"] = None
    BY <1>1, <1>3, <1>m, <1>4, <2>1 DEF WriteIsFound, TypeOK, Paths
  <2>4. Winner' = "home"
    <3>1. /\ readLast' \in {"home", "elsewhere"}
          /\ Winner' = IF readLast' = "home"
                       THEN IF files'["home"] # None THEN "home"
                            ELSE IF files'["elsewhere"] # None THEN "elsewhere" ELSE None
                       ELSE IF files'["elsewhere"] # None THEN "elsewhere"
                            ELSE IF files'["home"] # None THEN "home" ELSE None
      <4>. HIDE DEF Inv
      <4>1. (readLast \in {"home", "elsewhere"})'
        BY <1>5 DEF TypeOK, Paths
      <4>2. Other("home") = "elsewhere" /\ Other("elsewhere") = "home"
        BY OtherPath
      <4>. QED  BY <4>1, <4>2 DEF Winner
    <3>. QED  BY <1>3, <2>2, <2>3, <3>1
  <2>. QED  BY <1>1, <1>3, <2>2, <2>4 DEF CacheIsFound, Found
<1>. QED  BY <1>5, <1>6, <1>7, <1>8

\* A removal refuses writes, unlinks what the index knows, and returns.
LEMMA BeginDeleteKeeps == ASSUME Inv, BeginDelete PROVE Inv'
<1> USE DEF Inv
<1>1. /\ UNCHANGED <<disk, up, known, index, chain, failed, op>>
      /\ up /\ removal = "none" /\ removal' \in {"none", "waiting"} /\ deleting' = TRUE
  BY DEF BeginDelete
<1>2. TypeOK'
  BY <1>1 DEF TypeOK, disk, index
<1>3. Winner' = Winner /\ Found' = Found /\ OnDisk' = OnDisk /\ Renamed' = Renamed
  BY <1>1 DEF disk, Winner, Found, Other, OnDisk, Renamed
<1>4. DownRests' /\ RemovalRefuses' /\ OperationsReady' /\ RemovedForGood' /\ IndexComplete'
  BY <1>1, <1>3
     DEF DownRests, RemovalRefuses, OperationsReady, RemovedForGood, IndexComplete, index, AllIdle
<1>5. CacheAgrees'
  BY <1>1, <1>3 DEF CacheAgrees, CacheIsFound, WriteIsFound, index, disk
<1>. QED  BY <1>2, <1>4, <1>5

LEMMA RemoveUnlinksKeeps == ASSUME Inv, NEW p \in Paths, RemoveUnlinks(p) PROVE Inv'
<1> USE DEF Inv
<1>1. /\ UNCHANGED <<readLast, up, known, index, chain, failed, deleting, op>>
      /\ up /\ removal \in {"waiting", "unlinking"} /\ removal' = "unlinking" /\ ~Started
      /\ files' = [files EXCEPT ![p] = None]
  BY DEF RemoveUnlinks
<1>2. TypeOK'
  BY <1>1 DEF TypeOK, index
<1>3. OnDisk' \subseteq OnDisk
  BY <1>1 DEF OnDisk, TypeOK
<1>4. DownRests' /\ RemovalRefuses' /\ OperationsReady' /\ RemovedForGood' /\ IndexComplete'
  BY <1>1, <1>3
     DEF DownRests, RemovalRefuses, OperationsReady, RemovedForGood, IndexComplete, index, AllIdle
<1>5. CacheAgrees'
  BY <1>1 DEF CacheAgrees
<1>. QED  BY <1>2, <1>4, <1>5

LEMMA RemoveReturnsKeeps == ASSUME Inv, RemoveReturns PROVE Inv'
<1> USE DEF Inv
<1>1. /\ UNCHANGED <<disk, up, known, chain, failed, deleting, op>>
      /\ up /\ removal \in {"waiting", "unlinking"} /\ removal' = "done" /\ ~Started
      /\ \A p \in pathsById : files[p] = None
      /\ cache' = None /\ pathById' = None /\ pathsById' = {}
  BY DEF RemoveReturns
<1>2. TypeOK'
  BY <1>1 DEF TypeOK, disk
<1>3. OnDisk' = {} /\ deleting
  BY <1>1 DEF OnDisk, IndexComplete, RemovalRefuses, disk
<1>4. DownRests' /\ RemovalRefuses' /\ OperationsReady' /\ IndexComplete' /\ CacheAgrees'
  BY <1>1, <1>3
     DEF DownRests, RemovalRefuses, OperationsReady, IndexComplete, AllIdle, CacheAgrees
<1>5. RemovedForGood'
  BY <1>1, <1>3 DEF RemovedForGood, Started
<1>. QED  BY <1>2, <1>4, <1>5

\* Nothing is on disk but what the first daemon finds.
LEMMA InitHasInv == ASSUME Init PROVE Inv
<1>1. files \in [Paths -> Records \cup {None}]
  BY DEF Init
<1>2. Idle \in Operations
  BY DEF Idle, Operations, Ats
<1>3. chain \in Seq(Entries) /\ DOMAIN chain = {}
  BY EmptySeq DEF Init
<1>4. TypeOK
  BY <1>1, <1>2, <1>3 DEF Init, TypeOK, Operations, Ats
<1>. QED  BY <1>4
          DEF Init, Inv, DownRests, RemovalRefuses, OperationsReady, IndexComplete,
              RemovedForGood, CacheAgrees, AllIdle, Idle

LEMMA InvHolds == Spec => []Inv
<1>1. Init => Inv
  BY InitHasInv
<1>2. Inv /\ [Next]_vars => Inv'
  <2> SUFFICES ASSUME Inv, [Next]_vars PROVE Inv'
    OBVIOUS
  <2>1. CASE UNCHANGED vars
    <3>1. Winner' = Winner /\ Found' = Found /\ OnDisk' = OnDisk /\ Renamed' = Renamed
          /\ Started' = Started
      BY <2>1 DEF vars, disk, Winner, Found, Other, OnDisk, Renamed, Started
    <3>2. TypeOK'
      BY <2>1 DEF vars, disk, index, Inv, TypeOK
    <3>. QED  BY <2>1, <3>1, <3>2
              DEF vars, disk, index, Inv, DownRests, RemovalRefuses, OperationsReady, IndexComplete,
                  RemovedForGood, CacheAgrees, CacheIsFound, WriteIsFound, AllIdle
  <2>2. CASE \E o \in Ops : Operate(o)
    BY <2>2, BeginKeeps, ReadKeeps, UpsertKeeps DEF Operate
  <2>. QED  BY <2>1, <2>2, LoadKeeps, CrashKeeps, WriteStartsKeeps, WriteRenamesKeeps,
               WriteFailsKeeps, WriteEndsKeeps,
               BeginDeleteKeeps, RemoveUnlinksKeeps, RemoveReturnsKeeps DEF Next
<1>. QED  BY <1>1, <1>2, PTL DEF Spec

-----------------------------------------------------------------------------
(* The theorems.                                                             *)

\* The files, the cache, the two indexes, the chain and the operations stay
\* well formed, and only the head of the chain has started.
THEOREM TypeCorrect == Spec => []TypeOK
<1>1. Inv => TypeOK
  BY DEF Inv
<1>. QED  BY <1>1, InvHolds, PTL

\* Wherever a crash falls among the file operations of writes, a restart finds
\* the record of the last write that returned, or of the one in progress
\* (agent-storage.ts: writeRecord, scanDisk).
THEOREM SavedRecordSurvivesHolds == Spec => []SavedRecordSurvives
<1>1. Inv => SavedRecordSurvives
  <2> SUFFICES ASSUME Inv, up, removal \in {"none", "waiting"}
               PROVE  Found = cache \/ (Renamed /\ Found = chain[1].record)
    BY DEF SavedRecordSurvives, Found
  <2>1. CASE ~Renamed
    BY <2>1 DEF Inv, CacheAgrees, CacheIsFound
  <2>2. CASE Renamed
    <3>1. WriteIsFound /\ TypeOK
      BY <2>2 DEF Inv, CacheAgrees
    <3>2. chain[1].record \in Records /\ pathById \in {"home", "elsewhere", None}
      BY <2>2, <3>1, ChainParts DEF Renamed, TypeOK, Paths
    <3>3. files["home"] = chain[1].record /\ files["home"] # None
      BY <3>1, <3>2, WinnerFound DEF WriteIsFound
    <3>4. CASE Winner = "home"
      BY <2>2, <3>1, <3>3, <3>4, WinnerFound DEF Found
    <3>5. CASE Winner # "home"
      <4>1. Winner = "elsewhere" /\ readLast # "home" /\ files["elsewhere"] # None
        BY <3>1, <3>3, <3>5, WinnerFound
      <4>2. files["elsewhere"] = cache
        BY <3>1, <3>2, <4>1 DEF WriteIsFound
      <4>. QED  BY <3>1, <4>1, <4>2, WinnerFound DEF Found
    <3>. QED  BY <3>4, <3>5
  <2>. QED  BY <2>1, <2>2
<1>. QED  BY <1>1, InvHolds, PTL

\* A removed agent has no file and gets none: from no queued write, no later
\* snapshot and no restart (agent-storage.ts: beginDelete, remove).
THEOREM RemovedStaysRemovedHolds == Spec => []RemovedStaysRemoved
<1>1. Inv => RemovedStaysRemoved
  BY DEF Inv, RemovedForGood, RemovedStaysRemoved
<1>. QED  BY <1>1, InvHolds, PTL
=============================================================================
