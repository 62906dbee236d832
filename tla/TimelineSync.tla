---------------------------- MODULE TimelineSync ----------------------------
(* How the timeline of an agent reaches the screen of one client: the       *)
(* daemon's in-memory timeline store (agent-timeline-store.ts), the events  *)
(* and fetch responses of the client's session (agent-manager.ts,           *)
(* session.ts), and the client's reducers (session-stream-reducers.ts,      *)
(* session-context.tsx, use-agent-initialization.ts).                       *)
(*                                                                          *)
(* What a row says, the coalescing of text and the optimistic items that    *)
(* carry no sequence number are left out.                                   *)
EXTENDS Naturals, Sequences, SequencesExt

CONSTANTS
    None,
    MaxEpochs,      \* bound: how often a timeline is initialized
    MaxRows,        \* bound: rows recorded in one epoch
    MaxWire,        \* bound: messages on the way when one more is added
    MaxRemoved      \* bound: rows in the stream of an agent that is removed

ASSUME BoundsAssumption ==
    MaxEpochs \in Nat /\ MaxRows \in Nat /\ MaxWire \in Nat /\ MaxRemoved \in Nat
ASSUME NoneAssumption ==
    None \notin [epoch : Nat, start : Nat, end : Nat] \cup {"tail", "after"}

VARIABLES
    (* the daemon *)
    logs,           \* logs[e]: rows recorded in epoch e; the last is current
    stored,         \* the store has a timeline for the agent
    registered,     \* AgentManager.agents has the agent
    closing,        \* closeAgent is waiting for session.close()
    hydrating,      \* the provider's history is being recorded
    (* the session and the network *)
    online,         \* the client's socket is open
    asked,          \* fetch requests not answered yet
    wire,           \* messages to the client, in the order they were emitted
    (* the client *)
    cursor,         \* agentTimelineCursor: epoch, startSeq, endSeq
    earlier,        \* the rows of the stream from before the cursor was set
    view,           \* the rows of the stream since then
    init,           \* the direction of the deferred initialization, or None
    authoritative,  \* agentAuthoritativeHistoryApplied
    pendingRemove   \* a buffered agent_update that removes the agent

daemon == <<logs, stored, registered, closing, hydrating>>
screen == <<cursor, earlier, view, authoritative>>
vars == <<daemon, online, asked, wire, screen, init, pendingRemove>>

epoch == Len(logs)
rows == logs[epoch]

(* agentStreamTail and agentStreamHead.                                     *)
Stream == earlier \o view

(* The abstract timeline: the rows the cursor stands for are what is shown. *)
View == INSTANCE TimelineView WITH shown <- view, kept <- earlier

Cursor(e, a, b) == [epoch |-> e, start |-> a, end |-> b]
After(e, n) == [dir |-> "after", epoch |-> e, seq |-> n]
Tail0 == [dir |-> "tail", epoch |-> 0, seq |-> 0]

(* A live row is a page of one row.  A page is empty when last < first.     *)
Page(dir, e, a, b, reset) ==
    [dir |-> dir, epoch |-> e, first |-> a, last |-> b, reset |-> reset]
ErrorPage == Page("error", 0, 1, 0, FALSE)
Empty(m) == m.last < m.first

Init ==
    /\ logs = <<>> /\ stored = FALSE /\ registered = FALSE
    /\ closing = FALSE /\ hydrating = FALSE
    /\ online = FALSE
    /\ asked = <<>> /\ wire = <<>>
    /\ cursor = None /\ earlier = <<>> /\ view = <<>> /\ init = None
    /\ authoritative = FALSE /\ pendingRemove = FALSE

----------------------------------------------------------------------------
(* The daemon.                                                              *)

(* registerSession starts an epoch only if the store has no timeline for    *)
(* the agent; then ensureAgentLoaded records the provider's history.        *)
Load ==
    /\ ~registered
    /\ registered' = TRUE /\ hydrating' = TRUE /\ stored' = TRUE
    /\ IF stored THEN UNCHANGED logs
       ELSE Len(logs) < MaxEpochs /\ logs' = Append(logs, 0)
    /\ UNCHANGED <<closing, online, asked, wire, screen, init, pendingRemove>>

(* History is recorded row by row and not dispatched.                       *)
Hydrate ==
    /\ registered /\ hydrating /\ stored /\ rows < MaxRows
    /\ logs' = [logs EXCEPT ![epoch] = @ + 1]
    /\ UNCHANGED <<stored, registered, closing, hydrating, online,
                   asked, wire, screen, init, pendingRemove>>

HydrationEnds ==
    /\ registered /\ hydrating
    /\ hydrating' = FALSE
    /\ UNCHANGED <<logs, stored, registered, closing, online,
                   asked, wire, screen, init, pendingRemove>>

(* A row is recorded and dispatched in one go.  Which rows the session does *)
(* not forward is left open: it depends on what a mobile client looks at.   *)
RecordRow ==
    /\ registered /\ stored /\ rows < MaxRows
    /\ logs' = [logs EXCEPT ![epoch] = @ + 1]
    /\ \/ /\ online /\ Len(wire) < MaxWire
          /\ wire' = Append(wire, Page("live", epoch, rows + 1, rows + 1, FALSE))
       \/ UNCHANGED wire
    /\ UNCHANGED <<stored, registered, closing, hydrating, online,
                   asked, screen, init, pendingRemove>>

(* closeAgent takes the agent from the map, waits for the provider, and     *)
(* deletes the timeline of whatever agent has that id by then.              *)
CloseAgent ==
    /\ registered /\ ~closing
    /\ registered' = FALSE /\ hydrating' = FALSE /\ closing' = TRUE
    /\ UNCHANGED <<logs, stored, online, asked, wire, screen,
                   init, pendingRemove>>

CloseReturns ==
    /\ closing
    /\ closing' = FALSE /\ stored' = FALSE
    /\ UNCHANGED <<logs, registered, hydrating, online, asked, wire,
                   screen, init, pendingRemove>>

(* What fetch selects: all rows for the tail and for a cursor of another    *)
(* epoch, else the rows after the cursor.                                   *)
Fetched(q) ==
    IF q.dir = "tail" THEN Page("tail", epoch, 1, rows, FALSE)
    ELSE IF q.epoch # epoch THEN Page("after", epoch, 1, rows, TRUE)
    ELSE Page("after", epoch, q.seq + 1, rows, FALSE)

(* After its awaits, the handler fetches and emits without another one.     *)
(* Requests overtake each other.  A request fails when the agent cannot be  *)
(* loaded or the store does not know it.                                    *)
Answer(i) ==
    /\ online /\ Len(wire) < MaxWire
    /\ asked' = RemoveAt(asked, i)
    /\ \/ registered /\ stored /\ wire' = Append(wire, Fetched(asked[i]))
       \/ ~(registered /\ stored) /\ wire' = Append(wire, ErrorPage)
    /\ UNCHANGED <<daemon, online, screen, init, pendingRemove>>

(* Offline, a request or its answer is lost.                                *)
LoseRequest(i) ==
    /\ ~online
    /\ asked' = RemoveAt(asked, i)
    /\ UNCHANGED <<daemon, online, wire, screen, init, pendingRemove>>

(* Mutant: an initialization outlives the connection its request went over. *)
OfflineInitializing ==
    /\ online' = FALSE /\ wire' = <<>>
    /\ pendingRemove' = FALSE
    /\ UNCHANGED <<screen, init>>

(* What the client does at once when its socket closes.                     *)
Offline ==
    /\ online' = FALSE /\ wire' = <<>>
    /\ init' = None /\ pendingRemove' = FALSE
    /\ UNCHANGED screen

(* The daemon is killed: it forgets every timeline, and the socket closes.  *)
Restart ==
    /\ Offline
    /\ stored' = FALSE /\ registered' = FALSE
    /\ closing' = FALSE /\ hydrating' = FALSE
    /\ asked' = <<>>
    /\ UNCHANGED logs

(* The connection drops; requests the daemon is still working on survive    *)
(* with the session.                                                        *)
Disconnect ==
    /\ online /\ Offline
    /\ UNCHANGED <<daemon, asked>>

Connect ==
    /\ ~online
    /\ online' = TRUE
    /\ UNCHANGED <<daemon, asked, wire, screen, init, pendingRemove>>

----------------------------------------------------------------------------
(* The client.                                                              *)

(* A panel comes into focus, or finds its history older than the connection.*)
EnsureAgentIsInitialized ==
    /\ online /\ init = None
    /\ Len(asked) + Len(wire) < MaxWire
    /\ LET q == IF ~authoritative \/ cursor = None THEN Tail0
                ELSE After(cursor.epoch, cursor.end)
       IN  asked' = Append(asked, q) /\ init' = q.dir
    /\ UNCHANGED <<daemon, online, wire, screen, pendingRemove>>

(* The request of an initialization times out; its answer may still come.   *)
InitTimesOut ==
    /\ init # None
    /\ init' = None
    /\ UNCHANGED <<daemon, online, asked, wire, screen, pendingRemove>>

(* Mutant: whatever is newer is taken.                                      *)
ClassifyWithoutGaps(c, e, n) ==
    CASE c = None -> "init"
      [] c # None /\ c.epoch # e -> "drop_epoch"
      [] c # None /\ c.epoch = e /\ n <= c.end -> "drop_stale"
      [] OTHER -> "accept"

(* Mutant: sequence numbers are compared across epochs.                     *)
ClassifyAnyEpoch(c, e, n) ==
    CASE c = None -> "init"
      [] c # None /\ n <= c.end -> "drop_stale"
      [] c # None /\ n = c.end + 1 -> "accept"
      [] OTHER -> "gap"

Classify(c, e, n) ==
    CASE c = None -> "init"
      [] c # None /\ c.epoch # e -> "drop_epoch"
      [] c # None /\ c.epoch = e /\ n <= c.end -> "drop_stale"
      [] c # None /\ c.epoch = e /\ n = c.end + 1 -> "accept"
      [] OTHER -> "gap"

(* Rows at the start of a page that the client has are passed over; the     *)
(* first of the others decides for the rest, which follows it directly.     *)
FirstFresh(m) ==
    IF cursor # None /\ cursor.epoch = m.epoch /\ m.first <= cursor.end
    THEN cursor.end + 1 ELSE m.first

Decision(m) ==
    IF FirstFresh(m) > m.last THEN "nothing"
    ELSE Classify(cursor, m.epoch, FirstFresh(m))

(* The incremental path of both reducers: where the rows that fit end up.   *)
Fits(m) == Decision(m) \in {"init", "accept"}
Extended(m) ==
    IF ~Fits(m) THEN [cursor |-> cursor, earlier |-> earlier, view |-> view]
    ELSE [cursor |-> Cursor(m.epoch, IF cursor = None THEN m.first ELSE cursor.start, m.last),
          earlier |-> earlier,
          view |-> view \o View!Stretch(m.epoch, FirstFresh(m), m.last)]

(* Mutant: a gap is only noticed.                                           *)
NoCatchUp(m) == asked' = asked

CatchUp(m) ==
    asked' = IF Decision(m) = "gap" THEN Append(asked, After(cursor.epoch, cursor.end))
             ELSE asked

StreamEventArrives ==
    /\ wire # <<>> /\ Head(wire).dir = "live"
    /\ wire' = Tail(wire)
    /\ cursor' = Extended(Head(wire)).cursor
    /\ view' = Extended(Head(wire)).view
    /\ CatchUp(Head(wire))
    /\ UNCHANGED <<daemon, online, earlier, authoritative, init, pendingRemove>>

ErrorArrives ==
    /\ wire # <<>> /\ Head(wire).dir = "error"
    /\ wire' = Tail(wire)
    /\ init' = None
    /\ UNCHANGED <<daemon, online, asked, screen, pendingRemove>>

(* The reset path and the first tail page of an initialization put the page *)
(* in the place of the stream.                                              *)
Replaces(m) == m.reset \/ (m.dir = "tail" /\ init # None)
Replacement(m) ==
    [cursor |-> IF Empty(m) THEN None ELSE Cursor(m.epoch, m.first, m.last),
     earlier |-> <<>>,
     view |-> View!Stretch(m.epoch, m.first, m.last)]

(* Removing the agent takes the cursor away and leaves the stream: what     *)
(* comes next is put behind rows that are no longer accounted for.          *)
RemoveAgent(x) ==
    /\ cursor' = None /\ view' = <<>>
    /\ earlier' = x.earlier \o x.view

(* A removal that was held back until the history came is applied to it.    *)
FlushUpdates(x) ==
    /\ \/ pendingRemove /\ RemoveAgent(x)
       \/ ~pendingRemove /\ cursor' = x.cursor /\ earlier' = x.earlier /\ view' = x.view
    /\ pendingRemove' = FALSE

(* Any page marks the history as applied, and one that resets or has the    *)
(* direction of the initialization ends it.                                 *)
PageArrives ==
    /\ wire # <<>>
    /\ LET m == Head(wire) IN
       /\ m.dir \in {"tail", "after"}
       /\ \/ /\ Replaces(m)
             /\ FlushUpdates(Replacement(m))
             /\ asked' = IF m.reset \/ Empty(m) THEN asked
                         ELSE Append(asked, After(m.epoch, m.last))
          \/ /\ ~Replaces(m)
             /\ FlushUpdates(Extended(m))
             /\ CatchUp(m)
       /\ init' = IF m.reset \/ m.dir = init THEN None ELSE init
    /\ authoritative' = TRUE
    /\ wire' = Tail(wire)
    /\ UNCHANGED <<daemon, online>>

(* agent_update: the agent left the directory this client subscribed to, or *)
(* came back before a removal that waits for the history was applied.       *)
RemoveArrives ==
    /\ online /\ Len(Stream) <= MaxRemoved
    /\ \/ /\ init # None
          /\ pendingRemove' = TRUE /\ UNCHANGED screen
       \/ /\ init = None
          /\ RemoveAgent([earlier |-> earlier, view |-> view, cursor |-> cursor])
          /\ authoritative' = FALSE /\ UNCHANGED pendingRemove
    /\ UNCHANGED <<daemon, online, asked, wire, init>>

UpsertArrives ==
    /\ online /\ pendingRemove
    /\ pendingRemove' = FALSE
    /\ UNCHANGED <<daemon, online, asked, wire, screen, init>>

(* agent_deleted, the answer to this client's own request: the stream goes  *)
(* with the agent.                                                          *)
DeletedArrives ==
    /\ online
    /\ cursor' = None /\ earlier' = <<>> /\ view' = <<>>
    /\ init' = None /\ pendingRemove' = FALSE
    /\ UNCHANGED <<daemon, online, asked, wire, authoritative>>

----------------------------------------------------------------------------
Daemon ==
    \/ Load \/ Hydrate \/ HydrationEnds \/ RecordRow
    \/ CloseAgent \/ CloseReturns \/ Restart
    \/ \E i \in DOMAIN asked : Answer(i)

Network ==
    \/ Disconnect \/ Connect
    \/ \E i \in DOMAIN asked : LoseRequest(i)

Client ==
    \/ EnsureAgentIsInitialized \/ InitTimesOut
    \/ StreamEventArrives \/ ErrorArrives \/ PageArrives
    \/ RemoveArrives \/ UpsertArrives \/ DeletedArrives

Next == Daemon \/ Network \/ Client

Spec == Init /\ [][Next]_vars

(* The daemon goes on with a request it has, and an open socket delivers.   *)
(* Nobody has to record, ask, close or connect again.                       *)
Fairness ==
    /\ \A i \in 1 .. (2 * MaxWire) : WF_vars(i \in DOMAIN asked /\ Answer(i))
    /\ WF_vars(StreamEventArrives) /\ WF_vars(ErrorArrives) /\ WF_vars(PageArrives)

FairSpec == Spec /\ Fairness

----------------------------------------------------------------------------
(* Properties.                                                              *)

Rows == [epoch : 1 .. MaxEpochs, seq : 1 .. MaxRows]
Requests == [dir : {"tail", "after"}, epoch : 0 .. MaxEpochs, seq : 0 .. MaxRows]
Pages == [dir : {"live", "tail", "after", "error"}, epoch : 0 .. MaxEpochs,
          first : 0 .. MaxRows + 1, last : 0 .. MaxRows, reset : BOOLEAN]

(* Every variable is well formed, and nothing is in transit on a closed     *)
(* socket.                                                                  *)
TypeOK ==
    /\ logs \in Seq(0 .. MaxRows) /\ Len(logs) \in 0 .. MaxEpochs
    /\ stored \in BOOLEAN /\ registered \in BOOLEAN
    /\ closing \in BOOLEAN /\ hydrating \in BOOLEAN
    /\ online \in BOOLEAN
    /\ asked \in Seq(Requests) /\ wire \in Seq(Pages)
    /\ cursor \in {None} \cup [epoch : 1 .. MaxEpochs, start : 1 .. MaxRows, end : 1 .. MaxRows]
    /\ earlier \in Seq(Rows) /\ view \in Seq(Rows)
    /\ init \in {None, "tail", "after"}
    /\ authoritative \in BOOLEAN /\ pendingRemove \in BOOLEAN
    /\ ~online => wire = <<>> /\ init = None /\ ~pendingRemove

(* The cursor that the next request and the next gate decision are made     *)
(* from describes the rows the stream really ends with, one by one: no row  *)
(* twice, none missing between the first and the last.  Rows from before    *)
(* the agent was removed have no cursor, and none describes them.           *)
CursorDescribesView ==
    view = IF cursor = None THEN <<>>
           ELSE View!Stretch(cursor.epoch, cursor.start, cursor.end)

(* Until the client removes the agent, its stream is a stretch of one epoch *)
(* that grows at its end or is exchanged for all of an epoch neither older  *)
(* nor shorter: no answer, late or overtaken, takes rows off the screen or  *)
(* brings an old epoch back.  After a removal the old rows stay, and this   *)
(* holds of the rows behind them.                                           *)
ShownAsPromised == View!Spec

(* A row that was streamed to an open connection is shown, though an        *)
(* earlier one was filtered out, as long as the connection, the agent and   *)
(* the client's entry last: the gap it shows is noticed and filled.  The    *)
(* first row of an epoch has none before it.                                *)
LiveRowsArrive ==
    \A e \in 1 .. MaxEpochs, n \in 2 .. MaxRows :
        (epoch = e /\ \E i \in DOMAIN wire : wire[i] = Page("live", e, n, n, FALSE))
        ~> (\/ cursor = None \/ cursor.epoch # e \/ cursor.end >= n
            \/ epoch # e \/ ~registered \/ ~stored \/ ~online)

(* The stream has every row of a stretch of one epoch, each once: what the  *)
(* reducers' gap detection and deduplication are there for.                 *)
StreamHasNoGapOrRepeat ==
    \A i \in 1 .. Len(Stream) - 1 :
        Stream[i + 1] = View!Row(Stream[i].epoch, Stream[i].seq + 1)

(* An agent that is loaded has a timeline: the store, asked about it, does  *)
(* not answer "Unknown agent".                                              *)
LoadedHasTimeline == registered => stored

(* A client whose history has come shows the agent's timeline from its      *)
(* first row.                                                               *)
SyncedShowsAll == authoritative /\ init = None /\ cursor # None => cursor.start = 1
============================================================================
