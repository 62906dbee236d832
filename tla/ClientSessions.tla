--------------------------- MODULE ClientSessions ---------------------------
(* One client of the daemon (DaemonClient, client/daemon-client.ts) and the *)
(* daemon's sessions for it (VoiceAssistantWebSocketServer,                 *)
(* websocket-server.ts): connecting, hello, requests and answers, back-off, *)
(* and the session that outlives its sockets for a time of grace.           *)
(*                                                                          *)
(* A link is one transport, from its construction by the client to the      *)
(* close events of both ends.  What a request asks, pings, metrics and the  *)
(* subscriptions that are renewed after a reconnect are left out.           *)
EXTENDS Naturals, Sequences, SequencesExt, FiniteSets

CONSTANTS
    Requests,   \* requests the client issues, each once
    MaxLinks,   \* bound: transports
    MaxFaults   \* bound: links that break, fail or are too slow, server restarts

ASSUME BoundsAssumption == MaxLinks \in Nat /\ MaxFaults \in Nat

VARIABLES
    status,     \* connectionState.status
    link,       \* transport, 0 if none
    promise,    \* connectPromise is set
    wanted,     \* shouldReconnect
    backoff,    \* reconnectTimeout is set
    request,    \* what has become of each request
    sentOn,     \* the link each request was sent on, 0 if none
    links,      \* the transports and the server's state for each
    registered, \* externalSessionsByKey for this client: a session, or 0
    sessions,   \* how many sessions were created so far, to number them
    grace,      \* sessions with an externalDisconnectCleanupTimeout
    running,    \* <<request, session>> being handled
    runs,       \* how often each request was handled
    faults

client == <<status, link, promise, wanted, backoff, request, sentOn>>
server == <<registered, sessions, grace, running, runs>>
vars == <<client, links, server, faults>>

Links == DOMAIN links
Hello == "hello"
Info == "server_info"
ASSUME RequestsAssumption == IsFiniteSet(Requests) /\ Hello \notin Requests /\ Info \notin Requests

(* client: "opening", "open", or "closed" (disposed, or its close event     *)
(* came); server: "none" before the socket is accepted, "pending" before    *)
(* its hello, "active" in a session, "closed".                              *)
NewLink == [client |-> "opening", broken |-> FALSE, server |-> "none", session |-> 0,
            in |-> <<>>, out |-> <<>>]

Sockets(s) == {l \in Links : links[l].server = "active" /\ links[l].session = s}

Init ==
    /\ status = "idle" /\ link = 0 /\ promise = FALSE /\ wanted = TRUE /\ backoff = FALSE
    /\ request = [r \in Requests |-> "new"] /\ sentOn = [r \in Requests |-> 0]
    /\ links = <<>>
    /\ registered = 0 /\ sessions = 0 /\ grace = {} /\ running = {}
    /\ runs = [r \in Requests |-> 0]
    /\ faults = 0

-----------------------------------------------------------------------------
(* The client.                                                              *)

(* disposeTransport: the handlers are gone, the socket is closed.           *)
Disposed(ls) == IF link = 0 THEN ls ELSE [ls EXCEPT ![link].client = "closed", ![link].out = <<>>]

(* attemptConnect when it is not connecting already: the transport in use   *)
(* is disposed of, whatever its state.                                      *)
AttemptConnect ==
    /\ Len(links) < MaxLinks
    /\ links' = Append(Disposed(links), NewLink)
    /\ link' = Len(links) + 1
    /\ status' = "connecting"

(* connect, and ensureConnected, which the app calls when it comes to the   *)
(* foreground: nothing happens while a connect is under way.                *)
EnsureConnected ==
    /\ status \in {"idle", "disconnected"}
    /\ wanted' = TRUE
    /\ IF promise THEN UNCHANGED <<promise, links, link, status>>
       ELSE promise' = TRUE /\ AttemptConnect
    /\ UNCHANGED <<backoff, request, sentOn, server, faults>>

(* pendingSendQueue: a request stays there when its waiter has timed out.   *)
InQueue == {"queued", "abandoned"}
Settled(states) == [r \in Requests |-> IF request[r] \in states THEN "failed" ELSE request[r]]

(* Mutant: the state stays what it was.                                     *)
ScheduleReconnectQuietly ==
    /\ request' = Settled(InQueue \cup {"pending"})
    /\ backoff' = wanted
    /\ UNCHANGED <<promise, status>>

(* Mutant: a connect that fails is not tried again.                         *)
ScheduleReconnectOnce ==
    /\ request' = Settled(InQueue \cup {"pending"})
    /\ status' = "disconnected"
    /\ backoff' = (wanted /\ status = "connected")
    /\ promise' = (promise /\ wanted)

(* scheduleReconnect: every waiter and every queued send is rejected.       *)
ScheduleReconnect ==
    /\ request' = Settled(InQueue \cup {"pending"})
    /\ status' = "disconnected"
    /\ backoff' = wanted
    /\ promise' = (promise /\ wanted)

(* attemptConnect throws before it has a transport.  The promise it rejects *)
(* is the one there is, but not the one connect is about to set.            *)
ConnectFails ==
    /\ faults < MaxFaults /\ faults' = faults + 1
    /\ \/ status \in {"idle", "disconnected"} /\ ~promise /\ wanted' = TRUE /\ promise' = TRUE
       \/ status # "connecting" /\ backoff /\ wanted /\ wanted' = wanted /\ promise' = FALSE
    /\ links' = Disposed(links) /\ link' = 0
    /\ request' = Settled(InQueue \cup {"pending"})
    /\ status' = "disconnected" /\ backoff' = TRUE
    /\ UNCHANGED <<sentOn, server>>

(* onOpen: the hello goes out.                                              *)
LinkOpens(l) ==
    /\ links[l].client = "opening" /\ ~links[l].broken
    /\ links' = [links EXCEPT ![l].client = "open", ![l].server = "pending", ![l].in = <<Hello>>]
    /\ UNCHANGED <<client, server, faults>>

(* onOpen, but the hello cannot be sent: the transport stays as it is.      *)
HelloFails ==
    /\ link # 0 /\ links[link].client = "opening" /\ ~links[link].broken
    /\ faults < MaxFaults /\ faults' = faults + 1
    /\ links' = [links EXCEPT ![link].client = "open", ![link].server = "pending", ![link].in = <<>>]
    /\ ScheduleReconnect
    /\ UNCHANGED <<link, wanted, sentOn, server>>

(* onClose or onError of the transport in use.                              *)
LinkCloses ==
    /\ link # 0 /\ links[link].client # "closed"
    /\ links[link].broken \/ links[link].server = "closed"
    /\ links' = [links EXCEPT ![link].client = "closed", ![link].out = <<>>]
    /\ ScheduleReconnect
    /\ UNCHANGED <<link, wanted, sentOn, server, faults>>

(* Fifteen seconds without server_info; on a healthy link that is a fault.  *)
ConnectTimesOut ==
    /\ status = "connecting" /\ links[link].client # "closed"
    /\ IF links[link].broken THEN UNCHANGED faults
       ELSE faults < MaxFaults /\ faults' = faults + 1
    /\ links' = Disposed(links) /\ link' = 0
    /\ ScheduleReconnect
    /\ UNCHANGED <<wanted, sentOn, server>>

(* The timer of scheduleReconnect; attemptConnect only looks whether the    *)
(* client is connecting.                                                    *)
BackoffElapses ==
    /\ backoff
    /\ backoff' = FALSE
    /\ IF status = "connecting" \/ ~wanted THEN UNCHANGED <<links, link, status>>
       ELSE AttemptConnect
    /\ UNCHANGED <<promise, wanted, request, sentOn, server, faults>>

Received == links[link].client = "open" /\ links[link].out # <<>>

(* Mutant: the queue is sent and kept.                                      *)
FlushKept(s) ==
    /\ UNCHANGED request
    /\ sentOn' = [r \in Requests |-> IF request[r] \in InQueue THEN link ELSE sentOn[r]]

(* flushPendingSendQueue: the queued requests were sent on the link.        *)
Flush(s) ==
    /\ request' = [r \in Requests |-> CASE request[r] = "queued" -> "pending"
                                        [] request[r] = "abandoned" -> "failed"
                                        [] OTHER -> request[r]]
    /\ sentOn' = [r \in Requests |-> IF request[r] \in InQueue THEN link ELSE sentOn[r]]

InfoArrives ==
    /\ link # 0 /\ Received /\ Head(links[link].out) = Info
    /\ IF status = "connecting"
       THEN LET queued == SetToSeq({r \in Requests : request[r] \in InQueue}) IN
            /\ status' = "connected" /\ promise' = FALSE
            /\ Flush(queued)
            /\ links' = [links EXCEPT ![link].out = Tail(@), ![link].in = @ \o queued]
       ELSE /\ links' = [links EXCEPT ![link].out = Tail(@)]
            /\ UNCHANGED <<status, promise, request, sentOn>>
    /\ UNCHANGED <<link, wanted, backoff, server, faults>>

(* resolveWaiters: an answer settles the request that waits for it.         *)
AnswerArrives ==
    /\ link # 0 /\ Received /\ Head(links[link].out) # Info
    /\ LET r == Head(links[link].out) IN
       request' = [request EXCEPT ![r] = IF @ \in {"queued", "pending"} THEN "done" ELSE @]
    /\ links' = [links EXCEPT ![link].out = Tail(@)]
    /\ UNCHANGED <<status, link, promise, wanted, backoff, sentOn, server, faults>>

(* sendRequest: sent when connected, queued when connecting, else refused.  *)
Issue(r) ==
    /\ request[r] = "new"
    /\ request' = [request EXCEPT ![r] = CASE status = "connected" -> "pending"
                                           [] status = "connecting" -> "queued"
                                           [] OTHER -> "failed"]
    /\ IF status = "connected"
       THEN /\ sentOn' = [sentOn EXCEPT ![r] = link]
            /\ links' = [links EXCEPT ![link].in = Append(@, r)]
       ELSE UNCHANGED <<sentOn, links>>
    /\ UNCHANGED <<status, link, promise, wanted, backoff, server, faults>>

(* Two timers: that of the waiter, which leaves what is queued there, and    *)
(* that of the queue, which cancels the waiter.                             *)
RequestTimesOut(r) ==
    /\ \/ request[r] = "queued" /\ request' = [request EXCEPT ![r] = "abandoned"]
       \/ /\ request[r] \in InQueue \cup {"pending"}
          /\ request' = [request EXCEPT ![r] = "failed"]
    /\ UNCHANGED <<status, link, promise, wanted, backoff, sentOn, links, server, faults>>

Close ==
    /\ status # "disposed"
    /\ status' = "disposed" /\ wanted' = FALSE /\ promise' = FALSE /\ backoff' = FALSE
    /\ request' = Settled(InQueue \cup {"pending"})
    /\ links' = Disposed(links) /\ link' = 0
    /\ UNCHANGED <<sentOn, server, faults>>

-----------------------------------------------------------------------------
(* The daemon's side of the links.                                          *)

Emitted(ls, s, message) ==
    [l \in DOMAIN ls |-> IF ls[l].server = "active" /\ ls[l].session = s /\ ls[l].client = "open"
                         THEN [ls[l] EXCEPT !.out = Append(@, message)] ELSE ls[l]]

(* Mutant: the timer of a session that is resumed goes on.                  *)
ResumeOnly(s) == UNCHANGED grace

(* A hello for a client that has a session resumes it and stops the timer.  *)
Resume(s) == grace' = grace \ {s}

HelloArrives(l) ==
    LET s == IF registered # 0 THEN registered ELSE sessions + 1 IN
    /\ links[l].server = "pending" /\ ~links[l].broken
    /\ links[l].in # <<>> /\ Head(links[l].in) = Hello
    /\ links' = [links EXCEPT ![l].in = Tail(@), ![l].server = "active", ![l].session = s,
                              ![l].out = IF links[l].client = "open" THEN Append(@, Info) ELSE @]
    /\ registered' = s
    /\ sessions' = IF registered # 0 THEN sessions ELSE s
    /\ Resume(s)
    /\ UNCHANGED <<client, running, runs, faults>>

(* handleRawMessage of a request; the session's handler runs on.            *)
RequestArrives(l) ==
    /\ links[l].server = "active" /\ links[l].in # <<>> /\ ~links[l].broken
    /\ LET r == Head(links[l].in) IN
       /\ running' = running \cup {<<r, links[l].session>>}
       /\ runs' = [runs EXCEPT ![r] = @ + 1]
    /\ links' = [links EXCEPT ![l].in = Tail(@)]
    /\ UNCHANGED <<client, registered, sessions, grace, faults>>

(* The answer goes to every socket the session has by then.                 *)
Answers(r, s) ==
    /\ <<r, s>> \in running
    /\ running' = running \ {<<r, s>>}
    /\ links' = Emitted(links, s, r)
    /\ UNCHANGED <<client, registered, sessions, grace, runs, faults>>

(* detachSocket, when the socket's close event comes; without another       *)
(* socket the session waits for the client to come back.                    *)
SocketCloses(l) ==
    LET s == links[l].session IN
    /\ links[l].server \in {"pending", "active"}
    /\ links[l].broken \/ links[l].client = "closed"
    /\ links' = [links EXCEPT ![l].server = "closed", ![l].in = <<>>]
    /\ grace' = IF links[l].server = "active" /\ Sockets(s) = {l} THEN grace \cup {s} ELSE grace
    /\ UNCHANGED <<client, registered, sessions, running, runs, faults>>

(* A pending socket whose hello does not come is closed.                    *)
HelloTimesOut(l) ==
    /\ links[l].server = "pending" /\ faults < MaxFaults
    /\ faults' = faults + 1
    /\ links' = [links EXCEPT ![l].server = "closed", ![l].in = <<>>]
    /\ UNCHANGED <<client, server>>

(* cleanupConnection after the time of grace.                               *)
GraceElapses(s) ==
    /\ s \in grace
    /\ grace' = grace \ {s}
    /\ registered' = IF registered = s THEN 0 ELSE registered
    /\ links' = [l \in Links |-> IF l \in Sockets(s) THEN [links[l] EXCEPT !.session = 0] ELSE links[l]]
    /\ UNCHANGED <<client, sessions, running, runs, faults>>

LinkBreaks(l) ==
    /\ ~links[l].broken /\ links[l].client # "closed" /\ faults < MaxFaults
    /\ faults' = faults + 1
    /\ links' = [links EXCEPT ![l].broken = TRUE, ![l].in = <<>>, ![l].out = <<>>]
    /\ UNCHANGED <<client, server>>

ServerRestarts ==
    /\ sessions # 0 /\ faults < MaxFaults
    /\ faults' = faults + 1
    /\ links' = [l \in Links |-> IF links[l].server \in {"pending", "active"}
                                 THEN [links[l] EXCEPT !.server = "closed", !.in = <<>>] ELSE links[l]]
    /\ registered' = 0 /\ grace' = {} /\ running' = {}
    /\ UNCHANGED <<client, sessions, runs>>

-----------------------------------------------------------------------------
ClientStep ==
    \/ EnsureConnected \/ ConnectFails \/ HelloFails \/ LinkCloses \/ ConnectTimesOut \/ BackoffElapses
    \/ InfoArrives \/ AnswerArrives \/ Close
    \/ \E r \in Requests : Issue(r) \/ RequestTimesOut(r)
    \/ \E l \in Links : LinkOpens(l)
ServerStep ==
    \/ \E l \in Links : HelloArrives(l) \/ RequestArrives(l) \/ SocketCloses(l)
    \/ \E s \in 1 .. sessions : GraceElapses(s) \/ \E r \in Requests : Answers(r, s)
Fault == ServerRestarts \/ \E l \in Links : HelloTimesOut(l) \/ LinkBreaks(l)

Next == ClientStep \/ ServerStep \/ Fault
Spec == Init /\ [][Next]_vars

(* Messages, close events and the client's timers come; nobody has to issue *)
(* or to close anything, no handler has to answer, nothing has to fail.     *)
Fairness ==
    /\ WF_vars(LinkCloses) /\ WF_vars(BackoffElapses) /\ WF_vars(InfoArrives) /\ WF_vars(AnswerArrives)
    /\ WF_vars(status = "connecting" /\ links[link].broken /\ ConnectTimesOut)
    /\ \A l \in 1 .. MaxLinks :
        WF_vars(l \in Links /\ (LinkOpens(l) \/ HelloArrives(l) \/ RequestArrives(l) \/ SocketCloses(l)))
FairSpec == Spec /\ Fairness

-----------------------------------------------------------------------------
(* Every variable keeps its type, and a client that is connected or         *)
(* connecting has a transport, no session has a timer that never was, and   *)
(* a disposed client has nothing left.                                      *)
TypeOK ==
    /\ status \in {"idle", "connecting", "connected", "disconnected", "disposed"}
    /\ promise \in BOOLEAN /\ wanted \in BOOLEAN /\ backoff \in BOOLEAN
    /\ request \in [Requests -> {"new", "queued", "abandoned", "pending", "done", "failed"}]
    /\ links \in Seq([client : {"opening", "open", "closed"}, broken : BOOLEAN,
                      server : {"none", "pending", "active", "closed"}, session : 0 .. sessions,
                      in : Seq({Hello} \cup Requests), out : Seq({Info} \cup Requests)])
    /\ link \in 0 .. Len(links) /\ sentOn \in [Requests -> 0 .. Len(links)]
    /\ registered \in 0 .. sessions /\ grace \subseteq 1 .. sessions
    /\ running \subseteq Requests \X (1 .. sessions)
    /\ runs \in [Requests -> Nat] /\ faults \in 0 .. MaxFaults
    /\ status \in {"connected", "connecting"} => link # 0
    /\ status = "disposed" => link = 0 /\ ~backoff /\ ~promise
    /\ \A r \in Requests : request[r] \in InQueue => status = "connecting"

(* All live sockets of the client are in the one session that is registered *)
(* for it, a session with a socket is not about to be cleaned up, and one   *)
(* without is: none is leaked, and a client is not in two sessions.         *)
OneSession ==
    /\ \A l \in Links : links[l].server = "active" => links[l].session = registered /\ registered # 0
    /\ grace = IF registered # 0 /\ Sockets(registered) = {} THEN {registered} ELSE {}

(* A request is handled at most once, however often the client reconnects   *)
(* while it is queued or pending.                                           *)
HandledOnce == \A r \in Requests : runs[r] =< 1

(* A client that has lost its connection, or never got it, gets one, unless *)
(* it is closed.                                                            *)
Reconnects == status \in {"connecting", "disconnected"} ~> status \in {"connected", "disposed"}

(* A client without a connection is on its way to one: a back-off runs, or   *)
(* the link it is connecting on goes on - opens, is greeted, answers with    *)
(* server_info - or ends, by its close event or the connect timeout.         *)
ReconnectIsUnderWay ==
    /\ status = "disconnected" => wanted /\ backoff
    /\ status = "connecting" =>
         LET l == links[link] IN
         /\ l.client # "closed"
         /\ \/ l.broken \/ l.client = "opening" \/ l.server = "closed"
            \/ l.server = "pending" /\ l.in # <<>> /\ Head(l.in) = Hello
            \/ l.server = "active" /\ Info \in Range(l.out)

(* A request that waits was sent on the connection the client has: the      *)
(* waiters of an earlier one were rejected with it.                         *)
WaitersOfThisConnection ==
    \A r \in Requests : request[r] = "pending" => sentOn[r] = link
============================================================================
