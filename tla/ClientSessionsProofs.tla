------------------------ MODULE ClientSessionsProofs ------------------------
(* A client is in one session, no request is handled twice, and a client    *)
(* without a connection is on its way to one, for any number of requests,   *)
(* links and faults.                                                        *)
EXTENDS ClientSessions, SequenceTheorems, FiniteSetTheorems, TLAPS

-----------------------------------------------------------------------------
(* The invariant: a request is in the queue of at most one link, once.      *)

LinkOf(n) ==
    [client : {"opening", "open", "closed"}, broken : BOOLEAN,
     server : {"none", "pending", "active", "closed"}, session : 0 .. n,
     in : Seq({Hello} \cup Requests), out : Seq({Info} \cup Requests)]

\* A hello is only the first message of a link that waits for it.
HelloFirst ==
    \A l \in Links : \A i \in DOMAIN links[l].in :
        links[l].in[i] = Hello => i = 1 /\ links[l].server = "pending"

\* No two places of the links' queues have the same request.
SentOnce ==
    \A l, m \in Links : \A i \in DOMAIN links[l].in, j \in DOMAIN links[m].in :
        links[l].in[i] = links[m].in[j] /\ links[l].in[i] \in Requests => l = m /\ i = j

\* A request on its way has not been handled, and will not be sent again.
NotYetHandled ==
    \A l \in Links : \A i \in DOMAIN links[l].in : links[l].in[i] \in Requests =>
        runs[links[l].in[i]] = 0 /\ request[links[l].in[i]] \notin {"new", "queued", "abandoned"}

\* Nor has one that was not sent.
UnsentUnhandled == \A r \in Requests : request[r] \in {"new", "queued", "abandoned"} => runs[r] = 0

\* The daemon does not know of a link before it is open.
Unopened == \A l \in Links : links[l].client = "opening" => links[l].server = "none"

Inv ==
    /\ sessions \in Nat /\ TypeOK /\ OneSession /\ Unopened
    /\ HelloFirst /\ SentOnce /\ NotYetHandled /\ UnsentUnhandled /\ HandledOnce

-----------------------------------------------------------------------------
(* Queues.                                                                  *)

\* Requests that are queued are sent in some order, each once.
LEMMA SetToSeqType ==
    ASSUME NEW S \in SUBSET Requests
    PROVE  /\ SetToSeq(S) \in Seq(S)
           /\ IsInjective(SetToSeq(S))
<1>1. Cardinality(S) \in Nat /\ ExistsBijection(1 .. Cardinality(S), S)
  BY FS_Subset, FS_CardinalityType, RequestsAssumption
<1>3. \E g \in [1 .. Cardinality(S) -> S] : IsInjective(g)
  BY <1>1 DEF ExistsBijection, Bijection, Injection
<1>4. SetToSeq(S) \in [1 .. Cardinality(S) -> S] /\ IsInjective(SetToSeq(S))
  BY <1>3 DEF SetToSeq
<1>. QED  BY <1>1, <1>4

\* What a link is.
LEMMA LinkTypes ==
    ASSUME Inv
    PROVE  /\ links \in Seq(LinkOf(sessions)) /\ Len(links) \in Nat /\ Links = 1 .. Len(links)
           /\ \A l \in Links : links[l] \in LinkOf(sessions)
           /\ \A l \in Links : /\ links[l].in \in Seq({Hello} \cup Requests)
                              /\ links[l].out \in Seq({Info} \cup Requests)
                              /\ links[l].session \in 0 .. sessions
<1>1. links \in Seq(LinkOf(sessions))
  BY DEF Inv, TypeOK, LinkOf
<1>2. Len(links) \in Nat /\ Links = 1 .. Len(links)
  BY <1>1, LenProperties DEF Links
<1>3. \A l \in Links : links[l] \in LinkOf(sessions)
  BY <1>1, <1>2, ElementOfSeq
<1>. QED  BY <1>1, <1>2, <1>3 DEF LinkOf

\* Links that stay and keep their type are still links.
LEMMA LinksKeepType ==
    ASSUME Inv, NEW n \in Nat, links' = [l \in Links |-> links'[l]],
           \A l \in Links : links'[l] \in LinkOf(n)
    PROVE  links' \in Seq(LinkOf(n)) /\ Len(links') = Len(links) /\ Links' = Links
<1>1. Len(links) \in Nat /\ Links = 1 .. Len(links)
  BY LinkTypes
<1>2. links' \in [1 .. Len(links) -> LinkOf(n)]
  BY <1>1
<1>. HIDE DEF LinkOf
<1>. QED  BY <1>1, <1>2 DEF Links

\* The queues of the next state are empty, or as they were, or without their
\* first message, or those of links that have just opened.
Shrunk ==
    \A l \in DOMAIN links' :
        \/ links'[l].in = <<>>
        \/ links'[l].in = <<Hello>> /\ links'[l].server = "pending"
        \/ /\ l \in Links /\ links'[l].in = links[l].in
           /\ links'[l].server = links[l].server
        \/ l \in Links /\ links[l].in # <<>> /\ links'[l].in = Tail(links[l].in)

LEMMA ShrunkQueues ==
    ASSUME Inv, Shrunk
    PROVE  /\ HelloFirst' /\ SentOnce'
           /\ \A l \in Links' : \A i \in DOMAIN links'[l].in : links'[l].in[i] \in Requests =>
                l \in Links /\ \E j \in DOMAIN links[l].in : links[l].in[j] = links'[l].in[i]
<1>1. \A l \in Links : links[l].in \in Seq({Hello} \cup Requests)
  BY LinkTypes
<1>2. ASSUME NEW l \in Links'
      PROVE  \E k \in {0, 1} : \A i \in DOMAIN links'[l].in : links'[l].in[i] # Hello =>
                /\ l \in Links /\ i \in Nat /\ i + k \in DOMAIN links[l].in
                /\ links[l].in[i + k] = links'[l].in[i]
  <2>1. CASE links'[l].in = <<>>
    BY <2>1
  <2>2. CASE links'[l].in = <<Hello>>
    BY <2>2
  <2>3. CASE l \in Links /\ links'[l].in = links[l].in
    <3>1. \A i \in DOMAIN links[l].in : i \in Nat /\ i + 0 = i
      BY <2>3, <1>1, LenProperties
    <3>. QED  BY <2>3, <3>1
  <2>4. CASE l \in Links /\ links[l].in # <<>> /\ links'[l].in = Tail(links[l].in)
    <3> DEFINE q == links[l].in
    <3>1. q \in Seq({Hello} \cup Requests) /\ q # <<>>
      BY <1>1, <2>4
    <3>2. /\ Len(q) \in Nat /\ DOMAIN q = 1 .. Len(q) /\ Len(Tail(q)) = Len(q) - 1
          /\ DOMAIN Tail(q) = 1 .. Len(Tail(q))
          /\ \A i \in 1 .. Len(Tail(q)) : Tail(q)[i] = q[i + 1]
      <4>. HIDE DEF q
      <4>. QED  BY <3>1, HeadTailProperties, LenProperties
    <3>3. \A i \in DOMAIN Tail(q) : i \in Nat /\ i + 1 \in DOMAIN q /\ q[i + 1] = Tail(q)[i]
      <4>. HIDE DEF q
      <4>. QED  BY <3>2
    <3>. QED  BY <2>4, <3>3
  <2>. QED  BY <2>1, <2>2, <2>3, <2>4 DEF Shrunk, Links
<1>3. SentOnce'
  <2> SUFFICES ASSUME NEW l \in Links', NEW m \in Links',
                      NEW i \in DOMAIN links'[l].in, NEW j \in DOMAIN links'[m].in,
                      links'[l].in[i] = links'[m].in[j], links'[l].in[i] \in Requests
               PROVE  l = m /\ i = j
    BY DEF SentOnce
  <2>1. PICK k \in {0, 1} : \A a \in DOMAIN links'[l].in : links'[l].in[a] # Hello =>
                /\ l \in Links /\ a \in Nat /\ a + k \in DOMAIN links[l].in
                /\ links[l].in[a + k] = links'[l].in[a]
    BY <1>2
  <2>2. PICK h \in {0, 1} : \A a \in DOMAIN links'[m].in : links'[m].in[a] # Hello =>
                /\ m \in Links /\ a \in Nat /\ a + h \in DOMAIN links[m].in
                /\ links[m].in[a + h] = links'[m].in[a]
    BY <1>2
  <2>3. /\ l \in Links /\ i \in Nat /\ i + k \in DOMAIN links[l].in
        /\ links[l].in[i + k] = links'[l].in[i]
    BY <2>1, RequestsAssumption
  <2>4. /\ m \in Links /\ j \in Nat /\ j + h \in DOMAIN links[m].in
        /\ links[m].in[j + h] = links'[m].in[j]
    BY <2>2, RequestsAssumption
  <2>5. l = m /\ i + k = j + h
    BY <2>3, <2>4 DEF Inv, SentOnce
  <2>6. k = h
    <3>1. i \in DOMAIN links'[m].in /\ links'[m].in[i] # Hello /\ j \in DOMAIN links'[l].in
          /\ links'[l].in[j] # Hello
      BY <2>5, RequestsAssumption
    <3>2. /\ i + h \in DOMAIN links[l].in /\ links[l].in[i + h] = links'[l].in[i]
          /\ j + k \in DOMAIN links[l].in /\ links[l].in[j + k] = links'[l].in[j]
      BY <2>1, <2>2, <2>5, <3>1
    <3>3. i + h = i + k
      BY <2>3, <3>2 DEF Inv, SentOnce
    <3>. QED  BY <2>3, <3>3
  <2>. QED  BY <2>3, <2>4, <2>5, <2>6
<1>4. HelloFirst'
  <2> SUFFICES ASSUME NEW l \in Links', NEW i \in DOMAIN links'[l].in, links'[l].in[i] = Hello
               PROVE  i = 1 /\ links'[l].server = "pending"
    BY DEF HelloFirst
  <2>1. CASE links'[l].in = <<>>
    BY <2>1
  <2>2. CASE links'[l].in = <<Hello>> /\ links'[l].server = "pending"
    BY <2>2
  <2>3. CASE l \in Links /\ links'[l].in = links[l].in /\ links'[l].server = links[l].server
    BY <2>3 DEF Inv, HelloFirst
  <2>4. CASE l \in Links /\ links[l].in # <<>> /\ links'[l].in = Tail(links[l].in)
    <3> DEFINE q == links[l].in
    <3>1. q \in Seq({Hello} \cup Requests) /\ q # <<>>
      BY <1>1, <2>4
    <3>2. i \in 1 .. Len(q) - 1 /\ i + 1 \in DOMAIN q /\ q[i + 1] = Tail(q)[i] /\ i + 1 # 1
      <4>1. /\ Len(q) \in Nat /\ DOMAIN q = 1 .. Len(q) /\ Len(Tail(q)) = Len(q) - 1
            /\ DOMAIN Tail(q) = 1 .. Len(Tail(q))
            /\ \A a \in 1 .. Len(Tail(q)) : Tail(q)[a] = q[a + 1]
        <5>. HIDE DEF q
        <5>. QED  BY <3>1, HeadTailProperties, LenProperties
      <4>2. i \in DOMAIN Tail(q)
        BY <2>4
      <4>. HIDE DEF q
      <4>. QED  BY <4>1, <4>2
    <3>. QED  BY <2>4, <3>2 DEF Inv, HelloFirst
  <2>. QED  BY <2>1, <2>2, <2>3, <2>4 DEF Shrunk, Links
<1>. QED  BY <1>2, <1>3, <1>4, RequestsAssumption

LEMMA ShrunkQueuesKeep ==
    ASSUME Inv, Shrunk, UNCHANGED runs,
           \A r \in Requests : request'[r] \in {"new", "queued", "abandoned"} =>
                               request[r] \in {"new", "queued", "abandoned"}
    PROVE  HelloFirst' /\ SentOnce' /\ NotYetHandled' /\ UnsentUnhandled' /\ HandledOnce'
<1>1. NotYetHandled'
  BY ShrunkQueues DEF Inv, NotYetHandled
<1>2. UnsentUnhandled' /\ HandledOnce'
  BY DEF Inv, UnsentUnhandled, HandledOnce
<1>. QED  BY <1>1, <1>2, ShrunkQueues

-----------------------------------------------------------------------------
(* Sessions.                                                                *)

\* Steps that do not concern the sessions' sockets.
SocketsStay ==
    /\ UNCHANGED <<registered, grace, sessions>>
    /\ \A l \in Links' : links'[l].server = "active" =>
         /\ l \in Links /\ links[l].server = "active" /\ links'[l].session = links[l].session
    /\ \A l \in Links : links[l].server = "active" => l \in Links' /\ links'[l].server = "active"

LEMMA SessionStays == ASSUME Inv, SocketsStay PROVE OneSession'
<1>1. \A s : Sockets(s)' = Sockets(s)
  BY DEF Sockets, SocketsStay
<1>2. OneSession
  BY DEF Inv
<1>3. \A l \in Links' : links'[l].server = "active" => links'[l].session = registered' /\ registered' # 0
  BY <1>2 DEF OneSession, SocketsStay
<1>4. grace' = IF registered' # 0 /\ Sockets(registered)' = {} THEN {registered'} ELSE {}
  BY <1>1, <1>2 DEF OneSession, SocketsStay
<1>. QED  BY <1>3, <1>4 DEF OneSession

-----------------------------------------------------------------------------
(* The client's steps.                                                      *)

ClientOK ==
    /\ status \in {"idle", "connecting", "connected", "disconnected", "disposed"}
    /\ promise \in BOOLEAN /\ wanted \in BOOLEAN /\ backoff \in BOOLEAN
    /\ request \in [Requests -> {"new", "queued", "abandoned", "pending", "done", "failed"}]
    /\ link \in 0 .. Len(links) /\ sentOn \in [Requests -> 0 .. Len(links)]
    /\ status \in {"connected", "connecting"} => link # 0
    /\ status = "disposed" => link = 0 /\ ~backoff /\ ~promise
    /\ \A r \in Requests : request[r] \in InQueue => status = "connecting"

ServerOK ==
    /\ sessions \in Nat /\ registered \in 0 .. sessions /\ grace \subseteq 1 .. sessions
    /\ running \subseteq Requests \X (1 .. sessions)
    /\ runs \in [Requests -> Nat]

LEMMA TypesAre == (sessions \in Nat /\ TypeOK) <=>
                  /\ ClientOK /\ ServerOK /\ faults \in 0 .. MaxFaults
                  /\ links \in Seq(LinkOf(sessions))
BY DEF TypeOK, ClientOK, ServerOK, LinkOf

LEMMA TypesAreNext == (sessions' \in Nat /\ TypeOK') <=>
                      /\ ClientOK' /\ ServerOK' /\ faults' \in 0 .. MaxFaults
                      /\ links' \in Seq(LinkOf(sessions'))
BY DEF TypeOK, ClientOK, ServerOK, LinkOf

\* disposeTransport changes what the client sees of its link.
LEMMA DisposedLinks ==
    ASSUME Inv
    PROVE  /\ Disposed(links) = [l \in Links |-> Disposed(links)[l]]
           /\ Disposed(links) \in Seq(LinkOf(sessions)) /\ Len(Disposed(links)) = Len(links)
           /\ \A l \in Links : /\ Disposed(links)[l] \in LinkOf(sessions)
                              /\ Disposed(links)[l].client \in {links[l].client, "closed"}
                              /\ Disposed(links)[l].in = links[l].in
                              /\ Disposed(links)[l].server = links[l].server
                              /\ Disposed(links)[l].session = links[l].session
<1> DEFINE D == Disposed(links)
<1>0. /\ links \in Seq(LinkOf(sessions)) /\ links = [l \in Links |-> links[l]]
      /\ Links = 1 .. Len(links) /\ Len(links) \in Nat /\ link \in 0 .. Len(links)
  <2>1. links \in [1 .. Len(links) -> LinkOf(sessions)] /\ Links = 1 .. Len(links)
    <3>. HIDE DEF LinkOf
    <3>. QED  BY LinkTypes, LenProperties
  <2>. QED  BY <2>1, LinkTypes DEF Inv, TypeOK
<1>1. DOMAIN D = Links /\ D = [l \in Links |-> D[l]]
  <2>1. CASE link = 0
    BY <1>0, <2>1 DEF Disposed
  <2>2. CASE link # 0
    <3>1. D = [links EXCEPT ![link] = [links[link] EXCEPT !.client = "closed", !.out = <<>>]]
      BY <1>0, <2>2 DEF Disposed
    <3>. QED  BY <1>0, <3>1
  <2>. QED  BY <2>1, <2>2
<1>2. ASSUME NEW l \in Links
      PROVE  /\ D[l] \in LinkOf(sessions) /\ D[l].in = links[l].in
             /\ D[l].client \in {links[l].client, "closed"}
             /\ D[l].server = links[l].server /\ D[l].session = links[l].session
  <2>1. links[l] \in LinkOf(sessions)
    BY LinkTypes
  <2>2. D[l] = IF link # 0 /\ l = link THEN [links[l] EXCEPT !.client = "closed", !.out = <<>>]
               ELSE links[l]
    BY <1>0 DEF Disposed
  <2>3. <<>> \in Seq({Info} \cup Requests)
    BY EmptySeq
  <2>. QED  BY <2>1, <2>2, <2>3 DEF LinkOf
<1>3. D \in Seq(LinkOf(sessions)) /\ Len(D) = Len(links)
  <2>1. Len(links) \in Nat /\ Links = 1 .. Len(links)
    BY LinkTypes
  <2>2. D \in [1 .. Len(links) -> LinkOf(sessions)]
    BY <1>1, <1>2, <2>1
  <2>. HIDE DEF D, LinkOf
  <2>. QED  BY <2>1, <2>2
<1>. QED  BY <1>1, <1>2, <1>3

\* Steps of the client that keep the server's state and add no message.
ClientMoves ==
    /\ \A l \in Links : /\ l \in Links' /\ links'[l].in \in {links[l].in, <<>>}
                       /\ links'[l].client \in {links[l].client, "closed"}
                       /\ links'[l].server = links[l].server
                       /\ links'[l].session = links[l].session
    /\ \A l \in Links' : l \notin Links => links'[l].in = <<>> /\ links'[l].server = "none"
    /\ \A r \in Requests : request'[r] \in {"new", "queued", "abandoned"} =>
          request[r] \in {"new", "queued", "abandoned"}
    /\ links' \in Seq(LinkOf(sessions)) /\ ClientOK' /\ UNCHANGED server
    /\ faults' \in 0 .. MaxFaults

LEMMA ClientMovesKeeps == ASSUME Inv, ClientMoves PROVE Inv'
<1>1. UNCHANGED <<registered, sessions, grace, running, runs>>
  BY DEF ClientMoves, server
<1>2. ClientOK' /\ links' \in Seq(LinkOf(sessions')) /\ ServerOK' /\ faults' \in 0 .. MaxFaults
  BY <1>1, TypesAre DEF Inv, ClientMoves, ServerOK
<1>3. OneSession'
  BY <1>1, SessionStays DEF SocketsStay, ClientMoves
<1>4. Shrunk
  BY DEF Shrunk, ClientMoves, Links
<1>5. HelloFirst' /\ SentOnce' /\ NotYetHandled' /\ UnsentUnhandled' /\ HandledOnce'
  BY <1>1, <1>4, ShrunkQueuesKeep DEF ClientMoves
<1>6. Unopened'
  BY DEF Inv, Unopened, ClientMoves
<1>. QED  BY <1>2, <1>3, <1>5, <1>6, TypesAreNext DEF Inv

\* A new transport.
LEMMA AttemptConnectAdds ==
    ASSUME Inv, AttemptConnect
    PROVE  /\ links' \in Seq(LinkOf(sessions)) /\ Len(links') = Len(links) + 1
           /\ link' = Len(links') /\ status' = "connecting" /\ Links' = 1 .. Len(links) + 1
           /\ \A l \in Links : /\ l \in Links' /\ links'[l].in = links[l].in
                              /\ links'[l].client \in {links[l].client, "closed"}
                              /\ links'[l].server = links[l].server
                              /\ links'[l].session = links[l].session
           /\ \A l \in Links' : l \notin Links => links'[l].in = <<>> /\ links'[l].server = "none"
<1> DEFINE D == Disposed(links)
<1>1. NewLink \in LinkOf(sessions)
  BY EmptySeq DEF NewLink, LinkOf, Inv
<1>2. Len(links) \in Nat /\ Links = 1 .. Len(links) /\ links' = Append(D, NewLink)
      /\ link' = Len(links) + 1 /\ status' = "connecting"
  BY LinkTypes DEF AttemptConnect
<1>3. D \in Seq(LinkOf(sessions)) /\ Len(D) = Len(links)
      /\ \A l \in Links : /\ D[l].client \in {links[l].client, "closed"}
                         /\ D[l].in = links[l].in /\ D[l].server = links[l].server
                         /\ D[l].session = links[l].session
  BY DisposedLinks
<1>4. /\ links' \in Seq(LinkOf(sessions)) /\ Len(links') = Len(links) + 1
      /\ \A l \in 1 .. Len(links) : links'[l] = D[l]
      /\ links'[Len(links) + 1] = NewLink
  <2>. HIDE DEF D, LinkOf, NewLink
  <2>. QED  BY <1>1, <1>2, <1>3, AppendProperties
<1>5. Links' = 1 .. Len(links) + 1
  BY <1>4, LenProperties DEF Links
<1>6. NewLink.in = <<>> /\ NewLink.server = "none"
  BY DEF NewLink
<1>. HIDE DEF D, NewLink, LinkOf
<1>. QED  BY <1>2, <1>3, <1>4, <1>5, <1>6

LEMMA EnsureConnectedKeeps == ASSUME Inv, EnsureConnected PROVE Inv'
<1>1. /\ status \in {"idle", "disconnected"} /\ wanted' = TRUE
      /\ UNCHANGED <<backoff, request, sentOn, registered, sessions, grace, running, runs, faults>>
  BY DEF EnsureConnected, server
<1>2. CASE promise
  <2>1. UNCHANGED <<promise, links, link, status>>
    BY <1>2 DEF EnsureConnected
  <2>2. ClientOK'
    BY <1>1, <2>1, TypesAre DEF Inv, ClientOK
  <2>. QED  BY <1>1, <2>1, <2>2, ClientMovesKeeps, LinkTypes, TypesAre DEF ClientMoves, server, Inv, Links
<1>3. CASE ~promise
  <2>1. promise' = TRUE /\ AttemptConnect
    BY <1>3 DEF EnsureConnected
  <2>2. ClientOK'
    BY <1>1, <2>1, TypesAre, AttemptConnectAdds, LinkTypes DEF Inv, ClientOK
  <2>. QED  BY <1>1, <2>1, <2>2, AttemptConnectAdds, ClientMovesKeeps, TypesAre DEF ClientMoves, server, Inv
<1>. QED  BY <1>2, <1>3

LEMMA BackoffElapsesKeeps == ASSUME Inv, BackoffElapses PROVE Inv'
<1>1. /\ backoff /\ backoff' = FALSE
      /\ UNCHANGED <<promise, wanted, request, sentOn, registered, sessions, grace, running, runs, faults>>
  BY DEF BackoffElapses, server
<1>2. CASE status = "connecting" \/ ~wanted
  <2>1. UNCHANGED <<links, link, status>>
    BY <1>2 DEF BackoffElapses
  <2>2. ClientOK'
    BY <1>1, <2>1, TypesAre DEF Inv, ClientOK
  <2>. QED  BY <1>1, <2>1, <2>2, ClientMovesKeeps, LinkTypes, TypesAre DEF ClientMoves, server, Inv, Links
<1>3. CASE ~(status = "connecting" \/ ~wanted)
  <2>1. AttemptConnect
    BY <1>3 DEF BackoffElapses
  <2>2. ClientOK'
    <3>1. /\ status' = "connecting" /\ Len(links') = Len(links) + 1 /\ link' = Len(links) + 1
          /\ Len(links) \in Nat
      BY <2>1, AttemptConnectAdds, LinkTypes
    <3>2. ClientOK
      BY TypesAre DEF Inv
    <3>3. sentOn' \in [Requests -> 0 .. Len(links')] /\ link' \in 0 .. Len(links') /\ link' # 0
      BY <1>1, <3>1, <3>2 DEF ClientOK
    <3>4. \A r \in Requests : request'[r] \in InQueue => status' = "connecting"
      BY <3>1
    <3>. QED  BY <1>1, <3>1, <3>2, <3>3, <3>4 DEF ClientOK
  <2>. QED  BY <1>1, <2>1, <2>2, AttemptConnectAdds, ClientMovesKeeps, TypesAre DEF ClientMoves, server, Inv
<1>. QED  BY <1>2, <1>3

\* scheduleReconnect leaves no request queued.
LEMMA ScheduleReconnectIsOK ==
    ASSUME Inv, ScheduleReconnect, UNCHANGED <<wanted, sentOn>>,
           Len(links') = Len(links), link' \in {link, 0}, status # "disposed"
    PROVE  /\ ClientOK'
           /\ \A r \in Requests : request'[r] \in {"new", "queued", "abandoned"} =>
                 request[r] \in {"new", "queued", "abandoned"}
<1>1. /\ request' \in [Requests -> {"new", "queued", "abandoned", "pending", "done", "failed"}]
      /\ \A r \in Requests : request'[r] \notin InQueue /\ (request'[r] = "new" => request[r] = "new")
  BY DEF ScheduleReconnect, Settled, InQueue, Inv, TypeOK
<1>2. status' = "disconnected" /\ backoff' = wanted /\ promise' \in BOOLEAN
  BY DEF ScheduleReconnect, Inv, TypeOK
<1>3. ClientOK /\ Len(links) \in Nat
  BY TypesAre, LinkTypes DEF Inv
<1>4. ClientOK'
  BY <1>1, <1>2, <1>3 DEF ClientOK
<1>. QED  BY <1>1, <1>4 DEF InQueue

\* Steps that change one link.
LEMMA OneLinkChanges ==
    ASSUME Inv, NEW n \in Nat, sessions <= n, NEW l \in Links, NEW x \in LinkOf(n),
           links' = [links EXCEPT ![l] = x]
    PROVE  /\ links' \in Seq(LinkOf(n)) /\ Len(links') = Len(links) /\ Links' = Links
           /\ \A k \in Links : links'[k] = IF k = l THEN x ELSE links[k]
<1>1. links \in Seq(LinkOf(n))
  <2>1. LinkOf(sessions) \subseteq LinkOf(n)
    <3>1. 0 .. sessions \subseteq 0 .. n
      BY DEF Inv
    <3>. QED  BY <3>1 DEF LinkOf
  <2>. HIDE DEF LinkOf
  <2>. QED  BY <2>1, LinkTypes, SeqMonotonic
<1>2. l \in 1 .. Len(links) /\ Links = 1 .. Len(links)
  BY LinkTypes
<1>3. /\ links' \in Seq(LinkOf(n)) /\ Len(links') = Len(links)
      /\ \A k \in 1 .. Len(links) : links'[k] = IF k = l THEN x ELSE links[k]
  <2>. HIDE DEF LinkOf
  <2>. QED  BY <1>1, <1>2, ExceptSeq
<1>4. Links' = 1 .. Len(links')
  <2>. HIDE DEF LinkOf
  <2>. QED  BY <1>3, LenProperties DEF Links
<1>. QED  BY <1>2, <1>3, <1>4

LEMMA LinkClosesKeeps == ASSUME Inv, LinkCloses PROVE Inv'
<1> DEFINE x == [links[link] EXCEPT !.client = "closed", !.out = <<>>]
<1>1. /\ link # 0 /\ links' = [links EXCEPT ![link] = x] /\ ScheduleReconnect
      /\ UNCHANGED <<link, wanted, sentOn, registered, sessions, grace, running, runs, faults>>
  BY DEF LinkCloses, server
<1>2. link \in Links /\ status # "disposed"
  BY <1>1, LinkTypes DEF Inv, TypeOK
<1>3. links[link] \in LinkOf(sessions)
  BY <1>2, LinkTypes
<1>4. /\ x \in LinkOf(sessions) /\ x.client = "closed" /\ x.in = links[link].in
      /\ x.server = links[link].server /\ x.session = links[link].session
  BY <1>3, EmptySeq DEF LinkOf
<1>5. /\ links' \in Seq(LinkOf(sessions)) /\ Len(links') = Len(links) /\ Links' = Links
      /\ \A k \in Links : links'[k] = IF k = link THEN x ELSE links[k]
  <2>1. sessions \in Nat /\ sessions <= sessions
    BY DEF Inv
  <2>. HIDE DEF x, LinkOf
  <2>. QED  BY <1>1, <1>2, <1>4, <2>1, OneLinkChanges
<1>6. ClientOK' /\ \A r \in Requests : request'[r] \in {"new", "queued", "abandoned"} =>
                      request[r] \in {"new", "queued", "abandoned"}
  BY <1>1, <1>2, <1>5, ScheduleReconnectIsOK
<1>7. faults' \in 0 .. MaxFaults
  BY <1>1 DEF Inv, TypeOK
<1>. HIDE DEF x, LinkOf
<1>. QED  BY <1>1, <1>4, <1>5, <1>6, <1>7, ClientMovesKeeps DEF ClientMoves, server

LEMMA ConnectTimesOutKeeps == ASSUME Inv, ConnectTimesOut PROVE Inv'
<1>1. /\ status = "connecting" /\ links' = Disposed(links) /\ link' = 0 /\ ScheduleReconnect
      /\ UNCHANGED <<wanted, sentOn, registered, sessions, grace, running, runs>>
  BY DEF ConnectTimesOut, server
<1>2. faults' \in 0 .. MaxFaults
  BY BoundsAssumption DEF ConnectTimesOut, Inv, TypeOK
<1>3. Links' = Links
  BY <1>1, DisposedLinks DEF Links
<1>4. ClientOK' /\ \A r \in Requests : request'[r] \in {"new", "queued", "abandoned"} =>
                      request[r] \in {"new", "queued", "abandoned"}
  BY <1>1, DisposedLinks, ScheduleReconnectIsOK
<1>. QED  BY <1>1, <1>2, <1>3, <1>4, DisposedLinks, ClientMovesKeeps DEF ClientMoves, server

LEMMA ConnectFailsKeeps == ASSUME Inv, ConnectFails PROVE Inv'
<1>1. /\ links' = Disposed(links) /\ link' = 0 /\ request' = Settled(InQueue \cup {"pending"})
      /\ status' = "disconnected" /\ wanted' \in {TRUE, wanted} /\ promise' \in BOOLEAN
      /\ backoff' = TRUE
      /\ UNCHANGED <<sentOn, registered, sessions, grace, running, runs>>
  BY DEF ConnectFails, server
<1>2. faults' \in 0 .. MaxFaults
  BY BoundsAssumption DEF ConnectFails, Inv, TypeOK
<1>3. Links' = Links /\ Len(links') = Len(links)
  BY <1>1, DisposedLinks DEF Links
<1>4. /\ request' \in [Requests -> {"new", "queued", "abandoned", "pending", "done", "failed"}]
      /\ \A r \in Requests : request'[r] \notin InQueue /\ (request'[r] = "new" => request[r] = "new")
  BY <1>1 DEF Settled, InQueue, Inv, TypeOK
<1>5. ClientOK'
  <2>1. ClientOK /\ Len(links) \in Nat
    BY TypesAre, LinkTypes DEF Inv
  <2>2. sentOn' \in [Requests -> 0 .. Len(links')] /\ link' \in 0 .. Len(links')
    BY <1>1, <1>3, <2>1 DEF ClientOK
  <2>. QED  BY <1>1, <1>4, <2>1, <2>2 DEF ClientOK
<1>. QED  BY <1>1, <1>2, <1>3, <1>4, <1>5, DisposedLinks, ClientMovesKeeps
          DEF ClientMoves, server, InQueue

LEMMA CloseKeeps == ASSUME Inv, Close PROVE Inv'
<1>1. /\ links' = Disposed(links) /\ link' = 0 /\ request' = Settled(InQueue \cup {"pending"})
      /\ status' = "disposed" /\ wanted' = FALSE /\ promise' = FALSE /\ backoff' = FALSE
      /\ UNCHANGED <<sentOn, registered, sessions, grace, running, runs, faults>>
  BY DEF Close, server
<1>2. faults' \in 0 .. MaxFaults
  BY <1>1 DEF Inv, TypeOK
<1>3. Links' = Links /\ Len(links') = Len(links)
  BY <1>1, DisposedLinks DEF Links
<1>4. /\ request' \in [Requests -> {"new", "queued", "abandoned", "pending", "done", "failed"}]
      /\ \A r \in Requests : request'[r] \notin InQueue /\ (request'[r] = "new" => request[r] = "new")
  BY <1>1 DEF Settled, InQueue, Inv, TypeOK
<1>5. ClientOK'
  <2>1. ClientOK /\ Len(links) \in Nat
    BY TypesAre, LinkTypes DEF Inv
  <2>2. sentOn' \in [Requests -> 0 .. Len(links')] /\ link' \in 0 .. Len(links')
    BY <1>1, <1>3, <2>1 DEF ClientOK
  <2>. QED  BY <1>1, <1>4, <2>2 DEF ClientOK
<1>. QED  BY <1>1, <1>2, <1>3, <1>4, <1>5, DisposedLinks, ClientMovesKeeps
          DEF ClientMoves, server, InQueue

LEMMA RequestTimesOutKeeps ==
    ASSUME Inv, NEW r \in Requests, RequestTimesOut(r) PROVE Inv'
<1>1. /\ \E x \in {"abandoned", "failed"} :
           /\ request[r] \in InQueue \cup {"pending"} /\ (x = "abandoned" => request[r] = "queued")
           /\ request' = [request EXCEPT ![r] = x]
      /\ UNCHANGED <<status, link, promise, wanted, backoff, sentOn, links,
                     registered, sessions, grace, running, runs, faults>>
  BY DEF RequestTimesOut, server, InQueue
<1>2. /\ request' \in [Requests -> {"new", "queued", "abandoned", "pending", "done", "failed"}]
      /\ \A q \in Requests : request'[q] \in {"new", "queued", "abandoned"} =>
                               request[q] \in {"new", "queued", "abandoned"}
      /\ \A q \in Requests : request'[q] \in InQueue => request[q] \in InQueue
  BY <1>1 DEF Inv, TypeOK, InQueue
<1>3. ClientOK'
  <2>1. ClientOK
    BY TypesAre DEF Inv
  <2>. QED  BY <1>1, <1>2, <2>1 DEF ClientOK
<1>4. faults' \in 0 .. MaxFaults /\ links' \in Seq(LinkOf(sessions)) /\ Links' = Links
  BY <1>1, LinkTypes DEF Inv, TypeOK, Links
<1>. QED  BY <1>1, <1>2, <1>3, <1>4, ClientMovesKeeps DEF ClientMoves, server

LEMMA AnswerArrivesKeeps == ASSUME Inv, AnswerArrives PROVE Inv'
<1> DEFINE r == Head(links[link].out)
           x == [links[link] EXCEPT !.out = Tail(@)]
<1>1. /\ link # 0 /\ links[link].out # <<>> /\ r # Info
      /\ request' = [request EXCEPT ![r] = IF @ \in {"queued", "pending"} THEN "done" ELSE @]
      /\ links' = [links EXCEPT ![link] = x]
      /\ UNCHANGED <<status, link, promise, wanted, backoff, sentOn,
                     registered, sessions, grace, running, runs, faults>>
  BY DEF AnswerArrives, server, Received
<1>2. link \in Links
  <2>1. link \in 0 .. Len(links)
    BY DEF Inv, TypeOK
  <2>2. Links = 1 .. Len(links) /\ Len(links) \in Nat
    BY LinkTypes
  <2>. QED  BY <1>1, <2>1, <2>2
<1>3. links[link] \in LinkOf(sessions) /\ links[link].out \in Seq({Info} \cup Requests)
  BY <1>2, LinkTypes
<1>4. r \in Requests /\ Tail(links[link].out) \in Seq({Info} \cup Requests)
  BY <1>1, <1>3, HeadTailProperties
<1>5. /\ x \in LinkOf(sessions) /\ x.client = links[link].client /\ x.in = links[link].in
      /\ x.server = links[link].server /\ x.session = links[link].session
  BY <1>3, <1>4 DEF LinkOf
<1>6. /\ links' \in Seq(LinkOf(sessions)) /\ Len(links') = Len(links) /\ Links' = Links
      /\ \A k \in Links : links'[k] = IF k = link THEN x ELSE links[k]
  <2>1. sessions \in Nat /\ sessions <= sessions
    BY DEF Inv
  <2>. HIDE DEF x, LinkOf
  <2>. QED  BY <1>1, <1>2, <1>5, <2>1, OneLinkChanges
<1>. HIDE DEF r, x, LinkOf
<1>7. /\ request' \in [Requests -> {"new", "queued", "abandoned", "pending", "done", "failed"}]
      /\ \A q \in Requests : request'[q] \in {"new", "queued", "abandoned"} => request'[q] = request[q]
  BY <1>1, <1>4 DEF Inv, TypeOK
<1>8. ClientOK'
  <2>1. ClientOK
    BY TypesAre DEF Inv
  <2>. QED  BY <1>1, <1>6, <1>7, <2>1 DEF ClientOK, InQueue
<1>9. faults' \in 0 .. MaxFaults
  BY <1>1 DEF Inv, TypeOK
<1>. QED  BY <1>1, <1>5, <1>6, <1>7, <1>8, <1>9, ClientMovesKeeps DEF ClientMoves, server

\* Requests that were not sent before are added to the queue of a link.
LEMMA QueueGrows ==
    ASSUME Inv, NEW l \in Links, NEW q \in Seq(Requests), IsInjective(q), Links' = Links,
           links'[l].in = links[l].in \o q,
           \A k \in Links : k # l => links'[k].in = links[k].in,
           \A k \in Links : links'[k].server = links[k].server,
           \A i \in DOMAIN q : request[q[i]] \in {"new", "queued", "abandoned"}
                              /\ request'[q[i]] \notin {"new", "queued", "abandoned"},
           \A r \in Requests : request'[r] \in {"new", "queued", "abandoned"} =>
                               request[r] \in {"new", "queued", "abandoned"},
           UNCHANGED runs
    PROVE  HelloFirst' /\ SentOnce' /\ NotYetHandled' /\ UnsentUnhandled' /\ HandledOnce'
<1> DEFINE old == links[l].in
           new == links'[l].in
<1>1. /\ old \in Seq({Hello} \cup Requests) /\ q \in Seq({Hello} \cup Requests)
      /\ Len(old) \in Nat /\ DOMAIN old = 1 .. Len(old)
      /\ Len(q) \in Nat /\ DOMAIN q = 1 .. Len(q) /\ \A i \in DOMAIN q : q[i] \in Requests
  <2>1. old \in Seq({Hello} \cup Requests)
    BY LinkTypes
  <2>2. q \in Seq({Hello} \cup Requests)
    BY SeqMonotonic
  <2>. HIDE DEF old
  <2>. QED  BY <2>1, <2>2, LenProperties, ElementOfSeq
<1>2. /\ DOMAIN new = 1 .. Len(old) + Len(q)
      /\ \A i \in DOMAIN new : new[i] = IF i <= Len(old) THEN old[i] ELSE q[i - Len(old)]
  <2>1. new = old \o q
    OBVIOUS
  <2>. HIDE DEF old, new
  <2>. QED  BY <1>1, <2>1, ConcatProperties, LenProperties
<1>3. \A i \in DOMAIN new :
        \/ i \in DOMAIN old /\ new[i] = old[i]
        \/ i > Len(old) /\ i \in Nat /\ i - Len(old) \in DOMAIN q /\ new[i] = q[i - Len(old)]
  <2>. HIDE DEF old, new
  <2>. QED  BY <1>1, <1>2
\* What is added was nowhere before.
<1>4. \A k \in Links : \A i \in DOMAIN links[k].in : \A j \in DOMAIN q : links[k].in[i] # q[j]
  BY <1>1 DEF Inv, NotYetHandled
<1>. HIDE DEF new
<1>5. \A i, j \in DOMAIN new : new[i] = new[j] /\ new[i] \in Requests => i = j
  <2> SUFFICES ASSUME NEW i \in DOMAIN new, NEW j \in DOMAIN new, new[i] = new[j], new[i] \in Requests
               PROVE  i = j
    OBVIOUS
  <2>1. CASE i \in DOMAIN old /\ new[i] = old[i] /\ j \in DOMAIN old /\ new[j] = old[j]
    <3>1. old[i] = old[j] /\ old[i] \in Requests
      BY <2>1
    <3>2. \A a, b \in DOMAIN old : old[a] = old[b] /\ old[a] \in Requests => a = b
      BY DEF Inv, SentOnce
    <3>. QED  BY <2>1, <3>1, <3>2
  <2>2. CASE /\ i > Len(old) /\ i \in Nat /\ i - Len(old) \in DOMAIN q /\ new[i] = q[i - Len(old)]
             /\ j > Len(old) /\ j \in Nat /\ j - Len(old) \in DOMAIN q /\ new[j] = q[j - Len(old)]
    <3>1. i - Len(old) = j - Len(old)
      BY <2>2 DEF IsInjective
    <3>. HIDE DEF old
    <3>. QED  BY <2>2, <3>1, <1>1
  <2>3. \A a, b \in DOMAIN new : a \in DOMAIN old /\ new[a] = old[a] /\ b - Len(old) \in DOMAIN q
                              /\ new[b] = q[b - Len(old)] => new[a] # new[b]
    BY <1>4
  <2>4. \/ i \in DOMAIN old /\ new[i] = old[i]
        \/ i > Len(old) /\ i \in Nat /\ i - Len(old) \in DOMAIN q /\ new[i] = q[i - Len(old)]
    BY <1>3
  <2>5. \/ j \in DOMAIN old /\ new[j] = old[j]
        \/ j > Len(old) /\ j \in Nat /\ j - Len(old) \in DOMAIN q /\ new[j] = q[j - Len(old)]
    BY <1>3
  <2>6. CASE i \in DOMAIN old /\ new[i] = old[i]
    BY <2>1, <2>3, <2>5, <2>6
  <2>7. CASE i > Len(old) /\ i \in Nat /\ i - Len(old) \in DOMAIN q /\ new[i] = q[i - Len(old)]
    BY <2>2, <2>3, <2>5, <2>7
  <2>. QED  BY <2>4, <2>6, <2>7
<1>6. SentOnce'
  <2> SUFFICES ASSUME NEW a \in Links, NEW b \in Links,
                      NEW i \in DOMAIN links'[a].in, NEW j \in DOMAIN links'[b].in,
                      links'[a].in[i] = links'[b].in[j], links'[a].in[i] \in Requests
               PROVE  a = b /\ i = j
    BY DEF SentOnce
  <2>1. CASE a = l /\ b = l
    BY <1>5, <2>1 DEF new
  <2>2. CASE a # l /\ b # l
    BY <2>2 DEF Inv, SentOnce
  <2>3. CASE a = l /\ b # l
    <3>1. i \in DOMAIN new /\ j \in DOMAIN links[b].in /\ new[i] = links[b].in[j]
      BY <2>3 DEF new
    <3>2. i \in DOMAIN old /\ new[i] = old[i]
      BY <1>3, <1>4, <3>1
    <3>3. old[i] = links[b].in[j] /\ old[i] \in Requests
      BY <2>3, <3>1, <3>2 DEF new
    <3>. QED  BY <2>3, <3>1, <3>2, <3>3 DEF Inv, SentOnce
  <2>4. CASE a # l /\ b = l
    <3>1. j \in DOMAIN new /\ i \in DOMAIN links[a].in /\ new[j] = links[a].in[i]
      BY <2>4 DEF new
    <3>2. j \in DOMAIN old /\ new[j] = old[j]
      BY <1>3, <1>4, <3>1
    <3>3. old[j] = links[a].in[i] /\ old[j] \in Requests
      BY <2>4, <3>1, <3>2 DEF new
    <3>. QED  BY <2>4, <3>1, <3>2, <3>3 DEF Inv, SentOnce
  <2>. QED  BY <2>1, <2>2, <2>3, <2>4
<1>7. HelloFirst'
  <2> SUFFICES ASSUME NEW k \in Links, NEW i \in DOMAIN links'[k].in, links'[k].in[i] = Hello
               PROVE  i = 1 /\ links'[k].server = "pending"
    BY DEF HelloFirst
  <2>1. CASE k # l
    BY <2>1 DEF Inv, HelloFirst
  <2>2. CASE k = l
    <3>1. i \in DOMAIN old /\ old[i] = Hello
      BY <2>2, <1>1, <1>3, RequestsAssumption DEF new
    <3>. QED  BY <2>2, <3>1 DEF Inv, HelloFirst
  <2>. QED  BY <2>1, <2>2
<1>8. NotYetHandled'
  <2> SUFFICES ASSUME NEW k \in Links, NEW i \in DOMAIN links'[k].in, links'[k].in[i] \in Requests
               PROVE  /\ runs[links'[k].in[i]] = 0
                      /\ request'[links'[k].in[i]] \notin {"new", "queued", "abandoned"}
    BY DEF NotYetHandled
  <2>1. CASE i \in DOMAIN links[k].in /\ links'[k].in[i] = links[k].in[i]
    BY <2>1 DEF Inv, NotYetHandled
  <2>2. CASE k = l /\ i - Len(old) \in DOMAIN q /\ links'[k].in[i] = q[i - Len(old)]
    BY <2>2 DEF Inv, UnsentUnhandled
  <2>. QED  BY <1>3, <2>1, <2>2 DEF new
<1>. QED  BY <1>6, <1>7, <1>8 DEF Inv, UnsentUnhandled, HandledOnce

LEMMA IssueKeeps == ASSUME Inv, NEW r \in Requests, Issue(r) PROVE Inv'
<1>1. /\ request[r] = "new"
      /\ UNCHANGED <<status, link, promise, wanted, backoff, registered, sessions, grace, running,
                     runs, faults>>
  BY DEF Issue, server
<1>f. faults' \in 0 .. MaxFaults /\ ServerOK'
  BY <1>1, TypesAre DEF Inv, TypeOK, ServerOK
<1>2. CASE status = "connected"
  <2> DEFINE x == [links[link] EXCEPT !.in = Append(@, r)]
  <2>1. /\ request' = [request EXCEPT ![r] = "pending"] /\ sentOn' = [sentOn EXCEPT ![r] = link]
        /\ links' = [links EXCEPT ![link] = x]
    BY <1>2 DEF Issue
  <2>2. link \in Links
    <3>1. ClientOK /\ Links = 1 .. Len(links) /\ Len(links) \in Nat
      BY TypesAre, LinkTypes DEF Inv
    <3>. QED  BY <1>2, <3>1 DEF ClientOK
  <2>3. links[link] \in LinkOf(sessions) /\ links[link].in \in Seq({Hello} \cup Requests)
    BY <2>2, LinkTypes
  <2>4. /\ x \in LinkOf(sessions) /\ x.client = links[link].client
        /\ x.in = Append(links[link].in, r)
        /\ x.server = links[link].server /\ x.session = links[link].session
    BY <2>3, AppendProperties DEF LinkOf
  <2>5. /\ links' \in Seq(LinkOf(sessions)) /\ Len(links') = Len(links) /\ Links' = Links
        /\ \A k \in Links : links'[k] = IF k = link THEN x ELSE links[k]
    <3>1. sessions \in Nat /\ sessions <= sessions
      BY DEF Inv
    <3>. HIDE DEF x, LinkOf
    <3>. QED  BY <2>1, <2>2, <2>4, <3>1, OneLinkChanges
  <2>6. /\ <<r>> \in Seq(Requests) /\ IsInjective(<<r>>) /\ DOMAIN <<r>> = {1} /\ <<r>>[1] = r
        /\ Append(links[link].in, r) = links[link].in \o <<r>>
    <3>1. r \in {Hello} \cup Requests
      OBVIOUS
    <3>. QED  BY <2>3, <3>1, AppendIsConcat DEF IsInjective
  <2>. HIDE DEF x, LinkOf
  <2>7. /\ request' \in [Requests -> {"new", "queued", "abandoned", "pending", "done", "failed"}]
        /\ request'[r] = "pending"
        /\ \A p \in Requests : request'[p] \in {"new", "queued", "abandoned"} => request'[p] = request[p]
    BY <2>1 DEF Inv, TypeOK
  <2>8. HelloFirst' /\ SentOnce' /\ NotYetHandled' /\ UnsentUnhandled' /\ HandledOnce'
    <3> DEFINE q == <<r>>
    <3>1. /\ q \in Seq(Requests) /\ IsInjective(q) /\ links'[link].in = links[link].in \o q
          /\ \A i \in DOMAIN q : q[i] = r
      BY <2>2, <2>4, <2>5, <2>6
    <3>2. /\ \A k \in Links : k # link => links'[k].in = links[k].in
          /\ \A k \in Links : links'[k].server = links[k].server
      BY <2>2, <2>4, <2>5
    <3>. HIDE DEF q
    <3>. QED  BY <1>1, <2>2, <2>5, <2>7, <3>1, <3>2, QueueGrows
  <2>9. ClientOK'
    <3>1. ClientOK
      BY TypesAre DEF Inv
    <3>. QED  BY <1>1, <2>1, <2>5, <2>7, <3>1 DEF ClientOK, InQueue
  <2>10. OneSession'
    BY <1>1, <2>4, <2>5, SessionStays DEF SocketsStay
  <2>11. Unopened'
    BY <2>4, <2>5 DEF Inv, Unopened
  <2>. QED  BY <1>1, <1>f, <2>5, <2>8, <2>9, <2>10, <2>11, TypesAreNext DEF Inv
<1>3. CASE status # "connected"
  <2>1. /\ request' = [request EXCEPT ![r] = IF status = "connecting" THEN "queued" ELSE "failed"]
        /\ UNCHANGED <<sentOn, links>>
    BY <1>3 DEF Issue
  <2>2. /\ request' \in [Requests -> {"new", "queued", "abandoned", "pending", "done", "failed"}]
        /\ \A p \in Requests : request'[p] \in {"new", "queued", "abandoned"} =>
              request[p] \in {"new", "queued", "abandoned"}
        /\ \A p \in Requests : request'[p] \in InQueue => request[p] \in InQueue \/ status = "connecting"
    BY <1>1, <2>1 DEF Inv, TypeOK, InQueue
  <2>3. ClientOK'
    <3>1. ClientOK
      BY TypesAre DEF Inv
    <3>. QED  BY <1>1, <2>1, <2>2, <3>1 DEF ClientOK
  <2>4. links' \in Seq(LinkOf(sessions)) /\ Links' = Links
    BY <2>1, LinkTypes DEF Links
  <2>. QED  BY <1>1, <1>f, <2>1, <2>2, <2>3, <2>4, ClientMovesKeeps DEF ClientMoves, server
<1>. QED  BY <1>2, <1>3

LEMMA InfoArrivesKeeps == ASSUME Inv, InfoArrives PROVE Inv'
<1>1. /\ link # 0 /\ Received
      /\ UNCHANGED <<link, wanted, backoff, registered, sessions, grace, running, runs, faults>>
  BY DEF InfoArrives, server
<1>2. link \in Links /\ links[link].out # <<>> /\ sessions \in Nat /\ sessions <= sessions
  <2>1. ClientOK /\ Links = 1 .. Len(links) /\ Len(links) \in Nat
    BY TypesAre, LinkTypes DEF Inv
  <2>. QED  BY <1>1, <2>1 DEF ClientOK, Received, Inv
<1>3. /\ links[link] \in LinkOf(sessions) /\ links[link].in \in Seq({Hello} \cup Requests)
      /\ Tail(links[link].out) \in Seq({Info} \cup Requests)
  BY <1>2, LinkTypes, HeadTailProperties
<1>f. faults' \in 0 .. MaxFaults /\ ServerOK'
  BY <1>1, TypesAre DEF Inv, TypeOK, ServerOK
<1>4. CASE status = "connecting"
  <2> DEFINE q == SetToSeq({r \in Requests : request[r] \in InQueue})
             x == [links[link] EXCEPT !.out = Tail(@), !.in = @ \o q]
  <2>1. /\ status' = "connected" /\ promise' = FALSE /\ links' = [links EXCEPT ![link] = x]
        /\ request' = [r \in Requests |-> CASE request[r] = "queued" -> "pending"
                                            [] request[r] = "abandoned" -> "failed"
                                            [] OTHER -> request[r]]
        /\ sentOn' = [r \in Requests |-> IF request[r] \in InQueue THEN link ELSE sentOn[r]]
    BY <1>4 DEF InfoArrives, Flush
  <2>2. /\ q \in Seq({r \in Requests : request[r] \in InQueue}) /\ q \in Seq(Requests)
        /\ q \in Seq({Hello} \cup Requests) /\ IsInjective(q)
        /\ \A i \in DOMAIN q : q[i] \in Requests /\ request[q[i]] \in InQueue
    <3> DEFINE S == {r \in Requests : request[r] \in InQueue}
    <3>1. S \in SUBSET Requests /\ S \subseteq {Hello} \cup Requests
      OBVIOUS
    <3>2. q \in Seq(S) /\ IsInjective(q)
      BY <3>1, SetToSeqType
    <3>3. q \in Seq(Requests) /\ q \in Seq({Hello} \cup Requests)
      <4>. HIDE DEF S, q
      <4>. QED  BY <3>1, <3>2, SeqMonotonic
    <3>4. \A i \in DOMAIN q : q[i] \in S
      <4>. HIDE DEF S, q
      <4>. QED  BY <3>2, LenProperties, ElementOfSeq
    <3>. QED  BY <3>2, <3>3, <3>4
  <2>. HIDE DEF q
  <2>3. links[link].in \o q \in Seq({Hello} \cup Requests)
    BY <1>3, <2>2, ConcatProperties
  <2>4. /\ x \in LinkOf(sessions) /\ x.client = links[link].client
        /\ x.in = links[link].in \o q
        /\ x.server = links[link].server /\ x.session = links[link].session
    BY <1>3, <2>3 DEF LinkOf
  <2>. HIDE DEF x, LinkOf
  <2>5. /\ links' \in Seq(LinkOf(sessions)) /\ Len(links') = Len(links) /\ Links' = Links
        /\ \A k \in Links : links'[k] = IF k = link THEN x ELSE links[k]
    BY <1>2, <2>1, <2>4, OneLinkChanges
  <2>6. /\ request' \in [Requests -> {"new", "queued", "abandoned", "pending", "done", "failed"}]
        /\ \A p \in Requests : request'[p] \notin InQueue /\ (request'[p] = "new" => request[p] = "new")
        /\ \A p \in Requests : request[p] \in InQueue => request'[p] \in {"pending", "failed"}
    BY <2>1 DEF Inv, TypeOK, InQueue
  <2>7. HelloFirst' /\ SentOnce' /\ NotYetHandled' /\ UnsentUnhandled' /\ HandledOnce'
    <3>1. /\ links'[link].in = links[link].in \o q
          /\ \A k \in Links : k # link => links'[k].in = links[k].in
          /\ \A k \in Links : links'[k].server = links[k].server
      BY <1>2, <2>4, <2>5
    <3>2. \A i \in DOMAIN q : request[q[i]] \in {"new", "queued", "abandoned"}
                            /\ request'[q[i]] \notin {"new", "queued", "abandoned"}
      BY <2>2, <2>6 DEF InQueue
    <3>3. \A p \in Requests : request'[p] \in {"new", "queued", "abandoned"} =>
                              request[p] \in {"new", "queued", "abandoned"}
      BY <2>6 DEF InQueue
    <3>. QED  BY <1>1, <1>2, <2>2, <2>5, <3>1, <3>2, <3>3, QueueGrows
  <2>8. ClientOK'
    <3>1. ClientOK
      BY TypesAre DEF Inv
    <3>2. sentOn' \in [Requests -> 0 .. Len(links')] /\ link' \in 0 .. Len(links')
      BY <1>1, <2>1, <2>5, <3>1 DEF ClientOK
    <3>. QED  BY <1>1, <2>1, <2>6, <3>1, <3>2 DEF ClientOK
  <2>9. OneSession'
    BY <1>1, <2>4, <2>5, SessionStays DEF SocketsStay
  <2>10. Unopened'
    BY <2>4, <2>5 DEF Inv, Unopened
  <2>. QED  BY <1>1, <1>f, <2>5, <2>7, <2>8, <2>9, <2>10, TypesAreNext DEF Inv
<1>5. CASE status # "connecting"
  <2> DEFINE x == [links[link] EXCEPT !.out = Tail(@)]
  <2>1. /\ links' = [links EXCEPT ![link] = x] /\ UNCHANGED <<status, promise, request, sentOn>>
    BY <1>5 DEF InfoArrives
  <2>2. /\ x \in LinkOf(sessions) /\ x.client = links[link].client /\ x.in = links[link].in
        /\ x.server = links[link].server /\ x.session = links[link].session
    BY <1>3 DEF LinkOf
  <2>. HIDE DEF x, LinkOf
  <2>3. /\ links' \in Seq(LinkOf(sessions)) /\ Len(links') = Len(links) /\ Links' = Links
        /\ \A k \in Links : links'[k] = IF k = link THEN x ELSE links[k]
    BY <1>2, <2>1, <2>2, OneLinkChanges
  <2>4. ClientOK'
    <3>1. ClientOK
      BY TypesAre DEF Inv
    <3>. QED  BY <1>1, <2>1, <2>3, <3>1 DEF ClientOK
  <2>. QED  BY <1>1, <1>f, <2>1, <2>2, <2>3, <2>4, ClientMovesKeeps DEF ClientMoves, server
<1>. QED  BY <1>4, <1>5

-----------------------------------------------------------------------------
(* The daemon's steps, and those of the links.                              *)

ServerMoves ==
    /\ Shrunk /\ UNCHANGED <<status, link, promise, wanted, backoff, request, sentOn, runs>>
    /\ links' \in Seq(LinkOf(sessions')) /\ Len(links') = Len(links)
    /\ ServerOK' /\ faults' \in 0 .. MaxFaults /\ OneSession' /\ Unopened'

LEMMA ServerMovesKeeps == ASSUME Inv, ServerMoves PROVE Inv'
<1>1. ClientOK'
  BY TypesAre DEF Inv, ServerMoves, ClientOK
<1>2. HelloFirst' /\ SentOnce' /\ NotYetHandled' /\ UnsentUnhandled' /\ HandledOnce'
  BY ShrunkQueuesKeep DEF ServerMoves
<1>. QED  BY <1>1, <1>2, TypesAreNext DEF ServerMoves, Inv

LEMMA LinkOpensKeeps == ASSUME Inv, NEW l \in Links, LinkOpens(l) PROVE Inv'
<1> DEFINE x == [links[l] EXCEPT !.client = "open", !.server = "pending", !.in = <<Hello>>]
<1>1. /\ links[l].client = "opening" /\ links' = [links EXCEPT ![l] = x]
      /\ UNCHANGED <<status, link, promise, wanted, backoff, request, sentOn,
                     registered, sessions, grace, running, runs, faults>>
  BY DEF LinkOpens, server, client
<1>2. links[l] \in LinkOf(sessions) /\ sessions \in Nat /\ sessions <= sessions
      /\ links[l].server = "none"
  BY <1>1, LinkTypes DEF Inv, Unopened
<1>3. x \in LinkOf(sessions) /\ x.client = "open" /\ x.server = "pending" /\ x.in = <<Hello>>
  <2>1. <<Hello>> \in Seq({Hello} \cup Requests)
    OBVIOUS
  <2>. QED  BY <1>2, <2>1 DEF LinkOf
<1>. HIDE DEF x, LinkOf
<1>4. /\ links' \in Seq(LinkOf(sessions)) /\ Len(links') = Len(links) /\ Links' = Links
      /\ \A k \in Links : links'[k] = IF k = l THEN x ELSE links[k]
  BY <1>1, <1>2, <1>3, OneLinkChanges
<1>5. Shrunk
  BY <1>3, <1>4 DEF Shrunk, Links
<1>6. OneSession'
  BY <1>1, <1>2, <1>3, <1>4, SessionStays DEF SocketsStay
<1>7. Unopened'
  BY <1>3, <1>4 DEF Inv, Unopened
<1>8. ServerOK' /\ faults' \in 0 .. MaxFaults
  BY <1>1, TypesAre DEF Inv, ServerOK
<1>. QED  BY <1>1, <1>4, <1>5, <1>6, <1>7, <1>8, ServerMovesKeeps DEF ServerMoves

LEMMA HelloFailsKeeps == ASSUME Inv, HelloFails PROVE Inv'
<1> DEFINE x == [links[link] EXCEPT !.client = "open", !.server = "pending", !.in = <<>>]
<1>1. /\ link # 0 /\ links[link].client = "opening" /\ links' = [links EXCEPT ![link] = x]
      /\ ScheduleReconnect /\ faults < MaxFaults /\ faults' = faults + 1
      /\ UNCHANGED <<link, wanted, sentOn, registered, sessions, grace, running, runs>>
  BY DEF HelloFails, server
<1>2. link \in Links /\ status # "disposed"
  BY <1>1, LinkTypes DEF Inv, TypeOK
<1>3. links[link] \in LinkOf(sessions) /\ sessions \in Nat /\ sessions <= sessions
      /\ links[link].server = "none"
  BY <1>1, <1>2, LinkTypes DEF Inv, Unopened
<1>4. x \in LinkOf(sessions) /\ x.client = "open" /\ x.server = "pending" /\ x.in = <<>>
  BY <1>3, EmptySeq DEF LinkOf
<1>. HIDE DEF x, LinkOf
<1>5. /\ links' \in Seq(LinkOf(sessions)) /\ Len(links') = Len(links) /\ Links' = Links
      /\ \A k \in Links : links'[k] = IF k = link THEN x ELSE links[k]
  BY <1>1, <1>2, <1>3, <1>4, OneLinkChanges
<1>6. ClientOK' /\ \A r \in Requests : request'[r] \in {"new", "queued", "abandoned"} =>
                                       request[r] \in {"new", "queued", "abandoned"}
  BY <1>1, <1>2, <1>5, ScheduleReconnectIsOK
<1>7. Shrunk
  BY <1>4, <1>5 DEF Shrunk, Links
<1>8. HelloFirst' /\ SentOnce' /\ NotYetHandled' /\ UnsentUnhandled' /\ HandledOnce'
  BY <1>1, <1>6, <1>7, ShrunkQueuesKeep
<1>9. OneSession'
  BY <1>1, <1>2, <1>3, <1>4, <1>5, SessionStays DEF SocketsStay
<1>10. Unopened'
  BY <1>4, <1>5 DEF Inv, Unopened
<1>11. ServerOK' /\ faults' \in 0 .. MaxFaults /\ links' \in Seq(LinkOf(sessions'))
  <2>1. ServerOK /\ faults \in 0 .. MaxFaults
    BY TypesAre DEF Inv
  <2>2. faults' \in 0 .. MaxFaults
    BY <1>1, <2>1, BoundsAssumption
  <2>. QED  BY <1>1, <1>5, <2>1, <2>2 DEF ServerOK
<1>. QED  BY <1>3, <1>6, <1>8, <1>9, <1>10, <1>11, TypesAreNext DEF Inv, ServerOK

LEMMA HelloArrivesKeeps == ASSUME Inv, NEW l \in Links, HelloArrives(l) PROVE Inv'
<1> DEFINE s == IF registered # 0 THEN registered ELSE sessions + 1
           x == [links[l] EXCEPT !.in = Tail(@), !.server = "active", !.session = s,
                   !.out = IF links[l].client = "open" THEN Append(@, Info) ELSE @]
<1>1. /\ links[l].server = "pending" /\ links[l].in # <<>> /\ links' = [links EXCEPT ![l] = x]
      /\ registered' = s /\ sessions' = (IF registered # 0 THEN sessions ELSE s)
      /\ grace' = grace \ {s}
      /\ UNCHANGED <<status, link, promise, wanted, backoff, request, sentOn, running, runs, faults>>
  BY DEF HelloArrives, Resume, client
<1>2. ServerOK /\ OneSession /\ links[l] \in LinkOf(sessions)
      /\ links[l].in \in Seq({Hello} \cup Requests) /\ links[l].out \in Seq({Info} \cup Requests)
      /\ links[l].client # "opening"
  BY <1>1, TypesAre, LinkTypes DEF Inv, Unopened
<1>3. /\ s \in 1 .. sessions' /\ sessions' \in Nat /\ sessions <= sessions' /\ sessions \in Nat
      /\ s = registered \/ registered = 0
  BY <1>1, <1>2 DEF ServerOK
<1>. HIDE DEF s
<1>4. Tail(links[l].in) \in Seq({Hello} \cup Requests)
      /\ Append(links[l].out, Info) \in Seq({Info} \cup Requests)
  BY <1>1, <1>2, HeadTailProperties, AppendProperties
<1>5. /\ x \in LinkOf(sessions') /\ x.client = links[l].client /\ x.in = Tail(links[l].in)
      /\ x.server = "active" /\ x.session = s
  <2> DEFINE o == IF links[l].client = "open" THEN Append(links[l].out, Info) ELSE links[l].out
  <2>1. o \in Seq({Info} \cup Requests) /\ s \in 0 .. sessions'
    BY <1>2, <1>3, <1>4
  <2>2. x = [links[l] EXCEPT !.in = Tail(links[l].in), !.server = "active", !.session = s, !.out = o]
    BY <1>2 DEF LinkOf
  <2>. HIDE DEF o, x
  <2>. QED  BY <1>2, <1>4, <2>1, <2>2 DEF LinkOf
<1>. HIDE DEF x, LinkOf
<1>6. /\ links' \in Seq(LinkOf(sessions')) /\ Len(links') = Len(links) /\ Links' = Links
      /\ \A k \in Links : links'[k] = IF k = l THEN x ELSE links[k]
  BY <1>1, <1>3, <1>5, OneLinkChanges
<1>7. Shrunk
  BY <1>1, <1>5, <1>6 DEF Shrunk, Links
<1>8. OneSession'
  <2>1. \A k \in Links : links'[k].server = "active" => links'[k].session = s
    BY <1>2, <1>3, <1>5, <1>6 DEF OneSession
  <2>2. l \in Sockets(registered)' /\ registered' # 0
    BY <1>1, <1>3, <1>5, <1>6 DEF Sockets
  <2>3. grace' = {}
    BY <1>1, <1>2, <1>3 DEF OneSession
  <2>. QED  BY <1>1, <1>6, <2>1, <2>2, <2>3 DEF OneSession
<1>9. Unopened'
  BY <1>2, <1>5, <1>6 DEF Inv, Unopened
<1>10. ServerOK' /\ faults' \in 0 .. MaxFaults
  <2>1. faults' \in 0 .. MaxFaults
    BY <1>1 DEF Inv, TypeOK
  <2>2. 1 .. sessions \subseteq 1 .. sessions'
    BY <1>3
  <2>. QED  BY <1>1, <1>2, <1>3, <2>1, <2>2 DEF ServerOK
<1>. QED  BY <1>1, <1>6, <1>7, <1>8, <1>9, <1>10, ServerMovesKeeps DEF ServerMoves

LEMMA RequestArrivesKeeps == ASSUME Inv, NEW l \in Links, RequestArrives(l) PROVE Inv'
<1> DEFINE q == links[l].in
           r == Head(q)
           x == [links[l] EXCEPT !.in = Tail(@)]
<1>1. /\ links[l].server = "active" /\ q # <<>> /\ links' = [links EXCEPT ![l] = x]
      /\ running' = running \cup {<<r, links[l].session>>} /\ runs' = [runs EXCEPT ![r] = @ + 1]
      /\ UNCHANGED <<status, link, promise, wanted, backoff, request, sentOn,
                     registered, sessions, grace, faults>>
  BY DEF RequestArrives, client
<1>2. links[l] \in LinkOf(sessions) /\ sessions \in Nat /\ sessions <= sessions
      /\ q \in Seq({Hello} \cup Requests) /\ links[l].session \in 0 .. sessions
  BY LinkTypes DEF Inv
<1>q. /\ Len(q) \in Nat /\ DOMAIN q = 1 .. Len(q) /\ 1 \in DOMAIN q /\ r = q[1]
      /\ q[1] \in {Hello} \cup Requests
      /\ Tail(q) \in Seq({Hello} \cup Requests)
      /\ \A i \in DOMAIN Tail(q) : i \in Nat /\ i + 1 \in DOMAIN q /\ q[i + 1] = Tail(q)[i] /\ i + 1 # 1
  <2>1. /\ Len(q) \in Nat /\ DOMAIN q = 1 .. Len(q) /\ Len(q) > 0
        /\ Head(q) \in {Hello} \cup Requests /\ Head(q) = q[1]
        /\ Tail(q) \in Seq({Hello} \cup Requests) /\ Len(Tail(q)) = Len(q) - 1
        /\ DOMAIN Tail(q) = 1 .. Len(Tail(q))
        /\ \A i \in 1 .. Len(Tail(q)) : Tail(q)[i] = q[i + 1]
    <3>. HIDE DEF q
    <3>. QED  BY <1>1, <1>2, HeadTailProperties, LenProperties, EmptySeq
  <2>. HIDE DEF q
  <2>. QED  BY <2>1
<1>3. /\ x \in LinkOf(sessions) /\ x.client = links[l].client /\ x.in = Tail(q)
      /\ x.server = links[l].server /\ x.session = links[l].session
  BY <1>2, <1>q DEF LinkOf
<1>. HIDE DEF x, LinkOf
<1>4. /\ links' \in Seq(LinkOf(sessions)) /\ Len(links') = Len(links) /\ Links' = Links
      /\ \A k \in Links : links'[k] = IF k = l THEN x ELSE links[k]
  BY <1>1, <1>2, <1>3, OneLinkChanges
<1>5. /\ r \in Requests /\ runs[r] = 0 /\ request[r] \notin {"new", "queued", "abandoned"}
  <2>1. r # Hello
    BY <1>1, <1>q DEF Inv, HelloFirst
  <2>2. r \in Requests
    BY <1>q, <2>1
  <2>. QED  BY <1>q, <2>2 DEF Inv, NotYetHandled
\* It is nowhere else.
<1>6. \A k \in Links : \A i \in DOMAIN links'[k].in : links'[k].in[i] # r
  <2> SUFFICES ASSUME NEW k \in Links, NEW i \in DOMAIN links'[k].in, links'[k].in[i] = r PROVE FALSE
    OBVIOUS
  <2>1. \A m \in Links : \A j \in DOMAIN links[m].in : links[m].in[j] = r => m = l /\ j = 1
    BY <1>q, <1>5 DEF Inv, SentOnce
  <2>2. CASE k # l
    BY <1>4, <2>1, <2>2
  <2>3. CASE k = l
    <3>1. i \in DOMAIN Tail(q) /\ Tail(q)[i] = r
      BY <1>3, <1>4, <2>3
    <3>. QED  BY <1>q, <2>1, <3>1
  <2>. QED  BY <2>2, <2>3
<1>7. Shrunk
  BY <1>1, <1>3, <1>4 DEF Shrunk, Links
<1>8. OneSession'
  BY <1>1, <1>3, <1>4, SessionStays DEF SocketsStay
<1>9. Unopened'
  BY <1>3, <1>4 DEF Inv, Unopened
<1>. HIDE DEF r
<1>t. ClientOK /\ ServerOK /\ faults \in 0 .. MaxFaults
  BY TypesAre DEF Inv
<1>10. /\ runs' \in [Requests -> Nat] /\ runs'[r] = 1
       /\ \A p \in Requests : p # r => runs'[p] = runs[p]
  BY <1>1, <1>5, <1>t DEF ServerOK
<1>11. ServerOK'
  <2>1. links[l].session \in 1 .. sessions
    BY <1>1, <1>2, <1>t DEF Inv, OneSession, ServerOK
  <2>2. running' \subseteq Requests \X (1 .. sessions')
    BY <1>1, <1>5, <1>t, <2>1 DEF ServerOK
  <2>. QED  BY <1>1, <1>10, <1>t, <2>2 DEF ServerOK
<1>12. ClientOK'
  BY <1>1, <1>4, <1>t DEF ClientOK
<1>13. HelloFirst' /\ SentOnce'
  BY <1>7, ShrunkQueues
<1>14. NotYetHandled'
  <2> SUFFICES ASSUME NEW k \in Links, NEW i \in DOMAIN links'[k].in, links'[k].in[i] \in Requests
               PROVE  /\ runs'[links'[k].in[i]] = 0
                      /\ request[links'[k].in[i]] \notin {"new", "queued", "abandoned"}
    BY <1>1, <1>4 DEF NotYetHandled
  <2>1. \E j \in DOMAIN links[k].in : links[k].in[j] = links'[k].in[i]
    BY <1>4, <1>7, ShrunkQueues
  <2>2. links'[k].in[i] # r
    BY <1>6
  <2>. QED  BY <1>10, <2>1, <2>2 DEF Inv, NotYetHandled
<1>15. UnsentUnhandled' /\ HandledOnce'
  BY <1>1, <1>5, <1>10 DEF Inv, UnsentUnhandled, HandledOnce
<1>. QED  BY <1>1, <1>4, <1>8, <1>9, <1>11, <1>12, <1>13, <1>14, <1>15, <1>t, TypesAreNext DEF Inv

LEMMA AnswersKeeps ==
    ASSUME Inv, NEW r \in Requests, NEW s \in 1 .. sessions, Answers(r, s) PROVE Inv'
<1>1. /\ running' = running \ {<<r, s>>} /\ links' = Emitted(links, s, r)
      /\ UNCHANGED <<status, link, promise, wanted, backoff, request, sentOn,
                     registered, sessions, grace, runs, faults>>
  BY DEF Answers, client
<1>2. /\ links' = [l \in Links |-> links'[l]]
      /\ \A l \in Links : \/ links'[l] = links[l]
                         \/ links'[l] = [links[l] EXCEPT !.out = Append(@, r)]
  BY <1>1 DEF Emitted, Links
<1>3. \A l \in Links : /\ links'[l] \in LinkOf(sessions) /\ links'[l].in = links[l].in
                     /\ links'[l].server = links[l].server /\ links'[l].session = links[l].session
                     /\ links'[l].client = links[l].client
  <2> SUFFICES ASSUME NEW l \in Links
               PROVE  /\ links'[l] \in LinkOf(sessions) /\ links'[l].in = links[l].in
                      /\ links'[l].server = links[l].server /\ links'[l].session = links[l].session
                      /\ links'[l].client = links[l].client
    OBVIOUS
  <2>1. links[l] \in LinkOf(sessions) /\ Append(links[l].out, r) \in Seq({Info} \cup Requests)
    BY LinkTypes, AppendProperties
  <2>. QED  BY <1>2, <2>1 DEF LinkOf
<1>. HIDE DEF LinkOf
<1>4. links' \in Seq(LinkOf(sessions)) /\ Len(links') = Len(links) /\ Links' = Links /\ sessions \in Nat
  BY <1>2, <1>3, LinksKeepType DEF Inv
<1>5. Shrunk
  BY <1>3, <1>4 DEF Shrunk, Links
<1>6. OneSession'
  BY <1>1, <1>3, <1>4, SessionStays DEF SocketsStay
<1>7. Unopened'
  BY <1>3, <1>4 DEF Inv, Unopened
<1>8. ServerOK' /\ faults' \in 0 .. MaxFaults
  BY <1>1, TypesAre DEF Inv, ServerOK
<1>. QED  BY <1>1, <1>4, <1>5, <1>6, <1>7, <1>8, ServerMovesKeeps DEF ServerMoves

\* A socket is closed at the daemon.
LEMMA ClosedAtDaemon ==
    ASSUME Inv, NEW l \in Links, links[l].server \in {"pending", "active"},
           links' = [links EXCEPT ![l].server = "closed", ![l].in = <<>>]
    PROVE  /\ links' \in Seq(LinkOf(sessions)) /\ Len(links') = Len(links) /\ Links' = Links
           /\ Shrunk /\ Unopened'
           /\ links'[l].server = "closed"
           /\ \A k \in Links : k # l => links'[k] = links[k]
<1> DEFINE x == [links[l] EXCEPT !.server = "closed", !.in = <<>>]
<1>1. links' = [links EXCEPT ![l] = x]
  OBVIOUS
<1>2. links[l] \in LinkOf(sessions) /\ sessions \in Nat /\ sessions <= sessions
  BY LinkTypes DEF Inv
<1>3. x \in LinkOf(sessions) /\ x.client = links[l].client /\ x.server = "closed" /\ x.in = <<>>
  <2>1. <<>> \in Seq({Hello} \cup Requests)
    BY EmptySeq
  <2>. QED  BY <1>2, <2>1 DEF LinkOf
<1>. HIDE DEF x, LinkOf
<1>4. /\ links' \in Seq(LinkOf(sessions)) /\ Len(links') = Len(links) /\ Links' = Links
      /\ \A k \in Links : links'[k] = IF k = l THEN x ELSE links[k]
  BY <1>1, <1>2, <1>3, OneLinkChanges
<1>5. Shrunk
  BY <1>3, <1>4 DEF Shrunk, Links
<1>6. Unopened'
  BY <1>3, <1>4 DEF Inv, Unopened
<1>. QED  BY <1>3, <1>4, <1>5, <1>6

LEMMA SocketClosesKeeps == ASSUME Inv, NEW l \in Links, SocketCloses(l) PROVE Inv'
<1> DEFINE s == links[l].session
<1>1. /\ links[l].server \in {"pending", "active"}
      /\ links' = [links EXCEPT ![l].server = "closed", ![l].in = <<>>]
      /\ grace' = IF links[l].server = "active" /\ Sockets(s) = {l} THEN grace \cup {s} ELSE grace
      /\ UNCHANGED <<status, link, promise, wanted, backoff, request, sentOn,
                     registered, sessions, running, runs, faults>>
  BY DEF SocketCloses, client
<1>2. /\ links' \in Seq(LinkOf(sessions)) /\ Len(links') = Len(links) /\ Links' = Links
      /\ Shrunk /\ Unopened' /\ links'[l].server = "closed"
      /\ \A k \in Links : k # l => links'[k] = links[k]
  BY <1>1, ClosedAtDaemon
<1>3. OneSession /\ ServerOK /\ faults \in 0 .. MaxFaults
  BY TypesAre DEF Inv
<1>4. \A p : Sockets(p)' = Sockets(p) \ {l}
  BY <1>2 DEF Sockets
<1>5. OneSession' /\ ServerOK'
  <2>1. CASE links[l].server = "active"
    <3>1. s = registered /\ registered # 0 /\ l \in Sockets(registered) /\ grace = {}
      BY <1>3, <2>1 DEF OneSession, Sockets
    <3>2. grace' = IF registered # 0 /\ Sockets(registered)' = {} THEN {registered} ELSE {}
      BY <1>1, <1>4, <2>1, <3>1
    <3>3. OneSession'
      BY <1>1, <1>2, <1>3, <3>2 DEF OneSession
    <3>. QED  BY <1>1, <1>3, <3>1, <3>2, <3>3 DEF ServerOK
  <2>2. CASE links[l].server = "pending"
    <3>1. \A p : Sockets(p)' = Sockets(p)
      BY <1>4, <2>2 DEF Sockets
    <3>2. OneSession'
      BY <1>1, <1>2, <1>3, <2>2, <3>1 DEF OneSession
    <3>. QED  BY <1>1, <1>3, <2>2, <3>2 DEF ServerOK
  <2>. QED  BY <1>1, <2>1, <2>2
<1>. QED  BY <1>1, <1>2, <1>3, <1>5, ServerMovesKeeps DEF ServerMoves

LEMMA HelloTimesOutKeeps == ASSUME Inv, NEW l \in Links, HelloTimesOut(l) PROVE Inv'
<1>1. /\ links[l].server = "pending" /\ faults < MaxFaults /\ faults' = faults + 1
      /\ links' = [links EXCEPT ![l].server = "closed", ![l].in = <<>>]
      /\ UNCHANGED <<status, link, promise, wanted, backoff, request, sentOn,
                     registered, sessions, grace, running, runs>>
  BY DEF HelloTimesOut, client, server
<1>2. /\ links' \in Seq(LinkOf(sessions)) /\ Len(links') = Len(links) /\ Links' = Links
      /\ Shrunk /\ Unopened' /\ links'[l].server = "closed"
      /\ \A k \in Links : k # l => links'[k] = links[k]
  BY <1>1, ClosedAtDaemon
<1>3. OneSession'
  BY <1>1, <1>2, SessionStays DEF SocketsStay
<1>4. ServerOK' /\ faults' \in 0 .. MaxFaults
  BY <1>1, TypesAre, BoundsAssumption DEF Inv, ServerOK
<1>. QED  BY <1>1, <1>2, <1>3, <1>4, ServerMovesKeeps DEF ServerMoves

LEMMA LinkBreaksKeeps == ASSUME Inv, NEW l \in Links, LinkBreaks(l) PROVE Inv'
<1> DEFINE x == [links[l] EXCEPT !.broken = TRUE, !.in = <<>>, !.out = <<>>]
<1>1. /\ faults < MaxFaults /\ faults' = faults + 1 /\ links' = [links EXCEPT ![l] = x]
      /\ UNCHANGED <<status, link, promise, wanted, backoff, request, sentOn,
                     registered, sessions, grace, running, runs>>
  BY DEF LinkBreaks, client, server
<1>2. links[l] \in LinkOf(sessions) /\ sessions \in Nat /\ sessions <= sessions
  BY LinkTypes DEF Inv
<1>3. x \in LinkOf(sessions) /\ x.client = links[l].client /\ x.server = links[l].server
      /\ x.in = <<>> /\ x.session = links[l].session
  <2>1. <<>> \in Seq({Hello} \cup Requests) /\ <<>> \in Seq({Info} \cup Requests)
    BY EmptySeq
  <2>. QED  BY <1>2, <2>1 DEF LinkOf
<1>. HIDE DEF x, LinkOf
<1>4. /\ links' \in Seq(LinkOf(sessions)) /\ Len(links') = Len(links) /\ Links' = Links
      /\ \A k \in Links : links'[k] = IF k = l THEN x ELSE links[k]
  BY <1>1, <1>2, <1>3, OneLinkChanges
<1>5. Shrunk
  BY <1>3, <1>4 DEF Shrunk, Links
<1>6. OneSession'
  BY <1>1, <1>3, <1>4, SessionStays DEF SocketsStay
<1>7. Unopened'
  BY <1>3, <1>4 DEF Inv, Unopened
<1>8. ServerOK' /\ faults' \in 0 .. MaxFaults
  BY <1>1, TypesAre, BoundsAssumption DEF Inv, ServerOK
<1>. QED  BY <1>1, <1>4, <1>5, <1>6, <1>7, <1>8, ServerMovesKeeps DEF ServerMoves

LEMMA GraceElapsesKeeps == ASSUME Inv, NEW s \in 1 .. sessions, GraceElapses(s) PROVE Inv'
<1>1. /\ s \in grace /\ grace' = grace \ {s}
      /\ registered' = IF registered = s THEN 0 ELSE registered
      /\ links' = [l \in Links |-> IF l \in Sockets(s) THEN [links[l] EXCEPT !.session = 0] ELSE links[l]]
      /\ UNCHANGED <<status, link, promise, wanted, backoff, request, sentOn, sessions, running,
                     runs, faults>>
  BY DEF GraceElapses, client
<1>2. OneSession /\ ServerOK /\ faults \in 0 .. MaxFaults
  BY TypesAre DEF Inv
<1>3. s = registered /\ grace = {s} /\ Sockets(s) = {}
  BY <1>1, <1>2 DEF OneSession
<1>4. \A l \in Links : links[l].server # "active"
  BY <1>2, <1>3 DEF OneSession, Sockets
<1>5. /\ links' \in Seq(LinkOf(sessions)) /\ Len(links') = Len(links) /\ Links' = Links
      /\ \A l \in Links : links'[l] = links[l]
  <2>1. links' = [l \in Links |-> links'[l]] /\ \A l \in Links : links'[l] = links[l]
    BY <1>1, <1>3
  <2>2. \A l \in Links : links'[l] \in LinkOf(sessions)
    BY <2>1, LinkTypes
  <2>. HIDE DEF LinkOf
  <2>. QED  BY <2>1, <2>2, LinksKeepType DEF Inv
<1>6. Shrunk /\ Unopened'
  BY <1>5 DEF Shrunk, Links, Inv, Unopened
<1>7. registered' = 0 /\ grace' = {}
  BY <1>1, <1>3
<1>8. OneSession'
  BY <1>4, <1>5, <1>7 DEF OneSession
<1>9. ServerOK'
  BY <1>1, <1>2, <1>7 DEF ServerOK
<1>. QED  BY <1>1, <1>2, <1>5, <1>6, <1>8, <1>9, ServerMovesKeeps DEF ServerMoves

LEMMA ServerRestartsKeeps == ASSUME Inv, ServerRestarts PROVE Inv'
<1>1. /\ faults < MaxFaults /\ faults' = faults + 1
      /\ links' = [l \in Links |-> IF links[l].server \in {"pending", "active"}
                                 THEN [links[l] EXCEPT !.server = "closed", !.in = <<>>] ELSE links[l]]
      /\ registered' = 0 /\ grace' = {} /\ running' = {}
      /\ UNCHANGED <<status, link, promise, wanted, backoff, request, sentOn, sessions, runs>>
  BY DEF ServerRestarts, client
<1>2. ASSUME NEW l \in Links
      PROVE  /\ links'[l] \in LinkOf(sessions) /\ links'[l].server # "active"
             /\ (links'[l].in = links[l].in /\ links'[l].server = links[l].server)
                \/ links'[l].in = <<>>
             /\ links'[l].client = links[l].client
             /\ links[l].server = "none" => links'[l].server = "none"
  <2>1. <<>> \in Seq({Hello} \cup Requests)
    BY EmptySeq
  <2>2. links[l] \in LinkOf(sessions)
    BY LinkTypes
  <2>3. CASE links[l].server \in {"pending", "active"}
    <3>1. links'[l] = [links[l] EXCEPT !.server = "closed", !.in = <<>>]
      BY <1>1, <2>3
    <3>. QED  BY <2>1, <2>2, <2>3, <3>1 DEF LinkOf
  <2>4. CASE links[l].server \notin {"pending", "active"}
    <3>1. links'[l] = links[l]
      BY <1>1, <2>4
    <3>. QED  BY <2>2, <2>4, <3>1
  <2>. QED  BY <2>3, <2>4
<1>. HIDE DEF LinkOf
<1>3. links' \in Seq(LinkOf(sessions)) /\ Len(links') = Len(links) /\ Links' = Links
  <2>1. links' = [l \in Links |-> links'[l]] /\ sessions \in Nat
    BY <1>1 DEF Inv
  <2>2. \A l \in Links : links'[l] \in LinkOf(sessions)
    BY <1>2
  <2>. QED  BY <2>1, <2>2, LinksKeepType
<1>4. Shrunk /\ Unopened'
  BY <1>2, <1>3 DEF Shrunk, Links, Inv, Unopened
<1>5. OneSession'
  BY <1>1, <1>2, <1>3 DEF OneSession
<1>6. ServerOK' /\ faults' \in 0 .. MaxFaults
  <2>1. ServerOK /\ faults \in 0 .. MaxFaults
    BY TypesAre DEF Inv
  <2>2. faults' \in 0 .. MaxFaults
    <3>1. faults < MaxFaults /\ faults' = faults + 1
      BY <1>1
    <3>. QED  BY <2>1, <3>1, BoundsAssumption
  <2>3. 0 \in 0 .. sessions /\ {} \subseteq 1 .. sessions /\ {} \subseteq Requests \X (1 .. sessions)
    BY <2>1 DEF ServerOK
  <2>4. sessions' = sessions /\ runs' = runs /\ registered' = 0 /\ grace' = {} /\ running' = {}
    BY <1>1
  <2>. QED  BY <2>1, <2>2, <2>3, <2>4 DEF ServerOK
<1>. QED  BY <1>1, <1>3, <1>4, <1>5, <1>6, ServerMovesKeeps DEF ServerMoves

-----------------------------------------------------------------------------
(* The theorems.                                                            *)

LEMMA InvHolds == Spec => []Inv
<1>1. Init => Inv
  <2> SUFFICES ASSUME Init PROVE Inv
    OBVIOUS
  <2>1. links \in Seq(LinkOf(sessions)) /\ Len(links) = 0 /\ Links = {}
    BY EmptySeq DEF Init, Links
  <2>2. ClientOK
    <3>1. /\ status = "idle" /\ link = 0 /\ promise = FALSE /\ wanted = TRUE /\ backoff = FALSE
          /\ request = [r \in Requests |-> "new"] /\ sentOn = [r \in Requests |-> 0]
      BY DEF Init
    <3>2. 0 \in 0 .. Len(links)
      BY <2>1
    <3>. QED  BY <3>1, <3>2 DEF ClientOK, InQueue
  <2>s. ServerOK /\ faults \in 0 .. MaxFaults
    BY BoundsAssumption DEF Init, ServerOK
  <2>3. OneSession /\ HelloFirst /\ SentOnce /\ NotYetHandled /\ Unopened
    BY <2>1 DEF Init, OneSession, HelloFirst, SentOnce, NotYetHandled, Unopened
  <2>4. UnsentUnhandled /\ HandledOnce
    BY DEF Init, UnsentUnhandled, HandledOnce
  <2>. QED  BY <2>1, <2>2, <2>s, <2>3, <2>4, TypesAre DEF Inv
<1>2. Inv /\ [Next]_vars => Inv'
  <2> SUFFICES ASSUME Inv, [Next]_vars PROVE Inv'
    OBVIOUS
  <2>1. CASE UNCHANGED vars
    <3>1. /\ UNCHANGED <<status, link, promise, wanted, backoff, request, sentOn>>
          /\ UNCHANGED <<links, registered, sessions, grace, running, runs, faults>>
      BY <2>1 DEF vars, client, server
    <3>2. OneSession' /\ Unopened' /\ TypeOK'
      BY <3>1 DEF Inv, OneSession, Sockets, Links, Unopened, TypeOK
    <3>3. HelloFirst' /\ SentOnce' /\ NotYetHandled' /\ UnsentUnhandled' /\ HandledOnce'
      BY <3>1 DEF Inv, Links, HelloFirst, SentOnce, NotYetHandled, UnsentUnhandled, HandledOnce
    <3>. QED  BY <3>1, <3>2, <3>3 DEF Inv
  <2>2. CASE ClientStep
    BY <2>2, EnsureConnectedKeeps, ConnectFailsKeeps, HelloFailsKeeps, LinkClosesKeeps,
       ConnectTimesOutKeeps, BackoffElapsesKeeps,
       InfoArrivesKeeps, AnswerArrivesKeeps, CloseKeeps, IssueKeeps, RequestTimesOutKeeps,
       LinkOpensKeeps DEF ClientStep
  <2>3. CASE ServerStep
    BY <2>3, HelloArrivesKeeps, RequestArrivesKeeps, SocketClosesKeeps, GraceElapsesKeeps,
       AnswersKeeps DEF ServerStep
  <2>4. CASE Fault
    BY <2>4, ServerRestartsKeeps, HelloTimesOutKeeps, LinkBreaksKeeps DEF Fault
  <2>. QED  BY <2>1, <2>2, <2>3, <2>4 DEF Next
<1>. QED  BY <1>1, <1>2, PTL DEF Spec

\* The state of the client, of its links and of the sessions stays well
\* formed: a client that is connected or connecting has a transport, nothing
\* is queued unless it connects, and nothing is left of one that was closed.
THEOREM TypeCorrect == Spec => []TypeOK
<1>1. Inv => TypeOK
  BY DEF Inv
<1>. QED  BY <1>1, InvHolds, PTL

\* A client is in one session and no session is leaked, whatever links break
\* and however late their close events come (websocket-server.ts:
\* handleHello, detachSocket).
THEOREM OneSessionHolds == Spec => []OneSession
<1>1. Inv => OneSession
  BY DEF Inv
<1>. QED  BY <1>1, InvHolds, PTL

\* No request is handled twice, however often the client reconnects
\* (daemon-client.ts: flushPendingSendQueue, scheduleReconnect).
THEOREM HandledOnceHolds == Spec => []HandledOnce
<1>1. Inv => HandledOnce
  BY DEF Inv
<1>. QED  BY <1>1, InvHolds, PTL

-----------------------------------------------------------------------------
(* A client without a connection is on its way to one.                      *)

\* The link a client is connecting on goes on or ends.
OnItsWay(l) ==
    /\ l.client # "closed"
    /\ \/ l.broken \/ l.client = "opening" \/ l.server = "closed"
       \/ l.server = "pending" /\ l.in # <<>> /\ Head(l.in) = Hello
       \/ l.server = "active" /\ Info \in Range(l.out)

UnderWay ==
    /\ status # "disposed" => wanted
    /\ status = "disconnected" => backoff
    /\ status = "connecting" => OnItsWay(links[link])

\* What is added to a queue, or left when something else is taken, is in it.
LEMMA RangeOfAppend ==
    ASSUME NEW S, NEW q \in Seq(S), NEW e \in S
    PROVE  e \in Range(Append(q, e)) /\ \A x \in Range(q) : x \in Range(Append(q, e))
<1>1. /\ Len(q) \in Nat /\ DOMAIN q = 1 .. Len(q)
      /\ DOMAIN Append(q, e) = 1 .. Len(q) + 1
      /\ Append(q, e)[Len(q) + 1] = e
      /\ \A i \in 1 .. Len(q) : Append(q, e)[i] = q[i]
  BY LenProperties, AppendProperties
<1>. QED  BY <1>1 DEF Range

LEMMA RangeOfTail ==
    ASSUME NEW S, NEW q \in Seq(S), q # <<>>
    PROVE  \A x \in Range(q) : x = Head(q) \/ x \in Range(Tail(q))
<1>1. /\ Len(q) \in Nat /\ DOMAIN q = 1 .. Len(q) /\ Len(Tail(q)) = Len(q) - 1
      /\ DOMAIN Tail(q) = 1 .. Len(Tail(q)) /\ Head(q) = q[1]
      /\ \A i \in 1 .. Len(Tail(q)) : Tail(q)[i] = q[i + 1]
  BY HeadTailProperties, LenProperties
<1>2. ASSUME NEW x \in Range(q), x # Head(q)
      PROVE  x \in Range(Tail(q))
  <2>1. PICK i \in DOMAIN q : x = q[i]
    BY DEF Range
  <2>2. i - 1 \in 1 .. Len(Tail(q)) /\ Tail(q)[i - 1] = x
    BY <1>1, <1>2, <2>1
  <2>. QED  BY <1>1, <2>2 DEF Range
<1>. QED  BY <1>2

\* The link a client connects on is one of its links.
LEMMA LinkInUse ==
    ASSUME Inv
    PROVE  /\ link # 0 => link \in Links
           /\ status \in {"connected", "connecting"} => link \in Links
           /\ status = "disposed" => link = 0 /\ ~backoff
           /\ DOMAIN links = Links /\ \A l \in Links : links[l] \in LinkOf(sessions)
<1>1. /\ link \in 0 .. Len(links)
      /\ status \in {"connected", "connecting"} => link # 0
      /\ status = "disposed" => link = 0 /\ ~backoff
  BY DEF Inv, TypeOK
<1>. QED  BY <1>1, LinkTypes DEF Links

\* Steps that leave the client alone, and its link on its way.
LEMMA OthersKeepUnderWay ==
    ASSUME UnderWay, UNCHANGED <<status, link, wanted, backoff>>,
           status = "connecting" /\ OnItsWay(links[link]) => OnItsWay(links'[link])
    PROVE  UnderWay'
BY DEF UnderWay

LEMMA AttemptConnectUnderWay ==
    ASSUME Inv, AttemptConnect, wanted' = TRUE
    PROVE  UnderWay'
<1>1. links \in Seq(LinkOf(sessions)) /\ Disposed(links) \in Seq(LinkOf(sessions))
      /\ Len(Disposed(links)) = Len(links)
  BY LinkTypes, DisposedLinks
<1>2. links'[link'] = NewLink
  BY <1>1, AppendProperties DEF AttemptConnect
<1>3. links'[link'].client = "opening"
  BY <1>2 DEF NewLink
<1>4. OnItsWay(links'[link'])
  BY <1>3 DEF OnItsWay
<1>. QED  BY <1>4 DEF UnderWay, AttemptConnect

LEMMA ClientStepUnderWay ==
    ASSUME Inv, UnderWay, ClientStep
    PROVE  UnderWay'
<1>t. /\ link # 0 => link \in Links
      /\ status = "connecting" => link \in Links
      /\ status = "disposed" => link = 0 /\ ~backoff
      /\ DOMAIN links = Links /\ \A l \in Links : links[l] \in LinkOf(sessions)
      /\ \A l \in Links : links[l].out \in Seq({Info} \cup Requests)
  BY LinkInUse, LinkTypes
<1>1. CASE EnsureConnected
  BY <1>1, AttemptConnectUnderWay DEF EnsureConnected, UnderWay
<1>2. CASE LinkCloses \/ ConnectTimesOut \/ ConnectFails \/ HelloFails
  BY <1>2, <1>t DEF LinkCloses, ConnectTimesOut, ConnectFails, HelloFails, ScheduleReconnect,
                    UnderWay
<1>3. CASE BackoffElapses
  <2>1. CASE status = "connecting" \/ ~wanted
    BY <1>3, <2>1, <1>t DEF BackoffElapses, UnderWay
  <2>2. CASE ~(status = "connecting" \/ ~wanted)
    BY <1>3, <2>2, <1>t, AttemptConnectUnderWay DEF BackoffElapses
  <2>. QED  BY <2>1, <2>2
<1>4. CASE InfoArrives
  <2>1. status' \in {"connected", status} /\ UNCHANGED <<wanted, backoff>>
        /\ (status = "connecting" => status' = "connected") /\ link # 0
    BY <1>4 DEF InfoArrives
  <2>. QED  BY <2>1, <1>t DEF UnderWay
<1>5. CASE AnswerArrives
  <2>1. link \in Links /\ links[link].out # <<>> /\ Head(links[link].out) # Info
        /\ links' = [links EXCEPT ![link].out = Tail(@)]
        /\ UNCHANGED <<status, link, wanted, backoff>>
    BY <1>5, <1>t DEF AnswerArrives, Received
  <2>2. links'[link] = [links[link] EXCEPT !.out = Tail(links[link].out)]
    BY <2>1, <1>t
  <2>3. Info \in Range(links[link].out) => Info \in Range(Tail(links[link].out))
    BY <2>1, <1>t, RangeOfTail
  <2>. QED  BY <2>1, <2>2, <2>3, <1>t, OthersKeepUnderWay DEF OnItsWay, LinkOf
<1>6. CASE Close
  BY <1>6 DEF Close, UnderWay
<1>7. ASSUME NEW r \in Requests, Issue(r) \/ RequestTimesOut(r)
      PROVE  UnderWay'
  BY <1>7, OthersKeepUnderWay DEF Issue, RequestTimesOut
<1>8. ASSUME NEW l \in Links, LinkOpens(l)
      PROVE  UnderWay'
  <2>1. UNCHANGED <<status, link, wanted, backoff>>
    BY <1>8 DEF LinkOpens, client
  <2>2. CASE l = link
    <3>1. links'[link] = [links[link] EXCEPT !.client = "open", !.server = "pending", !.in = <<Hello>>]
      BY <1>8, <2>2, <1>t DEF LinkOpens
    <3>2. <<Hello>> # <<>> /\ Head(<<Hello>>) = Hello
      OBVIOUS
    <3>. QED  BY <2>1, <2>2, <3>1, <3>2, <1>t, OthersKeepUnderWay DEF OnItsWay, LinkOf
  <2>3. CASE l # link
    BY <1>8, <2>1, <2>3, <1>t, OthersKeepUnderWay DEF LinkOpens
  <2>. QED  BY <2>2, <2>3
<1>. QED  BY <1>1, <1>2, <1>3, <1>4, <1>5, <1>6, <1>7, <1>8 DEF ClientStep

LEMMA DaemonStepUnderWay ==
    ASSUME Inv, UnderWay, ServerStep \/ Fault
    PROVE  UnderWay'
<1>t. /\ status = "connecting" => link \in Links
      /\ DOMAIN links = Links /\ \A l \in Links : links[l] \in LinkOf(sessions)
      /\ \A l \in Links : /\ links[l].in \in Seq({Hello} \cup Requests)
                          /\ links[l].out \in Seq({Info} \cup Requests)
  BY LinkInUse, LinkTypes
<1>u. UNCHANGED <<status, link, wanted, backoff>>
  BY DEF ServerStep, Fault, HelloArrives, RequestArrives, SocketCloses, GraceElapses,
         Answers, ServerRestarts, HelloTimesOut, LinkBreaks, client
<1> SUFFICES ASSUME status = "connecting", OnItsWay(links[link]), link \in Links
               PROVE  OnItsWay(links'[link])
  BY <1>u, <1>t, OthersKeepUnderWay
<1>1. ASSUME NEW l \in Links, HelloArrives(l)
      PROVE  OnItsWay(links'[link])
  <2>1. /\ l = link => links'[link].server = "active" /\ links'[link].client = links[link].client
                       /\ links'[link].broken = links[link].broken
                       /\ (links[link].client = "open" => links'[link].out = Append(links[link].out, Info))
        /\ l # link => links'[link] = links[link]
    BY <1>1, <1>t DEF HelloArrives, LinkOf
  <2>2. Info \in Range(Append(links[link].out, Info))
    BY <1>t, RangeOfAppend
  <2>. QED  BY <2>1, <2>2, <1>t DEF OnItsWay, LinkOf
<1>2. ASSUME NEW l \in Links, RequestArrives(l)
      PROVE  OnItsWay(links'[link])
  <2>1. /\ links[l].server = "active"
        /\ links' = [links EXCEPT ![l].in = Tail(links[l].in)]
    BY <1>2 DEF RequestArrives
  <2>2. /\ links'[link].client = links[link].client /\ links'[link].broken = links[link].broken
        /\ links'[link].server = links[link].server /\ links'[link].out = links[link].out
        /\ (links[link].server # "active" => links'[link] = links[link])
    BY <2>1, <1>t DEF LinkOf
  <2>. QED  BY <2>2 DEF OnItsWay
<1>3. ASSUME NEW l \in Links, SocketCloses(l) \/ HelloTimesOut(l) \/ LinkBreaks(l)
      PROVE  OnItsWay(links'[link])
  <2>1. CASE SocketCloses(l) \/ HelloTimesOut(l)
    <3>1. links' = [links EXCEPT ![l].server = "closed", ![l].in = <<>>]
      BY <2>1 DEF SocketCloses, HelloTimesOut
    <3>2. \/ links'[link] = links[link]
          \/ links'[link].server = "closed" /\ links'[link].client = links[link].client
      BY <3>1, <1>t DEF LinkOf
    <3>. QED  BY <3>2 DEF OnItsWay
  <2>2. CASE LinkBreaks(l)
    <3>1. \/ links'[link] = links[link]
          \/ links'[link].broken = TRUE /\ links'[link].client = links[link].client
      BY <2>2, <1>t DEF LinkBreaks, LinkOf
    <3>. QED  BY <3>1 DEF OnItsWay
  <2>. QED  BY <1>3, <2>1, <2>2
<1>4. ASSUME NEW s \in 1 .. sessions, GraceElapses(s)
      PROVE  OnItsWay(links'[link])
  BY <1>4, <1>t DEF GraceElapses, OnItsWay, LinkOf
<1>5. ASSUME NEW s \in 1 .. sessions, NEW r \in Requests, Answers(r, s)
      PROVE  OnItsWay(links'[link])
  <2>1. \/ links'[link] = links[link]
        \/ links'[link] = [links[link] EXCEPT !.out = Append(links[link].out, r)]
    BY <1>5, <1>t DEF Answers, Emitted
  <2>2. Info \in Range(links[link].out) => Info \in Range(Append(links[link].out, r))
    BY <1>t, RangeOfAppend
  <2>. QED  BY <2>1, <2>2, <1>t DEF OnItsWay, LinkOf
<1>6. CASE ServerRestarts
  BY <1>6, <1>t DEF ServerRestarts, OnItsWay, LinkOf
<1>. QED  BY <1>1, <1>2, <1>3, <1>4, <1>5, <1>6 DEF ServerStep, Fault

\* A client that has lost its connection has a back-off under way, and one that
\* connects has a link that opens, is greeted, has its server_info on the way
\* or ends: nothing but a link that breaks and is never timed out keeps it from
\* the next attempt, for any number of requests, links and faults.
THEOREM ReconnectIsUnderWayHolds == Spec => []ReconnectIsUnderWay
<1>1. Init => UnderWay
  BY DEF Init, UnderWay
<1>2. Inv /\ UnderWay /\ [Next]_vars => UnderWay'
  <2>1. ASSUME UnderWay, UNCHANGED vars PROVE UnderWay'
    BY <2>1 DEF vars, client, UnderWay
  <2>. QED  BY <2>1, ClientStepUnderWay, DaemonStepUnderWay DEF Next
<1>3. UnderWay => ReconnectIsUnderWay
  BY DEF UnderWay, ReconnectIsUnderWay, OnItsWay
<1>. QED  BY <1>1, <1>2, <1>3, InvHolds, PTL DEF Spec
=============================================================================
