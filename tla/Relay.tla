------------------------------- MODULE Relay -------------------------------
(* The relay (packages/relay/src/cloudflare-adapter.ts, protocol version 2)*)
(* between one daemon (relay-transport.ts) and its clients, with the       *)
(* handshake of the encrypted channel (encrypted-channel.ts) on each       *)
(* connection.                                                             *)
(*                                                                         *)
(* A client opens one socket, and the relay gives it a connection id of its*)
(* own.  Over its control socket the daemon is told of it and opens a data *)
(* socket for that id.  A client's frame is a hello or the number of an    *)
(* encrypted message; every client has a key of its own, so the connection *)
(* stands for the key.  Ciphertext, logging and the version 1 relay are    *)
(* left out.                                                               *)
EXTENDS Naturals, Sequences, SequencesExt, FiniteSets

CONSTANTS
    Conns,          \* connection ids; a client uses one only once
    MaxSockets,     \* bound: data sockets the daemon opens
    MaxFrames,      \* bound: messages a client sends
    MaxWire,        \* bound: frames on the way when a client adds one
    MaxPending,     \* the cap of bufferFrame (200 in the code)
    MaxFaults,      \* bound: control faults and daemon restarts
    MaxDataFaults   \* bound: data sockets that fail

ASSUME ConnsAssumption == IsFiniteSet(Conns)

ASSUME BoundsAssumption ==
    /\ MaxSockets \in Nat /\ MaxFrames \in Nat /\ MaxWire \in Nat \ {0}
    /\ MaxPending \in Nat \ {0} /\ MaxFaults \in Nat /\ MaxDataFaults \in Nat

VARIABLES
    client,     \* the state of each client's channel and socket
    sent, got,  \* messages a client has sent, messages the daemon decrypted
    up,         \* frames from a client to the relay
    pending,    \* pendingFrames
    timer,      \* the timers of nudgeOrResetControlForConnection
    control,    \* the control socket of the daemon
    orders,     \* messages to the daemon on its control socket
    entry,      \* dataSockets: the data socket of a connection, 0 if none
    sock,       \* the data sockets opened so far
    faults, dataFaults

vars == <<client, sent, got, up, pending, timer, control, orders,
          entry, sock, faults, dataFaults>>

Hello == 0
Frames == {Hello} \cup (1 .. MaxFrames)
Sockets == DOMAIN sock

(* "closing" is a socket that one end has closed and whose close event has *)
(* not come; the relay's getWebSockets still returns it.                   *)
Accepted == {c \in Conns : client[c] \in {"hello", "open", "closing"}}
Servers(c) == {s \in Sockets : sock[s].conn = c /\ sock[s].relay \in {"open", "closing"}}

Init ==
    /\ client = [c \in Conns |-> "new"]
    /\ sent = [c \in Conns |-> 0] /\ got = [c \in Conns |-> <<>>]
    /\ up = [c \in Conns |-> <<>>]
    /\ pending = [c \in Conns |-> <<>>]
    /\ timer = [c \in Conns |-> "off"]
    /\ control = "down" /\ orders = <<>>
    /\ entry = [c \in Conns |-> 0] /\ sock = <<>>
    /\ faults = 0 /\ dataFaults = 0

(* A message sent to a control socket that is down or wedged is lost.      *)
Notify(order) ==
    orders' = IF control \in {"fresh", "ready"} THEN Append(orders, order) ELSE orders

Sync == [type |-> "ensure", ids |-> Accepted]
Disconnected(c) == [type |-> "drop", ids |-> {c}]

-----------------------------------------------------------------------------
(* The clients.                                                            *)

Connect(c) ==
    /\ client[c] = "new"
    /\ client' = [client EXCEPT ![c] = "hello"]
    /\ timer' = [timer EXCEPT ![c] = "nudge"]
    /\ Notify([type |-> "ensure", ids |-> {c}])
    /\ UNCHANGED <<sent, got, up, pending, control, entry, sock, faults, dataFaults>>

(* At once and then every second until the channel is open; OnTheWay only  *)
(* bounds how many retries are on their way.                               *)
OnTheWay(c, s) == Len(up[c]) + Len(sock[s].in) + Len(sock[s].out)

SendHello(c) ==
    /\ client[c] = "hello" /\ Len(up[c]) < MaxWire
    /\ \A s \in Servers(c) : OnTheWay(c, s) < MaxWire
    /\ up' = [up EXCEPT ![c] = Append(@, Hello)]
    /\ UNCHANGED <<client, sent, got, pending, timer, control, orders, entry, sock,
                   faults, dataFaults>>

SendMessage(c) ==
    /\ client[c] = "open" /\ sent[c] < MaxFrames
    /\ sent' = [sent EXCEPT ![c] = @ + 1]
    /\ up' = [up EXCEPT ![c] = Append(@, sent[c] + 1)]
    /\ UNCHANGED <<client, got, pending, timer, control, orders, entry, sock,
                   faults, dataFaults>>

Leave(c) ==
    /\ client[c] \in {"hello", "open"}
    /\ client' = [client EXCEPT ![c] = "closing"]
    /\ UNCHANGED <<sent, got, up, pending, timer, control, orders, entry, sock,
                   faults, dataFaults>>

-----------------------------------------------------------------------------
(* The relay.                                                              *)

Kicked(S) == [c \in Conns |-> IF c \in S /\ client[c] \in {"hello", "open"}
                              THEN "closing" ELSE client[c]]

Capped(s) == IF Len(s) > MaxPending THEN Tail(s) ELSE s

(* webSocketMessage from a client: to the data socket, to the buffer when  *)
(* there is none; a closing socket takes no frame, and one the daemon has  *)
(* lost swallows it.                                                       *)
RelayFromClient(c) ==
    /\ c \in Accepted /\ up[c] # <<>>
    /\ up' = [up EXCEPT ![c] = Tail(@)]
    /\ IF Servers(c) = {}
       THEN pending' = [pending EXCEPT ![c] = Capped(Append(@, Head(up[c])))] /\ UNCHANGED sock
       ELSE /\ sock' = [s \in Sockets |->
                          IF s \in Servers(c) /\ sock[s].relay = "open" /\ sock[s].daemon # "closed"
                          THEN [sock[s] EXCEPT !.in = Append(@, Head(up[c]))] ELSE sock[s]]
            /\ UNCHANGED pending
    /\ UNCHANGED <<client, sent, got, timer, control, orders, entry, faults, dataFaults>>

(* webSocketMessage from a data socket, and the client that takes a "ready":*)
(* its channel opens, one that is open ignores it.                         *)
RelayFromServer(s) ==
    LET c == sock[s].conn IN
    /\ sock[s].relay \in {"open", "closing"} /\ sock[s].out # <<>>
    /\ sock' = [sock EXCEPT ![s].out = Tail(@)]
    /\ client' = [client EXCEPT ![c] = IF @ = "hello" THEN "open" ELSE @]
    /\ UNCHANGED <<sent, got, up, pending, timer, control, orders, entry,
                   faults, dataFaults>>

(* webSocketClose of the one client socket of a connection.                *)
ClientCloses(c) ==
    /\ client[c] = "closing"
    /\ client' = [client EXCEPT ![c] = "gone"]
    /\ up' = [up EXCEPT ![c] = <<>>]
    /\ pending' = [pending EXCEPT ![c] = <<>>]
    /\ sock' = [s \in Sockets |-> IF s \in Servers(c) THEN [sock[s] EXCEPT !.relay = "closing"]
                                  ELSE sock[s]]
    /\ Notify(Disconnected(c))
    /\ UNCHANGED <<sent, got, timer, control, entry, faults, dataFaults>>

(* webSocketClose of a data socket, one that was replaced included: the    *)
(* client must connect again.                                              *)
SocketClosesAtRelay(s) ==
    /\ sock[s].relay \in {"open", "closing"} /\ sock[s].daemon \in {"closing", "closed"}
    /\ sock' = [sock EXCEPT ![s].relay = "closed", ![s].in = <<>>, ![s].out = <<>>]
    /\ client' = Kicked({sock[s].conn})
    /\ UNCHANGED <<sent, got, up, pending, timer, control, orders, entry,
                   faults, dataFaults>>

(* The timers that a connecting client starts: after ten seconds a sync,   *)
(* after five more the control socket is closed.                           *)
Unserved(c) == c \in Accepted /\ Servers(c) = {}

Nudge(c) ==
    /\ timer[c] = "nudge"
    /\ timer' = [timer EXCEPT ![c] = IF Unserved(c) THEN "reset" ELSE "off"]
    /\ IF Unserved(c) THEN Notify(Sync) ELSE UNCHANGED orders
    /\ UNCHANGED <<client, sent, got, up, pending, control, entry, sock,
                   faults, dataFaults>>

(* Mutant: the second timer does nothing.                                  *)
ResetControlNever(c) ==
    /\ timer[c] = "reset"
    /\ timer' = [timer EXCEPT ![c] = "off"]
    /\ UNCHANGED <<client, sent, got, up, pending, control, orders, entry, sock,
                   faults, dataFaults>>

ResetControl(c) ==
    /\ timer[c] = "reset"
    /\ timer' = [timer EXCEPT ![c] = "off"]
    /\ IF Unserved(c) THEN control' = "down" /\ orders' = <<>>
       ELSE UNCHANGED <<control, orders>>
    /\ UNCHANGED <<client, sent, got, up, pending, entry, sock, faults, dataFaults>>

(* With no timer left the durable object may hibernate: the sockets stay,  *)
(* what it holds in memory does not.                                       *)
Hibernate ==
    /\ \A c \in Conns : timer[c] = "off"
    /\ pending' = [c \in Conns |-> <<>>]
    /\ UNCHANGED <<client, sent, got, up, timer, control, orders, entry, sock,
                   faults, dataFaults>>

-----------------------------------------------------------------------------
(* The daemon.                                                             *)

(* connectControl, at the start and after a back-off; the relay answers    *)
(* with the list of connections.                                           *)
ControlOpens ==
    /\ control = "down"
    /\ control' = "fresh" /\ orders' = <<Sync>>
    /\ UNCHANGED <<client, sent, got, up, pending, timer, entry, sock,
                   faults, dataFaults>>

Opened(c) == [conn |-> c, daemon |-> "connecting", relay |-> "none", in |-> <<>>, out |-> <<>>]

(* ensureClientDataSocket, for each connection listed that has no entry.   *)
Ensure(S) ==
    LET new == SetToSeq({c \in S : entry[c] = 0}) IN
    /\ Len(sock) + Len(new) =< MaxSockets
    /\ sock' = sock \o [i \in DOMAIN new |-> Opened(new[i])]
    /\ entry' = [c \in Conns |-> IF \E i \in DOMAIN new : new[i] = c
                                 THEN Len(sock) + (CHOOSE i \in DOMAIN new : new[i] = c)
                                 ELSE entry[c]]

(* The entry goes at once; closing a socket that still connects aborts it. *)
Drop(S) ==
    /\ entry' = [c \in Conns |-> IF c \in S THEN 0 ELSE entry[c]]
    /\ sock' = [s \in Sockets |->
                  IF \E c \in S : entry[c] = s
                  THEN [sock[s] EXCEPT !.daemon = IF @ = "connecting" THEN "closed" ELSE "closing"]
                  ELSE sock[s]]

OrderArrives ==
    /\ orders # <<>>
    /\ orders' = Tail(orders) /\ control' = "ready"
    /\ IF Head(orders).type = "ensure" THEN Ensure(Head(orders).ids) ELSE Drop(Head(orders).ids)
    /\ UNCHANGED <<client, sent, got, up, pending, timer, faults, dataFaults>>

(* Mutant: the frames that were flushed stay in the buffer.                *)
SocketOpensFlushed(s, n) ==
    LET c == sock[s].conn IN
    /\ sock[s].daemon = "connecting" /\ n = Len(pending[c])
    /\ sock' = [t \in Sockets |->
                  CASE t = s -> [sock[s] EXCEPT !.relay = "open", !.in = pending[c], !.daemon = "waiting"]
                    [] t \in Servers(c) \ {s} -> [sock[t] EXCEPT !.relay = "closing"]
                    [] OTHER -> sock[t]]
    /\ UNCHANGED <<client, sent, got, up, pending, timer, control, orders, entry,
                   faults, dataFaults>>

(* Mutant: a data socket that is accepted replaces no other.               *)
SocketOpensBeside(s, n) ==
    LET c == sock[s].conn IN
    /\ sock[s].daemon = "connecting" /\ n = Len(pending[c])
    /\ pending' = [pending EXCEPT ![c] = <<>>]
    /\ sock' = [sock EXCEPT ![s].relay = "open", ![s].in = pending[c], ![s].daemon = "waiting"]
    /\ UNCHANGED <<client, sent, got, up, timer, control, orders, entry, faults, dataFaults>>

(* A data socket is accepted: those of the same connection are replaced and*)
(* the buffered frames go out, all of them or, when a send fails, the first*)
(* n: then the next one is buffered again and the rest are dropped.        *)
SocketOpens(s, n) ==
    LET c == sock[s].conn IN
    /\ sock[s].daemon = "connecting"
    /\ n = Len(pending[c]) \/ (n < Len(pending[c]) /\ dataFaults < MaxDataFaults)
    /\ pending' = [pending EXCEPT ![c] = IF n = Len(@) THEN <<>> ELSE <<@[n + 1]>>]
    /\ sock' = [t \in Sockets |->
                  CASE t = s -> [sock[s] EXCEPT !.relay = "open", !.in = SubSeq(pending[c], 1, n),
                                   !.daemon = IF n = Len(pending[c]) THEN "waiting" ELSE "closed"]
                    [] t \in Servers(c) \ {s} -> [sock[t] EXCEPT !.relay = "closing"]
                    [] OTHER -> sock[t]]
    /\ IF n = Len(pending[c]) THEN UNCHANGED <<entry, dataFaults>>
       ELSE entry' = [entry EXCEPT ![c] = 0] /\ dataFaults' = dataFaults + 1
    /\ UNCHANGED <<client, sent, got, up, timer, control, orders, faults>>

(* createDaemonChannel's first message must be a hello, else the socket is *)
(* closed; after it handleMessage answers a hello again and decrypts the   *)
(* rest.                                                                   *)
Answer(s, frame) ==
    CASE sock[s].daemon = "waiting" /\ frame # Hello -> [daemon |-> "closing", out |-> sock[s].out]
      [] frame = Hello -> [daemon |-> "open", out |-> Append(sock[s].out, "ready")]
      [] OTHER -> [daemon |-> sock[s].daemon, out |-> sock[s].out]

SocketReceives(s) ==
    LET frame == Head(sock[s].in)
        now == Answer(s, frame)
    IN
    /\ sock[s].daemon \in {"waiting", "open"} /\ sock[s].in # <<>>
    /\ sock' = [sock EXCEPT ![s].in = Tail(@), ![s].daemon = now.daemon, ![s].out = now.out]
    /\ got' = IF now.daemon = "open" /\ frame # Hello
              THEN [got EXCEPT ![sock[s].conn] = Append(@, frame)] ELSE got
    /\ UNCHANGED <<client, sent, up, pending, timer, control, orders, entry,
                   faults, dataFaults>>

(* Mutant: the daemon keeps the entry of a data socket that closed.        *)
ClosedEntryStays(s) ==
    /\ sock' = [sock EXCEPT ![s].daemon = "closed", ![s].in = <<>>]
    /\ UNCHANGED entry

(* The close event of a data socket at the daemon.                         *)
Closed(s) ==
    /\ sock' = [sock EXCEPT ![s].daemon = "closed", ![s].in = <<>>]
    /\ entry' = [c \in Conns |-> IF entry[c] = s THEN 0 ELSE entry[c]]

SocketClosesAtDaemon(s) ==
    /\ sock[s].daemon \in {"waiting", "open", "closing"} /\ sock[s].relay \in {"closing", "closed"}
    /\ Closed(s)
    /\ UNCHANGED <<client, sent, got, up, pending, timer, control, orders,
                   faults, dataFaults>>

-----------------------------------------------------------------------------
(* What fails.                                                             *)

SocketFails(s) ==
    /\ sock[s].daemon \in {"connecting", "waiting", "open"} /\ dataFaults < MaxDataFaults
    /\ dataFaults' = dataFaults + 1
    /\ Closed(s)
    /\ UNCHANGED <<client, sent, got, up, pending, timer, control, orders, faults>>

(* The control socket closes, or the daemon finds it stale.                *)
ControlFails ==
    /\ \/ control \in {"fresh", "ready"} /\ faults < MaxFaults /\ faults' = faults + 1
       \/ control = "wedged" /\ UNCHANGED faults
    /\ control' = "down" /\ orders' = <<>>
    /\ UNCHANGED <<client, sent, got, up, pending, timer, entry, sock, dataFaults>>

(* The control socket takes messages and delivers none.  A socket that has *)
(* not delivered its first message is terminated within eight seconds,     *)
(* which is ControlFails.                                                  *)
ControlWedges ==
    /\ control = "ready" /\ faults < MaxFaults
    /\ faults' = faults + 1
    /\ control' = "wedged" /\ orders' = <<>>
    /\ UNCHANGED <<client, sent, got, up, pending, timer, entry, sock, dataFaults>>

DaemonRestarts ==
    /\ control # "down" /\ faults < MaxFaults
    /\ faults' = faults + 1
    /\ control' = "down" /\ orders' = <<>>
    /\ entry' = [c \in Conns |-> 0]
    /\ sock' = [s \in Sockets |-> [sock[s] EXCEPT !.daemon = "closed", !.in = <<>>]]
    /\ UNCHANGED <<client, sent, got, up, pending, timer, dataFaults>>

-----------------------------------------------------------------------------
ClientStep(c) == Connect(c) \/ SendHello(c) \/ SendMessage(c) \/ Leave(c)
RelayStep ==
    \/ \E c \in Conns : RelayFromClient(c) \/ ClientCloses(c) \/ Nudge(c) \/ ResetControl(c)
    \/ \E s \in Sockets : RelayFromServer(s) \/ SocketClosesAtRelay(s)
    \/ Hibernate
DaemonStep ==
    \/ ControlOpens \/ OrderArrives
    \/ \E s \in Sockets : \/ SocketReceives(s) \/ SocketClosesAtDaemon(s)
                          \/ \E n \in 0 .. Len(pending[sock[s].conn]) : SocketOpens(s, n)
Fault == ControlFails \/ ControlWedges \/ DaemonRestarts \/ \E s \in Sockets : SocketFails(s)

Next == (\E c \in Conns : ClientStep(c)) \/ RelayStep \/ DaemonStep \/ Fault
Spec == Init /\ [][Next]_vars

(* Frames travel, events and timers fire and the daemon reconnects; nobody *)
(* has to connect or to leave, and nothing has to fail.                    *)
Fairness ==
    /\ \A c \in Conns :
        /\ WF_vars(SendHello(c)) /\ WF_vars(RelayFromClient(c))
        /\ WF_vars(ClientCloses(c)) /\ WF_vars(Nudge(c)) /\ WF_vars(ResetControl(c))
    /\ \A s \in 1 .. MaxSockets :
        WF_vars(s \in Sockets /\
                \/ RelayFromServer(s) \/ SocketClosesAtRelay(s)
                \/ SocketReceives(s) \/ SocketClosesAtDaemon(s)
                \/ \E n \in 0 .. Len(pending[sock[s].conn]) : SocketOpens(s, n))
    /\ WF_vars(ControlOpens) /\ WF_vars(OrderArrives)
FairSpec == Spec /\ Fairness

-----------------------------------------------------------------------------
(* Every variable keeps its type, and an entry of the daemon is a socket it*)
(* has not seen closed: a stale entry would keep ensureClientDataSocket    *)
(* from ever serving the connection again.                                 *)
TypeOK ==
    /\ client \in [Conns -> {"new", "hello", "open", "closing", "gone"}]
    /\ sent \in [Conns -> 0 .. MaxFrames] /\ got \in [Conns -> Seq(1 .. MaxFrames)]
    /\ up \in [Conns -> Seq(Frames)] 
    /\ pending \in [Conns -> Seq(Frames)] /\ \A c \in Conns : Len(pending[c]) =< MaxPending
    /\ timer \in [Conns -> {"off", "nudge", "reset"}]
    /\ control \in {"down", "fresh", "ready", "wedged"}
    /\ orders \in Seq([type : {"ensure", "drop"}, ids : SUBSET Conns])
    /\ sock \in Seq([conn : Conns, daemon : {"connecting", "waiting", "open", "closing", "closed"},
                     relay : {"none", "open", "closing", "closed"},
                     in : Seq(Frames), out : Seq({"ready"})])
    /\ entry \in [Conns -> 0 .. Len(sock)]
    /\ \A c \in Conns : entry[c] # 0 => sock[entry[c]].conn = c /\ sock[entry[c]].daemon # "closed"
    /\ faults \in 0 .. MaxFaults /\ dataFaults \in 0 .. MaxDataFaults

(* The relay never has two live data sockets of one connection: a frame of *)
(* the client would be handled twice, in two sessions of the daemon.       *)
OneServerSocket ==
    \A s, t \in Sockets :
        s # t /\ sock[s].conn = sock[t].conn => ~(sock[s].relay = "open" /\ sock[t].relay = "open")

(* The daemon handles no message of a connection twice or after a later one,*)
(* whatever sockets fail and are replaced meanwhile.                       *)
(* (A gap is possible: a hello that was retried just before the channel    *)
(* opened also opens the socket that replaces a failed one, and the        *)
(* messages sent into the failed one are lost.)                            *)
MessagesInOrder ==
    \A c \in Conns : \A i, j \in DOMAIN got[c] : i < j => got[c][i] < got[c][j]

(* A client is not left waiting by a control socket that fails, wedges or  *)
(* is lost with its daemon: its channel opens, or its socket is closed.  A *)
(* data socket that fails is another matter: nothing opens it again before *)
(* the next list of connections.                                           *)
ClientsServed ==
    \A c \in Conns : client[c] = "hello" ~> client[c] \in {"open", "closing"} \/ dataFaults # 0

(* A connecting client is not forgotten while no data socket has failed: it *)
(* has a data socket or one that connects, an order for one is on its way,  *)
(* a timer will ask again, or the daemon is about to connect and be told.   *)
ClientsAreExpected ==
    \A c \in Conns : client[c] = "hello" /\ dataFaults = 0 =>
        \/ Servers(c) # {}
        \/ entry[c] # 0 /\ sock[entry[c]].daemon = "connecting"
        \/ timer[c] # "off" \/ control = "down"
        \/ \E i \in DOMAIN orders : orders[i].type = "ensure" /\ c \in orders[i].ids

(* The data socket of a client that has gone is closed at the daemon too.  *)
ClientsReleased == \A c \in Conns : client[c] = "gone" ~> entry[c] = 0
============================================================================
