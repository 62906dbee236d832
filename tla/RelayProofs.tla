----------------------------- MODULE RelayProofs -----------------------------
(* One data socket serves a connection, the daemon handles its messages in    *)
(* order, and a connecting client is not forgotten, for any number of         *)
(* connections, sockets, messages and faults.                                 *)
EXTENDS Relay, SequenceTheorems, FiniteSetTheorems, TLAPS

------------------------------------------------------------------------------
(* The invariant: got, the frames in the daemon's live data socket, pending   *)
(* and up are one line of rising messages.                                    *)

SocketType ==
    [conn : Conns, daemon : {"connecting", "waiting", "open", "closing", "closed"},
     relay : {"none", "open", "closing", "closed"},
     in : Seq(Frames), out : Seq({"ready"})]
OrderType == [type : {"ensure", "drop"}, ids : SUBSET Conns]

Messages(q) == {q[i] : i \in DOMAIN q} \ {Hello}
Rising(q) == \A i, j \in DOMAIN q : i < j /\ q[i] # Hello /\ q[j] # Hello => q[i] < q[j]
Before(p, q) == \A v \in Messages(p), w \in Messages(q) : v < w
UpTo(q, n) == \A v \in Messages(q) : v <= n

Reads(x) == x.daemon \in {"waiting", "open"}

\* The daemon reads from, or opens, only the data socket it has an entry for.
EntriesRead ==
    \A s \in Sockets : Reads(sock[s]) \/ sock[s].daemon = "connecting" => entry[sock[s].conn] = s

\* Nothing is buffered beside a data socket that is used.
NothingBuffered ==
    \A s \in Sockets : Reads(sock[s]) /\ sock[s].relay = "open" => pending[sock[s].conn] = <<>>

LineRises ==
    \A c \in Conns :
        /\ Rising(got[c]) /\ Rising(pending[c]) /\ Rising(up[c])
        /\ Before(got[c], pending[c]) /\ Before(got[c], up[c]) /\ Before(pending[c], up[c])
        /\ UpTo(got[c], sent[c]) /\ UpTo(pending[c], sent[c]) /\ UpTo(up[c], sent[c])

\* q holds frames of a client that has sent n: after g, before p and u.
InLine(g, q, p, u, n) ==
    Rising(q) /\ UpTo(q, n) /\ Before(g, q) /\ Before(q, p) /\ Before(q, u)

SocketsFit ==
    \A s \in Sockets : Reads(sock[s]) =>
        InLine(got[sock[s].conn], sock[s].in, pending[sock[s].conn], up[sock[s].conn],
               sent[sock[s].conn])

Inv == TypeOK /\ OneServerSocket /\ EntriesRead /\ NothingBuffered /\ LineRises /\ SocketsFit

------------------------------------------------------------------------------
(* Queues.                                                                    *)

LEMMA MessagesAre ==
    ASSUME NEW q \in Seq(Frames)
    PROVE  /\ Messages(q) \subseteq Nat /\ Messages(q) \subseteq 1 .. MaxFrames
           /\ \A i \in DOMAIN q : q[i] # Hello => q[i] \in Messages(q)
<1>1. \A i \in DOMAIN q : q[i] \in Frames
  BY LenProperties
<1>. QED  BY <1>1, BoundsAssumption DEF Messages, Frames, Hello

LEMMA EmptyQueue == Messages(<<>>) = {} /\ Rising(<<>>) /\ <<>> \in Seq(Frames)
<1>1. DOMAIN <<>> = {}
  OBVIOUS
<1>. QED  BY <1>1, EmptySeq DEF Messages, Rising

LEMMA TailOfQueue ==
    ASSUME NEW q \in Seq(Frames), q # <<>>, Rising(q)
    PROVE  /\ Tail(q) \in Seq(Frames) /\ Head(q) \in Frames
           /\ Rising(Tail(q)) /\ Messages(Tail(q)) \subseteq Messages(q)
           /\ Head(q) # Hello => /\ Head(q) \in Messages(q)
                                 /\ \A w \in Messages(Tail(q)) : Head(q) < w
<1>1. /\ Len(q) \in Nat /\ DOMAIN q = 1 .. Len(q)
      /\ Tail(q) \in Seq(Frames) /\ Head(q) \in Frames /\ Head(q) = q[1]
      /\ Len(Tail(q)) = Len(q) - 1
      /\ \A i \in 1 .. Len(Tail(q)) : Tail(q)[i] = q[i + 1]
  BY HeadTailProperties, LenProperties
<1>2. DOMAIN Tail(q) = 1 .. Len(Tail(q)) /\ Len(Tail(q)) \in Nat
  BY <1>1, LenProperties
<1>3. Len(q) >= 1 /\ 1 \in DOMAIN q
  BY <1>1, <1>2
<1>4. \A i \in DOMAIN Tail(q) : i \in Nat /\ i + 1 \in DOMAIN q /\ Tail(q)[i] = q[i + 1] /\ 1 < i + 1
  BY <1>1, <1>2
<1>5. Rising(Tail(q))
  <2>1. \A i, j \in DOMAIN Tail(q) : i < j => i + 1 < j + 1
    BY <1>4
  <2>. QED  BY <1>4, <2>1 DEF Rising
<1>6. Messages(Tail(q)) \subseteq Messages(q)
  BY <1>4 DEF Messages
<1>7. ASSUME Head(q) # Hello, NEW w \in Messages(Tail(q)) PROVE Head(q) < w
  <2>1. PICK i \in DOMAIN Tail(q) : w = Tail(q)[i] /\ w # Hello
    BY DEF Messages
  <2>. QED  BY <1>1, <1>3, <1>4, <1>7, <2>1 DEF Rising
<1>8. Head(q) # Hello => Head(q) \in Messages(q)
  BY <1>1, <1>3 DEF Messages
<1>. QED  BY <1>1, <1>5, <1>6, <1>7, <1>8

LEMMA AppendToQueue ==
    ASSUME NEW q \in Seq(Frames), NEW f \in Frames, Rising(q),
           f # Hello => \A v \in Messages(q) : v < f
    PROVE  /\ Append(q, f) \in Seq(Frames) /\ Rising(Append(q, f))
           /\ \A w \in Messages(Append(q, f)) : w \in Messages(q) \/ (w = f /\ f # Hello)
<1> DEFINE r == Append(q, f)
<1>1. /\ Len(q) \in Nat /\ DOMAIN q = 1 .. Len(q)
      /\ r \in Seq(Frames) /\ Len(r) = Len(q) + 1
      /\ \A i \in 1 .. Len(q) : r[i] = q[i]
      /\ r[Len(q) + 1] = f
  BY AppendProperties, LenProperties
<1>. HIDE DEF r
<1>2. DOMAIN r = 1 .. Len(q) + 1
  BY <1>1, LenProperties
<1>3. \A i \in DOMAIN r : (i \in DOMAIN q /\ r[i] = q[i]) \/ (i = Len(q) + 1 /\ r[i] = f)
  BY <1>1, <1>2
<1>4. \A w \in Messages(r) : w \in Messages(q) \/ (w = f /\ f # Hello)
  BY <1>3 DEF Messages
<1>5. Rising(r)
  <2> SUFFICES ASSUME NEW i \in DOMAIN r, NEW j \in DOMAIN r, i < j, r[i] # Hello, r[j] # Hello
               PROVE  r[i] < r[j]
    BY DEF Rising
  <2>1. i \in DOMAIN q /\ r[i] = q[i]
    BY <1>1, <1>2, <1>3
  <2>2. CASE j \in DOMAIN q /\ r[j] = q[j]
    BY <2>1, <2>2 DEF Rising
  <2>3. CASE r[j] = f
    BY <2>1, <2>3 DEF Messages
  <2>. QED  BY <1>3, <2>2, <2>3
<1>6. r \in Seq(Frames) /\ Rising(r)
      /\ \A w \in Messages(r) : w \in Messages(q) \/ (w = f /\ f # Hello)
  BY <1>1, <1>4, <1>5
<1>. QED  BY <1>6 DEF r

\* What flushFrames sends, and the frame it buffers again.
LEMMA PartsOfQueue ==
    ASSUME NEW q \in Seq(Frames), Rising(q), NEW n \in 0 .. Len(q)
    PROVE  /\ SubSeq(q, 1, n) \in Seq(Frames) /\ Rising(SubSeq(q, 1, n))
           /\ Messages(SubSeq(q, 1, n)) \subseteq Messages(q)
           /\ n < Len(q) => /\ <<q[n + 1]>> \in Seq(Frames) /\ Rising(<<q[n + 1]>>)
                            /\ Messages(<<q[n + 1]>>) \subseteq Messages(q)
                            /\ Len(<<q[n + 1]>>) = 1
<1> DEFINE p == SubSeq(q, 1, n)
<1>1. Len(q) \in Nat /\ DOMAIN q = 1 .. Len(q) /\ n \in Int /\ \A i \in 1 .. Len(q) : q[i] \in Frames
  BY LenProperties
<1>2. \A i \in 1 .. n : q[i] \in Frames
  BY <1>1
<1>3. /\ p \in Seq(Frames) /\ \A i \in 1 .. n - 1 + 1 : p[i] = q[1 + i - 1]
      /\ Len(p) = IF 1 <= n THEN n - 1 + 1 ELSE 0
  BY <1>1, <1>2, SubSeqProperties
<1>4. DOMAIN p = 1 .. n /\ \A i \in 1 .. n : p[i] = q[i] /\ i \in DOMAIN q
  <2>1. Len(p) = n /\ \A i \in 1 .. n : 1 + i - 1 = i /\ i \in 1 .. n - 1 + 1
    BY <1>1, <1>3
  <2>. HIDE DEF p
  <2>2. DOMAIN p = 1 .. Len(p)
    BY <1>3, LenProperties
  <2>. QED  BY <1>1, <1>3, <2>1, <2>2
<1>5. Rising(p) /\ Messages(p) \subseteq Messages(q)
  <2>. HIDE DEF p
  <2>. QED  BY <1>4 DEF Rising, Messages
<1>6. ASSUME n < Len(q)
      PROVE  /\ <<q[n + 1]>> \in Seq(Frames) /\ Rising(<<q[n + 1]>>)
             /\ Messages(<<q[n + 1]>>) \subseteq Messages(q) /\ Len(<<q[n + 1]>>) = 1
  <2> DEFINE f == q[n + 1]
  <2>1. n + 1 \in DOMAIN q /\ f \in Frames
    BY <1>1, <1>6
  <2>. HIDE DEF f
  <2>2. <<f>> \in Seq(Frames) /\ Len(<<f>>) = 1 /\ DOMAIN <<f>> = {1} /\ <<f>>[1] = f
    BY <2>1
  <2>3. Rising(<<f>>)
    BY <2>2 DEF Rising
  <2>4. Messages(<<f>>) \subseteq Messages(q)
    BY <2>1, <2>2 DEF Messages, f
  <2>. QED  BY <2>2, <2>3, <2>4 DEF f
<1>. QED  BY <1>3, <1>5, <1>6

\* bufferFrame drops the oldest frame when there are too many.
LEMMA BufferedQueue ==
    ASSUME NEW q \in Seq(Frames), NEW f \in Frames, Rising(q), Len(q) <= MaxPending,
           f # Hello => \A v \in Messages(q) : v < f
    PROVE  /\ Capped(Append(q, f)) \in Seq(Frames) /\ Rising(Capped(Append(q, f)))
           /\ Len(Capped(Append(q, f))) <= MaxPending
           /\ \A w \in Messages(Capped(Append(q, f))) : w \in Messages(q) \/ (w = f /\ f # Hello)
<1> DEFINE r == Append(q, f)
<1>1. /\ r \in Seq(Frames) /\ r # <<>> /\ Rising(r) /\ Len(r) = Len(q) + 1 /\ Len(q) \in Nat
      /\ \A w \in Messages(r) : w \in Messages(q) \/ (w = f /\ f # Hello)
  BY AppendToQueue, AppendProperties, LenProperties
<1>. HIDE DEF r
<1>2. /\ Tail(r) \in Seq(Frames) /\ Rising(Tail(r)) /\ Messages(Tail(r)) \subseteq Messages(r)
      /\ Len(Tail(r)) = Len(r) - 1
  BY <1>1, TailOfQueue, HeadTailProperties
<1>3. Capped(r) = IF Len(r) > MaxPending THEN Tail(r) ELSE r
  BY DEF Capped
<1>4. /\ Capped(r) \in Seq(Frames) /\ Rising(Capped(r)) /\ Len(Capped(r)) <= MaxPending
      /\ \A w \in Messages(Capped(r)) : w \in Messages(q) \/ (w = f /\ f # Hello)
  BY <1>1, <1>2, <1>3, BoundsAssumption
<1>. QED  BY <1>4 DEF r

------------------------------------------------------------------------------
(* Steps that take no message further.                                        *)

LEMMA Types ==
    ASSUME Inv
    PROVE  /\ sock \in Seq(SocketType) /\ Len(sock) \in Nat /\ Sockets = 1 .. Len(sock)
           /\ sock = [s \in Sockets |-> sock[s]]
           /\ \A s \in Sockets : sock[s] \in SocketType /\ sock[s].conn \in Conns /\ s # 0
           /\ entry \in [Conns -> 0 .. Len(sock)] /\ sent \in [Conns -> 0 .. MaxFrames]
           /\ got \in [Conns -> Seq(1 .. MaxFrames)] /\ up \in [Conns -> Seq(Frames)]
           /\ pending \in [Conns -> Seq(Frames)]
           /\ \A c \in Conns : /\ sent[c] \in Nat /\ Len(pending[c]) <= MaxPending
                               /\ got[c] \in Seq(Frames) /\ up[c] \in Seq(Frames)
                               /\ pending[c] \in Seq(Frames)
           /\ \A s \in Sockets : sock[s].in \in Seq(Frames)
<1>1. sock \in Seq(SocketType)
  BY DEF Inv, TypeOK, SocketType
<1>2. Len(sock) \in Nat /\ Sockets = 1 .. Len(sock) /\ sock \in [1 .. Len(sock) -> SocketType]
  <2>. HIDE DEF SocketType
  <2>. QED  BY <1>1, LenProperties DEF Sockets
<1>3. sock = [s \in Sockets |-> sock[s]] /\ \A s \in Sockets : sock[s] \in SocketType
  <2>. HIDE DEF SocketType
  <2>. QED  BY <1>2
<1>4. \A s \in Sockets : sock[s].conn \in Conns /\ sock[s].in \in Seq(Frames) /\ s # 0
  BY <1>2, <1>3 DEF SocketType
<1>5. \A c \in Conns : sent[c] \in Nat /\ got[c] \in Seq(Frames)
  <2>1. \A q \in Seq(1 .. MaxFrames) : q \in Seq(Frames)
    <3>1. 1 .. MaxFrames \subseteq Frames
      BY DEF Frames
    <3>. HIDE DEF Frames
    <3>. QED  BY <3>1, SeqMonotonic
  <2>. QED  BY <2>1, BoundsAssumption DEF Inv, TypeOK
<1>. QED  BY <1>1, <1>2, <1>3, <1>4, <1>5 DEF Inv, TypeOK

\* The variables the messages do not pass through.
OthersOK ==
    /\ client \in [Conns -> {"new", "hello", "open", "closing", "gone"}]
    /\ timer \in [Conns -> {"off", "nudge", "reset"}]
    /\ control \in {"down", "fresh", "ready", "wedged"} /\ orders \in Seq(OrderType)
    /\ faults \in 0 .. MaxFaults /\ dataFaults \in 0 .. MaxDataFaults

\* What TypeOK says of the others.
LineOK ==
    /\ sent \in [Conns -> 0 .. MaxFrames] /\ got \in [Conns -> Seq(1 .. MaxFrames)]
    /\ up \in [Conns -> Seq(Frames)] /\ pending \in [Conns -> Seq(Frames)]
    /\ \A c \in Conns : Len(pending[c]) <= MaxPending
SocketsOK ==
    /\ sock \in Seq(SocketType) /\ entry \in [Conns -> 0 .. Len(sock)]
    /\ \A c \in Conns : entry[c] # 0 => sock[entry[c]].conn = c /\ sock[entry[c]].daemon # "closed"

LEMMA TypesAre == TypeOK <=> OthersOK /\ LineOK /\ SocketsOK
BY DEF TypeOK, OthersOK, LineOK, SocketsOK, SocketType, OrderType

LEMMA TypesAreNext == TypeOK' <=> OthersOK' /\ LineOK' /\ SocketsOK'
BY DEF TypeOK, OthersOK, LineOK, SocketsOK, SocketType, OrderType

\* Sockets that stay and keep their type are still sockets.
LEMMA SocketsKeepType ==
    ASSUME Inv, sock' = [s \in Sockets |-> sock'[s]], \A s \in Sockets : sock'[s] \in SocketType
    PROVE  sock' \in Seq(SocketType) /\ Len(sock') = Len(sock) /\ Sockets' = Sockets
<1>1. Len(sock) \in Nat /\ Sockets = 1 .. Len(sock)
  BY Types
<1>2. sock' \in [1 .. Len(sock) -> SocketType]
  BY <1>1
<1>. HIDE DEF SocketType
<1>. QED  BY <1>1, <1>2 DEF Sockets

\* A socket that was x and takes no new message.
Calm(x, y) ==
    /\ y \in SocketType /\ y.conn = x.conn
    /\ y.relay = "open" => x.relay = "open"
    /\ Reads(y) => Reads(x) /\ y.in = x.in
    /\ y.daemon = "connecting" => x.daemon = "connecting"

QuietStep ==
    /\ sock' = [s \in Sockets |-> sock'[s]] /\ \A s \in Sockets : Calm(sock[s], sock'[s])
    /\ UNCHANGED <<sent, got>> /\ OthersOK'
    /\ up' \in [Conns -> Seq(Frames)] /\ pending' \in [Conns -> Seq(Frames)]
    /\ \A c \in Conns : up'[c] \in {up[c], <<>>} /\ pending'[c] \in {pending[c], <<>>}
    /\ entry' \in [Conns -> 0 .. Len(sock)]
    /\ \A c \in Conns : entry'[c] # 0 => entry'[c] = entry[c] /\ sock'[entry[c]].daemon # "closed"
    /\ \A s \in Sockets : Reads(sock'[s]) \/ sock'[s].daemon = "connecting" =>
         entry'[sock[s].conn] = entry[sock[s].conn]

LEMMA QuietKeeps == ASSUME Inv, QuietStep PROVE Inv'
<1>1. /\ \A s \in Sockets : sock'[s] \in SocketType
      /\ sock' = [s \in Sockets |-> sock'[s]]
  BY DEF QuietStep, Calm
<1>2. sock' \in Seq(SocketType) /\ Len(sock') = Len(sock) /\ Sockets' = Sockets
  BY <1>1, SocketsKeepType
<1>3. LineOK'
  <2>1. Len(<<>>) = 0 /\ 0 <= MaxPending
    BY EmptySeq, BoundsAssumption
  <2>2. \A c \in Conns : Len(pending'[c]) <= MaxPending
    BY <2>1, Types DEF QuietStep
  <2>. QED  BY <2>2, Types DEF QuietStep, LineOK
<1>4. SocketsOK'
  <2>1. ASSUME NEW c \in Conns, entry'[c] # 0
        PROVE  sock'[entry'[c]].conn = c /\ sock'[entry'[c]].daemon # "closed"
    <3>1. entry'[c] = entry[c] /\ sock'[entry[c]].daemon # "closed" /\ entry[c] # 0
      BY <2>1 DEF QuietStep
    <3>2. entry[c] \in Sockets /\ sock[entry[c]].conn = c
      BY <3>1, Types, TypesAre DEF Inv, SocketsOK
    <3>. QED  BY <3>1, <3>2 DEF QuietStep, Calm
  <2>2. entry' \in [Conns -> 0 .. Len(sock')]
    BY <1>2 DEF QuietStep
  <2>. HIDE DEF SocketType
  <2>. QED  BY <1>2, <2>1, <2>2 DEF SocketsOK
<1>5. TypeOK'
  BY <1>3, <1>4, TypesAreNext DEF QuietStep
<1>6. OneServerSocket'
  BY <1>2 DEF Inv, OneServerSocket, QuietStep, Calm
<1>7. EntriesRead'
  BY <1>2 DEF Inv, EntriesRead, QuietStep, Calm
<1>8. NothingBuffered'
  <2>1. ASSUME NEW s \in Sockets, Reads(sock'[s]), sock'[s].relay = "open"
        PROVE  pending'[sock'[s].conn] = <<>>
    <3>1. sock'[s].conn = sock[s].conn /\ Reads(sock[s]) /\ sock[s].relay = "open"
      BY <2>1 DEF QuietStep, Calm
    <3>2. pending[sock[s].conn] = <<>> /\ sock[s].conn \in Conns
      BY <3>1, Types DEF Inv, NothingBuffered
    <3>3. pending'[sock[s].conn] \in {pending[sock[s].conn], <<>>}
      BY <3>2 DEF QuietStep
    <3>. QED  BY <3>1, <3>2, <3>3
  <2>. QED  BY <1>2, <2>1 DEF NothingBuffered
<1>9. LineRises' /\ SocketsFit'
  <2>1. ASSUME NEW c \in Conns
        PROVE  /\ Rising(up'[c]) /\ Messages(up'[c]) \subseteq Messages(up[c])
               /\ Rising(pending'[c]) /\ Messages(pending'[c]) \subseteq Messages(pending[c])
    BY EmptyQueue DEF QuietStep, Inv, LineRises
  <2>2. LineRises'
    BY <2>1 DEF Inv, LineRises, QuietStep, Before, UpTo
  <2>3. ASSUME NEW s \in Sockets, Reads(sock'[s])
        PROVE  InLine(got'[sock'[s].conn], sock'[s].in, pending'[sock'[s].conn],
                      up'[sock'[s].conn], sent'[sock'[s].conn])
    <3> DEFINE c == sock[s].conn
               q == sock[s].in
    <3>1. sock'[s].conn = c /\ sock'[s].in = q /\ Reads(sock[s])
      BY <2>3 DEF QuietStep, Calm
    <3>2. /\ Rising(q) /\ UpTo(q, sent[c])
          /\ Before(got[c], q) /\ Before(q, pending[c]) /\ Before(q, up[c])
      BY <3>1 DEF Inv, SocketsFit, InLine
    <3>3. c \in Conns /\ sent' = sent /\ got' = got
      BY Types DEF QuietStep
    <3>4. Before(q, pending'[c]) /\ Before(q, up'[c])
      BY <2>1, <3>2, <3>3 DEF Before
    <3>. QED  BY <3>1, <3>2, <3>3, <3>4 DEF InLine
  <2>4. SocketsFit'
    BY <1>2, <2>3 DEF SocketsFit
  <2>. QED  BY <2>2, <2>4
<1>. QED  BY <1>5, <1>6, <1>7, <1>8, <1>9 DEF Inv

LEMMA IdleKeeps ==
    ASSUME Inv, UNCHANGED <<sent, got, up, pending, entry, sock>>, OthersOK'
    PROVE  Inv'
<1>1. \A s \in Sockets : Calm(sock[s], sock'[s])
  BY Types DEF Calm
<1>2. \A c \in Conns : entry[c] # 0 => sock[entry[c]].daemon # "closed"
  BY TypesAre DEF Inv, SocketsOK
<1>3. QuietStep
  <2>. HIDE DEF SocketType
  <2>. QED  BY <1>1, <1>2, Types DEF QuietStep
<1>. QED  BY <1>3, QuietKeeps

LEMMA OthersAre == ASSUME Inv PROVE OthersOK
BY TypesAre DEF Inv

LEMMA Notified ==
    ASSUME Inv, NEW order \in OrderType, Notify(order)
    PROVE  orders' \in Seq(OrderType)
<1>1. orders \in Seq(OrderType)
  BY OthersAre DEF OthersOK
<1>. HIDE DEF OrderType
<1>2. Append(orders, order) \in Seq(OrderType)
  BY <1>1, AppendProperties
<1>. QED  BY <1>1, <1>2 DEF Notify

LEMMA OrdersAre ==
    /\ Sync \in OrderType
    /\ \A c \in Conns : Disconnected(c) \in OrderType /\ [type |-> "ensure", ids |-> {c}] \in OrderType
BY DEF Sync, Disconnected, OrderType, Accepted

\* Clients and timers, and a control socket that fails or opens.
LEMMA IdleStepsKeep ==
    ASSUME Inv,
           \/ \E c \in Conns : Connect(c) \/ Leave(c) \/ Nudge(c) \/ ResetControl(c)
           \/ ControlOpens \/ ControlFails \/ ControlWedges
    PROVE  Inv'
<1>0. UNCHANGED <<sent, got, up, pending, entry, sock>>
  BY DEF Connect, Leave, Nudge, ResetControl, ControlOpens, ControlFails, ControlWedges
<1>1. CASE \E c \in Conns : Connect(c)
  <2>1. PICK c \in Conns : Connect(c)
    BY <1>1
  <2>2. orders' \in Seq(OrderType)
    BY <2>1, Notified, OrdersAre DEF Connect
  <2>3. OthersOK'
    BY <2>1, <2>2, OthersAre DEF Connect, OthersOK
  <2>. QED  BY <1>0, <2>3, IdleKeeps
<1>2. CASE \E c \in Conns : Leave(c)
  <2>1. OthersOK'
    BY <1>2, OthersAre DEF Leave, OthersOK
  <2>. QED  BY <1>0, <2>1, IdleKeeps
<1>3. CASE \E c \in Conns : Nudge(c)
  <2>1. PICK c \in Conns : Nudge(c)
    BY <1>3
  <2>2. orders' \in Seq(OrderType)
    <3>1. CASE Unserved(c)
      BY <2>1, <3>1, Notified, OrdersAre DEF Nudge
    <3>2. CASE ~Unserved(c)
      BY <2>1, <3>2, OthersAre DEF Nudge, OthersOK
    <3>. QED  BY <3>1, <3>2
  <2>3. OthersOK'
    BY <2>1, <2>2, OthersAre DEF Nudge, OthersOK
  <2>. QED  BY <1>0, <2>3, IdleKeeps
<1>4. CASE \E c \in Conns : ResetControl(c)
  <2>1. OthersOK'
    BY <1>4, OthersAre, EmptySeq DEF ResetControl, OthersOK
  <2>. QED  BY <1>0, <2>1, IdleKeeps
<1>5. CASE ControlOpens
  <2>1. orders' \in Seq(OrderType)
    <3>1. orders' = <<Sync>>
      BY <1>5 DEF ControlOpens
    <3>. HIDE DEF OrderType, Sync
    <3>. QED  BY <3>1, OrdersAre
  <2>2. OthersOK'
    BY <1>5, <2>1, OthersAre DEF ControlOpens, OthersOK
  <2>. QED  BY <1>0, <2>2, IdleKeeps
<1>6. CASE ControlFails \/ ControlWedges
  <2>1. faults' \in 0 .. MaxFaults
    <3>1. CASE faults < MaxFaults /\ faults' = faults + 1
      BY <3>1, OthersAre, BoundsAssumption DEF OthersOK
    <3>2. CASE UNCHANGED faults
      BY <3>2, OthersAre DEF OthersOK
    <3>. QED  BY <1>6, <3>1, <3>2 DEF ControlFails, ControlWedges
  <2>2. OthersOK'
    BY <1>6, <2>1, OthersAre, EmptySeq DEF ControlFails, ControlWedges, OthersOK
  <2>. QED  BY <1>0, <2>2, IdleKeeps
<1>. QED  BY <1>1, <1>2, <1>3, <1>4, <1>5, <1>6

LEMMA HibernateKeeps == ASSUME Inv, Hibernate PROVE Inv'
<1>1. /\ pending' = [c \in Conns |-> <<>>]
      /\ UNCHANGED <<client, sent, got, up, timer, control, orders, entry, sock, faults, dataFaults>>
  BY DEF Hibernate
<1>2. \A s \in Sockets : Calm(sock[s], sock'[s])
  BY <1>1, Types DEF Calm
<1>3. \A c \in Conns : entry[c] # 0 => sock[entry[c]].daemon # "closed"
  BY TypesAre DEF Inv, SocketsOK
<1>4. OthersOK'
  BY <1>1, OthersAre DEF OthersOK
<1>5. pending' \in [Conns -> Seq(Frames)]
  BY <1>1, EmptyQueue
<1>6. QuietStep
  <2>. HIDE DEF SocketType
  <2>. QED  BY <1>1, <1>2, <1>3, <1>4, <1>5, Types DEF QuietStep
<1>. QED  BY <1>6, QuietKeeps

LEMMA ClientClosesKeeps == ASSUME Inv, NEW c \in Conns, ClientCloses(c) PROVE Inv'
<1>1. /\ client' = [client EXCEPT ![c] = "gone"]
      /\ up' = [up EXCEPT ![c] = <<>>] /\ pending' = [pending EXCEPT ![c] = <<>>]
      /\ sock' = [s \in Sockets |-> IF s \in Servers(c) THEN [sock[s] EXCEPT !.relay = "closing"]
                                    ELSE sock[s]]
      /\ Notify(Disconnected(c))
      /\ UNCHANGED <<sent, got, timer, control, entry, faults, dataFaults>>
  BY DEF ClientCloses
<1>2. ASSUME NEW s \in Sockets
      PROVE  Calm(sock[s], sock'[s]) /\ sock'[s].daemon = sock[s].daemon
  <2> DEFINE y == [sock[s] EXCEPT !.relay = "closing"]
  <2>1. sock[s] \in SocketType
    BY Types
  <2>2. /\ y \in SocketType /\ y.conn = sock[s].conn /\ y.relay = "closing"
        /\ y.daemon = sock[s].daemon /\ y.in = sock[s].in
    BY <2>1 DEF SocketType
  <2>3. sock'[s] = y \/ sock'[s] = sock[s]
    BY <1>1
  <2>. HIDE DEF y
  <2>. QED  BY <2>1, <2>2, <2>3 DEF Calm, Reads
<1>3. \A d \in Conns : entry[d] # 0 => entry[d] \in Sockets /\ sock[entry[d]].daemon # "closed"
  BY Types, TypesAre DEF Inv, SocketsOK
<1>4. OthersOK'
  <2>1. orders' \in Seq(OrderType)
    BY <1>1, Notified, OrdersAre
  <2>. QED  BY <1>1, <2>1, OthersAre DEF OthersOK
<1>5. /\ pending' \in [Conns -> Seq(Frames)] /\ up' \in [Conns -> Seq(Frames)]
      /\ \A d \in Conns : up'[d] \in {up[d], <<>>} /\ pending'[d] \in {pending[d], <<>>}
  BY <1>1, EmptyQueue, Types
<1>6. sock' = [s \in Sockets |-> sock'[s]]
  BY <1>1
<1>7. QuietStep
  BY <1>1, <1>2, <1>3, <1>4, <1>5, <1>6, Types DEF QuietStep
<1>. QED  BY <1>7, QuietKeeps

\* One socket goes on quietly.
LEMMA OneSocketKeeps ==
    ASSUME Inv, NEW s \in Sockets, NEW y, sock' = [sock EXCEPT ![s] = y], Calm(sock[s], y),
           UNCHANGED <<sent, got, up, pending>>, OthersOK',
           \/ y.daemon # "closed" /\ entry' = entry
           \/ y.daemon = "closed" /\ entry' = [c \in Conns |-> IF entry[c] = s THEN 0 ELSE entry[c]]
           \/ y.daemon = "closed" /\ sock[s].daemon = "closed" /\ entry' = entry
    PROVE  Inv'
<1>1. \A t \in Sockets : sock'[t] = IF t = s THEN y ELSE sock[t]
  <2>. HIDE DEF SocketType
  <2>. QED  BY Types
<1>2. \A t \in Sockets : Calm(sock[t], sock'[t])
  BY <1>1, Types DEF Calm
<1>3. \A d \in Conns : entry[d] # 0 => entry[d] \in Sockets /\ sock[entry[d]].daemon # "closed"
  BY Types, TypesAre DEF Inv, SocketsOK
<1>4. sock' = [t \in Sockets |-> sock'[t]]
  <2>. HIDE DEF SocketType
  <2>. QED  BY Types
<1>5. /\ entry' \in [Conns -> 0 .. Len(sock)]
      /\ \A c \in Conns : entry'[c] # 0 => entry'[c] = entry[c] /\ sock'[entry[c]].daemon # "closed"
  <2>0. entry \in [Conns -> 0 .. Len(sock)] /\ 0 \in 0 .. Len(sock)
    BY Types
  <2>1. CASE entry' = entry
    BY <1>1, <1>3, <2>0, <2>1
  <2>2. CASE entry' = [c \in Conns |-> IF entry[c] = s THEN 0 ELSE entry[c]]
    <3>1. entry' \in [Conns -> 0 .. Len(sock)]
      BY <2>0, <2>2
    <3>2. \A c \in Conns : entry'[c] # 0 => entry'[c] = entry[c] /\ entry[c] # s
      BY <2>2
    <3>. QED  BY <1>1, <1>3, <3>1, <3>2
  <2>. QED  BY <2>1, <2>2
<1>6. \A t \in Sockets : Reads(sock'[t]) \/ sock'[t].daemon = "connecting" =>
        entry'[sock[t].conn] = entry[sock[t].conn]
  <2> SUFFICES ASSUME NEW t \in Sockets, Reads(sock'[t]) \/ sock'[t].daemon = "connecting"
               PROVE  entry'[sock[t].conn] = entry[sock[t].conn]
    OBVIOUS
  <2>1. sock'[t].daemon # "closed"
    BY DEF Reads
  <2>2. CASE entry' = entry
    BY <2>2
  <2>3. CASE y.daemon = "closed" /\ entry' = [c \in Conns |-> IF entry[c] = s THEN 0 ELSE entry[c]]
    <3>1. t # s
      BY <1>1, <2>1, <2>3
    <3>2. entry[sock[t].conn] = t
      BY <1>2 DEF Inv, EntriesRead, Calm
    <3>. QED  BY <2>3, <3>1, <3>2, Types
  <2>. QED  BY <2>2, <2>3
<1>7. QuietStep
  BY <1>2, <1>4, <1>5, <1>6, Types DEF QuietStep
<1>. QED  BY <1>7, QuietKeeps

LEMMA RelayFromServerKeeps == ASSUME Inv, NEW s \in Sockets, RelayFromServer(s) PROVE Inv'
<1> DEFINE y == [sock[s] EXCEPT !.out = Tail(@)]
<1>1. /\ sock[s].out # <<>> /\ sock' = [sock EXCEPT ![s] = y]
      /\ client' = [client EXCEPT ![sock[s].conn] = IF @ = "hello" THEN "open" ELSE @]
      /\ UNCHANGED <<sent, got, up, pending, timer, control, orders, entry, faults, dataFaults>>
  BY Types DEF RelayFromServer
<1>2. sock[s] \in SocketType /\ sock[s].out \in Seq({"ready"}) /\ sock[s].conn \in Conns
  BY Types DEF SocketType
<1>3. Tail(sock[s].out) \in Seq({"ready"})
  BY <1>1, <1>2, HeadTailProperties
<1>4. /\ y \in SocketType /\ y.conn = sock[s].conn /\ y.relay = sock[s].relay
      /\ y.daemon = sock[s].daemon /\ y.in = sock[s].in
  BY <1>2, <1>3 DEF SocketType
<1>. HIDE DEF y
<1>5. Calm(sock[s], y)
  BY <1>4 DEF Calm, Reads
<1>6. OthersOK'
  BY <1>1, <1>2, OthersAre DEF OthersOK
<1>. QED  BY <1>1, <1>4, <1>5, <1>6, OneSocketKeeps

LEMMA SocketClosesAtRelayKeeps ==
    ASSUME Inv, NEW s \in Sockets, SocketClosesAtRelay(s)
    PROVE  Inv'
<1> DEFINE y == [sock[s] EXCEPT !.relay = "closed", !.in = <<>>, !.out = <<>>]
<1>1. /\ sock[s].daemon \in {"closing", "closed"} /\ client' = Kicked({sock[s].conn})
      /\ UNCHANGED <<sent, got, up, pending, timer, control, orders, entry, faults, dataFaults>>
  BY DEF SocketClosesAtRelay
<1>2. sock[s] \in SocketType /\ sock \in Seq(SocketType)
  BY Types
<1>3. sock' = [sock EXCEPT ![s] = y]
  <2>1. sock' = [sock EXCEPT ![s].relay = "closed", ![s].in = <<>>, ![s].out = <<>>]
    BY DEF SocketClosesAtRelay
  <2>2. sock = [t \in Sockets |-> sock[t]]
    BY Types
  <2>. QED  BY <2>1, <2>2
<1>4. /\ y \in SocketType /\ y.conn = sock[s].conn /\ y.relay = "closed"
      /\ y.daemon = sock[s].daemon
  BY <1>2, EmptyQueue, EmptySeq DEF SocketType
<1>. HIDE DEF y
<1>5. Calm(sock[s], y)
  BY <1>1, <1>4 DEF Calm, Reads
<1>6. OthersOK'
  BY <1>1, OthersAre DEF OthersOK, Kicked
<1>. QED  BY <1>1, <1>3, <1>4, <1>5, <1>6, OneSocketKeeps

\* The close event of a data socket at the daemon.
LEMMA ClosedKeeps ==
    ASSUME Inv, NEW s \in Sockets, Closed(s), UNCHANGED <<sent, got, up, pending>>, OthersOK'
    PROVE  Inv'
<1> DEFINE y == [sock[s] EXCEPT !.daemon = "closed", !.in = <<>>]
<1>1. entry' = [c \in Conns |-> IF entry[c] = s THEN 0 ELSE entry[c]]
  BY DEF Closed
<1>2. sock[s] \in SocketType
  BY Types
<1>3. sock' = [sock EXCEPT ![s] = y]
  <2>1. sock' = [sock EXCEPT ![s].daemon = "closed", ![s].in = <<>>]
    BY DEF Closed
  <2>2. sock = [t \in Sockets |-> sock[t]]
    BY Types
  <2>. QED  BY <2>1, <2>2
<1>4. /\ y \in SocketType /\ y.conn = sock[s].conn /\ y.relay = sock[s].relay
      /\ y.daemon = "closed"
  BY <1>2, EmptyQueue DEF SocketType
<1>. HIDE DEF y
<1>5. Calm(sock[s], y)
  BY <1>4 DEF Calm, Reads
<1>. QED  BY <1>1, <1>3, <1>4, <1>5, OneSocketKeeps

LEMMA SocketEndsKeeps ==
    ASSUME Inv, NEW s \in Sockets, SocketClosesAtDaemon(s) \/ SocketFails(s)
    PROVE  Inv'
<1>1. CASE SocketClosesAtDaemon(s)
  <2>1. OthersOK'
    BY <1>1, OthersAre DEF SocketClosesAtDaemon, OthersOK
  <2>. QED  BY <1>1, <2>1, ClosedKeeps DEF SocketClosesAtDaemon
<1>2. CASE SocketFails(s)
  <2>0. dataFaults < MaxDataFaults /\ dataFaults' = dataFaults + 1
    BY <1>2 DEF SocketFails
  <2>1. dataFaults' \in 0 .. MaxDataFaults
    BY <2>0, OthersAre, BoundsAssumption DEF OthersOK
  <2>2. OthersOK'
    BY <1>2, <2>1, OthersAre DEF SocketFails, OthersOK
  <2>. QED  BY <1>2, <2>2, ClosedKeeps DEF SocketFails
<1>. QED  BY <1>1, <1>2

LEMMA DaemonRestartsKeeps == ASSUME Inv, DaemonRestarts PROVE Inv'
<1>1. /\ faults < MaxFaults /\ faults' = faults + 1 /\ control' = "down" /\ orders' = <<>>
      /\ entry' = [c \in Conns |-> 0]
      /\ sock' = [s \in Sockets |-> [sock[s] EXCEPT !.daemon = "closed", !.in = <<>>]]
      /\ UNCHANGED <<client, sent, got, up, pending, timer, dataFaults>>
  BY DEF DaemonRestarts
<1>2. ASSUME NEW s \in Sockets
      PROVE  Calm(sock[s], sock'[s]) /\ sock'[s].daemon = "closed"
  <2> DEFINE y == [sock[s] EXCEPT !.daemon = "closed", !.in = <<>>]
  <2>1. sock[s] \in SocketType
    BY Types
  <2>2. /\ y \in SocketType /\ y.conn = sock[s].conn /\ y.relay = sock[s].relay
        /\ y.daemon = "closed"
    BY <2>1, EmptyQueue DEF SocketType
  <2>3. sock'[s] = y
    BY <1>1
  <2>. HIDE DEF y
  <2>. QED  BY <2>2, <2>3 DEF Calm, Reads
<1>3. OthersOK'
  <2>1. faults < MaxFaults /\ faults' = faults + 1
    BY <1>1
  <2>2. faults' \in 0 .. MaxFaults
    BY <2>1, OthersAre, BoundsAssumption DEF OthersOK
  <2>. QED  BY <1>1, <2>2, OthersAre, EmptySeq DEF OthersOK
<1>4. sock' = [s \in Sockets |-> sock'[s]]
  BY <1>1
<1>5. entry' \in [Conns -> 0 .. Len(sock)] /\ \A c \in Conns : entry'[c] = 0
  <2>1. 0 \in 0 .. Len(sock)
    BY Types
  <2>. QED  BY <1>1, <2>1
<1>6. \A s \in Sockets : ~Reads(sock'[s]) /\ sock'[s].daemon # "connecting"
  BY <1>2 DEF Reads
<1>7. QuietStep
  BY <1>1, <1>2, <1>3, <1>4, <1>5, <1>6, Types DEF QuietStep
<1>. QED  BY <1>7, QuietKeeps

------------------------------------------------------------------------------
(* Steps that take a message further.                                         *)

\* A client sends a hello or its next message.
LEMMA SendsKeep ==
    ASSUME Inv, NEW c \in Conns, NEW f \in Frames, up' = [up EXCEPT ![c] = Append(up[c], f)],
           \/ f = Hello /\ sent' = sent
           \/ f = sent[c] + 1 /\ sent' = [sent EXCEPT ![c] = f],
           UNCHANGED <<client, got, pending, timer, control, orders, entry, sock, faults, dataFaults>>
    PROVE  Inv'
<1>1. /\ up[c] \in Seq(Frames) /\ sent[c] \in Nat /\ Rising(up[c]) /\ UpTo(up[c], sent[c])
  BY Types DEF Inv, LineRises
<1>2. f # Hello => f = sent[c] + 1 /\ f \in 1 .. MaxFrames /\ sent' = [sent EXCEPT ![c] = f]
  BY DEF Frames
<1>3. f # Hello => \A v \in Messages(up[c]) : v < f
  BY <1>1, <1>2, MessagesAre DEF UpTo
<1>4. /\ Append(up[c], f) \in Seq(Frames) /\ Rising(Append(up[c], f))
      /\ \A w \in Messages(Append(up[c], f)) : w \in Messages(up[c]) \/ (w = f /\ f # Hello)
  BY <1>1, <1>3, AppendToQueue
<1>5. \A d \in Conns : up'[d] = IF d = c THEN Append(up[c], f) ELSE up[d]
  BY Types
<1>6. \A d \in Conns : /\ sent'[d] \in Nat /\ sent[d] <= sent'[d]
                       /\ d = c /\ f # Hello => sent'[d] = f /\ f = sent[d] + 1
  <2>1. \A d \in Conns : sent'[d] = sent[d] \/ (d = c /\ sent'[d] = f /\ f = sent[d] + 1)
    BY <1>2, Types
  <2>2. \A d \in Conns : sent[d] \in Nat
    BY Types
  <2>3. f # Hello => sent'[c] = f
    BY <1>2, Types
  <2>. QED  BY <1>1, <1>2, <2>1, <2>2, <2>3
<1>7. TypeOK'
  <2>1. up' \in [Conns -> Seq(Frames)]
    BY <1>4, Types
  <2>2. sent' \in [Conns -> 0 .. MaxFrames]
    <3>1. CASE f = Hello
      BY <1>2, <3>1, Types DEF Hello
    <3>2. CASE f # Hello
      <4>1. f \in 0 .. MaxFrames
        BY <1>2, <3>2, BoundsAssumption
      <4>. QED  BY <1>2, <3>2, <4>1, Types
    <3>. QED  BY <3>1, <3>2
  <2>3. LineOK'
    BY <2>1, <2>2, Types DEF LineOK
  <2>4. OthersOK' /\ SocketsOK'
    BY TypesAre DEF Inv, OthersOK, SocketsOK
  <2>. QED  BY <2>3, <2>4, TypesAreNext
<1>8. OneServerSocket' /\ EntriesRead' /\ NothingBuffered'
  <2>1. Sockets' = Sockets
    BY DEF Sockets
  <2>2. OneServerSocket'
    BY <2>1 DEF Inv, OneServerSocket
  <2>3. EntriesRead'
    BY <2>1 DEF Inv, EntriesRead
  <2>4. NothingBuffered'
    BY <2>1 DEF Inv, NothingBuffered
  <2>. QED  BY <2>2, <2>3, <2>4
\* What is up to sent stays so, and is before what is sent now.
<1>9. ASSUME NEW d \in Conns, NEW q \in Seq(Frames), UpTo(q, sent[d])
      PROVE  UpTo(q, sent'[d]) /\ (Before(q, up[d]) => Before(q, up'[d]))
  <2>1. Messages(q) \subseteq Nat /\ sent[d] \in Nat
    BY MessagesAre, Types
  <2>2. UpTo(q, sent'[d])
    <3>1. \A v \in Messages(q) : v \in Nat /\ v <= sent[d]
      BY <2>1, <1>9 DEF UpTo
    <3>2. sent'[d] \in Nat /\ sent[d] <= sent'[d]
      BY <1>6
    <3>3. \A v \in Messages(q) : v <= sent'[d]
      BY <2>1, <3>1, <3>2
    <3>. QED  BY <3>3 DEF UpTo
  <2>3. ASSUME Before(q, up[d]), d = c, NEW v \in Messages(q), NEW w \in Messages(Append(up[c], f))
        PROVE  v < w
    <3>1. CASE w \in Messages(up[c])
      BY <2>3, <3>1 DEF Before
    <3>2. CASE w = f /\ f # Hello
      <4>1. v \in Nat /\ v <= sent[c] /\ w = sent[c] + 1
        BY <1>9, <2>1, <2>3, <1>2, <3>2 DEF UpTo
      <4>. QED  BY <1>1, <4>1
    <3>. QED  BY <1>4, <3>1, <3>2
  <2>4. ASSUME Before(q, up[d]) PROVE Before(q, up'[d])
    <3>1. CASE d = c
      BY <1>5, <2>3, <2>4, <3>1 DEF Before
    <3>2. CASE d # c
      BY <1>5, <2>4, <3>2
    <3>. QED  BY <3>1, <3>2
  <2>. QED  BY <2>2, <2>4
<1>10. ASSUME NEW d \in Conns PROVE Rising(up'[d]) /\ UpTo(up'[d], sent'[d])
  <2>1. UpTo(up[d], sent[d]) /\ Rising(up[d]) /\ up[d] \in Seq(Frames)
    BY Types DEF Inv, LineRises
  <2>2. UpTo(up[d], sent'[d])
    BY <1>9, <2>1
  <2>3. CASE d = c
    <3>1. \A w \in Messages(Append(up[c], f)) : w <= sent'[c]
      <4>1. f # Hello => sent'[c] = f /\ f \in Nat
        BY <1>1, <1>2, <1>6
      <4>. QED  BY <1>4, <2>2, <2>3, <4>1 DEF UpTo
    <3>. QED  BY <1>4, <1>5, <2>3, <3>1 DEF UpTo
  <2>4. CASE d # c
    BY <1>5, <2>1, <2>2, <2>4
  <2>. QED  BY <2>3, <2>4
<1>11. LineRises'
  <2>1. ASSUME NEW d \in Conns
        PROVE  /\ Rising(got[d]) /\ Rising(pending[d]) /\ Before(got[d], pending[d])
               /\ Before(got[d], up'[d]) /\ Before(pending[d], up'[d])
               /\ UpTo(got[d], sent'[d]) /\ UpTo(pending[d], sent'[d])
    BY <1>9, Types DEF Inv, LineRises
  <2>2. got' = got /\ pending' = pending
    OBVIOUS
  <2>. QED  BY <1>10, <2>1, <2>2 DEF LineRises
<1>12. SocketsFit'
  <2>1. ASSUME NEW s \in Sockets, Reads(sock[s])
        PROVE  InLine(got[sock[s].conn], sock[s].in, pending[sock[s].conn],
                      up'[sock[s].conn], sent'[sock[s].conn])
    BY <1>9, <2>1, Types DEF Inv, SocketsFit, InLine
  <2>2. got' = got /\ pending' = pending /\ sock' = sock /\ Sockets' = Sockets
    BY DEF Sockets
  <2>. QED  BY <2>1, <2>2 DEF SocketsFit
<1>. QED  BY <1>7, <1>8, <1>11, <1>12 DEF Inv

LEMMA ClientSendsKeeps ==
    ASSUME Inv, NEW c \in Conns, SendHello(c) \/ SendMessage(c)
    PROVE  Inv'
<1>1. CASE SendHello(c)
  <2>1. Hello \in Frames
    BY DEF Frames
  <2>. QED  BY <1>1, <2>1, SendsKeep DEF SendHello
<1>2. CASE SendMessage(c)
  <2>1. sent[c] + 1 \in Frames
    <3>1. sent[c] < MaxFrames
      BY <1>2 DEF SendMessage
    <3>. QED  BY <3>1, Types, BoundsAssumption DEF Frames
  <2>2. sent' = [sent EXCEPT ![c] = sent[c] + 1]
    BY <1>2 DEF SendMessage
  <2>. QED  BY <1>2, <2>1, <2>2, SendsKeep DEF SendMessage
<1>. QED  BY <1>1, <1>2

\* What of a connection's line the steps of a frame need.
LEMMA LineIs ==
    ASSUME Inv, NEW c \in Conns
    PROVE  /\ Rising(got[c]) /\ Rising(pending[c]) /\ Rising(up[c])
           /\ Before(got[c], pending[c]) /\ Before(got[c], up[c]) /\ Before(pending[c], up[c])
           /\ UpTo(got[c], sent[c]) /\ UpTo(pending[c], sent[c]) /\ UpTo(up[c], sent[c])
BY DEF Inv, LineRises

LEMMA SocketFits ==
    ASSUME Inv, NEW s \in Sockets, Reads(sock[s])
    PROVE  /\ Rising(sock[s].in) /\ UpTo(sock[s].in, sent[sock[s].conn])
           /\ Before(got[sock[s].conn], sock[s].in) /\ Before(sock[s].in, pending[sock[s].conn])
           /\ Before(sock[s].in, up[sock[s].conn])
BY DEF Inv, SocketsFit, InLine

\* The relay takes the first frame of a client.
LEMMA TakenFromClient ==
    ASSUME Inv, NEW c \in Conns, up[c] # <<>>, up' = [up EXCEPT ![c] = Tail(up[c])]
    PROVE  /\ up' \in [Conns -> Seq(Frames)] /\ Head(up[c]) \in Frames
           /\ \A d \in Conns : /\ Rising(up'[d]) /\ Messages(up'[d]) \subseteq Messages(up[d])
                               /\ UpTo(up'[d], sent[d])
           /\ \A d \in Conns : d # c => up'[d] = up[d]
           /\ Head(up[c]) # Hello => /\ Head(up[c]) \in Messages(up[c])
                                     /\ \A w \in Messages(up'[c]) : Head(up[c]) < w
<1>1. up[c] \in Seq(Frames) /\ Rising(up[c])
  BY Types, LineIs
<1>2. /\ Tail(up[c]) \in Seq(Frames) /\ Head(up[c]) \in Frames
      /\ Rising(Tail(up[c])) /\ Messages(Tail(up[c])) \subseteq Messages(up[c])
      /\ Head(up[c]) # Hello => /\ Head(up[c]) \in Messages(up[c])
                                /\ \A w \in Messages(Tail(up[c])) : Head(up[c]) < w
  BY <1>1, TailOfQueue
<1>3. /\ up' \in [Conns -> Seq(Frames)]
      /\ \A d \in Conns : up'[d] = IF d = c THEN Tail(up[c]) ELSE up[d]
  BY <1>2, Types
<1>4. \A d \in Conns : Rising(up'[d]) /\ Messages(up'[d]) \subseteq Messages(up[d])
  BY <1>2, <1>3, LineIs
<1>5. \A d \in Conns : UpTo(up'[d], sent[d])
  BY <1>4, LineIs DEF UpTo
<1>. QED  BY <1>2, <1>3, <1>4, <1>5

\* It is buffered where there is no data socket.
LEMMA BuffersKeeps ==
    ASSUME Inv, NEW c \in Conns, up[c] # <<>>, up' = [up EXCEPT ![c] = Tail(up[c])],
           Servers(c) = {},
           pending' = [pending EXCEPT ![c] = Capped(Append(pending[c], Head(up[c])))],
           UNCHANGED <<client, sent, got, timer, control, orders, sock, entry, faults, dataFaults>>
    PROVE  Inv'
<1> DEFINE f == Head(up[c])
           b == Capped(Append(pending[c], f))
<1>1. /\ up' \in [Conns -> Seq(Frames)] /\ f \in Frames
      /\ \A d \in Conns : /\ Rising(up'[d]) /\ Messages(up'[d]) \subseteq Messages(up[d])
                          /\ UpTo(up'[d], sent[d])
      /\ \A d \in Conns : d # c => up'[d] = up[d]
      /\ f # Hello => f \in Messages(up[c]) /\ \A w \in Messages(up'[c]) : f < w
  BY TakenFromClient
<1>. HIDE DEF f
<1>2. /\ b \in Seq(Frames) /\ Rising(b) /\ Len(b) <= MaxPending
      /\ \A w \in Messages(b) : w \in Messages(pending[c]) \/ (w = f /\ f # Hello)
  <2>1. f # Hello => \A v \in Messages(pending[c]) : v < f
    BY <1>1, LineIs DEF Before
  <2>2. pending[c] \in Seq(Frames) /\ Rising(pending[c]) /\ Len(pending[c]) <= MaxPending
    BY Types, LineIs
  <2>. QED  BY <1>1, <2>1, <2>2, BufferedQueue
<1>3. pending' = [pending EXCEPT ![c] = b]
  BY DEF f
<1>. HIDE DEF b
<1>4. \A d \in Conns : pending'[d] = IF d = c THEN b ELSE pending[d]
  BY <1>3, Types
<1>5. TypeOK'
  <2>1. pending' \in [Conns -> Seq(Frames)] /\ \A d \in Conns : Len(pending'[d]) <= MaxPending
    BY <1>2, <1>3, <1>4, Types
  <2>2. LineOK'
    BY <1>1, <2>1, Types DEF LineOK
  <2>3. OthersOK' /\ SocketsOK'
    BY TypesAre DEF Inv, OthersOK, SocketsOK
  <2>. QED  BY <2>2, <2>3, TypesAreNext
<1>s. Sockets' = Sockets /\ sock' = sock
  BY DEF Sockets
<1>6. OneServerSocket' /\ EntriesRead'
  <2>1. OneServerSocket'
    BY <1>s DEF Inv, OneServerSocket
  <2>2. EntriesRead'
    BY <1>s DEF Inv, EntriesRead
  <2>. QED  BY <2>1, <2>2
<1>7. NothingBuffered'
  <2>1. ASSUME NEW s \in Sockets, Reads(sock[s]), sock[s].relay = "open"
        PROVE  pending'[sock[s].conn] = <<>>
    <3>1. sock[s].conn # c
      BY <2>1 DEF Servers
    <3>2. pending[sock[s].conn] = <<>> /\ sock[s].conn \in Conns
      BY <2>1, Types DEF Inv, NothingBuffered
    <3>. QED  BY <1>4, <3>1, <3>2
  <2>. QED  BY <1>s, <2>1 DEF NothingBuffered
<1>8. LineRises'
  <2>1. ASSUME NEW d \in Conns
        PROVE  /\ Rising(pending'[d]) /\ Before(got[d], pending'[d]) /\ UpTo(pending'[d], sent[d])
               /\ Before(got[d], up'[d]) /\ Before(pending'[d], up'[d])
    <3>1. CASE d = c
      <4>1. Before(got[d], b) /\ UpTo(b, sent[d])
        BY <1>1, <1>2, <3>1, LineIs DEF Before, UpTo
      <4>2. Before(b, up'[d])
        BY <1>1, <1>2, <3>1, LineIs DEF Before
      <4>3. Before(got[d], up'[d])
        BY <1>1, LineIs DEF Before
      <4>. QED  BY <1>2, <1>4, <3>1, <4>1, <4>2, <4>3
    <3>2. CASE d # c
      BY <1>1, <1>4, <3>2, LineIs
    <3>. QED  BY <3>1, <3>2
  <2>. QED  BY <1>1, <2>1, LineIs DEF LineRises
<1>9. SocketsFit'
  <2>1. ASSUME NEW s \in Sockets, Reads(sock[s])
        PROVE  InLine(got[sock[s].conn], sock[s].in, pending'[sock[s].conn],
                      up'[sock[s].conn], sent[sock[s].conn])
    <3> DEFINE d == sock[s].conn
               q == sock[s].in
    <3>1. /\ Rising(q) /\ UpTo(q, sent[d]) /\ d \in Conns
          /\ Before(got[d], q) /\ Before(q, pending[d]) /\ Before(q, up[d])
      BY <2>1, SocketFits, Types
    <3>. HIDE DEF d, q
    <3>2. Before(q, pending'[d]) /\ Before(q, up'[d])
      BY <1>1, <1>2, <1>4, <3>1 DEF Before
    <3>3. /\ Rising(q) /\ UpTo(q, sent[d])
          /\ Before(got[d], q) /\ Before(q, pending'[d]) /\ Before(q, up'[d])
      BY <3>1, <3>2
    <3>. QED  BY <3>3 DEF d, q, InLine
  <2>. QED  BY <1>s, <2>1 DEF SocketsFit
<1>. QED  BY <1>5, <1>6, <1>7, <1>8, <1>9 DEF Inv

LEMMA NoneOpensKeeps ==
    ASSUME Inv, Sockets' = Sockets,
           \A s \in Sockets : /\ sock'[s].conn = sock[s].conn
                              /\ sock'[s].relay = "open" => sock[s].relay = "open"
    PROVE  OneServerSocket'
BY DEF Inv, OneServerSocket

\* It goes to the data socket, if that still takes frames.
LEMMA ForwardsKeeps ==
    ASSUME Inv, NEW c \in Conns, up[c] # <<>>, up' = [up EXCEPT ![c] = Tail(up[c])],
           sock' = [s \in Sockets |->
              IF s \in Servers(c) /\ sock[s].relay = "open" /\ sock[s].daemon # "closed"
              THEN [sock[s] EXCEPT !.in = Append(@, Head(up[c]))] ELSE sock[s]],
           UNCHANGED <<client, sent, got, pending, timer, control, orders, entry, faults, dataFaults>>
    PROVE  Inv'
<1> DEFINE f == Head(up[c])
<1>1. /\ up' \in [Conns -> Seq(Frames)] /\ f \in Frames
      /\ \A d \in Conns : /\ Rising(up'[d]) /\ Messages(up'[d]) \subseteq Messages(up[d])
                          /\ UpTo(up'[d], sent[d])
      /\ f # Hello => f \in Messages(up[c]) /\ \A w \in Messages(up'[c]) : f < w
  BY TakenFromClient
<1>2. ASSUME NEW s \in Sockets
      PROVE  /\ sock'[s] \in SocketType /\ sock'[s].conn = sock[s].conn
             /\ sock'[s].relay = sock[s].relay /\ sock'[s].daemon = sock[s].daemon
             /\ \/ sock'[s].in = sock[s].in
                \/ /\ sock'[s].in = Append(sock[s].in, f)
                   /\ sock[s].conn = c /\ sock[s].relay = "open"
  <2> DEFINE y == [sock[s] EXCEPT !.in = Append(@, f)]
  <2>1. sock[s] \in SocketType /\ sock[s].in \in Seq(Frames)
    BY Types
  <2>2. Append(sock[s].in, f) \in Seq(Frames)
    <3>. HIDE DEF f
    <3>. QED  BY <1>1, <2>1, AppendProperties
  <2>3. /\ y \in SocketType /\ y.conn = sock[s].conn /\ y.relay = sock[s].relay
        /\ y.daemon = sock[s].daemon /\ y.in = Append(sock[s].in, f)
    <3>. HIDE DEF f
    <3>. QED  BY <2>1, <2>2 DEF SocketType
  <2>4. \/ sock'[s] = sock[s]
        \/ sock'[s] = y /\ sock[s].conn = c /\ sock[s].relay = "open"
    BY DEF Servers
  <2>. HIDE DEF y
  <2>. QED  BY <2>1, <2>3, <2>4
<1>. HIDE DEF f
<1>3. sock' \in Seq(SocketType) /\ Len(sock') = Len(sock) /\ Sockets' = Sockets
  BY <1>2, SocketsKeepType
<1>4. TypeOK'
  <2>1. LineOK'
    BY <1>1, Types DEF LineOK
  <2>2. OthersOK'
    BY OthersAre DEF OthersOK
  <2>3. \A d \in Conns : entry[d] # 0 => sock'[entry[d]].conn = d /\ sock'[entry[d]].daemon # "closed"
    BY <1>2, Types, TypesAre DEF Inv, SocketsOK
  <2>4. SocketsOK'
    <3>. HIDE DEF SocketType
    <3>. QED  BY <1>3, <2>3, Types DEF SocketsOK
  <2>. QED  BY <2>1, <2>2, <2>4, TypesAreNext
<1>5. OneServerSocket'
  <2>1. \A s \in Sockets : /\ sock'[s].conn = sock[s].conn
                           /\ sock'[s].relay = "open" => sock[s].relay = "open"
    BY <1>2
  <2>. QED  BY <1>3, <2>1, NoneOpensKeeps
<1>6. EntriesRead' /\ NothingBuffered'
  <2>1. \A s \in Sockets : /\ Reads(sock'[s]) <=> Reads(sock[s])
                           /\ sock'[s].conn = sock[s].conn /\ sock'[s].relay = sock[s].relay
                           /\ sock'[s].daemon = sock[s].daemon
    BY <1>2 DEF Reads
  <2>2. EntriesRead'
    <3> SUFFICES ASSUME NEW s \in Sockets, Reads(sock'[s]) \/ sock'[s].daemon = "connecting"
                 PROVE  entry[sock'[s].conn] = s
      BY <1>3 DEF EntriesRead
    <3>1. Reads(sock[s]) \/ sock[s].daemon = "connecting"
      BY <2>1
    <3>2. entry[sock[s].conn] = s
      BY <3>1 DEF Inv, EntriesRead
    <3>. QED  BY <2>1, <3>2
  <2>3. NothingBuffered'
    BY <1>3, <2>1 DEF Inv, NothingBuffered
  <2>. QED  BY <2>2, <2>3
<1>7. LineRises'
  BY <1>1, LineIs DEF LineRises, Before
<1>8. SocketsFit'
  <2>1. ASSUME NEW s \in Sockets, Reads(sock'[s])
        PROVE  InLine(got[sock'[s].conn], sock'[s].in, pending[sock'[s].conn],
                      up'[sock'[s].conn], sent[sock'[s].conn])
    <3> DEFINE d == sock[s].conn
               p == sock[s].in
               q == sock'[s].in
    <3>0. Reads(sock[s]) /\ sock'[s].conn = d
      BY <1>2, <2>1 DEF Reads
    <3>1. /\ Rising(p) /\ UpTo(p, sent[d]) /\ d \in Conns /\ p \in Seq(Frames)
          /\ Before(got[d], p) /\ Before(p, pending[d]) /\ Before(p, up[d])
      BY <3>0, SocketFits, Types
    <3>2. q = p \/ (q = Append(p, f) /\ d = c /\ sock[s].relay = "open")
      BY <1>2
    <3>n. sock[s].relay = "open" => pending[d] = <<>>
      BY <3>0 DEF Inv, NothingBuffered
    <3> SUFFICES /\ Rising(q) /\ UpTo(q, sent[d])
                 /\ Before(got[d], q) /\ Before(q, pending[d]) /\ Before(q, up'[d])
      BY <3>0 DEF InLine
    <3>. HIDE DEF d, p, q
    <3>3. CASE q = p
      <4>1. Before(q, up'[d])
        BY <1>1, <3>1, <3>3 DEF Before
      <4>. QED  BY <3>1, <3>3, <4>1
    <3>4. CASE q = Append(p, f) /\ d = c /\ sock[s].relay = "open"
      <4>1. f # Hello => \A v \in Messages(p) : v < f
        BY <1>1, <3>1, <3>4 DEF Before
      <4>2. /\ Rising(q)
            /\ \A w \in Messages(q) : w \in Messages(p) \/ (w = f /\ f # Hello)
        BY <1>1, <3>1, <3>4, <4>1, AppendToQueue
      <4>3. UpTo(q, sent[d]) /\ Before(got[d], q)
        BY <1>1, <3>1, <3>4, <4>2, LineIs DEF UpTo, Before
      <4>4. Before(q, pending[d])
        BY <3>4, <3>n, EmptyQueue DEF Before
      <4>5. Before(q, up'[d])
        BY <1>1, <3>1, <3>4, <4>2 DEF Before
      <4>. QED  BY <4>2, <4>3, <4>4, <4>5
    <3>. QED  BY <3>2, <3>3, <3>4
  <2>. QED  BY <1>3, <2>1 DEF SocketsFit
<1>. QED  BY <1>4, <1>5, <1>6, <1>7, <1>8 DEF Inv

LEMMA RelayFromClientKeeps == ASSUME Inv, NEW c \in Conns, RelayFromClient(c) PROVE Inv'
<1>1. CASE Servers(c) = {}
  BY <1>1, BuffersKeeps DEF RelayFromClient
<1>2. CASE Servers(c) # {}
  BY <1>2, ForwardsKeeps DEF RelayFromClient
<1>. QED  BY <1>1, <1>2

------------------------------------------------------------------------------
(* The daemon's sockets.                                                      *)

\* Sockets are added that still connect, each the entry of its connection.
LEMMA AddedKeep ==
    ASSUME Inv, sock' \in Seq(SocketType), Sockets \subseteq Sockets',
           \A s \in Sockets : sock'[s] = sock[s],
           \A s \in Sockets' : s \notin Sockets =>
              /\ sock'[s].relay = "none" /\ sock'[s].daemon = "connecting"
              /\ entry'[sock'[s].conn] = s,
           \A s \in Sockets : entry[sock[s].conn] # 0 => entry'[sock[s].conn] = entry[sock[s].conn],
           entry' \in [Conns -> 0 .. Len(sock')],
           \A c \in Conns : entry'[c] # 0 =>
              \/ entry'[c] = entry[c]
              \/ sock'[entry'[c]].conn = c /\ sock'[entry'[c]].daemon = "connecting",
           UNCHANGED <<sent, got, up, pending>>, OthersOK'
    PROVE  Inv'
<1>1. TypeOK'
  <2>1. LineOK'
    BY Types DEF LineOK
  <2>2. ASSUME NEW c \in Conns, entry'[c] # 0
        PROVE  sock'[entry'[c]].conn = c /\ sock'[entry'[c]].daemon # "closed"
    <3>1. CASE entry'[c] = entry[c]
      <4>1. /\ entry[c] \in Sockets /\ sock[entry[c]].conn = c /\ sock[entry[c]].daemon # "closed"
        BY <2>2, <3>1, Types, TypesAre DEF Inv, SocketsOK
      <4>. QED  BY <3>1, <4>1
    <3>. QED  BY <2>2, <3>1
  <2>3. SocketsOK'
    <3>. HIDE DEF SocketType
    <3>. QED  BY <2>2 DEF SocketsOK
  <2>. QED  BY <2>1, <2>3, TypesAreNext
<1>2. \A s \in Sockets' : sock'[s].relay = "open" \/ Reads(sock'[s]) => s \in Sockets
  BY DEF Reads
<1>3. OneServerSocket'
  <2> SUFFICES ASSUME NEW s \in Sockets', NEW t \in Sockets', s # t, sock'[s].conn = sock'[t].conn,
                      sock'[s].relay = "open", sock'[t].relay = "open"
               PROVE  FALSE
    BY DEF OneServerSocket
  <2>1. s \in Sockets /\ t \in Sockets /\ sock'[s] = sock[s] /\ sock'[t] = sock[t]
    BY <1>2
  <2>. QED  BY <2>1 DEF Inv, OneServerSocket
<1>4. EntriesRead'
  <2> SUFFICES ASSUME NEW s \in Sockets', Reads(sock'[s]) \/ sock'[s].daemon = "connecting"
               PROVE  entry'[sock'[s].conn] = s
    BY DEF EntriesRead
  <2>1. CASE s \in Sockets
    <3>1. sock'[s] = sock[s] /\ entry[sock[s].conn] = s /\ s # 0
      BY <2>1, Types DEF Inv, EntriesRead
    <3>. QED  BY <2>1, <3>1
  <2>. QED  BY <2>1
<1>5. NothingBuffered'
  <2> SUFFICES ASSUME NEW s \in Sockets', Reads(sock'[s]), sock'[s].relay = "open"
               PROVE  pending[sock'[s].conn] = <<>>
    BY DEF NothingBuffered
  <2>1. s \in Sockets /\ sock'[s] = sock[s]
    BY <1>2
  <2>. QED  BY <2>1 DEF Inv, NothingBuffered
<1>6. LineRises'
  BY DEF Inv, LineRises
<1>7. SocketsFit'
  <2> SUFFICES ASSUME NEW s \in Sockets', Reads(sock'[s])
               PROVE  InLine(got[sock'[s].conn], sock'[s].in, pending[sock'[s].conn],
                             up[sock'[s].conn], sent[sock'[s].conn])
    BY DEF SocketsFit
  <2>1. s \in Sockets /\ sock'[s] = sock[s]
    BY <1>2
  <2>. QED  BY <2>1 DEF Inv, SocketsFit
<1>. QED  BY <1>1, <1>3, <1>4, <1>5, <1>6, <1>7 DEF Inv

\* The connections an order lists come one after another.
LEMMA ListOfConns ==
    ASSUME NEW S \in SUBSET Conns
    PROVE  /\ SetToSeq(S) \in Seq(S) /\ IsInjective(SetToSeq(S))
           /\ \A c \in S : \E i \in DOMAIN SetToSeq(S) : SetToSeq(S)[i] = c
<1>1. Cardinality(S) \in Nat /\ ExistsBijection(1 .. Cardinality(S), S)
  BY FS_Subset, FS_CardinalityType, ConnsAssumption
<1>2. \E g \in [1 .. Cardinality(S) -> S] : IsInjective(g)
  BY <1>1 DEF ExistsBijection, Bijection, Injection
<1>3. SetToSeq(S) \in [1 .. Cardinality(S) -> S] /\ IsInjective(SetToSeq(S))
  BY <1>2 DEF SetToSeq
<1>4. SetToSeq(S) \in Surjection(1 .. Cardinality(S), S)
  <2>0. IsFiniteSet(S)
    BY FS_Subset, ConnsAssumption
  <2>1. Cardinality(1 .. Cardinality(S)) = Cardinality(S)
    BY <1>1, FS_Interval
  <2>2. SetToSeq(S) \in Injection(1 .. Cardinality(S), S)
    BY <1>3 DEF Injection
  <2>. QED  BY <2>0, <2>1, <2>2, FS_Injection
<1>. QED  BY <1>1, <1>3, <1>4 DEF Surjection

\* ensureClientDataSocket adds a data socket for each connection without one.
LEMMA EnsureAdds ==
    ASSUME Inv, NEW S \in SUBSET Conns, Ensure(S)
    PROVE  /\ sock' \in Seq(SocketType) /\ Sockets \subseteq Sockets'
           /\ \A s \in Sockets : sock'[s] = sock[s]
           /\ \A s \in Sockets' : s \notin Sockets =>
                /\ sock'[s].relay = "none" /\ sock'[s].daemon = "connecting"
                /\ sock'[s].conn \in S /\ entry'[sock'[s].conn] = s
           /\ \A c \in Conns : entry'[c] # entry[c] =>
                /\ entry[c] = 0 /\ entry'[c] \in Sockets'
                /\ sock'[entry'[c]].conn = c /\ sock'[entry'[c]].daemon = "connecting"
           /\ \A c \in S : entry[c] = 0 => entry'[c] # entry[c]
           /\ entry' \in [Conns -> 0 .. Len(sock')]
<1> DEFINE R == {c \in S : entry[c] = 0}
           new == SetToSeq(R)
           app == [i \in DOMAIN new |-> Opened(new[i])]
<1>1. /\ new \in Seq(R) /\ IsInjective(new) /\ Len(new) \in Nat /\ DOMAIN new = 1 .. Len(new)
      /\ \A i \in DOMAIN new : new[i] \in S /\ new[i] \in Conns /\ entry[new[i]] = 0
      /\ \A c \in R : \E i \in DOMAIN new : new[i] = c
  <2>1. R \in SUBSET Conns
    OBVIOUS
  <2>2. new \in Seq(R) /\ IsInjective(new) /\ \A c \in R : \E i \in DOMAIN new : new[i] = c
    BY <2>1, ListOfConns
  <2>3. \A i \in DOMAIN new : new[i] \in R
    <3>. HIDE DEF R, new
    <3>. QED  BY <2>2, LenProperties
  <2>4. Len(new) \in Nat /\ DOMAIN new = 1 .. Len(new)
    <3>. HIDE DEF R, new
    <3>. QED  BY <2>2, LenProperties
  <2>5. \A i \in DOMAIN new : new[i] \in S /\ new[i] \in Conns /\ entry[new[i]] = 0
    <3>. HIDE DEF new
    <3>. QED  BY <2>3
  <2>. QED  BY <2>2, <2>4, <2>5
<1>2. /\ sock' = sock \o app
      /\ entry' = [c \in Conns |-> IF \E i \in DOMAIN new : new[i] = c
                                   THEN Len(sock) + (CHOOSE i \in DOMAIN new : new[i] = c)
                                   ELSE entry[c]]
  BY DEF Ensure
<1>. HIDE DEF R, new
<1>3. ASSUME NEW i \in DOMAIN new
      PROVE  /\ Opened(new[i]) \in SocketType /\ Opened(new[i]).conn = new[i]
             /\ Opened(new[i]).relay = "none" /\ Opened(new[i]).daemon = "connecting"
  BY <1>1, EmptyQueue, EmptySeq DEF Opened, SocketType
<1>4. /\ app \in Seq(SocketType) /\ Len(app) = Len(new)
      /\ \A i \in DOMAIN new : app[i] = Opened(new[i])
  <2>1. app \in [1 .. Len(new) -> SocketType]
    <3>. HIDE DEF SocketType
    <3>. QED  BY <1>1, <1>3
  <2>2. \A i \in DOMAIN new : app[i] = Opened(new[i])
    OBVIOUS
  <2>. HIDE DEF app, SocketType
  <2>. QED  BY <1>1, <2>1, <2>2
<1>. HIDE DEF app
<1>5. /\ Len(sock) \in Nat /\ Sockets = 1 .. Len(sock) /\ sock \in Seq(SocketType)
  BY Types
<1>6. /\ sock' \in Seq(SocketType) /\ Len(sock') = Len(sock) + Len(new)
      /\ \A i \in 1 .. Len(sock) + Len(new) :
           sock'[i] = IF i <= Len(sock) THEN sock[i] ELSE app[i - Len(sock)]
  <2>. HIDE DEF SocketType
  <2>1. /\ sock \o app \in Seq(SocketType) /\ Len(sock \o app) = Len(sock) + Len(app)
        /\ \A i \in 1 .. Len(sock) + Len(app) :
             (sock \o app)[i] = IF i <= Len(sock) THEN sock[i] ELSE app[i - Len(sock)]
    BY <1>4, <1>5, ConcatProperties
  <2>2. sock' = sock \o app /\ Len(app) = Len(new)
    BY <1>2, <1>4 DEF app
  <2>. QED  BY <2>1, <2>2
<1>7. Sockets' = 1 .. Len(sock) + Len(new) /\ Sockets \subseteq Sockets'
  <2>1. DOMAIN sock' = 1 .. Len(sock')
    <3>. HIDE DEF SocketType
    <3>. QED  BY <1>6, LenProperties
  <2>2. Sockets' = 1 .. Len(sock) + Len(new)
    BY <1>6, <2>1 DEF Sockets
  <2>. QED  BY <1>1, <1>5, <2>2
<1>8. \A s \in Sockets : sock'[s] = sock[s]
  BY <1>1, <1>5, <1>6
<1>9. \A i \in DOMAIN new : /\ Len(sock) + i \in Sockets' /\ Len(sock) + i \notin Sockets
                            /\ sock'[Len(sock) + i] = Opened(new[i])
                            /\ entry'[new[i]] = Len(sock) + i
  <2> TAKE i \in DOMAIN new
  <2>1. i \in 1 .. Len(new) /\ Len(sock) + i \in 1 .. Len(sock) + Len(new) /\ Len(sock) + i > Len(sock)
        /\ (Len(sock) + i) - Len(sock) = i
    BY <1>1, <1>5
  <2>2. sock'[Len(sock) + i] = Opened(new[i])
    BY <1>4, <1>5, <1>6, <2>1
  <2>3. (CHOOSE j \in DOMAIN new : new[j] = new[i]) = i
    BY <1>1 DEF IsInjective
  <2>4. new[i] \in Conns
    BY <1>1
  <2>5. entry'[new[i]] = Len(sock) + i
    BY <1>2, <2>3, <2>4
  <2>. QED  BY <1>5, <1>7, <2>1, <2>2, <2>5
<1>10. \A s \in Sockets' : s \notin Sockets =>
         /\ sock'[s].relay = "none" /\ sock'[s].daemon = "connecting"
         /\ sock'[s].conn \in S /\ entry'[sock'[s].conn] = s
  <2> SUFFICES ASSUME NEW s \in Sockets', s \notin Sockets
               PROVE  /\ sock'[s].relay = "none" /\ sock'[s].daemon = "connecting"
                      /\ sock'[s].conn \in S /\ entry'[sock'[s].conn] = s
    OBVIOUS
  <2>1. s - Len(sock) \in 1 .. Len(new) /\ s = Len(sock) + (s - Len(sock))
    BY <1>1, <1>5, <1>7
  <2>2. PICK i \in DOMAIN new : s = Len(sock) + i
    BY <1>1, <2>1
  <2>. QED  BY <1>1, <1>3, <1>9, <2>2
<1>11. \A c \in Conns : \/ entry'[c] = entry[c]
                        \/ \E i \in DOMAIN new : c = new[i]
  BY <1>2
<1>12. \A c \in Conns : entry'[c] # entry[c] =>
         /\ entry[c] = 0 /\ entry'[c] \in Sockets'
         /\ sock'[entry'[c]].conn = c /\ sock'[entry'[c]].daemon = "connecting"
  BY <1>1, <1>3, <1>9, <1>11
<1>13. entry' \in [Conns -> 0 .. Len(sock')]
  <2>1. \A c \in Conns : entry'[c] \in 0 .. Len(sock')
    <3> TAKE c \in Conns
    <3>1. entry[c] \in 0 .. Len(sock)
      BY Types
    <3>2. entry[c] \in 0 .. Len(sock')
      BY <1>1, <1>5, <1>6, <3>1
    <3>3. \A s \in Sockets' : s \in 0 .. Len(sock')
      BY <1>1, <1>5, <1>6, <1>7
    <3>. QED  BY <1>12, <3>2, <3>3
  <2>2. entry' = [c \in Conns |-> entry'[c]]
    BY <1>2
  <2>. QED  BY <2>1, <2>2
<1>14. \A c \in S : entry[c] = 0 => entry'[c] # entry[c]
  <2> SUFFICES ASSUME NEW c \in S, entry[c] = 0 PROVE entry'[c] # entry[c]
    OBVIOUS
  <2>1. PICK i \in DOMAIN new : new[i] = c
    BY <1>1 DEF R
  <2>. QED  BY <1>1, <1>5, <1>9, <2>1
<1>. QED  BY <1>6, <1>7, <1>8, <1>10, <1>12, <1>13, <1>14

LEMMA EnsureKeeps ==
    ASSUME Inv, NEW S \in SUBSET Conns, Ensure(S), UNCHANGED <<sent, got, up, pending>>, OthersOK'
    PROVE  Inv'
<1>1. /\ \A s \in Sockets : entry[sock[s].conn] # 0 => entry'[sock[s].conn] = entry[sock[s].conn]
      /\ \A c \in Conns : entry'[c] # 0 =>
            \/ entry'[c] = entry[c]
            \/ sock'[entry'[c]].conn = c /\ sock'[entry'[c]].daemon = "connecting"
  BY EnsureAdds, Types
<1>. QED  BY <1>1, EnsureAdds, AddedKeep

LEMMA DropKeeps ==
    ASSUME Inv, NEW S \in SUBSET Conns, Drop(S), UNCHANGED <<sent, got, up, pending>>, OthersOK'
    PROVE  Inv'
<1>1. /\ entry' = [c \in Conns |-> IF c \in S THEN 0 ELSE entry[c]]
      /\ sock' = [s \in Sockets |->
                    IF \E c \in S : entry[c] = s
                    THEN [sock[s] EXCEPT !.daemon = IF @ = "connecting" THEN "closed" ELSE "closing"]
                    ELSE sock[s]]
  BY DEF Drop
<1>2. ASSUME NEW s \in Sockets
      PROVE  /\ Calm(sock[s], sock'[s])
             /\ (\E c \in S : entry[c] = s) => sock'[s].daemon \in {"closed", "closing"}
             /\ ~(\E c \in S : entry[c] = s) => sock'[s] = sock[s]
  <2> DEFINE y == [sock[s] EXCEPT !.daemon = IF @ = "connecting" THEN "closed" ELSE "closing"]
  <2>1. sock[s] \in SocketType
    BY Types
  <2>2. /\ y \in SocketType /\ y.conn = sock[s].conn /\ y.relay = sock[s].relay
        /\ y.daemon \in {"closed", "closing"}
    BY <2>1 DEF SocketType
  <2>3. sock'[s] = IF \E c \in S : entry[c] = s THEN y ELSE sock[s]
    BY <1>1
  <2>. HIDE DEF y
  <2>. QED  BY <2>1, <2>2, <2>3 DEF Calm, Reads
<1>3. \A d \in Conns : entry[d] # 0 => /\ entry[d] \in Sockets /\ sock[entry[d]].daemon # "closed"
                                      /\ sock[entry[d]].conn = d
  BY Types, TypesAre DEF Inv, SocketsOK
<1>4. \A c \in Conns : entry'[c] # 0 => entry'[c] = entry[c] /\ sock'[entry[c]].daemon # "closed"
  <2> SUFFICES ASSUME NEW c \in Conns, entry'[c] # 0
               PROVE  entry'[c] = entry[c] /\ sock'[entry[c]].daemon # "closed"
    OBVIOUS
  <2>1. c \notin S /\ entry'[c] = entry[c]
    BY <1>1
  <2>2. ~(\E d \in S : entry[d] = entry[c])
    BY <1>3, <2>1
  <2>. QED  BY <1>2, <1>3, <2>1, <2>2
<1>5. \A s \in Sockets : Reads(sock'[s]) \/ sock'[s].daemon = "connecting" =>
        entry'[sock[s].conn] = entry[sock[s].conn]
  <2> SUFFICES ASSUME NEW s \in Sockets, Reads(sock'[s]) \/ sock'[s].daemon = "connecting"
               PROVE  entry'[sock[s].conn] = entry[sock[s].conn]
    OBVIOUS
  <2>1. ~(\E c \in S : entry[c] = s) /\ sock'[s] = sock[s]
    BY <1>2 DEF Reads
  <2>2. entry[sock[s].conn] = s
    BY <2>1 DEF Inv, EntriesRead
  <2>3. sock[s].conn \notin S /\ sock[s].conn \in Conns
    BY <2>1, <2>2, Types
  <2>. QED  BY <1>1, <2>3
<1>6. entry' \in [Conns -> 0 .. Len(sock)]
  <2>1. 0 \in 0 .. Len(sock) /\ entry \in [Conns -> 0 .. Len(sock)]
    BY Types
  <2>. QED  BY <1>1, <2>1
<1>7. sock' = [s \in Sockets |-> sock'[s]]
  BY <1>1
<1>8. QuietStep
  BY <1>2, <1>4, <1>5, <1>6, <1>7, Types DEF QuietStep
<1>. QED  BY <1>8, QuietKeeps

LEMMA OrderArrivesKeeps == ASSUME Inv, OrderArrives PROVE Inv'
<1>1. orders # <<>> /\ orders \in Seq(OrderType)
  BY OthersAre DEF OrderArrives, OthersOK
<1>2. Head(orders) \in OrderType /\ Tail(orders) \in Seq(OrderType)
  <2>. HIDE DEF OrderType
  <2>. QED  BY <1>1, HeadTailProperties
<1>3. Head(orders).ids \in SUBSET Conns
  BY <1>2 DEF OrderType
<1>4. OthersOK'
  BY <1>2, OthersAre DEF OrderArrives, OthersOK
<1>5. /\ UNCHANGED <<sent, got, up, pending>>
      /\ Ensure(Head(orders).ids) \/ Drop(Head(orders).ids)
  BY DEF OrderArrives
<1>. QED  BY <1>3, <1>4, <1>5, EnsureKeeps, DropKeeps

\* A data socket is accepted.
LEMMA SocketOpensKeeps ==
    ASSUME Inv, NEW s \in Sockets, NEW n \in 0 .. Len(pending[sock[s].conn]), SocketOpens(s, n)
    PROVE  Inv'
<1> DEFINE c == sock[s].conn
           b == pending[c]
           y == [sock[s] EXCEPT !.relay = "open", !.in = SubSeq(b, 1, n),
                                !.daemon = IF n = Len(b) THEN "waiting" ELSE "closed"]
           rest == IF n = Len(b) THEN <<>> ELSE <<b[n + 1]>>
<1>1. /\ sock[s].daemon = "connecting"
      /\ n = Len(b) \/ dataFaults < MaxDataFaults
      /\ pending' = [pending EXCEPT ![c] = rest]
      /\ sock' = [t \in Sockets |->
                    CASE t = s -> y
                      [] t \in Servers(c) \ {s} -> [sock[t] EXCEPT !.relay = "closing"]
                      [] OTHER -> sock[t]]
      /\ n = Len(b) => entry' = entry /\ dataFaults' = dataFaults
      /\ n # Len(b) => entry' = [entry EXCEPT ![c] = 0] /\ dataFaults' = dataFaults + 1
      /\ UNCHANGED <<client, sent, got, up, timer, control, orders, faults>>
  <2>1. pending' = [pending EXCEPT ![c] = IF n = Len(@) THEN <<>> ELSE <<@[n + 1]>>]
    BY DEF SocketOpens
  <2>2. pending' = [pending EXCEPT ![c] = rest]
    BY <2>1, Types
  <2>. QED  BY <2>2 DEF SocketOpens
<1>2. /\ c \in Conns /\ entry[c] = s /\ s # 0 /\ b \in Seq(Frames) /\ Rising(b) /\ Len(b) \in Nat
      /\ sock[s] \in SocketType /\ Len(b) <= MaxPending /\ n \in 0 .. Len(b)
  <2>1. c \in Conns /\ s # 0 /\ sock[s] \in SocketType
    BY Types
  <2>2. entry[c] = s
    BY <1>1 DEF Inv, EntriesRead
  <2>3. b \in Seq(Frames) /\ Rising(b) /\ Len(b) <= MaxPending
    BY <2>1, Types, LineIs
  <2>. QED  BY <2>1, <2>2, <2>3, LenProperties
<1>3. /\ SubSeq(b, 1, n) \in Seq(Frames) /\ Rising(SubSeq(b, 1, n))
      /\ Messages(SubSeq(b, 1, n)) \subseteq Messages(b)
      /\ n < Len(b) => /\ <<b[n + 1]>> \in Seq(Frames) /\ Rising(<<b[n + 1]>>)
                       /\ Messages(<<b[n + 1]>>) \subseteq Messages(b) /\ Len(<<b[n + 1]>>) = 1
  BY <1>2, PartsOfQueue
<1>4. /\ rest \in Seq(Frames) /\ Rising(rest) /\ Messages(rest) \subseteq Messages(b)
      /\ Len(rest) <= MaxPending
      /\ n = Len(b) => rest = <<>>
  BY <1>2, <1>3, EmptyQueue, EmptySeq, BoundsAssumption
<1>5. /\ y \in SocketType /\ y.conn = c /\ y.relay = "open" /\ y.in = SubSeq(b, 1, n)
      /\ y.daemon = IF n = Len(b) THEN "waiting" ELSE "closed"
  BY <1>2, <1>3 DEF SocketType
<1>6. /\ \A d \in Conns : pending'[d] = IF d = c THEN rest ELSE pending[d]
      /\ pending' \in [Conns -> Seq(Frames)]
  <2>. HIDE DEF c, rest
  <2>. QED  BY <1>1, <1>2, <1>4, Types
<1>. HIDE DEF y, rest, c
<1>7. sock'[s] = y /\ sock' = [t \in Sockets |-> sock'[t]]
  <2>1. sock' = [t \in Sockets |-> CASE t = s -> y
                                   [] t \in Servers(c) \ {s} -> [sock[t] EXCEPT !.relay = "closing"]
                                   [] OTHER -> sock[t]]
    BY <1>1
  <2>. QED  BY <2>1
<1>8. ASSUME NEW t \in Sockets, t # s
      PROVE  /\ sock'[t] \in SocketType /\ sock'[t].conn = sock[t].conn
             /\ sock'[t].daemon = sock[t].daemon /\ sock'[t].in = sock[t].in
             /\ sock'[t].relay = "open" => sock[t].relay = "open" /\ sock[t].conn # c
  <2> DEFINE z == [sock[t] EXCEPT !.relay = "closing"]
  <2>1. sock[t] \in SocketType
    BY Types
  <2>2. /\ z \in SocketType /\ z.conn = sock[t].conn /\ z.relay = "closing"
        /\ z.daemon = sock[t].daemon /\ z.in = sock[t].in
    BY <2>1 DEF SocketType
  <2>3. sock'[t] = IF t \in Servers(c) THEN z ELSE sock[t]
    BY <1>1, <1>8
  <2>4. t \notin Servers(c) => ~(sock[t].relay = "open" /\ sock[t].conn = c)
    BY DEF Servers
  <2>. HIDE DEF z
  <2>. QED  BY <2>1, <2>2, <2>3, <2>4
\* A data socket of c beside s is none the daemon reads.
<1>9. \A t \in Sockets : t # s /\ (Reads(sock'[t]) \/ sock'[t].daemon = "connecting") =>
        /\ Reads(sock[t]) \/ sock[t].daemon = "connecting"
        /\ Reads(sock'[t]) => Reads(sock[t])
        /\ sock'[t].conn # c /\ sock'[t].conn = sock[t].conn /\ entry[sock[t].conn] = t
  <2> SUFFICES ASSUME NEW t \in Sockets, t # s, Reads(sock'[t]) \/ sock'[t].daemon = "connecting"
               PROVE  /\ Reads(sock[t]) \/ sock[t].daemon = "connecting"
                      /\ Reads(sock'[t]) => Reads(sock[t])
                      /\ sock'[t].conn # c /\ sock'[t].conn = sock[t].conn /\ entry[sock[t].conn] = t
    OBVIOUS
  <2>1. sock'[t].daemon = sock[t].daemon /\ sock'[t].conn = sock[t].conn
    BY <1>8
  <2>2. Reads(sock[t]) \/ sock[t].daemon = "connecting"
    BY <2>1 DEF Reads
  <2>3. entry[sock[t].conn] = t
    BY <2>2 DEF Inv, EntriesRead
  <2>. QED  BY <1>2, <2>1, <2>2, <2>3 DEF Reads
<1>10. sock' \in Seq(SocketType) /\ Len(sock') = Len(sock) /\ Sockets' = Sockets
  <2>1. \A t \in Sockets : sock'[t] \in SocketType
    BY <1>5, <1>7, <1>8
  <2>. QED  BY <1>7, <2>1, SocketsKeepType
<1>11. /\ entry' \in [Conns -> 0 .. Len(sock)]
       /\ \A d \in Conns : d # c => entry'[d] = entry[d]
       /\ n = Len(b) => entry' = entry
       /\ n # Len(b) => entry'[c] = 0
  <2>1. entry \in [Conns -> 0 .. Len(sock)] /\ 0 \in 0 .. Len(sock)
    BY Types
  <2>2. CASE n = Len(b)
    BY <1>1, <2>1, <2>2
  <2>3. CASE n # Len(b)
    <3>1. entry' = [entry EXCEPT ![c] = 0]
      BY <1>1, <2>3
    <3>. QED  BY <1>2, <2>1, <2>3, <3>1
  <2>. QED  BY <2>2, <2>3
<1>12. TypeOK'
  <2>1. LineOK'
    <3>1. \A d \in Conns : Len(pending'[d]) <= MaxPending
      BY <1>4, <1>6, Types
    <3>. QED  BY <1>1, <1>6, <3>1, Types DEF LineOK
  <2>2. OthersOK'
    <3>1. dataFaults' \in 0 .. MaxDataFaults
      <4>1. dataFaults \in 0 .. MaxDataFaults /\ MaxDataFaults \in Nat
        BY OthersAre, BoundsAssumption DEF OthersOK
      <4>2. CASE n = Len(b)
        BY <1>1, <4>1, <4>2
      <4>3. CASE n # Len(b)
        <5>1. dataFaults < MaxDataFaults /\ dataFaults' = dataFaults + 1
          BY <1>1, <4>3
        <5>. QED  BY <4>1, <5>1
      <4>. QED  BY <4>2, <4>3
    <3>. QED  BY <1>1, <3>1, OthersAre DEF OthersOK
  <2>3. ASSUME NEW d \in Conns, entry'[d] # 0
        PROVE  sock'[entry'[d]].conn = d /\ sock'[entry'[d]].daemon # "closed"
    <3>1. CASE d = c
      BY <1>2, <1>5, <1>7, <1>11, <2>3, <3>1
    <3>2. CASE d # c
      <4>1. entry'[d] = entry[d]
        BY <1>11, <3>2
      <4>2. entry[d] \in Sockets /\ sock[entry[d]].conn = d /\ sock[entry[d]].daemon # "closed"
        BY <2>3, <4>1, Types, TypesAre DEF Inv, SocketsOK
      <4>3. entry[d] # s
        BY <3>2, <4>2 DEF c
      <4>. QED  BY <1>8, <4>1, <4>2, <4>3
    <3>. QED  BY <3>1, <3>2
  <2>4. SocketsOK'
    <3>. HIDE DEF SocketType
    <3>. QED  BY <1>10, <1>11, <2>3 DEF SocketsOK
  <2>. QED  BY <2>1, <2>2, <2>4, TypesAreNext
<1>13. OneServerSocket'
  <2> SUFFICES ASSUME NEW t \in Sockets, NEW u \in Sockets, t # u, sock'[t].conn = sock'[u].conn,
                      sock'[t].relay = "open", sock'[u].relay = "open"
               PROVE  FALSE
    BY <1>10 DEF OneServerSocket
  <2>1. t # s /\ u # s
    BY <1>5, <1>7, <1>8
  <2>2. /\ sock[t].conn = sock[u].conn /\ sock[t].relay = "open" /\ sock[u].relay = "open"
    BY <1>8, <2>1
  <2>. QED  BY <2>2 DEF Inv, OneServerSocket
<1>14. EntriesRead'
  <2> SUFFICES ASSUME NEW t \in Sockets, Reads(sock'[t]) \/ sock'[t].daemon = "connecting"
               PROVE  entry'[sock'[t].conn] = t
    BY <1>10 DEF EntriesRead
  <2>1. CASE t = s
    <3>1. n = Len(b)
      BY <1>5, <1>7, <2>1 DEF Reads
    <3>. QED  BY <1>2, <1>5, <1>7, <1>11, <2>1, <3>1
  <2>2. CASE t # s
    BY <1>9, <1>11, <2>2, Types
  <2>. QED  BY <2>1, <2>2
<1>15. NothingBuffered'
  <2> SUFFICES ASSUME NEW t \in Sockets, Reads(sock'[t]), sock'[t].relay = "open"
               PROVE  pending'[sock'[t].conn] = <<>>
    BY <1>10 DEF NothingBuffered
  <2>1. CASE t = s
    <3>1. n = Len(b)
      BY <1>5, <1>7, <2>1 DEF Reads
    <3>. QED  BY <1>2, <1>4, <1>5, <1>6, <1>7, <2>1, <3>1
  <2>2. CASE t # s
    <3>1. /\ Reads(sock[t]) /\ sock[t].relay = "open" /\ sock'[t].conn # c
          /\ sock'[t].conn = sock[t].conn
      BY <1>8, <1>9, <2>2
    <3>2. pending[sock[t].conn] = <<>> /\ sock[t].conn \in Conns
      BY <3>1, Types DEF Inv, NothingBuffered
    <3>. QED  BY <1>6, <3>1, <3>2
  <2>. QED  BY <2>1, <2>2
<1>16. ASSUME NEW d \in Conns
       PROVE  /\ Rising(pending'[d]) /\ Messages(pending'[d]) \subseteq Messages(pending[d])
  BY <1>4, <1>6, LineIs
<1>17. LineRises'
  <2>1. ASSUME NEW d \in Conns
        PROVE  Before(got[d], pending'[d]) /\ Before(pending'[d], up[d]) /\ UpTo(pending'[d], sent[d])
    BY <1>16, LineIs DEF Before, UpTo
  <2>2. got' = got /\ up' = up /\ sent' = sent
    BY <1>1
  <2>. QED  BY <1>16, <2>1, <2>2, LineIs DEF LineRises
<1>18. SocketsFit'
  <2> SUFFICES ASSUME NEW t \in Sockets, Reads(sock'[t])
               PROVE  InLine(got'[sock'[t].conn], sock'[t].in, pending'[sock'[t].conn],
                             up'[sock'[t].conn], sent'[sock'[t].conn])
    BY <1>10 DEF SocketsFit
  <2>0. got' = got /\ up' = up /\ sent' = sent
    BY <1>1
  <2>1. CASE t = s
    <3> DEFINE q == SubSeq(b, 1, n)
    <3>1. n = Len(b) /\ sock'[t].in = q /\ sock'[t].conn = c
      BY <1>5, <1>7, <2>1 DEF Reads
    <3>2. pending'[c] = <<>>
      BY <1>2, <1>4, <1>6, <3>1
    <3>3. Rising(q) /\ Messages(q) \subseteq Messages(b)
      BY <1>3
    <3>4. Before(got[c], b) /\ Before(b, up[c]) /\ UpTo(b, sent[c])
      BY <1>2, LineIs
    <3>. HIDE DEF q, b
    <3>5. UpTo(q, sent[c]) /\ Before(got[c], q) /\ Before(q, <<>>) /\ Before(q, up[c])
      BY <3>3, <3>4, EmptyQueue DEF Before, UpTo
    <3>. QED  BY <2>0, <3>1, <3>2, <3>3, <3>5 DEF InLine
  <2>2. CASE t # s
    <3>1. /\ Reads(sock[t]) /\ sock'[t].conn # c /\ sock'[t].conn = sock[t].conn
          /\ sock'[t].in = sock[t].in /\ sock[t].conn \in Conns
      BY <1>8, <1>9, <2>2, Types
    <3>2. pending'[sock[t].conn] = pending[sock[t].conn]
      BY <1>6, <3>1
    <3>3. InLine(got[sock[t].conn], sock[t].in, pending[sock[t].conn],
                 up[sock[t].conn], sent[sock[t].conn])
      BY <3>1 DEF Inv, SocketsFit
    <3>. QED  BY <2>0, <3>1, <3>2, <3>3
  <2>. QED  BY <2>1, <2>2
<1>. QED  BY <1>12, <1>13, <1>14, <1>15, <1>17, <1>18 DEF Inv

\* The daemon takes the first frame of a data socket.
LEMMA SocketReceivesKeeps == ASSUME Inv, NEW s \in Sockets, SocketReceives(s) PROVE Inv'
<1> DEFINE c == sock[s].conn
           p == sock[s].in
           f == Head(p)
           now == Answer(s, f)
           y == [sock[s] EXCEPT !.in = Tail(p), !.daemon = now.daemon, !.out = now.out]
<1>1. /\ Reads(sock[s]) /\ p # <<>>
      /\ got' = IF now.daemon = "open" /\ f # Hello THEN [got EXCEPT ![c] = Append(@, f)] ELSE got
      /\ UNCHANGED <<client, sent, up, pending, timer, control, orders, entry, faults, dataFaults>>
  BY DEF SocketReceives, Reads
<1>2. /\ c \in Conns /\ entry[c] = s /\ sock[s] \in SocketType /\ p \in Seq(Frames)
      /\ Rising(p) /\ UpTo(p, sent[c]) /\ Before(got[c], p)
      /\ Before(p, pending[c]) /\ Before(p, up[c])
  <2>1. entry[c] = s
    BY <1>1 DEF Inv, EntriesRead
  <2>. QED  BY <1>1, <2>1, Types, SocketFits
<1>3. /\ Tail(p) \in Seq(Frames) /\ f \in Frames
      /\ Rising(Tail(p)) /\ Messages(Tail(p)) \subseteq Messages(p)
      /\ f # Hello => f \in Messages(p) /\ \A w \in Messages(Tail(p)) : f < w
  BY <1>1, <1>2, TailOfQueue
<1>4. sock' = [sock EXCEPT ![s] = y]
  <2>1. sock' = [sock EXCEPT ![s].in = Tail(@), ![s].daemon = now.daemon, ![s].out = now.out]
    BY DEF SocketReceives
  <2>2. sock = [t \in Sockets |-> sock[t]]
    BY Types
  <2>. HIDE DEF now
  <2>. QED  BY <2>1, <2>2
<1>5. /\ now.daemon \in {"waiting", "open", "closing"} /\ now.out \in Seq({"ready"})
      /\ now.daemon = "closing" \/ now.daemon = "open"
  <2>. HIDE DEF f
  <2>1. sock[s].out \in Seq({"ready"})
    BY <1>2 DEF SocketType
  <2>2. Append(sock[s].out, "ready") \in Seq({"ready"})
    BY <2>1, AppendProperties
  <2>. QED  BY <1>1, <2>1, <2>2 DEF Answer, Reads
<1>. HIDE DEF now
<1>6. /\ y \in SocketType /\ y.conn = c /\ y.relay = sock[s].relay /\ y.daemon = now.daemon
      /\ y.in = Tail(p)
  <2>. HIDE DEF p
  <2>. QED  BY <1>2, <1>3, <1>5 DEF SocketType
<1>. HIDE DEF y
<1>7. OthersOK'
  BY <1>1, OthersAre DEF OthersOK
<1>8. CASE now.daemon = "closing"
  <2>1. Calm(sock[s], y)
    BY <1>6, <1>8 DEF Calm, Reads
  <2>2. UNCHANGED <<sent, got, up, pending>> /\ entry' = entry /\ y.daemon # "closed"
    BY <1>1, <1>6, <1>8
  <2>. QED  BY <1>4, <1>7, <2>1, <2>2, OneSocketKeeps
<1>9. CASE now.daemon = "open"
  <2>1. /\ \A t \in Sockets : sock'[t] = IF t = s THEN y ELSE sock[t]
        /\ sock' = [t \in Sockets |-> sock'[t]]
    <3>. HIDE DEF SocketType
    <3>. QED  BY <1>4, Types
  <2>2. \A t \in Sockets : /\ sock'[t] \in SocketType /\ sock'[t].conn = sock[t].conn
                           /\ sock'[t].relay = sock[t].relay
    BY <1>6, <2>1, Types
  <2>3. sock' \in Seq(SocketType) /\ Len(sock') = Len(sock) /\ Sockets' = Sockets
    BY <2>1, <2>2, SocketsKeepType
  <2>4. \A t \in Sockets : Reads(sock'[t]) \/ sock'[t].daemon = "connecting" =>
          /\ Reads(sock[t]) \/ sock[t].daemon = "connecting"
          /\ Reads(sock'[t]) => Reads(sock[t])
    BY <1>1, <2>1 DEF Reads
  <2>. HIDE DEF c, p, f
  <2> DEFINE g == IF f # Hello THEN Append(got[c], f) ELSE got[c]
  <2>5. /\ got' = [got EXCEPT ![c] = g]
        /\ \A d \in Conns : got'[d] = IF d = c THEN g ELSE got[d]
    <3>1. got' = [got EXCEPT ![c] = g]
      <4>1. got = [d \in Conns |-> got[d]]
        BY Types
      <4>. QED  BY <1>1, <1>2, <1>9, <4>1
    <3>. HIDE DEF g
    <3>. QED  BY <1>2, <3>1, Types
  <2>6. /\ g \in Seq(1 .. MaxFrames) /\ Rising(g)
        /\ \A w \in Messages(g) : w \in Messages(got[c]) \/ (w = f /\ f # Hello)
    <3>1. got[c] \in Seq(1 .. MaxFrames) /\ got[c] \in Seq(Frames) /\ Rising(got[c])
      BY <1>2, Types, LineIs
    <3>2. CASE f = Hello
      BY <3>1, <3>2
    <3>3. CASE f # Hello
      <4>1. f \in 1 .. MaxFrames
        BY <1>3, <3>3 DEF Frames
      <4>2. \A v \in Messages(got[c]) : v < f
        BY <1>2, <1>3, <3>3 DEF Before
      <4>3. Append(got[c], f) \in Seq(1 .. MaxFrames)
        BY <3>1, <4>1, AppendProperties
      <4>4. /\ Rising(Append(got[c], f))
            /\ \A w \in Messages(Append(got[c], f)) : w \in Messages(got[c]) \/ (w = f /\ f # Hello)
        BY <1>3, <3>1, <4>2, AppendToQueue
      <4>. QED  BY <3>3, <4>3, <4>4
    <3>. QED  BY <3>2, <3>3
  <2>. HIDE DEF g
  <2>7. /\ Before(g, pending[c]) /\ Before(g, up[c]) /\ UpTo(g, sent[c]) /\ Before(g, Tail(p))
    <3>1. Before(got[c], pending[c]) /\ Before(got[c], up[c]) /\ UpTo(got[c], sent[c])
      BY <1>2, LineIs
    <3>2. Before(g, pending[c]) /\ Before(g, up[c])
      BY <1>2, <1>3, <2>6, <3>1 DEF Before
    <3>3. UpTo(g, sent[c])
      BY <1>2, <1>3, <2>6, <3>1 DEF UpTo
    <3>4. Before(g, Tail(p))
      BY <1>2, <1>3, <2>6 DEF Before
    <3>. QED  BY <3>2, <3>3, <3>4
  <2>8. TypeOK'
    <3>1. got' \in [Conns -> Seq(1 .. MaxFrames)]
      BY <2>5, <2>6, Types
    <3>2. LineOK'
      BY <1>1, <3>1, Types DEF LineOK
    <3>3. ASSUME NEW d \in Conns, entry[d] # 0
          PROVE  sock'[entry[d]].conn = d /\ sock'[entry[d]].daemon # "closed"
      <4>1. entry[d] \in Sockets /\ sock[entry[d]].conn = d /\ sock[entry[d]].daemon # "closed"
        BY <3>3, Types, TypesAre DEF Inv, SocketsOK
      <4>2. y.daemon # "closed"
        BY <1>6, <1>9
      <4>. QED  BY <2>1, <2>2, <4>1, <4>2
    <3>4. entry' = entry /\ entry \in [Conns -> 0 .. Len(sock)]
      BY <1>1, Types
    <3>5. SocketsOK'
      <4>. HIDE DEF SocketType
      <4>. QED  BY <2>3, <3>3, <3>4 DEF SocketsOK
    <3>. QED  BY <1>7, <3>2, <3>5, TypesAreNext
  <2>9. OneServerSocket'
    BY <2>2, <2>3, NoneOpensKeeps
  <2>10. EntriesRead'
    <3> SUFFICES ASSUME NEW t \in Sockets, Reads(sock'[t]) \/ sock'[t].daemon = "connecting"
                 PROVE  entry'[sock'[t].conn] = t
      BY <2>3 DEF EntriesRead
    <3>1. entry[sock[t].conn] = t
      BY <2>4 DEF Inv, EntriesRead
    <3>. QED  BY <1>1, <2>2, <3>1
  <2>11. NothingBuffered'
    <3> SUFFICES ASSUME NEW t \in Sockets, Reads(sock'[t]), sock'[t].relay = "open"
                 PROVE  pending'[sock'[t].conn] = <<>>
      BY <2>3 DEF NothingBuffered
    <3>1. pending[sock[t].conn] = <<>>
      BY <2>2, <2>4 DEF Inv, NothingBuffered
    <3>. QED  BY <1>1, <2>2, <3>1
  <2>12. LineRises'
    <3>1. ASSUME NEW d \in Conns
          PROVE  /\ Rising(got'[d]) /\ Before(got'[d], pending[d]) /\ Before(got'[d], up[d])
                 /\ UpTo(got'[d], sent[d])
      BY <2>5, <2>6, <2>7, LineIs
    <3>2. UNCHANGED <<sent, up, pending>>
      BY <1>1
    <3>. QED  BY <3>1, <3>2, LineIs DEF LineRises
  <2>13. SocketsFit'
    <3> SUFFICES ASSUME NEW t \in Sockets, Reads(sock'[t])
                 PROVE  InLine(got'[sock'[t].conn], sock'[t].in, pending'[sock'[t].conn],
                               up'[sock'[t].conn], sent'[sock'[t].conn])
      BY <2>3 DEF SocketsFit
    <3>0. UNCHANGED <<sent, up, pending>>
      BY <1>1
    <3>1. CASE t = s
      <4>1. sock'[t].conn = c /\ sock'[t].in = Tail(p) /\ got'[c] = g
        BY <1>2, <1>6, <2>1, <2>5, <3>1
      <4>2. Before(Tail(p), pending[c]) /\ Before(Tail(p), up[c]) /\ UpTo(Tail(p), sent[c])
        BY <1>2, <1>3 DEF Before, UpTo
      <4>. QED  BY <1>3, <2>7, <3>0, <4>1, <4>2 DEF InLine
    <3>2. CASE t # s
      <4>1. Reads(sock[t]) /\ sock'[t] = sock[t] /\ sock[t].conn \in Conns
        BY <2>1, <2>4, <3>2, Types
      <4>2. entry[sock[t].conn] = t
        BY <4>1 DEF Inv, EntriesRead
      <4>3. got'[sock[t].conn] = got[sock[t].conn]
        BY <1>2, <2>5, <3>2, <4>1, <4>2
      <4>4. InLine(got[sock[t].conn], sock[t].in, pending[sock[t].conn],
                   up[sock[t].conn], sent[sock[t].conn])
        BY <4>1 DEF Inv, SocketsFit
      <4>. QED  BY <3>0, <4>1, <4>3, <4>4
    <3>. QED  BY <3>1, <3>2
  <2>. QED  BY <2>8, <2>9, <2>10, <2>11, <2>12, <2>13 DEF Inv
<1>. QED  BY <1>5, <1>8, <1>9

------------------------------------------------------------------------------
(* The theorems.                                                              *)

LEMMA InitInv == Init => Inv
<1> SUFFICES ASSUME Init PROVE Inv
  OBVIOUS
<1>1. /\ client = [c \in Conns |-> "new"]
      /\ sent = [c \in Conns |-> 0] /\ got = [c \in Conns |-> <<>>]
      /\ up = [c \in Conns |-> <<>>] /\ pending = [c \in Conns |-> <<>>]
      /\ timer = [c \in Conns |-> "off"]
      /\ control = "down" /\ orders = <<>> /\ entry = [c \in Conns |-> 0] /\ sock = <<>>
      /\ faults = 0 /\ dataFaults = 0
  BY DEF Init
<1>2. Sockets = {} /\ Len(sock) = 0 /\ sock \in Seq(SocketType)
  BY <1>1, EmptySeq DEF Sockets
<1>3. OthersOK
  BY <1>1, EmptySeq, BoundsAssumption DEF OthersOK
<1>4. LineOK
  <2>1. <<>> \in Seq(1 .. MaxFrames) /\ <<>> \in Seq(Frames) /\ Len(<<>>) = 0
    BY EmptySeq, EmptyQueue
  <2>. QED  BY <1>1, <2>1, BoundsAssumption DEF LineOK
<1>5. SocketsOK
  <2>. HIDE DEF SocketType
  <2>. QED  BY <1>1, <1>2 DEF SocketsOK
<1>6. LineRises
  BY <1>1, EmptyQueue DEF LineRises, Before, UpTo
<1>7. OneServerSocket /\ EntriesRead /\ NothingBuffered /\ SocketsFit
  BY <1>2 DEF OneServerSocket, EntriesRead, NothingBuffered, SocketsFit
<1>. QED  BY <1>3, <1>4, <1>5, <1>6, <1>7, TypesAre DEF Inv

LEMMA NextInv == ASSUME Inv, [Next]_vars PROVE Inv'
<1>1. CASE \E c \in Conns : ClientStep(c)
  BY <1>1, IdleStepsKeep, ClientSendsKeeps DEF ClientStep
<1>2. CASE RelayStep
  BY <1>2, RelayFromClientKeeps, ClientClosesKeeps, IdleStepsKeep, RelayFromServerKeeps,
     SocketClosesAtRelayKeeps, HibernateKeeps DEF RelayStep
<1>3. CASE DaemonStep
  BY <1>3, IdleStepsKeep, OrderArrivesKeeps, SocketReceivesKeeps, SocketEndsKeeps,
     SocketOpensKeeps DEF DaemonStep
<1>4. CASE Fault
  BY <1>4, IdleStepsKeep, DaemonRestartsKeeps, SocketEndsKeeps DEF Fault
<1>5. CASE UNCHANGED vars
  <2>1. OthersOK'
    BY <1>5, OthersAre DEF vars, OthersOK
  <2>. QED  BY <1>5, <2>1, IdleKeeps DEF vars
<1>. QED  BY <1>1, <1>2, <1>3, <1>4, <1>5 DEF Next

LEMMA InvHolds == Spec => []Inv
BY InitInv, NextInv, PTL DEF Spec

(* Every variable keeps its type, and an entry of the daemon is a data socket *)
(* of its connection that the daemon has not seen closed.                     *)
THEOREM TypeCorrect == Spec => []TypeOK
<1>1. Inv => TypeOK
  BY DEF Inv
<1>. QED  BY <1>1, InvHolds, PTL

(* The relay never has two live data sockets of one connection, whatever      *)
(* fails and whenever the daemon restarts.                                    *)
THEOREM OneServerSocketHolds == Spec => []OneServerSocket
<1>1. Inv => OneServerSocket
  BY DEF Inv
<1>. QED  BY <1>1, InvHolds, PTL

(* The daemon handles no message of a connection twice or after a later one.  *)
THEOREM MessagesInOrderHolds == Spec => []MessagesInOrder
<1>1. ASSUME Inv PROVE MessagesInOrder
  <2> SUFFICES ASSUME NEW c \in Conns, NEW i \in DOMAIN got[c], NEW j \in DOMAIN got[c], i < j
               PROVE  got[c][i] < got[c][j]
    BY DEF MessagesInOrder
  <2>1. got[c] \in Seq(1 .. MaxFrames) /\ Rising(got[c])
    BY <1>1, Types, LineIs
  <2>2. got[c][i] \in 1 .. MaxFrames /\ got[c][j] \in 1 .. MaxFrames
    BY <2>1, LenProperties
  <2>. QED  BY <2>1, <2>2 DEF Rising, Hello
<1>. QED  BY <1>1, InvHolds, PTL

------------------------------------------------------------------------------
(* A connecting client is not forgotten.                                      *)

\* A control socket that is new has its list of connections before it; orders
\* are about clients that have connected, or have gone.
OrdersFit ==
    /\ control = "fresh" => orders # <<>>
    /\ control = "down" => orders = <<>>
    /\ \A i \in DOMAIN orders : \A c \in orders[i].ids :
         /\ client[c] # "new"
         /\ orders[i].type = "drop" => client[c] = "gone"

\* The daemon has seen a data socket opened, the relay has accepted it, and
\* when it closes at the relay its client goes too.
Seen(x) == x.daemon \in {"waiting", "open", "closing"}
SocketsKnown ==
    \A s \in Sockets :
        /\ client[sock[s].conn] # "new"
        /\ sock[s].relay = "closed" => client[sock[s].conn] \in {"closing", "gone"}
        /\ Seen(sock[s]) => sock[s].relay # "none"

Served(c) == Servers(c) # {}
Opening(c) == entry[c] # 0 /\ sock[entry[c]].daemon = "connecting"
Told(c) ==
    \/ control = "down"
    \/ control = "fresh" /\ Head(orders).type = "ensure" /\ c \in Head(orders).ids
Expected(c) == Served(c) \/ Opening(c) \/ timer[c] # "off" \/ Told(c)

ExpectFits ==
    /\ OrdersFit /\ SocketsKnown
    /\ dataFaults = 0 => \A c \in Conns : client[c] = "hello" => Expected(c)

\* A client connects once and, once it leaves, does not come back.
GoesOn(x, y) ==
    /\ x # "new" => y # "new"
    /\ x = "gone" => y = "gone"
    /\ x \in {"closing", "gone"} => y \in {"closing", "gone"}
    /\ y = "hello" => x \in {"new", "hello"}
ClientsGoOn ==
    \A c \in Conns : /\ GoesOn(client[c], client'[c])
                     /\ client'[c] = "hello" /\ client[c] = "new" => timer'[c] # "off"

LEMMA ClientsAlwaysGoOn == ASSUME Inv, Next PROVE ClientsGoOn
<1>0. client \in [Conns -> {"new", "hello", "open", "closing", "gone"}]
      /\ timer \in [Conns -> {"off", "nudge", "reset"}]
  BY OthersAre DEF OthersOK
<1>1. CASE UNCHANGED client
  BY <1>0, <1>1 DEF ClientsGoOn, GoesOn
<1>2. CASE \E c \in Conns : Connect(c)
  BY <1>0, <1>2 DEF Connect, ClientsGoOn, GoesOn
<1>3. CASE \E c \in Conns : Leave(c)
  BY <1>0, <1>3 DEF Leave, ClientsGoOn, GoesOn
<1>4. CASE \E c \in Conns : ClientCloses(c)
  BY <1>0, <1>4 DEF ClientCloses, ClientsGoOn, GoesOn
<1>5. CASE \E s \in Sockets : RelayFromServer(s)
  BY <1>0, <1>5, Types DEF RelayFromServer, ClientsGoOn, GoesOn
<1>6. CASE \E s \in Sockets : SocketClosesAtRelay(s)
  BY <1>0, <1>6 DEF SocketClosesAtRelay, Kicked, ClientsGoOn, GoesOn
<1>7. CASE DaemonStep \/ Fault
  <2>1. UNCHANGED client
    BY <1>7 DEF DaemonStep, Fault, ControlOpens, OrderArrives, SocketReceives,
       SocketClosesAtDaemon, SocketOpens, ControlFails, ControlWedges, DaemonRestarts, SocketFails
  <2>. QED  BY <1>1, <2>1
<1>. QED  BY <1>1, <1>2, <1>3, <1>4, <1>5, <1>6, <1>7
     DEF Next, ClientStep, RelayStep, SendHello, SendMessage, RelayFromClient, Nudge,
         ResetControl, Hibernate

\* The orders.
LEMMA SameOrdersFit ==
    ASSUME Inv, OrdersFit, ClientsGoOn, UNCHANGED <<control, orders>>
    PROVE  OrdersFit' /\ \A c : Told(c) => Told(c)'
<1>1. \A i \in DOMAIN orders : orders[i].ids \subseteq Conns
  <2>1. orders \in Seq(OrderType)
    BY OthersAre DEF OthersOK
  <2>2. \A i \in DOMAIN orders : orders[i] \in OrderType
    <3>. HIDE DEF OrderType
    <3>. QED  BY <2>1
  <2>. QED  BY <2>2 DEF OrderType
<1>. QED  BY <1>1 DEF OrdersFit, ClientsGoOn, GoesOn, Told

LEMMA NotifiedFit ==
    ASSUME Inv, OrdersFit, ClientsGoOn, UNCHANGED control, NEW order \in OrderType, Notify(order),
           \A c \in order.ids : client'[c] # "new" /\ (order.type = "drop" => client'[c] = "gone")
    PROVE  OrdersFit' /\ \A c : Told(c) => Told(c)'
<1>1. CASE UNCHANGED orders
  BY <1>1, SameOrdersFit
<1>2. CASE control \in {"fresh", "ready"} /\ orders' = Append(orders, order)
  <2>1. orders \in Seq(OrderType) /\ Len(orders) \in Nat /\ DOMAIN orders = 1 .. Len(orders)
    <3>1. orders \in Seq(OrderType)
      BY OthersAre DEF OthersOK
    <3>. HIDE DEF OrderType
    <3>. QED  BY <3>1, LenProperties
  <2>2. \A i \in DOMAIN orders : orders[i].ids \subseteq Conns
    <3>1. \A i \in DOMAIN orders : orders[i] \in OrderType
      <4>. HIDE DEF OrderType
      <4>. QED  BY <2>1
    <3>. QED  BY <3>1 DEF OrderType
  <2>3. /\ orders' \in Seq(OrderType) /\ Len(orders') = Len(orders) + 1
        /\ \A i \in 1 .. Len(orders) : orders'[i] = orders[i]
        /\ orders'[Len(orders) + 1] = order /\ orders' # <<>>
    <3>. HIDE DEF OrderType
    <3>. QED  BY <1>2, <2>1, AppendProperties
  <2>4. DOMAIN orders' = 1 .. Len(orders) + 1
    <3>. HIDE DEF OrderType
    <3>. QED  BY <2>3, LenProperties
  <2>5. \A i \in DOMAIN orders' : \/ i \in DOMAIN orders /\ orders'[i] = orders[i]
                                  \/ orders'[i] = order
    BY <2>1, <2>3, <2>4
  <2>6. ASSUME NEW i \in DOMAIN orders', NEW c \in orders'[i].ids
        PROVE  client'[c] # "new" /\ (orders'[i].type = "drop" => client'[c] = "gone")
    <3>1. CASE i \in DOMAIN orders /\ orders'[i] = orders[i]
      BY <2>2, <3>1 DEF OrdersFit, ClientsGoOn, GoesOn
    <3>2. CASE orders'[i] = order
      BY <3>2
    <3>. QED  BY <2>5, <3>1, <3>2
  <2>7. OrdersFit'
    BY <1>2, <2>3, <2>6 DEF OrdersFit
  <2>8. orders # <<>> => Head(orders') = Head(orders)
    <3> SUFFICES ASSUME orders # <<>> PROVE Head(orders') = Head(orders)
      OBVIOUS
    <3>1. Len(orders) >= 1 /\ 1 \in 1 .. Len(orders)
      <4>. HIDE DEF OrderType
      <4>. QED  BY <2>1, EmptySeq
    <3>2. Head(orders) = orders[1] /\ Head(orders') = orders'[1]
      <4>. HIDE DEF OrderType
      <4>. QED  BY <2>1, <2>3, HeadTailProperties
    <3>. QED  BY <2>3, <3>1, <3>2
  <2>. QED  BY <1>2, <2>7, <2>8 DEF OrdersFit, Told
<1>. QED  BY <1>1, <1>2 DEF Notify

\* A data socket that goes on, of a client that is now in state k.
StaysKnown(x, y, k) ==
    /\ y.conn = x.conn
    /\ x.relay # "none" => y.relay # "none"
    /\ y.relay = "closed" => x.relay = "closed" \/ k \in {"closing", "gone"}
    /\ Seen(y) => Seen(x) \/ y.relay # "none"
    /\ x.daemon = "connecting" =>
         y.daemon = "connecting" \/ y.relay = "open" \/ k # "hello"
         \/ dataFaults' # 0 \/ control' = "down"

SocketsStay ==
    /\ Sockets \subseteq Sockets'
    /\ \A s \in Sockets : StaysKnown(sock[s], sock'[s], client'[sock[s].conn])
    /\ \A s \in Sockets' : s \notin Sockets =>
         /\ sock'[s].relay = "none" /\ sock'[s].daemon = "connecting"
         /\ client[sock'[s].conn] # "new"

LEMMA SocketsStayKnown ==
    ASSUME Inv, Inv', SocketsKnown, ClientsGoOn, SocketsStay
    PROVE  /\ SocketsKnown'
           /\ \A c \in Conns : client'[c] = "hello" /\ Served(c) => Served(c)'
           /\ \A c \in Conns : client'[c] = "hello" /\ Opening(c) /\ entry'[c] = entry[c] =>
                Opening(c)' \/ Served(c)' \/ dataFaults' # 0 \/ control' = "down"
<1>0. /\ \A s \in Sockets : sock[s].conn \in Conns
      /\ \A s \in Sockets' : sock'[s].conn \in Conns /\
                             sock'[s].relay \in {"none", "open", "closing", "closed"}
  <2>1. sock' \in Seq(SocketType)
    BY TypesAreNext DEF Inv, SocketsOK
  <2>2. \A s \in Sockets' : sock'[s] \in SocketType
    <3>. HIDE DEF SocketType
    <3>. QED  BY <2>1, LenProperties DEF Sockets
  <2>. QED  BY <2>2, Types DEF SocketType
<1>1. SocketsKnown'
  <2> SUFFICES ASSUME NEW s \in Sockets'
               PROVE  /\ client'[sock'[s].conn] # "new"
                      /\ sock'[s].relay = "closed" => client'[sock'[s].conn] \in {"closing", "gone"}
                      /\ Seen(sock'[s]) => sock'[s].relay # "none"
    BY DEF SocketsKnown
  <2>1. CASE s \in Sockets
    <3>1. StaysKnown(sock[s], sock'[s], client'[sock[s].conn])
      BY <2>1 DEF SocketsStay
    <3>2. GoesOn(client[sock[s].conn], client'[sock[s].conn])
      BY <1>0, <2>1 DEF ClientsGoOn
    <3>. QED  BY <2>1, <3>1, <3>2 DEF SocketsKnown, StaysKnown, GoesOn
  <2>2. CASE s \notin Sockets
    <3>1. GoesOn(client[sock'[s].conn], client'[sock'[s].conn])
      BY <1>0 DEF ClientsGoOn
    <3>. QED  BY <2>2, <3>1 DEF SocketsStay, GoesOn, Seen
  <2>. QED  BY <2>1, <2>2
<1>2. ASSUME NEW c \in Conns, client'[c] = "hello", NEW s \in Sockets, sock[s].conn = c,
             sock[s].relay \in {"open", "closing"}
      PROVE  Served(c)'
  <2>1. s \in Sockets' /\ StaysKnown(sock[s], sock'[s], client'[c])
    BY <1>2 DEF SocketsStay
  <2>2. sock'[s].conn = c /\ sock'[s].relay \in {"open", "closing"}
    BY <1>0, <1>2, <2>1 DEF StaysKnown
  <2>. QED  BY <2>1, <2>2 DEF Served, Servers
<1>3. ASSUME NEW c \in Conns, client'[c] = "hello", Opening(c), entry'[c] = entry[c],
             dataFaults' = 0, control' # "down"
      PROVE  Opening(c)' \/ Served(c)'
  <2> DEFINE s == entry[c]
  <2>1. s \in Sockets /\ s # 0 /\ sock[s].conn = c /\ sock[s].daemon = "connecting"
    BY <1>3, Types, TypesAre DEF Inv, SocketsOK, Opening
  <2>2. s \in Sockets' /\ StaysKnown(sock[s], sock'[s], client'[c])
    BY <2>1 DEF SocketsStay
  <2>3. CASE sock'[s].daemon = "connecting"
    BY <1>3, <2>1, <2>3 DEF Opening
  <2>4. CASE sock'[s].relay = "open"
    BY <2>1, <2>2, <2>4 DEF Served, Servers, StaysKnown
  <2>. QED  BY <1>3, <2>1, <2>2, <2>3, <2>4 DEF StaysKnown
<1>4. ASSUME NEW c \in Conns, client'[c] = "hello", Served(c) PROVE Served(c)'
  BY <1>2, <1>4 DEF Served, Servers
<1>. QED  BY <1>1, <1>3, <1>4

\* What a step must do for the clients that wait.
LEMMA StepExpects ==
    ASSUME Inv, Inv', ExpectFits, ClientsGoOn, SocketsStay, OrdersFit',
           dataFaults' = 0 => dataFaults = 0,
           \A c \in Conns : client[c] = "hello" /\ client'[c] = "hello" /\ dataFaults' = 0 =>
             /\ Opening(c) => entry'[c] = entry[c] \/ control' = "down"
             /\ timer[c] # "off" => timer'[c] # "off" \/ Served(c) \/ control' = "down"
             /\ Told(c) => Told(c)' \/ Opening(c)' \/ Served(c)
    PROVE  ExpectFits'
<1>1. SocketsKnown'
  BY SocketsStayKnown DEF ExpectFits
<1>2. ASSUME NEW c \in Conns, client'[c] = "hello", dataFaults' = 0 PROVE Expected(c)'
  <2>1. CASE client[c] = "new"
    <3>1. timer'[c] # "off"
      BY <1>2, <2>1 DEF ClientsGoOn
    <3>. QED  BY <3>1 DEF Expected
  <2>2. CASE client[c] = "hello"
    <3>1. Served(c) => Served(c)'
      BY <1>2, SocketsStayKnown DEF ExpectFits
    <3>2. control' = "down" => Told(c)'
      BY DEF Told
    <3>3. Opening(c) => Opening(c)' \/ Served(c)' \/ Told(c)'
      <4> SUFFICES ASSUME Opening(c), control' # "down" PROVE Opening(c)' \/ Served(c)'
        BY <3>2
      <4>1. entry'[c] = entry[c]
        BY <1>2, <2>2
      <4>. QED  BY <1>2, <4>1, SocketsStayKnown DEF ExpectFits
    <3>4. timer[c] # "off" => timer'[c] # "off" \/ Served(c)' \/ Told(c)'
      BY <1>2, <2>2, <3>1, <3>2
    <3>5. Told(c) => Told(c)' \/ Opening(c)' \/ Served(c)'
      BY <1>2, <2>2, <3>1
    <3>6. Expected(c)
      BY <1>2, <2>2 DEF ExpectFits
    <3>. QED  BY <3>1, <3>3, <3>4, <3>5, <3>6 DEF Expected
  <2>. QED  BY <1>2, <2>1, <2>2 DEF ClientsGoOn, GoesOn
<1>. QED  BY <1>1, <1>2 DEF ExpectFits

\* Steps that change no data socket.
LEMMA SameSocketsStay == ASSUME UNCHANGED sock PROVE SocketsStay
BY DEF SocketsStay, StaysKnown, Sockets

LEMMA ClientStepExpects ==
    ASSUME Inv, Inv', ExpectFits, ClientsGoOn, NEW c \in Conns, ClientStep(c)
    PROVE  ExpectFits'
<1>1. UNCHANGED <<control, entry, sock, dataFaults>>
  BY DEF ClientStep, Connect, SendHello, SendMessage, Leave
<1>2. OrdersFit' /\ \A d : Told(d) => Told(d)'
  <2>1. CASE Connect(c)
    <3> DEFINE o == [type |-> "ensure", ids |-> {c}]
    <3>1. Notify(o) /\ client'[c] = "hello"
      BY <2>1, OthersAre DEF Connect, OthersOK
    <3>2. o \in OrderType /\ \A d \in o.ids : client'[d] # "new" /\ (o.type = "drop" => client'[d] = "gone")
      BY <3>1, OrdersAre
    <3>. HIDE DEF o
    <3>. QED  BY <1>1, <3>1, <3>2, NotifiedFit DEF ExpectFits
  <2>2. CASE UNCHANGED orders
    BY <1>1, <2>2, SameOrdersFit DEF ExpectFits
  <2>. QED  BY <2>1, <2>2 DEF ClientStep, SendHello, SendMessage, Leave
<1>3. \A d \in Conns : timer[d] # "off" => timer'[d] # "off"
  BY OthersAre DEF ClientStep, Connect, SendHello, SendMessage, Leave, OthersOK
<1>. QED  BY <1>1, <1>2, <1>3, SameSocketsStay, StepExpects

LEMMA TimerStepExpects ==
    ASSUME Inv, Inv', ExpectFits, ClientsGoOn, NEW c \in Conns, Nudge(c) \/ ResetControl(c)
    PROVE  ExpectFits'
<1>1. UNCHANGED <<client, entry, sock, dataFaults>>
  BY DEF Nudge, ResetControl
<1>2. timer \in [Conns -> {"off", "nudge", "reset"}]
  BY OthersAre DEF OthersOK
<1>3. CASE Nudge(c)
  <2>1. OrdersFit' /\ \A d : Told(d) => Told(d)'
    <3>1. CASE Unserved(c)
      <4>1. Notify(Sync) /\ UNCHANGED control
        BY <1>3, <3>1 DEF Nudge
      <4>2. \A d \in Sync.ids : client'[d] # "new" /\ (Sync.type = "drop" => client'[d] = "gone")
        BY <1>1 DEF Sync, Accepted
      <4>. QED  BY <4>1, <4>2, OrdersAre, NotifiedFit DEF ExpectFits
    <3>2. CASE ~Unserved(c)
      <4>1. UNCHANGED <<control, orders>>
        BY <1>3, <3>2 DEF Nudge
      <4>. QED  BY <4>1, SameOrdersFit DEF ExpectFits
    <3>. QED  BY <3>1, <3>2
  <2>2. \A d \in Conns : client[d] = "hello" /\ timer[d] # "off" => timer'[d] # "off" \/ Served(d)
    BY <1>2, <1>3 DEF Nudge, Unserved, Accepted, Served
  <2>. QED  BY <1>1, <2>1, <2>2, SameSocketsStay, StepExpects
<1>4. CASE ResetControl(c)
  <2>1. CASE Unserved(c)
    <3>1. control' = "down" /\ orders' = <<>>
      BY <1>4, <2>1 DEF ResetControl
    <3>2. OrdersFit' /\ \A d : Told(d)'
      BY <3>1 DEF OrdersFit, Told
    <3>. QED  BY <1>1, <3>1, <3>2, SameSocketsStay, StepExpects
  <2>2. CASE ~Unserved(c)
    <3>1. UNCHANGED <<control, orders>>
      BY <1>4, <2>2 DEF ResetControl
    <3>2. OrdersFit' /\ \A d : Told(d) => Told(d)'
      BY <3>1, SameOrdersFit DEF ExpectFits
    <3>3. \A d \in Conns : client[d] = "hello" /\ timer[d] # "off" => timer'[d] # "off" \/ Served(d)
      BY <1>2, <1>4, <2>2 DEF ResetControl, Unserved, Accepted, Served
    <3>. QED  BY <1>1, <3>2, <3>3, SameSocketsStay, StepExpects
  <2>. QED  BY <2>1, <2>2
<1>. QED  BY <1>3, <1>4

\* The control socket opens, fails or wedges: only one that has brought its
\* first message can wedge.
LEMMA ControlStepExpects ==
    ASSUME Inv, Inv', ExpectFits, ClientsGoOn, ControlOpens \/ ControlFails \/ ControlWedges
    PROVE  ExpectFits'
<1>1. UNCHANGED <<client, timer, entry, sock, dataFaults>>
  BY DEF ControlOpens, ControlFails, ControlWedges
<1>2. CASE ControlOpens
  <2>1. control' = "fresh" /\ orders' = <<Sync>>
    BY <1>2 DEF ControlOpens
  <2>2. orders' # <<>> /\ DOMAIN orders' = {1} /\ orders'[1] = Sync /\ Head(orders') = Sync
    <3>. HIDE DEF Sync
    <3>. QED  BY <2>1
  <2>3. Sync.type = "ensure" /\ Sync.ids = Accepted
    BY DEF Sync
  <2>4. OrdersFit'
    BY <1>1, <2>1, <2>2, <2>3 DEF OrdersFit, Accepted
  <2>5. \A c \in Conns : client[c] = "hello" => Told(c)'
    BY <2>1, <2>2, <2>3 DEF Told, Accepted
  <2>. QED  BY <1>1, <2>4, <2>5, SameSocketsStay, StepExpects
<1>3. CASE ControlFails
  <2>1. control' = "down" /\ orders' = <<>>
    BY <1>3 DEF ControlFails
  <2>2. OrdersFit' /\ \A c : Told(c)'
    BY <2>1 DEF OrdersFit, Told
  <2>. QED  BY <1>1, <2>1, <2>2, SameSocketsStay, StepExpects
<1>4. CASE ControlWedges
  <2>1. control = "ready" /\ control' = "wedged" /\ orders' = <<>>
    BY <1>4 DEF ControlWedges
  <2>2. OrdersFit' /\ \A c : ~Told(c)
    BY <2>1 DEF OrdersFit, Told
  <2>. QED  BY <1>1, <2>2, SameSocketsStay, StepExpects
<1>. QED  BY <1>2, <1>3, <1>4

\* Steps of the data sockets.
LEMMA SocketStepExpects ==
    ASSUME Inv, Inv', ExpectFits, ClientsGoOn, UNCHANGED <<timer, control>>,
           sock' = [s \in Sockets |-> sock'[s]],
           \A s \in Sockets : StaysKnown(sock[s], sock'[s], client'[sock[s].conn]),
           UNCHANGED orders \/ (OrdersFit' /\ \A c : Told(c) => Told(c)'),
           \/ UNCHANGED dataFaults
           \/ dataFaults' = dataFaults + 1,
           dataFaults' # 0 \/ \A c \in Conns : Opening(c) => entry'[c] = entry[c]
    PROVE  ExpectFits'
<1>1. OrdersFit' /\ \A c : Told(c) => Told(c)'
  BY SameOrdersFit DEF ExpectFits
<1>2. dataFaults' = 0 => dataFaults = 0
  BY OthersAre, BoundsAssumption DEF OthersOK
<1>3. Sockets' = Sockets
  BY DEF Sockets
<1>4. SocketsStay
  BY <1>3 DEF SocketsStay
<1>. QED  BY <1>1, <1>2, <1>4, StepExpects

\* How the data socket of one step goes on.
LEMMA StaysAsItIs ==
    ASSUME NEW x, NEW y, NEW k, y.conn = x.conn, y.relay = x.relay, y.daemon = x.daemon
    PROVE  StaysKnown(x, y, k)
BY DEF StaysKnown, Seen

LEMMA RelayStepExpects ==
    ASSUME Inv, Inv', ExpectFits, ClientsGoOn, NEW c \in Conns, RelayFromClient(c) \/ ClientCloses(c)
    PROVE  ExpectFits'
<1>1. UNCHANGED <<timer, control, entry, dataFaults>>
  BY DEF RelayFromClient, ClientCloses
<1>2. \A d \in Conns : Opening(d) => entry'[d] = entry[d]
  BY <1>1
<1>3. \A s \in Sockets : sock[s] \in SocketType
  BY Types
<1>4. CASE RelayFromClient(c)
  <2>1. UNCHANGED orders
    BY <1>4 DEF RelayFromClient
  <2>2. CASE Servers(c) = {}
    <3>1. UNCHANGED sock
      BY <1>4, <2>2 DEF RelayFromClient
    <3>2. sock' = [s \in Sockets |-> sock'[s]]
      BY <3>1, Types
    <3>. QED  BY <1>1, <1>2, <2>1, <3>1, <3>2, StaysAsItIs, SocketStepExpects
  <2>3. CASE Servers(c) # {}
    <3> DEFINE In(s) == [sock[s] EXCEPT !.in = Append(@, Head(up[c]))]
    <3>1. sock' = [s \in Sockets |->
                     IF s \in Servers(c) /\ sock[s].relay = "open" /\ sock[s].daemon # "closed"
                     THEN In(s) ELSE sock[s]]
      BY <1>4, <2>3 DEF RelayFromClient
    <3>2. \A s \in Sockets : /\ In(s).conn = sock[s].conn /\ In(s).relay = sock[s].relay
                             /\ In(s).daemon = sock[s].daemon
      BY <1>3 DEF SocketType
    <3>. HIDE DEF In
    <3>3. \A s \in Sockets : sock'[s] = In(s) \/ sock'[s] = sock[s]
      BY <3>1
    <3>4. \A s \in Sockets : StaysKnown(sock[s], sock'[s], client'[sock[s].conn])
      BY <3>2, <3>3, StaysAsItIs
    <3>5. sock' = [s \in Sockets |-> sock'[s]]
      BY <3>1
    <3>. QED  BY <1>1, <1>2, <2>1, <3>4, <3>5, SocketStepExpects
  <2>. QED  BY <2>2, <2>3
<1>5. CASE ClientCloses(c)
  <2> DEFINE Closing(s) == [sock[s] EXCEPT !.relay = "closing"]
  <2>1. /\ client' = [client EXCEPT ![c] = "gone"] /\ Notify(Disconnected(c))
        /\ sock' = [s \in Sockets |-> IF s \in Servers(c) THEN Closing(s) ELSE sock[s]]
    BY <1>5 DEF ClientCloses
  <2>2. \A s \in Sockets : /\ Closing(s).conn = sock[s].conn /\ Closing(s).relay = "closing"
                           /\ Closing(s).daemon = sock[s].daemon
    BY <1>3 DEF SocketType
  <2>. HIDE DEF Closing
  <2>3. \A s \in Sockets : sock'[s] = Closing(s) \/ sock'[s] = sock[s]
    BY <2>1
  <2>4. \A s \in Sockets : StaysKnown(sock[s], sock'[s], client'[sock[s].conn])
    BY <2>2, <2>3 DEF StaysKnown, Seen
  <2>5. OrdersFit' /\ \A d : Told(d) => Told(d)'
    <3>1. client'[c] = "gone"
      BY <2>1, OthersAre DEF OthersOK
    <3>2. Disconnected(c).ids = {c}
      BY DEF Disconnected
    <3>. QED  BY <1>1, <2>1, <3>1, <3>2, OrdersAre, NotifiedFit DEF ExpectFits
  <2>6. sock' = [s \in Sockets |-> sock'[s]]
    BY <2>1
  <2>. QED  BY <1>1, <1>2, <2>4, <2>5, <2>6, SocketStepExpects
<1>. QED  BY <1>4, <1>5

\* One data socket changes.
LEMMA OneSocketExpects ==
    ASSUME Inv, Inv', ExpectFits, ClientsGoOn, UNCHANGED <<timer, control, orders>>,
           NEW s \in Sockets, NEW y, sock' = [sock EXCEPT ![s] = y],
           StaysKnown(sock[s], y, client'[sock[s].conn]),
           \/ UNCHANGED dataFaults
           \/ dataFaults' = dataFaults + 1,
           dataFaults' # 0 \/ \A c \in Conns : Opening(c) => entry'[c] = entry[c]
    PROVE  ExpectFits'
<1>1. /\ \A t \in Sockets : sock'[t] = IF t = s THEN y ELSE sock[t]
      /\ sock' = [t \in Sockets |-> sock'[t]]
  <2>. HIDE DEF SocketType
  <2>. QED  BY Types
<1>2. \A t \in Sockets : StaysKnown(sock[t], sock'[t], client'[sock[t].conn])
  BY <1>1, StaysAsItIs
<1>. QED  BY <1>1, <1>2, SocketStepExpects

LEMMA SocketEventExpects ==
    ASSUME Inv, Inv', ExpectFits, ClientsGoOn, NEW s \in Sockets,
           \/ RelayFromServer(s) \/ SocketClosesAtRelay(s) \/ SocketReceives(s)
           \/ SocketClosesAtDaemon(s) \/ SocketFails(s)
    PROVE  ExpectFits'
<1> DEFINE x == sock[s]
           c == x.conn
<1>1. UNCHANGED <<timer, control, orders>>
  BY DEF RelayFromServer, SocketClosesAtRelay, SocketReceives, SocketClosesAtDaemon, SocketFails
<1>2. x \in SocketType /\ c \in Conns /\ dataFaults \in Nat
  BY Types, OthersAre DEF OthersOK
<1>3. CASE RelayFromServer(s)
  <2> DEFINE y == [x EXCEPT !.out = Tail(@)]
  <2>1. sock' = [sock EXCEPT ![s] = y] /\ UNCHANGED <<entry, dataFaults>>
    BY <1>3, Types DEF RelayFromServer
  <2>2. y.conn = c /\ y.relay = x.relay /\ y.daemon = x.daemon
    BY <1>2 DEF SocketType
  <2>. HIDE DEF y, x
  <2>. QED  BY <1>1, <2>1, <2>2, StaysAsItIs, OneSocketExpects DEF x
<1>4. CASE SocketClosesAtRelay(s)
  <2> DEFINE y == [x EXCEPT !.relay = "closed", !.in = <<>>, !.out = <<>>]
  <2>1. /\ UNCHANGED <<entry, dataFaults>> /\ client' = Kicked({c})
        /\ x.daemon \in {"closing", "closed"}
    BY <1>4 DEF SocketClosesAtRelay
  <2>2. sock' = [sock EXCEPT ![s] = y]
    <3>1. sock' = [sock EXCEPT ![s].relay = "closed", ![s].in = <<>>, ![s].out = <<>>]
      BY <1>4 DEF SocketClosesAtRelay
    <3>2. sock = [t \in Sockets |-> sock[t]]
      BY Types
    <3>. QED  BY <3>1, <3>2
  <2>3. y.conn = c /\ y.relay = "closed" /\ y.daemon = x.daemon
    BY <1>2 DEF SocketType
  <2>4. client'[c] \in {"closing", "gone"}
    <3>1. client[c] \in {"hello", "open", "closing", "gone"}
      BY <1>2, OthersAre DEF ExpectFits, SocketsKnown, OthersOK
    <3>. QED  BY <1>2, <2>1, <3>1 DEF Kicked
  <2>. HIDE DEF y
  <2>5. StaysKnown(x, y, client'[c])
    BY <2>1, <2>3, <2>4 DEF StaysKnown
  <2>. QED  BY <1>1, <2>1, <2>2, <2>5, OneSocketExpects
<1>5. CASE SocketReceives(s)
  <2> DEFINE now == Answer(s, Head(x.in))
             y == [x EXCEPT !.in = Tail(@), !.daemon = now.daemon, !.out = now.out]
  <2>1. UNCHANGED <<entry, dataFaults>> /\ x.daemon \in {"waiting", "open"}
    BY <1>5 DEF SocketReceives
  <2>2. sock' = [sock EXCEPT ![s] = y]
    <3>1. sock' = [sock EXCEPT ![s].in = Tail(@), ![s].daemon = now.daemon, ![s].out = now.out]
      BY <1>5 DEF SocketReceives
    <3>2. sock = [t \in Sockets |-> sock[t]]
      BY Types
    <3>. HIDE DEF now
    <3>. QED  BY <3>1, <3>2
  <2>. HIDE DEF now
  <2>3. y.conn = c /\ y.relay = x.relay
    BY <1>2 DEF SocketType
  <2>. HIDE DEF y
  <2>4. StaysKnown(x, y, client'[c])
    BY <2>1, <2>3 DEF StaysKnown, Seen
  <2>. QED  BY <1>1, <2>1, <2>2, <2>4, OneSocketExpects
<1>6. CASE SocketClosesAtDaemon(s) \/ SocketFails(s)
  <2> DEFINE y == [x EXCEPT !.daemon = "closed", !.in = <<>>]
  <2>1. Closed(s)
    BY <1>6 DEF SocketClosesAtDaemon, SocketFails
  <2>2. sock' = [sock EXCEPT ![s] = y]
    <3>1. sock' = [sock EXCEPT ![s].daemon = "closed", ![s].in = <<>>]
      BY <2>1 DEF Closed
    <3>2. sock = [t \in Sockets |-> sock[t]]
      BY Types
    <3>. QED  BY <3>1, <3>2
  <2>3. y.conn = c /\ y.relay = x.relay /\ y.daemon = "closed"
    BY <1>2 DEF SocketType
  <2>. HIDE DEF y
  <2>4. CASE SocketClosesAtDaemon(s)
    <3>1. x.daemon # "connecting" /\ UNCHANGED dataFaults
      BY <2>4 DEF SocketClosesAtDaemon
    <3>2. StaysKnown(x, y, client'[c])
      BY <2>3, <3>1 DEF StaysKnown, Seen
    <3>3. \A d \in Conns : Opening(d) => entry'[d] = entry[d]
      BY <2>1, <3>1 DEF Closed, Opening
    <3>. QED  BY <1>1, <2>2, <3>1, <3>2, <3>3, OneSocketExpects
  <2>5. CASE SocketFails(s)
    <3>1. dataFaults' = dataFaults + 1
      BY <2>5 DEF SocketFails
    <3>2. dataFaults' # 0
      BY <1>2, <3>1
    <3>3. StaysKnown(x, y, client'[c])
      BY <2>3, <3>2 DEF StaysKnown, Seen
    <3>. QED  BY <1>1, <2>2, <3>1, <3>2, <3>3, OneSocketExpects
  <2>. QED  BY <1>6, <2>4, <2>5
<1>. QED  BY <1>3, <1>4, <1>5, <1>6

LEMMA SocketOpensExpects ==
    ASSUME Inv, Inv', ExpectFits, ClientsGoOn, NEW s \in Sockets,
           NEW n \in 0 .. Len(pending[sock[s].conn]), SocketOpens(s, n)
    PROVE  ExpectFits'
<1> DEFINE c == sock[s].conn
           b == pending[c]
           y == [sock[s] EXCEPT !.relay = "open", !.in = SubSeq(b, 1, n),
                                !.daemon = IF n = Len(b) THEN "waiting" ELSE "closed"]
           Closing(t) == [sock[t] EXCEPT !.relay = "closing"]
<1>1. /\ UNCHANGED <<client, timer, control, orders>>
      /\ sock' = [t \in Sockets |-> CASE t = s -> y
                                      [] t \in Servers(c) \ {s} -> Closing(t)
                                      [] OTHER -> sock[t]]
      /\ IF n = Len(b) THEN UNCHANGED <<entry, dataFaults>>
         ELSE entry' = [entry EXCEPT ![c] = 0] /\ dataFaults' = dataFaults + 1
  BY DEF SocketOpens
<1>2. dataFaults \in Nat /\ \A t \in Sockets : sock[t] \in SocketType
  BY Types, OthersAre DEF OthersOK
<1>3. /\ y.conn = c /\ y.relay = "open"
      /\ \A t \in Sockets : /\ Closing(t).conn = sock[t].conn /\ Closing(t).relay = "closing"
                            /\ Closing(t).daemon = sock[t].daemon
  BY <1>2 DEF SocketType
<1>. HIDE DEF y, Closing
<1>4. \A t \in Sockets : \/ t = s /\ sock'[t] = y
                         \/ sock'[t] = Closing(t)
                         \/ sock'[t] = sock[t]
  BY <1>1
<1>5. \A t \in Sockets : StaysKnown(sock[t], sock'[t], client'[sock[t].conn])
  BY <1>3, <1>4 DEF StaysKnown, Seen
<1>6. sock' = [t \in Sockets |-> sock'[t]]
  BY <1>1
<1>7. \/ UNCHANGED dataFaults /\ UNCHANGED entry
      \/ dataFaults' = dataFaults + 1 /\ dataFaults' # 0
  BY <1>1, <1>2
<1>8. dataFaults' # 0 \/ \A d \in Conns : Opening(d) => entry'[d] = entry[d]
  BY <1>7
<1>. HIDE DEF c, b
<1>. QED  BY <1>1, <1>5, <1>6, <1>7, <1>8, SocketStepExpects

\* An order brings the client a data socket, unless it has one.
LEMMA OrderArrivesExpects ==
    ASSUME Inv, Inv', ExpectFits, ClientsGoOn, OrderArrives
    PROVE  ExpectFits'
<1> DEFINE o == Head(orders)
<1>1. /\ orders # <<>> /\ orders' = Tail(orders) /\ control' = "ready"
      /\ IF o.type = "ensure" THEN Ensure(o.ids) ELSE Drop(o.ids)
      /\ UNCHANGED <<client, timer, dataFaults>>
  BY DEF OrderArrives
<1>2. orders \in Seq(OrderType)
  BY OthersAre DEF OthersOK
<1>3. /\ o \in OrderType /\ 1 \in DOMAIN orders /\ o = orders[1]
      /\ \A i \in DOMAIN orders' : i + 1 \in DOMAIN orders /\ orders'[i] = orders[i + 1]
  <2>. HIDE DEF OrderType, o
  <2>1. /\ Len(orders) \in Nat /\ DOMAIN orders = 1 .. Len(orders)
        /\ Tail(orders) \in Seq(OrderType) /\ Head(orders) \in OrderType /\ Head(orders) = orders[1]
        /\ Len(Tail(orders)) = Len(orders) - 1
        /\ \A i \in 1 .. Len(Tail(orders)) : Tail(orders)[i] = orders[i + 1]
    BY <1>1, <1>2, HeadTailProperties, LenProperties
  <2>2. DOMAIN orders' = 1 .. Len(orders) - 1 /\ Len(orders) >= 1
    <3>1. DOMAIN Tail(orders) = 1 .. Len(Tail(orders)) /\ Len(Tail(orders)) \in Nat
      BY <2>1, LenProperties
    <3>. QED  BY <1>1, <2>1, <3>1
  <2>. QED  BY <1>1, <2>1, <2>2 DEF o
<1>4. OrdersFit'
  BY <1>1, <1>3 DEF ExpectFits, OrdersFit
<1>5. /\ o.ids \in SUBSET Conns
      /\ \A d \in o.ids : client[d] # "new" /\ (o.type = "drop" => client[d] = "gone")
      /\ o.type \in {"ensure", "drop"}
  BY <1>3 DEF ExpectFits, OrdersFit, OrderType
<1>6. control \in {"fresh", "ready", "wedged"}
  BY <1>1, OthersAre DEF ExpectFits, OrdersFit, OthersOK
<1>. HIDE DEF o
<1>7. CASE o.type = "ensure"
  <2>1. Ensure(o.ids)
    BY <1>1, <1>7
  <2>2. SocketsStay
    <3>1. \A s \in Sockets : StaysKnown(sock[s], sock'[s], client'[sock[s].conn])
      BY <1>5, <2>1, EnsureAdds, StaysAsItIs
    <3>. QED  BY <1>5, <2>1, <3>1, EnsureAdds DEF SocketsStay
  <2>3. \A c \in Conns : Opening(c) => entry'[c] = entry[c]
    BY <1>5, <2>1, EnsureAdds DEF Opening
  <2>4. ASSUME NEW c \in Conns, client[c] = "hello", Told(c)
        PROVE  Opening(c)' \/ Served(c)
    <3>1. c \in o.ids
      BY <1>6, <2>4 DEF Told, o
    <3>2. CASE entry[c] = 0
      <4>1. entry'[c] # entry[c]
        BY <1>5, <2>1, <3>1, <3>2, EnsureAdds
      <4>2. sock'[entry'[c]].daemon = "connecting"
        BY <1>5, <2>1, <4>1, EnsureAdds
      <4>. QED  BY <3>2, <4>1, <4>2 DEF Opening
    <3>3. CASE entry[c] # 0
      <4> DEFINE s == entry[c]
      <4>1. s \in Sockets /\ sock[s].conn = c /\ sock[s].daemon # "closed" /\ sock[s] \in SocketType
        BY <3>3, Types, TypesAre DEF Inv, SocketsOK
      <4>2. CASE sock[s].daemon = "connecting"
        <5>1. sock'[s] = sock[s] /\ entry'[c] = s
          BY <1>5, <2>1, <2>3, <3>3, <4>1, <4>2, EnsureAdds DEF Opening
        <5>. QED  BY <3>3, <4>2, <5>1 DEF Opening
      <4>3. CASE sock[s].daemon # "connecting"
        <5>1. Seen(sock[s]) /\ sock[s].relay \in {"none", "open", "closing", "closed"}
          BY <4>1, <4>3 DEF SocketType, Seen
        <5>2. sock[s].relay \in {"open", "closing"}
          BY <2>4, <4>1, <5>1 DEF ExpectFits, SocketsKnown
        <5>. QED  BY <4>1, <5>2 DEF Served, Servers
      <4>. QED  BY <4>2, <4>3
    <3>. QED  BY <3>2, <3>3
  <2>. QED  BY <1>1, <1>4, <2>2, <2>3, <2>4, StepExpects
<1>8. CASE o.type # "ensure"
  <2> DEFINE S == o.ids
  <2>1. /\ entry' = [c \in Conns |-> IF c \in S THEN 0 ELSE entry[c]]
        /\ sock' = [s \in Sockets |->
                     IF \E c \in S : entry[c] = s
                     THEN [sock[s] EXCEPT !.daemon = IF @ = "connecting" THEN "closed" ELSE "closing"]
                     ELSE sock[s]]
    BY <1>1, <1>8 DEF Drop
  <2>2. \A c \in S : client'[c] = "gone"
    BY <1>1, <1>5, <1>8
  <2>3. ASSUME NEW s \in Sockets
        PROVE  StaysKnown(sock[s], sock'[s], client'[sock[s].conn])
    <3> DEFINE y == [sock[s] EXCEPT !.daemon = IF @ = "connecting" THEN "closed" ELSE "closing"]
    <3>1. sock[s] \in SocketType /\ s # 0
      BY Types
    <3>2. /\ y.conn = sock[s].conn /\ y.relay = sock[s].relay
          /\ y.daemon = IF sock[s].daemon = "connecting" THEN "closed" ELSE "closing"
      BY <3>1 DEF SocketType
    <3>. HIDE DEF y
    <3>3. CASE \E c \in S : entry[c] = s
      <4>1. PICK c \in S : entry[c] = s
        BY <3>3
      <4>2. sock'[s] = y
        BY <2>1, <3>3 DEF y
      <4>3. sock[s].conn = c /\ sock[s].daemon # "closed"
        BY <1>5, <3>1, <4>1, TypesAre DEF Inv, SocketsOK
      <4>4. client'[sock[s].conn] = "gone"
        BY <2>2, <4>1, <4>3
      <4>5. Seen(y) => Seen(sock[s])
        BY <3>1, <3>2, <4>3 DEF Seen, SocketType
      <4>. QED  BY <3>2, <4>2, <4>4, <4>5 DEF StaysKnown
    <3>4. CASE ~(\E c \in S : entry[c] = s)
      <4>1. sock'[s] = sock[s]
        BY <2>1, <3>4
      <4>. QED  BY <4>1, StaysAsItIs
    <3>. QED  BY <3>3, <3>4
  <2>4. SocketsStay
    <3>1. Sockets' = Sockets
      BY <2>1 DEF Sockets
    <3>. QED  BY <2>3, <3>1 DEF SocketsStay
  <2>5. \A c \in Conns : client'[c] = "hello" => entry'[c] = entry[c]
    BY <2>1, <2>2
  <2>6. \A c \in Conns : ~(client[c] = "hello" /\ Told(c))
    BY <1>6, <1>8 DEF Told, o
  <2>. QED  BY <1>1, <1>4, <2>4, <2>5, <2>6, StepExpects
<1>. QED  BY <1>7, <1>8

LEMMA DaemonRestartsExpects ==
    ASSUME Inv, Inv', ExpectFits, ClientsGoOn, DaemonRestarts
    PROVE  ExpectFits'
<1>1. /\ control' = "down" /\ orders' = <<>> /\ UNCHANGED <<client, timer, dataFaults>>
      /\ sock' = [s \in Sockets |-> [sock[s] EXCEPT !.daemon = "closed", !.in = <<>>]]
  BY DEF DaemonRestarts
<1>2. ASSUME NEW s \in Sockets
      PROVE  StaysKnown(sock[s], sock'[s], client'[sock[s].conn])
  <2> DEFINE y == [sock[s] EXCEPT !.daemon = "closed", !.in = <<>>]
  <2>1. sock[s] \in SocketType
    BY Types
  <2>2. y.conn = sock[s].conn /\ y.relay = sock[s].relay /\ y.daemon = "closed"
    BY <2>1 DEF SocketType
  <2>3. sock'[s] = y
    BY <1>1
  <2>. HIDE DEF y
  <2>. QED  BY <1>1, <2>2, <2>3 DEF StaysKnown, Seen
<1>3. SocketsStay
  <2>1. Sockets' = Sockets
    BY <1>1 DEF Sockets
  <2>. QED  BY <1>2, <2>1 DEF SocketsStay
<1>4. OrdersFit' /\ \A c : Told(c)'
  <2>1. control' = "down" /\ orders' = <<>>
    BY <1>1
  <2>. QED  BY <2>1 DEF OrdersFit, Told
<1>. QED  BY <1>1, <1>3, <1>4, StepExpects

LEMMA HibernateExpects ==
    ASSUME Inv, Inv', ExpectFits, ClientsGoOn, Hibernate
    PROVE  ExpectFits'
<1>1. UNCHANGED <<timer, control, orders, entry, sock, dataFaults>>
  BY DEF Hibernate
<1>2. OrdersFit' /\ \A c : Told(c) => Told(c)'
  BY <1>1, SameOrdersFit DEF ExpectFits
<1>. QED  BY <1>1, <1>2, SameSocketsStay, StepExpects

LEMMA NextExpects == ASSUME Inv, ExpectFits, [Next]_vars PROVE ExpectFits'
<1>0. Inv'
  BY NextInv
<1>1. CASE Next
  <2>0. ClientsGoOn
    BY <1>1, ClientsAlwaysGoOn
  <2>1. CASE \E c \in Conns : ClientStep(c)
    BY <1>0, <2>0, <2>1, ClientStepExpects
  <2>2. CASE RelayStep
    BY <1>0, <2>0, <2>2, RelayStepExpects, TimerStepExpects, SocketEventExpects, HibernateExpects
       DEF RelayStep
  <2>3. CASE DaemonStep
    BY <1>0, <2>0, <2>3, ControlStepExpects, OrderArrivesExpects, SocketEventExpects,
       SocketOpensExpects DEF DaemonStep
  <2>4. CASE Fault
    BY <1>0, <2>0, <2>4, ControlStepExpects, DaemonRestartsExpects, SocketEventExpects DEF Fault
  <2>. QED  BY <1>1, <2>1, <2>2, <2>3, <2>4 DEF Next
<1>2. CASE UNCHANGED vars
  <2>1. UNCHANGED <<client, timer, control, orders, entry, sock, dataFaults>>
    BY <1>2 DEF vars
  <2>2. ClientsGoOn
    BY <2>1, OthersAre DEF ClientsGoOn, GoesOn, OthersOK
  <2>3. OrdersFit' /\ \A c : Told(c) => Told(c)'
    BY <2>1, <2>2, SameOrdersFit DEF ExpectFits
  <2>. QED  BY <1>0, <2>1, <2>2, <2>3, SameSocketsStay, StepExpects
<1>. QED  BY <1>1, <1>2

(* As long as no data socket has failed, a client that connects has a data    *)
(* socket or one that connects, or somebody still has to tell the daemon of   *)
(* it: whatever control sockets fail or wedge, whenever the daemon restarts   *)
(* and the durable object hibernates.                                         *)
THEOREM ClientsAreExpectedHolds == Spec => []ClientsAreExpected
<1>1. Init => ExpectFits
  <2> SUFFICES ASSUME Init PROVE ExpectFits
    OBVIOUS
  <2>1. /\ control = "down" /\ orders = <<>> /\ sock = <<>>
        /\ \A c \in Conns : client[c] = "new"
    BY DEF Init
  <2>2. DOMAIN orders = {} /\ Sockets = {}
    BY <2>1 DEF Sockets
  <2>. QED  BY <2>1, <2>2 DEF ExpectFits, OrdersFit, SocketsKnown
<1>2. Inv /\ ExpectFits => ClientsAreExpected
  <2> SUFFICES ASSUME Inv, ExpectFits, NEW c \in Conns, client[c] = "hello", dataFaults = 0,
                      Told(c), control # "down"
               PROVE  \E i \in DOMAIN orders : orders[i].type = "ensure" /\ c \in orders[i].ids
    BY DEF ClientsAreExpected, ExpectFits, Expected, Served, Opening
  <2>1. /\ orders # <<>> /\ orders \in Seq(OrderType)
        /\ Head(orders).type = "ensure" /\ c \in Head(orders).ids
    BY OthersAre DEF ExpectFits, OrdersFit, Told, OthersOK
  <2>2. 1 \in DOMAIN orders /\ Head(orders) = orders[1]
    <3>. HIDE DEF OrderType
    <3>1. Len(orders) \in Nat /\ DOMAIN orders = 1 .. Len(orders) /\ Len(orders) # 0
      BY <2>1, LenProperties, EmptySeq
    <3>. QED  BY <2>1, <3>1, HeadTailProperties
  <2>. QED  BY <2>1, <2>2
<1>3. Inv /\ ExpectFits /\ [Next]_vars => ExpectFits'
  BY NextExpects
<1>. QED  BY <1>1, <1>2, <1>3, InvHolds, PTL DEF Spec
=============================================================================
