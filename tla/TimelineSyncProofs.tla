------------------------- MODULE TimelineSyncProofs -------------------------
(* TimelineSync implements TimelineView, for any number of epochs, rows and  *)
(* messages.                                                                *)
EXTENDS TimelineSync, SequenceTheorems, TLAPS

-----------------------------------------------------------------------------
(* Sequences and stretches.                                                 *)

\* A stretch has its rows, one after the other.
LEMMA StretchRows ==
    ASSUME NEW e, NEW a \in Nat, NEW b \in Nat
    PROVE  /\ View!Stretch(e, a, b) \in Seq([epoch : {e}, seq : Nat])
           /\ b < a => View!Stretch(e, a, b) = <<>>
           /\ a <= b => /\ Len(View!Stretch(e, a, b)) = b + 1 - a
                        /\ View!Stretch(e, a, b) # <<>>
                        /\ \A i \in 1 .. (b + 1 - a) :
                             View!Stretch(e, a, b)[i] = View!Row(e, a + i - 1)
<1> DEFINE n == IF b < a THEN 0 ELSE b + 1 - a
           f == [i \in 1 .. n |-> View!Row(e, a + i - 1)]
<1>1. n \in Nat
  OBVIOUS
<1>2. f \in [1 .. n -> [epoch : {e}, seq : Nat]]
  BY <1>1 DEF View!Row
<1>3. f \in Seq([epoch : {e}, seq : Nat]) /\ Len(f) = n
  BY <1>1, <1>2
<1>4. View!Stretch(e, a, b) = f
  BY DEF View!Stretch
<1>5. b < a => f = <<>>
  BY <1>3, <1>1
<1>6. a <= b => n = b + 1 - a /\ f # <<>> /\ \A i \in 1 .. n : f[i] = View!Row(e, a + i - 1)
  BY <1>1, <1>3
<1>. HIDE DEF n, f
<1>. QED  BY <1>3, <1>4, <1>5, <1>6 DEF n

\* Two stretches that follow one another are one.
LEMMA StretchesJoin ==
    ASSUME NEW e, NEW a \in Nat, NEW b \in Nat, NEW c \in Nat, a <= b, b <= c
    PROVE  View!Stretch(e, a, b) \o View!Stretch(e, b + 1, c) = View!Stretch(e, a, c)
<1> DEFINE R == [epoch : {e}, seq : Nat]
           s == View!Stretch(e, a, b)
           t == View!Stretch(e, b + 1, c)
           u == View!Stretch(e, a, c)
<1>0. a <= c /\ b + 1 \in Nat /\ (b < c => b + 1 <= c)
  OBVIOUS
<1>1. /\ s \in Seq(R) /\ Len(s) = b + 1 - a
      /\ \A i \in 1 .. (b + 1 - a) : s[i] = View!Row(e, a + i - 1)
  BY StretchRows
<1>2. /\ u \in Seq(R) /\ Len(u) = c + 1 - a
      /\ \A i \in 1 .. (c + 1 - a) : u[i] = View!Row(e, a + i - 1)
  BY <1>0, StretchRows
<1>t. /\ t \in Seq(R)
      /\ c < b + 1 => t = <<>>
      /\ b + 1 <= c => /\ Len(t) = c + 1 - (b + 1)
                       /\ \A i \in 1 .. (c + 1 - (b + 1)) : t[i] = View!Row(e, (b + 1) + i - 1)
  BY <1>0, StretchRows
<1>3. CASE b = c
  <2>1. t = <<>>
    BY <1>3, <1>t
  <2>2. s \o t = s
    <3>. HIDE DEF s, t, R
    <3>. QED  BY <2>1, <1>1, ConcatEmptySeq
  <2>. QED  BY <2>2, <1>3
<1>4. CASE b < c
  <2>1. /\ t \in Seq(R) /\ Len(t) = c - b
        /\ \A i \in 1 .. (c - b) : t[i] = View!Row(e, b + i)
    <3>1. b + 1 <= c
      BY <1>4
    <3>2. c + 1 - (b + 1) = c - b
      OBVIOUS
    <3>3. \A i \in 1 .. (c - b) : (b + 1) + i - 1 = b + i
      OBVIOUS
    <3>. HIDE DEF s, t, u, R
    <3>. QED  BY <3>1, <3>2, <3>3, <1>t
  <2> HIDE DEF s, t, u, R
  <2>2. /\ s \o t \in Seq(R) /\ Len(s \o t) = Len(s) + Len(t)
        /\ \A i \in 1 .. Len(s) + Len(t) :
             (s \o t)[i] = IF i <= Len(s) THEN s[i] ELSE t[i - Len(s)]
    BY <1>1, <2>1, ConcatProperties
  <2>l. Len(s) + Len(t) = c + 1 - a /\ Len(s) \in Nat /\ Len(t) \in Nat
    BY <1>1, <2>1
  <2>3. \A i \in 1 .. (c + 1 - a) : (s \o t)[i] = u[i]
    <3> SUFFICES ASSUME NEW i \in 1 .. (c + 1 - a) PROVE (s \o t)[i] = u[i]
      OBVIOUS
    <3>0. (s \o t)[i] = IF i <= Len(s) THEN s[i] ELSE t[i - Len(s)]
      BY <2>2, <2>l
    <3>1. CASE i <= Len(s)
      <4>1. i \in 1 .. (b + 1 - a)
        BY <3>1, <1>1
      <4>. QED  BY <4>1, <3>0, <3>1, <1>1, <1>2
    <3>2. CASE ~(i <= Len(s))
      <4> DEFINE k == i - Len(s)
      <4>1. k \in 1 .. (c - b) /\ b + k = a + i - 1
        BY <3>2, <1>1
      <4>2. t[k] = View!Row(e, b + k)
        BY <4>1, <2>1
      <4>3. (s \o t)[i] = t[k]
        BY <3>0, <3>2
      <4>. QED  BY <4>1, <4>2, <4>3, <1>2
    <3>. QED  BY <3>1, <3>2
  <2>4. Len(s \o t) = Len(u)
    BY <1>2, <2>l, <2>2
  <2>5. s \o t = u
    BY <2>2, <2>3, <2>4, <1>2, SeqEqual
  <2>. QED  BY <2>5 DEF s, t, u
<1>. QED  BY <1>3, <1>4

\* What is left of a sequence when one element is taken out was in it.
LEMMA RemoveAtType ==
    ASSUME NEW S, NEW s \in Seq(S), NEW i \in DOMAIN s
    PROVE  /\ RemoveAt(s, i) \in Seq(S)
           /\ \A j \in DOMAIN RemoveAt(s, i) : \E k \in DOMAIN s : RemoveAt(s, i)[j] = s[k]
<1>1. i \in 1 .. Len(s) /\ Len(s) \in Nat /\ DOMAIN s = 1 .. Len(s)
  BY LenProperties
<1> DEFINE a == SubSeq(s, 1, i - 1)
           b == SubSeq(s, i + 1, Len(s))
           T == {s[k] : k \in DOMAIN s}
<1>2. a \in Seq(T)
  BY <1>1, SubSeqProperties
<1>3. b \in Seq(T)
  BY <1>1, SubSeqProperties
<1>4. a \o b \in Seq(T)
  <2>. HIDE DEF a, b, T
  <2>. QED  BY <1>2, <1>3, ConcatProperties
<1>5. T \subseteq S
  BY <1>1, ElementOfSeq
<1>6. RemoveAt(s, i) = a \o b
  BY DEF RemoveAt
<1>7. RemoveAt(s, i) \in Seq(S)
  <2>. HIDE DEF a, b, T
  <2>. QED  BY <1>4, <1>5, <1>6, SeqMonotonic
<1>8. \A j \in DOMAIN (a \o b) : (a \o b)[j] \in T
  <2>. HIDE DEF a, b, T
  <2>. QED  BY <1>4, LenProperties, ElementOfSeq
<1>. QED  BY <1>6, <1>7, <1>8

-----------------------------------------------------------------------------
(* The invariant: whatever is shown, asked for or on its way was recorded,  *)
(* and what is on its way is not older than what was sent before it.        *)

\* In the logs l, epoch e has a row n, or n is 0.
Recorded(l, e, n) == e \in 1 .. Len(l) /\ n \in 0 .. l[e]

\* A page ends with a recorded row and has no gap.
PageFits(l, m) ==
    m.dir # "error" =>
        /\ Recorded(l, m.epoch, m.last) /\ m.first \in 1 .. m.last + 1
        /\ m.reset \/ m.dir = "tail" => m.first = 1
        /\ m.dir = "live" => m.first = m.last

\* A request asks for what follows a recorded row.
RequestFits(l, q) == q.dir = "after" => Recorded(l, q.epoch, q.seq) /\ q.seq >= 1

\* The rows up to the n-th of epoch e are not newer than the page's last.
NotNewer(e, n, m) ==
    m.dir # "error" => e < m.epoch \/ (e = m.epoch /\ n <= m.last)

CursorFits ==
    cursor # None => /\ Recorded(logs, cursor.epoch, cursor.end)
                     /\ cursor.start \in 1 .. cursor.end
CursorInOrder ==
    cursor # None => \A i \in DOMAIN wire : NotNewer(cursor.epoch, cursor.end, wire[i])
WireInOrder ==
    \A i, j \in DOMAIN wire :
        i < j /\ wire[i].dir # "error" => NotNewer(wire[i].epoch, wire[i].last, wire[j])

PagesFit == \A i \in DOMAIN wire : PageFits(logs, wire[i])
RequestsFit == \A i \in DOMAIN asked : RequestFits(logs, asked[i])

Inv ==
    /\ TypeOK /\ CursorDescribesView
    /\ stored => Len(logs) > 0
    /\ PagesFit /\ RequestsFit
    /\ CursorFits /\ CursorInOrder /\ WireInOrder

\* The logs of the next state have at least the rows of this one.
Grows ==
    /\ logs' \in Seq(0 .. MaxRows) /\ Len(logs') \in Len(logs) .. MaxEpochs
    /\ \A e \in 1 .. Len(logs) : logs'[e] >= logs[e]

\* What fits the logs fits them when they grow.
LEMMA GrownLogsFit ==
    ASSUME Inv, Grows
    PROVE  /\ \A e, n : Recorded(logs, e, n) => Recorded(logs', e, n)
           /\ \A m : PageFits(logs, m) => PageFits(logs', m)
           /\ \A q : RequestFits(logs, q) => RequestFits(logs', q)
<1>1. /\ logs \in Seq(0 .. MaxRows) /\ logs' \in Seq(0 .. MaxRows)
      /\ Len(logs) \in Nat /\ Len(logs') \in Nat /\ Len(logs) <= Len(logs')
  BY BoundsAssumption, LenProperties DEF Inv, TypeOK, Grows
<1>2. \A e \in 1 .. Len(logs) : logs[e] \in Nat
  BY <1>1, ElementOfSeq, BoundsAssumption
<1>3. \A e \in 1 .. Len(logs') : logs'[e] \in Nat
  BY <1>1, ElementOfSeq, BoundsAssumption
<1>4. \A e, n : Recorded(logs, e, n) => Recorded(logs', e, n)
  BY <1>1, <1>2, <1>3 DEF Recorded, Grows
<1>. QED  BY <1>4 DEF PageFits, RequestFits

\* No step but the ones that record rows or start an epoch changes the logs.
LEMMA UnchangedLogsGrow == ASSUME Inv, UNCHANGED logs PROVE Grows
<1>1. logs \in Seq(0 .. MaxRows) /\ Len(logs) \in 0 .. MaxEpochs
  BY DEF Inv, TypeOK
<1>2. \A e \in 1 .. Len(logs) : logs[e] \in Nat
  BY <1>1, ElementOfSeq, BoundsAssumption
<1>3. Len(logs) \in Len(logs) .. MaxEpochs
  BY <1>1, BoundsAssumption
<1>. QED  BY <1>1, <1>2, <1>3 DEF Grows

\* A new epoch.
LEMMA NewEpochGrows ==
    ASSUME Inv, Len(logs) < MaxEpochs, logs' = Append(logs, 0) PROVE Grows /\ Len(logs') > 0
<1>1. logs \in Seq(0 .. MaxRows) /\ Len(logs) \in 0 .. MaxEpochs /\ 0 \in 0 .. MaxRows
  BY BoundsAssumption DEF Inv, TypeOK
<1>2. /\ logs' \in Seq(0 .. MaxRows) /\ Len(logs') = Len(logs) + 1
      /\ \A e \in 1 .. Len(logs) : logs'[e] = logs[e]
  BY <1>1, AppendProperties
<1>3. \A e \in 1 .. Len(logs) : logs[e] \in Nat
  BY <1>1, ElementOfSeq, BoundsAssumption
<1>4. Len(logs') \in Len(logs) .. MaxEpochs /\ Len(logs') > 0
  BY <1>1, <1>2, BoundsAssumption
<1>. QED  BY <1>2, <1>3, <1>4 DEF Grows

\* A row that is recorded in the current epoch.
LEMMA RecordedRowGrows ==
    ASSUME Inv, Len(logs) > 0, rows < MaxRows, logs' = [logs EXCEPT ![epoch] = @ + 1]
    PROVE  Grows /\ Len(logs') = Len(logs) /\ logs'[epoch] = rows + 1
<1>1. logs \in Seq(0 .. MaxRows) /\ Len(logs) \in 0 .. MaxEpochs
  BY DEF Inv, TypeOK
<1>2. epoch \in 1 .. Len(logs) /\ rows \in 0 .. MaxRows
  BY <1>1, ElementOfSeq, BoundsAssumption DEF epoch, rows
<1>3. rows + 1 \in 0 .. MaxRows
  BY <1>2, BoundsAssumption
<1>4. logs' = [logs EXCEPT ![epoch] = rows + 1]
  BY DEF rows
<1>5. /\ logs' \in Seq(0 .. MaxRows) /\ Len(logs') = Len(logs)
      /\ \A e \in 1 .. Len(logs) : logs'[e] = IF e = epoch THEN rows + 1 ELSE logs[e]
  <2>. HIDE DEF rows, epoch
  <2>. QED  BY <1>1, <1>2, <1>3, <1>4, ExceptSeq
<1>6. \A e \in 1 .. Len(logs) : logs[e] \in Nat
  BY <1>1, ElementOfSeq, BoundsAssumption
<1>7. \A e \in 1 .. Len(logs) : logs'[e] >= logs[e]
  BY <1>5, <1>6, <1>2 DEF rows
<1>8. Len(logs') \in Len(logs) .. MaxEpochs
  BY <1>1, <1>5, BoundsAssumption
<1>. QED  BY <1>2, <1>5, <1>7, <1>8 DEF Grows
\* What the wire and the list of requests hold.
LEMMA WireElements ==
    ASSUME Inv
    PROVE  /\ wire \in Seq(Pages) /\ Len(wire) \in Nat /\ DOMAIN wire = 1 .. Len(wire)
           /\ \A i \in DOMAIN wire : wire[i] \in Pages
           /\ asked \in Seq(Requests) /\ Len(asked) \in Nat /\ DOMAIN asked = 1 .. Len(asked)
           /\ \A i \in DOMAIN asked : asked[i] \in Requests
<1>1. wire \in Seq(Pages) /\ asked \in Seq(Requests)
  BY DEF Inv, TypeOK
<1>. QED  BY <1>1, LenProperties, ElementOfSeq

\* Taking the first message off the wire keeps it in order, and what follows
\* is not older than it.
LEMMA WireAdvances ==
    ASSUME Inv, Grows, wire # <<>>, wire' = Tail(wire)
    PROVE  /\ wire' \in Seq(Pages) /\ PagesFit' /\ WireInOrder'
           /\ Head(wire) \in Pages /\ PageFits(logs, Head(wire))
           /\ UNCHANGED cursor => CursorInOrder'
           /\ Head(wire).dir # "error" =>
                \A i \in DOMAIN wire' : NotNewer(Head(wire).epoch, Head(wire).last, wire'[i])
           /\ cursor # None => NotNewer(cursor.epoch, cursor.end, Head(wire))
<1>1. /\ wire \in Seq(Pages) /\ Len(wire) \in Nat /\ DOMAIN wire = 1 .. Len(wire)
      /\ \A i \in DOMAIN wire : wire[i] \in Pages
  BY WireElements
<1>2. /\ wire' \in Seq(Pages) /\ Head(wire) = wire[1] /\ 1 \in DOMAIN wire
      /\ Len(wire') = Len(wire) - 1
      /\ \A i \in 1 .. Len(wire') : wire'[i] = wire[i + 1]
  BY <1>1, HeadTailProperties, EmptySeq
<1>3. DOMAIN wire' = 1 .. Len(wire')
  BY <1>2, LenProperties
<1>4. \A i \in DOMAIN wire' : i \in Nat /\ i + 1 \in DOMAIN wire /\ 1 < i + 1 /\ wire'[i] = wire[i + 1]
  BY <1>1, <1>2, <1>3
<1>5. PagesFit'
  <2>1. \A i \in DOMAIN wire' : PageFits(logs', wire[i + 1])
    BY <1>4, GrownLogsFit DEF Inv, PagesFit
  <2>. QED  BY <1>4, <2>1 DEF PagesFit, PageFits
<1>6. WireInOrder'
  <2> SUFFICES ASSUME NEW i \in DOMAIN wire', NEW j \in DOMAIN wire', i < j, wire'[i].dir # "error"
               PROVE  NotNewer(wire'[i].epoch, wire'[i].last, wire'[j])
    BY DEF WireInOrder, NotNewer
  <2>1. i + 1 < j + 1
    BY <1>4
  <2>. QED  BY <1>4, <2>1 DEF Inv, WireInOrder
<1>7. UNCHANGED cursor => CursorInOrder'
  BY <1>4 DEF Inv, CursorInOrder, NotNewer
<1>8. Head(wire).dir # "error" =>
        \A i \in DOMAIN wire' : NotNewer(Head(wire).epoch, Head(wire).last, wire'[i])
  BY <1>2, <1>4 DEF Inv, WireInOrder
<1>9. cursor # None => NotNewer(cursor.epoch, cursor.end, Head(wire))
  BY <1>2 DEF Inv, CursorInOrder
<1>10. Head(wire) \in Pages /\ PageFits(logs, Head(wire))
  BY <1>1, <1>2 DEF Inv, PagesFit
<1>. QED  BY <1>2, <1>5, <1>6, <1>7, <1>8, <1>9, <1>10

\* A page that ends with the newest row may follow whatever is on the wire.
LEMMA WireExtends ==
    ASSUME Inv, Grows, NEW m \in Pages, wire' = Append(wire, m), PageFits(logs', m),
           m.dir # "error" => m.epoch = Len(logs') /\ m.last = logs'[Len(logs')],
           UNCHANGED cursor
    PROVE  wire' \in Seq(Pages) /\ PagesFit' /\ WireInOrder' /\ CursorInOrder'
<1>1. /\ wire \in Seq(Pages) /\ Len(wire) \in Nat /\ DOMAIN wire = 1 .. Len(wire)
      /\ \A i \in DOMAIN wire : wire[i] \in Pages
  BY WireElements
<1>2. /\ wire' \in Seq(Pages) /\ Len(wire') = Len(wire) + 1
      /\ \A i \in 1 .. Len(wire) : wire'[i] = wire[i]
      /\ wire'[Len(wire) + 1] = m
  BY <1>1, AppendProperties
<1>3. DOMAIN wire' = 1 .. Len(wire')
  BY <1>2, LenProperties
<1>4. \A i \in DOMAIN wire' : \/ (i \in DOMAIN wire /\ wire'[i] = wire[i])
                            \/ (i = Len(wire) + 1 /\ wire'[i] = m)
  <2> SUFFICES ASSUME NEW i \in 1 .. (Len(wire) + 1)
               PROVE  \/ (i \in DOMAIN wire /\ wire'[i] = wire[i])
                      \/ (i = Len(wire) + 1 /\ wire'[i] = m)
    BY <1>2, <1>3
  <2>1. i \in 1 .. Len(wire) \/ i = Len(wire) + 1
    BY <1>1
  <2>. QED  BY <2>1, <1>1, <1>2
<1>5. PagesFit'
  <2>1. \A i \in DOMAIN wire : PageFits(logs', wire[i])
    BY GrownLogsFit DEF Inv, PagesFit
  <2>. QED  BY <1>4, <2>1 DEF PagesFit, PageFits
<1>6. \A e, n : Recorded(logs, e, n) => NotNewer(e, n, m)
  <2> SUFFICES ASSUME NEW e, NEW n, Recorded(logs, e, n), m.dir # "error"
               PROVE  e < m.epoch \/ (e = m.epoch /\ n <= m.last)
    BY DEF NotNewer
  <2>1. Recorded(logs', e, n)
    BY GrownLogsFit
  <2>2. e \in 1 .. Len(logs') /\ n \in 0 .. logs'[e] /\ Len(logs') \in Nat
    BY <2>1, LenProperties DEF Recorded, Grows
  <2>. QED  BY <2>2
<1>7. WireInOrder'
  <2> SUFFICES ASSUME NEW i \in DOMAIN wire', NEW j \in DOMAIN wire', i < j, wire'[i].dir # "error"
               PROVE  NotNewer(wire'[i].epoch, wire'[i].last, wire'[j])
    BY DEF WireInOrder, NotNewer
  <2>1. i \in DOMAIN wire /\ wire'[i] = wire[i]
    BY <1>1, <1>2, <1>3
  <2>2. CASE j \in DOMAIN wire /\ wire'[j] = wire[j]
    BY <2>1, <2>2 DEF Inv, WireInOrder
  <2>3. CASE wire'[j] = m
    <3>1. Recorded(logs, wire[i].epoch, wire[i].last)
      BY <2>1 DEF Inv, PagesFit, PageFits
    <3>. QED  BY <2>1, <2>3, <3>1, <1>6
  <2>. QED  BY <1>4, <2>2, <2>3
<1>8. CursorInOrder'
  <2> SUFFICES ASSUME cursor # None, NEW i \in DOMAIN wire'
               PROVE  NotNewer(cursor.epoch, cursor.end, wire'[i])
    BY DEF CursorInOrder, NotNewer
  <2>1. Recorded(logs, cursor.epoch, cursor.end)
    BY DEF Inv, CursorFits
  <2>. QED  BY <1>4, <2>1, <1>6 DEF Inv, CursorInOrder
<1>. QED  BY <1>2, <1>5, <1>7, <1>8

\* The wire stays as it is, or is lost.
LEMMA WireStays ==
    ASSUME Inv, Grows, UNCHANGED wire \/ wire' = <<>>
    PROVE  /\ wire' \in Seq(Pages) /\ PagesFit' /\ WireInOrder'
           /\ UNCHANGED cursor \/ cursor' = None => CursorInOrder'
<1>1. wire \in Seq(Pages) /\ <<>> \in Seq(Pages) /\ DOMAIN <<>> = {}
  BY WireElements, EmptySeq
<1>2. \A i \in DOMAIN wire : PageFits(logs', wire[i])
  BY GrownLogsFit DEF Inv, PagesFit
<1>3. CASE UNCHANGED wire
  BY <1>1, <1>2, <1>3 DEF PagesFit, WireInOrder, CursorInOrder, PageFits, NotNewer, Inv
<1>4. CASE wire' = <<>>
  BY <1>1, <1>4 DEF PagesFit, WireInOrder, CursorInOrder
<1>. QED  BY <1>3, <1>4

\* A request that is added asks for what follows a recorded row.
LEMMA AskedExtends ==
    ASSUME Inv, Grows, NEW q \in Requests, RequestFits(logs, q), asked' = Append(asked, q)
    PROVE  asked' \in Seq(Requests) /\ RequestsFit'
<1>1. /\ asked \in Seq(Requests) /\ Len(asked) \in Nat /\ DOMAIN asked = 1 .. Len(asked)
  BY WireElements
<1>2. /\ asked' \in Seq(Requests) /\ Len(asked') = Len(asked) + 1
      /\ \A i \in 1 .. Len(asked) : asked'[i] = asked[i]
      /\ asked'[Len(asked) + 1] = q
  BY <1>1, AppendProperties
<1>3. DOMAIN asked' = 1 .. Len(asked')
  BY <1>2, LenProperties
<1>4. \A i \in DOMAIN asked' : (i \in DOMAIN asked /\ asked'[i] = asked[i]) \/ asked'[i] = q
  BY <1>1, <1>2, <1>3
<1>5. RequestFits(logs', q) /\ \A i \in DOMAIN asked : RequestFits(logs', asked[i])
  BY GrownLogsFit DEF Inv, RequestsFit
<1>6. RequestsFit'
  BY <1>4, <1>5 DEF RequestsFit, RequestFits
<1>. QED  BY <1>2, <1>6

\* Requests that stay, or of which one is taken out, still fit.
LEMMA AskedShrinks ==
    ASSUME Inv, Grows,
           UNCHANGED asked \/ asked' = <<>> \/ \E i \in DOMAIN asked : asked' = RemoveAt(asked, i)
    PROVE  asked' \in Seq(Requests) /\ RequestsFit'
<1>1. asked \in Seq(Requests) /\ <<>> \in Seq(Requests) /\ DOMAIN <<>> = {}
  BY WireElements, EmptySeq
<1>2. \A i \in DOMAIN asked : RequestFits(logs', asked[i])
  BY GrownLogsFit DEF Inv, RequestsFit
<1>3. CASE UNCHANGED asked
  BY <1>1, <1>2, <1>3 DEF RequestsFit, RequestFits
<1>4. CASE asked' = <<>>
  BY <1>1, <1>4 DEF RequestsFit
<1>5. CASE \E i \in DOMAIN asked : asked' = RemoveAt(asked, i)
  <2>1. /\ asked' \in Seq(Requests)
        /\ \A j \in DOMAIN asked' : \E k \in DOMAIN asked : asked'[j] = asked[k]
    BY <1>1, <1>5, RemoveAtType
  <2>. QED  BY <2>1, <1>2 DEF RequestsFit, RequestFits
<1>. QED  BY <1>3, <1>4, <1>5
-----------------------------------------------------------------------------
(* What the reducers make of a page.                                        *)

Cursors == [epoch : 1 .. MaxEpochs, start : 1 .. MaxRows, end : 1 .. MaxRows]

\* The cursor c describes the rows v, which are recorded.
Shows(c, v) ==
    /\ c \in {None} \cup Cursors /\ v \in Seq(Rows)
    /\ v = IF c = None THEN <<>> ELSE View!Stretch(c.epoch, c.start, c.end)
    /\ c # None => Recorded(logs, c.epoch, c.end) /\ c.start \in 1 .. c.end

\* TimelineView lets the stream become k, which has no cursor, and v.
Promised(k, v) ==
    \/ k = earlier /\ v = view
    \/ /\ k = earlier /\ view = <<>>
       /\ \E e \in 1 .. Len(logs) : \E a, b \in 1 .. logs[e] : v = View!Stretch(e, a, b)
    \/ /\ k = earlier /\ view # <<>>
       /\ \E n \in 1 .. logs[View!Newest.epoch] :
            v = view \o View!Stretch(View!Newest.epoch, View!Newest.seq + 1, n)
    \/ /\ k = <<>>
       /\ \E e \in 1 .. Len(logs) : \E n \in 0 .. logs[e] :
            View!NeitherOlderNorShorter(e, n) /\ v = View!Stretch(e, 1, n)

\* The stream becomes that, and the cursor c describes v or is forgotten.
Becomes(c, k, v) ==
    \/ cursor' = c /\ earlier' = k /\ view' = v
    \/ cursor' = None /\ earlier' = k \o v /\ view' = <<>>

\* The range of what is recorded.
LEMMA RecordedRange ==
    ASSUME Inv, NEW e, NEW n, Recorded(logs, e, n)
    PROVE  e \in 1 .. MaxEpochs /\ n \in 0 .. MaxRows /\ Len(logs) \in Nat /\ logs[e] \in Nat
<1>1. /\ logs \in Seq(0 .. MaxRows) /\ Len(logs) \in 0 .. MaxEpochs
      /\ e \in 1 .. Len(logs) /\ n \in 0 .. logs[e]
  BY DEF Inv, TypeOK, Recorded
<1>2. logs[e] \in 0 .. MaxRows
  BY <1>1, ElementOfSeq
<1>. QED  BY <1>1, <1>2, BoundsAssumption

\* A cursor and the stretch it stands for.
LEMMA StretchShows ==
    ASSUME Inv, NEW e, NEW a, NEW b, Recorded(logs, e, b), a \in 1 .. b
    PROVE  /\ Cursor(e, a, b) \in Cursors /\ Cursor(e, a, b) # None
           /\ Shows(Cursor(e, a, b), View!Stretch(e, a, b))
           /\ View!Stretch(e, a, b) # <<>>
<1>1. e \in 1 .. MaxEpochs /\ b \in 0 .. MaxRows
  BY RecordedRange
<1>2. a \in 1 .. MaxRows /\ b \in 1 .. MaxRows /\ a \in Nat /\ b \in Nat /\ a <= b
  BY <1>1, BoundsAssumption
<1>3. Cursor(e, a, b) \in Cursors
  BY <1>1, <1>2 DEF Cursor, Cursors
<1>4. Cursor(e, a, b) \in [epoch : Nat, start : Nat, end : Nat]
  BY <1>1, <1>2 DEF Cursor
<1>5. Cursor(e, a, b) # None
  BY <1>4, NoneAssumption
<1>6. View!Stretch(e, a, b) # <<>>
  BY <1>2, StretchRows
<1>7. View!Stretch(e, a, b) \in Seq(Rows)
  <2> DEFINE s == View!Stretch(e, a, b)
  <2>1. /\ s \in Seq([epoch : {e}, seq : Nat]) /\ Len(s) = b + 1 - a
        /\ \A i \in 1 .. (b + 1 - a) : s[i] = View!Row(e, a + i - 1)
    BY <1>2, StretchRows
  <2>2. \A i \in 1 .. (b + 1 - a) : View!Row(e, a + i - 1) \in Rows
    <3> SUFFICES ASSUME NEW i \in 1 .. (b + 1 - a) PROVE a + i - 1 \in 1 .. MaxRows
      BY <1>1 DEF View!Row, Rows
    <3>. QED  BY <1>2, BoundsAssumption
  <2>3. b + 1 - a \in Nat /\ s \in [1 .. Len(s) -> [epoch : {e}, seq : Nat]]
    BY <1>2, <2>1, LenProperties
  <2>4. s \in [1 .. (b + 1 - a) -> Rows]
    <3>. HIDE DEF s
    <3>. QED  BY <2>1, <2>2, <2>3
  <2>. HIDE DEF s
  <2>5. s \in Seq(Rows)
    BY <2>3, <2>4
  <2>. QED  BY <2>5 DEF s
<1>. QED  BY <1>3, <1>5, <1>6, <1>7 DEF Shows, Cursor

\* The cursor of the client describes what it shows, whose newest row is its
\* end.
LEMMA CursorShows ==
    ASSUME Inv
    PROVE  /\ Shows(cursor, view) /\ (cursor = None <=> view = <<>>) /\ earlier \in Seq(Rows)
           /\ cursor # None => /\ View!Newest = View!Row(cursor.epoch, cursor.end)
                               /\ cursor.epoch \in Nat /\ cursor.start \in Nat /\ cursor.end \in Nat
<1>1. Shows(cursor, view) /\ earlier \in Seq(Rows)
  BY DEF Inv, TypeOK, CursorDescribesView, CursorFits, Shows, Cursors
<1>2. CASE cursor = None
  BY <1>1, <1>2 DEF Shows
<1>3. CASE cursor # None
  <2>1. /\ cursor.epoch \in 1 .. MaxEpochs /\ cursor.start \in 1 .. cursor.end
        /\ cursor.end \in 1 .. MaxRows
    BY <1>1, <1>3 DEF Shows, Cursors
  <2>2. cursor.epoch \in Nat /\ cursor.start \in Nat /\ cursor.end \in Nat
        /\ cursor.start <= cursor.end
    BY <2>1, BoundsAssumption
  <2>3. /\ view = View!Stretch(cursor.epoch, cursor.start, cursor.end)
        /\ Len(view) = cursor.end + 1 - cursor.start /\ view # <<>>
        /\ \A i \in 1 .. (cursor.end + 1 - cursor.start) :
             view[i] = View!Row(cursor.epoch, cursor.start + i - 1)
    BY <1>1, <1>3, <2>2, StretchRows DEF Shows
  <2>4. LET n == cursor.end + 1 - cursor.start
        IN n \in 1 .. n /\ cursor.start + n - 1 = cursor.end
    BY <2>2
  <2>5. View!Newest = View!Row(cursor.epoch, cursor.end)
    BY <2>3, <2>4 DEF View!Newest
  <2>. QED  BY <1>1, <1>3, <2>2, <2>3, <2>5
<1>. QED  BY <1>2, <1>3

\* The rows of a page that fit are the next ones.
LEMMA ExtendedShows ==
    ASSUME Inv, NEW m \in Pages, PageFits(logs, m), m.dir # "error"
    PROVE  LET x == Extended(m) IN
           /\ Shows(x.cursor, x.view) /\ Promised(x.earlier, x.view) /\ x.earlier \in Seq(Rows)
           /\ \/ x.cursor = cursor
              \/ x.cursor # None /\ x.cursor.epoch = m.epoch /\ x.cursor.end = m.last
<1> DEFINE x == Extended(m)
<1>1. /\ Shows(cursor, view) /\ (cursor = None <=> view = <<>>)
      /\ cursor # None => /\ View!Newest = View!Row(cursor.epoch, cursor.end)
                          /\ cursor.epoch \in Nat /\ cursor.start \in Nat /\ cursor.end \in Nat
  BY CursorShows
<1>2. /\ Recorded(logs, m.epoch, m.last) /\ m.first \in 1 .. m.last + 1
      /\ m.epoch \in 1 .. Len(logs) /\ m.last \in 0 .. logs[m.epoch]
      /\ Len(logs) \in Nat /\ logs[m.epoch] \in Nat /\ m.first \in Nat /\ m.last \in Nat
  <2>1. Recorded(logs, m.epoch, m.last) /\ m.first \in 1 .. m.last + 1
    BY DEF PageFits
  <2>. QED  BY <2>1, RecordedRange DEF Recorded
<1>r. earlier \in Seq(Rows) /\ x.earlier = earlier
  BY DEF Inv, TypeOK, Extended
<1>3. CASE ~Fits(m)
  BY <1>r, <1>1, <1>3 DEF Extended, Promised
<1>4. CASE Fits(m) /\ cursor = None
  <2>1. FirstFresh(m) = m.first /\ m.first <= m.last
    BY <1>2, <1>4 DEF FirstFresh, Fits, Decision
  <2>2. m.first \in 1 .. m.last /\ m.first \in 1 .. logs[m.epoch] /\ m.last \in 1 .. logs[m.epoch]
    BY <1>2, <2>1
  <2>3. /\ x.cursor = Cursor(m.epoch, m.first, m.last)
        /\ x.view = <<>> \o View!Stretch(m.epoch, m.first, m.last)
    BY <1>1, <1>4, <2>1 DEF Extended
  <2>4. x.view = View!Stretch(m.epoch, m.first, m.last)
    BY <1>2, <2>3, StretchRows, ConcatEmptySeq
  <2>5. Shows(x.cursor, x.view) /\ x.cursor # None
    BY <1>2, <2>2, <2>3, <2>4, StretchShows
  <2>6. Promised(x.earlier, x.view)
    BY <1>r, <1>1, <1>2, <1>4, <2>2, <2>4 DEF Promised
  <2>7. x.cursor.epoch = m.epoch /\ x.cursor.end = m.last
    BY <2>3 DEF Cursor
  <2>. QED  BY <1>r, <2>5, <2>6, <2>7
<1>5. CASE Fits(m) /\ cursor # None
  <2>1. Decision(m) = "accept" /\ ~(FirstFresh(m) > m.last)
        /\ Classify(cursor, m.epoch, FirstFresh(m)) = "accept"
    BY <1>5 DEF Fits, Decision, Classify
  <2>2. cursor.epoch = m.epoch /\ FirstFresh(m) = cursor.end + 1
    BY <1>5, <2>1 DEF Classify
  <2>3. cursor.end + 1 <= m.last
    BY <1>1, <1>2, <1>5, <2>1, <2>2
  <2>4. /\ x.cursor = Cursor(m.epoch, cursor.start, m.last)
        /\ x.view = view \o View!Stretch(m.epoch, cursor.end + 1, m.last)
    BY <1>5, <2>2 DEF Extended
  <2>5. cursor.start \in 1 .. cursor.end /\ view = View!Stretch(cursor.epoch, cursor.start, cursor.end)
    BY <1>1, <1>5 DEF Shows
  <2>6. cursor.start <= cursor.end /\ cursor.end <= m.last /\ cursor.start \in 1 .. m.last
    BY <1>1, <1>2, <1>5, <2>3, <2>5
  <2>7. x.view = View!Stretch(m.epoch, cursor.start, m.last)
    <3>1. /\ cursor.start \in Nat /\ cursor.end \in Nat /\ m.last \in Nat
          /\ cursor.start <= cursor.end /\ cursor.end <= m.last
      BY <1>1, <1>2, <1>5, <2>6
    <3>2. View!Stretch(m.epoch, cursor.start, cursor.end)
              \o View!Stretch(m.epoch, cursor.end + 1, m.last)
            = View!Stretch(m.epoch, cursor.start, m.last)
      BY <3>1, StretchesJoin
    <3>3. view = View!Stretch(m.epoch, cursor.start, cursor.end)
      BY <2>2, <2>5
    <3>. HIDE DEF x
    <3>. QED  BY <2>4, <3>2, <3>3
  <2>8. Shows(x.cursor, x.view) /\ x.cursor # None
    BY <1>2, <2>4, <2>6, <2>7, StretchShows
  <2>9. /\ View!Newest.epoch = m.epoch /\ View!Newest.seq = cursor.end
        /\ m.last \in 1 .. logs[m.epoch]
    BY <1>1, <1>2, <1>5, <2>2, <2>3 DEF View!Row
  <2>10. Promised(x.earlier, x.view)
    BY <1>r, <1>1, <1>5, <2>4, <2>9 DEF Promised
  <2>11. x.cursor.epoch = m.epoch /\ x.cursor.end = m.last
    BY <2>4 DEF Cursor
  <2>. QED  BY <1>r, <2>8, <2>10, <2>11
<1>. QED  BY <1>3, <1>4, <1>5

\* A page that takes the place of the stream has all rows of an epoch, and is
\* not older than what is shown.
LEMMA ReplacementShows ==
    ASSUME Inv, NEW m \in Pages, PageFits(logs, m), m.dir # "error", Replaces(m),
           cursor # None => NotNewer(cursor.epoch, cursor.end, m)
    PROVE  LET x == Replacement(m) IN
           /\ Shows(x.cursor, x.view) /\ Promised(x.earlier, x.view) /\ x.earlier \in Seq(Rows)
           /\ x.cursor = None <=> Empty(m)
           /\ x.cursor # None => x.cursor.epoch = m.epoch /\ x.cursor.end = m.last
<1> DEFINE x == Replacement(m)
<1>1. /\ Shows(cursor, view) /\ (cursor = None <=> view = <<>>)
      /\ cursor # None => /\ View!Newest = View!Row(cursor.epoch, cursor.end)
                          /\ cursor.epoch \in Nat /\ cursor.start \in Nat /\ cursor.end \in Nat
  BY CursorShows
<1>2. /\ Recorded(logs, m.epoch, m.last) /\ m.first = 1
      /\ m.epoch \in 1 .. Len(logs) /\ m.last \in 0 .. logs[m.epoch]
      /\ Len(logs) \in Nat /\ logs[m.epoch] \in Nat /\ m.last \in Nat
  <2>1. Recorded(logs, m.epoch, m.last) /\ m.first = 1
    BY DEF PageFits, Replaces
  <2>. QED  BY <2>1, RecordedRange DEF Recorded
<1>3. x.view = View!Stretch(m.epoch, 1, m.last)
  BY <1>2 DEF Replacement
<1>r. x.earlier = <<>> /\ x.earlier \in Seq(Rows)
  BY EmptySeq DEF Replacement
<1>4. Promised(x.earlier, x.view)
  <2>1. View!NeitherOlderNorShorter(m.epoch, m.last)
    <3>1. CASE view = <<>>
      BY <3>1 DEF View!NeitherOlderNorShorter
    <3>2. CASE view # <<>>
      <4>1. cursor # None /\ View!Newest.epoch = cursor.epoch /\ View!Newest.seq = cursor.end
        BY <1>1, <3>2 DEF View!Row
      <4>2. m.epoch >= cursor.epoch /\ (m.epoch = cursor.epoch => m.last >= cursor.end)
        BY <1>1, <1>2, <4>1 DEF NotNewer
      <4>. QED  BY <4>1, <4>2 DEF View!NeitherOlderNorShorter
    <3>. QED  BY <3>1, <3>2
  <2>. HIDE DEF x
  <2>. QED  BY <1>2, <1>3, <1>r, <2>1 DEF Promised
<1>5. CASE Empty(m)
  <2>1. x.cursor = None /\ m.last < 1
    BY <1>2, <1>5 DEF Empty, Replacement
  <2>2. x.view = <<>>
    BY <1>2, <1>3, <2>1, StretchRows
  <2>3. Shows(x.cursor, x.view)
    BY <2>1, <2>2, EmptySeq DEF Shows
  <2>. QED  BY <1>r, <1>4, <1>5, <2>1, <2>3
<1>6. CASE ~Empty(m)
  <2>1. x.cursor = Cursor(m.epoch, 1, m.last) /\ 1 \in 1 .. m.last
    BY <1>2, <1>6 DEF Empty, Replacement
  <2>2. Shows(x.cursor, x.view) /\ x.cursor # None
    BY <1>2, <1>3, <2>1, StretchShows
  <2>. QED  BY <1>r, <1>4, <1>6, <2>1, <2>2 DEF Cursor
<1>. QED  BY <1>5, <1>6
-----------------------------------------------------------------------------
(* Every step keeps the invariant and is a step of TimelineView, or none.    *)

Flags ==
    /\ stored \in BOOLEAN /\ registered \in BOOLEAN
    /\ closing \in BOOLEAN /\ hydrating \in BOOLEAN
    /\ online \in BOOLEAN
    /\ init \in {None, "tail", "after"}
    /\ authoritative \in BOOLEAN /\ pendingRemove \in BOOLEAN
    /\ ~online => wire = <<>> /\ init = None /\ ~pendingRemove
    /\ stored => Len(logs) > 0

Preserved == Inv' /\ [View!Next]_(View!vars)

\* The parts of the invariant make up the invariant.
LEMMA InvFromParts ==
    ASSUME Inv, Grows, Flags', Shows(cursor', view'), earlier' \in Seq(Rows),
           wire' \in Seq(Pages), PagesFit', WireInOrder', CursorInOrder',
           asked' \in Seq(Requests), RequestsFit'
    PROVE  Inv'
<1>1. logs' \in Seq(0 .. MaxRows) /\ Len(logs') \in 0 .. MaxEpochs
  <2>1. Len(logs) \in 0 .. MaxEpochs /\ Len(logs') \in Len(logs) .. MaxEpochs
    BY DEF Inv, TypeOK, Grows
  <2>. QED  BY <2>1, BoundsAssumption DEF Grows
<1>2. TypeOK'
  BY <1>1 DEF TypeOK, Flags, Shows, Cursors
<1>3. CursorDescribesView'
  BY DEF CursorDescribesView, Shows
<1>4. CursorFits'
  <2> SUFFICES ASSUME cursor' # None
               PROVE  Recorded(logs', cursor'.epoch, cursor'.end) /\ cursor'.start \in 1 .. cursor'.end
    BY DEF CursorFits, Recorded
  <2>. QED  BY GrownLogsFit DEF Shows
<1>. QED  BY <1>2, <1>3, <1>4 DEF Inv, Flags

\* A change of the stream that is promised is a step of the abstract timeline,
\* whether the client remembers what it shows or forgets it.
LEMMA PromisedStep ==
    ASSUME UNCHANGED logs, NEW c, NEW k, NEW v, Promised(k, v), Becomes(c, k, v)
    PROVE  [View!Next]_(View!vars)
<1>s. View!ShowOrForget(k, v)
  BY DEF Becomes, View!ShowOrForget
<1>1. CASE k = earlier /\ v = view
  BY <1>1, <1>s DEF View!Next, View!Forget
<1>3. CASE /\ k = earlier /\ view = <<>>
           /\ \E e \in 1 .. Len(logs) : \E a, b \in 1 .. logs[e] : v = View!Stretch(e, a, b)
  BY <1>3, <1>s DEF View!Next, View!Begin
<1>4. CASE /\ k = earlier /\ view # <<>>
           /\ \E n \in 1 .. logs[View!Newest.epoch] :
                v = view \o View!Stretch(View!Newest.epoch, View!Newest.seq + 1, n)
  BY <1>4, <1>s DEF View!Next, View!Extend
<1>5. CASE /\ k = <<>>
           /\ \E e \in 1 .. Len(logs) : \E n \in 0 .. logs[e] :
                View!NeitherOlderNorShorter(e, n) /\ v = View!Stretch(e, 1, n)
  BY <1>5, <1>s DEF View!Next, View!Exchange
<1>. QED  BY <1>1, <1>3, <1>4, <1>5 DEF Promised

\* What the client shows and what it only keeps are rows after such a change.
LEMMA BecomesShows ==
    ASSUME NEW c, NEW k \in Seq(Rows), NEW v, Shows(c, v), Becomes(c, k, v)
    PROVE  Shows(cursor', view') /\ earlier' \in Seq(Rows)
<1>1. v \in Seq(Rows) /\ k \o v \in Seq(Rows)
  BY ConcatProperties DEF Shows
<1>2. Shows(None, <<>>)
  BY EmptySeq DEF Shows
<1>. QED  BY <1>1, <1>2 DEF Becomes

\* A step that leaves the screen, the logs and the requests alone, and takes
\* nothing but everything off the wire.
LEMMA QuietStep ==
    ASSUME Inv, Flags', UNCHANGED <<logs, cursor, earlier, view>>,
           UNCHANGED wire \/ wire' = <<>>,
           UNCHANGED asked \/ asked' = <<>> \/ \E i \in DOMAIN asked : asked' = RemoveAt(asked, i)
    PROVE  Preserved
<1>1. Grows
  BY UnchangedLogsGrow
<1>2. Shows(cursor', view') /\ earlier' \in Seq(Rows)
  BY CursorShows
<1>3. /\ wire' \in Seq(Pages) /\ PagesFit' /\ WireInOrder' /\ CursorInOrder'
  BY <1>1, WireStays
<1>4. asked' \in Seq(Requests) /\ RequestsFit'
  BY <1>1, AskedShrinks
<1>. QED  BY <1>1, <1>2, <1>3, <1>4, InvFromParts DEF Preserved, View!vars

\* Starting to load an agent begins an epoch, or finds the old one.
LEMMA LoadKeeps == ASSUME Inv, Load PROVE Preserved
<1>1. CASE stored
  <2>1. Flags'
    BY <1>1 DEF Load, Inv, TypeOK, Flags, screen
  <2>. QED  BY <1>1, <2>1, QuietStep DEF Load, screen
<1>2. CASE ~stored
  <2>1. Grows /\ Len(logs') > 0
    BY <1>2, NewEpochGrows DEF Load
  <2>2. Flags'
    BY <2>1 DEF Load, Inv, TypeOK, Flags, screen
  <2>3. Shows(cursor', view') /\ earlier' \in Seq(Rows)
    BY CursorShows DEF Load, screen
  <2>4. /\ wire' \in Seq(Pages) /\ PagesFit' /\ WireInOrder' /\ CursorInOrder'
    BY <2>1, WireStays DEF Load, screen
  <2>5. asked' \in Seq(Requests) /\ RequestsFit'
    BY <2>1, AskedShrinks DEF Load
  <2>6. View!Next
    BY <1>2 DEF Load, screen, View!Next, View!NewEpoch
  <2>. QED  BY <2>1, <2>2, <2>3, <2>4, <2>5, <2>6, InvFromParts DEF Preserved
<1>. QED  BY <1>1, <1>2

\* A row of the history is recorded.
LEMMA HydrateKeeps == ASSUME Inv, Hydrate PROVE Preserved
<1>1. Grows /\ Len(logs') = Len(logs) /\ Len(logs) > 0
  BY RecordedRowGrows DEF Hydrate, Inv
<1>2. Flags'
  BY <1>1 DEF Hydrate, Inv, TypeOK, Flags, screen
<1>3. Shows(cursor', view') /\ earlier' \in Seq(Rows)
  BY CursorShows DEF Hydrate, screen
<1>4. /\ wire' \in Seq(Pages) /\ PagesFit' /\ WireInOrder' /\ CursorInOrder'
  BY <1>1, WireStays DEF Hydrate, screen
<1>5. asked' \in Seq(Requests) /\ RequestsFit'
  BY <1>1, AskedShrinks DEF Hydrate
<1>6. View!Next
  <2>1. logs # <<>>
    BY <1>1
  <2>. QED  BY <2>1 DEF Hydrate, screen, epoch, View!Next, View!Record
<1>. QED  BY <1>1, <1>2, <1>3, <1>4, <1>5, <1>6, InvFromParts DEF Preserved

\* A row is recorded and streamed, or not forwarded.
LEMMA RecordRowKeeps == ASSUME Inv, RecordRow PROVE Preserved
<1>1. Len(logs) > 0 /\ Grows /\ Len(logs') = Len(logs) /\ logs'[epoch] = rows + 1
  BY RecordedRowGrows DEF RecordRow, Inv
<1>2. Flags'
  BY <1>1 DEF RecordRow, Inv, TypeOK, Flags, screen
<1>3. Shows(cursor', view') /\ earlier' \in Seq(Rows)
  BY CursorShows DEF RecordRow, screen
<1>4. /\ wire' \in Seq(Pages) /\ PagesFit' /\ WireInOrder' /\ CursorInOrder'
  <2>1. CASE UNCHANGED wire
    BY <1>1, <2>1, WireStays DEF RecordRow, screen
  <2>2. CASE wire' = Append(wire, Page("live", epoch, rows + 1, rows + 1, FALSE))
    <3> DEFINE m == Page("live", epoch, rows + 1, rows + 1, FALSE)
    <3>1. /\ logs \in Seq(0 .. MaxRows) /\ Len(logs) \in 0 .. MaxEpochs
          /\ epoch = Len(logs) /\ rows = logs[epoch] /\ rows < MaxRows
      BY DEF RecordRow, Inv, TypeOK, epoch, rows
    <3>2. epoch \in 1 .. Len(logs) /\ epoch \in 0 .. MaxEpochs
      BY <1>1, <3>1, BoundsAssumption
    <3>3. rows \in 0 .. MaxRows
      BY <3>1, <3>2, ElementOfSeq
    <3>4. rows \in Nat /\ rows + 1 \in 0 .. MaxRows /\ rows + 1 \in 0 .. MaxRows + 1
          /\ rows + 1 \in 1 .. rows + 1 + 1
      BY <3>1, <3>3, BoundsAssumption
    <3>5. m \in Pages
      BY <3>2, <3>4 DEF Page, Pages
    <3>6. PageFits(logs', m)
      BY <1>1, <3>2, <3>4 DEF PageFits, Recorded, Page
    <3>7. m.epoch = Len(logs') /\ m.last = logs'[Len(logs')]
      BY <1>1, <3>1 DEF Page
    <3>8. UNCHANGED cursor
      BY DEF RecordRow, screen
    <3>. HIDE DEF m
    <3>. QED  BY <1>1, <2>2, <3>5, <3>6, <3>7, <3>8, WireExtends DEF m
  <2>. QED  BY <2>1, <2>2 DEF RecordRow
<1>5. asked' \in Seq(Requests) /\ RequestsFit'
  BY <1>1, AskedShrinks DEF RecordRow
<1>6. View!Next
  <2>1. logs # <<>>
    BY <1>1
  <2>. QED  BY <2>1 DEF RecordRow, screen, epoch, View!Next, View!Record
<1>. QED  BY <1>1, <1>2, <1>3, <1>4, <1>5, <1>6, InvFromParts DEF Preserved

\* What is selected for a request ends with the newest row.
LEMMA FetchedFits ==
    ASSUME Inv, stored, NEW i \in DOMAIN asked
    PROVE  LET m == Fetched(asked[i]) IN
           /\ m \in Pages /\ PageFits(logs, m)
           /\ m.epoch = Len(logs) /\ m.last = logs[Len(logs)]
<1> DEFINE q == asked[i]
           m == Fetched(q)
<1>1. /\ q \in Requests /\ RequestFits(logs, q)
  BY WireElements DEF Inv, RequestsFit
<1>2. /\ logs \in Seq(0 .. MaxRows) /\ Len(logs) \in 0 .. MaxEpochs /\ Len(logs) > 0
      /\ epoch = Len(logs) /\ rows = logs[epoch]
  BY DEF Inv, TypeOK, epoch, rows
<1>3. epoch \in 1 .. Len(logs) /\ epoch \in 0 .. MaxEpochs
  BY <1>2, BoundsAssumption
<1>4. rows \in 0 .. MaxRows
  BY <1>2, <1>3, ElementOfSeq
<1>5. rows \in Nat /\ rows \in 0 .. rows /\ 1 \in 1 .. rows + 1 /\ 1 \in 0 .. MaxRows + 1
  BY <1>4, BoundsAssumption
<1>6. CASE q.dir = "tail"
  <2>1. m = Page("tail", epoch, 1, rows, FALSE)
    BY <1>6 DEF Fetched
  <2>. QED  BY <1>2, <1>3, <1>4, <1>5, <2>1 DEF Page, Pages, PageFits, Recorded
<1>7. CASE q.dir # "tail" /\ q.epoch # epoch
  <2>1. m = Page("after", epoch, 1, rows, TRUE)
    BY <1>7 DEF Fetched
  <2>. QED  BY <1>2, <1>3, <1>4, <1>5, <2>1 DEF Page, Pages, PageFits, Recorded
<1>8. CASE q.dir # "tail" /\ q.epoch = epoch
  <2>1. m = Page("after", epoch, q.seq + 1, rows, FALSE)
    BY <1>8 DEF Fetched
  <2>2. q.dir = "after" /\ q.seq \in 0 .. rows
    BY <1>1, <1>2, <1>8 DEF Requests, RequestFits, Recorded
  <2>3. q.seq + 1 \in 1 .. rows + 1 /\ q.seq + 1 \in 0 .. MaxRows + 1
    BY <1>4, <2>2, BoundsAssumption
  <2>. QED  BY <1>2, <1>3, <1>4, <1>5, <2>1, <2>3 DEF Page, Pages, PageFits, Recorded
<1>. QED  BY <1>6, <1>7, <1>8

\* A request is answered with a page or with an error.
LEMMA AnswerKeeps == ASSUME Inv, NEW i \in DOMAIN asked, Answer(i) PROVE Preserved
<1>1. UNCHANGED logs /\ Grows
  BY UnchangedLogsGrow DEF Answer, daemon
<1>2. Flags'
  BY DEF Answer, daemon, Inv, TypeOK, Flags, screen
<1>3. Shows(cursor', view') /\ earlier' \in Seq(Rows) /\ UNCHANGED <<cursor, earlier, view>>
  BY CursorShows DEF Answer, screen
<1>4. /\ wire' \in Seq(Pages) /\ PagesFit' /\ WireInOrder' /\ CursorInOrder'
  <2>1. CASE stored /\ wire' = Append(wire, Fetched(asked[i]))
    <3> DEFINE m == Fetched(asked[i])
    <3>1. /\ m \in Pages /\ PageFits(logs, m)
          /\ m.epoch = Len(logs) /\ m.last = logs[Len(logs)]
      BY <2>1, FetchedFits
    <3>2. PageFits(logs', m) /\ m.epoch = Len(logs') /\ m.last = logs'[Len(logs')]
      BY <1>1, <3>1
    <3>. HIDE DEF m
    <3>. QED  BY <1>1, <1>3, <2>1, <3>1, <3>2, WireExtends DEF m
  <2>2. CASE wire' = Append(wire, ErrorPage)
    <3> DEFINE m == ErrorPage
    <3>1. m \in Pages /\ m.dir = "error"
      BY BoundsAssumption DEF ErrorPage, Page, Pages
    <3>2. PageFits(logs', m)
      BY <3>1 DEF PageFits
    <3>. HIDE DEF m
    <3>. QED  BY <1>1, <1>3, <2>2, <3>1, <3>2, WireExtends DEF m
  <2>. QED  BY <2>1, <2>2 DEF Answer
<1>5. asked' \in Seq(Requests) /\ RequestsFit'
  BY <1>1, AskedShrinks DEF Answer
<1>. QED  BY <1>1, <1>2, <1>3, <1>4, <1>5, InvFromParts DEF Preserved, View!vars

\* A panel asks for the history, or for what came after it.
LEMMA EnsureKeeps == ASSUME Inv, EnsureAgentIsInitialized PROVE Preserved
<1> DEFINE q == IF ~authoritative \/ cursor = None THEN Tail0
                ELSE After(cursor.epoch, cursor.end)
<1>1. UNCHANGED <<logs, wire, cursor, earlier, view>> /\ Grows
  BY UnchangedLogsGrow DEF EnsureAgentIsInitialized, daemon, screen
<1>2. q \in Requests /\ RequestFits(logs, q) /\ q.dir \in {"tail", "after"}
  <2>1. CASE q = Tail0
    BY <2>1, BoundsAssumption DEF Tail0, Requests, RequestFits
  <2>2. CASE cursor # None /\ q = After(cursor.epoch, cursor.end)
    <3>1. Recorded(logs, cursor.epoch, cursor.end) /\ cursor.start \in 1 .. cursor.end
      BY <2>2 DEF Inv, CursorFits
    <3>2. cursor.epoch \in 1 .. MaxEpochs /\ cursor.end \in 1 .. MaxRows
      BY <2>2 DEF Inv, TypeOK
    <3>3. cursor.epoch \in 0 .. MaxEpochs /\ cursor.end \in 0 .. MaxRows /\ cursor.end >= 1
      BY <3>2, BoundsAssumption
    <3>. QED  BY <2>2, <3>1, <3>3 DEF After, Requests, RequestFits
  <2>. QED  BY <2>1, <2>2
<1>3. asked' = Append(asked, q) /\ init' = q.dir
  BY DEF EnsureAgentIsInitialized
<1> HIDE DEF q
<1>4. Flags'
  BY <1>2, <1>3 DEF EnsureAgentIsInitialized, daemon, Inv, TypeOK, Flags, screen
<1>5. Shows(cursor', view') /\ earlier' \in Seq(Rows)
  BY <1>1, CursorShows
<1>6. /\ wire' \in Seq(Pages) /\ PagesFit' /\ WireInOrder' /\ CursorInOrder'
  BY <1>1, WireStays
<1>7. asked' \in Seq(Requests) /\ RequestsFit'
  BY <1>1, <1>2, <1>3, AskedExtends
<1>. QED  BY <1>1, <1>4, <1>5, <1>6, <1>7, InvFromParts DEF Preserved, View!vars

\* A gap is asked for from the row the client has.
LEMMA CatchUpKeeps ==
    ASSUME Inv, Grows, NEW m, CatchUp(m)
    PROVE  asked' \in Seq(Requests) /\ RequestsFit'
<1>1. CASE Decision(m) = "gap"
  <2>1. cursor # None
    BY <1>1 DEF Decision, Classify
  <2>2. /\ Recorded(logs, cursor.epoch, cursor.end)
        /\ cursor.epoch \in 1 .. MaxEpochs /\ cursor.end \in 1 .. MaxRows
    BY <2>1 DEF Inv, CursorFits, TypeOK
  <2>3. cursor.epoch \in 0 .. MaxEpochs /\ cursor.end \in 0 .. MaxRows /\ cursor.end >= 1
    BY <2>2, BoundsAssumption
  <2> DEFINE q == After(cursor.epoch, cursor.end)
  <2>4. q \in Requests /\ RequestFits(logs, q)
    BY <2>2, <2>3 DEF After, Requests, RequestFits
  <2>5. asked' = Append(asked, q)
    BY <1>1 DEF CatchUp
  <2>. HIDE DEF q
  <2>. QED  BY <2>4, <2>5, AskedExtends
<1>2. CASE Decision(m) # "gap"
  BY <1>2, AskedShrinks DEF CatchUp
<1>. QED  BY <1>1, <1>2

\* Once a page is shown, what is behind it on the wire is not older.
LEMMA TakenInOrder ==
    ASSUME Inv, Grows, wire # <<>>, wire' = Tail(wire), Head(wire).dir # "error",
           \/ cursor' = None \/ cursor' = cursor
           \/ cursor'.epoch = Head(wire).epoch /\ cursor'.end = Head(wire).last
    PROVE  CursorInOrder'
<1>1. /\ UNCHANGED cursor => CursorInOrder'
      /\ \A i \in DOMAIN wire' : NotNewer(Head(wire).epoch, Head(wire).last, wire'[i])
  BY WireAdvances
<1>. QED  BY <1>1 DEF CursorInOrder, NotNewer

\* A live row arrives.
LEMMA StreamEventKeeps == ASSUME Inv, StreamEventArrives PROVE Preserved
<1> DEFINE m == Head(wire)
<1>1. /\ UNCHANGED logs /\ Grows /\ wire # <<>> /\ wire' = Tail(wire)
      /\ m.dir = "live" /\ cursor' = Extended(m).cursor /\ view' = Extended(m).view /\ CatchUp(m)
      /\ earlier' = earlier
  BY UnchangedLogsGrow DEF StreamEventArrives, daemon
<1> HIDE DEF m
<1>2. /\ m \in Pages /\ PageFits(logs, m)
      /\ wire' \in Seq(Pages) /\ PagesFit' /\ WireInOrder'
  BY <1>1, WireAdvances DEF m
<1> DEFINE x == Extended(m)
<1>x. /\ Shows(x.cursor, x.view) /\ Promised(x.earlier, x.view) /\ x.earlier \in Seq(Rows)
      /\ x.cursor = cursor \/ (x.cursor.epoch = m.epoch /\ x.cursor.end = m.last)
      /\ x.earlier = earlier
  <2>1. x.earlier = earlier
    BY DEF Extended
  <2>. HIDE DEF x
  <2>2. LET y == Extended(m) IN
        /\ Shows(y.cursor, y.view) /\ Promised(y.earlier, y.view) /\ y.earlier \in Seq(Rows)
        /\ y.cursor = cursor \/ (y.cursor # None /\ y.cursor.epoch = m.epoch /\ y.cursor.end = m.last)
    BY <1>1, <1>2, ExtendedShows
  <2>. QED  BY <2>1, <2>2 DEF x
<1>b. Becomes(x.cursor, x.earlier, x.view)
  BY <1>1, <1>x DEF Becomes
<1>c. cursor' = x.cursor
  BY <1>1
<1>. HIDE DEF x
<1>3. /\ Shows(cursor', view') /\ earlier' \in Seq(Rows)
      /\ cursor' = cursor \/ (cursor'.epoch = m.epoch /\ cursor'.end = m.last)
      /\ [View!Next]_(View!vars)
  BY <1>1, <1>x, <1>b, <1>c, BecomesShows, PromisedStep
<1>4. CursorInOrder'
  BY <1>1, <1>3, TakenInOrder DEF m
<1>5. asked' \in Seq(Requests) /\ RequestsFit'
  BY <1>1, CatchUpKeeps
<1>6. Flags'
  BY <1>1 DEF StreamEventArrives, daemon, Inv, TypeOK, Flags, screen
<1>. QED  BY <1>1, <1>2, <1>3, <1>4, <1>5, <1>6, InvFromParts, PromisedStep DEF Preserved

\* An error arrives.
LEMMA ErrorKeeps == ASSUME Inv, ErrorArrives PROVE Preserved
<1>1. /\ UNCHANGED <<logs, cursor, earlier, view, asked>> /\ Grows /\ wire # <<>> /\ wire' = Tail(wire)
  BY UnchangedLogsGrow DEF ErrorArrives, daemon, screen
<1>2. wire' \in Seq(Pages) /\ PagesFit' /\ WireInOrder' /\ CursorInOrder'
  BY <1>1, WireAdvances
<1>3. Flags'
  BY <1>1 DEF ErrorArrives, daemon, Inv, TypeOK, Flags, screen
<1>4. Shows(cursor', view') /\ earlier' \in Seq(Rows)
  BY <1>1, CursorShows
<1>5. asked' \in Seq(Requests) /\ RequestsFit'
  BY <1>1, AskedShrinks
<1>. QED  BY <1>1, <1>2, <1>3, <1>4, <1>5, InvFromParts DEF Preserved, View!vars

\* A page of an answer arrives, and a removal that waited for it is applied.
LEMMA PageKeeps == ASSUME Inv, PageArrives PROVE Preserved
<1> DEFINE m == Head(wire)
<1>1. /\ UNCHANGED <<logs, stored, registered, closing, hydrating, online>>
      /\ Grows /\ wire # <<>> /\ wire' = Tail(wire)
      /\ m.dir \in {"tail", "after"} /\ m.dir # "error" /\ authoritative' = TRUE
      /\ init' = IF m.reset \/ m.dir = init THEN None ELSE init
  BY UnchangedLogsGrow DEF PageArrives, daemon
<1>a. \/ /\ Replaces(m) /\ FlushUpdates(Replacement(m))
         /\ asked' = IF m.reset \/ Empty(m) THEN asked ELSE Append(asked, After(m.epoch, m.last))
      \/ ~Replaces(m) /\ FlushUpdates(Extended(m)) /\ CatchUp(m)
  BY DEF PageArrives
<1> HIDE DEF m
<1>2. /\ m \in Pages /\ PageFits(logs, m)
      /\ wire' \in Seq(Pages) /\ PagesFit' /\ WireInOrder'
      /\ cursor # None => NotNewer(cursor.epoch, cursor.end, m)
  BY <1>1, WireAdvances DEF m
<1>3. /\ Shows(cursor', view') /\ earlier' \in Seq(Rows) /\ [View!Next]_(View!vars)
      /\ \/ cursor' = None \/ cursor' = cursor
         \/ cursor'.epoch = m.epoch /\ cursor'.end = m.last
  <2>1. CASE FlushUpdates(Replacement(m)) /\ Replaces(m)
    <3> DEFINE x == Replacement(m)
    <3>1. /\ Shows(x.cursor, x.view) /\ Promised(x.earlier, x.view) /\ x.earlier \in Seq(Rows)
          /\ x.cursor = None \/ (x.cursor.epoch = m.epoch /\ x.cursor.end = m.last)
      BY <1>1, <1>2, <2>1, ReplacementShows
    <3>2. FlushUpdates(x)
      BY <2>1
    <3>. HIDE DEF x
    <3>3. Becomes(x.cursor, x.earlier, x.view)
      BY <3>2 DEF FlushUpdates, RemoveAgent, Becomes
    <3>4. cursor' = None \/ cursor' = x.cursor
      BY <3>3 DEF Becomes
    <3>. QED  BY <1>1, <3>1, <3>3, <3>4, BecomesShows, PromisedStep
  <2>2. CASE FlushUpdates(Extended(m))
    <3> DEFINE x == Extended(m)
    <3>1. /\ Shows(x.cursor, x.view) /\ Promised(x.earlier, x.view) /\ x.earlier \in Seq(Rows)
          /\ x.cursor = cursor \/ (x.cursor.epoch = m.epoch /\ x.cursor.end = m.last)
      BY <1>1, <1>2, ExtendedShows
    <3>2. FlushUpdates(x)
      BY <2>2
    <3>. HIDE DEF x
    <3>3. Becomes(x.cursor, x.earlier, x.view)
      BY <3>2 DEF FlushUpdates, RemoveAgent, Becomes
    <3>4. cursor' = None \/ cursor' = x.cursor
      BY <3>3 DEF Becomes
    <3>. QED  BY <1>1, <3>1, <3>3, <3>4, BecomesShows, PromisedStep
  <2>. QED  BY <1>a, <2>1, <2>2
<1>4. CursorInOrder'
  BY <1>1, <1>3, TakenInOrder DEF m
<1>5. asked' \in Seq(Requests) /\ RequestsFit'
  <2>1. CASE CatchUp(m)
    BY <1>1, <2>1, CatchUpKeeps
  <2>2. CASE UNCHANGED asked
    BY <1>1, <2>2, AskedShrinks
  <2>3. CASE ~Empty(m) /\ asked' = Append(asked, After(m.epoch, m.last))
    <3>1. Recorded(logs, m.epoch, m.last) /\ m.first \in 1 .. m.last + 1 /\ ~(m.last < m.first)
      BY <1>1, <1>2, <2>3 DEF PageFits, Empty
    <3>2. m.epoch \in 1 .. MaxEpochs /\ m.last \in 0 .. MaxRows
      BY <3>1, RecordedRange
    <3>3. m.epoch \in 0 .. MaxEpochs /\ m.last >= 1
      BY <3>1, <3>2, BoundsAssumption
    <3> DEFINE q == After(m.epoch, m.last)
    <3>4. q \in Requests /\ RequestFits(logs, q)
      BY <3>1, <3>2, <3>3 DEF After, Requests, RequestFits
    <3>. HIDE DEF q
    <3>. QED  BY <1>1, <2>3, <3>4, AskedExtends DEF q
  <2>. QED  BY <1>a, <2>1, <2>2, <2>3
<1>6. Flags'
  <2>1. pendingRemove' = FALSE
    BY <1>a DEF FlushUpdates
  <2>2. online
    BY <1>1 DEF Inv, TypeOK
  <2>. QED  BY <1>1, <2>1, <2>2 DEF Inv, TypeOK, Flags
<1>. QED  BY <1>1, <1>2, <1>3, <1>4, <1>5, <1>6, InvFromParts, PromisedStep DEF Preserved

\* The agent leaves the client's directory: at once, or once its history came.
LEMMA RemoveKeeps == ASSUME Inv, RemoveArrives PROVE Preserved
<1>1. UNCHANGED <<logs, asked, wire>> /\ Grows
  BY UnchangedLogsGrow DEF RemoveArrives, daemon
<1>2. Flags'
  BY DEF RemoveArrives, RemoveAgent, daemon, screen, Inv, TypeOK, Flags
<1>k. Shows(cursor, view) /\ Promised(earlier, view) /\ earlier \in Seq(Rows)
  BY CursorShows DEF Promised, Inv, TypeOK
<1>b. Becomes(cursor, earlier, view)
  BY DEF RemoveArrives, RemoveAgent, Becomes, screen
<1>3. /\ Shows(cursor', view') /\ earlier' \in Seq(Rows) /\ [View!Next]_(View!vars)
      /\ UNCHANGED cursor \/ cursor' = None
  <2>1. UNCHANGED cursor \/ cursor' = None
    BY <1>b DEF Becomes
  <2>. QED  BY <1>1, <1>k, <1>b, <2>1, BecomesShows, PromisedStep
<1>4. wire' \in Seq(Pages) /\ PagesFit' /\ WireInOrder' /\ CursorInOrder'
  BY <1>1, <1>3, WireStays
<1>5. asked' \in Seq(Requests) /\ RequestsFit'
  BY <1>1, AskedShrinks
<1>. QED  BY <1>1, <1>2, <1>3, <1>4, <1>5, InvFromParts, PromisedStep DEF Preserved

\* The agent is deleted.
LEMMA DeletedKeeps == ASSUME Inv, DeletedArrives PROVE Preserved
<1>1. UNCHANGED <<logs, asked, wire>> /\ Grows
  BY UnchangedLogsGrow DEF DeletedArrives, daemon
<1>2. Flags'
  BY DEF DeletedArrives, daemon, Inv, TypeOK, Flags
<1>3. /\ cursor' = None /\ earlier' = <<>> /\ view' = <<>>
      /\ Shows(cursor', view') /\ earlier' \in Seq(Rows)
  BY EmptySeq DEF DeletedArrives, Shows
<1>4. [View!Next]_(View!vars)
  BY <1>1, <1>3 DEF View!Next, View!Drop
<1>5. wire' \in Seq(Pages) /\ PagesFit' /\ WireInOrder' /\ CursorInOrder'
  BY <1>1, <1>3, WireStays
<1>6. asked' \in Seq(Requests) /\ RequestsFit'
  BY <1>1, AskedShrinks
<1>. QED  BY <1>1, <1>2, <1>3, <1>4, <1>5, <1>6, InvFromParts DEF Preserved

\* The other steps of the daemon, the network and the client.
LEMMA OtherStepsKeep ==
    ASSUME Inv,
           \/ HydrationEnds \/ CloseAgent \/ CloseReturns \/ Restart
           \/ Disconnect \/ Connect \/ InitTimesOut \/ UpsertArrives
           \/ \E i \in DOMAIN asked : LoseRequest(i)
           \/ UNCHANGED vars
    PROVE  Preserved
<1> USE DEF Inv, TypeOK, Flags, daemon, screen
<1>1. CASE HydrationEnds
  <2>1. Flags'
    BY <1>1 DEF HydrationEnds
  <2>. QED  BY <1>1, <2>1, QuietStep DEF HydrationEnds
<1>2. CASE CloseAgent
  <2>1. Flags'
    BY <1>2 DEF CloseAgent
  <2>. QED  BY <1>2, <2>1, QuietStep DEF CloseAgent
<1>3. CASE CloseReturns
  <2>1. Flags'
    BY <1>3 DEF CloseReturns
  <2>. QED  BY <1>3, <2>1, QuietStep DEF CloseReturns
<1>4. CASE Restart
  <2>1. Flags'
    BY <1>4 DEF Restart, Offline
  <2>. QED  BY <1>4, <2>1, QuietStep DEF Restart, Offline
<1>5. CASE Disconnect
  <2>1. Flags'
    BY <1>5 DEF Disconnect, Offline
  <2>. QED  BY <1>5, <2>1, QuietStep DEF Disconnect, Offline
<1>6. CASE Connect
  <2>1. Flags'
    BY <1>6 DEF Connect
  <2>. QED  BY <1>6, <2>1, QuietStep DEF Connect
<1>7. CASE InitTimesOut
  <2>1. Flags'
    BY <1>7 DEF InitTimesOut
  <2>. QED  BY <1>7, <2>1, QuietStep DEF InitTimesOut
<1>8. CASE UpsertArrives
  <2>1. Flags'
    BY <1>8 DEF UpsertArrives
  <2>. QED  BY <1>8, <2>1, QuietStep DEF UpsertArrives
<1>9. CASE \E i \in DOMAIN asked : LoseRequest(i)
  <2>1. Flags'
    BY <1>9 DEF LoseRequest
  <2>. QED  BY <1>9, <2>1, QuietStep DEF LoseRequest
<1>10. CASE UNCHANGED vars
  <2>1. Flags'
    BY <1>10 DEF vars
  <2>. QED  BY <1>10, <2>1, QuietStep DEF vars
<1>. QED  BY <1>1, <1>2, <1>3, <1>4, <1>5, <1>6, <1>7, <1>8, <1>9, <1>10

\* Every step keeps the invariant and implements the abstract timeline.
LEMMA StepKeeps == ASSUME Inv, [Next]_vars PROVE Preserved
<1>1. CASE Load
  BY <1>1, LoadKeeps
<1>2. CASE Hydrate
  BY <1>2, HydrateKeeps
<1>3. CASE RecordRow
  BY <1>3, RecordRowKeeps
<1>4. CASE \E i \in DOMAIN asked : Answer(i)
  BY <1>4, AnswerKeeps
<1>5. CASE EnsureAgentIsInitialized
  BY <1>5, EnsureKeeps
<1>6. CASE StreamEventArrives
  BY <1>6, StreamEventKeeps
<1>7. CASE ErrorArrives
  BY <1>7, ErrorKeeps
<1>8. CASE PageArrives
  BY <1>8, PageKeeps
<1>9. CASE RemoveArrives
  BY <1>9, RemoveKeeps
<1>10. CASE DeletedArrives
  BY <1>10, DeletedKeeps
<1>. QED  BY <1>1, <1>2, <1>3, <1>4, <1>5, <1>6, <1>7, <1>8, <1>9, <1>10, OtherStepsKeep
         DEF Next, Daemon, Network, Client

\* The initial state has the invariant.
LEMMA InitHasInv == ASSUME Init PROVE Inv /\ View!Init
<1>1. /\ logs \in Seq(0 .. MaxRows) /\ Len(logs) = 0 /\ 0 \in 0 .. MaxEpochs
      /\ asked \in Seq(Requests) /\ wire \in Seq(Pages)
      /\ view \in Seq(Rows) /\ earlier \in Seq(Rows)
      /\ DOMAIN asked = {} /\ DOMAIN wire = {}
  BY EmptySeq, BoundsAssumption DEF Init
<1>2. TypeOK
  BY <1>1 DEF Init, TypeOK
<1>3. CursorDescribesView /\ CursorFits /\ CursorInOrder
  BY DEF Init, CursorDescribesView, CursorFits, CursorInOrder
<1>4. PagesFit /\ RequestsFit /\ WireInOrder
  BY <1>1 DEF PagesFit, RequestsFit, WireInOrder
<1>. QED  BY <1>2, <1>3, <1>4 DEF Init, Inv, View!Init

\* The invariant holds in every state.
LEMMA InvHolds == Spec => []Inv
<1>1. Init => Inv
  BY InitHasInv
<1>2. Inv /\ [Next]_vars => Inv'
  BY StepKeeps DEF Preserved
<1>. QED  BY <1>1, <1>2, PTL DEF Spec

-----------------------------------------------------------------------------
(* The theorems.                                                            *)

\* Every variable of the daemon, the connection and the client stays well
\* formed, and nothing is in transit on a closed socket.
THEOREM TypeCorrect == Spec => []TypeOK
<1>1. Inv => TypeOK
  BY DEF Inv
<1>. QED  BY <1>1, InvHolds, PTL

\* The cursor from which the client asks and gates describes the rows its
\* stream got since the cursor was set: none twice, none missing between the
\* first and the last (session-stream-reducers.ts).
THEOREM CursorDescribesViewHolds == Spec => []CursorDescribesView
<1>1. Inv => CursorDescribesView
  BY DEF Inv
<1>. QED  BY <1>1, InvHolds, PTL

\* Whatever is recorded, answered late, lost or overtaken, the screen shows a
\* stretch of one epoch that grows at its end or is exchanged for all of an
\* epoch neither older nor shorter; after the client has removed the agent, the
\* rows behind those it left do: TimelineSync implements TimelineView.
THEOREM ShownAsPromisedHolds == Spec => ShownAsPromised
<1>1. Init => View!Init
  BY InitHasInv
<1>2. Inv /\ [Next]_vars => [View!Next]_(View!vars)
  BY StepKeeps DEF Preserved
<1>. QED  BY <1>1, <1>2, InvHolds, PTL DEF Spec, ShownAsPromised, View!Spec
=============================================================================
