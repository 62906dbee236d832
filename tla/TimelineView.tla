---------------------------- MODULE TimelineView ----------------------------
(* What a client may show of an agent's timeline.  The daemon records rows  *)
(* in epochs: logs[e] is the number of rows recorded in epoch e, and the    *)
(* last epoch is the current one.  The stream on the screen is kept \o      *)
(* shown.  What is shown is a stretch of one epoch, every row once and in   *)
(* order: it grows at its end, or the whole stream is exchanged for all of  *)
(* an epoch that is not older and not shorter.  When the client forgets     *)
(* which rows it has, they stay on the screen, but are only kept: what is   *)
(* shown from then on begins anew behind them and is not compared with them.*)
EXTENDS Naturals, Sequences

VARIABLES logs, kept, shown
vars == <<logs, kept, shown>>

Row(e, n) == [epoch |-> e, seq |-> n]

(* The rows from the a-th to the b-th of epoch e; none when b < a.          *)
Stretch(e, a, b) == [i \in 1 .. (IF b < a THEN 0 ELSE b + 1 - a) |-> Row(e, a + i - 1)]

Newest == shown[Len(shown)]

Init == logs = <<>> /\ kept = <<>> /\ shown = <<>>

NewEpoch == logs' = Append(logs, 0) /\ UNCHANGED <<kept, shown>>

Record ==
    /\ logs # <<>>
    /\ logs' = [logs EXCEPT ![Len(logs)] = @ + 1]
    /\ UNCHANGED <<kept, shown>>

(* The stream becomes k \o s, and s is remembered or forgotten at once.     *)
ShowOrForget(k, s) ==
    /\ \/ kept' = k /\ shown' = s
       \/ kept' = k \o s /\ shown' = <<>>
    /\ UNCHANGED logs

(* Rows that follow the newest one are added, up to row n.                  *)
Extend ==
    /\ shown # <<>>
    /\ \E n \in 1 .. logs[Newest.epoch] :
        ShowOrForget(kept, shown \o Stretch(Newest.epoch, Newest.seq + 1, n))

(* What is shown may begin anywhere: a client that never asked for the      *)
(* history of an agent still shows what the agent says from now on.         *)
Begin ==
    /\ shown = <<>>
    /\ \E e \in 1 .. Len(logs) : \E a, b \in 1 .. logs[e] :
        ShowOrForget(kept, Stretch(e, a, b))

(* All of an epoch takes the place of the stream.                           *)
NeitherOlderNorShorter(e, n) ==
    shown # <<>> =>
        /\ e >= Newest.epoch
        /\ e = Newest.epoch => n >= Newest.seq

Exchange ==
    \E e \in 1 .. Len(logs) : \E n \in 0 .. logs[e] :
        NeitherOlderNorShorter(e, n) /\ ShowOrForget(<<>>, Stretch(e, 1, n))

Forget == ShowOrForget(kept, shown)

(* The agent is deleted, and its stream with it.                            *)
Drop == kept' = <<>> /\ shown' = <<>> /\ UNCHANGED logs

Next == NewEpoch \/ Record \/ Extend \/ Begin \/ Exchange \/ Forget \/ Drop

Spec == Init /\ [][Next]_vars
============================================================================
