----------------------------- MODULE ByteStream -----------------------------
(***************************************************************************)
(* What the serial line promises for one data-mode connection: the bytes   *)
(* that the host types are transmitted in their order, each of them once.  *)
(* Only these are left out: the three pluses of the escape sequence, a     *)
(* piece whose rest a failed send drops, and what is still waiting when the      *)
(* connection ends.                                                        *)
(***************************************************************************)
EXTENDS Naturals, Sequences

CONSTANTS Bytes, Plus

VARIABLES
  owed,       \* typed for this connection and not transmitted yet
  net         \* transmitted on this connection

Init == owed = <<>> /\ net = <<>>

Type(b) == owed' = Append(owed, b) /\ UNCHANGED net

\* The first n owed bytes leave: all of them are transmitted, or a send
\* failed after some.
Send(n, sent) ==
  /\ owed' = SubSeq(owed, n + 1, Len(owed))
  /\ net' = net \o SubSeq(owed, 1, sent)

Escape ==
  /\ Len(owed) >= 3
  /\ \A k \in Len(owed) - 2 .. Len(owed) : owed[k] = Plus
  /\ owed' = SubSeq(owed, 1, Len(owed) - 3)
  /\ UNCHANGED net

\* The connection ends, is given up, or a new one begins.
Discard == owed' = <<>> /\ net' \in {net, <<>>}

Next ==
  \/ \E b \in Bytes : Type(b)
  \/ \E n \in 1 .. Len(owed) : \E sent \in 0 .. n : Send(n, sent)
  \/ Escape \/ Discard

Spec == Init /\ [][Next]_<<owed, net>>
=============================================================================
