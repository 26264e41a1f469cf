--------------------------- MODULE BoundedQueue ---------------------------
(***************************************************************************)
(* What users of fifo.h rely on: a sequence of at most Cap bytes that is   *)
(* appended to at one end, consumed at the other, and un-appended by line  *)
(* editing.                                                                *)
(***************************************************************************)
EXTENDS Naturals, Sequences

CONSTANTS Cap, Byte

VARIABLE q

Init == q = <<>>

Put(b) == Len(q) < Cap /\ q' = Append(q, b)

Take == q # <<>> /\ q' = Tail(q)

\* the newest byte is taken back
Undo == q # <<>> /\ q' = [i \in 1 .. Len(q) - 1 |-> q[i]]

Clear == q' = <<>>

\* all but the oldest byte are dropped
KeepOldest == q # <<>> /\ q' = <<q[1]>>

Next == (\E b \in Byte : Put(b)) \/ Take \/ Undo \/ Clear \/ KeepOldest

Spec == Init /\ [][Next]_q

===========================================================================
