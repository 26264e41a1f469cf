------------------------------- MODULE LfFifo -------------------------------
(***************************************************************************)
(* The lock-free receive ring of libtty (src/tty/libtty/libtty-lf-fifo.h)  *)
(* in the use that the i.MX RT UART makes of it                            *)
(* (src/multi/imxrt-multi/uart.c): the interrupt handler pushes whole      *)
(* bursts and throws the oldest byte away when the ring is full, while     *)
(* uart_intrThread() is anywhere inside lf_fifo_empty() or lf_fifo_pop().  *)
(* A handler runs to its end, so each atomic access of the thread is a     *)
(* step and a burst is one.                                                *)
(*                                                                         *)
(* The bytes are numbered 1, 2, ... in the order of their arrival.         *)
(***************************************************************************)
EXTENDS Naturals, Sequences, Cond

CONSTANTS
    LfSize,   \* sizeMask + 1
    MaxPush,  \* bytes that arrive
    Burst     \* bytes that one interrupt may find

ASSUME LfAssumption == {LfSize, MaxPush, Burst} \subseteq Nat \ {0}

VARIABLES
    lf,     \* the ring: headPos, tail >> 1, tail & 1 (the pop was here), data
    lpc,    \* where uart_intrThread() is
    lhead,  \* its local headPos
    ltail,  \* its local tailPos
    lbyte,  \* the byte it has read
    lcond,  \* uart->cond
    lgot,   \* the bytes popped (history)
    lsent,  \* number of the last byte that has arrived
    llost   \* the bytes whose discarding sw_overrunCntr has counted (history)

lfVars == <<lf, lpc, lhead, ltail, lbyte, lcond, lgot, lsent, llost>>

lf_fifo_init ==
    [head |-> 0, tail |-> 0, popped |-> FALSE, data |-> [i \in 0 .. LfSize - 1 |-> 0]]

LfInit ==
    /\ lf = lf_fifo_init
    /\ lpc = "empty" /\ lhead = 0 /\ ltail = 0 /\ lbyte = 0
    /\ lcond = condCreate
    /\ lgot = <<>> /\ lsent = 0 /\ llost = {}

LfNext(i) == (i + 1) % LfSize
LfCount == (lf.head + LfSize - lf.tail) % LfSize

\* The push of byte b into ring r has to discard the oldest byte.
Overruns(r) == LfNext(r.head) = r.tail

lf_fifo_push(r, b) ==
    LET h == LfNext(r.head)
    IN [r EXCEPT !.data[r.head] = b, !.head = h,
                 !.tail = IF Overruns(r) THEN LfNext(h) ELSE @,
                 !.popped = @ /\ ~Overruns(r)]

\* The ring and the bytes lost after the bytes from .. to.
RECURSIVE Pushed(_, _, _, _)
Pushed(r, lost, from, to) ==
    IF from > to THEN [ring |-> r, lost |-> lost]
    ELSE Pushed(lf_fifo_push(r, from),
                IF Overruns(r) THEN lost \union {r.data[r.tail]} ELSE lost,
                from + 1, to)

\* Slip: the handler does not ask for its thread.
HandleIntrQuietly ==
    \E k \in 1 .. Burst :
        LET p == Pushed(lf, llost, lsent + 1, lsent + k)
        IN /\ lsent + k <= MaxPush
           /\ lf' = p.ring /\ llost' = p.lost /\ lsent' = lsent + k
           /\ UNCHANGED <<lpc, lhead, ltail, lbyte, lgot, lcond>>

\* Returning 1, the handler has the kernel signal uart->cond.
uart_handleIntr ==
    \E k \in 1 .. Burst :
        LET p == Pushed(lf, llost, lsent + 1, lsent + k)
        IN /\ lsent + k <= MaxPush
           /\ lf' = p.ring /\ llost' = p.lost /\ lsent' = lsent + k
           /\ lcond' \in condSignal(lcond)
           /\ UNCHANGED <<lpc, lhead, ltail, lbyte, lgot>>

\* A client has something to transmit, or the transmitter is ready for more.
tx_signal ==
    /\ lcond' \in condSignal(lcond)
    /\ UNCHANGED <<lf, lpc, lhead, ltail, lbyte, lgot, lsent, llost>>

LoadHead ==
    /\ lpc \in {"empty", "pop"}
    /\ lhead' = lf.head
    /\ lpc' = IF lpc = "empty" THEN "emptyTail" ELSE "popTail"
    /\ UNCHANGED <<lf, ltail, lbyte, lcond, lgot, lsent, llost>>

\* The end of lf_fifo_empty(): the thread goes to sleep, unless there is
\* something to receive or to transmit.
lf_fifo_empty ==
    /\ lpc = "emptyTail"
    /\ lf' = [lf EXCEPT !.popped = TRUE]
    /\ \/ lpc' = "pop" /\ UNCHANGED lcond
       \/ lhead = lf.tail /\ lpc' = "sleep" /\ lcond' = condWait(lcond, "thread")
    /\ UNCHANGED <<lhead, ltail, lbyte, lgot, lsent, llost>>

ThreadWakes ==
    /\ lpc = "sleep" /\ "thread" \notin lcond.waiters
    /\ lpc' = "empty"
    /\ UNCHANGED <<lf, lhead, ltail, lbyte, lcond, lgot, lsent, llost>>

\* A failed pop ends the RX loop of the thread.
LoadTail ==
    /\ lpc = "popTail"
    /\ lf' = [lf EXCEPT !.popped = TRUE]
    /\ ltail' = lf.tail
    /\ lpc' = IF lhead = lf.tail THEN "empty" ELSE "popRead"
    /\ UNCHANGED <<lhead, lbyte, lcond, lgot, lsent, llost>>

ReadByte ==
    /\ lpc = "popRead"
    /\ lbyte' = lf.data[ltail]
    /\ lpc' = "popSwap"
    /\ UNCHANGED <<lf, lhead, ltail, lcond, lgot, lsent, llost>>

\* Slip: the byte is returned although the tail has moved.
PopByteAnyway ==
    /\ lpc = "popSwap"
    /\ lf' = IF lf.tail = ltail /\ lf.popped THEN [lf EXCEPT !.tail = LfNext(ltail)] ELSE lf
    /\ lgot' = Append(lgot, lbyte)
    /\ lpc' = "pop"
    /\ UNCHANGED <<lhead, ltail, lbyte, lcond, lsent, llost>>

\* The compare and exchange: nobody has moved the tail since LoadTail.
PopByte ==
    /\ lpc = "popSwap"
    /\ IF lf.tail = ltail /\ lf.popped
       THEN /\ lf' = [lf EXCEPT !.tail = LfNext(ltail)]
            /\ lgot' = Append(lgot, lbyte)
            /\ lpc' = "pop"
       ELSE lpc' = "empty" /\ UNCHANGED <<lf, lgot>>
    /\ UNCHANGED <<lhead, ltail, lbyte, lcond, lsent, llost>>

uart_intrThread ==
    LoadHead \/ lf_fifo_empty \/ ThreadWakes \/ LoadTail \/ ReadByte \/ PopByte

LfStep == uart_handleIntr \/ tx_signal \/ uart_intrThread

---------------------------------------------------------------------------
(* Properties                                                              *)

\* The comment on the tail's low bit: however many times the handler laps the
\* thread inside a pop, bytes come out in the order of their arrival, and each
\* byte received has been popped once, or is in the ring, or was discarded by a
\* push that counted it as an overrun.
LfInOrder ==
    LET got == {lgot[i] : i \in DOMAIN lgot}
        ring == {lf.data[(lf.tail + i) % LfSize] : i \in 0 .. LfCount - 1}
    IN /\ \A i \in 2 .. Len(lgot) : lgot[i - 1] < lgot[i]
       /\ got \union ring \union llost = 1 .. lsent
       /\ got \intersect llost = {} /\ ring \intersect llost = {}
       /\ got \intersect ring = {}

\* The thread never sleeps on a byte: an interrupt between the test for emptiness
\* and condWait() is not lost, and a test that a lap of the handler made lie (an
\* old headPos equal to a new tail) is repeated.
LfNoMissedByte == lpc = "sleep" /\ "thread" \in lcond.waiters => LfCount = 0

=============================================================================
