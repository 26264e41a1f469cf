----------------------------- MODULE FifoRing -----------------------------
(***************************************************************************)
(* A fifo.h ring used the way libtty uses it: every push is guarded by a   *)
(* fullness test and every pop by an emptiness test.  Under that           *)
(* discipline the ring implements a queue of Size - 1 bytes.               *)
(***************************************************************************)
EXTENDS Fifo

VARIABLE f

RingInit == \E junk \in [Slot -> Byte] : f = fifo_init(junk)

\* the loop body of _libttydisc_txFeedback()
Push(b) == ~fifo_is_full(f) /\ f' = fifo_push(f, b)

\* Slip: no emptiness test.
PopUnchecked == f' = fifo_pop_back(f)

\* _libtty_popchar() after _libtty_txready(), readRaw()
PopBack == ~fifo_is_empty(f) /\ f' = fifo_pop_back(f)

\* _libttydisc_rubchar()
PopFront == ~fifo_is_empty(f) /\ f' = fifo_pop_front(f)

\* TCIFLUSH and TCOFLUSH in _libtty_flush()
RemoveAll == f' = fifo_remove_all(f)

RemoveAllButOne == f' = fifo_remove_all_but_one(f)

RingNext ==
    \/ \E b \in Byte : Push(b)
    \/ PopBack
    \/ PopFront
    \/ RemoveAll
    \/ RemoveAllButOne

RingSpec == RingInit /\ [][RingNext]_f

---------------------------------------------------------------------------

RingTypeOK == f \in Ring

\* The three measures fifo.h computes independently from head and tail agree:
\* the occupied and the free slots add up to Size - 1, and the empty and full
\* tests are their extremes.
MeasuresAgree ==
    /\ fifo_count(f) + fifo_freespace(f) = Size - 1
    /\ fifo_is_empty(f) <=> fifo_count(f) = 0
    /\ fifo_is_full(f) <=> fifo_freespace(f) = 0

\* The ring is a queue of Size - 1 bytes: no operation loses, duplicates or
\* reorders a byte, whatever the wrap-around position.
Queue == INSTANCE BoundedQueue WITH q <- Contents(f), Cap <- Size - 1

QueueSpec == Queue!Spec

===========================================================================
