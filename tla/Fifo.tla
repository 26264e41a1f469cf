------------------------------- MODULE Fifo -------------------------------
(***************************************************************************)
(* The byte ring of src/tty/libtty/fifo.h, as operators on its value: the  *)
(* write index head, the read index tail and the slots.  One slot is kept  *)
(* unused, so that head = tail always means "empty".  None of the C        *)
(* functions checks for overflow or underflow, and neither do these: a     *)
(* push into a full ring makes it look empty, a pop from an empty one      *)
(* makes it look full of stale bytes.                                      *)
(***************************************************************************)
EXTENDS Integers, Sequences

CONSTANTS
    Size,   \* size_mask + 1: number of slots of the ring
    Byte    \* the bytes told apart by the model

ASSUME SizeAssumption == Size \in Nat \ {0}

Slot == 0 .. Size - 1

\* struct fifo_s; the size mask is the constant Size.
Ring == [head : Slot, tail : Slot, data : [Slot -> Byte]]

\* "& size_mask" on unsigned arithmetic: Size is a power of two, so this is
\* the remainder, for a negative difference too.
Mask(i) == i % Size

\* The slots come from malloc() and are not cleared: junk is what they hold.
fifo_init(junk) == [head |-> 0, tail |-> 0, data |-> junk]

fifo_remove_all(f) == [f EXCEPT !.head = 0, !.tail = 0]

fifo_remove_all_but_one(f) ==
    IF f.head # f.tail THEN [f EXCEPT !.head = Mask(f.tail + 1)] ELSE f

fifo_is_full(f) == Mask(f.head + 1) = f.tail

fifo_is_empty(f) == f.head = f.tail

fifo_count(f) == Mask(f.head - f.tail)

fifo_freespace(f) == Mask(f.tail - f.head - 1)

fifo_push(f, b) ==
    [f EXCEPT !.data = [@ EXCEPT ![f.head] = b], !.head = Mask(f.head + 1)]

\* fifo_pop_back() returns a byte and advances tail: the two halves.
fifo_back(f) == f.data[f.tail]
fifo_pop_back(f) == [f EXCEPT !.tail = Mask(f.tail + 1)]

\* fifo_pop_front() un-writes the newest byte; fifo_peek_front() reads it.
fifo_peek_front(f) == f.data[Mask(f.head - 1)]
fifo_pop_front(f) == [f EXCEPT !.head = Mask(f.head - 1)]

\* The scan from tail up to head, as the set of the slots it visits.
Occupied(f) ==
    IF f.tail <= f.head THEN f.tail .. f.head - 1
                        ELSE (f.tail .. Size - 1) \union (0 .. f.head - 1)

fifo_has_char(f, b) == \E s \in Occupied(f) : f.data[s] = b

\* What the ring holds, oldest byte first.
Contents(f) == [i \in 1 .. fifo_count(f) |-> f.data[Mask(f.tail + i - 1)]]

===========================================================================
