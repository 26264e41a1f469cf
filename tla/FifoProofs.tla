---------------------------- MODULE FifoProofs ----------------------------
(***************************************************************************)
(* The ring of fifo.h, used under the guards its callers apply, implements *)
(* a bounded queue.                                                        *)
(***************************************************************************)
EXTENDS FifoRing, FifoLemmas


\* fifo.h keeps its indices within the slots, whatever is called in whatever
\* order, and its measures consistent.
THEOREM TypeCorrect == RingSpec => [](RingTypeOK /\ MeasuresAgree)
<1>1. RingInit => RingTypeOK
  BY SizeAssumption DEF RingInit, RingTypeOK, Ring, Slot, fifo_init
<1>2. RingTypeOK /\ [RingNext]_f => RingTypeOK'
  <2> SUFFICES ASSUME RingTypeOK, [RingNext]_f PROVE RingTypeOK'
    OBVIOUS
  <2>1. ASSUME NEW b \in Byte, Push(b) PROVE RingTypeOK'
    BY <2>1, RingClosed DEF Push, RingTypeOK
  <2>2. f.data[f.tail] \in Byte
    BY RingArith DEF RingTypeOK
  <2>3. CASE PopBack
    BY <2>2, <2>3, RingClosed DEF PopBack, RingTypeOK
  <2>4. CASE PopFront
    BY <2>2, <2>4, RingClosed DEF PopFront, RingTypeOK
  <2>5. CASE RemoveAll
    BY <2>2, <2>5, RingClosed DEF RemoveAll, RingTypeOK
  <2>6. CASE RemoveAllButOne
    BY <2>2, <2>6, RingClosed DEF RemoveAllButOne, RingTypeOK
  <2>7. CASE UNCHANGED f
    BY <2>7 DEF RingTypeOK
  <2> QED
    BY <2>1, <2>3, <2>4, <2>5, <2>6, <2>7 DEF RingNext
<1>3. RingTypeOK => MeasuresAgree
  BY Measures DEF RingTypeOK, MeasuresAgree
<1> QED
  BY <1>1, <1>2, <1>3, PTL DEF RingSpec

---------------------------------------------------------------------------

\* The ring of fifo.h, under the emptiness and fullness tests of its callers,
\* is a queue of Size - 1 bytes: no byte is lost, duplicated or reordered at
\* any wrap-around position, for every ring size.
THEOREM RingIsQueue == RingSpec => QueueSpec
<1>1. RingInit => Queue!Init
  <2> SUFFICES ASSUME RingInit PROVE Contents(f) = <<>>
    BY DEF Queue!Init
  <2>1. f \in Ring /\ fifo_is_empty(f)
    BY SizeAssumption DEF RingInit, Ring, Slot, fifo_init, fifo_is_empty
  <2> QED
    BY <2>1, RemoveKeeps
<1>2. RingTypeOK /\ [RingNext]_f => [Queue!Next]_(Contents(f))
  <2> SUFFICES ASSUME RingTypeOK, [RingNext]_f
               PROVE  \/ Queue!Next
                      \/ Contents(f)' = Contents(f)
    OBVIOUS
  <2> USE DEF RingTypeOK
  <2>1. ASSUME NEW b \in Byte, Push(b) PROVE Queue!Put(b)
    <3>1. /\ fifo_count(f) < Size - 1
          /\ Contents(fifo_push(f, b)) = Append(Contents(f), b)
      BY <2>1, PushAppends DEF Push
    <3>2. Len(Contents(f)) = fifo_count(f)
      BY ContentsSeq
    <3> QED
      BY <2>1, <3>1, <3>2 DEF Push, Queue!Put
  <2>2. CASE PopBack
    <3>1. Queue!Take
      BY <2>2, PopBackTakes DEF PopBack, Queue!Take
    <3> QED
      BY <3>1 DEF Queue!Next
  <2>3. CASE PopFront
    <3>1. Queue!Undo
      BY <2>3, PopFrontUndoes, PopBackTakes DEF PopFront, Queue!Undo
    <3> QED
      BY <3>1 DEF Queue!Next
  <2>4. CASE RemoveAll
    <3>1. Queue!Clear
      BY <2>4, RemoveKeeps DEF RemoveAll, Queue!Clear
    <3> QED
      BY <3>1 DEF Queue!Next
  <2>5. CASE RemoveAllButOne
    <3>1. CASE fifo_is_empty(f)
      <4>1. f' = f
        BY <2>5, <3>1 DEF RemoveAllButOne, fifo_remove_all_but_one, fifo_is_empty
      <4> QED
        BY <4>1
    <3>2. CASE ~fifo_is_empty(f)
      <4>1. Queue!KeepOldest
        BY <2>5, <3>2, RemoveKeeps DEF RemoveAllButOne, Queue!KeepOldest
      <4> QED
        BY <4>1 DEF Queue!Next
    <3> QED
      BY <3>1, <3>2
  <2>6. CASE UNCHANGED f
    BY <2>6
  <2> QED
    BY <2>1, <2>2, <2>3, <2>4, <2>5, <2>6 DEF RingNext, Queue!Next
<1>3. RingSpec => []RingTypeOK
  BY TypeCorrect, PTL
<1> QED
  BY <1>1, <1>2, <1>3, PTL DEF RingSpec, QueueSpec, Queue!Spec

===========================================================================
