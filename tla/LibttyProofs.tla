--------------------------- MODULE LibttyProofs ---------------------------
(***************************************************************************)
(* Theorems about libtty, for rings of every size, any number of reader,   *)
(* writer and draining threads, and every set of terminal settings: the    *)
(* variables keep their types, the lock is held where it must be, and      *)
(* TF_HAVEBREAK tells readCanon() the truth.                               *)
(*                                                                         *)
(* The flag's properties are not inductive by themselves.  readCanon()     *)
(* pops without looking, so that the flag has to be set for as long as a   *)
(* reader pops (PopsHaveBreak); the flag is cleared only where TCSETS or   *)
(* TCFLSH runs, which the lock keeps apart from a reader (LockHeldInside); *)
(* and a byte may only be added to the tx fifo if the writer asked for     *)
(* room (NeedsRoom).                                                       *)
(***************************************************************************)
EXTENDS Libtty, FifoLemmas, FiniteSetTheorems

ArgType == [size : Nat, nonblock : BOOLEAN, need : Nat, vmin : Nat, vtime : Nat]

Inside == {"canon", "canonPop", "raw", "write"}

\* The variables of the client threads: their types and the lock.
CallsOK ==
    /\ lock \in Thread \union {Hw, Free}
    /\ pc \in [Thread -> Pc]
    /\ len \in [Thread -> Nat]
    /\ arg \in [Thread -> ArgType]
    /\ \A t \in Thread : lock = t <=> pc[t] \in Inside

\* The types of everything else.
TtyOK ==
    /\ rx \in Ring
    /\ tx \in 0 .. Size - 1
    /\ havebreak \in BOOLEAN /\ literal \in BOOLEAN /\ closing \in BOOLEAN
    /\ term \in TermType
    /\ rx_waitq \in Conds(Thread) /\ tx_waitq \in Conds(Thread)
    /\ hw_cond \in Conds({Hw})
    /\ stale \in BOOLEAN

FlagOK ==
    /\ BreakNeverMissed
    /\ NoPhantomBreak
    /\ havebreak => term.icanon

PopsHaveBreak == \A t \in Reader : pc[t] = "canonPop" => havebreak

NeedsRoom ==
    \A t \in Thread : pc[t] \in {"write", "writeWait"} => arg[t].need >= 1

LInv == CallsOK /\ TtyOK /\ FlagOK /\ PopsHaveBreak /\ NeedsRoom

---------------------------------------------------------------------------
(* Data                                                                    *)

\* The operations on a condition stay within its type.
LEMMA CondTypes ==
    ASSUME NEW T, NEW q \in Conds(T), NEW t \in T
    PROVE  /\ condSignal(q) \subseteq Conds(T)
           /\ condBroadcast(q) \in Conds(T)
           /\ condWait(q, t) \in Conds(T)
           /\ condTimeout(q, t) \in Conds(T)
<1>1. condSignal(q) \subseteq Conds(T)
  <2> SUFFICES ASSUME NEW p \in condSignal(q) PROVE p \in Conds(T)
    OBVIOUS
  <2>1. CASE q.waiters = {}
    BY <2>1 DEF condSignal, Conds
  <2>2. CASE q.waiters # {}
    <3>1. PICK u \in q.waiters : p = [q EXCEPT !.waiters = @ \ {u}]
      BY <2>2 DEF condSignal
    <3> QED
      BY <3>1 DEF Conds
  <2> QED
    BY <2>1, <2>2
<1>2. condBroadcast(q) \in Conds(T) /\ condTimeout(q, t) \in Conds(T)
  BY DEF condBroadcast, condTimeout, Conds
<1>3. condWait(q, t) \in Conds(T)
  BY DEF condWait, Conds
<1> QED
  BY <1>1, <1>2, <1>3

\* Signalling a condition that may have no possible sleeper of its own.
LEMMA SignalTypes ==
    ASSUME NEW T, NEW q \in Conds(T)
    PROVE  condSignal(q) \subseteq Conds(T) /\ condBroadcast(q) \in Conds(T)
<1>1. condBroadcast(q) \in Conds(T)
  BY DEF condBroadcast, Conds
<1>2. CASE T = {}
  BY <1>1, <1>2 DEF condSignal, Conds
<1>3. CASE T # {}
  BY <1>3, CondTypes
<1> QED
  BY <1>1, <1>2, <1>3

\* Whether a break character is queued, after each operation on the ring.
LEMMA BreakPush ==
    ASSUME NEW r \in Ring, NEW b \in Byte, ~fifo_is_full(r), NEW tm
    PROVE  libttydisc_rx_have_breakchar(fifo_push(r, b), tm) <=>
               libttydisc_rx_have_breakchar(r, tm) \/ b \in BreakChars(tm)
BY HasPush DEF libttydisc_rx_have_breakchar

LEMMA BreakPopBack ==
    ASSUME NEW r \in Ring, ~fifo_is_empty(r), NEW tm
    PROVE  libttydisc_rx_have_breakchar(r, tm) <=>
               \/ libttydisc_rx_have_breakchar(fifo_pop_back(r), tm)
               \/ fifo_back(r) \in BreakChars(tm)
BY HasPopBack DEF libttydisc_rx_have_breakchar

LEMMA BreakPopFront ==
    ASSUME NEW r \in Ring, ~fifo_is_empty(r), NEW tm
    PROVE  libttydisc_rx_have_breakchar(r, tm) <=>
               \/ libttydisc_rx_have_breakchar(fifo_pop_front(r), tm)
               \/ fifo_peek_front(r) \in BreakChars(tm)
BY HasPopFront DEF libttydisc_rx_have_breakchar

LEMMA BreakNone ==
    ASSUME NEW r \in Ring, NEW tm, fifo_is_empty(r)
    PROVE  ~libttydisc_rx_have_breakchar(r, tm)
BY HasNone DEF libttydisc_rx_have_breakchar

LEMMA BreakCut ==
    ASSUME NEW r \in Ring, NEW k \in 0 .. fifo_count(r), NEW tm,
           \A j \in k + 1 .. fifo_count(r) : Contents(r)[j] \notin BreakChars(tm)
    PROVE  LET p == [r EXCEPT !.head = Mask(r.tail + k)]
           IN /\ p \in Ring
              /\ libttydisc_rx_have_breakchar(p, tm) <=> libttydisc_rx_have_breakchar(r, tm)
<1> DEFINE p == [r EXCEPT !.head = Mask(r.tail + k)]
<1>1. ASSUME NEW c \in BreakChars(tm)
      PROVE  p \in Ring /\ (fifo_has_char(p, c) <=> fifo_has_char(r, c))
  <2>1. \A j \in k + 1 .. fifo_count(r) : Contents(r)[j] # c
    OBVIOUS
  <2> QED
    BY <2>1, HasCut
<1>2. "NL" \in BreakChars(tm)
  BY DEF BreakChars
<1>3. p \in Ring
  BY <1>1, <1>2
<1> HIDE DEF p
<1>4. libttydisc_rx_have_breakchar(p, tm) <=> libttydisc_rx_have_breakchar(r, tm)
  BY <1>1 DEF libttydisc_rx_have_breakchar
<1> QED
  BY <1>3, <1>4 DEF p

\* A push that stops at a full fifo keeps the fill level in range.
LEMMA TxPlusType ==
    ASSUME tx \in 0 .. Size - 1, NEW n \in Nat
    PROVE  TxPlus(n) \in 0 .. Size - 1
BY SizeAssumption DEF TxPlus, TxFree

\* The callback, and echoing, keep the types.
LEMMA EchoTypes ==
    ASSUME TtyOK, NEW n \in Nat, Echo(n)
    PROVE  tx' \in 0 .. Size - 1 /\ hw_cond' \in Conds({Hw})
<1>1. TxPlus(n) \in 0 .. Size - 1
  BY TxPlusType DEF TtyOK
<1>2. condSignal(hw_cond) \subseteq Conds({Hw})
  BY SignalTypes DEF TtyOK
<1> QED
  BY <1>1, <1>2 DEF Echo, signal_txready, TtyOK

---------------------------------------------------------------------------
(* The client threads and the lock                                         *)

\* What a step does to the client threads: they stay consistent, and nobody
\* starts to pop a line or to write.
Settles ==
    /\ CallsOK'
    /\ \A u \in Thread : pc'[u] = "canonPop" => pc[u] = "canonPop"
    /\ NeedsRoom'

\* A call returns: by whoever holds the lock, or by one that takes it in passing.
LEMMA Returning ==
    ASSUME CallsOK, NeedsRoom, NEW t \in Thread, lock = t \/ lock = Free, Return(t)
    PROVE  /\ Settles
           /\ \A u \in Thread : pc'[u] # "canonPop"
<1>1. NoArg \in ArgType
  BY DEF NoArg, ArgType
<1>2. CallsOK'
  BY <1>1, ThreadAssumption DEF CallsOK, Return, Inside, Pc
<1>3. \A u \in Thread : pc'[u] # "canonPop"
  BY ThreadAssumption DEF CallsOK, Return, Inside
<1>4. NeedsRoom'
  BY DEF CallsOK, Return, NeedsRoom
<1> QED
  BY <1>2, <1>3, <1>4 DEF Settles

\* A call goes to sleep and condWait() gives the lock up.
LEMMA Sleeping ==
    ASSUME CallsOK, NeedsRoom, NEW t \in Thread, lock = t \/ lock = Free,
           NEW where \in {"canonWait", "rawWait", "writeWait", "drainWait"},
           where = "writeWait" => pc[t] = "write",
           Sleep(t, where)
    PROVE  /\ Settles
           /\ \A u \in Thread : pc'[u] # "canonPop"
<1>1. CallsOK'
  BY ThreadAssumption DEF CallsOK, Sleep, Inside, Pc
<1>2. \A u \in Thread : pc'[u] # "canonPop"
  BY ThreadAssumption DEF CallsOK, Sleep, Inside
<1>3. NeedsRoom'
  BY DEF CallsOK, Sleep, NeedsRoom
<1> QED
  BY <1>1, <1>2, <1>3 DEF Settles

\* A sleeper gets the lock back.
LEMMA Resuming ==
    ASSUME CallsOK, NeedsRoom, NEW t \in Thread,
           NEW from, NEW to \in {"canon", "raw", "write"},
           to = "write" => from = "writeWait",
           Resume(t, from, to)
    PROVE  Settles
<1>1. CallsOK'
  BY ThreadAssumption DEF CallsOK, Resume, Inside, Pc
<1>2. \A u \in Thread : pc'[u] = "canonPop" => pc[u] = "canonPop"
  BY DEF CallsOK, Resume
<1>3. NeedsRoom'
  BY DEF CallsOK, Resume, NeedsRoom
<1> QED
  BY <1>1, <1>2, <1>3 DEF Settles

\* The driver takes or gives back the lock, or leaves it alone.
LEMMA DriverLock ==
    ASSUME CallsOK, NeedsRoom, UNCHANGED calls,
           \/ lock = Free /\ lock' = Hw
           \/ lock = Hw /\ lock' = Free
           \/ lock' = lock
    PROVE  Settles
<1>1. CallsOK'
  BY ThreadAssumption DEF CallsOK, calls
<1>2. NeedsRoom'
  BY DEF NeedsRoom, calls
<1> QED
  BY <1>1, <1>2 DEF Settles, calls

\* A step that leaves the rx fifo, the settings and the flags alone.
LEMMA Quiet ==
    ASSUME LInv, Settles, UNCHANGED <<rx, flags>>,
           tx' \in 0 .. Size - 1,
           rx_waitq' \in Conds(Thread), tx_waitq' \in Conds(Thread),
           hw_cond' \in Conds({Hw})
    PROVE  LInv'
<1>1. TtyOK'
  BY DEF LInv, TtyOK, flags
<1>2. FlagOK'
  BY DEF LInv, FlagOK, BreakNeverMissed, NoPhantomBreak, flags
<1>3. PopsHaveBreak'
  BY DEF LInv, PopsHaveBreak, Settles, flags, Thread
<1> QED
  BY <1>1, <1>2, <1>3 DEF LInv, Settles

\* A step that computes TF_HAVEBREAK anew while nobody pops a line.
LEMMA Recomputing ==
    ASSUME LInv, Settles, \A u \in Thread : pc'[u] # "canonPop",
           rx' \in Ring, term' \in TermType, ComputeHaveBreak(rx', term'),
           tx' \in 0 .. Size - 1,
           UNCHANGED <<literal, closing, rx_waitq, tx_waitq, hw_cond>>
    PROVE  LInv'
<1>1. TtyOK'
  BY DEF LInv, TtyOK, ComputeHaveBreak
<1>2. FlagOK'
  BY DEF FlagOK, BreakNeverMissed, NoPhantomBreak, ComputeHaveBreak
<1>3. PopsHaveBreak'
  BY DEF PopsHaveBreak, Thread
<1> QED
  BY <1>1, <1>2, <1>3 DEF LInv, Settles

---------------------------------------------------------------------------
(* One step of each operation                                              *)

\* A call starts: t, idle, takes the lock.
LEMMA Starting ==
    ASSUME CallsOK, NeedsRoom, NEW t \in Thread, NEW to \in {"canon", "raw", "write"},
           NEW a \in ArgType, to = "write" => a.need >= 1,
           lock = Free, lock' = t, len' = len,
           pc' = [pc EXCEPT ![t] = to], arg' = [arg EXCEPT ![t] = a]
    PROVE  Settles
<1>1. CallsOK'
  BY ThreadAssumption DEF CallsOK, Inside, Pc
<1>2. \A u \in Thread : pc'[u] = "canonPop" => pc[u] = "canonPop"
  BY DEF CallsOK
<1>3. NeedsRoom'
  BY DEF CallsOK, NeedsRoom
<1> QED
  BY <1>1, <1>2, <1>3 DEF Settles

LEMMA ReadStep ==
    ASSUME LInv, NEW t \in Reader, Read(t)
    PROVE  LInv'
<1>0. /\ t \in Thread /\ CallsOK /\ TtyOK /\ NeedsRoom /\ PopsHaveBreak
      /\ FlagOK
      /\ tx \in 0 .. Size - 1 /\ rx_waitq \in Conds(Thread)
      /\ tx_waitq \in Conds(Thread) /\ hw_cond \in Conds({Hw})
  BY DEF LInv, TtyOK, Thread
<1>w. condWait(rx_waitq, t) \in Conds(Thread) /\ condTimeout(rx_waitq, t) \in Conds(Thread)
  BY <1>0, CondTypes
<1>1. CASE ReadCall(t)
  <2>1. PICK n \in ReadSize, nb \in BOOLEAN :
            arg' = [arg EXCEPT ![t] = [NoArg EXCEPT !.size = n, !.nonblock = nb,
                                       !.vmin = term.vmin, !.vtime = term.vtime]]
    BY <1>1 DEF ReadCall
  <2> DEFINE a == [NoArg EXCEPT !.size = n, !.nonblock = nb,
                                !.vmin = term.vmin, !.vtime = term.vtime]
             to == IF term.icanon THEN "canon" ELSE "raw"
  <2>2. a \in ArgType
    BY <1>0, SizesAssumption DEF ArgType, NoArg, TtyOK, TermType
  <2>3. to \in {"canon", "raw", "write"} /\ to # "write"
    OBVIOUS
  <2>4. pc' = [pc EXCEPT ![t] = to] /\ arg' = [arg EXCEPT ![t] = a]
        /\ lock = Free /\ lock' = t /\ len' = len
    BY <1>1, <2>1 DEF ReadCall
  <2> HIDE DEF a, to
  <2>5. Settles
    BY <1>0, <2>2, <2>3, <2>4, Starting
  <2> QED
    BY <1>0, <1>1, <2>5, Quiet DEF ReadCall
<1>2. CASE CanonTest(t)
  <2>1. CASE havebreak /\ pc' = [pc EXCEPT ![t] = "canonPop"]
             /\ UNCHANGED <<lock, len, arg, rx_waitq>>
    <3>1. CallsOK'
      BY <1>0, <1>2, <2>1 DEF CallsOK, CanonTest, Inside, Pc
    <3>2. NeedsRoom'
      BY <1>0, <2>1 DEF CallsOK, NeedsRoom
    <3>3. UNCHANGED <<rx, tx, flags, rx_waitq, tx_waitq, hw_cond>>
      BY <1>2, <2>1 DEF CanonTest
    <3>4. TtyOK'
      BY <1>0, <3>3 DEF TtyOK, flags
    <3>5. FlagOK'
      BY <1>0, <3>3 DEF FlagOK, BreakNeverMissed, NoPhantomBreak, flags
    <3>6. PopsHaveBreak'
      BY <2>1, <3>3 DEF PopsHaveBreak, flags
    <3> QED
      BY <3>1, <3>2, <3>4, <3>5, <3>6 DEF LInv
  <2>2. CASE Return(t) /\ UNCHANGED rx_waitq
    <3>1. Settles
      BY <1>0, <1>2, <2>2, Returning DEF CanonTest
    <3> QED
      BY <1>0, <1>2, <2>2, <3>1, Quiet DEF CanonTest
  <2>3. CASE rx_waitq' = condWait(rx_waitq, t) /\ Sleep(t, "canonWait")
    <3>1. Settles
      BY <1>0, <1>2, <2>3, Sleeping DEF CanonTest
    <3> QED
      BY <1>0, <1>w, <1>2, <2>3, <3>1, Quiet DEF CanonTest
  <2> QED
    BY <1>2, <2>1, <2>2, <2>3 DEF CanonTest
<1>3. CASE CanonWake(t)
  <2>1. Settles
    BY <1>0, <1>3, Resuming DEF CanonWake
  <2> QED
    BY <1>0, <1>3, <2>1, Quiet DEF CanonWake, Resume
<1>4. CASE CanonPop(t)
  <2>1. rx' \in Ring
    <3>1. fifo_back(rx) \in Byte
      BY <1>0, RingArith DEF TtyOK, fifo_back
    <3> QED
      BY <1>0, <1>4, <3>1, RingClosed DEF TtyOK, CanonPop
  <2>2. CASE ComputeHaveBreak(rx', term) /\ Return(t)
    <3>1. Settles /\ \A u \in Thread : pc'[u] # "canonPop"
      BY <1>0, <1>4, <2>2, Returning DEF CanonPop
    <3>2. term' = term /\ term' \in TermType /\ tx' \in 0 .. Size - 1
          /\ UNCHANGED <<literal, closing, rx_waitq, tx_waitq, hw_cond>>
      BY <1>0, <1>4 DEF CanonPop, TtyOK
    <3>3. ComputeHaveBreak(rx', term')
      BY <2>2, <3>2
    <3> QED
      BY <2>1, <3>1, <3>2, <3>3, Recomputing
  <2>3. CASE /\ ~libttydisc_is_breakchar(fifo_back(rx))
             /\ len' = [len EXCEPT ![t] = @ + 1]
             /\ UNCHANGED <<havebreak, stale, lock, pc, arg>>
    <3>1. CallsOK' /\ NeedsRoom'
      BY <1>0, <2>3 DEF CallsOK, NeedsRoom
    <3>2. TtyOK'
      BY <1>0, <1>4, <2>1, <2>3 DEF TtyOK, CanonPop
    <3>3. havebreak /\ term.icanon
      BY <1>0, <1>4 DEF PopsHaveBreak, FlagOK, CanonPop
    <3>4. ~stale => libttydisc_rx_have_breakchar(rx', term)
      <4> SUFFICES ASSUME ~stale PROVE libttydisc_rx_have_breakchar(rx', term)
        OBVIOUS
      <4>1. libttydisc_rx_have_breakchar(rx, term)
        BY <1>0, <3>3 DEF FlagOK, NoPhantomBreak
      <4>2. ~fifo_is_empty(rx)
        BY <1>0, <4>1, BreakNone DEF TtyOK
      <4> QED
        BY <1>0, <1>4, <2>3, <4>1, <4>2, BreakPopBack
        DEF TtyOK, CanonPop, libttydisc_is_breakchar
    <3>5. term' = term /\ havebreak' = havebreak /\ stale' = stale /\ pc' = pc
      BY <1>4, <2>3 DEF CanonPop
    <3>6. FlagOK'
      BY <3>3, <3>4, <3>5 DEF FlagOK, BreakNeverMissed, NoPhantomBreak
    <3>7. PopsHaveBreak'
      BY <1>0, <3>5 DEF PopsHaveBreak
    <3> QED
      BY <3>1, <3>2, <3>6, <3>7 DEF LInv
  <2> QED
    BY <1>4, <2>2, <2>3 DEF CanonPop
<1>5. CASE CanonFull(t)
  <2>1. Settles
    BY <1>0, <1>5, Returning DEF CanonFull
  <2> QED
    BY <1>0, <1>5, <2>1, Quiet DEF CanonFull
<1>6. CASE RawPop(t)
  <2>1. rx' \in Ring
    <3>1. fifo_back(rx) \in Byte
      BY <1>0, RingArith DEF TtyOK, fifo_back
    <3> QED
      BY <1>0, <1>6, <3>1, RingClosed DEF TtyOK, RawPop
  <2>2. CallsOK' /\ NeedsRoom'
    BY <1>0, <1>6 DEF CallsOK, NeedsRoom, RawPop
  <2>3. stale' \in BOOLEAN
    BY <1>6 DEF RawPop
  <2>4. TtyOK'
    BY <1>0, <1>6, <2>1, <2>3 DEF TtyOK, RawPop
  <2>5. libttydisc_rx_have_breakchar(rx, term) <=>
            libttydisc_rx_have_breakchar(rx', term) \/ fifo_back(rx) \in BreakChars(term)
    BY <1>0, <1>6, BreakPopBack DEF TtyOK, RawPop
  <2>6. term' = term /\ havebreak' = havebreak /\ pc' = pc
        /\ (stale' <=> stale \/ (term.icanon /\ fifo_back(rx) \in BreakChars(term)))
    BY <1>6 DEF RawPop, LosesBreak, libttydisc_is_breakchar
  <2>7. FlagOK'
    BY <1>0, <2>5, <2>6 DEF FlagOK, BreakNeverMissed, NoPhantomBreak
  <2>8. PopsHaveBreak'
    BY <1>0, <2>6 DEF PopsHaveBreak
  <2> QED
    BY <2>2, <2>4, <2>7, <2>8 DEF LInv
<1>7. CASE RawSleep(t)
  <2>1. Settles
    BY <1>0, <1>7, Sleeping DEF RawSleep
  <2> QED
    BY <1>0, <1>w, <1>7, <2>1, Quiet DEF RawSleep
<1>8. CASE RawReturn(t)
  <2>1. Settles
    BY <1>0, <1>8, Returning DEF RawReturn
  <2> QED
    BY <1>0, <1>8, <2>1, Quiet DEF RawReturn
<1>9. CASE RawWake(t)
  <2>1. Settles
    BY <1>0, <1>9, Resuming DEF RawWake
  <2> QED
    BY <1>0, <1>9, <2>1, Quiet DEF RawWake, Resume
<1>10. CASE RawTimeout(t)
  <2>1. CallsOK'
    BY <1>0, <1>10 DEF CallsOK, RawTimeout, Inside, Pc
  <2>2. NeedsRoom'
    BY <1>0, <1>10 DEF CallsOK, NeedsRoom, RawTimeout
  <2>3. Settles
    BY <1>0, <1>10, <2>1, <2>2 DEF Settles, CallsOK, RawTimeout
  <2> QED
    BY <1>0, <1>w, <1>10, <2>3, Quiet DEF RawTimeout
<1>11. CASE RawExpire(t)
  <2>1. Settles
    BY <1>0, <1>11, Returning DEF RawExpire
  <2> QED
    BY <1>0, <1>11, <2>1, Quiet DEF RawExpire
<1> QED
  BY <1>1, <1>2, <1>3, <1>4, <1>5, <1>6, <1>7, <1>8, <1>9, <1>10, <1>11 DEF Read

LEMMA WriteStep ==
    ASSUME LInv, NEW t \in Writer, Write(t)
    PROVE  LInv'
<1>0. /\ t \in Thread /\ CallsOK /\ TtyOK /\ NeedsRoom
      /\ tx \in 0 .. Size - 1 /\ rx_waitq \in Conds(Thread)
      /\ tx_waitq \in Conds(Thread) /\ hw_cond \in Conds({Hw})
  BY DEF LInv, TtyOK, Thread
<1>w. condWait(tx_waitq, t) \in Conds(Thread)
  BY <1>0, CondTypes
<1>s. condSignal(hw_cond) \subseteq Conds({Hw})
  BY <1>0, SignalTypes
<1>1. CASE WriteCall(t)
  <2>1. PICK n \in WriteSize \ {0}, nb \in BOOLEAN :
            arg' = [arg EXCEPT ![t] = [NoArg EXCEPT !.size = n, !.nonblock = nb,
                                       !.need = RoomForChar]]
    BY <1>1 DEF WriteCall
  <2> DEFINE a == [NoArg EXCEPT !.size = n, !.nonblock = nb, !.need = RoomForChar]
  <2>2. RoomForChar \in Nat /\ RoomForChar >= 1
    BY SizesAssumption, SizeAssumption DEF RoomForChar
  <2>3. a \in ArgType /\ a.need >= 1
    BY <2>2, SizesAssumption DEF ArgType, NoArg
  <2>4. pc' = [pc EXCEPT ![t] = "write"] /\ arg' = [arg EXCEPT ![t] = a]
        /\ lock = Free /\ lock' = t /\ len' = len
    BY <1>1, <2>1 DEF WriteCall
  <2> HIDE DEF a
  <2>5. Settles
    BY <1>0, <2>3, <2>4, Starting
  <2> QED
    BY <1>0, <1>1, <2>5, Quiet DEF WriteCall
<1>2. CASE WriteChar(t)
  <2>1. CallsOK'
    BY <1>0, <1>2 DEF CallsOK, WriteChar
  <2>2. Settles
    BY <1>0, <1>2, <2>1 DEF Settles, NeedsRoom, WriteChar
  <2>3. arg[t].need \in Nat /\ arg[t].need >= 1
    BY <1>0, <1>2 DEF CallsOK, ArgType, NeedsRoom, WriteChar
  <2>4. tx + 1 \in 0 .. Size - 1
    BY <1>0, <1>2, <2>3, SizeAssumption DEF WriteChar, TxFree
  <2>5. \A n \in OprocLen : TxPlus(n) \in 0 .. Size - 1
    <3>1. \A n \in OprocLen : n \in Nat
      BY SizesAssumption, SizeAssumption DEF OprocLen
    <3> QED
      BY <1>0, <3>1, TxPlusType
  <2>6. tx' \in 0 .. Size - 1 /\ hw_cond' \in Conds({Hw})
    BY <1>0, <1>s, <1>2, <2>4, <2>5 DEF WriteChar, signal_txready
  <2> QED
    BY <1>0, <1>2, <2>2, <2>6, Quiet DEF WriteChar
<1>3. CASE WriteSleep(t)
  <2>1. Settles
    BY <1>0, <1>3, Sleeping DEF WriteSleep
  <2> QED
    BY <1>0, <1>w, <1>s, <1>3, <2>1, Quiet DEF WriteSleep, signal_txready
<1>4. CASE WriteWake(t)
  <2>1. Settles
    BY <1>0, <1>4, Resuming DEF WriteWake
  <2> QED
    BY <1>0, <1>4, <2>1, Quiet DEF WriteWake, Resume
<1>5. CASE WriteReturn(t)
  <2>1. Settles
    BY <1>0, <1>5, Returning DEF WriteReturn
  <2>2. hw_cond' \in Conds({Hw})
    BY <1>0, <1>s, <1>5 DEF WriteReturn, signal_txready
  <2> QED
    BY <1>0, <1>5, <2>1, <2>2, Quiet DEF WriteReturn
<1> QED
  BY <1>1, <1>2, <1>3, <1>4, <1>5 DEF Write

LEMMA DrainStep ==
    ASSUME LInv, NEW t \in Ctl, Drain(t)
    PROVE  LInv'
<1>0. /\ t \in Thread /\ CallsOK /\ TtyOK /\ NeedsRoom
      /\ tx \in 0 .. Size - 1 /\ rx_waitq \in Conds(Thread)
      /\ tx_waitq \in Conds(Thread) /\ hw_cond \in Conds({Hw})
  BY DEF LInv, TtyOK, Thread
<1>1. CASE Return(t) /\ UNCHANGED tx_waitq
  <2>1. Settles
    BY <1>0, <1>1, Returning DEF Drain
  <2> QED
    BY <1>0, <1>1, <2>1, Quiet DEF Drain
<1>2. CASE tx_waitq' = condWait(tx_waitq, t) /\ Sleep(t, "drainWait")
  <2>1. Settles
    BY <1>0, <1>2, Sleeping DEF Drain
  <2>2. tx_waitq' \in Conds(Thread)
    BY <1>0, <1>2, CondTypes
  <2> QED
    BY <1>0, <2>1, <2>2, Quiet DEF Drain
<1> QED
  BY <1>1, <1>2 DEF Drain

\* TCFLSH, TCSETS and close take the lock and give it back within the step, so
\* that no reader is popping meanwhile.
LEMMA ControlStep ==
    ASSUME LInv, Flush \/ SetTermios \/ Close
    PROVE  LInv'
<1>0. /\ CallsOK /\ TtyOK /\ NeedsRoom /\ rx \in Ring /\ term \in TermType
      /\ tx \in 0 .. Size - 1 /\ rx_waitq \in Conds(Thread)
      /\ tx_waitq \in Conds(Thread) /\ hw_cond \in Conds({Hw})
  BY DEF LInv, TtyOK
<1>1. lock = Free /\ lock' = lock /\ UNCHANGED calls
  BY DEF Flush, SetTermios, Close
<1>2. Settles
  BY <1>0, <1>1, DriverLock
<1>3. \A u \in Thread : pc'[u] # "canonPop"
  BY <1>0, <1>1, ThreadAssumption DEF CallsOK, Inside, calls
<1>4. CASE Flush
  <2>1. rx' \in Ring
    <3>1. fifo_back(rx) \in Byte
      BY <1>0, RingArith DEF fifo_back
    <3>2. fifo_remove_all(rx) \in Ring
      BY <1>0, <3>1, RingClosed
    <3> QED
      BY <1>0, <1>4, <3>2 DEF Flush
  <2>2. tx' \in 0 .. Size - 1
    BY <1>0, <1>4, SizeAssumption DEF Flush
  <2>3. term' = term /\ ComputeHaveBreak(rx', term')
        /\ UNCHANGED <<literal, closing, rx_waitq, tx_waitq, hw_cond>>
    BY <1>4 DEF Flush
  <2> QED
    BY <1>0, <1>2, <1>3, <2>1, <2>2, <2>3, Recomputing
<1>5. CASE SetTermios
  <2>1. term' \in TermType /\ rx' = rx /\ tx' = tx
        /\ UNCHANGED <<literal, closing, rx_waitq, tx_waitq, hw_cond>>
    BY <1>5, TermAssumption DEF SetTermios
  <2>2. ComputeHaveBreak(rx', term')
    BY <1>5, <2>1 DEF SetTermios
  <2> QED
    BY <1>0, <1>2, <1>3, <2>1, <2>2, Recomputing
<1>6. CASE Close
  <2>1. rx_waitq' \in Conds(Thread) /\ tx_waitq' \in Conds(Thread)
    BY <1>0, <1>6, SignalTypes DEF Close
  <2>2. TtyOK'
    BY <1>0, <1>6, <2>1 DEF TtyOK, Close
  <2>3. FlagOK'
    BY <1>6 DEF LInv, FlagOK, BreakNeverMissed, NoPhantomBreak, Close
  <2>4. PopsHaveBreak'
    BY <1>3 DEF PopsHaveBreak, Thread
  <2> QED
    BY <1>2, <2>2, <2>3, <2>4 DEF LInv, Settles
<1> QED
  BY <1>4, <1>5, <1>6

\* _libtty_putchar() makes room in a full ring by dropping one byte.
LEMMA FullPop ==
    ASSUME NEW r \in Ring, fifo_is_full(r)
    PROVE  ~fifo_is_empty(r) /\ fifo_pop_back(r) \in Ring /\ ~fifo_is_full(fifo_pop_back(r))
<1>1. /\ Size \in Nat /\ Size >= 3
      /\ r.head \in Nat /\ r.head < Size /\ r.tail \in Nat /\ r.tail < Size
      /\ Mask(r.head + 1) = IF r.head + 1 = Size THEN 0 ELSE r.head + 1
      /\ Mask(r.tail + 1) = IF r.tail + 1 = Size THEN 0 ELSE r.tail + 1
  <2>1. Size \in Nat /\ Size >= 3
    BY SizeAssumption, SizesAssumption
  <2> QED
    BY <2>1, RingArith DEF Slot
<1>2. r.tail = Mask(r.head + 1)
  BY DEF fifo_is_full
<1>3. ~fifo_is_empty(r)
  BY <1>1, <1>2 DEF fifo_is_empty
<1>4. fifo_back(r) \in Byte
  BY RingArith DEF fifo_back
<1>5. fifo_pop_back(r) \in Ring
  BY <1>4, RingClosed
<1>6. fifo_pop_back(r).head = r.head /\ fifo_pop_back(r).tail = Mask(r.tail + 1)
  BY DEF fifo_pop_back, Ring
<1>7. ~fifo_is_full(fifo_pop_back(r))
  BY <1>1, <1>2, <1>6 DEF fifo_is_full
<1> QED
  BY <1>3, <1>5, <1>7

\* _libtty_putchar() keeps the types, tells the truth in TF_HAVEBREAK, and
\* never clears it.
LEMMA PutChar ==
    ASSUME TtyOK, FlagOK, NEW c \in Typed, NEW w \in BOOLEAN, libtty_putchar(c, w)
    PROVE  /\ rx' \in Ring /\ tx' \in 0 .. Size - 1
           /\ havebreak' \in BOOLEAN /\ literal' \in BOOLEAN /\ stale' \in BOOLEAN
           /\ hw_cond' \in Conds({Hw})
           /\ FlagOK' /\ (havebreak => havebreak')
           /\ closing' = closing /\ term' = term
<1> USE DEF TtyOK
<1>0. closing' = closing /\ term' = term
  BY DEF libtty_putchar
<1>1. CASE PutSignal(c) \/ PutLnext(c) \/ PutIgnored(c)
  <2>1. EchoLen(c) \in Nat /\ 2 \in Nat
    BY DEF EchoLen
  <2>2. tx' \in 0 .. Size - 1 /\ hw_cond' \in Conds({Hw})
    BY <1>1, <2>1, EchoTypes DEF PutSignal, PutLnext, PutIgnored
  <2>3. rx' = rx /\ havebreak' = havebreak /\ stale' = stale /\ literal' \in BOOLEAN
    BY <1>1 DEF PutSignal, PutLnext, PutIgnored
  <2>4. FlagOK'
    BY <1>0, <2>3 DEF FlagOK, BreakNeverMissed, NoPhantomBreak
  <2> QED
    BY <1>0, <2>2, <2>3, <2>4
<1>2. CASE PutErase(c)
  <2>1. havebreak' = havebreak /\ stale' = stale /\ literal' = literal
    BY <1>2 DEF PutErase
  <2>2. CASE UNCHANGED <<rx, tx, hw_cond>>
    <3>1. FlagOK'
      BY <1>0, <2>1, <2>2 DEF FlagOK, BreakNeverMissed, NoPhantomBreak
    <3> QED
      BY <1>0, <2>1, <2>2, <3>1
  <2>3. CASE /\ ~fifo_is_empty(rx) /\ ~libttydisc_is_breakchar(fifo_peek_front(rx))
             /\ rx' = fifo_pop_front(rx) /\ Echo(RubLen(fifo_peek_front(rx)))
    <3>1. RubLen(fifo_peek_front(rx)) \in Nat
      BY DEF RubLen
    <3>2. tx' \in 0 .. Size - 1 /\ hw_cond' \in Conds({Hw})
      BY <2>3, <3>1, EchoTypes
    <3>3. fifo_back(rx) \in Byte
      BY RingArith DEF fifo_back
    <3>4. rx' \in Ring
      BY <2>3, <3>3, RingClosed
    <3>5. libttydisc_rx_have_breakchar(rx', term) <=> libttydisc_rx_have_breakchar(rx, term)
      BY <2>3, BreakPopFront DEF libttydisc_is_breakchar
    <3>6. FlagOK'
      BY <1>0, <2>1, <3>5 DEF FlagOK, BreakNeverMissed, NoPhantomBreak
    <3> QED
      BY <1>0, <2>1, <3>2, <3>4, <3>6
  <2> QED
    BY <1>2, <2>2, <2>3 DEF PutErase
<1>3. CASE PutKill(c)
  <2> DEFINE line == Contents(rx)
             n == fifo_count(rx)
  <2>1. PICK k \in 0 .. n :
            /\ \A j \in k + 1 .. n : ~libttydisc_is_breakchar(line[j])
            /\ rx' = [rx EXCEPT !.head = Mask(rx.tail + k)]
            /\ IF k = n THEN UNCHANGED <<tx, hw_cond>>
               ELSE Echo(3 * (n - k)
                         + 3 * Cardinality({j \in k + 1 .. n : CtlPrint(line[j])}))
    BY <1>3 DEF PutKill
  <2>2. havebreak' = havebreak /\ stale' = stale /\ literal' = literal
    BY <1>3 DEF PutKill
  <2>3. n \in Nat
    BY ContentsSeq
  <2>4. rx' \in Ring
        /\ (libttydisc_rx_have_breakchar(rx', term) <=> libttydisc_rx_have_breakchar(rx, term))
    BY <2>1, BreakCut DEF libttydisc_is_breakchar
  <2>5. Cardinality({j \in k + 1 .. n : CtlPrint(line[j])}) \in Nat
    <3>1. IsFiniteSet(k + 1 .. n)
      BY <2>3, FS_Interval
    <3>2. IsFiniteSet({j \in k + 1 .. n : CtlPrint(line[j])})
      BY <3>1, FS_Subset
    <3> QED
      BY <3>2, FS_CardinalityType
  <2>6. tx' \in 0 .. Size - 1 /\ hw_cond' \in Conds({Hw})
    <3> DEFINE m == Cardinality({j \in k + 1 .. n : CtlPrint(line[j])})
               e == 3 * (n - k) + 3 * m
    <3>1. m \in Nat
      BY <2>5
    <3> HIDE DEF m
    <3>2. e \in Nat
      BY <2>3, <3>1
    <3>3. Echo(e) => tx' \in 0 .. Size - 1 /\ hw_cond' \in Conds({Hw})
      BY <3>2, EchoTypes
    <3> QED
      BY <2>1, <3>3 DEF m
  <2>7. FlagOK'
    BY <1>0, <2>2, <2>4 DEF FlagOK, BreakNeverMissed, NoPhantomBreak
  <2> QED
    BY <1>0, <2>2, <2>4, <2>6, <2>7
<1>4. CASE PutData(c)
  <2> DEFINE r == IF fifo_is_full(rx) THEN fifo_pop_back(rx) ELSE rx
             b == Mapped(c)
             Have(q) == libttydisc_rx_have_breakchar(q, term)
  <2>1. b \in Byte
    BY TermAssumption DEF Mapped
  <2>2. r \in Ring /\ ~fifo_is_full(r)
    BY FullPop
  <2>3. /\ Have(r) => Have(rx)
        /\ Have(rx) => Have(r) \/ (fifo_is_full(rx) /\ fifo_back(rx) \in BreakChars(term))
    <3>1. CASE fifo_is_full(rx)
      BY <3>1, FullPop, BreakPopBack
    <3>2. CASE ~fifo_is_full(rx)
      BY <3>2
    <3> QED
      BY <3>1, <3>2
  <2>4. rx' = fifo_push(r, b)
    BY <1>4 DEF PutData
  <2> HIDE DEF r, b
  <2>5. rx' \in Ring
    BY <2>1, <2>2, <2>4, RingClosed
  <2>6. Have(rx') <=> Have(r) \/ b \in BreakChars(term)
    BY <2>1, <2>2, <2>4, BreakPush
  <2>7. EchoLen(b) \in Nat
    BY DEF EchoLen
  <2>8. tx' \in 0 .. Size - 1 /\ hw_cond' \in Conds({Hw})
    BY <1>4, <2>7, EchoTypes DEF PutData, b
  <2>9. /\ stale' <=> stale \/ (fifo_is_full(rx) /\ term.icanon
                                /\ fifo_back(rx) \in BreakChars(term))
        /\ havebreak' <=> havebreak \/ (term.icanon /\ b \in BreakChars(term))
    BY <1>4 DEF PutData, LosesBreak, libttydisc_is_breakchar, b
  <2>10. stale' \in BOOLEAN /\ havebreak' \in BOOLEAN /\ literal' \in BOOLEAN
    BY <1>4 DEF PutData
  <2>11. FlagOK'
    BY <1>0, <2>3, <2>6, <2>9 DEF FlagOK, BreakNeverMissed, NoPhantomBreak
  <2> QED
    BY <1>0, <2>5, <2>8, <2>9, <2>10, <2>11
<1> QED
  BY <1>1, <1>2, <1>3, <1>4 DEF libtty_putchar

LEMMA DriverStep ==
    ASSUME LInv, Driver
    PROVE  LInv'
<1>0. /\ CallsOK /\ TtyOK /\ NeedsRoom /\ FlagOK /\ PopsHaveBreak
      /\ tx \in 0 .. Size - 1 /\ rx_waitq \in Conds(Thread)
      /\ tx_waitq \in Conds(Thread) /\ hw_cond \in Conds({Hw})
  BY DEF LInv, TtyOK
<1>1. /\ condSignal(rx_waitq) \subseteq Conds(Thread)
      /\ condSignal(tx_waitq) \subseteq Conds(Thread)
      /\ condSignal(hw_cond) \subseteq Conds({Hw})
      /\ condWait(hw_cond, Hw) \in Conds({Hw})
  BY <1>0, SignalTypes, CondTypes
<1>2. Settles
  BY <1>0, DriverLock
  DEF Driver, HwLock, HwUnlock, HwPutChar, HwPopChar, HwWake, HwInterrupt
<1>3. CASE HwLock
  BY <1>0, <1>2, <1>3, Quiet DEF HwLock
<1>4. CASE HwUnlock
  BY <1>0, <1>1, <1>2, <1>4, Quiet DEF HwUnlock
<1>5. CASE HwPutChar
  <2>1. PICK c \in Typed, w \in BOOLEAN :
            libtty_putchar(c, w) /\ (libtty_wake_reader \/ UNCHANGED rx_waitq)
    BY <1>5 DEF HwPutChar
  <2>2. /\ rx' \in Ring /\ tx' \in 0 .. Size - 1
        /\ havebreak' \in BOOLEAN /\ literal' \in BOOLEAN /\ stale' \in BOOLEAN
        /\ hw_cond' \in Conds({Hw})
        /\ FlagOK' /\ (havebreak => havebreak')
        /\ closing' = closing /\ term' = term
    BY <1>0, <2>1, PutChar
  <2>3. rx_waitq' \in Conds(Thread)
    BY <1>0, <1>1, <2>1 DEF libtty_wake_reader
  <2>4. UNCHANGED <<tx_waitq, calls>>
    BY <1>5 DEF HwPutChar
  <2>5. TtyOK'
    BY <1>0, <2>2, <2>3, <2>4 DEF TtyOK
  <2>6. PopsHaveBreak'
    BY <1>0, <2>2, <2>4 DEF PopsHaveBreak, calls
  <2> QED
    BY <1>2, <2>2, <2>5, <2>6 DEF LInv, Settles
<1>6. CASE HwPopChar
  <2>1. tx' \in 0 .. Size - 1
    BY <1>0, <1>6, SizeAssumption DEF HwPopChar
  <2>2. tx_waitq' \in Conds(Thread)
    BY <1>0, <1>1, <1>6 DEF HwPopChar, libtty_wake_writer
  <2> QED
    BY <1>0, <1>2, <1>6, <2>1, <2>2, Quiet DEF HwPopChar
<1>7. CASE HwWake
  <2>1. rx_waitq' \in Conds(Thread) /\ tx_waitq' \in Conds(Thread)
    BY <1>0, <1>1, <1>7 DEF HwWake, libtty_wake_reader, libtty_wake_writer
  <2> QED
    BY <1>0, <1>2, <1>7, <2>1, Quiet DEF HwWake
<1>8. CASE HwInterrupt
  BY <1>0, <1>1, <1>2, <1>8, Quiet DEF HwInterrupt, signal_txready
<1> QED
  BY <1>3, <1>4, <1>5, <1>6, <1>7, <1>8 DEF Driver

---------------------------------------------------------------------------
(* The theorems                                                            *)

LEMMA LibttyInit ==
    Init => LInv
<1> SUFFICES ASSUME Init PROVE LInv
  OBVIOUS
<1>1. PICK junk \in [Slot -> Junk] : rx = fifo_init(junk)
  BY DEF Init
<1>2. rx \in Ring /\ fifo_is_empty(rx)
  <2>1. 0 \in Slot
    BY SizeAssumption DEF Slot
  <2>2. junk \in [Slot -> Byte]
    BY TermAssumption
  <2> QED
    BY <1>1, <2>1, <2>2 DEF fifo_init, Ring, fifo_is_empty
<1>3. TtyOK
  <2>1. \A T : condCreate \in Conds(T)
    BY DEF condCreate, Conds
  <2>2. 0 \in 0 .. Size - 1 /\ DefaultTerm \in TermType
    BY SizeAssumption, TermAssumption
  <2> QED
    BY <1>2, <2>1, <2>2 DEF Init, TtyOK
<1>4. FlagOK
  BY <1>2, BreakNone DEF Init, FlagOK, BreakNeverMissed, NoPhantomBreak
<1>5. CallsOK
  BY ThreadAssumption DEF Init, CallsOK, Inside, Pc, NoArg, ArgType
<1>6. PopsHaveBreak /\ NeedsRoom
  BY DEF Init, PopsHaveBreak, NeedsRoom, Thread
<1> QED
  BY <1>3, <1>4, <1>5, <1>6 DEF LInv

LEMMA LibttyNext ==
    LInv /\ [Next]_vars => LInv'
<1> SUFFICES ASSUME LInv, [Next]_vars PROVE LInv'
  OBVIOUS
<1>1. CASE UNCHANGED vars
  <2>1. Settles
    BY <1>1, DriverLock DEF LInv, vars, calls
  <2> QED
    BY <1>1, <2>1, Quiet DEF vars, flags, LInv, TtyOK
<1>2. CASE Client
  BY <1>2, ReadStep, WriteStep, DrainStep, ControlStep DEF Client
<1>3. CASE Driver
  BY <1>3, DriverStep
<1> QED
  BY <1>1, <1>2, <1>3 DEF Next

LEMMA LibttyInvariant ==
    Spec => []LInv
BY LibttyInit, LibttyNext, PTL DEF Spec

\* The variables of libtty keep their types whatever clients and driver do: in
\* particular the ring's indices stay in range and the tx fifo never overflows.
THEOREM LibttyTypes == Spec => []TypeOK
<1>1. LInv => TypeOK
  BY DEF LInv, CallsOK, TtyOK, TypeOK, ArgType
<1> QED
  BY <1>1, LibttyInvariant, PTL

\* tty->lock is held exactly by the thread that is inside a loop of libtty.
THEOREM LibttyLocking == Spec => []LockHeldInside
<1>1. LInv => LockHeldInside
  BY DEF LInv, CallsOK, LockHeldInside, Inside
<1> QED
  BY <1>1, LibttyInvariant, PTL

\* TF_HAVEBREAK is set whenever a canonical tty holds a complete line; and short
\* of a break character lost since the flag was computed, it is set only then.
THEOREM LibttyBreakFlag == Spec => [](BreakNeverMissed /\ NoPhantomBreak)
<1>1. LInv => BreakNeverMissed /\ NoPhantomBreak
  BY DEF LInv, FlagOK
<1> QED
  BY <1>1, LibttyInvariant, PTL

\* readCanon() never pops from an empty ring, under the same proviso.
THEOREM LibttyCanonPops == Spec => []CanonPopHasByte
<1>1. LInv => CanonPopHasByte
  <2> SUFFICES ASSUME LInv, NEW t \in Reader, pc[t] = "canonPop", ~stale
               PROVE  ~fifo_is_empty(rx)
    BY DEF CanonPopHasByte
  <2>1. libttydisc_rx_have_breakchar(rx, term) /\ rx \in Ring
    BY DEF LInv, TtyOK, FlagOK, PopsHaveBreak, NoPhantomBreak
  <2> QED
    BY <2>1, BreakNone
<1> QED
  BY <1>1, LibttyInvariant, PTL

===========================================================================
