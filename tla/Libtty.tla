------------------------------ MODULE Libtty ------------------------------
(***************************************************************************)
(* libtty: the terminal library every console driver of the repository is  *)
(* built on (src/tty/libtty).  Client threads call libtty_read(),          *)
(* libtty_write() and libtty_ioctl(); the driver's thread feeds received   *)
(* bytes through the line discipline and takes bytes to transmit.          *)
(*                                                                         *)
(* All of it runs under tty->lock.  The variable lock says who holds it, a *)
(* loop that keeps it makes one step per iteration, and condWait() gives   *)
(* it up while the caller sleeps.                                          *)
(*                                                                         *)
(* The driver is the most general one: it may call the _libtty_ functions  *)
(* of the hardware interface in any order, as long as it holds the lock    *)
(* and takes a byte only when _libtty_txready().  The drivers' own loops   *)
(* are in modules that extend this one.                                    *)
(***************************************************************************)
EXTENDS Fifo, FiniteSets, Cond

CONSTANTS
    Reader, Writer, Ctl,  \* client threads, by the call they make
    Hw,                   \* the driver's thread
    Free,                 \* nobody holds the lock
    Watermark,            \* TX_FIFO_NOTFULL_WATERMARK
    OprocMax,             \* LIBTTYDISC_WRITE_OPROC_MAXLEN
    TabLen,               \* length of the blanks that a tab is written as
    Typed,                \* bytes that arrive from the line
    Junk,                 \* what malloc() leaves in the slots of the ring
    ReadSize, WriteSize,  \* sizes that clients ask for
    DefaultTerm,          \* termios_init()
    Termios               \* settings that TCSETS may install

Thread == Reader \union Writer \union Ctl

\* The part of struct termios that decides what happens to a byte.  ECHOE,
\* ECHOCTL and ONLCR are on, as termios_init() leaves them; ISTRIP and the
\* output delays change no control flow and are left out.
TermType ==
    [icanon : BOOLEAN, isig : BOOLEAN, iexten : BOOLEAN, echo : BOOLEAN,
     opost : BOOLEAN, igncr : BOOLEAN, icrnl : BOOLEAN, inlcr : BOOLEAN,
     veol : BOOLEAN, vmin : Nat, vtime : Nat]

ASSUME ThreadAssumption ==
    /\ Reader \intersect Writer = {} /\ Reader \intersect Ctl = {}
    /\ Writer \intersect Ctl = {}
    /\ Hw \notin Thread /\ Free \notin Thread /\ Hw # Free

ASSUME SizesAssumption ==
    /\ OprocMax \in 2 .. Size - 1 /\ TabLen \in Nat
    /\ Watermark \in OprocMax .. Size - 1
    /\ ReadSize \subseteq Nat /\ WriteSize \subseteq Nat

ASSUME TermAssumption ==
    /\ Termios \subseteq TermType /\ DefaultTerm \in TermType
    /\ Typed \subseteq Byte /\ Junk \subseteq Byte /\ {"NL", "CR"} \subseteq Byte

VARIABLES
    lock,       \* holder of tty->lock
    rx,         \* rx_fifo
    tx,         \* fifo_count(tx_fifo): what the bytes are plays no part
    havebreak,  \* t_flags & TF_HAVEBREAK
    literal,    \* t_flags & TF_LITERAL
    closing,    \* t_flags & TF_CLOSING
    term,       \* tty->term
    rx_waitq, tx_waitq,
    hw_cond,    \* the driver's own condition, e.g. uart->cond
    pc,         \* where each client thread is
    len,        \* bytes read or written so far by the call in progress
    arg,        \* its arguments, and what it read from the tty on entry
    stale       \* history: a break character has left the rx fifo of a canonical
                \* tty and TF_HAVEBREAK has not been computed since

vars == <<lock, rx, tx, havebreak, literal, closing, term, rx_waitq, tx_waitq,
          hw_cond, pc, len, arg, stale>>

flags == <<havebreak, literal, closing, term, stale>>
calls == <<pc, len, arg>>

NoArg == [size |-> 0, nonblock |-> FALSE, need |-> 0, vmin |-> 0, vtime |-> 0]

Init ==
    /\ lock = Free
    /\ \E junk \in [Slot -> Junk] : rx = fifo_init(junk)
    /\ tx = 0
    /\ havebreak = FALSE /\ literal = FALSE /\ closing = FALSE
    /\ term = DefaultTerm
    /\ rx_waitq = condCreate /\ tx_waitq = condCreate /\ hw_cond = condCreate
    /\ pc = [t \in Thread |-> "idle"]
    /\ len = [t \in Thread |-> 0]
    /\ arg = [t \in Thread |-> NoArg]
    /\ stale = FALSE

---------------------------------------------------------------------------
(* Helpers                                                                 *)

\* tty->breakchars, which termios_optimize() derives from the settings tm.
BreakChars(tm) == {"NL", "EOF"} \union (IF tm.veol THEN {"EOL"} ELSE {})

libttydisc_is_breakchar(c) == c \in BreakChars(term)

libttydisc_rx_have_breakchar(r, tm) == \E b \in BreakChars(tm) : fifo_has_char(r, b)

\* TF_HAVEBREAK as termios_optimize() and the end of readCanon() compute it,
\* with the settings tm and the ring r.
ComputeHaveBreak(r, tm) ==
    /\ havebreak' = (tm.icanon /\ libttydisc_rx_have_breakchar(r, tm))
    /\ stale' = FALSE

\* The oldest byte is a break character of a canonical tty.
LosesBreak == term.icanon /\ libttydisc_is_breakchar(fifo_back(rx))

TxFree == Size - 1 - tx

\* A push of n bytes that stops at a full fifo (_libttydisc_txFeedback()).
TxPlus(n) == IF n <= TxFree THEN tx + n ELSE Size - 1

\* CALLBACK(signal_txready): the drivers signal their thread's condition.
signal_txready == hw_cond' \in condSignal(hw_cond)

\* mutexUnlock() on return from a call.
Return(t) ==
    /\ lock' = Free
    /\ pc' = [pc EXCEPT ![t] = "idle"]
    /\ len' = [len EXCEPT ![t] = 0]
    /\ arg' = [arg EXCEPT ![t] = NoArg]

\* condWait(q, tty->lock, ...) by t, as far as the lock and t are concerned.
Sleep(t, where) ==
    /\ lock' = Free
    /\ pc' = [pc EXCEPT ![t] = where]
    /\ UNCHANGED <<len, arg>>

\* t, no longer asleep, gets the lock back inside condWait().
Resume(t, from, to) ==
    /\ pc[t] = from
    /\ lock = Free
    /\ lock' = t
    /\ pc' = [pc EXCEPT ![t] = to]
    /\ UNCHANGED <<rx, tx, flags, rx_waitq, tx_waitq, hw_cond, len, arg>>

---------------------------------------------------------------------------
(* Reading: _libtty_read_nonblock() with st = NULL, readCanon(), readRaw() *)

\* On a closing tty the call fails with -EBADF and changes nothing.
ReadCall(t) ==
    /\ pc[t] = "idle" /\ lock = Free /\ ~closing
    /\ lock' = t
    /\ pc' = [pc EXCEPT ![t] = IF term.icanon THEN "canon" ELSE "raw"]
    /\ \E n \in ReadSize, nb \in BOOLEAN :
           arg' = [arg EXCEPT ![t] = [NoArg EXCEPT !.size = n, !.nonblock = nb,
                                      !.vmin = term.vmin, !.vtime = term.vtime]]
    /\ UNCHANGED <<rx, tx, flags, rx_waitq, tx_waitq, hw_cond, len>>

\* One round of the loop that waits for TF_HAVEBREAK.
CanonTest(t) ==
    /\ pc[t] = "canon" /\ lock = t
    /\ \/ /\ havebreak
          /\ pc' = [pc EXCEPT ![t] = "canonPop"]
          /\ UNCHANGED <<lock, len, arg, rx_waitq>>
       \/ /\ ~havebreak /\ (closing \/ arg[t].nonblock)
          /\ Return(t)
          /\ UNCHANGED rx_waitq
       \/ /\ ~havebreak /\ ~closing /\ ~arg[t].nonblock
          /\ rx_waitq' = condWait(rx_waitq, t)
          /\ Sleep(t, "canonWait")
    /\ UNCHANGED <<rx, tx, flags, tx_waitq, hw_cond>>

CanonWake(t) == t \notin rx_waitq.waiters /\ Resume(t, "canonWait", "canon")

\* Slip: TF_HAVEBREAK is not computed anew at the end of the line.
CanonPopKeepsFlag(t) ==
    /\ pc[t] = "canonPop" /\ lock = t /\ len[t] < arg[t].size
    /\ rx' = fifo_pop_back(rx)
    /\ \/ libttydisc_is_breakchar(fifo_back(rx)) /\ Return(t)
       \/ /\ ~libttydisc_is_breakchar(fifo_back(rx))
          /\ len' = [len EXCEPT ![t] = @ + 1]
          /\ UNCHANGED <<lock, pc, arg>>
    /\ UNCHANGED <<tx, flags, rx_waitq, tx_waitq, hw_cond>>

\* One round of the loop that pops the line, without looking whether there is
\* anything to pop.  A break character ends the call and TF_HAVEBREAK is
\* computed anew; VEOF is one and is dropped.
CanonPop(t) ==
    /\ pc[t] = "canonPop" /\ lock = t /\ len[t] < arg[t].size
    /\ rx' = fifo_pop_back(rx)
    /\ \/ /\ libttydisc_is_breakchar(fifo_back(rx))
          /\ ComputeHaveBreak(rx', term)
          /\ Return(t)
       \/ /\ ~libttydisc_is_breakchar(fifo_back(rx))
          /\ len' = [len EXCEPT ![t] = @ + 1]
          /\ UNCHANGED <<havebreak, stale, lock, pc, arg>>
    /\ UNCHANGED <<tx, literal, closing, term, rx_waitq, tx_waitq, hw_cond>>

\* The buffer is full: the rest of the line stays.
CanonFull(t) ==
    /\ pc[t] = "canonPop" /\ lock = t /\ len[t] >= arg[t].size
    /\ Return(t)
    /\ UNCHANGED <<rx, tx, flags, rx_waitq, tx_waitq, hw_cond>>

RawPop(t) ==
    /\ pc[t] = "raw" /\ lock = t /\ len[t] < arg[t].size
    /\ ~fifo_is_empty(rx)
    /\ rx' = fifo_pop_back(rx)
    /\ len' = [len EXCEPT ![t] = @ + 1]
    /\ stale' = (stale \/ LosesBreak)
    /\ UNCHANGED <<lock, tx, havebreak, literal, closing, term, rx_waitq, tx_waitq,
                   hw_cond, pc, arg>>

\* Slip: any byte will do, whatever VMIN says.
RawShortOfOne(t) ==
    /\ len[t] < arg[t].size /\ fifo_is_empty(rx)
    /\ ~arg[t].nonblock
    /\ arg[t].vmin > 0 \/ arg[t].vtime > 0
    /\ len[t] = 0

\* readRaw() has to wait: the fifo is empty and VMIN and VTIME ask for more.
RawShort(t) ==
    /\ len[t] < arg[t].size /\ fifo_is_empty(rx)
    /\ ~arg[t].nonblock
    /\ arg[t].vmin > 0 \/ arg[t].vtime > 0
    /\ len[t] = 0 \/ len[t] < arg[t].vmin

RawSleep(t) ==
    /\ pc[t] = "raw" /\ lock = t
    /\ RawShort(t) /\ ~closing
    /\ rx_waitq' = condWait(rx_waitq, t)
    /\ Sleep(t, "rawWait")
    /\ UNCHANGED <<rx, tx, flags, tx_waitq, hw_cond>>

RawReturn(t) ==
    /\ pc[t] = "raw" /\ lock = t
    /\ len[t] >= arg[t].size \/ fifo_is_empty(rx)
    /\ RawShort(t) => closing
    /\ Return(t)
    /\ UNCHANGED <<rx, tx, flags, rx_waitq, tx_waitq, hw_cond>>

RawWake(t) == t \notin rx_waitq.waiters /\ Resume(t, "rawWait", "raw")

\* condWait() was given a timeout: first_char_timeout or, once a byte has
\* been read, vtime.
RawTimeout(t) ==
    /\ pc[t] = "rawWait" /\ t \in rx_waitq.waiters
    /\ arg[t].vtime > 0 /\ (len[t] > 0 \/ arg[t].vmin = 0)
    /\ rx_waitq' = condTimeout(rx_waitq, t)
    /\ pc' = [pc EXCEPT ![t] = "rawTimedOut"]
    /\ UNCHANGED <<lock, rx, tx, flags, tx_waitq, hw_cond, len, arg>>

\* -ETIME: whatever arrived in the meantime is left for the next call.
RawExpire(t) ==
    /\ pc[t] = "rawTimedOut" /\ lock = Free
    /\ Return(t)
    /\ UNCHANGED <<rx, tx, flags, rx_waitq, tx_waitq, hw_cond>>

Read(t) ==
    \/ ReadCall(t)
    \/ CanonTest(t) \/ CanonWake(t) \/ CanonPop(t) \/ CanonFull(t)
    \/ RawPop(t) \/ RawSleep(t) \/ RawReturn(t) \/ RawWake(t)
    \/ RawTimeout(t) \/ RawExpire(t)

---------------------------------------------------------------------------
(* Writing: _libtty_write()                                                *)

\* Free space that _libtty_write() waits for before it takes a byte.
RoomForChar == IF term.opost THEN OprocMax ELSE 1

\* What _libttydisc_writeOproc() turns one control character into: a tab is
\* expanded to TabLen bytes, a newline to two, anything else is one.  What does
\* not fit is dropped, and nothing but the two numbers of the code being equal
\* makes it fit.
OprocLen == {1, 2, TabLen}

\* The calls that return without effect (closing, a full fifo with O_NONBLOCK,
\* size 0) are left out.
WriteCall(t) ==
    /\ pc[t] = "idle" /\ lock = Free /\ ~closing
    /\ \E n \in WriteSize \ {0}, nb \in BOOLEAN :
           /\ ~(nb /\ TxFree = 0)
           /\ arg' = [arg EXCEPT ![t] = [NoArg EXCEPT !.size = n, !.nonblock = nb,
                                         !.need = RoomForChar]]
    /\ lock' = t
    /\ pc' = [pc EXCEPT ![t] = "write"]
    /\ UNCHANGED <<rx, tx, flags, rx_waitq, tx_waitq, hw_cond, len>>

\* One byte goes to the fifo, as it is or through _libttydisc_writeOproc().
WriteChar(t) ==
    /\ pc[t] = "write" /\ lock = t /\ len[t] < arg[t].size
    /\ TxFree >= arg[t].need
    /\ \/ tx' = tx + 1 /\ UNCHANGED hw_cond
       \/ term.opost /\ (\E n \in OprocLen : tx' = TxPlus(n)) /\ signal_txready
    /\ len' = [len EXCEPT ![t] = @ + 1]
    /\ UNCHANGED <<lock, rx, flags, rx_waitq, tx_waitq, pc, arg>>

WriteSleep(t) ==
    /\ pc[t] = "write" /\ lock = t /\ len[t] < arg[t].size
    /\ TxFree < arg[t].need /\ ~closing /\ ~arg[t].nonblock
    /\ signal_txready
    /\ tx_waitq' = condWait(tx_waitq, t)
    /\ Sleep(t, "writeWait")
    /\ UNCHANGED <<rx, tx, flags, rx_waitq>>

WriteWake(t) == t \notin tx_waitq.waiters /\ Resume(t, "writeWait", "write")

\* Everything is written, or the call gives up (-EPIPE, a short count, or
\* -EWOULDBLOCK); only the former reaches the callback.
WriteReturn(t) ==
    /\ pc[t] = "write" /\ lock = t
    /\ \/ len[t] >= arg[t].size /\ signal_txready
       \/ /\ len[t] < arg[t].size /\ TxFree < arg[t].need
          /\ closing \/ arg[t].nonblock
          /\ UNCHANGED hw_cond
    /\ Return(t)
    /\ UNCHANGED <<rx, tx, flags, rx_waitq, tx_waitq>>

Write(t) == WriteCall(t) \/ WriteChar(t) \/ WriteSleep(t) \/ WriteWake(t) \/ WriteReturn(t)

---------------------------------------------------------------------------
(* Control: _libtty_ioctl() and _libtty_close()                            *)

\* TCDRAIN: one round of the loop of _libtty_drain(), on entry or after a wakeup.
\* It does not look at TF_CLOSING.
Drain(t) ==
    /\ lock = Free
    /\ pc[t] = "idle" \/ (pc[t] = "drainWait" /\ t \notin tx_waitq.waiters)
    /\ \/ tx = 0 /\ Return(t) /\ UNCHANGED tx_waitq
       \/ tx > 0 /\ tx_waitq' = condWait(tx_waitq, t) /\ Sleep(t, "drainWait")
    /\ UNCHANGED <<rx, tx, flags, rx_waitq, hw_cond>>

\* Slip: TCIFLUSH empties the ring and leaves TF_HAVEBREAK.
FlushKeepsFlag ==
    /\ lock = Free
    /\ rx' = fifo_remove_all(rx)
    /\ UNCHANGED <<lock, tx, flags, rx_waitq, tx_waitq, hw_cond, calls>>

\* TCFLSH: TCIFLUSH, TCOFLUSH, TCIOFLUSH.  One byte stays in the tx fifo.
Flush ==
    /\ lock = Free
    /\ \E in, out \in BOOLEAN :
           /\ in \/ out
           /\ rx' = IF in THEN fifo_remove_all(rx) ELSE rx
           /\ tx' = IF out /\ tx > 0 THEN 1 ELSE tx
    /\ ComputeHaveBreak(rx', term)
    /\ UNCHANGED <<lock, literal, closing, term, rx_waitq, tx_waitq, hw_cond, calls>>

\* Slip: the settings change without termios_optimize().
SetTermiosKeepsFlag ==
    /\ lock = Free
    /\ term' \in Termios
    /\ UNCHANGED <<lock, rx, tx, havebreak, literal, closing, stale,
                   rx_waitq, tx_waitq, hw_cond, calls>>

\* TCSETS, TCSETSW and TCSETSF, which the code treats alike.  Nobody is woken.
SetTermios ==
    /\ lock = Free
    /\ term' \in Termios
    /\ ComputeHaveBreak(rx, term')
    /\ UNCHANGED <<lock, rx, tx, literal, closing, rx_waitq, tx_waitq, hw_cond, calls>>

\* Slip: only the writers are woken.
CloseTxOnly ==
    /\ lock = Free
    /\ closing' = TRUE
    /\ tx_waitq' = condBroadcast(tx_waitq)
    /\ UNCHANGED <<lock, rx, tx, havebreak, literal, term, stale, rx_waitq, hw_cond, calls>>

Close ==
    /\ lock = Free
    /\ closing' = TRUE
    /\ tx_waitq' = condBroadcast(tx_waitq)
    /\ rx_waitq' = condBroadcast(rx_waitq)
    /\ UNCHANGED <<lock, rx, tx, havebreak, literal, term, stale, hw_cond, calls>>

---------------------------------------------------------------------------
(* The hardware interface: _libtty_putchar(), _libtty_popchar(), wakeups   *)

\* CTL_PRINT(): echoed as ^X.
CtlPrint(c) == c \in {"CR", "EOF", "EOL", "ERASE", "KILL", "INTR", "LNEXT"}

\* Bytes that the echo of c takes (_libttydisc_echo()).
EchoLen(c) ==
    CASE c = "NL" -> IF term.opost THEN 2 ELSE 1
      [] c = "CR" /\ term.opost -> 1
      [] c = "EOF" -> 4
      [] CtlPrint(c) /\ ~(c = "CR" /\ term.opost) /\ c # "EOF" -> 2
      [] OTHER -> 1

\* Bytes that wipe the echo of c out (_libttydisc_rubchar()).
RubLen(c) == IF CtlPrint(c) THEN 6 ELSE 3

Echo(n) ==
    IF term.echo THEN tx' = TxPlus(n) /\ signal_txready
                 ELSE UNCHANGED <<tx, hw_cond>>

\* The byte after ICRNL and INLCR, which a literal next skips.
Mapped(c) ==
    IF literal THEN c
    ELSE IF c = "CR" /\ term.icrnl THEN "NL"
    ELSE IF c = "NL" /\ term.inlcr THEN "CR"
    ELSE c

\* What _libtty_putchar() does with c: the tests in the order it makes them.
Disposition(c) ==
    IF term.isig /\ c = "INTR" THEN "signal"
    ELSE IF literal THEN "data"
    ELSE IF term.iexten /\ c = "LNEXT" THEN "lnext"
    ELSE IF c = "CR" /\ term.igncr THEN "ignore"
    ELSE IF term.icanon /\ Mapped(c) = "ERASE" THEN "erase"
    ELSE IF term.icanon /\ Mapped(c) = "KILL" THEN "kill"
    ELSE "data"

\* VINTR, VQUIT or VSUSP: echo, then _libtty_signal_pgrp().
PutSignal(c) ==
    /\ Disposition(c) = "signal"
    /\ Echo(EchoLen(c))
    /\ UNCHANGED <<rx, havebreak, literal, stale>>

PutLnext(c) ==
    /\ Disposition(c) = "lnext"
    /\ Echo(2)
    /\ literal' = TRUE
    /\ UNCHANGED <<rx, havebreak, stale>>

PutIgnored(c) ==
    /\ Disposition(c) = "ignore"
    /\ UNCHANGED <<rx, tx, hw_cond, havebreak, literal, stale>>

\* _libttydisc_rubchar(): the newest byte, unless it ends the line before.
PutErase(c) ==
    /\ Disposition(c) = "erase"
    /\ IF fifo_is_empty(rx) \/ libttydisc_is_breakchar(fifo_peek_front(rx))
       THEN UNCHANGED <<rx, tx, hw_cond>>
       ELSE rx' = fifo_pop_front(rx) /\ Echo(RubLen(fifo_peek_front(rx)))
    /\ UNCHANGED <<havebreak, literal, stale>>

\* rubchar() until it fails: the k oldest bytes stay, k the end of the last
\* complete line.
PutKill(c) ==
    /\ Disposition(c) = "kill"
    /\ LET line == Contents(rx)
           n == fifo_count(rx)
       IN \E k \in 0 .. n :
              /\ k > 0 => libttydisc_is_breakchar(line[k])
              /\ \A j \in k + 1 .. n : ~libttydisc_is_breakchar(line[j])
              /\ rx' = [rx EXCEPT !.head = Mask(rx.tail + k)]
              /\ IF k = n THEN UNCHANGED <<tx, hw_cond>>
                 ELSE Echo(3 * (n - k)
                           + 3 * Cardinality({j \in k + 1 .. n : CtlPrint(line[j])}))
    /\ UNCHANGED <<havebreak, literal, stale>>

\* The byte is queued; when the ring is full the oldest byte is dropped.
PutData(c) ==
    /\ Disposition(c) = "data"
    /\ rx' = fifo_push(IF fifo_is_full(rx) THEN fifo_pop_back(rx) ELSE rx, Mapped(c))
    /\ stale' = (stale \/ (fifo_is_full(rx) /\ LosesBreak))
    /\ Echo(EchoLen(Mapped(c)))
    /\ havebreak' = (havebreak \/ (term.icanon /\ libttydisc_is_breakchar(Mapped(c))))
    /\ literal' = FALSE

\* _libtty_putchar(c, &w): w says that a reader is to be woken.
libtty_putchar(c, w) ==
    /\ \/ PutSignal(c) /\ ~w
       \/ PutLnext(c) /\ ~w
       \/ PutIgnored(c) /\ ~w
       \/ PutErase(c) /\ ~w
       \/ PutKill(c) /\ ~w
       \/ PutData(c) /\ w = (term.icanon => libttydisc_is_breakchar(Mapped(c)))
    /\ UNCHANGED <<closing, term>>

\* _libtty_wake_reader(), and _libtty_wake_writer() with n bytes queued.
libtty_wake_reader == rx_waitq' \in condSignal(rx_waitq)

\* Slip: the watermark is compared with the bytes queued.
WakeWriterWhenFull(n) ==
    IF n >= Watermark THEN tx_waitq' \in condSignal(tx_waitq)
                      ELSE UNCHANGED tx_waitq

libtty_wake_writer(n) ==
    IF Size - 1 - n >= Watermark THEN tx_waitq' \in condSignal(tx_waitq)
                                 ELSE UNCHANGED tx_waitq

\* The driver's thread takes the lock, gives it back, or sleeps on its own
\* condition.
HwLock ==
    /\ lock = Free /\ Hw \notin hw_cond.waiters
    /\ lock' = Hw
    /\ UNCHANGED <<rx, tx, flags, rx_waitq, tx_waitq, hw_cond, calls>>

HwUnlock ==
    /\ lock = Hw
    /\ lock' = Free
    /\ hw_cond' \in {hw_cond, condWait(hw_cond, Hw)}
    /\ UNCHANGED <<rx, tx, flags, rx_waitq, tx_waitq, calls>>

\* A byte from the line, with the wakeup at once or left to the driver.
HwPutChar ==
    /\ lock = Hw
    /\ \E c \in Typed, w \in BOOLEAN :
           /\ libtty_putchar(c, w)
           /\ \/ w /\ libtty_wake_reader
              \/ UNCHANGED rx_waitq
    /\ UNCHANGED <<lock, tx_waitq, calls>>

\* _libtty_popchar(), and _libtty_getchar() with the wakeup.
HwPopChar ==
    /\ lock = Hw /\ tx > 0
    /\ tx' = tx - 1
    /\ libtty_wake_writer(tx - 1) \/ UNCHANGED tx_waitq
    /\ UNCHANGED <<lock, rx, flags, rx_waitq, hw_cond, calls>>

HwWake ==
    /\ lock = Hw
    /\ \/ libtty_wake_reader /\ UNCHANGED tx_waitq
       \/ libtty_wake_writer(tx) /\ UNCHANGED rx_waitq
    /\ UNCHANGED <<lock, rx, tx, flags, hw_cond, calls>>

\* The interrupt handler asks the kernel to signal the driver's condition.
HwInterrupt ==
    /\ signal_txready
    /\ UNCHANGED <<lock, rx, tx, flags, rx_waitq, tx_waitq, calls>>

Driver == HwLock \/ HwUnlock \/ HwPutChar \/ HwPopChar \/ HwWake \/ HwInterrupt

Client ==
    \/ \E t \in Reader : Read(t)
    \/ \E t \in Writer : Write(t)
    \/ \E t \in Ctl : Drain(t)
    \/ Flush \/ SetTermios \/ Close

Next == Client \/ Driver

Spec == Init /\ [][Next]_vars

\* A client that holds the lock runs on; one that was woken, or whose timeout
\* expired, gets the lock back, since a kernel mutex serves those who queue for
\* it.  Nobody is obliged to call, flush, close, or change the settings.
ClientFairness ==
    /\ \A t \in Reader :
           /\ WF_vars(CanonTest(t) \/ CanonPop(t) \/ CanonFull(t)
                      \/ RawPop(t) \/ RawSleep(t) \/ RawReturn(t))
           /\ SF_vars(CanonWake(t) \/ RawWake(t) \/ RawExpire(t))
    /\ \A t \in Writer :
           /\ WF_vars(WriteChar(t) \/ WriteSleep(t) \/ WriteReturn(t))
           /\ SF_vars(WriteWake(t))
    /\ \A t \in Ctl : SF_vars(pc[t] = "drainWait" /\ Drain(t))

---------------------------------------------------------------------------
(* Properties                                                              *)

Pc == {"idle", "canon", "canonWait", "canonPop", "raw", "rawWait", "rawTimedOut",
       "write", "writeWait", "drainWait"}

TypeOK ==
    /\ lock \in Thread \union {Hw, Free}
    /\ rx \in Ring
    /\ tx \in 0 .. Size - 1
    /\ havebreak \in BOOLEAN /\ literal \in BOOLEAN /\ closing \in BOOLEAN
    /\ term \in TermType
    /\ rx_waitq \in Conds(Thread) /\ tx_waitq \in Conds(Thread)
    /\ hw_cond \in Conds({Hw})
    /\ pc \in [Thread -> Pc]
    /\ len \in [Thread -> Nat]
    /\ arg \in [Thread -> [size : Nat, nonblock : BOOLEAN, need : Nat,
                           vmin : Nat, vtime : Nat]]
    /\ stale \in BOOLEAN

\* A complete line in the rx fifo is never overlooked: while the tty is
\* canonical, TF_HAVEBREAK is set whenever a break character is queued, however
\* reads, line editing, flushes, overruns and mode changes interleave.
BreakNeverMissed ==
    term.icanon /\ libttydisc_rx_have_breakchar(rx, term) => havebreak

\* TF_HAVEBREAK is not left over from a line that is gone: short of a break
\* character that was dropped by an overrun or taken by readRaw(), and until the
\* flag is next computed, readCanon() may trust it.
NoPhantomBreak == havebreak /\ ~stale => libttydisc_rx_have_breakchar(rx, term)

\* readCanon() pops without an emptiness test; under the same proviso there is
\* always a byte to pop.
CanonPopHasByte ==
    \A t \in Reader :
        pc[t] = "canonPop" /\ len[t] < arg[t].size /\ ~stale => ~fifo_is_empty(rx)

\* The comment on TF_HAVEBREAK in libtty.h, "There is a breakchar present in RX
\* fifo", without the proviso.
HaveBreakMeansBreak == havebreak => libttydisc_rx_have_breakchar(rx, term)

\* Whoever is inside a loop of libtty holds the lock, and a sleeper does not:
\* condWait() gave it up.
LockHeldInside ==
    \A t \in Thread :
        lock = t <=> pc[t] \in {"canon", "canonPop", "raw", "write"}

\* A blocking raw read with VTIME = 0 brings VMIN bytes, or as many as were
\* asked for, unless the tty is being closed.
RawReadsMin ==
    [][\A t \in Reader :
           pc[t] \in {"raw", "rawTimedOut"} /\ pc'[t] = "idle"
           /\ ~arg[t].nonblock /\ arg[t].vtime = 0 /\ ~closing
               => len[t] >= arg[t].size \/ len[t] >= arg[t].vmin]_vars

===========================================================================
