----------------------------- MODULE Pl011Tty -----------------------------
(***************************************************************************)
(* The Raspberry Pi console server src/tty/pl011-tty/pl011-tty.c on top of *)
(* libtty.  pl011_thr() polls the UART, moves one batch of bytes per round *)
(* and mirrors it to the HDMI console; pl011_kbdthr() feeds the keys of    *)
(* /dev/kbd0 to the same tty; FBCONSETMODE lends the framebuffer and the   *)
(* keyboard to a full-screen application.                                  *)
(*                                                                         *)
(* Both threads take tty->lock under the name Hw; ppc and kpc say which of *)
(* them has it.  signal_txready() of this driver does nothing: nobody ever *)
(* sleeps on hw_cond.                                                      *)
(***************************************************************************)
EXTENDS Libtty

CONSTANTS
    HwDepth,    \* bytes in each of the UART's fifos
    BatchSize,  \* sizeof(batch)
    KbdMax,     \* sizeof(buf) of pl011_kbdthr()
    HasFb,      \* fbaddr # NULL: pl011_fbcon_init() found a framebuffer
    OnLine,     \* bytes of Typed that come in through the UART
    OnKbd       \* bytes of Typed that come from the keyboard

ASSUME Pl011Assumption ==
    /\ {HwDepth, BatchSize, KbdMax} \subseteq Nat \ {0}
    /\ OnLine \union OnKbd \subseteq Typed /\ HasFb \in BOOLEAN

VARIABLES
    ppc,          \* where pl011_thr() is
    wake_reader,  \* its local variable
    n,            \* bytes in its batch; wake_writer is n > 0
    rxhw, txhw,   \* the UART's fifos: received bytes, number of bytes to send
    kpc,          \* where pl011_kbdthr() is
    kbuf, kwake,  \* its unread bytes of buf, and its wake_reader
    kbd,          \* who has /dev/kbd0 open: "none", "bridge" or "app"
    fbmode,       \* "enabled" or "disabled"
    fb, shadow    \* do they show all console output?  "complete" or "partial";
                  \* shadow is "null" until it is allocated

thrVars == <<ppc, wake_reader, n, rxhw, txhw>>
kbdVars == <<kpc, kbuf, kwake>>
fbVars == <<fbmode, fb, shadow>>
pl011Vars == <<vars, thrVars, kbdVars, kbd, fbVars>>

Pl011Init ==
    /\ Init
    /\ ppc = "idle" /\ wake_reader = FALSE /\ n = 0
    /\ rxhw = <<>> /\ txhw = 0
    /\ kpc = "top" /\ kbuf = <<>> /\ kwake = FALSE
    /\ kbd = "none"
    /\ fbmode = "enabled" /\ fb = "complete" /\ shadow = "null"

---------------------------------------------------------------------------
(* The HDMI console and the application that borrows it                    *)

\* pl011_fbcon_write(): text goes to fbdraw and is missing on the other surface.
pl011_fbcon_write ==
    /\ fb' = IF fbmode = "enabled" THEN fb ELSE "partial"
    /\ shadow' = IF fbmode = "enabled" /\ shadow # "null" THEN "partial" ELSE shadow
    /\ UNCHANGED fbmode

\* Slip: the screen is saved only when the shadow is first allocated.
FbconDisableOnce ==
    /\ fbmode = "enabled"
    /\ shadow' = IF shadow = "null" THEN fb ELSE shadow
    /\ fbmode' = "disabled"
    /\ UNCHANGED fb

\* pl011_fbcon_setmode(): the calls that fail or ask for the current mode do
\* nothing.
FbconDisable ==
    /\ fbmode = "enabled"
    /\ shadow' = fb
    /\ fbmode' = "disabled"
    /\ UNCHANGED fb

FbconEnable ==
    /\ fbmode = "disabled"
    /\ fb' = IF shadow # "null" THEN shadow ELSE fb
    /\ fbmode' = "enabled"
    /\ UNCHANGED shadow

kbdReleased == fbmode = "disabled"

AppDraws == fbmode = "disabled" /\ fb' = "partial" /\ UNCHANGED <<fbmode, shadow>>

\* Without a framebuffer each of these returns at once.  The kernel log reaches
\* the HDMI console without passing libtty.
Hdmi ==
    /\ HasFb
    /\ FbconDisable \/ FbconEnable \/ AppDraws \/ pl011_fbcon_write
    /\ UNCHANGED <<vars, thrVars, kbdVars, kbd>>

\* usbkbd admits one opener at a time.
AppOpensKbd == kbd = "none" /\ kbdReleased /\ kbd' = "app"
AppClosesKbd == kbd = "app" /\ kbd' = "none"

App == (AppOpensKbd \/ AppClosesKbd) /\ UNCHANGED <<vars, thrVars, kbdVars, fbVars>>

---------------------------------------------------------------------------
(* The UART                                                                *)

LineByte ==
    /\ Len(rxhw) < HwDepth
    /\ \E c \in OnLine : rxhw' = Append(rxhw, c)
    /\ UNCHANGED <<vars, ppc, wake_reader, n, txhw, kbdVars, kbd, fbVars>>

LineSends ==
    /\ txhw > 0
    /\ txhw' = txhw - 1
    /\ UNCHANGED <<vars, ppc, wake_reader, n, rxhw, kbdVars, kbd, fbVars>>

---------------------------------------------------------------------------
(* pl011_thr()                                                             *)

PollLock ==
    /\ ppc = "idle" /\ HwLock
    /\ ppc' = "rx"
    /\ UNCHANGED <<wake_reader, n, rxhw, txhw>>

\* _libtty_putchar(..., &wake_reader) sets wake_reader anew for every byte.
PollRx ==
    /\ ppc = "rx" /\ rxhw # <<>>
    /\ \E w \in BOOLEAN : libtty_putchar(Head(rxhw), w) /\ wake_reader' = w
    /\ rxhw' = Tail(rxhw)
    /\ UNCHANGED <<lock, rx_waitq, tx_waitq, calls, ppc, n, txhw>>

PollRxDone ==
    /\ ppc = "rx" /\ rxhw = <<>>
    /\ ppc' = "tx"
    /\ UNCHANGED <<vars, wake_reader, n, rxhw, txhw>>

\* Slip: no txready test.
PollTxUnready ==
    /\ ppc = "tx" /\ n < BatchSize /\ txhw < HwDepth
    /\ tx' = tx - 1 /\ txhw' = txhw + 1 /\ n' = n + 1
    /\ UNCHANGED <<lock, rx, flags, rx_waitq, tx_waitq, hw_cond, calls,
                   ppc, wake_reader, rxhw>>

PollTx ==
    /\ ppc = "tx" /\ n < BatchSize /\ tx > 0 /\ txhw < HwDepth
    /\ tx' = tx - 1 /\ txhw' = txhw + 1 /\ n' = n + 1
    /\ UNCHANGED <<lock, rx, flags, rx_waitq, tx_waitq, hw_cond, calls,
                   ppc, wake_reader, rxhw>>

PollWakeReader ==
    /\ ppc = "tx" /\ (n = BatchSize \/ tx = 0 \/ txhw = HwDepth)
    /\ IF wake_reader THEN libtty_wake_reader ELSE UNCHANGED rx_waitq
    /\ ppc' = "wakeWriter"
    /\ UNCHANGED <<lock, rx, tx, flags, tx_waitq, hw_cond, calls,
                   wake_reader, n, rxhw, txhw>>

PollWakeWriter ==
    /\ ppc = "wakeWriter"
    /\ IF n > 0 THEN libtty_wake_writer(tx) ELSE UNCHANGED tx_waitq
    /\ ppc' = "unlock"
    /\ UNCHANGED <<lock, rx, tx, flags, rx_waitq, hw_cond, calls,
                   wake_reader, n, rxhw, txhw>>

PollUnlock ==
    /\ ppc = "unlock"
    /\ lock' = Free
    /\ ppc' = "mirror"
    /\ UNCHANGED <<rx, tx, flags, rx_waitq, tx_waitq, hw_cond, calls,
                   wake_reader, n, rxhw, txhw>>

\* The batch is shown after the lock is gone; then the thread may sleep a while
\* and begins the next round with fresh local variables.
PollMirror ==
    /\ ppc = "mirror"
    /\ IF n > 0 /\ HasFb THEN pl011_fbcon_write ELSE UNCHANGED fbVars
    /\ ppc' = "idle" /\ wake_reader' = FALSE /\ n' = 0
    /\ UNCHANGED <<vars, rxhw, txhw>>

PollBody ==
    \/ /\ PollRx \/ PollRxDone \/ PollTx \/ PollWakeReader \/ PollWakeWriter \/ PollUnlock
       /\ UNCHANGED <<kbdVars, kbd, fbVars>>
    \/ PollMirror /\ UNCHANGED <<kbdVars, kbd>>

PollStart == PollLock /\ UNCHANGED <<kbdVars, kbd, fbVars>>

pl011_thr == PollStart \/ PollBody

---------------------------------------------------------------------------
(* pl011_kbdthr()                                                          *)

\* Slips: the thread reads on after the release; it never releases.
KbdTopReadsOn ==
    /\ kpc = "top"
    /\ \/ kbdReleased /\ kbd = "bridge" /\ kbd' = "none"
       \/ ~kbdReleased /\ kbd = "none" /\ kbd' = "bridge"
       \/ ~kbdReleased /\ kbd = "bridge" /\ UNCHANGED kbd
    /\ kpc' = "read"
    /\ UNCHANGED <<vars, kbuf, kwake>>

KbdTopKeeps ==
    /\ kpc = "top"
    /\ \/ kbd = "none" /\ kbd' = "bridge"
       \/ kbd = "bridge" /\ UNCHANGED kbd
    /\ kpc' = "read"
    /\ UNCHANGED <<vars, kbuf, kwake>>

\* The top of the loop: release, reopen (which fails while the application has
\* the keyboard), or go on to read().
KbdTop ==
    /\ kpc = "top"
    /\ \/ kbdReleased /\ kbd = "bridge" /\ kbd' = "none" /\ UNCHANGED kpc
       \/ ~kbdReleased /\ kbd = "none" /\ kbd' = "bridge" /\ kpc' = "read"
       \/ ~kbdReleased /\ kbd = "bridge" /\ kpc' = "read" /\ UNCHANGED kbd
    /\ UNCHANGED <<vars, kbuf, kwake>>

\* read(): some keys, none, or an error after which the device is closed.
KbdRead ==
    /\ kpc = "read"
    /\ \/ /\ \E k \in 1 .. KbdMax : kbuf' \in [1 .. k -> OnKbd]
          /\ kpc' = "lock"
          /\ UNCHANGED kbd
       \/ kpc' = "top" /\ kbd' \in {"none", "bridge"} /\ UNCHANGED kbuf
    /\ UNCHANGED <<vars, kwake>>

\* Slip: the keys are fed to libtty without the lock.
KbdLockNot == kpc = "lock" /\ kpc' = "put" /\ UNCHANGED <<vars, kbuf, kwake, kbd>>

KbdLock ==
    /\ kpc = "lock" /\ HwLock
    /\ kpc' = "put"
    /\ UNCHANGED <<kbuf, kwake, kbd>>

\* Slip: wake_reader = wh.
KbdPutLast ==
    /\ kpc = "put" /\ kbuf # <<>>
    /\ \E w \in BOOLEAN : libtty_putchar(Head(kbuf), w) /\ kwake' = w
    /\ kbuf' = Tail(kbuf)
    /\ UNCHANGED <<lock, rx_waitq, tx_waitq, calls, kpc, kbd>>

\* wake_reader |= wh
KbdPut ==
    /\ kpc = "put" /\ kbuf # <<>>
    /\ \E w \in BOOLEAN : libtty_putchar(Head(kbuf), w) /\ kwake' = (kwake \/ w)
    /\ kbuf' = Tail(kbuf)
    /\ UNCHANGED <<lock, rx_waitq, tx_waitq, calls, kpc, kbd>>

KbdWakeReader ==
    /\ kpc = "put" /\ kbuf = <<>>
    /\ IF kwake THEN libtty_wake_reader ELSE UNCHANGED rx_waitq
    /\ kpc' = "unlock"
    /\ UNCHANGED <<lock, rx, tx, flags, tx_waitq, hw_cond, calls, kbuf, kwake, kbd>>

KbdUnlock ==
    /\ kpc = "unlock"
    /\ lock' = Free
    /\ kpc' = "top" /\ kwake' = FALSE
    /\ UNCHANGED <<rx, tx, flags, rx_waitq, tx_waitq, hw_cond, calls, kbuf, kbd>>

KbdBody ==
    /\ KbdTop \/ KbdRead \/ KbdPut \/ KbdWakeReader \/ KbdUnlock
    /\ UNCHANGED <<thrVars, fbVars>>

KbdStart == KbdLock /\ UNCHANGED <<thrVars, fbVars>>

pl011_kbdthr == KbdStart \/ KbdBody

---------------------------------------------------------------------------

Pl011Next ==
    \/ Client /\ UNCHANGED <<thrVars, kbdVars, kbd, fbVars>>
    \/ pl011_thr \/ pl011_kbdthr
    \/ LineByte \/ LineSends \/ Hdmi \/ App

\* Both threads are free running: they poll, and get the lock when they queue
\* for it.
Pl011Fairness ==
    /\ ClientFairness
    /\ WF_pl011Vars(PollBody) /\ SF_pl011Vars(PollStart)
    /\ WF_pl011Vars(KbdBody) /\ SF_pl011Vars(KbdStart)
    /\ WF_pl011Vars(LineSends)

Pl011Spec == Pl011Init /\ [][Pl011Next]_pl011Vars

FairPl011Spec == Pl011Spec /\ Pl011Fairness

---------------------------------------------------------------------------
(* Properties                                                              *)

\* Two threads share the hardware interface, and libtty cannot tell them from
\* one: each calls it with the lock held and pops only what is there.
UsesLibtty == Spec

\* The comment in pl011_kbdthr(): a line completed in the middle of a burst does
\* not lose its reader's wakeup.  While a lone reader sleeps with a line
\* complete, one of the threads is about to wake it.
NoMissedLine ==
    \A t \in Reader :
        pc[t] = "canonWait" /\ t \in rx_waitq.waiters /\ havebreak
            => \/ ppc \in {"rx", "tx"} /\ wake_reader
               \/ kpc = "put" /\ kwake

\* The comment on pl011_fbcon_setmode(), "nothing is lost": whatever the
\* application drew, the surface that the console draws on shows all of its
\* output, so the console is whole again as soon as the application is done.
NothingLost == IF fbmode = "enabled" THEN fb = "complete" ELSE shadow = "complete"

\* Keys pressed for the application never reach the console: while it has the
\* keyboard the bridge holds nothing it read from it.
AppKeysPrivate == kbd = "app" => kpc = "top"

\* A blocking write ends: the batches empty the fifo and wake the writer.
WriteEnds == \A t \in Writer : pc[t] # "idle" ~> pc[t] = "idle"

\* FBCONSETMODE lets the application have the keyboard: the bridge closes it,
\* unless the console is enabled again first.
KbdHandedOver == kbdReleased ~> (kbd # "bridge" \/ ~kbdReleased)

===========================================================================
