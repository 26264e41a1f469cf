----------------------------- MODULE GrlibUart -----------------------------
(***************************************************************************)
(* A complete console driver: the thread and the interrupt handler of      *)
(* src/tty/grlib-uart/grlib-uart.c on top of libtty.  The thread keeps     *)
(* tty->lock all the time except inside condWait(), so it moves bytes      *)
(* between the UART's own fifos and libtty's in bursts, and wakes one      *)
(* reader and one writer per burst.                                        *)
(***************************************************************************)
EXTENDS Libtty

CONSTANT HwDepth  \* bytes in each of the UART's fifos

ASSUME HwDepthAssumption == HwDepth \in Nat \ {0}

VARIABLES
    hpc,     \* where uart_intThread() is
    wake,    \* its local variable
    rxhw,    \* receive fifo of the UART; DATA_READY unless empty
    txhw,    \* bytes in its transmit fifo; TX_FIFO_FULL at HwDepth
    rxint    \* uart_ctrl & RX_INT

hwVars == <<hpc, wake, rxhw, txhw, rxint>>
uartVars == <<vars, hwVars>>

UartInit ==
    /\ Init
    /\ hpc = "sleep" /\ wake = FALSE
    /\ rxhw = <<>> /\ txhw = 0 /\ rxint = TRUE

---------------------------------------------------------------------------
(* The device                                                              *)

LineByte ==
    /\ Len(rxhw) < HwDepth
    /\ \E c \in Typed : rxhw' = Append(rxhw, c)
    /\ UNCHANGED <<vars, hpc, wake, txhw, rxint>>

LineSends ==
    /\ txhw > 0
    /\ txhw' = txhw - 1
    /\ UNCHANGED <<vars, hpc, wake, rxhw, rxint>>

\* The receive interrupt is level triggered and the handler masks it.
uart_interrupt ==
    /\ rxint /\ rxhw # <<>>
    /\ rxint' = FALSE
    /\ HwInterrupt
    /\ UNCHANGED <<hpc, wake, rxhw, txhw>>

---------------------------------------------------------------------------
(* uart_intThread()                                                        *)

ThreadSleep ==
    /\ hpc = "top" /\ lock = Hw
    /\ tx = 0 /\ rxhw = <<>>
    /\ lock' = Free
    /\ hw_cond' = condWait(hw_cond, Hw)
    /\ hpc' = "sleep"
    /\ UNCHANGED <<rx, tx, flags, rx_waitq, tx_waitq, calls, wake, rxhw, txhw, rxint>>

ThreadWake ==
    /\ hpc = "sleep"
    /\ HwLock
    /\ hpc' = "top"
    /\ UNCHANGED <<wake, rxhw, txhw, rxint>>

ThreadStart ==
    /\ hpc = "top" /\ lock = Hw
    /\ tx > 0 \/ rxhw # <<>>
    /\ hpc' = "rx" /\ wake' = FALSE
    /\ UNCHANGED <<vars, rxhw, txhw, rxint>>

\* wake |= wakehelper
ThreadRx ==
    /\ hpc = "rx" /\ lock = Hw /\ rxhw # <<>>
    /\ \E w \in BOOLEAN : libtty_putchar(Head(rxhw), w) /\ wake' = (wake \/ w)
    /\ rxhw' = Tail(rxhw)
    /\ UNCHANGED <<lock, rx_waitq, tx_waitq, calls, hpc, txhw, rxint>>

ThreadRxDone ==
    /\ hpc = "rx" /\ lock = Hw /\ rxhw = <<>>
    /\ IF wake THEN libtty_wake_reader ELSE UNCHANGED rx_waitq
    /\ hpc' = "tx" /\ wake' = FALSE
    /\ UNCHANGED <<lock, rx, tx, flags, tx_waitq, hw_cond, calls, rxhw, txhw, rxint>>

\* Slips: no txready test; the wakeup is forgotten; the byte is not taken out.
ThreadTxUnready ==
    /\ hpc = "tx" /\ lock = Hw /\ txhw < HwDepth
    /\ tx' = tx - 1 /\ txhw' = txhw + 1
    /\ wake' = TRUE
    /\ UNCHANGED <<lock, rx, flags, rx_waitq, tx_waitq, hw_cond, calls, hpc, rxhw, rxint>>

ThreadTxSilent ==
    /\ hpc = "tx" /\ lock = Hw /\ tx > 0 /\ txhw < HwDepth
    /\ tx' = tx - 1 /\ txhw' = txhw + 1
    /\ UNCHANGED <<lock, rx, flags, rx_waitq, tx_waitq, hw_cond, calls, hpc, wake,
                   rxhw, rxint>>

ThreadTxPeeks ==
    /\ hpc = "tx" /\ lock = Hw /\ tx > 0 /\ txhw < HwDepth
    /\ txhw' = txhw + 1
    /\ wake' = TRUE
    /\ UNCHANGED <<vars, hpc, rxhw, rxint>>

ThreadTx ==
    /\ hpc = "tx" /\ lock = Hw /\ tx > 0 /\ txhw < HwDepth
    /\ tx' = tx - 1 /\ txhw' = txhw + 1
    /\ wake' = TRUE
    /\ UNCHANGED <<lock, rx, flags, rx_waitq, tx_waitq, hw_cond, calls, hpc, rxhw, rxint>>

\* Slip: the receive interrupt stays masked.
ThreadTxDoneMasked ==
    /\ hpc = "tx" /\ lock = Hw /\ (tx = 0 \/ txhw = HwDepth)
    /\ IF wake THEN libtty_wake_writer(tx) ELSE UNCHANGED tx_waitq
    /\ hpc' = "top" /\ wake' = FALSE
    /\ UNCHANGED <<lock, rx, tx, flags, rx_waitq, hw_cond, calls, rxhw, txhw, rxint>>

ThreadTxDone ==
    /\ hpc = "tx" /\ lock = Hw /\ (tx = 0 \/ txhw = HwDepth)
    /\ IF wake THEN libtty_wake_writer(tx) ELSE UNCHANGED tx_waitq
    /\ rxint' = TRUE
    /\ hpc' = "top" /\ wake' = FALSE
    /\ UNCHANGED <<lock, rx, tx, flags, rx_waitq, hw_cond, calls, rxhw, txhw>>

uart_intThread ==
    \/ ThreadSleep \/ ThreadWake \/ ThreadStart
    \/ ThreadRx \/ ThreadRxDone \/ ThreadTx \/ ThreadTxDone

UartNext ==
    \/ Client /\ UNCHANGED hwVars
    \/ uart_intThread
    \/ LineByte \/ LineSends \/ uart_interrupt

\* The thread runs on while it holds the lock and gets it back once woken; the
\* device transmits and raises its interrupt.  Nothing has to be typed.
UartFairness ==
    /\ ClientFairness
    /\ WF_uartVars(ThreadSleep \/ ThreadStart \/ ThreadRx \/ ThreadRxDone
                   \/ ThreadTx \/ ThreadTxDone)
    /\ SF_uartVars(ThreadWake)
    /\ WF_uartVars(LineSends) /\ WF_uartVars(uart_interrupt)

UartSpec == UartInit /\ [][UartNext]_uartVars

FairUartSpec == UartSpec /\ UartFairness

---------------------------------------------------------------------------

\* The driver obeys the contract of the hardware interface: it calls libtty
\* only with the lock held and takes a byte only when there is one.
UsesLibtty == Spec

\* A lone writer that sleeps although Watermark bytes are free will be woken:
\* the driver has bytes left to send, or is about to signal.
NoMissedSpace ==
    \A t \in Writer :
        pc[t] = "writeWait" /\ t \in tx_waitq.waiters /\ TxFree >= Watermark
            => tx > 0 \/ (hpc = "tx" /\ wake)

\* A byte the UART received is not forgotten: as long as one is there, the
\* interrupt is still to come or the thread is awake.
RxServiced == rxhw # <<>> => rxint \/ Hw \notin hw_cond.waiters

\* The processor outruns the line: again and again the thread finds nothing to
\* do and sleeps.  It gives the lock up nowhere else.
ThreadRests == []<>(hpc = "sleep")

\* Without bytes from the line it does: it is not kept busy by a transmit fifo
\* that it cannot empty or an interrupt that it does not serve.
RestsWhenQuiet == hpc # "sleep" ~> hpc = "sleep" \/ rxhw # <<>>

\* No call sleeps for ever: a reader gets the line it waits for, a blocking write
\* is carried out, and libtty_close() lets everybody go.
CallsEnd ==
    LET asleep == {"canonWait", "writeWait"}
    IN ThreadRests => \A t \in Reader \union Writer :
           pc[t] \in asleep /\ (t \in Writer \/ havebreak \/ closing) ~> pc[t] \notin asleep

\* The callback signal_txready, "at least one character ready to be sent"
\* (libtty.h): whoever leaves libtty with characters in the tx fifo has told the
\* driver, whose thread is not asleep then.
TxAnnounced == tx > 0 /\ lock = Free => Hw \notin hw_cond.waiters

===========================================================================
