---------------------------- MODULE MCGrlibSides ----------------------------
(* The two sides of the driver, one at a time: one client reads lines from  *)
(* the UART, or one writes to it and switches OPOST and ECHO.  Beside them   *)
(* the two rings that drivers use, each by itself: the byte ring, and the    *)
(* lock-free ring of another UART.  The side is chosen at the start.         *)
EXTENDS MCGrlibUart, FifoRing, LfFifo

VARIABLE side

ASSUME PowerOfTwo == \E k \in 0 .. 31 : Size = 2 ^ k

sidesVars == <<uartVars, f, lfVars, side>>

SidesInit ==
    /\ UartInit /\ LfInit
    /\ \/ side \in {"read", "write", "lf"} /\ f = rx
       \/ side = "ring" /\ RingInit

Kept ==
    \/ /\ side = "read"
       /\ term' = DefaultTerm /\ \A t \in Writer : pc'[t] = "idle"
    \/ /\ side = "write"
       /\ term' \in TxModes /\ rxhw' = <<>> /\ \A t \in Reader : pc'[t] = "idle"

SidesNext ==
    /\ UNCHANGED side
    /\ \/ UartNext /\ Kept /\ UNCHANGED <<f, lfVars>>
       \/ side = "ring" /\ RingNext /\ UNCHANGED <<uartVars, lfVars>>
       \/ side = "lf" /\ LfStep /\ UNCHANGED <<uartVars, f>>

\* The fairness of the driver, where the driver is the subject.
SidesSpec ==
    /\ SidesInit /\ [][SidesNext]_sidesVars
    /\ side \in {"read", "write"} => UartFairness

=============================================================================
