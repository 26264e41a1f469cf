--------------------------- MODULE MCLibttySides ---------------------------
(* Callers of libtty above the most general driver, one side at a time: a   *)
(* reader of lines while TCSETS changes what a line is, raw readers that    *)
(* share the rx ring, or a writer and a TCDRAIN that share the tx ring.     *)
(* The side is chosen at the start; none types more than it needs, and the  *)
(* driver's own condition, which only tells it when to look, stays out of   *)
(* the first two.                                                           *)
EXTENDS MCLibtty, TLC

VARIABLE side

sidesVars == <<vars, side>>

SidesInit == Init /\ side \in {"lines", "raw", "tx"}

Idle(S) == \A t \in S : pc'[t] = "idle"

Kept ==
    \/ /\ side = "lines" /\ term' \in LineModes /\ Idle(Writer \union Ctl)
       /\ \A t, u \in Reader : Idle({t}) \/ Idle({u}) \/ t = u
       /\ \A t \in Reader : arg'[t].size \in {0, 2}
       /\ \A i \in Slot : rx'.data[i] # "INTR"
       /\ hw_cond' = hw_cond
    \/ /\ side = "raw" /\ term' \in RawModes /\ Idle(Writer \union Ctl)
       /\ \A t \in Reader : arg'[t].size # 2
       /\ rx'.data = rx.data /\ ~literal' /\ hw_cond' = hw_cond
    \/ /\ side = "tx" /\ term' \in TxModes /\ Idle(Reader)
       /\ fifo_is_empty(rx') /\ ~literal'

SidesNext == Next /\ UNCHANGED side /\ Kept

SidesSpec == SidesInit /\ [][SidesNext]_sidesVars

Readers == Permutations(Reader)
SideModes == LineModes \union RawModes \union TxModes

============================================================================
