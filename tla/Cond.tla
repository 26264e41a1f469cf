------------------------------- MODULE Cond -------------------------------
(***************************************************************************)
(* The kernel's condition variables as this repository's servers use them  *)
(* through <sys/threads.h> (external).  A signal wakes one sleeper, and    *)
(* which one is not the caller's choice; a signal that finds nobody asleep *)
(* is remembered and lets the next condWait() return at once (the "sticky  *)
(* cond" of imx6ull-uart.c).  A broadcast wakes every sleeper and leaves   *)
(* no mark.                                                                *)
(***************************************************************************)

condCreate == [waiters |-> {}, pending |-> FALSE]

Conds(T) == [waiters : SUBSET T, pending : BOOLEAN]

\* The possible outcomes of condSignal().
condSignal(q) ==
    IF q.waiters = {}
    THEN {[q EXCEPT !.pending = TRUE]}
    ELSE {[q EXCEPT !.waiters = @ \ {t}] : t \in q.waiters}

condBroadcast(q) == [q EXCEPT !.waiters = {}]

\* condWait(), entered by t: it sleeps unless a signal is pending.
condWait(q, t) ==
    IF q.pending THEN [q EXCEPT !.pending = FALSE]
                 ELSE [q EXCEPT !.waiters = @ \union {t}]

\* The timeout of condWait() expires for a thread nobody has woken.
condTimeout(q, t) == [q EXCEPT !.waiters = @ \ {t}]

===========================================================================
