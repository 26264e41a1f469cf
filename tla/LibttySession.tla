--------------------------- MODULE LibttySession ---------------------------
(***************************************************************************)
(* Controlling terminals: tty->sid and tty->pgrp of several terminals, and *)
(* the functions of src/tty/libtty/libtty.c that keep them in step with    *)
(* the kernel's sessions.  Each terminal has a lock of its own, so one     *)
(* call at a time is in progress on it; the kernel knows no such lock:     *)
(* processes exit, and other terminals are served, between any two of the  *)
(* system calls a function makes.  One step here is one system call with   *)
(* what libtty does after it.                                              *)
(*                                                                         *)
(* The kernel (external) is modelled from these calls.  It records for a   *)
(* session only that it has a controlling terminal, and forgets that when  *)
(* the leader exits.                                                       *)
(***************************************************************************)
EXTENDS Integers, FiniteSets

CONSTANTS
    Tty, Pid,
    First,  \* the process there is at boot, leader of its session
    None,   \* -1
    Reuse   \* may the pid of a reaped process be given to a new one?

ASSUME SessionAssumption == First \in Pid /\ None \notin Pid /\ Reuse \in BOOLEAN

VARIABLES
    own,    \* tty->sid
    fg,     \* tty->pgrp
    call,   \* the call in progress on each terminal
    proc,   \* "unborn", "alive", "zombie" or "reaped"
    sid, pgid,
    ctty    \* sessions that the kernel has marked as having a terminal

ttys == <<own, fg, call>>
kernel == <<proc, sid, pgid, ctty>>
svars == <<ttys, kernel>>

Op == {"acquire", "query", "spgrp", "notty"}

Idle == [at |-> "idle", op |-> "query", pid |-> None, sid |-> None, pgrp |-> None]

SessionInit ==
    /\ own = [t \in Tty |-> None] /\ fg = [t \in Tty |-> None]
    /\ call = [t \in Tty |-> Idle]
    /\ proc = [p \in Pid |-> IF p = First THEN "alive" ELSE "unborn"]
    /\ sid = [p \in Pid |-> p] /\ pgid = [p \in Pid |-> p]
    /\ ctty = {}

Exists(p) == proc[p] \in {"alive", "zombie"}

\* procExists(s, 0, s, PROCQ_ALIVE)
LeaderAlive(s) == proc[s] = "alive" /\ sid[s] = s

Done(t) == call' = [call EXCEPT ![t] = Idle]

---------------------------------------------------------------------------
(* libtty                                                                  *)

\* p opens the terminal without O_NOCTTY or calls TIOCSCTTY ("acquire"),
\* TIOCGPGRP or TIOCGSID ("query"), TIOCSPGRP or TIOCNOTTY.
Call(t) ==
    /\ call[t].at = "idle"
    /\ \E p \in Pid, op \in Op :
           /\ proc[p] = "alive"
           /\ call' = [call EXCEPT ![t] = [Idle EXCEPT !.at = "getsid", !.op = op, !.pid = p]]
    /\ UNCHANGED <<own, fg, kernel>>

Getsid(t) ==
    /\ call[t].at = "getsid"
    /\ \/ /\ Exists(call[t].pid)
          /\ call' = [call EXCEPT ![t].at = "check", ![t].sid = sid[call[t].pid]]
       \/ proc[call[t].pid] # "alive" /\ Done(t)
    /\ UNCHANGED <<own, fg, kernel>>

\* Slip: a stranger's check takes the terminal away.
RevalidatedAway(t) == IF own[t] # call[t].sid THEN None ELSE own[t]

\* The owner that the rest of _libtty_sessionCheck() finds: a session whose
\* leader is gone has lost the terminal.
Revalidated(t) == IF own[t] # None /\ ~LeaderAlive(own[t]) THEN None ELSE own[t]

\* _libtty_sessionCheck(), from procExists() on, and what its callers do next.
\* TIOCNOTTY goes on to _libtty_sessionRelease().
Check(t) ==
    LET owner == Revalidated(t)
        c == call[t]
        may == owner = c.sid \/ (owner = None /\ c.op = "acquire")
        leader == c.sid = c.pid
        drops == c.op = "notty" /\ may /\ leader
    IN /\ c.at = "check"
       /\ own' = [own EXCEPT ![t] = IF drops THEN None ELSE owner]
       /\ fg' = IF drops \/ owner # own[t] THEN [fg EXCEPT ![t] = None] ELSE fg
       /\ \/ drops /\ call' = [call EXCEPT ![t].at = "release"]
          \/ /\ may /\ leader /\ c.op = "acquire" /\ owner = None
             /\ call' = [call EXCEPT ![t].at = "getpgid"]
          \/ may /\ c.op = "spgrp" /\ call' = [call EXCEPT ![t].at = "lookup"]
          \/ (may /\ c.op # "query" => ~leader /\ c.op # "spgrp") /\ Done(t)
          \/ may /\ leader /\ c.op = "acquire" /\ owner = c.sid /\ Done(t)
       /\ UNCHANGED kernel

\* _libtty_sessionAcquire() after the check.
Getpgid(t) ==
    /\ call[t].at = "getpgid"
    /\ \/ /\ Exists(call[t].pid)
          /\ call' = [call EXCEPT ![t].at = "sessionCtty", ![t].pgrp = pgid[call[t].pid]]
       \/ proc[call[t].pid] # "alive" /\ Done(t)
    /\ UNCHANGED <<own, fg, kernel>>

\* Slip: the result of sessionCtty(sid, 1) is not looked at.
SessionCttyAnyway(t) ==
    LET s == call[t].sid
    IN /\ call[t].at = "sessionCtty"
       /\ ctty' = IF Exists(s) /\ sid[s] = s THEN ctty \union {s} ELSE ctty
       /\ own' = [own EXCEPT ![t] = IF own[t] = None THEN s ELSE own[t]]
       /\ fg' = [fg EXCEPT ![t] = call[t].pgrp]
       /\ Done(t)
       /\ UNCHANGED <<proc, sid, pgid>>

\* sessionCtty(sid, 1) fails for a session that has a terminal, and may fail
\* for one whose leader has exited.
SessionCtty(t) ==
    LET s == call[t].sid
    IN /\ call[t].at = "sessionCtty"
       /\ \/ /\ s \notin ctty /\ Exists(s) /\ sid[s] = s
             /\ ctty' = ctty \union {s}
             /\ own' = [own EXCEPT ![t] = IF own[t] = None THEN s ELSE own[t]]
             /\ fg' = [fg EXCEPT ![t] = call[t].pgrp]
          \/ /\ s \in ctty \/ ~LeaderAlive(s)
             /\ UNCHANGED <<own, fg, ctty>>
       /\ Done(t)
       /\ UNCHANGED <<proc, sid, pgid>>

\* TIOCSPGRP: procExists(0, g, sid, 0), which counts zombies.
Spgrp(t) ==
    /\ call[t].at = "lookup"
    /\ \E g \in Pid :
           IF \E q \in Pid : Exists(q) /\ pgid[q] = g /\ sid[q] = call[t].sid
           THEN fg' = [fg EXCEPT ![t] = g]
           ELSE UNCHANGED fg
    /\ Done(t)
    /\ UNCHANGED <<own, kernel>>

\* Slip: tty->sid is read after it was cleared.
ReleaseCleared(t) ==
    /\ call[t].at = "release"
    /\ ctty' = ctty \ {own[t]}
    /\ Done(t)
    /\ UNCHANGED <<own, fg, proc, sid, pgid>>

\* sessionCtty(sid, 0)
Release(t) ==
    /\ call[t].at = "release"
    /\ ctty' = ctty \ {call[t].sid}
    /\ Done(t)
    /\ UNCHANGED <<own, fg, proc, sid, pgid>>

\* _libtty_hangup(), offered to drivers.
Hangup(t) ==
    /\ call[t].at = "idle"
    /\ own' = [own EXCEPT ![t] = None] /\ fg' = [fg EXCEPT ![t] = None]
    /\ call' = IF own[t] = None THEN call
               ELSE [call EXCEPT ![t] = [Idle EXCEPT !.at = "release", !.sid = own[t]]]
    /\ UNCHANGED kernel

---------------------------------------------------------------------------
(* The kernel                                                              *)

\* A pid is not given out while a session or a group bears it.
Fork(p, c) ==
    /\ proc[p] = "alive"
    /\ proc[c] = "unborn" \/ (Reuse /\ proc[c] = "reaped")
    /\ \A q \in Pid : Exists(q) => sid[q] # c /\ pgid[q] # c
    /\ proc' = [proc EXCEPT ![c] = "alive"]
    /\ sid' = [sid EXCEPT ![c] = sid[p]] /\ pgid' = [pgid EXCEPT ![c] = pgid[p]]
    /\ UNCHANGED ctty

Setsid(p) ==
    /\ proc[p] = "alive"
    /\ \A q \in Pid : Exists(q) => pgid[q] # p
    /\ sid' = [sid EXCEPT ![p] = p] /\ pgid' = [pgid EXCEPT ![p] = p]
    /\ ctty' = ctty \ {p}
    /\ UNCHANGED proc

Setpgid(p, g) ==
    /\ proc[p] = "alive" /\ sid[p] # p
    /\ g = p \/ \E q \in Pid : Exists(q) /\ pgid[q] = g /\ sid[q] = sid[p]
    /\ pgid' = [pgid EXCEPT ![p] = g]
    /\ UNCHANGED <<proc, sid, ctty>>

Exit(p) ==
    /\ proc[p] = "alive"
    /\ proc' = [proc EXCEPT ![p] = "zombie"]
    /\ ctty' = IF sid[p] = p THEN ctty \ {p} ELSE ctty
    /\ UNCHANGED <<sid, pgid>>

Reap(p) ==
    /\ proc[p] = "zombie"
    /\ proc' = [proc EXCEPT ![p] = "reaped"]
    /\ UNCHANGED <<sid, pgid, ctty>>

Kernel ==
    /\ \E p \in Pid :
           \/ Setsid(p) \/ Exit(p) \/ Reap(p)
           \/ \E q \in Pid : Fork(p, q) \/ Setpgid(p, q)
    /\ UNCHANGED ttys

SessionNext ==
    \/ \E t \in Tty :
           \/ Call(t) \/ Getsid(t) \/ Check(t) \/ Getpgid(t) \/ SessionCtty(t)
           \/ Spgrp(t) \/ Release(t) \/ Hangup(t)
    \/ Kernel

SessionSpec == SessionInit /\ [][SessionNext]_svars

---------------------------------------------------------------------------
(* Properties                                                              *)

SessionTypeOK ==
    /\ own \in [Tty -> Pid \union {None}] /\ fg \in [Tty -> Pid \union {None}]
    /\ call \in [Tty -> [at : {"idle", "getsid", "check", "getpgid", "sessionCtty",
                               "lookup", "release"},
                         op : Op, pid : Pid \union {None},
                         sid : Pid \union {None}, pgrp : Pid \union {None}]]
    /\ proc \in [Pid -> {"unborn", "alive", "zombie", "reaped"}]
    /\ sid \in [Pid -> Pid] /\ pgid \in [Pid -> Pid]
    /\ ctty \subseteq Pid

\* The comment in _libtty_sessionAcquire(), "a session has at most one
\* controlling terminal", however opens of different terminals race.
AtMostOneCtty ==
    \A t, u \in Tty : own[t] = own[u] /\ own[t] # None /\ LeaderAlive(own[t]) => t = u

\* The kernel's mark is never left behind: a live session that has it owns a
\* terminal or is just giving one up, so it can get another one.
MarkHasTty ==
    \A s \in ctty : LeaderAlive(s) =>
        \E t \in Tty : own[t] = s \/ (call[t].at = "release" /\ call[t].sid = s)

\* A session keeps its terminal until its leader gives it up, the terminal is
\* hung up, or the leader has exited.
TakenOnlyFromDead ==
    [][\A t \in Tty :
           own[t] # None /\ own'[t] # own[t] /\ LeaderAlive(own[t])
               => /\ own'[t] = None
                  /\ \/ call[t].op = "notty" /\ call[t].pid = own[t]
                     \/ call[t].at = "idle"]_svars

============================================================================
