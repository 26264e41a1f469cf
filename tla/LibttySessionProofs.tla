------------------------ MODULE LibttySessionProofs ------------------------
(***************************************************************************)
(* Why a session has at most one controlling terminal, for any number of   *)
(* processes and terminals, as long as pids are not reused.                *)
(*                                                                         *)
(* The argument: a terminal owned by a live session leader has the mark in *)
(* the kernel (OwnerMarked), and so has one that is being given up, whose  *)
(* session owns nothing else (Releasing).  sessionCtty() refuses a marked  *)
(* session, so a second terminal cannot be claimed.  A dead leader cannot  *)
(* come back: what a terminal remembers stays the pid of a process that    *)
(* was born a leader (Leaders), and a leader stays one (GroupLeader).      *)
(***************************************************************************)
EXTENDS LibttySession, TLAPS

CallArgs ==
    \A t \in Tty :
        /\ call[t].at \notin {"idle", "getsid"} => call[t].sid \in Pid
        /\ call[t].at \notin {"idle", "release"} => call[t].pid \in Pid
        /\ call[t].at \in {"getpgid", "sessionCtty"} => own[t] = None

WasLeader(s) == s \in Pid /\ proc[s] # "unborn" /\ sid[s] = s

Leaders ==
    \A t \in Tty :
        /\ own[t] # None => WasLeader(own[t])
        /\ call[t].at = "release" => WasLeader(call[t].sid)

GroupLeader == \A p \in Pid : Exists(p) /\ sid[p] = p => pgid[p] = p

OwnerMarked == \A t \in Tty : own[t] # None /\ LeaderAlive(own[t]) => own[t] \in ctty

Releasing ==
    \A t \in Tty :
        call[t].at = "release" /\ LeaderAlive(call[t].sid) =>
            /\ call[t].sid \in ctty
            /\ \A u \in Tty : own[u] # call[t].sid
            /\ \A u \in Tty :
                   call[u].at = "release" /\ call[u].sid = call[t].sid => u = t

SessionInv ==
    /\ SessionTypeOK /\ CallArgs /\ Leaders /\ GroupLeader
    /\ OwnerMarked /\ Releasing /\ AtMostOneCtty /\ MarkHasTty

---------------------------------------------------------------------------

\* At boot no terminal has an owner and no session has the kernel's mark.
LEMMA InitHolds == SessionInit => SessionInv
BY SessionAssumption
   DEF SessionInit, SessionInv, SessionTypeOK, CallArgs, Leaders, GroupLeader, WasLeader,
       OwnerMarked, Releasing, AtMostOneCtty, MarkHasTty, LeaderAlive, Exists, Idle, Op

\* A step of libtty that marks no session and starts no release keeps the
\* invariant, and so does taking the terminal away from a dead leader.
LEMMA QuietStep ==
    ASSUME SessionInv, NEW t \in Tty, UNCHANGED kernel,
           NEW o \in {own[t], None}, o # own[t] => ~LeaderAlive(own[t]),
           own' = [own EXCEPT ![t] = o],
           fg' \in [Tty -> Pid \union {None}],
           NEW c \in [at : {"idle", "getsid", "check", "getpgid", "sessionCtty", "lookup"},
                      op : Op, pid : Pid \union {None},
                      sid : Pid \union {None}, pgrp : Pid \union {None}],
           call' = [call EXCEPT ![t] = c], call[t].at # "release",
           c.at \notin {"idle", "getsid"} => c.sid \in Pid,
           c.at # "idle" => c.pid \in Pid,
           c.at \in {"getpgid", "sessionCtty"} => o = None
    PROVE  SessionInv'
<1>1. \A u \in Tty : call'[u] = IF u = t THEN c ELSE call[u]
  BY DEF SessionInv, SessionTypeOK
<1>2. \A u \in Tty : own'[u] = IF u = t THEN o ELSE own[u]
  BY DEF SessionInv, SessionTypeOK
<1>3. SessionTypeOK'
  BY DEF SessionInv, SessionTypeOK, kernel
<1>4. CallArgs'
  BY <1>1, <1>2 DEF SessionInv, CallArgs
<1>5. Leaders'
  BY <1>1, <1>2 DEF SessionInv, Leaders, WasLeader, kernel
<1>6. GroupLeader' /\ OwnerMarked' /\ AtMostOneCtty'
  BY <1>2 DEF SessionInv, GroupLeader, OwnerMarked, AtMostOneCtty, LeaderAlive, Exists, kernel
<1>7. Releasing'
  <2>1. \A v \in Tty : call[v].at = "release" => call[v].sid # None
    BY SessionAssumption DEF SessionInv, CallArgs
  <2> QED BY <1>1, <1>2, <2>1 DEF SessionInv, Releasing, LeaderAlive, kernel
<1>8. MarkHasTty'
  BY <1>1, <1>2 DEF SessionInv, MarkHasTty, LeaderAlive, kernel
<1> QED BY <1>3, <1>4, <1>5, <1>6, <1>7, <1>8 DEF SessionInv

\* Giving a terminal up: its owner, a leader dead or alive, is forgotten; the
\* kernel is still to be told.
LEMMA StartRelease ==
    ASSUME SessionInv, NEW t \in Tty, own[t] # None, UNCHANGED kernel,
           own' = [own EXCEPT ![t] = None],
           fg' \in [Tty -> Pid \union {None}],
           NEW c \in [at : {"release"}, op : Op, pid : Pid \union {None},
                      sid : {own[t]}, pgrp : Pid \union {None}],
           call' = [call EXCEPT ![t] = c], call[t].at # "release"
    PROVE  SessionInv'
<1>1. \A u \in Tty : call'[u] = IF u = t THEN c ELSE call[u]
  BY DEF SessionInv, SessionTypeOK
<1>2. \A u \in Tty : own'[u] = IF u = t THEN None ELSE own[u]
  BY DEF SessionInv, SessionTypeOK
<1>3. WasLeader(own[t]) /\ own[t] \in Pid
  BY DEF SessionInv, Leaders, WasLeader
<1>4. SessionTypeOK'
  BY <1>3 DEF SessionInv, SessionTypeOK, kernel
<1>5. CallArgs'
  BY <1>1, <1>2, <1>3 DEF SessionInv, CallArgs
<1>6. Leaders'
  BY <1>1, <1>2, <1>3 DEF SessionInv, Leaders, WasLeader, kernel
<1>7. GroupLeader' /\ OwnerMarked' /\ AtMostOneCtty'
  BY <1>2 DEF SessionInv, GroupLeader, OwnerMarked, AtMostOneCtty, LeaderAlive, Exists, kernel
<1>8. Releasing'
  <2> SUFFICES ASSUME NEW v \in Tty, call'[v].at = "release", LeaderAlive(call[v].sid)'
               PROVE  /\ call'[v].sid \in ctty'
                      /\ \A u \in Tty : own'[u] # call'[v].sid
                      /\ \A u \in Tty :
                             call'[u].at = "release" /\ call'[u].sid = call'[v].sid => u = v
    BY DEF Releasing
  <2>1. CASE v = t
    <3>1. call'[v].sid = own[t] /\ LeaderAlive(own[t])
      BY <1>1, <2>1 DEF LeaderAlive, kernel
    <3>2. own[t] \in ctty
      BY <3>1 DEF SessionInv, OwnerMarked
    <3>3. \A u \in Tty : own'[u] # own[t]
      BY <1>2, <3>1, SessionAssumption DEF SessionInv, AtMostOneCtty
    <3>4. \A u \in Tty : u # t => ~(call[u].at = "release" /\ call[u].sid = own[t])
      BY <3>1 DEF SessionInv, Releasing
    <3> QED BY <1>1, <2>1, <3>1, <3>2, <3>3, <3>4 DEF kernel
  <2>2. CASE v # t
    <3>1. call'[v] = call[v] /\ call[v].at = "release" /\ LeaderAlive(call[v].sid)
      BY <1>1, <2>2 DEF LeaderAlive, kernel
    <3>2. call[v].sid \in ctty /\ (\A u \in Tty : own[u] # call[v].sid)
          /\ (\A u \in Tty : call[u].at = "release" /\ call[u].sid = call[v].sid => u = v)
      BY <3>1 DEF SessionInv, Releasing
    <3>3. call[v].sid # None
      BY <3>1, SessionAssumption DEF SessionInv, CallArgs
    <3> QED BY <1>1, <1>2, <3>1, <3>2, <3>3 DEF kernel
  <2> QED BY <2>1, <2>2
<1>9. MarkHasTty'
  <2> SUFFICES ASSUME NEW s \in ctty, LeaderAlive(s)
               PROVE  \E u \in Tty : own'[u] = s \/ (call'[u].at = "release" /\ call'[u].sid = s)
    BY DEF MarkHasTty, LeaderAlive, kernel
  <2>1. PICK u \in Tty : own[u] = s \/ (call[u].at = "release" /\ call[u].sid = s)
    BY DEF SessionInv, MarkHasTty
  <2> QED BY <1>1, <1>2, <2>1
<1> QED BY <1>4, <1>5, <1>6, <1>7, <1>8, <1>9 DEF SessionInv

\* _libtty_sessionAcquire() claims only for a session without a mark.
LEMMA Claiming ==
    ASSUME SessionInv, NEW t \in Tty, SessionCtty(t)
    PROVE  SessionInv'
<1> DEFINE s == call[t].sid
<1>1. s \in Pid /\ own[t] = None /\ call[t].at # "release" /\ call[t].pgrp \in Pid \union {None}
  BY DEF SessionInv, SessionTypeOK, CallArgs, SessionCtty
<1>2. Idle \in [at : {"idle"}, op : Op, pid : Pid \union {None},
                sid : Pid \union {None}, pgrp : Pid \union {None}]
  BY DEF Idle, Op
<1>3. CASE UNCHANGED <<own, fg, ctty>>
  <2>1. own' = [own EXCEPT ![t] = own[t]] /\ fg' \in [Tty -> Pid \union {None}]
    BY <1>3 DEF SessionInv, SessionTypeOK
  <2> QED BY <1>1, <1>2, <1>3, <2>1, QuietStep DEF SessionCtty, Done, Idle, kernel
<1>4. CASE /\ s \notin ctty /\ Exists(s) /\ sid[s] = s
           /\ ctty' = ctty \union {s}
           /\ own' = [own EXCEPT ![t] = IF own[t] = None THEN s ELSE own[t]]
           /\ fg' = [fg EXCEPT ![t] = call[t].pgrp]
  <2>1. \A u \in Tty : own'[u] = IF u = t THEN s ELSE own[u]
    BY <1>1, <1>4 DEF SessionInv, SessionTypeOK
  <2>2. \A u \in Tty : call'[u] = IF u = t THEN Idle ELSE call[u]
    BY DEF SessionInv, SessionTypeOK, SessionCtty, Done
  <2>3. UNCHANGED <<proc, sid, pgid>>
    BY DEF SessionCtty
  <2>4. \A p \in Pid : LeaderAlive(p)' <=> LeaderAlive(p)
    BY <2>3 DEF LeaderAlive
  <2>5. SessionTypeOK'
    BY <1>1, <1>2, <1>4, <2>3 DEF SessionInv, SessionTypeOK, SessionCtty, Done
  <2>6. CallArgs'
    BY <2>1, <2>2 DEF SessionInv, CallArgs, Idle
  <2>7. WasLeader(s)
    BY <1>1, <1>4 DEF WasLeader, Exists
  <2>8. Leaders'
    BY <2>1, <2>2, <2>3, <2>7 DEF SessionInv, Leaders, WasLeader, Idle
  <2>9. GroupLeader'
    BY <2>3 DEF SessionInv, GroupLeader, Exists
  <2>10. OwnerMarked'
    <3> SUFFICES ASSUME NEW u \in Tty, own'[u] # None, LeaderAlive(own[u])'
                 PROVE  own'[u] \in ctty'
      BY DEF OwnerMarked
    <3>1. CASE u = t
      BY <1>4, <2>1, <3>1
    <3>2. CASE u # t
      BY <1>4, <2>1, <2>3, <3>2 DEF SessionInv, OwnerMarked, LeaderAlive
    <3> QED BY <3>1, <3>2
  <2>11. \A u \in Tty : LeaderAlive(s) => own[u] # s
    BY <1>1, <1>4, SessionAssumption DEF SessionInv, OwnerMarked
  <2>12. \A u \in Tty : LeaderAlive(s) => ~(call[u].at = "release" /\ call[u].sid = s)
    BY <1>4 DEF SessionInv, Releasing
  <2>13. AtMostOneCtty'
    BY <2>1, <2>3, <2>11 DEF SessionInv, AtMostOneCtty, LeaderAlive
  <2>14. Releasing'
    <3> SUFFICES ASSUME NEW v \in Tty, call'[v].at = "release", LeaderAlive(call[v].sid)'
                 PROVE  /\ call'[v].sid \in ctty'
                        /\ \A u \in Tty : own'[u] # call'[v].sid
                        /\ \A u \in Tty :
                               call'[u].at = "release" /\ call'[u].sid = call'[v].sid => u = v
      BY DEF Releasing
    <3>1. v # t /\ call'[v] = call[v] /\ LeaderAlive(call[v].sid)
      BY <2>2, <2>3 DEF Idle, LeaderAlive
    <3>2. call[v].sid # s
      BY <2>12, <3>1
    <3> QED BY <1>4, <2>1, <2>2, <3>1, <3>2 DEF SessionInv, Releasing, Idle
  <2>15. MarkHasTty'
    <3> SUFFICES ASSUME NEW m \in ctty', LeaderAlive(m)'
                 PROVE  \E u \in Tty : own'[u] = m \/ (call'[u].at = "release" /\ call'[u].sid = m)
      BY DEF MarkHasTty
    <3>1. CASE m = s
      BY <2>1, <3>1
    <3>2. CASE m # s
      <4>1. m \in ctty /\ LeaderAlive(m)
        BY <1>4, <2>3, <3>2 DEF LeaderAlive
      <4>2. PICK u \in Tty : own[u] = m \/ (call[u].at = "release" /\ call[u].sid = m)
        BY <4>1 DEF SessionInv, MarkHasTty
      <4>3. m # None
        BY <4>1, SessionAssumption DEF SessionInv, SessionTypeOK
      <4> QED BY <1>1, <2>1, <2>2, <4>2, <4>3
    <3> QED BY <3>1, <3>2
  <2> QED BY <2>5, <2>6, <2>8, <2>9, <2>10, <2>13, <2>14, <2>15 DEF SessionInv
<1> QED BY <1>3, <1>4 DEF SessionCtty

\* What the steps up to the decision of _libtty_sessionCheck() do.
LEMMA Asking ==
    ASSUME SessionInv, NEW t \in Tty, Call(t) \/ Getsid(t) \/ Getpgid(t) \/ Spgrp(t)
    PROVE  SessionInv'
<1> DEFINE C == [at : {"idle", "getsid", "check", "getpgid", "sessionCtty", "lookup"},
                 op : Op, pid : Pid \union {None},
                 sid : Pid \union {None}, pgrp : Pid \union {None}]
<1>1. own' = [own EXCEPT ![t] = own[t]] /\ UNCHANGED kernel
  BY DEF SessionInv, SessionTypeOK, Call, Getsid, Getpgid, Spgrp
<1>2. call[t] \in [at : {"idle", "getsid", "check", "getpgid", "sessionCtty", "lookup", "release"},
                   op : Op, pid : Pid \union {None},
                   sid : Pid \union {None}, pgrp : Pid \union {None}]
  BY DEF SessionInv, SessionTypeOK
<1>3. fg' \in [Tty -> Pid \union {None}]
  BY DEF SessionInv, SessionTypeOK, Call, Getsid, Getpgid, Spgrp
<1>4. Idle \in C /\ Idle.at = "idle"
  BY DEF Idle, Op
<1>5. CASE Done(t)
  BY <1>1, <1>3, <1>4, <1>5, QuietStep DEF Done, Call, Getsid, Getpgid, Spgrp
<1>6. CASE Call(t)
  <2>1. PICK p \in Pid, op \in Op :
            call' = [call EXCEPT ![t] = [Idle EXCEPT !.at = "getsid", !.op = op, !.pid = p]]
    BY <1>6 DEF Call
  <2> DEFINE c == [Idle EXCEPT !.at = "getsid", !.op = op, !.pid = p]
  <2>2. c \in C /\ c.at = "getsid" /\ c.pid \in Pid
    BY DEF Idle
  <2>3. call' = [call EXCEPT ![t] = c]
    BY <2>1
  <2> HIDE DEF c
  <2> QED BY <1>1, <1>3, <1>6, <2>2, <2>3, QuietStep DEF Call
<1>7. CASE Getsid(t) /\ ~Done(t)
  <2> DEFINE c == [call[t] EXCEPT !.at = "check", !.sid = sid[call[t].pid]]
  <2>1. call[t].pid \in Pid
    BY <1>7 DEF SessionInv, CallArgs, Getsid
  <2>2. c \in C /\ c.at = "check" /\ c.sid \in Pid /\ c.pid \in Pid
    BY <1>2, <2>1 DEF SessionInv, SessionTypeOK
  <2>3. call' = [call EXCEPT ![t] = c]
    BY <1>7 DEF Getsid
  <2> HIDE DEF c
  <2> QED BY <1>1, <1>3, <1>7, <2>2, <2>3, QuietStep DEF Getsid
<1>8. CASE Getpgid(t) /\ ~Done(t)
  <2> DEFINE c == [call[t] EXCEPT !.at = "sessionCtty", !.pgrp = pgid[call[t].pid]]
  <2>1. call[t].pid \in Pid /\ call[t].sid \in Pid /\ own[t] = None
    BY <1>8 DEF SessionInv, CallArgs, Getpgid
  <2>2. c \in C /\ c.at = "sessionCtty" /\ c.sid \in Pid /\ c.pid \in Pid
    BY <1>2, <2>1 DEF SessionInv, SessionTypeOK
  <2>3. call' = [call EXCEPT ![t] = c]
    BY <1>8 DEF Getpgid
  <2> HIDE DEF c
  <2> QED BY <1>1, <1>3, <1>8, <2>1, <2>2, <2>3, QuietStep DEF Getpgid
<1> QED BY <1>5, <1>6, <1>7, <1>8 DEF Spgrp

\* The decision itself.
LEMMA Checking ==
    ASSUME SessionInv, NEW t \in Tty, Check(t)
    PROVE  SessionInv'
<1> DEFINE C == [at : {"idle", "getsid", "check", "getpgid", "sessionCtty", "lookup"},
                 op : Op, pid : Pid \union {None},
                 sid : Pid \union {None}, pgrp : Pid \union {None}]
           owner == Revalidated(t)
           drops == /\ call[t].op = "notty" /\ call[t].sid = call[t].pid
                    /\ owner = call[t].sid \/ (owner = None /\ call[t].op = "acquire")
<1>1. call[t] \in [at : {"check"}, op : Op, pid : Pid, sid : Pid, pgrp : Pid \union {None}]
  BY DEF SessionInv, SessionTypeOK, CallArgs, Check
<1>2. /\ UNCHANGED kernel /\ call[t].at = "check"
      /\ own' = [own EXCEPT ![t] = IF drops THEN None ELSE owner]
      /\ fg' \in [Tty -> Pid \union {None}]
  BY DEF SessionInv, SessionTypeOK, Check
<1>3. owner \in {own[t], None} /\ (owner # own[t] => ~LeaderAlive(own[t]))
  BY DEF Revalidated
<1>4. CASE drops
  <2> DEFINE c == [call[t] EXCEPT !.at = "release"]
  <2>1. own[t] = call[t].sid /\ own[t] # None
    BY <1>1, <1>3, <1>4, SessionAssumption
  <2>2. call' = [call EXCEPT ![t] = c]
    BY <1>4, <1>1, <2>1 DEF Check, Done
  <2>3. c \in [at : {"release"}, op : Op, pid : Pid \union {None},
               sid : {own[t]}, pgrp : Pid \union {None}]
    BY <1>1, <2>1
  <2> HIDE DEF c
  <2> QED BY <1>2, <1>4, <2>1, <2>2, <2>3, StartRelease
<1>5. CASE ~drops
  <2>1. own' = [own EXCEPT ![t] = owner]
    BY <1>2, <1>5
  <2>2. \E c \in C : /\ call' = [call EXCEPT ![t] = c]
                     /\ c.at \notin {"idle", "getsid"} => c.sid \in Pid
                     /\ c.at # "idle" => c.pid \in Pid
                     /\ c.at \in {"getpgid", "sessionCtty"} => owner = None
    <3>1. Idle \in C /\ Idle.at = "idle"
      BY DEF Idle, Op
    <3>2. [call[t] EXCEPT !.at = "getpgid"] \in C
      BY <1>1
    <3>3. [call[t] EXCEPT !.at = "lookup"] \in C
      BY <1>1
    <3>4. CASE Done(t)
      BY <3>1, <3>4 DEF Done
    <3>5. CASE call' = [call EXCEPT ![t].at = "getpgid"] /\ owner = None
      BY <1>1, <3>2, <3>5
    <3>6. CASE call' = [call EXCEPT ![t].at = "lookup"]
      BY <1>1, <3>3, <3>6
    <3> QED BY <1>5, <3>4, <3>5, <3>6 DEF Check
  <2> HIDE DEF owner, C
  <2>3. PICK c \in C : /\ call' = [call EXCEPT ![t] = c]
                       /\ c.at \notin {"idle", "getsid"} => c.sid \in Pid
                       /\ c.at # "idle" => c.pid \in Pid
                       /\ c.at \in {"getpgid", "sessionCtty"} => owner = None
    BY <2>2
  <2> QED BY <1>2, <1>3, <2>1, <2>3, QuietStep DEF C
<1> QED BY <1>4, <1>5

\* Telling the kernel: the session that is released owns no other terminal.
LEMMA Unmarking ==
    ASSUME SessionInv, NEW t \in Tty, Release(t)
    PROVE  SessionInv'
<1> DEFINE s == call[t].sid
<1>1. s \in Pid /\ call[t].at = "release" /\ ctty' = ctty \ {s}
  BY DEF SessionInv, CallArgs, Release
<1>2. \A u \in Tty : call'[u] = IF u = t THEN Idle ELSE call[u]
  BY DEF SessionInv, SessionTypeOK, Release, Done
<1>3. UNCHANGED <<own, fg, proc, sid, pgid>>
  BY DEF Release
<1>4. SessionTypeOK'
  BY <1>1, <1>3 DEF SessionInv, SessionTypeOK, Release, Done, Idle, Op
<1>5. CallArgs' /\ Leaders'
  BY <1>2, <1>3 DEF SessionInv, CallArgs, Leaders, WasLeader, Idle
<1>6. GroupLeader' /\ AtMostOneCtty'
  BY <1>3 DEF SessionInv, GroupLeader, AtMostOneCtty, LeaderAlive, Exists
<1>7. OwnerMarked'
  <2> SUFFICES ASSUME NEW u \in Tty, own[u] # None, LeaderAlive(own[u])
               PROVE  own[u] \in ctty'
    BY <1>3 DEF OwnerMarked, LeaderAlive
  <2>1. own[u] \in ctty
    BY DEF SessionInv, OwnerMarked
  <2>2. own[u] # s
    BY <1>1 DEF SessionInv, Releasing
  <2> QED BY <1>1, <2>1, <2>2
<1>8. Releasing'
  <2> SUFFICES ASSUME NEW v \in Tty, call'[v].at = "release", LeaderAlive(call[v].sid)'
               PROVE  /\ call'[v].sid \in ctty'
                      /\ \A u \in Tty : own'[u] # call'[v].sid
                      /\ \A u \in Tty :
                             call'[u].at = "release" /\ call'[u].sid = call'[v].sid => u = v
    BY DEF Releasing
  <2>1. v # t /\ call'[v] = call[v] /\ LeaderAlive(call[v].sid)
    BY <1>2, <1>3 DEF Idle, LeaderAlive
  <2>2. call[v].sid # s
    BY <1>1, <2>1 DEF SessionInv, Releasing
  <2> QED BY <1>1, <1>2, <1>3, <2>1, <2>2 DEF SessionInv, Releasing, Idle
<1>9. MarkHasTty'
  <2> SUFFICES ASSUME NEW m \in ctty', LeaderAlive(m)'
               PROVE  \E u \in Tty : own'[u] = m \/ (call'[u].at = "release" /\ call'[u].sid = m)
    BY DEF MarkHasTty
  <2>1. m \in ctty /\ m # s /\ LeaderAlive(m)
    BY <1>1, <1>3 DEF LeaderAlive
  <2>2. PICK u \in Tty : own[u] = m \/ (call[u].at = "release" /\ call[u].sid = m)
    BY <2>1 DEF SessionInv, MarkHasTty
  <2> QED BY <1>2, <1>3, <2>1, <2>2
<1> QED BY <1>4, <1>5, <1>6, <1>7, <1>8, <1>9 DEF SessionInv

\* _libtty_hangup() is a release that nobody asked for.
LEMMA HangingUp ==
    ASSUME SessionInv, NEW t \in Tty, Hangup(t)
    PROVE  SessionInv'
<1>1. /\ UNCHANGED kernel /\ call[t].at = "idle"
      /\ own' = [own EXCEPT ![t] = None]
      /\ fg' \in [Tty -> Pid \union {None}]
  BY DEF SessionInv, SessionTypeOK, Hangup
<1>2. call[t] \in [at : {"idle"}, op : Op, pid : Pid \union {None},
                   sid : Pid \union {None}, pgrp : Pid \union {None}]
  BY <1>1 DEF SessionInv, SessionTypeOK
<1>3. CASE own[t] = None
  <2>1. call' = [call EXCEPT ![t] = call[t]]
    BY <1>3 DEF Hangup, SessionInv, SessionTypeOK
  <2> QED BY <1>1, <1>2, <1>3, <2>1, QuietStep
<1>4. CASE own[t] # None
  <2> DEFINE c == [Idle EXCEPT !.at = "release", !.sid = own[t]]
  <2>1. call' = [call EXCEPT ![t] = c]
    BY <1>4 DEF Hangup
  <2>2. c \in [at : {"release"}, op : Op, pid : Pid \union {None},
               sid : {own[t]}, pgrp : Pid \union {None}]
    BY DEF Idle, Op
  <2> HIDE DEF c
  <2> QED BY <1>1, <1>4, <2>1, <2>2, StartRelease
<1> QED BY <1>3, <1>4

\* A step of the kernel brings no leader back that a terminal remembers, and
\* takes the mark only from a session whose leader exits or is new.
LEMMA KernelStep ==
    ASSUME SessionInv, ~Reuse, Kernel
    PROVE  SessionInv'
<1>1. UNCHANGED <<own, fg, call>> /\ SessionTypeOK
  BY DEF Kernel, ttys, SessionInv
<1>2. PICK p \in Pid : \/ Setsid(p) \/ Exit(p) \/ Reap(p)
                       \/ \E q \in Pid : Fork(p, q) \/ Setpgid(p, q)
  BY DEF Kernel
<1>3. SessionTypeOK'
  <2>1. CASE Setsid(p) \/ Exit(p) \/ Reap(p)
    BY <1>1, <2>1 DEF SessionTypeOK, Setsid, Exit, Reap
  <2>2. ASSUME NEW q \in Pid, Fork(p, q) \/ Setpgid(p, q)
        PROVE  SessionTypeOK'
    <3>1. sid[p] \in Pid /\ pgid[p] \in Pid
      BY <1>1 DEF SessionTypeOK
    <3> QED BY <1>1, <2>2, <3>1 DEF SessionTypeOK, Fork, Setpgid
  <2> QED BY <1>2, <2>1, <2>2
<1>4. GroupLeader'
  <2>1. CASE Setsid(p) \/ Exit(p) \/ Reap(p)
    BY <1>1, <2>1 DEF SessionInv, GroupLeader, SessionTypeOK, Exists, Setsid, Exit, Reap
  <2>2. ASSUME NEW q \in Pid, Fork(p, q) \/ Setpgid(p, q)
        PROVE  GroupLeader'
    BY <1>1, <2>2 DEF SessionInv, GroupLeader, SessionTypeOK, Exists, Fork, Setpgid
  <2> QED BY <1>2, <2>1, <2>2
<1>5. ASSUME NEW s, WasLeader(s)
      PROVE  /\ WasLeader(s)'
             /\ LeaderAlive(s)' => LeaderAlive(s) /\ (s \in ctty => s \in ctty')
  <2>1. CASE Setsid(p)
    <3>1. Exists(p) /\ pgid[p] # p
      BY <2>1 DEF Setsid, Exists
    <3>2. p # s
      BY <1>5, <3>1 DEF SessionInv, GroupLeader, WasLeader
    <3> QED BY <1>1, <1>5, <2>1, <3>2 DEF Setsid, WasLeader, LeaderAlive, SessionTypeOK
  <2>2. CASE Exit(p) \/ Reap(p)
    BY <1>1, <1>5, <2>2 DEF Exit, Reap, WasLeader, LeaderAlive, SessionTypeOK
  <2>3. ASSUME NEW q \in Pid, Fork(p, q) \/ Setpgid(p, q)
        PROVE  /\ WasLeader(s)'
               /\ LeaderAlive(s)' => LeaderAlive(s) /\ (s \in ctty => s \in ctty')
    <3>1. CASE Setpgid(p, q)
      BY <1>5, <3>1 DEF Setpgid, WasLeader, LeaderAlive
    <3>2. CASE Fork(p, q)
      <4>1. q # s
        BY <1>5, <3>2 DEF Fork, WasLeader
      <4> QED BY <1>1, <1>5, <3>2, <4>1 DEF Fork, WasLeader, LeaderAlive, SessionTypeOK
    <3> QED BY <2>3, <3>1, <3>2
  <2> QED BY <1>2, <2>1, <2>2, <2>3
<1>6. \A t \in Tty : own[t] # None =>
          /\ WasLeader(own[t])'
          /\ LeaderAlive(own[t])' => LeaderAlive(own[t]) /\ (own[t] \in ctty => own[t] \in ctty')
  BY <1>1, <1>5 DEF SessionInv, Leaders
<1>7. \A t \in Tty : call[t].at = "release" =>
          /\ WasLeader(call[t].sid)'
          /\ LeaderAlive(call[t].sid)' =>
                 LeaderAlive(call[t].sid) /\ (call[t].sid \in ctty => call[t].sid \in ctty')
  BY <1>1, <1>5 DEF SessionInv, Leaders
<1>8. CallArgs' /\ Leaders'
  BY <1>1, <1>6, <1>7 DEF SessionInv, CallArgs, Leaders
<1>9. OwnerMarked' /\ AtMostOneCtty'
  BY <1>1, <1>6 DEF SessionInv, OwnerMarked, AtMostOneCtty
<1>10. Releasing'
  BY <1>1, <1>7 DEF SessionInv, Releasing
<1>11. MarkHasTty'
  <2>1. \A m \in ctty' : LeaderAlive(m)' => m \in ctty /\ LeaderAlive(m)
    <3>1. CASE Setsid(p) \/ Exit(p) \/ Reap(p)
      BY <1>1, <3>1 DEF Setsid, Exit, Reap, LeaderAlive, SessionTypeOK
    <3>2. ASSUME NEW q \in Pid, Fork(p, q) \/ Setpgid(p, q)
          PROVE  \A m \in ctty' : LeaderAlive(m)' => m \in ctty /\ LeaderAlive(m)
      BY <1>1, <3>2 DEF Fork, Setpgid, LeaderAlive, Exists, SessionTypeOK
    <3> QED BY <1>2, <3>1, <3>2
  <2> QED BY <1>1, <2>1 DEF SessionInv, MarkHasTty
<1> QED BY <1>3, <1>4, <1>8, <1>9, <1>10, <1>11 DEF SessionInv

\* The invariant is inductive.
LEMMA StepHolds ==
    ASSUME SessionInv, ~Reuse, [SessionNext]_svars
    PROVE  SessionInv'
<1>1. CASE UNCHANGED svars
  BY <1>1 DEF svars, ttys, kernel, SessionInv, SessionTypeOK, CallArgs, Leaders, WasLeader,
              GroupLeader, OwnerMarked, Releasing, AtMostOneCtty, MarkHasTty, LeaderAlive, Exists
<1>2. CASE SessionNext
  BY <1>2, Asking, Checking, Claiming, Unmarking, HangingUp, KernelStep DEF SessionNext
<1> QED BY <1>1, <1>2

\* For any number of processes and terminals: if pids are not reused, a session
\* whose leader lives has at most one controlling terminal, and the kernel's
\* mark never outlives the terminal it stands for.
THEOREM OneCtty ==
    ASSUME ~Reuse
    PROVE  SessionSpec => [](SessionTypeOK /\ AtMostOneCtty /\ MarkHasTty)
<1>1. SessionInv /\ [SessionNext]_svars => SessionInv'
  BY StepHolds
<1>2. SessionInv => SessionTypeOK /\ AtMostOneCtty /\ MarkHasTty
  BY DEF SessionInv
<1> QED BY <1>1, <1>2, InitHolds, PTL DEF SessionSpec

\* A live session loses a terminal only through its leader's TIOCNOTTY or a
\* hangup, never to another session.
THEOREM Undisturbed ==
    ASSUME ~Reuse
    PROVE  SessionSpec => TakenOnlyFromDead
<1> DEFINE Kept == \A t \in Tty :
               own[t] # None /\ own'[t] # own[t] /\ LeaderAlive(own[t])
                   => /\ own'[t] = None
                      /\ \/ call[t].op = "notty" /\ call[t].pid = own[t]
                         \/ call[t].at = "idle"
<1>1. SessionInv /\ [SessionNext]_svars => SessionInv'
  BY StepHolds
<1>2. SessionInv /\ [SessionNext]_svars => [Kept]_svars
  <2> SUFFICES ASSUME SessionInv, SessionNext, NEW t \in Tty,
                      own[t] # None, own'[t] # own[t], LeaderAlive(own[t])
               PROVE  /\ own'[t] = None
                      /\ \/ call[t].op = "notty" /\ call[t].pid = own[t]
                         \/ call[t].at = "idle"
    BY Zenon
  <2>1. PICK u \in Tty : Check(u) \/ SessionCtty(u) \/ Hangup(u)
    BY DEF SessionNext, Call, Getsid, Getpgid, Spgrp, Release, Kernel, ttys
  <2>2. own \in [Tty -> Pid \union {None}]
    BY DEF SessionInv, SessionTypeOK
  <2>3. CASE SessionCtty(u)
    BY <2>2, <2>3 DEF SessionInv, CallArgs, SessionCtty
  <2>4. CASE Hangup(u)
    BY <2>2, <2>4 DEF Hangup
  <2>5. CASE Check(u)
    <3>1. u = t
      BY <2>2, <2>5 DEF Check
    <3>2. Revalidated(t) = own[t]
      BY DEF Revalidated
    <3> QED BY <2>2, <2>5, <3>1, <3>2 DEF Check
  <2> QED BY <2>1, <2>3, <2>4, <2>5
<1> QED BY <1>1, <1>2, InitHolds, PTL DEF SessionSpec, TakenOnlyFromDead

============================================================================
