------------------------------ MODULE V3daWaits -----------------------------
(***************************************************************************)
(* Parked requests of the asynchronous render server                       *)
(* (src/gpu/rpi4-v3d-async/v3da_sched.c and the dispatch loop of           *)
(* v3da_main.c).  A request that waits for fences or for synchronisation   *)
(* objects is not answered by the thread that received it: it is parked,   *)
(* and answered by the event thread when it is satisfied, fails or times   *)
(* out, by the thread that closes its client, or by the thread that shuts  *)
(* the server down.                                                        *)
(*                                                                         *)
(* Everything but the answers happens under srv.lock, so a handler and a   *)
(* round of the event thread are one action each.  The answers of what was *)
(* claimed are sent with the lock free, one step each.  Fences come from   *)
(* V3daJobs; here a fence is a name that is handed out once, and signalled *)
(* by the event thread, with a kick, or when its client dies.              *)
(***************************************************************************)
EXTENDS Naturals

CONSTANTS
    Client,     \* slots of srv.clients
    Rid,        \* requests the clients ever send
    Handle,     \* indices of a client's table of syncobjs
    Fence,      \* fences handed out by SUBMIT
    Dispatch,   \* dispatch threads
    Port,       \* the ports they receive from
    PortOf,     \* the port of each dispatch thread
    Event,      \* the event thread
    NoRid

ASSUME WaitsAssumption ==
    /\ PortOf \in [Dispatch -> Port]
    /\ Event \notin Dispatch /\ NoRid \notin Rid
    /\ "none" \notin Client \union Fence \union Port
    /\ {"parked", "own"} \cap Dispatch = {} /\ Event \notin {"parked", "own"}

VARIABLES
    used,       \* clients that are open
    sync,       \* sync[c][h]: "none", "empty", "signaled" or the fence of a syncobj
    owner,      \* the client a fence was handed out to, "none" before
    signaled,   \* fences that v3da_fence_signaled() reports
    waits,      \* srv.waits: records of the parked requests
    late,       \* the parked requests whose deadline has passed
    rx_port,    \* srv.rx_port
    own,        \* the request a dispatch thread still has to answer itself
    answer,     \* the requests a thread has claimed and still has to answer
    came,       \* came[r]: the port r was received on, "none" before
    answered,   \* how often r was answered, and on which port the last time
    asleep,     \* the event thread is in condWait()
    kick,       \* kick_pending, or the signal of srv.cond
    quiet,      \* a fence or syncobj has changed without a kick (ghost)
    quit

wvars == <<used, sync, owner, signaled, waits, late, rx_port, own, answer,
           came, answered, asleep, kick, quiet, quit>>

Thread == Dispatch \union {Event}

WaitsInit ==
    /\ used = {}
    /\ sync = [c \in Client |-> [h \in Handle |-> "none"]]
    /\ owner = [f \in Fence |-> "none"]
    /\ signaled = {}
    /\ waits = {} /\ late = {}
    /\ rx_port \in Port
    /\ own = [t \in Dispatch |-> NoRid]
    /\ answer = [t \in Thread |-> {}]
    /\ came = [r \in Rid |-> "none"]
    /\ answered = [r \in Rid |-> [n |-> 0, port |-> "none"]]
    /\ asleep = FALSE /\ kick = FALSE /\ quiet = FALSE
    /\ quit = FALSE

---------------------------------------------------------------------------
(* Receiving a request: t is not answering another one.  The handler either *)
(* leaves the answer to t or has parked the request.                        *)

msgRecv(t, r) ==
    /\ own[t] = NoRid /\ answer[t] = {}
    /\ came[r] = "none"
    /\ came' = [came EXCEPT ![r] = PortOf[t]]
    /\ UNCHANGED <<late, answered, asleep>>

Respond(t, r) == own' = [own EXCEPT ![t] = r]

NoClaims == UNCHANGED <<waits, answer>>

\* Requests other than open and close record the port they came from.
Raw(t, c) == c \in used /\ rx_port' = PortOf[t]

client_open(t, r, c) ==
    /\ msgRecv(t, r) /\ Respond(t, r)
    /\ c \notin used
    /\ used' = used \union {c}
    /\ sync' = [sync EXCEPT ![c] = [h \in Handle |-> "none"]]
    /\ UNCHANGED <<owner, signaled, waits, rx_port, answer, kick, quiet, quit>>

---------------------------------------------------------------------------
(* Waits                                                                   *)

\* wait_eval(): "done", "failed" or "wait".  A wait for a BO is one for the
\* fences of its last uses.
wait_eval(w, snc, sgn) ==
    LET objs == {snc[w.client][h] : h \in w.handles}
        sig == {h \in w.handles : snc[w.client][h] \in {"signaled"} \union sgn}
    IN CASE w.kind = "fence" -> IF w.fences \subseteq sgn THEN "done" ELSE "wait"
         [] w.kind = "syncobj" ->
                CASE "none" \in objs \/ ("empty" \in objs /\ ~w.for_submit) -> "failed"
                  [] IF w.all THEN sig = w.handles ELSE sig # {} -> "done"
                  [] OTHER -> "wait"

\* wait_claim(): the only way out of srv.waits.  Slip: the wait stays linked.
ClaimAndKeep(t, ws) ==
    /\ waits' = waits
    /\ answer' = [answer EXCEPT ![t] = @ \union ws]

wait_claim(t, ws) ==
    /\ waits' = waits \ ws
    /\ answer' = [answer EXCEPT ![t] = @ \union ws]

\* The record of a request and the port it came from.
Parked(w, port) ==
    [rid |-> w.rid, client |-> w.client, kind |-> w.kind, fences |-> w.fences,
     handles |-> w.handles, all |-> w.all, for_submit |-> w.for_submit, port |-> port]

\* Slip: the request is parked with the port of the one before.
ParkAnyPort(t, w, timeout) ==
    IF wait_eval(w, sync, signaled) # "wait" \/ timeout = 0
    THEN Respond(t, w.rid) /\ NoClaims /\ UNCHANGED kick
    ELSE /\ waits' = waits \union {Parked(w, rx_port)}
         /\ kick' = TRUE
         /\ UNCHANGED <<own, answer>>

v3da_wait_park(t, w, timeout) ==
    IF wait_eval(w, sync, signaled) # "wait" \/ timeout = 0
    THEN Respond(t, w.rid) /\ NoClaims /\ UNCHANGED kick
    ELSE /\ waits' = waits \union {Parked(w, rx_port')}
         /\ kick' = TRUE
         /\ UNCHANGED <<own, answer>>

FenceWait(r, c, fs) ==
    [rid |-> r, client |-> c, kind |-> "fence", fences |-> fs, handles |-> {},
     all |-> TRUE, for_submit |-> FALSE]

SyncobjWait(r, c, hs, all, for_submit) ==
    [rid |-> r, client |-> c, kind |-> "syncobj", fences |-> {}, handles |-> hs,
     all |-> all, for_submit |-> for_submit]

\* FENCE_WAIT and BO_WAIT, for fences that have been handed out.
fence_wait(t, r, c) ==
    /\ msgRecv(t, r) /\ Raw(t, c)
    /\ \E fs \in SUBSET {f \in Fence : owner[f] # "none"}, timeout \in {0, 1} :
           v3da_wait_park(t, FenceWait(r, c, fs), timeout)
    /\ UNCHANGED <<used, sync, owner, signaled, quiet, quit>>

syncobj_wait(t, r, c) ==
    /\ msgRecv(t, r) /\ Raw(t, c)
    /\ \E hs \in SUBSET {h \in Handle : sync[c][h] # "none"} \ {{}},
          all, for_submit \in BOOLEAN, timeout \in {0, 1} :
           v3da_wait_park(t, SyncobjWait(r, c, hs, all, for_submit), timeout)
    /\ UNCHANGED <<used, sync, owner, signaled, quiet, quit>>

---------------------------------------------------------------------------
(* Syncobjs                                                                *)

Simple(t, r, c) ==
    /\ msgRecv(t, r) /\ Raw(t, c) /\ Respond(t, r) /\ NoClaims
    /\ UNCHANGED <<used, quit>>

v3da_syncobj_create(t, r, c) ==
    /\ Simple(t, r, c)
    /\ \E h \in Handle, state \in {"empty", "signaled"} :
           /\ sync[c][h] = "none"
           /\ sync' = [sync EXCEPT ![c][h] = state]
    /\ UNCHANGED <<owner, signaled, kick, quiet>>

v3da_syncobj_destroy(t, r, c) ==
    /\ Simple(t, r, c)
    /\ \E h \in Handle :
           /\ sync[c][h] # "none"
           /\ sync' = [sync EXCEPT ![c][h] = "none"]
    /\ kick' = TRUE
    /\ UNCHANGED <<owner, signaled, quiet>>

\* The event thread is not told.
v3da_syncobj_reset(t, r, c) ==
    /\ Simple(t, r, c)
    /\ \E h \in Handle :
           /\ sync[c][h] # "none"
           /\ sync' = [sync EXCEPT ![c][h] = "empty"]
    /\ quiet' = TRUE
    /\ UNCHANGED <<owner, signaled, kick>>

\* Slip: the event thread is not told of a signal either.
SignalWithoutKick(t, r, c) ==
    /\ Simple(t, r, c)
    /\ \E h \in Handle :
           /\ sync[c][h] # "none"
           /\ sync' = [sync EXCEPT ![c][h] = "signaled"]
    /\ UNCHANGED <<owner, signaled, kick, quiet>>

v3da_syncobj_signal(t, r, c) ==
    /\ Simple(t, r, c)
    /\ \E h \in Handle :
           /\ sync[c][h] # "none"
           /\ sync' = [sync EXCEPT ![c][h] = "signaled"]
    /\ kick' = TRUE
    /\ UNCHANGED <<owner, signaled, quiet>>

v3da_syncobj_import(t, r, c) ==
    /\ Simple(t, r, c)
    /\ \E h \in Handle, f \in {f \in Fence : owner[f] # "none"} :
           /\ sync[c][h] # "none"
           /\ sync' = [sync EXCEPT ![c][h] = f]
    /\ kick' = TRUE
    /\ UNCHANGED <<owner, signaled, quiet>>

\* SUBMIT, with h as its out-sync.  Scheduling may reset a wedged GPU, which
\* completes jobs that run.
submit(t, r, c) ==
    /\ Simple(t, r, c)
    /\ \E h \in Handle, f \in Fence, done \in SUBSET Fence :
           /\ sync[c][h] # "none" /\ owner[f] = "none"
           /\ \A d \in done : owner[d] # "none" \/ d = f
           /\ sync' = [sync EXCEPT ![c][h] = f]
           /\ owner' = [owner EXCEPT ![f] = c]
           /\ signaled' = signaled \union done
    /\ kick' = TRUE
    /\ UNCHANGED quiet

---------------------------------------------------------------------------
(* The end of a client and of the server                                   *)

\* Slip: the parked requests of the client stay behind.
CloseKeepsWaits(t, r, c) ==
    /\ msgRecv(t, r) /\ Respond(t, r)
    /\ c \in used
    /\ NoClaims
    /\ \E done \in SUBSET {f \in Fence : owner[f] = c} : signaled' = signaled \union done
    /\ used' = used \ {c}
    /\ quiet' = TRUE
    /\ UNCHANGED <<sync, owner, rx_port, kick, quit>>

\* v3da_waits_client_gone(), and the fences of the jobs that are discarded.
client_close(t, r, c) ==
    /\ msgRecv(t, r) /\ Respond(t, r)
    /\ c \in used
    /\ wait_claim(t, {w \in waits : w.client = c})
    /\ \E done \in SUBSET {f \in Fence : owner[f] = c} : signaled' = signaled \union done
    /\ used' = used \ {c}
    /\ quiet' = TRUE
    /\ UNCHANGED <<sync, owner, rx_port, kick, quit>>

\* DBG_QUIT is refused while a job is in flight.  Until the process exits the
\* other threads may still serve requests.
quit_request(t, r, c) ==
    /\ msgRecv(t, r) /\ Raw(t, c) /\ Respond(t, r)
    /\ \A f \in Fence : owner[f] # "none" => f \in signaled
    /\ wait_claim(t, waits)
    /\ quit' = TRUE /\ kick' = TRUE
    /\ UNCHANGED <<used, sync, owner, signaled, quiet>>

---------------------------------------------------------------------------
(* Answers                                                                 *)

msgRespond(r, port) ==
    answered' = [answered EXCEPT ![r] = [n |-> @.n + 1, port |-> port]]

\* v3da_waits_answer(), with the lock free.
v3da_waits_answer(t) ==
    /\ \E w \in answer[t] :
           /\ msgRespond(w.rid, w.port)
           /\ answer' = [answer EXCEPT ![t] = @ \ {w}]
    /\ UNCHANGED <<used, sync, owner, signaled, waits, late, rx_port, own, came,
                   asleep, kick, quiet, quit>>

answer_own(t) ==
    /\ own[t] # NoRid /\ answer[t] = {}
    /\ msgRespond(own[t], PortOf[t])
    /\ own' = [own EXCEPT ![t] = NoRid]
    /\ UNCHANGED <<used, sync, owner, signaled, waits, late, rx_port, answer, came,
                   asleep, kick, quiet, quit>>

---------------------------------------------------------------------------
(* The event thread                                                        *)

condWait ==
    /\ ~asleep /\ ~kick /\ ~quit /\ answer[Event] = {}
    /\ asleep' = TRUE
    /\ UNCHANGED <<used, sync, owner, signaled, waits, late, rx_port, own, answer,
                   came, answered, kick, quiet, quit>>

\* The clock passes a deadline, which every parked wait has.
Deadline(r) ==
    /\ \E w \in waits : w.rid = r
    /\ late' = late \union {r}
    /\ UNCHANGED <<used, sync, owner, signaled, waits, rx_port, own, answer,
                   came, answered, asleep, kick, quiet, quit>>

\* Slip: deadlines are not looked at.
ScanWithoutClock(sgn) ==
    wait_claim(Event, {w \in waits : wait_eval(w, sync, sgn) # "wait"})

\* waits_scan() over what the jobs and the clients have signalled.
waits_scan(sgn) ==
    wait_claim(Event, {w \in waits : wait_eval(w, sync, sgn) # "wait" \/ w.rid \in late})

\* One round: woken by a kick or by the timeout of condWait(), which is bounded.
v3da_event_thread ==
    /\ answer[Event] = {} /\ (asleep \/ (kick /\ ~quit))
    /\ \E done \in SUBSET {f \in Fence : owner[f] # "none"} :
           /\ signaled' = signaled \union done
           /\ waits_scan(signaled')
    /\ asleep' = FALSE /\ kick' = FALSE /\ quiet' = FALSE
    /\ UNCHANGED <<used, sync, owner, late, rx_port, own, came, answered, quit>>

---------------------------------------------------------------------------

Handler(t, r, c) ==
    \/ client_open(t, r, c) \/ client_close(t, r, c)
    \/ fence_wait(t, r, c) \/ syncobj_wait(t, r, c)
    \/ v3da_syncobj_create(t, r, c) \/ v3da_syncobj_destroy(t, r, c)
    \/ v3da_syncobj_reset(t, r, c) \/ v3da_syncobj_signal(t, r, c)
    \/ v3da_syncobj_import(t, r, c) \/ submit(t, r, c)
    \/ quit_request(t, r, c)

Answering(t) == v3da_waits_answer(t) \/ (t \in Dispatch /\ answer_own(t))

WaitsNext ==
    \/ \E t \in Dispatch, r \in Rid, c \in Client : Handler(t, r, c)
    \/ \E t \in Thread : Answering(t)
    \/ \E r \in Rid : Deadline(r)
    \/ condWait \/ v3da_event_thread

WaitsSpec == WaitsInit /\ [][WaitsNext]_wvars

\* The threads run, condWait() has a timeout and every deadline passes.
WaitsFairness ==
    /\ WF_wvars(condWait) /\ WF_wvars(v3da_event_thread)
    /\ \A t \in Thread : WF_wvars(Answering(t))
    /\ \A r \in Rid : WF_wvars(Deadline(r))

FairWaitsSpec == WaitsSpec /\ WaitsFairness

---------------------------------------------------------------------------
(* Properties                                                              *)

WaitRecord ==
    [rid : Rid, client : Client, kind : {"fence", "syncobj"}, fences : SUBSET Fence,
     handles : SUBSET Handle, all : BOOLEAN, for_submit : BOOLEAN, port : Port]

WaitsTypeOK ==
    /\ used \subseteq Client
    /\ sync \in [Client -> [Handle -> {"none", "empty", "signaled"} \union Fence]]
    /\ owner \in [Fence -> Client \union {"none"}]
    /\ signaled \subseteq Fence
    /\ waits \subseteq WaitRecord
    /\ late \subseteq Rid
    /\ rx_port \in Port
    /\ own \in [Dispatch -> Rid \union {NoRid}]
    /\ answer \in [Thread -> SUBSET WaitRecord]
    /\ came \in [Rid -> Port \union {"none"}]
    /\ answered \in [Rid -> [n : Nat, port : Port \union {"none"}]]
    /\ asleep \in BOOLEAN /\ kick \in BOOLEAN /\ quiet \in BOOLEAN /\ quit \in BOOLEAN

\* Who is to answer r: a parked wait, a thread that claimed it, its receiver.
Owed(r) ==
    {<<"parked", w>> : w \in {w \in waits : w.rid = r}}
        \union {<<"own", t>> : t \in {t \in Dispatch : own[t] = r}}
        \union UNION {{<<t, w>> : w \in {w \in answer[t] : w.rid = r}} : t \in Thread}

\* "Whoever claims it answers it, exactly once" (wait_claim()): a request that
\* was received is answered once, or one thread or one parked wait owes the
\* answer, and no other.
OwedOnce ==
    \A r \in Rid :
        CASE came[r] = "none" -> Owed(r) = {} /\ answered[r].n = 0
          [] answered[r].n = 0 /\ came[r] # "none" -> \E o \in Owed(r) : Owed(r) = {o}
          [] OTHER -> Owed(r) = {} /\ answered[r].n = 1

\* A parked wait belongs to an open client: no wait outlives its client to be
\* evaluated against the syncobjs of the slot's next owner.
ParkedHasClient == \A w \in waits : w.client \in used

\* Requests are answered on the port they came from, although the port is
\* passed to v3da_wait_park() in a global and the wait is answered by others.
AnsweredWhereAsked == \A r \in Rid : answered[r].n > 0 => answered[r].port = came[r]

\* When the event thread sleeps and no kick is pending, it has not missed a wait
\* that could be answered, unless by a reset or by the death of a client.
NoMissedWait ==
    asleep /\ ~kick /\ ~quiet => \A w \in waits : wait_eval(w, sync, signaled) = "wait"

\* Every request is answered in the end, or the server shuts down.
EveryRequestAnswered ==
    \A r \in Rid : came[r] # "none" ~> answered[r].n > 0 \/ quit

=============================================================================
