------------------------------ MODULE V3daJobs ------------------------------
(***************************************************************************)
(* The asynchronous render server of the Raspberry Pi 4's GPU              *)
(* (src/gpu/rpi4-v3d-async): clients submit jobs, the server keeps one     *)
(* FIFO per client and hardware queue, puts one job at a time on each      *)
(* queue, and publishes completion as fences.  Clients die with jobs       *)
(* queued and running, the GPU wedges and is reset, and the buffer objects *)
(* (BOs) the jobs name must outlive them.                                  *)
(*                                                                         *)
(* The server's state is one global structure, srv, under one lock, which  *)
(* a message handler or a round of the event thread holds from beginning   *)
(* to end.  So the state is one record and every handler is one action,    *)
(* composed of operators from record to record that keep the names of the  *)
(* functions of the code.                                                  *)
(*                                                                         *)
(* Error reports, statistics, flips, the caches and the overflow memory    *)
(* (V3daOvf) are left out, and so are requests that are refused.           *)
(***************************************************************************)
EXTENDS Naturals, Sequences, FiniteSets, SequencesExt

CONSTANTS
    NSlots,     \* V3DA_MAX_CLIENTS
    BO,         \* entries of srv.bos
    MaxJobs,    \* bound on the jobs ever submitted
    MaxGen,     \* bound on the generations of a slot
    CsdStuck    \* may CSD_STATUS keep HAVE_CURRENT while its queue is idle?

VARIABLE srv

Slot == 0 .. NSlots - 1

\* is_hw_queue(), in the order of enum v3da_queue, and the server's own queue.
HwQueues == <<"bin", "render", "tfu", "csd">>
Hw == {"bin", "render", "tfu", "csd"}
Queue == Hw \union {"cpu"}
AllQueues == Append(HwQueues, "cpu")

NoJob == [q |-> "none"]
NoOwner == NSlots

\* v3da_fence_t; seqno 0 is no fence.
NoFence == [slot |-> 0, q |-> "cpu", seq |-> 0, gen |-> 0]
FenceOf(j) == [slot |-> j.slot, q |-> j.q, seq |-> j.seq, gen |-> j.gen]

PerQueue(x) == [q \in Queue |-> x]
PerSlot(x) == [c \in Slot |-> x]

FreeBo ==
    [state |-> "free", owner |-> NoOwner, sharers |-> {}, inflight |-> 0,
     last |-> PerQueue(NoFence), pass |-> PerQueue(0), unflushed |-> FALSE]

JobsInit ==
    srv = [used |-> PerSlot(FALSE), gen |-> PerSlot(0),
           next_seq |-> PerSlot(PerQueue(0)), completed |-> PerSlot(PerQueue(0)),
           dead_flush |-> PerSlot(PerQueue(0)),
           fifo |-> PerQueue(PerSlot(<<>>)), active |-> PerQueue(NoJob),
           rr |-> PerQueue(0), mode |-> "pipeline", gseq |-> 0,
           hw_submitted |-> PerQueue(0), hw_completed |-> PerQueue(0),
           bo |-> [b \in BO |-> FreeBo]]

---------------------------------------------------------------------------
(* Fences                                                                  *)

v3da_fence_signaled(s, f) ==
    s.gen[f.slot] # f.gen \/ s.completed[f.slot][f.q] >= f.seq

\* v3da_fence_complete(): the discarded jobs of a dead client complete with
\* its last running one.
v3da_fence_complete(s, j) ==
    LET flush == s.dead_flush[j.slot][j.q]
        seq == IF ~s.used[j.slot] /\ flush > j.seq THEN flush ELSE j.seq
    IN [s EXCEPT !.completed[j.slot][j.q] = seq, !.hw_completed[j.q] = @ + 1]

\* A slot of a dead client is given away only when none of its jobs runs.
v3da_slot_busy(s, c) == \E q \in Queue : s.active[q] # NoJob /\ s.active[q].slot = c

\* Slip: the generation of the slot stays.
AssignSameGen(s, c) ==
    [s EXCEPT !.completed[c] = PerQueue(0), !.dead_flush[c] = PerQueue(0),
              !.gen[c] = IF @ = 0 THEN 1 ELSE @]

v3da_slot_assign(s, c) ==
    [s EXCEPT !.completed[c] = PerQueue(0), !.dead_flush[c] = PerQueue(0),
              !.gen[c] = @ + 1]

---------------------------------------------------------------------------
(* Buffer objects                                                          *)

Refs(b) == Cardinality(b.sharers) + (IF b.owner = NoOwner THEN 0 ELSE 1)

\* v3da_bo_find(): a BO that a client may still name.
v3da_bo_find(s, b) == s.bo[b].state = "live" /\ Refs(s.bo[b]) > 0

\* tlb_gen catches up with pt_gen: every page table change is flushed.
v3da_hw_mmu_flush(s) == [s EXCEPT !.bo = [b \in BO |-> [@[b] EXCEPT !.unflushed = FALSE]]]

HwBusy(s) == \E q \in Hw : s.active[q] # NoJob

\* The BO is unmapped from the GPU, which is told at once if it is idle; what
\* runs now may still reach it, so the counters of kicked jobs are recorded.
quarantine_begin(s, b) ==
    LET t == [s EXCEPT !.bo[b].state = "quarantine", !.bo[b].unflushed = TRUE,
                       !.bo[b].pass = s.hw_submitted]
    IN IF HwBusy(s) THEN t ELSE v3da_hw_mmu_flush(t)

QuarantineUnused(s, b) ==
    IF s.bo[b].state = "live" /\ Refs(s.bo[b]) = 0 /\ s.bo[b].inflight = 0
    THEN quarantine_begin(s, b) ELSE s

v3da_bo_unpin(s, names) ==
    LET unpin(t, b) == QuarantineUnused([t EXCEPT !.bo[b].inflight = @ - 1], b)
    IN FoldLeft(unpin, s, SetToSeq(names))

\* Slip: a BO is free as soon as its unmapping is flushed.
PassedIfFlushed(s, b) == s.bo[b].state = "quarantine" /\ ~s.bo[b].unflushed

Passed(s, b) ==
    /\ s.bo[b].state = "quarantine" /\ ~s.bo[b].unflushed
    /\ \A q \in Queue : s.hw_completed[q] >= s.bo[b].pass[q]

v3da_bo_quarantine_poll(s) ==
    [s EXCEPT !.bo = [b \in BO |-> IF Passed(s, b) THEN FreeBo ELSE @[b]]]

---------------------------------------------------------------------------
(* Jobs                                                                    *)

\* job_done(): on the hardware or, for a render whose bin failed, never kicked.
job_done(s, j, error) ==
    LET off == IF s.active[j.q] = j
               THEN [s EXCEPT !.active[j.q] = NoJob]
               ELSE [s EXCEPT !.hw_submitted[j.q] = @ + 1]
        handed == IF j.q # "bin" THEN off
                  ELSE [off EXCEPT !.fifo["render"][j.slot] =
                            [i \in DOMAIN @ |->
                                IF @[i].pair = j.gseq
                                THEN [@[i] EXCEPT !.bin = FALSE, !.dep_error = error]
                                ELSE @[i]]]
    IN v3da_fence_complete(v3da_bo_unpin(handed, j.bos), j)

\* The jobs of the hardware queues qs, in that order.
DoneOn(s, qs, error) ==
    LET done(t, q) == IF t.active[q] = NoJob THEN t ELSE job_done(t, t.active[q], error)
    IN FoldLeft(done, s, qs)

\* wedge(): the reset kills whatever runs.
wedge(s) == DoneOn(v3da_hw_mmu_flush(s), HwQueues, TRUE)

\* Every prologue but the render's flushes the TLB.
job_kick(s, j, busy) ==
    LET t == [s EXCEPT !.active[j.q] = j, !.hw_submitted[j.q] = @ + 1]
        flushed == IF j.q \in {"bin", "tfu", "csd"} THEN v3da_hw_mmu_flush(t) ELSE t
    IN IF j.q = "csd" /\ busy THEN wedge(flushed) ELSE flushed

job_ready(s, j) ==
    /\ ~j.bin
    /\ \A f \in j.deps : v3da_fence_signaled(s, f)

HasReady(s, q, c) == s.fifo[q][c] # <<>> /\ job_ready(s, Head(s.fifo[q][c]))

fifo_pop(s, q, c) == [s EXCEPT !.fifo[q][c] = Tail(@)]

RECURSIVE reap_failed_heads(_)
reap_failed_heads(s) ==
    LET failed == {p \in Queue \X Slot :
                       HasReady(s, p[1], p[2]) /\ Head(s.fifo[p[1]][p[2]]).dep_error}
    IN IF failed = {} THEN s
       ELSE LET p == CHOOSE p \in failed : TRUE
            IN reap_failed_heads(job_done(fifo_pop(s, p[1], p[2]),
                                          Head(s.fifo[p[1]][p[2]]), TRUE))

\* Slip: the client before the cursor has no turn.
RoundRobinShort(s, q, busy) ==
    LET turn(i) == (s.rr[q] + i) % NSlots
        ready == {i \in 0 .. NSlots - 2 : HasReady(s, q, turn(i))}
        i == CHOOSE i \in ready : \A k \in ready : i <= k
        c == turn(i)
    IN IF s.active[q] # NoJob \/ ready = {} THEN s
       ELSE job_kick([fifo_pop(s, q, c) EXCEPT !.rr[q] = (c + 1) % NSlots],
                     Head(s.fifo[q][c]), busy)

\* The first client with a ready job, counting from the cursor.
PickRoundRobin(s, q, busy) ==
    LET turn(i) == (s.rr[q] + i) % NSlots
        ready == {i \in 0 .. NSlots - 1 : HasReady(s, q, turn(i))}
        i == CHOOSE i \in ready : \A k \in ready : i <= k
        c == turn(i)
    IN IF s.active[q] # NoJob \/ ready = {} THEN s
       ELSE job_kick([fifo_pop(s, q, c) EXCEPT !.rr[q] = (c + 1) % NSlots],
                     Head(s.fifo[q][c]), busy)

\* SERIAL: the oldest ready job, when nothing runs.
PickOldest(s, busy) ==
    LET ready == {p \in Hw \X Slot : HasReady(s, p[1], p[2])}
        age(p) == Head(s.fifo[p[1]][p[2]]).gseq
        p == CHOOSE p \in ready : \A r \in ready : age(p) <= age(r)
    IN IF HwBusy(s) \/ ready = {} THEN s
       ELSE job_kick(fifo_pop(s, p[1], p[2]), Head(s.fifo[p[1]][p[2]]), busy)

v3da_sched_run(s, busy) ==
    LET pick(t, q) == PickRoundRobin(t, q, busy)
        cpu == PickRoundRobin(reap_failed_heads(s), "cpu", busy)
    IN IF s.mode = "serial" THEN PickOldest(cpu, busy) ELSE FoldLeft(pick, cpu, HwQueues)

CsdBusy == IF CsdStuck THEN BOOLEAN ELSE {FALSE}

RunScheduler(s) == \E busy \in CsdBusy : srv' = v3da_sched_run(s, busy)

---------------------------------------------------------------------------
(* Requests                                                                *)

client_open(c) ==
    /\ ~srv.used[c] /\ ~v3da_slot_busy(srv, c)
    /\ \A d \in 0 .. c - 1 : srv.used[d] \/ v3da_slot_busy(srv, d)
    /\ srv.gen[c] < MaxGen
    /\ srv' = [v3da_slot_assign(srv, c) EXCEPT !.used[c] = TRUE,
                                               !.next_seq[c] = PerQueue(0)]

\* Slip: the fences of the discarded jobs are left to the next owner.
JobsGoneQuietly(s, c) ==
    LET drop(t, q) ==
            LET discard(u, j) == v3da_bo_unpin(u, j.bos)
            IN [FoldLeft(discard, t, t.fifo[q][c]) EXCEPT !.fifo[q][c] = <<>>]
    IN FoldLeft(drop, s, AllQueues)

\* Slip: they complete at once, those of its running jobs, too.
JobsGoneAtOnce(s, c) ==
    LET drop(t, q) ==
            LET discard(u, j) == v3da_bo_unpin(u, j.bos)
            IN [FoldLeft(discard, t, t.fifo[q][c]) EXCEPT !.fifo[q][c] = <<>>]
    IN [FoldLeft(drop, s, AllQueues) EXCEPT !.dead_flush[c] = s.next_seq[c],
                                            !.completed[c] = s.next_seq[c]]

\* v3da_jobs_client_gone(): what is queued is discarded; its fences complete
\* now, or with the client's running job of that queue.
v3da_jobs_client_gone(s, c) ==
    LET drop(t, q) ==
            LET discard(u, j) == v3da_bo_unpin(u, j.bos)
            IN [FoldLeft(discard, t, t.fifo[q][c]) EXCEPT !.fifo[q][c] = <<>>]
        dropped == FoldLeft(drop, s, AllQueues)
        runs(q) == s.active[q] # NoJob /\ s.active[q].slot = c
    IN [dropped EXCEPT !.dead_flush[c] = s.next_seq[c],
                       !.completed[c] = [q \in Queue |-> IF runs(q) THEN @[q]
                                                         ELSE s.next_seq[c][q]]]

\* bo_unref() of a reference of c: the creator's, or an import.
DropRef(s, b, c) ==
    LET o == [s EXCEPT !.bo[b].sharers = @ \ {c},
                       !.bo[b].owner = IF @ = c THEN NoOwner ELSE @]
    IN QuarantineUnused(o, b)

v3da_bo_client_gone(s, c) ==
    LET drop(t, b) == IF v3da_bo_find(t, b) THEN DropRef(t, b, c) ELSE t
    IN v3da_bo_quarantine_poll(FoldLeft(drop, s, SetToSeq(BO)))

\* client_close(), by request or at the exit of the process.  The scheduler runs
\* while the client is still marked as used.
client_close(c) ==
    /\ srv.used[c]
    /\ \E busy \in CsdBusy :
           LET s == v3da_sched_run(v3da_jobs_client_gone(srv, c), busy)
           IN srv' = [v3da_bo_client_gone(s, c) EXCEPT !.used[c] = FALSE]

v3da_bo_create(c, b) ==
    /\ srv.used[c] /\ srv.bo[b].state = "free"
    /\ srv' = [srv EXCEPT !.bo[b].state = "live", !.bo[b].owner = c]

\* import_v3dbuf() of a BO that another client exported.
import_v3dbuf(c, b) ==
    /\ srv.used[c] /\ v3da_bo_find(srv, b)
    /\ srv.bo[b].owner # c
    /\ srv' = [srv EXCEPT !.bo[b].sharers = @ \union {c}]

\* v3da_bo_close(): c's import or, whoever asks, the creator's reference.
v3da_bo_close(c, b) ==
    /\ srv.used[c] /\ v3da_bo_find(srv, b)
    /\ \/ c \in srv.bo[b].sharers
          /\ srv' = v3da_bo_quarantine_poll(
                        QuarantineUnused([srv EXCEPT !.bo[b].sharers = @ \ {c}], b))
       \/ c \notin srv.bo[b].sharers /\ srv.bo[b].owner # NoOwner
          /\ srv' = v3da_bo_quarantine_poll(
                        QuarantineUnused([srv EXCEPT !.bo[b].owner = NoOwner], b))

\* job_new(), with a fresh sequence number; n distinguishes the two of a pair.
job_new(s, c, q, n) ==
    [q |-> q, slot |-> c, gen |-> s.gen[c], seq |-> s.next_seq[c][q] + 1,
     gseq |-> s.gseq + n, pair |-> 0, deps |-> {}, bin |-> FALSE,
     dep_error |-> FALSE, bos |-> {}, uses |-> {}]

Jobs(s) ==
    ({s.active[q] : q \in Queue} \ {NoJob})
        \union UNION {ToSet(s.fifo[q][c]) : q \in Queue, c \in Slot}

\* The fences a client may name in a syncobj and that still matter (add_dep()).
Pending(s) == {f \in {FenceOf(j) : j \in Jobs(s)} : ~v3da_fence_signaled(s, f)}

\* The uses of the named BOs by other clients.
v3da_bo_implicit_deps(s, c, names) ==
    {f \in {s.bo[b].last[q] : b \in names, q \in Queue} :
        f.seq # 0 /\ f.slot # c /\ ~v3da_fence_signaled(s, f)}

v3da_bo_mark_use(s, names, f) ==
    [s EXCEPT !.bo = [b \in BO |-> IF b \in names THEN [@[b] EXCEPT !.last[f.q] = f]
                                   ELSE @[b]]]

fifo_push(s, j) ==
    [s EXCEPT !.fifo[j.q][j.slot] = Append(@, j), !.next_seq[j.slot][j.q] = j.seq,
              !.gseq = j.gseq]

\* A CL with or without a bin job, a TFU conversion, a compute dispatch.
Op == {"cl", "ronly", "tfu", "csd"}

\* v3da_submit(): a bin and a render job, or a single one.  The BOs are pinned
\* by the last job; uses says which BOs the GPU reaches while it runs the job.
v3da_submit(c, op) ==
    /\ srv.used[c]
    /\ \E names \in SUBSET {b \in BO : v3da_bo_find(srv, b)},
          in \in {{}} \union {{f} : f \in Pending(srv)}, late \in BOOLEAN :
         LET q == CASE op = "cl" -> "bin" [] op = "ronly" -> "render"
                    [] op = "tfu" -> "tfu" [] op = "csd" -> "csd"
             two == op = "cl"
             one == [job_new(srv, c, q, 1) EXCEPT
                        !.uses = names,
                        !.bos = IF two THEN {} ELSE names,
                        !.deps = v3da_bo_implicit_deps(srv, c, names)
                                 \union (IF two /\ late THEN {} ELSE in)]
             render == [job_new(srv, c, "render", 2) EXCEPT
                           !.uses = names, !.bos = names, !.bin = TRUE,
                           !.pair = one.gseq, !.deps = IF late THEN in ELSE {}]
             last == IF two THEN render ELSE one
             pinned == [srv EXCEPT !.bo =
                           [b \in BO |-> IF b \in names
                                         THEN [@[b] EXCEPT !.inflight = @ + 1]
                                         ELSE @[b]]]
             queued == fifo_push(v3da_bo_mark_use(pinned, names, FenceOf(last)), one)
         IN /\ late => two /\ in # {}
            /\ last.gseq <= MaxJobs
            /\ RunScheduler(IF two THEN fifo_push(queued, render) ELSE queued)

v3da_submit_nop(c) ==
    /\ srv.used[c] /\ srv.gseq < MaxJobs
    /\ RunScheduler(fifo_push(srv, job_new(srv, c, "cpu", 1)))

\* A job of the server's own queue that waits for f and for the last uses of the
\* BOs, and counts as their next use.  v3da_bo_sync_targets(): a handle of the
\* client or a /v3dbuf name stands for one BO, a /kmsbuf name for every import of
\* that buffer.  Names are not modelled, so bs is any set that one may stand for.
v3da_bo_attach_fence(c, bs) ==
    /\ srv.used[c] /\ srv.gseq < MaxJobs
    /\ bs # {} /\ \A b \in bs : v3da_bo_find(srv, b)
    /\ \E f \in Pending(srv) :
           LET uses == {l \in {srv.bo[b].last[q] : b \in bs, q \in Queue} :
                            l.seq # 0 /\ ~v3da_fence_signaled(srv, l)}
               j == [job_new(srv, c, "cpu", 1) EXCEPT !.deps = {f} \union uses]
           IN RunScheduler(fifo_push(v3da_bo_mark_use(srv, bs, FenceOf(j)), j))

v3da_set_mode(m) ==
    /\ m # srv.mode
    /\ RunScheduler([srv EXCEPT !.mode = m])

---------------------------------------------------------------------------
(* The event thread                                                        *)

\* One round: the hardware queues in done have finished, the server's own job is
\* due if cpu, and the watchdog finds the GPU stuck if stuck.
v3da_event_thread(done, cpu, stuck) ==
    LET order == <<"bin", "render", "csd", "tfu">>
        events == DoneOn(srv, SelectSeq(order, LAMBDA q : q \in done), FALSE)
        tick == IF cpu THEN DoneOn(events, <<"cpu">>, FALSE) ELSE events
        s == IF stuck THEN wedge(tick) ELSE tick
    IN /\ done \subseteq {q \in Hw : srv.active[q] # NoJob}
       /\ cpu => srv.active["cpu"] # NoJob
       /\ stuck => HwBusy(tick)
       /\ RunScheduler(v3da_bo_quarantine_poll(s))

EventRound ==
    \E done \in SUBSET Hw, cpu, stuck \in BOOLEAN : v3da_event_thread(done, cpu, stuck)

JobsNext ==
    \/ \E c \in Slot :
           \/ client_open(c) \/ client_close(c)
           \/ \E op \in Op : v3da_submit(c, op)
           \/ v3da_submit_nop(c)
           \/ \E b \in BO :
                  v3da_bo_create(c, b) \/ import_v3dbuf(c, b) \/ v3da_bo_close(c, b)
           \/ \E bs \in SUBSET BO : v3da_bo_attach_fence(c, bs)
    \/ \E m \in {"serial", "pipeline"} : v3da_set_mode(m)
    \/ EventRound

JobsSpec == JobsInit /\ [][JobsNext]_srv

\* A job leaves its queue: it is done, or the watchdog ends it.
Retires == \E q \in Queue : srv.active[q] # NoJob /\ srv'.active[q] # srv.active[q]

\* Weak fairness of Retires, which is enabled exactly while something runs: the
\* hardware raises an interrupt for what it finishes, and the event thread never
\* sleeps longer than the watchdog's time.
JobsFairness ==
    \/ []<>(\A q \in Queue : srv.active[q] = NoJob)
    \/ []<><<Retires>>_srv

FairJobsSpec == JobsSpec /\ JobsFairness

---------------------------------------------------------------------------
(* Properties                                                              *)

Running(q) == srv.active[q] # NoJob

\* reap_failed_heads() completed a later render of the client while j ran.
Overtaken(j) ==
    /\ j.q = "render" /\ srv.active["render"] = j
    /\ srv.completed[j.slot]["render"] > j.seq

\* "Within a slot each queue completes in seqno order" (v3da_proto.h): no job
\* that is queued or running has a signalled fence.
SeqnoOrder == \A j \in Jobs(srv) : ~v3da_fence_signaled(srv, FenceOf(j))

\* What is left of that order when reap_failed_heads() is taken as it is: only
\* the render that is running may have a signalled fence, and only because a
\* failed later render of its client overtook it.
SignalledOrOvertaken ==
    \A j \in Jobs(srv) : v3da_fence_signaled(srv, FenceOf(j)) => Overtaken(j)

\* A signalled fence never becomes pending again, across deaths, resets and the
\* reuse of a slot, but for the fence of a render that overtook another.
FenceNeverRetracted ==
    [][\A c \in Slot, q \in Queue :
           /\ srv'.gen[c] = srv.gen[c]
           /\ ~(q = "render" /\ Running(q) /\ Overtaken(srv.active[q]))
           => srv'.completed[c][q] >= srv.completed[c][q]]_srv

\* Every fence handed out by a client that has died is signalled, or will be
\* with the job it left on the hardware (v3da_jobs_client_gone()).
NoLostFence ==
    \A c \in Slot, q \in Queue :
        /\ ~srv.used[c] /\ srv.completed[c][q] < srv.next_seq[c][q]
        => Running(q) /\ srv.active[q].slot = c

\* The memory of a BO is not reused while a job that names it is on the GPU:
\* the pin of its last job keeps it, and for the bin of a dead client, whose
\* render is discarded, the quarantine.  There is a pin per mention by a job that
\* is still to be done, no more and no less.
NoUseAfterFree ==
    /\ \A q \in Hw : Running(q) => \A b \in srv.active[q].uses : srv.bo[b].state # "free"
    /\ \A b \in BO :
           /\ srv.bo[b].inflight = Cardinality({j \in Jobs(srv) : b \in j.bos})
           /\ srv.bo[b].inflight > 0 => srv.bo[b].state = "live"

NobodyDied == \A c \in Slot : srv.gen[c] > 0 => srv.used[c] /\ srv.gen[c] = 1

\* v3da_bo_implicit_deps(): jobs of two clients that share a BO are never on the
\* GPU together, as long as no client has died and no render was overtaken.
ClientsTakeTurns ==
    NobodyDied =>
        \A p, q \in Hw :
            /\ Running(p) /\ Running(q)
            /\ srv.active[p].slot # srv.active[q].slot
            /\ srv.active[p].uses \intersect srv.active[q].uses # {}
            => Overtaken(srv.active[p]) \/ Overtaken(srv.active[q])

\* Every job is done in the end, whatever dies or wedges: dependencies point to
\* older jobs only, and each fence they name is signalled.
JobsDrain == []<>(Jobs(srv) = {})

===========================================================================
