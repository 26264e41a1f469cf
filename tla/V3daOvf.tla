------------------------------- MODULE V3daOvf ------------------------------
(***************************************************************************)
(* Overflow memory of the binner (src/gpu/rpi4-v3d-async).  A binner that  *)
(* runs out of memory stalls and raises OUTOMEM.  The interrupt handler    *)
(* hands it the chunk that the event thread has staged, or counts a miss   *)
(* that the event thread serves from the pool.  The event thread learns    *)
(* later what was handed out, and must give it to the job that got it,     *)
(* from whose bin it passes to its render, before it frees or re-arms      *)
(* anything.                                                               *)
(*                                                                         *)
(* The handler takes no lock: it runs between any two accesses of the      *)
(* event thread to the words they share, which are the steps of the thread *)
(* here.  It is itself one step, a few register accesses with interrupts   *)
(* off: no GPU reset and no round of the thread fits into it on another    *)
(* core.  Frames are the CL submissions of one client, in order.           *)
(***************************************************************************)
EXTENDS Naturals, FiniteSets

CONSTANTS
    Chunk,      \* chunks of the pool
    NFrames,    \* frames ever submitted
    MaxOom,     \* stalls of a frame
    NoChunk

ASSUME OvfAssumption ==
    /\ IsFiniteSet(Chunk) /\ NoChunk \notin Chunk
    /\ NFrames \in Nat /\ MaxOom \in Nat

VARIABLES
    free,         \* srv.ovf.free_head
    staged,       \* srv.ovf.staged
    bin_waiting,  \* srv.ovf.bin_waiting
    stage_va,     \* hw.ovf_stage_va
    consumed,     \* hw.ovf_consumed
    missed,       \* hw.ovf_missed
    sts,          \* CTL_INT_STS
    ev_core,      \* hw.ev_core
    core,         \* the events of this round
    pc,           \* the event thread
    phase,        \* 1: for the events, 2: for the tick
    frame,        \* frame[f]: where the frame is
    failed,       \* frames whose bin has failed (dep_error of the render)
    orphan,       \* frames on the binner whose render was discarded
    list,         \* list[f]: the chunks of the frame's job
    bin, render,  \* the units: "idle", "run", "stall" or "done"
    ooms,         \* stalls of the frame on the binner
    gpu,          \* the chunks the binner was pointed at (ghost)
    extra         \* a binner that was not stalled was given memory (ghost)

thread == <<free, staged, bin_waiting, core, pc, phase, frame, failed, orphan, list>>
unit == <<bin, render, ooms, gpu, extra>>
word == <<stage_va, consumed, missed, sts, ev_core>>
ovars == <<thread, unit, word>>

Frame == 1 .. NFrames
NoFrame == 0

OvfInit ==
    /\ free = Chunk /\ staged = NoChunk /\ bin_waiting = 0
    /\ stage_va = NoChunk /\ consumed = NoChunk /\ missed = 0
    /\ sts = {} /\ ev_core = {} /\ core = {}
    /\ pc = "idle" /\ phase = 1
    /\ frame = [f \in Frame |-> "new"] /\ failed = {} /\ orphan = {}
    /\ list = [f \in Frame |-> {}] /\ gpu = [f \in Frame |-> {}]
    /\ bin = "idle" /\ render = "idle" /\ ooms = 0 /\ extra = FALSE

On(place) == {f \in Frame : frame[f] = place}
Active(place) == IF On(place) = {} THEN NoFrame ELSE CHOOSE f \in On(place) : TRUE
Staged == IF staged = NoChunk THEN {} ELSE {staged}
First(S) == CHOOSE f \in S : \A g \in S : f <= g

---------------------------------------------------------------------------
(* The hardware, and its handler                                           *)

BinStall ==
    /\ bin = "run" /\ ooms < MaxOom
    /\ bin' = "stall" /\ ooms' = ooms + 1
    /\ sts' = sts \union {"OUTOMEM"}
    /\ UNCHANGED <<thread, render, gpu, extra, stage_va, consumed, missed, ev_core>>

BinEnd ==
    /\ bin = "run"
    /\ bin' = "done" /\ sts' = sts \union {"FLDONE"}
    /\ UNCHANGED <<thread, render, ooms, gpu, extra, stage_va, consumed, missed, ev_core>>

RenderEnd ==
    /\ render = "run"
    /\ render' = "done" /\ sts' = sts \union {"FRDONE"}
    /\ UNCHANGED <<thread, bin, ooms, gpu, extra, stage_va, consumed, missed, ev_core>>

\* The chunks cs are written to PTB_BPOA, one after the other.
Grant(cs) ==
    LET f == Active("bin")
    IN IF cs = {} THEN UNCHANGED <<bin, gpu, extra>>
       ELSE /\ bin' = IF bin = "stall" THEN "run" ELSE bin
            /\ gpu' = IF f = NoFrame THEN gpu ELSE [gpu EXCEPT ![f] = @ \union cs]
            /\ extra' = (extra \/ bin # "stall" \/ Cardinality(cs) > 1)

\* Slip: a stall that was served from the stage counts as a miss, too.
ServiceCountsAll ==
    /\ sts # {}
    /\ sts' = {} /\ ev_core' = ev_core \union sts
    /\ IF "OUTOMEM" \notin sts
       THEN UNCHANGED <<stage_va, consumed, missed>> /\ Grant({})
       ELSE /\ missed' = missed + 1
            /\ stage_va' = NoChunk
            /\ consumed' = IF stage_va = NoChunk THEN consumed ELSE stage_va
            /\ Grant({stage_va} \ {NoChunk})
    /\ UNCHANGED <<thread, render, ooms>>

\* hw_service(), in the interrupt or in the poll of the event thread.
hw_service ==
    /\ sts # {}
    /\ sts' = {} /\ ev_core' = ev_core \union sts
    /\ IF "OUTOMEM" \notin sts
       THEN UNCHANGED <<stage_va, consumed, missed>> /\ Grant({})
       ELSE IF stage_va # NoChunk
       THEN /\ stage_va' = NoChunk /\ consumed' = stage_va
            /\ Grant({stage_va}) /\ UNCHANGED missed
       ELSE missed' = missed + 1 /\ UNCHANGED <<stage_va, consumed>> /\ Grant({})
    /\ UNCHANGED <<thread, render, ooms>>

---------------------------------------------------------------------------
(* The event thread                                                        *)

\* v3da_submit() queues the two jobs of a frame and runs the scheduler; like the
\* death of a client it holds the lock of the event thread.
v3da_submit(f) ==
    /\ pc = "idle"
    /\ frame[f] = "new" /\ \A g \in Frame : g < f => frame[g] # "new"
    /\ frame' = [frame EXCEPT ![f] = "queued"]
    /\ pc' = "sched"
    /\ UNCHANGED <<free, staged, bin_waiting, core, phase, failed, orphan, list, unit, word>>

\* v3da_jobs_client_gone() discards what has not been kicked, the render of a
\* running bin included.
v3da_jobs_client_gone ==
    /\ pc = "idle"
    /\ LET gone == On("queued") \union On("binned")
       IN /\ gone \union (On("bin") \ orphan) # {}
          /\ frame' = [f \in Frame |-> IF f \in gone THEN "over" ELSE frame[f]]
          /\ free' = free \union UNION {list[f] : f \in gone}
          /\ list' = [f \in Frame |-> IF f \in gone THEN {} ELSE list[f]]
    /\ orphan' = On("bin")
    /\ pc' = "sched"
    /\ UNCHANGED <<staged, bin_waiting, core, phase, failed, unit, word>>

\* A round starts: the events so far are taken.
take ==
    /\ pc = "idle"
    /\ core' = ev_core /\ ev_core' = {}
    /\ pc' = IF "OUTOMEM" \in ev_core \/ On("bin") # {} THEN "consumed" ELSE "events"
    /\ phase' = 1
    /\ UNCHANGED <<free, staged, bin_waiting, frame, failed, orphan, list, unit,
                   stage_va, consumed, missed, sts>>

\* Slip: a chunk that was handed out goes back to the pool.
ConsumedIsFree ==
    /\ pc = "consumed"
    /\ consumed' = NoChunk
    /\ staged' = IF consumed = staged THEN NoChunk ELSE staged
    /\ free' = free \union ({consumed} \ {NoChunk})
    /\ pc' = "missed"
    /\ UNCHANGED <<list, bin_waiting, core, phase, frame, failed, orphan, unit,
                   stage_va, missed, sts, ev_core>>

\* ovf_service(), first part: what the handler handed out.
ovf_service_consumed ==
    /\ pc = "consumed"
    /\ consumed' = NoChunk
    /\ LET f == Active("bin")
       IN IF consumed = NoChunk THEN UNCHANGED <<staged, list, free>>
          ELSE /\ staged' = IF consumed = staged THEN NoChunk ELSE staged
               /\ IF f # NoFrame
                  THEN list' = [list EXCEPT ![f] = @ \union {consumed}] /\ UNCHANGED free
                  ELSE free' = free \union {consumed} /\ UNCHANGED list
    /\ pc' = "missed"
    /\ UNCHANGED <<bin_waiting, core, phase, frame, failed, orphan, unit,
                   stage_va, missed, sts, ev_core>>

\* Second part: what it could not hand out.
ovf_service_missed ==
    /\ pc = "missed"
    /\ missed' = 0
    /\ LET f == Active("bin")
           waiting == IF f = NoFrame THEN 0 ELSE bin_waiting + missed
           most == IF waiting < Cardinality(free) THEN waiting ELSE Cardinality(free)
       IN \E cs \in SUBSET free :
              /\ Cardinality(cs) = most
              /\ Grant(cs)
              /\ free' = free \ cs
              /\ list' = IF f = NoFrame THEN list ELSE [list EXCEPT ![f] = @ \union cs]
              /\ bin_waiting' = waiting - most
    /\ pc' = "stage"
    /\ UNCHANGED <<staged, core, phase, frame, failed, orphan, render, ooms,
                   stage_va, consumed, sts, ev_core>>

\* Slip: a chunk is staged while the handler may hold the last one.
StageAnyway(fr, st) ==
    IF fr = {} THEN free' = fr /\ staged' = st /\ UNCHANGED stage_va
    ELSE \E c \in fr : free' = fr \ {c} /\ staged' = c /\ stage_va' = c

\* ovf_stage(), on the free chunks fr and the staged chunk st.
ovf_stage(fr, st) ==
    IF st # NoChunk \/ fr = {} THEN free' = fr /\ staged' = st /\ UNCHANGED stage_va
    ELSE \E c \in fr : free' = fr \ {c} /\ staged' = c /\ stage_va' = c

ovf_service_stage ==
    /\ pc = "stage"
    /\ ovf_stage(free, staged)
    /\ pc' = IF phase = 1 THEN "events" ELSE "sched"
    /\ UNCHANGED <<bin_waiting, core, phase, frame, failed, orphan, list, unit,
                   consumed, missed, sts, ev_core>>

\* job_done() of the frames bs on the binner and rs on the renderer: the chunks
\* of a bin are its render's, unless that was discarded.
job_done(bs, rs) ==
    LET over == rs \union (bs \intersect orphan)
    IN /\ frame' = [f \in Frame |-> IF f \in over THEN "over"
                                    ELSE IF f \in bs THEN "binned"
                                    ELSE frame[f]]
       /\ list' = [f \in Frame |-> IF f \in over THEN {} ELSE list[f]]
       /\ orphan' = orphan \ bs
       /\ bin' = IF bs # {} THEN "idle" ELSE bin
       /\ render' = IF rs # {} THEN "idle" ELSE render

FreedBy(bs, rs) == UNION {list[f] : f \in rs \union (bs \intersect orphan)}

\* FLDONE and FRDONE of v3da_jobs_events().
events ==
    /\ pc = "events"
    /\ LET bs == IF "FLDONE" \in core THEN On("bin") ELSE {}
           rs == IF "FRDONE" \in core THEN On("render") ELSE {}
       IN job_done(bs, rs) /\ free' = free \union FreedBy(bs, rs)
    /\ pc' = "tick"
    /\ UNCHANGED <<staged, bin_waiting, core, phase, failed, ooms, gpu, extra, word>>

\* wedge(): the hardware and the words it shares are reset, the staged chunk
\* goes back, and what was on the units is done.
wedge ==
    /\ job_done(On("bin"), On("render"))
    /\ failed' = failed \union On("bin")
    /\ free' = free \union Staged \union FreedBy(On("bin"), On("render"))
    /\ staged' = NoChunk /\ bin_waiting' = 0
    /\ stage_va' = NoChunk /\ consumed' = NoChunk /\ missed' = 0
    /\ sts' = {} /\ ev_core' = {}

\* Slip: nobody looks whether the pool is exhausted.
TickStuckOnly(due, stuck) ==
    /\ pc = "tick"
    /\ stuck => On("bin") \union On("render") # {}
    /\ IF stuck THEN wedge /\ pc' = "sched"
       ELSE /\ pc' = IF bin_waiting > 0 /\ On("bin") # {} THEN "consumed" ELSE "sched"
            /\ UNCHANGED <<frame, failed, orphan, free, list, staged, bin_waiting,
                           word, bin, render>>
    /\ phase' = 2
    /\ UNCHANGED <<core, ooms, gpu, extra>>

\* The watchdog of v3da_jobs_tick(): a unit makes no progress or runs for too
\* long (stuck), or the binner waits for memory that no running render will give
\* back, when its check is due.
tick(due, stuck) ==
    LET exhausted == /\ On("bin") # {} /\ bin_waiting > 0
                     /\ On("render") = {} /\ free = {}
    IN /\ pc = "tick"
       /\ stuck => On("bin") \union On("render") # {}
       /\ IF stuck \/ (due /\ exhausted)
          THEN wedge /\ pc' = "sched"
          ELSE /\ pc' = IF bin_waiting > 0 /\ On("bin") # {} THEN "consumed" ELSE "sched"
               /\ UNCHANGED <<frame, failed, orphan, free, list, staged, bin_waiting,
                              word, bin, render>>
       /\ phase' = 2
       /\ UNCHANGED <<core, ooms, gpu, extra>>

\* The frames whose render is in the FIFO.
Waiting == On("queued") \union (On("bin") \ orphan) \union On("binned")

\* The part of v3da_sched_run() for the two units: renders whose bin failed are
\* done as they come to the head of the FIFO, then one job is kicked on each idle
\* unit.  A kick first folds what the units have raised into the events, but for
\* its own unit's.
reap ==
    /\ pc = "sched"
    /\ LET bad == On("binned") \intersect failed
           dead == {f \in bad : \A g \in Waiting : g < f => g \in bad}
       IN /\ frame' = [f \in Frame |-> IF f \in dead THEN "over" ELSE frame[f]]
          /\ free' = free \union UNION {list[f] : f \in dead}
          /\ list' = [f \in Frame |-> IF f \in dead THEN {} ELSE list[f]]
    /\ pc' = "kick_bin"
    /\ UNCHANGED <<staged, bin_waiting, core, phase, failed, orphan, unit, word>>

Drain(own) ==
    /\ ev_core' = (ev_core \union (sts \ {"OUTOMEM"})) \ {own}
    /\ sts' = sts \intersect {"OUTOMEM"}

kick_bin ==
    /\ pc = "kick_bin"
    /\ IF On("bin") # {} \/ On("queued") = {}
       THEN UNCHANGED <<frame, bin_waiting, free, staged, stage_va, ev_core, sts, bin, ooms>>
       ELSE /\ frame' = [frame EXCEPT ![First(On("queued"))] = "bin"]
            /\ Drain("FLDONE")
            /\ bin_waiting' = 0
            /\ ovf_stage(free, staged)
            /\ bin' = "run" /\ ooms' = 0
    /\ pc' = "kick_render"
    /\ UNCHANGED <<core, phase, failed, orphan, list, render, gpu, extra, consumed, missed>>

kick_render ==
    /\ pc = "kick_render"
    /\ IF On("render") # {} \/ On("binned") = {}
       THEN UNCHANGED <<frame, ev_core, sts, render>>
       ELSE /\ frame' = [frame EXCEPT ![First(On("binned"))] = "render"]
            /\ Drain("FRDONE")
            /\ render' = "run"
    /\ pc' = "idle"
    /\ UNCHANGED <<free, staged, bin_waiting, core, phase, failed, orphan, list, bin, ooms,
                   gpu, extra, stage_va, consumed, missed>>

round ==
    \/ take \/ ovf_service_consumed \/ ovf_service_missed \/ ovf_service_stage \/ events
    \/ \E due, stuck \in BOOLEAN : tick(due, stuck)
    \/ reap \/ kick_bin \/ kick_render

OvfNext ==
    \/ BinStall \/ BinEnd \/ RenderEnd \/ hw_service
    \/ \E f \in Frame : v3da_submit(f)
    \/ v3da_jobs_client_gone
    \/ round

OvfSpec == OvfInit /\ [][OvfNext]_ovars

\* The handler and the event thread run; a render ends, or the watchdog finds it
\* stuck; the check of the binner is due again and again.
OvfFairness ==
    /\ WF_ovars(hw_service) /\ WF_ovars(round) /\ WF_ovars(RenderEnd)
    /\ SF_ovars(tick(TRUE, FALSE))

FairOvfSpec == OvfSpec /\ OvfFairness

---------------------------------------------------------------------------
(* Properties                                                              *)

\* "A chunk is FREE, STAGED (armed for the IRQ handler), or owned by exactly
\* one job" (v3da.h).
OneOwner ==
    /\ free \union Staged \union UNION {list[f] : f \in Frame} = Chunk
    /\ free \intersect Staged = {}
    /\ \A f \in Frame :
           /\ list[f] \intersect (free \union Staged) = {}
           /\ \A g \in Frame : f # g => list[f] \intersect list[g] = {}

\* Memory that a binner was pointed at stays with its frame until the render,
\* which reads the tile lists in it, is over: it is on the frame's list, or still
\* counted as staged because the event thread has yet to hear of it.
TileListsKept ==
    \A f \in On("bin") \union (On("binned") \ failed) \union On("render") :
        gpu[f] \subseteq list[f] \union (IF frame[f] = "bin" THEN Staged ELSE {})

\* "Two grants for one stall would re-point a binner that already runs on the
\* first chunk" (v3da_hw_drain()): only a stalled binner gets memory.
OneGrantPerStall == ~extra

\* A stalled binner gets memory or is reset.
StallEnds == bin = "stall" ~> bin # "stall"

=============================================================================
