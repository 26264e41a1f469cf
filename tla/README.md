# Verification of phoenix-rtos-devices: terminals and render server

TLA+ models of the terminal stack of this repository and of its asynchronous
render server, the TLC runs that check them on small instances, and TLAPS proofs
of the main results for every value of the constants. `PROJECT.json` maps each
definition to the source lines it stands for.

## 1. Inventory

The repository holds the user-space device drivers of Phoenix-RTOS: about 180
thousand lines of C in some thirty directories. A driver is a process that
registers a port, answers messages (`mtRead`, `mtWrite`, `mtDevCtl`, ...) from a
few threads and has one or more threads for its hardware. Most of it is
register programming; what can go wrong between threads sits in a few places.

| Part | State that matters | Who changes it | What is hard |
|---|---|---|---|
| `tty/libtty` ring (`fifo.h`) | head, tail, bytes | callers, under a lock | wrap, full against empty, unchecked pops |
| `tty/libtty` core and line discipline | rx and tx fifo, `TF_HAVEBREAK`, `TF_LITERAL`, `TF_CLOSING`, termios, two conditions | readers, writers, ioctls, driver | flag against fifo, mode changes under sleepers, lost wakeups, close |
| `tty/libtty` sessions | `tty->sid`, `tty->pgrp`, the kernel's mark | ioctls on several terminals, exiting processes | several system calls per operation, stale ids |
| `tty/grlib-uart` | libtty, UART fifos, interrupt mask | interrupt handler, thread, clients | masking against sleeping, bursts |
| `tty/pl011-tty` | libtty, UART fifos, framebuffer mode and shadow, keyboard owner | polling thread, keyboard thread, ioctls | two feeders, batches, handing devices over |
| `tty/libtty/libtty-lf-fifo.h`, `multi/imxrt-multi/uart.c` | lock-free ring | interrupt handler, thread | overwriting push against pop |
| other UARTs, `multi/*` ttys | as grlib-uart | as grlib-uart | variants of the same loops |
| `tty/usbkbd`, `usbmouse`, `usbacm` | fifo, `rxState`, reference count | URB completions, readers, unplug | unplug under sleepers |
| `tty/pc-tty` | virtual terminals, event queue | keyboard and mouse interrupts | VT switch |
| `libklog` | one flag | pump thread, ioctl | nothing beyond one word |
| `misc/shmsrv` | list of shared objects, exports | one thread | partial failure, lifetime |
| `gpu/rpi4-v3d-async` jobs and fences | a FIFO per client and queue, one job per queue, counters, generations | two dispatch threads, event thread, dying clients, GPU | order of completion, deaths, resets, reused slots |
| `gpu/rpi4-v3d-async` buffer objects | references, pins, quarantine, export windows | the same and a name server thread | lifetimes, imports in two critical sections |
| `gpu/rpi4-v3d-async` parked requests | list of waits, syncobjs, deadlines | dispatch threads, event thread, clock | answered once, by whom, at all |
| `gpu/rpi4-v3d-async` overflow memory | pool, staged chunk, words shared with the handler | interrupt handler, event thread | one owner per chunk, stalls |
| `video/rpi4-kms` | page flips, buffers | clients, vblank thread | lifetimes, ordering |
| `usb/ehci`, `usb/xhci`, `usb/libusbclient` | transfer rings | interrupt threads | hardware rings |
| `storage/*` | caches, request queues | clients, hardware | chip specific |
| `wifi`, `bt`, `net` | firmware protocols | closed firmware | other side unknown |
| `adc`, `audio`, `can`, `display`, `dma`, `gpio`, `i2c`, `mag`, `otp`, `pcie`, `rtc`, `sdio`, `sensors`, `spacewire`, `spi`, `temp`, `watchdog` | registers, little else | one lock around one sequence | little survives a call |

The terminals and the render server are the core chosen here. Every console goes
through `libtty`, every GPU client through `rpi4-v3d-async`; their callers really
are concurrent, and most of their hazards depend on an order of steps that no
test produces.

## 2. Modules

```
Fifo ------- FifoRing ---- BoundedQueue     (the ring implements a queue)
  |             FifoLemmas, FifoProofs
Cond ------- LfFifo
  |
Libtty ----- MCLibtty, MCLibttySides, LibttyProofs
  |
GrlibUart, Pl011Tty ----- MCGrlibUart, MCPl011Tty  (implement Libtty)
                          MCGrlibSides  (GrlibUart, FifoRing and LfFifo)

 LibttySession ---------- MCLibttySession, LibttySessionProofs

 V3daJobs, V3daBo ------- MCV3daJobs
 V3daWaits, V3daOvf ----- MCV3daServer, V3daWaitsProofs, V3daOvfProofs
```

**Fifo** has the operations of `fifo.h` as operators on a record `[head, tail,
data]`, with the mask as a modulus. **FifoRing** is the state machine of one
ring whose slots start with whatever `malloc()` left there; its actions carry
the tests the callers make. **BoundedQueue** is what a ring promises.

**Cond** (external) is the kernel's condition variable, modelled from its use:
a signal wakes one waiter, any of them; with no waiter it is remembered once,
which drivers that sleep without testing rely on; a broadcast wakes all.

**Libtty** is the library. `lock` says who holds `tty->lock`. A loop that keeps
the lock makes one step per iteration; `condWait()` is two steps, going to sleep
and getting the lock back. `pc`, `len` and `arg` are the local state of a call,
`arg` with what the code reads once on entry (`VMIN`, `VTIME`, the free space
needed). The receive ring is modelled with its bytes, since which byte is a
break character matters; of the transmit ring only the count is, since what
is in it does not. Bytes are named by their role: `NL`, `CR`, `EOF`, `EOL`,
`ERASE`, `KILL`, `INTR`, `LNEXT`, or anything else. Actions:

| Action | Code |
|---|---|
| `ReadCall`, `CanonTest`, `CanonWake`, `CanonPop`, `CanonFull` | `_libtty_read_nonblock()`, `_libttydisc_readCanon()` |
| `RawPop`, `RawSleep`, `RawWake`, `RawReturn`, `RawTimeout`, `RawExpire` | `_libttydisc_readRaw()` |
| `WriteCall`, `WriteChar`, `WriteSleep`, `WriteWake`, `WriteReturn` | `_libtty_write()`, `_libttydisc_writeOproc()` |
| `Drain`, `Flush`, `SetTermios`, `Close` | `_libtty_drain()`, `_libtty_flush()`, `TCSETS*`, `libtty_close()` |
| `libtty_putchar` and its `Put...` cases | `_libtty_putchar()`, `_libttydisc_echo()`, `_libttydisc_rubchar()` |
| `HwLock`, `HwPutChar`, `HwPopChar`, `HwWake`, `HwUnlock`, `HwInterrupt` | what a driver may do with the `_libtty_` interface |

The last row is the *most general driver*: any order of calls, with the lock
held, popping only what is there. A property of `Libtty` therefore holds under
every driver that keeps to this contract, and the two real drivers are shown to
keep to it (`UsesLibtty`, which is `Libtty`'s own `Spec` as a property of the
driver's specification; the mapping is the identity on the shared variables).

`stale` is a history variable: a break character has left the receive ring in
one of the two ways that do not touch `TF_HAVEBREAK` (an overrun, or a
`readRaw()` that began before the tty became canonical).

**GrlibUart** adds the interrupt handler, the thread's loop statement by
statement, and the UART's own fifos (external). **Pl011Tty** adds the polling
thread, the keyboard bridge, and the lending of framebuffer and keyboard; a
surface is only known to be `complete` or `partial`.

**LibttySession** has `tty->sid` and `tty->pgrp` of several terminals. One step
is one system call and what libtty does up to the next: each terminal has its
own lock, so nothing prevents other terminals' calls, forks and exits in
between. The kernel (external) has processes, sessions, groups and one mark per
session, "has a controlling terminal", which it drops when the leader exits.

**LfFifo** is the lock-free ring of `libtty-lf-fifo.h` between the interrupt
handler and the thread of `imxrt-multi`'s UART. The processor has one core, so a
handler runs to its end and a burst is one step; the thread makes one step per
atomic access of `lf_fifo_empty()` and `lf_fifo_pop()`. Bytes are numbered in
the order of arrival, so that order, repetition and loss can be told.

The four modules of `gpu/rpi4-v3d-async` look at one server from four sides. Its
state is a global structure under one lock which a handler holds from beginning
to end, so a handler is one action; what is finer is what the code does without
the lock.

**V3daJobs** keeps the server's state in one record `srv` and builds each
handler from operators on that record which have the names of the functions:
`v3da_submit()` makes the jobs, `v3da_bo_implicit_deps()` their dependencies,
`v3da_bo_mark_use()` the last use of the BO, `v3da_sched_run()` runs at the end. A
CL submission is a bin and a render. `v3da_event_thread` is one round: which
running jobs are done, whether one is stuck (and the GPU is reset by `wedge`),
quarantine, scheduler. A fence is slot, queue, sequence number and generation,
and signals as `v3da_fence_signaled()` says.

| Action | Code |
|---|---|
| `client_open`, `client_close` | the same, with `v3da_slot_assign()`, `v3da_jobs_client_gone()`, `v3da_bo_client_gone()` |
| `v3da_submit`, `v3da_submit_nop`, `v3da_bo_attach_fence` | the same, each ending in `v3da_sched_run()` |
| `v3da_bo_create`, `import_v3dbuf`, `v3da_bo_close` | the references a job may meet |
| `v3da_set_mode` | serial and pipelined scheduling |
| `v3da_event_thread` | `v3da_jobs_events()`, `v3da_jobs_tick()`, `v3da_bo_quarantine_poll()`, `v3da_sched_run()` |

**V3daBo** has everybody who may hold a buffer object: creator, importing
clients, descriptors of its name in `/v3dbuf`, jobs. `import_map` and
`import_install` are the two critical sections of an import from the display
server, with the mapping made in between. Whether the GPU has passed a
quarantined BO is left open here; `V3daJobs` has the counters that decide it.

**V3daWaits** has the requests that wait: `v3da_wait_park`, the ways out of
`srv.waits` (`waits_scan`, `client_close`, `quit_request`, all through
`wait_claim`), and the answers, which are sent without the lock, one step each.
A fence is a name here. A BO wait is a wait for the fences of the BO's last uses.

**V3daOvf** has the binner's overflow memory. The event thread makes a step for
each access to a word it shares with the interrupt handler, the handler is one
step between any two of them. `gpu` and `extra` are ghosts: what the binner was
pointed at, and whether it was given memory it had not asked for.

Operators marked *Slip* are plausible mistakes, defined beside what they
would replace; nothing uses them except the sensitivity checks listed as
`mutants`, each of which makes the property it is listed for fail.

## 3. What the runs check

| Run | Instance | Properties | Shows |
|---|---|---|---|
| `libtty` | 4 slots; 1 reader under canonical / VEOL / raw settings, 2 raw readers with three VMIN/VTIME settings, or a writer and a drainer | `BreakNeverMissed`, `NoPhantomBreak`, `CanonPopHasByte`; `RawReadsMin` | the flag that readers trust and the bytes in the ring stay in step, whatever TCSETS, flushes, kills, quoted bytes and overruns do; a raw read brings VMIN bytes although another reader steals from the ring |
| `grlib` | 1 reader or 1 writer, 4 slots, UART of 2 bytes; a ring of 4 by itself; a lock-free ring of 4 with 10 bytes in bursts of up to 5 | `RxServiced`, `NoMissedSpace`, `UsesLibtty`, `RestsWhenQuiet`, `CallsEnd`; `QueueSpec`; `LfInOrder`, `LfNoMissedByte` | no wakeup and no interrupt is lost; the thread comes to rest; lines are read, writes end, close releases everybody; the ring is a queue; the lock-free ring gives its bytes in order, loses only what it reports, and its thread sleeps only when it is empty |
| `pl011_keys` | 1 reader, keys `x`, VEOF, VERASE in pairs, line `x` | `NoMissedLine`, `UsesLibtty` | two threads may feed one tty; bursts of keys lose no wakeup |
| `pl011_console` | 1 writer, batch of 2, framebuffer | `NothingLost`, `AppKeysPrivate`, `UsesLibtty`, `WriteEnds`, `KbdHandedOver` | batches lose no wakeup; lending the screen and the keyboard loses no output and leaks no key |
| `session` | 3 terminals, 2 pids | `AtMostOneCtty`, `MarkHasTty`, `TakenOnlyFromDead` | one terminal per session, and nobody takes it from a live one |
| `v3da_jobs` | 2 clients, 1 BO and up to 4 jobs in six plans; or 2 BO entries, 2 descriptors, 2 jobs, 2 importing threads | `SignalledOrOvertaken`, `FenceNeverRetracted`, `NoLostFence`, `NoUseAfterFree`, `JobsDrain`; `RefsMatch`, `WindowsMatch`, `OneImport` | fences mean what they say, through deaths, resets and reused slots; no memory is reused under a running job; every job ends; references are counted right |
| `v3da_server` | 4 requests of 1 client or 3 of 2, 2 dispatch threads on 2 ports; or 2 chunks, 2 frames, 3 stalls each | `OwedOnce`, `ParkedHasClient`, `AnsweredWhereAsked`, `NoMissedWait`, `EveryRequestAnswered`; `OneOwner`, `TileListsKept`, `OneGrantPerStall`, `StallEnds` | a request is answered once, where it was asked, in the end; a chunk has one owner, tile lists stay until they were read, a stall gets one chunk and ends |
| `libtty_overrun` | violation | `HaveBreakMeansBreak` | finding 1 |
| `grlib_nonblock` | violation | `TxAnnounced` | finding 2 |
| `pl011_burst` | violation | `NoMissedLine` | finding 3 |
| `v3da_turns` | violation | `ClientsTakeTurns` | finding 4 |
| `v3da_order` | violation | `SeqnoOrder` | finding 5 |

Parts that share no state are checked in one run as *subjects*: the subject is
chosen in the initial state and only its actions are enabled. The
type invariants of `Libtty`, `LibttySession` and `V3daWaits`, `MeasuresAgree` and
`LockHeldInside` are in no run: they are proved (section 5).

**Bounds.** A ring of four slots is the smallest that libtty can use (a power of
two with room for a two-byte expansion): it fills, wraps and overruns within a
few keys. `LIBTTYDISC_WRITE_OPROC_MAXLEN` and the watermark are scaled down with
it, keeping their order (`OprocMax <= Watermark < Size`); how many blanks a tab is
written as (`TabLen`) is a number of its own, as in the code, and nothing in the
model says that `OprocMax` is enough for it. The UART's fifos have one or two
bytes, so a burst can hold a newline and a byte after it and the transmit loop can
stop at a full UART as well as at an empty tty. Three
terminals let two acquisitions race while a third is released, and two
processes are enough for a leader and a child that becomes one; terminals are
interchangeable, hence the symmetry set. What a side of `MCLibttySides` and
`MCGrlibSides` leaves idle is a conjunct of its next-state relation (`Kept` in the
former): readers of lines, raw readers and writers each run under the settings
and with the bytes that their question is about. The writing side of `libtty` is
there for the writes, drains and echoes themselves; what they promise is asked
above a real driver. No other state or action constraint is used.
All state spaces are finite by the sizes above and by the bounds the modules name
(`MaxPush`, `MaxJobs`, `MaxGen`, `MaxHandle`, `MaxOom`, and the finite `Rid`).

A burst of five is more than a whole turn of a lock-free ring of four. The plans
of `v3da_jobs` give each question the requests it needs, since all of them at once are out of reach: `lone` lets a later render of
one client overtake an earlier one, `turns` and `flush` have two clients share
the BO, `mixed` has every kind of job, `join` gives a dead client's slot to the
next and joins fences, `mode` switches the scheduling under queued jobs. Two
chunks and two frames let one frame hold the pool while the other stalls, which
is how the pool runs dry; three stalls use up the staged chunk, the pool and
more. In `v3da_jobs` a CSD unit always starts (`CsdStuck = FALSE`); section 4
says what happens otherwise. The violations of the render server are found under
`JobsSpec` itself, with every request allowed.

Each run types only the bytes its question needs; between them every case of
`_libtty_putchar()` occurs, and each kind of break character: NL in `grlib`
(from a CR), VEOL in `libtty`, VEOF in `pl011_keys`. In the code the longest
expansion is 8 bytes and the watermark 16.

**Fairness.** A thread that holds the lock runs on (weak fairness), and one that
queues for the lock gets it in the end (strong fairness, as the mutexes of the
kernel serve those who wait). A driver's thread is a loop without exit; the
device transmits what it was given and raises its interrupt. Nobody is obliged
to type, to call, to flush, to close or to change settings. One premise is
explicit in the formulas because the code does not guarantee it: `ThreadRests`,
in front of `CallsEnd`, since grlib-uart's thread gives up the lock only when the
line pauses and the transmit fifo is empty. As long as no byte arrives it does,
which `RestsWhenQuiet` checks. Weak fairness of a whole loop body is asked, never
of single branches.

In the render server the event thread goes round: its `condWait()` has a timeout
of at most `IDLE_TIMEOUT_US`, less than the watchdog's period. A job that runs is done or is ended by the
watchdog (`JobsFairness`, written out as "nothing runs, or something retires,
again and again", which is weak fairness of retiring because retiring is
enabled exactly while something runs). Deadlines pass, and claimed answers are
sent. For the overflow memory the handler and the thread run, a render ends, and
the check of a stalled binner falls due again and again: every `WD_TICK_US` while
a job runs, and the thread never sleeps longer than `IDLE_TIMEOUT_US`. That is
strong fairness, an assumption: the checks do not for ever fall into the moments
in which the binner is served. No client is obliged to do anything.

`NoMissedLine` and `NoMissedSpace` are the safety side of the wakeups: whoever
sleeps although what it waits for is there has a signal coming. They are stated
for a lone reader or writer, which is what one `condSignal()` per burst can
serve. `pl011_keys` and `grlib` check them for the side where a burst is
at stake; `CallsEnd` and `WriteEnds` fail as well when such a wakeup is lost.

## 4. Findings

1. **Overrun leaves `TF_HAVEBREAK` set** (`libtty_disc.c:295`). A full receive
   ring drops its oldest byte; if that was the only break character the flag
   stays, against `libtty.h:92`, and the next canonical read pops without end
   of line and past the end of the ring.
2. **A short non-blocking write tells nobody** (`libtty.c:347`). With O_NONBLOCK the
   loop is left by `goto exit` once the fifo has no room, past
   `CALLBACK(signal_txready)`: the characters already queued stay there while
   grlib-uart's thread sleeps, which has no transmit interrupt to wake it.
   `libtty.h:44` says of the callback "at least one character ready to be sent".
3. **A newline inside a burst on the UART** (`pl011-tty.c:1056`). Each byte
   overwrites `wake_reader`, which the keyboard thread of the same file avoids
   and explains at line 1198.
4. **A client's own earlier job hides another client's** (`v3da_bo.c:628`). A BO
   remembers one use per queue, and a submit waits for the uses of others only.
   A's job runs on a shared BO; B's first job waits for it and becomes the last
   user; B's second job, on another queue, finds only its own fence there and
   runs beside A's job, against `v3da_bo.c:623`: "a submit that names a BO
   another client still uses waits for that use".
5. **A failed render overtakes a running one** (`v3da_jobs.c:622`).
   `reap_failed_heads()` completes a render whose bin failed while an earlier
   render of the same client may still run; the queue's counter jumps ahead, which
   signals the running render's fence, and comes back. `v3da_proto.h:32` promises
   that "within a slot each queue completes in seqno order".

The first is why `NoPhantomBreak` and `CanonPopHasByte` have the proviso
`~stale`; a `readRaw()` overtaken by TCSETS has the same effect
(`libtty_disc.c:510`). Two neighbours were met while the bounds were chosen and
are listed among the hazards: a TCSETS that completes a line wakes nobody
(`libtty.c:770`), so `CallsEnd` is checked with a reader's settings fixed; and
with pids that are reused a stale `tty->sid` can name a new session (`libtty.c:541`), so
`AtMostOneCtty` is checked and proved for `Reuse = FALSE`.

A writer and a drainer share a condition and one signal per burst (`libtty.c:212`).
That costs the writer its wakeup only after a TCOFLUSH, so `NoMissedSpace` and
`CallsEnd` are stated for a lone writer. A TCSETS that turns OPOST on under a sleeping
writer leaves the free space it waits for stale, and an expansion may be cut
short (`libtty.c:337`); no document speaks of either.

In the render server, `Overtaken` is the case of finding 5: `SignalledOrOvertaken`
and `FenceNeverRetracted` say it is the only one. Two neighbours are kept out by a
premise or a constant, and listed among the hazards:

* A dead client's use of a BO that was overwritten in `last[]` is forgotten with
  it, so `ClientsTakeTurns` speaks of behaviours in which nobody died.
* `client_close()` runs the scheduler while the slot still counts as used
  (`v3da_main.c:148`). If the CSD unit does not take the job kicked there, the reset
  that follows completes the client's running jobs as if it lived, and the fences
  of its discarded ones are never signalled, against `v3da_jobs.c:1042`: "Their
  fences complete (with an error) together with the client's in-flight job, or
  now if it has none." With `CsdStuck = TRUE` `NoLostFence` fails.

## 5. What is proved

All proofs are checked by TLAPS with SMT, Zenon and LS4; no statement is assumed
except the named `ASSUME`s on constants, which TLC evaluates in the runs.

* **`FifoProofs`**: `TypeCorrect` and `RingIsQueue`, for every `Size >= 1` and
  every set of bytes. `FifoLemmas` turns the masked arithmetic into cases once
  (`MaskCases`, `RingArith`, `IndexCases`) and then says of each operation what
  it does to `Contents` and to `fifo_has_char`. Refinement does not tell a
  push that lost everything from a flush; `PushAppends` says that it appends.
* **`LibttyProofs`**: `LibttyTypes`, `LibttyLocking`, `LibttyBreakFlag` and
  `LibttyCanonPops`, for any sets of readers, writers and drainers, any ring,
  watermark and settings with `2 <= OprocMax <= Watermark < Size`. The
  inductive invariant `LInv` adds to the properties themselves:
  `havebreak => term.icanon`; that a reader in its pop loop still sees the flag
  (`PopsHaveBreak`, which holds because nobody else runs while it has the lock,
  hence the locking conjunct); and that a writer waits for at least one free
  byte (`NeedsRoom`, without which the transmit fifo could overflow). One lemma
  per group of actions (`ReadStep`, `WriteStep`, `DrainStep`, `ControlStep`,
  `PutChar`, `DriverStep`), resting on what each ring operation does to the set
  of break characters (`BreakPush`, `BreakPopBack`, `BreakCut`, ...).
* **`LibttySessionProofs`**: `OneCtty` and `Undisturbed`, for any numbers of
  terminals and processes, assuming `~Reuse`. The invariant relates the two
  records of ownership: a live owner has the kernel's mark (`OwnerMarked`), a
  release in progress still has it and nothing else (`Releasing`), and what a
  terminal remembers was a leader (`Leaders`, `GroupLeader`).
* **`V3daWaitsProofs`**: `WaitsTypeCorrect`, `EachOwedOnce`, `RightPort`,
  `WaitsHaveClients` and `NoWaitMissed`, for any sets of clients, requests, handles, fences and threads.
  The invariant `OwedInv` counts debts by place rather than as a set: who owes an
  answer has received its request (`Debts`), no request is in two places
  (`Single`), one that was received and not answered is somewhere (`Somebody`),
  and none is answered twice (`Once`). A handler changes this in one of six ways
  (receive and claim, receive and park, claim, answer a wait, answer one's own,
  nothing), each a lemma. `RightPort` needs that a debt carries the port its
  request came from, and `NoWaitMissed` that every change of a fence or syncobj
  is followed by a kick, but for the two the ghost `quiet` marks.
* **`V3daOvfProofs`**: `ChunksHaveOneOwner`, for any pool and any number of frames
  and stalls. The handler moves a chunk behind the books' back; what makes the
  books right is `Armed`: the chunk that is armed or was handed out is the staged
  one, and while one was handed out none is armed.

**Only model-checked:** `V3daJobs` and `V3daBo`; `TileListsKept` and
`OneGrantPerStall`; the lock-free ring; all liveness; the drivers' refinement of
`Libtty` (`UsesLibtty`) and their wakeup invariants; `RawReadsMin`.
Liveness under fairness and `ENABLED` are outside the prover. `V3daJobs` uses
folds over sequences, which the prover cannot unfold without induction; the
others are planned.

## 6. What is not modelled

In libtty: the read that carries its state across calls (`st` other than NULL;
no driver passes one), poll, window size and the ioctls without effect on the
fifos, `libtty_destroy()`, the length of timeouts (a timeout may expire whenever
it is set), `ISTRIP`, `ECHONL`, settings of `ECHOE`/`ECHOCTL`/`ONLCR` other than the
default. In the drivers: setting up clocks, pins and baud rates, the message
loops (they call libtty as the client actions do), drawing text; of
`imxrt-multi`'s UART the transmit loop, beyond the signal that wakes the thread.

In the render server: refused requests; flips, scan-out and the pool of
placements; explicit semaphores beyond the choice of a pending fence to depend
on; the cap of 16 dependencies per job (`V3DA_SUBMIT_MAX_SEMS`), beyond which a
submit drops some and `v3da_bo_attach_fence()` answers `-EBUSY`;
`error_seq`, one word that only remembers the last error; statistics; the
fallback from interrupts to polling, which runs the same `hw_service()`. The
interrupt handler is one step: an execution in which it takes as long as a GPU
reset on another core is left out. A syncobj that is destroyed and created again
between two scans of the event thread is taken for the old one, as in the code.

`uart16550` takes its lock-free ring from another repository. `usbkbd` (unplug
under sleeping readers) and `shmsrv` (a grown object between two exports) are
within reach of these methods and not modelled. The other parts of the
repository are listed in `PROJECT.json` with the reason.

## 7. Plan

1. `UsbKbd`: readers, completions, reference counts and unplug; the same shape
   for `usbacm`.
2. `Shmsrv`: objects, exports and failures of `memExport()`.
3. Poll, and a second reader, in `Libtty`.
4. Proofs: `RawReadsMin` from `LInv`; that `GrlibUart` and
   `Pl011Tty` implement `Libtty`, which carries the theorems of `LibttyProofs`
   over to them; the reference counts of `V3daBo`.
5. Further candidates: flips and vblank of `rpi4-kms`, the pipe of
   `mcxn94x-multi`, event fan-out in `sensors.c`.

## 8. Running

In this directory, `tlc -config MCLibttySides.cfg MCLibttySides` (module and
configuration of each run are in `PROJECT.json`) and `tlapm LibttyProofs.tla`.
