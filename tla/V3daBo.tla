------------------------------- MODULE V3daBo -------------------------------
(***************************************************************************)
(* The references on a buffer object (BO) of the asynchronous render       *)
(* server (src/gpu/rpi4-v3d-async/v3da_bo.c).  A BO is held by its         *)
(* creator, by the clients that imported its /v3dbuf name, by the          *)
(* descriptors of that name, which a thread of its own opens and closes,   *)
(* and by the jobs that name it.  A buffer of another server is imported   *)
(* in two critical sections with a mapping in between, while the client    *)
(* may close, its slot be given to another client, or a second thread      *)
(* import the same buffer.                                                 *)
(*                                                                         *)
(* Which of the quarantined BOs the GPU has passed is the matter of        *)
(* V3daJobs; here any may have.                                            *)
(***************************************************************************)
EXTENDS Naturals, FiniteSets

CONSTANTS
    Client,     \* slots of srv.clients
    Entry,      \* entries of srv.bos
    Name,       \* buffer names of the other server
    Fd,         \* descriptors of /v3dbuf names, in whatever process
    Job,        \* jobs that pin a BO
    Importer,   \* dispatch threads that serve BO_IMPORT
    MaxGen,     \* bound on the generations of a client's slot
    MaxHandle,  \* bound on the generations of a BO's entry
    None        \* no client, no name, no handle

ASSUME BoAssumption ==
    /\ IsFiniteSet(Client) /\ IsFiniteSet(Fd) /\ IsFiniteSet(Job)
    /\ MaxGen \in Nat /\ MaxHandle \in Nat
    /\ None \notin Client \union Name \union (Entry \X Nat)

VARIABLES
    used,       \* clients that are open
    gen,        \* srv.slot_gen
    bo,         \* srv.bos
    bo_gen,     \* generation of the handles of an entry
    window,     \* handles the kernel exports memory for
    fds,        \* the handle a descriptor names
    pins,       \* the BO a job names, and whose job it is
    imp,        \* the imports in progress
    mapped      \* mappings of the other server's buffers

bvars == <<used, gen, bo, bo_gen, window, fds, pins, imp, mapped>>

FreeEntry ==
    [state |-> "free", owner |-> None, ogen |-> 0, sharers |-> {}, refs |-> 0,
     fd_opens |-> 0, exported |-> FALSE, name |-> None, inflight |-> 0]

NoImport == [client |-> None, gen |-> 0, name |-> None]
NoPin == [handle |-> None, client |-> None]

BoInit ==
    /\ used = {} /\ gen = [c \in Client |-> 0]
    /\ bo = [s \in Entry |-> FreeEntry] /\ bo_gen = [s \in Entry |-> 0]
    /\ window = {} /\ mapped = 0
    /\ fds = [d \in Fd |-> None]
    /\ pins = [j \in Job |-> NoPin]
    /\ imp = [t \in Importer |-> NoImport]

---------------------------------------------------------------------------
(* Handles                                                                 *)

Handle(s) == <<s, bo_gen[s]>>

\* bo_lookup(), v3da_bo_find() and bo_by_export() of the handle of entry s.
Live(s) == bo[s].state = "live"
v3da_bo_find(s) == Live(s) /\ bo[s].refs > 0
bo_by_export(s) == v3da_bo_find(s) /\ bo[s].exported

---------------------------------------------------------------------------
(* Operators on the entry b of a BO                                        *)

\* quarantine_begin(), which withdraws the export, and bo_unref().  Slip: the
\* name of a BO that a job still uses is left to the quarantine.
UnrefKeepsName(b) ==
    LET r == b.refs - 1
    IN [b EXCEPT !.refs = r,
                 !.exported = IF r = 0 /\ b.inflight = 0 THEN FALSE ELSE @,
                 !.state = IF r = 0 /\ b.inflight = 0 THEN "quarantine" ELSE @]

bo_unref(b) ==
    LET r == b.refs - 1
    IN [b EXCEPT !.refs = r,
                 !.exported = IF r = 0 THEN FALSE ELSE @,
                 !.state = IF r = 0 /\ b.inflight = 0 THEN "quarantine" ELSE @]

DropOwner(b) == bo_unref([b EXCEPT !.owner = None])
\* Slip: the client stays among those who share the BO.
DropUnnamed(b, c) == bo_unref(b)

DropSharer(b, c) == bo_unref([b EXCEPT !.sharers = @ \ {c}])

\* For n jobs.
v3da_bo_unpin(b, n) ==
    [b EXCEPT !.inflight = @ - n,
              !.state = IF n > 0 /\ b.refs = 0 /\ b.inflight = n THEN "quarantine" ELSE @]

ClientGone(b, c) ==
    LET o == IF b.state = "live" /\ b.owner = c THEN DropOwner(b) ELSE b
    IN IF o.state = "live" /\ c \in o.sharers THEN DropSharer(o, c) ELSE o

\* v3da_bo_quarantine_poll(), and the kernel's windows after the step.
Poll(b, passed) ==
    /\ bo' = [s \in Entry |-> IF s \in passed /\ b[s].state = "quarantine"
                             THEN FreeEntry ELSE b[s]]
    /\ mapped' = mapped - Cardinality({s \in passed : b[s].state = "quarantine"
                                                      /\ b[s].name # None})

\* memUnexport() of the names withdrawn.
Withdraw(b) == window' = {h \in window : b[h[1]].exported}

Settle(b) == Withdraw(b) /\ \E passed \in SUBSET Entry : Poll(b, passed)

---------------------------------------------------------------------------
(* Clients                                                                 *)

client_open(c) ==
    /\ c \notin used /\ gen[c] < MaxGen
    /\ used' = used \union {c}
    /\ gen' = [gen EXCEPT ![c] = @ + 1]
    /\ UNCHANGED <<bo, bo_gen, window, fds, pins, imp, mapped>>

\* The queued jobs of the client are discarded, the running ones go on.
client_close(c) ==
    /\ c \in used
    /\ used' = used \ {c}
    /\ \E drop \in SUBSET {j \in Job : pins[j].client = c} :
           LET n(s) == Cardinality({j \in drop : pins[j].handle = Handle(s)})
           IN /\ pins' = [j \in Job |-> IF j \in drop THEN NoPin ELSE pins[j]]
              /\ Settle([s \in Entry |->
                     LET b == v3da_bo_unpin(bo[s], n(s))
                     IN IF b.state = "live" /\ b.refs > 0 THEN ClientGone(b, c) ELSE b])
    /\ UNCHANGED <<gen, bo_gen, fds, imp>>

---------------------------------------------------------------------------
(* BOs                                                                     *)

\* An entry for client c of generation g, which asked for it.
NewEntry(c, g, name) ==
    [FreeEntry EXCEPT !.state = "live", !.owner = c, !.ogen = g, !.refs = 1,
                      !.name = name]

v3da_bo_create(c, s) ==
    /\ c \in used /\ bo[s].state = "free" /\ bo_gen[s] < MaxHandle
    /\ bo_gen' = [bo_gen EXCEPT ![s] = @ + 1]
    /\ bo' = [bo EXCEPT ![s] = NewEntry(c, gen[c], None)]
    /\ UNCHANGED <<used, gen, window, fds, pins, imp, mapped>>

\* The import of the client or, whoever asks, the creator's handle.
v3da_bo_close(c, s) ==
    /\ c \in used /\ v3da_bo_find(s)
    /\ \/ c \in bo[s].sharers /\ Settle([bo EXCEPT ![s] = DropSharer(@, c)])
       \/ c \notin bo[s].sharers /\ bo[s].owner # None
          /\ Settle([bo EXCEPT ![s] = DropOwner(@)])
    /\ UNCHANGED <<used, gen, bo_gen, fds, pins, imp>>

v3da_bo_export(c, s) ==
    /\ c \in used /\ v3da_bo_find(s)
    /\ bo[s].owner = c \/ c \in bo[s].sharers
    /\ bo[s].name = None
    /\ bo' = [bo EXCEPT ![s].exported = TRUE]
    /\ window' = window \union {Handle(s)}
    /\ UNCHANGED <<used, gen, bo_gen, fds, pins, imp, mapped>>

import_v3dbuf(c, s) ==
    /\ c \in used /\ bo_by_export(s)
    /\ bo[s].owner # c /\ c \notin bo[s].sharers
    /\ bo' = [bo EXCEPT ![s].sharers = @ \union {c}, ![s].refs = @ + 1]
    /\ UNCHANGED <<used, gen, bo_gen, window, fds, pins, imp, mapped>>

---------------------------------------------------------------------------
(* BO_IMPORT of a buffer of the other server, by thread t                  *)

import_find(c, name) ==
    \E s \in Entry : v3da_bo_find(s) /\ bo[s].owner = c /\ bo[s].name = name

\* First critical section, and import_map(), which may also fail.
import_map(t, c, name) ==
    /\ imp[t] = NoImport /\ c \in used
    /\ ~import_find(c, name)
    /\ imp' = [imp EXCEPT ![t] = [client |-> c, gen |-> gen[c], name |-> name]]
    /\ mapped' = mapped + 1
    /\ UNCHANGED <<used, gen, bo, bo_gen, window, fds, pins>>

\* Second one: the client may be gone, or another thread have won.
StillThere(i) == i.client \in used /\ gen[i.client] = i.gen

\* There may be no room for it, either.  Slip: nobody looks again whether another
\* thread was faster.
InstallUnchecked(t, s) ==
    LET i == imp[t]
    IN /\ i # NoImport
       /\ imp' = [imp EXCEPT ![t] = NoImport]
       /\ IF StillThere(i) /\ bo[s].state = "free" /\ bo_gen[s] < MaxHandle
          THEN /\ bo_gen' = [bo_gen EXCEPT ![s] = @ + 1]
               /\ bo' = [bo EXCEPT ![s] = NewEntry(i.client, i.gen, i.name)]
               /\ UNCHANGED mapped
          ELSE mapped' = mapped - 1 /\ UNCHANGED <<bo, bo_gen>>
       /\ UNCHANGED <<used, gen, window, fds, pins>>

import_install(t, s) ==
    LET i == imp[t]
    IN /\ i # NoImport
       /\ imp' = [imp EXCEPT ![t] = NoImport]
       /\ IF StillThere(i) /\ ~import_find(i.client, i.name)
                           /\ bo[s].state = "free" /\ bo_gen[s] < MaxHandle
          THEN /\ bo_gen' = [bo_gen EXCEPT ![s] = @ + 1]
               /\ bo' = [bo EXCEPT ![s] = NewEntry(i.client, i.gen, i.name)]
               /\ UNCHANGED mapped
          ELSE /\ mapped' = mapped - 1
               /\ UNCHANGED <<bo, bo_gen>>
       /\ UNCHANGED <<used, gen, window, fds, pins>>

---------------------------------------------------------------------------
(* v3da_bufns_thread(): the descriptors of the name                        *)

bufns_open(d, s) ==
    /\ fds[d] = None /\ bo_by_export(s)
    /\ fds' = [fds EXCEPT ![d] = Handle(s)]
    /\ bo' = [bo EXCEPT ![s].fd_opens = @ + 1, ![s].refs = @ + 1]
    /\ UNCHANGED <<used, gen, bo_gen, window, pins, imp, mapped>>

bufns_close(d) ==
    /\ fds[d] # None
    /\ fds' = [fds EXCEPT ![d] = None]
    /\ LET s == fds[d][1]
       IN IF Live(s) /\ Handle(s) = fds[d] /\ bo[s].fd_opens > 0
          THEN Settle([bo EXCEPT ![s] = bo_unref([@ EXCEPT !.fd_opens = @ - 1])])
          ELSE UNCHANGED <<bo, window, mapped>>
    /\ UNCHANGED <<used, gen, bo_gen, pins, imp>>

---------------------------------------------------------------------------
(* Jobs                                                                    *)

v3da_bo_pin_for_job(j, c, s) ==
    /\ pins[j] = NoPin /\ c \in used /\ v3da_bo_find(s)
    /\ pins' = [pins EXCEPT ![j] = [handle |-> Handle(s), client |-> c]]
    /\ bo' = [bo EXCEPT ![s].inflight = @ + 1]
    /\ UNCHANGED <<used, gen, bo_gen, window, fds, imp, mapped>>

job_done(j) ==
    /\ pins[j] # NoPin
    /\ pins' = [pins EXCEPT ![j] = NoPin]
    /\ LET s == pins[j].handle[1]
       IN IF Live(s) /\ Handle(s) = pins[j].handle
          THEN Settle([bo EXCEPT ![s] = v3da_bo_unpin(@, 1)])
          ELSE UNCHANGED <<bo, window, mapped>>
    /\ UNCHANGED <<used, gen, bo_gen, fds, imp>>

event_poll == Settle(bo) /\ UNCHANGED <<used, gen, bo_gen, fds, pins, imp>>

---------------------------------------------------------------------------

BoNext ==
    \/ \E c \in Client :
           \/ client_open(c) \/ client_close(c)
           \/ \E s \in Entry :
                  \/ v3da_bo_create(c, s) \/ v3da_bo_close(c, s)
                  \/ v3da_bo_export(c, s) \/ import_v3dbuf(c, s)
                  \/ \E j \in Job : v3da_bo_pin_for_job(j, c, s)
           \/ \E t \in Importer, n \in Name : import_map(t, c, n)
    \/ \E t \in Importer, s \in Entry : import_install(t, s)
    \/ \E d \in Fd : bufns_close(d) \/ \E s \in Entry : bufns_open(d, s)
    \/ \E j \in Job : job_done(j)
    \/ event_poll

BoSpec == BoInit /\ [][BoNext]_bvars

---------------------------------------------------------------------------
(* Properties                                                              *)

Opens(s) == {d \in Fd : fds[d] = Handle(s)}
Pinned(s) == {j \in Job : pins[j].handle = Handle(s)}

\* A BO lives exactly as long as somebody holds it: its counts are the numbers of
\* those who do (creator, importing clients, descriptors of its name, jobs), no
\* descriptor or job names memory that was given to another BO, and its clients
\* are open, not ones that were given their slots later.
RefsMatch ==
    /\ \A s \in Entry : Live(s) =>
           /\ bo[s].refs = Cardinality(bo[s].sharers) + bo[s].fd_opens
                           + (IF bo[s].owner = None THEN 0 ELSE 1)
           /\ bo[s].fd_opens = Cardinality(Opens(s))
           /\ bo[s].inflight = Cardinality(Pinned(s))
           /\ bo[s].refs > 0 \/ bo[s].inflight > 0
    /\ \A d \in Fd : fds[d] # None => \E s \in Entry : Live(s) /\ fds[d] = Handle(s)
    /\ \A j \in Job : pins[j] # NoPin => \E s \in Entry : Live(s) /\ pins[j].handle = Handle(s)
    /\ \A s \in Entry : v3da_bo_find(s) =>
           /\ bo[s].sharers \subseteq used
           /\ bo[s].owner # None => bo[s].owner \in used /\ bo[s].ogen = gen[bo[s].owner]

\* The kernel exports memory under exactly the names the namespace thread would
\* answer for: "no shadow object" (export_withdraw()).
WindowsMatch == window = {Handle(s) : s \in {s \in Entry : bo_by_export(s)}}

\* A client has one import of a buffer, however many threads import it at once,
\* and the mapping of the one that came second is not left behind: every mapping
\* is an entry's or still on its way there.
OneImport ==
    /\ \A r, s \in Entry :
           /\ v3da_bo_find(r) /\ v3da_bo_find(s)
           /\ bo[r].owner # None /\ bo[r].owner = bo[s].owner
           /\ bo[r].name # None /\ bo[r].name = bo[s].name
           => r = s
    /\ mapped = Cardinality({s \in Entry : bo[s].state # "free" /\ bo[s].name # None})
                + Cardinality({t \in Importer : imp[t] # NoImport})

=============================================================================
