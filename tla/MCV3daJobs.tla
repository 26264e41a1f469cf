----------------------------- MODULE MCV3daJobs -----------------------------
(* The jobs of the render server, in several plans (which requests come, how *)
(* many jobs and clients), and the references on its buffer objects, one     *)
(* subject at a time.                                                        *)
EXTENDS V3daBo

CONSTANTS
    NSlots, BO, MaxJobs, CsdStuck,
    Other   \* the entry that is not used while a BO is shared

VARIABLES srv, subject

J == INSTANCE V3daJobs

jobsVars == <<bvars, srv, subject>>

\* The requests of a plan, and its bounds on jobs, on generations and on slots.
Plan ==
    [lone  |-> [ops |-> {"cl", "ronly", "nop"}, jobs |-> 4, gens |-> 1, slots |-> 1],
     turns |-> [ops |-> {"cl", "ronly"}, jobs |-> 3, gens |-> 1, slots |-> 2],
     flush |-> [ops |-> {"cl", "tfu"}, jobs |-> 3, gens |-> 1, slots |-> 2],
     mixed |-> [ops |-> J!Op, jobs |-> 2, gens |-> 1, slots |-> 2],
     join  |-> [ops |-> {"cl", "attach"}, jobs |-> 3, gens |-> 2, slots |-> 2],
     mode  |-> [ops |-> {"cl", "mode"}, jobs |-> 4, gens |-> 1, slots |-> 2]]

BoSubjects == {"share", "import"}

SubjectsInit == BoInit /\ J!JobsInit /\ subject \in DOMAIN Plan \union BoSubjects

\* What a client asks for, within the plan.
Requests(p) ==
    \E c \in 0 .. p.slots - 1 :
        \/ srv.gen[c] < p.gens /\ J!client_open(c)
        \/ J!client_close(c)
        \/ \E op \in p.ops \intersect J!Op : J!v3da_submit(c, op)
        \/ "nop" \in p.ops /\ J!v3da_submit_nop(c)
        \/ \E b \in BO :
               J!v3da_bo_create(c, b) \/ J!import_v3dbuf(c, b) \/ J!v3da_bo_close(c, b)
        \/ "attach" \in p.ops /\ \E bs \in SUBSET BO : J!v3da_bo_attach_fence(c, bs)

JobsStep ==
    /\ subject \in DOMAIN Plan
    /\ LET p == Plan[subject]
       IN \/ Requests(p) /\ srv'.gseq <= p.jobs
          \/ "mode" \in p.ops /\ \E m \in {"serial", "pipeline"} : J!v3da_set_mode(m)
          \/ J!EventRound

\* One BO, shared by clients, descriptors and jobs, or two entries and a foreign
\* buffer that two threads import.
BoStep ==
    /\ subject \in BoSubjects
    /\ BoNext
    /\ subject = "share" => mapped' = 0 /\ bo'[Other].state = "free"
    /\ subject = "import" => window' = {} /\ pins' = pins

SubjectsNext ==
    /\ UNCHANGED subject
    /\ \/ JobsStep /\ UNCHANGED bvars
       \/ BoStep /\ UNCHANGED srv

\* The fairness of the event thread, where jobs are the subject.
SubjectsSpec ==
    /\ SubjectsInit /\ [][SubjectsNext]_jobsVars
    /\ subject \in DOMAIN Plan => J!JobsFairness

\* The properties of V3daJobs.
SignalledOrOvertaken == J!SignalledOrOvertaken
FenceNeverRetracted == J!FenceNeverRetracted
NoLostFence == J!NoLostFence
NoUseAfterFree == J!NoUseAfterFree
JobsDrain == subject \in DOMAIN Plan => J!JobsDrain

=============================================================================
