---------------------------- MODULE V3daOvfProofs ---------------------------
(***************************************************************************)
(* Why a chunk of overflow memory has one owner, for any number of chunks  *)
(* and frames.  The interrupt handler moves a chunk without a word to the  *)
(* event thread's books: what it has handed out counts as staged until the *)
(* event thread takes note.  So the argument is about the two words they   *)
(* share (Armed): a chunk that is armed or was handed out is the staged    *)
(* one, and while one was handed out none is armed.                        *)
(***************************************************************************)
EXTENDS V3daOvf, FiniteSetTheorems, TLAPS

Armed ==
    /\ stage_va # NoChunk => stage_va = staged /\ consumed = NoChunk
    /\ consumed # NoChunk => consumed = staged

ChunkTypes ==
    /\ free \subseteq Chunk
    /\ staged \in Chunk \union {NoChunk}
    /\ list \in [Frame -> SUBSET Chunk]

Somewhere == \A c \in Chunk : c \in free \/ c = staged \/ \E f \in Frame : c \in list[f]

Apart ==
    /\ staged \notin free
    /\ \A f \in Frame : \A c \in list[f] :
           c \notin free /\ c # staged /\ \A g \in Frame : g # f => c \notin list[g]

Books == ChunkTypes /\ Somewhere /\ Apart

LEMMA BooksMeanOneOwner == Books => OneOwner
<1> SUFFICES ASSUME Books PROVE OneOwner
  OBVIOUS
<1> USE OvfAssumption DEF Books, ChunkTypes, Somewhere, Apart
<1>1. free \union Staged \union UNION {list[f] : f \in Frame} = Chunk
  <2>1. free \union Staged \union UNION {list[f] : f \in Frame} \subseteq Chunk
    BY DEF Staged
  <2>2. \A c \in Chunk : c \in free \union Staged \union UNION {list[f] : f \in Frame}
    BY DEF Staged
  <2> QED
    BY <2>1, <2>2
<1>2. free \intersect Staged = {}
  BY DEF Staged
<1>3. \A f \in Frame : list[f] \intersect (free \union Staged) = {}
  BY DEF Staged
<1>4. \A f, g \in Frame : f # g => list[f] \intersect list[g] = {}
  OBVIOUS
<1> QED
  BY <1>1, <1>2, <1>3, <1>4 DEF OneOwner

\* The lists of some frames go back to the pool, and perhaps the staged chunk.
LEMMA GiveBack ==
    ASSUME Books, NEW over \in SUBSET Frame, NEW back \in {{}, Staged},
           free' = free \union back \union UNION {list[f] : f \in over},
           staged' = (IF back = {} THEN staged ELSE NoChunk),
           list' = [f \in Frame |-> IF f \in over THEN {} ELSE list[f]]
    PROVE  Books'
<1> USE OvfAssumption DEF Books, ChunkTypes, Somewhere, Apart
<1>1. back \subseteq Chunk /\ (back # {} => back = {staged})
  BY DEF Staged
<1>2. ChunkTypes'
  <2>1. UNION {list[f] : f \in over} \subseteq Chunk
    OBVIOUS
  <2> QED
    BY <1>1, <2>1
<1>3. Somewhere'
  <2> SUFFICES ASSUME NEW c \in Chunk
               PROVE  c \in free' \/ c = staged' \/ \E f \in Frame : c \in list'[f]
    OBVIOUS
  <2>1. CASE c \in free
    BY <2>1
  <2>2. CASE c = staged
    BY <1>1, <2>2
  <2>3. CASE \E f \in Frame : c \in list[f]
    BY <2>3
  <2> QED
    BY <2>1, <2>2, <2>3
<1>4. Apart'
  <2>1. staged' \notin free'
    BY <1>1
  <2>2. ASSUME NEW f \in Frame, NEW c \in list'[f]
        PROVE  c \notin free' /\ c # staged' /\ \A g \in Frame : g # f => c \notin list'[g]
    <3>1. f \notin over /\ c \in list[f] /\ c \in Chunk
      BY <2>2
    <3>2. c \notin free /\ c \notin back /\ c \notin UNION {list[g] : g \in over}
      BY <1>1, <3>1
    <3> QED
      BY <3>1, <3>2
  <2> QED
    BY <2>1, <2>2
<1> QED
  BY <1>2, <1>3, <1>4

LEMMA Stage ==
    ASSUME Books, Armed, ovf_stage(free, staged), UNCHANGED <<list, consumed>>
    PROVE  Books' /\ Armed'
<1> USE OvfAssumption DEF Books, ChunkTypes, Somewhere, Apart
<1>1. CASE UNCHANGED <<free, staged, stage_va>>
  BY <1>1 DEF Armed
<1>2. CASE /\ staged = NoChunk
           /\ \E c \in free : free' = free \ {c} /\ staged' = c /\ stage_va' = c
  <2>1. PICK c \in free : free' = free \ {c} /\ staged' = c /\ stage_va' = c
    BY <1>2
  <2>2. Armed'
    BY <1>2, <2>1 DEF Armed
  <2>3. ChunkTypes' /\ Somewhere'
    BY <1>2, <2>1
  <2>4. Apart'
    BY <1>2, <2>1
  <2> QED
    BY <2>2, <2>3, <2>4
<1> QED
  BY <1>1, <1>2 DEF ovf_stage

LEMMA OwnerStep == Books /\ Armed /\ [OvfNext]_ovars => Books' /\ Armed'
<1> SUFFICES ASSUME Books, Armed, [OvfNext]_ovars PROVE Books' /\ Armed'
  OBVIOUS
<1> DEFINE books == <<free, staged, list>>
<1> DEFINE words == <<stage_va, consumed>>
<1>1. ASSUME UNCHANGED <<books, words>> PROVE Books' /\ Armed'
  BY <1>1 DEF Books, ChunkTypes, Somewhere, Apart, Armed
<1>2. CASE BinStall \/ BinEnd \/ RenderEnd \/ UNCHANGED ovars
  BY <1>1, <1>2 DEF BinStall, BinEnd, RenderEnd, ovars, thread, word
<1>3. CASE hw_service
  <2>1. Books'
    BY <1>3 DEF hw_service, thread, Books, ChunkTypes, Somewhere, Apart
  <2>2. Armed'
    BY <1>3 DEF hw_service, thread, Armed
  <2> QED
    BY <2>1, <2>2
<1>4. CASE \E f \in Frame : v3da_submit(f)
  BY <1>1, <1>4 DEF v3da_submit, word
<1>5. CASE v3da_jobs_client_gone
  <2> DEFINE gone == On("queued") \union On("binned")
  <2>1. /\ gone \in SUBSET Frame
        /\ free' = free \union {} \union UNION {list[f] : f \in gone}
        /\ list' = [f \in Frame |-> IF f \in gone THEN {} ELSE list[f]]
        /\ staged' = staged /\ UNCHANGED words
    BY <1>5 DEF v3da_jobs_client_gone, word, On
  <2> HIDE DEF gone
  <2>2. Books'
    BY <2>1, GiveBack
  <2> QED
    BY <2>1, <2>2 DEF Armed
<1>6. CASE take
  BY <1>1, <1>6 DEF take
<1>7. CASE ovf_service_consumed
  <2>1. CASE consumed = NoChunk
    BY <1>1, <1>7, <2>1 DEF ovf_service_consumed
  <2>2. CASE consumed # NoChunk
    <3> USE OvfAssumption DEF Books, ChunkTypes
    <3>1. staged = consumed /\ staged' = NoChunk /\ stage_va = NoChunk /\ stage_va' = NoChunk
      BY <1>7, <2>2 DEF ovf_service_consumed, Armed
    <3>2. Armed'
      BY <1>7, <3>1 DEF ovf_service_consumed, Armed
    <3>3. CASE free' = free \union {consumed} /\ list' = list
      BY <2>2, <3>1, <3>2, <3>3 DEF Somewhere, Apart
    <3>4. CASE /\ Active("bin") \in Frame /\ free' = free
               /\ list' = [list EXCEPT ![Active("bin")] = @ \union {consumed}]
      <4> DEFINE f == Active("bin")
      <4>1. f \in Frame /\ \A g \in Frame : list'[g] = IF g = f THEN list[g] \union {consumed}
                                                       ELSE list[g]
        BY <3>4
      <4> HIDE DEF f
      <4>2. ChunkTypes'
        BY <2>2, <3>1, <3>4, <4>1
      <4>3. Somewhere'
        BY <3>1, <3>4, <4>1 DEF Somewhere
      <4>4. Apart'
        BY <2>2, <3>1, <3>4, <4>1 DEF Apart
      <4> QED
        BY <3>2, <4>2, <4>3, <4>4
    <3>5. Active("bin") # NoFrame => Active("bin") \in Frame
      BY DEF Active, On
    <3> QED
      BY <1>7, <2>2, <3>3, <3>4, <3>5 DEF ovf_service_consumed
  <2> QED
    BY <2>1, <2>2
<1>8. CASE ovf_service_missed
  <2>0. Active("bin") # NoFrame => Active("bin") \in Frame
    BY DEF Active, On
  <2>1. IsFiniteSet(free) /\ Cardinality(free) \in Nat
    BY OvfAssumption, FS_Subset, FS_CardinalityType DEF Books, ChunkTypes
  <2> DEFINE f == Active("bin")
             waiting == IF f = NoFrame THEN 0 ELSE bin_waiting + missed
             most == IF waiting < Cardinality(free) THEN waiting ELSE Cardinality(free)
  <2>2. PICK cs \in SUBSET free :
            /\ Cardinality(cs) = most
            /\ free' = free \ cs
            /\ list' = IF f = NoFrame THEN list ELSE [list EXCEPT ![f] = @ \union cs]
    BY <1>8 DEF ovf_service_missed
  <2>3. staged' = staged /\ UNCHANGED words
    BY <1>8 DEF ovf_service_missed
  <2>4. CASE f = NoFrame
    <3>1. IsFiniteSet(cs) /\ Cardinality(cs) = 0
      BY <2>1, <2>2, <2>4, FS_Subset
    <3>2. cs = {}
      BY <3>1, FS_EmptySet
    <3> QED
      BY <1>1, <2>2, <2>3, <2>4, <3>2
  <2>5. CASE f # NoFrame
    <3> HIDE DEF f, waiting, most
    <3>1. f \in Frame
      BY <2>0, <2>5 DEF f
    <3>2. \A g \in Frame : list'[g] = IF g = f THEN list[g] \union cs ELSE list[g]
      BY <2>2, <2>5, <3>1 DEF Books, ChunkTypes
    <3>3. ChunkTypes'
      BY <2>2, <2>3, <2>5, <3>1 DEF Books, ChunkTypes
    <3>4. Somewhere'
      BY <2>2, <2>3, <3>1, <3>2 DEF Books, Somewhere
    <3>5. Apart'
      BY <2>2, <2>3, <3>1, <3>2 DEF Books, ChunkTypes, Apart
    <3> QED
      BY <2>3, <3>3, <3>4, <3>5 DEF Books, Armed
  <2> QED
    BY <2>4, <2>5
<1>9. CASE ovf_service_stage
  BY <1>9, Stage DEF ovf_service_stage
<1>10. CASE events
  <2> DEFINE bs == IF "FLDONE" \in core THEN On("bin") ELSE {}
             rs == IF "FRDONE" \in core THEN On("render") ELSE {}
             over == rs \union (bs \intersect orphan)
  <2>1. /\ over \in SUBSET Frame
        /\ free' = free \union {} \union UNION {list[f] : f \in over}
        /\ list' = [f \in Frame |-> IF f \in over THEN {} ELSE list[f]]
        /\ staged' = staged /\ UNCHANGED words
    BY <1>10 DEF events, job_done, FreedBy, word, On
  <2> HIDE DEF over
  <2>2. Books'
    BY <2>1, GiveBack
  <2> QED
    BY <2>1, <2>2 DEF Armed
<1>11. ASSUME wedge PROVE Books' /\ Armed'
  <2> DEFINE over == On("render") \union (On("bin") \intersect orphan)
  <2>1. /\ over \in SUBSET Frame
        /\ free' = free \union Staged \union UNION {list[f] : f \in over}
        /\ list' = [f \in Frame |-> IF f \in over THEN {} ELSE list[f]]
        /\ staged' = NoChunk /\ stage_va' = NoChunk /\ consumed' = NoChunk
    BY <1>11 DEF wedge, job_done, FreedBy, On
  <2> HIDE DEF over
  <2>2. staged' = IF Staged = {} THEN staged ELSE NoChunk
    BY <2>1 DEF Staged
  <2>3. Books'
    BY <2>1, <2>2, GiveBack
  <2> QED
    BY <2>1, <2>3 DEF Armed
<1>12. CASE \E due, stuck \in BOOLEAN : tick(due, stuck)
  BY <1>1, <1>11, <1>12 DEF tick, word
<1>13. CASE reap
  <2> DEFINE bad == On("binned") \intersect failed
             dead == {f \in bad : \A g \in Waiting : g < f => g \in bad}
  <2>1. /\ dead \in SUBSET Frame
        /\ free' = free \union {} \union UNION {list[f] : f \in dead}
        /\ list' = [f \in Frame |-> IF f \in dead THEN {} ELSE list[f]]
        /\ staged' = staged /\ UNCHANGED words
    BY <1>13 DEF reap, word, On
  <2> HIDE DEF dead
  <2>2. Books'
    BY <2>1, GiveBack
  <2> QED
    BY <2>1, <2>2 DEF Armed
<1>14. CASE kick_bin
  BY <1>1, <1>14, Stage DEF kick_bin
<1>15. CASE kick_render
  BY <1>1, <1>15 DEF kick_render
<1> QED
  BY <1>2, <1>3, <1>4, <1>5, <1>6, <1>7, <1>8, <1>9, <1>10, <1>12, <1>13, <1>14, <1>15
     DEF OvfNext, round

LEMMA OwnerInit == OvfInit => Books /\ Armed
  BY OvfAssumption DEF OvfInit, Books, ChunkTypes, Somewhere, Apart, Armed

\* "A chunk is FREE, STAGED, or owned by exactly one job" (v3da.h): whatever the
\* handler does between two steps of the event thread, and across resets and the
\* death of the client, no chunk is lost and none is handed out twice.
THEOREM ChunksHaveOneOwner == OvfSpec => []OneOwner
  BY OwnerInit, OwnerStep, BooksMeanOneOwner, PTL DEF OvfSpec

=============================================================================
