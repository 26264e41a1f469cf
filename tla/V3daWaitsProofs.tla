--------------------------- MODULE V3daWaitsProofs --------------------------
(***************************************************************************)
(* Proofs about the parked requests of the render server.  What matters is *)
(* who owes the answer of a request: the wait that is parked, the thread   *)
(* that has claimed it, or the thread that received it.  Every handler     *)
(* changes that in one of six ways, and the invariant is shown for each.   *)
(***************************************************************************)
EXTENDS V3daWaits, TLAPS

LEMMA ParkedType ==
    ASSUME NEW r \in Rid, NEW c \in Client, NEW p \in Port
    PROVE  /\ \A fs \in SUBSET Fence : Parked(FenceWait(r, c, fs), p) \in WaitRecord
           /\ \A hs \in SUBSET Handle : \A all, for_submit \in BOOLEAN :
                  Parked(SyncobjWait(r, c, hs, all, for_submit), p) \in WaitRecord
  BY DEF Parked, FenceWait, SyncobjWait, WaitRecord

LEMMA ParkType ==
    ASSUME WaitsTypeOK, NEW t \in Dispatch, NEW w, w.rid \in Rid, NEW timeout,
           Parked(w, rx_port') \in WaitRecord,
           v3da_wait_park(t, w, timeout)
    PROVE  /\ waits' \subseteq WaitRecord
           /\ own' \in [Dispatch -> Rid \union {NoRid}]
           /\ answer' \in [Thread -> SUBSET WaitRecord]
           /\ kick' \in BOOLEAN
  BY DEF WaitsTypeOK, v3da_wait_park, Respond, NoClaims

\* What a received request does to the types.
LEMMA ReceiveType ==
    ASSUME WaitsTypeOK, NEW t \in Dispatch, NEW r \in Rid, msgRecv(t, r)
    PROVE  /\ late' \subseteq Rid
           /\ came' \in [Rid -> Port \union {"none"}]
           /\ answered' \in [Rid -> [n : Nat, port : Port \union {"none"}]]
           /\ asleep' \in BOOLEAN
           /\ PortOf[t] \in Port
  BY WaitsAssumption DEF WaitsTypeOK, msgRecv

LEMMA ClaimType ==
    ASSUME WaitsTypeOK, NEW t \in Thread, NEW ws \in SUBSET waits, wait_claim(t, ws)
    PROVE  waits' \subseteq WaitRecord /\ answer' \in [Thread -> SUBSET WaitRecord]
  BY DEF WaitsTypeOK, wait_claim

LEMMA SimpleType ==
    ASSUME WaitsTypeOK, NEW t \in Dispatch, NEW r \in Rid, NEW c \in Client, Simple(t, r, c)
    PROVE  /\ used' \subseteq Client
           /\ waits' \subseteq WaitRecord
           /\ rx_port' \in Port
           /\ own' \in [Dispatch -> Rid \union {NoRid}]
           /\ answer' \in [Thread -> SUBSET WaitRecord]
           /\ quit' \in BOOLEAN
  BY WaitsAssumption DEF WaitsTypeOK, Simple, Raw, Respond, NoClaims

LEMMA HandlerType ==
    ASSUME WaitsTypeOK, NEW t \in Dispatch, NEW r \in Rid, NEW c \in Client,
           Handler(t, r, c)
    PROVE  WaitsTypeOK'
<1>0. t \in Thread
  BY DEF Thread
<1>1. CASE client_open(t, r, c)
  <2>1. msgRecv(t, r)
    BY <1>1 DEF client_open
  <2> QED
    BY <1>1, <2>1, ReceiveType DEF client_open, Respond, WaitsTypeOK
<1>2. CASE client_close(t, r, c)
  <2>1. msgRecv(t, r) /\ wait_claim(t, {w \in waits : w.client = c})
    BY <1>2 DEF client_close
  <2>2. waits' \subseteq WaitRecord /\ answer' \in [Thread -> SUBSET WaitRecord]
    BY <1>0, <2>1, ClaimType
  <2> QED
    BY <1>2, <2>1, <2>2, ReceiveType DEF client_close, Respond, WaitsTypeOK
<1>3. CASE fence_wait(t, r, c)
  <2>1. msgRecv(t, r) /\ rx_port' = PortOf[t] /\ rx_port' \in Port
    BY <1>3, ReceiveType DEF fence_wait, Raw, msgRecv
  <2>2. PICK fs \in SUBSET {f \in Fence : owner[f] # "none"}, timeout \in {0, 1} :
            v3da_wait_park(t, FenceWait(r, c, fs), timeout)
    BY <1>3 DEF fence_wait
  <2> DEFINE w == FenceWait(r, c, fs)
  <2>3. w.rid \in Rid /\ Parked(w, rx_port') \in WaitRecord
    BY <2>1, ParkedType DEF FenceWait
  <2> HIDE DEF w
  <2>4. v3da_wait_park(t, w, timeout)
    BY <2>2 DEF w
  <2>5. /\ waits' \subseteq WaitRecord
        /\ own' \in [Dispatch -> Rid \union {NoRid}]
        /\ answer' \in [Thread -> SUBSET WaitRecord]
        /\ kick' \in BOOLEAN
    BY <2>1, <2>3, <2>4, ParkType
  <2> QED
    BY <1>3, <2>1, <2>5, ReceiveType DEF fence_wait, WaitsTypeOK
<1>4. CASE syncobj_wait(t, r, c)
  <2>1. msgRecv(t, r) /\ rx_port' = PortOf[t] /\ rx_port' \in Port
    BY <1>4, ReceiveType DEF syncobj_wait, Raw, msgRecv
  <2>2. PICK hs \in SUBSET {h \in Handle : sync[c][h] # "none"} \ {{}},
             all \in BOOLEAN, for_submit \in BOOLEAN, timeout \in {0, 1} :
            v3da_wait_park(t, SyncobjWait(r, c, hs, all, for_submit), timeout)
    BY <1>4 DEF syncobj_wait
  <2> DEFINE w == SyncobjWait(r, c, hs, all, for_submit)
  <2>3. w.rid \in Rid /\ Parked(w, rx_port') \in WaitRecord
    BY <2>1, ParkedType DEF SyncobjWait
  <2> HIDE DEF w
  <2>4. v3da_wait_park(t, w, timeout)
    BY <2>2 DEF w
  <2>5. /\ waits' \subseteq WaitRecord
        /\ own' \in [Dispatch -> Rid \union {NoRid}]
        /\ answer' \in [Thread -> SUBSET WaitRecord]
        /\ kick' \in BOOLEAN
    BY <2>1, <2>3, <2>4, ParkType
  <2> QED
    BY <1>4, <2>1, <2>5, ReceiveType DEF syncobj_wait, WaitsTypeOK
<1>5. CASE v3da_syncobj_create(t, r, c)
  <2>1. Simple(t, r, c) /\ msgRecv(t, r)
    BY <1>5 DEF v3da_syncobj_create, Simple
  <2> QED
    BY <1>5, <2>1, SimpleType, ReceiveType DEF v3da_syncobj_create, WaitsTypeOK
<1>6. CASE v3da_syncobj_destroy(t, r, c)
  <2>1. Simple(t, r, c) /\ msgRecv(t, r)
    BY <1>6 DEF v3da_syncobj_destroy, Simple
  <2> QED
    BY <1>6, <2>1, SimpleType, ReceiveType DEF v3da_syncobj_destroy, WaitsTypeOK
<1>7. CASE v3da_syncobj_reset(t, r, c)
  <2>1. Simple(t, r, c) /\ msgRecv(t, r)
    BY <1>7 DEF v3da_syncobj_reset, Simple
  <2> QED
    BY <1>7, <2>1, SimpleType, ReceiveType DEF v3da_syncobj_reset, WaitsTypeOK
<1>8. CASE v3da_syncobj_signal(t, r, c)
  <2>1. Simple(t, r, c) /\ msgRecv(t, r)
    BY <1>8 DEF v3da_syncobj_signal, Simple
  <2> QED
    BY <1>8, <2>1, SimpleType, ReceiveType DEF v3da_syncobj_signal, WaitsTypeOK
<1>9. CASE v3da_syncobj_import(t, r, c)
  <2>1. Simple(t, r, c) /\ msgRecv(t, r)
    BY <1>9 DEF v3da_syncobj_import, Simple
  <2> QED
    BY <1>9, <2>1, SimpleType, ReceiveType DEF v3da_syncobj_import, WaitsTypeOK
<1>10. CASE submit(t, r, c)
  <2>1. Simple(t, r, c) /\ msgRecv(t, r)
    BY <1>10 DEF submit, Simple
  <2> QED
    BY <1>10, <2>1, SimpleType, ReceiveType DEF submit, WaitsTypeOK
<1>11. CASE quit_request(t, r, c)
  <2>1. msgRecv(t, r) /\ wait_claim(t, waits) /\ rx_port' \in Port
    BY <1>11, ReceiveType DEF quit_request, Raw
  <2>2. waits' \subseteq WaitRecord /\ answer' \in [Thread -> SUBSET WaitRecord]
    BY <1>0, <2>1, ClaimType
  <2> QED
    BY <1>11, <2>1, <2>2, ReceiveType DEF quit_request, Respond, WaitsTypeOK
<1> QED
  BY <1>1, <1>2, <1>3, <1>4, <1>5, <1>6, <1>7, <1>8, <1>9, <1>10, <1>11 DEF Handler

---------------------------------------------------------------------------
(* Types                                                                   *)

LEMMA TypeInit == WaitsInit => WaitsTypeOK
<1> SUFFICES ASSUME WaitsInit PROVE WaitsTypeOK
  OBVIOUS
<1>1. sync \in [Client -> [Handle -> {"none", "empty", "signaled"} \union Fence]]
  BY DEF WaitsInit
<1>2. answered \in [Rid -> [n : Nat, port : Port \union {"none"}]]
  BY DEF WaitsInit
<1>3. answer \in [Thread -> SUBSET WaitRecord] /\ waits \subseteq WaitRecord
  BY DEF WaitsInit
<1> QED
  BY <1>1, <1>2, <1>3 DEF WaitsInit, WaitsTypeOK

LEMMA TypeStep == WaitsTypeOK /\ [WaitsNext]_wvars => WaitsTypeOK'
<1> SUFFICES ASSUME WaitsTypeOK, [WaitsNext]_wvars PROVE WaitsTypeOK'
  OBVIOUS
<1>1. CASE \E t \in Dispatch, r \in Rid, c \in Client : Handler(t, r, c)
  BY <1>1, HandlerType
<1>2. ASSUME NEW t \in Thread, Answering(t) PROVE WaitsTypeOK'
  <2>1. CASE v3da_waits_answer(t)
    <3>1. PICK w \in answer[t] : msgRespond(w.rid, w.port)
                                 /\ answer' = [answer EXCEPT ![t] = @ \ {w}]
      BY <2>1 DEF v3da_waits_answer
    <3>2. w.rid \in Rid /\ w.port \in Port
      BY DEF WaitsTypeOK, WaitRecord
    <3>3. answered' \in [Rid -> [n : Nat, port : Port \union {"none"}]]
      BY <3>1, <3>2 DEF msgRespond, WaitsTypeOK
    <3> QED
      BY <2>1, <3>1, <3>3 DEF v3da_waits_answer, WaitsTypeOK
  <2>2. CASE t \in Dispatch /\ answer_own(t)
    <3>1. own[t] \in Rid /\ PortOf[t] \in Port
      BY <2>2, WaitsAssumption DEF answer_own, WaitsTypeOK
    <3>2. answered' \in [Rid -> [n : Nat, port : Port \union {"none"}]]
      BY <2>2, <3>1 DEF answer_own, msgRespond, WaitsTypeOK
    <3> QED
      BY <2>2, <3>2 DEF answer_own, WaitsTypeOK
  <2> QED
    BY <1>2, <2>1, <2>2 DEF Answering
<1>3. CASE \E r \in Rid : Deadline(r)
  BY <1>3 DEF Deadline, WaitsTypeOK
<1>4. CASE condWait
  BY <1>4 DEF condWait, WaitsTypeOK
<1>5. CASE v3da_event_thread
  <2>1. PICK done \in SUBSET {f \in Fence : owner[f] # "none"} :
            signaled' = signaled \union done /\ waits_scan(signaled')
    BY <1>5 DEF v3da_event_thread
  <2> DEFINE ws == {w \in waits : wait_eval(w, sync, signaled') # "wait" \/ w.rid \in late}
  <2>2. ws \in SUBSET waits /\ wait_claim(Event, ws) /\ Event \in Thread
    BY <2>1 DEF waits_scan, Thread
  <2> HIDE DEF ws
  <2>3. waits' \subseteq WaitRecord /\ answer' \in [Thread -> SUBSET WaitRecord]
    BY <2>2, ClaimType
  <2> QED
    BY <1>5, <2>1, <2>3 DEF v3da_event_thread, WaitsTypeOK
<1>6. CASE UNCHANGED wvars
  BY <1>6 DEF wvars, WaitsTypeOK
<1> QED
  BY <1>1, <1>2, <1>3, <1>4, <1>5, <1>6 DEF WaitsNext

---------------------------------------------------------------------------
(* Who owes an answer                                                      *)

NobodyOwes(r) ==
    /\ \A w \in waits : w.rid # r
    /\ \A t \in Dispatch : own[t] # r
    /\ \A t \in Thread : \A w \in answer[t] : w.rid # r

Due(r, port) == came[r] = port /\ answered[r].n = 0

\* What is owed was received, from the port that is remembered, and not answered.
Debts ==
    /\ \A w \in waits : Due(w.rid, w.port)
    /\ \A t \in Thread : \A w \in answer[t] : Due(w.rid, w.port)
    /\ \A t \in Dispatch : own[t] # NoRid => Due(own[t], PortOf[t])

\* No request is owed twice.
Single ==
    /\ \A v, w \in waits : v.rid = w.rid => v = w
    /\ \A s, t \in Thread : \A v \in answer[s] : \A w \in answer[t] :
           v.rid = w.rid => v = w /\ s = t
    /\ \A v \in waits : \A t \in Thread : \A w \in answer[t] : v.rid # w.rid
    /\ \A s, t \in Dispatch : own[s] # NoRid /\ own[s] = own[t] => s = t
    /\ \A s \in Dispatch : \A w \in waits : w.rid # own[s]
    /\ \A s \in Dispatch : \A t \in Thread : \A w \in answer[t] : w.rid # own[s]

Somebody == \A r \in Rid : came[r] # "none" /\ answered[r].n = 0 => ~NobodyOwes(r)

Once ==
    \A r \in Rid :
        /\ answered[r].n \in {0, 1}
        /\ came[r] = "none" => answered[r].n = 0
        /\ answered[r].n = 1 => answered[r].port = came[r]

OwedInv == Debts /\ Single /\ Somebody /\ Once

LEMMA RidType ==
    ASSUME WaitsTypeOK
    PROVE  /\ \A w \in waits : w.rid \in Rid
           /\ \A t \in Thread : \A w \in answer[t] : w.rid \in Rid
           /\ \A t \in Dispatch : own[t] # NoRid => own[t] \in Rid
<1>1. \A w \in waits : w.rid \in Rid
  BY DEF WaitsTypeOK, WaitRecord
<1>2. \A t \in Thread : \A w \in answer[t] : w.rid \in Rid
  BY DEF WaitsTypeOK, WaitRecord
<1>3. \A t \in Dispatch : own[t] # NoRid => own[t] \in Rid
  BY DEF WaitsTypeOK
<1> QED
  BY <1>1, <1>2, <1>3

LEMMA Unreceived ==
    ASSUME WaitsTypeOK, Debts, NEW r \in Rid, came[r] = "none"
    PROVE  NobodyOwes(r)
<1>1. \A w \in waits : w.rid # r
  BY WaitsAssumption DEF WaitsTypeOK, WaitRecord, Debts, Due
<1>2. \A t \in Thread : \A w \in answer[t] : w.rid # r
  BY WaitsAssumption DEF WaitsTypeOK, WaitRecord, Debts, Due
<1>3. \A t \in Dispatch : own[t] # r
  BY WaitsAssumption DEF WaitsTypeOK, Debts, Due
<1> QED
  BY <1>1, <1>2, <1>3 DEF NobodyOwes

\* A request is received and will be answered by its receiver, which may claim
\* parked waits on the way.
LEMMA ReceiveClaim ==
    ASSUME WaitsTypeOK, WaitsTypeOK', OwedInv,
           NEW t \in Dispatch, NEW r \in Rid, NEW ws \in SUBSET waits,
           msgRecv(t, r), Respond(t, r), wait_claim(t, ws)
    PROVE  OwedInv'
<1>0. t \in Thread /\ r # NoRid
  BY WaitsAssumption DEF Thread
<1>1. NobodyOwes(r)
  BY Unreceived DEF OwedInv, msgRecv
<1>2. \A s \in Dispatch : own'[s] = IF s = t THEN r ELSE own[s]
  BY DEF Respond, WaitsTypeOK
<1>3. \A s \in Thread : answer'[s] = IF s = t THEN ws ELSE answer[s]
  BY <1>0 DEF wait_claim, WaitsTypeOK, msgRecv
<1>4. waits' = waits \ ws /\ own[t] = NoRid /\ answered' = answered /\ answer[t] = {}
  BY DEF wait_claim, msgRecv
<1>5. \A q \in Rid : came'[q] = IF q = r THEN PortOf[t] ELSE came[q]
  BY DEF msgRecv, WaitsTypeOK
<1>6. PortOf[t] # "none" /\ answered[r].n = 0 /\ came[r] = "none"
  BY WaitsAssumption DEF msgRecv, OwedInv, Once
<1>10. Debts'
  <2>1. \A w \in waits : Due(w.rid, w.port)'
    BY <1>1, <1>4, <1>5, RidType DEF OwedInv, Debts, Due, NobodyOwes
  <2>2. \A s \in Thread : \A w \in answer'[s] : Due(w.rid, w.port)'
    BY <1>1, <1>3, <1>4, <1>5, <2>1, RidType DEF OwedInv, Debts, Due, NobodyOwes
  <2>3. (\A s \in Dispatch : own[s] # NoRid => Due(own[s], PortOf[s]))'
    BY <1>1, <1>2, <1>4, <1>5, <1>6, RidType DEF OwedInv, Debts, Due, NobodyOwes
  <2> QED
    BY <1>4, <2>1, <2>2, <2>3 DEF Debts
<1>11. Single'
  <2>1. \A v, w \in waits' : v.rid = w.rid => v = w
    BY <1>4 DEF OwedInv, Single
  <2>2. \A p, s \in Thread : \A v \in answer'[p] : \A w \in answer'[s] :
            v.rid = w.rid => v = w /\ p = s
    BY <1>3 DEF OwedInv, Single
  <2>3. \A v \in waits' : \A s \in Thread : \A w \in answer'[s] : v.rid # w.rid
    BY <1>3, <1>4 DEF OwedInv, Single
  <2>4. \A p, s \in Dispatch : own'[p] # NoRid /\ own'[p] = own'[s] => p = s
    BY <1>1, <1>2 DEF OwedInv, Single, NobodyOwes
  <2>5. \A s \in Dispatch : \A w \in waits' : w.rid # own'[s]
    BY <1>1, <1>2, <1>4 DEF OwedInv, Single, NobodyOwes
  <2>6. \A p \in Dispatch : \A s \in Thread : \A w \in answer'[s] : w.rid # own'[p]
    BY <1>1, <1>2, <1>3, <1>4 DEF OwedInv, Single, NobodyOwes
  <2> QED
    BY <2>1, <2>2, <2>3, <2>4, <2>5, <2>6 DEF Single
<1>12. Somebody'
  <2> SUFFICES ASSUME NEW q \in Rid, came'[q] # "none", answered'[q].n = 0
               PROVE  ~NobodyOwes(q)'
    BY DEF Somebody
  <2>1. CASE q = r
    BY <2>1, <1>2 DEF NobodyOwes
  <2>2. CASE q # r
    <3>1. ~NobodyOwes(q)
      BY <2>2, <1>4, <1>5 DEF OwedInv, Somebody
    <3>2. CASE \E w \in waits : w.rid = q
      BY <1>0, <1>3, <1>4, <3>2 DEF NobodyOwes
    <3>3. CASE \E s \in Dispatch : own[s] = q
      BY <1>2, <1>4, <3>3, <1>0, WaitsAssumption DEF NobodyOwes
    <3>4. CASE \E s \in Thread : \E w \in answer[s] : w.rid = q
      BY <1>3, <1>4, <3>4 DEF NobodyOwes
    <3> QED
      BY <3>1, <3>2, <3>3, <3>4 DEF NobodyOwes
  <2> QED
    BY <2>1, <2>2
<1>13. Once'
  BY <1>4, <1>5, <1>6 DEF OwedInv, Once
<1> QED
  BY <1>10, <1>11, <1>12, <1>13 DEF OwedInv

\* A request is received and parked.
LEMMA ReceivePark ==
    ASSUME WaitsTypeOK, OwedInv, NEW t \in Dispatch, NEW r \in Rid, NEW w,
           msgRecv(t, r), w.rid = r, w.port = PortOf[t],
           waits' = waits \union {w}, UNCHANGED <<own, answer>>
    PROVE  OwedInv'
<1>1. NobodyOwes(r)
  BY Unreceived DEF OwedInv, msgRecv
<1>2. answered' = answered /\ own' = own /\ answer' = answer
  BY DEF msgRecv
<1>3. \A q \in Rid : came'[q] = IF q = r THEN PortOf[t] ELSE came[q]
  BY DEF msgRecv, WaitsTypeOK
<1>4. PortOf[t] # "none" /\ answered[r].n = 0 /\ came[r] = "none"
  BY WaitsAssumption DEF msgRecv, OwedInv, Once
<1>8. Debts'
  <2>1. \A v \in waits' : Due(v.rid, v.port)'
    BY <1>1, <1>2, <1>3, <1>4, RidType DEF OwedInv, Debts, Due, NobodyOwes
  <2>2. \A s \in Thread : \A v \in answer[s] : Due(v.rid, v.port)'
    BY <1>1, <1>2, <1>3, RidType DEF OwedInv, Debts, Due, NobodyOwes
  <2>3. \A s \in Dispatch : own[s] # NoRid => came'[own[s]] = PortOf[s]
    BY <1>1, <1>3, RidType DEF OwedInv, Debts, Due, NobodyOwes
  <2>4. (\A s \in Dispatch : own[s] # NoRid => Due(own[s], PortOf[s]))'
    BY <1>2, <2>3 DEF OwedInv, Debts, Due
  <2> QED
    BY <1>2, <2>1, <2>2, <2>4 DEF Debts
<1>9. Single'
  BY <1>1, <1>2 DEF OwedInv, Single, NobodyOwes
<1>10. Somebody'
  BY <1>2, <1>3 DEF OwedInv, Somebody, NobodyOwes
<1>11. Once'
  BY <1>2, <1>3, <1>4 DEF OwedInv, Once
<1> QED
  BY <1>8, <1>9, <1>10, <1>11 DEF OwedInv

\* Parked waits are claimed by the event thread.
LEMMA Claim ==
    ASSUME WaitsTypeOK, OwedInv, NEW ws \in SUBSET waits, answer[Event] = {},
           wait_claim(Event, ws), UNCHANGED <<own, came, answered>>
    PROVE  OwedInv'
<1>0. Event \in Thread
  BY DEF Thread
<1>1. \A s \in Thread : answer'[s] = IF s = Event THEN ws ELSE answer[s]
  BY <1>0 DEF wait_claim, WaitsTypeOK
<1>2. waits' = waits \ ws
  BY DEF wait_claim
<1>3. Debts'
  BY <1>1, <1>2 DEF OwedInv, Debts, Due
<1>4. Single'
  BY <1>1, <1>2 DEF OwedInv, Single
<1>5. Somebody'
  <2> SUFFICES ASSUME NEW q \in Rid, came[q] # "none", answered[q].n = 0
               PROVE  ~NobodyOwes(q)'
    BY DEF Somebody
  <2>1. ~NobodyOwes(q)
    BY DEF OwedInv, Somebody
  <2> QED
    BY <1>0, <1>1, <1>2, <2>1 DEF NobodyOwes
<1>6. Once'
  BY DEF OwedInv, Once
<1> QED
  BY <1>3, <1>4, <1>5, <1>6 DEF OwedInv

\* A claimed wait is answered.
LEMMA AnswerWait ==
    ASSUME WaitsTypeOK, OwedInv, NEW t \in Thread, v3da_waits_answer(t)
    PROVE  OwedInv'
<1>1. PICK w \in answer[t] : /\ msgRespond(w.rid, w.port)
                             /\ answer' = [answer EXCEPT ![t] = @ \ {w}]
  BY DEF v3da_waits_answer
<1>2. w.rid \in Rid /\ Due(w.rid, w.port)
  BY DEF WaitsTypeOK, WaitRecord, OwedInv, Debts
<1>3. \A s \in Thread : answer'[s] = IF s = t THEN answer[t] \ {w} ELSE answer[s]
  BY <1>1 DEF WaitsTypeOK
<1>4. \A r \in Rid : answered'[r] = IF r = w.rid THEN [n |-> 1, port |-> w.port]
                                    ELSE answered[r]
  BY <1>1, <1>2 DEF msgRespond, WaitsTypeOK, Due
<1>5. waits' = waits /\ own' = own /\ came' = came
  BY DEF v3da_waits_answer
<1>6. (\A v \in waits : v.rid # w.rid) /\ (\A s \in Dispatch : own[s] # w.rid)
  BY DEF OwedInv, Single
<1>7. \A s \in Thread : \A v \in answer'[s] : v \in answer[s] /\ v.rid # w.rid
  BY <1>3 DEF OwedInv, Single
<1>8. Debts'
  <2>1. \A v \in waits : Due(v.rid, v.port)'
    BY <1>4, <1>5, <1>6, RidType DEF OwedInv, Debts, Due
  <2>2. \A s \in Thread : \A v \in answer'[s] : Due(v.rid, v.port)'
    BY <1>4, <1>5, <1>7, RidType DEF OwedInv, Debts, Due
  <2>3. \A s \in Dispatch : own[s] # NoRid => answered'[own[s]].n = 0
    BY <1>4, <1>6, RidType DEF OwedInv, Debts, Due
  <2>4. (\A s \in Dispatch : own[s] # NoRid => Due(own[s], PortOf[s]))'
    BY <1>5, <2>3 DEF OwedInv, Debts, Due
  <2> QED
    BY <1>5, <2>1, <2>2, <2>4 DEF Debts
<1>9. Single'
  BY <1>5, <1>7 DEF OwedInv, Single
<1>10. Somebody'
  <2> SUFFICES ASSUME NEW q \in Rid, came[q] # "none", answered'[q].n = 0
               PROVE  ~NobodyOwes(q)'
    BY <1>5 DEF Somebody
  <2>1. q # w.rid /\ answered[q].n = 0
    BY <1>2, <1>4 DEF Due
  <2>2. ~NobodyOwes(q)
    BY <2>1 DEF OwedInv, Somebody
  <2> QED
    BY <1>3, <1>5, <2>1, <2>2 DEF NobodyOwes
<1>11. Once'
  BY <1>2, <1>4, <1>5, WaitsAssumption DEF OwedInv, Once, Due, WaitsTypeOK, WaitRecord
<1> QED
  BY <1>8, <1>9, <1>10, <1>11 DEF OwedInv

\* A thread answers the request it has received.
LEMMA AnswerOwn ==
    ASSUME WaitsTypeOK, OwedInv, NEW t \in Dispatch, answer_own(t)
    PROVE  OwedInv'
<1> DEFINE r == own[t]
<1>1. r \in Rid /\ r # NoRid /\ Due(r, PortOf[t])
  BY DEF answer_own, WaitsTypeOK, OwedInv, Debts
<1>2. \A s \in Dispatch : own'[s] = IF s = t THEN NoRid ELSE own[s]
  BY DEF answer_own, WaitsTypeOK
<1>3. \A q \in Rid : answered'[q] = IF q = r THEN [n |-> 1, port |-> PortOf[t]]
                                    ELSE answered[q]
  BY <1>1 DEF answer_own, msgRespond, WaitsTypeOK, Due
<1>4. waits' = waits /\ answer' = answer /\ came' = came
  BY DEF answer_own
<1>5. \A s \in Dispatch : s # t => own[s] # r
  BY <1>1 DEF OwedInv, Single
<1>6. (\A w \in waits : w.rid # r) /\ (\A s \in Thread : \A w \in answer[s] : w.rid # r)
  BY DEF OwedInv, Single
<1> HIDE DEF r
<1>7. Debts'
  <2>1. \A v \in waits : Due(v.rid, v.port)'
    BY <1>3, <1>4, <1>6, RidType DEF OwedInv, Debts, Due
  <2>2. \A s \in Thread : \A v \in answer[s] : Due(v.rid, v.port)'
    BY <1>3, <1>4, <1>6, RidType DEF OwedInv, Debts, Due
  <2>3. (\A s \in Dispatch : own[s] # NoRid => Due(own[s], PortOf[s]))'
    BY <1>2, <1>3, <1>4, <1>5, RidType DEF OwedInv, Debts, Due
  <2> QED
    BY <1>4, <2>1, <2>2, <2>3 DEF Debts
<1>8. Single'
  <2>1. \A w \in waits : w.rid # NoRid
    BY WaitsAssumption DEF WaitsTypeOK, WaitRecord
  <2>2. \A s \in Thread : \A w \in answer[s] : w.rid # NoRid
    BY WaitsAssumption DEF WaitsTypeOK, WaitRecord
  <2> QED
    BY <1>2, <1>4, <2>1, <2>2 DEF OwedInv, Single
<1>9. Somebody'
  <2> SUFFICES ASSUME NEW q \in Rid, came[q] # "none", answered'[q].n = 0
               PROVE  ~NobodyOwes(q)'
    BY <1>4 DEF Somebody
  <2>1. q # r /\ answered[q].n = 0
    BY <1>1, <1>3 DEF Due
  <2>2. ~NobodyOwes(q)
    BY <2>1 DEF OwedInv, Somebody
  <2> QED
    BY <1>2, <1>4, <2>1, <2>2 DEF NobodyOwes, r
<1>10. Once'
  BY <1>1, <1>3, <1>4, WaitsAssumption DEF OwedInv, Once, Due, WaitsTypeOK
<1> QED
  BY <1>7, <1>8, <1>9, <1>10 DEF OwedInv

LEMMA Kept ==
    ASSUME OwedInv, UNCHANGED <<waits, own, answer, came, answered>>
    PROVE  OwedInv'
  BY DEF OwedInv, Debts, Due, Single, Somebody, NobodyOwes, Once

LEMMA ParkStep ==
    ASSUME WaitsTypeOK, WaitsTypeOK', OwedInv, NEW t \in Dispatch, NEW r \in Rid,
           NEW c \in Client, NEW w, NEW timeout,
           msgRecv(t, r), Raw(t, c), w.rid = r, v3da_wait_park(t, w, timeout)
    PROVE  OwedInv'
<1>1. CASE Respond(t, w.rid) /\ NoClaims
  <2>1. wait_claim(t, {})
    <3>1. answer' = [answer EXCEPT ![t] = @ \union {}]
      BY <1>1 DEF NoClaims, WaitsTypeOK, Thread
    <3> QED
      BY <1>1, <3>1 DEF NoClaims, wait_claim
  <2> QED
    BY <1>1, <2>1, ReceiveClaim
<1>2. CASE waits' = waits \union {Parked(w, rx_port')} /\ UNCHANGED <<own, answer>>
  <2>1. Parked(w, rx_port').rid = r /\ Parked(w, rx_port').port = PortOf[t]
    BY DEF Parked, Raw
  <2> QED
    BY <1>2, <2>1, ReceivePark
<1> QED
  BY <1>1, <1>2 DEF v3da_wait_park

LEMMA HandlerStep ==
    ASSUME WaitsTypeOK, WaitsTypeOK', OwedInv, NEW t \in Dispatch, NEW r \in Rid,
           NEW c \in Client, Handler(t, r, c)
    PROVE  OwedInv'
<1>1. CASE client_open(t, r, c) \/ Simple(t, r, c)
  <2>1. msgRecv(t, r) /\ Respond(t, r) /\ waits' = waits /\ answer' = answer
    BY <1>1 DEF client_open, Simple, NoClaims
  <2>2. answer' = [answer EXCEPT ![t] = @ \union {}]
    BY <2>1 DEF WaitsTypeOK, Thread
  <2>3. wait_claim(t, {})
    BY <2>1, <2>2 DEF wait_claim
  <2> QED
    BY <2>1, <2>3, ReceiveClaim
<1>2. CASE fence_wait(t, r, c)
  <2>1. PICK fs \in SUBSET {f \in Fence : owner[f] # "none"}, timeout \in {0, 1} :
            v3da_wait_park(t, FenceWait(r, c, fs), timeout)
    BY <1>2 DEF fence_wait
  <2>2. FenceWait(r, c, fs).rid = r /\ msgRecv(t, r) /\ Raw(t, c)
    BY <1>2 DEF fence_wait, FenceWait
  <2> QED
    BY <2>1, <2>2, ParkStep
<1>3. CASE syncobj_wait(t, r, c)
  <2>1. PICK hs \in SUBSET {h \in Handle : sync[c][h] # "none"} \ {{}},
             all \in BOOLEAN, for_submit \in BOOLEAN, timeout \in {0, 1} :
            v3da_wait_park(t, SyncobjWait(r, c, hs, all, for_submit), timeout)
    BY <1>3 DEF syncobj_wait
  <2>2. /\ SyncobjWait(r, c, hs, all, for_submit).rid = r
        /\ msgRecv(t, r) /\ Raw(t, c)
    BY <1>3 DEF syncobj_wait, SyncobjWait
  <2> QED
    BY <2>1, <2>2, ParkStep
<1>4. CASE client_close(t, r, c)
  <2> DEFINE ws == {w \in waits : w.client = c}
  <2>1. msgRecv(t, r) /\ Respond(t, r) /\ wait_claim(t, ws) /\ ws \in SUBSET waits
    BY <1>4 DEF client_close
  <2> HIDE DEF ws
  <2> QED
    BY <2>1, ReceiveClaim
<1>5. CASE quit_request(t, r, c)
  BY <1>5, ReceiveClaim DEF quit_request
<1> QED
  BY <1>1, <1>2, <1>3, <1>4, <1>5
     DEF Handler, v3da_syncobj_create, v3da_syncobj_destroy, v3da_syncobj_reset,
         v3da_syncobj_signal, v3da_syncobj_import, submit

LEMMA OwedInit == WaitsInit => OwedInv
  BY WaitsAssumption
     DEF WaitsInit, OwedInv, Debts, Due, Single, Somebody, Once

LEMMA OwedStep == WaitsTypeOK /\ OwedInv /\ [WaitsNext]_wvars => OwedInv'
<1> SUFFICES ASSUME WaitsTypeOK, OwedInv, [WaitsNext]_wvars PROVE OwedInv'
  OBVIOUS
<1>0. WaitsTypeOK'
  BY TypeStep
<1>1. CASE \E t \in Dispatch, r \in Rid, c \in Client : Handler(t, r, c)
  BY <1>0, <1>1, HandlerStep
<1>2. CASE \E t \in Thread : Answering(t)
  BY <1>2, AnswerWait, AnswerOwn DEF Answering
<1>3. CASE (\E r \in Rid : Deadline(r)) \/ condWait \/ UNCHANGED wvars
  BY <1>3, Kept DEF Deadline, condWait, wvars
<1>4. CASE v3da_event_thread
  <2>1. PICK done \in SUBSET {f \in Fence : owner[f] # "none"} : waits_scan(signaled')
    BY <1>4 DEF v3da_event_thread
  <2> DEFINE ws == {w \in waits : wait_eval(w, sync, signaled') # "wait" \/ w.rid \in late}
  <2>2. ws \in SUBSET waits /\ wait_claim(Event, ws)
    BY <2>1 DEF waits_scan
  <2> HIDE DEF ws
  <2> QED
    BY <1>4, <2>2, Claim DEF v3da_event_thread
<1> QED
  BY <1>1, <1>2, <1>3, <1>4 DEF WaitsNext

LEMMA OwedElements ==
    ASSUME NEW r
    PROVE  \A o : o \in Owed(r) <=>
               \/ \E w \in waits : w.rid = r /\ o = <<"parked", w>>
               \/ \E t \in Dispatch : own[t] = r /\ o = <<"own", t>>
               \/ \E t \in Thread : \E w \in answer[t] : w.rid = r /\ o = <<t, w>>
  BY DEF Owed

LEMMA OwedMeaning ==
    ASSUME WaitsTypeOK, OwedInv
    PROVE  OwedOnce
<1> SUFFICES ASSUME NEW r \in Rid
             PROVE  CASE came[r] = "none" -> Owed(r) = {} /\ answered[r].n = 0
                      [] answered[r].n = 0 /\ came[r] # "none" ->
                             \E o \in Owed(r) : Owed(r) = {o}
                      [] OTHER -> Owed(r) = {} /\ answered[r].n = 1
  BY DEF OwedOnce
<1>1. NobodyOwes(r) => Owed(r) = {}
  BY OwedElements DEF NobodyOwes
<1>2. \A o, p \in Owed(r) : o = p
  <2> SUFFICES ASSUME NEW o \in Owed(r), NEW p \in Owed(r) PROVE o = p
    OBVIOUS
  <2> r # NoRid
    BY WaitsAssumption
  <2>1. CASE \E w \in waits : w.rid = r /\ o = <<"parked", w>>
    BY <2>1, OwedElements DEF OwedInv, Single
  <2>2. CASE \E t \in Dispatch : own[t] = r /\ o = <<"own", t>>
    BY <2>2, OwedElements DEF OwedInv, Single
  <2>3. CASE \E t \in Thread : \E w \in answer[t] : w.rid = r /\ o = <<t, w>>
    BY <2>3, OwedElements DEF OwedInv, Single
  <2> QED
    BY <2>1, <2>2, <2>3, OwedElements
<1>3. CASE came[r] = "none"
  <2>1. NobodyOwes(r) /\ answered[r].n = 0
    BY <1>3, Unreceived DEF OwedInv, Once
  <2> QED
    BY <1>1, <1>3, <2>1
<1>4. CASE answered[r].n = 0 /\ came[r] # "none"
  <2>1. ~NobodyOwes(r)
    BY <1>4 DEF OwedInv, Somebody
  <2>2. Owed(r) # {}
    <3>1. CASE \E w \in waits : w.rid = r
      <4>1. PICK w \in waits : w.rid = r
        BY <3>1
      <4>2. <<"parked", w>> \in Owed(r)
        BY <4>1, OwedElements
      <4> QED
        BY <4>2
    <3>2. CASE \E t \in Dispatch : own[t] = r
      <4>1. PICK t \in Dispatch : own[t] = r
        BY <3>2
      <4>2. <<"own", t>> \in Owed(r)
        BY <4>1, OwedElements
      <4> QED
        BY <4>2
    <3>3. CASE \E t \in Thread : \E w \in answer[t] : w.rid = r
      <4>1. PICK t \in Thread : \E w \in answer[t] : w.rid = r
        BY <3>3
      <4>2. PICK w \in answer[t] : w.rid = r
        BY <4>1
      <4>3. <<t, w>> \in Owed(r)
        BY <4>2, OwedElements
      <4> QED
        BY <4>3
    <3> QED
      BY <2>1, <3>1, <3>2, <3>3 DEF NobodyOwes
  <2> QED
    BY <1>2, <1>4, <2>2
<1>5. CASE answered[r].n # 0 /\ came[r] # "none"
  <2>1. answered[r].n = 1
    BY <1>5 DEF OwedInv, Once
  <2>2. r # NoRid
    BY WaitsAssumption
  <2>3. \A w \in waits : w.rid # r
    BY <1>5 DEF OwedInv, Debts, Due
  <2>4. \A t \in Dispatch : own[t] # r
    BY <1>5, <2>2 DEF OwedInv, Debts, Due
  <2>5. \A t \in Thread : \A w \in answer[t] : w.rid # r
    BY <1>5 DEF OwedInv, Debts, Due
  <2> QED
    BY <1>1, <1>5, <2>1, <2>3, <2>4, <2>5 DEF NobodyOwes
<1> QED
  BY <1>3, <1>4, <1>5

---------------------------------------------------------------------------
(* Theorems                                                                *)

\* Whatever requests come, from however many clients and threads, the server's
\* tables and lists stay well formed.
THEOREM WaitsTypeCorrect == WaitsSpec => []WaitsTypeOK
  BY TypeInit, TypeStep, PTL DEF WaitsSpec

\* Every request that was received is answered once or owed by exactly one wait
\* or thread (wait_claim()), although waits are answered with the lock free.
THEOREM EachOwedOnce == WaitsSpec => []OwedOnce
<1>1. WaitsInit => OwedInv
  BY OwedInit
<1>2. WaitsTypeOK /\ OwedInv /\ [WaitsNext]_wvars => OwedInv'
  BY OwedStep
<1>3. WaitsTypeOK /\ OwedInv => OwedOnce
  BY OwedMeaning
<1> QED
  BY <1>1, <1>2, <1>3, WaitsTypeCorrect, PTL DEF WaitsSpec

\* Every answer goes to the port its request came from, although the port reaches
\* v3da_wait_park() in the global srv.rx_port.
THEOREM RightPort == WaitsSpec => []AnsweredWhereAsked
<1>1. WaitsTypeOK /\ OwedInv => AnsweredWhereAsked
  BY DEF WaitsTypeOK, OwedInv, Once, AnsweredWhereAsked
<1>2. WaitsTypeOK /\ OwedInv /\ [WaitsNext]_wvars => OwedInv'
  BY OwedStep
<1> QED
  BY <1>1, <1>2, OwedInit, WaitsTypeCorrect, PTL DEF WaitsSpec

\* No parked wait outlives its client (v3da_waits_client_gone()), to be
\* evaluated against the syncobjs of the slot's next owner.
THEOREM WaitsHaveClients == WaitsSpec => []ParkedHasClient
<1>1. WaitsInit => ParkedHasClient
  BY DEF WaitsInit, ParkedHasClient
<1>2. WaitsTypeOK /\ ParkedHasClient /\ [WaitsNext]_wvars => ParkedHasClient'
  <2> SUFFICES ASSUME WaitsTypeOK, ParkedHasClient, [WaitsNext]_wvars
               PROVE  ParkedHasClient'
    OBVIOUS
  <2>1. ASSUME NEW t \in Dispatch, NEW r \in Rid, NEW c \in Client, Handler(t, r, c)
        PROVE  ParkedHasClient'
    <3>1. CASE client_open(t, r, c)
      BY <3>1 DEF client_open, ParkedHasClient
    <3>2. CASE Simple(t, r, c)
      BY <3>2 DEF Simple, NoClaims, ParkedHasClient
    <3>3. CASE client_close(t, r, c)
      BY <3>3 DEF client_close, wait_claim, ParkedHasClient
    <3>4. CASE quit_request(t, r, c)
      BY <3>4 DEF quit_request, wait_claim, ParkedHasClient
    <3>5. CASE fence_wait(t, r, c)
      <4>1. PICK fs \in SUBSET {f \in Fence : owner[f] # "none"}, timeout \in {0, 1} :
                v3da_wait_park(t, FenceWait(r, c, fs), timeout)
        BY <3>5 DEF fence_wait
      <4>2. /\ Parked(FenceWait(r, c, fs), rx_port').client = c
            /\ c \in used /\ used' = used
        BY <3>5 DEF fence_wait, Raw, Parked, FenceWait
      <4>3. waits' \subseteq waits \union {Parked(FenceWait(r, c, fs), rx_port')}
        BY <4>1 DEF v3da_wait_park, NoClaims
      <4> QED
        BY <4>2, <4>3 DEF ParkedHasClient
    <3>6. CASE syncobj_wait(t, r, c)
      <4>1. PICK hs \in SUBSET {h \in Handle : sync[c][h] # "none"} \ {{}},
                 all \in BOOLEAN, for_submit \in BOOLEAN, timeout \in {0, 1} :
                v3da_wait_park(t, SyncobjWait(r, c, hs, all, for_submit), timeout)
        BY <3>6 DEF syncobj_wait
      <4> DEFINE w == SyncobjWait(r, c, hs, all, for_submit)
      <4>2. Parked(w, rx_port').client = c /\ c \in used /\ used' = used
        BY <3>6 DEF syncobj_wait, Raw, Parked, SyncobjWait
      <4>3. waits' \subseteq waits \union {Parked(w, rx_port')}
        BY <4>1 DEF v3da_wait_park, NoClaims
      <4> QED
        BY <4>2, <4>3 DEF ParkedHasClient
    <3> QED
      BY <2>1, <3>1, <3>2, <3>3, <3>4, <3>5, <3>6
         DEF Handler, v3da_syncobj_create, v3da_syncobj_destroy, v3da_syncobj_reset,
             v3da_syncobj_signal, v3da_syncobj_import, submit
  <2>2. CASE \E t \in Thread : Answering(t)
    BY <2>2 DEF Answering, v3da_waits_answer, answer_own, ParkedHasClient
  <2>3. CASE (\E r \in Rid : Deadline(r)) \/ condWait \/ UNCHANGED wvars
    BY <2>3 DEF Deadline, condWait, wvars, ParkedHasClient
  <2>4. CASE v3da_event_thread
    BY <2>4 DEF v3da_event_thread, waits_scan, wait_claim, ParkedHasClient
  <2> QED
    BY <2>1, <2>2, <2>3, <2>4 DEF WaitsNext
<1> QED
  BY <1>1, <1>2, WaitsTypeCorrect, PTL DEF WaitsSpec

---------------------------------------------------------------------------
(* Kicks                                                                   *)

\* Stronger than NoMissedWait: the event thread need not be asleep.
NothingMissed ==
    ~kick /\ ~quiet => \A w \in waits : wait_eval(w, sync, signaled) = "wait"

LEMMA EvalFence ==
    ASSUME NEW w, w.kind = "fence", NEW a, NEW b, NEW sgn
    PROVE  wait_eval(w, a, sgn) = wait_eval(w, b, sgn)
  BY DEF wait_eval

LEMMA EvalNeedsObjects ==
    ASSUME NEW w, w.kind = "syncobj", NEW a, NEW sgn, wait_eval(w, a, sgn) = "wait"
    PROVE  \A h \in w.handles : a[w.client][h] # "none"
  BY DEF wait_eval

LEMMA EvalSame ==
    ASSUME NEW w, w.kind = "syncobj", NEW a, NEW b, NEW sgn,
           \A h \in w.handles : a[w.client][h] = b[w.client][h]
    PROVE  wait_eval(w, a, sgn) = wait_eval(w, b, sgn)
<1>1. {a[w.client][h] : h \in w.handles} = {b[w.client][h] : h \in w.handles}
  OBVIOUS
<1>2. {h \in w.handles : a[w.client][h] \in {"signaled"} \union sgn}
         = {h \in w.handles : b[w.client][h] \in {"signaled"} \union sgn}
  OBVIOUS
<1> QED
  BY <1>1, <1>2 DEF wait_eval

\* A change to syncobjs that exist for no parked wait is not seen by any.
LEMMA EvalKept ==
    ASSUME WaitsTypeOK, NothingMissed, waits' = waits, signaled' = signaled,
           kick' = kick, quiet' = quiet,
           \A w \in waits : \A h \in w.handles :
               sync'[w.client][h] = sync[w.client][h] \/ sync[w.client][h] = "none"
    PROVE  NothingMissed'
<1> SUFFICES ASSUME ~kick, ~quiet, NEW w \in waits
             PROVE  wait_eval(w, sync', signaled) = "wait"
  BY DEF NothingMissed
<1>1. wait_eval(w, sync, signaled) = "wait"
  BY DEF NothingMissed
<1>2. CASE w.kind = "fence"
  BY <1>1, <1>2, EvalFence
<1>3. CASE w.kind = "syncobj"
  <2>1. \A h \in w.handles : sync'[w.client][h] = sync[w.client][h]
    BY <1>1, <1>3, EvalNeedsObjects
  <2> QED
    BY <1>1, <1>3, <2>1, EvalSame
<1> QED
  BY <1>2, <1>3 DEF WaitsTypeOK, WaitRecord

\* A wait that can be answered is not missed by a sleeping event thread without a
\* kick on its way, but for what v3da_syncobj_reset() and client_close() change.
THEOREM NoWaitMissed == WaitsSpec => []NoMissedWait
<1>1. WaitsInit => NothingMissed
  BY DEF WaitsInit, NothingMissed
<1>2. WaitsTypeOK /\ ParkedHasClient /\ NothingMissed /\ [WaitsNext]_wvars => NothingMissed'
  <2> SUFFICES ASSUME WaitsTypeOK, ParkedHasClient, NothingMissed, [WaitsNext]_wvars
               PROVE  NothingMissed'
    OBVIOUS
  <2>1. ASSUME NEW t \in Dispatch, NEW r \in Rid, NEW c \in Client, Handler(t, r, c)
        PROVE  NothingMissed'
    <3>1. CASE client_open(t, r, c)
      <4>1. \A w \in waits : w.client \in Client /\ w.client # c
        BY <3>1 DEF client_open, ParkedHasClient, WaitsTypeOK, WaitRecord
      <4>2. \A w \in waits : sync'[w.client] = sync[w.client]
        BY <3>1, <4>1 DEF client_open, WaitsTypeOK
      <4> QED
        BY <3>1, <4>2, EvalKept DEF client_open
    <3>2. CASE v3da_syncobj_create(t, r, c)
      <4>1. PICK h \in Handle, state \in {"empty", "signaled"} :
                sync[c][h] = "none" /\ sync' = [sync EXCEPT ![c][h] = state]
        BY <3>2 DEF v3da_syncobj_create
      <4>2. \A d \in Client, k \in Handle :
                sync'[d][k] = sync[d][k] \/ sync[d][k] = "none"
        BY <4>1 DEF WaitsTypeOK
      <4>3. \A w \in waits : w.client \in Client /\ w.handles \subseteq Handle
        BY DEF WaitsTypeOK, WaitRecord
      <4> QED
        BY <3>2, <4>2, <4>3, EvalKept DEF v3da_syncobj_create, Simple, NoClaims
    <3>3. CASE kick' = TRUE \/ quiet' = TRUE
      BY <3>3 DEF NothingMissed
    <3>4. CASE UNCHANGED <<waits, sync, signaled, kick, quiet>>
      BY <3>4 DEF NothingMissed
    <3>5. CASE fence_wait(t, r, c)
      BY <3>5, <3>3, <3>4 DEF fence_wait, v3da_wait_park, NoClaims
    <3>6. CASE syncobj_wait(t, r, c)
      BY <3>6, <3>3, <3>4 DEF syncobj_wait, v3da_wait_park, NoClaims
    <3> QED
      BY <2>1, <3>1, <3>2, <3>3, <3>5, <3>6
         DEF Handler, client_close, v3da_syncobj_destroy, v3da_syncobj_reset,
             v3da_syncobj_signal, v3da_syncobj_import, submit, quit_request
  <2>2. CASE v3da_event_thread
    <3>1. waits_scan(signaled') /\ sync' = sync
      BY <2>2 DEF v3da_event_thread
    <3>2. waits' = waits \ {w \in waits : wait_eval(w, sync, signaled') # "wait"
                                          \/ w.rid \in late}
      BY <3>1 DEF waits_scan, wait_claim
    <3> QED
      BY <3>1, <3>2 DEF NothingMissed
  <2>3. CASE \E t \in Thread : Answering(t)
    BY <2>3 DEF Answering, v3da_waits_answer, answer_own, NothingMissed
  <2>4. CASE (\E r \in Rid : Deadline(r)) \/ condWait \/ UNCHANGED wvars
    BY <2>4 DEF Deadline, condWait, wvars, NothingMissed
  <2> QED
    BY <2>1, <2>2, <2>3, <2>4 DEF WaitsNext
<1>3. NothingMissed => NoMissedWait
  BY DEF NothingMissed, NoMissedWait
<1> QED
  BY <1>1, <1>2, <1>3, WaitsTypeCorrect, WaitsHaveClients, PTL DEF WaitsSpec

=============================================================================
