---------------------------- MODULE MCV3daServer ----------------------------
(* Two parts of the render server that share no state, one at a time: the   *)
(* parked requests (by one client with liveness, by two without room for    *)
(* it) and the overflow memory of the binner.                               *)
EXTENDS V3daWaits, V3daOvf

CONSTANT Few  \* the requests of the behaviours with two clients

VARIABLE subject

MCPortOf == [t \in Dispatch |-> IF t = "d1" THEN "render" ELSE "card1"]

serverVars == <<wvars, ovars, subject>>

ServerInit == WaitsInit /\ OvfInit /\ subject \in {"one client", "two clients", "overflow"}

\* Requests come in the order of their numbers.
Received ==
    \E r \in Rid :
        /\ came[r] = "none" /\ \A q \in Rid : q < r => came[q] # "none"
        /\ subject = "two clients" => r \in Few
        /\ \E t \in Dispatch, c \in Client :
               /\ subject = "one client" => c = "c1"
               /\ Handler(t, r, c)

WaitsStep ==
    /\ subject # "overflow"
    /\ \/ Received
       \/ \E t \in Thread : Answering(t)
       \/ \E r \in Rid : Deadline(r)
       \/ condWait \/ v3da_event_thread

ServerNext ==
    /\ UNCHANGED subject
    /\ \/ WaitsStep /\ UNCHANGED ovars
       \/ subject = "overflow" /\ OvfNext /\ UNCHANGED wvars

\* The fairness of each part, where the part is the subject.
ServerSpec ==
    /\ ServerInit /\ [][ServerNext]_serverVars
    /\ subject # "overflow" => WaitsFairness
    /\ subject = "overflow" => OvfFairness

=============================================================================
