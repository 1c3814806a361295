------------------------------- MODULE OnceOnly -------------------------------
(***************************************************************************)
(* What the request_uuid of a POST promises, without transactions: what a  *)
(* request asks for is done at most once however often it is delivered,    *)
(* and whoever repeats it gets the answer of the one time it was done.     *)
(***************************************************************************)
CONSTANTS Calls, Requests, Askers, NotSent, NoRow, NoReply, Failed, Reused, Lost

VARIABLES
    request,  \* request[c]: what the delivery c asks for, or NotSent
    done,     \* done[u]: who asked and the delivery that did it, or NoRow
    reply     \* reply[c]: the delivery whose answer c got, or how c ended

vars == <<request, done, reply>>

Request == [uuid : Requests, by : Askers]

Init ==
    /\ request = [c \in Calls |-> NotSent]
    /\ done = [u \in Requests |-> NoRow]
    /\ reply = [c \in Calls |-> NoReply]

Ask(c, r) ==
    /\ request[c] = NotSent
    /\ request' = [request EXCEPT ![c] = r]
    /\ UNCHANGED <<done, reply>>

Unanswered(c) == request[c] # NotSent /\ reply[c] = NoReply

Do(c) ==
    /\ Unanswered(c)
    /\ done[request[c].uuid] = NoRow
    /\ done' = [done EXCEPT ![request[c].uuid] = [by |-> request[c].by, answer |-> c]]
    /\ UNCHANGED <<request, reply>>

(* The answer of the one time, to its asker alone.                         *)
Answer(c) ==
    /\ Unanswered(c)
    /\ done[request[c].uuid] # NoRow
    /\ reply' = [reply EXCEPT ![c] =
                    IF done[request[c].uuid].by = request[c].by
                    THEN done[request[c].uuid].answer ELSE Reused]
    /\ UNCHANGED <<request, done>>

(* Refused for what it asks, which leaves the uuid free.                   *)
Fail(c) ==
    /\ Unanswered(c)
    /\ \A u \in Requests : done[u] # NoRow => done[u].answer # c
    /\ reply' = [reply EXCEPT ![c] = Failed]
    /\ UNCHANGED <<request, done>>

(* The backend stops: what was under way gets no answer.                   *)
Lose ==
    /\ reply' = [c \in Calls |-> IF Unanswered(c) THEN Lost ELSE reply[c]]
    /\ UNCHANGED <<request, done>>

Next ==
    \/ \E c \in Calls : Do(c) \/ Answer(c) \/ Fail(c) \/ \E r \in Request : Ask(c, r)
    \/ Lose

Spec == Init /\ [][Next]_vars

===============================================================================
