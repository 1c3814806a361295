------------------------------ MODULE Idempotency ------------------------------
(***************************************************************************)
(* IdempotencyService.executeIdempotent around POST /pokemon, POST /trades *)
(* and POST /hub/anchors.  A call is one delivery of a request; it runs in *)
(* one transaction that claims the request_uuid, does what is asked and    *)
(* stores the answer in the claimed row.                                   *)
(*                                                                         *)
(* What is asked is not modelled: a call that did it is in `effects` once  *)
(* its transaction has committed.  Its answer is named by the call itself. *)
(***************************************************************************)
CONSTANTS
    Calls,      \* the deliveries
    Requests,   \* the values of request_uuid
    Askers,     \* a player on a route: player_uuid and endpoint
    NotSent, NoRow, NoReply, Failed, Reused, Lost

ASSUME IdempotencyAssumption ==
    /\ NoRow \notin [by : Askers, answer : Calls]
    /\ NotSent \notin [uuid : Requests, by : Askers]
    /\ NoReply \notin Calls \cup {Failed, Reused, Lost}
    /\ {Failed, Reused, Lost} \cap Calls = {}

VARIABLES
    request,  \* request[c]: the uuid and the asker of a call, or NotSent
    pc,       \* where the call stands
    rows,     \* idempotency_keys, as committed
    effects,  \* the calls whose action is committed
    reply     \* what the caller got

vars == <<request, pc, rows, effects, reply>>

Request == [uuid : Requests, by : Askers]
Row == [by : Askers, answer : Calls]
Points == {"idle", "claiming", "acting", "acted", "committed", "found", "ended"}

TypeOK ==
    /\ request \in [Calls -> Request \cup {NotSent}]
    /\ pc \in [Calls -> Points]
    /\ rows \in [Requests -> Row \cup {NoRow}]
    /\ effects \subseteq Calls
    /\ reply \in [Calls -> Calls \cup {NoReply, Failed, Reused, Lost}]

Init ==
    /\ request = [c \in Calls |-> NotSent]
    /\ pc = [c \in Calls |-> "idle"]
    /\ rows = [u \in Requests |-> NoRow]
    /\ effects = {}
    /\ reply = [c \in Calls |-> NoReply]

Goto(c, point) == pc' = [pc EXCEPT ![c] = point]

End(c, r) ==
    /\ Goto(c, "ended")
    /\ reply' = [reply EXCEPT ![c] = r]

(* Mutant: the claim committed on its own, before the action.              *)
ReservedForGood(u) ==
    \E c \in Calls : /\ request[c] # NotSent /\ request[c].uuid = u
                     /\ pc[c] \in {"acting", "acted"} \/ reply[c] \in {Failed, Lost}

(* Mutant: the row looked up and inserted at the end, as before DEBT-4.     *)
NeverReserved(u) == FALSE

(* The row of the uuid is inserted and not yet committed: another INSERT of *)
(* the same uuid waits for that transaction to end.                        *)
Reserved(u) ==
    \E c \in Calls : pc[c] \in {"acting", "acted"} /\ request[c].uuid = u

(* A delivery arrives: the first, a retry, or another's with the same uuid. *)
Arrive(c, r) ==
    /\ pc[c] = "idle"
    /\ request' = [request EXCEPT ![c] = r]
    /\ Goto(c, "claiming")
    /\ UNCHANGED <<rows, effects, reply>>

(* INSERT ... ON CONFLICT DO NOTHING returns 1 ...                         *)
ClaimFree(c) ==
    /\ pc[c] = "claiming"
    /\ ~ Reserved(request[c].uuid)
    /\ rows[request[c].uuid] = NoRow
    /\ Goto(c, "acting")
    /\ UNCHANGED <<request, rows, effects, reply>>

(* ... or 0, the row being there and committed.                            *)
ClaimTaken(c) ==
    /\ pc[c] = "claiming"
    /\ ~ Reserved(request[c].uuid)
    /\ rows[request[c].uuid] # NoRow
    /\ Goto(c, "found")
    /\ UNCHANGED <<request, rows, effects, reply>>

(* action.get() returns and recordResponse fills the claimed row.          *)
Act(c) ==
    /\ pc[c] = "acting"
    /\ Goto(c, "acted")
    /\ UNCHANGED <<request, rows, effects, reply>>

(* action.get() throws, or the commit fails: the claim is rolled back too.  *)
ActFails(c) ==
    /\ pc[c] \in {"acting", "acted"}
    /\ End(c, Failed)
    /\ UNCHANGED <<request, rows, effects>>

Commit(c) ==
    /\ pc[c] = "acted"
    /\ rows' = [rows EXCEPT ![request[c].uuid] = [by |-> request[c].by, answer |-> c]]
    /\ effects' = effects \cup {c}
    /\ Goto(c, "committed")
    /\ UNCHANGED <<request, reply>>

Respond(c) ==
    /\ pc[c] = "committed"
    /\ End(c, c)
    /\ UNCHANGED <<request, rows, effects>>

(* Mutant: the stored answer to whoever knows the uuid, as before SEC-7.   *)
ReplayToAnyone(c) ==
    /\ pc[c] = "found"
    /\ End(c, rows[request[c].uuid].answer)
    /\ UNCHANGED <<request, rows, effects>>

(* The stored answer, to the same player on the same route only.           *)
Replay(c) ==
    /\ pc[c] = "found"
    /\ LET existing == rows[request[c].uuid]
       IN  End(c, IF existing.by # request[c].by THEN Reused ELSE existing.answer)
    /\ UNCHANGED <<request, rows, effects>>

(* The backend stops: what has not committed is rolled back, and nobody     *)
(* whose call is under way gets an answer.                                 *)
UnderWay(c) == pc[c] \notin {"idle", "ended"}

Crash ==
    /\ \E c \in Calls : UnderWay(c)
    /\ pc' = [c \in Calls |-> IF UnderWay(c) THEN "ended" ELSE pc[c]]
    /\ reply' = [c \in Calls |-> IF UnderWay(c) THEN Lost ELSE reply[c]]
    /\ UNCHANGED <<request, rows, effects>>

Execute(c) ==
    \/ ClaimFree(c) \/ ClaimTaken(c)
    \/ Act(c) \/ ActFails(c) \/ Commit(c) \/ Respond(c)
    \/ Replay(c)

Next ==
    \/ \E c \in Calls : Execute(c) \/ \E r \in Request : Arrive(c, r)
    \/ Crash

Spec == Init /\ [][Next]_vars

(* A request thread that can go on does; a request may never come, the      *)
(* backend may never stop.                                                 *)
FairSpec == Spec /\ \A c \in Calls : WF_vars(Execute(c))

-------------------------------------------------------------------------------
(* However many deliveries of a request arrive, at once or after a failure  *)
(* or a restart, what it asks for is committed once: `executeIdempotent`    *)
(* claims the uuid before it acts, in the transaction of the action.       *)
OncePerRequest ==
    \A c, d \in effects : request[c].uuid = request[d].uuid => c = d

(* What a caller is told was really done, is what every other delivery of   *)
(* the same request is told, and is never the answer given to somebody     *)
(* else's request: the abstract specification says it of every step.        *)
Once == INSTANCE OnceOnly WITH done <- rows

ImplementsOnce == Once!Spec

(* A delivery that waits for another's claim gets its turn: it is answered, *)
(* or the backend has stopped.                                             *)
EveryCallAnswered == \A c \in Calls : (pc[c] = "claiming") ~> (pc[c] = "ended")

===============================================================================
