--------------------------- MODULE IdempotencyProofs ---------------------------
(***************************************************************************)
(* Proofs about Idempotency, for any number of deliveries, requests and    *)
(* askers.                                                                 *)
(*                                                                         *)
(* OncePerRequest is not inductive: a call about to commit must know that  *)
(* nobody else has.  The invariant adds what the INSERT guarantees, that a *)
(* uuid being claimed has no committed row and one claimant, and what the  *)
(* single transaction guarantees, that rows and effects are committed      *)
(* together.                                                               *)
(***************************************************************************)
EXTENDS Idempotency, TLAPS

Holding(c) == pc[c] \in {"acting", "acted"}

Uuid(c) == request[c].uuid

(* A call that has begun was sent.                                         *)
OnlySentCallsRun == \A c \in Calls : pc[c] # "idle" => request[c] \in Request

OneClaimant ==
    \A c, d \in Calls : Holding(c) /\ Holding(d) /\ Uuid(c) = Uuid(d) => c = d

ClaimedIsFree == \A c \in Calls : Holding(c) => rows[Uuid(c)] = NoRow

EffectsHaveTheirRow ==
    \A c \in effects : /\ request[c] \in Request
                       /\ rows[Uuid(c)] # NoRow
                       /\ rows[Uuid(c)].answer = c

CommittedHasItsRow ==
    \A c \in Calls : pc[c] = "committed" =>
        rows[Uuid(c)] = [by |-> request[c].by, answer |-> c]

FoundIsThere == \A c \in Calls : pc[c] = "found" => rows[Uuid(c)] # NoRow

(* The answer a row stores is that of a call which has committed.           *)
RowsAreOfTheCommitted ==
    \A u \in Requests : rows[u] # NoRow => pc[rows[u].answer] \in {"committed", "ended"}

IdleIsUnsent ==
    \A c \in Calls : pc[c] = "idle" <=> request[c] = NotSent

UnansweredIsNotEnded ==
    \A c \in Calls : reply[c] = NoReply <=> pc[c] # "ended"

IInv ==
    /\ TypeOK
    /\ OnlySentCallsRun
    /\ IdleIsUnsent
    /\ OneClaimant
    /\ ClaimedIsFree
    /\ EffectsHaveTheirRow
    /\ CommittedHasItsRow
    /\ FoundIsThere
    /\ RowsAreOfTheCommitted
    /\ UnansweredIsNotEnded

-------------------------------------------------------------------------------
LEMMA InitIInv == Init => IInv
<1> SUFFICES ASSUME Init PROVE IInv
  OBVIOUS
<1>1. TypeOK
  BY DEF Init, TypeOK, Points
<1>2. OnlySentCallsRun /\ IdleIsUnsent /\ UnansweredIsNotEnded
  BY DEF Init, OnlySentCallsRun, IdleIsUnsent, UnansweredIsNotEnded
<1>3. OneClaimant /\ ClaimedIsFree /\ CommittedHasItsRow /\ FoundIsThere
  BY DEF Init, OneClaimant, ClaimedIsFree, CommittedHasItsRow, FoundIsThere, Holding
<1>4. EffectsHaveTheirRow /\ RowsAreOfTheCommitted
  BY DEF Init, EffectsHaveTheirRow, RowsAreOfTheCommitted
<1>. QED  BY <1>1, <1>2, <1>3, <1>4 DEF IInv

(* The step of one call leaves the others where they are.                  *)
LEMMA StepIInv == IInv /\ [Next]_vars => IInv'
<1> SUFFICES ASSUME IInv, [Next]_vars PROVE IInv'
  OBVIOUS
<1> USE IdempotencyAssumption DEF Request, Row, Points
<1>1. ASSUME NEW c \in Calls, NEW r \in Request, Arrive(c, r) PROVE IInv'
  BY <1>1 DEF IInv, Arrive, Goto, TypeOK, OnlySentCallsRun, IdleIsUnsent, OneClaimant, ClaimedIsFree,
         EffectsHaveTheirRow, CommittedHasItsRow, FoundIsThere, RowsAreOfTheCommitted,
         UnansweredIsNotEnded, Holding, Uuid
<1>2. ASSUME NEW c \in Calls, ClaimFree(c) PROVE IInv'
  BY <1>2 DEF IInv, ClaimFree, Goto, Reserved, TypeOK, OnlySentCallsRun, IdleIsUnsent, OneClaimant, ClaimedIsFree,
         EffectsHaveTheirRow, CommittedHasItsRow, FoundIsThere, RowsAreOfTheCommitted,
         UnansweredIsNotEnded, Holding, Uuid
<1>3. ASSUME NEW c \in Calls, ClaimTaken(c) PROVE IInv'
  BY <1>3 DEF IInv, ClaimTaken, Goto, Reserved, TypeOK, OnlySentCallsRun, IdleIsUnsent, OneClaimant, ClaimedIsFree,
         EffectsHaveTheirRow, CommittedHasItsRow, FoundIsThere, RowsAreOfTheCommitted,
         UnansweredIsNotEnded, Holding, Uuid
<1>4. ASSUME NEW c \in Calls, Act(c) PROVE IInv'
  BY <1>4 DEF IInv, Act, Goto, TypeOK, OnlySentCallsRun, IdleIsUnsent, OneClaimant, ClaimedIsFree,
         EffectsHaveTheirRow, CommittedHasItsRow, FoundIsThere, RowsAreOfTheCommitted,
         UnansweredIsNotEnded, Holding, Uuid
<1>5. ASSUME NEW c \in Calls, ActFails(c) PROVE IInv'
  BY <1>5 DEF IInv, ActFails, End, Goto, TypeOK, OnlySentCallsRun, IdleIsUnsent, OneClaimant, ClaimedIsFree,
         EffectsHaveTheirRow, CommittedHasItsRow, FoundIsThere, RowsAreOfTheCommitted,
         UnansweredIsNotEnded, Holding, Uuid
<1>6. ASSUME NEW c \in Calls, Commit(c) PROVE IInv'
  BY <1>6 DEF IInv, Commit, Goto, TypeOK, OnlySentCallsRun, IdleIsUnsent, OneClaimant, ClaimedIsFree,
         EffectsHaveTheirRow, CommittedHasItsRow, FoundIsThere, RowsAreOfTheCommitted,
         UnansweredIsNotEnded, Holding, Uuid
<1>7. ASSUME NEW c \in Calls, Respond(c) PROVE IInv'
  BY <1>7 DEF IInv, Respond, End, Goto, TypeOK, OnlySentCallsRun, IdleIsUnsent, OneClaimant, ClaimedIsFree,
         EffectsHaveTheirRow, CommittedHasItsRow, FoundIsThere, RowsAreOfTheCommitted,
         UnansweredIsNotEnded, Holding, Uuid
<1>8. ASSUME NEW c \in Calls, Replay(c) PROVE IInv'
  BY <1>8 DEF IInv, Replay, End, Goto, TypeOK, OnlySentCallsRun, IdleIsUnsent, OneClaimant, ClaimedIsFree,
         EffectsHaveTheirRow, CommittedHasItsRow, FoundIsThere, RowsAreOfTheCommitted,
         UnansweredIsNotEnded, Holding, Uuid
<1>9. CASE Crash
  BY <1>9 DEF IInv, Crash, UnderWay, TypeOK, OnlySentCallsRun, IdleIsUnsent, OneClaimant, ClaimedIsFree,
         EffectsHaveTheirRow, CommittedHasItsRow, FoundIsThere, RowsAreOfTheCommitted,
         UnansweredIsNotEnded, Holding, Uuid
<1>10. CASE UNCHANGED vars
  BY <1>10 DEF IInv, vars, TypeOK, OnlySentCallsRun, IdleIsUnsent, OneClaimant, ClaimedIsFree,
         EffectsHaveTheirRow, CommittedHasItsRow, FoundIsThere, RowsAreOfTheCommitted,
         UnansweredIsNotEnded, Holding, Uuid
<1>. QED
  BY <1>1, <1>2, <1>3, <1>4, <1>5, <1>6, <1>7, <1>8, <1>9, <1>10 DEF Next, Execute

-------------------------------------------------------------------------------
LEMMA Invariance == Spec => []IInv
<1>1. Init => IInv
  BY InitIInv
<1>2. IInv /\ [Next]_vars => IInv'
  BY StepIInv
<1>. QED  BY <1>1, <1>2, PTL DEF Spec

(* The values of the variables are the ones the code can store.            *)
THEOREM TypeCorrect == Spec => []TypeOK
<1>1. IInv => TypeOK
  BY DEF IInv
<1>. QED  BY <1>1, Invariance, PTL

(* What a request asks for is committed at most once, whatever the number   *)
(* of deliveries and however they interleave, fail or are cut short: two   *)
(* effects of one uuid would both be the answer of its single row.         *)
THEOREM DoneOncePerRequest == Spec => []OncePerRequest
<1>1. IInv => OncePerRequest
  BY DEF IInv, EffectsHaveTheirRow, OncePerRequest, Uuid
<1>. QED  BY <1>1, Invariance, PTL

(* executeIdempotent implements the promise of OnceOnly: Arrive is Ask, a   *)
(* commit is Do, the response and the replay are Answer, a rolled back     *)
(* action is Fail, and the rest is invisible.                              *)
THEOREM Refinement == Spec => ImplementsOnce
<1>1. Init => Once!Init
  BY DEF Init, Once!Init
<1>2. IInv /\ [Next]_vars => [Once!Next]_(Once!vars)
  <2> SUFFICES ASSUME IInv, [Next]_vars
               PROVE  Once!Next \/ UNCHANGED <<request, rows, reply>>
    BY DEF Once!vars
  <2> USE IdempotencyAssumption
  <2>1. \A c \in Calls : UnderWay(c) <=> Once!Unanswered(c)
    BY DEF IInv, IdleIsUnsent, UnansweredIsNotEnded, UnderWay, Once!Unanswered
  <2>2. ASSUME NEW c \in Calls, NEW r \in Request, Arrive(c, r) PROVE Once!Ask(c, r)
    BY <2>2 DEF IInv, IdleIsUnsent, Arrive, Once!Ask
  <2>3. ASSUME NEW c \in Calls, ClaimFree(c) \/ ClaimTaken(c) \/ Act(c)
        PROVE  UNCHANGED <<request, rows, reply>>
    BY <2>3 DEF ClaimFree, ClaimTaken, Act
  <2>4. ASSUME NEW c \in Calls, ActFails(c) PROVE Once!Fail(c)
    <3>1. Once!Unanswered(c)
      BY <2>1, <2>4 DEF ActFails, UnderWay
    <3>2. \A u \in Requests : rows[u] # NoRow => rows[u].answer # c
      BY <2>4 DEF IInv, RowsAreOfTheCommitted, ActFails
    <3>. QED  BY <2>4, <3>1, <3>2 DEF ActFails, End, Once!Fail
  <2>5. ASSUME NEW c \in Calls, Commit(c) PROVE Once!Do(c)
    <3>1. Once!Unanswered(c)
      BY <2>1, <2>5 DEF Commit, UnderWay
    <3>2. rows[request[c].uuid] = NoRow
      BY <2>5 DEF IInv, ClaimedIsFree, Holding, Uuid, Commit
    <3>. QED  BY <2>5, <3>1, <3>2 DEF Commit, Once!Do
  <2>6. ASSUME NEW c \in Calls, Respond(c) PROVE Once!Answer(c)
    <3>1. Once!Unanswered(c)
      BY <2>1, <2>6 DEF Respond, UnderWay
    <3>2. rows[request[c].uuid] = [by |-> request[c].by, answer |-> c]
      BY <2>6 DEF IInv, CommittedHasItsRow, Uuid, Respond
    <3>3. rows[request[c].uuid] # NoRow
      BY <2>6, <3>2 DEF IInv, TypeOK, OnlySentCallsRun, Request, Respond
    <3>. QED  BY <2>6, <3>1, <3>2, <3>3 DEF Respond, End, Once!Answer
  <2>7. ASSUME NEW c \in Calls, Replay(c) PROVE Once!Answer(c)
    <3>1. Once!Unanswered(c)
      BY <2>1, <2>7 DEF Replay, UnderWay
    <3>2. rows[request[c].uuid] # NoRow
      BY <2>7 DEF IInv, FoundIsThere, Uuid, Replay
    <3>. QED  BY <2>7, <3>1, <3>2 DEF Replay, End, Once!Answer
  <2>8. CASE Crash
    <3>1. reply' = [c \in Calls |-> IF Once!Unanswered(c) THEN Lost ELSE reply[c]]
      BY <2>1, <2>8, Zenon DEF Crash
    <3>. QED  BY <2>8, <3>1 DEF Crash, Once!Lose, Once!Next
  <2>9. CASE UNCHANGED vars
    BY <2>9 DEF vars
  <2>10. Once!Request = Request
    BY DEF Request, Once!Request
  <2>. QED
    BY <2>2, <2>3, <2>4, <2>5, <2>6, <2>7, <2>8, <2>9, <2>10 DEF Next, Execute, Once!Next
<1>3. QED
  BY <1>1, <1>2, Invariance, PTL DEF Spec, ImplementsOnce, Once!Spec, Once!vars

===============================================================================
