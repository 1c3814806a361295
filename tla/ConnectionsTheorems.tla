-------------------------- MODULE ConnectionsTheorems --------------------------
(***************************************************************************)
(* What the connection actions keep, for the proofs about every service    *)
(* that extends Connections.                                               *)
(***************************************************************************)
EXTENDS Connections, TLAPS

(* A step of the connections, whatever a service does in it. *)
ConnectionStep(p, c) ==
    \/ Register(p, c)
    \/ Drop(p, c)
    \/ Unregister(p, c)
    \/ CleanedUp(p, c)
    \/ Receive(p, c)
    \/ Handled(p, c)

SweepStep(p) == Expire(p) \/ ExpireCleanedUp(p) \/ ExpireClose(p)

ConnectionsNext ==
    \/ \E p \in Players, c \in Connections : ConnectionStep(p, c)
    \/ \E p \in Players : SweepStep(p)

(* A player is present while a connection is registered or is being cleaned *)
(* up: its cleanup has yet to reach the services.                           *)
Present(p) == registered[p] # NoConnection \/ CleanupPending(p)

-------------------------------------------------------------------------------
LEMMA ConnectionsKeepType ==
    ASSUME ConnectionsTypeOK, [ConnectionsNext]_connectionVars
    PROVE  ConnectionsTypeOK'
  <1> USE DEF ConnectionsTypeOK
  <1>1. ASSUME NEW p \in Players, NEW c \in Connections, ConnectionStep(p, c)
        PROVE  ConnectionsTypeOK'
    <2>1. CASE Register(p, c)
      BY <2>1 DEF Register, SocketStates
    <2>2. CASE Drop(p, c)
      BY <2>2 DEF Drop, SocketStates
    <2>3. CASE Unregister(p, c)
      <3>1. CASE registered[p] = c
        <4>1. /\ socket' = [socket EXCEPT ![p][c] = "cleanup"]
              /\ registered' = [registered EXCEPT ![p] = NoConnection]
              /\ UNCHANGED <<handling, expiring>>
          BY <2>3, <3>1 DEF Unregister
        <4> QED BY <4>1 DEF SocketStates
      <3>2. CASE registered[p] # c
        <4>1. /\ socket' = [socket EXCEPT ![p][c] = "none"]
              /\ UNCHANGED <<registered, handling, expiring>>
          BY <2>3, <3>2 DEF Unregister
        <4> QED BY <4>1 DEF SocketStates
      <3> QED BY <3>1, <3>2
    <2>4. CASE CleanedUp(p, c)
      BY <2>4 DEF CleanedUp, SocketStates
    <2>5. CASE Receive(p, c)
      BY <2>5 DEF Receive
    <2>6. CASE Handled(p, c)
      BY <2>6 DEF Handled
    <2> QED BY <1>1, <2>1, <2>2, <2>3, <2>4, <2>5, <2>6 DEF ConnectionStep
  <1>2. ASSUME NEW p \in Players, SweepStep(p)
        PROVE  ConnectionsTypeOK'
    <2>1. CASE Expire(p)
      BY <2>1 DEF Expire
    <2>2. CASE ExpireCleanedUp(p)
      BY <2>2 DEF ExpireCleanedUp
    <2>3. CASE ExpireClose(p)
      BY <2>3 DEF ExpireClose, NotExpiring, SocketStates
    <2> QED BY <1>2, <2>1, <2>2, <2>3 DEF SweepStep
  <1>3. CASE UNCHANGED connectionVars
    BY <1>3 DEF connectionVars
  <1> QED BY <1>1, <1>2, <1>3 DEF ConnectionsNext

LEMMA InitialConnections == ConnectionsInit => ConnectionsTypeOK /\ OpenIsRegistered
  BY DEF ConnectionsInit, ConnectionsTypeOK, OpenIsRegistered, NotExpiring, SocketStates

(* At most one connection of a player is open, and it is the registered one. *)
LEMMA ConnectionsKeepOneOpen ==
    ASSUME ConnectionsTypeOK, OpenIsRegistered, [ConnectionsNext]_connectionVars
    PROVE  OpenIsRegistered'
  <1> USE DEF ConnectionsTypeOK, OpenIsRegistered
  <1>1. ASSUME NEW p \in Players, NEW c \in Connections, ConnectionStep(p, c)
        PROVE  OpenIsRegistered'
    <2>1. CASE Register(p, c)
      BY <2>1 DEF Register
    <2>2. CASE Drop(p, c)
      BY <2>2 DEF Drop
    <2>3. CASE Unregister(p, c)
      BY <2>3 DEF Unregister
    <2>4. CASE CleanedUp(p, c)
      BY <2>4 DEF CleanedUp
    <2>5. CASE Receive(p, c) \/ Handled(p, c)
      BY <2>5 DEF Receive, Handled
    <2> QED BY <1>1, <2>1, <2>2, <2>3, <2>4, <2>5 DEF ConnectionStep
  <1>2. ASSUME NEW p \in Players, SweepStep(p)
        PROVE  OpenIsRegistered'
    BY <1>2 DEF SweepStep, Expire, ExpireCleanedUp, ExpireClose
  <1>3. CASE UNCHANGED connectionVars
    BY <1>3 DEF connectionVars
  <1> QED BY <1>1, <1>2, <1>3 DEF ConnectionsNext

(* Without the sweeper, a player stops being present only when its cleanup  *)
(* ends.                                                                    *)
LEMMA PresenceEndsInCleanup ==
    ASSUME ConnectionsTypeOK, expiring = NotExpiring, NEW p \in Players, NEW c \in Connections,
           ConnectionStep(p, c), NEW q \in Players, Present(q), ~ (q = p /\ CleanedUp(p, c))
    PROVE  Present(q)'
  <1> USE ConnectionsAssumption DEF ConnectionsTypeOK, Present, CleanupPending, NotExpiring
  <1>1. CASE Register(p, c)
    BY <1>1 DEF Register
  <1>2. CASE Drop(p, c)
    BY <1>2 DEF Drop
  <1>3. CASE Unregister(p, c)
    BY <1>3 DEF Unregister
  <1>4. CASE CleanedUp(p, c)
    BY <1>4 DEF CleanedUp
  <1>5. CASE Receive(p, c) \/ Handled(p, c)
    BY <1>5 DEF Receive, Handled
  <1> QED BY <1>1, <1>2, <1>3, <1>4, <1>5 DEF ConnectionStep

===============================================================================
