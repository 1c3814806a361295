------------------------------ MODULE Connections ------------------------------
(***************************************************************************)
(* The life of the WebSocket connections: SessionRegistry, the connection  *)
(* callbacks of PhantasmonWebSocketHandler and PresenceTtlSweeper.         *)
(*                                                                         *)
(* A player has one registered connection; a newer one replaces and closes *)
(* it.  A closed connection unregisters itself, if it still is the         *)
(* registered one, and only then cleans up in each service, one call after *)
(* another: other threads run between those calls.  The TTL sweeper cleans *)
(* up first and closes the connection last.                                *)
(*                                                                         *)
(* The services that live on these connections extend this module and say  *)
(* what a message and a cleanup do to them.                                *)
(***************************************************************************)
EXTENDS Integers, FiniteSets

CONSTANTS
    Players,
    Nobody,
    Connections,    \* how many connections of a player may overlap
    NoConnection,
    Sweeps          \* whether the TTL sweeper finds anybody expired

ASSUME ConnectionsAssumption ==
    /\ Nobody \notin Players
    /\ NoConnection \notin Connections
    /\ Sweeps \in BOOLEAN

VARIABLES
    socket,       \* what became of each connection of each player
    registered,   \* SessionRegistry.sessions
    handling,     \* the connections whose handler thread has read a message
    expiring      \* the player the sweeper is expiring, and how far it is

connectionVars == <<socket, registered, handling, expiring>>

(* "closing": out of the registry, and the thread that took it out is about *)
(* to close it; "closed": isOpen is false, afterConnectionClosed is about   *)
(* to run; "cleanup": it has unregistered the connection and cleans up.     *)
SocketStates == {"none", "open", "closing", "closed", "cleanup"}

NotExpiring == [player |-> Nobody, step |-> "idle"]

ConnectionsTypeOK ==
    /\ socket \in [Players -> [Connections -> SocketStates]]
    /\ registered \in [Players -> Connections \cup {NoConnection}]
    /\ handling \in [Players -> SUBSET Connections]
    /\ expiring \in [player : Players \cup {Nobody}, step : {"idle", "cleanup", "close"}]

ConnectionsInit ==
    /\ socket = [p \in Players |-> [c \in Connections |-> "none"]]
    /\ registered = [p \in Players |-> NoConnection]
    /\ handling = [p \in Players |-> {}]
    /\ expiring = NotExpiring

(* SessionRegistry.isConnected *)
IsConnected(p) == registered[p] # NoConnection /\ socket[p][registered[p]] = "open"

CleanupPending(p) ==
    \/ \E c \in Connections : socket[p][c] = "cleanup"
    \/ expiring = [player |-> p, step |-> "cleanup"]

-------------------------------------------------------------------------------
(* afterConnectionEstablished: the newcomer takes the registry's entry,     *)
(* then closes the one it replaces.                                         *)
Register(p, c) ==
    /\ socket[p][c] = "none"
    /\ c \notin handling[p]
    /\ socket' = [socket EXCEPT ![p] =
            [d \in Connections |->
                IF d = c THEN "open"
                ELSE IF d = registered[p] /\ socket[p][d] = "open" THEN "closing"
                ELSE socket[p][d]]]
    /\ registered' = [registered EXCEPT ![p] = c]
    /\ UNCHANGED <<handling, expiring>>

(* The client closes the connection, the network does, or the thread that   *)
(* took it out of the registry.                                             *)
Drop(p, c) ==
    /\ socket[p][c] \in {"open", "closing"}
    /\ socket' = [socket EXCEPT ![p][c] = "closed"]
    /\ UNCHANGED <<registered, handling, expiring>>

(* Mutant: the connection unregisters whichever one is registered. *)
UnregisterAny(p, c) ==
    /\ socket[p][c] = "closed"
    /\ socket' = [socket EXCEPT ![p][c] = "cleanup"]
    /\ registered' = [registered EXCEPT ![p] = NoConnection]
    /\ UNCHANGED <<handling, expiring>>

(* afterConnectionClosed up to its guard: a replaced connection stops here. *)
Unregister(p, c) ==
    /\ socket[p][c] = "closed"
    /\ IF registered[p] = c
       THEN /\ socket' = [socket EXCEPT ![p][c] = "cleanup"]
            /\ registered' = [registered EXCEPT ![p] = NoConnection]
       ELSE /\ socket' = [socket EXCEPT ![p][c] = "none"]
            /\ UNCHANGED registered
    /\ UNCHANGED <<handling, expiring>>

(* The rest of afterConnectionClosed, when the services' part is one call.  *)
CleanedUp(p, c) ==
    /\ socket[p][c] = "cleanup"
    /\ socket' = [socket EXCEPT ![p][c] = "none"]
    /\ UNCHANGED <<registered, handling, expiring>>

(* A handler thread reads one message after another.  It may still have to  *)
(* wait for a service's lock when another thread closes its connection.     *)
Receive(p, c) ==
    /\ socket[p][c] \in {"open", "closing"}
    /\ c \notin handling[p]
    /\ handling' = [handling EXCEPT ![p] = @ \cup {c}]
    /\ UNCHANGED <<socket, registered, expiring>>

Handled(p, c) ==
    /\ c \in handling[p]
    /\ handling' = [handling EXCEPT ![p] = @ \ {c}]
    /\ UNCHANGED <<socket, registered, expiring>>

(* PresenceTtlSweeper: findExpired has returned p, earlier than this, and   *)
(* nothing looks again before expire.                                       *)
Expire(p) ==
    /\ Sweeps
    /\ expiring = NotExpiring
    /\ expiring' = [player |-> p, step |-> "cleanup"]
    /\ UNCHANGED <<socket, registered, handling>>

ExpireCleanedUp(p) ==
    /\ expiring = [player |-> p, step |-> "cleanup"]
    /\ expiring' = [player |-> p, step |-> "close"]
    /\ UNCHANGED <<socket, registered, handling>>

(* SessionRegistry.close: it unregisters before it closes, so that          *)
(* afterConnectionClosed finds nothing to do.                               *)
ExpireClose(p) ==
    /\ expiring = [player |-> p, step |-> "close"]
    /\ expiring' = NotExpiring
    /\ registered' = [registered EXCEPT ![p] = NoConnection]
    /\ socket' = [socket EXCEPT ![p] =
            [d \in Connections |->
                IF d = registered[p] /\ socket[p][d] = "open" THEN "closing" ELSE socket[p][d]]]
    /\ UNCHANGED handling

-------------------------------------------------------------------------------
(* SEC-8: whatever connections of a player follow and replace each other,   *)
(* the one left open is the one messages are sent to.                       *)
OpenIsRegistered ==
    \A p \in Players, c \in Connections : socket[p][c] = "open" => registered[p] = c

===============================================================================
