---------------------------------- MODULE Hub ----------------------------------
(***************************************************************************)
(* PresenceService and HubService, in memory, over the players'            *)
(* connections: who is on which server and dimension, and who stands in    *)
(* which hub, entered through an anchor of that server and dimension.      *)
(*                                                                         *)
(* join and leave hold the hub's monitor.  join reads the anchor and the   *)
(* presence, which other threads change meanwhile, so it is two actions.   *)
(* A handler, a cleanup and the deletion of an anchor make several calls,  *)
(* one action each.                                                        *)
(***************************************************************************)
EXTENDS Connections

CONSTANTS
    Servers, Dimensions,
    Anchors,        \* uuids of anchors, each used once
    AnchorGroup,    \* where each anchor stands
    AnchorHub,      \* the hub it leads to
    Capacities,     \* the values of phantasmon.hub.capacity considered
    NoGroup, NoMember, NoJoin, NoCall, Outside

Group == [server : Servers, dimension : Dimensions]
Hubs == {AnchorHub[a] : a \in Anchors}

ASSUME HubAssumption ==
    /\ IsFiniteSet(Players)
    /\ NoMember \notin Anchors
    /\ AnchorGroup \in [Anchors -> Group]
    /\ Capacities \subseteq Nat \ {0}

VARIABLES
    capacity,   \* phantasmon.hub.capacity, read once
    presence,   \* presences: the group of each player
    members,    \* members: the anchor each player entered a hub through
    anchors,    \* hub_anchors, and the deletions on their way
    leaving,    \* whom the deletion of each anchor has yet to take out
    joining,    \* who is inside join, holding the monitor
    rest,       \* the call a thread still has to make on the presence
    seen        \* the avatars each player's client shows, or Outside

hubVars == <<capacity, presence, members, anchors, leaving, joining, rest, seen>>
vars == <<connectionVars, hubVars>>

(* A connection's messages are handled by one thread, and cleaned up after  *)
(* by one which may be another; the sweeper is a third.                    *)
Threads == [player : Players, connection : Connections, task : {"messages", "cleanup"}]
              \cup [player : Players, task : {"expire"}]
Messages(p, c) == [player |-> p, connection |-> c, task |-> "messages"]
Cleanup(p, c) == [player |-> p, connection |-> c, task |-> "cleanup"]
Expiry(p) == [player |-> p, task |-> "expire"]

(* "doomed": deleted in a transaction which has not committed.              *)
AnchorStates == {"unposed", "posed", "doomed", "deleted"}

Calls == [call : {"join", "update", "leave"}, group : Group \cup {NoGroup}]

TypeOK ==
    /\ ConnectionsTypeOK
    /\ capacity \in Capacities
    /\ presence \in [Players -> Group \cup {NoGroup}]
    /\ members \in [Players -> Anchors \cup {NoMember}]
    /\ anchors \in [Anchors -> AnchorStates]
    /\ leaving \in [Anchors -> SUBSET Players]
    /\ joining \in [player : Players, connection : Connections, anchor : Anchors] \cup {NoJoin}
    /\ rest \in [Threads -> Calls \cup {NoCall}]
    /\ seen \in [Players -> (SUBSET Players) \cup {Outside}]

Init ==
    /\ ConnectionsInit
    /\ capacity \in Capacities
    /\ presence = [p \in Players |-> NoGroup]
    /\ members = [p \in Players |-> NoMember]
    /\ anchors = [a \in Anchors |-> "unposed"]
    /\ leaving = [a \in Anchors |-> {}]
    /\ joining = NoJoin
    /\ rest = [t \in Threads |-> NoCall]
    /\ seen = [p \in Players |-> Outside]

-------------------------------------------------------------------------------
IsMember(p) == members[p] # NoMember

InHub(h) == {p \in Players : IsMember(p) /\ AnchorHub[members[p]] = h}

(* visibleTo *)
Others(p) == InHub(AnchorHub[members[p]]) \ {p}

MonitorFree == joining = NoJoin

(* HubPlayerLeave and HubPlayerEnter change what is shown by a client in    *)
(* the hub; whoever is not connected misses them.                          *)
Shows(q, p, there) ==
    IF ~ IsConnected(q) \/ seen[q] = Outside THEN seen[q]
    ELSE IF there THEN seen[q] \cup {p} ELSE seen[q] \ {p}

(* Mutant: only the members at the same anchor are told.                   *)
LeaveTellingTheAnchor(p, told) ==
    /\ members' = [members EXCEPT ![p] = NoMember]
    /\ seen' = [q \in Players |->
          IF q = p THEN IF told /\ IsMember(p) /\ IsConnected(p) THEN Outside ELSE seen[p]
          ELSE IF IsMember(p) /\ members[q] = members[p] THEN Shows(q, p, FALSE)
          ELSE seen[q]]

(* leave; the player is told (HubLeft) when there is a reason.              *)
Leave(p, told) ==
    /\ members' = [members EXCEPT ![p] = NoMember]
    /\ seen' = [q \in Players |->
          IF q = p THEN IF told /\ IsMember(p) /\ IsConnected(p) THEN Outside ELSE seen[p]
          ELSE IF IsMember(p) /\ q \in Others(p) THEN Shows(q, p, FALSE)
          ELSE seen[q]]

StayInHub == UNCHANGED <<members, seen>>

-------------------------------------------------------------------------------
(* HubJoin: the anchor and the presence are read ...                        *)
HubJoin(p, c, a) ==
    /\ MonitorFree
    /\ anchors[a] \in {"posed", "doomed"}
    /\ presence[p] = AnchorGroup[a]
    /\ joining' = [player |-> p, connection |-> c, anchor |-> a]
    /\ UNCHANGED <<capacity, presence, members, anchors, leaving, rest, seen>>

(* Mutant: the members who came through the same anchor are counted.       *)
FullAnchor(p, a) ==
    Cardinality({q \in Players \ {p} : members[q] = a}) >= capacity

(* The player has left when the hub is counted.                            *)
Full(p, a) == Cardinality(InHub(AnchorHub[a]) \ {p}) >= capacity

(* ... then the player leaves the hub they are in and enters this one, or   *)
(* is refused.  Leaving for another hub tells them nothing.                 *)
Enter(p, a) ==
    LET there == InHub(AnchorHub[a]) \ {p}
        gone == IF IsMember(p) THEN Others(p) ELSE {}
    IN  IF Full(p, a)
        THEN Leave(p, FALSE)
        ELSE /\ members' = [members EXCEPT ![p] = a]
             /\ seen' = [q \in Players |->
                   IF q = p THEN IF IsConnected(p) THEN there ELSE seen[p]
                   ELSE IF q \in there THEN Shows(q, p, TRUE)
                   ELSE IF q \in gone THEN Shows(q, p, FALSE)
                   ELSE seen[q]]

EndJoin(p, c) ==
    /\ joining # NoJoin
    /\ joining.player = p
    /\ joining.connection = c
    /\ Enter(p, joining.anchor)
    /\ joining' = NoJoin
    /\ UNCHANGED <<capacity, presence, anchors, leaving, rest>>

-------------------------------------------------------------------------------
(* Mutant: a change of dimension on the same server goes unnoticed.        *)
OnServer(p, g) ==
    IF IsMember(p) /\ AnchorGroup[members[p]].server # g.server
    THEN MonitorFree /\ Leave(p, TRUE)
    ELSE StayInHub

(* onServerGroup *)
OnServerGroup(p, g) ==
    IF IsMember(p) /\ AnchorGroup[members[p]] # g
    THEN MonitorFree /\ Leave(p, TRUE)
    ELSE StayInHub

Then(t, call, g) ==
    /\ rest' = [rest EXCEPT ![t] = [call |-> call, group |-> g]]
    /\ UNCHANGED <<capacity, presence, anchors, leaving, joining>>

(* JoinServerGroup, PositionUpdate and LeaveServerGroup up to their call on *)
(* the presence.  PositionUpdate names no server.                          *)
JoinServerGroup(p, c, g) ==
    OnServerGroup(p, g) /\ Then(Messages(p, c), "join", g)

PositionUpdate(p, c, d) ==
    LET g == [server |-> presence[p].server, dimension |-> d] IN
    /\ presence[p] # NoGroup
    /\ OnServerGroup(p, g)
    /\ Then(Messages(p, c), "update", g)

LeaveServerGroup(p, c) ==
    /\ MonitorFree
    /\ Leave(p, TRUE)
    /\ Then(Messages(p, c), "leave", NoGroup)

HubLeave(p) ==
    /\ MonitorFree
    /\ Leave(p, TRUE)
    /\ UNCHANGED <<capacity, presence, anchors, leaving, joining, rest>>

(* The call on the presence: join puts, updatePosition and leave find       *)
(* nothing to do when it is gone.                                          *)
After(call, was) ==
    CASE call.call = "join" -> call.group
      [] call.call = "update" /\ was # NoGroup -> [was EXCEPT !.dimension = call.group.dimension]
      [] OTHER -> NoGroup

PresenceCall(t) ==
    /\ rest[t] # NoCall
    /\ presence' = [presence EXCEPT ![t.player] = After(rest[t], @)]
    /\ rest' = [rest EXCEPT ![t] = NoCall]
    /\ UNCHANGED <<capacity, members, anchors, leaving, joining, seen>>

-------------------------------------------------------------------------------
(* A connection opens with no hub on its screen.                            *)
Connect(p, c) ==
    /\ Register(p, c)
    /\ seen' = [seen EXCEPT ![p] = Outside]
    /\ UNCHANGED <<capacity, presence, members, anchors, leaving, joining, rest>>

Disconnect(p, c) == (Drop(p, c) \/ Unregister(p, c)) /\ UNCHANGED hubVars

(* hubService.leave, then leaveAndDespawnGhost: of afterConnectionClosed    *)
(* and of expire.                                                          *)
LeaveHubFirst(t) ==
    /\ MonitorFree
    /\ rest[t] = NoCall
    /\ Leave(t.player, FALSE)
    /\ Then(t, "leave", NoGroup)

CleanUp(p, c) ==
    \/ socket[p][c] = "cleanup" /\ LeaveHubFirst(Cleanup(p, c)) /\ UNCHANGED connectionVars
    \/ CleanedUp(p, c) /\ PresenceCall(Cleanup(p, c))

(* findExpired has read a presence whose last heartbeat is too old.         *)
Sweep(p) ==
    \/ Expire(p) /\ presence[p] # NoGroup /\ UNCHANGED hubVars
    \/ expiring = [player |-> p, step |-> "cleanup"] /\ LeaveHubFirst(Expiry(p))
          /\ UNCHANGED connectionVars
    \/ ExpireCleanedUp(p) /\ PresenceCall(Expiry(p))
    \/ ExpireClose(p) /\ UNCHANGED hubVars

Read(p, c) == Receive(p, c) /\ UNCHANGED hubVars

InTheMiddle(p, c) ==
    \/ rest[Messages(p, c)] # NoCall
    \/ joining # NoJoin /\ joining.player = p /\ joining.connection = c

(* A message is handled by one call, or by a first and a last one.          *)
Begin(p, c) ==
    /\ c \in handling[p]
    /\ ~ InTheMiddle(p, c)
    /\ \/ \E a \in Anchors : HubJoin(p, c, a)
       \/ \E g \in Group : JoinServerGroup(p, c, g)
       \/ \E d \in Dimensions : PositionUpdate(p, c, d)
       \/ LeaveServerGroup(p, c)
    /\ UNCHANGED connectionVars

Finish(p, c) ==
    /\ Handled(p, c)
    /\ \/ PresenceCall(Messages(p, c))
       \/ EndJoin(p, c)
       \/ ~ InTheMiddle(p, c) /\ (HubLeave(p) \/ UNCHANGED hubVars)

-------------------------------------------------------------------------------
(* POST /hub/anchors *)
Pose(a) ==
    /\ anchors[a] = "unposed"
    /\ anchors' = [anchors EXCEPT ![a] = "posed"]
    /\ UNCHANGED <<connectionVars, capacity, presence, members, leaving, joining, rest, seen>>

(* DELETE /hub/anchors/{uuid}, up to the copy onAnchorDeleted makes of the  *)
(* members.                                                                *)
Doom(a) ==
    /\ anchors[a] = "posed"
    /\ anchors' = [anchors EXCEPT ![a] = "doomed"]
    /\ leaving' = [leaving EXCEPT ![a] = {p \in Players : members[p] = a}]
    /\ UNCHANGED <<connectionVars, capacity, presence, members, joining, rest, seen>>

(* It takes them out one by one, wherever they are by then.                *)
OnAnchorDeleted(a, p) ==
    /\ p \in leaving[a]
    /\ MonitorFree
    /\ Leave(p, TRUE)
    /\ leaving' = [leaving EXCEPT ![a] = @ \ {p}]
    /\ UNCHANGED <<connectionVars, capacity, presence, anchors, joining, rest>>

(* Only then does the transaction commit.                                  *)
DeleteCommits(a) ==
    /\ anchors[a] = "doomed"
    /\ leaving[a] = {}
    /\ anchors' = [anchors EXCEPT ![a] = "deleted"]
    /\ UNCHANGED <<connectionVars, capacity, presence, members, leaving, joining, rest, seen>>

-------------------------------------------------------------------------------
PlayerStep(p, c) ==
    Connect(p, c) \/ Disconnect(p, c) \/ CleanUp(p, c) \/ Read(p, c) \/ Begin(p, c) \/ Finish(p, c)

AnchorStep(a) ==
    Pose(a) \/ Doom(a) \/ DeleteCommits(a) \/ \E p \in Players : OnAnchorDeleted(a, p)

Next ==
    \/ \E p \in Players, c \in Connections : PlayerStep(p, c)
    \/ \E p \in Players : Sweep(p)
    \/ \E a \in Anchors : AnchorStep(a)

Spec == Init /\ [][Next]_vars

-------------------------------------------------------------------------------
(* Properties *)

(* A hub holds at most `capacity` players, by whichever anchors they come   *)
(* and from whichever threads they leave.                                  *)
HubNeverOverfull == \A h \in Hubs : Cardinality(InHub(h)) <= capacity

(* The client of a member shows the other members of the hub and nobody     *)
(* else, through joins by several anchors, changes of hub, departures,      *)
(* expiries and deleted anchors.                                           *)
MembersSeeEachOther ==
    \A p \in Players :
        (IsMember(p) /\ IsConnected(p) /\ seen[p] # Outside) => seen[p] = Others(p)

(* D-30: whoever stands in a hub is where the anchor it came by stands.  A  *)
(* player's own messages keep it so; the threads that clean up after it     *)
(* take its presence away, never elsewhere.                                *)
MembersAreOfTheirGroup ==
    \A p \in Players :
        (IsMember(p) /\ presence[p] # NoGroup) => presence[p] = AnchorGroup[members[p]]

===============================================================================
