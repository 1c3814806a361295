-------------------------------- MODULE HubProofs --------------------------------
(***************************************************************************)
(* Proofs about Hub, for any number of players, connections, hubs, anchors *)
(* and things under way at once.                                           *)
(*                                                                         *)
(* Only three things change who is in a hub or what a client shows: Leave, *)
(* Enter and a new connection (HubChange).  HubNeverOverfull and           *)
(* MembersSeeEachOther are each inductive over these; the types need in    *)
(* addition that a call on the presence names a group if it needs one.     *)
(* MembersAreOfTheirGroup rests on GroupInv, which says what a message     *)
(* between its two calls, and a join in progress, still know.              *)
(***************************************************************************)
EXTENDS Hub, ConnectionsTheorems, FiniteSetTheorems

CallsNameTheirGroup ==
    \A t \in Threads :
        (rest[t] # NoCall /\ rest[t].call \in {"join", "update"}) => rest[t].group \in Group

IInv == TypeOK /\ CallsNameTheirGroup /\ HubNeverOverfull /\ MembersSeeEachOther

-------------------------------------------------------------------------------
(* Steps *)

NobodyAppears == \A q \in Players : IsConnected(q)' => IsConnected(q)

HubChange ==
    \/ /\ NobodyAppears
       /\ \/ StayInHub
          \/ \E p \in Players, told \in BOOLEAN : Leave(p, told)
          \/ \E p \in Players, a \in Anchors : Enter(p, a)
    \/ \E p \in Players, c \in Connections : Connect(p, c)

LEMMA SameConnections == ASSUME UNCHANGED connectionVars PROVE NobodyAppears
  BY DEF connectionVars, NobodyAppears, IsConnected

(* A connection that is dropped, unregistered or closed, and a message that *)
(* is read or handled, reach nobody who could not be reached before.        *)
LEMMA NoNewConnection ==
    ASSUME ConnectionsTypeOK, NEW p \in Players, NEW c \in Connections,
           \/ Drop(p, c) \/ Unregister(p, c) \/ CleanedUp(p, c) \/ Receive(p, c) \/ Handled(p, c)
           \/ Expire(p) \/ ExpireCleanedUp(p) \/ ExpireClose(p)
    PROVE  NobodyAppears
  <1> USE DEF ConnectionsTypeOK, NobodyAppears, IsConnected
  <1>1. CASE Drop(p, c)
    BY <1>1 DEF Drop
  <1>2. CASE Unregister(p, c)
    BY <1>2 DEF Unregister
  <1>3. CASE CleanedUp(p, c)
    BY <1>3 DEF CleanedUp
  <1>4. CASE Receive(p, c) \/ Handled(p, c)
    BY <1>4 DEF Receive, Handled
  <1>5. CASE Expire(p) \/ ExpireCleanedUp(p)
    BY <1>5 DEF Expire, ExpireCleanedUp
  <1>6. CASE ExpireClose(p)
    BY <1>6 DEF ExpireClose
  <1> QED BY <1>1, <1>2, <1>3, <1>4, <1>5, <1>6

(* The same for the steps of the sweeper, which are about no connection.    *)
LEMMA NoNewConnectionBySweeping ==
    ASSUME ConnectionsTypeOK, NEW p \in Players,
           Expire(p) \/ ExpireCleanedUp(p) \/ ExpireClose(p)
    PROVE  NobodyAppears
  <1> USE DEF ConnectionsTypeOK, NobodyAppears, IsConnected
  <1>1. CASE Expire(p) \/ ExpireCleanedUp(p)
    BY <1>1 DEF Expire, ExpireCleanedUp
  <1>2. CASE ExpireClose(p)
    BY <1>2 DEF ExpireClose
  <1> QED BY <1>1, <1>2

LEMMA EveryStepIsAHubChange ==
    ASSUME TypeOK, [Next]_vars
    PROVE  HubChange /\ capacity' = capacity
  <1> USE DEF TypeOK, HubChange, hubVars
  <1>1. ASSUME NEW p \in Players, NEW c \in Connections, PlayerStep(p, c)
        PROVE  HubChange /\ capacity' = capacity
    <2>1. CASE Connect(p, c)
      BY <2>1 DEF Connect
    <2>2. CASE Disconnect(p, c)
      BY <2>2, NoNewConnection DEF Disconnect, StayInHub
    <2>3. CASE CleanUp(p, c)
      <3>1. CASE LeaveHubFirst(Cleanup(p, c)) /\ UNCHANGED connectionVars
        <4>1. Leave(p, FALSE) /\ capacity' = capacity
          BY <3>1 DEF LeaveHubFirst, Cleanup, Then
        <4> QED BY <4>1, <3>1, SameConnections
      <3>2. CASE CleanedUp(p, c) /\ PresenceCall(Cleanup(p, c))
        BY <3>2, NoNewConnection DEF PresenceCall, StayInHub
      <3> QED BY <2>3, <3>1, <3>2 DEF CleanUp
    <2>4. CASE Read(p, c)
      BY <2>4, NoNewConnection DEF Read, StayInHub
    <2>5. CASE Begin(p, c)
      <3>1. NobodyAppears
        BY <2>5, SameConnections DEF Begin
      <3>2. ASSUME NEW a \in Anchors, HubJoin(p, c, a) PROVE StayInHub /\ capacity' = capacity
        BY <3>2 DEF HubJoin, StayInHub
      <3>3. ASSUME NEW g, OnServerGroup(p, g), NEW call, Then(Messages(p, c), call, g)
            PROVE  (StayInHub \/ Leave(p, TRUE)) /\ capacity' = capacity
        BY <3>3 DEF OnServerGroup, Then
      <3>4. LeaveServerGroup(p, c) => Leave(p, TRUE) /\ capacity' = capacity
        BY DEF LeaveServerGroup, Then
      <3>5. (StayInHub \/ Leave(p, TRUE)) /\ capacity' = capacity
        BY <2>5, <3>2, <3>3, <3>4 DEF Begin, JoinServerGroup, PositionUpdate
      <3> QED BY <3>1, <3>5
    <2>6. CASE Finish(p, c)
      <3>1. NobodyAppears
        BY <2>6, NoNewConnection DEF Finish
      <3>2. CASE PresenceCall(Messages(p, c))
        BY <3>1, <3>2 DEF PresenceCall, StayInHub
      <3>3. CASE EndJoin(p, c)
        <4>1. joining.anchor \in Anchors
          BY <3>3 DEF EndJoin
        <4> QED BY <3>1, <3>3, <4>1 DEF EndJoin
      <3>4. CASE HubLeave(p)
        BY <3>1, <3>4 DEF HubLeave
      <3>5. CASE UNCHANGED hubVars
        BY <3>1, <3>5 DEF StayInHub
      <3> QED BY <2>6, <3>2, <3>3, <3>4, <3>5 DEF Finish
    <2> QED BY <1>1, <2>1, <2>2, <2>3, <2>4, <2>5, <2>6 DEF PlayerStep
  <1>2. ASSUME NEW p \in Players, Sweep(p)
        PROVE  HubChange /\ capacity' = capacity
    <2>1. CASE Expire(p) /\ UNCHANGED hubVars
      BY <2>1, NoNewConnectionBySweeping DEF StayInHub
    <2>2. CASE LeaveHubFirst(Expiry(p)) /\ UNCHANGED connectionVars
      <3>1. Leave(p, FALSE) /\ capacity' = capacity
        BY <2>2 DEF LeaveHubFirst, Expiry, Then
      <3> QED BY <3>1, <2>2, SameConnections
    <2>3. CASE ExpireCleanedUp(p) /\ PresenceCall(Expiry(p))
      BY <2>3, NoNewConnectionBySweeping DEF PresenceCall, StayInHub
    <2>4. CASE ExpireClose(p) /\ UNCHANGED hubVars
      BY <2>4, NoNewConnectionBySweeping DEF StayInHub
    <2> QED BY <1>2, <2>1, <2>2, <2>3, <2>4 DEF Sweep
  <1>3. ASSUME NEW a \in Anchors, AnchorStep(a)
        PROVE  HubChange /\ capacity' = capacity
    <2>1. ASSUME NEW p \in Players, OnAnchorDeleted(a, p)
          PROVE  HubChange /\ capacity' = capacity
      BY <2>1, SameConnections DEF OnAnchorDeleted
    <2>2. CASE Pose(a) \/ Doom(a) \/ DeleteCommits(a)
      BY <2>2, SameConnections DEF Pose, Doom, DeleteCommits, StayInHub
    <2> QED BY <1>3, <2>1, <2>2 DEF AnchorStep
  <1>4. CASE UNCHANGED vars
    BY <1>4, SameConnections DEF vars, StayInHub
  <1> QED BY <1>1, <1>2, <1>3, <1>4 DEF Next

-------------------------------------------------------------------------------
(* Capacity *)

LEMMA HubsAreFinite ==
    ASSUME NEW h PROVE IsFiniteSet(InHub(h))
  BY FS_Subset, HubAssumption DEF InHub

LEMMA LeaveRemoves ==
    ASSUME TypeOK, NEW p \in Players, NEW told, Leave(p, told)
    PROVE  /\ members' = [members EXCEPT ![p] = NoMember]
           /\ \A h : InHub(h)' = InHub(h) \ {p}
  BY DEF TypeOK, Leave, InHub, IsMember

LEMMA EnterAdds ==
    ASSUME TypeOK, NEW p \in Players, NEW a \in Anchors, ~ Full(p, a), Enter(p, a)
    PROVE  /\ members' = [members EXCEPT ![p] = a]
           /\ \A h : InHub(h)' = IF h = AnchorHub[a] THEN InHub(h) \cup {p} ELSE InHub(h) \ {p}
  BY HubAssumption DEF TypeOK, Enter, InHub, IsMember

LEMMA StepKeepsCapacity ==
    ASSUME TypeOK, HubNeverOverfull, HubChange, capacity' = capacity
    PROVE  HubNeverOverfull'
  <1>1. ASSUME NEW h \in Hubs, NEW S, S \subseteq InHub(h)
        PROVE  Cardinality(S) <= capacity
    <2>1. Cardinality(S) <= Cardinality(InHub(h))
      BY <1>1, HubsAreFinite, FS_Subset
    <2>2. Cardinality(InHub(h)) \in Nat /\ Cardinality(S) \in Nat
      BY <1>1, HubsAreFinite, FS_Subset, FS_CardinalityType
    <2>3. capacity \in Nat
      BY HubAssumption DEF TypeOK
    <2> QED BY <2>1, <2>2, <2>3 DEF HubNeverOverfull
  <1>2. ASSUME members' = members PROVE HubNeverOverfull'
    BY <1>2 DEF HubNeverOverfull, InHub, IsMember
  <1>3. ASSUME NEW p \in Players, NEW told, Leave(p, told) PROVE HubNeverOverfull'
    BY <1>1, <1>3, LeaveRemoves DEF HubNeverOverfull
  <1>4. ASSUME NEW p \in Players, NEW a \in Anchors, Enter(p, a), ~ Full(p, a)
        PROVE  HubNeverOverfull'
    <2> SUFFICES ASSUME NEW h \in Hubs PROVE Cardinality(InHub(h)') <= capacity
      BY DEF HubNeverOverfull
    <2>1. CASE h # AnchorHub[a]
      BY <1>1, <1>4, <2>1, EnterAdds
    <2>2. CASE h = AnchorHub[a]
      <3> DEFINE others == InHub(h) \ {p}
      <3>1. InHub(h)' = others \cup {p}
        BY <1>4, <2>2, EnterAdds
      <3>2. IsFiniteSet(others)
        BY HubsAreFinite, FS_Subset
      <3>3. Cardinality(others \cup {p}) = Cardinality(others) + 1
        BY <3>2, FS_AddElement
      <3>4. capacity \in Nat /\ Cardinality(others) \in Nat
        BY <3>2, HubAssumption, FS_CardinalityType DEF TypeOK
      <3>5. ~ (Cardinality(others) >= capacity)
        BY <1>4, <2>2 DEF Full
      <3> QED BY <3>1, <3>3, <3>4, <3>5
    <2> QED BY <2>1, <2>2
  <1>5. ASSUME NEW p \in Players, NEW a \in Anchors, Enter(p, a), Full(p, a)
        PROVE  HubNeverOverfull'
    BY <1>3, <1>5 DEF Enter
  <1> QED BY <1>2, <1>3, <1>4, <1>5 DEF HubChange, StayInHub, Connect

-------------------------------------------------------------------------------
(* Screens *)

LEMMA OthersInHub ==
    ASSUME NEW p \in Players PROVE Others(p) = InHub(AnchorHub[members[p]]) \ {p}
  BY DEF Others

LEMMA LeaveKeepsScreens ==
    ASSUME TypeOK, MembersSeeEachOther, NobodyAppears, NEW p \in Players, NEW told, Leave(p, told)
    PROVE  MembersSeeEachOther'
  <1> SUFFICES ASSUME NEW q \in Players, IsMember(q)', IsConnected(q)', seen'[q] # Outside
               PROVE  seen'[q] = Others(q)'
    BY DEF MembersSeeEachOther
  <1>1. /\ q # p
        /\ members'[q] = members[q]
        /\ IsMember(q)
        /\ IsConnected(q)
    BY LeaveRemoves DEF TypeOK, IsMember, NobodyAppears
  <1>2. Others(q)' = Others(q) \ {p}
    BY <1>1, LeaveRemoves DEF Others
  <1>3. seen'[q] = IF IsMember(p) /\ q \in Others(p) THEN Shows(q, p, FALSE) ELSE seen[q]
    BY <1>1 DEF Leave
  <1>4. CASE IsMember(p) /\ q \in Others(p)
    BY <1>1, <1>2, <1>3, <1>4 DEF Shows, MembersSeeEachOther
  <1>5. CASE ~ (IsMember(p) /\ q \in Others(p))
    <2>1. p \notin Others(q)
      BY <1>1, <1>5 DEF Others, InHub, IsMember
    <2> QED BY <1>1, <1>2, <1>3, <1>5, <2>1 DEF MembersSeeEachOther
  <1> QED BY <1>4, <1>5

LEMMA EnterKeepsScreens ==
    ASSUME TypeOK, MembersSeeEachOther, NobodyAppears,
           NEW p \in Players, NEW a \in Anchors, Enter(p, a), ~ Full(p, a)
    PROVE  MembersSeeEachOther'
  <1> SUFFICES ASSUME NEW q \in Players, IsMember(q)', IsConnected(q)', seen'[q] # Outside
               PROVE  seen'[q] = Others(q)'
    BY DEF MembersSeeEachOther
  <1> DEFINE there == InHub(AnchorHub[a]) \ {p}
  <1>1. IsConnected(q)
    BY DEF NobodyAppears
  <1>2. CASE q = p
    <2>1. seen'[p] = there
      BY <1>1, <1>2 DEF Enter
    <2>2. Others(p)' = there
      BY <1>2, EnterAdds DEF Others, TypeOK
    <2> QED BY <1>2, <2>1, <2>2
  <1>3. CASE q # p
    <2>1. members'[q] = members[q] /\ IsMember(q)
      BY <1>3, EnterAdds DEF IsMember, TypeOK
    <2>2. q \in there <=> AnchorHub[members[q]] = AnchorHub[a]
      BY <1>3, <2>1 DEF InHub
    <2>3. Others(q)' = IF q \in there THEN Others(q) \cup {p} ELSE Others(q) \ {p}
      BY <1>3, <2>1, <2>2, EnterAdds DEF Others
    <2>4. seen'[q] = IF q \in there THEN Shows(q, p, TRUE)
                     ELSE IF IsMember(p) /\ q \in Others(p) THEN Shows(q, p, FALSE)
                     ELSE seen[q]
      BY <1>3 DEF Enter
    <2>5. CASE q \in there \/ (IsMember(p) /\ q \in Others(p))
      BY <1>1, <2>1, <2>3, <2>4, <2>5 DEF Shows, MembersSeeEachOther
    <2>6. CASE ~ (q \in there \/ (IsMember(p) /\ q \in Others(p)))
      <3>1. p \notin Others(q)
        BY <1>3, <2>1, <2>6 DEF Others, InHub, IsMember
      <3> QED BY <1>1, <2>1, <2>3, <2>4, <2>6, <3>1 DEF MembersSeeEachOther
    <2> QED BY <2>5, <2>6
  <1> QED BY <1>2, <1>3

LEMMA StepKeepsScreens ==
    ASSUME TypeOK, MembersSeeEachOther, HubChange
    PROVE  MembersSeeEachOther'
  <1>1. CASE NobodyAppears /\ StayInHub
    BY <1>1 DEF StayInHub, NobodyAppears, MembersSeeEachOther, Others, InHub, IsMember
  <1>2. ASSUME NobodyAppears, NEW p \in Players, NEW told \in BOOLEAN, Leave(p, told)
        PROVE  MembersSeeEachOther'
    BY <1>2, LeaveKeepsScreens
  <1>3. ASSUME NobodyAppears, NEW p \in Players, NEW a \in Anchors, Enter(p, a)
        PROVE  MembersSeeEachOther'
    BY <1>3, EnterKeepsScreens, LeaveKeepsScreens DEF Enter
  <1>4. ASSUME NEW p \in Players, NEW c \in Connections, Connect(p, c)
        PROVE  MembersSeeEachOther'
    <2> SUFFICES ASSUME NEW q \in Players, IsMember(q)', IsConnected(q)', seen'[q] # Outside
                 PROVE  seen'[q] = Others(q)'
      BY DEF MembersSeeEachOther
    <2>1. q # p /\ seen'[q] = seen[q]
      BY <1>4 DEF Connect, TypeOK
    <2>2. members' = members
      BY <1>4 DEF Connect
    <2>3. IsConnected(q)
      BY <1>4, <2>1 DEF Connect, Register, IsConnected, TypeOK, ConnectionsTypeOK
    <2> QED BY <2>1, <2>2, <2>3 DEF MembersSeeEachOther, Others, InHub, IsMember
  <1> QED BY <1>1, <1>2, <1>3, <1>4 DEF HubChange

-------------------------------------------------------------------------------
(* Types *)

HubTypes == members \in [Players -> Anchors \cup {NoMember}]
              /\ seen \in [Players -> (SUBSET Players) \cup {Outside}]

LEMMA ShowsType ==
    ASSUME TypeOK, NEW q \in Players, NEW p \in Players, NEW there \in BOOLEAN
    PROVE  Shows(q, p, there) \in (SUBSET Players) \cup {Outside}
  BY DEF Shows, TypeOK

LEMMA HubChangeKeepsTypes ==
    ASSUME TypeOK, HubChange PROVE HubTypes'
  <1> USE DEF TypeOK, HubTypes
  <1>1. CASE StayInHub
    BY <1>1 DEF StayInHub
  <1>2. ASSUME NEW p \in Players, NEW told, Leave(p, told) PROVE HubTypes'
    <2>1. ASSUME NEW q \in Players PROVE seen'[q] \in (SUBSET Players) \cup {Outside}
      BY <1>2, ShowsType DEF Leave
    <2>2. /\ seen' = [q \in Players |-> seen'[q]]
          /\ members' = [members EXCEPT ![p] = NoMember]
      BY <1>2 DEF Leave
    <2> QED BY <2>1, <2>2
  <1>3. ASSUME NEW p \in Players, NEW a \in Anchors, Enter(p, a) PROVE HubTypes'
    <2>1. CASE Full(p, a)
      BY <1>2, <1>3, <2>1 DEF Enter
    <2>2. CASE ~ Full(p, a)
      <3>1. InHub(AnchorHub[a]) \ {p} \in SUBSET Players
        BY DEF InHub
      <3>2. ASSUME NEW q \in Players PROVE seen'[q] \in (SUBSET Players) \cup {Outside}
        <4>1. \/ seen'[q] = InHub(AnchorHub[a]) \ {p}
              \/ seen'[q] = seen[q]
              \/ \E there \in BOOLEAN : seen'[q] = Shows(q, p, there)
          BY <1>3, <2>2 DEF Enter
        <4>2. \A there \in BOOLEAN : Shows(q, p, there) \in (SUBSET Players) \cup {Outside}
          BY ShowsType
        <4> QED BY <3>1, <4>1, <4>2
      <3>3. /\ seen' = [q \in Players |-> seen'[q]]
            /\ members' = [members EXCEPT ![p] = a]
        BY <1>3, <2>2 DEF Enter
      <3> QED BY <3>2, <3>3
    <2> QED BY <2>1, <2>2
  <1>4. ASSUME NEW p \in Players, NEW c \in Connections, Connect(p, c) PROVE HubTypes'
    <2>1. members' = members /\ seen' = [seen EXCEPT ![p] = Outside]
      BY <1>4 DEF Connect
    <2> QED BY <2>1
  <1> QED BY <1>1, <1>2, <1>3, <1>4 DEF HubChange

LEMMA ConnectionsOfHub == ASSUME [Next]_vars PROVE [ConnectionsNext]_connectionVars
  <1> USE DEF ConnectionsNext, ConnectionStep, SweepStep
  <1>1. ASSUME NEW p \in Players, NEW c \in Connections, PlayerStep(p, c)
        PROVE  [ConnectionsNext]_connectionVars
    BY <1>1 DEF PlayerStep, Connect, Disconnect, CleanUp, Read, Begin, Finish
  <1>2. ASSUME NEW p \in Players, Sweep(p) PROVE [ConnectionsNext]_connectionVars
    BY <1>2 DEF Sweep
  <1>3. ASSUME NEW a \in Anchors, AnchorStep(a) PROVE [ConnectionsNext]_connectionVars
    BY <1>3 DEF AnchorStep, Pose, Doom, DeleteCommits, OnAnchorDeleted
  <1>4. CASE UNCHANGED vars
    BY <1>4 DEF vars
  <1> QED BY <1>1, <1>2, <1>3, <1>4 DEF Next

(* What the calls on the presence do to it and to what is left to call.     *)
CallTypes ==
    /\ presence \in [Players -> Group \cup {NoGroup}]
    /\ rest \in [Threads -> Calls \cup {NoCall}]
    /\ CallsNameTheirGroup

LEMMA ThenKeepsTypes ==
    ASSUME TypeOK, CallsNameTheirGroup, NEW t \in Threads, NEW g \in Group \cup {NoGroup},
           NEW call \in {"join", "update", "leave"}, call # "leave" => g \in Group, Then(t, call, g)
    PROVE  CallTypes'
  BY DEF TypeOK, CallsNameTheirGroup, CallTypes, Then, Calls

LEMMA PresenceCallKeepsTypes ==
    ASSUME TypeOK, CallsNameTheirGroup, NEW t \in Threads, PresenceCall(t)
    PROVE  CallTypes'
  <1> USE DEF TypeOK, CallsNameTheirGroup
  <1>1. t.player \in Players /\ rest[t] \in Calls
    BY DEF Threads, PresenceCall
  <1>2. After(rest[t], presence[t.player]) \in Group \cup {NoGroup}
    <2>1. CASE rest[t].call = "join"
      BY <2>1 DEF After, PresenceCall
    <2>2. CASE rest[t].call = "update" /\ presence[t.player] # NoGroup
      BY <1>1, <2>2 DEF After, PresenceCall, Group
    <2>3. CASE rest[t].call # "join" /\ ~ (rest[t].call = "update" /\ presence[t.player] # NoGroup)
      BY <2>3 DEF After
    <2> QED BY <2>1, <2>2, <2>3
  <1>3. presence' = [presence EXCEPT ![t.player] = After(rest[t], presence[t.player])]
    BY DEF PresenceCall
  <1>4. rest' = [rest EXCEPT ![t] = NoCall]
    BY DEF PresenceCall
  <1> QED BY <1>1, <1>2, <1>3, <1>4 DEF CallTypes

LEMMA ThreadsOfPlayers ==
    ASSUME NEW p \in Players, NEW c \in Connections
    PROVE  /\ Messages(p, c) \in Threads
           /\ Cleanup(p, c) \in Threads
           /\ Expiry(p) \in Threads
  BY DEF Messages, Cleanup, Expiry, Threads

LEMMA StepKeepsCallTypes ==
    ASSUME TypeOK, CallsNameTheirGroup, [Next]_vars PROVE CallTypes'
  <1>1. ASSUME UNCHANGED <<presence, rest>> PROVE CallTypes'
    BY <1>1 DEF TypeOK, CallsNameTheirGroup, CallTypes
  <1>2. ASSUME NEW p \in Players, NEW c \in Connections, PlayerStep(p, c)
        PROVE  CallTypes'
    <2>1. CASE Connect(p, c) \/ Disconnect(p, c) \/ Read(p, c)
      BY <1>1, <2>1 DEF Connect, Disconnect, Read, hubVars
    <2>2. CASE CleanUp(p, c)
      <3>1. CASE LeaveHubFirst(Cleanup(p, c))
        BY <3>1, ThreadsOfPlayers, ThenKeepsTypes DEF LeaveHubFirst
      <3>2. CASE PresenceCall(Cleanup(p, c))
        BY <3>2, ThreadsOfPlayers, PresenceCallKeepsTypes
      <3> QED BY <2>2, <3>1, <3>2 DEF CleanUp
    <2>3. CASE Begin(p, c)
      <3>1. ASSUME NEW a \in Anchors, HubJoin(p, c, a) PROVE CallTypes'
        BY <1>1, <3>1 DEF HubJoin
      <3>2. ASSUME NEW g \in Group, JoinServerGroup(p, c, g) PROVE CallTypes'
        BY <3>2, ThreadsOfPlayers, ThenKeepsTypes DEF JoinServerGroup
      <3>3. ASSUME NEW d \in Dimensions, PositionUpdate(p, c, d) PROVE CallTypes'
        <4> DEFINE g == [server |-> presence[p].server, dimension |-> d]
        <4>1. g \in Group
          BY <3>3 DEF PositionUpdate, TypeOK, Group
        <4>2. Then(Messages(p, c), "update", g)
          BY <3>3 DEF PositionUpdate
        <4> QED BY <4>1, <4>2, ThreadsOfPlayers, ThenKeepsTypes
      <3>4. CASE LeaveServerGroup(p, c)
        BY <3>4, ThreadsOfPlayers, ThenKeepsTypes DEF LeaveServerGroup
      <3> QED BY <2>3, <3>1, <3>2, <3>3, <3>4 DEF Begin
    <2>4. CASE Finish(p, c)
      <3>1. CASE PresenceCall(Messages(p, c))
        BY <3>1, ThreadsOfPlayers, PresenceCallKeepsTypes
      <3>2. CASE EndJoin(p, c) \/ HubLeave(p) \/ UNCHANGED hubVars
        BY <1>1, <3>2 DEF EndJoin, HubLeave, hubVars
      <3> QED BY <2>4, <3>1, <3>2 DEF Finish
    <2> QED BY <1>2, <2>1, <2>2, <2>3, <2>4 DEF PlayerStep
  <1>3. ASSUME NEW p \in Players, Sweep(p) PROVE CallTypes'
    <2>1. CASE UNCHANGED hubVars
      BY <1>1, <2>1 DEF hubVars
    <2>2. CASE LeaveHubFirst(Expiry(p))
      BY <2>2, ThenKeepsTypes DEF LeaveHubFirst, Expiry, Threads
    <2>3. CASE PresenceCall(Expiry(p))
      BY <2>3, PresenceCallKeepsTypes DEF Expiry, Threads
    <2> QED BY <1>3, <2>1, <2>2, <2>3 DEF Sweep
  <1>4. ASSUME NEW a \in Anchors, AnchorStep(a) PROVE CallTypes'
    BY <1>1, <1>4 DEF AnchorStep, Pose, Doom, DeleteCommits, OnAnchorDeleted
  <1>5. CASE UNCHANGED vars
    BY <1>1, <1>5 DEF vars, hubVars
  <1> QED BY <1>2, <1>3, <1>4, <1>5 DEF Next

JoinTypes ==
    /\ anchors \in [Anchors -> AnchorStates]
    /\ leaving \in [Anchors -> SUBSET Players]
    /\ joining \in [player : Players, connection : Connections, anchor : Anchors] \cup {NoJoin}

LEMMA StepKeepsJoinTypes == ASSUME TypeOK, [Next]_vars PROVE JoinTypes'
  <1> USE DEF TypeOK, JoinTypes, AnchorStates
  <1>1. ASSUME NEW p \in Players, NEW c \in Connections, PlayerStep(p, c)
        PROVE  JoinTypes'
    <2>1. CASE Connect(p, c) \/ Disconnect(p, c) \/ Read(p, c) \/ CleanUp(p, c)
      BY <2>1 DEF Connect, Disconnect, Read, CleanUp, LeaveHubFirst, Then, PresenceCall, hubVars
    <2>2. CASE Begin(p, c)
      <3>1. ASSUME NEW a \in Anchors, HubJoin(p, c, a) PROVE JoinTypes'
        BY <3>1 DEF HubJoin
      <3>2. ASSUME UNCHANGED <<anchors, leaving, joining>> PROVE JoinTypes'
        BY <3>2
      <3> QED BY <2>2, <3>1, <3>2 DEF Begin, JoinServerGroup, PositionUpdate, LeaveServerGroup, Then
    <2>3. CASE Finish(p, c)
      BY <2>3 DEF Finish, PresenceCall, EndJoin, HubLeave, hubVars
    <2> QED BY <1>1, <2>1, <2>2, <2>3 DEF PlayerStep
  <1>2. ASSUME NEW p \in Players, Sweep(p) PROVE JoinTypes'
    BY <1>2 DEF Sweep, LeaveHubFirst, Then, PresenceCall, hubVars
  <1>3. ASSUME NEW a \in Anchors, AnchorStep(a) PROVE JoinTypes'
    BY <1>3 DEF AnchorStep, Pose, Doom, DeleteCommits, OnAnchorDeleted
  <1>4. CASE UNCHANGED vars
    BY <1>4 DEF vars, hubVars
  <1> QED BY <1>1, <1>2, <1>3, <1>4 DEF Next

-------------------------------------------------------------------------------
(* Theorems *)

LEMMA InitIInv == Init => IInv
  <1> SUFFICES ASSUME Init PROVE IInv
    OBVIOUS
  <1>1. TypeOK
    <2>1. ConnectionsTypeOK
      BY InitialConnections DEF Init
    <2>2. capacity \in Capacities /\ presence \in [Players -> Group \cup {NoGroup}]
      BY DEF Init
    <2>3. members \in [Players -> Anchors \cup {NoMember}] /\ anchors \in [Anchors -> AnchorStates]
      BY DEF Init, AnchorStates
    <2>4. leaving \in [Anchors -> SUBSET Players] /\ rest \in [Threads -> Calls \cup {NoCall}]
      BY DEF Init
    <2>5. /\ joining \in [player : Players, connection : Connections, anchor : Anchors] \cup {NoJoin}
          /\ seen \in [Players -> (SUBSET Players) \cup {Outside}]
      BY DEF Init
    <2> QED BY <2>1, <2>2, <2>3, <2>4, <2>5 DEF TypeOK
  <1>2. CallsNameTheirGroup
    BY DEF Init, CallsNameTheirGroup
  <1>3. \A h : InHub(h) = {}
    BY DEF Init, InHub, IsMember
  <1>4. HubNeverOverfull
    <2>1. capacity \in Nat
      BY <1>1, HubAssumption DEF TypeOK
    <2>2. Cardinality({}) = 0
      BY FS_EmptySet
    <2> QED BY <1>3, <2>1, <2>2 DEF HubNeverOverfull
  <1>5. MembersSeeEachOther
    BY DEF Init, MembersSeeEachOther, IsMember
  <1> QED BY <1>1, <1>2, <1>4, <1>5 DEF IInv

LEMMA StepIInv == IInv /\ [Next]_vars => IInv'
  <1> SUFFICES ASSUME IInv, [Next]_vars PROVE IInv'
    OBVIOUS
  <1>1. TypeOK /\ CallsNameTheirGroup /\ HubNeverOverfull /\ MembersSeeEachOther
    BY DEF IInv
  <1>2. HubChange /\ capacity' = capacity
    BY <1>1, EveryStepIsAHubChange
  <1>3. ConnectionsTypeOK'
    BY <1>1, ConnectionsOfHub, ConnectionsKeepType DEF TypeOK
  <1>4. HubTypes' /\ CallTypes' /\ JoinTypes'
    BY <1>1, <1>2, HubChangeKeepsTypes, StepKeepsCallTypes, StepKeepsJoinTypes
  <1>5. TypeOK' /\ CallsNameTheirGroup'
    BY <1>1, <1>2, <1>3, <1>4 DEF TypeOK, HubTypes, CallTypes, JoinTypes
  <1>6. HubNeverOverfull' /\ MembersSeeEachOther'
    BY <1>1, <1>2, StepKeepsCapacity, StepKeepsScreens
  <1> QED BY <1>5, <1>6 DEF IInv

(* Every variable keeps its type, whatever messages, cleanups, expiries and *)
(* deletions follow each other.                                            *)
THEOREM TypeCorrect == Spec => []TypeOK
  <1>1. IInv => TypeOK
    BY DEF IInv
  <1> QED BY <1>1, InitIInv, StepIInv, PTL DEF Spec

(* HubService.join: the count and the entry are one step under the monitor, *)
(* and nothing else adds a member, so `capacity` is never passed.           *)
THEOREM NeverOverfull == Spec => []HubNeverOverfull
  <1>1. IInv => HubNeverOverfull
    BY DEF IInv
  <1> QED BY <1>1, InitIInv, StepIInv, PTL DEF Spec

(* HubPlayerEnter and HubPlayerLeave reach everyone they should: a client   *)
(* that shows a hub shows its members, also when connections overlap.       *)
THEOREM ScreensShowTheHub == Spec => []MembersSeeEachOther
  <1>1. IInv => MembersSeeEachOther
    BY DEF IInv
  <1> QED BY <1>1, InitIInv, StepIInv, PTL DEF Spec

-------------------------------------------------------------------------------
(* Where a member stands, where connections of a player do not overlap *)

CleanupsOnlyLeave ==
    \A t \in Threads :
        (rest[t] # NoCall /\ t.task # "messages") => rest[t].call = "leave"

(* Between the two calls of a message, its player is in no hub of another   *)
(* group than the message's, and PositionUpdate's server is the player's.   *)
MessagesKnowTheGroup ==
    \A p \in Players, c \in Connections :
        LET call == rest[Messages(p, c)] IN
        (call # NoCall /\ call.call # "leave") =>
            /\ IsMember(p) => AnchorGroup[members[p]] = call.group
            /\ call.call = "update" => presence[p] = NoGroup \/ presence[p].server = call.group.server

(* Who is inside join is still where it was read to be, or gone.            *)
JoinsKnowTheGroup ==
    joining # NoJoin =>
        /\ presence[joining.player] \in {NoGroup, AnchorGroup[joining.anchor]}
        /\ rest[Messages(joining.player, joining.connection)] = NoCall

GroupInv ==
    /\ CleanupsOnlyLeave
    /\ MessagesKnowTheGroup
    /\ JoinsKnowTheGroup
    /\ MembersAreOfTheirGroup

OneMessageThread == \E c : Connections = {c}

LEMMA MessagesAreThreads ==
    ASSUME NEW p \in Players, NEW c \in Connections, NEW q \in Players, NEW d \in Connections,
           Messages(p, c) = Messages(q, d)
    PROVE  p = q /\ c = d
  <1>1. Messages(p, c).player = Messages(q, d).player /\ Messages(p, c).connection = Messages(q, d).connection
    OBVIOUS
  <1> QED BY <1>1 DEF Messages

(* Most steps take players out of hubs, groups, calls and joins, or make    *)
(* them call leave, and put nobody anywhere.                                *)
Shrinks ==
    /\ \A q \in Players : members'[q] \in {members[q], NoMember}
    /\ \A q \in Players : presence'[q] \in {presence[q], NoGroup}
    /\ joining' \in {joining, NoJoin}
    /\ \A t \in Threads :
          \/ rest'[t] \in {rest[t], NoCall}
          \/ rest'[t].call = "leave" /\ joining' = NoJoin

LEMMA ShrinkingKeepsGroups == ASSUME TypeOK, GroupInv, Shrinks PROVE GroupInv'
  <1>1. CleanupsOnlyLeave'
    BY DEF GroupInv, CleanupsOnlyLeave, Shrinks
  <1>2. ASSUME NEW q \in Players, IsMember(q)'
        PROVE  IsMember(q) /\ members'[q] = members[q]
    BY <1>2 DEF IsMember, Shrinks
  <1>3. MessagesKnowTheGroup'
    <2> SUFFICES ASSUME NEW p \in Players, NEW c \in Connections,
                        rest'[Messages(p, c)] # NoCall, rest'[Messages(p, c)].call # "leave"
                 PROVE  /\ IsMember(p)' => AnchorGroup[members'[p]] = rest'[Messages(p, c)].group
                        /\ rest'[Messages(p, c)].call = "update" =>
                               \/ presence'[p] = NoGroup
                               \/ presence'[p].server = rest'[Messages(p, c)].group.server
      BY DEF MessagesKnowTheGroup, Messages
    <2>1. rest'[Messages(p, c)] = rest[Messages(p, c)]
      BY ThreadsOfPlayers DEF Shrinks
    <2>2. presence'[p] \in {presence[p], NoGroup}
      BY DEF Shrinks
    <2> QED BY <1>2, <2>1, <2>2 DEF GroupInv, MessagesKnowTheGroup
  <1>4. JoinsKnowTheGroup'
    <2> SUFFICES ASSUME joining' # NoJoin
                 PROVE  /\ presence'[joining'.player] \in {NoGroup, AnchorGroup[joining'.anchor]}
                        /\ rest'[Messages(joining'.player, joining'.connection)] = NoCall
      BY DEF JoinsKnowTheGroup, Messages
    <2>1. joining' = joining /\ joining # NoJoin
      BY DEF Shrinks
    <2>2. joining.player \in Players /\ joining.connection \in Connections
      BY <2>1 DEF TypeOK
    <2>3. presence'[joining.player] \in {presence[joining.player], NoGroup}
      BY <2>2 DEF Shrinks
    <2>4. Messages(joining.player, joining.connection) \in Threads
      BY <2>2, ThreadsOfPlayers
    <2>5. rest'[Messages(joining.player, joining.connection)]
              \in {rest[Messages(joining.player, joining.connection)], NoCall}
      BY <2>1, <2>4 DEF Shrinks
    <2> QED BY <2>1, <2>3, <2>5 DEF GroupInv, JoinsKnowTheGroup
  <1>5. MembersAreOfTheirGroup'
    BY <1>2 DEF GroupInv, MembersAreOfTheirGroup, Shrinks
  <1> QED BY <1>1, <1>3, <1>4, <1>5 DEF GroupInv

LEMMA LeaveShrinks ==
    ASSUME TypeOK, NEW p \in Players, NEW told, Leave(p, told)
    PROVE  \A q \in Players : members'[q] \in {members[q], NoMember}
  BY DEF TypeOK, Leave

LEMMA LeavingFirstShrinks ==
    ASSUME TypeOK, NEW t \in Threads, LeaveHubFirst(t) PROVE Shrinks
  <1>1. t.player \in Players
    BY DEF Threads
  <1>2. \A q \in Players : members'[q] \in {members[q], NoMember}
    BY <1>1, LeaveShrinks DEF LeaveHubFirst
  <1>3. rest' = [rest EXCEPT ![t] = [call |-> "leave", group |-> NoGroup]]
    BY DEF LeaveHubFirst, Then
  <1>4. presence' = presence /\ joining' = joining /\ joining = NoJoin
    BY DEF LeaveHubFirst, Then, MonitorFree
  <1>5. \A u \in Threads : rest'[u] = rest[u] \/ rest'[u].call = "leave"
    BY <1>3 DEF TypeOK
  <1> QED BY <1>2, <1>4, <1>5 DEF Shrinks

LEMMA LastLeaveShrinks ==
    ASSUME TypeOK, CleanupsOnlyLeave, NEW t \in Threads, t.task # "messages", PresenceCall(t)
    PROVE  Shrinks
  <1>1. After(rest[t], presence[t.player]) = NoGroup
    BY DEF CleanupsOnlyLeave, PresenceCall, After
  <1>2. /\ \A q \in Players : presence'[q] \in {presence[q], NoGroup}
        /\ \A u \in Threads : rest'[u] \in {rest[u], NoCall}
    BY <1>1 DEF PresenceCall, TypeOK
  <1> QED BY <1>2 DEF PresenceCall, Shrinks

LEMMA UnchangedShrinks ==
    ASSUME UNCHANGED <<presence, members, joining, rest>> PROVE Shrinks
  BY DEF Shrinks

LEMMA LeavingShrinks ==
    ASSUME TypeOK, NEW p \in Players, NEW told, Leave(p, told), UNCHANGED <<presence, joining, rest>>
    PROVE  Shrinks
  BY LeaveShrinks DEF Shrinks

(* HubJoin begins where the player is, with no other call to make.          *)
LEMMA JoiningKeepsGroups ==
    ASSUME TypeOK, GroupInv, NEW p \in Players, NEW c \in Connections, NEW a \in Anchors,
           ~ InTheMiddle(p, c), HubJoin(p, c, a)
    PROVE  GroupInv'
  <1>1. UNCHANGED <<presence, members, rest>>
    BY DEF HubJoin
  <1>2. CleanupsOnlyLeave' /\ MessagesKnowTheGroup' /\ MembersAreOfTheirGroup'
    BY <1>1 DEF GroupInv, CleanupsOnlyLeave, MessagesKnowTheGroup, MembersAreOfTheirGroup, IsMember, Messages
  <1>3. JoinsKnowTheGroup'
    BY <1>1 DEF HubJoin, InTheMiddle, JoinsKnowTheGroup, Messages
  <1> QED BY <1>2, <1>3 DEF GroupInv

(* onServerGroup takes the player out of a hub of another group before the  *)
(* call on the presence is due.                                            *)
LEMMA MovingKeepsGroups ==
    ASSUME TypeOK, GroupInv, NEW p \in Players, NEW c \in Connections, NEW g \in Group,
           NEW call \in {"join", "update"}, call = "update" => presence[p].server = g.server,
           ~ InTheMiddle(p, c), OnServerGroup(p, g), Then(Messages(p, c), call, g)
    PROVE  GroupInv'
  <1>1. presence' = presence /\ joining' = joining
    BY DEF Then
  <1>2. /\ rest'[Messages(p, c)] = [call |-> call, group |-> g]
        /\ \A t \in Threads : t # Messages(p, c) => rest'[t] = rest[t]
    BY ThreadsOfPlayers DEF Then, TypeOK
  <1>3. \A q \in Players : members'[q] \in {members[q], NoMember}
    BY LeaveShrinks DEF OnServerGroup, StayInHub
  <1>4. IsMember(p)' => AnchorGroup[members'[p]] = g
    BY DEF OnServerGroup, Leave, StayInHub, IsMember, TypeOK
  <1>5. CleanupsOnlyLeave'
    BY <1>2 DEF GroupInv, CleanupsOnlyLeave, Messages
  <1>6. MessagesKnowTheGroup'
    <2> SUFFICES ASSUME NEW q \in Players, NEW d \in Connections,
                        rest'[Messages(q, d)] # NoCall, rest'[Messages(q, d)].call # "leave"
                 PROVE  /\ IsMember(q)' => AnchorGroup[members'[q]] = rest'[Messages(q, d)].group
                        /\ rest'[Messages(q, d)].call = "update" =>
                               \/ presence'[q] = NoGroup
                               \/ presence'[q].server = rest'[Messages(q, d)].group.server
      BY DEF MessagesKnowTheGroup, Messages
    <2>1. CASE Messages(q, d) = Messages(p, c)
      <3>1. q = p
        BY <2>1, MessagesAreThreads
      <3> QED BY <1>1, <1>2, <1>4, <2>1, <3>1
    <2>2. CASE Messages(q, d) # Messages(p, c)
      <3>1. rest'[Messages(q, d)] = rest[Messages(q, d)]
        BY <1>2, <2>2, ThreadsOfPlayers
      <3>2. IsMember(q)' => IsMember(q) /\ members'[q] = members[q]
        BY <1>3 DEF IsMember
      <3> QED BY <1>1, <3>1, <3>2 DEF GroupInv, MessagesKnowTheGroup
    <2> QED BY <2>1, <2>2
  <1>7. JoinsKnowTheGroup'
    <2> SUFFICES ASSUME joining # NoJoin
                 PROVE  /\ presence[joining.player] \in {NoGroup, AnchorGroup[joining.anchor]}
                        /\ rest'[Messages(joining.player, joining.connection)] = NoCall
      BY <1>1 DEF JoinsKnowTheGroup, Messages
    <2>1. joining.player \in Players /\ joining.connection \in Connections
      BY DEF TypeOK
    <2>2. Messages(joining.player, joining.connection) # Messages(p, c)
      BY <2>1, MessagesAreThreads DEF InTheMiddle
    <2>3. rest'[Messages(joining.player, joining.connection)]
              = rest[Messages(joining.player, joining.connection)]
      BY <1>2, <2>1, <2>2, ThreadsOfPlayers
    <2> QED BY <2>3 DEF GroupInv, JoinsKnowTheGroup
  <1>8. MembersAreOfTheirGroup'
    BY <1>1, <1>3 DEF GroupInv, MembersAreOfTheirGroup, IsMember
  <1> QED BY <1>5, <1>6, <1>7, <1>8 DEF GroupInv

(* The last call of a message puts the player in the group it named; its    *)
(* hub, and nobody's join, is of another.                                  *)
LEMMA ArrivingKeepsGroups ==
    ASSUME TypeOK, CallsNameTheirGroup, GroupInv, OneMessageThread,
           NEW p \in Players, NEW c \in Connections, PresenceCall(Messages(p, c))
    PROVE  GroupInv'
  <1> DEFINE call == rest[Messages(p, c)]
             arrived == After(call, presence[p])
  <1>1. call # NoCall /\ call \in Calls
    BY ThreadsOfPlayers DEF PresenceCall, TypeOK
  <1>2. presence' = [presence EXCEPT ![p] = arrived]
    BY DEF PresenceCall, Messages
  <1>3. members' = members /\ joining' = joining
    BY DEF PresenceCall
  <1>4. /\ rest'[Messages(p, c)] = NoCall
        /\ \A t \in Threads : t # Messages(p, c) => rest'[t] = rest[t]
    BY ThreadsOfPlayers DEF PresenceCall, TypeOK
  <1>5. \A q \in Players : q # p => presence'[q] = presence[q]
    BY <1>2 DEF TypeOK
  <1>6. \A d \in Connections : d = c
    BY DEF OneMessageThread
  <1>7. arrived = NoGroup \/ (call.call \in {"join", "update"} /\ arrived = call.group)
    <2>1. CASE call.call = "join"
      BY <2>1 DEF After
    <2>2. CASE call.call = "update" /\ presence[p] # NoGroup
      <3>1. call.group \in Group
        BY <1>1, <2>2, ThreadsOfPlayers DEF CallsNameTheirGroup
      <3>2. presence[p] \in Group
        BY <2>2 DEF TypeOK
      <3>3. presence[p].server = call.group.server
        BY <1>1, <2>2 DEF GroupInv, MessagesKnowTheGroup
      <3>4. arrived = [presence[p] EXCEPT !.dimension = call.group.dimension]
        BY <2>2 DEF After
      <3> QED BY <2>2, <3>1, <3>2, <3>3, <3>4 DEF Group
    <2>3. CASE call.call # "join" /\ ~ (call.call = "update" /\ presence[p] # NoGroup)
      BY <2>3 DEF After
    <2> QED BY <2>1, <2>2, <2>3
  <1>8. CleanupsOnlyLeave'
    BY <1>4 DEF GroupInv, CleanupsOnlyLeave, Messages
  <1>9. MessagesKnowTheGroup'
    <2> SUFFICES ASSUME NEW q \in Players, NEW d \in Connections,
                        rest'[Messages(q, d)] # NoCall, rest'[Messages(q, d)].call # "leave"
                 PROVE  /\ IsMember(q)' => AnchorGroup[members'[q]] = rest'[Messages(q, d)].group
                        /\ rest'[Messages(q, d)].call = "update" =>
                               \/ presence'[q] = NoGroup
                               \/ presence'[q].server = rest'[Messages(q, d)].group.server
      BY DEF MessagesKnowTheGroup, Messages
    <2>1. Messages(q, d) # Messages(p, c) /\ q # p
      BY <1>4, <1>6
    <2>2. rest'[Messages(q, d)] = rest[Messages(q, d)]
      BY <1>4, <2>1, ThreadsOfPlayers
    <2> QED BY <1>3, <1>5, <2>1, <2>2 DEF GroupInv, MessagesKnowTheGroup, IsMember
  <1>10. JoinsKnowTheGroup'
    <2> SUFFICES ASSUME joining # NoJoin
                 PROVE  /\ presence'[joining.player] \in {NoGroup, AnchorGroup[joining.anchor]}
                        /\ rest'[Messages(joining.player, joining.connection)] = NoCall
      BY <1>3 DEF JoinsKnowTheGroup, Messages
    <2>1. joining.player \in Players /\ joining.connection \in Connections
      BY DEF TypeOK
    <2>2. joining.player # p
      BY <1>1, <1>6, <2>1 DEF GroupInv, JoinsKnowTheGroup
    <2>3. Messages(joining.player, joining.connection) # Messages(p, c)
      BY <2>1, <2>2, MessagesAreThreads
    <2>4. rest'[Messages(joining.player, joining.connection)]
              = rest[Messages(joining.player, joining.connection)]
      BY <1>4, <2>1, <2>3, ThreadsOfPlayers
    <2> QED BY <1>5, <2>1, <2>2, <2>4 DEF GroupInv, JoinsKnowTheGroup
  <1>11. MembersAreOfTheirGroup'
    <2> SUFFICES ASSUME NEW q \in Players, IsMember(q), presence'[q] # NoGroup
                 PROVE  presence'[q] = AnchorGroup[members[q]]
      BY <1>3 DEF MembersAreOfTheirGroup, IsMember
    <2>1. CASE q = p
      <3>1. presence'[p] = arrived
        BY <1>2 DEF TypeOK
      <3>2. call.call # "leave" /\ arrived = call.group
        BY <1>7, <2>1, <3>1
      <3> QED BY <1>1, <2>1, <3>1, <3>2 DEF GroupInv, MessagesKnowTheGroup
    <2>2. CASE q # p
      BY <1>5, <2>2 DEF GroupInv, MembersAreOfTheirGroup
    <2> QED BY <2>1, <2>2
  <1> QED BY <1>8, <1>9, <1>10, <1>11 DEF GroupInv

(* Whoever has been inside join enters where its presence still is, if it   *)
(* has one.                                                                *)
LEMMA EnteringKeepsGroups ==
    ASSUME TypeOK, GroupInv, OneMessageThread, NEW p \in Players, NEW c \in Connections, EndJoin(p, c)
    PROVE  GroupInv'
  <1>1. joining # NoJoin /\ joining.player = p /\ joining.connection = c
    BY DEF EndJoin
  <1>2. joining' = NoJoin /\ UNCHANGED <<presence, rest>>
    BY DEF EndJoin
  <1>3. /\ presence[p] \in {NoGroup, AnchorGroup[joining.anchor]}
        /\ rest[Messages(p, c)] = NoCall
    BY <1>1 DEF GroupInv, JoinsKnowTheGroup
  <1>4. /\ members'[p] \in {joining.anchor, NoMember}
        /\ \A q \in Players : q # p => members'[q] = members[q]
    BY DEF EndJoin, Enter, Leave, TypeOK
  <1>5. \A d \in Connections : d = c
    BY DEF OneMessageThread
  <1>6. CleanupsOnlyLeave' /\ JoinsKnowTheGroup'
    BY <1>2 DEF GroupInv, CleanupsOnlyLeave, JoinsKnowTheGroup
  <1>7. MessagesKnowTheGroup'
    <2> SUFFICES ASSUME NEW q \in Players, NEW d \in Connections,
                        rest[Messages(q, d)] # NoCall, rest[Messages(q, d)].call # "leave"
                 PROVE  /\ IsMember(q)' => AnchorGroup[members'[q]] = rest[Messages(q, d)].group
                        /\ rest[Messages(q, d)].call = "update" =>
                               \/ presence[q] = NoGroup
                               \/ presence[q].server = rest[Messages(q, d)].group.server
      BY <1>2 DEF MessagesKnowTheGroup, Messages
    <2>1. q # p
      BY <1>3, <1>5
    <2> QED BY <1>4, <2>1 DEF GroupInv, MessagesKnowTheGroup, IsMember
  <1>8. MembersAreOfTheirGroup'
    BY <1>2, <1>3, <1>4 DEF GroupInv, MembersAreOfTheirGroup, IsMember
  <1> QED BY <1>6, <1>7, <1>8 DEF GroupInv

LEMMA StepKeepsGroups ==
    ASSUME TypeOK, CallsNameTheirGroup, GroupInv, OneMessageThread, [Next]_vars
    PROVE  GroupInv'
  <1>1. CleanupsOnlyLeave
    BY DEF GroupInv
  <1>2. CASE UNCHANGED hubVars
    BY <1>2, UnchangedShrinks, ShrinkingKeepsGroups DEF hubVars
  <1>3. ASSUME NEW p \in Players, NEW c \in Connections, PlayerStep(p, c) PROVE GroupInv'
    <2>1. CASE Connect(p, c)
      BY <2>1, UnchangedShrinks, ShrinkingKeepsGroups DEF Connect
    <2>2. CASE Disconnect(p, c) \/ Read(p, c)
      BY <1>2, <2>2 DEF Disconnect, Read
    <2>3. CASE CleanUp(p, c)
      <3>1. Cleanup(p, c) \in Threads /\ Cleanup(p, c).task # "messages"
        BY ThreadsOfPlayers DEF Cleanup
      <3>2. CASE LeaveHubFirst(Cleanup(p, c))
        BY <3>1, <3>2, LeavingFirstShrinks, ShrinkingKeepsGroups
      <3>3. CASE PresenceCall(Cleanup(p, c))
        BY <1>1, <3>1, <3>3, LastLeaveShrinks, ShrinkingKeepsGroups
      <3> QED BY <2>3, <3>2, <3>3 DEF CleanUp
    <2>4. CASE Begin(p, c)
      <3>1. ~ InTheMiddle(p, c)
        BY <2>4 DEF Begin
      <3>2. ASSUME NEW a \in Anchors, HubJoin(p, c, a) PROVE GroupInv'
        BY <3>1, <3>2, JoiningKeepsGroups
      <3>3. ASSUME NEW g \in Group, JoinServerGroup(p, c, g) PROVE GroupInv'
        BY <3>1, <3>3, MovingKeepsGroups DEF JoinServerGroup
      <3>4. ASSUME NEW d \in Dimensions, PositionUpdate(p, c, d) PROVE GroupInv'
        <4> DEFINE g == [server |-> presence[p].server, dimension |-> d]
        <4>1. g \in Group /\ presence[p].server = g.server
          BY <3>4 DEF PositionUpdate, TypeOK, Group
        <4>2. OnServerGroup(p, g) /\ Then(Messages(p, c), "update", g)
          BY <3>4 DEF PositionUpdate
        <4> HIDE DEF g
        <4> QED BY <3>1, <4>1, <4>2, MovingKeepsGroups
      <3>5. CASE LeaveServerGroup(p, c)
        <4>1. \A q \in Players : members'[q] \in {members[q], NoMember}
          BY <3>5, LeaveShrinks DEF LeaveServerGroup
        <4>2. /\ presence' = presence /\ joining' = joining /\ joining = NoJoin
              /\ rest' = [rest EXCEPT ![Messages(p, c)] = [call |-> "leave", group |-> NoGroup]]
          BY <3>5 DEF LeaveServerGroup, Then, MonitorFree
        <4>3. \A u \in Threads : rest'[u] = rest[u] \/ rest'[u].call = "leave"
          BY <4>2 DEF TypeOK
        <4>4. Shrinks
          BY <4>1, <4>2, <4>3 DEF Shrinks
        <4> QED BY <4>4, ShrinkingKeepsGroups
      <3> QED BY <2>4, <3>2, <3>3, <3>4, <3>5 DEF Begin
    <2>5. CASE Finish(p, c)
      <3>1. CASE PresenceCall(Messages(p, c))
        BY <3>1, ArrivingKeepsGroups
      <3>2. CASE EndJoin(p, c)
        BY <3>2, EnteringKeepsGroups
      <3>3. CASE HubLeave(p)
        BY <3>3, LeavingShrinks, ShrinkingKeepsGroups DEF HubLeave
      <3> QED BY <1>2, <2>5, <3>1, <3>2, <3>3 DEF Finish
    <2> QED BY <1>3, <2>1, <2>2, <2>3, <2>4, <2>5 DEF PlayerStep
  <1>4. ASSUME NEW p \in Players, Sweep(p) PROVE GroupInv'
    <2>1. Expiry(p) \in Threads /\ Expiry(p).task # "messages"
      BY DEF Expiry, Threads
    <2>2. CASE LeaveHubFirst(Expiry(p))
      BY <2>1, <2>2, LeavingFirstShrinks, ShrinkingKeepsGroups
    <2>3. CASE PresenceCall(Expiry(p))
      BY <1>1, <2>1, <2>3, LastLeaveShrinks, ShrinkingKeepsGroups
    <2> QED BY <1>2, <1>4, <2>2, <2>3 DEF Sweep
  <1>5. ASSUME NEW a \in Anchors, AnchorStep(a) PROVE GroupInv'
    <2>1. ASSUME NEW p \in Players, OnAnchorDeleted(a, p) PROVE GroupInv'
      BY <2>1, LeavingShrinks, ShrinkingKeepsGroups DEF OnAnchorDeleted
    <2>2. CASE Pose(a) \/ Doom(a) \/ DeleteCommits(a)
      BY <2>2, UnchangedShrinks, ShrinkingKeepsGroups DEF Pose, Doom, DeleteCommits
    <2> QED BY <1>5, <2>1, <2>2 DEF AnchorStep
  <1>6. CASE UNCHANGED vars
    BY <1>2, <1>6 DEF vars
  <1> QED BY <1>3, <1>4, <1>5, <1>6 DEF Next

(* D-30: HubService.join reads the presence, and PresenceService moves it,  *)
(* with no lock in common.  While the connections of a player do not        *)
(* overlap, whoever stands in a hub is nevertheless where the anchor it     *)
(* came by stands, or of no group: expiries, cleanups and deleted anchors   *)
(* between the two calls of a message only take it out.                     *)
THEOREM MembersStandByTheirAnchor ==
    ASSUME NEW c, Connections = {c}
    PROVE  Spec => []MembersAreOfTheirGroup
  <1>1. OneMessageThread
    BY DEF OneMessageThread
  <1>2. Init => GroupInv
    BY DEF Init, GroupInv, CleanupsOnlyLeave, MessagesKnowTheGroup, JoinsKnowTheGroup,
           MembersAreOfTheirGroup, IsMember, Messages, Threads
  <1>3. IInv /\ GroupInv /\ [Next]_vars => GroupInv'
    BY <1>1, StepKeepsGroups DEF IInv
  <1>4. GroupInv => MembersAreOfTheirGroup
    BY DEF GroupInv
  <1> QED BY <1>2, <1>3, <1>4, InitIInv, StepIInv, PTL DEF Spec

===============================================================================
