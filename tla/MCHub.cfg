SPECIFICATION Spec
CONSTANTS
    s = s
    overworld = overworld
    nether = nether
    x = x
    y = y
    z = z
    Players = {a, b}
    Nobody = nobody
    Connections = {c}
    NoConnection = noconnection
    Sweeps = TRUE
    Servers = {s}
    Dimensions = {overworld, nether}
    Anchors = {x, y, z}
    AnchorGroup <- MCAnchorGroup
    AnchorHub <- MCAnchorHub
    Capacities = {1, 2}
    NoGroup = nogroup
    NoMember = nomember
    NoJoin = nojoin
    NoCall = nocall
    Outside = outside
CONSTRAINT TwoAtATime
SYMMETRY MCSymmetry
VIEW MCView
INVARIANTS
    HubNeverOverfull
    MembersSeeEachOther
    MembersAreOfTheirGroup
