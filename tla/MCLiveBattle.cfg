SPECIFICATION Spec
CONSTANTS
    free = free
    ruled = ruled
    Players = {a, b}
    Admins = {a, b}
    Npcs = {n}
    NpcTeam <- NpcsAllowed
    NpcFormat <- NpcsRuled
    NoAi = noai
    Mirror = mirror
    Formats = {free, ruled}
    Free = free
    Teams <- AnyTeam
    Matches = {m}
    NoMatch = nomatch
    Paired <- PairedAll
    MatchFormat <- Ruled
    LobbyIds = {l1, l2}
    NoLobby = nolobby
    BattleIds = {b1, b2}
    NoBattle = nobattle
SYMMETRY Symmetry
INVARIANTS
    OnePlaceEach
    SpectatorsKnown
    GhostsStayIn
    OneChallenger
    TeamsAreAllowed
    RowsOfRunningBattles
PROPERTIES
    MatchReleased
    DecidedForGood
