SPECIFICATION Spec
CONSTANTS
    Players = {a, b}
    NoPlayer = nobody
    PokemonIds = {p1, p2, p3, p4}
    PcSize = 2
    TeamSize = 1
    TradeIds = {t1, t2}
    NoTrade = none
SYMMETRY Symmetry
CHECK_DEADLOCK FALSE
INVARIANTS
    TypeOK
    SlotsUnique
    Located
    PendingPokemonExist
    PcRoomSuffices
PROPERTIES
    TradeHistoryStable
    ImplementsLedger
