SPECIFICATION TxSpec
CONSTANTS
    a = a
    b = b
    p1 = p1
    p2 = p2
    p3 = p3
    t1 = t1
    t2 = t2
    Players = {a, b}
    NoPlayer = nobody
    PokemonIds = {p1, p2, p3}
    PcSize = 2
    TeamSize = 1
    TradeIds = {t1, t2}
    NoTrade = none
    Threads = {h1}
    Kinds = {"create", "clone", "update", "delete", "propose", "live", "accept", "cancel"}
    InitialTables <- NoTable
    InitialTrades <- NoTrades
    KeepAlive = TRUE
    Unset = unset
SYMMETRY Symmetry
CHECK_DEADLOCK FALSE
PROPERTIES
    ImplementsTrading
