SPECIFICATION TxSpec
CONSTANTS
    a = a
    b = b
    p1 = p1
    p2 = p2
    p3 = p3
    t1 = t1
    t2 = t2
    Players = {a, b}
    NoPlayer = nobody
    PokemonIds = {p1, p2, p3}
    PcSize = 3
    TeamSize = 1
    TradeIds = {t1, t2}
    NoTrade = none
    Threads = {h1, h2}
    Kinds = {"accept"}
    InitialTables <- Pc3
    InitialTrades <- TwoTrades
    KeepAlive = FALSE
    Unset = unset
CHECK_DEADLOCK FALSE
PROPERTIES
    CompletedFromTheParties
