SPECIFICATION Spec
CONSTANTS
    Players = {a, b}
    Nobody = nobody
    PokemonIds = {}
    NoPokemon = nopokemon
    SessionIds = {s1, s2}
    NoSession = nosession
    Connections = {c1, c2}
    NoConnection = noconnection
    Sweeps = TRUE
SYMMETRY TradeSymmetry
INVARIANTS
    OpenIsRegistered
