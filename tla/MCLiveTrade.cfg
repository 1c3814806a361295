SPECIFICATION FairSpec
CONSTANTS
    Players = {a, b}
    Nobody = nobody
    PokemonIds = {x, y}
    NoPokemon = nopokemon
    SessionIds = {s1}
    NoSession = nosession
    Connections = {c1}
    NoConnection = noconnection
    Sweeps = FALSE
INVARIANTS
    TypeOK
    SessionsPairTwo
    ScreensAreCurrent
    ReadyForTheseOffers
    SessionsOfTheConnected
PROPERTIES
    SwapsAreOffered
    AbsentPartnerIsLeft
