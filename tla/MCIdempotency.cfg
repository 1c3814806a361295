SPECIFICATION FairSpec
CONSTANTS
    Calls = {c1, c2, c3}
    Requests = {u, v}
    Askers = {player, other}
    NotSent = notsent
    NoRow = norow
    NoReply = noreply
    Failed = failed
    Reused = reused
    Lost = lost
INVARIANTS
    OncePerRequest
PROPERTIES
    ImplementsOnce
    EveryCallAnswered
CHECK_DEADLOCK FALSE
