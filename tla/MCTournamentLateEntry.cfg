SPECIFICATION Spec
CONSTANTS
    a = a
    b = b
    c = c
    d = d
    e = e
    null = null
    NOBODY = NOBODY
    Players = {a, b, c}
    Kinds = {"BRACKET"}
    BestOf = {1}
    Shuffles <- MCShuffles
    MaxRounds = 2
    MaxDropped = 1
    MaxGames = 2
CONSTRAINT InOrder
INVARIANT SurvivorsSeated
CHECK_DEADLOCK FALSE
