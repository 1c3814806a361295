SPECIFICATION Spec
CONSTANTS
    a = a
    b = b
    c = c
    d = d
    e = e
    null = null
    NOBODY = NOBODY
    Players = {a, b, c, d, e}
    Kinds = {"SWISS", "BRACKET"}
    BestOf = {1, 3}
    Shuffles <- MCShuffles
    MaxRounds = 2
    MaxDropped = 1
    MaxGames = 2
CONSTRAINT Explored
ACTION_CONSTRAINT CancelledBeforeTheStart
INVARIANTS SurvivorsSeated BracketGoesOn
PROPERTIES SwissRoundsAreFair DecidedStays
CHECK_DEADLOCK FALSE
