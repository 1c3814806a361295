SPECIFICATION Spec
CONSTANTS
    Nothing = None
    Species <- MCSpecies
    Items <- MCItems
    Abilities <- MCAbilities
    Moves <- MCMoves
    Ids <- MCIds
    FormatDefs <- MCFormatDefs
    Offered <- MCOffered
    Members <- MCMembers
    MaxParty = 3
INVARIANTS
    RulesAgree
    LowerTiersAreStricter
CHECK_DEADLOCK FALSE
