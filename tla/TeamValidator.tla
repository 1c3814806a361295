--------------------------- MODULE TeamValidator ---------------------------
(***************************************************************************)
(* TeamValidator.validate: the issues of each member of a team under a     *)
(* resolved format, [rules, bans, unbans, values]. An issue is its code,   *)
(* or the clause when the code is CLAUSE.                                  *)
(***************************************************************************)
EXTENDS ShowdownRules

If(condition, issue) == IF condition THEN {issue} ELSE {}

maxTeamSize(format) ==
    IF "maxteamsize" \in DOMAIN format.values THEN format.values["maxteamsize"] ELSE 6

unbanned(format, id) == id \in format.unbans

nonstandardBanned(format, def) == def.nonstandard # Nothing /\ ~ unbanned(format, def.nonstandard)

\* A tier of National Dex is named "nd..." in a ban: so it is in natDexTier here. baseBan names the base forme alone.
speciesBanned(format, id) ==
    \/ {id, Species[id].base, Species[id].tier, Species[id].natDexTier} \intersect format.bans # {}
    \/ id = Species[id].base /\ Species[id].baseBan \in format.bans

checkSpecies(format, id) ==
    IF id \notin DOMAIN Species \/ unbanned(format, id) \/ unbanned(format, Species[id].base)
    THEN {}
    ELSE If(\/ nonstandardBanned(format, Species[id])
            \/ "natdexmod" \in format.rules /\ Species[id].natDexTier = "ndillegal", "NONSTANDARD")
         \union If(speciesBanned(format, id), "BANNED")

checkMegaStone(format, m) ==
    If(/\ MegaForme(m) # m.species
       /\ ~ unbanned(format, m.item)
       /\ ~ unbanned(format, MegaForme(m))
       /\ "BANNED" \in checkSpecies(format, MegaForme(m)), "BANNED")

checkEntry(format, id, defs) ==
    IF id \notin DOMAIN defs \/ unbanned(format, id) THEN {}
    ELSE IF nonstandardBanned(format, defs[id]) THEN {"NONSTANDARD"}
    ELSE If(id \in format.bans, "BANNED")

checkMove(format, id) ==
    IF id \notin DOMAIN Moves THEN {}
    ELSE LET move   == Moves[id]
             has(r) == r \in format.rules
         IN  checkEntry(format, id, Moves)
             \union If(has("ohkoclause") /\ move.ohko, "ohkoclause")
             \union If((has("evasionmovesclause") \/ has("evasionclause")) /\ move.evasion > 0,
                       "evasionmovesclause")
             \union If(has("sleepmovesclause") /\ (move.status = "slp" \/ id = "yawn"),
                       "sleepmovesclause")
             \union If(has("accuracymovesclause") /\ move.accuracy < 0 /\ ~ move.self,
                       "accuracymovesclause")

EVASION_ITEMS     == {"brightpowder", "laxincense"}
EVASION_ABILITIES == {"sandveil", "snowcloak"}

littleCup(m) == Known(m) => Species[m.species].evolves /\ ~ Species[m.species].evolved

(* Mutant: two formes of a species pass for two species.                   *)
formeTaken(team, i) == Known(team[i]) /\ \E j \in 1 .. i - 1 : team[j].species = team[i].species

\* Whether an earlier member is of the same species, or has the same nickname.
speciesTaken(team, i) ==
    Known(team[i]) /\ \E j \in 1 .. i - 1 :
        Known(team[j]) /\ Species[team[j].species].base = Species[team[i].species].base

\* The lower-case letters and the digits; Nothing is left of a nickname without any.
toId(nickname) == IF nickname \in DOMAIN Ids THEN Ids[nickname] ELSE Nothing

nicknameTaken(team, i) ==
    /\ toId(team[i].nickname) # Nothing
    /\ \E j \in 1 .. i - 1 : toId(team[j].nickname) = toId(team[i].nickname)

(***************************************************************************)
(* Monotype: a most common type of the team (any of them when several are) *)
(* and the members without it; nobody when no member has a type.           *)
(***************************************************************************)
MostCommonTypes(team) ==
    LET bearers(t) == {i \in Slots(team) : t \in OwnTypes(team[i].species)}
        types      == UNION {OwnTypes(team[i].species) : i \in Slots(team)}
    IN  {t \in types : \A u \in types : Cardinality(bearers(u)) <= Cardinality(bearers(t))}

checkSameType(team, i) ==
    LET best == MostCommonTypes(team)
    IN  If(best # {} /\ (CHOOSE t \in best : TRUE) \notin OwnTypes(team[i].species), "SAME_TYPE")

ofMember(format, team, i) ==
    LET m      == team[i]
        has(r) == r \in format.rules
    IN  If(i > maxTeamSize(format), "TEAM_SIZE")
        \union checkSpecies(format, m.species)
        \union checkEntry(format, m.item, Items)
        \union checkMegaStone(format, m)
        \union checkEntry(format, m.ability, Abilities)
        \union (UNION {checkMove(format, id) : id \in Moveset(m)})
        \union If((has("evasionitemsclause") \/ has("evasionclause")) /\ m.item \in EVASION_ITEMS,
                  "evasionitemsclause")
        \union If((has("evasionabilitiesclause") \/ has("evasionclause"))
                  /\ m.ability \in EVASION_ABILITIES, "evasionabilitiesclause")
        \union If(has("littlecup") /\ ~ littleCup(m), "LITTLE_CUP")
        \union If(has("speciesclause") /\ speciesTaken(team, i), "speciesclause")
        \union If(has("nicknameclause") /\ nicknameTaken(team, i), "nicknameclause")
        \union (IF has("sametypeclause") THEN checkSameType(team, i) ELSE {})

validate(format, team) == [i \in Slots(team) |-> ofMember(format, team, i)]

Allowed(format, team) == \A i \in Slots(team) : validate(format, team)[i] = {}

=============================================================================
