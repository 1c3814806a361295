--------------------------- MODULE ShowdownRules ---------------------------
(***************************************************************************)
(* The rules of Showdown the offered formats are made of: what each entry  *)
(* of rulesets.ts brings into a format (ShowdownData.parseRules keeps its  *)
(* ruleset, banlist and unbanlist, and nothing else), and what the entry's *)
(* functions ask of a team, which the backend does not run: they are the   *)
(* reference its own checks are compared with. What Showdown checks in its *)
(* own code (its team validator) is no part of this.                       *)
(***************************************************************************)
EXTENDS Integers, Sequences, FiniteSets

CONSTANTS Species,   \* id -> [num, base, baseName, baseBan, types, evolved, evolves, nonstandard, tier, natDexTier]
          Items,     \* id -> [nonstandard, lately, mega]: whether a game of generation 7 to 9 has it; the formes it gives
          Abilities, \* id -> [nonstandard]
          Moves,     \* id -> [nonstandard, gen, ohko, status, evasion, accuracy, self]
          Ids,       \* what toId makes of a nickname, for those with a letter or a digit
          Nothing    \* an absent item, nickname, tier or status

(***************************************************************************)
(* An entry of a ruleset: a rule, a value given to a rule, a rule removed  *)
(* ("!"), something unbanned ("+") or banned ("-"), another format. The    *)
(* bans of combinations are left out, as BattleFormats.ban does.           *)
(***************************************************************************)
Rule(id)     == [op |-> "rule", of |-> id]
Value(id, n) == [op |-> "value", of |-> id, is |-> n]
Without(id)  == [op |-> "remove", of |-> id]
Unban(id)    == [op |-> "unban", of |-> id]
Ban(id)      == [op |-> "ban", of |-> id]
Parent(id)   == [op |-> "format", of |-> id]

Def(ruleset, banlist, unbanlist) == [ruleset |-> ruleset, bans |-> banlist, unbans |-> unbanlist]

NoDef == Def(<<>>, {}, {})

-----------------------------------------------------------------------------
\* What the entries of rulesets.ts bring into a format.

StandardAG ==
    Def(<<Rule("obtainable"), Rule("teampreview"), Rule("hppercentagemod"), Rule("cancelmod"),
          Rule("endlessbattleclause")>>, {}, {})

Standard ==
    Def(<<Rule("standardag"), Rule("sleepclausemod"), Rule("speciesclause"), Rule("nicknameclause"),
          Rule("ohkoclause"), Rule("evasionitemsclause"), Rule("evasionmovesclause")>>, {}, {})

StandardNatDex ==
    Def(<<Rule("standardag"), Rule("natdexmod"), Rule("speciesclause"), Rule("nicknameclause"),
          Rule("ohkoclause"), Rule("evasionclause"), Rule("sleepclausemod")>>, {}, {})

NatDexMod ==
    Def(<<Unban("unobtainable"), Unban("past"), Rule("sketchpostgen7moves")>>, {}, {})

Obtainable ==
    Def(<<Rule("obtainablemoves"), Rule("obtainableabilities"), Rule("obtainableformes"),
          Value("evlimit", Nothing), Rule("obtainablemisc")>>,
        {"unreleased", "unobtainable", "nonexistent"}, {})

LittleCup == Def(<<Value("maxlevel", 5)>>, {}, {})

EvasionClause ==
    Def(<<Rule("evasionabilitiesclause"), Rule("evasionitemsclause"), Rule("evasionmovesclause")>>, {}, {})

EvasionAbilitiesClause == Def(<<>>, {"sandveil", "snowcloak"}, {})

EvasionItemsClause == Def(<<>>, {"brightpowder", "laxincense"}, {})

EvasionMovesClause == Def(<<>>, {"acupressure", "minimize", "doubleteam"}, {})

AccuracyMovesClause ==
    Def(<<>>, {"flash", "kinesis", "leaftornado", "mirrorshot", "mudbomb", "mudslap", "muddywater",
               "nightdaze", "octazooka", "sandattack", "smokescreen"}, {})

SleepMovesClause == Def(<<>>, {"yawn"}, {})

\* The other rules bring nothing into a format.
Rules ==
    [standardag |-> StandardAG, standard |-> Standard, standardnatdex |-> StandardNatDex,
     natdexmod |-> NatDexMod, obtainable |-> Obtainable, littlecup |-> LittleCup,
     evasionclause |-> EvasionClause, evasionabilitiesclause |-> EvasionAbilitiesClause,
     evasionitemsclause |-> EvasionItemsClause, evasionmovesclause |-> EvasionMovesClause,
     accuracymovesclause |-> AccuracyMovesClause, sleepmovesclause |-> SleepMovesClause]

\* Of one player's fused Pokemon, only one can be made.
Fused == {{"kyuremwhite", "kyuremblack"}, {"necrozmaduskmane"}, {"necrozmadawnwings"}, {"calyrexice", "calyrexshadow"}}

\* Formes have the number of their base species, and every species has a type (the cosmetic formes of pokedex.js, which have
\* neither, are left out); the moves that raise evasion or lower an opponent's accuracy are those the clauses name.
ASSUME DexAssumption ==
    /\ \A s, t \in DOMAIN Species : Species[s].num = Species[t].num <=> Species[s].base = Species[t].base
    /\ \A s \in DOMAIN Species : Species[s].types # {}
    /\ \A group \in Fused : \A s, t \in group \intersect DOMAIN Species : Species[s].base = Species[t].base
    /\ \A id \in DOMAIN Moves :
          /\ Moves[id].evasion > 0 => id \in EvasionMovesClause.bans
          /\ Moves[id].accuracy < 0 /\ ~ Moves[id].self => id \in AccuracyMovesClause.bans

-----------------------------------------------------------------------------
\* What the entries of rulesets.ts ask of a team: a sequence of members, each
\* [species, ability, item, moves, nickname], the moves in a sequence too.
\* Species unknown to Showdown are looked at only where the entry says what
\* becomes of them.

Slots(team) == 1 .. Len(team)
Known(m)    == m.species \in DOMAIN Species
Moveset(m)  == {m.moves[n] : n \in DOMAIN m.moves}
Uses(m)     == {m.ability, m.item} \union Moveset(m)

OneOfEachSpecies(team) ==
    \A i, j \in {k \in Slots(team) : Known(team[k])} :
        i # j => Species[team[i].species].num # Species[team[j].species].num

\* A nickname that is the name of its own species is passed over; others are compared as they are written.
Nicknamed(m) ==
    /\ m.nickname # Nothing
    /\ ~ (Known(m) /\ m.nickname = Species[m.species].baseName)

DifferentNicknames(team) ==
    \A i, j \in {k \in Slots(team) : Nicknamed(team[k])} :
        i # j => team[i].nickname # team[j].nickname

NoMove(team, refused) == \A i \in Slots(team) : Moveset(team[i]) \intersect refused = {}

NoKnockOut(team) == NoMove(team, {id \in DOMAIN Moves : Moves[id].ohko})
NoSleep(team)    == NoMove(team, {id \in DOMAIN Moves : Moves[id].status = "slp"})

DifferentMoves(team) ==
    \A i \in Slots(team) : \A m, n \in DOMAIN team[i].moves : m # n => team[i].moves[m] # team[i].moves[n]

FirstOfItsFamily(team) ==
    \A i \in Slots(team) : Known(team[i]) =>
        LET species == Species[team[i].species] IN ~ species.evolved /\ species.evolves

OneOfEachFusion(team) ==
    \A group \in Fused : \A i, j \in {k \in Slots(team) : team[k].species \in group} : i = j

\* What NatDex Mod finds that no National Dex has, unless the format unbans it (or, for moves, has the rule
\* omunobtainablemoves: no entry brings it).
Illegal(format, m) ==
    /\ Known(m) /\ Species[m.species].natDexTier = "ndillegal"
    /\ m.species \notin format.unbans

Unreleased(format, m) ==
    /\ Known(m) /\ Species[m.species].natDexTier = "ndunreleased"
    /\ {m.species, Species[m.species].base} \intersect format.unbans = {}

Unlearnable(format, id) ==
    /\ id \in DOMAIN Moves
    /\ id = "lightofruin" \/ (Moves[id].nonstandard = "unobtainable" /\ Moves[id].gen = 9)
    /\ id \notin format.unbans

Lost(format, id) == id \in DOMAIN Items /\ ~ Items[id].lately /\ id \notin format.unbans

\* A species unbanned although illegal or unreleased is not asked about its moves and item.
InNationalDex(format, m) ==
    /\ ~ Illegal(format, m)
    /\ "obtainable" \in format.rules =>
          \/ Known(m) /\ Species[m.species].natDexTier = "ndillegal"
          \/ /\ ~ Unreleased(format, m)
             /\ \/ Known(m) /\ Species[m.species].natDexTier = "ndunreleased"
                \/ /\ \A id \in Moveset(m) : ~ Unlearnable(format, id)
                   /\ ~ Lost(format, m.item)

\* The formes a Mega Stone or Ultranecrozium Z gives its bearer count too; without species, no type.
MegaForme(m) ==
    IF m.item \in DOMAIN Items /\ m.species \in DOMAIN Items[m.item].mega
    THEN Items[m.item].mega[m.species]
    ELSE m.species

Formes(m) ==
    {m.species, MegaForme(m)}
    \union {f \in {"necrozmaultra"} : m.item = "ultranecroziumz" /\ Known(m) /\ Species[m.species].base = "necrozma"}

OwnTypes(id) == IF id \in DOMAIN Species THEN Species[id].types ELSE {}

CertainTypes(m) == {t \in OwnTypes(m.species) : \A f \in Formes(m) : t \in OwnTypes(f)}

SharedTypes(team) ==
    {t \in UNION {CertainTypes(team[i]) : i \in Slots(team)} :
        \A i \in Slots(team) : t \in CertainTypes(team[i])}

SameType(team) == team # <<>> => SharedTypes(team) # {}

\* A banlist, and a ban of things together: nobody uses any, or all, of these.
NotUsed(team, banned)        == \A i \in Slots(team) : Uses(team[i]) \intersect banned = {}
NotTogether(team, banned)    == \A i \in Slots(team) : ~ banned \subseteq Uses(team[i])

(***************************************************************************)
(* Whether a team keeps a rule of a format: what the functions of its      *)
(* entry check, and that nobody uses the items, abilities and moves its    *)
(* banlist names. The other rules ask nothing of a team in rulesets.ts.    *)
(***************************************************************************)
Asking ==
    DOMAIN Rules \union {"speciesclause", "nicknameclause", "ohkoclause", "sametypeclause", "sleepclausemod",
                         "obtainablemisc"}

Keeps(format, team, rule) ==
    /\ rule = "obtainable"       => OneOfEachFusion(team)
    /\ rule = "obtainablemisc"   => DifferentMoves(team)
    /\ rule = "natdexmod"        => \A i \in Slots(team) : InNationalDex(format, team[i])
    /\ rule = "littlecup"        => FirstOfItsFamily(team)
    /\ rule = "speciesclause"    => OneOfEachSpecies(team)
    /\ rule = "nicknameclause"   => DifferentNicknames(team)
    /\ rule = "ohkoclause"       => NoKnockOut(team)
    /\ rule = "sleepmovesclause" => NoSleep(team)
    /\ rule = "sleepclausemod"   => NotTogether(team, {"hypnosis", "gengarite"})
    /\ rule = "sametypeclause"   => SameType(team)
    /\ rule \in DOMAIN Rules     => NotUsed(team, Rules[rule].bans)

=============================================================================
