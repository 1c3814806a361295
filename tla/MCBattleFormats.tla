-------------------------- MODULE MCBattleFormats --------------------------
(***************************************************************************)
(* The formats of formats.js, with the bans that name something of the     *)
(* small dex below, which copies the entries of the data files.            *)
(***************************************************************************)
EXTENDS BattleFormats

Mon(num, base, name, types, evolved, evolves, nonstandard, tier, natDexTier) ==
    [num |-> num, base |-> base, baseName |-> name, baseBan |-> base \o "base", types |-> types, evolved |-> evolved,
     evolves |-> evolves, nonstandard |-> nonstandard, tier |-> tier, natDexTier |-> natDexTier]

\* The last two are made up: NatDex Mod has a check for their tiers, which the shipped files give to no species.
MCSpecies ==
    [gible         |-> Mon(443, "gible", "Gible", {"Dragon", "Ground"}, FALSE, TRUE, Nothing, "lc", Nothing),
     garchomp      |-> Mon(445, "garchomp", "Garchomp", {"Dragon", "Ground"}, TRUE, FALSE, Nothing, "uubl", "ndou"),
     kyuremwhite   |-> Mon(646, "kyurem", "Kyurem", {"Dragon", "Ice"}, FALSE, FALSE, Nothing, "uber", "nduber"),
     kyuremblack   |-> Mon(646, "kyurem", "Kyurem", {"Dragon", "Ice"}, FALSE, FALSE, Nothing, "uber", "nduber"),
     charizard     |-> Mon(6, "charizard", "Charizard", {"Fire", "Flying"}, TRUE, FALSE, Nothing, "zubl", "ndru"),
     charizardmegax |->
        Mon(6, "charizard", "Charizard", {"Fire", "Dragon"}, FALSE, FALSE, "past", "illegal", "nduubl"),
     mandibuzz     |-> Mon(630, "mandibuzz", "Mandibuzz", {"Dark", "Flying"}, TRUE, FALSE, Nothing, "uu", "ndru"),
     lucario       |-> Mon(448, "lucario", "Lucario", {"Fighting", "Steel"}, TRUE, FALSE, Nothing, "nubl", "ndru"),
     lucariomega   |->
        Mon(448, "lucario", "Lucario", {"Fighting", "Steel"}, FALSE, FALSE, "past", "illegal", "nduber"),
     diglett       |-> Mon(50, "diglett", "Diglett", {"Ground"}, FALSE, TRUE, Nothing, "nfe", Nothing),
     rattata       |-> Mon(19, "rattata", "Rattata", {"Normal"}, FALSE, TRUE, "past", "illegal", "ndlc"),
     necrozmaduskmane |->
        Mon(800, "necrozma", "Necrozma", {"Psychic", "Steel"}, FALSE, FALSE, Nothing, "uber", "nduber"),
     necrozmaultra |->
        Mon(800, "necrozma", "Necrozma", {"Psychic", "Dragon"}, FALSE, FALSE, "past", "illegal", "nduber"),
     starter       |-> Mon(1001, "starter", "Starter", {"Fire"}, FALSE, TRUE, Nothing, "lc", "ndillegal"),
     mythical      |-> Mon(1002, "mythical", "Mythical", {"Fire"}, FALSE, FALSE, Nothing, "ou", "ndunreleased")]

NoMega == <<>>

Item(nonstandard, lately, mega) == [nonstandard |-> nonstandard, lately |-> lately, mega |-> mega]

MCItems ==
    [brightpowder    |-> Item(Nothing, TRUE, NoMega),
     berserkgene     |-> Item("past", FALSE, NoMega),
     gengarite       |-> Item("past", TRUE, [gengar |-> "gengarmega"]),
     charizarditex   |-> Item("past", TRUE, [charizard |-> "charizardmegax"]),
     lucarionite     |-> Item("past", TRUE, [lucario |-> "lucariomega"]),
     ultranecroziumz |-> Item("past", TRUE, NoMega)]

MCAbilities == [sandveil |-> [nonstandard |-> Nothing], moody |-> [nonstandard |-> Nothing]]

Move(gen, ohko, status, evasion, accuracy) ==
    [nonstandard |-> Nothing, gen |-> gen, ohko |-> ohko, status |-> status, evasion |-> evasion,
     accuracy |-> accuracy, self |-> evasion > 0]

MCMoves ==
    [hypnosis |-> Move(1, FALSE, "slp", 0, 0), yawn |-> Move(3, FALSE, Nothing, 0, 0),
     fissure |-> Move(1, TRUE, Nothing, 0, 0), doubleteam |-> Move(1, FALSE, Nothing, 1, 0),
     sandattack |-> Move(1, FALSE, Nothing, 0, -1), acupressure |-> Move(4, FALSE, Nothing, 0, 0),
     blazingtorque |-> [Move(9, FALSE, Nothing, 0, 0) EXCEPT !.nonstandard = "unobtainable"]]

\* What is left of "***" has no letter or digit.
MCIds == [ace |-> "ace", Ace |-> "ace", Rattata |-> "rattata"]

MCFormatDefs ==
    [gen9nationaldex |-> Def(<<Rule("standardnatdex"), Rule("terastalclause")>>, {"nduber", "ndag", "moody"}, {}),
     gen9nationaldexubers |->
        Def(<<Rule("standardnatdex"), Without("evasionclause"), Rule("evasionmovesclause"),
              Rule("evasionitemsclause"), Rule("megarayquazaclause")>>, {"ndag"}, {}),
     gen9nationaldexuu |-> Def(<<Parent("gen9nationaldex")>>, {"ndou", "nduubl"}, {}),
     gen9nationaldexru |-> Def(<<Parent("gen9nationaldexuu")>>, {"nduu", "ndrubl"}, {}),
     gen9nationaldexmonotype |->
        Def(<<Rule("standardnatdex"), Rule("sametypeclause"), Rule("terastalclause")>>,
            {"kyuremblack", "kyuremwhite", "lucariomega", "necrozmaduskmane", "moody"}, {}),
     gen9nationaldexlc |-> Def(<<Rule("standardnatdex"), Rule("littlecup")>>, {"moody"}, {}),
     gen9nationaldex1v1 |->
        Def(<<Rule("standardag"), Rule("natdexmod"), Rule("nicknameclause"), Rule("evasionmovesclause"),
              Rule("ohkoclause"), Rule("speciesclause"), Rule("sleepmovesclause"), Rule("terastalclause"),
              Rule("accuracymovesclause"), Value("pickedteamsize", 1), Value("maxteamsize", 3)>>,
            {"kyuremblack", "kyuremwhite", "necrozmaduskmane", "moody"}, {}),
     gen9nationaldexag |-> Def(<<Rule("standardag"), Rule("natdexmod")>>, {}, {}),
     gen9ou |-> Def(<<Rule("standard"), Rule("evasionabilitiesclause"), Rule("sleepmovesclause"),
                      Without("sleepclausemod")>>, {"uber", "ag", "moody"}, {}),
     gen9ubers |-> Def(<<Rule("standard")>>, {"ag", "moody"}, {}),
     gen9uu |-> Def(<<Parent("gen9ou")>>, {"ou", "uubl"}, {}),
     gen9ru |-> Def(<<Parent("gen9uu")>>, {"uu", "rubl"}, {}),
     gen9nu |-> Def(<<Parent("gen9ru")>>, {"ru", "nubl"}, {}),
     gen9pu |-> Def(<<Parent("gen9nu")>>, {"nu", "publ"}, {}),
     gen9zu |-> Def(<<Parent("gen9pu")>>, {"pu", "zubl"}, {}),
     gen9lc |-> Def(<<Rule("littlecup"), Rule("standard")>>, {"diglettbase", "moody"}, {}),
     gen9monotype |->
        Def(<<Rule("standard"), Rule("evasionabilitiesclause"), Rule("sametypeclause"),
              Rule("terastalclause")>>, {"kyuremblack", "kyuremwhite", "necrozmaduskmane", "moody"}, {}),
     gen91v1 |->
        Def(<<Value("pickedteamsize", 1), Value("maxteamsize", 3), Rule("standard"), Rule("terastalclause"),
              Rule("sleepmovesclause"), Rule("accuracymovesclause"), Without("sleepclausemod")>>,
            {"kyuremblack", "kyuremwhite", "necrozmaduskmane", "moody"}, {}),
     gen9anythinggoes |-> Def(<<Rule("standardag")>>, {}, {})]

MCOffered ==
    <<"gen9nationaldex", "gen9nationaldexubers", "gen9nationaldexuu", "gen9nationaldexru",
      "gen9nationaldexmonotype", "gen9nationaldexlc", "gen9nationaldex1v1", "gen9nationaldexag",
      "gen9ou", "gen9ubers", "gen9uu", "gen9ru", "gen9nu", "gen9pu", "gen9zu", "gen9lc",
      "gen9monotype", "gen91v1", "gen9anythinggoes">>

Member(species, ability, item, moves, nickname) ==
    [species |-> species, ability |-> ability, item |-> item, moves |-> moves, nickname |-> nickname]

\* "custom" is a species Showdown does not know.
MCMembers ==
    {Member("gible", Nothing, Nothing, <<"doubleteam">>, Nothing),
     Member("gible", "sandveil", Nothing, <<>>, "Rattata"),
     Member("garchomp", "sandveil", Nothing, <<"fissure">>, Nothing),
     Member("kyuremwhite", Nothing, Nothing, <<>>, "ace"),
     Member("kyuremblack", Nothing, "berserkgene", <<>>, Nothing),
     Member("charizard", Nothing, "charizarditex", <<>>, "***"),
     Member("mandibuzz", Nothing, Nothing, <<"sandattack">>, "Ace"),
     Member("lucario", Nothing, "lucarionite", <<"blazingtorque">>, Nothing),
     Member("lucario", Nothing, "brightpowder", <<"yawn", "yawn">>, Nothing),
     Member("diglett", Nothing, Nothing, <<>>, "***"),
     Member("rattata", "moody", Nothing, <<"acupressure">>, "Rattata"),
     Member("necrozmaduskmane", Nothing, "ultranecroziumz", <<>>, Nothing),
     Member("starter", Nothing, Nothing, <<>>, Nothing),
     Member("mythical", Nothing, Nothing, <<>>, Nothing),
     Member("custom", Nothing, "gengarite", <<"hypnosis">>, "ace")}

=============================================================================
