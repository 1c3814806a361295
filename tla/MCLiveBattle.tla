----------------------------- MODULE MCLiveBattle -----------------------------
(* LiveBattle on small instances.                                          *)
EXTENDS LiveBattle, TLC

CONSTANTS free, ruled

AnyTeam == {{free}, {free, ruled}}
PairedAll == [m \in Matches |-> Players]
Ruled == [m \in Matches |-> ruled]
NpcsRuled == [m \in Npcs |-> ruled]
NpcsAllowed == [m \in Npcs |-> {free, ruled}]
Symmetry == Permutations(Players) \cup Permutations(LobbyIds) \cup Permutations(BattleIds)

===============================================================================
