--------------------------- MODULE MCPokemonTrading ---------------------------
(* PokemonTrading on a small instance.                                     *)
EXTENDS PokemonTrading, TLC

Symmetry == Permutations(Players) \cup Permutations(PokemonIds) \cup Permutations(TradeIds)

===============================================================================
