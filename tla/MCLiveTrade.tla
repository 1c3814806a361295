------------------------------ MODULE MCLiveTrade ------------------------------
(* LiveTrade on small sets of players, Pokemon and connections.             *)
EXTENDS LiveTrade, TLC

TradeSymmetry == Permutations(Players) \cup Permutations(PokemonIds) \cup Permutations(SessionIds)
                    \cup Permutations(Connections)

===============================================================================
