------------------------ MODULE MCPokemonTransactions ------------------------
(* PokemonTransactions on small instances.                                 *)
EXTENDS PokemonTransactions, TLC

CONSTANTS a, b, p1, p2, p3, t1, t2

In(o, box, team) == [owner |-> o, box |-> box, team |-> team]

(* Sound for the runs that start from NoTable and NoTrades and ask only     *)
(* about steps.                                                             *)
Symmetry == Permutations(Players) \cup Permutations(PokemonIds) \cup Permutations(TradeIds)

NoTable == {[p \in PokemonIds |-> NoRow]}
NoTrades == {[t \in TradeIds |-> NoTrade]}

(* Tables of two players: p1 with a and p2 with b, each in the PC or in the *)
(* team; p3 not there yet or in the PC of b.                               *)
Places(o) == {In(o, 1, 0), In(o, 0, 1)}
TwoPlayerTables ==
    {[p \in PokemonIds |-> IF p = p1 THEN x ELSE IF p = p2 THEN y ELSE z] :
        x \in Places(a), y \in Places(b), z \in {NoRow, In(b, 2, 0)}}

Pc3 == {[p \in PokemonIds |->
    IF p = p1 THEN In(a, 1, 0) ELSE IF p = p2 THEN In(b, 1, 0) ELSE In(b, 2, 0)]}

(* The proposal of p1 for p2, alone or with one of p1 for p3.               *)
Ask(t, i, r, x, y) == [u \in TradeIds |-> IF u = t THEN Deal(i, r, x, y, "PENDING") ELSE NoTrade]
OneTrade == {Ask(t1, a, b, p1, p2)}
TwoTrades == {[t \in TradeIds |->
    IF t = t1 THEN Deal(a, b, p1, p2, "PENDING") ELSE Deal(a, b, p1, p3, "PENDING")]}
===============================================================================
