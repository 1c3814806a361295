-------------------------- MODULE DoubleElimination --------------------------
(***************************************************************************)
(* The double elimination bracket (events/tournament/DoubleElimination):   *)
(* its shape, its seeding and where winners and losers go.  A match's      *)
(* place is its node <<bracket, round, position>>; a destination is a node *)
(* and one of its two slots.                                               *)
(***************************************************************************)
EXTENDS Naturals, Sequences

CONSTANT NOBODY \* a slot that stays empty: a bye, or the loser of a walkover

Out == <<>>     \* the destination of who goes nowhere

\* log2 of the size of the bracket, at least 1.
levels(players) ==
    CHOOSE k \in 1..(players + 1) :
        /\ 2^k >= players
        /\ \A j \in 1..(k - 1) : 2^j < players

losersMatches(n, round) == n \div 2^((round + 1) \div 2 + 1)

finalWave(k) == IF k = 1 THEN 2 ELSE 2 * k

\* The last wave, that of the reset final.
waves(players) == finalWave(levels(players)) + 1

Final == <<"FINAL", 1, 0>>
Reset == <<"RESET", 1, 0>>

\* Every match of the bracket, the reset final included.
shape(players) ==
    LET k == levels(players)
        n == 2^k
        winners == UNION {{<<"WINNERS", r, p>> : p \in 0..(n \div 2^r - 1)} : r \in 1..k}
        losers == UNION {{<<"LOSERS", l, p>> : p \in 0..(losersMatches(n, l) - 1)} : l \in 1..(2 * (k - 1))}
    IN  winners \cup losers \cup {Final, Reset}

\* The wave in which an admin opens the match.
wave(players, node) ==
    LET round == node[2]
    IN  CASE node[1] = "WINNERS" -> IF round = 1 THEN 1 ELSE 2 * round - 2
          [] node[1] = "LOSERS"  -> round + 1
          [] node = Final        -> finalWave(levels(players))
          [] OTHER               -> waves(players)

\* The two slots of round 1's matches: slot 0 of every match is filled first.
seed(players) ==
    LET half == 2^levels(Len(players)) \div 2
        at(i) == IF i < Len(players) THEN players[i + 1] ELSE NOBODY
    IN  [p \in 0..(half - 1) |-> <<at(p), at(half + p)>>]

To(bracket, round, position, slot) == [node |-> <<bracket, round, position>>, slot |-> slot]

winnerGoes(players, node) ==
    LET k == levels(players)
        round == node[2]
        position == node[3]
    IN  CASE node[1] = "WINNERS" /\ round < k -> To("WINNERS", round + 1, position \div 2, position % 2)
          [] node[1] = "WINNERS" /\ round >= k -> To("FINAL", 1, 0, 0)
          [] node[1] = "LOSERS" /\ round = 2 * (k - 1) -> To("FINAL", 1, 0, 1)
          [] node[1] = "LOSERS" /\ round # 2 * (k - 1) /\ round % 2 = 1 -> To("LOSERS", round + 1, position, 0)
          [] node[1] = "LOSERS" /\ round # 2 * (k - 1) /\ round % 2 = 0 ->
                 To("LOSERS", round + 1, position \div 2, position % 2)
          [] OTHER -> Out

\* The losers of the later rounds go down in reverse order.
loserGoes(players, node) ==
    LET k == levels(players)
        round == node[2]
        position == node[3]
    IN  CASE node[1] # "WINNERS" -> Out
          [] node[1] = "WINNERS" /\ k = 1 -> To("FINAL", 1, 0, 1)
          [] node[1] = "WINNERS" /\ k > 1 /\ round = 1 -> To("LOSERS", 1, position \div 2, position % 2)
          [] OTHER -> To("LOSERS", 2 * (round - 1), 2^k \div 2^round - 1 - position, 1)
=============================================================================
