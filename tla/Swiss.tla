-------------------------------- MODULE Swiss --------------------------------
(***************************************************************************)
(* Swiss rounds (events/tournament/Swiss): standings and pairings.  A      *)
(* result is [at, player1, player2, winner], at being the match it comes   *)
(* from; player2 is null for a bye.                                        *)
(***************************************************************************)
EXTENDS Integers, Sequences, FiniteSets, FiniteSetsExt

CONSTANT null

SwissPlannedRounds(players) ==
    CHOOSE rounds \in 1..(players + 1) :
        /\ 2^rounds >= players
        /\ \A r \in 1..(rounds - 1) : 2^r < players

Bye(result) == result.player2 = null
Between(result, a, b) == ~ Bye(result) /\ {result.player1, result.player2} = {a, b}

points(results, p) == Cardinality({r \in results : r.winner = p})
wins(results, p)   == Cardinality({r \in results : ~ Bye(r) /\ r.winner = p})
met(results, p)    == {r \in results : ~ Bye(r) /\ p \in {r.player1, r.player2}}
Opponent(r, p)     == IF r.player1 = p THEN r.player2 ELSE r.player1

buchholz(results, p) == MapThenSumSet(LAMBDA r : points(results, Opponent(r, p)), met(results, p))

\* The average of the opponents' win rates, in units of 1 / Unit^2: exact up to 6 matches each.
Unit == 60
opponentsWinRate(results, p) ==
    LET rate(q) == (Unit * wins(results, q)) \div Cardinality(met(results, q))
        played == met(results, p)
    IN  IF played = {} THEN 0
        ELSE (Unit * MapThenSumSet(LAMBDA r : rate(Opponent(r, p)), played)) \div Cardinality(played)

Row(results, p) == <<points(results, p), buchholz(results, p), opponentsWinRate(results, p)>>

Above(a, b) == \E i \in 1..3 : a[i] > b[i] /\ \A j \in 1..(i - 1) : a[j] = b[j]

\* a won more of the matches between them than b did.
beat(results, a, b) ==
    LET between == {r \in results : Between(r, a, b)}
    IN  Cardinality({r \in between : r.winner = a}) > Cardinality({r \in between : r.winner = b})

\* The players by rank: equal rows keep their order, except two players tied with nobody else, of whom the one who beat the
\* other comes first.
standings(players, results) ==
    LET n == Len(players)
        row == [i \in 1..n |-> Row(results, players[i])]
        rank(i) == 1 + Cardinality({j \in 1..n : Above(row[j], row[i]) \/ (row[j] = row[i] /\ j < i)})
        sorted == [k \in 1..n |-> CHOOSE i \in 1..n : rank(i) = k]
        tie(k) == k \in 1..(n - 1) /\ row[sorted[k]] = row[sorted[k + 1]]
        swapped(k) == /\ tie(k) /\ ~ tie(k - 1) /\ ~ tie(k + 1)
                      /\ beat(results, players[sorted[k + 1]], players[sorted[k]])
    IN  [k \in 1..n |-> players[sorted[IF swapped(k) THEN k + 1 ELSE IF swapped(k - 1) THEN k - 1 ELSE k]]]

\* The first pairing of the players at the positions left, each in turn taking the best-ranked one left, that avoids the
\* pairs of avoided; <<FALSE, _>> when there is none.
search(ranked, left, avoided) ==
    LET found[rest \in SUBSET left] ==
            LET first == Min(rest)
                others(i) == found[rest \ {first, i}]
                possible == {i \in rest \ {first} : {ranked[first], ranked[i]} \notin avoided /\ others(i)[1]}
                other == Min(possible)
            IN  IF rest = {} THEN <<TRUE, <<>>>>
                ELSE IF possible = {} THEN <<FALSE, <<>>>>
                ELSE <<TRUE, <<<<ranked[first], ranked[other]>>>> \o others(other)[2]>>
    IN  found[left]

SEARCH_LIMIT == 200000

\* The steps search takes: one for each time it looks for a partner of the first player left, in vain or not.
searchSteps(ranked, left, avoided) ==
    LET steps[rest \in SUBSET left] ==
            LET first == Min(rest)
                allowed == {i \in rest \ {first} : {ranked[first], ranked[i]} \notin avoided}
                succeeds(i) == search(ranked, rest \ {first, i}, avoided)[1]
                tried == {i \in allowed : \A j \in allowed : j < i => ~ succeeds(j)}
            IN  IF rest = {} THEN 0 ELSE 1 + MapThenSumSet(LAMBDA i : steps[rest \ {first, i}], tried)
    IN  steps[left]

givesUp(ranked, left, avoided) == searchSteps(ranked, left, avoided) > SEARCH_LIMIT

\* Mutant: pairs neighbours whoever they met.
pairAnyone(ranked, results) ==
    LET bye == IF Len(ranked) % 2 = 1 THEN ranked[Len(ranked)] ELSE null
    IN  [pairs |-> search(ranked, {i \in DOMAIN ranked : ranked[i] # bye}, {})[2], bye |-> bye]

\* The next round of the ranked players: who sits out, and the pairs; as if nobody had met when the search finds none or
\* takes too long.
pair(ranked, results) ==
    LET hadBye == {r.player1 : r \in {r \in results : Bye(r)}}
        neverHad == {i \in DOMAIN ranked : ranked[i] \notin hadBye}
        bye == IF Len(ranked) % 2 = 0 THEN null
               ELSE ranked[IF neverHad = {} THEN Len(ranked) ELSE Max(neverHad)]
        left == {i \in DOMAIN ranked : ranked[i] # bye}
        avoided == {{r.player1, r.player2} : r \in {r \in results : ~ Bye(r)}}
        found == search(ranked, left, avoided)
    IN  [pairs |-> IF found[1] /\ ~ givesUp(ranked, left, avoided) THEN found[2]
                   ELSE search(ranked, left, {})[2],
         bye |-> bye]
=============================================================================
