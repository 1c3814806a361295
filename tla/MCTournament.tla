----------------------------- MODULE MCTournament -----------------------------
EXTENDS Tournament, TLC

CONSTANTS a, b, c, d, e

\* Players are alike: those who start are taken to be the first ones, in the order of their registration, and that order to
\* be the draw of the first round.
MCShuffles(s) == {s}
Number(p) == CASE p = a -> 1 [] p = b -> 2 [] p = c -> 3 [] p = d -> 4 [] p = e -> 5
InOrder ==
    \A i \in DOMAIN entries :
        IF tournament.status \in {"REGISTRATION", "CHECK_IN"}
        THEN \A j \in 1..(i - 1) : Number(entries[j].player) < Number(entries[i].player)
        ELSE Number(entries[i].player) = i

\* The part of the states explored: series of three games by two players, in the first round; Swiss rounds of up to four
\* players, the results of those without one who dropped being an admin's; brackets of up to four, the four playing one
\* game at a time until the tournament is over, without the drops and the changes of planned rounds, which a bracket does
\* not read; brackets of five decided by an admin.  Players added to a running bracket leave its size as it is.
Dropped == {i \in DOMAIN entries : entries[i].dropped}

Explored ==
    /\ InOrder
    /\ BuiltForItsEntries
    /\ tournament.bestOf # 1 => Len(entries) <= 2 /\ tournament.currentRound <= 1
    /\ IF Bracket
       THEN /\ Dropped = {}
            /\ tournament.plannedRounds \in {0, waves(Len(entries))}
            /\ Len(entries) >= 4 => Cardinality(games) <= 1 /\ tournament.status \notin {"FINISHED", "CANCELLED"}
            /\ Len(entries) > 4 => games = {}
       ELSE /\ Len(entries) <= 4
            /\ Len(entries) = 4 /\ Dropped # {} => games = {}

\* To the games still open, a tournament cancelled while it runs is one that finished.
CancelledBeforeTheStart ==
    tournament.status = "RUNNING" => tournament'.status # "CANCELLED"
=============================================================================
