------------------------------ MODULE Tournament ------------------------------
(***************************************************************************)
(* One tournament, from its creation to its erasure: TournamentService and *)
(* TournamentRunService, on the three tables of V18__tournaments.sql, with *)
(* the games of its matches in LiveBattleService (a lobby or a battle, see *)
(* LiveBattle), which end by calling the tournament back.                  *)
(*                                                                         *)
(* Each request is one transaction and one action; what overlapping        *)
(* requests can do is in the README.  Left out: names, dates (the window   *)
(* of the registration may be closed at any time: Register is then not     *)
(* taken), teams at check-in (a refused one is a CheckIn not taken),       *)
(* announcements and views other than the standings.                       *)
(***************************************************************************)
EXTENDS DoubleElimination, Swiss

CONSTANTS
    Players,
    Kinds,          \* subset of {"SWISS", "BRACKET"}
    BestOf,         \* subset of {1, 3, 5}
    Shuffles(_),    \* the orders Collections.shuffle may give a sequence
    MaxRounds,      \* bounds the rounds planned
    MaxDropped,     \* bounds the players dropped
    MaxGames        \* bounds the games open at once

ASSUME TournamentAssumption ==
    /\ Kinds \subseteq {"SWISS", "BRACKET"} /\ BestOf \subseteq {1, 3, 5}
    /\ IsFiniteSet(Players) /\ NOBODY \notin Players /\ null \notin Players /\ NOBODY # null
    /\ MaxRounds \in Nat /\ MaxDropped \in Nat /\ MaxGames \in Nat

\* A shuffle has the same players, each as often.
ASSUME ShufflesAssumption ==
    \A s \in UNION {[1..n -> Players] : n \in 0..Cardinality(Players)} : \A t \in Shuffles(s) :
        /\ t \in [DOMAIN s -> Players]
        /\ \A p \in Players : Cardinality({i \in DOMAIN t : t[i] = p}) = Cardinality({i \in DOMAIN s : s[i] = p})

VARIABLES
    tournament,     \* the row of tournaments: kind, bestOf, status, plannedRounds, currentRound
    entries,        \* tournament_players in the order of registration: player, checkedIn, dropped
    matches,        \* tournament_matches: node -> player1, player2, wins1, wins2, winner, status, wave
    games           \* the matches with a lobby or a battle open in LiveBattleService

vars == <<tournament, entries, matches, games>>

-----------------------------------------------------------------------------
(* Reading the tables *)

Over == tournament.status \in {"FINISHED", "CANCELLED", "ERASED"}
Bracket == tournament.kind = "BRACKET"
Entered == {entries[i].player : i \in DOMAIN entries}
PlayersOf(list) == [i \in DOMAIN list |-> list[i].player]

\* The members of the list at these positions, in their order.
Kept(list, positions) ==
    LET at(k) == CHOOSE i \in positions : Cardinality({j \in positions : j < i}) = k - 1
    IN  [k \in 1..Cardinality(positions) |-> list[at(k)]]

\* The players not dropped, and those of them in a list.
Active == {entries[i].player : i \in {i \in DOMAIN entries : ~ entries[i].dropped}}
Remaining(list) == Kept(list, {i \in DOMAIN list : list[i] \in Active})

Involves(m, p) == p \in {m.player1, m.player2}
Other(m, p) == IF p = m.player1 THEN m.player2 ELSE m.player1
Decided(n) == matches[n].status = "DONE"
Real(m) == {m.player1, m.player2} \cap {null, NOBODY} = {}

\* findOpenFor: the matches the player may play now.
OpenFor(p) ==
    {n \in DOMAIN matches :
        /\ tournament.status = "RUNNING" /\ ~ Decided(n)
        /\ Real(matches[n]) /\ Involves(matches[n], p)
        /\ IF Bracket THEN matches[n].wave <= tournament.currentRound ELSE n[2] = tournament.currentRound}

\* Mutant: a Swiss match of any round.
MatchesOfAnyRound(p) ==
    IF Bracket THEN OpenFor(p) ELSE {n \in DOMAIN matches : Involves(matches[n], p)}

\* currentMatch: in a Swiss round, decided or not.
CurrentMatches(p) ==
    IF Bracket THEN OpenFor(p)
    ELSE {n \in DOMAIN matches : n[2] = tournament.currentRound /\ Involves(matches[n], p)}

\* results: what the Swiss logic reads.
Results ==
    {[at |-> n, player1 |-> matches[n].player1, player2 |-> matches[n].player2, winner |-> matches[n].winner] :
        n \in {n \in DOMAIN matches : Decided(n)}}

\* isBusy, as far as games of this tournament go.
Busy(p) == \E n \in games : n \in DOMAIN matches /\ Involves(matches[n], p)

NewMatch(p1, p2, w) ==
    [player1 |-> p1, player2 |-> p2, wins1 |-> 0, wins2 |-> 0, winner |-> null, status |-> "PENDING", wave |-> w]

-----------------------------------------------------------------------------
(* The bracket: each operator maps the matches to the matches *)

\* A destination that does not exist is passed over.
place(ms, to, p) ==
    IF to.node \notin DOMAIN ms THEN ms
    ELSE IF to.slot = 0 THEN [ms EXCEPT ![to.node].player1 = p] ELSE [ms EXCEPT ![to.node].player2 = p]

\* Mutant: the reset final is played whoever won the grand final.
advanceAlwaysResets(ms, n, entrants) ==
    LET m == ms[n]
        up == winnerGoes(entrants, n)
        down == loserGoes(entrants, n)
        lifted == IF up = Out THEN ms ELSE place(ms, up, m.winner)
    IN  CASE n = Reset -> ms
          [] n = Final -> place(place(ms, [node |-> Reset, slot |-> 0], m.player1), [node |-> Reset, slot |-> 1], m.player2)
          [] OTHER -> IF down = Out THEN lifted ELSE place(lifted, down, Other(m, m.winner))

\* The winner and the loser of match n placed in their next matches; the grand final decides whether there is a reset.
advance(ms, n, entrants) ==
    LET m == ms[n]
        up == winnerGoes(entrants, n)
        down == loserGoes(entrants, n)
        lifted == IF up = Out THEN ms ELSE place(ms, up, m.winner)
        toReset(p) == IF m.winner = m.player1 THEN NOBODY ELSE p
    IN  CASE n = Reset -> ms
          [] n = Final -> place(place(ms, [node |-> Reset, slot |-> 0], toReset(m.player1)),
                                [node |-> Reset, slot |-> 1], toReset(m.player2))
          [] OTHER -> IF down = Out THEN lifted ELSE place(lifted, down, Other(m, m.winner))

Walkovers(ms) ==
    {n \in DOMAIN ms : /\ ms[n].status # "DONE" /\ null \notin {ms[n].player1, ms[n].player2}
                       /\ NOBODY \in {ms[n].player1, ms[n].player2}}

\* One match against nobody decided, if there is one.  Which one goes first makes no difference.  Alone, it would leave the
\* walkovers it leads to: a mutant.
settleOnce(ms, entrants) ==
    LET n == CHOOSE n \in Walkovers(ms) : TRUE
    IN  IF Walkovers(ms) = {} THEN ms
        ELSE advance([ms EXCEPT ![n].winner = Other(ms[n], NOBODY), ![n].status = "DONE"], n, entrants)

\* Until none is left: each turn decides a match.
settleWalkovers(ms, entrants) ==
    LET settle[step \in Nat] == IF step = 0 THEN ms ELSE settleOnce(settle[step - 1], entrants)
    IN  settle[Cardinality(DOMAIN ms)]

buildBracket(seeded) ==
    LET n == Len(seeded)
        first == seed(seeded)
        opening(node) == node[1] = "WINNERS" /\ node[2] = 1
        slot(node, s) == IF opening(node) THEN first[node[3]][s] ELSE null
    IN  settleWalkovers([node \in shape(n) |-> NewMatch(slot(node, 1), slot(node, 2), wave(n, node))], n)

\* Match n decided: in a bracket the players go on.
DecidedAt(ms, n) ==
    IF Bracket THEN settleWalkovers(advance(ms, n, Len(entries)), Len(entries)) ELSE ms

-----------------------------------------------------------------------------
(* TournamentService *)

Init ==
    /\ tournament \in [kind : Kinds, bestOf : BestOf, status : {"REGISTRATION"}, plannedRounds : {0}, currentRound : {0}]
    /\ entries = <<>>
    /\ matches = <<>>
    /\ games = {}

\* Who enters during the check-in, or is added later, is there.
Add(p) ==
    /\ p \notin Entered
    /\ entries' = Append(entries, [player |-> p, checkedIn |-> tournament.status # "REGISTRATION", dropped |-> FALSE])
    /\ UNCHANGED <<tournament, matches, games>>

Register(p) == tournament.status \in {"REGISTRATION", "CHECK_IN"} /\ Add(p)

AdminAdd(p) == ~ Over /\ Add(p)

Delete(p) ==
    /\ p \in Entered
    /\ entries' = Kept(entries, {i \in DOMAIN entries : entries[i].player # p})
    /\ UNCHANGED <<tournament, matches, games>>

Unregister(p) == tournament.status \in {"REGISTRATION", "CHECK_IN"} /\ Delete(p)

AdminRemove(p) ==
    /\ ~ Over
    /\ IF tournament.status # "RUNNING" THEN Delete(p)
       ELSE \E i \in DOMAIN entries :
                /\ entries[i].player = p
                /\ Cardinality({j \in DOMAIN entries : entries[j].dropped}) < MaxDropped
                /\ entries' = [entries EXCEPT ![i].dropped = TRUE]
                /\ UNCHANGED <<tournament, matches, games>>

CheckIn(p) ==
    /\ tournament.status = "CHECK_IN"
    /\ \E i \in DOMAIN entries : entries[i].player = p /\ entries' = [entries EXCEPT ![i].checkedIn = TRUE]
    /\ UNCHANGED <<tournament, matches, games>>

OpenCheckIn ==
    /\ tournament.status = "REGISTRATION"
    /\ tournament' = [tournament EXCEPT !.status = "CHECK_IN"]
    /\ UNCHANGED <<entries, matches, games>>

Cancel ==
    /\ ~ Over
    /\ tournament' = [tournament EXCEPT !.status = "CANCELLED"]
    /\ UNCHANGED <<entries, matches, games>>

\* Erased with its players and matches; its games go on.
Purge ==
    /\ tournament.status \in {"CANCELLED", "FINISHED"}
    /\ tournament' = [tournament EXCEPT !.status = "ERASED"]
    /\ entries' = <<>>
    /\ matches' = <<>>
    /\ UNCHANGED games

-----------------------------------------------------------------------------
(* TournamentRunService: requests of an admin *)

Start ==
    /\ tournament.status \in {"REGISTRATION", "CHECK_IN"}
    /\ LET present == IF tournament.status = "REGISTRATION" THEN entries
                      ELSE Kept(entries, {i \in DOMAIN entries : entries[i].checkedIn})
           started == [tournament EXCEPT !.status = "RUNNING"]
       IN  /\ Len(present) >= 2
           /\ entries' = present
           /\ IF Bracket
              THEN /\ \E seeded \in Shuffles(PlayersOf(present)) : matches' = buildBracket(seeded)
                   /\ tournament' = [started EXCEPT !.plannedRounds = waves(Len(present))]
              ELSE /\ UNCHANGED matches
                   /\ tournament' = [started EXCEPT !.plannedRounds = SwissPlannedRounds(Len(present))]
    /\ UNCHANGED games

\* The matches of a round: the pairs, then the bye, already won.
SwissRound(round, pairing) ==
    LET count == Len(pairing.pairs)
        paired == [n \in {<<"SWISS", round, i - 1>> : i \in 1..count} |->
                      NewMatch(pairing.pairs[n[3] + 1][1], pairing.pairs[n[3] + 1][2], 0)]
        byes == {n \in {<<"SWISS", round, count>>} : pairing.bye # null}
    IN  [n \in DOMAIN paired \cup byes |->
            IF n \in byes
            THEN [NewMatch(pairing.bye, null, 0) EXCEPT !.winner = pairing.bye, !.status = "DONE"]
            ELSE paired[n]]

NextRound ==
    /\ tournament.status = "RUNNING" /\ ~ Bracket
    /\ \A n \in DOMAIN matches : Decided(n)
    /\ tournament.currentRound < tournament.plannedRounds
    /\ Cardinality(Active) >= 2
    /\ LET round == tournament.currentRound + 1
       IN  /\ \E ranked \in IF round = 1 THEN Shuffles(Remaining(PlayersOf(entries)))
                            ELSE {Remaining(standings(PlayersOf(entries), Results))} :
                  LET created == SwissRound(round, pair(ranked, Results))
                  IN  matches' = [n \in DOMAIN matches \cup DOMAIN created |->
                                     IF n \in DOMAIN created THEN created[n] ELSE matches[n]]
           /\ tournament' = [tournament EXCEPT !.currentRound = round]
    /\ UNCHANGED <<entries, games>>

\* Waves with nothing left to play are skipped.  A match whose players are not both known makes the request fail (its
\* announcement has no opponent to name).
NextWave ==
    /\ tournament.status = "RUNNING" /\ Bracket
    /\ \A n \in DOMAIN matches : matches[n].wave <= tournament.currentRound => Decided(n)
    /\ ~ \A n \in DOMAIN matches : Decided(n)
    /\ LET last == Max({waves(Len(entries)), tournament.currentRound + 1})
           opened(w) == {n \in DOMAIN matches : matches[n].wave = w /\ ~ Decided(n)}
           next == Min({w \in (tournament.currentRound + 1)..last : opened(w) # {} \/ w = last})
       IN  /\ \A n \in opened(next) : null \notin {matches[n].player1, matches[n].player2}
           /\ tournament' = [tournament EXCEPT !.currentRound = next]
    /\ UNCHANGED <<entries, matches, games>>

ChangeRounds(delta) ==
    /\ tournament.status = "RUNNING"
    /\ LET planned == Max({1, tournament.currentRound, tournament.plannedRounds + delta})
       IN  planned <= MaxRounds /\ tournament' = [tournament EXCEPT !.plannedRounds = planned]
    /\ UNCHANGED <<entries, matches, games>>

\* The player wins its match, or loses it by forfeit; in a Swiss round this also corrects a decided match.
SetResult(p, forfeit) ==
    /\ tournament.status = "RUNNING" /\ p \in Entered
    /\ \E n \in CurrentMatches(p) :
          LET m == matches[n]
          IN  /\ m.player2 # null
              /\ ~ (Bracket /\ Decided(n))
              /\ matches' = DecidedAt([matches EXCEPT ![n].winner = IF forfeit THEN Other(m, p) ELSE p,
                                                      ![n].status = "DONE"], n)
    /\ UNCHANGED <<tournament, entries, games>>

\* The lobby opens if both players are connected and free; else the match waits.
Reinvite(p, opened) ==
    /\ tournament.status = "RUNNING" /\ p \in Entered
    /\ \E n \in CurrentMatches(p) :
          LET m == matches[n]
          IN  /\ ~ Decided(n) /\ m.player2 # null
              /\ opened => ~ Busy(m.player1) /\ ~ Busy(m.player2) /\ Cardinality(games) < MaxGames
              /\ games' = IF opened THEN games \cup {n} ELSE games
              /\ matches' = [matches EXCEPT ![n].status = IF opened THEN "PLAYING" ELSE "PENDING"]
    /\ UNCHANGED <<tournament, entries>>

Finish ==
    /\ tournament.status = "RUNNING"
    /\ tournament' = [tournament EXCEPT !.status = "FINISHED"]
    /\ UNCHANGED <<entries, matches, games>>

-----------------------------------------------------------------------------
(* TournamentRunService: the calls of LiveBattleService *)

\* Two paired players who are free opened a lobby.
BindLobby(p, q) ==
    /\ ~ Busy(p) /\ ~ Busy(q) /\ Cardinality(games) < MaxGames
    /\ \E n \in OpenFor(p) :
          /\ Involves(matches[n], q) /\ p # q
          /\ matches' = [matches EXCEPT ![n].status = "PLAYING"]
          /\ games' = games \cup {n}
    /\ UNCHANGED <<tournament, entries>>

\* A game won counts; the series won decides the match, whatever the tournament became meanwhile.
GameWon(n, p) ==
    /\ n \in games /\ games' = games \ {n}
    /\ n \in DOMAIN matches => Involves(matches[n], p)
    /\ IF n \notin DOMAIN matches \/ Decided(n) THEN UNCHANGED matches
       ELSE LET m == matches[n]
                scored == IF p = m.player1 THEN [m EXCEPT !.wins1 = @ + 1] ELSE [m EXCEPT !.wins2 = @ + 1]
                won == Max({scored.wins1, scored.wins2}) >= tournament.bestOf \div 2 + 1
            IN  matches' = IF won
                           THEN DecidedAt([matches EXCEPT ![n] = [scored EXCEPT !.winner = p, !.status = "DONE"]], n)
                           ELSE [matches EXCEPT ![n] = [scored EXCEPT !.status = "PENDING"]]
    /\ UNCHANGED <<tournament, entries>>

\* A draw, or the lobby closed before the battle: not counted.
NotPlayed(n) ==
    /\ n \in games /\ games' = games \ {n}
    /\ matches' = IF n \notin DOMAIN matches \/ Decided(n) THEN matches
                  ELSE [matches EXCEPT ![n].status = "PENDING"]
    /\ UNCHANGED <<tournament, entries>>

\* The process dies: lobbies and battles are gone and nobody is called.
Crash ==
    /\ games # {}
    /\ games' = {}
    /\ UNCHANGED <<tournament, entries, matches>>

Next ==
    \/ \E p \in Players : Register(p) \/ AdminAdd(p) \/ Unregister(p) \/ AdminRemove(p) \/ CheckIn(p)
    \/ OpenCheckIn \/ Cancel \/ Purge \/ Start \/ NextRound \/ NextWave \/ Finish \/ Crash
    \/ \E delta \in {-1, 1} : ChangeRounds(delta)
    \/ \E p \in Players, b \in BOOLEAN : SetResult(p, b) \/ Reinvite(p, b)
    \/ \E p, q \in Players : BindLobby(p, q)
    \/ \E n \in games : NotPlayed(n) \/ \E p \in Players : GameWon(n, p)

Spec == Init /\ [][Next]_vars

-----------------------------------------------------------------------------
(* Properties *)

Slot == Players \cup {null, NOBODY}

\* The rows are what the schema allows, and each game open is that of two players who are in no other.
TournamentTypeOK ==
    /\ tournament \in [kind : Kinds, bestOf : BestOf, plannedRounds : Nat, currentRound : Nat,
                       status : {"REGISTRATION", "CHECK_IN", "RUNNING", "FINISHED", "CANCELLED", "ERASED"}]
    /\ \A i \in DOMAIN entries : entries[i] \in [player : Players, checkedIn : BOOLEAN, dropped : BOOLEAN]
    /\ \A i, j \in DOMAIN entries : entries[i].player = entries[j].player => i = j
    /\ \A n \in DOMAIN matches :
          matches[n] \in [player1 : Slot, player2 : Slot, wins1 : 0..3, wins2 : 0..3, winner : Slot,
                          status : {"PENDING", "PLAYING", "DONE"}, wave : Nat]
    /\ \A m, n \in games \cap DOMAIN matches :
          m # n => {matches[m].player1, matches[m].player2} \cap {matches[n].player1, matches[n].player2} = {}

Losses(p) ==
    Cardinality({n \in DOMAIN matches : Decided(n) /\ Involves(matches[n], p) /\ matches[n].winner # p})
Seats(p) == {n \in DOMAIN matches : ~ Decided(n) /\ Involves(matches[n], p)}
Played == {n \in DOMAIN matches : Decided(n) /\ Real(matches[n])}

\* bracketStandings: the champion is the winner of the reset final, else of the grand final if it came from the winners
\* bracket.
Champions ==
    {matches[n].winner : n \in {n \in Played \cap {Final, Reset} : n = Reset \/ matches[n].winner = matches[n].player1}}

Seeded == {p \in Players : \E n \in DOMAIN matches : Involves(matches[n], p)}

\* A bracket has the size it was built for: no entry added late asks for a larger one.  AdminAdd does not see to it.
BuiltForItsEntries == Bracket /\ matches # <<>> => DOMAIN matches = shape(Len(entries))

BracketRuns == Bracket /\ matches # <<>> /\ tournament.status \in {"RUNNING", "FINISHED"}

\* Byes, walkovers, two brackets and the reset final lose nobody and seat nobody twice: as long as a bracket has matches
\* to decide, each player with fewer than two defeats waits in exactly one of them and the others in none; when
\* everything is decided, the one player with fewer than two defeats is the champion of the standings.
SurvivorsSeated ==
    BracketRuns =>
        IF \A n \in DOMAIN matches : Decided(n)
        THEN Champions = {p \in Seeded : Losses(p) < 2} /\ Cardinality(Champions) = 1
        ELSE \A p \in Seeded : Cardinality(Seats(p)) = IF Losses(p) < 2 THEN 1 ELSE 0

\* A running bracket never comes to a halt: a match of the waves opened can be played, or they are over and the next wave
\* opens some, between players who are all known.
BracketGoesOn ==
    BracketRuns /\ tournament.status = "RUNNING" /\ (\E n \in DOMAIN matches : ~ Decided(n)) =>
        LET ahead == {n \in DOMAIN matches : ~ Decided(n)}
            first == Min({matches[n].wave : n \in ahead})
        IN  /\ first <= waves(Len(entries))
            /\ \A n \in ahead : matches[n].wave = first \/ matches[n].wave <= tournament.currentRound => Real(matches[n])

\* The sets of pairs that pair everyone once.
Pairings(S) ==
    {P \in SUBSET {{p, q} : p, q \in S} : /\ \A e \in P : Cardinality(e) = 2
                                          /\ \A p \in S : Cardinality({e \in P : p \in e}) = 1}

PairsOf(ms, nodes) == {{ms[n].player1, ms[n].player2} : n \in {n \in nodes : ms[n].player2 # null}}

\* What SwissRoundsAreFair says of a step.
FairRound ==
    ~ Bracket /\ tournament'.currentRound # tournament.currentRound =>
        LET new == DOMAIN matches' \ DOMAIN matches
            byes == {matches'[n].player1 : n \in {n \in new : matches'[n].player2 = null}}
            hadBye == {matches[n].player1 : n \in {n \in DOMAIN matches : matches[n].player2 = null}}
            before == PairsOf(matches, DOMAIN matches)
            ranked == Remaining(standings(PlayersOf(entries), Results))
            left == {i \in DOMAIN ranked : ranked[i] \notin byes}
        IN  /\ \A p \in Players : Cardinality({n \in new : Involves(matches'[n], p)}) = IF p \in Active THEN 1 ELSE 0
            /\ Cardinality(byes) <= 1
            /\ byes \cap hadBye # {} => Active \subseteq hadBye
            /\ PairsOf(matches', new) \cap before # {} =>
                  givesUp(ranked, left, before) \/ \A P \in Pairings(Active \ byes) : P \cap before # {}

\* A new Swiss round gives each player not dropped one match and nobody else any; at most one bye, to a player who had
\* none if there is one; and it repeats no pair unless any pairing of those who play would, or the search gives up.
SwissRoundsAreFair == [][FairRound]_vars

\* What later rounds were built on stays: a decided match is never opened again and keeps its winner (an admin may correct
\* a Swiss match as long as its round is the current one), whatever games end late.
DecidedStays ==
    [][\A n \in DOMAIN matches \cap DOMAIN matches' :
          Decided(n) => /\ matches'[n].status = "DONE"
                        /\ \/ matches'[n].winner = matches[n].winner
                           \/ ~ Bracket /\ tournament.status = "RUNNING" /\ n[2] = tournament.currentRound]_vars
=============================================================================
