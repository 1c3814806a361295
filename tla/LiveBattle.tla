------------------------------ MODULE LiveBattle ------------------------------
(***************************************************************************)
(* LiveBattleService: invitations, lobbies, battles and spectators, in     *)
(* memory, the battle rows that outlive a crash, and what the tournament   *)
(* of a match is told (TournamentHook).  Every method holds the service's  *)
(* one lock, so it is one action.                                          *)
(*                                                                         *)
(* A team is the set of formats whose rules it respects; the empty team    *)
(* respects none.  Left out, because nothing here depends on it: leads,    *)
(* ambiance, the turn timer, field viewers, and which of the two players   *)
(* hosts (nextHost alternates).                                            *)
(*                                                                         *)
(* A message read before its connection closes may be handled at any later *)
(* time (see Connections), so messages ask for no connection here.         *)
(***************************************************************************)
EXTENDS Integers, FiniteSets

CONSTANTS
    Players,
    Admins,         \* the players who may start a solo battle
    Npcs,
    NpcTeam,        \* the team and the format an admin gave each NPC
    NpcFormat,
    NoAi,           \* the other side of a battle between two players
    Mirror,         \* the other side of a solo battle
    Formats,
    Free,           \* the format without rules
    Teams,
    Matches,        \* tournament matches being played
    NoMatch,
    Paired,         \* the two players of each match
    MatchFormat,
    LobbyIds,
    NoLobby,
    BattleIds,
    NoBattle

ASSUME LiveBattleAssumption ==
    /\ Admins \subseteq Players
    /\ Players \cap (Npcs \cup {Mirror, NoAi}) = {}
    /\ Mirror # NoAi /\ {Mirror, NoAi} \cap Npcs = {}
    /\ Free \in Formats
    /\ Teams \subseteq {T \in SUBSET Formats : T # {} => Free \in T}
    /\ NpcTeam \in [Npcs -> Teams \ {{}}]
    /\ NpcFormat \in [Npcs -> Formats]
    /\ NoMatch \notin Matches
    /\ Paired \in [Matches -> {P \in SUBSET Players : Cardinality(P) = 2}]
    /\ \A m, n \in Matches : m # n => Paired[m] \cap Paired[n] = {}
    /\ MatchFormat \in [Matches -> Formats]
    /\ NoLobby \notin LobbyIds
    /\ NoBattle \notin BattleIds

VARIABLES
    phase,              \* of the server's process
    connected,          \* the players SessionRegistry can reach
    leaving,            \* those whose closed connection has still to be cleaned up
    invites,            \* <<inviter, invitee>>, the invitations not yet expired
    lobbiesByPlayer,
    lobbies,            \* the Lobby objects
    battlesByPlayer,
    battlesBySpectator,
    battles,            \* the LiveBattle objects
    active,             \* the rows of battle_sessions that are ACTIVE
    match,              \* the status of each tournament match
    team,               \* each player's active Ghost team
    ghostOut            \* the players who have a Ghost out

places == <<lobbiesByPlayer, lobbies, battlesByPlayer, battlesBySpectator, battles, active, match>>
serviceVars == <<invites, places, ghostOut>>
vars == <<phase, connected, leaving, serviceVars, team>>

Seats == {"inviter", "invitee"}
LobbySide == [ghost : BOOLEAN, team : Teams, ready : BOOLEAN]

Lobby ==
    [inviter : Players, invitee : Players \cup Npcs, format : Formats,
     match : Matches \cup {NoMatch}, timer : BOOLEAN, side : [Seats -> LobbySide]]

(* Its teams are those the human players brought.                           *)
Battle ==
    [host : Players, guest : Players, ai : Npcs \cup {Mirror, NoAi}, format : Formats,
     match : Matches \cup {NoMatch}, teams : SUBSET Teams, spectators : SUBSET Players]

ASSUME NoObjects == NoLobby \notin Lobby /\ NoBattle \notin Battle

TypeOK ==
    /\ phase \in {"down", "starting", "ready"}
    /\ connected \subseteq Players
    /\ leaving \subseteq Players
    /\ invites \subseteq Players \X Players
    /\ lobbiesByPlayer \in [Players -> LobbyIds \cup {NoLobby}]
    /\ lobbies \in [LobbyIds -> Lobby \cup {NoLobby}]
    /\ battlesByPlayer \in [Players -> BattleIds \cup {NoBattle}]
    /\ battlesBySpectator \in [Players -> BattleIds \cup {NoBattle}]
    /\ battles \in [BattleIds -> Battle \cup {NoBattle}]
    /\ active \subseteq BattleIds
    /\ match \in [Matches -> {"PENDING", "PLAYING", "DONE"}]
    /\ team \in [Players -> Teams]
    /\ ghostOut \subseteq Players

Init ==
    /\ phase = "starting"
    /\ connected = {}
    /\ leaving = {}
    /\ invites = {}
    /\ lobbiesByPlayer = [p \in Players |-> NoLobby]
    /\ lobbies = [l \in LobbyIds |-> NoLobby]
    /\ battlesByPlayer = [p \in Players |-> NoBattle]
    /\ battlesBySpectator = [p \in Players |-> NoBattle]
    /\ battles = [b \in BattleIds |-> NoBattle]
    /\ active = {}
    /\ match = [m \in Matches |-> "PENDING"]
    /\ team \in [Players -> Teams]
    /\ ghostOut = {}

-------------------------------------------------------------------------------
InLobby(p) == lobbiesByPlayer[p] # NoLobby
InBattle(p) == battlesByPlayer[p] # NoBattle
Watches(p) == battlesBySpectator[p] # NoBattle

(* isBusy *)
Busy(p) == InBattle(p) \/ InLobby(p) \/ Watches(p)

LobbyOf(p) == lobbies[lobbiesByPlayer[p]]
BattleOf(p) == battles[battlesByPlayer[p]]
Seat(lobby, p) == IF lobby.inviter = p THEN "inviter" ELSE "invitee"
Other(seat) == IF seat = "inviter" THEN "invitee" ELSE "inviter"

(* The battles running here.                                                *)
Running == {battlesByPlayer[p] : p \in Players} \ {NoBattle}

(* The sides p may bring: its Ghosts as they are now, or a copy of its      *)
(* Cobblemon party, which is not empty.                                     *)
Choices(p) ==
    {[ghost |-> TRUE, team |-> team[p], ready |-> FALSE]}
    \cup {[ghost |-> FALSE, team |-> T, ready |-> FALSE] : T \in Teams \ {{}}}

(* battleTeam: Ghosts are read again, a party is the copy.                  *)
BattleTeam(p, side) == IF side.ghost THEN team[p] ELSE side.team

(* findOpenFor: the undecided match of p.                                   *)
OpenMatches(p) == {m \in Matches : p \in Paired[m] /\ match[m] # "DONE"}

(* tournamentRefusal *)
MayBattle(p, q) == \A m \in OpenMatches(p) \cup OpenMatches(q) : Paired[m] = {p, q}

(* bindLobby *)
MatchOf(p, q) ==
    IF \E m \in OpenMatches(p) : Paired[m] = {p, q}
    THEN CHOOSE m \in OpenMatches(p) : Paired[m] = {p, q}
    ELSE NoMatch

(* Mutant: the tournament is not told of a cancelled lobby. *)
OnLobbyCancelledIgnored(status) == status

(* Mutant: whatever became of the match meanwhile. *)
OnLobbyCancelledAlways(status) == "PENDING"

(* onLobbyCancelled *)
OnLobbyCancelled(status) == IF status = "PLAYING" THEN "PENDING" ELSE status

(* onGameEnded: a draw is not counted; a win decides the match or not yet,  *)
(* depending on its best-of.                                                *)
OnGameEnded(status, result) ==
    IF status = "DONE" \/ result = "decisive" THEN "DONE" ELSE "PENDING"

-------------------------------------------------------------------------------
(* Mutant: those who watch a battle stay with it when it ends. *)
StopWatchingAlone(B, S) == S

(* Those who no longer watch once the battles B are over and S has left.    *)
StopWatching(B, S) == S \cup UNION {battles[b].spectators : b \in B}

(* cancelLobby of the lobbies L, finish of the battles B with that result,  *)
(* stopSpectating of the players S.                                         *)
End(L, B, S, result) ==
    LET seated == UNION {{lobbies[l].inviter, lobbies[l].invitee} : l \in L}
        fighting == UNION {{battles[b].host, battles[b].guest} : b \in B}
    IN  /\ lobbiesByPlayer' = [p \in Players |-> IF p \in seated THEN NoLobby ELSE lobbiesByPlayer[p]]
        /\ lobbies' = [l \in LobbyIds |-> IF l \in L THEN NoLobby ELSE lobbies[l]]
        /\ battlesByPlayer' = [p \in Players |-> IF p \in fighting THEN NoBattle ELSE battlesByPlayer[p]]
        /\ battlesBySpectator' =
              [p \in Players |-> IF p \in StopWatching(B, S) THEN NoBattle ELSE battlesBySpectator[p]]
        /\ battles' = [b \in BattleIds |->
              IF b \in B \/ battles[b] = NoBattle THEN NoBattle
              ELSE [battles[b] EXCEPT !.spectators = @ \ S]]
        /\ active' = active \ B
        /\ match' = [m \in Matches |->
              LET told == IF \E l \in L : lobbies[l].match = m
                          THEN OnLobbyCancelled(match[m]) ELSE match[m]
              IN  IF \E b \in B : battles[b].match = m THEN OnGameEnded(told, result) ELSE told]

(* A lobby opens; the Ghosts of those in recalled go back in.               *)
OpenLobby(lobby, recalled) ==
    /\ \E l \in LobbyIds :
          /\ lobbies[l] = NoLobby
          /\ lobbies' = [lobbies EXCEPT ![l] = lobby]
          /\ lobbiesByPlayer' = [p \in Players |->
                IF p \in {lobby.inviter, lobby.invitee} THEN l ELSE lobbiesByPlayer[p]]
    /\ ghostOut' = ghostOut \ recalled
    /\ UNCHANGED <<battlesByPlayer, battlesBySpectator, battles, active>>

(* A battle starts from the lobbies L (one, or none); it is stored if it is *)
(* between two players.                                                     *)
Begin(battle, L) ==
    LET fighters == {battle.host, battle.guest} IN
    /\ \E b \in BattleIds \ active :
          /\ battles[b] = NoBattle
          /\ battles' = [battles EXCEPT ![b] = battle]
          /\ battlesByPlayer' =
                [p \in Players |-> IF p \in fighters THEN b ELSE battlesByPlayer[p]]
          /\ active' = IF battle.ai = NoAi THEN active \cup {b} ELSE active
    /\ lobbiesByPlayer' = [p \in Players |->
          IF L # {} /\ p \in fighters THEN NoLobby ELSE lobbiesByPlayer[p]]
    /\ lobbies' = [l \in LobbyIds |-> IF l \in L THEN NoLobby ELSE lobbies[l]]
    /\ ghostOut' = ghostOut \ fighters
    /\ UNCHANGED <<battlesBySpectator, match>>

-------------------------------------------------------------------------------
(* BattleInvite *)
Invite(p, q) ==
    /\ p # q
    /\ ~ Busy(p)
    /\ q \in connected
    /\ ~ Busy(q)
    /\ MayBattle(p, q)
    /\ invites' = invites \cup {<<p, q>>}
    /\ UNCHANGED <<places, ghostOut>>

(* An invitation declined, answered with a party that is refused, or never  *)
(* answered in time: an expired one is treated as one that is not there.    *)
Uninvite(i, r) ==
    /\ <<i, r>> \in invites
    /\ invites' = invites \ {<<i, r>>}
    /\ UNCHANGED <<places, ghostOut>>

(* Mutant: the inviter may have found another opponent meanwhile. *)
CanMeetBusyInviter(i, r) == ~ Busy(r) /\ i \in connected /\ MayBattle(i, r)

CanMeet(i, r) == ~ Busy(r) /\ i \in connected /\ ~ Busy(i) /\ MayBattle(i, r)

(* The lobby of two players, bound to their match if they have one.         *)
LobbyOfTwo(i, r, m, s, t) ==
    [inviter |-> i, invitee |-> r, format |-> IF m = NoMatch THEN Free ELSE MatchFormat[m],
     match |-> m, timer |-> FALSE, side |-> [seat \in Seats |-> IF seat = "inviter" THEN s ELSE t]]

Playing(m) == [n \in Matches |-> IF n = m THEN "PLAYING" ELSE match[n]]

(* BattleInviteResponse(accept): the invitation is consumed in any case.    *)
Accept(r, i) ==
    /\ <<i, r>> \in invites
    /\ invites' = invites \ {<<i, r>>}
    /\ IF CanMeet(i, r)
       THEN \E s \in Choices(i), t \in Choices(r) :
               /\ OpenLobby(LobbyOfTwo(i, r, MatchOf(i, r), s, t), {i, r})
               /\ match' = Playing(MatchOf(i, r))
       ELSE UNCHANGED <<places, ghostOut>>

(* Mutant: only the battles are looked at. *)
NpcInBattle(n) == \E p \in Players : InBattle(p) /\ BattleOf(p).ai = n

NpcBusy(n) ==
    \/ \E p \in Players : InBattle(p) /\ BattleOf(p).ai = n
    \/ \E p \in Players : InLobby(p) /\ LobbyOf(p).invitee = n

(* BattleNpcStart: the NPC is ready, its team and format are fixed.  The    *)
(* Ghost of a player who brings its Cobblemon party stays out.              *)
StartNpc(p, n) ==
    /\ ~ Busy(p)
    /\ ~ NpcBusy(n)
    /\ \E s \in Choices(p) :
          OpenLobby(
            [inviter |-> p, invitee |-> n, format |-> NpcFormat[n], match |-> NoMatch,
             timer |-> FALSE, side |-> [seat \in Seats |->
                IF seat = "inviter" THEN s
                ELSE [ghost |-> TRUE, team |-> NpcTeam[n], ready |-> TRUE]]],
            IF s.ghost THEN {p} ELSE {})
    /\ UNCHANGED <<invites, match>>

-------------------------------------------------------------------------------
(* The lobby messages.  l is the sender's lobby; a message about another    *)
(* one is refused.                                                          *)

Update(l, lobby) ==
    /\ lobbies' = [lobbies EXCEPT ![l] = lobby]
    /\ UNCHANGED <<invites, lobbiesByPlayer, battlesByPlayer, battlesBySpectator, battles,
                   active, match, ghostOut>>

Allowed(lobby, T) == lobby.format \in T
AgainstNpc(lobby) == lobby.invitee \in Npcs

(* BattleLobbySetTeam: the opponent is unreadied, what it saw changed.      *)
SetTeam(p) ==
    LET l == lobbiesByPlayer[p]
        lobby == lobbies[l]
        seat == Seat(lobby, p)
    IN  /\ InLobby(p)
        /\ ~ lobby.side[seat].ready
        /\ \E s \in Choices(p) :
              Update(l, [lobby EXCEPT !.side = [k \in Seats |->
                            IF k = seat THEN s
                            ELSE [lobby.side[k] EXCEPT !.ready = @ /\ AgainstNpc(lobby)]]])

(* BattleLobbySetFormat: everyone is unreadied.                             *)
SetFormat(p, f) ==
    LET lobby == LobbyOf(p) IN
    /\ InLobby(p)
    /\ lobby.match = NoMatch
    /\ ~ AgainstNpc(lobby)
    /\ f # lobby.format
    /\ Update(lobbiesByPlayer[p],
              [lobby EXCEPT !.format = f,
                            !.side = [seat \in Seats |-> [lobby.side[seat] EXCEPT !.ready = FALSE]]])

EnableLobbyTimer(p) ==
    /\ InLobby(p)
    /\ ~ LobbyOf(p).timer
    /\ Update(lobbiesByPlayer[p], [LobbyOf(p) EXCEPT !.timer = TRUE])

(* startNpcBattle: of the team read again it asks only that it not be empty. *)
StartNpcBattle(l) ==
    LET lobby == lobbies[l]
        p == lobby.inviter
        T == BattleTeam(p, lobby.side["inviter"])
    IN  IF T = {} THEN End({l}, {}, {}, "draw") /\ UNCHANGED ghostOut
        ELSE Begin([host |-> p, guest |-> p, ai |-> lobby.invitee, format |-> lobby.format,
                    match |-> NoMatch, teams |-> {T}, spectators |-> {}], {l})

(* Mutant: the teams that were ready are not looked at again. *)
TeamsOfReady(lobby) == {lobby.side[seat].team : seat \in Seats}

TeamsNow(lobby) ==
    {BattleTeam(lobby.inviter, lobby.side["inviter"]), BattleTeam(lobby.invitee, lobby.side["invitee"])}

(* startBattle between two players: Ghosts are read again and checked again. *)
StartPlayersBattle(l) ==
    LET lobby == lobbies[l] IN
    IF \A T \in TeamsNow(lobby) : Allowed(lobby, T)
    THEN \E host \in {lobby.inviter, lobby.invitee} :
            Begin([host |-> host,
                   guest |-> IF host = lobby.inviter THEN lobby.invitee ELSE lobby.inviter,
                   ai |-> NoAi, format |-> lobby.format, match |-> lobby.match,
                   teams |-> {BattleTeam(lobby[seat], lobby.side[seat]) : seat \in Seats},
                   spectators |-> {}], {l})
    ELSE End({l}, {}, {}, "draw") /\ UNCHANGED ghostOut

StartBattle(l) == IF AgainstNpc(lobbies[l]) THEN StartNpcBattle(l) ELSE StartPlayersBattle(l)

(* BattleLobbySetReady: both ready, the battle starts.                      *)
SetReady(p) ==
    LET l == lobbiesByPlayer[p]
        lobby == lobbies[l]
        seat == Seat(lobby, p)
    IN  /\ InLobby(p)
        /\ Allowed(lobby, lobby.side[seat].team)
        /\ IF lobby.side[Other(seat)].ready
           THEN StartBattle(l) /\ UNCHANGED invites
           ELSE Update(l, [lobby EXCEPT !.side[seat].ready = TRUE])

Unready(p) ==
    /\ InLobby(p)
    /\ Update(lobbiesByPlayer[p],
              [LobbyOf(p) EXCEPT !.side[Seat(LobbyOf(p), p)].ready = FALSE])

LeaveLobby(p) ==
    /\ InLobby(p)
    /\ End({lobbiesByPlayer[p]}, {}, {}, "draw")
    /\ UNCHANGED <<invites, ghostOut>>

(* expireLobbies, some time after the timer was turned on: whoever is not   *)
(* ready is readied.                                                        *)
ExpireLobby(l) ==
    /\ lobbies[l] # NoLobby
    /\ lobbies[l].timer
    /\ IF \A seat \in Seats : Allowed(lobbies[l], lobbies[l].side[seat].team)
       THEN StartBattle(l)
       ELSE End({l}, {}, {}, "draw") /\ UNCHANGED ghostOut
    /\ UNCHANGED invites

-------------------------------------------------------------------------------
(* BattleSoloStart *)
StartSolo(p) ==
    /\ p \in Admins
    /\ ~ Busy(p)
    /\ team[p] # {}
    /\ Begin([host |-> p, guest |-> p, ai |-> Mirror, format |-> Free, match |-> NoMatch,
              teams |-> {team[p]}, spectators |-> {}], {})
    /\ UNCHANGED invites

(* BattleSpectate *)
Spectate(p, q) ==
    LET b == battlesByPlayer[q] IN
    /\ p # q
    /\ ~ Busy(p)
    /\ InBattle(q)
    /\ battles' = [battles EXCEPT ![b].spectators = @ \cup {p}]
    /\ battlesBySpectator' = [battlesBySpectator EXCEPT ![p] = b]
    /\ UNCHANGED <<invites, lobbiesByPlayer, lobbies, battlesByPlayer, active, match, ghostOut>>

LeaveSpectating(p) ==
    /\ Watches(p)
    /\ End({}, {}, {p}, "draw")
    /\ UNCHANGED <<invites, ghostOut>>

(* BattleResult: the host's engine reports a draw, or who won.              *)
ReportResult(p, result) ==
    /\ InBattle(p)
    /\ BattleOf(p).host = p
    /\ End({}, {battlesByPlayer[p]}, {}, result)
    /\ UNCHANGED <<invites, ghostOut>>

(* BattleLeave: a forfeit, the other side wins.                             *)
Leave(p, result) ==
    /\ InBattle(p)
    /\ result # "draw"
    /\ End({}, {battlesByPlayer[p]}, {}, result)
    /\ UNCHANGED <<invites, ghostOut>>

(* adminStop: the battle, or else the lobby.                                *)
AdminStop(p) ==
    /\ InBattle(p) \/ InLobby(p)
    /\ IF InBattle(p) THEN End({}, {battlesByPlayer[p]}, {}, "draw")
       ELSE End({lobbiesByPlayer[p]}, {}, {}, "draw")
    /\ UNCHANGED <<invites, ghostOut>>

(* onBackendStopping: the process still handles messages until it ends.     *)
EndAllAsDraw ==
    /\ End({lobbiesByPlayer[p] : p \in Players} \ {NoLobby}, Running, {}, "draw")
    /\ UNCHANGED <<invites, ghostOut>>

(* onDisconnect *)
OnDisconnect(p) ==
    /\ invites' = {i \in invites : p \notin {i[1], i[2]}}
    /\ End({lobbiesByPlayer[p]} \ {NoLobby}, {battlesByPlayer[p]} \ {NoBattle},
           {p} \cap {q \in Players : Watches(q)}, "draw")
    /\ UNCHANGED ghostOut

(* Mutant: only a battle keeps the Ghosts in. *)
SendOutUnlessFighting(p) ==
    /\ ~ InBattle(p)
    /\ ghostOut' = ghostOut \cup {p}
    /\ UNCHANGED <<invites, places>>

(* SendOutGhost, through ifNotInBattle.                                     *)
SendOut(p) ==
    /\ ~ Busy(p)
    /\ ghostOut' = ghostOut \cup {p}
    /\ UNCHANGED <<invites, places>>

Recall(p) ==
    /\ ghostOut' = ghostOut \ {p}
    /\ UNCHANGED <<invites, places>>

-------------------------------------------------------------------------------
(* TournamentRunService.reinvite, its transaction taken as one step: the    *)
(* lobby of a match opens at once, with the Ghosts of both, or the match    *)
(* waits, even if it is being played.                                       *)
Reinvite(m) ==
    /\ match[m] # "DONE"
    /\ \E i \in Paired[m] :
          LET r == CHOOSE q \in Paired[m] : q # i
              Ghosts(p) == [ghost |-> TRUE, team |-> team[p], ready |-> FALSE]
          IN  IF \A p \in Paired[m] : p \in connected /\ ~ Busy(p)
              THEN /\ OpenLobby(LobbyOfTwo(i, r, m, Ghosts(i), Ghosts(r)), {i, r})
                   /\ match' = Playing(m)
              ELSE /\ match' = [match EXCEPT ![m] = "PENDING"]
                   /\ UNCHANGED <<lobbiesByPlayer, lobbies, battlesByPlayer, battlesBySpectator,
                                  battles, active, ghostOut>>
    /\ UNCHANGED invites

(* TournamentRunService.setResult, whatever is being played.                *)
SetResult(m) ==
    /\ match' = [match EXCEPT ![m] = "DONE"]
    /\ UNCHANGED <<invites, lobbiesByPlayer, lobbies, battlesByPlayer, battlesBySpectator,
                   battles, active, ghostOut>>

-------------------------------------------------------------------------------
Message(p) ==
    \/ \E q \in Players : Invite(p, q) \/ Uninvite(q, p) \/ Accept(p, q) \/ Spectate(p, q)
    \/ SetTeam(p) \/ SetReady(p) \/ Unready(p) \/ EnableLobbyTimer(p) \/ LeaveLobby(p)
    \/ \E f \in Formats : SetFormat(p, f)
    \/ \E n \in Npcs : StartNpc(p, n)
    \/ StartSolo(p) \/ LeaveSpectating(p) \/ SendOut(p) \/ Recall(p)
    \/ \E result \in {"draw", "game", "decisive"} : ReportResult(p, result) \/ Leave(p, result)

Service ==
    /\ \/ \E p \in Players : Message(p) \/ AdminStop(p)
       \/ \E l \in LobbyIds : ExpireLobby(l)
       \/ \E m \in Matches : Reinvite(m) \/ SetResult(m)
       \/ EndAllAsDraw
    /\ UNCHANGED <<phase, connected, leaving, team>>

Connect(p) ==
    /\ connected' = connected \cup {p}
    /\ UNCHANGED <<phase, leaving, serviceVars, team>>

(* The registered connection closes.  (LiveTrade has the sweeper's order.)  *)
Disconnect(p) ==
    /\ p \in connected
    /\ connected' = connected \ {p}
    /\ leaving' = leaving \cup {p}
    /\ UNCHANGED <<phase, serviceVars, team>>

CleanUp(p) ==
    /\ p \in leaving
    /\ leaving' = leaving \ {p}
    /\ OnDisconnect(p)
    /\ UNCHANGED <<phase, connected, team>>

(* Other requests change the active team.                                   *)
TeamChanges(p) ==
    /\ \E T \in Teams \ {team[p]} : team' = [team EXCEPT ![p] = T]
    /\ UNCHANGED <<phase, connected, leaving, serviceVars>>

(* The process ends, its memory with it; the rows stay.                     *)
Crash ==
    /\ phase' = "down"
    /\ connected' = {}
    /\ leaving' = {}
    /\ invites' = {}
    /\ lobbiesByPlayer' = [p \in Players |-> NoLobby]
    /\ lobbies' = [l \in LobbyIds |-> NoLobby]
    /\ battlesByPlayer' = [p \in Players |-> NoBattle]
    /\ battlesBySpectator' = [p \in Players |-> NoBattle]
    /\ battles' = [b \in BattleIds |-> NoBattle]
    /\ ghostOut' = {}
    /\ UNCHANGED <<active, match, team>>

(* The web server answers before ApplicationReadyEvent.                     *)
Restart ==
    /\ phase = "down"
    /\ phase' = "starting"
    /\ UNCHANGED <<connected, leaving, serviceVars, team>>

(* Mutant: every row left ACTIVE is closed, that of a running battle too. *)
CloseAllBattles ==
    /\ phase = "starting"
    /\ phase' = "ready"
    /\ active' = {}
    /\ UNCHANGED <<connected, leaving, invites, lobbiesByPlayer, lobbies, battlesByPlayer,
                   battlesBySpectator, battles, match, ghostOut, team>>

(* ApplicationReadyEvent *)
CloseOrphanedBattles ==
    /\ phase = "starting"
    /\ phase' = "ready"
    /\ active' = active \cap Running
    /\ UNCHANGED <<connected, leaving, invites, lobbiesByPlayer, lobbies, battlesByPlayer,
                   battlesBySpectator, battles, match, ghostOut, team>>

Up ==
    \/ Service
    \/ \E p \in Players : Connect(p) \/ Disconnect(p) \/ CleanUp(p) \/ TeamChanges(p)
    \/ CloseOrphanedBattles
    \/ Crash

Next == (phase # "down" /\ Up) \/ Restart

Spec == Init /\ [][Next]_vars

-------------------------------------------------------------------------------
(* Properties *)

(* A player is in one place at most, and everybody a lobby or a battle      *)
(* names is in it: crossing invitations, challenges, spectators, timers,    *)
(* stops and disconnections leave nobody in half of one.                    *)
OnePlaceEach ==
    \A p \in Players :
        /\ ~ (InLobby(p) /\ InBattle(p))
        /\ Watches(p) => ~ InLobby(p) /\ ~ InBattle(p)
        /\ InLobby(p) =>
              LET l == lobbiesByPlayer[p] IN
              /\ lobbies[l] # NoLobby
              /\ p \in {lobbies[l].inviter, lobbies[l].invitee}
              /\ \A q \in Players \cap {lobbies[l].inviter, lobbies[l].invitee} :
                    lobbiesByPlayer[q] = l
        /\ InBattle(p) =>
              LET b == battlesByPlayer[p] IN
              /\ battles[b] # NoBattle
              /\ p \in {battles[b].host, battles[b].guest}
              /\ \A q \in {battles[b].host, battles[b].guest} : battlesByPlayer[q] = b

(* Spectators and battles agree about who watches what; a battle that ends  *)
(* releases whoever watched it.                                             *)
SpectatorsKnown ==
    \A p \in Players, b \in BattleIds :
        battlesBySpectator[p] = b <=> (battles[b] # NoBattle /\ p \in battles[b].spectators)

(* TODO-14: no Ghost is out between the opening of a lobby of two players   *)
(* and the end of their battle, nor in any other battle.                    *)
GhostsStayIn ==
    \A p \in Players :
        (InBattle(p) \/ (InLobby(p) /\ ~ AgainstNpc(LobbyOf(p)))) => p \notin ghostOut

(* One lobby or battle at a time per NPC.                                   *)
OneChallenger ==
    \A n \in Npcs, p, q \in Players :
        LET Faces(r) == \/ InLobby(r) /\ LobbyOf(r).invitee = n
                        \/ InBattle(r) /\ BattleOf(r).ai = n
        IN  Faces(p) /\ Faces(q) => p = q

(* Nobody fights another player, or a mirror, with a team its format does   *)
(* not allow, although teams change after "ready".                          *)
TeamsAreAllowed ==
    \A b \in BattleIds :
        (battles[b] # NoBattle /\ battles[b].ai \notin Npcs) =>
            \A T \in battles[b].teams : battles[b].format \in T

(* The row of a running battle is ACTIVE, also when the battle started      *)
(* before the orphans of the last run were closed; once they are, no other  *)
(* row is.                                                                  *)
RowsOfRunningBattles ==
    LET stored == {b \in Running : battles[b].ai = NoAi} IN
    /\ stored \subseteq active
    /\ phase = "ready" => active = stored

BoundTo(m) ==
    \/ \E p \in Players : InLobby(p) /\ LobbyOf(p).match = m
    \/ \E p \in Players : InBattle(p) /\ BattleOf(p).match = m

(* A match is released with its game: when its lobby closes or its battle   *)
(* ends, in whatever way short of a crash, it does not stay PLAYING.        *)
MatchReleased ==
    [][\A m \in Matches :
          (BoundTo(m) /\ ~ BoundTo(m)' /\ phase' # "down") => match'[m] # "PLAYING"]_vars

(* A match an admin decided while its game was being prepared or played is  *)
(* not opened again by what becomes of that game.                           *)
DecidedForGood ==
    [][\A m \in Matches : match[m] = "DONE" => match'[m] = "DONE"]_vars

===============================================================================
