---------------------------- MODULE LiveBattleProofs ----------------------------
(***************************************************************************)
(* Proofs about LiveBattle, for any number of players, NPCs, formats,      *)
(* matches, lobbies and battles.                                           *)
(*                                                                         *)
(* The maps of the service and the objects they point to are changed       *)
(* together by a few operations: a lobby opens or is updated, a battle     *)
(* begins (from a lobby or alone), somebody watches, lobbies and battles   *)
(* end. A step is first shown to be one of these, with what holds when it  *)
(* is taken (Change); each part of the invariant is then shown to survive  *)
(* each of them. The invariant says of lobbies and battles what            *)
(* SpectatorsKnown says of spectators: map and object agree both ways.     *)
(***************************************************************************)
EXTENDS LiveBattle, FiniteSetTheorems, TLAPS

(* Who the objects name.                                                    *)
SeatedIn(p, l) == lobbies[l] # NoLobby /\ p \in {lobbies[l].inviter, lobbies[l].invitee}
FightsIn(p, b) == battles[b] # NoBattle /\ p \in {battles[b].host, battles[b].guest}

(* A player is in a lobby, or in a battle, exactly when that object names   *)
(* it.                                                                      *)
LobbiesKnown == \A p \in Players, l \in LobbyIds : lobbiesByPlayer[p] = l <=> SeatedIn(p, l)
BattlesKnown == \A p \in Players, b \in BattleIds : battlesByPlayer[p] = b <=> FightsIn(p, b)

(* No player is in two of a lobby, a battle and the spectators of one.      *)
OneOfThree ==
    \A p \in Players : ~ (InLobby(p) /\ InBattle(p)) /\ ~ (Watches(p) /\ (InLobby(p) \/ InBattle(p)))

(* An NPC's challenger plays no tournament match: a battle against an NPC   *)
(* drops the match of its lobby.                                            *)
NpcLobbiesHaveNoMatch ==
    \A l \in LobbyIds : lobbies[l] # NoLobby /\ AgainstNpc(lobbies[l]) => lobbies[l].match = NoMatch

(* What closing the orphans relies on: no row but those of battles between  *)
(* two players is that of a running battle.                                 *)
StoredBattlesAreOfPlayers ==
    \A b \in BattleIds : battles[b] # NoBattle /\ battles[b].ai # NoAi => b \notin active

(* p plays against the NPC n, or is about to.                               *)
Faces(n, p) ==
    \/ InLobby(p) /\ LobbyOf(p).invitee = n
    \/ InBattle(p) /\ BattleOf(p).ai = n

Places == TypeOK /\ LobbiesKnown /\ BattlesKnown /\ SpectatorsKnown /\ OneOfThree

IInv ==
    /\ Places
    /\ NpcLobbiesHaveNoMatch
    /\ StoredBattlesAreOfPlayers
    /\ GhostsStayIn
    /\ OneChallenger
    /\ TeamsAreAllowed
    /\ RowsOfRunningBattles

-------------------------------------------------------------------------------
(* What may change *)

Objects == <<lobbiesByPlayer, lobbies, battlesByPlayer, battlesBySpectator, battles>>

(* What a match may become.                                                 *)
MatchGoesOn ==
    /\ match' \in [Matches -> {"PENDING", "PLAYING", "DONE"}]
    /\ \A m \in Matches : match[m] = "DONE" => match'[m] = "DONE"

(* No lobby and no battle changes; a Ghost goes out only if its player is   *)
(* free.                                                                    *)
Quiet ==
    /\ UNCHANGED Objects
    /\ UNCHANGED active
    /\ ghostOut' \subseteq ghostOut \cup {p \in Players : ~ Busy(p)}
    /\ MatchGoesOn

(* A lobby opens for players who are free.                                  *)
Opening(lobby, recalled) ==
    /\ lobby \in Lobby
    /\ \A p \in Players \cap {lobby.inviter, lobby.invitee} : ~ Busy(p)
    /\ AgainstNpc(lobby) => lobby.match = NoMatch /\ ~ NpcBusy(lobby.invitee)
    /\ ~ AgainstNpc(lobby) => {lobby.inviter, lobby.invitee} \subseteq recalled
    /\ OpenLobby(lobby, recalled)
    /\ MatchGoesOn

(* A lobby changes, but not who is in it, nor its match.                    *)
Updating(l, lobby) ==
    /\ l \in LobbyIds /\ lobbies[l] # NoLobby
    /\ lobby \in Lobby
    /\ lobby.inviter = lobbies[l].inviter
    /\ lobby.invitee = lobbies[l].invitee
    /\ lobby.match = lobbies[l].match
    /\ Update(l, lobby)

(* The lobby l is that of the battle's players.                             *)
Leads(l, battle) ==
    /\ lobbies[l] # NoLobby
    /\ {battle.host, battle.guest} = Players \cap {lobbies[l].inviter, lobbies[l].invitee}
    /\ battle.match = lobbies[l].match
    /\ battle.ai \in Npcs => battle.ai = lobbies[l].invitee

(* A battle begins, of one free player or from a lobby.                     *)
Beginning(battle, L) ==
    /\ battle \in Battle
    /\ battle.spectators = {}
    /\ \/ /\ L = {}
          /\ ~ Busy(battle.host) /\ ~ Busy(battle.guest)
          /\ battle.match = NoMatch
          /\ battle.ai \notin Npcs
       \/ \E l \in LobbyIds : L = {l} /\ Leads(l, battle)
    /\ battle.ai \notin Npcs => \A T \in battle.teams : battle.format \in T
    /\ Begin(battle, L)

(* Existing lobbies and battles end.                                        *)
Ending(L, B, S, result) ==
    /\ L \subseteq LobbyIds /\ \A l \in L : lobbies[l] # NoLobby
    /\ B \subseteq BattleIds /\ \A b \in B : battles[b] # NoBattle
    /\ S \subseteq Players
    /\ End(L, B, S, result)
    /\ UNCHANGED ghostOut

Change ==
    \/ Quiet
    \/ \E lobby, recalled : Opening(lobby, recalled)
    \/ \E l, lobby : Updating(l, lobby)
    \/ \E battle, L : Beginning(battle, L)
    \/ \E p, q \in Players : Spectate(p, q)
    \/ \E L, B, S, result : Ending(L, B, S, result)

-------------------------------------------------------------------------------
(* Reading the places *)

(* The lobby of a player exists and names it.                               *)
LEMMA InALobby ==
    ASSUME Places, NEW p \in Players, InLobby(p)
    PROVE  /\ lobbiesByPlayer[p] \in LobbyIds
           /\ LobbyOf(p) \in Lobby
           /\ LobbyOf(p) # NoLobby
           /\ SeatedIn(p, lobbiesByPlayer[p])
  BY NoObjects DEF Places, TypeOK, InLobby, LobbyOf, LobbiesKnown, SeatedIn

(* The same for its battle.                                                 *)
LEMMA InABattle ==
    ASSUME Places, NEW p \in Players, InBattle(p)
    PROVE  /\ battlesByPlayer[p] \in BattleIds
           /\ BattleOf(p) \in Battle
           /\ BattleOf(p) # NoBattle
           /\ FightsIn(p, battlesByPlayer[p])
  BY NoObjects DEF Places, TypeOK, InBattle, BattleOf, BattlesKnown, FightsIn

(* The battles the players are in are those there are: now and after a step. *)
LEMMA InRunning ==
    ASSUME NEW byPlayer \in [Players -> BattleIds \cup {NoBattle}],
           NEW objects \in [BattleIds -> Battle \cup {NoBattle}],
           \A p \in Players, b \in BattleIds :
              byPlayer[p] = b <=> objects[b] # NoBattle /\ p \in {objects[b].host, objects[b].guest}
    PROVE  {byPlayer[p] : p \in Players} \ {NoBattle} = {b \in BattleIds : objects[b] # NoBattle}
  <1> DEFINE running == {byPlayer[p] : p \in Players} \ {NoBattle}
  <1>1. ASSUME NEW b \in running PROVE b \in BattleIds /\ objects[b] # NoBattle
    OBVIOUS
  <1>2. ASSUME NEW b \in BattleIds, objects[b] # NoBattle PROVE b \in running
    <2>1. objects[b].host \in Players
      BY <1>2 DEF Battle
    <2>2. byPlayer[objects[b].host] = b
      BY <1>2, <2>1
    <2> QED BY <2>1, <2>2, LiveBattleAssumption
  <1> QED BY <1>1, <1>2

(* What the players are in is what exists.                                  *)
LEMMA RunningBattles ==
    ASSUME Places PROVE Running = {b \in BattleIds : battles[b] # NoBattle}
  BY InRunning DEF Running, Places, TypeOK, BattlesKnown, FightsIn

(* The same after a step.                                                   *)
LEMMA RunningBattlesAfter ==
    ASSUME Places' PROVE Running' = {b \in BattleIds : battles'[b] # NoBattle}
  BY InRunning DEF Running, Places, TypeOK, BattlesKnown, FightsIn

(* Agreement both ways implies that partners are in the same place.         *)
LEMMA OnePlaceFromPlaces == ASSUME Places PROVE OnePlaceEach
  <1> SUFFICES ASSUME NEW p \in Players
               PROVE  /\ ~ (InLobby(p) /\ InBattle(p))
                      /\ Watches(p) => ~ InLobby(p) /\ ~ InBattle(p)
                      /\ InLobby(p) =>
                            LET l == lobbiesByPlayer[p] IN
                            /\ lobbies[l] # NoLobby
                            /\ p \in {lobbies[l].inviter, lobbies[l].invitee}
                            /\ \A q \in Players \cap {lobbies[l].inviter, lobbies[l].invitee} :
                                  lobbiesByPlayer[q] = l
                      /\ InBattle(p) =>
                            LET b == battlesByPlayer[p] IN
                            /\ battles[b] # NoBattle
                            /\ p \in {battles[b].host, battles[b].guest}
                            /\ \A q \in {battles[b].host, battles[b].guest} : battlesByPlayer[q] = b
    BY DEF OnePlaceEach
  <1>1. CASE InLobby(p)
    <2> DEFINE l == lobbiesByPlayer[p]
    <2>1. l \in LobbyIds /\ SeatedIn(p, l)
      BY <1>1, InALobby
    <2>2. ASSUME NEW q \in Players \cap {lobbies[l].inviter, lobbies[l].invitee}
          PROVE  lobbiesByPlayer[q] = l
      BY <2>1, <2>2 DEF Places, LobbiesKnown, SeatedIn
    <2>3. ~ InBattle(p) /\ ~ Watches(p)
      BY <1>1 DEF Places, OneOfThree
    <2> QED BY <2>1, <2>2, <2>3 DEF SeatedIn
  <1>2. CASE InBattle(p)
    <2> DEFINE b == battlesByPlayer[p]
    <2>1. b \in BattleIds /\ battles[b] \in Battle /\ FightsIn(p, b)
      BY <1>2, InABattle DEF BattleOf
    <2>2. ASSUME NEW q \in {battles[b].host, battles[b].guest} PROVE battlesByPlayer[q] = b
      BY <2>1, <2>2 DEF Places, BattlesKnown, FightsIn, Battle
    <2>3. ~ InLobby(p) /\ ~ Watches(p)
      BY <1>2 DEF Places, OneOfThree
    <2> QED BY <1>2, <2>1, <2>2, <2>3 DEF FightsIn
  <1>3. CASE ~ InLobby(p) /\ ~ InBattle(p)
    BY <1>3
  <1> QED BY <1>1, <1>2, <1>3

-------------------------------------------------------------------------------
(* Each change keeps the invariant *)

(* What the rest of a step does: nothing the parts of IInv other than the   *)
(* types are about.                                                         *)
Rest ==
    /\ phase' \in {phase, "starting"}
    /\ connected' \subseteq Players
    /\ leaving' \subseteq Players
    /\ invites' \subseteq Players \X Players
    /\ team' \in [Players -> Teams]

(* A step that leaves lobbies and battles alone keeps the invariant.        *)
LEMMA QuietKeeps == ASSUME IInv, Rest, Quiet PROVE IInv'
  <1> USE DEF IInv, Places, Quiet, Objects
  <1>1. TypeOK'
    BY DEF TypeOK, Rest, MatchGoesOn
  <1>2. Places'
    BY <1>1 DEF LobbiesKnown, SeatedIn, BattlesKnown, FightsIn, SpectatorsKnown, OneOfThree,
                InLobby, InBattle, Watches
  <1>3. NpcLobbiesHaveNoMatch' /\ StoredBattlesAreOfPlayers' /\ TeamsAreAllowed'
    BY DEF NpcLobbiesHaveNoMatch, AgainstNpc, StoredBattlesAreOfPlayers, TeamsAreAllowed
  <1>4. GhostsStayIn'
    BY DEF GhostsStayIn, InBattle, InLobby, AgainstNpc, LobbyOf, Busy
  <1>5. OneChallenger'
    BY DEF OneChallenger, InLobby, LobbyOf, InBattle, BattleOf
  <1>6. RowsOfRunningBattles'
    BY DEF RowsOfRunningBattles, Running, Rest
  <1> QED BY <1>2, <1>3, <1>4, <1>5, <1>6

(* So does a lobby that opens.                                              *)
LEMMA OpeningKeeps ==
    ASSUME IInv, Rest, NEW lobby, NEW recalled, Opening(lobby, recalled) PROVE IInv'
  <1> DEFINE both == {lobby.inviter, lobby.invitee}
  <1> USE DEF IInv, Places
  <1>1. PICK l \in LobbyIds :
           /\ lobbies[l] = NoLobby
           /\ lobbies' = [lobbies EXCEPT ![l] = lobby]
           /\ lobbiesByPlayer' = [p \in Players |-> IF p \in both THEN l ELSE lobbiesByPlayer[p]]
    BY DEF Opening, OpenLobby
  <1>2. /\ lobby \in Lobby /\ lobby # NoLobby /\ l # NoLobby
        /\ \A p \in Players \cap both : ~ Busy(p)
        /\ AgainstNpc(lobby) => lobby.match = NoMatch /\ ~ NpcBusy(lobby.invitee)
        /\ ~ AgainstNpc(lobby) => both \subseteq recalled
        /\ ghostOut' = ghostOut \ recalled
        /\ UNCHANGED <<battlesByPlayer, battlesBySpectator, battles, active>>
        /\ MatchGoesOn
    BY NoObjects, LiveBattleAssumption DEF Opening, OpenLobby
  <1>3. \A k \in LobbyIds : lobbies'[k] = IF k = l THEN lobby ELSE lobbies[k]
    BY <1>1 DEF TypeOK
  <1>4. \A p \in Players : lobbiesByPlayer'[p] = IF p \in both THEN l ELSE lobbiesByPlayer[p]
    BY <1>1
  <1>5. \A p \in Players : lobbiesByPlayer[p] # l
    BY <1>1 DEF LobbiesKnown, SeatedIn
  <1>6. TypeOK'
    <2>1. lobbies' \in [LobbyIds -> Lobby \cup {NoLobby}]
      BY <1>1, <1>2 DEF TypeOK
    <2>2. lobbiesByPlayer' \in [Players -> LobbyIds \cup {NoLobby}]
      BY <1>1 DEF TypeOK
    <2> QED BY <1>2, <2>1, <2>2 DEF TypeOK, Rest, MatchGoesOn
  <1>7. LobbiesKnown'
    <2> SUFFICES ASSUME NEW p \in Players, NEW k \in LobbyIds
                 PROVE  lobbiesByPlayer'[p] = k
                           <=> lobbies'[k] # NoLobby /\ p \in {lobbies'[k].inviter, lobbies'[k].invitee}
      BY DEF LobbiesKnown, SeatedIn
    <2>1. CASE k = l
      BY <1>2, <1>3, <1>4, <1>5, <2>1
    <2>2. CASE k # l /\ p \in both
      <3>1. lobbiesByPlayer[p] = NoLobby
        BY <1>2, <2>2 DEF Busy, InLobby
      <3>2. ~ SeatedIn(p, k)
        BY <3>1, LiveBattleAssumption DEF LobbiesKnown
      <3> QED BY <1>3, <1>4, <2>2, <3>2 DEF SeatedIn
    <2>3. CASE k # l /\ p \notin both
      BY <1>3, <1>4, <2>3 DEF LobbiesKnown, SeatedIn
    <2> QED BY <2>1, <2>2, <2>3
  <1>8. BattlesKnown' /\ SpectatorsKnown' /\ StoredBattlesAreOfPlayers' /\ TeamsAreAllowed'
    BY <1>2 DEF BattlesKnown, FightsIn, SpectatorsKnown, StoredBattlesAreOfPlayers, TeamsAreAllowed
  <1>9. OneOfThree'
    BY <1>2, <1>4 DEF OneOfThree, InLobby, InBattle, Watches, Busy
  <1>10. NpcLobbiesHaveNoMatch'
    BY <1>2, <1>3 DEF NpcLobbiesHaveNoMatch, AgainstNpc
  <1>11. ASSUME NEW p \in Players, InLobby(p)'
         PROVE  \/ InLobby(p) /\ LobbyOf(p)' = LobbyOf(p)
                \/ p \in both /\ LobbyOf(p)' = lobby
    <2>1. CASE p \in both
      BY <1>3, <1>4, <2>1 DEF LobbyOf
    <2>2. CASE p \notin both
      <3>1. lobbiesByPlayer'[p] = lobbiesByPlayer[p]
        BY <1>4, <2>2
      <3>2. lobbiesByPlayer[p] \in LobbyIds /\ InLobby(p)
        BY <3>1, <1>11 DEF InLobby, TypeOK
      <3> QED BY <3>1, <3>2, <1>3, <1>5 DEF LobbyOf
    <2> QED BY <2>1, <2>2
  <1>12. GhostsStayIn'
    BY <1>2, <1>11 DEF GhostsStayIn, InBattle, AgainstNpc
  <1>13. OneChallenger'
    <2> SUFFICES ASSUME NEW n \in Npcs PROVE \A p, q \in Players : Faces(n, p)' /\ Faces(n, q)' => p = q
      BY DEF OneChallenger, Faces
    <2>1. ASSUME NEW p \in Players, Faces(n, p)'
          PROVE  Faces(n, p) \/ (p \in both /\ lobby.invitee = n)
      BY <1>2, <1>11, <2>1 DEF Faces, InBattle, BattleOf
    <2>2. CASE lobby.invitee = n
      <3>1. n \notin Players /\ ~ NpcBusy(n)
        BY <1>2, <2>2, LiveBattleAssumption DEF AgainstNpc
      <3>2. \A p \in Players : ~ Faces(n, p)
        BY <3>1 DEF NpcBusy, Faces
      <3> QED BY <2>1, <2>2, <3>1, <3>2
    <2>3. CASE lobby.invitee # n
      <3>1. \A p, q \in Players : Faces(n, p) /\ Faces(n, q) => p = q
        BY DEF OneChallenger, Faces
      <3> QED BY <2>1, <2>3, <3>1
    <2> QED BY <2>2, <2>3
  <1>14. RowsOfRunningBattles'
    BY <1>2 DEF RowsOfRunningBattles, Running, Rest
  <1> QED BY <1>6, <1>7, <1>8, <1>9, <1>10, <1>12, <1>13, <1>14

(* So does a lobby that changes.                                            *)
LEMMA UpdatingKeeps ==
    ASSUME IInv, Rest, NEW l, NEW lobby, Updating(l, lobby) PROVE IInv'
  <1> USE DEF IInv, Places
  <1>1. /\ l \in LobbyIds /\ lobbies[l] # NoLobby
        /\ lobby \in Lobby /\ lobby # NoLobby
        /\ lobby.inviter = lobbies[l].inviter
        /\ lobby.invitee = lobbies[l].invitee
        /\ lobby.match = lobbies[l].match
        /\ lobbies' = [lobbies EXCEPT ![l] = lobby]
        /\ UNCHANGED <<lobbiesByPlayer, battlesByPlayer, battlesBySpectator, battles, active,
                       match, ghostOut>>
    BY NoObjects DEF Updating, Update
  <1>2. \A k \in LobbyIds : lobbies'[k] = IF k = l THEN lobby ELSE lobbies[k]
    BY <1>1 DEF TypeOK
  <1>3. \A k \in LobbyIds :
           /\ lobbies'[k] = NoLobby <=> lobbies[k] = NoLobby
           /\ lobbies[k] # NoLobby => /\ lobbies'[k].inviter = lobbies[k].inviter
                                      /\ lobbies'[k].invitee = lobbies[k].invitee
                                      /\ lobbies'[k].match = lobbies[k].match
    BY <1>1, <1>2
  <1>4. TypeOK'
    <2>1. lobbies' \in [LobbyIds -> Lobby \cup {NoLobby}]
      BY <1>1 DEF TypeOK
    <2> QED BY <1>1, <2>1 DEF TypeOK, Rest
  <1>5. LobbiesKnown'
    BY <1>1, <1>3 DEF LobbiesKnown, SeatedIn
  <1>6. BattlesKnown' /\ SpectatorsKnown' /\ StoredBattlesAreOfPlayers' /\ TeamsAreAllowed'
    BY <1>1 DEF BattlesKnown, FightsIn, SpectatorsKnown, StoredBattlesAreOfPlayers, TeamsAreAllowed
  <1>7. OneOfThree'
    BY <1>1 DEF OneOfThree, InLobby, InBattle, Watches
  <1>8. NpcLobbiesHaveNoMatch'
    BY <1>3 DEF NpcLobbiesHaveNoMatch, AgainstNpc
  <1>9. ASSUME NEW p \in Players
        PROVE  /\ InLobby(p)' <=> InLobby(p)
               /\ InLobby(p) => LobbyOf(p)'.invitee = LobbyOf(p).invitee
    <2>1. InLobby(p) => lobbiesByPlayer[p] \in LobbyIds /\ LobbyOf(p) # NoLobby
      BY InALobby
    <2> QED BY <1>1, <1>3, <2>1 DEF InLobby, LobbyOf
  <1>10. GhostsStayIn'
    BY <1>1, <1>9 DEF GhostsStayIn, InBattle, AgainstNpc
  <1>11. OneChallenger'
    BY <1>1, <1>9 DEF OneChallenger, InBattle, BattleOf
  <1>12. RowsOfRunningBattles'
    BY <1>1 DEF RowsOfRunningBattles, Running, Rest
  <1> QED BY <1>4, <1>5, <1>6, <1>7, <1>8, <1>10, <1>11, <1>12

(* The battles whose rows are to be ACTIVE.                                 *)
Stored == {b \in BattleIds : battles[b] # NoBattle /\ battles[b].ai = NoAi}

(* RowsOfRunningBattles in terms of the objects.                            *)
LEMMA RowsByObjects ==
    ASSUME Places, RowsOfRunningBattles
    PROVE  Stored \subseteq active /\ (phase = "ready" => active = Stored)
  <1>1. {b \in Running : battles[b].ai = NoAi} = Stored
    BY RunningBattles DEF Stored
  <1> QED BY <1>1 DEF RowsOfRunningBattles

(* The way back, after a step.                                              *)
LEMMA RowsByObjectsAfter ==
    ASSUME Places', Stored' \subseteq active', phase' = "ready" => active' = Stored'
    PROVE  RowsOfRunningBattles'
  <1>1. {b \in Running' : battles'[b].ai = NoAi} = Stored'
    BY RunningBattlesAfter DEF Stored
  <1> QED BY <1>1 DEF RowsOfRunningBattles

(* The players of a battle leave the lobby it comes from, and nothing else. *)
FightersAreFree(battle, L) ==
    /\ L \subseteq LobbyIds
    /\ \A p \in Players, l \in L : lobbiesByPlayer[p] = l <=> p \in {battle.host, battle.guest}
    /\ \A p \in {battle.host, battle.guest} : ~ InBattle(p) /\ ~ Watches(p)
    /\ \A p \in {battle.host, battle.guest} : InLobby(p) => L # {} /\ lobbiesByPlayer[p] \in L
    /\ battle.ai \in Npcs => \E l \in L : lobbies[l].invitee = battle.ai

(* Who begins a battle was free, or in the lobby that leads to it.          *)
LEMMA FightersLeaveTheirLobby ==
    ASSUME IInv, NEW battle, NEW L, Beginning(battle, L) PROVE FightersAreFree(battle, L)
  <1> DEFINE fighters == {battle.host, battle.guest}
  <1> USE DEF IInv, Places, FightersAreFree
  <1>1. fighters \subseteq Players
    BY DEF Beginning, Battle
  <1>2. CASE L = {}
    BY <1>2 DEF Beginning, Busy
  <1>3. ASSUME NEW l \in LobbyIds, L = {l}, Leads(l, battle)
        PROVE  FightersAreFree(battle, L)
    <2>1. \A p \in Players : lobbiesByPlayer[p] = l <=> p \in fighters
      BY <1>3 DEF Leads, LobbiesKnown, SeatedIn
    <2>2. \A p \in fighters : InLobby(p)
      BY <1>1, <2>1, LiveBattleAssumption DEF InLobby
    <2>3. \A p \in fighters : ~ InBattle(p) /\ ~ Watches(p)
      BY <1>1, <2>2 DEF OneOfThree
    <2> QED BY <1>1, <1>3, <2>1, <2>3 DEF Leads
  <1> QED BY <1>2, <1>3 DEF Beginning

(* A battle that begins keeps the invariant.                                *)
LEMMA BeginningKeeps ==
    ASSUME IInv, Rest, NEW battle, NEW L, Beginning(battle, L) PROVE IInv'
  <1> DEFINE fighters == {battle.host, battle.guest}
  <1> USE DEF IInv, Places
  <1>1. PICK b \in BattleIds \ active :
           /\ battles[b] = NoBattle
           /\ battles' = [battles EXCEPT ![b] = battle]
           /\ battlesByPlayer' =
                 [p \in Players |-> IF p \in fighters THEN b ELSE battlesByPlayer[p]]
           /\ active' = IF battle.ai = NoAi THEN active \cup {b} ELSE active
    BY DEF Beginning, Begin
  <1>2. /\ battle \in Battle /\ battle # NoBattle /\ battle.spectators = {}
        /\ b # NoBattle
        /\ battle.ai \notin Npcs => \A T \in battle.teams : battle.format \in T
        /\ lobbiesByPlayer' = [p \in Players |->
              IF L # {} /\ p \in fighters THEN NoLobby ELSE lobbiesByPlayer[p]]
        /\ lobbies' = [l \in LobbyIds |-> IF l \in L THEN NoLobby ELSE lobbies[l]]
        /\ ghostOut' = ghostOut \ fighters
        /\ UNCHANGED <<battlesBySpectator, match>>
    BY NoObjects, LiveBattleAssumption DEF Beginning, Begin
  <1>3. fighters \subseteq Players
    BY <1>2 DEF Battle
  <1>4. FightersAreFree(battle, L)
    BY FightersLeaveTheirLobby
  <1>5. \A k \in BattleIds : battles'[k] = IF k = b THEN battle ELSE battles[k]
    BY <1>1 DEF TypeOK
  <1>6. \A p \in Players : battlesByPlayer'[p] = IF p \in fighters THEN b ELSE battlesByPlayer[p]
    BY <1>1
  <1>7. \A p \in Players : battlesByPlayer[p] # b /\ battlesBySpectator[p] # b
    BY <1>1 DEF BattlesKnown, FightsIn, SpectatorsKnown
  <1>8. \A k \in LobbyIds : lobbies'[k] = IF k \in L THEN NoLobby ELSE lobbies[k]
    BY <1>2
  <1>9. \A p \in Players : lobbiesByPlayer'[p] = IF p \in fighters THEN NoLobby ELSE lobbiesByPlayer[p]
    <2>1. ASSUME NEW p \in fighters, L = {} PROVE lobbiesByPlayer[p] = NoLobby
      BY <2>1, <1>4 DEF FightersAreFree, InLobby
    <2> QED BY <1>2, <2>1
  <1>10. \A p \in Players : p \in fighters \/ lobbiesByPlayer[p] \notin L
    BY <1>4 DEF FightersAreFree
  <1>11. TypeOK'
    <2>1. battles' \in [BattleIds -> Battle \cup {NoBattle}]
      BY <1>1, <1>2 DEF TypeOK
    <2>2. battlesByPlayer' \in [Players -> BattleIds \cup {NoBattle}]
      BY <1>1 DEF TypeOK
    <2>3. lobbies' \in [LobbyIds -> Lobby \cup {NoLobby}]
      BY <1>2 DEF TypeOK
    <2>4. lobbiesByPlayer' \in [Players -> LobbyIds \cup {NoLobby}]
      BY <1>2 DEF TypeOK
    <2> QED BY <1>1, <1>2, <2>1, <2>2, <2>3, <2>4 DEF TypeOK, Rest
  <1>12. LobbiesKnown'
    <2> SUFFICES ASSUME NEW p \in Players, NEW k \in LobbyIds
                 PROVE  lobbiesByPlayer'[p] = k <=> SeatedIn(p, k)'
      BY DEF LobbiesKnown
    <2>1. CASE k \in L
      BY <1>8, <1>9, <1>10, <2>1, LiveBattleAssumption DEF SeatedIn
    <2>2. CASE k \notin L /\ p \in fighters
      <3>1. lobbiesByPlayer[p] # k
        <4>1. CASE InLobby(p)
          BY <1>4, <2>2, <4>1 DEF FightersAreFree
        <4>2. CASE ~ InLobby(p)
          BY <4>2, LiveBattleAssumption DEF InLobby
        <4> QED BY <4>1, <4>2
      <3>2. ~ SeatedIn(p, k)
        BY <3>1 DEF LobbiesKnown
      <3> QED BY <1>8, <1>9, <2>2, <3>2, LiveBattleAssumption DEF SeatedIn
    <2>3. CASE k \notin L /\ p \notin fighters
      BY <1>8, <1>9, <2>3 DEF LobbiesKnown, SeatedIn
    <2> QED BY <2>1, <2>2, <2>3
  <1>13. BattlesKnown'
    <2> SUFFICES ASSUME NEW p \in Players, NEW k \in BattleIds
                 PROVE  battlesByPlayer'[p] = k <=> FightsIn(p, k)'
      BY DEF BattlesKnown
    <2>1. CASE k = b
      BY <1>2, <1>5, <1>6, <1>7, <2>1 DEF FightsIn
    <2>2. CASE k # b /\ p \in fighters
      <3>1. ~ FightsIn(p, k)
        BY <1>4, <2>2, LiveBattleAssumption DEF FightersAreFree, InBattle, BattlesKnown
      <3> QED BY <1>5, <1>6, <2>2, <3>1 DEF FightsIn
    <2>3. CASE k # b /\ p \notin fighters
      BY <1>5, <1>6, <2>3 DEF BattlesKnown, FightsIn
    <2> QED BY <2>1, <2>2, <2>3
  <1>14. SpectatorsKnown'
    BY <1>2, <1>5, <1>7 DEF SpectatorsKnown
  <1>15. OneOfThree'
    BY <1>2, <1>4, <1>6, <1>9 DEF OneOfThree, FightersAreFree, InLobby, InBattle, Watches
  <1>16. Places'
    BY <1>11, <1>12, <1>13, <1>14, <1>15
  <1>17. NpcLobbiesHaveNoMatch'
    BY <1>8 DEF NpcLobbiesHaveNoMatch, AgainstNpc
  <1>18. StoredBattlesAreOfPlayers'
    BY <1>1, <1>2, <1>5 DEF StoredBattlesAreOfPlayers
  <1>19. ASSUME NEW p \in Players
         PROVE  /\ InLobby(p)' => InLobby(p) /\ LobbyOf(p)' = LobbyOf(p) /\ p \notin fighters
                /\ InBattle(p)' => \/ p \in fighters /\ BattleOf(p)' = battle
                                   \/ InBattle(p) /\ BattleOf(p)' = BattleOf(p)
    <2>1. InLobby(p)' => InLobby(p) /\ LobbyOf(p)' = LobbyOf(p) /\ p \notin fighters
      BY <1>8, <1>9, <1>10 DEF InLobby, LobbyOf, TypeOK
    <2>2. CASE p \in fighters
      BY <1>5, <1>6, <2>1, <2>2 DEF InBattle, BattleOf
    <2>3. CASE p \notin fighters
      BY <1>5, <1>6, <1>7, <2>1, <2>3 DEF InBattle, BattleOf, TypeOK
    <2> QED BY <2>1, <2>2, <2>3
  <1>20. GhostsStayIn'
    BY <1>2, <1>19 DEF GhostsStayIn, AgainstNpc
  <1>21. OneChallenger'
    <2> SUFFICES ASSUME NEW n \in Npcs, NEW p \in Players, NEW q \in Players, Faces(n, p)', Faces(n, q)'
                 PROVE  p = q
      BY DEF OneChallenger, Faces
    <2>1. ASSUME NEW r \in Players, Faces(n, r)' PROVE Faces(n, r)
      <3>1. CASE r \in fighters /\ battle.ai = n
        <4>1. PICK l \in L : lobbies[l].invitee = n
          BY <1>4, <3>1 DEF FightersAreFree
        <4>2. lobbiesByPlayer[r] = l /\ l # NoLobby
          BY <1>4, <3>1, <4>1, LiveBattleAssumption DEF FightersAreFree
        <4> QED BY <4>1, <4>2 DEF Faces, InLobby, LobbyOf
      <3>2. CASE ~ (r \in fighters /\ battle.ai = n)
        BY <1>19, <2>1, <3>2 DEF Faces
      <3> QED BY <3>1, <3>2
    <2>2. Faces(n, p) /\ Faces(n, q)
      BY <2>1
    <2> QED BY <2>2 DEF OneChallenger, Faces
  <1>22. TeamsAreAllowed'
    BY <1>2, <1>5 DEF TeamsAreAllowed
  <1>23. RowsOfRunningBattles'
    <2>1. Stored \subseteq active /\ (phase = "ready" => active = Stored)
      BY RowsByObjects
    <2>2. Stored' = IF battle.ai = NoAi THEN Stored \cup {b} ELSE Stored
      BY <1>1, <1>2, <1>5 DEF Stored
    <2>3. Stored' \subseteq active' /\ (phase' = "ready" => active' = Stored')
      BY <1>1, <2>1, <2>2 DEF Rest
    <2> QED BY <1>16, <2>3, RowsByObjectsAfter
  <1> QED BY <1>16, <1>17, <1>18, <1>20, <1>21, <1>22, <1>23

(* Only those who watch may differ.                                         *)
SameGame(new, old) ==
    /\ new.host = old.host
    /\ new.guest = old.guest
    /\ new.ai = old.ai
    /\ new.format = old.format
    /\ new.teams = old.teams
    /\ new.match = old.match

(* So does a new spectator.                                                 *)
LEMMA WatchingKeeps ==
    ASSUME IInv, Rest, NEW p \in Players, NEW q \in Players, Spectate(p, q) PROVE IInv'
  <1> DEFINE b == battlesByPlayer[q]
  <1> USE DEF IInv, Places
  <1>1. /\ ~ Busy(p)
        /\ battles' = [battles EXCEPT ![b].spectators = @ \cup {p}]
        /\ battlesBySpectator' = [battlesBySpectator EXCEPT ![p] = b]
        /\ UNCHANGED <<lobbiesByPlayer, lobbies, battlesByPlayer, active, match, ghostOut>>
    BY DEF Spectate
  <1>2. b \in BattleIds /\ battles[b] \in Battle /\ battles[b] # NoBattle
    BY InABattle DEF Spectate, BattleOf
  <1>3. \A k \in BattleIds : /\ k # b => battles'[k] = battles[k]
                             /\ battles'[b] = [battles[b] EXCEPT !.spectators = @ \cup {p}]
    BY <1>1, <1>2 DEF TypeOK
  <1>4. /\ battles'[b] \in Battle /\ battles'[b] # NoBattle
        /\ SameGame(battles'[b], battles[b])
        /\ battles'[b].spectators = battles[b].spectators \cup {p}
    BY <1>2, <1>3, NoObjects DEF Battle, SameGame
  <1>5. ASSUME NEW k \in BattleIds, battles[k] # NoBattle \/ battles'[k] # NoBattle
        PROVE  battles[k] # NoBattle /\ battles'[k] # NoBattle /\ SameGame(battles'[k], battles[k])
    <2>1. CASE k = b
      BY <1>2, <1>4, <2>1
    <2>2. CASE k # b
      BY <1>3, <1>5, <2>2 DEF SameGame
    <2> QED BY <2>1, <2>2
  <1>6. TypeOK'
    <2>1. battles' \in [BattleIds -> Battle \cup {NoBattle}]
      BY <1>1, <1>2, <1>3, <1>4 DEF TypeOK
    <2>2. battlesBySpectator' \in [Players -> BattleIds \cup {NoBattle}]
      BY <1>1, <1>2 DEF TypeOK
    <2> QED BY <1>1, <2>1, <2>2 DEF TypeOK, Rest
  <1>7. LobbiesKnown' /\ NpcLobbiesHaveNoMatch'
    BY <1>1 DEF LobbiesKnown, SeatedIn, NpcLobbiesHaveNoMatch, AgainstNpc
  <1>8. BattlesKnown'
    BY <1>1, <1>5 DEF BattlesKnown, FightsIn, SameGame
  <1>9. StoredBattlesAreOfPlayers' /\ TeamsAreAllowed'
    <2>1. StoredBattlesAreOfPlayers'
      BY <1>1, <1>5 DEF StoredBattlesAreOfPlayers, SameGame
    <2>2. TeamsAreAllowed'
      BY <1>5 DEF TeamsAreAllowed, SameGame
    <2> QED BY <2>1, <2>2
  <1>10. Places'
    <2>1. \A r \in Players : battlesBySpectator'[r] = IF r = p THEN b ELSE battlesBySpectator[r]
      BY <1>1 DEF TypeOK
    <2>2. SpectatorsKnown'
      <3> SUFFICES ASSUME NEW r \in Players, NEW k \in BattleIds
                   PROVE  battlesBySpectator'[r] = k
                             <=> (battles'[k] # NoBattle /\ r \in battles'[k].spectators)
        BY DEF SpectatorsKnown
      <3>1. battlesBySpectator[r] = k <=> (battles[k] # NoBattle /\ r \in battles[k].spectators)
        BY DEF SpectatorsKnown
      <3>2. battlesBySpectator[p] # k
        BY <1>1, LiveBattleAssumption DEF Busy, Watches
      <3>3. CASE k = b
        BY <1>2, <1>4, <2>1, <3>1, <3>2, <3>3
      <3>4. CASE k # b
        BY <1>3, <2>1, <3>1, <3>2, <3>4
      <3> QED BY <3>3, <3>4
    <2>3. OneOfThree'
      BY <1>1, <2>1 DEF OneOfThree, InLobby, InBattle, Watches, Busy
    <2> QED BY <1>6, <1>7, <1>8, <2>2, <2>3
  <1>11. GhostsStayIn'
    BY <1>1 DEF GhostsStayIn, InBattle, InLobby, AgainstNpc, LobbyOf
  <1>12. OneChallenger'
    <2>1. \A r \in Players : InBattle(r) => BattleOf(r)'.ai = BattleOf(r).ai
      BY <1>1, <1>5, InABattle DEF BattleOf, SameGame
    <2> QED BY <1>1, <2>1 DEF OneChallenger, InBattle, InLobby, LobbyOf
  <1>13. RowsOfRunningBattles'
    <2>1. Stored \subseteq active /\ (phase = "ready" => active = Stored)
      BY RowsByObjects
    <2>2. Stored' = Stored
      BY <1>5 DEF Stored, SameGame
    <2>3. Stored' \subseteq active' /\ (phase' = "ready" => active' = Stored')
      BY <1>1, <2>1, <2>2 DEF Rest
    <2> QED BY <1>10, <2>3, RowsByObjectsAfter
  <1> QED BY <1>7, <1>9, <1>10, <1>11, <1>12, <1>13

(* What an ending leaves of the places.                                     *)
(* The maps forget exactly those who pointed to what ends.                  *)
LEMMA WhatEnds ==
    ASSUME IInv, NEW L, NEW B, NEW S, NEW result, Ending(L, B, S, result)
    PROVE  /\ lobbiesByPlayer' =
                 [p \in Players |-> IF lobbiesByPlayer[p] \in L THEN NoLobby ELSE lobbiesByPlayer[p]]
           /\ battlesByPlayer' =
                 [p \in Players |-> IF battlesByPlayer[p] \in B THEN NoBattle ELSE battlesByPlayer[p]]
           /\ battlesBySpectator' =
                 [p \in Players |-> IF p \in S \/ battlesBySpectator[p] \in B THEN NoBattle
                                    ELSE battlesBySpectator[p]]
  <1> USE DEF IInv, Places, Ending
  <1>1. ASSUME NEW p \in Players
        PROVE  lobbiesByPlayer[p] \in L
                  <=> p \in UNION {{lobbies[l].inviter, lobbies[l].invitee} : l \in L}
    <2>1. \A l \in L : lobbiesByPlayer[p] = l <=> p \in {lobbies[l].inviter, lobbies[l].invitee}
      BY DEF LobbiesKnown, SeatedIn
    <2> QED BY <2>1
  <1>2. ASSUME NEW p \in Players
        PROVE  battlesByPlayer[p] \in B
                  <=> p \in UNION {{battles[b].host, battles[b].guest} : b \in B}
    <2>1. \A b \in B : battlesByPlayer[p] = b <=> p \in {battles[b].host, battles[b].guest}
      BY DEF BattlesKnown, FightsIn
    <2> QED BY <2>1
  <1>3. ASSUME NEW p \in Players
        PROVE  p \in S \/ battlesBySpectator[p] \in B <=> p \in StopWatching(B, S)
    <2>1. \A b \in B : battlesBySpectator[p] = b <=> p \in battles[b].spectators
      BY DEF SpectatorsKnown
    <2> QED BY <2>1 DEF StopWatching
  <1>4. lobbiesByPlayer' =
          [p \in Players |-> IF lobbiesByPlayer[p] \in L THEN NoLobby ELSE lobbiesByPlayer[p]]
    BY <1>1 DEF End
  <1>5. battlesByPlayer' =
          [p \in Players |-> IF battlesByPlayer[p] \in B THEN NoBattle ELSE battlesByPlayer[p]]
    BY <1>2 DEF End
  <1>6. battlesBySpectator' =
          [p \in Players |-> IF p \in S \/ battlesBySpectator[p] \in B THEN NoBattle ELSE battlesBySpectator[p]]
    BY <1>3 DEF End
  <1> QED BY <1>4, <1>5, <1>6

(* What ends keeps the invariant.                                           *)
LEMMA EndingKeeps ==
    ASSUME IInv, Rest, NEW L, NEW B, NEW S, NEW result, Ending(L, B, S, result) PROVE IInv'
  <1> USE DEF IInv, Places
  <1>1. /\ L \subseteq LobbyIds /\ B \subseteq BattleIds /\ S \subseteq Players
        /\ \A l \in LobbyIds : lobbies'[l] = IF l \in L THEN NoLobby ELSE lobbies[l]
        /\ active' = active \ B
        /\ UNCHANGED ghostOut
    BY DEF Ending, End
  <1>2. /\ \A p \in Players :
              lobbiesByPlayer'[p] = IF lobbiesByPlayer[p] \in L THEN NoLobby ELSE lobbiesByPlayer[p]
        /\ \A p \in Players :
              battlesByPlayer'[p] = IF battlesByPlayer[p] \in B THEN NoBattle ELSE battlesByPlayer[p]
        /\ \A p \in Players :
              battlesBySpectator'[p] =
                 IF p \in S \/ battlesBySpectator[p] \in B THEN NoBattle ELSE battlesBySpectator[p]
    BY WhatEnds
  <1>3. \A b \in BattleIds : battles'[b] = IF b \in B \/ battles[b] = NoBattle THEN NoBattle
                                           ELSE [battles[b] EXCEPT !.spectators = @ \ S]
    BY DEF Ending, End
  <1>4. ASSUME NEW b \in BattleIds, b \notin B, battles[b] # NoBattle
        PROVE  /\ battles'[b] \in Battle /\ battles'[b] # NoBattle
               /\ SameGame(battles'[b], battles[b])
               /\ battles'[b].spectators = battles[b].spectators \ S
    <2>1. battles[b] \in Battle /\ battles'[b] = [battles[b] EXCEPT !.spectators = @ \ S]
      BY <1>3, <1>4 DEF TypeOK
    <2> QED BY <2>1, NoObjects DEF Battle, SameGame
  <1>5. ASSUME NEW b \in BattleIds, battles'[b] # NoBattle
        PROVE  battles[b] # NoBattle /\ b \notin B /\ SameGame(battles'[b], battles[b])
    BY <1>3, <1>4, <1>5
  <1>6. TypeOK'
    <2>1. battles' \in [BattleIds -> Battle \cup {NoBattle}]
      <3>1. battles' = [b \in BattleIds |-> battles'[b]]
        BY DEF Ending, End
      <3>2. \A b \in BattleIds : battles'[b] \in Battle \cup {NoBattle}
        BY <1>4, <1>5
      <3> QED BY <3>1, <3>2
    <2>2. lobbies' \in [LobbyIds -> Lobby \cup {NoLobby}]
      BY DEF TypeOK, Ending, End
    <2>3. /\ lobbiesByPlayer' \in [Players -> LobbyIds \cup {NoLobby}]
          /\ battlesByPlayer' \in [Players -> BattleIds \cup {NoBattle}]
          /\ battlesBySpectator' \in [Players -> BattleIds \cup {NoBattle}]
      BY WhatEnds DEF TypeOK
    <2>4. match' \in [Matches -> {"PENDING", "PLAYING", "DONE"}]
      BY DEF TypeOK, Ending, End, OnLobbyCancelled, OnGameEnded
    <2> QED BY <1>1, <2>1, <2>2, <2>3, <2>4 DEF TypeOK, Rest
  <1>7. LobbiesKnown' /\ NpcLobbiesHaveNoMatch'
    BY <1>1, <1>2, LiveBattleAssumption DEF LobbiesKnown, SeatedIn, NpcLobbiesHaveNoMatch, AgainstNpc
  <1>8. BattlesKnown'
    <2> SUFFICES ASSUME NEW p \in Players, NEW b \in BattleIds
                 PROVE  battlesByPlayer'[p] = b <=> FightsIn(p, b)'
      BY DEF BattlesKnown
    <2>1. battlesByPlayer[p] = b <=> FightsIn(p, b)
      BY DEF BattlesKnown
    <2>2. FightsIn(p, b)' <=> FightsIn(p, b) /\ b \notin B
      BY <1>4, <1>5 DEF FightsIn, SameGame
    <2>3. battlesByPlayer'[p] = b <=> battlesByPlayer[p] = b /\ b \notin B
      BY <1>2, LiveBattleAssumption
    <2> QED BY <2>1, <2>2, <2>3
  <1>9. SpectatorsKnown'
    <2> SUFFICES ASSUME NEW p \in Players, NEW b \in BattleIds
                 PROVE  battlesBySpectator'[p] = b <=> (battles'[b] # NoBattle /\ p \in battles'[b].spectators)
      BY DEF SpectatorsKnown
    <2>1. battlesBySpectator[p] = b <=> (battles[b] # NoBattle /\ p \in battles[b].spectators)
      BY DEF SpectatorsKnown
    <2>2. (battles'[b] # NoBattle /\ p \in battles'[b].spectators)
            <=> (battles[b] # NoBattle /\ p \in battles[b].spectators) /\ b \notin B /\ p \notin S
      BY <1>4, <1>5
    <2>3. battlesBySpectator'[p] = b <=> battlesBySpectator[p] = b /\ b \notin B /\ p \notin S
      BY <1>2, LiveBattleAssumption
    <2> QED BY <2>1, <2>2, <2>3
  <1>10. OneOfThree'
    BY <1>2 DEF OneOfThree, InLobby, InBattle, Watches
  <1>11. Places'
    BY <1>6, <1>7, <1>8, <1>9, <1>10
  <1>12. StoredBattlesAreOfPlayers'
    BY <1>1, <1>5 DEF StoredBattlesAreOfPlayers, SameGame
  <1>13. TeamsAreAllowed'
    BY <1>5 DEF TeamsAreAllowed, SameGame
  <1>14. ASSUME NEW p \in Players
         PROVE  /\ InLobby(p)' => InLobby(p) /\ LobbyOf(p)' = LobbyOf(p)
                /\ InBattle(p)' => InBattle(p) /\ BattleOf(p)'.ai = BattleOf(p).ai
    <2>1. InLobby(p)' => InLobby(p) /\ LobbyOf(p)' = LobbyOf(p)
      BY <1>1, <1>2 DEF InLobby, LobbyOf, TypeOK
    <2>2. ASSUME InBattle(p)' PROVE InBattle(p) /\ BattleOf(p)'.ai = BattleOf(p).ai
      <3>1. InBattle(p) /\ battlesByPlayer'[p] = battlesByPlayer[p] /\ battlesByPlayer[p] \notin B
        BY <1>2, <2>2 DEF InBattle
      <3>2. battlesByPlayer[p] \in BattleIds /\ battles[battlesByPlayer[p]] # NoBattle
        BY <3>1, InABattle DEF BattleOf
      <3> QED BY <1>4, <3>1, <3>2 DEF BattleOf, SameGame
    <2> QED BY <2>1, <2>2
  <1>15. GhostsStayIn'
    BY <1>1, <1>14 DEF GhostsStayIn, AgainstNpc
  <1>16. OneChallenger'
    <2>1. \A n \in Npcs, p \in Players : Faces(n, p)' => Faces(n, p)
      BY <1>14 DEF Faces
    <2> QED BY <2>1 DEF OneChallenger, Faces
  <1>17. RowsOfRunningBattles'
    <2>1. Stored \subseteq active /\ (phase = "ready" => active = Stored)
      BY RowsByObjects
    <2>2. Stored' = Stored \ B
      BY <1>4, <1>5 DEF Stored, SameGame
    <2>3. Stored' \subseteq active' /\ (phase' = "ready" => active' = Stored')
      BY <1>1, <2>1, <2>2 DEF Rest
    <2> QED BY <1>11, <2>3, RowsByObjectsAfter
  <1> QED BY <1>7, <1>11, <1>12, <1>13, <1>15, <1>16, <1>17

(* Closing the rows of the last run, a crash: not changes of the service.   *)
LEMMA CloseOrphanedBattlesKeeps == ASSUME IInv, CloseOrphanedBattles PROVE IInv'
  <1> USE DEF IInv, Places, CloseOrphanedBattles
  <1>1. TypeOK'
    BY DEF TypeOK
  <1>2. Places'
    BY <1>1 DEF LobbiesKnown, SeatedIn, BattlesKnown, FightsIn, SpectatorsKnown, OneOfThree,
                InLobby, InBattle, Watches
  <1>3. NpcLobbiesHaveNoMatch' /\ StoredBattlesAreOfPlayers' /\ TeamsAreAllowed'
    BY DEF NpcLobbiesHaveNoMatch, AgainstNpc, StoredBattlesAreOfPlayers, TeamsAreAllowed
  <1>4. GhostsStayIn'
    BY DEF GhostsStayIn, InBattle, InLobby, AgainstNpc, LobbyOf
  <1>5. OneChallenger'
    BY DEF OneChallenger, InLobby, LobbyOf, InBattle, BattleOf
  <1>6. RowsOfRunningBattles'
    <2>1. Stored \subseteq active
      BY RowsByObjects
    <2>2. active \cap Running = Stored
      BY <2>1, RunningBattles DEF Stored, StoredBattlesAreOfPlayers
    <2>3. Stored' = Stored
      BY DEF Stored
    <2> QED BY <1>2, <2>2, <2>3, RowsByObjectsAfter
  <1> QED BY <1>2, <1>3, <1>4, <1>5, <1>6

(* A crash leaves no place to be in; the rows it leaves ACTIVE are allowed. *)
LEMMA CrashKeeps == ASSUME IInv, Crash PROVE IInv'
  <1> USE DEF IInv, Places, Crash
  <1>1. /\ \A p \in Players : ~ InLobby(p)' /\ ~ InBattle(p)' /\ ~ Watches(p)'
        /\ \A l \in LobbyIds : lobbies'[l] = NoLobby
        /\ \A b \in BattleIds : battles'[b] = NoBattle
    BY DEF InLobby, InBattle, Watches
  <1>2. TypeOK'
    BY DEF TypeOK
  <1>3. LobbiesKnown' /\ BattlesKnown' /\ SpectatorsKnown'
    BY <1>1, LiveBattleAssumption DEF LobbiesKnown, SeatedIn, BattlesKnown, FightsIn, SpectatorsKnown
  <1>4. OneOfThree' /\ GhostsStayIn' /\ OneChallenger'
    BY <1>1 DEF OneOfThree, GhostsStayIn, OneChallenger
  <1>5. NpcLobbiesHaveNoMatch' /\ StoredBattlesAreOfPlayers' /\ TeamsAreAllowed'
    BY <1>1 DEF NpcLobbiesHaveNoMatch, StoredBattlesAreOfPlayers, TeamsAreAllowed
  <1>6. RowsOfRunningBattles'
    BY DEF RowsOfRunningBattles, Running
  <1> QED BY <1>2, <1>3, <1>4, <1>5, <1>6

(* The invariant holds at the start.                                        *)
LEMMA InitHolds == ASSUME Init PROVE IInv
  <1> USE DEF IInv, Places, Init
  <1>1. /\ \A p \in Players : ~ InLobby(p) /\ ~ InBattle(p) /\ ~ Watches(p)
        /\ \A l \in LobbyIds : lobbies[l] = NoLobby
        /\ \A b \in BattleIds : battles[b] = NoBattle
    BY DEF InLobby, InBattle, Watches
  <1>2. TypeOK
    BY DEF TypeOK
  <1>3. LobbiesKnown /\ BattlesKnown /\ SpectatorsKnown
    BY <1>1, LiveBattleAssumption DEF LobbiesKnown, SeatedIn, BattlesKnown, FightsIn, SpectatorsKnown
  <1>4. OneOfThree /\ GhostsStayIn /\ OneChallenger
    BY <1>1 DEF OneOfThree, GhostsStayIn, OneChallenger
  <1>5. NpcLobbiesHaveNoMatch /\ StoredBattlesAreOfPlayers /\ TeamsAreAllowed
    BY <1>1 DEF NpcLobbiesHaveNoMatch, StoredBattlesAreOfPlayers, TeamsAreAllowed
  <1>6. RowsOfRunningBattles
    BY DEF RowsOfRunningBattles, Running
  <1> QED BY <1>2, <1>3, <1>4, <1>5, <1>6

-------------------------------------------------------------------------------
(* Every step is one of these *)

(* What a player may bring is a side of a lobby.                            *)
LEMMA ChoicesAreSides == ASSUME TypeOK, NEW p \in Players PROVE Choices(p) \subseteq LobbySide
  <1>1. team[p] \in Teams
    BY DEF TypeOK
  <1>2. ASSUME NEW s \in Choices(p) PROVE s \in LobbySide
    <2>1. CASE s = [ghost |-> TRUE, team |-> team[p], ready |-> FALSE]
      BY <1>1, <2>1 DEF LobbySide
    <2>2. CASE \E T \in Teams \ {{}} : s = [ghost |-> FALSE, team |-> T, ready |-> FALSE]
      BY <2>2 DEF LobbySide
    <2> QED BY <2>1, <2>2 DEF Choices
  <1> QED BY <1>2

(* A team read again is a team.                                             *)
LEMMA BattleTeamIsATeam ==
    ASSUME TypeOK, NEW p \in Players, NEW side \in LobbySide PROVE BattleTeam(p, side) \in Teams
  BY DEF TypeOK, BattleTeam, LobbySide

(* bindLobby finds no match, or one that is not decided.                    *)
LEMMA MatchOfTwo ==
    ASSUME NEW p, NEW q
    PROVE  MatchOf(p, q) = NoMatch \/ (MatchOf(p, q) \in Matches /\ match[MatchOf(p, q)] # "DONE")
  BY DEF MatchOf, OpenMatches

(* Binding such a match decides none and opens none again.                  *)
LEMMA PlayingGoesOn ==
    ASSUME TypeOK, NEW m, m = NoMatch \/ (m \in Matches /\ match[m] # "DONE"), match' = Playing(m)
    PROVE  MatchGoesOn
  BY LiveBattleAssumption DEF TypeOK, Playing, MatchGoesOn

(* A lobby of two free players, whatever opens it.                          *)
LEMMA TwoMayMeet ==
    ASSUME IInv, NEW i \in Players, NEW r \in Players, NEW s \in LobbySide, NEW t \in LobbySide,
           NEW m, m = NoMatch \/ (m \in Matches /\ match[m] # "DONE"),
           ~ Busy(i), ~ Busy(r),
           OpenLobby(LobbyOfTwo(i, r, m, s, t), {i, r}), match' = Playing(m)
    PROVE  \E lobby, recalled : Opening(lobby, recalled)
  <1> DEFINE lobby == LobbyOfTwo(i, r, m, s, t)
  <1>1. lobby.inviter = i /\ lobby.invitee = r
    BY DEF LobbyOfTwo
  <1>2. lobby \in Lobby
    BY LiveBattleAssumption DEF LobbyOfTwo, Lobby, Seats
  <1>3. ~ AgainstNpc(lobby)
    BY <1>1, LiveBattleAssumption DEF AgainstNpc
  <1>4. MatchGoesOn
    BY PlayingGoesOn DEF IInv, Places
  <1>5. Opening(lobby, {i, r})
    BY <1>1, <1>2, <1>3, <1>4 DEF Opening
  <1> QED BY <1>5

(* A challenge to an NPC opens a lobby.                                     *)
LEMMA NpcIsChallenged ==
    ASSUME IInv, NEW p \in Players, NEW n \in Npcs, StartNpc(p, n)
    PROVE  \E lobby, recalled : Opening(lobby, recalled)
  <1>1. PICK s \in Choices(p) :
          OpenLobby(
            [inviter |-> p, invitee |-> n, format |-> NpcFormat[n], match |-> NoMatch,
             timer |-> FALSE, side |-> [seat \in Seats |->
                IF seat = "inviter" THEN s
                ELSE [ghost |-> TRUE, team |-> NpcTeam[n], ready |-> TRUE]]],
            IF s.ghost THEN {p} ELSE {})
    BY DEF StartNpc
  <1> DEFINE lobby ==
            [inviter |-> p, invitee |-> n, format |-> NpcFormat[n], match |-> NoMatch,
             timer |-> FALSE, side |-> [seat \in Seats |->
                IF seat = "inviter" THEN s
                ELSE [ghost |-> TRUE, team |-> NpcTeam[n], ready |-> TRUE]]]
  <1>2. lobby.inviter = p /\ lobby.invitee = n /\ lobby.match = NoMatch
    OBVIOUS
  <1>3. lobby \in Lobby
    <2>1. s \in LobbySide
      BY ChoicesAreSides DEF IInv, Places
    <2>2. [ghost |-> TRUE, team |-> NpcTeam[n], ready |-> TRUE] \in LobbySide
      BY LiveBattleAssumption DEF LobbySide
    <2> QED BY <2>1, <2>2, LiveBattleAssumption DEF Lobby
  <1>4. AgainstNpc(lobby) /\ n \notin Players
    BY <1>2, LiveBattleAssumption DEF AgainstNpc
  <1>5. ~ Busy(p) /\ ~ NpcBusy(n) /\ match' = match
    BY DEF StartNpc
  <1>6. MatchGoesOn
    BY <1>5 DEF IInv, Places, TypeOK, MatchGoesOn
  <1> HIDE DEF lobby
  <1>7. Opening(lobby, IF s.ghost THEN {p} ELSE {})
    BY <1>1, <1>2, <1>3, <1>4, <1>5, <1>6 DEF Opening, lobby
  <1> QED BY <1>7

(* startBattle begins a battle that its lobby leads to, or cancels the      *)
(* lobby.                                                                   *)
LEMMA LobbyBecomesBattle ==
    ASSUME IInv, NEW l \in LobbyIds, lobbies[l] # NoLobby, StartBattle(l)
    PROVE  \/ \E battle, L : Beginning(battle, L)
           \/ \E L, B, S, result : Ending(L, B, S, result)
  <1> DEFINE lobby == lobbies[l]
  <1>1. /\ lobby \in Lobby
        /\ lobby.inviter \in Players
        /\ lobby.side["inviter"] \in LobbySide /\ lobby.side["invitee"] \in LobbySide
    BY DEF IInv, Places, TypeOK, Lobby, Seats
  <1>2. ASSUME End({l}, {}, {}, "draw") /\ UNCHANGED ghostOut
        PROVE  Ending({l}, {}, {}, "draw")
    BY <1>2 DEF Ending
  <1>3. CASE AgainstNpc(lobby)
    <2> DEFINE p == lobby.inviter
               T == BattleTeam(p, lobby.side["inviter"])
               battle == [host |-> p, guest |-> p, ai |-> lobby.invitee, format |-> lobby.format,
                          match |-> NoMatch, teams |-> {T}, spectators |-> {}]
    <2>1. CASE T = {}
      BY <1>2, <1>3, <2>1 DEF StartBattle, StartNpcBattle
    <2>2. CASE T # {}
      <3>1. Begin(battle, {l})
        BY <1>3, <2>2 DEF StartBattle, StartNpcBattle
      <3>2. T \in Teams
        BY <1>1, BattleTeamIsATeam DEF IInv, Places
      <3>3. lobby.invitee \in Npcs /\ lobby.invitee \notin Players /\ lobby.match = NoMatch
        BY <1>3, LiveBattleAssumption DEF AgainstNpc, IInv, NpcLobbiesHaveNoMatch
      <3>4. battle \in Battle
        BY <1>1, <3>2, <3>3 DEF Battle, Lobby
      <3>5. Leads(l, battle)
        BY <1>1, <3>3 DEF Leads
      <3>6. Beginning(battle, {l})
        BY <3>1, <3>3, <3>4, <3>5 DEF Beginning
      <3> QED BY <3>6
    <2> QED BY <2>1, <2>2
  <1>4. CASE ~ AgainstNpc(lobby)
    <2>1. lobby.invitee \in Players
      BY <1>1, <1>4 DEF Lobby, AgainstNpc
    <2>2. CASE \A T \in TeamsNow(lobby) : Allowed(lobby, T)
      <3>1. PICK host \in {lobby.inviter, lobby.invitee} :
              Begin([host |-> host,
                     guest |-> IF host = lobby.inviter THEN lobby.invitee ELSE lobby.inviter,
                     ai |-> NoAi, format |-> lobby.format, match |-> lobby.match,
                     teams |-> {BattleTeam(lobby[seat], lobby.side[seat]) : seat \in Seats},
                     spectators |-> {}], {l})
        BY <1>4, <2>2 DEF StartBattle, StartPlayersBattle
      <3> DEFINE battle ==
              [host |-> host,
               guest |-> IF host = lobby.inviter THEN lobby.invitee ELSE lobby.inviter,
               ai |-> NoAi, format |-> lobby.format, match |-> lobby.match,
               teams |-> TeamsNow(lobby), spectators |-> {}]
      <3>2. {BattleTeam(lobby[seat], lobby.side[seat]) : seat \in Seats} = TeamsNow(lobby)
        BY <1>1 DEF Seats, TeamsNow, Lobby
      <3>3. Begin(battle, {l})
        BY <3>1, <3>2
      <3>4. TeamsNow(lobby) \subseteq Teams
        BY <1>1, <2>1, BattleTeamIsATeam DEF TeamsNow, IInv, Places
      <3>5. battle \in Battle
        BY <1>1, <2>1, <3>4 DEF Battle, Lobby
      <3>6. Leads(l, battle)
        BY <1>1, <2>1, LiveBattleAssumption DEF Leads
      <3>7. Beginning(battle, {l})
        BY <2>2, <3>3, <3>5, <3>6 DEF Beginning, Allowed
      <3> QED BY <3>7
    <2>3. CASE ~ \A T \in TeamsNow(lobby) : Allowed(lobby, T)
      BY <1>2, <1>4, <2>3 DEF StartBattle, StartPlayersBattle
    <2> QED BY <2>2, <2>3
  <1> QED BY <1>3, <1>4

(* What the messages about a lobby may change of it.                        *)
LobbyWith(old, side, format, timer) ==
    [inviter |-> old.inviter, invitee |-> old.invitee, format |-> format,
     match |-> old.match, timer |-> timer, side |-> side]

(* Changed sides.                                                           *)
LEMMA NewSide ==
    ASSUME NEW old \in Lobby, NEW s PROVE [old EXCEPT !.side = s] = LobbyWith(old, s, old.format, old.timer)
  BY DEF Lobby, LobbyWith

(* A changed timer.                                                         *)
LEMMA NewTimer ==
    ASSUME NEW old \in Lobby, NEW t PROVE [old EXCEPT !.timer = t] = LobbyWith(old, old.side, old.format, t)
  BY DEF Lobby, LobbyWith

(* A changed format, and sides with it.                                     *)
LEMMA NewFormatAndSide ==
    ASSUME NEW old \in Lobby, NEW f, NEW s
    PROVE  [old EXCEPT !.format = f, !.side = s] = LobbyWith(old, s, f, old.timer)
  <1>1. [old EXCEPT !.format = f] = LobbyWith(old, old.side, f, old.timer)
    BY DEF Lobby, LobbyWith
  <1>2. [LobbyWith(old, old.side, f, old.timer) EXCEPT !.side = s] = LobbyWith(old, s, f, old.timer)
    BY DEF LobbyWith
  <1>3. [old EXCEPT !.format = f, !.side = s] = [[old EXCEPT !.format = f] EXCEPT !.side = s]
    OBVIOUS
  <1> QED BY <1>1, <1>2, <1>3

(* p is readied or unreadied.                                               *)
Readied(p, r) ==
    /\ InLobby(p)
    /\ Update(lobbiesByPlayer[p], [LobbyOf(p) EXCEPT !.side[Seat(LobbyOf(p), p)].ready = r])

(* The lobby messages that start no battle are updates.                     *)
LEMMA LobbyMessagesUpdate ==
    ASSUME IInv, NEW p \in Players,
           \/ SetTeam(p) \/ EnableLobbyTimer(p)
           \/ \E r \in BOOLEAN : Readied(p, r)
           \/ \E f \in Formats : SetFormat(p, f)
    PROVE  \E l, lobby : Updating(l, lobby)
  <1> DEFINE l == lobbiesByPlayer[p]
             old == lobbies[l]
             seat == Seat(old, p)
  <1>1. InLobby(p)
    BY DEF SetTeam, EnableLobbyTimer, Readied, SetFormat
  <1>2. l \in LobbyIds /\ old \in Lobby /\ old # NoLobby
    BY <1>1, InALobby DEF IInv, LobbyOf
  <1>3. /\ old.inviter \in Players /\ old.invitee \in Players \cup Npcs
        /\ old.format \in Formats /\ old.match \in Matches \cup {NoMatch} /\ old.timer \in BOOLEAN
        /\ old.side \in [Seats -> LobbySide]
    BY <1>2 DEF Lobby
  <1>4. seat \in Seats /\ Other(seat) \in Seats
    BY DEF Seat, Other, Seats
  <1>5. ASSUME NEW side \in [Seats -> LobbySide], NEW format \in Formats, NEW timer \in BOOLEAN,
               Update(l, LobbyWith(old, side, format, timer))
        PROVE  \E k, lobby : Updating(k, lobby)
    <2> DEFINE new == LobbyWith(old, side, format, timer)
    <2>1. new \in Lobby /\ new.inviter = old.inviter /\ new.invitee = old.invitee /\ new.match = old.match
      BY <1>3 DEF Lobby, LobbyWith
    <2> HIDE DEF new
    <2>2. Updating(l, new)
      BY <1>2, <1>5, <2>1 DEF Updating, new
    <2> QED BY <2>2
  <1>6. CASE SetTeam(p)
    <2>1. PICK s \in Choices(p) :
            Update(l, [old EXCEPT !.side = [k \in Seats |->
                         IF k = seat THEN s
                         ELSE [old.side[k] EXCEPT !.ready = @ /\ AgainstNpc(old)]]])
      BY <1>6 DEF SetTeam
    <2> DEFINE side == [k \in Seats |->
                         IF k = seat THEN s
                         ELSE [old.side[k] EXCEPT !.ready = @ /\ AgainstNpc(old)]]
    <2>2. s \in LobbySide
      BY ChoicesAreSides DEF IInv, Places
    <2>3. side \in [Seats -> LobbySide]
      <3>1. \A k \in Seats : [old.side[k] EXCEPT !.ready = @ /\ AgainstNpc(old)] \in LobbySide
        BY <1>3 DEF LobbySide, AgainstNpc
      <3> QED BY <2>2, <3>1
    <2> HIDE DEF side
    <2>4. Update(l, LobbyWith(old, side, old.format, old.timer))
      BY <1>2, <2>1, NewSide DEF side
    <2> QED BY <1>3, <1>5, <2>3, <2>4
  <1>7. CASE EnableLobbyTimer(p)
    <2>1. Update(l, [old EXCEPT !.timer = TRUE])
      BY <1>7 DEF EnableLobbyTimer, LobbyOf
    <2>2. [old EXCEPT !.timer = TRUE] = LobbyWith(old, old.side, old.format, TRUE)
      BY <1>2, NewTimer
    <2> QED BY <1>3, <1>5, <2>1, <2>2
  <1>8. ASSUME NEW r \in BOOLEAN, Readied(p, r) PROVE \E k, lobby : Updating(k, lobby)
    <2> DEFINE side == [old.side EXCEPT ![seat].ready = r]
    <2>1. Update(l, [old EXCEPT !.side[seat].ready = r])
      BY <1>8 DEF Readied, LobbyOf
    <2>2. side \in [Seats -> LobbySide]
      BY <1>3, <1>4 DEF LobbySide
    <2>3. [old EXCEPT !.side[seat].ready = r] = [old EXCEPT !.side = side]
      BY <1>2, <1>4 DEF Lobby
    <2> HIDE DEF side
    <2>4. Update(l, LobbyWith(old, side, old.format, old.timer))
      BY <1>2, <2>1, <2>3, NewSide
    <2> QED BY <1>3, <1>5, <2>2, <2>4
  <1>9. ASSUME NEW f \in Formats, SetFormat(p, f) PROVE \E k, lobby : Updating(k, lobby)
    <2> DEFINE side == [k \in Seats |-> [old.side[k] EXCEPT !.ready = FALSE]]
    <2>1. side \in [Seats -> LobbySide]
      BY <1>3 DEF LobbySide
    <2>2. Update(l, [old EXCEPT !.format = f, !.side = side])
      BY <1>9 DEF SetFormat, LobbyOf
    <2>3. [old EXCEPT !.format = f, !.side = side] = LobbyWith(old, side, f, old.timer)
      BY <1>2, NewFormatAndSide
    <2> QED BY <1>3, <1>5, <2>1, <2>2, <2>3
  <1> QED BY <1>6, <1>7, <1>8, <1>9

(* Invitations stay between players.                                        *)
MayInvite == invites' \subseteq Players \X Players

(* An accepted invitation opens a lobby or changes nothing.                 *)
LEMMA AcceptedOrNot ==
    ASSUME IInv, NEW r \in Players, NEW i \in Players, Accept(r, i) PROVE Change /\ MayInvite
  <1>1. MayInvite
    BY DEF Accept, MayInvite, IInv, Places, TypeOK
  <1>2. CASE CanMeet(i, r)
    <2>1. PICK s \in Choices(i), t \in Choices(r) :
            /\ OpenLobby(LobbyOfTwo(i, r, MatchOf(i, r), s, t), {i, r})
            /\ match' = Playing(MatchOf(i, r))
      BY <1>2 DEF Accept
    <2>2. s \in LobbySide /\ t \in LobbySide
      BY ChoicesAreSides DEF IInv, Places
    <2>3. ~ Busy(i) /\ ~ Busy(r)
      BY <1>2 DEF CanMeet
    <2>4. \E lobby, recalled : Opening(lobby, recalled)
      BY <2>1, <2>2, <2>3, MatchOfTwo, TwoMayMeet
    <2> QED BY <1>1, <2>4 DEF Change
  <1>3. CASE ~ CanMeet(i, r)
    <2>1. UNCHANGED <<places, ghostOut>>
      BY <1>3 DEF Accept
    <2> QED BY <1>1, <2>1 DEF Change, Quiet, Objects, places, MatchGoesOn, IInv, Places, TypeOK
  <1> QED BY <1>2, <1>3

(* A player that is ready updates its lobby, or starts or cancels the       *)
(* battle.                                                                  *)
LEMMA ReadyOrBattle ==
    ASSUME IInv, NEW p \in Players, SetReady(p) PROVE Change /\ MayInvite
  <1> DEFINE l == lobbiesByPlayer[p]
             lobby == lobbies[l]
             seat == Seat(lobby, p)
  <1>1. l \in LobbyIds /\ lobby # NoLobby
    BY InALobby DEF SetReady, IInv, LobbyOf
  <1>2. CASE lobby.side[Other(seat)].ready
    <2>1. StartBattle(l) /\ UNCHANGED invites
      BY <1>2 DEF SetReady
    <2> QED BY <1>1, <2>1, LobbyBecomesBattle DEF Change, MayInvite, IInv, Places, TypeOK
  <1>3. CASE ~ lobby.side[Other(seat)].ready
    <2>1. Readied(p, TRUE)
      BY <1>3 DEF SetReady, Readied, LobbyOf
    <2>2. \E k, new : Updating(k, new)
      BY <2>1, LobbyMessagesUpdate
    <2>3. UNCHANGED invites
      BY <2>1 DEF Readied, Update
    <2> QED BY <2>2, <2>3 DEF Change, MayInvite, IInv, Places, TypeOK
  <1> QED BY <1>2, <1>3

(* A solo battle begins for a free player.                                  *)
LEMMA SoloBegins ==
    ASSUME IInv, NEW p \in Players, StartSolo(p) PROVE \E battle, L : Beginning(battle, L)
  <1> DEFINE battle == [host |-> p, guest |-> p, ai |-> Mirror, format |-> Free, match |-> NoMatch,
                        teams |-> {team[p]}, spectators |-> {}]
  <1>1. team[p] \in Teams /\ Free \in team[p]
    BY LiveBattleAssumption DEF StartSolo, IInv, Places, TypeOK
  <1>2. battle \in Battle
    BY <1>1, LiveBattleAssumption DEF Battle
  <1>3. ~ Busy(p) /\ Mirror \notin Npcs
    BY LiveBattleAssumption DEF StartSolo
  <1>4. Begin(battle, {})
    BY DEF StartSolo
  <1>5. Beginning(battle, {})
    BY <1>1, <1>2, <1>3, <1>4 DEF Beginning
  <1> QED BY <1>5

(* However else a lobby or a battle ends, it is an Ending.                  *)
LEMMA EndsAreEndings ==
    ASSUME IInv, NEW p \in Players,
           \/ LeaveLobby(p) \/ LeaveSpectating(p) \/ AdminStop(p) \/ OnDisconnect(p)
           \/ \E result : ReportResult(p, result) \/ Leave(p, result)
    PROVE  Change /\ MayInvite
  <1>1. ASSUME NEW q \in Players
        PROVE  /\ InLobby(q) => lobbiesByPlayer[q] \in LobbyIds /\ lobbies[lobbiesByPlayer[q]] # NoLobby
               /\ InBattle(q) => battlesByPlayer[q] \in BattleIds /\ battles[battlesByPlayer[q]] # NoBattle
    BY InALobby, InABattle DEF IInv, LobbyOf, BattleOf
  <1>2. MayInvite
    BY DEF MayInvite, LeaveLobby, LeaveSpectating, AdminStop, OnDisconnect,
           ReportResult, Leave, IInv, Places, TypeOK
  <1>3. CASE LeaveLobby(p)
    BY <1>1, <1>2, <1>3 DEF LeaveLobby, Change, Ending
  <1>4. CASE LeaveSpectating(p)
    BY <1>2, <1>4 DEF LeaveSpectating, Change, Ending
  <1>5. CASE AdminStop(p)
    BY <1>1, <1>2, <1>5 DEF AdminStop, Change, Ending
  <1>7. CASE OnDisconnect(p)
    <2> DEFINE L == {lobbiesByPlayer[p]} \ {NoLobby}
               B == {battlesByPlayer[p]} \ {NoBattle}
               S == {p} \cap {q \in Players : Watches(q)}
    <2>1. L \subseteq LobbyIds /\ \A l \in L : lobbies[l] # NoLobby
      BY <1>1 DEF InLobby
    <2>2. B \subseteq BattleIds /\ \A b \in B : battles[b] # NoBattle
      BY <1>1 DEF InBattle
    <2>3. End(L, B, S, "draw") /\ UNCHANGED ghostOut /\ S \subseteq Players
      BY <1>7 DEF OnDisconnect
    <2> HIDE DEF L, B, S
    <2>4. Ending(L, B, S, "draw")
      BY <2>1, <2>2, <2>3 DEF Ending
    <2> QED BY <1>2, <2>4 DEF Change
  <1>8. ASSUME NEW result, ReportResult(p, result) \/ Leave(p, result) PROVE Change
    BY <1>1, <1>8 DEF ReportResult, Leave, Change, Ending
  <1> QED BY <1>2, <1>3, <1>4, <1>5, <1>7, <1>8

(* So is the end of everything.                                             *)
LEMMA DrawsAreEndings == ASSUME IInv, EndAllAsDraw PROVE Change /\ MayInvite
  <1> DEFINE L == {lobbiesByPlayer[q] : q \in Players} \ {NoLobby}
  <1>1. L \subseteq LobbyIds /\ \A l \in L : lobbies[l] # NoLobby
    BY InALobby DEF IInv, InLobby, LobbyOf
  <1>2. Running \subseteq BattleIds /\ \A b \in Running : battles[b] # NoBattle
    BY InABattle DEF IInv, InBattle, BattleOf, Running
  <1>3. End(L, Running, {}, "draw") /\ UNCHANGED <<invites, ghostOut>>
    BY DEF EndAllAsDraw
  <1> HIDE DEF L
  <1>4. Ending(L, Running, {}, "draw")
    BY <1>1, <1>2, <1>3 DEF Ending
  <1> QED BY <1>3, <1>4 DEF Change, MayInvite, IInv, Places, TypeOK

(* Every message is a change.                                               *)
LEMMA MessageIsAChange ==
    ASSUME IInv, NEW p \in Players, Message(p) PROVE Change /\ MayInvite
  <1> USE DEF IInv, Places, TypeOK, MayInvite
  <1>1. ASSUME NEW q \in Players, Invite(p, q) \/ Uninvite(q, p) PROVE Change /\ MayInvite
    BY <1>1 DEF Invite, Uninvite, Change, Quiet, Objects, places, MatchGoesOn
  <1>2. CASE SendOut(p) \/ Recall(p)
    BY <1>2 DEF SendOut, Recall, Change, Quiet, Objects, places, MatchGoesOn
  <1>3. ASSUME NEW q \in Players, Accept(p, q) PROVE Change /\ MayInvite
    BY <1>3, AcceptedOrNot
  <1>4. ASSUME NEW q \in Players, Spectate(p, q) PROVE Change /\ MayInvite
    BY <1>4 DEF Spectate, Change
  <1>5. CASE SetTeam(p) \/ EnableLobbyTimer(p) \/ \E f \in Formats : SetFormat(p, f)
    <2>1. UNCHANGED invites
      BY <1>5 DEF SetTeam, EnableLobbyTimer, SetFormat, Update
    <2> QED BY <1>5, <2>1, LobbyMessagesUpdate DEF Change
  <1>6. CASE Unready(p)
    <2>1. Readied(p, FALSE) /\ UNCHANGED invites
      BY <1>6 DEF Unready, Readied, Update
    <2> QED BY <2>1, LobbyMessagesUpdate DEF Change
  <1>7. CASE SetReady(p)
    BY <1>7, ReadyOrBattle
  <1>8. ASSUME NEW n \in Npcs, StartNpc(p, n) PROVE Change /\ MayInvite
    <2>1. UNCHANGED invites
      BY <1>8 DEF StartNpc
    <2> QED BY <1>8, <2>1, NpcIsChallenged DEF Change
  <1>9. CASE StartSolo(p)
    <2>1. UNCHANGED invites
      BY <1>9 DEF StartSolo
    <2> QED BY <1>9, <2>1, SoloBegins DEF Change
  <1>10. CASE LeaveLobby(p) \/ LeaveSpectating(p) \/ \E result : ReportResult(p, result) \/ Leave(p, result)
    BY <1>10, EndsAreEndings
  <1> QED BY <1>1, <1>2, <1>3, <1>4, <1>5, <1>6, <1>7, <1>8, <1>9, <1>10 DEF Message

(* So is a lobby whose timer ran out.                                       *)
LEMMA ExpiryIsAChange ==
    ASSUME IInv, NEW l \in LobbyIds, ExpireLobby(l) PROVE Change /\ MayInvite
  <1>1. lobbies[l] # NoLobby /\ MayInvite
    BY DEF ExpireLobby, MayInvite, IInv, Places, TypeOK
  <1>2. CASE StartBattle(l)
    BY <1>1, <1>2, LobbyBecomesBattle DEF Change
  <1>3. CASE End({l}, {}, {}, "draw") /\ UNCHANGED ghostOut
    BY <1>1, <1>3 DEF Ending, Change
  <1> QED BY <1>2, <1>3 DEF ExpireLobby

(* A match has an opponent for each of its players.                         *)
LEMMA TwoArePaired ==
    ASSUME NEW m \in Matches, NEW i \in Paired[m]
    PROVE  i \in Players /\ (CHOOSE q \in Paired[m] : q # i) \in Paired[m] \cap Players
  <1>1. Paired[m] \subseteq Players /\ Cardinality(Paired[m]) = 2
    BY LiveBattleAssumption
  <1>2. Paired[m] # {i}
    <2>1. Cardinality({i}) = 1
      BY FS_Singleton
    <2> QED BY <1>1, <2>1
  <1>3. \E q \in Paired[m] : q # i
    BY <1>2
  <1> QED BY <1>1, <1>3

(* What the tournament does is a change, too.                               *)
LEMMA TournamentChanges ==
    ASSUME IInv, NEW m \in Matches, Reinvite(m) \/ SetResult(m) PROVE Change /\ MayInvite
  <1> USE DEF IInv, Places
  <1>1. MayInvite
    BY DEF MayInvite, TypeOK, Reinvite, SetResult
  <1>2. CASE SetResult(m)
    BY <1>1, <1>2 DEF SetResult, Change, Quiet, Objects, MatchGoesOn, TypeOK
  <1>3. CASE Reinvite(m)
    <2> DEFINE Ghosts(p) == [ghost |-> TRUE, team |-> team[p], ready |-> FALSE]
               Opponent(i) == CHOOSE q \in Paired[m] : q # i
    <2>1. match[m] # "DONE"
      BY <1>3 DEF Reinvite
    <2>2. PICK i \in Paired[m] :
            IF \A p \in Paired[m] : p \in connected /\ ~ Busy(p)
            THEN /\ OpenLobby(LobbyOfTwo(i, Opponent(i), m, Ghosts(i), Ghosts(Opponent(i))), {i, Opponent(i)})
                 /\ match' = Playing(m)
            ELSE /\ match' = [match EXCEPT ![m] = "PENDING"]
                 /\ UNCHANGED <<lobbiesByPlayer, lobbies, battlesByPlayer, battlesBySpectator,
                                battles, active, ghostOut>>
      BY <1>3 DEF Reinvite
    <2>3. i \in Players /\ Opponent(i) \in Players /\ Opponent(i) \in Paired[m]
      BY TwoArePaired
    <2>4. CASE \A p \in Paired[m] : p \in connected /\ ~ Busy(p)
      <3>1. \A p \in Players : Ghosts(p) \in LobbySide
        BY DEF TypeOK, LobbySide
      <3>2. ~ Busy(i) /\ ~ Busy(Opponent(i))
        BY <2>3, <2>4
      <3>3. OpenLobby(LobbyOfTwo(i, Opponent(i), m, Ghosts(i), Ghosts(Opponent(i))), {i, Opponent(i)})
              /\ match' = Playing(m)
        BY <2>2, <2>4
      <3>4. Ghosts(i) \in LobbySide /\ Ghosts(Opponent(i)) \in LobbySide
        BY <2>3, <3>1
      <3> HIDE DEF Ghosts, Opponent
      <3>5. \E lobby, recalled : Opening(lobby, recalled)
        BY <2>1, <2>3, <3>2, <3>3, <3>4, TwoMayMeet
      <3> QED BY <1>1, <3>5 DEF Change
    <2>5. CASE ~ \A p \in Paired[m] : p \in connected /\ ~ Busy(p)
      <3>1. Quiet
        BY <2>1, <2>2, <2>5 DEF Quiet, Objects, MatchGoesOn, TypeOK
      <3> QED BY <1>1, <3>1 DEF Change
    <2> QED BY <2>4, <2>5
  <1> QED BY <1>2, <1>3

(* Every step changes the places in one of these ways, closes orphans or is *)
(* a crash.                                                                 *)
LEMMA EveryStep ==
    ASSUME IInv, [Next]_vars
    PROVE  \/ Rest /\ Change
           \/ CloseOrphanedBattles
           \/ Crash
  <1> USE DEF IInv, Places
  <1>1. CASE Service
    <2>1. Change /\ MayInvite
      <3>1. ASSUME NEW p \in Players, Message(p) \/ AdminStop(p) PROVE Change /\ MayInvite
        BY <3>1, MessageIsAChange, EndsAreEndings
      <3>2. ASSUME NEW l \in LobbyIds, ExpireLobby(l) PROVE Change /\ MayInvite
        BY <3>2, ExpiryIsAChange
      <3>3. ASSUME NEW m \in Matches, Reinvite(m) \/ SetResult(m) PROVE Change /\ MayInvite
        BY <3>3, TournamentChanges
      <3>4. CASE EndAllAsDraw
        BY <3>4, DrawsAreEndings
      <3> QED BY <1>1, <3>1, <3>2, <3>3, <3>4 DEF Service
    <2> QED BY <1>1, <2>1 DEF Service, Rest, MayInvite, TypeOK
  <1>2. ASSUME NEW p \in Players, Connect(p) \/ Disconnect(p) \/ TeamChanges(p) PROVE Rest /\ Change
    BY <1>2 DEF Connect, Disconnect, TeamChanges, serviceVars, places, Rest, Change, Quiet, Objects,
                MatchGoesOn, TypeOK
  <1>3. ASSUME NEW p \in Players, CleanUp(p) PROVE Rest /\ Change
    <2>1. Change /\ MayInvite
      BY <1>3, EndsAreEndings DEF CleanUp
    <2> QED BY <1>3, <2>1 DEF CleanUp, Rest, MayInvite, TypeOK
  <1>4. CASE Restart \/ UNCHANGED vars
    BY <1>4 DEF Restart, vars, serviceVars, places, Rest, Change, Quiet, Objects, MatchGoesOn, TypeOK
  <1> QED BY <1>1, <1>2, <1>3, <1>4 DEF Next, Up

(* The invariant is inductive.                                              *)
LEMMA StepKeeps == ASSUME IInv, [Next]_vars PROVE IInv'
  <1>1. CASE Rest /\ Change
    BY <1>1, QuietKeeps, OpeningKeeps, UpdatingKeeps, BeginningKeeps, WatchingKeeps, EndingKeeps DEF Change
  <1> QED BY <1>1, EveryStep, CloseOrphanedBattlesKeeps, CrashKeeps

-------------------------------------------------------------------------------
(* Theorems *)

(* It always holds.                                                         *)
LEMMA Invariance == Spec => []IInv
  BY InitHolds, StepKeeps, PTL DEF Spec

(* A match that has a lobby or a battle keeps it, or is released.           *)
LEMMA StepReleases ==
    ASSUME IInv, Change, NEW m \in Matches, BoundTo(m), ~ BoundTo(m)' PROVE match'[m] # "PLAYING"
  <1> USE DEF IInv, Places
  <1>1. CASE Quiet
    BY <1>1 DEF Quiet, Objects, BoundTo, InLobby, InBattle, LobbyOf, BattleOf
  <1>2. ASSUME NEW lobby, NEW recalled, Opening(lobby, recalled) PROVE FALSE
    <2>1. PICK l \in LobbyIds :
           /\ lobbies[l] = NoLobby
           /\ lobbies' = [lobbies EXCEPT ![l] = lobby]
           /\ lobbiesByPlayer' = [p \in Players |->
                 IF p \in {lobby.inviter, lobby.invitee} THEN l ELSE lobbiesByPlayer[p]]
      BY <1>2 DEF Opening, OpenLobby
    <2>2. /\ \A p \in Players : InLobby(p) => p \notin {lobby.inviter, lobby.invitee}
          /\ UNCHANGED <<battlesByPlayer, battles>>
      BY <1>2 DEF Opening, OpenLobby, Busy
    <2>3. ASSUME NEW p \in Players, InLobby(p) PROVE InLobby(p)' /\ LobbyOf(p)' = LobbyOf(p)
      <3>1. lobbiesByPlayer'[p] = lobbiesByPlayer[p]
        BY <2>1, <2>2, <2>3
      <3>2. lobbiesByPlayer[p] \in LobbyIds /\ lobbiesByPlayer[p] # l
        BY <2>1, <2>3, InALobby DEF LobbyOf
      <3> QED BY <2>1, <2>3, <3>1, <3>2 DEF InLobby, LobbyOf, TypeOK
    <2> QED BY <2>2, <2>3 DEF BoundTo, InBattle, BattleOf
  <1>3. ASSUME NEW l, NEW lobby, Updating(l, lobby) PROVE FALSE
    <2>1. \A k \in LobbyIds : lobbies[k] # NoLobby => lobbies'[k].match = lobbies[k].match
      BY <1>3 DEF Updating, Update, TypeOK
    <2>2. UNCHANGED <<lobbiesByPlayer, battlesByPlayer, battles>>
      BY <1>3 DEF Updating, Update
    <2>3. \A p \in Players : InLobby(p) => LobbyOf(p)'.match = LobbyOf(p).match
      BY <2>1, <2>2, InALobby DEF LobbyOf
    <2> QED BY <2>2, <2>3 DEF BoundTo, InBattle, BattleOf, InLobby
  <1>4. ASSUME NEW battle, NEW L, Beginning(battle, L) PROVE FALSE
    <2>1. PICK b \in BattleIds \ active :
           /\ battles[b] = NoBattle
           /\ battles' = [battles EXCEPT ![b] = battle]
           /\ battlesByPlayer' = [p \in Players |->
                 IF p \in {battle.host, battle.guest} THEN b ELSE battlesByPlayer[p]]
      BY <1>4 DEF Beginning, Begin
    <2>2. /\ lobbiesByPlayer' = [p \in Players |->
                IF L # {} /\ p \in {battle.host, battle.guest} THEN NoLobby ELSE lobbiesByPlayer[p]]
          /\ lobbies' = [l \in LobbyIds |-> IF l \in L THEN NoLobby ELSE lobbies[l]]
          /\ battle \in Battle
      BY <1>4 DEF Beginning, Begin
    <2>3. FightersAreFree(battle, L)
      BY <1>4, FightersLeaveTheirLobby
    <2>4. ASSUME NEW p \in Players, InBattle(p) PROVE InBattle(p)' /\ BattleOf(p)' = BattleOf(p)
      <3>1. battlesByPlayer'[p] = battlesByPlayer[p]
        BY <2>1, <2>3, <2>4 DEF FightersAreFree
      <3>2. battlesByPlayer[p] \in BattleIds /\ battlesByPlayer[p] # b
        BY <2>1, <2>4, InABattle DEF BattleOf
      <3> QED BY <2>1, <2>4, <3>1, <3>2 DEF InBattle, BattleOf, TypeOK
    <2>5. ASSUME NEW p \in Players, InLobby(p), lobbiesByPlayer[p] \notin L
          PROVE  InLobby(p)' /\ LobbyOf(p)' = LobbyOf(p)
      <3>1. lobbiesByPlayer'[p] = lobbiesByPlayer[p] /\ lobbiesByPlayer[p] \in LobbyIds
        BY <2>2, <2>3, <2>5, InALobby DEF FightersAreFree
      <3> QED BY <2>2, <2>5, <3>1 DEF InLobby, LobbyOf
    <2>6. ASSUME NEW p \in Players, InLobby(p), lobbiesByPlayer[p] \in L, LobbyOf(p).match = m
          PROVE  BoundTo(m)'
      <3>1. battle.host \in Players /\ battle.match = m
        BY <1>4, <2>2, <2>6 DEF Beginning, Leads, LobbyOf, Battle
      <3>2. InBattle(battle.host)' /\ BattleOf(battle.host)' = battle
        BY <2>1, <3>1, LiveBattleAssumption DEF InBattle, BattleOf, TypeOK
      <3> QED BY <3>1, <3>2 DEF BoundTo
    <2> QED BY <2>4, <2>5, <2>6 DEF BoundTo
  <1>5. ASSUME NEW p \in Players, NEW q \in Players, Spectate(p, q) PROVE FALSE
    <2> DEFINE b == battlesByPlayer[q]
    <2>1. /\ battles' = [battles EXCEPT ![b].spectators = @ \cup {p}]
          /\ UNCHANGED <<lobbiesByPlayer, lobbies, battlesByPlayer>>
      BY <1>5 DEF Spectate
    <2>2. ASSUME NEW r \in Players, InBattle(r) PROVE BattleOf(r)'.match = BattleOf(r).match
      <3>1. battlesByPlayer[r] \in BattleIds /\ BattleOf(r) \in Battle
        BY <2>2, InABattle
      <3> QED BY <2>1, <3>1 DEF BattleOf, TypeOK, Battle
    <2> QED BY <2>1, <2>2 DEF BoundTo, InBattle, InLobby, LobbyOf
  <1>6. ASSUME NEW L, NEW B, NEW S, NEW result, Ending(L, B, S, result) PROVE match'[m] # "PLAYING"
    <2>1. match'[m] =
            LET told == IF \E l \in L : lobbies[l].match = m THEN OnLobbyCancelled(match[m]) ELSE match[m]
            IN  IF \E b \in B : battles[b].match = m THEN OnGameEnded(told, result) ELSE told
      BY <1>6 DEF Ending, End
    <2>2. ASSUME NEW p \in Players, InLobby(p), LobbyOf(p).match = m
          PROVE  \E l \in L : lobbies[l].match = m
      <3>1. CASE lobbiesByPlayer[p] \in L
        BY <2>2, <3>1 DEF LobbyOf
      <3>2. CASE lobbiesByPlayer[p] \notin L
        <4>1. lobbiesByPlayer'[p] = lobbiesByPlayer[p] /\ lobbiesByPlayer[p] \in LobbyIds
          BY <1>6, <2>2, <3>2, WhatEnds, InALobby
        <4>2. InLobby(p)' /\ LobbyOf(p)' = LobbyOf(p)
          BY <1>6, <2>2, <3>2, <4>1 DEF Ending, End, InLobby, LobbyOf
        <4> QED BY <2>2, <4>2 DEF BoundTo
      <3> QED BY <3>1, <3>2
    <2>3. ASSUME NEW p \in Players, InBattle(p), BattleOf(p).match = m
          PROVE  \E b \in B : battles[b].match = m
      <3>1. CASE battlesByPlayer[p] \in B
        BY <2>3, <3>1 DEF BattleOf
      <3>2. CASE battlesByPlayer[p] \notin B
        <4>1. battlesByPlayer'[p] = battlesByPlayer[p]
          BY <1>6, <3>2, WhatEnds
        <4>2. battlesByPlayer[p] \in BattleIds /\ BattleOf(p) \in Battle /\ BattleOf(p) # NoBattle
          BY <2>3, InABattle
        <4>3. BattleOf(p)' = [BattleOf(p) EXCEPT !.spectators = @ \ S]
          BY <1>6, <3>2, <4>1, <4>2 DEF Ending, End, BattleOf
        <4>4. BattleOf(p)'.match = BattleOf(p).match
          BY <4>2, <4>3 DEF Battle
        <4> QED BY <2>3, <4>1, <4>4 DEF BoundTo, InBattle
      <3> QED BY <3>1, <3>2
    <2> QED BY <2>1, <2>2, <2>3 DEF BoundTo, OnLobbyCancelled, OnGameEnded
  <1> QED BY <1>1, <1>2, <1>3, <1>4, <1>5, <1>6 DEF Change

(* No step opens a decided match again.                                     *)
LEMMA StepNeverReopens ==
    ASSUME IInv, Change \/ CloseOrphanedBattles \/ Crash, NEW m \in Matches, match[m] = "DONE"
    PROVE  match'[m] = "DONE"
  <1>1. CASE Quiet \/ \E lobby, recalled : Opening(lobby, recalled)
    BY <1>1 DEF Quiet, Opening, MatchGoesOn
  <1>2. ASSUME NEW L, NEW B, NEW S, NEW result, Ending(L, B, S, result) PROVE match'[m] = "DONE"
    BY <1>2 DEF Ending, End, OnLobbyCancelled, OnGameEnded
  <1>3. CASE UNCHANGED match
    BY <1>3
  <1> QED BY <1>1, <1>2, <1>3 DEF Change, Updating, Update, Beginning, Begin, Spectate,
                                  CloseOrphanedBattles, Crash

(* Every variable has its type in every reachable state.                    *)
THEOREM TypeCorrect == Spec => []TypeOK
  BY Invariance, PTL DEF IInv, Places

(* A player is in one place at most and its partner is in the same one,     *)
(* whatever invitations, challenges, timers, stops, disconnections and      *)
(* crashes cross.                                                           *)
THEOREM NobodyInTwoPlaces == Spec => []OnePlaceEach
  <1>1. IInv => OnePlaceEach
    BY OnePlaceFromPlaces DEF IInv
  <1> QED BY <1>1, Invariance, PTL

(* A player watches exactly the battle that counts it among its spectators. *)
THEOREM SpectatorsAgree == Spec => []SpectatorsKnown
  BY Invariance, PTL DEF IInv, Places

(* No Ghost is out while its player is in a lobby of two players or in a    *)
(* battle.                                                                  *)
THEOREM NoGhostInALobby == Spec => []GhostsStayIn
  BY Invariance, PTL DEF IInv

(* An NPC has one challenger at a time, in a lobby or in a battle.          *)
THEOREM NpcsFaceOne == Spec => []OneChallenger
  BY Invariance, PTL DEF IInv

(* No team fights a player or a mirror in a format that does not allow it,  *)
(* although teams change after their players were ready.                    *)
THEOREM OnlyAllowedTeamsFight == Spec => []TeamsAreAllowed
  BY Invariance, PTL DEF IInv

(* The ACTIVE rows are those of the running battles once orphans are        *)
(* closed, and contain them before, whatever a crash left.                  *)
THEOREM RowsAreThoseOfRunningBattles == Spec => []RowsOfRunningBattles
  BY Invariance, PTL DEF IInv

(* A match whose lobby or battle ends does not stay PLAYING, unless the     *)
(* process does not survive it.                                             *)
THEOREM MatchesAreReleased == Spec => MatchReleased
  <1>1. ASSUME IInv, [Next]_vars
        PROVE  [\A m \in Matches :
                  (BoundTo(m) /\ ~ BoundTo(m)' /\ phase' # "down") => match'[m] # "PLAYING"]_vars
    <2>1. CASE Change
      BY <1>1, <2>1, StepReleases
    <2>2. CASE CloseOrphanedBattles
      BY <2>2 DEF CloseOrphanedBattles, BoundTo, InLobby, InBattle, LobbyOf, BattleOf
    <2>3. CASE Crash
      BY <2>3 DEF Crash
    <2> QED BY <1>1, <2>1, <2>2, <2>3, EveryStep
  <1> QED BY <1>1, Invariance, PTL DEF Spec, MatchReleased

(* What becomes of a game that is prepared or played never opens a decided  *)
(* match again.                                                             *)
THEOREM DecidedStaysDecided == Spec => DecidedForGood
  <1>1. ASSUME IInv, [Next]_vars
        PROVE  [\A m \in Matches : match[m] = "DONE" => match'[m] = "DONE"]_vars
    BY <1>1, EveryStep, StepNeverReopens
  <1> QED BY <1>1, Invariance, PTL DEF Spec, DecidedForGood
====
