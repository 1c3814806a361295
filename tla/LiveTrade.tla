------------------------------- MODULE LiveTrade -------------------------------
(***************************************************************************)
(* LiveTradeService: invitations and trade sessions, in memory, over the   *)
(* players' connections.  Every method holds the service's one lock, so it *)
(* is one action; the completing transaction runs under that lock.         *)
(*                                                                         *)
(* An invitation is named by its two players: inviting the same player     *)
(* again replaces the uuid, and an answer to a uuid that is no longer      *)
(* there is one of the refused messages.                                   *)
(***************************************************************************)
EXTENDS Connections

CONSTANTS
    PokemonIds,
    NoPokemon,
    SessionIds,     \* enough of them never to run out of unused ones
    NoSession

VARIABLES
    invites,            \* invites[i][r]: what i's invitation to r has become
    sessionsByPlayer,   \* the session each player takes part in
    sessions,           \* the LiveTradeSession objects
    team,               \* the player in whose active team each Pokemon is
    screen,             \* what the trade messages told each player's client
    agreed              \* the offers each player last declared to be ready for

tradeVars == <<invites, sessionsByPlayer, sessions, team, screen, agreed>>
vars == <<connectionVars, tradeVars>>

Offer == PokemonIds \cup {NoPokemon}
Pair == [own : Offer, partner : Offer]
NoPair == [own |-> NoPokemon, partner |-> NoPokemon]

LiveTradeSession ==
    [initiator : Players, recipient : Players,
     offer : [Players -> Offer], ready : [Players -> BOOLEAN]]

ASSUME LiveTradeAssumption ==
    /\ NoPokemon \notin PokemonIds
    /\ NoSession \notin SessionIds
    /\ NoSession \notin LiveTradeSession

Screen == [session : SessionIds \cup {NoSession}, offers : Pair]
BlankScreen == [session |-> NoSession, offers |-> NoPair]

TypeOK ==
    /\ ConnectionsTypeOK
    /\ invites \in [Players -> [Players -> {"none", "fresh", "expired"}]]
    /\ sessionsByPlayer \in [Players -> SessionIds \cup {NoSession}]
    /\ sessions \in [SessionIds -> LiveTradeSession \cup {NoSession}]
    /\ team \in [PokemonIds -> Players \cup {Nobody}]
    /\ screen \in [Players -> Screen]
    /\ agreed \in [Players -> Pair]

Init ==
    /\ ConnectionsInit
    /\ invites = [p \in Players |-> [q \in Players |-> "none"]]
    /\ sessionsByPlayer = [p \in Players |-> NoSession]
    /\ sessions = [s \in SessionIds |-> NoSession]
    /\ team \in [PokemonIds -> Players]
    /\ screen = [p \in Players |-> BlankScreen]
    /\ agreed = [p \in Players |-> NoPair]

-------------------------------------------------------------------------------
InSession(p) == sessionsByPlayer[p] # NoSession
SessionOf(p) == sessions[sessionsByPlayer[p]]
Parties(s) == {sessions[s].initiator, sessions[s].recipient}
PartnerIn(session, p) ==
    IF session.initiator = p THEN session.recipient ELSE session.initiator
PartnerOf(p) == PartnerIn(SessionOf(p), p)

(* Both offers as p sees them.                                              *)
OffersFor(session, p) ==
    [own |-> session.offer[p], partner |-> session.offer[PartnerIn(session, p)]]

BothOffersChosen(session) ==
    \A p \in {session.initiator, session.recipient} : session.offer[p] # NoPokemon

BothReady(session) == \A p \in {session.initiator, session.recipient} : session.ready[p]

(* A uuid no map, and no client, knows.                                     *)
Unused(s) == \A p \in Players : s # sessionsByPlayer[p] /\ s # screen[p].session

(* SessionRegistry.send: told[p] is what p is to see; those whose           *)
(* connection is not open miss it.                                          *)
Show(told) ==
    screen' = [p \in Players |->
                  IF p \in DOMAIN told /\ IsConnected(p) THEN told[p] ELSE screen[p]]

Blank(players) == [q \in players |-> BlankScreen]

(* Mutant: the recipient's entry stays in the map. *)
EndForInitiator(s) ==
    /\ sessionsByPlayer' = [sessionsByPlayer EXCEPT ![sessions[s].initiator] = NoSession]
    /\ sessions' = [sessions EXCEPT ![s] = NoSession]
    /\ agreed' = [p \in Players |-> IF p \in Parties(s) THEN NoPair ELSE agreed[p]]

(* end: the session object is forgotten with its two map entries.           *)
End(s) ==
    /\ sessionsByPlayer' =
          [p \in Players |-> IF p \in Parties(s) THEN NoSession ELSE sessionsByPlayer[p]]
    /\ sessions' = [sessions EXCEPT ![s] = NoSession]
    /\ agreed' = [p \in Players |-> IF p \in Parties(s) THEN NoPair ELSE agreed[p]]

-------------------------------------------------------------------------------
(* TradeInvite *)
Invite(p, q) ==
    /\ p # q
    /\ ~ InSession(p)
    /\ IsConnected(q)
    /\ ~ InSession(q)
    /\ invites' = [invites EXCEPT ![p][q] = "fresh"]
    /\ UNCHANGED <<sessionsByPlayer, sessions, team, screen, agreed>>

(* Mutant: the invitation is kept with a status of its own. *)
DeclineKept(p, i) ==
    /\ invites[i][p] # "none"
    /\ invites' = [invites EXCEPT ![i][p] = "declined"]
    /\ UNCHANGED <<sessionsByPlayer, sessions, team, screen, agreed>>

(* TradeInviteResponse, a refusal or an answer that comes too late: an      *)
(* expired invitation is removed here and nowhere else.                     *)
Decline(p, i) ==
    /\ invites[i][p] # "none"
    /\ invites' = [invites EXCEPT ![i][p] = "none"]
    /\ UNCHANGED <<sessionsByPlayer, sessions, team, screen, agreed>>

(* Mutant: the inviter is not asked to be connected. *)
CanStartWithoutInviter(i, p) == ~ InSession(p) /\ ~ InSession(i)

CanStart(i, p) == ~ InSession(p) /\ IsConnected(i) /\ ~ InSession(i)

StartSession(i, p, s) ==
    /\ Unused(s)
    /\ sessionsByPlayer' = [sessionsByPlayer EXCEPT ![i] = s, ![p] = s]
    /\ sessions' = [sessions EXCEPT ![s] =
          [initiator |-> i, recipient |-> p,
           offer |-> [q \in Players |-> NoPokemon], ready |-> [q \in Players |-> FALSE]]]
    /\ Show([q \in {i, p} |-> [session |-> s, offers |-> NoPair]])

(* TradeInviteResponse(accept): the invitation is consumed even when the    *)
(* session is then refused.                                                 *)
Accept(p, i) ==
    /\ invites[i][p] = "fresh"
    /\ invites' = [invites EXCEPT ![i][p] = "none"]
    /\ IF CanStart(i, p)
       THEN \E s \in SessionIds : StartSession(i, p, s)
       ELSE UNCHANGED <<sessionsByPlayer, sessions, screen>>
    /\ UNCHANGED <<team, agreed>>

(* broadcastUpdate *)
ShowOffers(s, session) ==
    Show([q \in Parties(s) |-> [session |-> s, offers |-> OffersFor(session, q)]])

(* Mutant: only the side that changes its offer stops being ready. *)
OfferSetKeepingPartnerReady(session, p, x) ==
    [session EXCEPT !.offer[p] = x, !.ready[p] = FALSE]

(* LiveTradeSession.setOffer *)
OfferSet(session, p, x) ==
    [session EXCEPT !.offer[p] = x, !.ready = [q \in Players |-> FALSE]]

(* TradeSelectOffer *)
SelectOffer(p, x) ==
    LET s == sessionsByPlayer[p] IN
    /\ InSession(p)
    /\ team[x] = p
    /\ sessions' = [sessions EXCEPT ![s] = OfferSet(sessions[s], p, x)]
    /\ ShowOffers(s, OfferSet(sessions[s], p, x))
    /\ agreed' = [q \in Players |-> IF q \in Parties(s) THEN NoPair ELSE agreed[q]]
    /\ UNCHANGED <<invites, sessionsByPlayer, team>>

Withdraw(p) ==
    /\ InSession(p)
    /\ sessions' = [sessions EXCEPT ![sessionsByPlayer[p]].ready[p] = FALSE]
    /\ ShowOffers(sessionsByPlayer[p], SessionOf(p))
    /\ agreed' = [agreed EXCEPT ![p] = NoPair]
    /\ UNCHANGED <<invites, sessionsByPlayer, team>>

(* completeLiveTrade's own conditions, read again in the transaction.       *)
StillTradable(session) ==
    \A p \in {session.initiator, session.recipient} : team[session.offer[p]] = p

Swapped(session) ==
    [x \in PokemonIds |->
        IF x = session.offer[session.initiator] THEN session.recipient
        ELSE IF x = session.offer[session.recipient] THEN session.initiator
        ELSE team[x]]

(* Mutant: the offers are not read again. *)
CompleteUnchecked(s, session) ==
    /\ End(s)
    /\ team' = Swapped(session)
    /\ Show(Blank(Parties(s)))

(* complete: the session ends first; any exception of the transaction is    *)
(* told to both as a cancellation.                                          *)
Complete(s, session) ==
    /\ End(s)
    /\ \/ StillTradable(session) /\ team' = Swapped(session)
       \/ UNCHANGED team
    /\ Show(Blank(Parties(s)))

(* TradeSetReady(true): the message does not say for which offers.          *)
SetReady(p) ==
    LET s == sessionsByPlayer[p]
        session == [sessions[s] EXCEPT !.ready[p] = TRUE]
    IN  /\ InSession(p)
        /\ BothOffersChosen(sessions[s])
        /\ IF BothReady(session)
           THEN Complete(s, session)
           ELSE /\ sessions' = [sessions EXCEPT ![s] = session]
                /\ ShowOffers(s, session)
                /\ agreed' = [agreed EXCEPT ![p] = OffersFor(session, p)]
                /\ UNCHANGED <<sessionsByPlayer, team>>
        /\ UNCHANGED invites

(* Mutant: the partner is not told. *)
CancelSilently(p) ==
    IF InSession(p)
    THEN End(sessionsByPlayer[p]) /\ UNCHANGED screen
    ELSE UNCHANGED <<sessionsByPlayer, sessions, agreed, screen>>

(* cancel: only the partner is told.                                        *)
Cancel(p) ==
    IF InSession(p)
    THEN /\ End(sessionsByPlayer[p])
         /\ Show(Blank({PartnerOf(p)}))
    ELSE UNCHANGED <<sessionsByPlayer, sessions, agreed, screen>>

(* TradeLeave: the client that leaves has closed its own screen.            *)
Leave(p) ==
    /\ InSession(p)
    /\ End(sessionsByPlayer[p])
    /\ Show(Blank(Parties(sessionsByPlayer[p])))
    /\ UNCHANGED <<invites, team>>

(* Mutant: only the invitations are forgotten. *)
OnDisconnectInvites(p) ==
    /\ invites' = [i \in Players |-> [r \in Players |->
                      IF p \in {i, r} THEN "none" ELSE invites[i][r]]]
    /\ UNCHANGED <<sessionsByPlayer, sessions, agreed, screen, team>>

(* onDisconnect *)
OnDisconnect(p) ==
    /\ invites' = [i \in Players |-> [r \in Players |->
                      IF p \in {i, r} THEN "none" ELSE invites[i][r]]]
    /\ Cancel(p)
    /\ UNCHANGED team

-------------------------------------------------------------------------------
(* A connection opens with no trade screen.                                 *)
Connect(p, c) ==
    /\ Register(p, c)
    /\ screen' = [screen EXCEPT ![p] = BlankScreen]
    /\ UNCHANGED <<invites, sessionsByPlayer, sessions, team, agreed>>

Disconnect(p, c) == (Drop(p, c) \/ Unregister(p, c)) /\ UNCHANGED tradeVars

CleanUp(p, c) == CleanedUp(p, c) /\ OnDisconnect(p)

Sweep(p) ==
    \/ Expire(p) /\ UNCHANGED tradeVars
    \/ ExpireCleanedUp(p) /\ OnDisconnect(p)
    \/ ExpireClose(p) /\ UNCHANGED tradeVars

Read(p, c) == Receive(p, c) /\ UNCHANGED tradeVars

Message(p) ==
    \/ \E q \in Players : Invite(p, q) \/ Decline(p, q) \/ Accept(p, q)
    \/ \E x \in PokemonIds : SelectOffer(p, x)
    \/ Withdraw(p)
    \/ SetReady(p)
    \/ Leave(p)

(* A refused message changes nothing.                                       *)
Refused == UNCHANGED <<invites, sessionsByPlayer, sessions, team, screen, agreed>>

Handle(p, c) ==
    /\ Handled(p, c)
    /\ Message(p) \/ Refused

(* 60 seconds have passed.                                                  *)
InviteExpires(i, r) ==
    /\ invites[i][r] = "fresh"
    /\ invites' = [invites EXCEPT ![i][r] = "expired"]
    /\ UNCHANGED <<connectionVars, sessionsByPlayer, sessions, team, screen, agreed>>

(* Other requests move a Pokemon out of a team or into one, or trade it.    *)
TeamChanges(x) ==
    /\ \/ team[x] # Nobody /\ team' = [team EXCEPT ![x] = Nobody]
       \/ team[x] = Nobody /\ \E p \in Players : team' = [team EXCEPT ![x] = p]
    /\ UNCHANGED <<connectionVars, invites, sessionsByPlayer, sessions, screen, agreed>>

Step(p, c) == Connect(p, c) \/ Disconnect(p, c) \/ CleanUp(p, c) \/ Read(p, c) \/ Handle(p, c)

Next ==
    \/ \E p \in Players, c \in Connections : Step(p, c)
    \/ \E p \in Players : Sweep(p)
    \/ \E i, r \in Players : InviteExpires(i, r)
    \/ \E x \in PokemonIds : TeamChanges(x)

Spec == Init /\ [][Next]_vars

(* Tomcat calls afterConnectionClosed for every closed connection; the      *)
(* service's lock is held for a bounded time.                               *)
Fairness ==
    \A p \in Players, c \in Connections :
        WF_vars(Unregister(p, c) /\ UNCHANGED tradeVars) /\ WF_vars(CleanUp(p, c))

FairSpec == Spec /\ Fairness

-------------------------------------------------------------------------------
(* Properties *)

(* Sessions join two players symmetrically: each of them is found in the    *)
(* session of the other, whatever crossing invitations, departures and      *)
(* expiries there were, so nobody is in two sessions or in half of one.     *)
SessionsPairTwo ==
    \A p \in Players : InSession(p) =>
        /\ SessionOf(p) # NoSession
        /\ p \in Parties(sessionsByPlayer[p])
        /\ PartnerOf(p) # p
        /\ sessionsByPlayer[PartnerOf(p)] = sessionsByPlayer[p]

(* Whoever is in a session is connected, or the cleanup that will end the   *)
(* session is on its way: a message handled after the sender's connection   *)
(* was cleaned up must not bring it back into one.                          *)
SessionsOfTheConnected ==
    \A p \in Players : InSession(p) => registered[p] # NoConnection \/ CleanupPending(p)

(* A connected player's trade screen shows a session the server still has,  *)
(* and its current offers.                                                  *)
ScreensAreCurrent ==
    \A p \in Players :
        (IsConnected(p) /\ screen[p].session # NoSession) =>
            /\ sessionsByPlayer[p] = screen[p].session
            /\ screen[p].offers = OffersFor(SessionOf(p), p)

(* Readiness holds for the two offers it was declared for: an offer changed *)
(* by either side afterwards cancels it.                                    *)
ReadyForTheseOffers ==
    \A p \in Players :
        (InSession(p) /\ SessionOf(p).ready[p]) => agreed[p] = OffersFor(SessionOf(p), p)

(* A Pokemon passes from team to team only in a session of the two players, *)
(* offered by the one who has it, against the other's offer, which goes the *)
(* other way in the same step.                                              *)
SwapsAreOffered ==
    [][\A x \in PokemonIds, p, q \in Players :
          (p # q /\ team[x] = p /\ team'[x] = q) =>
             /\ InSession(p)
             /\ PartnerOf(p) = q
             /\ SessionOf(p).offer[p] = x
             /\ LET y == SessionOf(p).offer[q] IN team[y] = q /\ team'[y] = p]_vars

(* A player who never comes back does not keep its partner in a session.    *)
AbsentPartnerIsLeft ==
    \A p \in Players :
        <>[](registered[p] = NoConnection) => <>[](~ InSession(p))

===============================================================================
