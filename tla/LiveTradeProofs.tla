---------------------------- MODULE LiveTradeProofs ----------------------------
(***************************************************************************)
(* Proofs about LiveTrade, for any players, connections, Pokemon and       *)
(* session uuids.                                                          *)
(*                                                                         *)
(* SessionsPairTwo is inductive once an invitation is known to join two    *)
(* different players; readiness and presence are proved on top of it.      *)
(***************************************************************************)
EXTENDS LiveTrade, ConnectionsTheorems

(* Nobody is invited by itself. *)
InvitesJoinTwo == \A p \in Players : invites[p][p] = "none"

TradeTypeOK ==
    /\ invites \in [Players -> [Players -> {"none", "fresh", "expired"}]]
    /\ sessionsByPlayer \in [Players -> SessionIds \cup {NoSession}]
    /\ sessions \in [SessionIds -> LiveTradeSession \cup {NoSession}]
    /\ team \in [PokemonIds -> Players \cup {Nobody}]
    /\ screen \in [Players -> Screen]
    /\ agreed \in [Players -> Pair]

(* The part of the invariant a message can disturb. *)
TradeInv == TradeTypeOK /\ InvitesJoinTwo /\ SessionsPairTwo /\ ReadyForTheseOffers

IInv == ConnectionsTypeOK /\ TradeInv

-------------------------------------------------------------------------------
(* What the helpers do to the state. *)

LEMMA ShowType ==
    ASSUME TradeTypeOK, NEW told, NEW D \in SUBSET Players, DOMAIN told = D,
           \A p \in D : told[p] \in Screen, Show(told)
    PROVE  screen' \in [Players -> Screen]
  BY DEF Show, TradeTypeOK

LEMMA SessionIsOne ==
    ASSUME TradeTypeOK, SessionsPairTwo, NEW p \in Players, InSession(p)
    PROVE  /\ sessionsByPlayer[p] \in SessionIds
           /\ SessionOf(p) \in LiveTradeSession
           /\ Parties(sessionsByPlayer[p]) = {p, PartnerOf(p)}
           /\ PartnerOf(p) \in Players
           /\ \A q \in Players : sessionsByPlayer[q] = sessionsByPlayer[p] => q \in {p, PartnerOf(p)}
  BY LiveTradeAssumption
  DEF TradeTypeOK, SessionsPairTwo, InSession, SessionOf, Parties, PartnerOf, PartnerIn, LiveTradeSession

LEMMA OffersForType ==
    ASSUME NEW session \in LiveTradeSession, NEW p \in Players
    PROVE  OffersFor(session, p) \in Pair
  BY DEF OffersFor, Pair, PartnerIn, LiveTradeSession

LEMMA NoPairType == NoPair \in Pair
  BY DEF NoPair, Pair, Offer

(* The maps after `end'. *)
LEMMA EndKeeps ==
    ASSUME TradeInv, NEW p \in Players, InSession(p), End(sessionsByPlayer[p])
    PROVE  /\ sessionsByPlayer' \in [Players -> SessionIds \cup {NoSession}]
           /\ sessions' \in [SessionIds -> LiveTradeSession \cup {NoSession}]
           /\ agreed' \in [Players -> Pair]
           /\ \A q \in Players : sessionsByPlayer'[q] # NoSession =>
                 /\ sessionsByPlayer'[q] = sessionsByPlayer[q]
                 /\ sessions'[sessionsByPlayer[q]] = sessions[sessionsByPlayer[q]]
                 /\ agreed'[q] = agreed[q]
           /\ SessionsPairTwo'
           /\ ReadyForTheseOffers'
  <1> USE DEF TradeInv
  <1> DEFINE s == sessionsByPlayer[p]
  <1>1. s \in SessionIds /\ Parties(s) = {p, PartnerOf(p)} /\ PartnerOf(p) \in Players
        /\ \A q \in Players : sessionsByPlayer[q] = s => q \in Parties(s)
    BY SessionIsOne
  <1>2. /\ sessionsByPlayer' \in [Players -> SessionIds \cup {NoSession}]
        /\ sessions' \in [SessionIds -> LiveTradeSession \cup {NoSession}]
        /\ agreed' \in [Players -> Pair]
    BY <1>1, NoPairType DEF End, TradeTypeOK
  <1>3. ASSUME NEW q \in Players, sessionsByPlayer'[q] # NoSession
        PROVE  /\ q \notin Parties(s)
               /\ sessionsByPlayer'[q] = sessionsByPlayer[q]
               /\ sessionsByPlayer[q] \in SessionIds
               /\ sessionsByPlayer[q] # s
               /\ sessions'[sessionsByPlayer[q]] = sessions[sessionsByPlayer[q]]
               /\ agreed'[q] = agreed[q]
    BY <1>1, <1>3 DEF End, TradeTypeOK
  <1>4. SessionsPairTwo'
    <2> SUFFICES ASSUME NEW q \in Players, InSession(q)'
                 PROVE  /\ (SessionOf(q) # NoSession)'
                        /\ (q \in Parties(sessionsByPlayer[q]))'
                        /\ (PartnerOf(q) # q)'
                        /\ (sessionsByPlayer[PartnerOf(q)] = sessionsByPlayer[q])'
      BY DEF SessionsPairTwo
    <2>1. q \notin Parties(s) /\ sessionsByPlayer'[q] = sessionsByPlayer[q]
          /\ sessions'[sessionsByPlayer[q]] = sessions[sessionsByPlayer[q]] /\ InSession(q)
          /\ sessionsByPlayer[q] # s
      BY <1>3 DEF InSession
    <2>2. /\ SessionOf(q) # NoSession /\ q \in Parties(sessionsByPlayer[q]) /\ PartnerOf(q) # q
          /\ sessionsByPlayer[PartnerOf(q)] = sessionsByPlayer[q] /\ PartnerOf(q) \in Players
      BY <2>1, SessionIsOne DEF SessionsPairTwo
    <2>3. PartnerOf(q)' = PartnerOf(q) /\ SessionOf(q)' = SessionOf(q)
          /\ Parties(sessionsByPlayer[q])' = Parties(sessionsByPlayer[q])
      BY <2>1 DEF PartnerOf, SessionOf, Parties
    <2>4. PartnerOf(q) \notin Parties(s)
      <3>1. sessionsByPlayer[PartnerOf(q)] # s
        BY <2>1, <2>2
      <3>2. \A r \in Parties(s) : sessionsByPlayer[r] = s
        BY <1>1 DEF SessionsPairTwo
      <3> QED BY <3>1, <3>2
    <2>5. sessionsByPlayer'[PartnerOf(q)] = sessionsByPlayer[PartnerOf(q)]
      BY <2>2, <2>4 DEF End
    <2> QED BY <2>1, <2>2, <2>3, <2>5
  <1>5. ReadyForTheseOffers'
    <2> SUFFICES ASSUME NEW q \in Players, InSession(q)', SessionOf(q)'.ready[q]
                 PROVE  agreed'[q] = OffersFor(SessionOf(q)', q)
      BY DEF ReadyForTheseOffers
    <2>1. InSession(q) /\ SessionOf(q)' = SessionOf(q) /\ agreed'[q] = agreed[q]
      BY <1>3 DEF InSession, SessionOf
    <2> QED BY <2>1 DEF ReadyForTheseOffers
  <1> QED BY <1>2, <1>3, <1>4, <1>5

(* A session object is replaced by one of the same two players. *)
LEMMA RewriteKeeps ==
    ASSUME TradeTypeOK, SessionsPairTwo, NEW p \in Players, InSession(p),
           NEW session \in LiveTradeSession,
           session.initiator = SessionOf(p).initiator, session.recipient = SessionOf(p).recipient,
           sessions' = [sessions EXCEPT ![sessionsByPlayer[p]] = session],
           UNCHANGED sessionsByPlayer
    PROVE  /\ sessions' \in [SessionIds -> LiveTradeSession \cup {NoSession}]
           /\ SessionsPairTwo'
           /\ \A q \in Players : InSession(q) =>
                 SessionOf(q)' = IF sessionsByPlayer[q] = sessionsByPlayer[p] THEN session ELSE SessionOf(q)
  <1>1. sessionsByPlayer[p] \in SessionIds
    BY SessionIsOne
  <1>2. sessions' \in [SessionIds -> LiveTradeSession \cup {NoSession}]
    BY <1>1 DEF TradeTypeOK
  <1>3. ASSUME NEW q \in Players, InSession(q)
        PROVE  SessionOf(q)' = IF sessionsByPlayer[q] = sessionsByPlayer[p] THEN session ELSE SessionOf(q)
    <2>1. sessionsByPlayer[q] \in SessionIds
      BY <1>3, SessionIsOne
    <2> QED BY <2>1, <1>1 DEF SessionOf, TradeTypeOK
  <1>4. ASSUME NEW q \in Players, InSession(q)
        PROVE  /\ SessionOf(q)'.initiator = SessionOf(q).initiator
               /\ SessionOf(q)'.recipient = SessionOf(q).recipient
               /\ SessionOf(q)' # NoSession
    <2>1. CASE sessionsByPlayer[q] = sessionsByPlayer[p]
      BY <1>3, <1>4, <2>1, LiveTradeAssumption DEF SessionOf
    <2>2. CASE sessionsByPlayer[q] # sessionsByPlayer[p]
      BY <1>3, <1>4, <2>2 DEF SessionsPairTwo
    <2> QED BY <2>1, <2>2
  <1>5. SessionsPairTwo'
    <2> SUFFICES ASSUME NEW q \in Players, InSession(q)'
                 PROVE  /\ (SessionOf(q) # NoSession)'
                        /\ (q \in Parties(sessionsByPlayer[q]))'
                        /\ (PartnerOf(q) # q)'
                        /\ (sessionsByPlayer[PartnerOf(q)] = sessionsByPlayer[q])'
      BY DEF SessionsPairTwo
    <2>1. InSession(q) /\ sessionsByPlayer' = sessionsByPlayer
      BY DEF InSession
    <2>2. PartnerOf(q)' = PartnerOf(q) /\ Parties(sessionsByPlayer[q])' = Parties(sessionsByPlayer[q])
      BY <1>4, <2>1 DEF PartnerOf, PartnerIn, Parties, SessionOf
    <2> QED BY <1>4, <2>1, <2>2 DEF SessionsPairTwo
  <1> QED BY <1>2, <1>3, <1>5

LEMMA ShowOffersType ==
    ASSUME TradeTypeOK, NEW s \in SessionIds, NEW session \in LiveTradeSession,
           Parties(s) \subseteq Players, ShowOffers(s, session)
    PROVE  screen' \in [Players -> Screen]
  <1> DEFINE told == [q \in Parties(s) |-> [session |-> s, offers |-> OffersFor(session, q)]]
  <1>1. \A q \in Parties(s) : told[q] \in Screen
    BY OffersForType DEF Screen
  <1>2. DOMAIN told = Parties(s) /\ Show(told)
    BY DEF ShowOffers
  <1> HIDE DEF told
  <1> QED BY <1>1, <1>2, ShowType

LEMMA BlankType ==
    ASSUME TradeTypeOK, NEW D \in SUBSET Players, Show(Blank(D))
    PROVE  screen' \in [Players -> Screen]
  <1>1. DOMAIN Blank(D) = D /\ \A q \in D : Blank(D)[q] \in Screen
    BY NoPairType DEF Blank, BlankScreen, Screen
  <1> QED BY <1>1, ShowType

-------------------------------------------------------------------------------
(* Each message keeps TradeInv. *)

LEMMA InviteKeeps ==
    ASSUME TradeInv, NEW p \in Players, NEW q \in Players, Invite(p, q)
    PROVE  TradeInv'
  <1> USE DEF TradeInv
  <1>1. TradeTypeOK' /\ InvitesJoinTwo'
    BY DEF Invite, TradeTypeOK, InvitesJoinTwo
  <1>2. SessionsPairTwo' /\ ReadyForTheseOffers'
    BY DEF Invite, SessionsPairTwo, ReadyForTheseOffers, InSession, SessionOf, PartnerOf, Parties
  <1> QED BY <1>1, <1>2

LEMMA DeclineKeeps ==
    ASSUME TradeInv, NEW p \in Players, NEW i \in Players, Decline(p, i)
    PROVE  TradeInv'
  <1> USE DEF TradeInv
  <1>1. TradeTypeOK' /\ InvitesJoinTwo'
    BY DEF Decline, TradeTypeOK, InvitesJoinTwo
  <1>2. SessionsPairTwo' /\ ReadyForTheseOffers'
    BY DEF Decline, SessionsPairTwo, ReadyForTheseOffers, InSession, SessionOf, PartnerOf, Parties
  <1> QED BY <1>1, <1>2

LEMMA StartKeeps ==
    ASSUME TradeInv, NEW p \in Players, NEW i \in Players, p # i,
           NEW s \in SessionIds, StartSession(i, p, s), ~ InSession(i), ~ InSession(p),
           UNCHANGED agreed
    PROVE  /\ sessionsByPlayer' \in [Players -> SessionIds \cup {NoSession}]
           /\ sessions' \in [SessionIds -> LiveTradeSession \cup {NoSession}]
           /\ screen' \in [Players -> Screen]
           /\ SessionsPairTwo'
           /\ ReadyForTheseOffers'
  <1> USE DEF TradeInv
  <1> DEFINE new == [initiator |-> i, recipient |-> p,
                     offer |-> [q \in Players |-> NoPokemon], ready |-> [q \in Players |-> FALSE]]
  <1>1. new \in LiveTradeSession /\ new # NoSession
    <2>1. new \in LiveTradeSession
      BY DEF LiveTradeSession, Offer
    <2> QED BY <2>1, LiveTradeAssumption
  <1>2. /\ sessionsByPlayer' = [sessionsByPlayer EXCEPT ![i] = s, ![p] = s]
        /\ sessions' = [sessions EXCEPT ![s] = new]
        /\ Unused(s)
        /\ Show([q \in {i, p} |-> [session |-> s, offers |-> NoPair]])
    BY DEF StartSession
  <1>3. new.initiator = i /\ new.recipient = p /\ \A q \in Players : ~ new.ready[q]
    OBVIOUS
  <1> HIDE DEF new
  <1>4. /\ sessionsByPlayer' \in [Players -> SessionIds \cup {NoSession}]
        /\ sessions' \in [SessionIds -> LiveTradeSession \cup {NoSession}]
    BY <1>1, <1>2 DEF TradeTypeOK
  <1>5. screen' \in [Players -> Screen]
    <2> DEFINE told == [q \in {i, p} |-> [session |-> s, offers |-> NoPair]]
    <2>1. DOMAIN told = {i, p} /\ {i, p} \in SUBSET Players /\ \A q \in {i, p} : told[q] \in Screen
      BY NoPairType DEF Screen
    <2>2. Show(told)
      BY <1>2
    <2> HIDE DEF told
    <2> QED BY <2>1, <2>2, ShowType
  <1>6. ASSUME NEW q \in {i, p}
        PROVE  sessionsByPlayer'[q] = s /\ sessions'[s] = new
    BY <1>2 DEF TradeTypeOK
  <1>7. ASSUME NEW q \in Players \ {i, p}, InSession(q)
        PROVE  /\ sessionsByPlayer'[q] = sessionsByPlayer[q]
               /\ sessionsByPlayer[q] \in SessionIds
               /\ sessions'[sessionsByPlayer[q]] = sessions[sessionsByPlayer[q]]
               /\ PartnerOf(q) \in Players \ {i, p}
               /\ sessionsByPlayer'[PartnerOf(q)] = sessionsByPlayer[PartnerOf(q)]
    <2>1. sessionsByPlayer[q] \in SessionIds /\ PartnerOf(q) \in Players
      BY <1>7, SessionIsOne
    <2>2. sessionsByPlayer'[q] = sessionsByPlayer[q] /\ sessionsByPlayer[q] # s
      BY <1>2 DEF TradeTypeOK, Unused
    <2>3. InSession(PartnerOf(q))
      BY <1>7 DEF SessionsPairTwo, InSession
    <2>4. PartnerOf(q) \notin {i, p}
      BY <2>3
    <2> QED BY <1>2, <2>1, <2>2, <2>4 DEF TradeTypeOK
  <1>8. SessionsPairTwo'
    <2> SUFFICES ASSUME NEW q \in Players, InSession(q)'
                 PROVE  /\ (SessionOf(q) # NoSession)'
                        /\ (q \in Parties(sessionsByPlayer[q]))'
                        /\ (PartnerOf(q) # q)'
                        /\ (sessionsByPlayer[PartnerOf(q)] = sessionsByPlayer[q])'
      BY DEF SessionsPairTwo
    <2>1. CASE q \in {i, p}
      BY <1>1, <1>3, <1>6, <2>1 DEF SessionOf, Parties, PartnerOf, PartnerIn
    <2>2. CASE q \notin {i, p}
      <3>1. InSession(q)
        BY <1>2, <2>2 DEF InSession, TradeTypeOK
      <3>2. PartnerOf(q)' = PartnerOf(q) /\ SessionOf(q)' = SessionOf(q)
            /\ Parties(sessionsByPlayer[q])' = Parties(sessionsByPlayer[q])
        BY <1>7, <2>2, <3>1 DEF PartnerOf, SessionOf, Parties
      <3> QED BY <1>7, <2>2, <3>1, <3>2 DEF SessionsPairTwo
    <2> QED BY <2>1, <2>2
  <1>9. ReadyForTheseOffers'
    <2> SUFFICES ASSUME NEW q \in Players, InSession(q)', SessionOf(q)'.ready[q]
                 PROVE  agreed'[q] = OffersFor(SessionOf(q)', q)
      BY DEF ReadyForTheseOffers
    <2>1. q \notin {i, p}
      BY <1>3, <1>6 DEF SessionOf
    <2>2. InSession(q)
      BY <1>2, <2>1 DEF InSession, TradeTypeOK
    <2>3. SessionOf(q)' = SessionOf(q)
      BY <1>7, <2>1, <2>2 DEF SessionOf
    <2> QED BY <2>2, <2>3 DEF ReadyForTheseOffers
  <1> QED BY <1>4, <1>5, <1>8, <1>9

LEMMA AcceptKeeps ==
    ASSUME TradeInv, NEW p \in Players, NEW i \in Players, Accept(p, i)
    PROVE  TradeInv'
  <1> USE DEF TradeInv
  <1>1. /\ invites' \in [Players -> [Players -> {"none", "fresh", "expired"}]]
        /\ team' \in [PokemonIds -> Players \cup {Nobody}]
        /\ agreed' \in [Players -> Pair]
        /\ InvitesJoinTwo'
        /\ UNCHANGED agreed
    BY DEF Accept, TradeTypeOK, InvitesJoinTwo
  <1>2. CASE CanStart(i, p)
    <2>1. PICK s \in SessionIds : StartSession(i, p, s)
      BY <1>2 DEF Accept
    <2>2. p # i
      BY DEF Accept, InvitesJoinTwo
    <2> QED BY <1>1, <1>2, <2>1, <2>2, StartKeeps DEF CanStart, TradeTypeOK
  <1>3. CASE ~ CanStart(i, p)
    <2>1. UNCHANGED <<sessionsByPlayer, sessions, screen>>
      BY <1>3 DEF Accept
    <2>2. TradeTypeOK'
      BY <1>1, <2>1 DEF TradeTypeOK
    <2>3. SessionsPairTwo' /\ ReadyForTheseOffers'
      BY <1>1, <2>1 DEF SessionsPairTwo, ReadyForTheseOffers, InSession, SessionOf, PartnerOf, Parties
    <2> QED BY <1>1, <2>2, <2>3
  <1> QED BY <1>2, <1>3

LEMMA SelectOfferKeeps ==
    ASSUME TradeInv, NEW p \in Players, NEW x \in PokemonIds, SelectOffer(p, x)
    PROVE  TradeInv'
  <1> USE DEF TradeInv
  <1> DEFINE s == sessionsByPlayer[p]
             session == OfferSet(sessions[s], p, x)
  <1>1. /\ InSession(p)
        /\ sessions' = [sessions EXCEPT ![s] = session]
        /\ ShowOffers(s, session)
        /\ agreed' = [q \in Players |-> IF q \in Parties(s) THEN NoPair ELSE agreed[q]]
        /\ UNCHANGED <<invites, sessionsByPlayer, team>>
    BY DEF SelectOffer
  <1>2. /\ s \in SessionIds /\ Parties(s) \subseteq Players
        /\ sessions[s] \in LiveTradeSession
        /\ sessions[s] = SessionOf(p)
    BY <1>1, SessionIsOne DEF SessionOf
  <1>3. /\ session \in LiveTradeSession
        /\ session.initiator = SessionOf(p).initiator
        /\ session.recipient = SessionOf(p).recipient
        /\ \A q \in Players : ~ session.ready[q]
    BY <1>2 DEF OfferSet, LiveTradeSession, Offer
  <1> HIDE DEF session
  <1>4. /\ sessions' \in [SessionIds -> LiveTradeSession \cup {NoSession}]
        /\ SessionsPairTwo'
        /\ \A q \in Players : InSession(q) =>
              SessionOf(q)' = IF sessionsByPlayer[q] = s THEN session ELSE SessionOf(q)
    BY <1>1, <1>3, RewriteKeeps
  <1>5. screen' \in [Players -> Screen]
    BY <1>1, <1>2, <1>3, ShowOffersType
  <1>6. TradeTypeOK' /\ InvitesJoinTwo'
    BY <1>1, <1>4, <1>5, NoPairType DEF TradeTypeOK, InvitesJoinTwo
  <1>7. ReadyForTheseOffers'
    <2> SUFFICES ASSUME NEW q \in Players, InSession(q)', SessionOf(q)'.ready[q]
                 PROVE  agreed'[q] = OffersFor(SessionOf(q)', q)
      BY DEF ReadyForTheseOffers
    <2>1. InSession(q)
      BY <1>1 DEF InSession
    <2>2. sessionsByPlayer[q] # s
      BY <1>3, <1>4, <2>1
    <2>3. q \notin Parties(s)
      BY <1>1, <2>2, SessionIsOne DEF SessionsPairTwo
    <2> QED BY <1>1, <1>4, <2>1, <2>2, <2>3 DEF ReadyForTheseOffers
  <1> QED BY <1>4, <1>6, <1>7

LEMMA WithdrawKeeps ==
    ASSUME TradeInv, NEW p \in Players, Withdraw(p)
    PROVE  TradeInv'
  <1> USE DEF TradeInv
  <1> DEFINE s == sessionsByPlayer[p]
             session == [sessions[s] EXCEPT !.ready[p] = FALSE]
  <1>1. /\ InSession(p)
        /\ sessions' = [sessions EXCEPT ![s] = session]
        /\ ShowOffers(s, SessionOf(p))
        /\ agreed' = [agreed EXCEPT ![p] = NoPair]
        /\ UNCHANGED <<invites, sessionsByPlayer, team>>
    BY DEF Withdraw
  <1>2. /\ s \in SessionIds /\ Parties(s) \subseteq Players
        /\ sessions[s] \in LiveTradeSession
        /\ sessions[s] = SessionOf(p)
    BY <1>1, SessionIsOne DEF SessionOf
  <1>3. /\ session \in LiveTradeSession
        /\ session.initiator = SessionOf(p).initiator
        /\ session.recipient = SessionOf(p).recipient
        /\ session.offer = SessionOf(p).offer
        /\ \A q \in Players : session.ready[q] => q # p /\ SessionOf(p).ready[q]
    BY <1>2 DEF LiveTradeSession
  <1> HIDE DEF session
  <1>4. /\ sessions' \in [SessionIds -> LiveTradeSession \cup {NoSession}]
        /\ SessionsPairTwo'
        /\ \A q \in Players : InSession(q) =>
              SessionOf(q)' = IF sessionsByPlayer[q] = s THEN session ELSE SessionOf(q)
    BY <1>1, <1>3, RewriteKeeps
  <1>5. screen' \in [Players -> Screen]
    BY <1>1, <1>2, ShowOffersType
  <1>6. TradeTypeOK' /\ InvitesJoinTwo'
    BY <1>1, <1>4, <1>5, NoPairType DEF TradeTypeOK, InvitesJoinTwo
  <1>7. ReadyForTheseOffers'
    <2> SUFFICES ASSUME NEW q \in Players, InSession(q)', SessionOf(q)'.ready[q]
                 PROVE  agreed'[q] = OffersFor(SessionOf(q)', q)
      BY DEF ReadyForTheseOffers
    <2>1. InSession(q)
      BY <1>1 DEF InSession
    <2>2. CASE sessionsByPlayer[q] = s
      <3>1. SessionOf(q)' = session /\ SessionOf(q) = SessionOf(p)
        BY <1>4, <2>1, <2>2 DEF SessionOf
      <3>2. q # p /\ SessionOf(q).ready[q]
        BY <1>3, <3>1
      <3>3. OffersFor(session, q) = OffersFor(SessionOf(q), q)
        BY <1>3, <3>1 DEF OffersFor, PartnerIn
      <3>4. agreed'[q] = agreed[q]
        BY <1>1, <3>2 DEF TradeTypeOK
      <3> QED BY <2>1, <3>1, <3>2, <3>3, <3>4 DEF ReadyForTheseOffers
    <2>3. CASE sessionsByPlayer[q] # s
      <3>1. SessionOf(q)' = SessionOf(q) /\ agreed'[q] = agreed[q]
        BY <1>1, <1>4, <2>1, <2>3 DEF TradeTypeOK
      <3> QED BY <2>1, <3>1 DEF ReadyForTheseOffers
    <2> QED BY <2>2, <2>3
  <1> QED BY <1>4, <1>6, <1>7

(* The swap of two offers keeps every Pokemon in somebody's team, or in     *)
(* nobody's.                                                                *)
LEMMA CompleteKeeps ==
    ASSUME TradeInv, NEW p \in Players, InSession(p), NEW session \in LiveTradeSession,
           Complete(sessionsByPlayer[p], session), UNCHANGED invites
    PROVE  TradeInv'
  <1> USE DEF TradeInv
  <1>1. End(sessionsByPlayer[p]) /\ Show(Blank(Parties(sessionsByPlayer[p])))
    BY DEF Complete
  <1>2. Parties(sessionsByPlayer[p]) \in SUBSET Players
    BY SessionIsOne
  <1>3. screen' \in [Players -> Screen]
    BY <1>1, <1>2, BlankType
  <1>4. team' \in [PokemonIds -> Players \cup {Nobody}]
    BY DEF Complete, Swapped, LiveTradeSession, TradeTypeOK
  <1>5. TradeTypeOK' /\ InvitesJoinTwo'
    BY <1>1, <1>3, <1>4, EndKeeps DEF TradeTypeOK, InvitesJoinTwo
  <1> QED BY <1>1, <1>5, EndKeeps

LEMMA SetReadyKeeps ==
    ASSUME TradeInv, NEW p \in Players, SetReady(p)
    PROVE  TradeInv'
  <1> USE DEF TradeInv
  <1> DEFINE s == sessionsByPlayer[p]
             session == [sessions[s] EXCEPT !.ready[p] = TRUE]
  <1>1. InSession(p) /\ UNCHANGED invites
    BY DEF SetReady
  <1>2. /\ s \in SessionIds /\ Parties(s) \subseteq Players
        /\ sessions[s] \in LiveTradeSession
        /\ sessions[s] = SessionOf(p)
    BY <1>1, SessionIsOne DEF SessionOf
  <1>3. /\ session \in LiveTradeSession
        /\ session.initiator = SessionOf(p).initiator
        /\ session.recipient = SessionOf(p).recipient
        /\ session.offer = SessionOf(p).offer
        /\ \A q \in Players : q # p => (session.ready[q] <=> SessionOf(p).ready[q])
    BY <1>2 DEF LiveTradeSession
  <1>4. CASE BothReady(session)
    <2>1. Complete(s, session)
      BY <1>4 DEF SetReady
    <2> HIDE DEF session
    <2> QED BY <1>1, <1>3, <2>1, CompleteKeeps
  <1>5. CASE ~ BothReady(session)
    <2>1. /\ sessions' = [sessions EXCEPT ![s] = session]
          /\ ShowOffers(s, session)
          /\ agreed' = [agreed EXCEPT ![p] = OffersFor(session, p)]
          /\ UNCHANGED <<sessionsByPlayer, team>>
      BY <1>5 DEF SetReady
    <2> HIDE DEF session
    <2>2. /\ sessions' \in [SessionIds -> LiveTradeSession \cup {NoSession}]
          /\ SessionsPairTwo'
          /\ \A q \in Players : InSession(q) =>
                SessionOf(q)' = IF sessionsByPlayer[q] = s THEN session ELSE SessionOf(q)
      BY <1>1, <1>3, <2>1, RewriteKeeps
    <2>3. screen' \in [Players -> Screen]
      BY <1>2, <1>3, <2>1, ShowOffersType
    <2>4. TradeTypeOK' /\ InvitesJoinTwo'
      BY <1>1, <1>3, <2>1, <2>2, <2>3, OffersForType DEF TradeTypeOK, InvitesJoinTwo
    <2>5. ReadyForTheseOffers'
      <3> SUFFICES ASSUME NEW q \in Players, InSession(q)', SessionOf(q)'.ready[q]
                   PROVE  agreed'[q] = OffersFor(SessionOf(q)', q)
        BY DEF ReadyForTheseOffers
      <3>1. InSession(q)
        BY <2>1 DEF InSession
      <3>2. CASE q = p
        BY <2>1, <2>2, <3>1, <3>2 DEF TradeTypeOK
      <3>3. CASE q # p /\ sessionsByPlayer[q] = s
        <4>1. SessionOf(q)' = session /\ SessionOf(q) = SessionOf(p)
          BY <2>2, <3>1, <3>3 DEF SessionOf
        <4>2. OffersFor(session, q) = OffersFor(SessionOf(q), q)
          BY <1>3, <4>1 DEF OffersFor, PartnerIn
        <4>3. agreed'[q] = agreed[q] /\ SessionOf(q).ready[q]
          BY <1>3, <2>1, <3>3, <4>1 DEF TradeTypeOK
        <4> QED BY <3>1, <4>1, <4>2, <4>3 DEF ReadyForTheseOffers
      <3>4. CASE q # p /\ sessionsByPlayer[q] # s
        <4>1. SessionOf(q)' = SessionOf(q) /\ agreed'[q] = agreed[q]
          BY <2>1, <2>2, <3>1, <3>4 DEF TradeTypeOK
        <4> QED BY <3>1, <4>1 DEF ReadyForTheseOffers
      <3> QED BY <3>2, <3>3, <3>4
    <2> QED BY <2>2, <2>4, <2>5
  <1> QED BY <1>4, <1>5

LEMMA LeaveKeeps ==
    ASSUME TradeInv, NEW p \in Players, Leave(p)
    PROVE  TradeInv'
  <1> USE DEF TradeInv
  <1>1. InSession(p) /\ End(sessionsByPlayer[p]) /\ Show(Blank(Parties(sessionsByPlayer[p])))
        /\ UNCHANGED <<invites, team>>
    BY DEF Leave
  <1>2. Parties(sessionsByPlayer[p]) \in SUBSET Players
    BY <1>1, SessionIsOne
  <1>3. screen' \in [Players -> Screen]
    BY <1>1, <1>2, BlankType
  <1>4. TradeTypeOK' /\ InvitesJoinTwo'
    BY <1>1, <1>3, EndKeeps DEF TradeTypeOK, InvitesJoinTwo
  <1> QED BY <1>1, <1>4, EndKeeps

LEMMA OnDisconnectKeeps ==
    ASSUME TradeInv, NEW p \in Players, OnDisconnect(p)
    PROVE  TradeInv'
  <1> USE DEF TradeInv
  <1>1. /\ invites' \in [Players -> [Players -> {"none", "fresh", "expired"}]]
        /\ InvitesJoinTwo'
        /\ UNCHANGED team
    BY DEF OnDisconnect, TradeTypeOK, InvitesJoinTwo
  <1>2. CASE InSession(p)
    <2>1. End(sessionsByPlayer[p]) /\ Show(Blank({PartnerOf(p)}))
      BY <1>2 DEF OnDisconnect, Cancel
    <2>2. {PartnerOf(p)} \in SUBSET Players
      BY <1>2, SessionIsOne
    <2>3. screen' \in [Players -> Screen]
      BY <2>1, <2>2, BlankType
    <2>4. TradeTypeOK'
      BY <1>1, <1>2, <2>1, <2>3, EndKeeps DEF TradeTypeOK
    <2> QED BY <1>1, <1>2, <2>1, <2>4, EndKeeps
  <1>3. CASE ~ InSession(p)
    <2>1. UNCHANGED <<sessionsByPlayer, sessions, agreed, screen>>
      BY <1>3 DEF OnDisconnect, Cancel
    <2>2. TradeTypeOK'
      BY <1>1, <2>1 DEF TradeTypeOK
    <2>3. SessionsPairTwo' /\ ReadyForTheseOffers'
      BY <2>1 DEF SessionsPairTwo, ReadyForTheseOffers, InSession, SessionOf, PartnerOf, Parties
    <2> QED BY <1>1, <2>2, <2>3
  <1> QED BY <1>2, <1>3

LEMMA QuietKeeps ==
    ASSUME TradeInv, NEW t \in [PokemonIds -> Players \cup {Nobody}], team' = t,
           NEW scr \in [Players -> Screen], screen' = scr,
           UNCHANGED <<invites, sessionsByPlayer, sessions, agreed>>
    PROVE  TradeInv'
  <1> USE DEF TradeInv
  <1>1. TradeTypeOK' /\ InvitesJoinTwo'
    BY DEF TradeTypeOK, InvitesJoinTwo
  <1>2. SessionsPairTwo' /\ ReadyForTheseOffers'
    BY DEF SessionsPairTwo, ReadyForTheseOffers, InSession, SessionOf, PartnerOf, Parties
  <1> QED BY <1>1, <1>2

LEMMA MessageKeeps ==
    ASSUME TradeInv, NEW p \in Players, Message(p) \/ Refused
    PROVE  TradeInv'
  <1>1. CASE \E q \in Players : Invite(p, q) \/ Decline(p, q) \/ Accept(p, q)
    BY <1>1, InviteKeeps, DeclineKeeps, AcceptKeeps
  <1>2. CASE \E x \in PokemonIds : SelectOffer(p, x)
    BY <1>2, SelectOfferKeeps
  <1>3. CASE Withdraw(p) \/ SetReady(p) \/ Leave(p)
    BY <1>3, WithdrawKeeps, SetReadyKeeps, LeaveKeeps
  <1>4. CASE Refused
    BY <1>4, QuietKeeps DEF Refused, TradeInv, TradeTypeOK
  <1> QED BY <1>1, <1>2, <1>3, <1>4 DEF Message

-------------------------------------------------------------------------------
(* The invariant of the specification. *)

LEMMA InitialInv == Init => IInv
  <1> SUFFICES ASSUME Init PROVE IInv
    OBVIOUS
  <1>1. ConnectionsTypeOK
    BY InitialConnections DEF Init
  <1>2. TradeTypeOK
    BY NoPairType DEF Init, TradeTypeOK, Screen, BlankScreen
  <1>3. InvitesJoinTwo /\ SessionsPairTwo /\ ReadyForTheseOffers
    BY DEF Init, InvitesJoinTwo, SessionsPairTwo, ReadyForTheseOffers, InSession
  <1> QED BY <1>1, <1>2, <1>3 DEF IInv, TradeInv

(* A step of the specification is one of the connections. *)
LEMMA StepOfConnections ==
    ASSUME [Next]_vars
    PROVE  [ConnectionsNext]_connectionVars
  <1>1. ASSUME NEW p \in Players, NEW c \in Connections, Step(p, c)
        PROVE  ConnectionStep(p, c)
    BY <1>1 DEF Step, Connect, Disconnect, CleanUp, Read, Handle, ConnectionStep
  <1>2. ASSUME NEW p \in Players, Sweep(p)
        PROVE  SweepStep(p)
    BY <1>2 DEF Sweep, SweepStep
  <1>3. ASSUME NEW i \in Players, NEW r \in Players, InviteExpires(i, r)
        PROVE  UNCHANGED connectionVars
    BY <1>3 DEF InviteExpires
  <1>4. ASSUME NEW x \in PokemonIds, TeamChanges(x)
        PROVE  UNCHANGED connectionVars
    BY <1>4 DEF TeamChanges
  <1>5. CASE UNCHANGED vars
    BY <1>5 DEF vars
  <1> QED BY <1>1, <1>2, <1>3, <1>4, <1>5 DEF Next, ConnectionsNext

LEMMA StepKeepsInv == IInv /\ [Next]_vars => IInv'
  <1> SUFFICES ASSUME IInv, [Next]_vars
               PROVE  TradeInv'
    BY StepOfConnections, ConnectionsKeepType DEF IInv
  <1> USE DEF IInv
  <1>1. ASSUME NEW p \in Players, NEW c \in Connections, Step(p, c)
        PROVE  TradeInv'
    <2>1. CASE Connect(p, c)
      <3>1. screen' \in [Players -> Screen]
        BY <2>1, NoPairType DEF Connect, TradeInv, TradeTypeOK, Screen, BlankScreen
      <3> QED BY <2>1, <3>1, QuietKeeps DEF Connect, TradeInv, TradeTypeOK
    <2>2. CASE Disconnect(p, c)
      BY <2>2, QuietKeeps DEF Disconnect, tradeVars, TradeInv, TradeTypeOK
    <2>3. CASE CleanUp(p, c)
      BY <2>3, OnDisconnectKeeps DEF CleanUp
    <2>4. CASE Read(p, c)
      BY <2>4, QuietKeeps DEF Read, tradeVars, TradeInv, TradeTypeOK
    <2>5. CASE Handle(p, c)
      BY <2>5, MessageKeeps DEF Handle
    <2> QED BY <1>1, <2>1, <2>2, <2>3, <2>4, <2>5 DEF Step
  <1>2. ASSUME NEW p \in Players, Sweep(p)
        PROVE  TradeInv'
    <2>1. CASE UNCHANGED tradeVars
      BY <2>1, QuietKeeps DEF tradeVars, TradeInv, TradeTypeOK
    <2>2. CASE OnDisconnect(p)
      BY <2>2, OnDisconnectKeeps
    <2> QED BY <1>2, <2>1, <2>2 DEF Sweep
  <1>3. ASSUME NEW i \in Players, NEW r \in Players, InviteExpires(i, r)
        PROVE  TradeInv'
    <2>1. invites' \in [Players -> [Players -> {"none", "fresh", "expired"}]] /\ InvitesJoinTwo'
      BY <1>3 DEF InviteExpires, TradeInv, TradeTypeOK, InvitesJoinTwo
    <2>2. UNCHANGED <<sessionsByPlayer, sessions, team, screen, agreed>>
      BY <1>3 DEF InviteExpires
    <2>3. TradeTypeOK'
      BY <2>1, <2>2 DEF TradeInv, TradeTypeOK
    <2>4. SessionsPairTwo' /\ ReadyForTheseOffers'
      BY <2>2 DEF TradeInv, SessionsPairTwo, ReadyForTheseOffers, InSession, SessionOf, PartnerOf, Parties
    <2> QED BY <2>1, <2>2, <2>3, <2>4 DEF TradeInv
  <1>4. ASSUME NEW x \in PokemonIds, TeamChanges(x)
        PROVE  TradeInv'
    <2>1. team' \in [PokemonIds -> Players \cup {Nobody}]
      BY <1>4 DEF TeamChanges, TradeInv, TradeTypeOK
    <2> QED BY <1>4, <2>1, QuietKeeps DEF TeamChanges, TradeInv, TradeTypeOK
  <1>5. CASE UNCHANGED vars
    BY <1>5, QuietKeeps DEF vars, tradeVars, TradeInv, TradeTypeOK
  <1> QED BY <1>1, <1>2, <1>3, <1>4, <1>5 DEF Next

THEOREM InvHolds == Spec => []IInv
  <1> QED BY InitialInv, StepKeepsInv, PTL DEF Spec

-------------------------------------------------------------------------------
(* Every variable keeps its type, whatever messages, closures and sweeps    *)
(* follow each other. *)
THEOREM TypeCorrect == Spec => []TypeOK
  <1>1. IInv => TypeOK
    BY DEF IInv, TradeInv, TradeTypeOK, TypeOK
  <1> QED BY <1>1, InvHolds, PTL

(* For any number of players and connections, with or without the sweeper,  *)
(* a session always joins two players who are both found in it. *)
THEOREM SessionsAlwaysPairTwo == Spec => []SessionsPairTwo
  <1>1. IInv => SessionsPairTwo
    BY DEF IInv, TradeInv
  <1> QED BY <1>1, InvHolds, PTL

(* A player counted as ready declared itself ready for exactly the two      *)
(* offers of the session. *)
THEOREM ReadinessIsForTheOffers == Spec => []ReadyForTheseOffers
  <1>1. IInv => ReadyForTheseOffers
    BY DEF IInv, TradeInv
  <1> QED BY <1>1, InvHolds, PTL

(* SEC-8: a player has at most one open connection, the registered one. *)
THEOREM OpenConnectionsAreRegistered == Spec => []OpenIsRegistered
  <1>1. Init => OpenIsRegistered
    BY InitialConnections DEF Init
  <1>2. IInv /\ OpenIsRegistered /\ [Next]_vars => OpenIsRegistered'
    BY StepOfConnections, ConnectionsKeepOneOpen DEF IInv
  <1> QED BY <1>1, <1>2, InvHolds, PTL DEF Spec

-------------------------------------------------------------------------------
(* Swaps *)

SwapOffered(x, p, q) ==
    (p # q /\ team[x] = p /\ team'[x] = q) =>
        /\ InSession(p)
        /\ PartnerOf(p) = q
        /\ SessionOf(p).offer[p] = x
        /\ LET y == SessionOf(p).offer[q] IN team[y] = q /\ team'[y] = p

LEMMA CompleteSwapsOffers ==
    ASSUME IInv, NEW r \in Players, SetReady(r),
           NEW x \in PokemonIds, NEW p \in Players, NEW q \in Players
    PROVE  SwapOffered(x, p, q)
  <1> USE DEF IInv, TradeInv
  <1> DEFINE s == sessionsByPlayer[r]
             session == [sessions[s] EXCEPT !.ready[r] = TRUE]
  <1> SUFFICES ASSUME p # q, team[x] = p, team'[x] = q
               PROVE  /\ InSession(p)
                      /\ PartnerOf(p) = q
                      /\ SessionOf(p).offer[p] = x
                      /\ team[SessionOf(p).offer[q]] = q
                      /\ team'[SessionOf(p).offer[q]] = p
    BY DEF SwapOffered
  <1>1. InSession(r)
    BY DEF SetReady
  <1>2. /\ s \in SessionIds /\ sessions[s] \in LiveTradeSession
        /\ Parties(s) = {r, PartnerOf(r)} /\ PartnerOf(r) \in Players
        /\ sessions[s] = SessionOf(r)
    BY <1>1, SessionIsOne DEF SessionOf
  <1>3. /\ session.initiator = sessions[s].initiator
        /\ session.recipient = sessions[s].recipient
        /\ session.offer = sessions[s].offer
    BY <1>2 DEF LiveTradeSession
  <1>4. StillTradable(session) /\ team' = Swapped(session)
    <2>1. team' # team
      OBVIOUS
    <2> QED BY <2>1 DEF SetReady, Complete
  <1> HIDE DEF session
  <1> DEFINE i == sessions[s].initiator
             j == sessions[s].recipient
             offer == sessions[s].offer
  <1>5. {i, j} = Parties(s) /\ i \in Players /\ j \in Players /\ i # j
    <2>1. PartnerOf(r) # r
      BY <1>1 DEF SessionsPairTwo
    <2>2. {i, j} = Parties(s)
      BY DEF Parties
    <2>3. i \in Players /\ j \in Players
      BY <1>2 DEF LiveTradeSession
    <2> HIDE DEF i, j, s
    <2>4. i # j
      <3>1. r \in {i, j} /\ PartnerOf(r) \in {i, j}
        BY <1>2, <2>2
      <3> QED BY <2>1, <3>1
    <2> QED BY <2>2, <2>3, <2>4
  <1>6. \A k \in {i, j} : sessionsByPlayer[k] = s
    BY <1>1, <1>2, <1>5 DEF SessionsPairTwo
  <1>7. s # NoSession
    BY <1>2, LiveTradeAssumption
  <1>8. team[offer[i]] = i /\ team[offer[j]] = j
    BY <1>3, <1>4 DEF StillTradable
  <1>9. offer[i] \in PokemonIds /\ offer[j] \in PokemonIds
    BY <1>2, <1>5 DEF SetReady, BothOffersChosen, LiveTradeSession, Offer
  <1>10. /\ team' = [z \in PokemonIds |->
                        IF z = offer[i] THEN j ELSE IF z = offer[j] THEN i ELSE team[z]]
    BY <1>3, <1>4 DEF Swapped
  <1>11. (x = offer[i] /\ p = i /\ q = j) \/ (x = offer[j] /\ p = j /\ q = i)
    BY <1>5, <1>8, <1>10
  <1>12. InSession(p) /\ SessionOf(p) = sessions[s]
    BY <1>6, <1>7, <1>11 DEF InSession, SessionOf
  <1>13. PartnerOf(p) = q
    BY <1>5, <1>11, <1>12 DEF PartnerOf, PartnerIn
  <1>14. offer[p] = x /\ team[offer[q]] = q
    BY <1>8, <1>11
  <1>15. team'[offer[q]] = p
    <2>1. offer[i] # offer[j]
      BY <1>5, <1>8
    <2> QED BY <1>9, <1>10, <1>11, <2>1
  <1> QED BY <1>12, <1>13, <1>14, <1>15

(* Whatever else moves Pokemon in and out of the teams, only a completed    *)
(* session takes one from a player's team to another's, and it does so for  *)
(* the two offers at once. *)
THEOREM SwapsAreOfOffers == Spec => SwapsAreOffered
  <1>1. ASSUME IInv, Next, NEW x \in PokemonIds, NEW p \in Players, NEW q \in Players
        PROVE  SwapOffered(x, p, q)
    <2> USE <1>1
    <2>1. ASSUME NEW r \in Players, NEW c \in Connections, Step(r, c)
          PROVE  SwapOffered(x, p, q)
      <3>1. CASE SetReady(r)
        BY <3>1, CompleteSwapsOffers
      <3>2. CASE ~ SetReady(r)
        <4>1. UNCHANGED team
          BY <2>1, <3>2 DEF Step, Connect, Disconnect, CleanUp, Read, Handle, Message, Refused,
             tradeVars, OnDisconnect, Invite, Decline, Accept, SelectOffer, Withdraw, Leave
        <4> QED BY <4>1 DEF SwapOffered
      <3> QED BY <3>1, <3>2
    <2>2. ASSUME NEW r \in Players, Sweep(r)
          PROVE  SwapOffered(x, p, q)
      BY <2>2 DEF Sweep, OnDisconnect, tradeVars, SwapOffered
    <2>3. ASSUME NEW i \in Players, NEW r \in Players, InviteExpires(i, r)
          PROVE  SwapOffered(x, p, q)
      BY <2>3 DEF InviteExpires, SwapOffered
    <2>4. ASSUME NEW y \in PokemonIds, TeamChanges(y)
          PROVE  SwapOffered(x, p, q)
      BY <2>4, ConnectionsAssumption DEF TeamChanges, SwapOffered, IInv, TradeInv, TradeTypeOK
    <2> QED BY <2>1, <2>2, <2>3, <2>4 DEF Next
  <1>2. IInv /\ Next => \A x \in PokemonIds, p, q \in Players : SwapOffered(x, p, q)
    BY <1>1
  <1>3. IInv /\ [Next]_vars =>
          [\A x \in PokemonIds, p, q \in Players : SwapOffered(x, p, q)]_vars
    BY <1>2
  <1>4. [\A x \in PokemonIds, p, q \in Players : SwapOffered(x, p, q)]_vars =>
          [\A x \in PokemonIds, p, q \in Players :
             (p # q /\ team[x] = p /\ team'[x] = q) =>
                /\ InSession(p)
                /\ PartnerOf(p) = q
                /\ SessionOf(p).offer[p] = x
                /\ LET y == SessionOf(p).offer[q] IN team[y] = q /\ team'[y] = p]_vars
    BY DEF SwapOffered
  <1> QED BY <1>3, <1>4, InvHolds, PTL DEF Spec, SwapsAreOffered

-------------------------------------------------------------------------------
(* Presence, where the sweeper finds nobody *)

InviteesPresent == \A i, r \in Players : invites[i][r] # "none" => Present(r)

PInv ==
    /\ expiring = NotExpiring
    /\ InviteesPresent
    /\ SessionsOfTheConnected

(* The only ways for a message to invite a player or put it in a session:   *)
(* the player is connected, or it had been invited.                         *)
LEMMA MessageConcernsThePresent ==
    ASSUME TradeInv, NEW p \in Players, Message(p) \/ Refused, NEW q \in Players
    PROVE  /\ \A i \in Players : invites'[i][q] # "none" => invites[i][q] # "none" \/ IsConnected(q)
           /\ InSession(q)' =>
                 InSession(q) \/ IsConnected(q) \/ \E i \in Players : invites[i][q] # "none"
  <1> USE DEF TradeInv, TradeTypeOK, InSession
  <1>1. ASSUME NEW r \in Players, Invite(p, r)
        PROVE  /\ UNCHANGED sessionsByPlayer
               /\ \A i \in Players : invites'[i][q] # "none" => invites[i][q] # "none" \/ IsConnected(q)
    BY <1>1 DEF Invite
  <1>2. ASSUME NEW i \in Players, Decline(p, i)
        PROVE  /\ UNCHANGED sessionsByPlayer
               /\ \A j \in Players : invites'[j][q] # "none" => invites[j][q] # "none"
    BY <1>2 DEF Decline
  <1>3. ASSUME NEW i \in Players, Accept(p, i)
        PROVE  /\ \A j \in Players : invites'[j][q] # "none" => invites[j][q] # "none"
               /\ InSession(q)' =>
                     InSession(q) \/ IsConnected(q) \/ \E j \in Players : invites[j][q] # "none"
    <2>1. \A j \in Players : invites'[j][q] # "none" => invites[j][q] # "none"
      BY <1>3 DEF Accept
    <2>2. CASE CanStart(i, p)
      <3>1. PICK s \in SessionIds : sessionsByPlayer' = [sessionsByPlayer EXCEPT ![i] = s, ![p] = s]
        BY <1>3, <2>2 DEF Accept, StartSession
      <3>2. IsConnected(i) /\ invites[i][p] # "none"
        BY <1>3, <2>2 DEF Accept, CanStart
      <3> QED BY <2>1, <3>1, <3>2
    <2>3. CASE ~ CanStart(i, p)
      BY <1>3, <2>1, <2>3 DEF Accept
    <2> QED BY <2>2, <2>3
  <1>4. CASE \/ \E x \in PokemonIds : SelectOffer(p, x)
             \/ Withdraw(p)
             \/ Refused
    BY <1>4 DEF SelectOffer, Withdraw, Refused
  <1>5. CASE SetReady(p) \/ Leave(p)
    BY <1>5 DEF SetReady, Complete, Leave, End
  <1> QED BY <1>1, <1>2, <1>3, <1>4, <1>5 DEF Message

(* The cleanup of a player leaves nothing of it in the service. *)
LEMMA OnDisconnectForgets ==
    ASSUME TradeInv, NEW p \in Players, OnDisconnect(p), NEW q \in Players
    PROVE  /\ \A i \in Players : invites'[i][q] # "none" => q # p /\ invites[i][q] # "none"
           /\ InSession(q)' => q # p /\ InSession(q)
  <1> USE DEF TradeInv, TradeTypeOK, InSession
  <1>1. \A i \in Players : invites'[i][q] # "none" => q # p /\ invites[i][q] # "none"
    BY DEF OnDisconnect
  <1>2. CASE InSession(p)
    <2>1. End(sessionsByPlayer[p]) /\ p \in Parties(sessionsByPlayer[p])
      BY <1>2 DEF OnDisconnect, Cancel, SessionsPairTwo
    <2> QED BY <1>1, <2>1 DEF End
  <1>3. CASE ~ InSession(p)
    BY <1>1, <1>3 DEF OnDisconnect, Cancel
  <1> QED BY <1>2, <1>3

LEMMA StepKeepsPresence ==
    ASSUME ~ Sweeps, IInv, PInv, [Next]_vars
    PROVE  PInv'
  <1> USE DEF IInv, PInv
  <1>0. \A q \in Players : IsConnected(q) => Present(q)
    BY DEF IsConnected, Present
  <1>1. ASSUME NEW p \in Players, NEW c \in Connections, Step(p, c)
        PROVE  PInv'
    <2>0. ConnectionStep(p, c)
      BY <1>1 DEF Step, Connect, Disconnect, CleanUp, Read, Handle, ConnectionStep
    <2>1. UNCHANGED expiring
      BY <2>0 DEF ConnectionStep, Register, Drop, Unregister, CleanedUp, Receive, Handled
    <2>2. ASSUME NEW q \in Players, Present(q), ~ (q = p /\ CleanedUp(p, c))
          PROVE  Present(q)'
      BY <2>0, <2>2, PresenceEndsInCleanup
    <2>3. CASE CleanUp(p, c)
      <3>1. ASSUME NEW q \in Players
            PROVE  /\ \A i \in Players : invites'[i][q] # "none" => q # p /\ invites[i][q] # "none"
                   /\ InSession(q)' => q # p /\ InSession(q)
        BY <2>3, OnDisconnectForgets DEF CleanUp
      <3> QED BY <2>1, <2>2, <3>1 DEF InviteesPresent, SessionsOfTheConnected, Present
    <2>4. CASE Handle(p, c)
      <3>1. ~ CleanedUp(p, c)
        BY <2>4 DEF Handle, Handled, CleanedUp, ConnectionsTypeOK
      <3>2. ASSUME NEW q \in Players
            PROVE  /\ \A i \in Players :
                         invites'[i][q] # "none" => invites[i][q] # "none" \/ IsConnected(q)
                   /\ InSession(q)' => InSession(q) \/ IsConnected(q)
                                         \/ \E i \in Players : invites[i][q] # "none"
        BY <2>4, MessageConcernsThePresent DEF Handle
      <3> QED BY <1>0, <2>1, <2>2, <3>1, <3>2 DEF InviteesPresent, SessionsOfTheConnected, Present
    <2>5. CASE Connect(p, c) \/ Disconnect(p, c) \/ Read(p, c)
      <3>1. UNCHANGED <<invites, sessionsByPlayer>>
        BY <2>5 DEF Connect, Disconnect, Read, tradeVars
      <3>2. ~ CleanedUp(p, c)
        BY <2>5 DEF Connect, Disconnect, Read, Register, Drop, Unregister, Receive, CleanedUp, ConnectionsTypeOK
      <3> QED BY <2>1, <2>2, <3>1, <3>2 DEF InviteesPresent, SessionsOfTheConnected, Present, InSession
    <2> QED BY <1>1, <2>3, <2>4, <2>5 DEF Step
  <1>2. ASSUME NEW p \in Players, Sweep(p)
        PROVE  FALSE
    BY <1>2 DEF Sweep, Expire, ExpireCleanedUp, ExpireClose, NotExpiring
  <1>3. CASE \/ \E i, r \in Players : InviteExpires(i, r)
             \/ \E x \in PokemonIds : TeamChanges(x)
             \/ UNCHANGED vars
    <2>1. UNCHANGED <<connectionVars, sessionsByPlayer>>
          /\ \A i, q \in Players : invites'[i][q] # "none" => invites[i][q] # "none"
      BY <1>3 DEF InviteExpires, TeamChanges, vars, tradeVars, TradeInv, TradeTypeOK
    <2> QED BY <2>1 DEF InviteesPresent, SessionsOfTheConnected, Present, InSession,
                        CleanupPending, connectionVars
  <1> QED BY <1>1, <1>2, <1>3 DEF Next

(* However closures, reconnections and messages still in flight interleave, *)
(* nobody is in a session without a connection or a cleanup on its way; the *)
(* sweeper, which cleans up before it closes, is the exception. *)
THEOREM NobodyIsLeftInASession ==
    ASSUME ~ Sweeps
    PROVE  Spec => []SessionsOfTheConnected
  <1>1. Init => PInv
    BY DEF Init, ConnectionsInit, PInv, InviteesPresent, SessionsOfTheConnected, InSession
  <1>2. IInv /\ PInv /\ [Next]_vars => PInv'
    BY StepKeepsPresence
  <1>3. PInv => SessionsOfTheConnected
    BY DEF PInv
  <1> QED BY <1>1, <1>2, <1>3, InvHolds, PTL DEF Spec

-------------------------------------------------------------------------------
(* Screens, where connections of a player do not overlap *)

LEMMA OnlyConnectConnects ==
    ASSUME ConnectionsTypeOK, NEW p \in Players, NEW c \in Connections,
           Drop(p, c) \/ Unregister(p, c) \/ CleanedUp(p, c) \/ Receive(p, c) \/ Handled(p, c),
           NEW q \in Players, IsConnected(q)'
    PROVE  IsConnected(q)
  <1> USE ConnectionsAssumption DEF IsConnected, ConnectionsTypeOK
  <1>1. CASE Drop(p, c)
    BY <1>1 DEF Drop
  <1>2. CASE Unregister(p, c)
    <2>1. CASE registered[p] = c
      <3>1. registered' = [registered EXCEPT ![p] = NoConnection]
            /\ socket' = [socket EXCEPT ![p][c] = "cleanup"]
        BY <1>2, <2>1 DEF Unregister
      <3> QED BY <3>1
    <2>2. CASE registered[p] # c
      <3>1. registered' = registered /\ socket' = [socket EXCEPT ![p][c] = "none"]
        BY <1>2, <2>2 DEF Unregister
      <3> QED BY <3>1
    <2> QED BY <2>1, <2>2
  <1>3. CASE CleanedUp(p, c)
    BY <1>3 DEF CleanedUp
  <1>4. CASE Receive(p, c) \/ Handled(p, c)
    BY <1>4 DEF Receive, Handled
  <1> QED BY <1>1, <1>2, <1>3, <1>4

(* Nothing changes but screens that are blanked. *)
LEMMA QuietScreens ==
    ASSUME ScreensAreCurrent, UNCHANGED <<sessionsByPlayer, sessions>>,
           \A q \in Players : IsConnected(q)' =>
              \/ screen'[q] = BlankScreen
              \/ IsConnected(q) /\ screen'[q] = screen[q]
    PROVE  ScreensAreCurrent'
  <1> SUFFICES ASSUME NEW q \in Players, IsConnected(q)', screen'[q].session # NoSession
               PROVE  /\ sessionsByPlayer'[q] = screen'[q].session
                      /\ screen'[q].offers = OffersFor(SessionOf(q)', q)
    BY DEF ScreensAreCurrent
  <1>1. IsConnected(q) /\ screen'[q] = screen[q]
    BY DEF BlankScreen
  <1>2. SessionOf(q)' = SessionOf(q)
    BY DEF SessionOf
  <1> QED BY <1>1, <1>2 DEF ScreensAreCurrent

(* `end' tells the parties it should. *)
LEMMA EndBlanksScreens ==
    ASSUME TradeInv, ScreensAreCurrent, NEW p \in Players, InSession(p), End(sessionsByPlayer[p]),
           NEW D \in SUBSET Players, Show(Blank(D)),
           \A q \in Players : IsConnected(q)' =>
              IsConnected(q) /\ (q \in Parties(sessionsByPlayer[p]) => q \in D)
    PROVE  ScreensAreCurrent'
  <1> SUFFICES ASSUME NEW q \in Players, IsConnected(q)', screen'[q].session # NoSession
               PROVE  /\ sessionsByPlayer'[q] = screen'[q].session
                      /\ screen'[q].offers = OffersFor(SessionOf(q)', q)
    BY DEF ScreensAreCurrent
  <1>1. screen'[q] = IF q \in D THEN BlankScreen ELSE screen[q]
    BY DEF Show, Blank
  <1>2. q \notin Parties(sessionsByPlayer[p]) /\ IsConnected(q) /\ screen'[q] = screen[q]
    BY <1>1 DEF BlankScreen
  <1>3. sessionsByPlayer[q] = screen[q].session /\ screen[q].offers = OffersFor(SessionOf(q), q)
    BY <1>2 DEF ScreensAreCurrent
  <1>4. sessionsByPlayer'[q] = sessionsByPlayer[q]
    BY <1>2 DEF End
  <1>5. sessions'[sessionsByPlayer[q]] = sessions[sessionsByPlayer[q]]
    BY <1>2, <1>3, <1>4, EndKeeps
  <1>6. SessionOf(q)' = SessionOf(q)
    BY <1>4, <1>5 DEF SessionOf
  <1> QED BY <1>2, <1>3, <1>4, <1>6

(* broadcastUpdate tells both parties what the session has become. *)
LEMMA BroadcastUpdatesScreens ==
    ASSUME TradeTypeOK, SessionsPairTwo, ScreensAreCurrent, NEW p \in Players, InSession(p),
           NEW session \in LiveTradeSession,
           session.initiator = SessionOf(p).initiator, session.recipient = SessionOf(p).recipient,
           sessions' = [sessions EXCEPT ![sessionsByPlayer[p]] = session],
           ShowOffers(sessionsByPlayer[p], session),
           UNCHANGED <<sessionsByPlayer, socket, registered>>
    PROVE  ScreensAreCurrent'
  <1> SUFFICES ASSUME NEW q \in Players, IsConnected(q)', screen'[q].session # NoSession
               PROVE  /\ sessionsByPlayer'[q] = screen'[q].session
                      /\ screen'[q].offers = OffersFor(SessionOf(q)', q)
    BY DEF ScreensAreCurrent
  <1> DEFINE s == sessionsByPlayer[p]
  <1>1. IsConnected(q)
    BY DEF IsConnected
  <1>2. /\ Parties(s) = {p, PartnerOf(p)} /\ sessionsByPlayer[PartnerOf(p)] = s
        /\ sessionsByPlayer[q] = s => q \in Parties(s)
    BY SessionIsOne DEF SessionsPairTwo
  <1>3. InSession(q) => SessionOf(q)' = IF sessionsByPlayer[q] = s THEN session ELSE SessionOf(q)
    BY RewriteKeeps
  <1>4. CASE q \in Parties(s)
    <2>1. screen'[q] = [session |-> s, offers |-> OffersFor(session, q)]
      BY <1>1, <1>4 DEF ShowOffers, Show
    <2>2. sessionsByPlayer[q] = s /\ InSession(q)
      BY <1>2, <1>4 DEF InSession
    <2> QED BY <1>3, <2>1, <2>2
  <1>5. CASE q \notin Parties(s)
    <2>1. screen'[q] = screen[q]
      BY <1>5 DEF ShowOffers, Show
    <2>2. sessionsByPlayer[q] = screen[q].session /\ screen[q].offers = OffersFor(SessionOf(q), q)
      BY <1>1, <2>1 DEF ScreensAreCurrent
    <2>3. SessionOf(q)' = SessionOf(q)
      BY <1>2, <1>3, <1>5, <2>1, <2>2 DEF InSession
    <2> QED BY <2>1, <2>2, <2>3
  <1> QED BY <1>4, <1>5

LEMMA StartShowsScreens ==
    ASSUME TradeTypeOK, ScreensAreCurrent, NEW i \in Players, NEW p \in Players,
           NEW s \in SessionIds, StartSession(i, p, s), UNCHANGED <<socket, registered>>
    PROVE  ScreensAreCurrent'
  <1> SUFFICES ASSUME NEW q \in Players, IsConnected(q)', screen'[q].session # NoSession
               PROVE  /\ sessionsByPlayer'[q] = screen'[q].session
                      /\ screen'[q].offers = OffersFor(SessionOf(q)', q)
    BY DEF ScreensAreCurrent
  <1> DEFINE new == [initiator |-> i, recipient |-> p,
                     offer |-> [r \in Players |-> NoPokemon], ready |-> [r \in Players |-> FALSE]]
  <1>1. IsConnected(q)
    BY DEF IsConnected
  <1>2. /\ sessionsByPlayer' = [sessionsByPlayer EXCEPT ![i] = s, ![p] = s]
        /\ sessions' = [sessions EXCEPT ![s] = new]
        /\ Unused(s)
        /\ screen'[q] = IF q \in {i, p} THEN [session |-> s, offers |-> NoPair] ELSE screen[q]
    BY <1>1 DEF StartSession, Show
  <1>3. OffersFor(new, q) = NoPair
    BY DEF OffersFor, PartnerIn, NoPair
  <1> HIDE DEF new
  <1>4. CASE q \in {i, p}
    <2>1. sessionsByPlayer'[q] = s /\ SessionOf(q)' = new
      BY <1>2, <1>4 DEF TradeTypeOK, SessionOf
    <2> QED BY <1>2, <1>3, <1>4, <2>1
  <1>5. CASE q \notin {i, p}
    <2>1. sessionsByPlayer[q] = screen[q].session /\ screen[q].offers = OffersFor(SessionOf(q), q)
      BY <1>1, <1>2, <1>5 DEF ScreensAreCurrent
    <2>2. sessionsByPlayer'[q] = sessionsByPlayer[q] /\ sessionsByPlayer[q] # s
      BY <1>2, <1>5 DEF TradeTypeOK, Unused
    <2>3. SessionOf(q)' = SessionOf(q)
      BY <1>2, <1>5, <2>1, <2>2 DEF SessionOf, TradeTypeOK
    <2> QED BY <1>2, <1>5, <2>1, <2>2, <2>3
  <1> QED BY <1>4, <1>5

LEMMA MessageUpdatesScreens ==
    ASSUME TradeInv, ScreensAreCurrent, NEW p \in Players, Message(p) \/ Refused,
           UNCHANGED <<socket, registered>>
    PROVE  ScreensAreCurrent'
  <1> USE DEF TradeInv
  <1> DEFINE s == sessionsByPlayer[p]
  <1>0. \A q \in Players : IsConnected(q)' = IsConnected(q)
    BY DEF IsConnected
  <1>1. ASSUME InSession(p)
        PROVE  /\ SessionOf(p) \in LiveTradeSession /\ SessionOf(p) = sessions[s]
               /\ Parties(s) \in SUBSET Players
    BY <1>1, SessionIsOne DEF SessionOf
  <1>2. CASE UNCHANGED <<sessionsByPlayer, sessions, screen>>
    BY <1>0, <1>2, QuietScreens
  <1>3. ASSUME NEW i \in Players, Accept(p, i), CanStart(i, p) PROVE ScreensAreCurrent'
    BY <1>3, StartShowsScreens DEF Accept
  <1>4. ASSUME NEW x \in PokemonIds, SelectOffer(p, x) PROVE ScreensAreCurrent'
    <2> DEFINE session == OfferSet(sessions[s], p, x)
    <2>1. /\ InSession(p) /\ sessions' = [sessions EXCEPT ![s] = session]
          /\ ShowOffers(s, session) /\ UNCHANGED sessionsByPlayer
      BY <1>4 DEF SelectOffer
    <2>2. /\ session \in LiveTradeSession
          /\ session.initiator = SessionOf(p).initiator /\ session.recipient = SessionOf(p).recipient
      BY <1>1, <2>1 DEF OfferSet, LiveTradeSession, Offer
    <2> HIDE DEF session
    <2> QED BY <2>1, <2>2, BroadcastUpdatesScreens
  <1>5. CASE Withdraw(p)
    <2> DEFINE session == [sessions[s] EXCEPT !.ready[p] = FALSE]
               shown == SessionOf(p)
    <2>1. /\ InSession(p) /\ sessions' = [sessions EXCEPT ![s] = session]
          /\ ShowOffers(s, shown) /\ UNCHANGED sessionsByPlayer
      BY <1>5 DEF Withdraw
    <2>2. /\ session \in LiveTradeSession
          /\ session.initiator = SessionOf(p).initiator /\ session.recipient = SessionOf(p).recipient
          /\ session.offer = SessionOf(p).offer
      BY <1>1, <2>1 DEF LiveTradeSession
    <2>3. \A q : OffersFor(shown, q) = OffersFor(session, q)
      BY <2>2 DEF OffersFor, PartnerIn
    <2> HIDE DEF session, shown
    <2>4. ShowOffers(s, session)
      BY <2>1, <2>3 DEF ShowOffers
    <2> QED BY <2>1, <2>2, <2>4, BroadcastUpdatesScreens
  <1>6. CASE SetReady(p)
    <2> DEFINE session == [sessions[s] EXCEPT !.ready[p] = TRUE]
    <2>1. InSession(p)
      BY <1>6 DEF SetReady
    <2>2. CASE BothReady(session)
      <3>1. End(s) /\ Show(Blank(Parties(s)))
        BY <1>6, <2>2 DEF SetReady, Complete
      <3> QED BY <1>0, <1>1, <2>1, <3>1, EndBlanksScreens
    <2>3. CASE ~ BothReady(session)
      <3>1. /\ sessions' = [sessions EXCEPT ![s] = session]
            /\ ShowOffers(s, session) /\ UNCHANGED sessionsByPlayer
        BY <1>6, <2>3 DEF SetReady
      <3>2. /\ session \in LiveTradeSession
            /\ session.initiator = SessionOf(p).initiator /\ session.recipient = SessionOf(p).recipient
        BY <1>1, <2>1 DEF LiveTradeSession
      <3> HIDE DEF session
      <3> QED BY <2>1, <3>1, <3>2, BroadcastUpdatesScreens
    <2> QED BY <2>2, <2>3
  <1>7. CASE Leave(p)
    <2>1. InSession(p) /\ End(s) /\ Show(Blank(Parties(s)))
      BY <1>7 DEF Leave
    <2> QED BY <1>0, <1>1, <2>1, EndBlanksScreens
  <1>8. ASSUME NEW q \in Players, Invite(p, q) \/ Decline(p, q) \/ (Accept(p, q) /\ ~ CanStart(q, p))
        PROVE  UNCHANGED <<sessionsByPlayer, sessions, screen>>
    BY <1>8 DEF Invite, Decline, Accept
  <1> QED BY <1>2, <1>3, <1>4, <1>5, <1>6, <1>7, <1>8 DEF Message, Refused

(* The player who is cleaned up after is not connected any more. *)
LEMMA CleanUpUpdatesScreens ==
    ASSUME IInv, ScreensAreCurrent, NEW p \in Players, NEW c \in Connections, Connections = {c},
           CleanUp(p, c)
    PROVE  ScreensAreCurrent'
  <1>1. CleanedUp(p, c) /\ OnDisconnect(p) /\ ConnectionsTypeOK /\ TradeInv
    BY DEF CleanUp, IInv
  <1>2. ~ IsConnected(p)'
    <2>1. socket'[p][c] = "none" /\ registered'[p] \in {c, NoConnection}
      BY <1>1 DEF CleanedUp, ConnectionsTypeOK
    <2> QED BY <2>1 DEF IsConnected
  <1>3. \A q \in Players : IsConnected(q)' => IsConnected(q)
    BY <1>1, OnlyConnectConnects
  <1>4. CASE InSession(p)
    <2> DEFINE D == {PartnerOf(p)}
    <2>1. End(sessionsByPlayer[p]) /\ Show(Blank(D))
      BY <1>1, <1>4 DEF OnDisconnect, Cancel
    <2>2. Parties(sessionsByPlayer[p]) = {p, PartnerOf(p)} /\ D \in SUBSET Players
      BY <1>1, <1>4, SessionIsOne DEF TradeInv
    <2>3. \A q \in Players : IsConnected(q)' =>
             IsConnected(q) /\ (q \in Parties(sessionsByPlayer[p]) => q \in D)
      BY <1>2, <1>3, <2>2
    <2> HIDE DEF D
    <2> QED BY <1>1, <1>4, <2>1, <2>2, <2>3, EndBlanksScreens
  <1>5. CASE ~ InSession(p)
    <2>1. UNCHANGED <<sessionsByPlayer, sessions, screen>>
      BY <1>1, <1>5 DEF OnDisconnect, Cancel
    <2> QED BY <1>3, <2>1, QuietScreens
  <1> QED BY <1>4, <1>5

LEMMA StepUpdatesScreens ==
    ASSUME NEW c, Connections = {c}, IInv, PInv, ~ Sweeps, ScreensAreCurrent, [Next]_vars
    PROVE  ScreensAreCurrent'
  <1>1. ASSUME NEW p \in Players, Step(p, c) PROVE ScreensAreCurrent'
    <2>1. CASE Connect(p, c)
      <3>1. UNCHANGED <<sessionsByPlayer, sessions>> /\ screen' = [screen EXCEPT ![p] = BlankScreen]
        BY <2>1 DEF Connect
      <3>2. \A q \in Players : q # p /\ IsConnected(q)' => IsConnected(q)
        BY <2>1 DEF Connect, Register, IsConnected, IInv, ConnectionsTypeOK
      <3>3. \A q \in Players : screen'[q] = IF q = p THEN BlankScreen ELSE screen[q]
        BY <3>1 DEF IInv, TradeInv, TradeTypeOK
      <3> QED BY <3>1, <3>2, <3>3, QuietScreens
    <2>2. CASE Disconnect(p, c) \/ Read(p, c)
      <3>1. \A q \in Players : IsConnected(q)' => IsConnected(q)
        BY <2>2, OnlyConnectConnects DEF Disconnect, Read, IInv
      <3>2. UNCHANGED <<sessionsByPlayer, sessions, screen>>
        BY <2>2 DEF Disconnect, Read, tradeVars
      <3> QED BY <3>1, <3>2, QuietScreens
    <2>3. CASE CleanUp(p, c)
      BY <2>3, CleanUpUpdatesScreens
    <2>4. CASE Handle(p, c)
      BY <2>4, MessageUpdatesScreens DEF Handle, Handled, IInv
    <2> QED BY <1>1, <2>1, <2>2, <2>3, <2>4 DEF Step
  <1>2. ASSUME NEW p \in Players, Sweep(p) PROVE FALSE
    BY <1>2 DEF PInv, Sweep, Expire, ExpireCleanedUp, ExpireClose, NotExpiring
  <1>3. CASE \/ \E i, r \in Players : InviteExpires(i, r)
             \/ \E x \in PokemonIds : TeamChanges(x)
             \/ UNCHANGED vars
    <2>1. UNCHANGED <<connectionVars, sessionsByPlayer, sessions, screen>>
      BY <1>3 DEF InviteExpires, TeamChanges, vars, tradeVars
    <2>2. \A q \in Players : IsConnected(q)' = IsConnected(q)
      BY <2>1 DEF connectionVars, IsConnected
    <2> QED BY <2>1, <2>2, QuietScreens
  <1> QED BY <1>1, <1>2, <1>3 DEF Next

(* Where a player connects again only after its last connection was cleaned *)
(* up after, and the sweeper finds nobody, an open trade screen shows the   *)
(* session LiveTradeService has for its player, and its present offers:     *)
(* nobody is left looking at a session that is over.  With overlapping      *)
(* connections the late cleanup of the old one ends the session of the new. *)
THEOREM ScreensShowTheSession ==
    ASSUME NEW c, Connections = {c}, ~ Sweeps
    PROVE  Spec => []ScreensAreCurrent
  <1>1. Init => PInv /\ ScreensAreCurrent
    BY DEF Init, ConnectionsInit, PInv, InviteesPresent, SessionsOfTheConnected, InSession,
           ScreensAreCurrent, BlankScreen
  <1>2. IInv /\ PInv /\ [Next]_vars => PInv'
    BY StepKeepsPresence
  <1>3. IInv /\ PInv /\ ScreensAreCurrent /\ [Next]_vars => ScreensAreCurrent'
    BY StepUpdatesScreens
  <1> QED BY <1>1, <1>2, <1>3, InvHolds, PTL DEF Spec

===============================================================================
