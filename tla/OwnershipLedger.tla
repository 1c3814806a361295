---------------------------- MODULE OwnershipLedger ----------------------------
(***************************************************************************)
(* What the trade service promises, without storage, requests or rows: who *)
(* owns which Pokemon and what became of each deal.                        *)
(*                                                                         *)
(* A Pokemon appears with one owner and disappears for good; between the   *)
(* two it changes hands only by a deal, and a deal moves both Pokemon      *)
(* together or none.  A deal that is settled or void stays so.             *)
(***************************************************************************)
CONSTANTS Players, NoPlayer, PokemonIds, TradeIds, NoTrade

VARIABLES
    owner,   \* owner[p] \in Players, or NoPlayer while p does not exist
    gone,    \* the Pokemon that have ceased to exist
    deal     \* deal[t]: the parties, the goods, the status; or NoTrade

vars == <<owner, gone, deal>>

Init ==
    /\ owner = [p \in PokemonIds |-> NoPlayer]
    /\ gone = {}
    /\ deal = [t \in TradeIds |-> NoTrade]

(* POST /pokemon and POST /pokemon/{uuid}/clone *)
Appear(p, o) ==
    /\ owner[p] = NoPlayer
    /\ p \notin gone
    /\ owner' = [owner EXCEPT ![p] = o]
    /\ UNCHANGED <<gone, deal>>

(* A Pokemon promised in a pending deal cannot be deleted. *)
Promised(p) ==
    \E t \in TradeIds :
        /\ deal[t] # NoTrade
        /\ deal[t].status = "PENDING"
        /\ p \in {deal[t].offered, deal[t].requested}

Vanish(p) ==
    /\ owner[p] # NoPlayer
    /\ ~ Promised(p)
    /\ owner' = [owner EXCEPT ![p] = NoPlayer]
    /\ gone' = gone \cup {p}
    /\ UNCHANGED deal

Offer(t, i, r, x, y) ==
    /\ deal[t] = NoTrade
    /\ i # r
    /\ owner[x] = i
    /\ owner[y] = r
    /\ deal' = [deal EXCEPT ![t] = [initiator |-> i, recipient |-> r, offered |-> x,
                                    requested |-> y, status |-> "PENDING"]]
    /\ UNCHANGED <<owner, gone>>

HandOver(i, r, x, y) ==
    /\ i # r
    /\ owner[x] = i
    /\ owner[y] = r
    /\ owner' = [owner EXCEPT ![x] = r, ![y] = i]
    /\ UNCHANGED gone

Settle(t) ==
    /\ deal[t] # NoTrade
    /\ deal[t].status = "PENDING"
    /\ HandOver(deal[t].initiator, deal[t].recipient, deal[t].offered, deal[t].requested)
    /\ deal' = [deal EXCEPT ![t].status = "COMPLETED"]

(* A live trade has no pending phase. *)
SettleAtOnce(t, i, r, x, y) ==
    /\ deal[t] = NoTrade
    /\ HandOver(i, r, x, y)
    /\ deal' = [deal EXCEPT ![t] = [initiator |-> i, recipient |-> r, offered |-> x,
                                    requested |-> y, status |-> "COMPLETED"]]

Void(t) ==
    /\ deal[t] # NoTrade
    /\ deal[t].status = "PENDING"
    /\ deal' = [deal EXCEPT ![t].status = "CANCELLED"]
    /\ UNCHANGED <<owner, gone>>

Next ==
    \/ \E p \in PokemonIds : Vanish(p) \/ \E o \in Players : Appear(p, o)
    \/ \E t \in TradeIds : Settle(t) \/ Void(t)
    \/ \E t \in TradeIds, i, r \in Players, x, y \in PokemonIds :
          Offer(t, i, r, x, y) \/ SettleAtOnce(t, i, r, x, y)

Spec == Init /\ [][Next]_vars

===============================================================================
