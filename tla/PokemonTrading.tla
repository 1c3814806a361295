---------------------------- MODULE PokemonTrading ----------------------------
(***************************************************************************)
(* PokemonService and TradeService when their transactions run one at a    *)
(* time: every @Transactional method that writes is one action on the      *)
(* committed `pokemon' and `trades' tables.  A request the code refuses    *)
(* rolls back and changes nothing, so it has no action, except the refusal *)
(* that does write: accept's ownership drift (noRollbackFor).              *)
(*                                                                         *)
(* PokemonTransactions takes these methods apart into their SQL statements *)
(* and lets them interleave.                                               *)
(***************************************************************************)
EXTENDS PokemonStorage

CONSTANTS
    TradeIds,   \* uuids UUID.randomUUID() may draw for a trade
    NoTrade     \* a trades row that does not exist

ASSUME TradingAssumption == NoTrade \notin [initiator : Players, recipient : Players,
    offered : PokemonIds, requested : PokemonIds,
    status : {"PENDING", "COMPLETED", "CANCELLED"}]

VARIABLES
    pokemon,   \* the `pokemon' table
    drawn,     \* the Pokemon uuids drawn so far: a uuid never comes twice
    trades     \* the `trades' table; its rows are never deleted

vars == <<pokemon, drawn, trades>>

(* ACCEPTED exists in TradeStatus and in the CHECK of V3; no code sets it.  *)
Statuses == {"PENDING", "COMPLETED", "CANCELLED"}

Trade == [initiator : Players, recipient : Players,
          offered : PokemonIds, requested : PokemonIds, status : Statuses]

TypeOK ==
    /\ pokemon \in Tables
    /\ drawn \subseteq PokemonIds
    /\ trades \in [TradeIds -> Trade \cup {NoTrade}]

Init ==
    /\ pokemon = [p \in PokemonIds |-> NoRow]
    /\ drawn = {}
    /\ trades = [t \in TradeIds |-> NoTrade]

Pending(t) == trades[t] # NoTrade /\ trades[t].status = "PENDING"

(* isEngagedInPendingTrade *)
EngagedInPendingTrade(p) ==
    \E t \in TradeIds : Pending(t) /\ p \in {trades[t].offered, trades[t].requested}

-------------------------------------------------------------------------------
(* PokemonService *)

Insert(p, row) ==
    /\ p \notin drawn
    /\ \A q \in PokemonIds : ~ Collide(row, pokemon[q])
    /\ pokemon' = [pokemon EXCEPT ![p] = row]
    /\ drawn' = drawn \cup {p}
    /\ UNCHANGED trades

(* POST /pokemon: the first free PC slot when no place is named, otherwise  *)
(* exactly the place named, a team slot and a PC slot at once included.     *)
Create(o, p, loc) ==
    IF loc.box = 0 /\ loc.team = 0
    THEN /\ FreePcSlots(pokemon, o) # {}
         /\ Insert(p, [owner |-> o, box |-> FindFreePcSlot(pokemon, o), team |-> 0])
    ELSE Insert(p, [owner |-> o, box |-> loc.box, team |-> loc.team])

Clone(o, p, c) ==
    /\ pokemon[p].owner = o
    /\ FreePcSlots(pokemon, o) # {}
    /\ Insert(c, [owner |-> o, box |-> FindFreePcSlot(pokemon, o), team |-> 0])

(* PATCH /pokemon/{uuid} with a destination.  A PATCH without one writes    *)
(* only the payload.                                                        *)
Move(o, p, loc) ==
    /\ pokemon[p].owner = o
    /\ pokemon' = MoveTo(pokemon, o, p, loc)
    /\ UNCHANGED <<drawn, trades>>

(* Mutant: the foreign keys of V3 are gone and nothing replaces them. *)
DeleteUnchecked(o, p) ==
    /\ pokemon[p].owner = o
    /\ pokemon' = [pokemon EXCEPT ![p] = NoRow]
    /\ UNCHANGED <<drawn, trades>>

Delete(o, p) ==
    /\ pokemon[p].owner = o
    /\ ~ EngagedInPendingTrade(p)
    /\ pokemon' = [pokemon EXCEPT ![p] = NoRow]
    /\ UNCHANGED <<drawn, trades>>

-------------------------------------------------------------------------------
(* TradeService *)

NewTrade(t, i, r, x, y, status) ==
    /\ trades[t] = NoTrade
    /\ trades' = [trades EXCEPT ![t] = [initiator |-> i, recipient |-> r,
                    offered |-> x, requested |-> y, status |-> status]]

Propose(i, r, x, y, t) ==
    /\ i # r
    /\ pokemon[x].owner = i
    /\ pokemon[y].owner = r
    /\ NewTrade(t, i, r, x, y, "PENDING")
    /\ UNCHANGED <<pokemon, drawn>>

Resolve(t, status) == trades' = [trades EXCEPT ![t].status = status]

(* Mutant: the drift of the requested Pokemon is not looked at. *)
StillOwnedOffered(t) == pokemon[trades[t].offered].owner = trades[t].initiator

StillOwned(t) ==
    /\ pokemon[trades[t].offered].owner = trades[t].initiator
    /\ pokemon[trades[t].requested].owner = trades[t].recipient

(* Mutant: only the recipient's PC is tested. *)
PcRoomOfRecipient(t) == HasFreePcSlot(pokemon, trades[t].recipient)

(* requirePcRoom *)
PcRoom(t) ==
    /\ HasFreePcSlot(pokemon, trades[t].recipient)
    /\ \/ pokemon[trades[t].offered].box # 0
       \/ HasFreePcSlot(pokemon, trades[t].initiator)

(* The table after accept's first transferOwnership.                       *)
OfferedHandedOver(t) == Transfer(pokemon, trades[t].offered, trades[t].recipient)

(* Neither transferOwnership throws ERROR_POKEMON_PC_FULL.                  *)
TransfersFit(t) ==
    /\ FreePcSlots(pokemon, trades[t].recipient) # {}
    /\ FreePcSlots(OfferedHandedOver(t), trades[t].initiator) # {}

(* accept, the ownership of both Pokemon unchanged since the proposal.      *)
Accept(c, t) ==
    /\ Pending(t)
    /\ trades[t].recipient = c
    /\ StillOwned(t)
    /\ PcRoom(t)
    /\ TransfersFit(t)
    /\ pokemon' = Transfer(OfferedHandedOver(t), trades[t].requested, trades[t].initiator)
    /\ Resolve(t, "COMPLETED")
    /\ UNCHANGED drawn

(* accept, one of the two in other hands: CANCELLED is committed although   *)
(* the request fails.  A Pokemon that no longer exists is a 404 before this *)
(* point, which leaves the trade as it is.                                  *)
AcceptDrifted(c, t) ==
    /\ Pending(t)
    /\ trades[t].recipient = c
    /\ Exists(pokemon, trades[t].offered)
    /\ Exists(pokemon, trades[t].requested)
    /\ ~ StillOwned(t)
    /\ Resolve(t, "CANCELLED")
    /\ UNCHANGED <<pokemon, drawn>>

(* Mutant: no requirePending. *)
CancelAnyTime(c, t) ==
    /\ trades[t] # NoTrade
    /\ c \in {trades[t].initiator, trades[t].recipient}
    /\ Resolve(t, "CANCELLED")
    /\ UNCHANGED <<pokemon, drawn>>

Cancel(c, t) ==
    /\ Pending(t)
    /\ c \in {trades[t].initiator, trades[t].recipient}
    /\ Resolve(t, "CANCELLED")
    /\ UNCHANGED <<pokemon, drawn>>

(* completeLiveTrade: called by LiveTradeService with two distinct players. *)
CompleteLiveTrade(i, r, x, y, t) ==
    /\ i # r
    /\ pokemon[x].owner = i
    /\ pokemon[y].owner = r
    /\ pokemon[x].team # 0
    /\ pokemon[y].team # 0
    /\ pokemon' = SwapTeamMembers(pokemon, x, y)
    /\ NewTrade(t, i, r, x, y, "COMPLETED")
    /\ UNCHANGED drawn

-------------------------------------------------------------------------------
(* The destinations of a PATCH: a team slot, or else a PC slot.             *)
Destinations == {loc \in Locations : (loc.box = 0) # (loc.team = 0)}

Next ==
    \/ \E o \in Players, p \in PokemonIds :
          \/ \E loc \in Locations : Create(o, p, loc)
          \/ \E loc \in Destinations : Move(o, p, loc)
          \/ \E c \in PokemonIds : Clone(o, p, c)
          \/ Delete(o, p)
    \/ \E i, r \in Players, x, y \in PokemonIds, t \in TradeIds :
          \/ Propose(i, r, x, y, t)
          \/ CompleteLiveTrade(i, r, x, y, t)
    \/ \E c \in Players, t \in TradeIds :
          \/ Accept(c, t)
          \/ AcceptDrifted(c, t)
          \/ Cancel(c, t)

Spec == Init /\ [][Next]_vars

-------------------------------------------------------------------------------
(* Properties *)

(* No two Pokemon of a player ever stand in one slot.  Moves, swaps and     *)
(* trades do not test the slot they write: their algorithms (first free     *)
(* slot, exchange of the two locations) must keep the unique indexes of     *)
(* `pokemon' from ever rejecting one of their own writes.                   *)
SlotsUnique == NoTwoInASlot(pokemon)

(* No Pokemon is lost from sight: whatever sequence of moves, swaps and     *)
(* trades it went through, it is in its owner's PC or team.                 *)
Located == AllLocated(pokemon)

(* V7 dropped the foreign keys of `trades' to `pokemon'; PokemonService's   *)
(* delete must make up for them: a PENDING trade names Pokemon that exist,  *)
(* although they may have changed hands several times since the proposal.   *)
PendingPokemonExist ==
    \A t \in TradeIds : Pending(t) =>
        Exists(pokemon, trades[t].offered) /\ Exists(pokemon, trades[t].requested)

(* BUG-5: once requirePcRoom has passed, neither transferOwnership can run  *)
(* out of PC slots, the first one while the recipient still holds what it   *)
(* gives.  Otherwise accept ends in an UnexpectedRollbackException.         *)
PcRoomSuffices ==
    \A t \in TradeIds : Pending(t) /\ StillOwned(t) /\ PcRoom(t) => TransfersFit(t)

TradeKept(t) ==
    trades[t] # NoTrade =>
        \/ trades'[t] = trades[t]
        \/ /\ trades[t].status = "PENDING"
           /\ \E s \in {"COMPLETED", "CANCELLED"} : trades'[t] = [trades[t] EXCEPT !.status = s]

TradesKept == \A t \in TradeIds : TradeKept(t)

(* The fields of a trade never change, and once it is COMPLETED or          *)
(* CANCELLED neither does its status: nothing is traded or refunded twice.  *)
TradeHistoryStable == [][TradesKept]_vars

(* The services implement the ledger: see OwnershipLedger.                  *)
Ledger == INSTANCE OwnershipLedger WITH
    owner <- [p \in PokemonIds |-> pokemon[p].owner],
    gone  <- {p \in drawn : ~ Exists(pokemon, p)},
    deal  <- trades

ImplementsLedger == Ledger!Spec

===============================================================================
