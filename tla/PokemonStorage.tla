---------------------------- MODULE PokemonStorage ----------------------------
(***************************************************************************)
(* The `pokemon' table and the location algorithms of PokemonService, as   *)
(* pure operators on the table.                                            *)
(*                                                                         *)
(* A row keeps its owner, its PC slot and its team slot.  The sixteen      *)
(* boxes of thirty slots are numbered consecutively (box 1 slot 1 is 1),   *)
(* because the code only ever compares (box, slot) pairs and scans them in *)
(* that order, and because the CHECK of V2 keeps box_id and box_slot both  *)
(* set or both null.  0 stands for null.  Species, level, data and the     *)
(* other columns are one payload that no operation of this module reads.   *)
(***************************************************************************)
EXTENDS Integers, FiniteSets

CONSTANTS
    Players,      \* players' uuids
    NoPlayer,     \* the owner of a row that does not exist
    PokemonIds,   \* uuids UUID.randomUUID() may draw for a Pokemon
    PcSize,       \* BOX_COUNT * SLOTS_PER_BOX
    TeamSize      \* team slots of a player

ASSUME StorageAssumption ==
    /\ NoPlayer \notin Players
    /\ PcSize \in Nat
    /\ TeamSize \in Nat
    /\ IsFiniteSet(PokemonIds)

PcSlots == 1 .. PcSize
TeamSlots == 1 .. TeamSize

(* A place in the storage: at most one of the two is set once a PATCH or a  *)
(* trade has moved the Pokemon; POST /pokemon accepts both.                 *)
Locations == [box : {0} \cup PcSlots, team : {0} \cup TeamSlots]

Row == [owner : Players, box : {0} \cup PcSlots, team : {0} \cup TeamSlots]
NoRow == [owner |-> NoPlayer, box |-> 0, team |-> 0]

Tables == [PokemonIds -> Row \cup {NoRow}]

Exists(db, p) == db[p].owner # NoPlayer

(* findByOwnerUuid *)
OwnedBy(db, o) == {p \in PokemonIds : db[p].owner = o}

BoxedBy(db, o) == {p \in OwnedBy(db, o) : db[p].box # 0}

(* Mutant: the scan runs one slot past the last box. *)
FreePcSlotsOneTooMany(db, o) ==
    {s \in 1 .. PcSize + 1 : \A p \in OwnedBy(db, o) : db[p].box # s}

FreePcSlots(db, o) == {s \in PcSlots : \A p \in OwnedBy(db, o) : db[p].box # s}

(* PokemonService.hasFreePcSlot: it counts the boxed Pokemon. *)
HasFreePcSlot(db, o) == Cardinality(BoxedBy(db, o)) < PcSize

(* PokemonService.findFreePcSlot: the first free slot; the callers guard    *)
(* the ERROR_POKEMON_PC_FULL case.                                          *)
FindFreePcSlot(db, o) ==
    CHOOSE s \in FreePcSlots(db, o) : \A u \in FreePcSlots(db, o) : s <= u

(* The Pokemon of o, other than p, that stands where loc is asked: the      *)
(* filtered findByOwnerUuidAndTeamSlot and ...BoxIdAndBoxSlot.              *)
Occupants(db, o, p, loc) ==
    {q \in OwnedBy(db, o) \ {p} :
        \/ loc.team # 0 /\ db[q].team = loc.team
        \/ loc.box # 0 /\ db[q].box = loc.box}

PutAt(row, loc) == [row EXCEPT !.box = loc.box, !.team = loc.team]

(* Mutant: the occupant stays where it is. *)
MoveToWithoutSwap(db, o, p, loc) == [db EXCEPT ![p] = PutAt(db[p], loc)]

(* Mutant: the occupant is handed the location already cleared. *)
MoveToClearedPlace(db, o, p, loc) ==
    [q \in PokemonIds |->
        IF q = p THEN PutAt(db[p], loc)
        ELSE IF q \in Occupants(db, o, p, loc)
             THEN PutAt(db[q], [box |-> 0, team |-> 0])
             ELSE db[q]]

(* PATCH with a destination: moveToTeamSlot, moveToPcSlot and swapOrMove.   *)
(* The occupant, if any, takes the location the Pokemon leaves.             *)
MoveTo(db, o, p, loc) ==
    [q \in PokemonIds |->
        IF q = p THEN PutAt(db[p], loc)
        ELSE IF q \in Occupants(db, o, p, loc)
             THEN PutAt(db[q], [box |-> db[p].box, team |-> db[p].team])
             ELSE db[q]]

(* PokemonService.transferOwnership *)
Transfer(db, p, o) ==
    [db EXCEPT ![p] = [owner |-> o, box |-> FindFreePcSlot(db, o), team |-> 0]]

(* PokemonService.swapTeamMembersBetweenOwners *)
SwapTeamMembers(db, x, y) ==
    [db EXCEPT ![x] = [owner |-> db[y].owner, box |-> 0, team |-> db[y].team],
               ![y] = [owner |-> db[x].owner, box |-> 0, team |-> db[x].team]]

(* uq_pokemon_pc_slot and uq_pokemon_team_slot of V2 and V6: the partial    *)
(* unique indexes (owner, box, slot) and (owner, team_slot).                *)
Collide(r, s) ==
    /\ r.owner = s.owner
    /\ r.owner # NoPlayer
    /\ \/ r.box # 0 /\ r.box = s.box
       \/ r.team # 0 /\ r.team = s.team

NoTwoInASlot(db) ==
    \A p, q \in PokemonIds : p # q => ~ Collide(db[p], db[q])

(* Every row is somewhere: in the PC, in the team, or in both.             *)
AllLocated(db) ==
    \A p \in PokemonIds : Exists(db, p) => db[p].box # 0 \/ db[p].team # 0

===============================================================================
