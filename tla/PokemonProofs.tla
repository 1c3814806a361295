----------------------------- MODULE PokemonProofs -----------------------------
(***************************************************************************)
(* Proofs about PokemonStorage, PokemonTrading and PokemonTransactions,    *)
(* for any number of request threads, players, Pokemon and trades, any     *)
(* size of the PC and of the team, and any request at any moment.          *)
(*                                                                         *)
(* What the location algorithms of PokemonStorage guarantee comes first: an *)
(* operation that starts from a table without two Pokemon in a slot ends   *)
(* in one, and a PC that counts fewer Pokemon than slots has a free slot   *)
(* to offer.                                                               *)
(*                                                                         *)
(* The invariant of PokemonTrading's proofs adds two facts the properties  *)
(* do not state but need: a row's uuid has been drawn (so an INSERT never  *)
(* overwrites), and the two parties of a trade differ (so accept's first   *)
(* transfer takes nothing from the PC the second one needs).               *)
(*                                                                         *)
(* In PokemonTransactions, what a transaction knows is said of its record  *)
(* alone (Program), so that a step of one thread cannot disturb it for     *)
(* another; what two transactions owe each other is said of the rows they  *)
(* have written (Isolation) and of the uuids they have drawn (Uuids).      *)
(***************************************************************************)
EXTENDS PokemonTransactions, FiniteSetTheorems, SequenceTheorems, WellFoundedInduction, TLAPS

-------------------------------------------------------------------------------
(* The tables *)

(* A set of naturals has a least element. *)
LEMMA LeastNatural ==
  ASSUME NEW T \in SUBSET Nat, T # {}
  PROVE  \E x \in T : \A y \in T : x <= y
<1> DEFINE R == {ss \in Nat \X Nat : ss[1] < ss[2]}
<1>1. IsWellFoundedOn(R, Nat)
  BY NatLessThanWellFounded DEF OpToRel
<1> HIDE DEF R
<1>2. PICK x \in T : \A y \in T : ~ (<<y, x>> \in R)
  BY <1>1, WFMin
<1> USE DEF R
<1>3. ASSUME NEW y \in T PROVE x <= y
  <2>1. x \in Nat /\ y \in Nat
    OBVIOUS
  <2>2. ~ (y < x)
    BY <1>2, <2>1
  <2> QED BY <2>1, <2>2
<1> QED BY <1>3

(* findFreePcSlot returns a free slot whenever there is one. *)
LEMMA FirstFreeSlotIsFree ==
  ASSUME NEW db, NEW o, FreePcSlots(db, o) # {}
  PROVE  FindFreePcSlot(db, o) \in FreePcSlots(db, o)
<1>1. FreePcSlots(db, o) \in SUBSET Nat
  BY StorageAssumption DEF FreePcSlots, PcSlots
<1>2. \E s \in FreePcSlots(db, o) : \A u \in FreePcSlots(db, o) : s <= u
  BY <1>1, LeastNatural
<1> QED BY <1>2 DEF FindFreePcSlot

(* hasFreePcSlot counts Pokemon, findFreePcSlot looks for a slot: the count *)
(* does not lie.                                                            *)
LEMMA CountedRoomIsASlot ==
  ASSUME NEW db \in Tables, NEW o, HasFreePcSlot(db, o)
  PROVE  FreePcSlots(db, o) # {}
<1> SUFFICES ASSUME FreePcSlots(db, o) = {} PROVE FALSE
  OBVIOUS
<1> DEFINE S == {p \in BoxedBy(db, o) : db[p].box \in PcSlots}
           f == [p \in S |-> db[p].box]
<1>1. S \in SUBSET BoxedBy(db, o) /\ BoxedBy(db, o) \in SUBSET PokemonIds
  BY DEF BoxedBy, OwnedBy
<1>2. IsFiniteSet(BoxedBy(db, o))
  BY <1>1, StorageAssumption, FS_Subset
<1>3. IsFiniteSet(S) /\ Cardinality(S) <= Cardinality(BoxedBy(db, o))
  BY <1>1, <1>2, FS_Subset
<1>4. \A s \in PcSlots : \E p \in S : f[p] = s
  <2> SUFFICES ASSUME NEW s \in PcSlots PROVE \E p \in S : f[p] = s
    OBVIOUS
  <2>1. PICK p \in OwnedBy(db, o) : db[p].box = s
    BY DEF FreePcSlots
  <2>2. s # 0
    BY StorageAssumption DEF PcSlots
  <2>3. p \in S
    BY <2>1, <2>2 DEF BoxedBy
  <2> QED BY <2>1, <2>3
<1>5. f \in Surjection(S, PcSlots)
  <2>1. f \in [S -> PcSlots]
    OBVIOUS
  <2> HIDE DEF f, S
  <2> QED BY <2>1, <1>4 DEF Surjection
<1>6. Cardinality(PcSlots) <= Cardinality(S)
  <2> HIDE DEF f, S
  <2> QED BY <1>3, <1>5, FS_Surjection
<1>7. Cardinality(PcSlots) = PcSize
  <2>1. 1 \in Int /\ PcSize \in Nat
    BY StorageAssumption
  <2>2. Cardinality(1 .. PcSize) = IF 1 > PcSize THEN 0 ELSE PcSize - 1 + 1
    BY <2>1, FS_Interval
  <2> QED BY <2>1, <2>2 DEF PcSlots
<1>8. /\ Cardinality(S) \in Nat /\ Cardinality(BoxedBy(db, o)) \in Nat
      /\ Cardinality(PcSlots) \in Nat
  BY <1>2, <1>3, <1>7, StorageAssumption, FS_CardinalityType
<1> QED
  <2> HIDE DEF S
  <2> QED BY <1>3, <1>6, <1>7, <1>8, StorageAssumption DEF HasFreePcSlot

-------------------------------------------------------------------------------
(* A row with an owner is a Row. *)
LEMMA OwnedRow ==
  ASSUME NEW db \in Tables, NEW p \in PokemonIds, db[p].owner # NoPlayer
  PROVE  db[p] \in Row
BY DEF Tables, NoRow

LEMMA FreshInsertKeepsTable ==
  ASSUME NEW db \in Tables, NEW p \in PokemonIds, NEW row \in Row,
         NoTwoInASlot(db), AllLocated(db),
         row.box # 0 \/ row.team # 0,
         \A q \in PokemonIds : ~ Collide(row, db[q])
  PROVE  LET new == [db EXCEPT ![p] = row]
         IN  new \in Tables /\ NoTwoInASlot(new) /\ AllLocated(new)
<1> DEFINE new == [db EXCEPT ![p] = row]
<1>1. \A q \in PokemonIds : new[q] = IF q = p THEN row ELSE db[q]
  BY DEF Tables
<1>2. new \in Tables
  BY DEF Tables
<1> HIDE DEF new
<1>3. NoTwoInASlot(new)
  <2> SUFFICES ASSUME NEW q \in PokemonIds, NEW r \in PokemonIds, q # r,
                      Collide(new[q], new[r])
               PROVE FALSE
    BY DEF NoTwoInASlot
  <2>1. CASE q # p /\ r # p
    BY <1>1, <2>1 DEF NoTwoInASlot
  <2>2. CASE q = p
    BY <1>1, <2>2
  <2>3. CASE r = p
    BY <1>1, <2>3 DEF Collide
  <2> QED BY <2>1, <2>2, <2>3
<1>4. AllLocated(new)
  BY <1>1 DEF AllLocated, Exists
<1> QED BY <1>2, <1>3, <1>4 DEF new

LEMMA RemovalKeepsTable ==
  ASSUME NEW db \in Tables, NEW p \in PokemonIds, NoTwoInASlot(db), AllLocated(db)
  PROVE  LET new == [db EXCEPT ![p] = NoRow]
         IN  new \in Tables /\ NoTwoInASlot(new) /\ AllLocated(new)
<1> DEFINE new == [db EXCEPT ![p] = NoRow]
<1>1. \A q \in PokemonIds : new[q] = IF q = p THEN NoRow ELSE db[q]
  BY DEF Tables
<1>2. new \in Tables
  BY DEF Tables
<1> HIDE DEF new
<1>3. NoTwoInASlot(new)
  BY <1>1 DEF NoTwoInASlot, Collide, NoRow
<1>4. AllLocated(new)
  BY <1>1 DEF AllLocated, Exists, NoRow
<1> QED BY <1>2, <1>3, <1>4 DEF new

(* transferOwnership lands in a slot nobody of the new owner stands in.     *)
LEMMA TransferKeepsTable ==
  ASSUME NEW db \in Tables, NEW p \in PokemonIds, NEW o \in Players,
         NoTwoInASlot(db), AllLocated(db), FreePcSlots(db, o) # {}
  PROVE  /\ Transfer(db, p, o) \in Tables
         /\ NoTwoInASlot(Transfer(db, p, o))
         /\ AllLocated(Transfer(db, p, o))
<1> DEFINE slot == FindFreePcSlot(db, o)
           row == [owner |-> o, box |-> slot, team |-> 0]
<1>1. slot \in PcSlots /\ \A q \in OwnedBy(db, o) : db[q].box # slot
  BY FirstFreeSlotIsFree DEF FreePcSlots
<1>2. slot # 0 /\ slot \in Nat
  BY <1>1, StorageAssumption DEF PcSlots
<1>3. row \in Row /\ row.box # 0
  <2> HIDE DEF slot
  <2> QED BY <1>1, <1>2 DEF Row
<1>4. \A q \in PokemonIds : ~ Collide(row, db[q])
  <2> HIDE DEF slot
  <2> QED BY <1>1 DEF Collide, OwnedBy
<1> HIDE DEF slot, row
<1>5. LET new == [db EXCEPT ![p] = row]
      IN  new \in Tables /\ NoTwoInASlot(new) /\ AllLocated(new)
  BY <1>3, <1>4, FreshInsertKeepsTable
<1> QED BY <1>5 DEF Transfer, slot, row

(* swapOrMove: the exchange of two locations needs no free slot.            *)
LEMMA MoveKeepsTable ==
  ASSUME NEW db \in Tables, NEW o \in Players, NEW p \in PokemonIds,
         NEW loc \in Locations, (loc.box = 0) # (loc.team = 0),
         db[p].owner = o, NoTwoInASlot(db), AllLocated(db)
  PROVE  /\ MoveTo(db, o, p, loc) \in Tables
         /\ NoTwoInASlot(MoveTo(db, o, p, loc))
         /\ AllLocated(MoveTo(db, o, p, loc))
<1> DEFINE new == MoveTo(db, o, p, loc)
           others == Occupants(db, o, p, loc)
           old == [box |-> db[p].box, team |-> db[p].team]
<1>1. p \notin others /\ others \subseteq PokemonIds
  BY DEF Occupants, OwnedBy
<1>2. \A q \in PokemonIds : new[q] = IF q = p THEN PutAt(db[p], loc)
                                     ELSE IF q \in others THEN PutAt(db[q], old) ELSE db[q]
  BY DEF MoveTo
<1>3. db[p] \in Row /\ \A q \in others : db[q] \in Row /\ db[q].owner = o
  BY OwnedRow, StorageAssumption DEF Occupants, OwnedBy
<1>4. \A row \in Row, l \in Locations :
         /\ PutAt(row, l) \in Row
         /\ PutAt(row, l).owner = row.owner
         /\ PutAt(row, l).box = l.box
         /\ PutAt(row, l).team = l.team
  BY DEF PutAt, Row, Locations
<1>5. old \in Locations
  BY <1>3 DEF Row, Locations
<1>6. new \in Tables
  <2>1. \A q \in PokemonIds : new[q] \in Row \cup {NoRow}
    BY <1>2, <1>3, <1>4, <1>5 DEF Tables
  <2> QED BY <2>1 DEF Tables, MoveTo
<1>7. \A q \in PokemonIds : new[q].owner = db[q].owner
  BY <1>2, <1>3, <1>4, <1>5
<1>8. AllLocated(new)
  <2> SUFFICES ASSUME NEW q \in PokemonIds, db[q].owner # NoPlayer
               PROVE  new[q].box # 0 \/ new[q].team # 0
    BY <1>7 DEF AllLocated, Exists
  <2>1. CASE q = p
    BY <2>1, <1>2, <1>3, <1>4
  <2>2. CASE q \in others
    <3>1. old.box # 0 \/ old.team # 0
      BY StorageAssumption DEF AllLocated, Exists
    <3> QED BY <3>1, <2>2, <1>1, <1>2, <1>3, <1>4, <1>5
  <2>3. CASE q # p /\ q \notin others
    BY <2>3, <1>2 DEF AllLocated, Exists
  <2> QED BY <2>1, <2>2, <2>3
<1>9. NoTwoInASlot(new)
  <2>1. ASSUME NEW q \in PokemonIds, q # p PROVE ~ Collide(new[p], new[q])
    <3>1. new[p].box = loc.box /\ new[p].team = loc.team /\ new[p].owner = o
      BY <1>2, <1>3, <1>4
    <3>2. CASE q \in others
      <4>1. new[q].box = db[p].box /\ new[q].team = db[p].team
        BY <3>2, <1>1, <1>2, <1>3, <1>4, <1>5
      <4>2. ~ Collide(db[p], db[q])
        BY <2>1 DEF NoTwoInASlot
      <4>3. db[q].owner = o /\ (\/ loc.team # 0 /\ db[q].team = loc.team
                                \/ loc.box # 0 /\ db[q].box = loc.box)
        BY <3>2 DEF Occupants, OwnedBy
      <4> QED BY <3>1, <4>1, <4>2, <4>3, StorageAssumption DEF Collide
    <3>3. CASE q \notin others
      <4>1. new[q] = db[q]
        BY <2>1, <3>3, <1>2
      <4> QED BY <2>1, <3>1, <3>3, <4>1 DEF Collide, Occupants, OwnedBy
    <3> QED BY <3>2, <3>3
  <2>2. ASSUME NEW q \in others, NEW r \in PokemonIds, r # p, q # r
        PROVE  ~ Collide(new[q], new[r])
    <3>1. new[q].box = db[p].box /\ new[q].team = db[p].team /\ new[q].owner = o
      BY <1>1, <1>2, <1>3, <1>4, <1>5
    <3>2. CASE r \in others
      <4>1. db[q].owner = o /\ (\/ loc.team # 0 /\ db[q].team = loc.team
                                \/ loc.box # 0 /\ db[q].box = loc.box)
        BY DEF Occupants, OwnedBy
      <4>2. db[r].owner = o /\ (\/ loc.team # 0 /\ db[r].team = loc.team
                                \/ loc.box # 0 /\ db[r].box = loc.box)
        BY <3>2 DEF Occupants, OwnedBy
      <4>3. Collide(db[q], db[r])
        BY <4>1, <4>2, StorageAssumption DEF Collide
      <4> QED BY <4>3, <2>2, <1>1 DEF NoTwoInASlot
    <3>3. CASE r \notin others
      <4>1. new[r] = db[r]
        BY <2>2, <3>3, <1>2
      <4>2. ~ Collide(db[p], db[r])
        BY <2>2 DEF NoTwoInASlot
      <4> QED BY <3>1, <4>1, <4>2 DEF Collide
    <3> QED BY <3>2, <3>3
  <2>3. \A r1, r2 : Collide(r1, r2) => Collide(r2, r1)
    BY DEF Collide
  <2>4. ASSUME NEW q \in PokemonIds, NEW r \in PokemonIds, q # r,
               q \notin others, r \notin others, q # p, r # p
        PROVE  ~ Collide(new[q], new[r])
    BY <2>4, <1>2 DEF NoTwoInASlot
  <2> HIDE DEF new, others
  <2> QED BY <2>1, <2>2, <2>3, <2>4, <1>1 DEF NoTwoInASlot
<1> QED BY <1>6, <1>8, <1>9

(* swapTeamMembersBetweenOwners: two players exchange team slots.           *)
LEMMA TeamSwapKeepsTable ==
  ASSUME NEW db \in Tables, NEW x \in PokemonIds, NEW y \in PokemonIds,
         db[x].owner # db[y].owner, db[x].owner \in Players, db[y].owner \in Players,
         db[x].team # 0, db[y].team # 0, NoTwoInASlot(db), AllLocated(db)
  PROVE  /\ SwapTeamMembers(db, x, y) \in Tables
         /\ NoTwoInASlot(SwapTeamMembers(db, x, y))
         /\ AllLocated(SwapTeamMembers(db, x, y))
<1> DEFINE new == SwapTeamMembers(db, x, y)
           forX == [owner |-> db[y].owner, box |-> 0, team |-> db[y].team]
           forY == [owner |-> db[x].owner, box |-> 0, team |-> db[x].team]
<1>1. x # y
  OBVIOUS
<1>2. \A q \in PokemonIds : new[q] = IF q = x THEN forX ELSE IF q = y THEN forY ELSE db[q]
  BY <1>1 DEF SwapTeamMembers, Tables
<1>3. forX \in Row /\ forY \in Row
  BY OwnedRow, StorageAssumption DEF Row
<1>4. new \in Tables
  BY <1>1, <1>3 DEF Tables, SwapTeamMembers
<1> HIDE DEF new
<1>5. AllLocated(new)
  BY <1>2 DEF AllLocated, Exists
<1>6. \A q \in PokemonIds \ {x, y} : ~ Collide(db[x], db[q]) /\ ~ Collide(db[y], db[q])
  BY DEF NoTwoInASlot
<1>7. \A r1, r2 : Collide(r1, r2) => Collide(r2, r1)
  BY DEF Collide
<1>8. \A q \in PokemonIds \ {x, y} : ~ Collide(forX, db[q]) /\ ~ Collide(forY, db[q])
  BY <1>6 DEF Collide
<1>9. ~ Collide(forX, forY)
  BY DEF Collide
<1>10. NoTwoInASlot(new)
  <2> SUFFICES ASSUME NEW q \in PokemonIds, NEW r \in PokemonIds, q # r
               PROVE  ~ Collide(new[q], new[r])
    BY DEF NoTwoInASlot
  <2> HIDE DEF forX, forY
  <2>1. CASE q \in {x, y} /\ r \in {x, y}
    BY <2>1, <1>1, <1>2, <1>7, <1>9
  <2>2. CASE q \in {x, y} /\ r \notin {x, y}
    BY <2>2, <1>1, <1>2, <1>8
  <2>3. CASE q \notin {x, y} /\ r \in {x, y}
    BY <2>3, <1>1, <1>2, <1>7, <1>8
  <2>4. CASE q \notin {x, y} /\ r \notin {x, y}
    BY <2>4, <1>2 DEF NoTwoInASlot
  <2> QED BY <2>1, <2>2, <2>3, <2>4
<1> QED BY <1>4, <1>5, <1>10 DEF new

-------------------------------------------------------------------------------
(* The invariant *)

UuidsDrawn == \A p \in PokemonIds : Exists(pokemon, p) => p \in drawn

PartiesDiffer ==
    \A t \in TradeIds : trades[t] # NoTrade => trades[t].initiator # trades[t].recipient

IInv ==
    /\ TypeOK
    /\ SlotsUnique
    /\ Located
    /\ UuidsDrawn
    /\ PartiesDiffer
    /\ PendingPokemonExist

-------------------------------------------------------------------------------
LEMMA PendingTrade ==
  ASSUME TypeOK, NEW t \in TradeIds, Pending(t)
  PROVE  /\ trades[t] \in Trade
         /\ trades[t].initiator \in Players /\ trades[t].recipient \in Players
         /\ trades[t].offered \in PokemonIds /\ trades[t].requested \in PokemonIds
BY DEF TypeOK, Pending, Trade

(* A write of one trade row. *)
LEMMA TradeWrite ==
  ASSUME TypeOK, NEW t \in TradeIds, NEW row \in Trade, trades' = [trades EXCEPT ![t] = row]
  PROVE  /\ trades' \in [TradeIds -> Trade \cup {NoTrade}]
         /\ \A u \in TradeIds : trades'[u] = IF u = t THEN row ELSE trades[u]
         /\ row # NoTrade
BY TradingAssumption DEF TypeOK, Trade, Statuses

LEMMA ResolveWrites ==
  ASSUME TypeOK, NEW t \in TradeIds, Pending(t), NEW s \in {"COMPLETED", "CANCELLED"},
         Resolve(t, s)
  PROVE  /\ trades' \in [TradeIds -> Trade \cup {NoTrade}]
         /\ \A u \in TradeIds : u # t => trades'[u] = trades[u]
         /\ trades'[t] \in Trade
         /\ trades'[t].initiator = trades[t].initiator
         /\ trades'[t].recipient = trades[t].recipient
         /\ trades'[t].offered = trades[t].offered
         /\ trades'[t].requested = trades[t].requested
         /\ trades'[t].status = s
         /\ trades'[t] = [trades[t] EXCEPT !.status = s]
<1>1. trades[t] \in Trade
  BY PendingTrade
<1> DEFINE row == [trades[t] EXCEPT !.status = s]
<1>2. row \in Trade
  BY <1>1 DEF Trade, Statuses
<1>3. trades' = [trades EXCEPT ![t] = row]
  BY DEF Resolve
<1>4. /\ trades' \in [TradeIds -> Trade \cup {NoTrade}]
      /\ \A u \in TradeIds : trades'[u] = IF u = t THEN row ELSE trades[u]
  <2> HIDE DEF row
  <2> QED BY <1>2, <1>3, TradeWrite
<1> QED BY <1>1, <1>2, <1>4 DEF Trade

(* After a step that resolves t and keeps every Pokemon in existence, the   *)
(* trades still differ in their parties and the pending ones still name     *)
(* existing Pokemon.                                                        *)
LEMMA ResolveKeeps ==
  ASSUME IInv, NEW t \in TradeIds, Pending(t), NEW s \in {"COMPLETED", "CANCELLED"},
         Resolve(t, s), \A p \in PokemonIds : Exists(pokemon, p) => Exists(pokemon', p)
  PROVE  PartiesDiffer' /\ PendingPokemonExist'
<1>1. /\ \A u \in TradeIds : u # t => trades'[u] = trades[u]
      /\ trades'[t].initiator = trades[t].initiator
      /\ trades'[t].recipient = trades[t].recipient
      /\ trades'[t].status = s
  BY ResolveWrites DEF IInv
<1>2. PartiesDiffer'
  BY <1>1 DEF IInv, PartiesDiffer, Pending
<1>3. PendingPokemonExist'
  <2> SUFFICES ASSUME NEW u \in TradeIds, Pending(u)'
               PROVE  /\ Exists(pokemon', trades'[u].offered)
                      /\ Exists(pokemon', trades'[u].requested)
    BY DEF PendingPokemonExist, Exists
  <2>1. u # t
    BY <1>1 DEF Pending
  <2>2. trades'[u] = trades[u] /\ Pending(u)
    BY <1>1, <2>1 DEF Pending
  <2>3. trades[u].offered \in PokemonIds /\ trades[u].requested \in PokemonIds
    BY <2>2, PendingTrade DEF IInv
  <2> QED BY <2>2, <2>3 DEF IInv, PendingPokemonExist
<1> QED BY <1>2, <1>3

(* A step that adds a trade between existing Pokemon of distinct players.   *)
LEMMA NewTradeKeeps ==
  ASSUME IInv, NEW t \in TradeIds, NEW i \in Players, NEW r \in Players, i # r,
         NEW x \in PokemonIds, NEW y \in PokemonIds, Exists(pokemon, x), Exists(pokemon, y),
         NEW s \in Statuses, NewTrade(t, i, r, x, y, s),
         \A p \in PokemonIds : Exists(pokemon, p) => Exists(pokemon', p)
  PROVE  /\ trades' \in [TradeIds -> Trade \cup {NoTrade}]
         /\ PartiesDiffer' /\ PendingPokemonExist'
<1> DEFINE row == [initiator |-> i, recipient |-> r, offered |-> x, requested |-> y,
                   status |-> s]
<1>1. row \in Trade
  BY DEF Trade
<1>2. /\ trades' \in [TradeIds -> Trade \cup {NoTrade}]
      /\ \A u \in TradeIds : trades'[u] = IF u = t THEN row ELSE trades[u]
  <2>1. trades' = [trades EXCEPT ![t] = row]
    BY DEF NewTrade
  <2> HIDE DEF row
  <2> QED BY <1>1, <2>1, TradeWrite DEF IInv
<1>3. PartiesDiffer'
  BY <1>2 DEF IInv, PartiesDiffer
<1>4. PendingPokemonExist'
  <2> SUFFICES ASSUME NEW u \in TradeIds, Pending(u)'
               PROVE  /\ Exists(pokemon', trades'[u].offered)
                      /\ Exists(pokemon', trades'[u].requested)
    BY DEF PendingPokemonExist, Exists
  <2>1. CASE u = t
    BY <1>2, <2>1
  <2>2. CASE u # t
    <3>1. trades'[u] = trades[u] /\ Pending(u)
      BY <1>2, <2>2 DEF Pending
    <3>2. trades[u].offered \in PokemonIds /\ trades[u].requested \in PokemonIds
      BY <3>1, PendingTrade DEF IInv
    <3> QED BY <3>1, <3>2 DEF IInv, PendingPokemonExist
  <2> QED BY <2>1, <2>2
<1> QED BY <1>2, <1>3, <1>4

-------------------------------------------------------------------------------
(* The operations of PokemonService. *)

LEMMA InsertKeeps ==
  ASSUME IInv, NEW p \in PokemonIds, NEW row \in Row, row.box # 0 \/ row.team # 0,
         Insert(p, row)
  PROVE  IInv'
<1>1. /\ pokemon' \in Tables /\ NoTwoInASlot(pokemon') /\ AllLocated(pokemon')
  BY FreshInsertKeepsTable DEF IInv, TypeOK, SlotsUnique, Located, Insert
<1>2. \A q \in PokemonIds : pokemon'[q] = IF q = p THEN row ELSE pokemon[q]
  BY DEF IInv, TypeOK, Tables, Insert
<1>3. \A q \in PokemonIds : Exists(pokemon, q) => Exists(pokemon', q)
  BY <1>2, StorageAssumption DEF Exists, Row
<1>4. UuidsDrawn'
  BY <1>2 DEF IInv, UuidsDrawn, Exists, Insert
<1>5. PendingPokemonExist'
  <2> SUFFICES ASSUME NEW u \in TradeIds, Pending(u)
               PROVE  /\ Exists(pokemon', trades[u].offered)
                      /\ Exists(pokemon', trades[u].requested)
    BY DEF PendingPokemonExist, Exists, Pending, Insert
  <2> QED BY <1>3, PendingTrade DEF IInv, PendingPokemonExist
<1>6. PartiesDiffer' /\ TypeOK'
  BY <1>1 DEF IInv, PartiesDiffer, TypeOK, Insert
<1> QED BY <1>1, <1>4, <1>5, <1>6 DEF IInv, SlotsUnique, Located

(* The row create and clone put in the first free slot. *)
LEMMA FreeSlotRow ==
  ASSUME NEW o \in Players, FreePcSlots(pokemon, o) # {}
  PROVE  LET row == [owner |-> o, box |-> FindFreePcSlot(pokemon, o), team |-> 0]
         IN  row \in Row /\ row.box # 0
<1>1. FindFreePcSlot(pokemon, o) \in PcSlots
  BY FirstFreeSlotIsFree DEF FreePcSlots
<1>2. FindFreePcSlot(pokemon, o) # 0
  BY <1>1, StorageAssumption DEF PcSlots
<1> QED BY <1>1, <1>2 DEF Row

LEMMA CreateKeeps ==
  ASSUME IInv, NEW o \in Players, NEW p \in PokemonIds, NEW loc \in Locations,
         Create(o, p, loc)
  PROVE  IInv'
<1>1. CASE loc.box = 0 /\ loc.team = 0
  <2> DEFINE row == [owner |-> o, box |-> FindFreePcSlot(pokemon, o), team |-> 0]
  <2>1. row \in Row /\ row.box # 0 /\ Insert(p, row)
    BY <1>1, FreeSlotRow DEF Create
  <2> HIDE DEF row
  <2> QED BY <2>1, InsertKeeps
<1>2. CASE ~ (loc.box = 0 /\ loc.team = 0)
  <2> DEFINE row == [owner |-> o, box |-> loc.box, team |-> loc.team]
  <2>1. row \in Row /\ (row.box # 0 \/ row.team # 0) /\ Insert(p, row)
    BY <1>2 DEF Create, Row, Locations
  <2> HIDE DEF row
  <2> QED BY <2>1, InsertKeeps
<1> QED BY <1>1, <1>2

LEMMA CloneKeeps ==
  ASSUME IInv, NEW o \in Players, NEW p \in PokemonIds, NEW c \in PokemonIds, Clone(o, p, c)
  PROVE  IInv'
<1> DEFINE row == [owner |-> o, box |-> FindFreePcSlot(pokemon, o), team |-> 0]
<1>1. row \in Row /\ row.box # 0 /\ Insert(c, row)
  BY FreeSlotRow DEF Clone
<1> HIDE DEF row
<1> QED BY <1>1, InsertKeeps

LEMMA MoveKeeps ==
  ASSUME IInv, NEW o \in Players, NEW p \in PokemonIds, NEW loc \in Destinations,
         Move(o, p, loc)
  PROVE  IInv'
<1>1. /\ pokemon' \in Tables /\ NoTwoInASlot(pokemon') /\ AllLocated(pokemon')
  BY MoveKeepsTable DEF IInv, TypeOK, SlotsUnique, Located, Move, Destinations
<1>2. \A q \in PokemonIds : pokemon'[q].owner = pokemon[q].owner
  <2>1. pokemon[p] \in Row /\ \A q \in PokemonIds : pokemon[q] \in Row \cup {NoRow}
    BY OwnedRow, StorageAssumption DEF IInv, TypeOK, Tables, Move
  <2> QED BY <2>1 DEF Move, MoveTo, PutAt, Row, NoRow
<1>3. UuidsDrawn' /\ PendingPokemonExist' /\ PartiesDiffer'
  <2>1. UuidsDrawn' /\ PartiesDiffer'
    BY <1>2 DEF IInv, UuidsDrawn, PartiesDiffer, Exists, Move
  <2>2. PendingPokemonExist'
    <3> SUFFICES ASSUME NEW u \in TradeIds, Pending(u)
                 PROVE  /\ Exists(pokemon', trades[u].offered)
                        /\ Exists(pokemon', trades[u].requested)
      BY DEF PendingPokemonExist, Exists, Pending, Move
    <3> QED BY <1>2, PendingTrade DEF IInv, PendingPokemonExist, Exists
  <2> QED BY <2>1, <2>2
<1> QED BY <1>1, <1>3 DEF IInv, TypeOK, SlotsUnique, Located, Move

LEMMA DeleteKeeps ==
  ASSUME IInv, NEW o \in Players, NEW p \in PokemonIds, Delete(o, p)
  PROVE  IInv'
<1>1. /\ pokemon' \in Tables /\ NoTwoInASlot(pokemon') /\ AllLocated(pokemon')
  BY RemovalKeepsTable DEF IInv, TypeOK, SlotsUnique, Located, Delete
<1>2. \A q \in PokemonIds : q # p => pokemon'[q] = pokemon[q]
  BY DEF Delete, IInv, TypeOK, Tables
<1>3. pokemon'[p] = NoRow
  BY DEF Delete, IInv, TypeOK, Tables
<1>4. UuidsDrawn'
  BY <1>2, <1>3 DEF IInv, UuidsDrawn, Exists, Delete, NoRow
<1>5. PendingPokemonExist'
  <2> SUFFICES ASSUME NEW u \in TradeIds, Pending(u)
               PROVE  /\ Exists(pokemon', trades[u].offered)
                      /\ Exists(pokemon', trades[u].requested)
    BY DEF PendingPokemonExist, Exists, Pending, Delete
  <2>1. trades[u].offered \in PokemonIds \ {p} /\ trades[u].requested \in PokemonIds \ {p}
    BY PendingTrade DEF IInv, Delete, EngagedInPendingTrade
  <2> QED BY <1>2, <2>1 DEF IInv, PendingPokemonExist, Exists
<1> QED BY <1>1, <1>4, <1>5 DEF IInv, TypeOK, SlotsUnique, Located, PartiesDiffer, Delete

-------------------------------------------------------------------------------
(* The operations of TradeService. *)

LEMMA ProposeKeeps ==
  ASSUME IInv, NEW i \in Players, NEW r \in Players, NEW x \in PokemonIds,
         NEW y \in PokemonIds, NEW t \in TradeIds, Propose(i, r, x, y, t)
  PROVE  IInv'
<1>1. Exists(pokemon, x) /\ Exists(pokemon, y)
  BY StorageAssumption DEF Propose, Exists
<1>2. NewTrade(t, i, r, x, y, "PENDING") /\ i # r /\ pokemon' = pokemon /\ drawn' = drawn
  BY DEF Propose
<1>3. "PENDING" \in Statuses /\ \A p \in PokemonIds : Exists(pokemon, p) => Exists(pokemon', p)
  BY <1>2 DEF Statuses
<1>4. /\ trades' \in [TradeIds -> Trade \cup {NoTrade}]
      /\ PartiesDiffer' /\ PendingPokemonExist'
  BY <1>1, <1>2, <1>3, NewTradeKeeps
<1> QED BY <1>2, <1>4 DEF IInv, TypeOK, SlotsUnique, Located, UuidsDrawn, Exists

LEMMA CancellingKeeps ==
  ASSUME IInv, NEW t \in TradeIds, Pending(t), Resolve(t, "CANCELLED"),
         UNCHANGED <<pokemon, drawn>>
  PROVE  IInv'
<1>1. /\ trades' \in [TradeIds -> Trade \cup {NoTrade}]
  BY ResolveWrites DEF IInv
<1>2. PartiesDiffer' /\ PendingPokemonExist'
  BY ResolveKeeps
<1> QED BY <1>1, <1>2 DEF IInv, TypeOK, SlotsUnique, Located, UuidsDrawn, Exists

(* The two transfers of an acceptance. *)
LEMMA AcceptMoves ==
  ASSUME IInv, NEW c \in Players, NEW t \in TradeIds, Accept(c, t)
  PROVE  /\ pokemon' \in Tables /\ NoTwoInASlot(pokemon') /\ AllLocated(pokemon')
         /\ \A q \in PokemonIds : pokemon'[q].owner =
               IF q = trades[t].requested THEN trades[t].initiator
               ELSE IF q = trades[t].offered THEN trades[t].recipient
               ELSE pokemon[q].owner
<1> DEFINE i == trades[t].initiator
           r == trades[t].recipient
           x == trades[t].offered
           y == trades[t].requested
           half == OfferedHandedOver(t)
<1>1. i \in Players /\ r \in Players /\ x \in PokemonIds /\ y \in PokemonIds
  BY PendingTrade DEF IInv, Accept
<1>2. half = Transfer(pokemon, x, r) /\ pokemon' = Transfer(half, y, i)
  BY DEF Accept, OfferedHandedOver
<1>3. FreePcSlots(pokemon, r) # {} /\ FreePcSlots(half, i) # {}
  BY DEF Accept, TransfersFit
<1> HIDE DEF i, r, x, y, half
<1>4. half \in Tables /\ NoTwoInASlot(half) /\ AllLocated(half)
  BY <1>1, <1>2, <1>3, TransferKeepsTable DEF IInv, TypeOK, SlotsUnique, Located
<1>5. pokemon' \in Tables /\ NoTwoInASlot(pokemon') /\ AllLocated(pokemon')
  BY <1>1, <1>2, <1>3, <1>4, TransferKeepsTable
<1>6. \A q \in PokemonIds : half[q].owner = IF q = x THEN r ELSE pokemon[q].owner
  BY <1>1, <1>2 DEF Transfer, IInv, TypeOK, Tables
<1>7. \A q \in PokemonIds : pokemon'[q].owner = IF q = y THEN i ELSE half[q].owner
  BY <1>1, <1>2, <1>4 DEF Transfer, Tables
<1> QED BY <1>5, <1>6, <1>7 DEF i, r, x, y

LEMMA AcceptKeeps ==
  ASSUME IInv, NEW c \in Players, NEW t \in TradeIds, Accept(c, t)
  PROVE  IInv'
<1>1. /\ Pending(t) /\ Resolve(t, "COMPLETED") /\ drawn' = drawn
  BY DEF Accept
<1>2. trades[t].initiator \in Players /\ trades[t].recipient \in Players
  BY <1>1, PendingTrade DEF IInv
<1>3. /\ pokemon' \in Tables /\ NoTwoInASlot(pokemon') /\ AllLocated(pokemon')
  BY AcceptMoves
<1>4. \A p \in PokemonIds : Exists(pokemon, p) <=> Exists(pokemon', p)
  <2>1. Exists(pokemon, trades[t].offered) /\ Exists(pokemon, trades[t].requested)
    BY <1>1 DEF IInv, PendingPokemonExist
  <2> QED BY <1>2, <2>1, AcceptMoves, StorageAssumption DEF Exists
<1>5. /\ trades' \in [TradeIds -> Trade \cup {NoTrade}]
      /\ PartiesDiffer' /\ PendingPokemonExist'
  BY <1>1, <1>4, ResolveWrites, ResolveKeeps DEF IInv
<1>6. UuidsDrawn'
  BY <1>1, <1>4 DEF IInv, UuidsDrawn, Exists
<1> QED BY <1>1, <1>3, <1>5, <1>6 DEF IInv, TypeOK, SlotsUnique, Located

LEMMA LiveMoves ==
  ASSUME IInv, NEW i \in Players, NEW r \in Players, NEW x \in PokemonIds,
         NEW y \in PokemonIds, NEW t \in TradeIds, CompleteLiveTrade(i, r, x, y, t)
  PROVE  /\ pokemon' \in Tables /\ NoTwoInASlot(pokemon') /\ AllLocated(pokemon')
         /\ \A q \in PokemonIds : pokemon'[q].owner =
               IF q = x THEN r ELSE IF q = y THEN i ELSE pokemon[q].owner
<1>1. x # y /\ pokemon[x].owner = i /\ pokemon[y].owner = r
  BY DEF CompleteLiveTrade
<1>2. /\ pokemon' \in Tables /\ NoTwoInASlot(pokemon') /\ AllLocated(pokemon')
  BY <1>1, TeamSwapKeepsTable DEF IInv, TypeOK, SlotsUnique, Located, CompleteLiveTrade
<1> QED BY <1>1, <1>2 DEF CompleteLiveTrade, SwapTeamMembers, IInv, TypeOK, Tables

LEMMA LiveKeeps ==
  ASSUME IInv, NEW i \in Players, NEW r \in Players, NEW x \in PokemonIds,
         NEW y \in PokemonIds, NEW t \in TradeIds, CompleteLiveTrade(i, r, x, y, t)
  PROVE  IInv'
<1>1. Exists(pokemon, x) /\ Exists(pokemon, y) /\ drawn' = drawn
  BY StorageAssumption DEF CompleteLiveTrade, Exists
<1>2. \A p \in PokemonIds : Exists(pokemon, p) <=> Exists(pokemon', p)
  BY <1>1, LiveMoves, StorageAssumption DEF Exists
<1>3. NewTrade(t, i, r, x, y, "COMPLETED") /\ i # r /\ "COMPLETED" \in Statuses
  BY DEF CompleteLiveTrade, Statuses
<1>4. /\ trades' \in [TradeIds -> Trade \cup {NoTrade}]
      /\ PartiesDiffer' /\ PendingPokemonExist'
  BY <1>1, <1>2, <1>3, NewTradeKeeps
<1>5. UuidsDrawn'
  BY <1>1, <1>2 DEF IInv, UuidsDrawn, Exists
<1> QED BY <1>1, <1>4, <1>5, LiveMoves DEF IInv, TypeOK, SlotsUnique, Located

-------------------------------------------------------------------------------
LEMMA InitEstablishes == Init => IInv
<1> SUFFICES ASSUME Init PROVE IInv
  OBVIOUS
<1>1. \A p \in PokemonIds : ~ Exists(pokemon, p) /\ pokemon[p] = NoRow
  BY DEF Init, Exists, NoRow
<1>2. \A t \in TradeIds : trades[t] = NoTrade
  BY DEF Init
<1>3. TypeOK
  BY DEF Init, TypeOK, Tables
<1>4. SlotsUnique /\ Located /\ UuidsDrawn
  BY <1>1 DEF SlotsUnique, Located, UuidsDrawn, NoTwoInASlot, Collide, AllLocated, Exists
<1>5. PartiesDiffer /\ PendingPokemonExist
  BY <1>2 DEF PartiesDiffer, PendingPokemonExist, Pending
<1> QED BY <1>3, <1>4, <1>5 DEF IInv

LEMMA NextKeeps == IInv /\ [Next]_vars => IInv'
<1> SUFFICES ASSUME IInv, [Next]_vars PROVE IInv'
  OBVIOUS
<1>1. ASSUME NEW o \in Players, NEW p \in PokemonIds, NEW loc \in Locations, Create(o, p, loc)
      PROVE  IInv'
  BY <1>1, CreateKeeps
<1>2. ASSUME NEW o \in Players, NEW p \in PokemonIds, NEW loc \in Destinations, Move(o, p, loc)
      PROVE  IInv'
  BY <1>2, MoveKeeps
<1>3. ASSUME NEW o \in Players, NEW p \in PokemonIds, NEW c \in PokemonIds, Clone(o, p, c)
      PROVE  IInv'
  BY <1>3, CloneKeeps
<1>4. ASSUME NEW o \in Players, NEW p \in PokemonIds, Delete(o, p) PROVE IInv'
  BY <1>4, DeleteKeeps
<1>5. ASSUME NEW i \in Players, NEW r \in Players, NEW x \in PokemonIds, NEW y \in PokemonIds,
             NEW t \in TradeIds, Propose(i, r, x, y, t)
      PROVE  IInv'
  BY <1>5, ProposeKeeps
<1>6. ASSUME NEW i \in Players, NEW r \in Players, NEW x \in PokemonIds, NEW y \in PokemonIds,
             NEW t \in TradeIds, CompleteLiveTrade(i, r, x, y, t)
      PROVE  IInv'
  BY <1>6, LiveKeeps
<1>7. ASSUME NEW c \in Players, NEW t \in TradeIds, Accept(c, t) PROVE IInv'
  BY <1>7, AcceptKeeps
<1>8. ASSUME NEW c \in Players, NEW t \in TradeIds, AcceptDrifted(c, t) PROVE IInv'
  BY <1>8, CancellingKeeps DEF AcceptDrifted
<1>9. ASSUME NEW c \in Players, NEW t \in TradeIds, Cancel(c, t) PROVE IInv'
  BY <1>9, CancellingKeeps DEF Cancel
<1>10. CASE UNCHANGED vars
  BY <1>10 DEF vars, IInv, TypeOK, SlotsUnique, Located, UuidsDrawn, PartiesDiffer,
               PendingPokemonExist, Pending, Exists
<1> QED
  BY <1>1, <1>2, <1>3, <1>4, <1>5, <1>6, <1>7, <1>8, <1>9, <1>10 DEF Next

(* The inductive invariant. *)
THEOREM Invariance == Spec => []IInv
BY InitEstablishes, NextKeeps, PTL DEF Spec

(* Every reachable state has the types of the tables.                       *)
THEOREM TypeCorrect == Spec => []TypeOK
<1>1. IInv => TypeOK
  BY DEF IInv
<1> QED BY <1>1, Invariance, PTL

(* No sequence of creations, moves, swaps, deletions and trades ever puts   *)
(* two Pokemon of a player in one slot: the algorithms of PokemonService    *)
(* keep the unique indexes of V2 without ever testing the slot they write.  *)
THEOREM StorageSound == Spec => []SlotsUnique
<1>1. IInv => SlotsUnique
  BY DEF IInv
<1> QED BY <1>1, Invariance, PTL

(* Nor does one lose a Pokemon from both the PC and the team.               *)
THEOREM NobodyIsLost == Spec => []Located
<1>1. IInv => Located
  BY DEF IInv
<1> QED BY <1>1, Invariance, PTL

(* delete's check replaces the foreign keys that V7 dropped.                *)
THEOREM PendingTradesSound == Spec => []PendingPokemonExist
<1>1. IInv => PendingPokemonExist
  BY DEF IInv
<1> QED BY <1>1, Invariance, PTL

-------------------------------------------------------------------------------
(* BUG-5.  The recipient's first slot is there because its count says so;   *)
(* the initiator's is either the one the offered Pokemon leaves, which no   *)
(* other of its Pokemon shares, or one that was free and that the first     *)
(* transfer, to somebody else, did not take.                                *)
LEMMA RoomForBoth ==
  ASSUME IInv, NEW t \in TradeIds, Pending(t), StillOwned(t), PcRoom(t)
  PROVE  TransfersFit(t)
<1> DEFINE i == trades[t].initiator
           r == trades[t].recipient
           x == trades[t].offered
           half == OfferedHandedOver(t)
<1>1. /\ i \in Players /\ r \in Players /\ x \in PokemonIds /\ i # r
      /\ pokemon[x].owner = i /\ pokemon \in Tables
  <2>1. i # r
    BY DEF IInv, PartiesDiffer, Pending
  <2> QED BY <2>1, PendingTrade DEF IInv, StillOwned, TypeOK
<1>2. FreePcSlots(pokemon, r) # {}
  BY <1>1, CountedRoomIsASlot DEF PcRoom
<1>3. half = Transfer(pokemon, x, r)
  BY DEF OfferedHandedOver
<1>4. \A q \in PokemonIds : half[q] = IF q = x THEN half[x] ELSE pokemon[q]
  BY <1>1, <1>3 DEF Transfer, Tables
<1>5. half[x].owner = r
  BY <1>1, <1>3 DEF Transfer, Tables
<1> HIDE DEF i, r, x, half
<1>6. OwnedBy(half, i) = OwnedBy(pokemon, i) \ {x}
  BY <1>1, <1>4, <1>5 DEF OwnedBy
<1>7. FreePcSlots(half, i) # {}
  <2>1. CASE pokemon[x].box # 0
    <3>1. pokemon[x].box \in PcSlots
      BY <1>1, <2>1, OwnedRow, StorageAssumption DEF Row
    <3>2. \A q \in OwnedBy(half, i) : half[q].box # pokemon[x].box
      BY <1>1, <1>4, <1>6, <2>1, StorageAssumption
      DEF IInv, SlotsUnique, NoTwoInASlot, Collide, OwnedBy
    <3> QED BY <3>1, <3>2 DEF FreePcSlots
  <2>2. CASE HasFreePcSlot(pokemon, i)
    <3>1. PICK s \in FreePcSlots(pokemon, i) : TRUE
      BY <1>1, <2>2, CountedRoomIsASlot
    <3>2. \A q \in OwnedBy(half, i) : q \in OwnedBy(pokemon, i) /\ half[q] = pokemon[q]
      BY <1>4, <1>6 DEF OwnedBy
    <3>3. s \in FreePcSlots(half, i)
      BY <3>1, <3>2 DEF FreePcSlots
    <3> QED BY <3>3
  <2> QED BY <2>1, <2>2 DEF PcRoom, x, i
<1> QED BY <1>2, <1>7 DEF TransfersFit, half, i, r

(* An acceptance that passes requirePcRoom never runs out of PC slots       *)
(* half-way.                                                                *)
THEOREM PcRoomTheorem == Spec => []PcRoomSuffices
<1>1. IInv => PcRoomSuffices
  BY RoomForBoth DEF PcRoomSuffices
<1> QED BY <1>1, Invariance, PTL

-------------------------------------------------------------------------------
LEMMA StepResolves ==
  ASSUME IInv, NEW t \in TradeIds, Pending(t), NEW s \in {"COMPLETED", "CANCELLED"},
         Resolve(t, s), NEW u \in TradeIds
  PROVE  TradeKept(u)
<1>1. \A v \in TradeIds : v # t => trades'[v] = trades[v]
  BY ResolveWrites DEF IInv
<1>2. trades'[t] = [trades[t] EXCEPT !.status = s]
  BY ResolveWrites DEF IInv
<1> QED BY <1>1, <1>2 DEF Pending, TradeKept

LEMMA StepKeepsTrades ==
  ASSUME IInv, Next, NEW u \in TradeIds
  PROVE  TradeKept(u)
<1>1. ASSUME NEW o \in Players, NEW p \in PokemonIds,
             \/ \E loc \in Locations : Create(o, p, loc)
             \/ \E loc \in Destinations : Move(o, p, loc)
             \/ \E c \in PokemonIds : Clone(o, p, c)
             \/ Delete(o, p)
      PROVE  TradeKept(u)
  BY <1>1 DEF Create, Move, Clone, Delete, Insert, TradeKept
<1>2. ASSUME NEW i \in Players, NEW r \in Players, NEW x \in PokemonIds, NEW y \in PokemonIds,
             NEW t \in TradeIds, Propose(i, r, x, y, t) \/ CompleteLiveTrade(i, r, x, y, t)
      PROVE  TradeKept(u)
  BY <1>2 DEF Propose, CompleteLiveTrade, NewTrade, IInv, TypeOK, TradeKept
<1>3. ASSUME NEW c \in Players, NEW t \in TradeIds,
             Accept(c, t) \/ AcceptDrifted(c, t) \/ Cancel(c, t)
      PROVE  TradeKept(u)
  <2>1. Pending(t) /\ (Resolve(t, "COMPLETED") \/ Resolve(t, "CANCELLED"))
    BY <1>3 DEF Accept, AcceptDrifted, Cancel
  <2> QED BY <2>1, StepResolves
<1> QED BY <1>1, <1>2, <1>3 DEF Next

(* A resolved trade is never resolved again, and no trade changes its       *)
(* parties or its Pokemon.                                                  *)
THEOREM TradeHistoryTheorem == Spec => TradeHistoryStable
<1>1. IInv /\ [Next]_vars => [TradesKept]_vars
  BY StepKeepsTrades DEF TradesKept
<1> QED BY <1>1, Invariance, PTL DEF Spec, TradeHistoryStable

-------------------------------------------------------------------------------
(* Refinement: each operation is one step of OwnershipLedger, or none.      *)

Owners == [p \in PokemonIds |-> pokemon[p].owner]
Gone == {p \in drawn : ~ Exists(pokemon, p)}

LEMMA InsertAppears ==
  ASSUME IInv, NEW p \in PokemonIds, NEW row \in Row, Insert(p, row)
  PROVE  Ledger!Next
<1>1. Owners[p] = NoPlayer /\ p \notin Gone
  BY DEF Insert, IInv, UuidsDrawn, Exists, Owners, Gone
<1>2. \A q \in PokemonIds : pokemon'[q] = IF q = p THEN row ELSE pokemon[q]
  BY DEF Insert, IInv, TypeOK, Tables
<1>3. row.owner \in Players /\ row.owner # NoPlayer
  BY StorageAssumption DEF Row
<1>4. Owners' = [Owners EXCEPT ![p] = row.owner]
  BY <1>2 DEF Owners
<1>5. Gone' = Gone
  <2>1. \A q \in drawn : q \in PokemonIds /\ q # p
    BY DEF Insert, IInv, TypeOK
  <2> QED BY <1>2, <1>3, <2>1 DEF Insert, Gone, Exists
<1>6. trades' = trades
  BY DEF Insert
<1>7. Ledger!Appear(p, row.owner)
  BY <1>1, <1>4, <1>5, <1>6 DEF Ledger!Appear, Owners, Gone
<1> QED BY <1>3, <1>7 DEF Ledger!Next

LEMMA CreateAppears ==
  ASSUME IInv, NEW o \in Players, NEW p \in PokemonIds, NEW loc \in Locations, Create(o, p, loc)
  PROVE  Ledger!Next
<1>1. CASE loc.box = 0 /\ loc.team = 0
  <2> DEFINE row == [owner |-> o, box |-> FindFreePcSlot(pokemon, o), team |-> 0]
  <2>1. row \in Row /\ Insert(p, row)
    BY <1>1, FreeSlotRow DEF Create
  <2> HIDE DEF row
  <2> QED BY <2>1, InsertAppears
<1>2. CASE ~ (loc.box = 0 /\ loc.team = 0)
  <2> DEFINE row == [owner |-> o, box |-> loc.box, team |-> loc.team]
  <2>1. row \in Row /\ Insert(p, row)
    BY <1>2 DEF Create, Row, Locations
  <2> HIDE DEF row
  <2> QED BY <2>1, InsertAppears
<1> QED BY <1>1, <1>2

LEMMA CloneAppears ==
  ASSUME IInv, NEW o \in Players, NEW p \in PokemonIds, NEW c \in PokemonIds, Clone(o, p, c)
  PROVE  Ledger!Next
<1> DEFINE row == [owner |-> o, box |-> FindFreePcSlot(pokemon, o), team |-> 0]
<1>1. row \in Row /\ Insert(c, row)
  BY FreeSlotRow DEF Clone
<1> HIDE DEF row
<1> QED BY <1>1, InsertAppears

LEMMA MoveStutters ==
  ASSUME IInv, NEW o \in Players, NEW p \in PokemonIds, NEW loc \in Destinations, Move(o, p, loc)
  PROVE  UNCHANGED Ledger!vars
<1>1. \A q \in PokemonIds : pokemon'[q].owner = pokemon[q].owner
  <2>1. pokemon[p] \in Row /\ \A q \in PokemonIds : pokemon[q] \in Row \cup {NoRow}
    BY OwnedRow, StorageAssumption DEF IInv, TypeOK, Tables, Move
  <2> QED BY <2>1 DEF Move, MoveTo, PutAt, Row, NoRow
<1>2. Owners' = Owners
  BY <1>1 DEF Owners
<1>3. Gone' = Gone
  BY <1>1 DEF Gone, Exists, Move, IInv, TypeOK
<1> QED BY <1>2, <1>3 DEF Ledger!vars, Owners, Gone, Move

LEMMA DeleteVanishes ==
  ASSUME IInv, NEW o \in Players, NEW p \in PokemonIds, Delete(o, p)
  PROVE  Ledger!Next
<1>1. pokemon'[p] = NoRow /\ \A q \in PokemonIds : q # p => pokemon'[q] = pokemon[q]
  BY DEF Delete, IInv, TypeOK, Tables
<1>2. Exists(pokemon, p) /\ p \in drawn
  BY StorageAssumption DEF Delete, IInv, UuidsDrawn, Exists
<1>3. Owners' = [Owners EXCEPT ![p] = NoPlayer] /\ Owners[p] # NoPlayer
  <2>1. pokemon'[p].owner = NoPlayer /\ pokemon[p].owner # NoPlayer
    BY <1>1, <1>2 DEF NoRow, Exists
  <2>2. \A q \in PokemonIds :
           pokemon'[q].owner = IF q = p THEN NoPlayer ELSE pokemon[q].owner
    BY <1>1, <2>1
  <2> QED BY <2>1, <2>2 DEF Owners
<1>4. Gone' = Gone \cup {p}
  BY <1>1, <1>2 DEF Gone, Exists, NoRow, Delete, IInv, TypeOK
<1>5. ~ Ledger!Promised(p)
  BY DEF Delete, EngagedInPendingTrade, Pending, Ledger!Promised
<1>6. Ledger!Vanish(p)
  BY <1>3, <1>4, <1>5 DEF Ledger!Vanish, Owners, Gone, Delete
<1> QED BY <1>6 DEF Ledger!Next

LEMMA ProposeOffers ==
  ASSUME IInv, NEW i \in Players, NEW r \in Players, NEW x \in PokemonIds,
         NEW y \in PokemonIds, NEW t \in TradeIds, Propose(i, r, x, y, t)
  PROVE  Ledger!Next
<1>1. Ledger!Offer(t, i, r, x, y)
  BY DEF Propose, NewTrade, Ledger!Offer, Exists
<1> QED BY <1>1 DEF Ledger!Next

LEMMA CancellingVoids ==
  ASSUME NEW t \in TradeIds, Pending(t), Resolve(t, "CANCELLED"), UNCHANGED <<pokemon, drawn>>
  PROVE  Ledger!Next
<1>1. Ledger!Void(t)
  BY DEF Pending, Resolve, Ledger!Void, Exists
<1> QED BY <1>1 DEF Ledger!Next

LEMMA AcceptSettles ==
  ASSUME IInv, NEW c \in Players, NEW t \in TradeIds, Accept(c, t)
  PROVE  Ledger!Next
<1> DEFINE i == trades[t].initiator
           r == trades[t].recipient
           x == trades[t].offered
           y == trades[t].requested
<1>1. /\ Pending(t) /\ Resolve(t, "COMPLETED") /\ drawn' = drawn
      /\ pokemon[x].owner = i /\ pokemon[y].owner = r
  BY DEF Accept, StillOwned
<1>2. /\ i \in Players /\ r \in Players /\ x \in PokemonIds /\ y \in PokemonIds /\ i # r
  BY <1>1, PendingTrade DEF IInv, PartiesDiffer, Pending
<1>3. \A q \in PokemonIds : pokemon'[q].owner =
         IF q = y THEN i ELSE IF q = x THEN r ELSE pokemon[q].owner
  BY AcceptMoves
<1>4. trades' = [trades EXCEPT ![t].status = "COMPLETED"]
  BY <1>1 DEF Resolve
<1>5. trades[t] # NoTrade /\ trades[t].status = "PENDING"
  BY <1>1 DEF Pending
<1> HIDE DEF i, r, x, y
<1>6. Owners' = [Owners EXCEPT ![x] = r, ![y] = i]
  BY <1>1, <1>2, <1>3 DEF Owners
<1>7. Gone' = Gone
  BY <1>1, <1>2, <1>3, StorageAssumption DEF Gone, Exists, IInv, TypeOK
<1>8. Ledger!HandOver(i, r, x, y)
  BY <1>1, <1>2, <1>6, <1>7 DEF Ledger!HandOver, Owners, Gone
<1>9. Ledger!Settle(t)
  BY <1>4, <1>5, <1>8 DEF Ledger!Settle, i, r, x, y
<1> QED BY <1>9 DEF Ledger!Next

LEMMA LiveSettles ==
  ASSUME IInv, NEW i \in Players, NEW r \in Players, NEW x \in PokemonIds,
         NEW y \in PokemonIds, NEW t \in TradeIds, CompleteLiveTrade(i, r, x, y, t)
  PROVE  Ledger!Next
<1>1. /\ i # r /\ pokemon[x].owner = i /\ pokemon[y].owner = r /\ drawn' = drawn
      /\ NewTrade(t, i, r, x, y, "COMPLETED")
  BY DEF CompleteLiveTrade
<1>2. \A q \in PokemonIds : pokemon'[q].owner =
         IF q = x THEN r ELSE IF q = y THEN i ELSE pokemon[q].owner
  BY LiveMoves
<1>3. Owners' = [Owners EXCEPT ![x] = r, ![y] = i]
  BY <1>1, <1>2 DEF Owners
<1>4. Gone' = Gone
  BY <1>1, <1>2, StorageAssumption DEF Gone, Exists, IInv, TypeOK
<1>5. Ledger!HandOver(i, r, x, y)
  BY <1>1, <1>3, <1>4 DEF Ledger!HandOver, Owners, Gone
<1>6. Ledger!SettleAtOnce(t, i, r, x, y)
  BY <1>1, <1>5 DEF Ledger!SettleAtOnce, NewTrade
<1> QED BY <1>6 DEF Ledger!Next

LEMMA InitMapsToInit == Init => Ledger!Init
BY DEF Init, Ledger!Init, NoRow, Exists

LEMMA StepMapsToStep == IInv /\ [Next]_vars => [Ledger!Next]_(Ledger!vars)
<1> SUFFICES ASSUME IInv, [Next]_vars PROVE Ledger!Next \/ UNCHANGED Ledger!vars
  OBVIOUS
<1>1. ASSUME NEW o \in Players, NEW p \in PokemonIds, NEW loc \in Locations, Create(o, p, loc)
      PROVE  Ledger!Next
  BY <1>1, CreateAppears
<1>2. ASSUME NEW o \in Players, NEW p \in PokemonIds, NEW loc \in Destinations, Move(o, p, loc)
      PROVE  UNCHANGED Ledger!vars
  BY <1>2, MoveStutters
<1>3. ASSUME NEW o \in Players, NEW p \in PokemonIds, NEW c \in PokemonIds, Clone(o, p, c)
      PROVE  Ledger!Next
  BY <1>3, CloneAppears
<1>4. ASSUME NEW o \in Players, NEW p \in PokemonIds, Delete(o, p) PROVE Ledger!Next
  BY <1>4, DeleteVanishes
<1>5. ASSUME NEW i \in Players, NEW r \in Players, NEW x \in PokemonIds, NEW y \in PokemonIds,
             NEW t \in TradeIds, Propose(i, r, x, y, t)
      PROVE  Ledger!Next
  BY <1>5, ProposeOffers
<1>6. ASSUME NEW i \in Players, NEW r \in Players, NEW x \in PokemonIds, NEW y \in PokemonIds,
             NEW t \in TradeIds, CompleteLiveTrade(i, r, x, y, t)
      PROVE  Ledger!Next
  BY <1>6, LiveSettles
<1>7. ASSUME NEW c \in Players, NEW t \in TradeIds, Accept(c, t) PROVE Ledger!Next
  BY <1>7, AcceptSettles
<1>8. ASSUME NEW c \in Players, NEW t \in TradeIds, AcceptDrifted(c, t) PROVE Ledger!Next
  BY <1>8, CancellingVoids DEF AcceptDrifted
<1>9. ASSUME NEW c \in Players, NEW t \in TradeIds, Cancel(c, t) PROVE Ledger!Next
  BY <1>9, CancellingVoids DEF Cancel
<1>10. CASE UNCHANGED vars
  BY <1>10 DEF vars, Ledger!vars, Exists
<1> QED
  BY <1>1, <1>2, <1>3, <1>4, <1>5, <1>6, <1>7, <1>8, <1>9, <1>10 DEF Next

(* The services implement the ledger: a Pokemon changes hands only by a     *)
(* trade, both Pokemon of a trade change hands in the same step from the    *)
(* parties themselves, a deleted Pokemon stays deleted.                     *)
THEOREM Refinement == Spec => ImplementsLedger
BY InitMapsToInit, StepMapsToStep, Invariance, PTL DEF Spec, ImplementsLedger, Ledger!Spec

-------------------------------------------------------------------------------
(* The same services, one statement at a time *)

Creates(t) == t.req.kind \in {"create", "clone"}

(* The owner of row p when the flush in progress is over: that of the last  *)
(* write still to come, or of the row written.                              *)
Promised(t, p, o) ==
    \/ \E n \in 1 .. Len(t.todo) :
          /\ t.todo[n].key = p
          /\ t.todo[n].row.owner = o
          /\ \A m \in 1 .. Len(t.todo) : m > n => t.todo[m].key # p
    \/ /\ \A n \in 1 .. Len(t.todo) : t.todo[n].key # p
       /\ t.wrote[p] # Unset
       /\ t.wrote[p].owner = o

Exchanged(t, row) ==
    /\ Promised(t, row.offered, row.recipient)
    /\ Promised(t, row.requested, row.initiator)

(* What a transaction has made sure of, by the point it has reached.        *)
Program(t) ==
    /\ t.pc = "idle" => t = Idle
    /\ t.req.kind = "accept" =>
          /\ t.tr \in Trade
          /\ t.pc = "requested" => t.pk[t.tr.offered] # Unset
    /\ t.req.kind = "update" /\ t.pc = "place" => t.pk[t.req.target] \in Row
    /\ t.req.kind = "live" =>
          /\ t.req.caller # t.req.recipient
          /\ t.pc = "requested" => t.pk[t.req.offered] \in Row
    /\ t.req.kind = "accept" /\ t.pc \in {"room", "initiatorRoom", "give", "take"} =>
          t.tr.initiator = t.tr.recipient \/ t.tr.offered # t.tr.requested
    /\ t.req.kind = "accept" /\ t.pc = "take" => Promised(t, t.tr.offered, t.tr.recipient)

(* An INSERT of a Pokemon is that of the uuid the request drew.             *)
InsertsItsOwn(t) ==
    \A n \in 1 .. Len(t.todo) :
        t.todo[n].op = "insert" /\ t.todo[n].key \in PokemonIds =>
            Creates(t) /\ t.todo[n].key = t.req.new

(* A trade completed by t comes with the exchange, before the commit.       *)
CompletesTogether(t) ==
    /\ \A n \in 1 .. Len(t.todo) :
          t.todo[n].key \in TradeIds /\ t.todo[n].row.status = "COMPLETED" =>
              t.pc = "commit" /\ Exchanged(t, t.todo[n].row)
    /\ \A u \in TradeIds :
          t.wrote[u] # Unset /\ t.wrote[u].status = "COMPLETED" =>
              t.pc = "commit" /\ Exchanged(t, t.wrote[u])

Programs ==
    \A h \in Threads :
        Program(tx[h]) /\ InsertsItsOwn(tx[h]) /\ CompletesTogether(tx[h])

(* No row is written by two transactions, no two written rows claim a slot, *)
(* and each transaction sees a table without two Pokemon in a slot.         *)
Isolation ==
    /\ SlotsUnique
    /\ \A h \in Threads : NoTwoInASlot([p \in PokemonIds |-> View(h, p)])
    /\ \A g, h \in Threads : g # h =>
          /\ \A k \in Keys : tx[g].wrote[k] = Unset \/ tx[h].wrote[k] = Unset
          /\ \A p, q \in PokemonIds :
                p # q /\ tx[g].wrote[p] # Unset /\ tx[h].wrote[q] # Unset =>
                    ~ Collide(tx[g].wrote[p], tx[h].wrote[q])

(* Every existing row was drawn; the uuid of a Pokemon being created was    *)
(* not, nor is it that of another one; a row written exists already or is   *)
(* the one being created.                                                   *)
Uuids ==
    /\ UuidsDrawn
    /\ \A h \in Threads : Creates(tx[h]) =>
          /\ tx[h].req.new \notin drawn
          /\ \A g \in Threads : g # h /\ Creates(tx[g]) => tx[g].req.new # tx[h].req.new
    /\ \A h \in Threads, p \in PokemonIds :
          tx[h].wrote[p] # Unset /\ Exists(tx[h].wrote, p) =>
              Exists(pokemon, p) \/ (Creates(tx[h]) /\ p = tx[h].req.new)

TxInv == TxTypeOK /\ Programs /\ Isolation /\ Uuids

-------------------------------------------------------------------------------
(* Records, sequences of writes and requests. *)

Contexts == [PokemonIds -> Row \cup {NoRow, Unset}]

LEMMA FieldTypes ==
  ASSUME TxTypeOK, NEW h \in Threads
  PROVE  /\ tx[h] \in Transaction
         /\ tx[h].req \in Requests \cup {NoRequest}
         /\ tx[h].pc \in Steps
         /\ tx[h].pk \in Contexts
         /\ tx[h].tr \in Trade \cup {NoTrade}
         /\ tx[h].todo \in Seq(Writes)
         /\ tx[h].wrote \in [Keys -> Row \cup Trade \cup {NoRow, Unset}]
BY DEF TxTypeOK, Transaction, Contexts

LEMMA RequestFields ==
  ASSUME NEW req \in Requests \cup {NoRequest}
  PROVE  /\ req.kind = "create" =>
                req.caller \in Players /\ req.new \in PokemonIds /\ req.loc \in Locations
         /\ req.kind = "clone" =>
                req.caller \in Players /\ req.new \in PokemonIds /\ req.target \in PokemonIds
         /\ req.kind = "update" =>
                /\ req.caller \in Players /\ req.target \in PokemonIds
                /\ req.loc \in Destinations \cup {Nowhere}
         /\ req.kind = "delete" => req.caller \in Players /\ req.target \in PokemonIds
         /\ req.kind \in {"propose", "live"} =>
                /\ req.caller \in Players /\ req.recipient \in Players
                /\ req.offered \in PokemonIds /\ req.requested \in PokemonIds
                /\ req.trade \in TradeIds
         /\ req.kind \in {"accept", "cancel"} =>
                req.caller \in Players /\ req.trade \in TradeIds
BY DEF Requests, NoRequest

LEMMA TailOf ==
  ASSUME NEW s \in Seq(Writes), s # <<>>
  PROVE  /\ Len(s) \in Nat /\ Len(s) >= 1
         /\ Head(s) = s[1] /\ s[1] \in Writes
         /\ Tail(s) \in Seq(Writes)
         /\ Len(Tail(s)) = Len(s) - 1
         /\ \A n \in 1 .. Len(Tail(s)) : n + 1 \in 1 .. Len(s) /\ Tail(s)[n] = s[n + 1]
<1>1. Len(s) \in Nat /\ Len(s) >= 1
  BY EmptySeq, LenProperties
<1>2. /\ Head(s) = s[1] /\ Tail(s) \in Seq(Writes) /\ Len(Tail(s)) = Len(s) - 1
      /\ \A i \in 1 .. Len(Tail(s)) : Tail(s)[i] = s[i + 1]
  BY HeadTailProperties
<1>3. s[1] \in Writes
  BY <1>1, ElementOfSeq
<1> QED BY <1>1, <1>2, <1>3

LEMMA WriteTypes ==
  ASSUME NEW w \in Writes
  PROVE  /\ w.key \in Keys
         /\ w.key \in PokemonIds => w.row \in Row \cup {NoRow} /\ w.key \notin TradeIds
         /\ w.key \in TradeIds => w.row \in Trade /\ w.key \notin PokemonIds
         /\ w.row # Unset
         /\ w.row \in Row \cup Trade \cup {NoRow}
BY TransactionsAssumption DEF Writes, Keys

LEMMA OneWrite ==
  ASSUME NEW w \in Writes
  PROVE  /\ <<w>> \in Seq(Writes) /\ Len(<<w>>) = 1 /\ <<w>>[1] = w
         /\ <<w>> \o <<>> = <<w>>
OBVIOUS

LEMMA TwoWrites ==
  ASSUME NEW v \in Writes, NEW w \in Writes
  PROVE  /\ <<v>> \o <<w>> = <<v, w>>
         /\ <<v, w>> \in Seq(Writes) /\ Len(<<v, w>>) = 2
<1>1. /\ <<v>> \in Seq(Writes) /\ <<w>> \in Seq(Writes) /\ Len(<<v>>) = 1 /\ Len(<<w>>) = 1
      /\ <<v, w>> \in Seq(Writes) /\ Len(<<v, w>>) = 2
  OBVIOUS
<1>2. /\ <<v>> \o <<w>> \in Seq(Writes) /\ Len(<<v>> \o <<w>>) = 2
      /\ (<<v>> \o <<w>>)[1] = v /\ (<<v>> \o <<w>>)[2] = w
  BY <1>1, ConcatProperties
<1>3. \A n \in 1 .. 2 : (<<v>> \o <<w>>)[n] = <<v, w>>[n]
  BY <1>2
<1> QED BY <1>1, <1>2, <1>3, SeqEqual

LEMMA PokemonWrite ==
  ASSUME NEW p \in PokemonIds, NEW row \in Row \cup {NoRow}, NEW op \in {"insert", "update"}
  PROVE  Write(op, p, row) \in Writes
BY DEF Write, Writes

LEMMA TradeRowWrite ==
  ASSUME NEW t \in TradeIds, NEW row \in Trade, NEW op \in {"insert", "update"}
  PROVE  Write(op, t, row) \in Writes
BY DEF Write, Writes

-------------------------------------------------------------------------------
(* Statements that read: a request begins or goes on; nothing is written.   *)

Reads(h) ==
    /\ UNCHANGED <<pokemon, drawn, trades>>
    /\ tx' \in [Threads -> Transaction]
    /\ \A g \in Threads \ {h} : tx'[g] = tx[g]
    /\ tx[h].todo = <<>>
    /\ tx'[h].wrote = tx[h].wrote
    /\ \/ tx'[h].req = tx[h].req
       \/ /\ \A k \in Keys : tx[h].wrote[k] = Unset
          /\ Creates(tx'[h]) => FreshPokemon(tx'[h].req.new)

Planned(t) == Program(t) /\ InsertsItsOwn(t) /\ CompletesTogether(t)

LEMMA IdleIsATransaction ==
  /\ Idle \in Transaction
  /\ Idle.req = NoRequest /\ Idle.pc = "idle" /\ Idle.todo = <<>>
  /\ \A k \in Keys : Idle.wrote[k] = Unset
<1>1. /\ [p \in PokemonIds |-> Unset] \in Contexts
      /\ [k \in Keys |-> Unset] \in [Keys -> Row \cup Trade \cup {NoRow, Unset}]
  BY DEF Contexts
<1>2. <<>> \in Seq(Writes) /\ "idle" \in Steps
  BY DEF Steps
<1> QED BY <1>1, <1>2 DEF Idle, Transaction, Contexts

LEMMA BeginReads ==
  ASSUME TxTypeOK, Programs, NEW h \in Threads, NEW req \in Requests, NEW pc \in Steps,
         NEW pk \in Contexts, NEW tr \in Trade \cup {NoTrade}, NEW todo \in Seq(Writes),
         Begin(h, req, pc, pk, tr, todo),
         req.kind \in {"create", "clone"} => FreshPokemon(req.new)
  PROVE  /\ Reads(h)
         /\ tx'[h].req = req /\ tx'[h].pc = pc /\ tx'[h].pk = pk /\ tx'[h].tr = tr
         /\ tx'[h].todo = todo
         /\ \A k \in Keys : tx'[h].wrote[k] = Unset
<1> DEFINE t == [Idle EXCEPT !.req = req, !.pc = pc, !.pk = pk, !.tr = tr, !.todo = todo]
<1>1. tx[h] = Idle
  BY DEF Begin, Programs, Program
<1>2. Idle \in Transaction /\ \A k \in Keys : Idle.wrote[k] = Unset
  BY IdleIsATransaction
<1>3. /\ t.req = req /\ t.pc = pc /\ t.pk = pk /\ t.tr = tr /\ t.todo = todo
      /\ t.wrote = Idle.wrote
      /\ t \in Transaction
  BY <1>2 DEF Transaction, Contexts
<1>5. tx' = [tx EXCEPT ![h] = t] /\ UNCHANGED <<pokemon, drawn, trades>>
  BY DEF Begin
<1> HIDE DEF t
<1>6. /\ tx' \in [Threads -> Transaction] /\ tx'[h] = t
      /\ \A g \in Threads \ {h} : tx'[g] = tx[g]
  BY <1>3, <1>5 DEF TxTypeOK
<1>7. tx[h].todo = <<>> /\ tx[h].wrote = Idle.wrote
  BY <1>1 DEF Idle
<1>8. /\ tx'[h].req = req /\ tx'[h].pc = pc /\ tx'[h].pk = pk /\ tx'[h].tr = tr
      /\ tx'[h].todo = todo /\ tx'[h].wrote = Idle.wrote
  BY <1>3, <1>6
<1>9. Creates(tx'[h]) => FreshPokemon(tx'[h].req.new)
  BY <1>8 DEF Creates
<1> QED BY <1>2, <1>5, <1>6, <1>7, <1>8, <1>9 DEF Reads

LEMMA GotoReads ==
  ASSUME TxTypeOK, NEW h \in Threads, NEW pc \in Steps, NEW pk \in Contexts,
         NEW todo \in Seq(Writes), tx[h].todo = <<>>, Goto(h, pc, pk, todo)
  PROVE  /\ Reads(h)
         /\ tx'[h].req = tx[h].req /\ tx'[h].pc = pc /\ tx'[h].pk = pk
         /\ tx'[h].tr = tx[h].tr /\ tx'[h].todo = todo /\ tx'[h].wrote = tx[h].wrote
<1> DEFINE t == [tx[h] EXCEPT !.pc = pc, !.pk = pk, !.todo = todo]
<1>1. tx' = [tx EXCEPT ![h] = t] /\ UNCHANGED <<pokemon, drawn, trades>>
  BY DEF Goto, TxTypeOK
<1>2. /\ t \in Transaction
      /\ t.req = tx[h].req /\ t.pc = pc /\ t.pk = pk /\ t.tr = tx[h].tr /\ t.todo = todo
      /\ t.wrote = tx[h].wrote
  BY FieldTypes DEF Transaction, Contexts
<1> HIDE DEF t
<1>3. /\ tx' \in [Threads -> Transaction] /\ tx'[h] = t
      /\ \A g \in Threads \ {h} : tx'[g] = tx[g]
  BY <1>1, <1>2 DEF TxTypeOK
<1> QED BY <1>1, <1>2, <1>3 DEF Reads

LEMMA QuietPlan ==
  ASSUME NEW h \in Threads, NEW t, NEW u, CompletesTogether(t), t.pc # "commit",
         u.wrote = t.wrote,
         \A n \in 1 .. Len(u.todo) : u.todo[n].key \in TradeIds => u.todo[n].row.status # "COMPLETED"
  PROVE  CompletesTogether(u)
BY DEF CompletesTogether

-------------------------------------------------------------------------------
(* What the statements read. *)

LEMMA RowsSeen ==
  ASSUME TxTypeOK, NEW h \in Threads, NEW p \in PokemonIds
  PROVE  /\ View(h, p) \in Row \cup {NoRow}
         /\ Entity(h, p) \in Row \cup {NoRow}
         /\ View(h, p).owner \in Players \cup {NoPlayer}
         /\ View(h, p).owner \in Players => View(h, p) \in Row
         /\ Entity(h, p).owner \in Players => Entity(h, p) \in Row
<1>1. pokemon[p] \in Row \cup {NoRow}
  BY DEF TxTypeOK, TypeOK, Tables
<1>2. tx[h].pk[p] \in Row \cup {NoRow, Unset} /\ tx[h].wrote[p] \in Row \cup {NoRow, Unset}
  BY FieldTypes DEF TxTypeOK, Contexts
<1>3. View(h, p) \in Row \cup {NoRow} /\ Entity(h, p) \in Row \cup {NoRow}
  BY <1>1, <1>2 DEF View, Entity
<1> QED BY <1>3, StorageAssumption DEF Row, NoRow

LEMMA ContextsLoaded ==
  ASSUME TxTypeOK, NEW h \in Threads
  PROVE  /\ tx[h].pk \in Contexts
         /\ \A p \in PokemonIds :
               /\ Load(h, p) \in Contexts
               /\ \A q \in PokemonIds : Load(h, p)[q] = IF q = p THEN Entity(h, p) ELSE tx[h].pk[q]
         /\ \A o \in Players : Loaded(h, o) \in Contexts
         /\ \A p \in PokemonIds : \A row \in Row \cup {NoRow} : Only(p, row) \in Contexts
         /\ Nothing \in Contexts
<1>1. tx[h].pk \in Contexts
  BY FieldTypes
<1>2. ASSUME NEW p \in PokemonIds
      PROVE  /\ Load(h, p) \in Contexts
             /\ \A q \in PokemonIds : Load(h, p)[q] = IF q = p THEN Entity(h, p) ELSE tx[h].pk[q]
  BY <1>1, RowsSeen DEF Load, Contexts
<1>3. ASSUME NEW o \in Players PROVE Loaded(h, o) \in Contexts
  <2>1. \A p \in PokemonIds :
           (IF View(h, p).owner = o THEN Entity(h, p) ELSE tx[h].pk[p]) \in Row \cup {NoRow, Unset}
    BY <1>1, RowsSeen DEF Contexts
  <2> QED BY <2>1 DEF Loaded, Contexts
<1>4. ASSUME NEW p \in PokemonIds, NEW row \in Row \cup {NoRow} PROVE Only(p, row) \in Contexts
  BY DEF Only, Contexts
<1>5. Nothing \in Contexts
  BY DEF Nothing, Idle, Contexts
<1> QED BY <1>1, <1>2, <1>3, <1>4, <1>5

-------------------------------------------------------------------------------
(* The first statement of each request. *)

LEMMA CreateBegins ==
  ASSUME TxTypeOK, Programs, NEW h \in Threads, NEW o \in Players, NEW p \in PokemonIds,
         NEW loc \in Locations, StartCreate(h, o, p, loc)
  PROVE  Reads(h) /\ Planned(tx'[h])
<1> DEFINE req == [kind |-> "create", caller |-> o, new |-> p, loc |-> loc]
<1>1. FreshPokemon(p) /\ req \in Requests
  BY DEF StartCreate, Requests
<1>2. PICK row \in Row : Begin(h, req, "commit", Nothing, NoTrade, <<Write("insert", p, row)>>)
  <2>1. CASE loc = Nowhere
    <3>1. /\ FreePcSlots(pokemon, o) # {}
          /\ Begin(h, req, "commit", Nothing, NoTrade,
                   <<Write("insert", p, [owner |-> o, box |-> FindFreePcSlot(pokemon, o), team |-> 0])>>)
      BY <2>1 DEF StartCreate
    <3> QED BY <3>1, FreeSlotRow
  <2>2. CASE loc # Nowhere
    <3>1. Begin(h, req, "commit", Nothing, NoTrade,
                   <<Write("insert", p, [owner |-> o, box |-> loc.box, team |-> loc.team])>>)
      BY <2>2 DEF StartCreate
    <3>2. [owner |-> o, box |-> loc.box, team |-> loc.team] \in Row
      BY DEF Row, Locations
    <3> QED BY <3>1, <3>2
  <2> QED BY <2>1, <2>2
<1> DEFINE w == Write("insert", p, row)
<1>3. w \in Writes /\ w.key = p /\ w.op = "insert"
  BY PokemonWrite DEF Write
<1> HIDE DEF w
<1>4. <<w>> \in Seq(Writes) /\ Len(<<w>>) = 1 /\ <<w>>[1] = w
  BY <1>3, OneWrite
<1>5. "commit" \in Steps /\ Nothing \in Contexts
  BY ContextsLoaded DEF Steps
<1>6. Begin(h, req, "commit", Nothing, NoTrade, <<w>>)
  BY <1>2 DEF w
<1>7. req.kind = "create" /\ req.new = p
  OBVIOUS
<1> HIDE DEF req
<1>8. /\ Reads(h) /\ tx'[h].req = req /\ tx'[h].pc = "commit" /\ tx'[h].todo = <<w>>
      /\ \A k \in Keys : tx'[h].wrote[k] = Unset
  BY <1>1, <1>4, <1>5, <1>6, <1>7, BeginReads
<1>9. Program(tx'[h])
  BY <1>7, <1>8 DEF Program
<1>10. InsertsItsOwn(tx'[h])
  BY <1>3, <1>4, <1>7, <1>8 DEF InsertsItsOwn, Creates
<1>11. CompletesTogether(tx'[h])
  BY <1>3, <1>4, <1>8, TransactionsAssumption DEF CompletesTogether, Keys
<1> QED BY <1>8, <1>9, <1>10, <1>11 DEF Planned

(* A request that begins by reading. *)
LEMMA BeginPlans ==
  ASSUME TxTypeOK, Programs, NEW h \in Threads, NEW req \in Requests, NEW pc \in Steps,
         NEW pk \in Contexts, NEW tr \in Trade \cup {NoTrade}, Begin(h, req, pc, pk, tr, <<>>),
         req.kind \in {"create", "clone"} => FreshPokemon(req.new),
         \A t \in Transaction :
             t.req = req /\ t.pc = pc /\ t.pk = pk /\ t.tr = tr => Program(t)
  PROVE  Reads(h) /\ Planned(tx'[h])
<1>1. <<>> \in Seq(Writes) /\ Len(<<>>) = 0
  OBVIOUS
<1>2. /\ Reads(h) /\ tx'[h].req = req /\ tx'[h].pc = pc /\ tx'[h].pk = pk /\ tx'[h].tr = tr
      /\ tx'[h].todo = <<>> /\ \A k \in Keys : tx'[h].wrote[k] = Unset
  BY <1>1, BeginReads
<1>3. tx'[h] \in Transaction
  BY <1>2 DEF Reads
<1>4. Program(tx'[h])
  BY <1>2, <1>3
<1>5. InsertsItsOwn(tx'[h]) /\ CompletesTogether(tx'[h])
  BY <1>1, <1>2 DEF InsertsItsOwn, CompletesTogether, Keys
<1> QED BY <1>2, <1>4, <1>5 DEF Planned

LEMMA CloneBegins ==
  ASSUME TxTypeOK, Programs, NEW h \in Threads, NEW o \in Players, NEW p \in PokemonIds,
         NEW c \in PokemonIds, StartClone(h, o, p, c)
  PROVE  Reads(h) /\ Planned(tx'[h])
<1> DEFINE req == [kind |-> "clone", caller |-> o, target |-> p, new |-> c]
<1>1. /\ FreshPokemon(c) /\ Begin(h, req, "slot", Only(p, pokemon[p]), NoTrade, <<>>)
      /\ req \in Requests /\ req.kind = "clone" /\ req.new = c
  BY DEF StartClone, Requests
<1>2. pokemon[p] \in Row \cup {NoRow}
  BY DEF TxTypeOK, TypeOK, Tables
<1>3. Only(p, pokemon[p]) \in Contexts /\ "slot" \in Steps
  BY <1>2, ContextsLoaded DEF Steps
<1> HIDE DEF req
<1>4. \A t \in Transaction : t.req = req /\ t.pc = "slot" => Program(t)
  BY <1>1 DEF Program
<1> QED BY <1>1, <1>3, <1>4, BeginPlans

LEMMA UpdateBegins ==
  ASSUME TxTypeOK, Programs, NEW h \in Threads, NEW o \in Players, NEW p \in PokemonIds,
         NEW loc \in Destinations \cup {Nowhere}, NEW payload \in BOOLEAN,
         StartUpdate(h, o, p, loc, payload)
  PROVE  Reads(h) /\ Planned(tx'[h])
<1> DEFINE req == [kind |-> "update", caller |-> o, target |-> p, loc |-> loc, payload |-> payload]
           pc == IF loc = Nowhere THEN "commit" ELSE "place"
           todo == IF payload THEN <<Write("update", p, pokemon[p])>> ELSE <<>>
           w == Write("update", p, pokemon[p])
           pk == Only(p, pokemon[p])
<1>1. /\ Begin(h, req, pc, pk, NoTrade, todo) /\ pokemon[p].owner = o
      /\ req \in Requests /\ req.kind = "update" /\ req.target = p
  BY DEF StartUpdate, Requests
<1>2. pokemon[p] \in Row
  BY <1>1, OwnedRow, StorageAssumption DEF TxTypeOK, TypeOK
<1>3. pk \in Contexts /\ pc \in Steps /\ pk[p] = pokemon[p]
  BY <1>2, ContextsLoaded DEF Steps, Only
<1>4. w \in Writes /\ w.key = p /\ w.op = "update"
  BY <1>2, PokemonWrite DEF Write
<1>5. /\ todo \in Seq(Writes)
      /\ \A n \in 1 .. Len(todo) : todo[n].key = p /\ todo[n].op = "update"
  <2> HIDE DEF w
  <2>1. <<w>> \in Seq(Writes) /\ Len(<<w>>) = 1 /\ <<w>>[1] = w
    BY <1>4, OneWrite
  <2>2. CASE payload
    <3>1. todo = <<w>>
      BY <2>2 DEF w
    <3> HIDE DEF todo
    <3> QED BY <1>4, <2>1, <3>1
  <2>3. CASE ~ payload
    <3>1. todo = <<>>
      BY <2>3
    <3> HIDE DEF todo
    <3> QED BY <3>1
  <2> QED BY <2>2, <2>3
<1> HIDE DEF req, pc, todo, w, pk
<1>6. /\ Reads(h) /\ tx'[h].req = req /\ tx'[h].pk = pk /\ tx'[h].todo = todo
      /\ tx'[h].pc = pc /\ \A k \in Keys : tx'[h].wrote[k] = Unset
  <2>1. ~ (req.kind \in {"create", "clone"})
    BY <1>1
  <2> QED BY <1>1, <1>3, <1>5, <2>1, BeginReads
<1>7. Program(tx'[h])
  BY <1>1, <1>2, <1>3, <1>6 DEF Program, pc
<1>8. InsertsItsOwn(tx'[h]) /\ CompletesTogether(tx'[h])
  BY <1>5, <1>6, TransactionsAssumption DEF InsertsItsOwn, CompletesTogether, Keys
<1> QED BY <1>6, <1>7, <1>8 DEF Planned

LEMMA DeleteBegins ==
  ASSUME TxTypeOK, Programs, NEW h \in Threads, NEW o \in Players, NEW p \in PokemonIds,
         StartDelete(h, o, p)
  PROVE  Reads(h) /\ Planned(tx'[h])
<1> DEFINE req == [kind |-> "delete", caller |-> o, target |-> p]
<1>1. /\ Begin(h, req, "engaged", Only(p, pokemon[p]), NoTrade, <<>>)
      /\ req \in Requests /\ req.kind = "delete"
  BY DEF StartDelete, Requests
<1>2. pokemon[p] \in Row \cup {NoRow}
  BY DEF TxTypeOK, TypeOK, Tables
<1>3. Only(p, pokemon[p]) \in Contexts /\ "engaged" \in Steps
  BY <1>2, ContextsLoaded DEF Steps
<1> HIDE DEF req
<1>4. \A t \in Transaction : t.req = req /\ t.pc = "engaged" => Program(t)
  BY <1>1 DEF Program
<1> QED BY <1>1, <1>3, <1>4, BeginPlans

LEMMA ProposeBegins ==
  ASSUME TxTypeOK, Programs, NEW h \in Threads, NEW i \in Players, NEW r \in Players,
         NEW x \in PokemonIds, NEW y \in PokemonIds, NEW u \in TradeIds,
         StartPropose(h, i, r, x, y, u)
  PROVE  Reads(h) /\ Planned(tx'[h])
<1> DEFINE req == [kind |-> "propose", caller |-> i, recipient |-> r, offered |-> x,
                   requested |-> y, trade |-> u]
<1>1. /\ Begin(h, req, "requested", Only(x, pokemon[x]), NoTrade, <<>>)
      /\ req \in Requests /\ req.kind = "propose"
  BY DEF StartPropose, Requests
<1>2. pokemon[x] \in Row \cup {NoRow}
  BY DEF TxTypeOK, TypeOK, Tables
<1>3. Only(x, pokemon[x]) \in Contexts /\ "requested" \in Steps
  BY <1>2, ContextsLoaded DEF Steps
<1> HIDE DEF req
<1>4. \A t \in Transaction : t.req = req /\ t.pc = "requested" => Program(t)
  BY <1>1 DEF Program
<1> QED BY <1>1, <1>3, <1>4, BeginPlans

LEMMA LiveBegins ==
  ASSUME TxTypeOK, Programs, NEW h \in Threads, NEW i \in Players, NEW r \in Players,
         NEW x \in PokemonIds, NEW y \in PokemonIds, NEW u \in TradeIds,
         StartLive(h, i, r, x, y, u)
  PROVE  Reads(h) /\ Planned(tx'[h])
<1> DEFINE req == [kind |-> "live", caller |-> i, recipient |-> r, offered |-> x,
                   requested |-> y, trade |-> u]
<1>1. /\ Begin(h, req, "requested", Only(x, pokemon[x]), NoTrade, <<>>)
      /\ i # r /\ Exists(pokemon, x)
      /\ req \in Requests /\ req.kind = "live" /\ req.caller = i /\ req.recipient = r /\ req.offered = x
  BY DEF StartLive, Requests
<1>2. pokemon[x] \in Row
  BY <1>1, OwnedRow DEF TxTypeOK, TypeOK, Exists
<1>3. Only(x, pokemon[x]) \in Contexts /\ "requested" \in Steps /\ Only(x, pokemon[x])[x] = pokemon[x]
  BY <1>2, ContextsLoaded DEF Steps, Only
<1> HIDE DEF req
<1>4. \A t \in Transaction :
         t.req = req /\ t.pc = "requested" /\ t.pk = Only(x, pokemon[x]) => Program(t)
  BY <1>1, <1>2, <1>3 DEF Program
<1> QED BY <1>1, <1>3, <1>4, BeginPlans

LEMMA AcceptBegins ==
  ASSUME TxTypeOK, Programs, NEW h \in Threads, NEW c \in Players, NEW u \in TradeIds,
         StartAccept(h, c, u)
  PROVE  Reads(h) /\ Planned(tx'[h])
<1> DEFINE req == [kind |-> "accept", caller |-> c, trade |-> u]
<1>1. /\ Begin(h, req, "offered", Nothing, trades[u], <<>>) /\ trades[u] \in Trade
      /\ req \in Requests /\ req.kind = "accept"
  BY PendingTrade DEF StartAccept, Requests, TxTypeOK
<1>2. Nothing \in Contexts /\ "offered" \in Steps
  BY ContextsLoaded DEF Steps
<1> HIDE DEF req
<1>3. \A t \in Transaction : t.req = req /\ t.pc = "offered" /\ t.tr = trades[u] => Program(t)
  BY <1>1 DEF Program
<1> QED BY <1>1, <1>2, <1>3, BeginPlans

LEMMA CancelBegins ==
  ASSUME TxTypeOK, Programs, NEW h \in Threads, NEW c \in Players, NEW u \in TradeIds,
         StartCancel(h, c, u)
  PROVE  Reads(h) /\ Planned(tx'[h])
<1> DEFINE req == [kind |-> "cancel", caller |-> c, trade |-> u]
           row == [trades[u] EXCEPT !.status = "CANCELLED"]
           w == Write("update", u, row)
<1>1. /\ Begin(h, req, "commit", Nothing, trades[u], <<w>>) /\ trades[u] \in Trade
      /\ req \in Requests /\ req.kind = "cancel"
  BY PendingTrade DEF StartCancel, Requests, TxTypeOK
<1>2. row \in Trade /\ row.status = "CANCELLED"
  BY <1>1 DEF Trade, Statuses
<1> HIDE DEF row
<1>3. w \in Writes /\ w.key = u /\ w.op = "update" /\ w.row = row
  BY <1>2, TradeRowWrite DEF Write
<1>4. Nothing \in Contexts /\ "commit" \in Steps
  BY ContextsLoaded DEF Steps
<1> HIDE DEF req, w
<1>5. <<w>> \in Seq(Writes) /\ Len(<<w>>) = 1 /\ <<w>>[1] = w
  BY <1>3, OneWrite
<1>6. /\ Reads(h) /\ tx'[h].req = req /\ tx'[h].pc = "commit" /\ tx'[h].todo = <<w>>
      /\ \A k \in Keys : tx'[h].wrote[k] = Unset
  BY <1>1, <1>4, <1>5, BeginReads
<1>7. Program(tx'[h])
  BY <1>1, <1>6 DEF Program
<1>8. InsertsItsOwn(tx'[h]) /\ CompletesTogether(tx'[h])
  BY <1>2, <1>3, <1>5, <1>6, TransactionsAssumption DEF InsertsItsOwn, CompletesTogether, Keys
<1> QED BY <1>6, <1>7, <1>8 DEF Planned

-------------------------------------------------------------------------------
(* The statements that follow. *)

LEMMA RowInAFreeSlot ==
  ASSUME NEW db, NEW o \in Players, FreePcSlots(db, o) # {}
  PROVE  [owner |-> o, box |-> FindFreePcSlot(db, o), team |-> 0] \in Row
<1> DEFINE slot == FindFreePcSlot(db, o)
<1>1. slot \in PcSlots
  BY FirstFreeSlotIsFree DEF FreePcSlots
<1> HIDE DEF slot
<1>2. [owner |-> o, box |-> slot, team |-> 0] \in Row
  BY <1>1 DEF Row
<1> QED BY <1>2 DEF slot

(* A statement followed by others, with nothing to write yet. *)
LEMMA GotoPlans ==
  ASSUME TxTypeOK, Programs, NEW h \in Threads, NEW pc \in Steps, NEW pk \in Contexts,
         tx[h].todo = <<>>, tx[h].pc # "commit", Goto(h, pc, pk, <<>>),
         \A t \in Transaction :
             t.req = tx[h].req /\ t.pc = pc /\ t.pk = pk /\ t.tr = tx[h].tr => Program(t)
  PROVE  Reads(h) /\ Planned(tx'[h])
<1>1. <<>> \in Seq(Writes) /\ Len(<<>>) = 0
  OBVIOUS
<1>2. /\ Reads(h) /\ tx'[h].req = tx[h].req /\ tx'[h].pc = pc /\ tx'[h].pk = pk
      /\ tx'[h].tr = tx[h].tr /\ tx'[h].todo = <<>> /\ tx'[h].wrote = tx[h].wrote
  <2> DEFINE todo == <<>>
  <2>1. todo \in Seq(Writes) /\ Goto(h, pc, pk, todo)
    BY <1>1
  <2> HIDE DEF todo
  <2>2. /\ Reads(h) /\ tx'[h].req = tx[h].req /\ tx'[h].pc = pc /\ tx'[h].pk = pk
        /\ tx'[h].tr = tx[h].tr /\ tx'[h].todo = todo /\ tx'[h].wrote = tx[h].wrote
    BY <2>1, GotoReads
  <2> QED BY <2>2 DEF todo
<1>3. Program(tx'[h])
  BY <1>2 DEF Reads
<1>4. InsertsItsOwn(tx'[h]) /\ CompletesTogether(tx'[h])
  BY <1>1, <1>2, QuietPlan DEF Programs, InsertsItsOwn
<1> QED BY <1>2, <1>3, <1>4 DEF Planned

(* A statement followed by the flush and the commit, of a request other     *)
(* than those that complete a trade.                                        *)
LEMMA GotoCommit ==
  ASSUME TxTypeOK, Programs, NEW h \in Threads, NEW pk \in Contexts, NEW todo \in Seq(Writes),
         tx[h].todo = <<>>, tx[h].pc # "commit", Goto(h, "commit", pk, todo),
         \A n \in 1 .. Len(todo) :
             /\ todo[n].op = "insert" /\ todo[n].key \in PokemonIds =>
                   Creates(tx[h]) /\ todo[n].key = tx[h].req.new
             /\ todo[n].key \in TradeIds => todo[n].row.status # "COMPLETED"
  PROVE  Reads(h) /\ Planned(tx'[h])
<1>1. /\ Reads(h) /\ tx'[h].req = tx[h].req /\ tx'[h].pc = "commit" /\ tx'[h].pk = pk
      /\ tx'[h].tr = tx[h].tr /\ tx'[h].todo = todo /\ tx'[h].wrote = tx[h].wrote
  BY GotoReads DEF Steps
<1>2. Program(tx'[h])
  BY <1>1 DEF Program, Programs
<1>3. InsertsItsOwn(tx'[h]) /\ CompletesTogether(tx'[h])
  BY <1>1, QuietPlan DEF Programs, InsertsItsOwn, Creates
<1> QED BY <1>1, <1>2, <1>3 DEF Planned

LEMMA CloneContinues ==
  ASSUME TxTypeOK, Programs, NEW h \in Threads, CloneSlot(h)
  PROVE  Rollback(h) \/ (Reads(h) /\ Planned(tx'[h]))
<1> DEFINE o == tx[h].req.caller
           row == [owner |-> o, box |-> FindFreePcSlot(Found(h, o), o), team |-> 0]
           w == Write("insert", tx[h].req.new, row)
<1>1. /\ tx[h].req.kind = "clone" /\ tx[h].pc = "slot" /\ tx[h].todo = <<>>
      /\ o \in Players /\ tx[h].req.new \in PokemonIds
  BY FieldTypes, RequestFields DEF CloneSlot, At
<1>2. CASE FreePcSlots(Found(h, o), o) = {}
  BY <1>2 DEF CloneSlot
<1>3. CASE FreePcSlots(Found(h, o), o) # {}
  <2>1. Goto(h, "commit", Loaded(h, o), <<w>>)
    BY <1>3 DEF CloneSlot
  <2>2. row \in Row
    BY <1>1, <1>3, RowInAFreeSlot
  <2>3. w \in Writes /\ w.key = tx[h].req.new
    BY <1>1, <2>2, PokemonWrite DEF Write
  <2>4. Loaded(h, o) \in Contexts
    BY <1>1, ContextsLoaded
  <2> HIDE DEF row, w, o
  <2>5. <<w>> \in Seq(Writes) /\ Len(<<w>>) = 1 /\ <<w>>[1] = w
    BY <2>3, OneWrite
  <2>6. Creates(tx[h])
    BY <1>1 DEF Creates
  <2> DEFINE todo == <<w>>
             pk == Loaded(h, o)
  <2>8. todo \in Seq(Writes) /\ Len(todo) = 1 /\ todo[1] = w
    BY <2>5
  <2>9. Goto(h, "commit", pk, todo) /\ pk \in Contexts
    BY <2>1, <2>4
  <2> HIDE DEF todo, pk
  <2>7. \A n \in 1 .. Len(todo) :
           /\ todo[n].op = "insert" /\ todo[n].key \in PokemonIds =>
                 Creates(tx[h]) /\ todo[n].key = tx[h].req.new
           /\ todo[n].key \in TradeIds => todo[n].row.status # "COMPLETED"
    BY <1>1, <2>3, <2>8, <2>6, TransactionsAssumption
  <2> QED BY <1>1, <2>7, <2>8, <2>9, GotoCommit
<1> QED BY <1>2, <1>3

LEMMA UpdateContinues ==
  ASSUME TxTypeOK, Programs, NEW h \in Threads, UpdatePlace(h)
  PROVE  Reads(h) /\ Planned(tx'[h])
<1> DEFINE p == tx[h].req.target
           loc == tx[h].req.loc
           old == tx[h].pk[p]
           new == PutAt(old, loc)
           table == [q \in PokemonIds |-> View(h, q)]
           others == Occupants(table, tx[h].req.caller, p, loc)
<1>1. /\ tx[h].req.kind = "update" /\ tx[h].pc = "place" /\ tx[h].todo = <<>>
      /\ tx[h].req.caller \in Players /\ p \in PokemonIds /\ loc \in Locations
  <2>1. tx[h].req.kind = "update" /\ tx[h].pc = "place" /\ tx[h].todo = <<>>
    BY DEF UpdatePlace, At
  <2>2. /\ tx[h].req.caller \in Players /\ p \in PokemonIds
        /\ loc \in Destinations \cup {Nowhere}
    BY <2>1, FieldTypes, RequestFields
  <2>3. Destinations \cup {Nowhere} \subseteq Locations
    BY StorageAssumption DEF Destinations, Nowhere, Locations
  <2> QED BY <2>1, <2>2, <2>3
<1>2. old \in Row
  BY <1>1 DEF Programs, Program
<1>3. /\ new \in Row /\ PutAt(old, Nowhere) \in Row
      /\ \A row \in Row : PutAt(row, [box |-> old.box, team |-> old.team]) \in Row
  BY <1>1, <1>2 DEF PutAt, Row, Locations, Nowhere
<1>4. PICK pk \in Contexts, todo \in Seq(Writes) :
         /\ Goto(h, "commit", pk, todo)
         /\ \A n \in 1 .. Len(todo) : todo[n].op = "update" /\ todo[n].key \in PokemonIds
  <2>1. CASE others = {} /\ new = old
    <3>1. Goto(h, "commit", tx[h].pk, <<>>)
      BY <2>1 DEF UpdatePlace
    <3> DEFINE none == <<>>
    <3>2. none \in Seq(Writes) /\ Len(none) = 0 /\ tx[h].pk \in Contexts
      BY ContextsLoaded
    <3>3. \A n \in 1 .. Len(none) : none[n].op = "update" /\ none[n].key \in PokemonIds
      BY <3>2
    <3>4. Goto(h, "commit", tx[h].pk, none)
      BY <3>1
    <3> HIDE DEF none
    <3> QED BY <3>2, <3>3, <3>4
  <2>2. CASE others = {} /\ new # old
    <3> DEFINE w == Write("update", p, new)
    <3>1. Goto(h, "commit", tx[h].pk, <<w>>)
      BY <2>2 DEF UpdatePlace
    <3>2. w \in Writes /\ w.op = "update" /\ w.key = p
      BY <1>1, <1>3, PokemonWrite DEF Write
    <3> HIDE DEF w, old, new, table, others
    <3>3. <<w>> \in Seq(Writes) /\ Len(<<w>>) = 1 /\ <<w>>[1] = w /\ tx[h].pk \in Contexts
      BY <3>2, OneWrite, ContextsLoaded
    <3>4. \A n \in 1 .. Len(<<w>>) : <<w>>[n].op = "update" /\ <<w>>[n].key \in PokemonIds
      BY <1>1, <3>2, <3>3
    <3> QED BY <3>1, <3>3, <3>4
  <2>3. CASE others # {}
    <3>1. PICK q \in others :
             Goto(h, "commit", Load(h, q),
                  <<Write("update", p, PutAt(old, Nowhere)),
                    Write("update", q, PutAt(table[q], [box |-> old.box, team |-> old.team])),
                    Write("update", p, new)>>)
      BY <2>3 DEF UpdatePlace
    <3>2. q \in PokemonIds /\ table[q].owner = tx[h].req.caller
      BY DEF Occupants, OwnedBy
    <3>3. table[q] \in Row
      BY <1>1, <3>2, RowsSeen
    <3> DEFINE w1 == Write("update", p, PutAt(old, Nowhere))
               w2 == Write("update", q, PutAt(table[q], [box |-> old.box, team |-> old.team]))
               w3 == Write("update", p, new)
    <3>4. /\ w1 \in Writes /\ w1.op = "update" /\ w1.key = p
          /\ w2 \in Writes /\ w2.op = "update" /\ w2.key = q
          /\ w3 \in Writes /\ w3.op = "update" /\ w3.key = p
      BY <1>1, <1>3, <3>2, <3>3, PokemonWrite DEF Write
    <3>5. Goto(h, "commit", Load(h, q), <<w1, w2, w3>>)
      BY <3>1
    <3>6. Load(h, q) \in Contexts
      BY <3>2, ContextsLoaded
    <3> HIDE DEF w1, w2, w3, old, new, table, others
    <3>7. /\ <<w1, w2, w3>> \in Seq(Writes) /\ Len(<<w1, w2, w3>>) = 3
          /\ \A n \in 1 .. 3 : <<w1, w2, w3>>[n] \in {w1, w2, w3}
      BY <3>4
    <3>8. \A n \in 1 .. Len(<<w1, w2, w3>>) :
             <<w1, w2, w3>>[n].op = "update" /\ <<w1, w2, w3>>[n].key \in PokemonIds
      BY <1>1, <3>2, <3>4, <3>7
    <3> QED BY <3>5, <3>6, <3>7, <3>8
  <2> QED BY <2>1, <2>2, <2>3
<1>5. \A n \in 1 .. Len(todo) : ~ (todo[n].op = "insert") /\ ~ (todo[n].key \in TradeIds)
  BY <1>4, TransactionsAssumption
<1> QED BY <1>1, <1>4, <1>5, GotoCommit

LEMMA DeleteContinues ==
  ASSUME TxTypeOK, Programs, NEW h \in Threads, DeleteEngaged(h)
  PROVE  Rollback(h) \/ (Reads(h) /\ Planned(tx'[h]))
<1> DEFINE p == tx[h].req.target
           w == Write("update", p, NoRow)
<1>1. /\ tx[h].req.kind = "delete" /\ tx[h].pc = "engaged" /\ tx[h].todo = <<>>
      /\ p \in PokemonIds
  BY FieldTypes, RequestFields DEF DeleteEngaged, At
<1>2. CASE EngagedInPendingTrade(p)
  BY <1>2 DEF DeleteEngaged
<1>3. CASE ~ EngagedInPendingTrade(p)
  <2>1. Goto(h, "commit", tx[h].pk, <<w>>)
    BY <1>3 DEF DeleteEngaged
  <2>2. w \in Writes /\ w.key = p /\ w.op = "update"
    BY <1>1, PokemonWrite DEF Write
  <2> HIDE DEF w
  <2>3. <<w>> \in Seq(Writes) /\ Len(<<w>>) = 1 /\ <<w>>[1] = w /\ tx[h].pk \in Contexts
    BY <2>2, OneWrite, ContextsLoaded
  <2>4. \A n \in 1 .. Len(<<w>>) : ~ (<<w>>[n].op = "insert") /\ ~ (<<w>>[n].key \in TradeIds)
    BY <1>1, <2>2, <2>3, TransactionsAssumption
  <2> QED BY <1>1, <2>1, <2>3, <2>4, GotoCommit
<1> QED BY <1>2, <1>3

LEMMA ProposeContinues ==
  ASSUME TxTypeOK, Programs, NEW h \in Threads, ProposeRequested(h)
  PROVE  Rollback(h) \/ (Reads(h) /\ Planned(tx'[h]))
<1> DEFINE q == tx[h].req
           row == Deal(q.caller, q.recipient, q.offered, q.requested, "PENDING")
           w == Write("insert", q.trade, row)
<1>1. /\ tx[h].req.kind = "propose" /\ tx[h].pc = "requested" /\ tx[h].todo = <<>>
      /\ q.caller \in Players /\ q.recipient \in Players /\ q.trade \in TradeIds
      /\ q.offered \in PokemonIds /\ q.requested \in PokemonIds
  BY FieldTypes, RequestFields DEF ProposeRequested, At
<1>2. CASE Entity(h, q.requested).owner # q.recipient
  BY <1>2 DEF ProposeRequested
<1>3. CASE Entity(h, q.requested).owner = q.recipient
  <2>1. Goto(h, "commit", Load(h, q.requested), <<w>>)
    BY <1>3 DEF ProposeRequested
  <2>2. row \in Trade /\ row.status = "PENDING"
    BY <1>1 DEF Deal, Trade, Statuses
  <2>3. w \in Writes /\ w.key = q.trade /\ w.row = row
    BY <1>1, <2>2, TradeRowWrite DEF Write
  <2> HIDE DEF w, row
  <2>4. <<w>> \in Seq(Writes) /\ Len(<<w>>) = 1 /\ <<w>>[1] = w /\ Load(h, q.requested) \in Contexts
    BY <1>1, <2>3, OneWrite, ContextsLoaded
  <2>5. \A n \in 1 .. Len(<<w>>) : ~ (<<w>>[n].key \in PokemonIds) /\ <<w>>[n].row.status # "COMPLETED"
    BY <1>1, <2>2, <2>3, <2>4, TransactionsAssumption
  <2> QED BY <1>1, <2>1, <2>4, <2>5, GotoCommit
<1> QED BY <1>2, <1>3

(* An acceptance knows its trade. *)
LEMMA AcceptFields ==
  ASSUME TxTypeOK, Programs, NEW h \in Threads, tx[h].req.kind = "accept"
  PROVE  /\ tx[h].tr \in Trade /\ tx[h].req.trade \in TradeIds
         /\ tx[h].tr.initiator \in Players /\ tx[h].tr.recipient \in Players
         /\ tx[h].tr.offered \in PokemonIds /\ tx[h].tr.requested \in PokemonIds
BY FieldTypes, RequestFields DEF Programs, Program, Trade

LEMMA ResolveWriteType ==
  ASSUME TxTypeOK, Programs, NEW h \in Threads, tx[h].req.kind = "accept", NEW s \in Statuses
  PROVE  /\ ResolveWrite(h, s) \in Writes
         /\ ResolveWrite(h, s).op = "update" /\ ResolveWrite(h, s).key = tx[h].req.trade
         /\ ResolveWrite(h, s).row = [tx[h].tr EXCEPT !.status = s]
         /\ ResolveWrite(h, s).row.status = s
         /\ ResolveWrite(h, s).row.offered = tx[h].tr.offered
         /\ ResolveWrite(h, s).row.requested = tx[h].tr.requested
         /\ ResolveWrite(h, s).row.initiator = tx[h].tr.initiator
         /\ ResolveWrite(h, s).row.recipient = tx[h].tr.recipient
<1> DEFINE row == [tx[h].tr EXCEPT !.status = s]
<1>1. tx[h].tr \in Trade /\ tx[h].req.trade \in TradeIds
  BY AcceptFields
<1>2. /\ row \in Trade /\ row.status = s
      /\ row.offered = tx[h].tr.offered /\ row.requested = tx[h].tr.requested
      /\ row.initiator = tx[h].tr.initiator /\ row.recipient = tx[h].tr.recipient
  BY <1>1 DEF Trade
<1> HIDE DEF row
<1>3. Write("update", tx[h].req.trade, row) \in Writes
  BY <1>1, <1>2, TradeRowWrite
<1>4. ResolveWrite(h, s) = Write("update", tx[h].req.trade, row)
  BY DEF ResolveWrite, row
<1>5. /\ ResolveWrite(h, s).row = row /\ ResolveWrite(h, s).op = "update"
      /\ ResolveWrite(h, s).key = tx[h].req.trade
  BY <1>4 DEF Write
<1>6. row = [tx[h].tr EXCEPT !.status = s]
  BY DEF row
<1> QED BY <1>2, <1>3, <1>4, <1>5, <1>6

LEMMA AcceptReadsOffered ==
  ASSUME TxTypeOK, Programs, NEW h \in Threads, AcceptOffered(h)
  PROVE  Rollback(h) \/ (Reads(h) /\ Planned(tx'[h]))
<1> DEFINE x == tx[h].tr.offered
<1>1. tx[h].req.kind = "accept" /\ tx[h].pc = "offered" /\ tx[h].todo = <<>>
  BY DEF AcceptOffered, At
<1>2. tx[h].tr \in Trade /\ x \in PokemonIds
  BY <1>1, AcceptFields
<1>3. CASE Entity(h, x) = NoRow
  BY <1>3 DEF AcceptOffered
<1>4. CASE Entity(h, x) # NoRow
  <2>1. Goto(h, "requested", Load(h, x), <<>>)
    BY <1>4 DEF AcceptOffered
  <2>2. Load(h, x) \in Contexts /\ "requested" \in Steps
    BY <1>2, ContextsLoaded DEF Steps
  <2>3. Load(h, x)[x] # Unset
    BY <1>2, ContextsLoaded, RowsSeen, TransactionsAssumption
  <2>4. \A t \in Transaction :
           t.req = tx[h].req /\ t.pc = "requested" /\ t.pk = Load(h, x) /\ t.tr = tx[h].tr => Program(t)
    BY <1>1, <1>2, <2>3 DEF Program
  <2> QED BY <1>1, <2>1, <2>2, <2>4, GotoPlans
<1> QED BY <1>3, <1>4

LEMMA AcceptReadsRequested ==
  ASSUME TxTypeOK, Programs, NEW h \in Threads, AcceptRequested(h)
  PROVE  Rollback(h) \/ (Reads(h) /\ Planned(tx'[h]))
<1> DEFINE tr == tx[h].tr
           x == tr.offered
           y == tr.requested
           w == ResolveWrite(h, "CANCELLED")
<1>1. tx[h].req.kind = "accept" /\ tx[h].pc = "requested" /\ tx[h].todo = <<>>
  BY DEF AcceptRequested, At
<1>2. /\ tr \in Trade /\ x \in PokemonIds /\ y \in PokemonIds
      /\ tr.initiator \in Players /\ tr.recipient \in Players /\ tx[h].req.trade \in TradeIds
  BY <1>1, AcceptFields
<1>3. Load(h, y) \in Contexts
  BY <1>2, ContextsLoaded
<1>4. CASE Entity(h, y) = NoRow
  BY <1>4 DEF AcceptRequested
<1>5. CASE /\ Entity(h, y) # NoRow
           /\ tx[h].pk[x].owner # tr.initiator \/ Entity(h, y).owner # tr.recipient
  <2>1. Goto(h, "commit", Load(h, y), <<w>>)
    BY <1>5 DEF AcceptRequested
  <2>2. w \in Writes /\ w.key = tx[h].req.trade /\ w.row.status = "CANCELLED"
    BY <1>1, ResolveWriteType DEF Statuses
  <2> HIDE DEF w
  <2>3. <<w>> \in Seq(Writes) /\ Len(<<w>>) = 1 /\ <<w>>[1] = w
    BY <2>2, OneWrite
  <2>4. \A n \in 1 .. Len(<<w>>) : ~ (<<w>>[n].key \in PokemonIds) /\ <<w>>[n].row.status # "COMPLETED"
    BY <1>2, <2>2, <2>3, TransactionsAssumption
  <2> QED BY <1>1, <1>3, <2>1, <2>3, <2>4, GotoCommit
<1>6. CASE /\ Entity(h, y) # NoRow
           /\ tx[h].pk[x].owner = tr.initiator /\ Entity(h, y).owner = tr.recipient
  <2>1. Goto(h, "room", Load(h, y), <<>>)
    BY <1>6 DEF AcceptRequested
  <2>2. "room" \in Steps
    BY DEF Steps
  <2>3. ASSUME x = y PROVE tr.initiator = tr.recipient
    <3>1. tx[h].pk[x] # Unset
      BY <1>1 DEF Programs, Program
    <3>2. Entity(h, x) = tx[h].pk[x]
      BY <3>1 DEF Entity
    <3> QED BY <1>6, <2>3, <3>2
  <2>4. \A t \in Transaction : t.req = tx[h].req /\ t.pc = "room" /\ t.tr = tx[h].tr => Program(t)
    BY <1>1, <1>2, <2>3 DEF Program
  <2> QED BY <1>1, <1>3, <2>1, <2>2, <2>4, GotoPlans
<1> QED BY <1>4, <1>5, <1>6

LEMMA AcceptCountsRoom ==
  ASSUME TxTypeOK, Programs, NEW h \in Threads, AcceptRoom(h) \/ AcceptInitiatorRoom(h)
  PROVE  Rollback(h) \/ (Reads(h) /\ Planned(tx'[h]))
<1> SUFFICES ASSUME ~ Rollback(h) PROVE Reads(h) /\ Planned(tx'[h])
  OBVIOUS
<1>1. /\ tx[h].req.kind = "accept" /\ tx[h].pc \in {"room", "initiatorRoom"} /\ tx[h].todo = <<>>
  BY DEF AcceptRoom, AcceptInitiatorRoom, At
<1>2. tx[h].tr \in Trade /\ tx[h].tr.initiator \in Players /\ tx[h].tr.recipient \in Players
  BY <1>1, AcceptFields
<1>3. PICK pc \in {"initiatorRoom", "give"}, o \in Players : Goto(h, pc, Loaded(h, o), <<>>)
  <2>1. CASE AcceptRoom(h)
    BY <1>2, <2>1 DEF AcceptRoom
  <2>2. CASE AcceptInitiatorRoom(h)
    BY <1>2, <2>2 DEF AcceptInitiatorRoom
  <2> QED BY <2>1, <2>2
<1>4. Loaded(h, o) \in Contexts /\ pc \in Steps
  BY ContextsLoaded DEF Steps
<1>5. tx[h].tr.initiator = tx[h].tr.recipient \/ tx[h].tr.offered # tx[h].tr.requested
  BY <1>1 DEF Programs, Program
<1>6. \A t \in Transaction : t.req = tx[h].req /\ t.pc = pc /\ t.tr = tx[h].tr => Program(t)
  BY <1>1, <1>2, <1>5 DEF Program
<1> QED BY <1>1, <1>3, <1>4, <1>6, GotoPlans

(* transferOwnership: the row handed over, in the first slot found free.    *)
HandedRow(h, o) == [owner |-> o, box |-> FindFreePcSlot(Found(h, o), o), team |-> 0]
HandedContext(h, p, o) == [Loaded(h, o) EXCEPT ![p] = HandedRow(h, o)]

LEMMA HandOverGoes ==
  ASSUME TxTypeOK, NEW h \in Threads, NEW p \in PokemonIds, NEW o \in Players,
         NEW next, NEW more, HandOver(h, p, o, next, more), ~ Rollback(h)
  PROVE  /\ FreePcSlots(Found(h, o), o) # {}
         /\ HandedRow(h, o) \in Row /\ HandedRow(h, o).owner = o
         /\ HandedContext(h, p, o) \in Contexts
         /\ Goto(h, next, HandedContext(h, p, o), <<Write("update", p, HandedRow(h, o))>> \o more)
<1>1. /\ FreePcSlots(Found(h, o), o) # {}
      /\ Goto(h, next, HandedContext(h, p, o), <<Write("update", p, HandedRow(h, o))>> \o more)
  BY DEF HandOver, HandedContext, HandedRow
<1>2. HandedRow(h, o) \in Row /\ HandedRow(h, o).owner = o
  BY <1>1, RowInAFreeSlot DEF HandedRow
<1>3. Loaded(h, o) \in Contexts
  BY ContextsLoaded
<1>4. HandedContext(h, p, o) \in Contexts
  BY <1>2, <1>3 DEF HandedContext, Contexts
<1> QED BY <1>1, <1>2, <1>4

LEMMA AcceptGives ==
  ASSUME TxTypeOK, Programs, NEW h \in Threads, AcceptGive(h), ~ Rollback(h)
  PROVE  Reads(h) /\ Planned(tx'[h])
<1> DEFINE x == tx[h].tr.offered
           o == tx[h].tr.recipient
<1>1. /\ tx[h].req.kind = "accept" /\ tx[h].pc = "give" /\ tx[h].todo = <<>>
      /\ HandOver(h, x, o, "take", <<>>)
  BY DEF AcceptGive, At
<1>2. tx[h].tr \in Trade /\ x \in PokemonIds /\ o \in Players /\ "take" \in Steps
  BY <1>1, AcceptFields DEF Steps
<1> DEFINE row == HandedRow(h, o)
           pk == HandedContext(h, x, o)
           w == Write("update", x, row)
<1>3. /\ row \in Row /\ row.owner = o /\ pk \in Contexts
      /\ Goto(h, "take", pk, <<w>> \o <<>>)
  BY <1>1, <1>2, HandOverGoes
<1> HIDE DEF row, pk
<1>4. w \in Writes /\ w.op = "update" /\ w.key = x /\ w.row = row
  BY <1>2, <1>3, PokemonWrite DEF Write
<1>5. Goto(h, "take", pk, <<w>> \o <<>>)
  BY <1>3
<1> HIDE DEF w
<1>6. /\ <<w>> \in Seq(Writes) /\ Len(<<w>>) = 1 /\ <<w>>[1] = w
      /\ Goto(h, "take", pk, <<w>>)
  BY <1>4, <1>5, OneWrite
<1> DEFINE todo == <<w>>
<1>0. Goto(h, "take", pk, todo) /\ todo \in Seq(Writes) /\ tx[h].todo = <<>>
  BY <1>1, <1>6
<1> HIDE DEF todo
<1>7a. /\ Reads(h) /\ tx'[h].req = tx[h].req /\ tx'[h].pc = "take" /\ tx'[h].tr = tx[h].tr
       /\ tx'[h].todo = todo /\ tx'[h].wrote = tx[h].wrote
  BY <1>0, <1>2, <1>3, GotoReads
<1>7. /\ Reads(h) /\ tx'[h].req = tx[h].req /\ tx'[h].pc = "take" /\ tx'[h].tr = tx[h].tr
      /\ tx'[h].todo = <<w>> /\ tx'[h].wrote = tx[h].wrote
  BY <1>7a DEF todo
<1>8. Promised(tx'[h], x, o)
  BY <1>3, <1>4, <1>6, <1>7 DEF Promised
<1>9. tx[h].tr.initiator = tx[h].tr.recipient \/ tx[h].tr.offered # tx[h].tr.requested
  BY <1>1 DEF Programs, Program
<1>10. Program(tx'[h])
  BY <1>1, <1>2, <1>7, <1>8, <1>9 DEF Program
<1>11. InsertsItsOwn(tx'[h])
  BY <1>4, <1>6, <1>7 DEF InsertsItsOwn
<1>12. CompletesTogether(tx'[h])
  BY <1>1, <1>2, <1>4, <1>6, <1>7, QuietPlan, TransactionsAssumption DEF Programs
<1> QED BY <1>7, <1>10, <1>11, <1>12 DEF Planned

LEMMA AcceptTakes ==
  ASSUME TxTypeOK, Programs, NEW h \in Threads, AcceptTake(h), ~ Rollback(h)
  PROVE  Reads(h) /\ Planned(tx'[h])
<1> DEFINE x == tx[h].tr.offered
           y == tx[h].tr.requested
           i == tx[h].tr.initiator
           v == ResolveWrite(h, "COMPLETED")
<1>1. /\ tx[h].req.kind = "accept" /\ tx[h].pc = "take" /\ tx[h].todo = <<>>
      /\ HandOver(h, y, i, "commit", <<v>>)
  BY DEF AcceptTake, At
<1>2. /\ tx[h].tr \in Trade /\ x \in PokemonIds /\ y \in PokemonIds /\ i \in Players
      /\ tx[h].req.trade \in TradeIds /\ "commit" \in Steps
  BY <1>1, AcceptFields DEF Steps
<1> DEFINE row == HandedRow(h, i)
           pk == HandedContext(h, y, i)
           w == Write("update", y, row)
<1>3. /\ row \in Row /\ row.owner = i /\ pk \in Contexts
      /\ Goto(h, "commit", pk, <<w>> \o <<v>>)
  BY <1>1, <1>2, HandOverGoes
<1> HIDE DEF row, pk
<1>4. w \in Writes /\ w.op = "update" /\ w.key = y /\ w.row = row
  BY <1>2, <1>3, PokemonWrite DEF Write
<1>5. Goto(h, "commit", pk, <<w>> \o <<v>>)
  BY <1>3
<1>6. /\ v \in Writes /\ v.op = "update" /\ v.key = tx[h].req.trade
      /\ v.row.offered = x /\ v.row.requested = y
      /\ v.row.initiator = i /\ v.row.recipient = tx[h].tr.recipient
  BY <1>1, ResolveWriteType DEF Statuses
<1> HIDE DEF w, v
<1>7. /\ <<w, v>> \in Seq(Writes) /\ Len(<<w, v>>) = 2 /\ <<w, v>>[1] = w /\ <<w, v>>[2] = v
      /\ Goto(h, "commit", pk, <<w, v>>)
  BY <1>4, <1>5, <1>6, TwoWrites
<1> DEFINE todo == <<w, v>>
<1>0. Goto(h, "commit", pk, todo) /\ todo \in Seq(Writes) /\ tx[h].todo = <<>>
  BY <1>1, <1>7
<1> HIDE DEF todo
<1>8a. /\ Reads(h) /\ tx'[h].req = tx[h].req /\ tx'[h].pc = "commit" /\ tx'[h].tr = tx[h].tr
       /\ tx'[h].todo = todo /\ tx'[h].wrote = tx[h].wrote
  BY <1>0, <1>2, <1>3, GotoReads
<1>8. /\ Reads(h) /\ tx'[h].req = tx[h].req /\ tx'[h].pc = "commit" /\ tx'[h].tr = tx[h].tr
      /\ tx'[h].todo = <<w, v>> /\ tx'[h].wrote = tx[h].wrote
  BY <1>8a DEF todo
<1>9. Promised(tx[h], x, tx[h].tr.recipient) /\ (i = tx[h].tr.recipient \/ x # y)
  BY <1>1 DEF Programs, Program
<1>10. v.key # x /\ v.key # y
  BY <1>2, <1>6, TransactionsAssumption
<1>11. Promised(tx'[h], y, i)
  BY <1>3, <1>4, <1>7, <1>8, <1>10 DEF Promised
<1>12. Promised(tx'[h], x, tx[h].tr.recipient)
  <2>1. CASE x = y
    BY <1>9, <1>11, <2>1
  <2>2. CASE x # y
    <3>1. Len(tx[h].todo) = 0
      BY <1>1
    <3>2. tx[h].wrote[x] # Unset /\ tx[h].wrote[x].owner = tx[h].tr.recipient
      BY <1>9, <3>1 DEF Promised
    <3> QED BY <1>4, <1>7, <1>8, <1>10, <2>2, <3>2 DEF Promised
  <2> QED BY <2>1, <2>2
<1>13. Exchanged(tx'[h], v.row)
  BY <1>6, <1>11, <1>12 DEF Exchanged
<1>14. CompletesTogether(tx'[h])
  <2>1. ASSUME NEW n \in 1 .. Len(tx'[h].todo), tx'[h].todo[n].key \in TradeIds
        PROVE  Exchanged(tx'[h], tx'[h].todo[n].row)
    <3>1. n = 1 \/ n = 2
      BY <1>7, <1>8
    <3>2. n # 1
      BY <1>2, <1>4, <1>7, <1>8, <2>1, TransactionsAssumption
    <3> QED BY <1>7, <1>8, <1>13, <3>1, <3>2
  <2>2. \A u \in TradeIds : tx'[h].wrote[u] # Unset => tx'[h].wrote[u].status # "COMPLETED"
    BY <1>1, <1>8 DEF Programs, CompletesTogether
  <2> QED BY <1>8, <2>1, <2>2 DEF CompletesTogether
<1>15. InsertsItsOwn(tx'[h])
  BY <1>4, <1>6, <1>7, <1>8 DEF InsertsItsOwn
<1>16. Program(tx'[h])
  BY <1>1, <1>2, <1>8 DEF Program
<1> QED BY <1>8, <1>14, <1>15, <1>16 DEF Planned

LEMMA LiveContinues ==
  ASSUME TxTypeOK, Programs, NEW h \in Threads, LiveRequested(h), ~ Rollback(h)
  PROVE  Reads(h) /\ Planned(tx'[h])
<1> DEFINE q == tx[h].req
           x == q.offered
           y == q.requested
           first == tx[h].pk[x]
           second == Entity(h, y)
           row == Deal(q.caller, q.recipient, x, y, "COMPLETED")
           w1 == Write("update", x, PutAt(first, [box |-> first.box, team |-> 0]))
           w2 == Write("update", y, PutAt(second, [box |-> second.box, team |-> 0]))
           w3 == Write("update", x, [second EXCEPT !.box = 0])
           w4 == Write("update", y, [first EXCEPT !.box = 0])
           w5 == Write("insert", q.trade, row)
           todo == <<w1, w2, w3, w4, w5>>
<1>1. /\ q.kind = "live" /\ tx[h].pc = "requested" /\ tx[h].todo = <<>>
      /\ q.caller \in Players /\ q.recipient \in Players /\ q.trade \in TradeIds
      /\ x \in PokemonIds /\ y \in PokemonIds
  BY FieldTypes, RequestFields DEF LiveRequested, At
<1>2. /\ first.owner = q.caller /\ second.owner = q.recipient
      /\ Goto(h, "commit", Load(h, y), todo)
  BY DEF LiveRequested
<1>3. q.caller # q.recipient /\ first \in Row
  BY <1>1 DEF Programs, Program
<1>4. second \in Row
  BY <1>1, <1>2, RowsSeen
<1>5. x # y
  <2>1. first # Unset
    BY <1>3, TransactionsAssumption
  <2> QED BY <1>2, <1>3, <2>1 DEF Entity
<1>6. /\ PutAt(first, [box |-> first.box, team |-> 0]) \in Row
      /\ PutAt(second, [box |-> second.box, team |-> 0]) \in Row
      /\ [second EXCEPT !.box = 0] \in Row /\ [second EXCEPT !.box = 0].owner = q.recipient
      /\ [first EXCEPT !.box = 0] \in Row /\ [first EXCEPT !.box = 0].owner = q.caller
  BY <1>2, <1>3, <1>4 DEF PutAt, Row
<1>7. /\ row \in Trade /\ row.offered = x /\ row.requested = y
      /\ row.initiator = q.caller /\ row.recipient = q.recipient
  BY <1>1 DEF Deal, Trade, Statuses
<1> HIDE DEF row
<1>8. /\ w1 \in Writes /\ w1.op = "update" /\ w1.key = x
      /\ w2 \in Writes /\ w2.op = "update" /\ w2.key = y
      /\ w3 \in Writes /\ w3.op = "update" /\ w3.key = x /\ w3.row.owner = q.recipient
      /\ w4 \in Writes /\ w4.op = "update" /\ w4.key = y /\ w4.row.owner = q.caller
  BY <1>1, <1>6, PokemonWrite DEF Write
<1>9. w5 \in Writes /\ w5.key = q.trade /\ w5.row = row
  BY <1>1, <1>7, TradeRowWrite DEF Write
<1> HIDE DEF w1, w2, w3, w4, w5
<1>10. /\ todo \in Seq(Writes) /\ Len(todo) = 5
       /\ todo[1] = w1 /\ todo[2] = w2 /\ todo[3] = w3 /\ todo[4] = w4 /\ todo[5] = w5
  BY <1>8, <1>9
<1> HIDE DEF todo
<1>11. Load(h, y) \in Contexts /\ "commit" \in Steps
  BY <1>1, ContextsLoaded DEF Steps
<1>12. /\ Reads(h) /\ tx'[h].req = q /\ tx'[h].pc = "commit"
       /\ tx'[h].todo = todo /\ tx'[h].wrote = tx[h].wrote
  BY <1>1, <1>2, <1>10, <1>11, GotoReads
<1>13. q.trade # x /\ q.trade # y /\ q.trade \notin PokemonIds /\ x \notin TradeIds /\ y \notin TradeIds
  BY <1>1, TransactionsAssumption
<1> DEFINE t == tx'[h]
<1>14. /\ Len(t.todo) = 5 /\ \A n \in 1 .. 5 : n = 1 \/ n = 2 \/ n = 3 \/ n = 4 \/ n = 5
       /\ t.todo[1].key = x /\ t.todo[2].key = y /\ t.todo[3].key = x /\ t.todo[4].key = y
       /\ t.todo[5].key = q.trade /\ t.todo[5].row = row
       /\ t.todo[3].row.owner = q.recipient /\ t.todo[4].row.owner = q.caller
       /\ t.todo[1].op = "update" /\ t.todo[2].op = "update"
       /\ t.todo[3].op = "update" /\ t.todo[4].op = "update"
  BY <1>8, <1>9, <1>10, <1>12
<1>15. t.pc = "commit" /\ t.req = q /\ t.wrote = tx[h].wrote
  BY <1>12
<1> HIDE DEF t, q, x, y, first, second
<1>16. Promised(t, x, q.recipient) /\ Promised(t, y, q.caller)
  BY <1>5, <1>13, <1>14 DEF Promised
<1>17. CompletesTogether(t)
  <2>1. ASSUME NEW n \in 1 .. Len(t.todo), t.todo[n].key \in TradeIds
        PROVE  Exchanged(t, t.todo[n].row)
    <3>1. t.todo[n].row = row
      BY <1>13, <1>14, <2>1
    <3> QED BY <1>7, <1>16, <3>1 DEF Exchanged
  <2>2. \A u \in TradeIds : t.wrote[u] # Unset => t.wrote[u].status # "COMPLETED"
    BY <1>1, <1>15 DEF Programs, CompletesTogether
  <2> QED BY <1>15, <2>1, <2>2 DEF CompletesTogether
<1>18. InsertsItsOwn(t)
  BY <1>13, <1>14 DEF InsertsItsOwn
<1>19. Program(t)
  <2>1. t.req.kind = "live" /\ t.req.caller # t.req.recipient
    BY <1>1, <1>3, <1>15 DEF q
  <2> QED BY <1>15, <2>1 DEF Program
<1>20. Planned(t)
  BY <1>17, <1>18, <1>19 DEF Planned
<1> QED BY <1>12, <1>20 DEF t

-------------------------------------------------------------------------------
(* The steps, by what they do to the tables and to the rows written.        *)

Flushes(h) ==
    /\ tx[h].todo # <<>>
    /\ Blockers(h) = {}
    /\ LET w == Head(tx[h].todo) IN
         /\ ~ Rejected(h, w)
         /\ tx' = [tx EXCEPT ![h].wrote[w.key] = w.row, ![h].todo = Tail(@)]
         /\ UNCHANGED <<pokemon, drawn, trades>>

LEMMA ArriveReads ==
  ASSUME TxTypeOK, Programs, NEW h \in Threads, Arrive(h)
  PROVE  Reads(h) /\ Planned(tx'[h])
<1>1. ASSUME NEW o \in Players, NEW p \in PokemonIds,
             \/ \E loc \in Locations : StartCreate(h, o, p, loc)
             \/ \E loc \in Destinations \cup {Nowhere}, payload \in BOOLEAN :
                   StartUpdate(h, o, p, loc, payload)
             \/ \E c \in PokemonIds : StartClone(h, o, p, c)
             \/ StartDelete(h, o, p)
      PROVE  Reads(h) /\ Planned(tx'[h])
  BY <1>1, CreateBegins, UpdateBegins, CloneBegins, DeleteBegins
<1>2. ASSUME NEW i \in Players, NEW r \in Players, NEW x \in PokemonIds, NEW y \in PokemonIds,
             NEW t \in TradeIds, StartPropose(h, i, r, x, y, t) \/ StartLive(h, i, r, x, y, t)
      PROVE  Reads(h) /\ Planned(tx'[h])
  BY <1>2, ProposeBegins, LiveBegins
<1>3. ASSUME NEW c \in Players, NEW t \in TradeIds, StartAccept(h, c, t) \/ StartCancel(h, c, t)
      PROVE  Reads(h) /\ Planned(tx'[h])
  BY <1>3, AcceptBegins, CancelBegins
<1> QED BY <1>1, <1>2, <1>3 DEF Arrive

LEMMA StatementReads ==
  ASSUME TxTypeOK, Programs, NEW h \in Threads, Statement(h)
  PROVE  Rollback(h) \/ (Reads(h) /\ Planned(tx'[h]))
BY CloneContinues, UpdateContinues, DeleteContinues, ProposeContinues, AcceptReadsOffered,
   AcceptReadsRequested, AcceptCountsRoom, AcceptGives, AcceptTakes, LiveContinues DEF Statement

LEMMA StepKinds ==
  ASSUME TxTypeOK, Programs, TxNext
  PROVE  \E h \in Threads :
            (Reads(h) /\ Planned(tx'[h])) \/ Rollback(h) \/ Flushes(h) \/ Commit(h)
<1>1. PICK h \in Threads : Arrive(h) \/ Progress(h) \/ Victim(h)
  BY DEF TxNext
<1>2. Flush(h) => Rollback(h) \/ Flushes(h)
  BY DEF Flush, Flushes
<1>3. Victim(h) => Rollback(h)
  BY DEF Victim
<1> QED BY <1>1, <1>2, <1>3, ArriveReads, StatementReads DEF Progress

-------------------------------------------------------------------------------
(* Each kind of step keeps the invariant. *)

LEMMA OnlyItsRecord ==
  ASSUME NEW h \in Threads, NEW g \in Threads, UNCHANGED pokemon, tx'[g].wrote = tx[g].wrote
  PROVE  \A p \in PokemonIds : View(g, p)' = View(g, p)
BY DEF View

LEMMA ReadsKeep ==
  ASSUME TxInv, NEW h \in Threads, Reads(h), Planned(tx'[h])
  PROVE  TxInv'
<1>1. /\ UNCHANGED <<pokemon, drawn, trades>> /\ tx' \in [Threads -> Transaction]
      /\ \A g \in Threads \ {h} : tx'[g] = tx[g]
      /\ \A g \in Threads : tx'[g].wrote = tx[g].wrote
  BY DEF Reads
<1>2. TxTypeOK'
  BY <1>1 DEF TxInv, TxTypeOK, TypeOK
<1>3. Programs'
  BY <1>1 DEF TxInv, Programs, Planned
<1>4. Isolation'
  <2>1. \A g \in Threads : [p \in PokemonIds |-> View(g, p)'] = [p \in PokemonIds |-> View(g, p)]
    BY <1>1, OnlyItsRecord
  <2>2. SlotsUnique'
    BY <1>1 DEF TxInv, Isolation, SlotsUnique
  <2>3. \A g \in Threads : NoTwoInASlot([p \in PokemonIds |-> View(g, p)'])
    BY <2>1 DEF TxInv, Isolation
  <2> QED BY <1>1, <2>2, <2>3 DEF TxInv, Isolation
<1>5. Uuids'
  <2>1. UuidsDrawn'
    BY <1>1 DEF TxInv, Uuids, UuidsDrawn
  <2>2. Creates(tx'[h]) =>
           /\ tx'[h].req.new \notin drawn
           /\ \A g \in Threads \ {h} : Creates(tx[g]) => tx[g].req.new # tx'[h].req.new
    BY DEF TxInv, Uuids, Reads, Creates, FreshPokemon
  <2>3. ASSUME NEW g \in Threads, Creates(tx'[g])
        PROVE  /\ tx'[g].req.new \notin drawn'
               /\ \A f \in Threads : f # g /\ Creates(tx'[f]) => tx'[f].req.new # tx'[g].req.new
    BY <1>1, <2>2, <2>3 DEF TxInv, Uuids
  <2>4. ASSUME NEW g \in Threads, NEW p \in PokemonIds, tx'[g].wrote[p] # Unset, Exists(tx'[g].wrote, p)
        PROVE  Exists(pokemon', p) \/ (Creates(tx'[g]) /\ p = tx'[g].req.new)
    <3>1. Exists(pokemon, p) \/ (Creates(tx[g]) /\ p = tx[g].req.new)
      BY <1>1, <2>4 DEF TxInv, Uuids
    <3>2. tx'[g].req = tx[g].req
      BY <1>1, <2>4 DEF Reads, Keys
    <3> QED BY <1>1, <3>1, <3>2 DEF Creates
  <2> QED BY <2>1, <2>3, <2>4 DEF Uuids
<1> QED BY <1>2, <1>3, <1>4, <1>5 DEF TxInv

LEMMA ServedIsATransaction ==
  /\ Served \in Transaction
  /\ \A k \in Keys : Served.wrote[k] = Unset
  /\ Planned(Served) /\ ~ Creates(Served)
<1>1. /\ Idle \in Transaction
      /\ Idle.req = NoRequest /\ Idle.pc = "idle" /\ Idle.todo = <<>>
      /\ \A k \in Keys : Idle.wrote[k] = Unset
  BY IdleIsATransaction
<1>2. /\ Served \in Transaction /\ Served.req = NoRequest /\ Served.todo = <<>>
      /\ Served.wrote = Idle.wrote /\ Served.pc \in {"idle", "done"}
      /\ Served.pc = "idle" => Served = Idle
  BY <1>1 DEF Served, Transaction, Steps
<1>3. NoRequest.kind = "none" /\ Len(<<>>) = 0
  BY DEF NoRequest
<1>4. ~ Creates(Served)
  BY <1>2, <1>3 DEF Creates
<1>5. Program(Served)
  BY <1>2, <1>3 DEF Program
<1>6. InsertsItsOwn(Served) /\ CompletesTogether(Served)
  BY <1>1, <1>2, <1>3 DEF InsertsItsOwn, CompletesTogether, Keys
<1> QED BY <1>1, <1>2, <1>4, <1>5, <1>6 DEF Planned

LEMMA RollbackKeeps ==
  ASSUME TxInv, NEW h \in Threads, Rollback(h)
  PROVE  TxInv'
<1>1. /\ UNCHANGED <<pokemon, drawn, trades>> /\ tx' = [tx EXCEPT ![h] = Served]
      /\ tx \in [Threads -> Transaction]
  BY DEF Rollback, TxInv, TxTypeOK
<1>2. /\ Served \in Transaction /\ \A k \in Keys : Served.wrote[k] = Unset
      /\ Planned(Served) /\ ~ Creates(Served)
  BY ServedIsATransaction
<1>3. /\ tx' \in [Threads -> Transaction] /\ tx'[h] = Served
      /\ \A g \in Threads \ {h} : tx'[g] = tx[g]
  BY <1>1, <1>2
<1>4. TxTypeOK'
  BY <1>1, <1>2, <1>3 DEF TxInv, TxTypeOK, TypeOK, Keys
<1>5. Programs'
  BY <1>2, <1>3 DEF TxInv, Programs, Planned
<1>6. Isolation'
  <2>1. SlotsUnique'
    BY <1>1 DEF TxInv, Isolation, SlotsUnique
  <2>2. NoTwoInASlot([p \in PokemonIds |-> View(h, p)'])
    <3>1. \A p \in PokemonIds : View(h, p)' = pokemon[p]
      BY <1>1, <1>2, <1>3 DEF View, Keys
    <3> QED BY <3>1 DEF TxInv, Isolation, SlotsUnique, NoTwoInASlot
  <2>3. ASSUME NEW g \in Threads, g # h PROVE NoTwoInASlot([p \in PokemonIds |-> View(g, p)'])
    <3>1. \A p \in PokemonIds : View(g, p)' = View(g, p)
      BY <1>1, <1>3, <2>3, OnlyItsRecord
    <3> QED BY <3>1 DEF TxInv, Isolation, NoTwoInASlot
  <2>4. ASSUME NEW f \in Threads, NEW g \in Threads, f # g
        PROVE  /\ \A k \in Keys : tx'[f].wrote[k] = Unset \/ tx'[g].wrote[k] = Unset
               /\ \A p, q \in PokemonIds :
                     p # q /\ tx'[f].wrote[p] # Unset /\ tx'[g].wrote[q] # Unset =>
                         ~ Collide(tx'[f].wrote[p], tx'[g].wrote[q])
    <3>1. CASE f = h \/ g = h
      BY <1>2, <1>3, <3>1 DEF Keys
    <3>2. CASE f # h /\ g # h
      BY <1>3, <2>4, <3>2 DEF TxInv, Isolation
    <3> QED BY <3>1, <3>2
  <2> QED BY <2>1, <2>2, <2>3, <2>4 DEF Isolation
<1>7. Uuids'
  <2>1. UuidsDrawn'
    BY <1>1 DEF TxInv, Uuids, UuidsDrawn
  <2>2. ASSUME NEW g \in Threads, Creates(tx'[g])
        PROVE  /\ tx'[g].req.new \notin drawn'
               /\ \A f \in Threads : f # g /\ Creates(tx'[f]) => tx'[f].req.new # tx'[g].req.new
    BY <1>1, <1>2, <1>3, <2>2 DEF TxInv, Uuids
  <2>3. ASSUME NEW g \in Threads, NEW p \in PokemonIds, tx'[g].wrote[p] # Unset, Exists(tx'[g].wrote, p)
        PROVE  Exists(pokemon', p) \/ (Creates(tx'[g]) /\ p = tx'[g].req.new)
    BY <1>1, <1>2, <1>3, <2>3 DEF TxInv, Uuids, Keys
  <2> QED BY <2>1, <2>2, <2>3 DEF Uuids
<1> QED BY <1>4, <1>5, <1>6, <1>7 DEF TxInv

(* A write of the flush: the row it concerns, and what is left to write.    *)
LEMMA FlushedRecord ==
  ASSUME TxTypeOK, NEW h \in Threads, Flushes(h)
  PROVE  LET w == tx[h].todo[1] IN
         /\ w \in Writes /\ w = Head(tx[h].todo) /\ tx[h].todo # <<>>
         /\ Len(tx[h].todo) \in Nat /\ Len(tx[h].todo) >= 1
         /\ UNCHANGED <<pokemon, drawn, trades>>
         /\ tx' \in [Threads -> Transaction]
         /\ \A g \in Threads \ {h} : tx'[g] = tx[g]
         /\ tx'[h].req = tx[h].req /\ tx'[h].pc = tx[h].pc /\ tx'[h].pk = tx[h].pk
         /\ tx'[h].tr = tx[h].tr
         /\ Len(tx'[h].todo) = Len(tx[h].todo) - 1
         /\ \A n \in 1 .. Len(tx'[h].todo) : n + 1 \in 1 .. Len(tx[h].todo) /\ tx'[h].todo[n] = tx[h].todo[n + 1]
         /\ \A k \in Keys : tx'[h].wrote[k] = IF k = w.key THEN w.row ELSE tx[h].wrote[k]
<1> DEFINE t == tx[h]
           w == Head(t.todo)
           u == [t EXCEPT !.wrote[w.key] = w.row, !.todo = Tail(@)]
<1>1. t.todo # <<>> /\ t.todo \in Seq(Writes) /\ t \in Transaction
  BY FieldTypes DEF Flushes
<1>2. /\ Len(t.todo) \in Nat /\ Len(t.todo) >= 1
      /\ w = t.todo[1] /\ w \in Writes /\ Tail(t.todo) \in Seq(Writes)
      /\ Len(Tail(t.todo)) = Len(t.todo) - 1
      /\ \A n \in 1 .. Len(Tail(t.todo)) : n + 1 \in 1 .. Len(t.todo) /\ Tail(t.todo)[n] = t.todo[n + 1]
  BY <1>1, TailOf
<1>3. w.key \in Keys /\ w.row \in Row \cup Trade \cup {NoRow, Unset}
  BY <1>2, WriteTypes
<1>4. tx' = [tx EXCEPT ![h] = u] /\ UNCHANGED <<pokemon, drawn, trades>>
  BY DEF Flushes
<1> HIDE DEF w
<1>5. /\ u \in Transaction /\ u.req = t.req /\ u.pc = t.pc /\ u.pk = t.pk /\ u.tr = t.tr
      /\ u.todo = Tail(t.todo) /\ u.wrote = [t.wrote EXCEPT ![w.key] = w.row]
  BY <1>1, <1>2, <1>3 DEF Transaction
<1>6. \A k \in Keys : u.wrote[k] = IF k = w.key THEN w.row ELSE t.wrote[k]
  BY <1>1, <1>3, <1>5 DEF Transaction
<1> HIDE DEF u
<1>7. tx' \in [Threads -> Transaction] /\ tx'[h] = u /\ \A g \in Threads \ {h} : tx'[g] = tx[g]
  BY <1>4, <1>5 DEF TxTypeOK
<1>8. w = Head(t.todo)
  BY DEF w
<1>9. \A n \in 1 .. Len(tx'[h].todo) : n + 1 \in 1 .. Len(t.todo) /\ tx'[h].todo[n] = t.todo[n + 1]
  BY <1>2, <1>5, <1>7
<1>10. \A k \in Keys : tx'[h].wrote[k] = IF k = w.key THEN w.row ELSE t.wrote[k]
  BY <1>6, <1>7
<1>11. /\ Len(tx'[h].todo) = Len(t.todo) - 1
       /\ tx'[h].req = t.req /\ tx'[h].pc = t.pc /\ tx'[h].pk = t.pk /\ tx'[h].tr = t.tr
  BY <1>2, <1>5, <1>7
<1> HIDE DEF t
<1>12. LET v == t.todo[1] IN
       /\ v \in Writes /\ v = Head(t.todo)
       /\ \A k \in Keys : tx'[h].wrote[k] = IF k = v.key THEN v.row ELSE t.wrote[k]
  BY <1>2, <1>8, <1>10
<1> QED BY <1>1, <1>2, <1>4, <1>7, <1>9, <1>11, <1>12 DEF t

(* What a transaction has promised it goes on promising.                    *)
LEMMA FlushKeepsPromises ==
  ASSUME TxTypeOK, NEW h \in Threads, Flushes(h),
         NEW p \in PokemonIds, NEW o \in Players, Promised(tx[h], p, o)
  PROVE  Promised(tx'[h], p, o)
<1> DEFINE t == tx[h]
           u == tx'[h]
           w == t.todo[1]
<1>1. /\ w \in Writes /\ Len(t.todo) \in Nat /\ Len(t.todo) >= 1
      /\ Len(u.todo) = Len(t.todo) - 1
      /\ \A n \in 1 .. Len(u.todo) : n + 1 \in 1 .. Len(t.todo) /\ u.todo[n] = t.todo[n + 1]
      /\ \A k \in Keys : u.wrote[k] = IF k = w.key THEN w.row ELSE t.wrote[k]
  BY FlushedRecord
<1>2. w.row # Unset /\ p \in Keys
  BY <1>1, WriteTypes DEF Keys
<1>3. CASE \E n \in 1 .. Len(t.todo) :
             /\ t.todo[n].key = p
             /\ t.todo[n].row.owner = o
             /\ \A m \in 1 .. Len(t.todo) : m > n => t.todo[m].key # p
  <2>1. PICK n \in 1 .. Len(t.todo) :
             /\ t.todo[n].key = p
             /\ t.todo[n].row.owner = o
             /\ \A m \in 1 .. Len(t.todo) : m > n => t.todo[m].key # p
    BY <1>3
  <2> HIDE DEF t, u
  <2>2. CASE n = 1
    <3>1. \A m \in 1 .. Len(u.todo) : u.todo[m].key # p
      BY <1>1, <2>1, <2>2
    <3>2. u.wrote[p] # Unset /\ u.wrote[p].owner = o
      BY <1>1, <1>2, <2>1, <2>2
    <3>3. Promised(u, p, o)
      BY <3>1, <3>2 DEF Promised
    <3> QED BY <3>3 DEF u
  <2>3. CASE n # 1
    <3>1. n - 1 \in 1 .. Len(u.todo) /\ (n - 1) + 1 = n
      BY <1>1, <2>1, <2>3
    <3>2. u.todo[n - 1] = t.todo[n]
      BY <1>1, <3>1
    <3>3. \A m \in 1 .. Len(u.todo) : m > n - 1 => u.todo[m].key # p
      BY <1>1, <2>1
    <3>4. Promised(u, p, o)
      BY <2>1, <3>1, <3>2, <3>3 DEF Promised
    <3> QED BY <3>4 DEF u
  <2> QED BY <2>2, <2>3
<1>4. CASE /\ \A n \in 1 .. Len(t.todo) : t.todo[n].key # p
           /\ t.wrote[p] # Unset
           /\ t.wrote[p].owner = o
  <2>1. p # w.key
    BY <1>1, <1>4
  <2>2. u.wrote[p] = t.wrote[p]
    BY <1>1, <1>2, <2>1
  <2>3. \A n \in 1 .. Len(u.todo) : u.todo[n].key # p
    BY <1>1, <1>4
  <2> QED BY <1>4, <2>2, <2>3 DEF Promised
<1> QED BY <1>3, <1>4 DEF Promised

LEMMA FlushKeepsThePlan ==
  ASSUME TxTypeOK, Programs, NEW h \in Threads, Flushes(h)
  PROVE  Planned(tx'[h])
<1> DEFINE t == tx[h]
           u == tx'[h]
           w == t.todo[1]
<1>1. /\ w \in Writes /\ t.todo # <<>> /\ Len(t.todo) \in Nat /\ Len(t.todo) >= 1
      /\ Len(u.todo) = Len(t.todo) - 1
      /\ \A n \in 1 .. Len(u.todo) : n + 1 \in 1 .. Len(t.todo) /\ u.todo[n] = t.todo[n + 1]
      /\ \A k \in Keys : u.wrote[k] = IF k = w.key THEN w.row ELSE t.wrote[k]
      /\ u.req = t.req /\ u.pc = t.pc /\ u.pk = t.pk /\ u.tr = t.tr /\ u \in Transaction
  BY FlushedRecord
<1>2. Program(t) /\ InsertsItsOwn(t) /\ CompletesTogether(t)
  BY DEF Programs
<1>3. ASSUME NEW p \in PokemonIds, NEW o \in Players, Promised(t, p, o)
      PROVE  Promised(u, p, o)
  BY <1>3, FlushKeepsPromises
<1>4. ASSUME NEW row \in Trade, Exchanged(t, row) PROVE Exchanged(u, row)
  BY <1>3, <1>4 DEF Exchanged, Trade
<1>5. \A n \in 1 .. Len(t.todo) : t.todo[n] \in Writes
  BY FieldTypes, ElementOfSeq
<1>6. t.pc # "idle"
  BY <1>1, <1>2 DEF Program, Idle
<1>7. t.req.kind = "accept" => t.tr.offered \in PokemonIds /\ t.tr.recipient \in Players
  BY AcceptFields
<1> HIDE DEF t, u
<1>8. Program(u)
  BY <1>1, <1>2, <1>3, <1>6, <1>7 DEF Program
<1>9. InsertsItsOwn(u)
  <2>1. ASSUME NEW n \in 1 .. Len(u.todo), u.todo[n].op = "insert", u.todo[n].key \in PokemonIds
        PROVE  Creates(u) /\ u.todo[n].key = u.req.new
    <3>1. n + 1 \in 1 .. Len(t.todo) /\ u.todo[n] = t.todo[n + 1]
      BY <1>1
    <3>2. Creates(t) /\ t.todo[n + 1].key = t.req.new
      BY <1>2, <2>1, <3>1 DEF InsertsItsOwn
    <3> QED BY <1>1, <3>1, <3>2 DEF Creates
  <2> QED BY <2>1 DEF InsertsItsOwn
<1>10. CompletesTogether(u)
  <2>1. ASSUME NEW n \in 1 .. Len(u.todo), u.todo[n].key \in TradeIds, u.todo[n].row.status = "COMPLETED"
        PROVE  u.pc = "commit" /\ Exchanged(u, u.todo[n].row)
    <3>1. n + 1 \in 1 .. Len(t.todo) /\ u.todo[n] = t.todo[n + 1]
      BY <1>1, <2>1
    <3>2. t.pc = "commit" /\ Exchanged(t, u.todo[n].row)
      BY <1>2, <2>1, <3>1 DEF CompletesTogether
    <3>3. u.todo[n].row \in Trade
      BY <1>5, <2>1, <3>1, WriteTypes
    <3> QED BY <1>1, <1>4, <3>2, <3>3
  <2>2. ASSUME NEW k \in TradeIds, u.wrote[k] # Unset, u.wrote[k].status = "COMPLETED"
        PROVE  u.pc = "commit" /\ Exchanged(u, u.wrote[k])
    <3>1. k \in Keys /\ u.wrote[k] = IF k = w.key THEN w.row ELSE t.wrote[k]
      BY <1>1 DEF Keys
    <3>2. CASE k = w.key
      <4>1. w.row \in Trade /\ 1 \in 1 .. Len(t.todo)
        BY <1>1, <3>2, WriteTypes
      <4>2. t.pc = "commit" /\ Exchanged(t, w.row)
        BY <1>2, <2>2, <3>1, <3>2, <4>1 DEF CompletesTogether
      <4> QED BY <1>1, <1>4, <3>1, <3>2, <4>1, <4>2
    <3>3. CASE k # w.key
      <4>1. t.pc = "commit" /\ Exchanged(t, t.wrote[k])
        BY <1>2, <2>2, <3>1, <3>3 DEF CompletesTogether
      <4>2. t.wrote[k] \in Trade
        BY <2>2, <3>1, <3>3 DEF TxTypeOK, t
      <4> QED BY <1>1, <1>4, <3>1, <3>3, <4>1, <4>2
    <3> QED BY <3>2, <3>3
  <2> QED BY <2>1, <2>2 DEF CompletesTogether
<1>11. Planned(u)
  BY <1>8, <1>9, <1>10 DEF Planned
<1> QED BY <1>11 DEF u

LEMMA CollideSymmetric ==
  ASSUME NEW r, NEW s, Collide(r, s)
  PROVE  Collide(s, r)
BY DEF Collide

(* A write that waited for nobody and that no index rejected.               *)
LEMMA FlushIsolated ==
  ASSUME TxInv, NEW h \in Threads, Flushes(h)
  PROVE  Isolation'
<1> DEFINE w == tx[h].todo[1]
<1>1. /\ w \in Writes /\ w = Head(tx[h].todo) /\ tx[h].todo # <<>>
      /\ UNCHANGED <<pokemon, drawn, trades>>
      /\ \A g \in Threads \ {h} : tx'[g] = tx[g]
      /\ \A k \in Keys : tx'[h].wrote[k] = IF k = w.key THEN w.row ELSE tx[h].wrote[k]
  BY FlushedRecord DEF TxInv
<1>2. w.key \in Keys /\ w.row # Unset
  BY <1>1, WriteTypes
<1>3. ~ Rejected(h, w) /\ Blockers(h) = {}
  BY <1>1 DEF Flushes
<1>4. w.key \in PokemonIds => \A q \in PokemonIds \ {w.key} : ~ Collide(w.row, View(h, q))
  BY <1>3 DEF Rejected
<1>5. ASSUME NEW g \in Threads \ {h}
      PROVE  /\ tx[g].wrote[w.key] = Unset
             /\ w.key \in PokemonIds =>
                   \A q \in PokemonIds \ {w.key} :
                       tx[g].wrote[q] # Unset => ~ Collide(w.row, tx[g].wrote[q])
  BY <1>1, <1>3 DEF Blockers
<1> HIDE DEF w
<1>6. SlotsUnique'
  BY <1>1 DEF TxInv, Isolation, SlotsUnique
<1>7. NoTwoInASlot([p \in PokemonIds |-> View(h, p)'])
  <2>1. \A p \in PokemonIds : View(h, p)' = IF p = w.key THEN w.row ELSE View(h, p)
    BY <1>1, <1>2 DEF View, Keys
  <2>2. NoTwoInASlot([p \in PokemonIds |-> View(h, p)])
    BY DEF TxInv, Isolation
  <2>3. \A p, q \in PokemonIds : p # q => ~ Collide(View(h, p), View(h, q))
    BY <2>2 DEF NoTwoInASlot
  <2>4. ASSUME NEW p \in PokemonIds, NEW q \in PokemonIds, p # q
        PROVE  ~ Collide(View(h, p)', View(h, q)')
    BY <1>4, <2>1, <2>3, <2>4, CollideSymmetric
  <2> QED BY <2>4 DEF NoTwoInASlot
<1>8. ASSUME NEW g \in Threads, g # h PROVE NoTwoInASlot([p \in PokemonIds |-> View(g, p)'])
  <2>1. \A p \in PokemonIds : View(g, p)' = View(g, p)
    BY <1>1, <1>8, OnlyItsRecord
  <2> QED BY <2>1 DEF TxInv, Isolation, NoTwoInASlot
<1>9. ASSUME NEW f \in Threads, NEW g \in Threads, f # g, f # h
      PROVE  /\ \A k \in Keys : tx'[f].wrote[k] = Unset \/ tx'[g].wrote[k] = Unset
             /\ \A p, q \in PokemonIds :
                   p # q /\ tx'[f].wrote[p] # Unset /\ tx'[g].wrote[q] # Unset =>
                       ~ Collide(tx'[f].wrote[p], tx'[g].wrote[q])
  <2>1. tx'[f] = tx[f]
    BY <1>1, <1>9
  <2>2. /\ \A k \in Keys : tx[f].wrote[k] = Unset \/ tx[g].wrote[k] = Unset
        /\ \A p, q \in PokemonIds :
              p # q /\ tx[f].wrote[p] # Unset /\ tx[g].wrote[q] # Unset =>
                  ~ Collide(tx[f].wrote[p], tx[g].wrote[q])
    BY <1>9 DEF TxInv, Isolation
  <2>3. CASE g = h
    <3>1. ASSUME NEW k \in Keys PROVE tx[f].wrote[k] = Unset \/ tx'[g].wrote[k] = Unset
      BY <1>1, <1>5, <1>9, <2>2, <2>3
    <3>2. ASSUME NEW p \in PokemonIds, NEW q \in PokemonIds, p # q,
                 tx[f].wrote[p] # Unset, tx'[g].wrote[q] # Unset
          PROVE  ~ Collide(tx[f].wrote[p], tx'[g].wrote[q])
      <4>1. q \in Keys
        BY DEF Keys
      <4>2. CASE q = w.key
        <5>1. ~ Collide(w.row, tx[f].wrote[p])
          BY <1>5, <1>9, <3>2, <4>2
        <5> QED BY <1>1, <2>3, <4>1, <4>2, <5>1, CollideSymmetric
      <4>3. CASE q # w.key
        BY <1>1, <2>2, <2>3, <3>2, <4>1, <4>3
      <4> QED BY <4>2, <4>3
    <3> QED BY <2>1, <3>1, <3>2
  <2>4. CASE g # h
    BY <1>1, <2>1, <2>2, <2>4
  <2> QED BY <2>3, <2>4
<1>10. ASSUME NEW f \in Threads, NEW g \in Threads, f # g
       PROVE  /\ \A k \in Keys : tx'[f].wrote[k] = Unset \/ tx'[g].wrote[k] = Unset
              /\ \A p, q \in PokemonIds :
                    p # q /\ tx'[f].wrote[p] # Unset /\ tx'[g].wrote[q] # Unset =>
                        ~ Collide(tx'[f].wrote[p], tx'[g].wrote[q])
  <2>1. CASE f # h
    BY <1>9, <1>10, <2>1
  <2>2. CASE f = h
    <3>1. /\ \A k \in Keys : tx'[g].wrote[k] = Unset \/ tx'[f].wrote[k] = Unset
          /\ \A p, q \in PokemonIds :
                p # q /\ tx'[g].wrote[p] # Unset /\ tx'[f].wrote[q] # Unset =>
                    ~ Collide(tx'[g].wrote[p], tx'[f].wrote[q])
      BY <1>9, <1>10, <2>2
    <3> QED BY <3>1, CollideSymmetric
  <2> QED BY <2>1, <2>2
<1> QED BY <1>6, <1>7, <1>8, <1>10 DEF Isolation

LEMMA FlushKeeps ==
  ASSUME TxInv, NEW h \in Threads, Flushes(h)
  PROVE  TxInv'
<1> DEFINE w == tx[h].todo[1]
<1>1. /\ w \in Writes /\ w = Head(tx[h].todo) /\ tx[h].todo # <<>>
      /\ Len(tx[h].todo) \in Nat /\ Len(tx[h].todo) >= 1
      /\ UNCHANGED <<pokemon, drawn, trades>> /\ tx' \in [Threads -> Transaction]
      /\ \A g \in Threads \ {h} : tx'[g] = tx[g]
      /\ tx'[h].req = tx[h].req
      /\ \A k \in Keys : tx'[h].wrote[k] = IF k = w.key THEN w.row ELSE tx[h].wrote[k]
  BY FlushedRecord DEF TxInv
<1>2. /\ w.key \in Keys /\ w.row # Unset
      /\ w.key \in PokemonIds => w.row \in Row \cup {NoRow}
      /\ w.key \in TradeIds => w.row \in Trade
  BY <1>1, WriteTypes
<1>3. Planned(tx'[h])
  BY FlushKeepsThePlan DEF TxInv
<1>4. ~ Rejected(h, w)
  BY <1>1 DEF Flushes
<1>5. InsertsItsOwn(tx[h]) /\ 1 \in 1 .. Len(tx[h].todo)
  BY <1>1 DEF TxInv, Programs
<1>6. w.op \in {"insert", "update"}
  BY <1>1 DEF Writes
<1> HIDE DEF w
<1>7. TxTypeOK'
  BY <1>1, <1>2 DEF TxInv, TxTypeOK, TypeOK, Keys
<1>8. Programs'
  BY <1>1, <1>3 DEF TxInv, Programs, Planned
<1>9. Uuids'
  <2>1. UuidsDrawn'
    BY <1>1 DEF TxInv, Uuids, UuidsDrawn
  <2>2. \A g \in Threads : tx'[g].req = tx[g].req
    BY <1>1
  <2>3. ASSUME NEW g \in Threads, Creates(tx'[g])
        PROVE  /\ tx'[g].req.new \notin drawn'
               /\ \A f \in Threads : f # g /\ Creates(tx'[f]) => tx'[f].req.new # tx'[g].req.new
    BY <1>1, <2>2, <2>3 DEF TxInv, Uuids, Creates
  <2>4. ASSUME NEW g \in Threads, NEW p \in PokemonIds, tx'[g].wrote[p] # Unset, Exists(tx'[g].wrote, p)
        PROVE  Exists(pokemon', p) \/ (Creates(tx'[g]) /\ p = tx'[g].req.new)
    <3>1. \A f \in Threads : tx[f].wrote[p] # Unset /\ Exists(tx[f].wrote, p) =>
             Exists(pokemon, p) \/ (Creates(tx[f]) /\ p = tx[f].req.new)
      BY DEF TxInv, Uuids
    <3>2. CASE g = h /\ p = w.key
      <4>1. CASE w.op = "update"
        <5>1. View(h, p).owner # NoPlayer
          BY <1>4, <3>2, <4>1 DEF Rejected, Exists
        <5>2. Exists(pokemon, p) \/ (tx[h].wrote[p] # Unset /\ Exists(tx[h].wrote, p))
          BY <5>1 DEF View, Exists
        <5> QED BY <1>1, <2>2, <3>1, <3>2, <5>2 DEF Creates, Exists
      <4>2. CASE w.op = "insert"
        <5>1. Creates(tx[h]) /\ w.key = tx[h].req.new
          BY <1>5, <3>2, <4>2 DEF InsertsItsOwn, w
        <5> QED BY <2>2, <3>2, <5>1 DEF Creates
      <4> QED BY <1>6, <4>1, <4>2
    <3>3. CASE ~ (g = h /\ p = w.key)
      <4>1. tx'[g].wrote[p] = tx[g].wrote[p]
        BY <1>1, <3>3 DEF Keys
      <4> QED BY <1>1, <2>2, <2>4, <3>1, <4>1 DEF Creates, Exists
    <3> QED BY <3>2, <3>3
  <2> QED BY <2>1, <2>3, <2>4 DEF Uuids
<1>10. Isolation'
  BY FlushIsolated
<1> QED BY <1>7, <1>8, <1>9, <1>10 DEF TxInv

(* The commit shows every transaction the rows one transaction saw.         *)
LEMMA CommitTables ==
  ASSUME TxInv, NEW h \in Threads, Commit(h)
  PROVE  /\ tx[h].todo = <<>> /\ tx[h].pc = "commit"
         /\ \A p \in PokemonIds : pokemon'[p] = View(h, p)
         /\ \A t \in TradeIds :
               trades'[t] = IF tx[h].wrote[t] = Unset THEN trades[t] ELSE tx[h].wrote[t]
         /\ drawn' = drawn \cup {p \in PokemonIds : Exists(pokemon', p)}
         /\ tx' \in [Threads -> Transaction] /\ tx'[h] = Served
         /\ \A g \in Threads \ {h} : tx'[g] = tx[g]
         /\ TypeOK'
<1>1. Served \in Transaction
  BY ServedIsATransaction
<1>2. /\ tx' \in [Threads -> Transaction] /\ tx'[h] = Served
      /\ \A g \in Threads \ {h} : tx'[g] = tx[g]
  BY <1>1 DEF Commit, TxInv, TxTypeOK
<1>3. pokemon' \in Tables
  BY RowsSeen DEF Commit, Tables, TxInv
<1>4. trades' \in [TradeIds -> Trade \cup {NoTrade}]
  <2>1. \A t \in TradeIds : tx[h].wrote[t] \in Trade \cup {Unset} /\ trades[t] \in Trade \cup {NoTrade}
    BY DEF TxInv, TxTypeOK, TypeOK
  <2> QED BY <2>1 DEF Commit
<1>5. drawn' \subseteq PokemonIds
  BY DEF Commit, TxInv, TxTypeOK, TypeOK
<1> QED BY <1>2, <1>3, <1>4, <1>5 DEF Commit, TypeOK

LEMMA CommitIsolated ==
  ASSUME TxInv, NEW h \in Threads, Commit(h)
  PROVE  Isolation'
<1>1. /\ \A p \in PokemonIds : pokemon'[p] = View(h, p)
      /\ tx'[h] = Served /\ \A g \in Threads \ {h} : tx'[g] = tx[g]
  BY CommitTables
<1>2. \A k \in Keys : Served.wrote[k] = Unset
  BY ServedIsATransaction
<1>3. \A f \in Threads : \A p, q \in PokemonIds : p # q => ~ Collide(View(f, p), View(f, q))
  <2>1. \A f \in Threads : NoTwoInASlot([p \in PokemonIds |-> View(f, p)])
    BY DEF TxInv, Isolation
  <2> QED BY <2>1 DEF NoTwoInASlot
<1>4. SlotsUnique'
  BY <1>1, <1>3 DEF SlotsUnique, NoTwoInASlot
<1>5. NoTwoInASlot([p \in PokemonIds |-> View(h, p)'])
  <2>1. \A p \in PokemonIds : View(h, p)' = pokemon'[p]
    BY <1>1, <1>2 DEF View, Keys
  <2> QED BY <1>4, <2>1 DEF SlotsUnique, NoTwoInASlot
<1>6. ASSUME NEW g \in Threads, g # h PROVE NoTwoInASlot([p \in PokemonIds |-> View(g, p)'])
  <2>1. \A p \in PokemonIds :
           View(g, p)' = IF tx[g].wrote[p] = Unset THEN View(h, p) ELSE tx[g].wrote[p]
    BY <1>1, <1>6 DEF View
  <2>2. \A p, q \in PokemonIds :
           p # q /\ tx[g].wrote[p] # Unset /\ tx[h].wrote[q] # Unset =>
               ~ Collide(tx[g].wrote[p], tx[h].wrote[q])
    BY <1>6 DEF TxInv, Isolation
  <2>3. ASSUME NEW p \in PokemonIds, NEW q \in PokemonIds, p # q,
               tx[g].wrote[p] # Unset, tx[g].wrote[q] = Unset
        PROVE  ~ Collide(tx[g].wrote[p], View(h, q))
    <3>1. CASE tx[h].wrote[q] # Unset
      BY <2>2, <2>3, <3>1 DEF View
    <3>2. CASE tx[h].wrote[q] = Unset
      <4>1. View(h, q) = View(g, q) /\ View(g, p) = tx[g].wrote[p]
        BY <2>3, <3>2 DEF View
      <4> QED BY <1>3, <2>3, <4>1
    <3> QED BY <3>1, <3>2
  <2>4. ASSUME NEW p \in PokemonIds, NEW q \in PokemonIds, p # q
        PROVE  ~ Collide(View(g, p)', View(g, q)')
    <3>1. CASE tx[g].wrote[p] = Unset /\ tx[g].wrote[q] = Unset
      BY <1>3, <2>1, <2>4, <3>1
    <3>2. CASE tx[g].wrote[p] # Unset /\ tx[g].wrote[q] = Unset
      BY <2>1, <2>3, <2>4, <3>2
    <3>3. CASE tx[g].wrote[p] = Unset /\ tx[g].wrote[q] # Unset
      BY <2>1, <2>3, <2>4, <3>3, CollideSymmetric
    <3>4. CASE tx[g].wrote[p] # Unset /\ tx[g].wrote[q] # Unset
      <4>1. View(g, p) = tx[g].wrote[p] /\ View(g, q) = tx[g].wrote[q]
        BY <3>4 DEF View
      <4> QED BY <1>3, <2>1, <2>4, <3>4, <4>1
    <3> QED BY <3>1, <3>2, <3>3, <3>4
  <2> QED BY <2>4 DEF NoTwoInASlot
<1>7. ASSUME NEW f \in Threads, NEW g \in Threads, f # g
      PROVE  /\ \A k \in Keys : tx'[f].wrote[k] = Unset \/ tx'[g].wrote[k] = Unset
             /\ \A p, q \in PokemonIds :
                   p # q /\ tx'[f].wrote[p] # Unset /\ tx'[g].wrote[q] # Unset =>
                       ~ Collide(tx'[f].wrote[p], tx'[g].wrote[q])
  <2>1. CASE f = h \/ g = h
    BY <1>1, <1>2, <2>1 DEF Keys
  <2>2. CASE f # h /\ g # h
    BY <1>1, <1>7, <2>2 DEF TxInv, Isolation
  <2> QED BY <2>1, <2>2
<1> QED BY <1>4, <1>5, <1>6, <1>7 DEF Isolation

LEMMA CommitKeeps ==
  ASSUME TxInv, NEW h \in Threads, Commit(h)
  PROVE  TxInv'
<1>1. /\ \A p \in PokemonIds : pokemon'[p] = View(h, p)
      /\ drawn' = drawn \cup {p \in PokemonIds : Exists(pokemon', p)}
      /\ tx' \in [Threads -> Transaction] /\ tx'[h] = Served
      /\ \A g \in Threads \ {h} : tx'[g] = tx[g]
      /\ TypeOK'
  BY CommitTables
<1>2. /\ \A k \in Keys : Served.wrote[k] = Unset
      /\ Planned(Served) /\ ~ Creates(Served)
  BY ServedIsATransaction
<1>3. TxTypeOK'
  BY <1>1, <1>2 DEF TxInv, TxTypeOK, Keys
<1>4. Programs'
  BY <1>1, <1>2 DEF TxInv, Programs, Planned
<1>5. Isolation'
  BY CommitIsolated
<1>6. Uuids'
  <2>1. UuidsDrawn'
    BY <1>1 DEF UuidsDrawn
  <2>2. ASSUME NEW p \in PokemonIds, Exists(pokemon', p)
        PROVE  Exists(pokemon, p) \/ (Creates(tx[h]) /\ p = tx[h].req.new)
    BY <1>1, <2>2 DEF TxInv, Uuids, View, Exists
  <2>3. ASSUME NEW g \in Threads, Creates(tx'[g])
        PROVE  /\ tx'[g].req.new \notin drawn'
               /\ \A f \in Threads : f # g /\ Creates(tx'[f]) => tx'[f].req.new # tx'[g].req.new
    <3>1. g # h /\ tx'[g] = tx[g] /\ Creates(tx[g])
      BY <1>1, <1>2, <2>3
    <3>2. /\ tx[g].req.new \notin drawn
          /\ \A f \in Threads : f # g /\ Creates(tx[f]) => tx[f].req.new # tx[g].req.new
      BY <3>1 DEF TxInv, Uuids
    <3>3. \A p \in PokemonIds : Exists(pokemon, p) => p \in drawn
      BY DEF TxInv, Uuids, UuidsDrawn
    <3>4. tx[g].req.new \notin drawn'
      BY <1>1, <2>2, <3>1, <3>2, <3>3
    <3> QED BY <1>1, <1>2, <3>1, <3>2, <3>4
  <2>4. ASSUME NEW g \in Threads, NEW p \in PokemonIds, tx'[g].wrote[p] # Unset, Exists(tx'[g].wrote, p)
        PROVE  Exists(pokemon', p) \/ (Creates(tx'[g]) /\ p = tx'[g].req.new)
    <3>1. g # h /\ tx'[g] = tx[g]
      BY <1>1, <1>2, <2>4 DEF Keys
    <3>2. Exists(pokemon, p) \/ (Creates(tx[g]) /\ p = tx[g].req.new)
      BY <2>4, <3>1 DEF TxInv, Uuids
    <3>3. tx[h].wrote[p] = Unset
      BY <2>4, <3>1 DEF TxInv, Isolation, Keys
    <3>4. pokemon'[p] = pokemon[p]
      BY <1>1, <3>3 DEF View
    <3> QED BY <3>1, <3>2, <3>4 DEF Exists
  <2> QED BY <2>1, <2>3, <2>4 DEF Uuids
<1> QED BY <1>3, <1>4, <1>5, <1>6 DEF TxInv

LEMMA TxInitEstablishes == TxInit => TxInv
<1> SUFFICES ASSUME TxInit PROVE TxInv
  OBVIOUS
<1>1. /\ pokemon \in Tables /\ NoTwoInASlot(pokemon)
      /\ trades \in [TradeIds -> Trade \cup {NoTrade}]
      /\ drawn = {p \in PokemonIds : Exists(pokemon, p)}
      /\ tx = [h \in Threads |-> Idle]
  BY TransactionsAssumption DEF TxInit
<1>2. /\ Idle \in Transaction /\ Idle.req = NoRequest /\ Idle.pc = "idle" /\ Idle.todo = <<>>
      /\ \A k \in Keys : Idle.wrote[k] = Unset
  BY IdleIsATransaction
<1>3. NoRequest.kind = "none" /\ Len(<<>>) = 0
  BY DEF NoRequest
<1>4. TxTypeOK
  BY <1>1, <1>2 DEF TxTypeOK, TypeOK, Keys
<1>5. Programs
  <2>1. Program(Idle)
    BY <1>2, <1>3 DEF Program
  <2>2. InsertsItsOwn(Idle) /\ CompletesTogether(Idle)
    BY <1>2, <1>3 DEF InsertsItsOwn, CompletesTogether, Keys
  <2> QED BY <1>1, <2>1, <2>2 DEF Programs
<1>6. Isolation
  <2>1. \A h \in Threads, p \in PokemonIds : View(h, p) = pokemon[p]
    BY <1>1, <1>2 DEF View, Keys
  <2>2. SlotsUnique /\ \A h \in Threads : NoTwoInASlot([p \in PokemonIds |-> View(h, p)])
    BY <1>1, <2>1 DEF SlotsUnique, NoTwoInASlot
  <2> QED BY <1>1, <1>2, <2>2 DEF Isolation, Keys
<1>7. Uuids
  BY <1>1, <1>2, <1>3 DEF Uuids, UuidsDrawn, Creates, Keys
<1> QED BY <1>4, <1>5, <1>6, <1>7 DEF TxInv

LEMMA TxNextKeeps == TxInv /\ [TxNext]_txVars => TxInv'
<1> SUFFICES ASSUME TxInv, [TxNext]_txVars PROVE TxInv'
  OBVIOUS
<1>1. CASE TxNext
  <2>1. PICK h \in Threads :
           (Reads(h) /\ Planned(tx'[h])) \/ Rollback(h) \/ Flushes(h) \/ Commit(h)
    BY <1>1, StepKinds DEF TxInv
  <2> QED BY <2>1, ReadsKeep, RollbackKeeps, FlushKeeps, CommitKeeps
<1>2. CASE UNCHANGED txVars
  BY <1>2 DEF txVars, TxInv, TxTypeOK, TypeOK, Programs, Isolation, SlotsUnique, View, Uuids,
              UuidsDrawn, Exists
<1> QED BY <1>1, <1>2

(* The inductive invariant. *)
THEOREM TxInvariance == TxSpec => []TxInv
BY TxInitEstablishes, TxNextKeeps, PTL DEF TxSpec

(* Whatever the requests in progress and the statements they have reached,  *)
(* the tables, the contexts and the rows written have the types of V2, V3   *)
(* and of the entities.                                                     *)
THEOREM TxTypeCorrect == TxSpec => []TxTypeOK
<1>1. TxInv => TxTypeOK
  BY DEF TxInv
<1> QED BY <1>1, TxInvariance, PTL

(* However the transactions of PokemonService and TradeService overlap, no  *)
(* two committed Pokemon of a player stand in one slot: what two of them    *)
(* write at once either does not collide or waits, and what one of them     *)
(* writes over rows committed meanwhile is refused by the unique indexes.   *)
THEOREM SlotsUniqueUnderOverlap == TxSpec => []SlotsUnique
<1>1. TxInv => SlotsUnique
  BY DEF TxInv, Isolation
<1> QED BY <1>1, TxInvariance, PTL

LEMMA StepKeepsTheDeletedAway ==
  ASSUME TxInv, [TxNext]_txVars, NEW p \in drawn, ~ Exists(pokemon, p)
  PROVE  ~ Exists(pokemon', p)
<1>1. CASE TxNext
  <2>1. PICK h \in Threads :
           (Reads(h) /\ Planned(tx'[h])) \/ Rollback(h) \/ Flushes(h) \/ Commit(h)
    BY <1>1, StepKinds DEF TxInv
  <2>2. CASE ~ Commit(h)
    BY <2>1, <2>2 DEF Reads, Rollback, Flushes, Exists
  <2>3. CASE Commit(h)
    <3>1. p \in PokemonIds
      BY DEF TxInv, TxTypeOK, TypeOK
    <3>2. pokemon'[p] = View(h, p)
      BY <2>3, <3>1, CommitTables
    <3>3. ~ (Creates(tx[h]) /\ p = tx[h].req.new)
      BY DEF TxInv, Uuids
    <3>4. ~ (tx[h].wrote[p] # Unset /\ Exists(tx[h].wrote, p))
      BY <3>1, <3>3 DEF TxInv, Uuids
    <3> QED BY <3>2, <3>4 DEF View, Exists
  <2> QED BY <2>2, <2>3
<1>2. CASE UNCHANGED txVars
  BY <1>2 DEF txVars, Exists
<1> QED BY <1>1, <1>2

(* A Pokemon deleted by one transaction never comes back through the whole  *)
(* row that another one, which had read it before, still writes: the UPDATE *)
(* finds no row, and only an INSERT of a new uuid makes one.                *)
THEOREM DeletedForGood == TxSpec => GoneForGood
<1>1. TxInv /\ [TxNext]_txVars =>
         [\A p \in drawn : ~ Exists(pokemon, p) => ~ Exists(pokemon', p)]_txVars
  BY StepKeepsTheDeletedAway
<1> QED BY <1>1, TxInvariance, PTL DEF TxSpec, GoneForGood

LEMMA CommitCompletesBoth ==
  ASSUME TxInv, [TxNext]_txVars, NEW t \in TradeIds,
         trades'[t] # trades[t], trades'[t].status = "COMPLETED"
  PROVE  /\ pokemon'[trades'[t].offered].owner = trades'[t].recipient
         /\ pokemon'[trades'[t].requested].owner = trades'[t].initiator
<1>1. TxNext
  BY DEF txVars
<1>2. PICK h \in Threads :
         (Reads(h) /\ Planned(tx'[h])) \/ Rollback(h) \/ Flushes(h) \/ Commit(h)
  BY <1>1, StepKinds DEF TxInv
<1>3. Commit(h)
  BY <1>2 DEF Reads, Rollback, Flushes
<1>4. /\ tx[h].todo = <<>> /\ \A p \in PokemonIds : pokemon'[p] = View(h, p)
      /\ trades'[t] = tx[h].wrote[t] /\ tx[h].wrote[t] # Unset
  BY <1>3, CommitTables
<1>5. tx[h].wrote[t] \in Trade
  BY <1>4 DEF TxInv, TxTypeOK
<1>6. Exchanged(tx[h], tx[h].wrote[t])
  BY <1>4 DEF TxInv, Programs, CompletesTogether
<1>7. ASSUME NEW p \in PokemonIds, NEW o, Promised(tx[h], p, o) PROVE pokemon'[p].owner = o
  <2>1. Len(tx[h].todo) = 0
    BY <1>4
  <2>2. tx[h].wrote[p] # Unset /\ tx[h].wrote[p].owner = o
    BY <1>7, <2>1 DEF Promised
  <2> QED BY <1>4, <2>2 DEF View
<1> QED BY <1>4, <1>5, <1>6, <1>7 DEF Exchanged, Trade

(* A trade is completed with both owners changed or not at all, whatever    *)
(* else is committed between the statements of accept and of                *)
(* completeLiveTrade.                                                       *)
THEOREM ExchangesTogether == TxSpec => CompletedTogether
<1>1. TxInv /\ [TxNext]_txVars =>
         [\A t \in TradeIds :
             (trades'[t] # trades[t] /\ trades'[t].status = "COMPLETED") =>
                /\ pokemon'[trades'[t].offered].owner = trades'[t].recipient
                /\ pokemon'[trades'[t].requested].owner = trades'[t].initiator]_txVars
  BY CommitCompletesBoth
<1> QED BY <1>1, TxInvariance, PTL DEF TxSpec, CompletedTogether

-------------------------------------------------------------------------------
(* One thread.  Nothing is committed while its transaction runs, so what    *)
(* the code has read is what the tables hold, and the flush leads to the    *)
(* tables of the action of PokemonTrading.                                  *)

(* The last of the writes s to row k, if there is one.                      *)
Last(s, k, row) ==
    \E n \in 1 .. Len(s) :
        s[n].key = k /\ s[n].row = row /\ \A m \in 1 .. Len(s) : m > n => s[m].key # k

Absent(s, k) == \A n \in 1 .. Len(s) : s[n].key # k

Seen(t, k, old) == IF t.wrote[k] = Unset THEN old ELSE t.wrote[k]

(* Row k when the flush in progress is over.                                *)
Comes(t, k, old, row) ==
    Last(t.todo, k, row) \/ (Absent(t.todo, k) /\ Seen(t, k, old) = row)

(* The tables the flush of t leads to.                                      *)
Leads(t, db, tb) ==
    /\ \A p \in PokemonIds : Comes(t, p, pokemon[p], db[p])
    /\ \A u \in TradeIds : Comes(t, u, trades[u], tb[u])

(* The entities of t are the rows of db.                                    *)
Holds(t, db) == \A p \in PokemonIds : t.pk[p] \in {Unset, db[p]}

Untouched(t) == Leads(t, pokemon, trades) /\ Holds(t, pokemon)

BoxedRow(o) == [owner |-> o, box |-> FindFreePcSlot(pokemon, o), team |-> 0]

CreatedRow(q) ==
    IF q.loc = Nowhere THEN BoxedRow(q.caller)
    ELSE [owner |-> q.caller, box |-> q.loc.box, team |-> q.loc.team]

CreatePlan(t) ==
    /\ t.pc = "commit"
    /\ t.req.loc = Nowhere => FreePcSlots(pokemon, t.req.caller) # {}
    /\ Leads(t, [pokemon EXCEPT ![t.req.new] = CreatedRow(t.req)], trades)

ClonePlan(t) ==
    /\ pokemon[t.req.target].owner = t.req.caller
    /\ \/ t.pc = "slot" /\ Untouched(t)
       \/ /\ t.pc = "commit"
          /\ FreePcSlots(pokemon, t.req.caller) # {}
          /\ Leads(t, [pokemon EXCEPT ![t.req.new] = BoxedRow(t.req.caller)], trades)

UpdatePlan(t) ==
    /\ pokemon[t.req.target].owner = t.req.caller
    /\ \/ /\ t.pc = "place"
          /\ t.req.loc \in Destinations
          /\ Untouched(t)
          /\ t.pk[t.req.target] = pokemon[t.req.target]
       \/ t.pc = "commit" /\ t.req.loc = Nowhere /\ Leads(t, pokemon, trades)
       \/ /\ t.pc = "commit"
          /\ t.req.loc \in Destinations
          /\ Leads(t, MoveTo(pokemon, t.req.caller, t.req.target, t.req.loc), trades)

DeletePlan(t) ==
    /\ pokemon[t.req.target].owner = t.req.caller
    /\ \/ t.pc = "engaged" /\ Untouched(t)
       \/ /\ t.pc = "commit"
          /\ ~ EngagedInPendingTrade(t.req.target)
          /\ Leads(t, [pokemon EXCEPT ![t.req.target] = NoRow], trades)

DealOf(q, status) == Deal(q.caller, q.recipient, q.offered, q.requested, status)

ProposePlan(t) ==
    /\ t.req.caller # t.req.recipient
    /\ trades[t.req.trade] = NoTrade
    /\ pokemon[t.req.offered].owner = t.req.caller
    /\ \/ t.pc = "requested" /\ Untouched(t)
       \/ /\ t.pc = "commit"
          /\ pokemon[t.req.requested].owner = t.req.recipient
          /\ Leads(t, pokemon, [trades EXCEPT ![t.req.trade] = DealOf(t.req, "PENDING")])

LivePlan(t) ==
    /\ t.req.caller # t.req.recipient
    /\ trades[t.req.trade] = NoTrade
    /\ \/ /\ t.pc = "requested"
          /\ Untouched(t)
          /\ t.pk[t.req.offered] = pokemon[t.req.offered]
       \/ /\ t.pc = "commit"
          /\ pokemon[t.req.offered].owner = t.req.caller /\ pokemon[t.req.offered].team # 0
          /\ pokemon[t.req.requested].owner = t.req.recipient /\ pokemon[t.req.requested].team # 0
          /\ Leads(t, SwapTeamMembers(pokemon, t.req.offered, t.req.requested),
                   [trades EXCEPT ![t.req.trade] = DealOf(t.req, "COMPLETED")])

Resolved(u, status) == [trades EXCEPT ![u].status = status]

CancelPlan(t) ==
    /\ t.pc = "commit"
    /\ Pending(t.req.trade)
    /\ t.req.caller \in {trades[t.req.trade].initiator, trades[t.req.trade].recipient}
    /\ Leads(t, pokemon, Resolved(t.req.trade, "CANCELLED"))

BothHandedOver(u) == Transfer(OfferedHandedOver(u), trades[u].requested, trades[u].initiator)

AcceptPlan(t) ==
    LET u == t.req.trade IN
    /\ Pending(u)
    /\ trades[u].recipient = t.req.caller
    /\ t.tr = trades[u]
    /\ \/ t.pc = "offered" /\ Untouched(t)
       \/ /\ t.pc = "requested"
          /\ Untouched(t)
          /\ t.pk[t.tr.offered] = pokemon[t.tr.offered]
          /\ Exists(pokemon, t.tr.offered)
       \/ /\ t.pc \in {"room", "initiatorRoom", "give"}
          /\ Untouched(t)
          /\ t.pk[t.tr.offered] = pokemon[t.tr.offered]
          /\ StillOwned(u)
          /\ t.pc = "initiatorRoom" => HasFreePcSlot(pokemon, t.tr.recipient)
          /\ t.pc = "give" => PcRoom(u)
       \/ /\ t.pc = "take"
          /\ StillOwned(u) /\ PcRoom(u)
          /\ FreePcSlots(pokemon, t.tr.recipient) # {}
          /\ Leads(t, OfferedHandedOver(u), trades)
          /\ Holds(t, OfferedHandedOver(u))
       \/ /\ t.pc = "commit"
          /\ StillOwned(u) /\ PcRoom(u) /\ TransfersFit(u)
          /\ Leads(t, BothHandedOver(u), Resolved(u, "COMPLETED"))
       \/ /\ t.pc = "commit"
          /\ ~ StillOwned(u)
          /\ Exists(pokemon, t.tr.offered) /\ Exists(pokemon, t.tr.requested)
          /\ Leads(t, pokemon, Resolved(u, "CANCELLED"))

Plan(t) ==
    /\ t.req.kind = "none" => Leads(t, pokemon, trades) /\ t.pc \in {"idle", "done"}
    /\ t.req.kind = "create" => CreatePlan(t)
    /\ t.req.kind = "clone" => ClonePlan(t)
    /\ t.req.kind = "update" => UpdatePlan(t)
    /\ t.req.kind = "delete" => DeletePlan(t)
    /\ t.req.kind = "propose" => ProposePlan(t)
    /\ t.req.kind = "live" => LivePlan(t)
    /\ t.req.kind = "cancel" => CancelPlan(t)
    /\ t.req.kind = "accept" => AcceptPlan(t)

OnPlan == \A h \in Threads : Plan(tx[h])

-------------------------------------------------------------------------------
(* What a statement adds to the tables its transaction leads to.            *)

LEMMA SeenIsView ==
  ASSUME NEW h, NEW p
  PROVE  Seen(tx[h], p, pokemon[p]) = View(h, p)
BY DEF Seen, View

(* With nothing left to flush, the transaction sees the tables it leads to. *)
LEMMA LeadsSeen ==
  ASSUME NEW t, NEW db, NEW tb, Leads(t, db, tb), t.todo = <<>>
  PROVE  /\ \A p \in PokemonIds : Seen(t, p, pokemon[p]) = db[p]
         /\ \A u \in TradeIds : Seen(t, u, trades[u]) = tb[u]
<1>1. Len(t.todo) = 0
  OBVIOUS
<1> QED BY <1>1 DEF Leads, Comes, Last, Absent

(* The writes of a statement change the rows they name and no other.        *)
LEMMA LeadsOn ==
  ASSUME NEW t, NEW u, NEW db, NEW tb, NEW db2, NEW tb2,
         Leads(t, db, tb), t.todo = <<>>, u.wrote = t.wrote,
         \A p \in PokemonIds : Last(u.todo, p, db2[p]) \/ (Absent(u.todo, p) /\ db2[p] = db[p]),
         \A k \in TradeIds : Last(u.todo, k, tb2[k]) \/ (Absent(u.todo, k) /\ tb2[k] = tb[k])
  PROVE  Leads(u, db2, tb2)
<1>1. /\ \A p \in PokemonIds : Seen(u, p, pokemon[p]) = db[p]
      /\ \A k \in TradeIds : Seen(u, k, trades[k]) = tb[k]
  BY LeadsSeen DEF Seen
<1> QED BY <1>1 DEF Leads, Comes

LEMMA LeadsOnByNothing ==
  ASSUME NEW t, NEW u, NEW db, NEW tb,
         Leads(t, db, tb), t.todo = <<>>, u.wrote = t.wrote, u.todo = <<>>
  PROVE  Leads(u, db, tb)
<1>1. \A k : Absent(u.todo, k)
  BY DEF Absent
<1> QED BY <1>1, LeadsOn

LEMMA LeadsOnByOne ==
  ASSUME NEW t, NEW u, NEW db, NEW tb, NEW db2, NEW tb2, NEW w,
         Leads(t, db, tb), t.todo = <<>>, u.wrote = t.wrote, u.todo = <<w>>,
         \A p \in PokemonIds : db2[p] = IF p = w.key THEN w.row ELSE db[p],
         \A k \in TradeIds : tb2[k] = IF k = w.key THEN w.row ELSE tb[k]
  PROVE  Leads(u, db2, tb2)
<1> DEFINE s == u.todo
<1>1. Len(s) = 1 /\ s[1] = w
  OBVIOUS
<1> HIDE DEF s
<1>2. /\ \A k : k = w.key => Last(s, k, w.row)
      /\ \A k : k # w.key => Absent(s, k)
  BY <1>1 DEF Last, Absent
<1>3. /\ \A p \in PokemonIds : Last(s, p, db2[p]) \/ (Absent(s, p) /\ db2[p] = db[p])
      /\ \A k \in TradeIds : Last(s, k, tb2[k]) \/ (Absent(s, k) /\ tb2[k] = tb[k])
  BY <1>2
<1> QED BY <1>3, LeadsOn DEF s

(* A flush goes where it went.                                              *)
LEMMA FlushLeads ==
  ASSUME TxTypeOK, NEW h \in Threads, Flushes(h), NEW db, NEW tb, Leads(tx[h], db, tb)
  PROVE  Leads(tx'[h], db, tb)
<1> DEFINE t == tx[h]
           u == tx'[h]
           w == t.todo[1]
<1>1. /\ w \in Writes /\ Len(t.todo) \in Nat /\ Len(t.todo) >= 1
      /\ Len(u.todo) = Len(t.todo) - 1
      /\ \A n \in 1 .. Len(u.todo) : n + 1 \in 1 .. Len(t.todo) /\ u.todo[n] = t.todo[n + 1]
      /\ \A k \in Keys : u.wrote[k] = IF k = w.key THEN w.row ELSE t.wrote[k]
  BY FlushedRecord
<1>2. w.row # Unset
  BY <1>1, WriteTypes
<1>3. ASSUME NEW k \in Keys, NEW old, NEW row, Comes(t, k, old, row)
      PROVE  Comes(u, k, old, row)
  <2> HIDE DEF t, u
  <2>1. CASE Last(t.todo, k, row)
    <3>1. PICK n \in 1 .. Len(t.todo) :
             /\ t.todo[n].key = k /\ t.todo[n].row = row
             /\ \A m \in 1 .. Len(t.todo) : m > n => t.todo[m].key # k
      BY <2>1 DEF Last
    <3>2. CASE n = 1
      <4>1. Absent(u.todo, k)
        <5>1. ASSUME NEW m \in 1 .. Len(u.todo) PROVE u.todo[m].key # k
          <6>1. m + 1 \in 1 .. Len(t.todo) /\ u.todo[m] = t.todo[m + 1]
            BY <1>1
          <6>2. m + 1 > n
            BY <3>2
          <6> QED BY <3>1, <6>1, <6>2
        <5> QED BY <5>1 DEF Absent
      <4>2. Seen(u, k, old) = row
        BY <1>1, <1>2, <3>1, <3>2 DEF Seen
      <4> QED BY <4>1, <4>2 DEF Comes
    <3>3. CASE n # 1
      <4>1. n - 1 \in 1 .. Len(u.todo) /\ (n - 1) + 1 = n
        BY <1>1, <3>1, <3>3
      <4>2. u.todo[n - 1] = t.todo[n]
        BY <1>1, <4>1
      <4>3. ASSUME NEW m \in 1 .. Len(u.todo), m > n - 1 PROVE u.todo[m].key # k
        <5>1. m + 1 \in 1 .. Len(t.todo) /\ u.todo[m] = t.todo[m + 1]
          BY <1>1
        <5>2. m + 1 > n
          BY <4>3
        <5> QED BY <3>1, <5>1, <5>2
      <4>4. Last(u.todo, k, row)
        BY <3>1, <4>1, <4>2, <4>3 DEF Last
      <4> QED BY <4>4 DEF Comes
    <3> QED BY <3>2, <3>3
  <2>2. CASE Absent(t.todo, k) /\ Seen(t, k, old) = row
    <3>1. k # w.key
      BY <1>1, <2>2 DEF Absent
    <3>2. Seen(u, k, old) = row
      BY <1>1, <2>2, <3>1 DEF Seen
    <3>3. Absent(u.todo, k)
      BY <1>1, <2>2 DEF Absent
    <3> QED BY <3>2, <3>3 DEF Comes
  <2> QED BY <1>3, <2>1, <2>2 DEF Comes
<1> QED BY <1>3 DEF Leads, Keys

(* The record of a transaction that begins, or goes on.                     *)
LEMMA BeginFields ==
  ASSUME TxTypeOK, Programs, NEW h \in Threads, NEW req, NEW pc, NEW pk, NEW tr, NEW todo,
         Begin(h, req, pc, pk, tr, todo)
  PROVE  /\ UNCHANGED <<pokemon, drawn, trades>>
         /\ tx'[h].req = req /\ tx'[h].pc = pc /\ tx'[h].pk = pk /\ tx'[h].tr = tr
         /\ tx'[h].todo = todo /\ tx'[h].wrote = tx[h].wrote
         /\ tx[h].todo = <<>> /\ tx[h].req.kind = "none"
<1>1. tx[h] = Idle
  BY DEF Begin, Programs, Program
<1> DEFINE t == [Idle EXCEPT !.req = req, !.pc = pc, !.pk = pk, !.tr = tr, !.todo = todo]
<1>2. /\ t.req = req /\ t.pc = pc /\ t.pk = pk /\ t.tr = tr /\ t.todo = todo
      /\ t.wrote = Idle.wrote /\ Idle.todo = <<>> /\ Idle.req.kind = "none"
  BY DEF Idle, NoRequest
<1>3. tx' = [tx EXCEPT ![h] = t] /\ UNCHANGED <<pokemon, drawn, trades>>
  BY DEF Begin
<1> HIDE DEF t
<1>4. tx'[h] = t
  BY <1>3 DEF TxTypeOK
<1> QED BY <1>1, <1>2, <1>3, <1>4

LEMMA GotoFields ==
  ASSUME TxTypeOK, NEW h \in Threads, NEW pc, NEW pk, NEW todo, Goto(h, pc, pk, todo)
  PROVE  /\ UNCHANGED <<pokemon, drawn, trades>>
         /\ tx'[h].req = tx[h].req /\ tx'[h].pc = pc /\ tx'[h].pk = pk
         /\ tx'[h].tr = tx[h].tr /\ tx'[h].todo = todo /\ tx'[h].wrote = tx[h].wrote
<1> DEFINE t == [tx[h] EXCEPT !.pc = pc, !.pk = pk, !.todo = todo]
<1>1. tx' = [tx EXCEPT ![h] = t] /\ UNCHANGED <<pokemon, drawn, trades>>
  BY DEF Goto, TxTypeOK
<1>2. /\ t.req = tx[h].req /\ t.pc = pc /\ t.pk = pk /\ t.tr = tx[h].tr /\ t.todo = todo
      /\ t.wrote = tx[h].wrote
  BY FieldTypes DEF Transaction
<1> HIDE DEF t
<1>3. tx'[h] = t
  BY <1>1 DEF TxTypeOK
<1> QED BY <1>1, <1>2, <1>3

(* Said of the next record, a plan holds in the next state.                 *)
LEMMA PlanHolds ==
  ASSUME NEW h, UNCHANGED <<pokemon, drawn, trades>>, Plan(tx'[h])
  PROVE  Plan(tx[h])'
<1>1. pokemon' = pokemon /\ trades' = trades
  OBVIOUS
<1>2. Untouched(tx'[h]) => Untouched(tx[h])'
  BY <1>1 DEF Untouched, Leads, Holds
<1>3. CreatePlan(tx'[h]) => CreatePlan(tx[h])'
  BY <1>1 DEF CreatePlan, Leads, CreatedRow, BoxedRow
<1>4. ClonePlan(tx'[h]) => ClonePlan(tx[h])'
  BY <1>1, <1>2 DEF ClonePlan, Leads, BoxedRow
<1>5. UpdatePlan(tx'[h]) => UpdatePlan(tx[h])'
  BY <1>1, <1>2 DEF UpdatePlan, Leads
<1>6. DeletePlan(tx'[h]) => DeletePlan(tx[h])'
  BY <1>1, <1>2 DEF DeletePlan, Leads, EngagedInPendingTrade, Pending
<1>7. ProposePlan(tx'[h]) => ProposePlan(tx[h])'
  BY <1>1, <1>2 DEF ProposePlan, Leads
<1>8. LivePlan(tx'[h]) => LivePlan(tx[h])'
  BY <1>1, <1>2 DEF LivePlan, Leads
<1>9. CancelPlan(tx'[h]) => CancelPlan(tx[h])'
  BY <1>1 DEF CancelPlan, Leads, Pending, Resolved
<1>10. AcceptPlan(tx'[h]) => AcceptPlan(tx[h])'
  BY <1>1, <1>2 DEF AcceptPlan, Leads, Holds, Pending, Resolved, StillOwned, PcRoom,
     TransfersFit, OfferedHandedOver, BothHandedOver
<1>11. Leads(tx'[h], pokemon, trades) => Leads(tx[h], pokemon, trades)'
  BY <1>1 DEF Leads
<1> QED BY <1>3, <1>4, <1>5, <1>6, <1>7, <1>8, <1>9, <1>10, <1>11 DEF Plan

(* A request that begins by reading row p, or none.                         *)
LEMMA BeginUntouched ==
  ASSUME TxTypeOK, Programs, NEW h \in Threads, Plan(tx[h]), NEW req, NEW pc, NEW pk, NEW tr,
         Begin(h, req, pc, pk, tr, <<>>),
         pk = Nothing \/ \E p \in PokemonIds : pk = Only(p, pokemon[p])
  PROVE  /\ UNCHANGED <<pokemon, drawn, trades>>
         /\ tx'[h].req = req /\ tx'[h].pc = pc /\ tx'[h].pk = pk /\ tx'[h].tr = tr
         /\ Untouched(tx'[h])
<1> DEFINE none == <<>>
<1>1. Begin(h, req, pc, pk, tr, none)
  OBVIOUS
<1> HIDE DEF none
<1>2. /\ UNCHANGED <<pokemon, drawn, trades>>
      /\ tx'[h].req = req /\ tx'[h].pc = pc /\ tx'[h].pk = pk /\ tx'[h].tr = tr
      /\ tx'[h].todo = none /\ tx'[h].wrote = tx[h].wrote
      /\ tx[h].todo = <<>> /\ tx[h].req.kind = "none"
  BY <1>1, BeginFields
<1>3. Leads(tx[h], pokemon, trades)
  BY <1>2 DEF Plan
<1>4. tx'[h].todo = <<>>
  BY <1>2 DEF none
<1>5. Leads(tx'[h], pokemon, trades)
  BY <1>2, <1>3, <1>4, LeadsOnByNothing
<1>6. Holds(tx'[h], pokemon)
  BY <1>2 DEF Holds, Only, Nothing, Idle
<1> QED BY <1>2, <1>5, <1>6 DEF Untouched

LEMMA OnlyRow ==
  ASSUME NEW p \in PokemonIds, NEW row
  PROVE  Only(p, row)[p] = row
BY DEF Only

LEMMA CreateOnPlan ==
  ASSUME TxTypeOK, Programs, NEW h \in Threads, Plan(tx[h]), NEW o \in Players,
         NEW p \in PokemonIds, NEW loc \in Locations, StartCreate(h, o, p, loc)
  PROVE  UNCHANGED <<pokemon, drawn, trades>> /\ Plan(tx'[h])
<1> DEFINE req == [kind |-> "create", caller |-> o, new |-> p, loc |-> loc]
           row == CreatedRow(req)
           w == Write("insert", p, row)
           todo == <<w>>
<1>1. /\ loc = Nowhere => FreePcSlots(pokemon, o) # {}
      /\ Begin(h, req, "commit", Nothing, NoTrade, todo)
  BY DEF StartCreate, CreatedRow, BoxedRow
<1>2. w.key = p /\ w.row = row
  BY DEF Write
<1>3. req.kind = "create" /\ req.caller = o /\ req.new = p /\ req.loc = loc
  OBVIOUS
<1> DEFINE db == [pokemon EXCEPT ![p] = row]
<1>4. \A q \in PokemonIds : db[q] = IF q = p THEN row ELSE pokemon[q]
  BY DEF TxTypeOK, TypeOK, Tables
<1>5. p \notin TradeIds
  BY TransactionsAssumption
<1>6. todo = <<w>>
  OBVIOUS
<1> HIDE DEF todo, w, row, req
<1>7. /\ UNCHANGED <<pokemon, drawn, trades>>
      /\ tx'[h].req = req /\ tx'[h].pc = "commit"
      /\ tx'[h].todo = todo /\ tx'[h].wrote = tx[h].wrote
      /\ tx[h].todo = <<>> /\ tx[h].req.kind = "none"
  BY <1>1, BeginFields
<1>8. Leads(tx[h], pokemon, trades)
  BY <1>7 DEF Plan
<1>9. Leads(tx'[h], db, trades)
  <2>1. /\ \A q \in PokemonIds : db[q] = IF q = w.key THEN w.row ELSE pokemon[q]
        /\ \A k \in TradeIds : trades[k] = IF k = w.key THEN w.row ELSE trades[k]
    BY <1>2, <1>4, <1>5
  <2> HIDE DEF db
  <2> QED BY <1>6, <1>7, <1>8, <2>1, LeadsOnByOne
<1>10. CreatePlan(tx'[h])
  BY <1>1, <1>3, <1>7, <1>9 DEF CreatePlan, row
<1> QED BY <1>3, <1>7, <1>10 DEF Plan

LEMMA UpdateOnPlan ==
  ASSUME TxTypeOK, Programs, NEW h \in Threads, Plan(tx[h]), NEW o \in Players,
         NEW p \in PokemonIds, NEW loc \in Destinations \cup {Nowhere}, NEW payload \in BOOLEAN,
         StartUpdate(h, o, p, loc, payload)
  PROVE  UNCHANGED <<pokemon, drawn, trades>> /\ Plan(tx'[h])
<1> DEFINE req == [kind |-> "update", caller |-> o, target |-> p, loc |-> loc, payload |-> payload]
           pc == IF loc = Nowhere THEN "commit" ELSE "place"
           w == Write("update", p, pokemon[p])
           todo == IF payload THEN <<w>> ELSE <<>>
           pk == Only(p, pokemon[p])
<1>1. pokemon[p].owner = o /\ Begin(h, req, pc, pk, NoTrade, todo)
  BY DEF StartUpdate
<1>2. w.key = p /\ w.row = pokemon[p]
  BY DEF Write
<1>3. req.kind = "update" /\ req.caller = o /\ req.target = p /\ req.loc = loc
  OBVIOUS
<1>4. pk[p] = pokemon[p] /\ \A q \in PokemonIds : pk[q] \in {Unset, pokemon[q]}
  BY DEF Only
<1>5. todo = <<w>> \/ todo = <<>>
  OBVIOUS
<1> HIDE DEF todo, w, req, pc, pk
<1>6. /\ UNCHANGED <<pokemon, drawn, trades>>
      /\ tx'[h].req = req /\ tx'[h].pc = pc /\ tx'[h].pk = pk
      /\ tx'[h].todo = todo /\ tx'[h].wrote = tx[h].wrote
      /\ tx[h].todo = <<>> /\ tx[h].req.kind = "none"
  BY <1>1, BeginFields
<1>7. Leads(tx[h], pokemon, trades)
  BY <1>6 DEF Plan
<1>8. Leads(tx'[h], pokemon, trades)
  <2>1. CASE todo = <<w>>
    <3>1. /\ \A q \in PokemonIds : pokemon[q] = IF q = w.key THEN w.row ELSE pokemon[q]
          /\ \A k \in TradeIds : trades[k] = IF k = w.key THEN w.row ELSE trades[k]
      BY <1>2, TransactionsAssumption
    <3> QED BY <1>6, <1>7, <2>1, <3>1, LeadsOnByOne
  <2>2. CASE todo = <<>>
    BY <1>6, <1>7, <2>2, LeadsOnByNothing
  <2> QED BY <1>5, <2>1, <2>2
<1>9. Untouched(tx'[h])
  BY <1>4, <1>6, <1>8 DEF Untouched, Holds
<1>10. UpdatePlan(tx'[h])
  BY <1>1, <1>3, <1>4, <1>6, <1>8, <1>9 DEF UpdatePlan, pc
<1> QED BY <1>3, <1>6, <1>10 DEF Plan

LEMMA ReaderOnPlan ==
  ASSUME TxTypeOK, Programs, NEW h \in Threads, Plan(tx[h]), NEW o \in Players,
         NEW p \in PokemonIds,
         StartDelete(h, o, p) \/ \E c \in PokemonIds : StartClone(h, o, p, c)
  PROVE  UNCHANGED <<pokemon, drawn, trades>> /\ Plan(tx'[h])
<1>1. CASE StartDelete(h, o, p)
  <2> DEFINE req == [kind |-> "delete", caller |-> o, target |-> p]
  <2>1. pokemon[p].owner = o /\ Begin(h, req, "engaged", Only(p, pokemon[p]), NoTrade, <<>>)
    BY <1>1 DEF StartDelete
  <2>2. req.kind = "delete" /\ req.caller = o /\ req.target = p
    OBVIOUS
  <2> HIDE DEF req
  <2>3. /\ UNCHANGED <<pokemon, drawn, trades>>
        /\ tx'[h].req = req /\ tx'[h].pc = "engaged" /\ Untouched(tx'[h])
    BY <2>1, BeginUntouched
  <2> QED BY <2>1, <2>2, <2>3 DEF Plan, DeletePlan
<1>2. ASSUME NEW c \in PokemonIds, StartClone(h, o, p, c)
      PROVE  UNCHANGED <<pokemon, drawn, trades>> /\ Plan(tx'[h])
  <2> DEFINE req == [kind |-> "clone", caller |-> o, target |-> p, new |-> c]
  <2>1. pokemon[p].owner = o /\ Begin(h, req, "slot", Only(p, pokemon[p]), NoTrade, <<>>)
    BY <1>2 DEF StartClone
  <2>2. req.kind = "clone" /\ req.caller = o /\ req.target = p
    OBVIOUS
  <2> HIDE DEF req
  <2>3. /\ UNCHANGED <<pokemon, drawn, trades>>
        /\ tx'[h].req = req /\ tx'[h].pc = "slot" /\ Untouched(tx'[h])
    BY <2>1, BeginUntouched
  <2> QED BY <2>1, <2>2, <2>3 DEF Plan, ClonePlan
<1> QED BY <1>1, <1>2

LEMMA TraderOnPlan ==
  ASSUME TxTypeOK, Programs, NEW h \in Threads, Plan(tx[h]), NEW i \in Players,
         NEW r \in Players, NEW x \in PokemonIds, NEW y \in PokemonIds, NEW u \in TradeIds,
         StartPropose(h, i, r, x, y, u) \/ StartLive(h, i, r, x, y, u)
  PROVE  UNCHANGED <<pokemon, drawn, trades>> /\ Plan(tx'[h])
<1>1. CASE StartPropose(h, i, r, x, y, u)
  <2> DEFINE req == [kind |-> "propose", caller |-> i, recipient |-> r, offered |-> x,
                     requested |-> y, trade |-> u]
  <2>1. /\ i # r /\ trades[u] = NoTrade /\ pokemon[x].owner = i
        /\ Begin(h, req, "requested", Only(x, pokemon[x]), NoTrade, <<>>)
    BY <1>1 DEF StartPropose, FreshTrade
  <2>2. /\ req.kind = "propose" /\ req.caller = i /\ req.recipient = r /\ req.trade = u
        /\ req.offered = x
    OBVIOUS
  <2> HIDE DEF req
  <2>3. /\ UNCHANGED <<pokemon, drawn, trades>>
        /\ tx'[h].req = req /\ tx'[h].pc = "requested" /\ Untouched(tx'[h])
    BY <2>1, BeginUntouched
  <2> QED BY <2>1, <2>2, <2>3 DEF Plan, ProposePlan
<1>2. CASE StartLive(h, i, r, x, y, u)
  <2> DEFINE req == [kind |-> "live", caller |-> i, recipient |-> r, offered |-> x,
                     requested |-> y, trade |-> u]
  <2>1. /\ i # r /\ trades[u] = NoTrade
        /\ Begin(h, req, "requested", Only(x, pokemon[x]), NoTrade, <<>>)
    BY <1>2 DEF StartLive, FreshTrade
  <2>2. /\ req.kind = "live" /\ req.caller = i /\ req.recipient = r /\ req.trade = u
        /\ req.offered = x
    OBVIOUS
  <2> HIDE DEF req
  <2>3. /\ UNCHANGED <<pokemon, drawn, trades>>
        /\ tx'[h].req = req /\ tx'[h].pc = "requested" /\ tx'[h].pk = Only(x, pokemon[x])
        /\ Untouched(tx'[h])
    BY <2>1, BeginUntouched
  <2> QED BY <2>1, <2>2, <2>3, OnlyRow DEF Plan, LivePlan
<1> QED BY <1>1, <1>2

LEMMA AnswerOnPlan ==
  ASSUME TxTypeOK, Programs, NEW h \in Threads, Plan(tx[h]), NEW c \in Players,
         NEW u \in TradeIds, StartAccept(h, c, u) \/ StartCancel(h, c, u)
  PROVE  UNCHANGED <<pokemon, drawn, trades>> /\ Plan(tx'[h])
<1>1. CASE StartAccept(h, c, u)
  <2> DEFINE req == [kind |-> "accept", caller |-> c, trade |-> u]
  <2>1. /\ Pending(u) /\ trades[u].recipient = c
        /\ Begin(h, req, "offered", Nothing, trades[u], <<>>)
    BY <1>1 DEF StartAccept
  <2>2. req.kind = "accept" /\ req.caller = c /\ req.trade = u
    OBVIOUS
  <2> HIDE DEF req
  <2>3. /\ UNCHANGED <<pokemon, drawn, trades>>
        /\ tx'[h].req = req /\ tx'[h].pc = "offered" /\ tx'[h].tr = trades[u] /\ Untouched(tx'[h])
    BY <2>1, BeginUntouched
  <2> QED BY <2>1, <2>2, <2>3 DEF Plan, AcceptPlan
<1>2. CASE StartCancel(h, c, u)
  <2> DEFINE req == [kind |-> "cancel", caller |-> c, trade |-> u]
             w == Write("update", u, [trades[u] EXCEPT !.status = "CANCELLED"])
             todo == <<w>>
             tb == Resolved(u, "CANCELLED")
  <2>1. /\ Pending(u) /\ c \in {trades[u].initiator, trades[u].recipient}
        /\ Begin(h, req, "commit", Nothing, trades[u], todo)
    BY <1>2 DEF StartCancel
  <2>2. req.kind = "cancel" /\ req.caller = c /\ req.trade = u
    OBVIOUS
  <2>3. w.key = u /\ w.row = [trades[u] EXCEPT !.status = "CANCELLED"] /\ u \notin PokemonIds
    BY TransactionsAssumption DEF Write
  <2>4. \A k \in TradeIds : tb[k] = IF k = u THEN w.row ELSE trades[k]
    BY <2>3 DEF Resolved, TxTypeOK, TypeOK
  <2>5. todo = <<w>>
    OBVIOUS
  <2> HIDE DEF req, todo, w, tb
  <2>6. /\ UNCHANGED <<pokemon, drawn, trades>>
        /\ tx'[h].req = req /\ tx'[h].pc = "commit"
        /\ tx'[h].todo = todo /\ tx'[h].wrote = tx[h].wrote
        /\ tx[h].todo = <<>> /\ tx[h].req.kind = "none"
    BY <2>1, BeginFields
  <2>7. Leads(tx[h], pokemon, trades)
    BY <2>6 DEF Plan
  <2>8. Leads(tx'[h], pokemon, tb)
    <3>1. /\ \A q \in PokemonIds : pokemon[q] = IF q = w.key THEN w.row ELSE pokemon[q]
          /\ \A k \in TradeIds : tb[k] = IF k = w.key THEN w.row ELSE trades[k]
      BY <2>3, <2>4
    <3> QED BY <2>5, <2>6, <2>7, <3>1, LeadsOnByOne
  <2> QED BY <2>1, <2>2, <2>6, <2>8 DEF Plan, CancelPlan, tb
<1> QED BY <1>1, <1>2

-------------------------------------------------------------------------------
(* What findByOwnerUuid hands out when the context agrees with the rows.    *)
LEMMA FoundTheRows ==
  ASSUME TxTypeOK, NEW h \in Threads, NEW db \in Tables, NEW o \in Players,
         \A p \in PokemonIds : View(h, p) = db[p], Holds(tx[h], db)
  PROVE  /\ FreePcSlots(Found(h, o), o) = FreePcSlots(db, o)
         /\ HasFreePcSlot(Found(h, o), o) <=> HasFreePcSlot(db, o)
         /\ FindFreePcSlot(Found(h, o), o) = FindFreePcSlot(db, o)
         /\ \A p \in PokemonIds : Loaded(h, o)[p] \in {Unset, db[p]}
         /\ \A p \in PokemonIds : tx[h].pk[p] = db[p] => Loaded(h, o)[p] = db[p]
         /\ \A p \in PokemonIds : Load(h, p) \in Contexts /\ Holds([tx[h] EXCEPT !.pk = Load(h, p)], db)
<1>1. \A p \in PokemonIds : db[p] \in Row \cup {NoRow} /\ db[p] # Unset /\ NoPlayer # o
  BY TransactionsAssumption, StorageAssumption DEF Tables
<1>2. \A p \in PokemonIds : Entity(h, p) = db[p]
  BY <1>1 DEF Entity, Holds
<1>3. ASSUME NEW p \in PokemonIds
      PROVE  Found(h, o)[p] = IF db[p].owner = o THEN db[p] ELSE NoRow
  <2>1. CASE db[p].owner = o
    <3>1. db[p] \in Row
      BY <1>1, <2>1 DEF NoRow
    <3>2. [db[p] EXCEPT !.owner = o] = db[p]
      BY <2>1, <3>1 DEF Row
    <3> QED BY <1>2, <2>1, <3>2 DEF Found
  <2>2. CASE db[p].owner # o
    BY <2>2 DEF Found
  <2> QED BY <2>1, <2>2
<1>4. OwnedBy(Found(h, o), o) = OwnedBy(db, o)
  BY <1>1, <1>3 DEF OwnedBy, NoRow
<1>5. BoxedBy(Found(h, o), o) = BoxedBy(db, o)
  <2>1. \A p \in OwnedBy(db, o) : Found(h, o)[p] = db[p]
    BY <1>3 DEF OwnedBy
  <2> QED BY <1>4, <2>1 DEF BoxedBy
<1>6. FreePcSlots(Found(h, o), o) = FreePcSlots(db, o)
  <2>1. \A p \in OwnedBy(db, o) : Found(h, o)[p] = db[p]
    BY <1>3 DEF OwnedBy
  <2> QED BY <1>4, <2>1 DEF FreePcSlots
<1>7. HasFreePcSlot(Found(h, o), o) <=> HasFreePcSlot(db, o)
  BY <1>5 DEF HasFreePcSlot
<1>8. FindFreePcSlot(Found(h, o), o) = FindFreePcSlot(db, o)
  <2> DEFINE first(S) == CHOOSE s \in S : \A u \in S : s <= u
  <2>1. /\ FindFreePcSlot(Found(h, o), o) = first(FreePcSlots(Found(h, o), o))
        /\ FindFreePcSlot(db, o) = first(FreePcSlots(db, o))
    BY DEF FindFreePcSlot
  <2> HIDE DEF first
  <2> QED BY <1>6, <2>1
<1>9. \A p \in PokemonIds :
         /\ Loaded(h, o)[p] \in {Unset, db[p]}
         /\ tx[h].pk[p] = db[p] => Loaded(h, o)[p] = db[p]
  BY <1>2 DEF Loaded, Holds
<1>10. ASSUME NEW p \in PokemonIds
       PROVE  Load(h, p) \in Contexts /\ Holds([tx[h] EXCEPT !.pk = Load(h, p)], db)
  <2>1. Load(h, p) \in Contexts /\ \A q \in PokemonIds : Load(h, p)[q] \in {Unset, db[q]}
    BY <1>2, ContextsLoaded DEF Holds
  <2>2. [tx[h] EXCEPT !.pk = Load(h, p)].pk = Load(h, p)
    BY FieldTypes DEF Transaction
  <2> QED BY <2>1, <2>2 DEF Holds
<1> QED BY <1>6, <1>7, <1>8, <1>9, <1>10

LEMMA UntouchedViews ==
  ASSUME NEW h \in Threads, NEW db, NEW tb, Leads(tx[h], db, tb), tx[h].todo = <<>>
  PROVE  /\ \A p \in PokemonIds : View(h, p) = db[p]
         /\ \A p \in PokemonIds : Holds(tx[h], db) /\ db[p] # Unset => Entity(h, p) = db[p]
<1>1. \A p \in PokemonIds : View(h, p) = db[p]
  BY LeadsSeen, SeenIsView
<1> QED BY <1>1 DEF Entity, Holds

(* A statement that leads on without a write.                               *)
LEMMA GotoUntouched ==
  ASSUME TxTypeOK, NEW h \in Threads, Untouched(tx[h]), tx[h].todo = <<>>, NEW pc, NEW pk,
         Goto(h, pc, pk, <<>>), \A p \in PokemonIds : pk[p] \in {Unset, pokemon[p]}
  PROVE  /\ UNCHANGED <<pokemon, drawn, trades>>
         /\ tx'[h].req = tx[h].req /\ tx'[h].pc = pc /\ tx'[h].pk = pk
         /\ tx'[h].tr = tx[h].tr /\ Untouched(tx'[h])
<1> DEFINE none == <<>>
<1>1. Goto(h, pc, pk, none)
  OBVIOUS
<1> HIDE DEF none
<1>2. /\ UNCHANGED <<pokemon, drawn, trades>>
      /\ tx'[h].req = tx[h].req /\ tx'[h].pc = pc /\ tx'[h].pk = pk
      /\ tx'[h].tr = tx[h].tr /\ tx'[h].todo = none /\ tx'[h].wrote = tx[h].wrote
  BY <1>1, GotoFields
<1>3. tx'[h].todo = <<>>
  BY <1>2 DEF none
<1>4. Leads(tx'[h], pokemon, trades)
  BY <1>2, <1>3, LeadsOnByNothing DEF Untouched
<1> QED BY <1>2, <1>4 DEF Untouched, Holds

(* A statement that leads on with one write.                                *)
LEMMA GotoWriting ==
  ASSUME TxTypeOK, NEW h \in Threads, NEW db, NEW tb, Leads(tx[h], db, tb), tx[h].todo = <<>>,
         NEW pc, NEW pk, NEW w, NEW db2, NEW tb2, Goto(h, pc, pk, <<w>>),
         \A p \in PokemonIds : db2[p] = IF p = w.key THEN w.row ELSE db[p],
         \A k \in TradeIds : tb2[k] = IF k = w.key THEN w.row ELSE tb[k]
  PROVE  /\ UNCHANGED <<pokemon, drawn, trades>>
         /\ tx'[h].req = tx[h].req /\ tx'[h].pc = pc /\ tx'[h].pk = pk
         /\ tx'[h].tr = tx[h].tr /\ Leads(tx'[h], db2, tb2)
<1> DEFINE todo == <<w>>
<1>1. Goto(h, pc, pk, todo)
  OBVIOUS
<1> HIDE DEF todo
<1>2. /\ UNCHANGED <<pokemon, drawn, trades>>
      /\ tx'[h].req = tx[h].req /\ tx'[h].pc = pc /\ tx'[h].pk = pk
      /\ tx'[h].tr = tx[h].tr /\ tx'[h].todo = todo /\ tx'[h].wrote = tx[h].wrote
  BY <1>1, GotoFields
<1>3. tx'[h].todo = <<w>>
  BY <1>2 DEF todo
<1>4. Leads(tx'[h], db2, tb2)
  BY <1>2, <1>3, LeadsOnByOne
<1> QED BY <1>2, <1>4

LEMMA CloneSlotOnPlan ==
  ASSUME TxTypeOK, Programs, NEW h \in Threads, Plan(tx[h]), CloneSlot(h), ~ Rollback(h)
  PROVE  UNCHANGED <<pokemon, drawn, trades>> /\ Plan(tx'[h])
<1> DEFINE o == tx[h].req.caller
           c == tx[h].req.new
           row == [owner |-> o, box |-> FindFreePcSlot(Found(h, o), o), team |-> 0]
           w == Write("insert", c, row)
           db == [pokemon EXCEPT ![c] = BoxedRow(o)]
<1>1. /\ tx[h].req.kind = "clone" /\ tx[h].pc = "slot" /\ tx[h].todo = <<>>
      /\ o \in Players /\ c \in PokemonIds
  BY FieldTypes, RequestFields DEF CloneSlot, At
<1>2. Untouched(tx[h]) /\ pokemon[tx[h].req.target].owner = o /\ pokemon \in Tables
  BY <1>1 DEF Plan, ClonePlan, TxTypeOK, TypeOK
<1>3. \A p \in PokemonIds : View(h, p) = pokemon[p]
  BY <1>1, <1>2, UntouchedViews DEF Untouched
<1>4. /\ FreePcSlots(Found(h, o), o) = FreePcSlots(pokemon, o)
      /\ FindFreePcSlot(Found(h, o), o) = FindFreePcSlot(pokemon, o)
  BY <1>1, <1>2, <1>3, FoundTheRows DEF Untouched
<1>5. FreePcSlots(pokemon, o) # {} /\ Goto(h, "commit", Loaded(h, o), <<w>>)
  BY <1>4 DEF CloneSlot
<1>6. w.key = c /\ w.row = BoxedRow(o) /\ c \notin TradeIds
  BY <1>1, <1>4, TransactionsAssumption DEF Write, BoxedRow
<1>7. \A p \in PokemonIds : db[p] = IF p = c THEN BoxedRow(o) ELSE pokemon[p]
  BY <1>2 DEF Tables
<1> HIDE DEF w, row, db
<1>8. /\ \A p \in PokemonIds : db[p] = IF p = w.key THEN w.row ELSE pokemon[p]
      /\ \A k \in TradeIds : trades[k] = IF k = w.key THEN w.row ELSE trades[k]
  BY <1>6, <1>7
<1>9. /\ UNCHANGED <<pokemon, drawn, trades>>
      /\ tx'[h].req = tx[h].req /\ tx'[h].pc = "commit" /\ Leads(tx'[h], db, trades)
  BY <1>1, <1>2, <1>5, <1>8, GotoWriting DEF Untouched
<1>10. ClonePlan(tx'[h])
  BY <1>2, <1>5, <1>9 DEF ClonePlan, db
<1> QED BY <1>1, <1>9, <1>10 DEF Plan

LEMMA DeleteEngagedOnPlan ==
  ASSUME TxTypeOK, Programs, NEW h \in Threads, Plan(tx[h]), DeleteEngaged(h), ~ Rollback(h)
  PROVE  UNCHANGED <<pokemon, drawn, trades>> /\ Plan(tx'[h])
<1> DEFINE p == tx[h].req.target
           w == Write("update", p, NoRow)
           db == [pokemon EXCEPT ![p] = NoRow]
<1>1. /\ tx[h].req.kind = "delete" /\ tx[h].pc = "engaged" /\ tx[h].todo = <<>>
      /\ p \in PokemonIds
  BY FieldTypes, RequestFields DEF DeleteEngaged, At
<1>2. Untouched(tx[h]) /\ pokemon[p].owner = tx[h].req.caller /\ pokemon \in Tables
  BY <1>1 DEF Plan, DeletePlan, TxTypeOK, TypeOK
<1>3. ~ EngagedInPendingTrade(p) /\ Goto(h, "commit", tx[h].pk, <<w>>)
  BY DEF DeleteEngaged
<1>4. w.key = p /\ w.row = NoRow /\ p \notin TradeIds
  BY <1>1, TransactionsAssumption DEF Write
<1>5. \A q \in PokemonIds : db[q] = IF q = p THEN NoRow ELSE pokemon[q]
  BY <1>2 DEF Tables
<1> HIDE DEF w, db
<1>6. /\ \A q \in PokemonIds : db[q] = IF q = w.key THEN w.row ELSE pokemon[q]
      /\ \A k \in TradeIds : trades[k] = IF k = w.key THEN w.row ELSE trades[k]
  BY <1>4, <1>5
<1>7. /\ UNCHANGED <<pokemon, drawn, trades>>
      /\ tx'[h].req = tx[h].req /\ tx'[h].pc = "commit" /\ Leads(tx'[h], db, trades)
  BY <1>1, <1>2, <1>3, <1>6, GotoWriting DEF Untouched
<1>8. DeletePlan(tx'[h])
  BY <1>2, <1>3, <1>7 DEF DeletePlan, db
<1> QED BY <1>1, <1>7, <1>8 DEF Plan

LEMMA ProposeRequestedOnPlan ==
  ASSUME TxTypeOK, Programs, NEW h \in Threads, Plan(tx[h]), ProposeRequested(h), ~ Rollback(h)
  PROVE  UNCHANGED <<pokemon, drawn, trades>> /\ Plan(tx'[h])
<1> DEFINE q == tx[h].req
           w == Write("insert", q.trade, DealOf(q, "PENDING"))
           tb == [trades EXCEPT ![q.trade] = DealOf(q, "PENDING")]
<1>1. /\ q.kind = "propose" /\ tx[h].pc = "requested" /\ tx[h].todo = <<>>
      /\ q.trade \in TradeIds /\ q.requested \in PokemonIds
  BY FieldTypes, RequestFields DEF ProposeRequested, At
<1>2. /\ Untouched(tx[h]) /\ pokemon \in Tables
      /\ q.caller # q.recipient /\ trades[q.trade] = NoTrade /\ pokemon[q.offered].owner = q.caller
  BY <1>1 DEF Plan, ProposePlan, TxTypeOK, TypeOK
<1>3. Entity(h, q.requested) = pokemon[q.requested]
  <2>1. pokemon[q.requested] # Unset
    BY <1>1, <1>2, TransactionsAssumption DEF Tables
  <2> QED BY <1>1, <1>2, <2>1, UntouchedViews DEF Untouched
<1>4. pokemon[q.requested].owner = q.recipient /\ Goto(h, "commit", Load(h, q.requested), <<w>>)
  BY <1>3 DEF ProposeRequested, DealOf
<1>5. w.key = q.trade /\ w.row = DealOf(q, "PENDING") /\ q.trade \notin PokemonIds
  BY <1>1, TransactionsAssumption DEF Write
<1>6. \A k \in TradeIds : tb[k] = IF k = q.trade THEN DealOf(q, "PENDING") ELSE trades[k]
  BY DEF TxTypeOK, TypeOK
<1> HIDE DEF w, tb
<1>7. /\ \A p \in PokemonIds : pokemon[p] = IF p = w.key THEN w.row ELSE pokemon[p]
      /\ \A k \in TradeIds : tb[k] = IF k = w.key THEN w.row ELSE trades[k]
  BY <1>5, <1>6
<1>8. /\ UNCHANGED <<pokemon, drawn, trades>>
      /\ tx'[h].req = tx[h].req /\ tx'[h].pc = "commit" /\ Leads(tx'[h], pokemon, tb)
  BY <1>1, <1>2, <1>4, <1>7, GotoWriting DEF Untouched
<1>9. ProposePlan(tx'[h])
  BY <1>2, <1>4, <1>8 DEF ProposePlan, tb
<1> QED BY <1>1, <1>8, <1>9 DEF Plan

(* An exchange of locations: one occupant at most, since slots are unique.  *)
LEMMA UpdatePlaceOnPlan ==
  ASSUME TxTypeOK, Programs, SlotsUnique, NEW h \in Threads, Plan(tx[h]), UpdatePlace(h)
  PROVE  UNCHANGED <<pokemon, drawn, trades>> /\ Plan(tx'[h])
<1> DEFINE p == tx[h].req.target
           o == tx[h].req.caller
           loc == tx[h].req.loc
           old == pokemon[p]
           new == PutAt(old, loc)
           others == Occupants(pokemon, o, p, loc)
           db == MoveTo(pokemon, o, p, loc)
           away(q) == PutAt(pokemon[q], [box |-> old.box, team |-> old.team])
<1>1. /\ tx[h].req.kind = "update" /\ tx[h].pc = "place" /\ tx[h].todo = <<>>
      /\ o \in Players /\ p \in PokemonIds
  BY FieldTypes, RequestFields DEF UpdatePlace, At
<1>2. /\ pokemon[p].owner = o /\ loc \in Destinations /\ Untouched(tx[h]) /\ tx[h].pk[p] = old
      /\ pokemon \in Tables
  BY <1>1 DEF Plan, UpdatePlan, TxTypeOK, TypeOK
<1>3. \A q \in PokemonIds : View(h, q) = pokemon[q]
  BY <1>1, <1>2, UntouchedViews DEF Untouched
<1>4. [q \in PokemonIds |-> View(h, q)] = pokemon
  BY <1>2, <1>3 DEF Tables
<1>5. /\ others = {} => Goto(h, "commit", tx[h].pk, IF new = old THEN <<>> ELSE <<Write("update", p, new)>>)
      /\ others # {} =>
            \E q \in others :
               Goto(h, "commit", Load(h, q),
                    <<Write("update", p, PutAt(old, Nowhere)), Write("update", q, away(q)),
                      Write("update", p, new)>>)
  BY <1>2, <1>4 DEF UpdatePlace
<1>6. \A q \in PokemonIds :
         db[q] = IF q = p THEN new ELSE IF q \in others THEN away(q) ELSE pokemon[q]
  BY DEF MoveTo
<1>7. p \notin TradeIds
  BY <1>1, TransactionsAssumption
<1>8. UpdatePlan(tx[h]) /\ (UNCHANGED <<pokemon, drawn, trades>> /\ tx'[h].req = tx[h].req
         /\ tx'[h].pc = "commit" /\ Leads(tx'[h], db, trades) => UpdatePlan(tx'[h]))
  BY <1>1, <1>2 DEF UpdatePlan, Plan
<1> HIDE DEF db, others, new, away, old
<1>9. UNCHANGED <<pokemon, drawn, trades>> /\ tx'[h].req = tx[h].req
         /\ tx'[h].pc = "commit" /\ Leads(tx'[h], db, trades)
  <2>1. CASE others = {} /\ new = old
    <3> DEFINE none == <<>>
    <3>1. Goto(h, "commit", tx[h].pk, none)
      BY <1>5, <2>1
    <3> HIDE DEF none
    <3>2. /\ UNCHANGED <<pokemon, drawn, trades>>
          /\ tx'[h].req = tx[h].req /\ tx'[h].pc = "commit"
          /\ tx'[h].todo = none /\ tx'[h].wrote = tx[h].wrote
      BY <3>1, GotoFields
    <3>3. Leads(tx'[h], pokemon, trades)
      BY <1>1, <1>2, <3>2, LeadsOnByNothing DEF Untouched, none
    <3>4. \A q \in PokemonIds : db[q] = pokemon[q]
      BY <1>6, <2>1 DEF old
    <3> QED BY <3>2, <3>3, <3>4 DEF Leads
  <2>2. CASE others = {} /\ new # old
    <3> DEFINE w == Write("update", p, new)
    <3>1. Goto(h, "commit", tx[h].pk, <<w>>)
      BY <1>5, <2>2
    <3>2. w.key = p /\ w.row = new
      BY DEF Write
    <3> HIDE DEF w
    <3>3. /\ \A q \in PokemonIds : db[q] = IF q = w.key THEN w.row ELSE pokemon[q]
          /\ \A k \in TradeIds : trades[k] = IF k = w.key THEN w.row ELSE trades[k]
      BY <1>6, <1>7, <2>2, <3>2
    <3> QED BY <1>1, <1>2, <3>1, <3>3, GotoWriting DEF Untouched
  <2>3. CASE others # {}
    <3>1. PICK q \in others :
             Goto(h, "commit", Load(h, q),
                  <<Write("update", p, PutAt(old, Nowhere)), Write("update", q, away(q)),
                    Write("update", p, new)>>)
      BY <1>5, <2>3
    <3>2. q \in PokemonIds /\ q # p /\ q \notin TradeIds
      BY TransactionsAssumption DEF others, Occupants, OwnedBy
    <3>3. \A k \in others : k = q
      <4>1. /\ loc.box = 0 \/ loc.team = 0
            /\ o # NoPlayer
        BY <1>1, <1>2, StorageAssumption DEF Destinations
      <4>2. ASSUME NEW k \in others, k # q PROVE Collide(pokemon[k], pokemon[q])
        BY <4>1, <4>2 DEF others, Occupants, OwnedBy, Collide
      <4>3. \A k \in others : k \in PokemonIds
        BY DEF others, Occupants, OwnedBy
      <4> QED BY <3>2, <4>2, <4>3 DEF SlotsUnique, NoTwoInASlot
    <3> DEFINE w1 == Write("update", p, PutAt(old, Nowhere))
               w2 == Write("update", q, away(q))
               w3 == Write("update", p, new)
               todo == <<w1, w2, w3>>
    <3>4. Goto(h, "commit", Load(h, q), todo)
      BY <3>1
    <3>5. w1.key = p /\ w2.key = q /\ w2.row = away(q) /\ w3.key = p /\ w3.row = new
      BY DEF Write
    <3> HIDE DEF w1, w2, w3
    <3>6. Len(todo) = 3 /\ todo[1] = w1 /\ todo[2] = w2 /\ todo[3] = w3
      OBVIOUS
    <3> HIDE DEF todo
    <3>7. /\ UNCHANGED <<pokemon, drawn, trades>>
          /\ tx'[h].req = tx[h].req /\ tx'[h].pc = "commit"
          /\ tx'[h].todo = todo /\ tx'[h].wrote = tx[h].wrote
      BY <3>4, GotoFields
    <3> HIDE DEF p
    <3>8. /\ Last(todo, p, new) /\ Last(todo, q, away(q))
          /\ \A k : k # p /\ k # q => Absent(todo, k)
      BY <3>2, <3>5, <3>6 DEF Last, Absent
    <3>9. \A k \in PokemonIds : Last(todo, k, db[k]) \/ (Absent(todo, k) /\ db[k] = pokemon[k])
      BY <1>6, <3>1, <3>3, <3>8
    <3>10. \A k \in TradeIds : Last(todo, k, trades[k]) \/ (Absent(todo, k) /\ trades[k] = trades[k])
      BY <1>7, <3>2, <3>8
    <3>11. Leads(tx[h], pokemon, trades) /\ tx[h].todo = <<>>
      BY <1>1, <1>2 DEF Untouched
    <3>12. Leads(tx'[h], db, trades)
      BY <3>7, <3>9, <3>10, <3>11, LeadsOn
    <3> QED BY <3>7, <3>12
  <2> QED BY <2>1, <2>2, <2>3
<1> QED BY <1>1, <1>8, <1>9 DEF Plan

LEMMA LiveRequestedOnPlan ==
  ASSUME TxTypeOK, Programs, NEW h \in Threads, Plan(tx[h]), LiveRequested(h), ~ Rollback(h)
  PROVE  UNCHANGED <<pokemon, drawn, trades>> /\ Plan(tx'[h])
<1> DEFINE q == tx[h].req
           x == q.offered
           y == q.requested
           first == pokemon[x]
           second == pokemon[y]
           row == DealOf(q, "COMPLETED")
           w1 == Write("update", x, PutAt(first, [box |-> first.box, team |-> 0]))
           w2 == Write("update", y, PutAt(second, [box |-> second.box, team |-> 0]))
           w3 == Write("update", x, [second EXCEPT !.box = 0])
           w4 == Write("update", y, [first EXCEPT !.box = 0])
           w5 == Write("insert", q.trade, row)
           todo == <<w1, w2, w3, w4, w5>>
           db == SwapTeamMembers(pokemon, x, y)
           tb == [trades EXCEPT ![q.trade] = row]
<1>1. /\ q.kind = "live" /\ tx[h].pc = "requested" /\ tx[h].todo = <<>>
      /\ q.caller \in Players /\ q.recipient \in Players /\ q.trade \in TradeIds
      /\ x \in PokemonIds /\ y \in PokemonIds
  BY FieldTypes, RequestFields DEF LiveRequested, At
<1>2. /\ q.caller # q.recipient /\ trades[q.trade] = NoTrade /\ Untouched(tx[h])
      /\ tx[h].pk[x] = first /\ pokemon \in Tables
  BY <1>1 DEF Plan, LivePlan, TxTypeOK, TypeOK
<1>3. Entity(h, y) = second
  <2>1. second # Unset
    BY <1>1, <1>2, TransactionsAssumption DEF Tables
  <2> QED BY <1>1, <1>2, <2>1, UntouchedViews DEF Untouched
<1>4. /\ first.owner = q.caller /\ second.owner = q.recipient
      /\ first.team # 0 /\ second.team # 0
      /\ Goto(h, "commit", Load(h, y), todo)
  BY <1>2, <1>3 DEF LiveRequested, DealOf
<1>5. x # y
  BY <1>2, <1>4
<1>6. first \in Row /\ second \in Row
  BY <1>1, <1>2, <1>4, OwnedRow, StorageAssumption
<1>7. /\ w1.key = x /\ w2.key = y /\ w3.key = x /\ w4.key = y /\ w5.key = q.trade /\ w5.row = row
      /\ w3.row = [second EXCEPT !.box = 0] /\ w4.row = [first EXCEPT !.box = 0]
  BY DEF Write
<1>8. \A k \in PokemonIds :
         db[k] = IF k = x THEN w3.row ELSE IF k = y THEN w4.row ELSE pokemon[k]
  <2>1. /\ w3.row = [owner |-> second.owner, box |-> 0, team |-> second.team]
        /\ w4.row = [owner |-> first.owner, box |-> 0, team |-> first.team]
    <3>1. \A r \in Row : [r EXCEPT !.box = 0] = [owner |-> r.owner, box |-> 0, team |-> r.team]
      BY DEF Row
    <3> HIDE DEF w3, w4, first, second
    <3> QED BY <1>6, <1>7, <3>1
  <2>2. \A k \in PokemonIds :
           db[k] = IF k = x THEN [owner |-> second.owner, box |-> 0, team |-> second.team]
                   ELSE IF k = y THEN [owner |-> first.owner, box |-> 0, team |-> first.team]
                   ELSE pokemon[k]
    BY <1>2, <1>5 DEF SwapTeamMembers, Tables
  <2> HIDE DEF w3, w4, db, first, second
  <2> QED BY <2>1, <2>2
<1>9. \A k \in TradeIds : tb[k] = IF k = q.trade THEN row ELSE trades[k]
  BY DEF TxTypeOK, TypeOK
<1>10. q.trade \notin PokemonIds /\ x \notin TradeIds /\ y \notin TradeIds
  BY <1>1, TransactionsAssumption
<1>11. UNCHANGED <<pokemon, drawn, trades>> /\ tx'[h].req = tx[h].req
         /\ tx'[h].pc = "commit" /\ Leads(tx'[h], db, tb) => LivePlan(tx'[h])
  BY <1>2, <1>4 DEF LivePlan
<1> HIDE DEF w1, w2, w3, w4, w5, row, db, tb
<1>12. /\ Len(todo) = 5
       /\ todo[1] = w1 /\ todo[2] = w2 /\ todo[3] = w3 /\ todo[4] = w4 /\ todo[5] = w5
  OBVIOUS
<1> HIDE DEF todo
<1>13. /\ UNCHANGED <<pokemon, drawn, trades>>
       /\ tx'[h].req = tx[h].req /\ tx'[h].pc = "commit"
       /\ tx'[h].todo = todo /\ tx'[h].wrote = tx[h].wrote
  BY <1>4, GotoFields
<1>14. Leads(tx'[h], db, tb)
  <2> DEFINE u == q.trade
  <2>0. Leads(tx[h], pokemon, trades) /\ tx[h].todo = <<>>
    BY <1>1, <1>2 DEF Untouched
  <2> HIDE DEF x, y, u, q
  <2>1. /\ todo[1].key = x /\ todo[2].key = y /\ todo[3].key = x /\ todo[4].key = y
        /\ todo[5].key = u /\ todo[3].row = w3.row /\ todo[4].row = w4.row /\ todo[5].row = row
        /\ x # u /\ y # u
    BY <1>1, <1>7, <1>10, <1>12 DEF u
  <2>2. /\ Last(todo, x, w3.row) /\ Last(todo, y, w4.row) /\ Last(todo, u, row)
        /\ \A k : k # x /\ k # y /\ k # u => Absent(todo, k)
    BY <1>5, <1>12, <2>1 DEF Last, Absent
  <2>3. \A k \in PokemonIds : Last(todo, k, db[k]) \/ (Absent(todo, k) /\ db[k] = pokemon[k])
    BY <1>8, <1>10, <2>2 DEF u
  <2>4. \A k \in TradeIds : Last(todo, k, tb[k]) \/ (Absent(todo, k) /\ tb[k] = trades[k])
    BY <1>9, <1>10, <2>2 DEF u
  <2> QED BY <1>13, <2>0, <2>3, <2>4, LeadsOn
<1> QED BY <1>1, <1>11, <1>13, <1>14 DEF Plan

LEMMA AcceptOnPlan ==
  ASSUME TxTypeOK, Programs, NEW h \in Threads, Plan(tx[h]), tx[h].req.kind = "accept"
  PROVE  /\ AcceptPlan(tx[h]) /\ pokemon \in Tables /\ tx[h].tr = trades[tx[h].req.trade]
         /\ tx[h].req.trade \in TradeIds /\ trades[tx[h].req.trade] \in Trade
         /\ tx[h].tr.initiator \in Players /\ tx[h].tr.recipient \in Players
         /\ tx[h].tr.offered \in PokemonIds /\ tx[h].tr.requested \in PokemonIds
         /\ \A p \in PokemonIds : pokemon[p] # Unset
<1>1. AcceptPlan(tx[h]) /\ pokemon \in Tables /\ tx[h].tr = trades[tx[h].req.trade]
  BY DEF Plan, AcceptPlan, TxTypeOK, TypeOK
<1>2. \A p \in PokemonIds : pokemon[p] # Unset
  BY <1>1, TransactionsAssumption DEF Tables
<1> QED BY <1>1, <1>2, AcceptFields

LEMMA AcceptReadsOnPlan ==
  ASSUME TxTypeOK, Programs, NEW h \in Threads, Plan(tx[h]),
         AcceptOffered(h) \/ AcceptRequested(h), ~ Rollback(h)
  PROVE  UNCHANGED <<pokemon, drawn, trades>> /\ Plan(tx'[h])
<1> DEFINE t == tx[h]
           u == t.req.trade
           x == t.tr.offered
           y == t.tr.requested
<1>1. t.req.kind = "accept" /\ t.todo = <<>> /\ t.pc \in {"offered", "requested"}
  BY DEF AcceptOffered, AcceptRequested, At
<1>2. /\ AcceptPlan(t) /\ pokemon \in Tables /\ t.tr = trades[u]
      /\ u \in TradeIds /\ trades[u] \in Trade /\ x \in PokemonIds /\ y \in PokemonIds
      /\ t.tr.initiator \in Players /\ t.tr.recipient \in Players
      /\ \A p \in PokemonIds : pokemon[p] # Unset
  BY <1>1, AcceptOnPlan
<1>3. Pending(u) /\ trades[u].recipient = t.req.caller /\ Untouched(t)
  BY <1>1, <1>2 DEF AcceptPlan
<1>4. \A p \in PokemonIds : Entity(h, p) = pokemon[p]
  BY <1>1, <1>2, <1>3, UntouchedViews DEF Untouched
<1>5. ASSUME NEW p \in PokemonIds
      PROVE  /\ Load(h, p)[p] = pokemon[p]
             /\ \A q \in PokemonIds : Load(h, p)[q] \in {Unset, pokemon[q]}
             /\ \A q \in PokemonIds : t.pk[q] = pokemon[q] => Load(h, p)[q] = pokemon[q]
  BY <1>3, <1>4, ContextsLoaded DEF Untouched, Holds
<1>6. CASE AcceptOffered(h)
  <2>1. Exists(pokemon, x) /\ Goto(h, "requested", Load(h, x), <<>>)
    BY <1>2, <1>4, <1>6, StorageAssumption DEF AcceptOffered, Exists, Tables, Row, NoRow
  <2>2. /\ UNCHANGED <<pokemon, drawn, trades>> /\ tx'[h].req = t.req /\ tx'[h].pc = "requested"
        /\ tx'[h].pk = Load(h, x) /\ tx'[h].tr = t.tr /\ Untouched(tx'[h])
    <3> DEFINE pk == Load(h, x)
    <3>1. \A p \in PokemonIds : pk[p] \in {Unset, pokemon[p]}
      BY <1>2, <1>5
    <3>2. Goto(h, "requested", pk, <<>>) /\ Untouched(tx[h]) /\ tx[h].todo = <<>>
      BY <1>1, <1>3, <2>1
    <3> HIDE DEF pk, t, u, x, y
    <3>3. /\ UNCHANGED <<pokemon, drawn, trades>> /\ tx'[h].req = tx[h].req
          /\ tx'[h].pc = "requested" /\ tx'[h].pk = pk /\ tx'[h].tr = tx[h].tr
          /\ Untouched(tx'[h])
      BY <3>1, <3>2, GotoUntouched
    <3> QED BY <3>3 DEF pk, t
  <2>3. AcceptPlan(tx'[h])
    <3> DEFINE v == tx'[h]
    <3>1. /\ v.req.trade = u /\ v.req.caller = t.req.caller /\ v.tr = trades[u] /\ v.tr.offered = x
          /\ v.pc = "requested" /\ Untouched(v)
      BY <1>2, <2>2
    <3>2. v.pk[x] = pokemon[x]
      BY <1>2, <1>5, <2>2
    <3> HIDE DEF t, u, x, v
    <3>3. AcceptPlan(v)
      BY <1>3, <2>1, <3>1, <3>2 DEF AcceptPlan
    <3> QED BY <3>3 DEF v
  <2> QED BY <1>1, <2>2, <2>3 DEF Plan
<1>7. CASE AcceptRequested(h)
  <2>1. t.pc = "requested" /\ t.pk[x] = pokemon[x] /\ Exists(pokemon, x)
    BY <1>2, <1>7 DEF AcceptPlan, AcceptRequested, At
  <2>2. Exists(pokemon, y)
    BY <1>2, <1>4, <1>7, StorageAssumption DEF AcceptRequested, Exists, Tables, Row, NoRow
  <2>3. CASE ~ StillOwned(u)
    <3> DEFINE w == ResolveWrite(h, "CANCELLED")
               tb == Resolved(u, "CANCELLED")
    <3>1. Goto(h, "commit", Load(h, y), <<w>>)
      BY <1>2, <1>4, <1>7, <2>1, <2>3 DEF AcceptRequested, StillOwned
    <3>2. w.key = u /\ w.row = [trades[u] EXCEPT !.status = "CANCELLED"] /\ u \notin PokemonIds
      BY <1>2, TransactionsAssumption DEF ResolveWrite, Write
    <3>3. \A k \in TradeIds : tb[k] = IF k = u THEN w.row ELSE trades[k]
      BY <3>2 DEF Resolved, TxTypeOK, TypeOK
    <3> HIDE DEF w, tb
    <3>4. /\ \A p \in PokemonIds : pokemon[p] = IF p = w.key THEN w.row ELSE pokemon[p]
          /\ \A k \in TradeIds : tb[k] = IF k = w.key THEN w.row ELSE trades[k]
      BY <3>2, <3>3
    <3>5. /\ UNCHANGED <<pokemon, drawn, trades>> /\ tx'[h].req = t.req /\ tx'[h].pc = "commit"
          /\ tx'[h].tr = t.tr /\ Leads(tx'[h], pokemon, tb)
      BY <1>1, <1>3, <3>1, <3>4, GotoWriting DEF Untouched
    <3>6. AcceptPlan(tx'[h])
      BY <1>2, <1>3, <2>1, <2>2, <2>3, <3>5 DEF AcceptPlan, tb
    <3> QED BY <1>1, <3>5, <3>6 DEF Plan
  <2>4. CASE StillOwned(u)
    <3>1. Goto(h, "room", Load(h, y), <<>>)
      BY <1>2, <1>4, <1>7, <2>1, <2>4 DEF AcceptRequested, StillOwned
    <3>2. /\ UNCHANGED <<pokemon, drawn, trades>> /\ tx'[h].req = t.req /\ tx'[h].pc = "room"
          /\ tx'[h].pk = Load(h, y) /\ tx'[h].tr = t.tr /\ Untouched(tx'[h])
      BY <1>1, <1>2, <1>3, <1>5, <3>1, GotoUntouched
    <3>3. Load(h, y)[x] = pokemon[x]
      BY <1>2, <1>5, <2>1
    <3>4. AcceptPlan(tx'[h])
      BY <1>2, <1>3, <2>4, <3>2, <3>3 DEF AcceptPlan
    <3> QED BY <1>1, <3>2, <3>4 DEF Plan
  <2> QED BY <2>3, <2>4
<1> QED BY <1>6, <1>7

(* requirePcRoom counts the rows of the tables. *)
LEMMA AcceptRoomsOnPlan ==
  ASSUME TxTypeOK, Programs, NEW h \in Threads, Plan(tx[h]),
         AcceptRoom(h) \/ AcceptInitiatorRoom(h), ~ Rollback(h)
  PROVE  UNCHANGED <<pokemon, drawn, trades>> /\ Plan(tx'[h])
<1> DEFINE t == tx[h]
           u == t.req.trade
           x == t.tr.offered
<1>1. t.req.kind = "accept" /\ t.todo = <<>> /\ t.pc \in {"room", "initiatorRoom"}
  BY DEF AcceptRoom, AcceptInitiatorRoom, At
<1>2. /\ AcceptPlan(t) /\ pokemon \in Tables /\ t.tr = trades[u] /\ x \in PokemonIds
      /\ t.tr.initiator \in Players /\ t.tr.recipient \in Players
  BY <1>1, AcceptOnPlan
<1>3. /\ Pending(u) /\ trades[u].recipient = t.req.caller /\ Untouched(t)
      /\ t.pk[x] = pokemon[x] /\ StillOwned(u)
      /\ t.pc = "initiatorRoom" => HasFreePcSlot(pokemon, t.tr.recipient)
  BY <1>1, <1>2 DEF AcceptPlan
<1>4. \A p \in PokemonIds : View(h, p) = pokemon[p]
  BY <1>1, <1>3, UntouchedViews DEF Untouched
<1>5. ASSUME NEW o \in Players
      PROVE  /\ HasFreePcSlot(Found(h, o), o) <=> HasFreePcSlot(pokemon, o)
             /\ \A p \in PokemonIds : Loaded(h, o)[p] \in {Unset, pokemon[p]}
             /\ Loaded(h, o)[x] = pokemon[x]
  <2>1. Holds(tx[h], pokemon)
    BY <1>3 DEF Untouched
  <2>2. tx[h].pk[x] = pokemon[x]
    BY <1>3
  <2> HIDE DEF t, u, x
  <2> QED BY <1>2, <1>4, <2>1, <2>2, FoundTheRows
<1>6. PICK o \in Players, pc \in {"initiatorRoom", "give"} :
         /\ Goto(h, pc, Loaded(h, o), <<>>)
         /\ pc = "initiatorRoom" => HasFreePcSlot(pokemon, t.tr.recipient)
         /\ pc = "give" => PcRoom(u)
  <2>1. CASE AcceptRoom(h)
    BY <1>2, <1>3, <1>5, <2>1 DEF AcceptRoom, PcRoom
  <2>2. CASE AcceptInitiatorRoom(h)
    BY <1>2, <1>3, <1>5, <2>2 DEF AcceptInitiatorRoom, At, PcRoom
  <2> QED BY <2>1, <2>2
<1>7. /\ UNCHANGED <<pokemon, drawn, trades>> /\ tx'[h].req = t.req /\ tx'[h].pc = pc
      /\ tx'[h].pk = Loaded(h, o) /\ tx'[h].tr = t.tr /\ Untouched(tx'[h])
  BY <1>1, <1>3, <1>5, <1>6, GotoUntouched
<1>8. AcceptPlan(tx'[h])
  BY <1>2, <1>3, <1>5, <1>6, <1>7 DEF AcceptPlan
<1> QED BY <1>1, <1>7, <1>8 DEF Plan

(* The first transfer of an acceptance is that of PokemonTrading...         *)
LEMMA AcceptGiveOnPlan ==
  ASSUME TxTypeOK, Programs, NEW h \in Threads, Plan(tx[h]), AcceptGive(h), ~ Rollback(h)
  PROVE  UNCHANGED <<pokemon, drawn, trades>> /\ Plan(tx'[h])
<1> DEFINE t == tx[h]
           u == t.req.trade
           x == t.tr.offered
           r == t.tr.recipient
           row == HandedRow(h, r)
           pk == HandedContext(h, x, r)
           w == Write("update", x, row)
           half == OfferedHandedOver(u)
<1>1. t.req.kind = "accept" /\ t.todo = <<>> /\ t.pc = "give" /\ HandOver(h, x, r, "take", <<>>)
  BY DEF AcceptGive, At
<1>2. /\ AcceptPlan(t) /\ pokemon \in Tables /\ t.tr = trades[u] /\ x \in PokemonIds /\ r \in Players
  BY <1>1, AcceptOnPlan
<1>3. /\ Pending(u) /\ trades[u].recipient = t.req.caller /\ Untouched(t)
      /\ t.pk[x] = pokemon[x] /\ StillOwned(u) /\ PcRoom(u)
  BY <1>1, <1>2 DEF AcceptPlan
<1>4. \A p \in PokemonIds : View(h, p) = pokemon[p]
  BY <1>1, <1>3, UntouchedViews DEF Untouched
<1>5. /\ FreePcSlots(Found(h, r), r) = FreePcSlots(pokemon, r)
      /\ FindFreePcSlot(Found(h, r), r) = FindFreePcSlot(pokemon, r)
      /\ \A p \in PokemonIds : Loaded(h, r)[p] \in {Unset, pokemon[p]}
  <2>1. Holds(tx[h], pokemon)
    BY <1>3 DEF Untouched
  <2> HIDE DEF t, u, x, r, row, pk, w, half
  <2> QED BY <1>2, <1>4, <2>1, FoundTheRows
<1>6. /\ FreePcSlots(pokemon, r) # {} /\ row \in Row
      /\ Goto(h, "take", pk, <<w>> \o <<>>)
  BY <1>1, <1>2, <1>5, HandOverGoes
<1>7. w.key = x /\ w.row = row /\ w \in Writes /\ x \notin TradeIds
  BY <1>2, <1>6, PokemonWrite, TransactionsAssumption DEF Write
<1>8. \A p \in PokemonIds : half[p] = IF p = x THEN row ELSE pokemon[p]
  BY <1>2, <1>5 DEF OfferedHandedOver, Transfer, HandedRow, Tables
<1>9. \A p \in PokemonIds : pk[p] \in {Unset, half[p]}
  <2>1. \A p \in PokemonIds : pk[p] = IF p = x THEN row ELSE Loaded(h, r)[p]
    BY DEF HandedContext, Loaded
  <2> HIDE DEF pk, half, row
  <2> QED BY <1>5, <1>8, <2>1
<1> HIDE DEF pk, row, w, half
<1>10. Goto(h, "take", pk, <<w>>)
  BY <1>6, <1>7, OneWrite
<1>11. /\ \A p \in PokemonIds : half[p] = IF p = w.key THEN w.row ELSE pokemon[p]
       /\ \A k \in TradeIds : trades[k] = IF k = w.key THEN w.row ELSE trades[k]
  BY <1>7, <1>8
<1>12. /\ UNCHANGED <<pokemon, drawn, trades>> /\ tx'[h].req = t.req /\ tx'[h].pc = "take"
       /\ tx'[h].pk = pk /\ tx'[h].tr = t.tr /\ Leads(tx'[h], half, trades)
  BY <1>1, <1>3, <1>10, <1>11, GotoWriting DEF Untouched
<1>13. Holds(tx'[h], half)
  BY <1>9, <1>12 DEF Holds
<1>14. AcceptPlan(tx'[h])
  BY <1>2, <1>3, <1>6, <1>12, <1>13 DEF AcceptPlan, half
<1> QED BY <1>1, <1>12, <1>14 DEF Plan

(* ... and the second one, from the table the first one made.               *)
LEMMA AcceptTakeOnPlan ==
  ASSUME TxTypeOK, Programs, NEW h \in Threads, Plan(tx[h]), AcceptTake(h), ~ Rollback(h)
  PROVE  UNCHANGED <<pokemon, drawn, trades>> /\ Plan(tx'[h])
<1> DEFINE t == tx[h]
           u == t.req.trade
           y == t.tr.requested
           i == t.tr.initiator
           row == HandedRow(h, i)
           pk == HandedContext(h, y, i)
           w == Write("update", y, row)
           v == ResolveWrite(h, "COMPLETED")
           half == OfferedHandedOver(u)
           db == BothHandedOver(u)
           tb == Resolved(u, "COMPLETED")
<1>1. /\ t.req.kind = "accept" /\ t.todo = <<>> /\ t.pc = "take"
      /\ HandOver(h, y, i, "commit", <<v>>)
  BY DEF AcceptTake, At
<1>2. /\ AcceptPlan(t) /\ pokemon \in Tables /\ t.tr = trades[u] /\ u \in TradeIds
      /\ y \in PokemonIds /\ i \in Players
  BY <1>1, AcceptOnPlan
<1>3. /\ Pending(u) /\ trades[u].recipient = t.req.caller /\ StillOwned(u) /\ PcRoom(u)
      /\ FreePcSlots(pokemon, t.tr.recipient) # {}
      /\ Leads(t, half, trades) /\ Holds(t, half)
  BY <1>1, <1>2 DEF AcceptPlan
<1>4. half \in Tables
  <2>1. /\ FindFreePcSlot(pokemon, t.tr.recipient) \in PcSlots /\ t.tr.recipient \in Players
    BY <1>1, <1>3, FirstFreeSlotIsFree, AcceptOnPlan DEF FreePcSlots
  <2> QED BY <1>2, <2>1 DEF OfferedHandedOver, Transfer, Tables, Row
<1>5. \A p \in PokemonIds : View(h, p) = half[p]
  BY <1>1, <1>3, UntouchedViews
<1> HIDE DEF half
<1>6. /\ FreePcSlots(Found(h, i), i) = FreePcSlots(half, i)
      /\ FindFreePcSlot(Found(h, i), i) = FindFreePcSlot(half, i)
  BY <1>2, <1>3, <1>4, <1>5, FoundTheRows
<1>7. /\ FreePcSlots(half, i) # {} /\ row \in Row
      /\ Goto(h, "commit", pk, <<w>> \o <<v>>)
  BY <1>1, <1>2, <1>6, HandOverGoes
<1>8. TransfersFit(u)
  BY <1>2, <1>3, <1>7 DEF TransfersFit, half
<1>9. w.key = y /\ w.row = row /\ w \in Writes /\ y \notin TradeIds /\ u \notin PokemonIds
  BY <1>2, <1>7, PokemonWrite, TransactionsAssumption DEF Write
<1>10. v \in Writes /\ v.key = u /\ v.row = [trades[u] EXCEPT !.status = "COMPLETED"]
  <2>1. "COMPLETED" \in Statuses
    BY DEF Statuses
  <2>2. v \in Writes /\ v.key = u /\ v.row = [t.tr EXCEPT !.status = "COMPLETED"]
    BY <1>1, <2>1, ResolveWriteType
  <2> QED BY <1>2, <2>2
<1>11. \A p \in PokemonIds : db[p] = IF p = y THEN row ELSE half[p]
  BY <1>2, <1>4, <1>6 DEF BothHandedOver, Transfer, HandedRow, Tables, half
<1>12. \A k \in TradeIds : tb[k] = IF k = u THEN v.row ELSE trades[k]
  BY <1>10 DEF Resolved, TxTypeOK, TypeOK
<1> HIDE DEF pk, row, w, v, db, tb
<1> DEFINE todo == <<w, v>>
<1>13. Goto(h, "commit", pk, todo)
  BY <1>7, <1>9, <1>10, TwoWrites
<1>14. Len(todo) = 2 /\ todo[1] = w /\ todo[2] = v
  OBVIOUS
<1> HIDE DEF todo
<1>15. /\ UNCHANGED <<pokemon, drawn, trades>> /\ tx'[h].req = t.req /\ tx'[h].pc = "commit"
       /\ tx'[h].tr = t.tr /\ tx'[h].todo = todo /\ tx'[h].wrote = t.wrote
  BY <1>13, GotoFields
<1>16. Leads(tx'[h], db, tb)
  <2>1. y # u
    BY <1>2, <1>9
  <2> HIDE DEF y, u, t
  <2>2. Last(todo, y, row) /\ Last(todo, u, v.row) /\ \A k : k # y /\ k # u => Absent(todo, k)
    BY <1>9, <1>10, <1>14, <2>1 DEF Last, Absent
  <2>3. \A p \in PokemonIds : Last(todo, p, db[p]) \/ (Absent(todo, p) /\ db[p] = half[p])
    BY <1>9, <1>11, <2>2
  <2>4. \A k \in TradeIds : Last(todo, k, tb[k]) \/ (Absent(todo, k) /\ tb[k] = trades[k])
    BY <1>9, <1>12, <2>2
  <2> QED BY <1>1, <1>3, <1>15, <2>3, <2>4, LeadsOn
<1>17. AcceptPlan(tx'[h])
  BY <1>2, <1>3, <1>8, <1>15, <1>16 DEF AcceptPlan, db, tb
<1> QED BY <1>1, <1>15, <1>17 DEF Plan

-------------------------------------------------------------------------------
(* Every step of the one thread keeps to the plan. *)

LEMMA FlushOnPlan ==
  ASSUME TxTypeOK, NEW h \in Threads, Plan(tx[h]), Flushes(h)
  PROVE  UNCHANGED <<pokemon, drawn, trades>> /\ Plan(tx'[h])
<1> DEFINE t == tx[h]
           u == tx'[h]
<1>1. /\ UNCHANGED <<pokemon, drawn, trades>>
      /\ u.req = t.req /\ u.pc = t.pc /\ u.pk = t.pk /\ u.tr = t.tr
  BY FlushedRecord
<1>2. ASSUME NEW db, NEW tb, Leads(t, db, tb) PROVE Leads(u, db, tb)
  BY <1>2, FlushLeads
<1> HIDE DEF t, u
<1>3. Untouched(t) => Untouched(u)
  BY <1>1, <1>2 DEF Untouched, Holds
<1>4. CreatePlan(t) => CreatePlan(u)
  BY <1>1, <1>2 DEF CreatePlan
<1>5. ClonePlan(t) => ClonePlan(u)
  BY <1>1, <1>2, <1>3 DEF ClonePlan
<1>6. UpdatePlan(t) => UpdatePlan(u)
  BY <1>1, <1>2, <1>3 DEF UpdatePlan
<1>7. DeletePlan(t) => DeletePlan(u)
  BY <1>1, <1>2, <1>3 DEF DeletePlan
<1>8. ProposePlan(t) => ProposePlan(u)
  BY <1>1, <1>2, <1>3 DEF ProposePlan
<1>9. LivePlan(t) => LivePlan(u)
  BY <1>1, <1>2, <1>3 DEF LivePlan
<1>10. CancelPlan(t) => CancelPlan(u)
  BY <1>1, <1>2 DEF CancelPlan
<1>11. AcceptPlan(t) => AcceptPlan(u)
  BY <1>1, <1>2, <1>3 DEF AcceptPlan, Holds
<1>12. Plan(t)
  BY DEF t
<1>13. Plan(u)
  BY <1>1, <1>2, <1>4, <1>5, <1>6, <1>7, <1>8, <1>9, <1>10, <1>11, <1>12 DEF Plan
<1> QED BY <1>1, <1>13 DEF u

LEMMA ServedFields ==
  /\ Served.req.kind = "none" /\ Served.todo = <<>> /\ Served.pc \in {"idle", "done"}
  /\ \A k \in Keys : Served.wrote[k] = Unset
  /\ \A k : Absent(Served.todo, k)
<1>1. Served.req = NoRequest /\ Served.todo = <<>> /\ Served.pc \in {"idle", "done"}
  BY DEF Served, Idle
<1>2. \A k \in Keys : Served.wrote[k] = Unset
  BY ServedIsATransaction
<1>3. Len(Served.todo) = 0
  BY <1>1
<1> QED BY <1>1, <1>2, <1>3 DEF Absent, NoRequest

LEMMA ServedOnPlan ==
  ASSUME NEW h \in Threads, tx'[h] = Served
  PROVE  Plan(tx[h])'
<1>1. /\ tx'[h].req.kind = "none" /\ tx'[h].pc \in {"idle", "done"}
      /\ \A k \in Keys : tx'[h].wrote[k] = Unset
      /\ \A k : Absent(tx'[h].todo, k)
  BY ServedFields
<1>2. Leads(tx[h], pokemon, trades)'
  BY <1>1 DEF Leads, Comes, Seen, Keys
<1> QED BY <1>1, <1>2 DEF Plan

LEMMA ArriveOnPlan ==
  ASSUME TxTypeOK, Programs, NEW h \in Threads, Plan(tx[h]), Arrive(h)
  PROVE  UNCHANGED <<pokemon, drawn, trades>> /\ Plan(tx'[h])
<1>1. ASSUME NEW o \in Players, NEW p \in PokemonIds,
             \/ \E loc \in Locations : StartCreate(h, o, p, loc)
             \/ \E loc \in Destinations \cup {Nowhere}, payload \in BOOLEAN :
                   StartUpdate(h, o, p, loc, payload)
             \/ \E c \in PokemonIds : StartClone(h, o, p, c)
             \/ StartDelete(h, o, p)
      PROVE  UNCHANGED <<pokemon, drawn, trades>> /\ Plan(tx'[h])
  BY <1>1, CreateOnPlan, UpdateOnPlan, ReaderOnPlan
<1>2. ASSUME NEW i \in Players, NEW r \in Players, NEW x \in PokemonIds, NEW y \in PokemonIds,
             NEW t \in TradeIds, StartPropose(h, i, r, x, y, t) \/ StartLive(h, i, r, x, y, t)
      PROVE  UNCHANGED <<pokemon, drawn, trades>> /\ Plan(tx'[h])
  BY <1>2, TraderOnPlan
<1>3. ASSUME NEW c \in Players, NEW t \in TradeIds, StartAccept(h, c, t) \/ StartCancel(h, c, t)
      PROVE  UNCHANGED <<pokemon, drawn, trades>> /\ Plan(tx'[h])
  BY <1>3, AnswerOnPlan
<1> QED BY <1>1, <1>2, <1>3 DEF Arrive

LEMMA StatementOnPlan ==
  ASSUME TxTypeOK, Programs, SlotsUnique, NEW h \in Threads, Plan(tx[h]), Statement(h),
         ~ Rollback(h)
  PROVE  UNCHANGED <<pokemon, drawn, trades>> /\ Plan(tx'[h])
BY CloneSlotOnPlan, UpdatePlaceOnPlan, DeleteEngagedOnPlan, ProposeRequestedOnPlan,
   AcceptReadsOnPlan, AcceptRoomsOnPlan, AcceptGiveOnPlan, AcceptTakeOnPlan, LiveRequestedOnPlan
   DEF Statement

LEMMA StepOnPlan ==
  ASSUME TxInv, NEW h \in Threads, Plan(tx[h]), Arrive(h) \/ Progress(h) \/ Victim(h)
  PROVE  Plan(tx[h])' /\ (Commit(h) \/ UNCHANGED <<pokemon, drawn, trades>>)
<1>1. TxTypeOK /\ Programs /\ SlotsUnique
  BY DEF TxInv, Isolation
<1>2. CASE Rollback(h)
  BY <1>1, <1>2, ServedOnPlan DEF Rollback, TxTypeOK
<1>3. CASE Commit(h)
  BY <1>3, CommitTables, ServedOnPlan
<1>4. CASE ~ Rollback(h) /\ ~ Commit(h)
  <2>1. Arrive(h) \/ Statement(h) \/ Flushes(h)
    BY <1>4 DEF Progress, Flush, Flushes, Victim
  <2>2. UNCHANGED <<pokemon, drawn, trades>> /\ Plan(tx'[h])
    BY <1>1, <1>4, <2>1, ArriveOnPlan, StatementOnPlan, FlushOnPlan
  <2> QED BY <2>2, PlanHolds
<1> QED BY <1>2, <1>3, <1>4

-------------------------------------------------------------------------------
(* A commit on plan is an action of PokemonTrading. *)

LEMMA CommitLeads ==
  ASSUME TxInv, NEW h \in Threads, Commit(h), NEW db, NEW tb, Leads(tx[h], db, tb),
         db = [p \in PokemonIds |-> db[p]], tb = [u \in TradeIds |-> tb[u]]
  PROVE  /\ pokemon' = db /\ trades' = tb
         /\ drawn' = drawn \cup {p \in PokemonIds : Exists(db, p)}
<1>1. tx[h].todo = <<>>
  BY DEF Commit
<1>2. /\ \A p \in PokemonIds : View(h, p) = db[p]
      /\ \A u \in TradeIds : Seen(tx[h], u, trades[u]) = tb[u]
  BY <1>1, LeadsSeen, SeenIsView
<1>3. pokemon' = [p \in PokemonIds |-> db[p]]
  BY <1>2 DEF Commit
<1>4. trades' = [u \in TradeIds |-> tb[u]]
  <2>1. trades' = [u \in TradeIds |-> Seen(tx[h], u, trades[u])]
    BY DEF Commit, Seen
  <2> QED BY <1>2, <2>1
<1> QED BY <1>3, <1>4 DEF Commit, Exists

LEMMA CommitMoves ==
  ASSUME TxInv, NEW h \in Threads, Commit(h), NEW db, NEW tb, Leads(tx[h], db, tb),
         db = [p \in PokemonIds |-> db[p]], tb = [u \in TradeIds |-> tb[u]],
         \A p \in PokemonIds : Exists(db, p) => Exists(pokemon, p)
  PROVE  pokemon' = db /\ trades' = tb /\ drawn' = drawn
<1>1. /\ pokemon' = db /\ trades' = tb
      /\ drawn' = drawn \cup {p \in PokemonIds : Exists(db, p)}
  BY CommitLeads
<1>2. \A p \in PokemonIds : Exists(db, p) => p \in drawn
  BY DEF TxInv, Uuids, UuidsDrawn
<1> QED BY <1>1, <1>2

LEMMA CommitInserts ==
  ASSUME TxInv, NEW h \in Threads, Commit(h), Creates(tx[h]), NEW p \in PokemonIds,
         p = tx[h].req.new, NEW row \in Row, Leads(tx[h], [pokemon EXCEPT ![p] = row], trades)
  PROVE  Insert(p, row)
<1> DEFINE db == [pokemon EXCEPT ![p] = row]
<1>1. pokemon \in Tables /\ trades \in [TradeIds -> Trade \cup {NoTrade}]
  BY DEF TxInv, TxTypeOK, TypeOK
<1>2. /\ \A q \in PokemonIds : db[q] = IF q = p THEN row ELSE pokemon[q]
      /\ db = [q \in PokemonIds |-> db[q]] /\ trades = [u \in TradeIds |-> trades[u]]
  BY <1>1 DEF Tables
<1>3. /\ pokemon' = db /\ trades' = trades
      /\ drawn' = drawn \cup {q \in PokemonIds : Exists(db, q)}
  BY <1>2, CommitLeads
<1>4. p \notin drawn /\ \A q \in PokemonIds : Exists(pokemon, q) => q \in drawn
  BY DEF TxInv, Uuids, UuidsDrawn
<1> HIDE DEF db
<1>5. drawn' = drawn \cup {p}
  <2>1. Exists(db, p)
    BY <1>2, StorageAssumption DEF Exists, Row
  <2> QED BY <1>2, <1>3, <1>4, <2>1 DEF Exists
<1>6. NoTwoInASlot(db)
  BY <1>3, CommitIsolated DEF Isolation, SlotsUnique
<1>7. ASSUME NEW q \in PokemonIds PROVE ~ Collide(row, pokemon[q])
  <2>1. CASE q = p
    <3>1. pokemon[p].owner = NoPlayer
      BY <1>4 DEF Exists
    <3> QED BY <2>1, <3>1 DEF Collide
  <2>2. CASE q # p
    BY <1>2, <1>6, <2>2 DEF NoTwoInASlot
  <2> QED BY <2>1, <2>2
<1> QED BY <1>3, <1>4, <1>5, <1>7 DEF Insert, db

LEMMA CreateCommits ==
  ASSUME TxInv, NEW h \in Threads, Plan(tx[h]), Commit(h), tx[h].req.kind \in {"create", "clone"}
  PROVE  Next
<1> DEFINE q == tx[h].req
           o == q.caller
           p == q.new
<1>1. /\ o \in Players /\ p \in PokemonIds /\ tx[h].pc = "commit" /\ Creates(tx[h])
      /\ q.kind = "create" => q.loc \in Locations
      /\ q.kind = "clone" => q.target \in PokemonIds
  BY FieldTypes, RequestFields DEF Commit, Creates, TxInv
<1>2. FreePcSlots(pokemon, o) # {} => BoxedRow(o) \in Row
  BY <1>1, RowInAFreeSlot DEF BoxedRow
<1>3. CASE q.kind = "create"
  <2>1. /\ q.loc = Nowhere => FreePcSlots(pokemon, o) # {}
        /\ Leads(tx[h], [pokemon EXCEPT ![p] = CreatedRow(q)], trades)
    BY <1>3 DEF Plan, CreatePlan
  <2>2. CreatedRow(q) \in Row
    BY <1>1, <1>2, <1>3, <2>1 DEF CreatedRow, Row, Locations
  <2>3. Insert(p, CreatedRow(q))
    BY <1>1, <2>1, <2>2, CommitInserts
  <2>4. q.loc = Nowhere <=> q.loc.box = 0 /\ q.loc.team = 0
    BY <1>1, <1>3 DEF Nowhere, Locations
  <2>5. Create(o, p, q.loc)
    BY <2>1, <2>3, <2>4 DEF Create, CreatedRow, BoxedRow
  <2> QED BY <1>1, <1>3, <2>5 DEF Next
<1>4. CASE q.kind = "clone"
  <2>1. /\ pokemon[q.target].owner = o /\ FreePcSlots(pokemon, o) # {}
        /\ Leads(tx[h], [pokemon EXCEPT ![p] = BoxedRow(o)], trades)
    BY <1>1, <1>4 DEF Plan, ClonePlan
  <2>2. Insert(p, BoxedRow(o))
    BY <1>1, <1>2, <2>1, CommitInserts
  <2>3. Clone(o, q.target, p)
    BY <2>1, <2>2 DEF Clone, BoxedRow
  <2> QED BY <1>1, <1>4, <2>3 DEF Next
<1> QED BY <1>3, <1>4

(* The tables hold functions, and a row is read back where it was written.  *)
LEMMA TablesAreFunctions ==
  ASSUME TxTypeOK
  PROVE  /\ pokemon \in Tables /\ pokemon = [p \in PokemonIds |-> pokemon[p]]
         /\ trades \in [TradeIds -> Trade \cup {NoTrade}]
         /\ trades = [u \in TradeIds |-> trades[u]]
BY DEF TxTypeOK, TypeOK, Tables

LEMMA UpdateCommits ==
  ASSUME TxInv, NEW h \in Threads, Plan(tx[h]), Commit(h), tx[h].req.kind = "update"
  PROVE  Next \/ UNCHANGED vars
<1> DEFINE q == tx[h].req
           o == q.caller
           p == q.target
<1>1. o \in Players /\ p \in PokemonIds /\ tx[h].pc = "commit"
  BY FieldTypes, RequestFields DEF Commit, TxInv
<1>2. UpdatePlan(tx[h])
  BY DEF Plan
<1>3. TxTypeOK
  BY DEF TxInv
<1>4. CASE Leads(tx[h], pokemon, trades)
  <2>1. pokemon' = pokemon /\ trades' = trades /\ drawn' = drawn
    BY <1>3, <1>4, TablesAreFunctions, CommitMoves
  <2> QED BY <2>1 DEF vars
<1>5. CASE /\ q.loc \in Destinations
           /\ Leads(tx[h], MoveTo(pokemon, o, p, q.loc), trades)
  <2> DEFINE db == MoveTo(pokemon, o, p, q.loc)
  <2>1. db = [r \in PokemonIds |-> db[r]]
    BY DEF MoveTo
  <2>2. \A r \in PokemonIds : db[r].owner = pokemon[r].owner
    <3>1. \A r \in PokemonIds : pokemon[r] \in Row \cup {NoRow}
      BY <1>3, TablesAreFunctions DEF Tables
    <3>2. \A r \in PokemonIds : \A loc : PutAt(pokemon[r], loc).owner = pokemon[r].owner
      BY <3>1 DEF PutAt, Row, NoRow
    <3> QED BY <3>2 DEF MoveTo
  <2>3. trades = [u \in TradeIds |-> trades[u]]
    BY <1>3, TablesAreFunctions
  <2>4. Leads(tx[h], db, trades)
    BY <1>5
  <2> HIDE DEF db
  <2>5. pokemon' = db /\ trades' = trades /\ drawn' = drawn
    BY <2>1, <2>2, <2>3, <2>4, CommitMoves DEF Exists
  <2>6. Move(o, p, q.loc)
    BY <1>2, <2>5 DEF UpdatePlan, Move, db
  <2> QED BY <1>1, <1>5, <2>6 DEF Next
<1> QED BY <1>1, <1>2, <1>4, <1>5 DEF UpdatePlan

LEMMA DeleteCommits ==
  ASSUME TxInv, NEW h \in Threads, Plan(tx[h]), Commit(h), tx[h].req.kind = "delete"
  PROVE  Next
<1> DEFINE o == tx[h].req.caller
           p == tx[h].req.target
           db == [pokemon EXCEPT ![p] = NoRow]
<1>1. o \in Players /\ p \in PokemonIds /\ tx[h].pc = "commit"
  BY FieldTypes, RequestFields DEF Commit, TxInv
<1>2. pokemon[p].owner = o /\ ~ EngagedInPendingTrade(p) /\ Leads(tx[h], db, trades)
  BY <1>1 DEF Plan, DeletePlan
<1>3. /\ db = [r \in PokemonIds |-> db[r]] /\ trades = [u \in TradeIds |-> trades[u]]
      /\ \A r \in PokemonIds : Exists(db, r) => Exists(pokemon, r)
  BY TablesAreFunctions DEF TxInv, Tables, Exists, NoRow
<1> HIDE DEF db
<1>4. pokemon' = db /\ trades' = trades /\ drawn' = drawn
  BY <1>2, <1>3, CommitMoves
<1>5. Delete(o, p)
  BY <1>2, <1>4 DEF Delete, db
<1> QED BY <1>1, <1>5 DEF Next

(* A new row of `trades'. *)
LEMMA DealTable ==
  ASSUME TxTypeOK, NEW t \in TradeIds, NEW row
  PROVE  LET tb == [trades EXCEPT ![t] = row] IN tb = [u \in TradeIds |-> tb[u]]
BY TablesAreFunctions

LEMMA ProposeCommits ==
  ASSUME TxInv, NEW h \in Threads, Plan(tx[h]), Commit(h), tx[h].req.kind = "propose"
  PROVE  Next
<1> DEFINE q == tx[h].req
           tb == [trades EXCEPT ![q.trade] = DealOf(q, "PENDING")]
<1>1. /\ q.caller \in Players /\ q.recipient \in Players /\ q.offered \in PokemonIds
      /\ q.requested \in PokemonIds /\ q.trade \in TradeIds /\ tx[h].pc = "commit"
  BY FieldTypes, RequestFields DEF Commit, TxInv
<1>2. /\ q.caller # q.recipient /\ trades[q.trade] = NoTrade
      /\ pokemon[q.offered].owner = q.caller /\ pokemon[q.requested].owner = q.recipient
      /\ Leads(tx[h], pokemon, tb)
  BY <1>1 DEF Plan, ProposePlan
<1>3. tb = [u \in TradeIds |-> tb[u]] /\ pokemon = [r \in PokemonIds |-> pokemon[r]]
  BY <1>1, DealTable, TablesAreFunctions DEF TxInv
<1> HIDE DEF tb
<1>4. pokemon' = pokemon /\ trades' = tb /\ drawn' = drawn
  BY <1>2, <1>3, CommitMoves
<1>5. Propose(q.caller, q.recipient, q.offered, q.requested, q.trade)
  BY <1>2, <1>4 DEF Propose, NewTrade, DealOf, Deal, tb
<1> QED BY <1>1, <1>5 DEF Next

LEMMA LiveCommits ==
  ASSUME TxInv, NEW h \in Threads, Plan(tx[h]), Commit(h), tx[h].req.kind = "live"
  PROVE  Next
<1> DEFINE q == tx[h].req
           db == SwapTeamMembers(pokemon, q.offered, q.requested)
           tb == [trades EXCEPT ![q.trade] = DealOf(q, "COMPLETED")]
<1>1. /\ q.caller \in Players /\ q.recipient \in Players /\ q.offered \in PokemonIds
      /\ q.requested \in PokemonIds /\ q.trade \in TradeIds /\ tx[h].pc = "commit"
  BY FieldTypes, RequestFields DEF Commit, TxInv
<1>2. /\ q.caller # q.recipient /\ trades[q.trade] = NoTrade
      /\ pokemon[q.offered].owner = q.caller /\ pokemon[q.offered].team # 0
      /\ pokemon[q.requested].owner = q.recipient /\ pokemon[q.requested].team # 0
      /\ Leads(tx[h], db, tb)
  BY <1>1 DEF Plan, LivePlan
<1>3. tb = [u \in TradeIds |-> tb[u]] /\ db = [r \in PokemonIds |-> db[r]]
  BY <1>1, DealTable, TablesAreFunctions DEF TxInv, SwapTeamMembers
<1>4. \A r \in PokemonIds : Exists(db, r) => Exists(pokemon, r)
  <2>1. \A r \in PokemonIds : r # q.offered /\ r # q.requested => db[r] = pokemon[r]
    BY <1>1, TablesAreFunctions DEF TxInv, SwapTeamMembers, Tables
  <2>2. Exists(pokemon, q.offered) /\ Exists(pokemon, q.requested)
    BY <1>1, <1>2, StorageAssumption DEF Exists
  <2> QED BY <2>1, <2>2 DEF Exists
<1> HIDE DEF db, tb
<1>5. pokemon' = db /\ trades' = tb /\ drawn' = drawn
  BY <1>2, <1>3, <1>4, CommitMoves
<1>6. CompleteLiveTrade(q.caller, q.recipient, q.offered, q.requested, q.trade)
  BY <1>2, <1>5 DEF CompleteLiveTrade, NewTrade, DealOf, Deal, db, tb
<1> QED BY <1>1, <1>6 DEF Next

LEMMA AnswerTable ==
  ASSUME TxTypeOK, NEW t \in TradeIds, NEW status
  PROVE  Resolved(t, status) = [u \in TradeIds |-> Resolved(t, status)[u]]
BY TablesAreFunctions DEF Resolved

LEMMA CancelCommits ==
  ASSUME TxInv, NEW h \in Threads, Plan(tx[h]), Commit(h), tx[h].req.kind = "cancel"
  PROVE  Next
<1> DEFINE c == tx[h].req.caller
           t == tx[h].req.trade
           tb == Resolved(t, "CANCELLED")
<1>1. c \in Players /\ t \in TradeIds
  BY FieldTypes, RequestFields DEF TxInv
<1>2. /\ Pending(t) /\ c \in {trades[t].initiator, trades[t].recipient}
      /\ Leads(tx[h], pokemon, tb)
  BY DEF Plan, CancelPlan
<1>3. tb = [u \in TradeIds |-> tb[u]] /\ pokemon = [r \in PokemonIds |-> pokemon[r]]
  BY <1>1, AnswerTable, TablesAreFunctions DEF TxInv
<1> HIDE DEF tb
<1>4. pokemon' = pokemon /\ trades' = tb /\ drawn' = drawn
  BY <1>2, <1>3, CommitMoves
<1>5. Cancel(c, t)
  BY <1>2, <1>4 DEF Cancel, Resolve, Resolved, tb
<1> QED BY <1>1, <1>5 DEF Next

LEMMA AcceptCommits ==
  ASSUME TxInv, NEW h \in Threads, Plan(tx[h]), Commit(h), tx[h].req.kind = "accept"
  PROVE  Next
<1> DEFINE c == tx[h].req.caller
           t == tx[h].req.trade
           x == tx[h].tr.offered
           y == tx[h].tr.requested
<1>1. /\ c \in Players /\ t \in TradeIds /\ tx[h].pc = "commit" /\ TxTypeOK /\ Programs
  BY FieldTypes, RequestFields DEF Commit, TxInv
<1>2. /\ AcceptPlan(tx[h]) /\ pokemon \in Tables /\ tx[h].tr = trades[t]
      /\ tx[h].tr.initiator \in Players /\ tx[h].tr.recipient \in Players
      /\ x \in PokemonIds /\ y \in PokemonIds
  BY <1>1, AcceptOnPlan
<1>3. Pending(t) /\ trades[t].recipient = c
  BY <1>2 DEF AcceptPlan
<1>4. CASE /\ StillOwned(t) /\ PcRoom(t) /\ TransfersFit(t)
           /\ Leads(tx[h], BothHandedOver(t), Resolved(t, "COMPLETED"))
  <2> DEFINE db == BothHandedOver(t)
             tb == Resolved(t, "COMPLETED")
  <2>1. tb = [u \in TradeIds |-> tb[u]]
    BY <1>1, AnswerTable
  <2>2. /\ db = [r \in PokemonIds |-> db[r]]
        /\ \A r \in PokemonIds : r # x /\ r # y => db[r] = pokemon[r]
    BY <1>2 DEF BothHandedOver, OfferedHandedOver, Transfer, Tables
  <2>3. Exists(pokemon, x) /\ Exists(pokemon, y)
    BY <1>2, <1>4, StorageAssumption DEF StillOwned, Exists
  <2>4. Leads(tx[h], db, tb)
    BY <1>4
  <2> HIDE DEF db, tb
  <2>5. \A r \in PokemonIds : Exists(db, r) => Exists(pokemon, r)
    BY <2>2, <2>3 DEF Exists
  <2>6. pokemon' = db /\ trades' = tb /\ drawn' = drawn
    BY <2>1, <2>2, <2>4, <2>5, CommitMoves
  <2>7. Accept(c, t)
    BY <1>3, <1>4, <2>6 DEF Accept, BothHandedOver, Resolve, Resolved, db, tb
  <2> QED BY <1>1, <2>7 DEF Next
<1>5. CASE /\ ~ StillOwned(t) /\ Exists(pokemon, x) /\ Exists(pokemon, y)
           /\ Leads(tx[h], pokemon, Resolved(t, "CANCELLED"))
  <2> DEFINE tb == Resolved(t, "CANCELLED")
  <2>1. tb = [u \in TradeIds |-> tb[u]] /\ pokemon = [r \in PokemonIds |-> pokemon[r]]
    BY <1>1, AnswerTable, TablesAreFunctions
  <2>2. Leads(tx[h], pokemon, tb)
    BY <1>5
  <2> HIDE DEF tb
  <2>3. pokemon' = pokemon /\ trades' = tb /\ drawn' = drawn
    BY <2>1, <2>2, CommitMoves
  <2>4. AcceptDrifted(c, t)
    BY <1>2, <1>3, <1>5, <2>3 DEF AcceptDrifted, Resolve, Resolved, tb
  <2> QED BY <1>1, <2>4 DEF Next
<1> QED BY <1>1, <1>2, <1>4, <1>5 DEF AcceptPlan

LEMMA CommitRefines ==
  ASSUME TxInv, NEW h \in Threads, Plan(tx[h]), Commit(h)
  PROVE  Next \/ UNCHANGED vars
<1>1. tx[h].req \in Requests \cup {NoRequest} /\ tx[h].pc = "commit"
  BY FieldTypes DEF Commit, TxInv
<1>2. tx[h].req.kind # "none"
  BY <1>1 DEF Plan
<1>3. tx[h].req.kind \in {"create", "clone", "update", "delete", "propose", "live",
                          "cancel", "accept"}
  BY <1>1, <1>2 DEF Requests, NoRequest
<1> QED BY <1>3, CreateCommits, UpdateCommits, DeleteCommits, ProposeCommits, LiveCommits,
           CancelCommits, AcceptCommits

-------------------------------------------------------------------------------
(* The refinement. *)

LEMMA TxInitOnPlan == TxInit => OnPlan
<1> SUFFICES ASSUME TxInit, NEW h \in Threads PROVE Plan(tx[h])
  BY DEF OnPlan
<1>1. /\ tx[h].req = NoRequest /\ tx[h].pc = "idle" /\ tx[h].todo = <<>>
      /\ \A k \in Keys : tx[h].wrote[k] = Unset
  BY IdleIsATransaction DEF TxInit
<1>2. Len(tx[h].todo) = 0
  BY <1>1
<1>3. Leads(tx[h], pokemon, trades)
  BY <1>1, <1>2 DEF Leads, Comes, Absent, Seen, Keys
<1> QED BY <1>1, <1>3 DEF Plan, NoRequest

LEMMA TxInitImplementsInit ==
  ASSUME InitialTables = {[p \in PokemonIds |-> NoRow]},
         InitialTrades = {[t \in TradeIds |-> NoTrade]}
  PROVE  TxInit => Init
BY DEF TxInit, Init, Exists, NoRow

LEMMA TxStepImplementsNext ==
  ASSUME NEW h, Threads = {h}
  PROVE  TxInv /\ OnPlan /\ [TxNext]_txVars => OnPlan' /\ [Next]_vars
<1> SUFFICES ASSUME TxInv, OnPlan, [TxNext]_txVars PROVE OnPlan' /\ [Next]_vars
  OBVIOUS
<1>1. h \in Threads /\ Plan(tx[h])
  BY DEF OnPlan
<1>2. CASE TxNext
  <2>1. Arrive(h) \/ Progress(h) \/ Victim(h)
    BY <1>2 DEF TxNext
  <2>2. Plan(tx[h])' /\ (Commit(h) \/ UNCHANGED <<pokemon, drawn, trades>>)
    BY <1>1, <2>1, StepOnPlan
  <2>3. OnPlan'
    BY <2>2 DEF OnPlan
  <2>4. [Next]_vars
    BY <1>1, <2>2, CommitRefines DEF vars
  <2> QED BY <2>3, <2>4
<1>3. CASE UNCHANGED txVars
  <2>1. UNCHANGED <<pokemon, drawn, trades>> /\ tx' = tx
    BY <1>3 DEF txVars
  <2>2. Plan(tx[h])'
    BY <1>1, <2>1, PlanHolds
  <2> QED BY <2>1, <2>2 DEF OnPlan, vars
<1> QED BY <1>2, <1>3

(* With one request thread, the statements of every method of               *)
(* PokemonService and TradeService, their reads through Hibernate's context *)
(* and the writes of their flush included, add up to the atomic action of   *)
(* PokemonTrading or to nothing at all: no statement of theirs sees or      *)
(* leaves behind a half-done exchange.                                      *)
THEOREM OneThreadImplementsTrading ==
  ASSUME NEW h, Threads = {h},
         InitialTables = {[p \in PokemonIds |-> NoRow]},
         InitialTrades = {[t \in TradeIds |-> NoTrade]}
  PROVE  TxSpec => ImplementsTrading
<1>1. TxInit => Init /\ OnPlan
  BY TxInitOnPlan, TxInitImplementsInit
<1>2. TxInv /\ OnPlan /\ [TxNext]_txVars => OnPlan' /\ [Next]_vars
  BY TxStepImplementsNext
<1> QED BY <1>1, <1>2, TxInvariance, PTL DEF TxSpec, ImplementsTrading, Spec
===============================================================================
