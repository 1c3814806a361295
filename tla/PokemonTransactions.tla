------------------------- MODULE PokemonTransactions -------------------------
(***************************************************************************)
(* The transactions of PokemonService and TradeService as PostgreSQL runs  *)
(* them: at READ COMMITTED, one SQL statement at a time, several at once.  *)
(*                                                                         *)
(*  - A SELECT sees the committed rows and the transaction's own writes.   *)
(*  - Hibernate keeps every row it has read in the persistence context and *)
(*    never reads it again: findById answers from the context, and a query *)
(*    chooses its rows in the database but hands out the context's copies. *)
(*  - An UPDATE writes every column from that copy, on the row's uuid      *)
(*    alone: there is no @Version, no @DynamicUpdate and no FOR UPDATE.    *)
(*  - A written row stays locked, and its index keys stay taken, until the *)
(*    transaction ends; a conflicting statement waits.  PostgreSQL aborts  *)
(*    one member of a cycle of waiters.                                    *)
(*                                                                         *)
(* `pokemon', `drawn' and `trades' are the committed tables of             *)
(* PokemonTrading, whose properties are asked again here.                  *)
(***************************************************************************)
EXTENDS PokemonTrading, Sequences

CONSTANTS
    Threads,         \* request threads: Tomcat's workers
    Kinds,           \* the requests clients send in a run
    InitialTables,   \* tables the server may find when the run starts
    InitialTrades,
    KeepAlive,       \* whether a thread serves one request after another, or
                     \* one and no more: the bound of the runs with two threads
    Unset            \* a row not in the context, a row not written

(* The two tables have keys of their own; the unique indexes hold in the    *)
(* tables the server finds.                                                 *)
ASSUME TransactionsAssumption ==
    /\ PokemonIds \cap TradeIds = {}
    /\ Unset \notin Row \cup {NoRow} \cup Trade
    /\ \A db \in InitialTables : db \in Tables /\ NoTwoInASlot(db)
    /\ InitialTrades \subseteq [TradeIds -> Trade \cup {NoTrade}]

VARIABLE tx          \* the running transaction of each thread

txVars == <<pokemon, drawn, trades, tx>>

Nowhere == [box |-> 0, team |-> 0]
NoRequest == [kind |-> "none"]

Requests ==
    [kind : {"create"}, caller : Players, new : PokemonIds, loc : Locations]
    \cup [kind : {"clone"}, caller : Players, target : PokemonIds, new : PokemonIds]
    \cup [kind : {"update"}, caller : Players, target : PokemonIds,
          loc : Destinations \cup {Nowhere}, payload : BOOLEAN]
    \cup [kind : {"delete"}, caller : Players, target : PokemonIds]
    \cup [kind : {"propose", "live"}, caller : Players, recipient : Players,
          offered : PokemonIds, requested : PokemonIds, trade : TradeIds]
    \cup [kind : {"accept", "cancel"}, caller : Players, trade : TradeIds]

Keys == PokemonIds \cup TradeIds

Writes ==
    [op : {"insert", "update"}, key : PokemonIds, row : Row \cup {NoRow}]
    \cup [op : {"insert", "update"}, key : TradeIds, row : Trade]

Steps == {"idle", "offered", "requested", "room", "initiatorRoom", "give", "take",
          "engaged", "place", "slot", "commit", "done"}

(* req: the request; pc: the next statement; pk: the Pokemon in the         *)
(* persistence context; tr: the trade in it; todo: the writes Hibernate is  *)
(* flushing; wrote: the rows written and not yet committed.                 *)
Idle == [req |-> NoRequest, pc |-> "idle", pk |-> [p \in PokemonIds |-> Unset],
         tr |-> NoTrade, todo |-> <<>>, wrote |-> [k \in Keys |-> Unset]]

Served == [Idle EXCEPT !.pc = IF KeepAlive THEN "idle" ELSE "done"]

Transaction ==
    [req : Requests \cup {NoRequest}, pc : Steps, pk : [PokemonIds -> Row \cup {NoRow, Unset}],
     tr : Trade \cup {NoTrade}, todo : Seq(Writes), wrote : [Keys -> Row \cup Trade \cup {NoRow, Unset}]]

TxTypeOK ==
    /\ TypeOK
    /\ tx \in [Threads -> Transaction]
    /\ \A h \in Threads :
          /\ \A p \in PokemonIds : tx[h].wrote[p] \in Row \cup {NoRow, Unset}
          /\ \A t \in TradeIds : tx[h].wrote[t] \in Trade \cup {Unset}

TxInit ==
    /\ pokemon \in InitialTables
    /\ trades \in InitialTrades
    /\ drawn = {p \in PokemonIds : Exists(pokemon, p)}
    /\ tx = [h \in Threads |-> Idle]

-------------------------------------------------------------------------------
(* Statements *)

(* What a SELECT of h finds in row p.                                       *)
View(h, p) == IF tx[h].wrote[p] = Unset THEN pokemon[p] ELSE tx[h].wrote[p]

(* What Hibernate hands to the code for row p.                              *)
Entity(h, p) == IF tx[h].pk[p] = Unset THEN View(h, p) ELSE tx[h].pk[p]

(* The entities of findByOwnerUuid(o): chosen by the database, read from    *)
(* the context.  The owner shown is the one the query matched.              *)
Found(h, o) ==
    [p \in PokemonIds |->
        IF View(h, p).owner = o THEN [Entity(h, p) EXCEPT !.owner = o] ELSE NoRow]

(* The context after that query.                                            *)
Loaded(h, o) ==
    [p \in PokemonIds |-> IF View(h, p).owner = o THEN Entity(h, p) ELSE tx[h].pk[p]]

Write(op, key, row) == [op |-> op, key |-> key, row |-> row]

(* The other transactions the next write of h waits for: they wrote the row *)
(* it writes, or hold or give up a key it claims.                           *)
Blockers(h) ==
    IF tx[h].todo = <<>> THEN {}
    ELSE LET w == Head(tx[h].todo) IN
         {g \in Threads \ {h} :
            \/ tx[g].wrote[w.key] # Unset
            \/ /\ w.key \in PokemonIds
               /\ \E q \in PokemonIds \ {w.key} :
                     /\ tx[g].wrote[q] # Unset
                     /\ Collide(w.row, pokemon[q]) \/ Collide(w.row, tx[g].wrote[q])}

(* Mutant: an UPDATE that finds no row inserts it. *)
RejectedByIndex(h, w) ==
    /\ w.key \in PokemonIds
    /\ \E q \in PokemonIds \ {w.key} : Collide(w.row, View(h, q))

(* Mutant: no unique index on the slots. *)
RejectedMissingOnly(h, w) ==
    w.key \in PokemonIds /\ w.op = "update" /\ ~ Exists([p \in PokemonIds |-> View(h, p)], w.key)

(* A unique index is violated, or the row to UPDATE or DELETE is no longer  *)
(* there (Hibernate's stale-state check).                                   *)
Rejected(h, w) ==
    /\ w.key \in PokemonIds
    /\ \/ w.op = "update" /\ ~ Exists([p \in PokemonIds |-> View(h, p)], w.key)
       \/ \E q \in PokemonIds \ {w.key} : Collide(w.row, View(h, q))

Rollback(h) ==
    /\ tx' = [tx EXCEPT ![h] = Served]
    /\ UNCHANGED <<pokemon, drawn, trades>>

(* One SQL write of the flush in progress. *)
Flush(h) ==
    /\ tx[h].todo # <<>>
    /\ Blockers(h) = {}
    /\ LET w == Head(tx[h].todo) IN
         IF Rejected(h, w) THEN Rollback(h)
         ELSE /\ tx' = [tx EXCEPT ![h].wrote[w.key] = w.row, ![h].todo = Tail(@)]
              /\ UNCHANGED <<pokemon, drawn, trades>>

Commit(h) ==
    /\ tx[h].pc = "commit"
    /\ tx[h].todo = <<>>
    /\ pokemon' = [p \in PokemonIds |-> View(h, p)]
    /\ trades' = [t \in TradeIds |-> IF tx[h].wrote[t] = Unset THEN trades[t] ELSE tx[h].wrote[t]]
    /\ drawn' = drawn \cup {p \in PokemonIds : Exists(pokemon', p)}
    /\ tx' = [tx EXCEPT ![h] = Served]

(* Mutant: nobody breaks a cycle of waiters. *)
NoVictim(h) == FALSE

(* deadlock_timeout: PostgreSQL aborts a transaction of a waiting cycle.    *)
Victim(h) ==
    /\ \E D \in SUBSET Threads :
          /\ h \in D
          /\ \A g \in D : Blockers(g) \cap D # {} /\ \E f \in D : g \in Blockers(f)
    /\ Rollback(h)

-------------------------------------------------------------------------------
(* The programs.  A request that its first statement refuses has no step.   *)

Only(p, row) == [q \in PokemonIds |-> IF q = p THEN row ELSE Unset]
Nothing == Idle.pk

Begin(h, req, pc, pk, tr, todo) ==
    /\ tx[h].pc = "idle"
    /\ req.kind \in Kinds
    /\ tx' = [tx EXCEPT ![h] = [Idle EXCEPT !.req = req, !.pc = pc, !.pk = pk,
                                            !.tr = tr, !.todo = todo]]
    /\ UNCHANGED <<pokemon, drawn, trades>>

At(h, kind, pc) == tx[h].req.kind = kind /\ tx[h].pc = pc /\ tx[h].todo = <<>>

Goto(h, pc, pk, todo) ==
    /\ tx' = [tx EXCEPT ![h].pc = pc, ![h].pk = pk, ![h].todo = todo]
    /\ UNCHANGED <<pokemon, drawn, trades>>

(* findById(p) inside a transaction: the context after it. *)
Load(h, p) == [tx[h].pk EXCEPT ![p] = Entity(h, p)]

(* UUID.randomUUID() *)
FreshPokemon(p) ==
    /\ p \notin drawn
    /\ \A h \in Threads : tx[h].req.kind \in {"create", "clone"} => tx[h].req.new # p

FreshTrade(t) ==
    /\ trades[t] = NoTrade
    /\ \A h \in Threads : tx[h].req.kind \in {"propose", "live"} => tx[h].req.trade # t

-------------------------------------------------------------------------------
(* POST /pokemon: the slot query, when no place is named, then the INSERT.  *)
StartCreate(h, o, p, loc) ==
    LET req == [kind |-> "create", caller |-> o, new |-> p, loc |-> loc]
        Put(box, team) == <<Write("insert", p, [owner |-> o, box |-> box, team |-> team])>>
    IN  /\ FreshPokemon(p)
        /\ IF loc = Nowhere
           THEN /\ FreePcSlots(pokemon, o) # {}
                /\ Begin(h, req, "commit", Nothing, NoTrade, Put(FindFreePcSlot(pokemon, o), 0))
           ELSE Begin(h, req, "commit", Nothing, NoTrade, Put(loc.box, loc.team))

StartClone(h, o, p, c) ==
    /\ FreshPokemon(c)
    /\ pokemon[p].owner = o
    /\ Begin(h, [kind |-> "clone", caller |-> o, target |-> p, new |-> c],
             "slot", Only(p, pokemon[p]), NoTrade, <<>>)

CloneSlot(h) ==
    LET o == tx[h].req.caller IN
    /\ At(h, "clone", "slot")
    /\ IF FreePcSlots(Found(h, o), o) = {} THEN Rollback(h)
       ELSE Goto(h, "commit", Loaded(h, o),
                 <<Write("insert", tx[h].req.new,
                    [owner |-> o, box |-> FindFreePcSlot(Found(h, o), o), team |-> 0])>>)

(* PATCH /pokemon/{uuid}: findOwned, the payload flushed ahead of the       *)
(* occupant query, the move or the exchange of locations.                   *)
StartUpdate(h, o, p, loc, payload) ==
    /\ pokemon[p].owner = o
    /\ payload \/ loc # Nowhere
    /\ Begin(h, [kind |-> "update", caller |-> o, target |-> p, loc |-> loc, payload |-> payload],
             IF loc = Nowhere THEN "commit" ELSE "place", Only(p, pokemon[p]), NoTrade,
             IF payload THEN <<Write("update", p, pokemon[p])>> ELSE <<>>)

UpdatePlace(h) ==
    LET p == tx[h].req.target
        old == tx[h].pk[p]
        new == PutAt(old, tx[h].req.loc)
        table == [q \in PokemonIds |-> View(h, q)]
        others == Occupants(table, tx[h].req.caller, p, tx[h].req.loc)
    IN  /\ At(h, "update", "place")
        /\ IF others = {}
           THEN Goto(h, "commit", tx[h].pk, IF new = old THEN <<>> ELSE <<Write("update", p, new)>>)
           ELSE \E q \in others :
                   Goto(h, "commit", Load(h, q),
                        <<Write("update", p, PutAt(old, Nowhere)),
                          Write("update", q, PutAt(table[q], [box |-> old.box, team |-> old.team])),
                          Write("update", p, new)>>)

(* DELETE /pokemon/{uuid}: findOwned, isEngagedInPendingTrade, the DELETE.  *)
StartDelete(h, o, p) ==
    /\ pokemon[p].owner = o
    /\ Begin(h, [kind |-> "delete", caller |-> o, target |-> p],
             "engaged", Only(p, pokemon[p]), NoTrade, <<>>)

DeleteEngaged(h) ==
    LET p == tx[h].req.target IN
    /\ At(h, "delete", "engaged")
    /\ IF EngagedInPendingTrade(p) THEN Rollback(h)
       ELSE Goto(h, "commit", tx[h].pk, <<Write("update", p, NoRow)>>)

-------------------------------------------------------------------------------
(* POST /trades: both Pokemon are read one after the other.                 *)
Deal(i, r, x, y, status) ==
    [initiator |-> i, recipient |-> r, offered |-> x, requested |-> y, status |-> status]

StartPropose(h, i, r, x, y, t) ==
    /\ i # r
    /\ FreshTrade(t)
    /\ pokemon[x].owner = i
    /\ Begin(h, [kind |-> "propose", caller |-> i, recipient |-> r, offered |-> x,
                 requested |-> y, trade |-> t], "requested", Only(x, pokemon[x]), NoTrade, <<>>)

ProposeRequested(h) ==
    LET q == tx[h].req IN
    /\ At(h, "propose", "requested")
    /\ IF Entity(h, q.requested).owner # q.recipient THEN Rollback(h)
       ELSE Goto(h, "commit", Load(h, q.requested),
                 <<Write("insert", q.trade,
                    Deal(q.caller, q.recipient, q.offered, q.requested, "PENDING"))>>)

(* POST /trades/{uuid}/accept *)
StartAccept(h, c, t) ==
    /\ Pending(t)
    /\ trades[t].recipient = c
    /\ Begin(h, [kind |-> "accept", caller |-> c, trade |-> t],
             "offered", Nothing, trades[t], <<>>)

AcceptOffered(h) ==
    LET x == tx[h].tr.offered IN
    /\ At(h, "accept", "offered")
    /\ IF Entity(h, x) = NoRow THEN Rollback(h) ELSE Goto(h, "requested", Load(h, x), <<>>)

ResolveWrite(h, status) ==
    Write("update", tx[h].req.trade, [tx[h].tr EXCEPT !.status = status])

(* Mutant: the drift of the requested Pokemon is not looked at. *)
AcceptRequestedUnchecked(h) ==
    LET tr == tx[h].tr
        y == tr.requested
    IN  /\ At(h, "accept", "requested")
        /\ IF tx[h].pk[tr.offered].owner # tr.initiator
           THEN Goto(h, "commit", Load(h, y), <<ResolveWrite(h, "CANCELLED")>>)
           ELSE Goto(h, "room", Load(h, y), <<>>)

AcceptRequested(h) ==
    LET tr == tx[h].tr
        y == tr.requested
    IN  /\ At(h, "accept", "requested")
        /\ IF Entity(h, y) = NoRow THEN Rollback(h)
           ELSE IF tx[h].pk[tr.offered].owner # tr.initiator \/ Entity(h, y).owner # tr.recipient
           THEN Goto(h, "commit", Load(h, y), <<ResolveWrite(h, "CANCELLED")>>)
           ELSE Goto(h, "room", Load(h, y), <<>>)

AcceptRoom(h) ==
    LET r == tx[h].tr.recipient IN
    /\ At(h, "accept", "room")
    /\ IF ~ HasFreePcSlot(Found(h, r), r) THEN Rollback(h)
       ELSE Goto(h, IF tx[h].pk[tx[h].tr.offered].box # 0 THEN "give" ELSE "initiatorRoom",
                 Loaded(h, r), <<>>)

AcceptInitiatorRoom(h) ==
    LET i == tx[h].tr.initiator IN
    /\ At(h, "accept", "initiatorRoom")
    /\ IF ~ HasFreePcSlot(Found(h, i), i) THEN Rollback(h)
       ELSE Goto(h, "give", Loaded(h, i), <<>>)

(* transferOwnership of p to o, then the writes of `more' and the step next *)
HandOver(h, p, o, next, more) ==
    LET row == [owner |-> o, box |-> FindFreePcSlot(Found(h, o), o), team |-> 0] IN
    IF FreePcSlots(Found(h, o), o) = {} THEN Rollback(h)
    ELSE Goto(h, next, [Loaded(h, o) EXCEPT ![p] = row], <<Write("update", p, row)>> \o more)

AcceptGive(h) ==
    /\ At(h, "accept", "give")
    /\ HandOver(h, tx[h].tr.offered, tx[h].tr.recipient, "take", <<>>)

(* Mutant: the second transfer repeats the first one's recipient. *)
AcceptTakeWrongWay(h) ==
    /\ At(h, "accept", "take")
    /\ HandOver(h, tx[h].tr.requested, tx[h].tr.recipient, "commit",
                <<ResolveWrite(h, "COMPLETED")>>)

AcceptTake(h) ==
    /\ At(h, "accept", "take")
    /\ HandOver(h, tx[h].tr.requested, tx[h].tr.initiator, "commit",
                <<ResolveWrite(h, "COMPLETED")>>)

(* POST /trades/{uuid}/cancel *)
StartCancel(h, c, t) ==
    /\ Pending(t)
    /\ c \in {trades[t].initiator, trades[t].recipient}
    /\ Begin(h, [kind |-> "cancel", caller |-> c, trade |-> t], "commit", Nothing, trades[t],
             <<Write("update", t, [trades[t] EXCEPT !.status = "CANCELLED"])>>)

(* completeLiveTrade, under the lock of LiveTradeService: one at a time.    *)
StartLive(h, i, r, x, y, t) ==
    /\ i # r
    /\ FreshTrade(t)
    /\ \A g \in Threads : tx[g].req.kind # "live"
    /\ Exists(pokemon, x)
    /\ Begin(h, [kind |-> "live", caller |-> i, recipient |-> r, offered |-> x,
                 requested |-> y, trade |-> t], "requested", Only(x, pokemon[x]), NoTrade, <<>>)

LiveRequested(h) ==
    LET q == tx[h].req
        first == tx[h].pk[q.offered]
        second == Entity(h, q.requested)
        vacated(row) == PutAt(row, [box |-> row.box, team |-> 0])
    IN  /\ At(h, "live", "requested")
        /\ IF \/ first.owner # q.caller \/ second.owner # q.recipient
              \/ first.team = 0 \/ second.team = 0
           THEN Rollback(h)
           ELSE Goto(h, "commit", Load(h, q.requested),
                     <<Write("update", q.offered, vacated(first)),
                       Write("update", q.requested, vacated(second)),
                       Write("update", q.offered, [second EXCEPT !.box = 0]),
                       Write("update", q.requested, [first EXCEPT !.box = 0]),
                       Write("insert", q.trade,
                         Deal(q.caller, q.recipient, q.offered, q.requested, "COMPLETED"))>>)

-------------------------------------------------------------------------------
Arrive(h) ==
    \/ \E o \in Players, p \in PokemonIds :
          \/ \E loc \in Locations : StartCreate(h, o, p, loc)
          \/ \E loc \in Destinations \cup {Nowhere}, payload \in BOOLEAN :
                StartUpdate(h, o, p, loc, payload)
          \/ \E c \in PokemonIds : StartClone(h, o, p, c)
          \/ StartDelete(h, o, p)
    \/ \E i, r \in Players, x, y \in PokemonIds, t \in TradeIds :
          StartPropose(h, i, r, x, y, t) \/ StartLive(h, i, r, x, y, t)
    \/ \E c \in Players, t \in TradeIds : StartAccept(h, c, t) \/ StartCancel(h, c, t)

Statement(h) ==
    \/ CloneSlot(h) \/ UpdatePlace(h) \/ DeleteEngaged(h) \/ ProposeRequested(h)
    \/ AcceptOffered(h) \/ AcceptRequested(h) \/ AcceptRoom(h) \/ AcceptInitiatorRoom(h)
    \/ AcceptGive(h) \/ AcceptTake(h) \/ LiveRequested(h)

Progress(h) == Statement(h) \/ Flush(h) \/ Commit(h)

TxNext == \E h \in Threads : Arrive(h) \/ Progress(h) \/ Victim(h)

TxSpec == TxInit /\ [][TxNext]_txVars

(* Tomcat keeps running a request it has begun; PostgreSQL queues the       *)
(* waiters of a row and looks for deadlocks every deadlock_timeout.         *)
Fairness ==
    \A h \in Threads : SF_txVars(Progress(h)) /\ WF_txVars(Victim(h))

FairTxSpec == TxSpec /\ Fairness

-------------------------------------------------------------------------------
(* Properties.  Those of PokemonTrading are asked again under interleaving; *)
(* which of them survive is the subject of the runs.                        *)

(* With one request at a time the statements of each method add up to the   *)
(* atomic action of PokemonTrading.                                         *)
ImplementsTrading == Spec

(* A deleted Pokemon never comes back, although a transaction that had read *)
(* it before the DELETE may still write the whole row: the UPDATE finds no  *)
(* row and Hibernate rolls it back.                                         *)
GoneForGood ==
    [][\A p \in drawn : ~ Exists(pokemon, p) => ~ Exists(pokemon', p)]_txVars

(* The class comment of TradeService: an acceptance changes both owners or  *)
(* nothing.  At the commit that completes a trade each Pokemon is in the    *)
(* hands of the other party, whatever else was committed since it was read. *)
CompletedTogether ==
    [][\A t \in TradeIds :
          (trades'[t] # trades[t] /\ trades'[t].status = "COMPLETED") =>
             /\ pokemon'[trades'[t].offered].owner = trades'[t].recipient
             /\ pokemon'[trades'[t].requested].owner = trades'[t].initiator]_txVars

(* D.2 of cad-3-complements: a trade one of whose Pokemon has left the      *)
(* hands of the expected player is not completed.                           *)
CompletedFromTheParties ==
    [][\A t \in TradeIds :
          (trades'[t] # trades[t] /\ trades'[t].status = "COMPLETED") =>
             /\ pokemon[trades'[t].offered].owner = trades'[t].initiator
             /\ pokemon[trades'[t].requested].owner = trades'[t].recipient]_txVars

(* No request waits for ever: a cycle of row locks (two opposite trades of  *)
(* the same Pokemon) is broken, and a waiter gets its turn.                 *)
EveryRequestEnds ==
    \A h \in Threads : tx[h].req # NoRequest ~> tx[h].req = NoRequest

===============================================================================
