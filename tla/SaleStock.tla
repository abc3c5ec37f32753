----------------------------- MODULE SaleStock -----------------------------
(***************************************************************************)
(* The stock under its five transactions, statement by statement: a sale   *)
(* by an order or a staff consumption (stock/prisma-sale-stock.ts, called  *)
(* by orders/prisma-order.repository.ts and staff-consumption/             *)
(* prisma-staff-consumption.repository.ts), an entry and the oversales it  *)
(* settles, a count, and the reversal of an entry                          *)
(* (stock/prisma-stock.repository.ts, prisma-entry-history.ts).            *)
(***************************************************************************)
EXTENDS StockTables

Init ==
    /\ lots = Stocked
    /\ taken = [o \in Holders |-> NoChange]
    /\ oversales = {}
    /\ lastId = 0
    /\ owners = [o \in Owners |-> [state |-> "ABSENT", needs |-> <<>>, told |-> <<>>]]
    /\ live = TRUE
    /\ tx = [s \in Sessions |-> Idle]
    /\ asked = 0

NightEnds ==
    /\ live
    /\ live' = FALSE
    /\ UNCHANGED <<lots, taken, oversales, lastId, owners, tx, asked>>

(***************************************************************************)
(* A sale: what the owner took comes back, then its needs go out           *)
(***************************************************************************)

\* stockChangeFor: after the night no stock moves, only the row is saved
SaleOf(op, pc, o, needs) ==
    [op |-> op, pc |-> pc, owner |-> o, live |-> live, needs |-> needs,
     todo |-> IF live THEN needs ELSE <<>>, plan |-> NoChange, locked |-> {},
     change |-> NoChange, dropped |-> {}, short |-> [u \in Supplies |-> 0]]

Unused(o) ==
    /\ owners[o].state = "ABSENT"
    /\ \A t \in Sessions : tx[t].op \in {"create", "consume"} => tx[t].owner # o

Begins(s, t) == Opens(s, t) /\ UNCHANGED Tables

\* PrismaOrderRepository.create
BeginCreate(s) ==
    \E o \in Orders, needs \in Needs :
        Unused(o) /\ Begins(s, SaleOf("create", "start", o, needs))

\* PrismaStaffConsumptionRepository.create: locks nothing of its own; what the
\* return would look for is not there yet
BeginConsume(s) ==
    \E o \in Consumptions, needs \in Needs :
        Unused(o) /\ Begins(s, SaleOf("consume", "moving", o, needs))

\* update of either, after the check that it is there and not canceled
BeginEdit(s) ==
    \E o \in Owners, needs \in Needs :
        /\ owners[o].state = "ACTIVE"
        /\ Begins(s, SaleOf(IF o \in Orders THEN "edit" ELSE "reconsume",
                            "start", o, needs))

FirstPc == IF live THEN "drop" ELSE "moving"

BeginCancel(s) ==
    \E o \in Orders :
        /\ owners[o].state = "ACTIVE"
        /\ Begins(s, SaleOf("cancel", FirstPc, o, <<>>))

\* needsOf: the items are read here, and sold again as they are
BeginRestore(s) ==
    \E o \in Orders :
        /\ owners[o].state = "CANCELED"
        /\ Begins(s, SaleOf("restore", FirstPc, o, owners[o].needs))

BeginRemove(s) ==
    \E o \in Consumptions :
        /\ owners[o].state = "ACTIVE"
        /\ Begins(s, SaleOf("remove", FirstPc, o, <<>>))

\* the counter of the night, or the order's row, is locked before the stock
LockFirst(s) ==
    /\ tx[s].op \in {"create", "edit", "reconsume"}
    /\ tx[s].pc = "start"
    /\ IF tx[s].op = "create"
       THEN /\ \A t \in Sessions \ {s} : ~HoldsNight(t)
            /\ Runs(s, [tx[s] EXCEPT !.pc = "moving"])
       ELSE /\ OwnerFreeFor(s, tx[s].owner)
            /\ owners[tx[s].owner].state # "DELETED"
            /\ Runs(s, [tx[s] EXCEPT !.pc = IF tx[s].live THEN "drop" ELSE "moving"])
    /\ UNCHANGED Tables

\* Plausible bug, for a mutant: the owner's pending oversales stay.
KeepOversales(s) ==
    /\ tx[s].op \in SaleOps
    /\ tx[s].pc = "drop"
    /\ Runs(s, [tx[s] EXCEPT !.pc = "moves"])
    /\ UNCHANGED Tables

\* returnSale, first statement: the owner's pending oversales go
DropOversales(s) ==
    LET ids == IdsOf(OversalesOf(tx[s].owner)) IN
    /\ tx[s].op \in SaleOps
    /\ tx[s].pc = "drop"
    /\ RowsFreeFor(s, ids)
    /\ Runs(s, [tx[s] EXCEPT !.pc = "moves", !.dropped = ids])
    /\ UNCHANGED Tables

\* returnSale, second statement: what the owner's movements add up to by lot
ReadMoves(s) ==
    /\ tx[s].op \in SaleOps
    /\ tx[s].pc = "moves"
    /\ Runs(s, [tx[s] EXCEPT !.pc = "moving",
                             !.plan = NetTakenByLot(taken[tx[s].owner])])
    /\ UNCHANGED Tables

Planned(s) == {l \in LotIds : tx[s].plan[l] # 0}

\* takeSaleFromLot, takeFromLot and the returns: an update relative to the
\* balance the lot has by then, and a movement. Takes follow the expiry order;
\* the returns' order is that of an unordered query.
MoveLot(s) ==
    /\ Moving(s)
    /\ tx[s].pc = "moving"
    /\ \E l \in Planned(s) :
          /\ tx[s].plan[l] < 0 =>
                \A k \in Planned(s) \ {l} : ~GoesFirst(ExpiryOf, k, l)
          /\ FreeFor(s, {l})
          /\ Runs(s, [tx[s] EXCEPT !.plan[l] = 0, !.locked = @ \cup {l},
                                   !.change[l] = @ + tx[s].plan[l]])
    /\ UNCHANGED Tables

NextNeed(s) ==
    /\ tx[s].op \in SaleOps
    /\ tx[s].pc = "moving"
    /\ Planned(s) = {}
    /\ tx[s].todo # <<>>

\* Plausible bug, for a mutant: the lots are read without being locked.
LockNothing(s) == {}

LotsToLock(s) == DOMAIN SeenBalance(s, Head(tx[s].todo).supply)

\* lockedLots, first statement: SELECT ... FOR UPDATE. The lots are those with a
\* balance when the lock is granted. One that had none when the statement began
\* to wait and has one now PostgreSQL would leave without a lock; under launches
\* alone, whose promises rest on these locks, no balance grows meanwhile.
LockLots(s) ==
    /\ NextNeed(s)
    /\ FreeFor(s, LotsToLock(s))
    /\ Runs(s, [tx[s] EXCEPT !.pc = "locked", !.locked = @ \cup LotsToLock(s)])
    /\ UNCHANGED Tables

\* Plausible bug, for a mutant: a need the stock does not cover is tried again.
NeedsUntilCovered(s) ==
    LET need == Head(tx[s].todo)
    IN  IF MissingOf(SeenBalance(s, need.supply), need.units) > 0
        THEN tx[s].todo ELSE Tail(tx[s].todo)

\* syncSale's loop goes on to the next need
NeedsLeft(s) == Tail(tx[s].todo)

\* lockedLots, second statement, reads again; planSale
PlanSale(s) ==
    /\ tx[s].op \in SaleOps
    /\ tx[s].pc = "locked"
    /\ LET need    == Head(tx[s].todo)
           balance == SeenBalance(s, need.supply)
           takes   == TakeInExpiryOrder(balance, ExpiryOf, need.units)
       IN  Runs(s, [tx[s] EXCEPT
                      !.pc = "moving",
                      !.todo = NeedsLeft(s),
                      !.plan = [l \in LotIds |->
                                  IF l \in DOMAIN takes THEN -takes[l] ELSE 0],
                      !.short[need.supply] = MissingOf(balance, need.units)])
    /\ UNCHANGED Tables

\* the lots after the transaction's movements
LotsAfter(change) ==
    [l \in LotIds |->
        IF change[l] = 0 THEN lots[l]
        ELSE [lots[l] EXCEPT !.remaining = @ + change[l], !.moved = TRUE]]

\* recordOversale, one row for each need the stock did not cover
ShortRows(t) ==
    {[id |-> lastId + i, owner |-> t.owner, supply |-> t.needs[i].supply,
      quantity |-> t.short[t.needs[i].supply]] :
        i \in {j \in DOMAIN t.needs : t.short[t.needs[j].supply] > 0}}

OwnerAfter(t) ==
    LET row  == owners[t.owner]
        told == IF t.live THEN t.needs ELSE row.told
    IN  CASE t.op = "cancel"  -> [row EXCEPT !.state = "CANCELED", !.told = told]
          [] t.op = "restore" -> [row EXCEPT !.state = "ACTIVE", !.told = told]
          [] t.op = "remove"  -> [row EXCEPT !.state = "DELETED", !.told = told]
          [] t.op \in {"edit", "reconsume"} -> [row EXCEPT !.needs = t.needs, !.told = told]
          [] OTHER -> [state |-> "ACTIVE", needs |-> t.needs, told |-> told]

\* Deleting a consumption leaves its movements and oversales without an owner.
Disowned(t, rows) ==
    {IF t.op = "remove" /\ r.owner = t.owner
     THEN [r EXCEPT !.owner = None] ELSE r : r \in rows}

TakenAfter(t) ==
    LET mine == [l \in LotIds |-> taken[t.owner][l] - t.change[l]]
    IN  IF t.op = "remove"
        THEN [taken EXCEPT ![t.owner] = NoChange,
                           ![None] = [l \in LotIds |-> @[l] + mine[l]]]
        ELSE [taken EXCEPT ![t.owner] = mine]

\* the order's row last: cancel, restore and remove lock it here, and the
\* removal of a row already gone is an error
CommitSale(s) ==
    LET t == tx[s] IN
    /\ t.op \in SaleOps
    /\ t.pc = "moving"
    /\ Planned(s) = {}
    /\ t.todo = <<>>
    /\ OwnerFreeFor(s, t.owner)
    /\ t.op = "remove" => owners[t.owner].state # "DELETED"
    /\ lots' = LotsAfter(t.change)
    /\ taken' = TakenAfter(t)
    /\ oversales' = Disowned(t, {r \in oversales : r.id \notin t.dropped})
                    \cup ShortRows(t)
    /\ lastId' = lastId + Len(t.needs)
    /\ owners' = [owners EXCEPT ![t.owner] = OwnerAfter(t)]
    /\ Runs(s, Idle)
    /\ UNCHANGED live

(***************************************************************************)
(* An entry: a new lot, which settles the pending oversales                *)
(***************************************************************************)

\* createEntryLot up to settleOversales
BeginEntry(s) ==
    \E l \in LotIds, supply \in Supplies, quantity \in Units \ {0}, expires \in Expiries :
        /\ NextLot(l)
        /\ Begins(s, [op |-> "entry", lot |-> l, supply |-> supply,
                      quantity |-> quantity, expires |-> expires,
                      covers |-> SettleOversales(OversalesOn(supply), quantity)])

\* Plausible bug, for a mutant: what was settled stays pending.
SettledNothing(covers) == oversales

CoverOf(covers, r) == CHOOSE c \in covers : c.id = r.id

LeftOf(covers, r) == CoverOf(covers, r).was - CoverOf(covers, r).units

\* a row settled, or changed to what this transaction read less what it covers
Settled(covers) ==
    {r \in oversales : r.id \notin IdsOf(covers)}
    \cup {[r EXCEPT !.quantity = LeftOf(covers, r)] :
            r \in {q \in oversales : q.id \in IdsOf(covers) /\ LeftOf(covers, q) > 0}}

\* an oversale deleted meanwhile, or whose owner was: the statement fails
EntryFails(s) ==
    /\ tx[s].op = "entry"
    /\ \E c \in tx[s].covers :
          \/ c.id \notin IdsOf(oversales)
          \/ c.owner # None /\ owners[c.owner].state = "DELETED"

CommitEntry(s) ==
    LET t == tx[s] IN
    /\ t.op = "entry"
    /\ RowsFreeFor(s, IdsOf(t.covers))
    /\ ~EntryFails(s)
    /\ lots' = [lots EXCEPT ![t.lot] =
                  NewLot(t.supply, t.quantity, t.expires, TRUE, UnitsOf(t.covers))]
    /\ taken' = [o \in Holders |->
                   [taken[o] EXCEPT ![t.lot] =
                      @ + UnitsOf({c \in t.covers : c.owner = o})]]
    /\ oversales' = Settled(t.covers)
    /\ Runs(s, Idle)
    /\ UNCHANGED <<lastId, owners, live>>

(***************************************************************************)
(* A count: the balance becomes what was counted                           *)
(***************************************************************************)

\* saveCount up to its deleteMany
BeginCount(s) ==
    \E supply \in Supplies, quantity \in Units :
        LET ids == IdsOf(OversalesOn(supply)) IN
        /\ RowsFreeFor(s, ids)
        /\ Begins(s, [op |-> "count", pc |-> "read", supply |-> supply,
                      quantity |-> quantity, plan |-> NoChange, locked |-> {},
                      change |-> NoChange, dropped |-> ids, surplus |-> 0])

\* findMany, without a lock, and planCount
PlanCount(s) ==
    /\ tx[s].op = "count"
    /\ tx[s].pc = "read"
    /\ LET balance == SeenBalance(s, tx[s].supply)
           takes   == TakeInExpiryOrder(balance, ExpiryOf,
                                        ExcessOf(balance, tx[s].quantity))
       IN  Runs(s, [tx[s] EXCEPT
                      !.pc = "moving",
                      !.plan = [l \in LotIds |->
                                  IF l \in DOMAIN takes THEN -takes[l] ELSE 0],
                      !.surplus = SurplusOf(balance, tx[s].quantity)])
    /\ UNCHANGED Tables

LotsCounted(change) ==
    [l \in LotIds |->
        IF change[l] = 0 THEN lots[l]
        ELSE [LotsAfter(change)[l] EXCEPT !.counted = @ + change[l]]]

CommitCount(s) ==
    LET t == tx[s] IN
    /\ t.op = "count"
    /\ t.pc = "moving"
    /\ Planned(s) = {}
    /\ IF t.surplus = 0
       THEN lots' = LotsCounted(t.change)
       ELSE \E l \in LotIds :
              /\ NextLot(l)
              /\ lots' = [LotsCounted(t.change) EXCEPT ![l] =
                            NewLot(t.supply, t.surplus, NoDate, FALSE, 0)]
    /\ oversales' = {r \in oversales : r.id \notin t.dropped}
    /\ Runs(s, Idle)
    /\ UNCHANGED <<taken, lastId, owners, live>>

(***************************************************************************)
(* The reversal of an entry                                                *)
(***************************************************************************)

\* Plausible bug, for a mutant: what went out of the lot is not looked at.
LooksIntact(l) == lots[l].entry /\ ~lots[l].reversed

\* assertReversible
Reversible(l) ==
    /\ lots[l].entry
    /\ ~lots[l].reversed
    /\ ~lots[l].moved
    /\ lots[l].remaining = lots[l].quantity

\* reverseEntryLot's read and check
BeginReverse(s) ==
    \E l \in InStock :
        /\ Reversible(l)
        /\ Begins(s, [op |-> "reverse", lot |-> l])

\* its write: the balance becomes zero, whatever it is by now
CommitReverse(s) ==
    /\ tx[s].op = "reverse"
    /\ FreeFor(s, {tx[s].lot})
    /\ lots' = [lots EXCEPT ![tx[s].lot] =
                  [@ EXCEPT !.remaining = 0, !.reversed = TRUE, !.moved = TRUE]]
    /\ Runs(s, Idle)
    /\ UNCHANGED <<taken, oversales, lastId, owners, live>>

(***************************************************************************)
(* A transaction rolls back: an error, a timeout, a connection lost, or    *)
(* the database choosing it to break a deadlock. Nothing is retried.       *)
(***************************************************************************)
RollBack(s) ==
    /\ tx[s] # Idle
    /\ Runs(s, Idle)
    /\ UNCHANGED Tables

Asks(s) ==
    \/ BeginCreate(s)
    \/ BeginConsume(s)
    \/ BeginEdit(s)
    \/ BeginCancel(s)
    \/ BeginRestore(s)
    \/ BeginRemove(s)
    \/ BeginEntry(s)
    \/ BeginCount(s)
    \/ BeginReverse(s)

Advances(s) ==
    \/ LockFirst(s)
    \/ DropOversales(s)
    \/ ReadMoves(s)
    \/ MoveLot(s)
    \/ LockLots(s)
    \/ PlanSale(s)
    \/ CommitSale(s)
    \/ CommitEntry(s)
    \/ PlanCount(s)
    \/ CommitCount(s)
    \/ CommitReverse(s)

Next == NightEnds \/ \E s \in Sessions : Asks(s) \/ Advances(s) \/ RollBack(s)

Spec == Init /\ [][Next]_vars


-----------------------------------------------------------------------------
(***************************************************************************)
(* Promises that hold however launches, edits and counts overlap.          *)
(***************************************************************************)

(***************************************************************************)
(* A lot's balance is its movements added up (prisma/schema.prisma,        *)
(* StockMovement: the history of everything that touches a balance): what  *)
(* came in, corrected by the counts, less what every owner took of it and  *)
(* keeps, deleted owners included. The balance and the movements are       *)
(* written by different statements, at different times.                    *)
(***************************************************************************)
CameIn(l) == IF lots[l].reversed THEN 0 ELSE lots[l].quantity

LedgerBalances ==
    \A l \in InStock :
        lots[l].remaining
            = CameIn(l) + lots[l].counted
              - SumOf([o \in Holders |-> taken[o][l]], Holders)

(***************************************************************************)
(* A return gives a lot "what the owner's sales took and has not come      *)
(* back" (stock/prisma-sale-stock.ts, returnSale): never more than that.   *)
(* An edit locks the order's row before it looks; a cancel only after.     *)
(***************************************************************************)
ReturnsOnlyWhatWasTaken ==
    \A o \in Owners, l \in LotIds : taken[o][l] >= 0

(***************************************************************************)
(* What an order or a consumption took and still owes of a supply is no    *)
(* more than its items need: nothing when it is canceled, restored items   *)
(* taken once. After the night nothing moves, so its needs are those of    *)
(* its last save in the night (orders/stock-needs.ts, stockChangeFor).     *)
(***************************************************************************)
LotsIn(supply) == {l \in InStock : lots[l].supply = supply}

TookOf(o, supply) == SumOf(taken[o], LotsIn(supply))

OwesOf(o, supply) ==
    QuantityOf({r \in OversalesOf(o) : r.supply = supply})

NeedIn(needs, supply) ==
    SumOf([i \in DOMAIN needs |-> needs[i].units],
          {i \in DOMAIN needs : needs[i].supply = supply})

TakesWhatItNeeds ==
    \A o \in Owners, supply \in Supplies :
        TookOf(o, supply) + OwesOf(o, supply) <= NeedIn(owners[o].told, supply)

-----------------------------------------------------------------------------
(***************************************************************************)
(* Promises that hold when transactions do not overlap, and also when the  *)
(* only ones that overlap launch new sales.                                *)
(***************************************************************************)

(***************************************************************************)
(* "Two cashiers selling the same can at the same time do not take from    *)
(* the same balance" (stock/prisma-sale-stock.ts, lockedLots) and "the     *)
(* balance is never negative" (stock/fefo.ts, planSale).                   *)
(***************************************************************************)
NeverNegative ==
    \A l \in InStock : lots[l].remaining >= 0

(***************************************************************************)
(* First to expire, first out (stock/fefo.ts, sortByExpiry): whatever      *)
(* lowers a lot, a reversal apart, leaves nothing in the lots of its       *)
(* supply that go out before it.                                           *)
(***************************************************************************)
Lowered(l) ==
    /\ l \in InStock
    /\ lots'[l].remaining < lots[l].remaining
    /\ ~lots'[l].reversed

GoesBefore(k, l) ==
    \/ lots[k].expires < lots[l].expires
    \/ lots[k].expires = lots[l].expires /\ k < l

FirstToExpireStep ==
    \A k, l \in InStock :
        /\ lots[k].supply = lots[l].supply
        /\ GoesBefore(k, l)
        /\ Lowered(l)
        => lots'[k].remaining = 0

FirstToExpireFirst == [][FirstToExpireStep]_vars

(***************************************************************************)
(* A reversed entry is empty and moves no more (stock/entry-reversal.ts:   *)
(* only an entry nothing touched is undone).                               *)
(***************************************************************************)
ReversedLotIsEmpty ==
    \A l \in InStock :
        lots[l].reversed =>
            lots[l].remaining = 0 /\ \A o \in Holders : taken[o][l] = 0

(***************************************************************************)
(* The whole as one step per operation on the balance of each supply.      *)
(***************************************************************************)
Promise == INSTANCE StockPromise WITH
    balance <- [u \in Supplies |->
                  SumOf([l \in InStock |-> lots[l].remaining], LotsIn(u))],
    held <- [o \in Holders |-> [u \in Supplies |-> TookOf(o, u)]],
    owed <- [o \in Holders |-> [u \in Supplies |-> OwesOf(o, u)]]

\* SaleStock implements StockPromise (the same runs as the properties above).
KeepsThePromise == Promise!Spec

-----------------------------------------------------------------------------
(***************************************************************************)
(* Every transaction ends: two that wait for each other's rows are broken  *)
(* up by the database, which rolls one back. Fairness: the event loop and  *)
(* the database go on with a statement that can run, and the deadlock      *)
(* detector finds a cycle.                                                 *)
(***************************************************************************)
\* what the next statement of s needs to find unlocked
LotsNeeded(s) ==
    IF ~Moving(s) THEN IF tx[s].op = "reverse" THEN {tx[s].lot} ELSE {}
    ELSE IF tx[s].pc # "moving" THEN {}
    ELSE IF Planned(s) # {} THEN Planned(s)
    ELSE IF NextNeed(s) THEN LotsToLock(s)
    ELSE {}

RowsNeeded(s) ==
    IF tx[s].op = "entry" THEN IdsOf(tx[s].covers)
    ELSE IF tx[s].op \in SaleOps /\ tx[s].pc = "drop" THEN IdsOf(OversalesOf(tx[s].owner))
    ELSE {}

NeedsOwner(s, o) ==
    /\ tx[s].op \in SaleOps \ {"create", "consume"}
    /\ tx[s].owner = o
    /\ \/ tx[s].pc = "start"
       \/ tx[s].pc = "moving" /\ Planned(s) = {} /\ tx[s].todo = <<>>

WaitsFor(s) ==
    {t \in Sessions \ {s} :
        \/ LotsOf(t) \cap LotsNeeded(s) # {}
        \/ DroppedBy(t) \cap RowsNeeded(s) # {}
        \/ tx[s].op = "create" /\ tx[s].pc = "start" /\ HoldsNight(t)
        \/ \E o \in Owners : NeedsOwner(s, o) /\ HoldsOwner(t, o)}

Deadlocked(s) ==
    \E waiting \in SUBSET Sessions :
        /\ s \in waiting
        /\ \A t \in waiting : WaitsFor(t) \cap waiting # {}

DeadlockVictim(s) == Deadlocked(s) /\ RollBack(s)

FairSpec ==
    /\ Spec
    /\ \A s \in Sessions : WF_vars(Advances(s)) /\ WF_vars(DeadlockVictim(s))

EveryTransactionEnds == \A s \in Sessions : tx[s] # Idle ~> tx[s] = Idle

=============================================================================
