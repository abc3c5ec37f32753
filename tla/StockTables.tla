---------------------------- MODULE StockTables ----------------------------
(***************************************************************************)
(* The tables of the stock and the transactions in flight on them.         *)
(*                                                                         *)
(* PostgreSQL runs these transactions at READ COMMITTED: each statement    *)
(* sees what was committed when it starts and the transaction's own        *)
(* writes; a row written, or read FOR UPDATE, stays locked to the end of   *)
(* the transaction, and a statement that needs a locked row waits. A step  *)
(* of the model is one statement, taken to start when its rows are free.   *)
(* Nothing written is seen by others before the commit, so a transaction   *)
(* keeps its writes in tx[s] and the commit applies them.                  *)
(***************************************************************************)
EXTENDS StockRules, Sequences

CONSTANTS
    Sessions,       \* transactions in flight at the same time
    Orders,         \* ids of orders
    Consumptions,   \* ids of staff consumptions
    Supplies,
    MaxLots,        \* bound: ids of stock_lots
    Needs,          \* what an order may ask of the stock: sequences of needs
    Units,          \* quantities entered or counted
    Expiries,       \* expiry dates; the greatest stands for "no date"
    NoDate,
    Stocked,        \* the lots at the start, untouched entries
    Ops,            \* operations the users ask for in this instance
    MaxRequests,    \* bound: how many transactions are begun
    NoLot,          \* a lot not inserted yet
    None            \* SQL null

LotIds == 1 .. MaxLots
Owners == Orders \cup Consumptions
Holders == Owners \cup {None}   \* of movements and oversales; None: deleted

SaleNeed == [supply : Supplies, units : Nat \ {0}]

Lot ==
    [supply : Supplies, quantity : Nat \ {0}, remaining : Int, expires : Expiries,
     entry : BOOLEAN, reversed : BOOLEAN, counted : Int, moved : BOOLEAN]

\* Plausible bug, for a mutant: the sales an entry settles leave its balance whole.
NewLotWhole(supply, quantity, expires, entry, settled) ==
    [supply |-> supply, quantity |-> quantity, remaining |-> quantity,
     expires |-> expires, entry |-> entry, reversed |-> FALSE, counted |-> 0,
     moved |-> settled > 0]

\* createLot's row, and the sales an entry settles at once
NewLot(supply, quantity, expires, entry, settled) ==
    [supply |-> supply, quantity |-> quantity, remaining |-> quantity - settled,
     expires |-> expires, entry |-> entry, reversed |-> FALSE, counted |-> 0,
     moved |-> settled > 0]

ASSUME StockAssumption ==
    /\ MaxLots \in Nat
    /\ MaxRequests \in Nat
    /\ Orders \cap Consumptions = {}
    /\ None \notin Owners
    /\ IsFiniteSet(Owners)
    /\ Needs \subseteq Seq(SaleNeed)
    /\ \A needs \in Needs : \A i, j \in DOMAIN needs :
          needs[i].supply = needs[j].supply => i = j
    /\ Units \subseteq Nat
    /\ Expiries \subseteq Nat
    /\ NoDate \in Expiries
    /\ NoLot \notin Lot
    /\ Stocked \in [LotIds -> Lot \cup {NoLot}]
    /\ \A l \in LotIds : Stocked[l] # NoLot =>
          Stocked[l] = NewLot(Stocked[l].supply, Stocked[l].quantity,
                              Stocked[l].expires, TRUE, 0)

VARIABLES
    lots,        \* stock_lots, with the sum of each lot's COUNT movements after
                 \* its first (counted), and whether it has any beyond it (moved)
    taken,       \* by owner and lot: SALE less SALE_RETURN movements
    oversales,   \* stock_oversales, a set of rows
    lastId,      \* the sequence behind the ids of the oversales
    owners,      \* orders and consumptions: their state and what they need
    live,        \* the night is still in progress
    tx,          \* each session's transaction
    asked        \* transactions begun so far (only to bound the instance)

vars == <<lots, taken, oversales, lastId, owners, live, tx, asked>>

Oversale == [id : Nat, owner : Holders, supply : Supplies, quantity : Nat \ {0}]

Owner ==
    [state : {"ABSENT", "ACTIVE", "CANCELED", "DELETED"},
     needs : Seq(SaleNeed),           \* of its items, as last saved
     told : Seq(SaleNeed)]            \* of its last save that moved the stock

Idle == [op |-> "idle"]

SaleOps == {"create", "edit", "cancel", "restore", "consume", "reconsume", "remove"}

\* `plan`: what is still to be written to each lot (positive: given back)
Sale ==
    [op : SaleOps, pc : {"start", "drop", "moves", "moving", "locked"},
     owner : Owners, live : BOOLEAN, needs : Seq(SaleNeed), todo : Seq(SaleNeed),
     plan : [LotIds -> Int], locked : SUBSET LotIds, change : [LotIds -> Int],
     dropped : SUBSET Nat, short : [Supplies -> Nat]]

StockCount ==
    [op : {"count"}, pc : {"read", "moving"}, supply : Supplies, quantity : Nat,
     plan : [LotIds -> Int], locked : SUBSET LotIds, change : [LotIds -> Int],
     dropped : SUBSET Nat, surplus : Nat]

Cover == [id : Nat, owner : Holders, units : Nat, was : Nat]

Entry ==
    [op : {"entry"}, lot : LotIds, supply : Supplies, quantity : Nat \ {0},
     expires : Expiries, covers : SUBSET Cover]

Reversal == [op : {"reverse"}, lot : LotIds]

Transaction == {Idle} \cup Sale \cup StockCount \cup Entry \cup Reversal

(***************************************************************************)
(* The type of every table and of every transaction in flight.             *)
(***************************************************************************)
TypeOK ==
    /\ lots \in [LotIds -> Lot \cup {NoLot}]
    /\ taken \in [Holders -> [LotIds -> Int]]
    /\ oversales \subseteq Oversale /\ IsFiniteSet(oversales)
    /\ lastId \in Nat
    /\ owners \in [Owners -> Owner]
    /\ live \in BOOLEAN
    /\ tx \in [Sessions -> Transaction]
    /\ asked \in Nat

-----------------------------------------------------------------------------
(***************************************************************************)
(* What a transaction sees and what it has locked.                         *)
(***************************************************************************)
InStock == {l \in LotIds : lots[l] # NoLot}

Moving(s) == tx[s].op \in SaleOps \cup {"count"}

LotsOf(s)    == IF Moving(s) THEN tx[s].locked ELSE {}
DroppedBy(s) == IF Moving(s) THEN tx[s].dropped ELSE {}

\* the lots nobody else has locked
FreeFor(s, ids) == \A t \in Sessions \ {s} : LotsOf(t) \cap ids = {}

RowsFreeFor(s, ids) == \A t \in Sessions \ {s} : DroppedBy(t) \cap ids = {}

\* Plausible bug, for a mutant: an edit writes the order's row after the stock.
LocksOwnerLast(s, o) == FALSE

\* an edit updates the order's row, a launch the night's counter, before it
\* touches the stock
HoldsOwner(s, o) ==
    /\ tx[s].op \in {"edit", "reconsume"}
    /\ tx[s].pc # "start"
    /\ tx[s].owner = o

HoldsNight(s) == tx[s].op = "create" /\ tx[s].pc # "start"

OwnerFreeFor(s, o) == \A t \in Sessions \ {s} : ~HoldsOwner(t, o)

\* an id another transaction has already drawn
Drawn(l) ==
    \/ lots[l] # NoLot
    \/ \E t \in Sessions : tx[t].op = "entry" /\ tx[t].lot = l

NextLot(l) == ~Drawn(l) /\ \A k \in LotIds : k < l => Drawn(k)

\* a lot's balance as the transaction sees it
Seen(s, l) == lots[l].remaining + tx[s].change[l]

\* the lots of a supply with a balance, as the transaction sees them
SeenBalance(s, supply) ==
    [l \in {k \in InStock : lots[k].supply = supply /\ Seen(s, k) > 0} |-> Seen(s, l)]

ExpiryOf == [l \in InStock |-> lots[l].expires]

OversalesOf(o) == {r \in oversales : r.owner = o}
OversalesOn(supply) == {r \in oversales : r.supply = supply}
IdsOf(rows) == {r.id : r \in rows}

NoChange == [l \in LotIds |-> 0]

Opens(s, t) ==
    /\ t.op \in Ops
    /\ tx[s] = Idle
    /\ asked < MaxRequests
    /\ asked' = asked + 1
    /\ tx' = [tx EXCEPT ![s] = t]

Runs(s, t) == tx' = [tx EXCEPT ![s] = t] /\ UNCHANGED asked

Tables == <<lots, taken, oversales, lastId, owners, live>>

=============================================================================
