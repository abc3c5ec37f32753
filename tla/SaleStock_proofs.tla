-------------------------- MODULE SaleStock_proofs --------------------------
(***************************************************************************)
(* Type correctness of SaleStock, for every value of its constants, and    *)
(* what the other proofs about it rest on.                                 *)
(***************************************************************************)
EXTENDS SaleStock, SumTheorems

(***************************************************************************)
(* The inductive invariant: the types, and what keeps them. A transaction  *)
(* only writes to lots that are there, and draws the id of a new one that  *)
(* nobody else has drawn.                                                  *)
(***************************************************************************)
Sound(t) ==
    /\ t.op \in SaleOps \cup {"count"} =>
          \A l \in LotIds : lots[l] = NoLot => t.plan[l] = 0 /\ t.change[l] = 0
    /\ t.op \in SaleOps /\ t.pc = "locked" => t.todo # <<>>
    /\ t.op = "entry" => lots[t.lot] = NoLot /\ IsFiniteSet(t.covers)
    /\ t.op = "reverse" => lots[t.lot] # NoLot

SoundTransactions == \A s \in Sessions : Sound(tx[s])

DrawnOnce ==
    \A s, t \in Sessions :
        tx[s].op = "entry" /\ tx[t].op = "entry" /\ s # t => tx[s].lot # tx[t].lot

TakenFromLots ==
    \A o \in Holders, l \in LotIds : lots[l] = NoLot => taken[o][l] = 0

IInv == TypeOK /\ SoundTransactions /\ DrawnOnce /\ TakenFromLots

(***************************************************************************)
(* Types of what the transactions compute.                                 *)
(***************************************************************************)

\* The operation tells the kind of transaction.
LEMMA Kinds ==
  ASSUME NEW t \in Transaction
  PROVE  /\ t.op \in SaleOps => t \in Sale
         /\ t.op = "count" => t \in StockCount
         /\ t.op = "entry" => t \in Entry
         /\ t.op = "reverse" => t \in Reversal
         /\ t.op = "idle" => t = Idle
BY DEF Transaction, Idle, Sale, StockCount, Entry, Reversal, SaleOps

\* Any set of lots is finite.
LEMMA FiniteLots ==
  ASSUME NEW ids \in SUBSET LotIds
  PROVE  IsFiniteSet(ids)
<1>1. MaxLots \in Nat
  BY StockAssumption
<1>2. IsFiniteSet(LotIds)
  BY <1>1, FS_Interval DEF LotIds
<1> QED
  BY <1>2, FS_Subset

\* A row gets between nothing and all it has.
LEMMA ShareType ==
  ASSUME NEW own \in Nat, NEW ahead \in Int, NEW units \in Int
  PROVE  Share(own, ahead, units) \in 0 .. own
BY DEF Share, Least, AtLeast0

\* takeInExpiryOrder takes from each lot no more than it has (stock/fefo.ts).
LEMMA TakesType ==
  ASSUME NEW balance, IsFiniteSet(DOMAIN balance),
         \A l \in DOMAIN balance : balance[l] \in Nat,
         NEW expires, NEW units \in Int
  PROVE  /\ DOMAIN TakeInExpiryOrder(balance, expires, units) = DOMAIN balance
         /\ \A l \in DOMAIN balance :
               TakeInExpiryOrder(balance, expires, units)[l] \in 0 .. balance[l]
<1>1. ASSUME NEW l \in DOMAIN balance
      PROVE  SumOf(balance, LotsAhead(balance, expires, l)) \in Int
  <2>1. LotsAhead(balance, expires, l) \in SUBSET DOMAIN balance
    BY DEF LotsAhead
  <2> QED
    BY <2>1, FS_Subset, SumOfType
<1> QED
  BY <1>1, ShareType DEF TakeInExpiryOrder

\* What a plan finds missing, beyond or above the count is a quantity.
LEMMA RestType ==
  ASSUME NEW balance, IsFiniteSet(DOMAIN balance),
         \A l \in DOMAIN balance : balance[l] \in Nat, NEW units \in Int
  PROVE  /\ MissingOf(balance, units) \in Nat
         /\ ExcessOf(balance, units) \in Nat
         /\ SurplusOf(balance, units) \in Nat
<1>1. SumOf(balance, DOMAIN balance) \in Int
  BY SumOfType
<1> QED
  BY <1>1 DEF MissingOf, ExcessOf, SurplusOf, AtLeast0

\* The balances a statement reads are of finitely many lots, all in stock.
LEMMA SeenBalanceType ==
  ASSUME TypeOK, NEW s \in Sessions, Moving(s), NEW u \in Supplies
  PROVE  /\ DOMAIN SeenBalance(s, u) \subseteq InStock
         /\ IsFiniteSet(DOMAIN SeenBalance(s, u))
         /\ \A l \in DOMAIN SeenBalance(s, u) : SeenBalance(s, u)[l] \in Nat
<1>1. DOMAIN SeenBalance(s, u) \subseteq InStock
  BY DEF SeenBalance
<1>2. \A l \in LotIds : tx[s].change[l] \in Int
  BY Kinds DEF TypeOK, Moving, Sale, StockCount
<1>3. \A l \in InStock : lots[l].remaining \in Int /\ l \in LotIds
  BY DEF InStock, TypeOK, Lot
<1>4. \A l \in DOMAIN SeenBalance(s, u) : SeenBalance(s, u)[l] \in Nat
  BY <1>2, <1>3 DEF SeenBalance, Seen
<1> QED
  BY <1>1, <1>4, FiniteLots DEF InStock

\* The quantities of finitely many rows add up to an integer.
LEMMA QuantityType ==
  ASSUME NEW rows, IsFiniteSet(rows), \A r \in rows : r.quantity \in Int
  PROVE  QuantityOf(rows) \in Int
BY SumOfType DEF QuantityOf

\* The units of finitely many covers add up to an integer.
LEMMA UnitsType ==
  ASSUME NEW covers, IsFiniteSet(covers), \A c \in covers : c.units \in Int
  PROVE  UnitsOf(covers) \in Int
BY SumOfType DEF UnitsOf

\* settleOversales gives covers, one at most for each pending row.
LEMMA SettleType ==
  ASSUME NEW pending \in SUBSET Oversale, IsFiniteSet(pending), NEW available \in Nat
  PROVE  /\ SettleOversales(pending, available) \in SUBSET Cover
         /\ IsFiniteSet(SettleOversales(pending, available))
<1> DEFINE Ahead(p) == QuantityOf({q \in pending : q.id < p.id})
           CoverFor(p) == [id |-> p.id, owner |-> p.owner,
                           units |-> Share(p.quantity, Ahead(p), available),
                           was |-> p.quantity]
<1>1. ASSUME NEW p \in pending
      PROVE  CoverFor(p) \in Cover
  <2>1. {q \in pending : q.id < p.id} \in SUBSET pending
    OBVIOUS
  <2>2. Ahead(p) \in Int
    BY <2>1, FS_Subset, QuantityType DEF Oversale
  <2>3. p.id \in Nat /\ p.owner \in Holders /\ p.quantity \in Nat
    BY DEF Oversale
  <2>4. Share(p.quantity, Ahead(p), available) \in 0 .. p.quantity
    BY <2>2, <2>3, ShareType
  <2> QED
    BY <2>3, <2>4 DEF Cover
<1>2. PICK f : f = [p \in pending |-> CoverFor(p)]
  OBVIOUS
<1>3. PICK all : all = {f[p] : p \in pending}
  OBVIOUS
<1>4. all = {CoverFor(p) : p \in pending} /\ IsFiniteSet(all)
  <2>1. IsFiniteSet(all)
    BY <1>3, FiniteImage
  <2>2. \A p \in pending : f[p] = CoverFor(p)
    BY <1>2
  <2> HIDE DEF CoverFor
  <2>3. {f[p] : p \in pending} = {CoverFor(p) : p \in pending}
    BY <2>2
  <2> QED
    BY <1>3, <2>1, <2>3
<1>5. SettleOversales(pending, available) = {r \in all : r.units > 0}
  BY <1>4 DEF SettleOversales
<1>6. all \subseteq Cover
  BY <1>1, <1>4
<1> QED
  BY <1>4, <1>5, <1>6, FS_Subset

(***************************************************************************)
(* A step of one transaction that commits nothing, and one that commits.   *)
(***************************************************************************)

\* A step that writes one transaction and no table.
LEMMA StaysSound ==
  ASSUME IInv, NEW s \in Sessions, NEW t \in Transaction,
         tx' = [tx EXCEPT ![s] = t], UNCHANGED Tables, asked' \in Nat,
         Sound(t),
         t.op = "entry" => \A r \in Sessions \ {s} : tx[r].op = "entry" => tx[r].lot # t.lot
  PROVE  IInv'
<1>1. TypeOK'
  BY DEF IInv, TypeOK, Tables
<1>2. tx'[s] = t /\ \A r \in Sessions \ {s} : tx'[r] = tx[r]
  BY DEF IInv, TypeOK
<1>3. lots' = lots /\ taken' = taken
  BY DEF Tables
<1>4. \A r \in Sessions : Sound(tx'[r])
  BY <1>2 DEF IInv, SoundTransactions
<1>5. SoundTransactions'
  BY <1>3, <1>4 DEF SoundTransactions, Sound
<1>6. DrawnOnce'
  BY <1>2 DEF IInv, DrawnOnce
<1>7. TakenFromLots'
  BY <1>3 DEF IInv, TakenFromLots
<1> QED
  BY <1>1, <1>5, <1>6, <1>7 DEF IInv

\* A step that ends one transaction and writes the tables.
LEMMA CommitSound ==
  ASSUME IInv, NEW s \in Sessions, tx' = [tx EXCEPT ![s] = Idle],
         TypeOK',
         \A l \in LotIds : lots'[l] = NoLot => lots[l] = NoLot,
         \A r \in Sessions \ {s} : tx[r].op = "entry" => lots'[tx[r].lot] = NoLot,
         TakenFromLots'
  PROVE  IInv'
<1>1. tx'[s] = Idle /\ \A r \in Sessions \ {s} : tx'[r] = tx[r]
  BY DEF IInv, TypeOK
<1>2. Idle.op = "idle"
  BY DEF Idle
<1>3. ASSUME NEW r \in Sessions
      PROVE  Sound(tx[r])'
  <2>1. CASE r = s
    BY <1>1, <1>2, <2>1 DEF Sound, SaleOps
  <2>2. CASE r # s
    <3>1. Sound(tx[r]) /\ tx'[r] = tx[r] /\ tx[r] \in Transaction
      BY <1>1, <2>2 DEF IInv, SoundTransactions, TypeOK
    <3>2. tx[r].op = "reverse" => tx[r].lot \in LotIds
      BY <3>1, Kinds DEF Reversal
    <3> QED
      BY <2>2, <3>1, <3>2 DEF Sound
  <2> QED
    BY <2>1, <2>2
<1>4. DrawnOnce'
  BY <1>1, <1>2 DEF IInv, DrawnOnce
<1> QED
  BY <1>3, <1>4 DEF IInv, SoundTransactions

\* The invariant holds at the start.
LEMMA InitSound == Init => IInv
<1> SUFFICES ASSUME Init PROVE IInv
  OBVIOUS
<1>1. \A s \in Sessions : tx[s] = Idle
  BY DEF Init
<1>2. Idle.op = "idle" /\ Idle \in Transaction
  BY DEF Idle, Transaction
<1>3. NoChange \in [LotIds -> Int] /\ \A l \in LotIds : NoChange[l] = 0
  BY DEF NoChange
<1>4. taken \in [Holders -> [LotIds -> Int]]
  BY <1>3 DEF Init, Holders
<1>5. owners \in [Owners -> Owner]
  BY DEF Init, Owner
<1>6. IsFiniteSet({})
  BY FS_EmptySet
<1>7. lots \in [LotIds -> Lot \cup {NoLot}]
  BY StockAssumption DEF Init
<1>8. TypeOK
  BY <1>2, <1>4, <1>5, <1>6, <1>7 DEF Init, TypeOK
<1>9. SoundTransactions /\ DrawnOnce
  BY <1>1, <1>2 DEF SoundTransactions, DrawnOnce, Sound, SaleOps
<1>10. TakenFromLots
  BY <1>3 DEF Init, TakenFromLots, Holders
<1> QED
  BY <1>8, <1>9, <1>10 DEF IInv

(***************************************************************************)
(* One lemma per action.                                                   *)
(***************************************************************************)

\* Opening a sound transaction keeps the invariant.
LEMMA BeginsSound ==
  ASSUME IInv, NEW s \in Sessions, NEW t \in Transaction, Begins(s, t), Sound(t),
         t.op = "entry" => \A r \in Sessions \ {s} : tx[r].op = "entry" => tx[r].lot # t.lot
  PROVE  IInv'
<1>1. asked' \in Nat /\ tx' = [tx EXCEPT ![s] = t] /\ UNCHANGED Tables
  BY DEF Begins, Opens, IInv, TypeOK
<1> QED
  BY <1>1, StaysSound

\* Going on with a sound transaction keeps the invariant.
LEMMA RunsSound ==
  ASSUME IInv, NEW s \in Sessions, NEW t \in Transaction, Runs(s, t), UNCHANGED Tables,
         Sound(t), t.op # "entry"
  PROVE  IInv'
<1>1. asked' \in Nat /\ tx' = [tx EXCEPT ![s] = t]
  BY DEF Runs, IInv, TypeOK
<1> QED
  BY <1>1, StaysSound

\* A sale begins sound: it has planned and changed nothing.
LEMMA SaleOfSound ==
  ASSUME TypeOK, NEW op \in SaleOps, NEW pc \in {"start", "drop", "moves", "moving"},
         NEW o \in Owners, NEW needs \in Seq(SaleNeed)
  PROVE  /\ SaleOf(op, pc, o, needs) \in Transaction
         /\ SaleOf(op, pc, o, needs).op \in SaleOps
         /\ Sound(SaleOf(op, pc, o, needs))
<1>1. SaleOf(op, pc, o, needs) \in Sale
  <2>1. (IF live THEN needs ELSE <<>>) \in Seq(SaleNeed)
    OBVIOUS
  <2> QED
    BY <2>1 DEF TypeOK, SaleOf, Sale, NoChange
<1>2. /\ SaleOf(op, pc, o, needs).op = op /\ op # "entry" /\ op # "reverse"
      /\ SaleOf(op, pc, o, needs).pc # "locked"
      /\ SaleOf(op, pc, o, needs).plan = NoChange
      /\ SaleOf(op, pc, o, needs).change = NoChange
  BY DEF SaleOf, SaleOps
<1>3. \A l \in LotIds : NoChange[l] = 0
  BY DEF NoChange
<1> QED
  BY <1>1, <1>2, <1>3 DEF Transaction, Sound

\* Beginning a sale keeps the invariant.
LEMMA BeginSaleSound ==
  ASSUME IInv, NEW s \in Sessions, NEW op \in SaleOps,
         NEW pc \in {"start", "drop", "moves", "moving"},
         NEW o \in Owners, NEW needs \in Seq(SaleNeed),
         Begins(s, SaleOf(op, pc, o, needs))
  PROVE  IInv'
<1>1. TypeOK
  BY DEF IInv
<1>2. PICK t : t = SaleOf(op, pc, o, needs)
  OBVIOUS
<1>3. t \in Transaction /\ t.op \in SaleOps /\ Sound(t)
  BY <1>1, <1>2, SaleOfSound
<1>4. t.op # "entry"
  BY <1>3 DEF SaleOps
<1> QED
  BY <1>2, <1>3, <1>4, BeginsSound

\* BeginCreate, BeginConsume, BeginEdit, BeginCancel, BeginRestore, BeginRemove.
LEMMA SalesBegin ==
  ASSUME IInv, NEW s \in Sessions,
         \/ BeginCreate(s) \/ BeginConsume(s) \/ BeginEdit(s)
         \/ BeginCancel(s) \/ BeginRestore(s) \/ BeginRemove(s)
  PROVE  IInv'
<1>1. \A o \in Orders \cup Consumptions : o \in Owners
  BY DEF Owners
<1>2. \A needs \in Needs : needs \in Seq(SaleNeed)
  BY StockAssumption
<1>3. \A o \in Owners : owners[o].needs \in Seq(SaleNeed)
  BY DEF IInv, TypeOK, Owner
<1>4. <<>> \in Seq(SaleNeed)
  OBVIOUS
<1>5. FirstPc \in {"start", "drop", "moves", "moving"}
  BY DEF FirstPc
<1>6. {"create", "edit", "cancel", "restore", "consume", "reconsume", "remove"} = SaleOps
  BY DEF SaleOps
<1>7. CASE BeginCreate(s)
  BY <1>1, <1>2, <1>6, <1>7, BeginSaleSound DEF BeginCreate
<1>8. CASE BeginConsume(s)
  BY <1>1, <1>2, <1>6, <1>8, BeginSaleSound DEF BeginConsume
<1>9. CASE BeginEdit(s)
  BY <1>1, <1>2, <1>6, <1>9, BeginSaleSound DEF BeginEdit
<1>10. CASE BeginCancel(s)
  BY <1>1, <1>4, <1>5, <1>6, <1>10, BeginSaleSound DEF BeginCancel
<1>11. CASE BeginRestore(s)
  BY <1>1, <1>3, <1>5, <1>6, <1>11, BeginSaleSound DEF BeginRestore
<1>12. CASE BeginRemove(s)
  BY <1>1, <1>4, <1>5, <1>6, <1>12, BeginSaleSound DEF BeginRemove
<1> QED
  BY <1>7, <1>8, <1>9, <1>10, <1>11, <1>12

\* BeginEntry, BeginCount, BeginReverse.
LEMMA OthersBegin ==
  ASSUME IInv, NEW s \in Sessions, BeginEntry(s) \/ BeginCount(s) \/ BeginReverse(s)
  PROVE  IInv'
<1>1. CASE BeginEntry(s)
  <2>1. PICK l \in LotIds, supply \in Supplies, quantity \in Units \ {0}, expires \in Expiries :
          /\ NextLot(l)
          /\ Begins(s, [op |-> "entry", lot |-> l, supply |-> supply,
                        quantity |-> quantity, expires |-> expires,
                        covers |-> SettleOversales(OversalesOn(supply), quantity)])
    BY <1>1 DEF BeginEntry
  <2>2. PICK covers : covers = SettleOversales(OversalesOn(supply), quantity)
    OBVIOUS
  <2>3. covers \in SUBSET Cover /\ IsFiniteSet(covers)
    <3>1. OversalesOn(supply) \in SUBSET Oversale /\ IsFiniteSet(OversalesOn(supply))
      BY FS_Subset DEF IInv, TypeOK, OversalesOn
    <3>2. quantity \in Nat
      BY StockAssumption
    <3> QED
      BY <2>2, <3>1, <3>2, SettleType
  <2>4. PICK t : t = [op |-> "entry", lot |-> l, supply |-> supply, quantity |-> quantity,
                      expires |-> expires, covers |-> covers]
    OBVIOUS
  <2>5. t \in Transaction /\ t.op = "entry" /\ t.lot = l /\ t.covers = covers
    <3>1. quantity \in Nat \ {0}
      BY StockAssumption
    <3> QED
      BY <2>3, <2>4, <3>1 DEF Transaction, Entry
  <2>6. lots[l] = NoLot /\ \A r \in Sessions : tx[r].op = "entry" => tx[r].lot # l
    BY <2>1 DEF NextLot, Drawn
  <2>7. Sound(t)
    BY <2>3, <2>5, <2>6 DEF Sound, SaleOps
  <2> QED
    BY <2>1, <2>2, <2>4, <2>5, <2>6, <2>7, BeginsSound
<1>2. CASE BeginCount(s)
  <2>1. PICK supply \in Supplies, quantity \in Units :
          Begins(s, [op |-> "count", pc |-> "read", supply |-> supply,
                     quantity |-> quantity, plan |-> NoChange, locked |-> {},
                     change |-> NoChange, dropped |-> IdsOf(OversalesOn(supply)),
                     surplus |-> 0])
    BY <1>2 DEF BeginCount
  <2>2. PICK t : t = [op |-> "count", pc |-> "read", supply |-> supply,
                      quantity |-> quantity, plan |-> NoChange, locked |-> {},
                      change |-> NoChange, dropped |-> IdsOf(OversalesOn(supply)),
                      surplus |-> 0]
    OBVIOUS
  <2>3. IdsOf(OversalesOn(supply)) \in SUBSET Nat
    BY DEF IInv, TypeOK, OversalesOn, IdsOf, Oversale
  <2>4. NoChange \in [LotIds -> Int] /\ \A l \in LotIds : NoChange[l] = 0
    BY DEF NoChange
  <2>5. t \in Transaction
    <3>1. quantity \in Nat
      BY StockAssumption
    <3>2. t \in StockCount
      BY <2>2, <2>3, <2>4, <3>1 DEF StockCount
    <3> QED
      BY <3>2 DEF Transaction
  <2>6. t.op = "count" /\ t.plan = NoChange /\ t.change = NoChange
    BY <2>2
  <2>7. Sound(t)
    BY <2>4, <2>6 DEF Sound, SaleOps
  <2> QED
    BY <2>1, <2>2, <2>5, <2>6, <2>7, BeginsSound
<1>3. CASE BeginReverse(s)
  <2>1. PICK l \in InStock : Begins(s, [op |-> "reverse", lot |-> l])
    BY <1>3 DEF BeginReverse
  <2>2. PICK t : t = [op |-> "reverse", lot |-> l]
    OBVIOUS
  <2>3. t \in Transaction /\ Sound(t) /\ t.op # "entry"
    BY <2>2 DEF Transaction, Reversal, Sound, InStock, SaleOps
  <2> QED
    BY <2>1, <2>2, <2>3, BeginsSound
<1> QED
  BY <1>1, <1>2, <1>3

\* LockFirst, DropOversales, ReadMoves.
LEMMA RowStepsSound ==
  ASSUME IInv, NEW s \in Sessions, LockFirst(s) \/ DropOversales(s) \/ ReadMoves(s)
  PROVE  IInv'
<1>1. tx[s] \in Sale /\ Sound(tx[s]) /\ tx[s].op \in SaleOps
  <2>1. tx[s].op \in SaleOps
    BY DEF LockFirst, DropOversales, ReadMoves, SaleOps
  <2> QED
    BY <2>1, Kinds DEF IInv, TypeOK, SoundTransactions
<1>2. CASE LockFirst(s)
  <2>1. PICK pc \in {"moving", "drop"} : Runs(s, [tx[s] EXCEPT !.pc = pc]) /\ UNCHANGED Tables
    BY <1>2 DEF LockFirst
  <2>2. PICK t : t = [tx[s] EXCEPT !.pc = pc]
    OBVIOUS
  <2>3. /\ t \in Sale /\ t.op = tx[s].op /\ t.pc # "locked"
        /\ t.plan = tx[s].plan /\ t.change = tx[s].change
    BY <1>1, <2>2 DEF Sale
  <2>4. Sound(t) /\ t.op # "entry"
    BY <1>1, <2>3 DEF Sound, SaleOps
  <2> QED
    BY <2>1, <2>2, <2>3, <2>4, RunsSound DEF Transaction
<1>3. CASE DropOversales(s)
  <2>1. PICK ids : ids = IdsOf(OversalesOf(tx[s].owner))
    OBVIOUS
  <2>2. ids \in SUBSET Nat
    BY <2>1 DEF IInv, TypeOK, OversalesOf, IdsOf, Oversale
  <2>3. PICK t : t = [tx[s] EXCEPT !.pc = "moves", !.dropped = ids]
    OBVIOUS
  <2>4. /\ t \in Sale /\ t.op = tx[s].op /\ t.pc # "locked"
        /\ t.plan = tx[s].plan /\ t.change = tx[s].change
    BY <1>1, <2>2, <2>3 DEF Sale
  <2>5. Sound(t) /\ t.op # "entry"
    BY <1>1, <2>4 DEF Sound, SaleOps
  <2> QED
    BY <1>3, <2>1, <2>3, <2>4, <2>5, RunsSound DEF Transaction, DropOversales
<1>4. CASE ReadMoves(s)
  <2>1. PICK plan : plan = NetTakenByLot(taken[tx[s].owner])
    OBVIOUS
  <2>2. tx[s].owner \in Holders
    BY <1>1 DEF Sale, Holders
  <2>3. /\ plan \in [LotIds -> Int]
        /\ \A l \in LotIds : lots[l] = NoLot => plan[l] = 0
    BY <2>1, <2>2 DEF IInv, TypeOK, TakenFromLots, NetTakenByLot, AtLeast0
  <2>4. PICK t : t = [tx[s] EXCEPT !.pc = "moving", !.plan = plan]
    OBVIOUS
  <2>5. /\ t \in Sale /\ t.op = tx[s].op /\ t.pc # "locked"
        /\ t.plan = plan /\ t.change = tx[s].change
    BY <1>1, <2>3, <2>4 DEF Sale
  <2>6. Sound(t) /\ t.op # "entry"
    BY <1>1, <2>3, <2>5 DEF Sound, SaleOps
  <2> QED
    BY <1>4, <2>1, <2>4, <2>5, <2>6, RunsSound DEF Transaction, ReadMoves
<1> QED
  BY <1>2, <1>3, <1>4

\* MoveLot: only a lot that is there is moved.
LEMMA MoveLotSound ==
  ASSUME IInv, NEW s \in Sessions, MoveLot(s)
  PROVE  IInv'
<1>1. tx[s] \in Transaction /\ Sound(tx[s]) /\ tx[s].op \in SaleOps \cup {"count"}
  BY DEF IInv, TypeOK, SoundTransactions, MoveLot, Moving
<1>2. PICK l \in Planned(s) :
        Runs(s, [tx[s] EXCEPT !.plan[l] = 0, !.locked = @ \cup {l},
                              !.change[l] = @ + tx[s].plan[l]])
  BY DEF MoveLot
<1>3. l \in LotIds /\ tx[s].plan[l] # 0
  BY DEF Planned
<1>4. PICK t : t = [tx[s] EXCEPT !.plan[l] = 0, !.locked = @ \cup {l},
                                !.change[l] = @ + tx[s].plan[l]]
  OBVIOUS
<1>5. lots[l] # NoLot
  BY <1>1, <1>3 DEF Sound
<1>6. /\ t \in Transaction /\ t.op = tx[s].op
      /\ t.op \in SaleOps => t.pc = tx[s].pc /\ t.todo = tx[s].todo
      /\ \A k \in LotIds \ {l} : t.plan[k] = tx[s].plan[k] /\ t.change[k] = tx[s].change[k]
  <2>1. CASE tx[s].op \in SaleOps
    <3>1. tx[s] \in Sale
      BY <1>1, <2>1, Kinds
    <3>2. tx[s].plan[l] \in Int /\ tx[s].change[l] \in Int
      BY <1>3, <3>1 DEF Sale
    <3>3. t \in Sale
      <4>1. PICK plan : plan = [tx[s].plan EXCEPT ![l] = 0]
        OBVIOUS
      <4>2. PICK change : change = [tx[s].change EXCEPT ![l] = @ + tx[s].plan[l]]
        OBVIOUS
      <4>3. tx[s].plan \in [LotIds -> Int] /\ tx[s].change \in [LotIds -> Int]
        BY <3>1 DEF Sale
      <4>4. plan \in [LotIds -> Int] /\ change \in [LotIds -> Int]
        BY <1>3, <3>2, <4>1, <4>2, <4>3
      <4>5. t = [tx[s] EXCEPT !.plan = plan, !.locked = @ \cup {l}, !.change = change]
        BY <1>4, <3>1, <4>1, <4>2 DEF Sale
      <4> QED
        BY <1>3, <3>1, <4>4, <4>5 DEF Sale
    <3> QED
      BY <1>3, <1>4, <3>1, <3>3 DEF Sale, Transaction
  <2>2. CASE tx[s].op = "count"
    <3>1. tx[s] \in StockCount
      BY <1>1, <2>2, Kinds
    <3>2. tx[s].plan[l] \in Int /\ tx[s].change[l] \in Int
      BY <1>3, <3>1 DEF StockCount
    <3>3. t \in StockCount
      <4>1. PICK plan : plan = [tx[s].plan EXCEPT ![l] = 0]
        OBVIOUS
      <4>2. PICK change : change = [tx[s].change EXCEPT ![l] = @ + tx[s].plan[l]]
        OBVIOUS
      <4>3. tx[s].plan \in [LotIds -> Int] /\ tx[s].change \in [LotIds -> Int]
        BY <3>1 DEF StockCount
      <4>4. plan \in [LotIds -> Int] /\ change \in [LotIds -> Int]
        BY <1>3, <3>2, <4>1, <4>2, <4>3
      <4>5. t = [tx[s] EXCEPT !.plan = plan, !.locked = @ \cup {l}, !.change = change]
        BY <1>4, <3>1, <4>1, <4>2 DEF StockCount
      <4> QED
        BY <1>3, <3>1, <4>4, <4>5 DEF StockCount
    <3> QED
      BY <1>3, <1>4, <2>2, <3>1, <3>3 DEF StockCount, Transaction, SaleOps
  <2> QED
    BY <1>1, <2>1, <2>2
<1>7. Sound(t) /\ t.op # "entry"
  BY <1>1, <1>3, <1>5, <1>6 DEF Sound, SaleOps
<1> QED
  BY <1>2, <1>4, <1>6, <1>7, RunsSound DEF MoveLot

\* LockLots: there is a need left to plan.
LEMMA LockLotsSound ==
  ASSUME IInv, NEW s \in Sessions, LockLots(s)
  PROVE  IInv'
<1>1. /\ tx[s] \in Sale /\ Sound(tx[s]) /\ tx[s].op \in SaleOps /\ tx[s].todo # <<>>
      /\ tx[s].todo \in Seq(SaleNeed)
  BY Kinds DEF IInv, TypeOK, SoundTransactions, LockLots, NextNeed, Sale
<1>2. LotsToLock(s) \in SUBSET LotIds
  <2>1. Head(tx[s].todo) \in SaleNeed
    BY <1>1
  <2>2. Head(tx[s].todo).supply \in Supplies /\ Moving(s)
    BY <1>1, <2>1 DEF SaleNeed, Moving
  <2> QED
    BY <2>2, SeenBalanceType DEF LotsToLock, InStock, IInv
<1>3. PICK t : t = [tx[s] EXCEPT !.pc = "locked", !.locked = @ \cup LotsToLock(s)]
  OBVIOUS
<1>4. /\ t \in Sale /\ t.op = tx[s].op /\ t.todo = tx[s].todo
      /\ t.plan = tx[s].plan /\ t.change = tx[s].change
  BY <1>1, <1>2, <1>3 DEF Sale
<1>5. Sound(t) /\ t.op # "entry"
  BY <1>1, <1>4 DEF Sound, SaleOps
<1> QED
  BY <1>3, <1>4, <1>5, RunsSound DEF LockLots, Transaction

\* The plan written from the takes of a sale or a count.
LEMMA PlanType ==
  ASSUME TypeOK, NEW s \in Sessions, Moving(s), NEW u \in Supplies, NEW units \in Int,
         NEW takes, takes = TakeInExpiryOrder(SeenBalance(s, u), ExpiryOf, units),
         NEW plan, plan = [l \in LotIds |-> IF l \in DOMAIN takes THEN -takes[l] ELSE 0]
  PROVE  /\ plan \in [LotIds -> Int]
         /\ \A l \in LotIds : lots[l] = NoLot => plan[l] = 0
<1>1. PICK balance : balance = SeenBalance(s, u)
  OBVIOUS
<1>2. /\ DOMAIN balance \subseteq InStock
      /\ IsFiniteSet(DOMAIN balance)
      /\ \A l \in DOMAIN balance : balance[l] \in Nat
  BY <1>1, SeenBalanceType
<1>3. /\ DOMAIN takes = DOMAIN balance
      /\ \A l \in DOMAIN balance : takes[l] \in 0 .. balance[l]
  BY <1>1, <1>2, TakesType
<1>4. \A l \in DOMAIN takes : takes[l] \in Int
  BY <1>2, <1>3
<1> QED
  BY <1>2, <1>3, <1>4 DEF InStock

\* PlanSale: the plan is over lots in stock.
LEMMA PlanSaleSound ==
  ASSUME IInv, NEW s \in Sessions, PlanSale(s)
  PROVE  IInv'
<1>1. /\ tx[s] \in Sale /\ Sound(tx[s]) /\ tx[s].op \in SaleOps /\ tx[s].todo # <<>>
      /\ tx[s].todo \in Seq(SaleNeed) /\ TypeOK /\ Moving(s)
  BY Kinds DEF IInv, TypeOK, SoundTransactions, PlanSale, Sound, Sale, Moving
<1>2. PICK need : need = Head(tx[s].todo)
  OBVIOUS
<1>3. need.supply \in Supplies /\ need.units \in Nat /\ Tail(tx[s].todo) \in Seq(SaleNeed)
  <2>1. need \in SaleNeed /\ Tail(tx[s].todo) \in Seq(SaleNeed)
    BY <1>1, <1>2
  <2> QED
    BY <2>1 DEF SaleNeed
<1>4. PICK balance : balance = SeenBalance(s, need.supply)
  OBVIOUS
<1>5. PICK takes : takes = TakeInExpiryOrder(balance, ExpiryOf, need.units)
  OBVIOUS
<1>6. PICK plan : plan = [l \in LotIds |-> IF l \in DOMAIN takes THEN -takes[l] ELSE 0]
  OBVIOUS
<1>7. /\ plan \in [LotIds -> Int]
      /\ \A l \in LotIds : lots[l] = NoLot => plan[l] = 0
  BY <1>1, <1>3, <1>4, <1>5, <1>6, PlanType
<1>8. MissingOf(balance, need.units) \in Nat
  <2>1. /\ IsFiniteSet(DOMAIN balance)
        /\ \A l \in DOMAIN balance : balance[l] \in Nat
    BY <1>1, <1>3, <1>4, SeenBalanceType
  <2>2. need.units \in Int
    BY <1>3
  <2> QED
    BY <2>1, <2>2, RestType
<1>9. PICK t : t = [tx[s] EXCEPT !.pc = "moving", !.todo = NeedsLeft(s), !.plan = plan,
                       !.short[need.supply] = MissingOf(balance, need.units)]
  OBVIOUS
<1>10. Runs(s, t) /\ UNCHANGED Tables
  BY <1>2, <1>4, <1>5, <1>6, <1>9 DEF PlanSale
<1>11. /\ t \in Sale /\ t.op = tx[s].op /\ t.pc = "moving"
       /\ t.plan = plan /\ t.change = tx[s].change
  BY <1>1, <1>3, <1>7, <1>8, <1>9 DEF Sale, NeedsLeft
<1>12. Sound(t) /\ t.op # "entry"
  BY <1>1, <1>7, <1>11 DEF Sound, SaleOps
<1> QED
  BY <1>10, <1>11, <1>12, RunsSound DEF Transaction

\* PlanCount: the plan is over lots in stock.
LEMMA PlanCountSound ==
  ASSUME IInv, NEW s \in Sessions, PlanCount(s)
  PROVE  IInv'
<1>1. tx[s] \in StockCount /\ Sound(tx[s]) /\ tx[s].op = "count" /\ TypeOK /\ Moving(s)
  BY Kinds DEF IInv, TypeOK, SoundTransactions, PlanCount, Moving
<1>2. tx[s].supply \in Supplies /\ tx[s].quantity \in Nat
  BY <1>1 DEF StockCount
<1>3. PICK balance : balance = SeenBalance(s, tx[s].supply)
  OBVIOUS
<1>4. ExcessOf(balance, tx[s].quantity) \in Nat /\ SurplusOf(balance, tx[s].quantity) \in Nat
  BY <1>1, <1>2, <1>3, SeenBalanceType, RestType
<1>5. PICK takes :
        takes = TakeInExpiryOrder(balance, ExpiryOf, ExcessOf(balance, tx[s].quantity))
  OBVIOUS
<1>6. PICK plan : plan = [l \in LotIds |-> IF l \in DOMAIN takes THEN -takes[l] ELSE 0]
  OBVIOUS
<1>7. /\ plan \in [LotIds -> Int]
      /\ \A l \in LotIds : lots[l] = NoLot => plan[l] = 0
  BY <1>1, <1>2, <1>3, <1>4, <1>5, <1>6, PlanType
<1>8. PICK t : t = [tx[s] EXCEPT !.pc = "moving", !.plan = plan,
                      !.surplus = SurplusOf(balance, tx[s].quantity)]
  OBVIOUS
<1>9. Runs(s, t) /\ UNCHANGED Tables
  BY <1>3, <1>5, <1>6, <1>8 DEF PlanCount
<1>10. /\ t \in StockCount /\ t.op = "count"
       /\ t.plan = plan /\ t.change = tx[s].change
  BY <1>1, <1>4, <1>7, <1>8 DEF StockCount
<1>11. Sound(t)
  BY <1>1, <1>7, <1>10 DEF Sound, SaleOps
<1> QED
  BY <1>9, <1>10, <1>11, RunsSound DEF Transaction

\* Writing the changes of a transaction makes no lot appear or go.
LEMMA LotsAfterType ==
  ASSUME TypeOK, NEW change \in [LotIds -> Int],
         \A l \in LotIds : lots[l] = NoLot => change[l] = 0
  PROVE  /\ LotsAfter(change) \in [LotIds -> Lot \cup {NoLot}]
         /\ \A l \in LotIds : LotsAfter(change)[l] = NoLot <=> lots[l] = NoLot
<1>1. NoLot \notin Lot
  BY StockAssumption
<1>2. ASSUME NEW l \in LotIds
      PROVE  /\ LotsAfter(change)[l] \in Lot \cup {NoLot}
             /\ LotsAfter(change)[l] = NoLot <=> lots[l] = NoLot
  <2>1. CASE change[l] = 0
    BY <2>1 DEF LotsAfter, TypeOK
  <2>2. CASE change[l] # 0
    <3>1. lots[l] \in Lot
      BY <2>2 DEF TypeOK
    <3>a. PICK n \in Int : n = lots[l].remaining + change[l]
      BY <3>1 DEF Lot
    <3>2. LotsAfter(change)[l] = [lots[l] EXCEPT !.remaining = n, !.moved = TRUE]
      BY <2>2, <3>1, <3>a DEF LotsAfter, Lot
    <3>3. LotsAfter(change)[l] \in Lot
      BY <3>1, <3>2 DEF Lot
    <3> QED
      BY <1>1, <3>1, <3>3
  <2> QED
    BY <2>1, <2>2
<1>3. PICK f : f = LotsAfter(change)
  OBVIOUS
<1>4. f = [l \in LotIds |-> f[l]]
  BY <1>3 DEF LotsAfter
<1> QED
  BY <1>2, <1>3, <1>4

\* The movements of a sale are on lots that are there.
LEMMA TakenAfterType ==
  ASSUME TypeOK, TakenFromLots, NEW t \in Sale,
         \A l \in LotIds : lots[l] = NoLot => t.change[l] = 0
  PROVE  /\ TakenAfter(t) \in [Holders -> [LotIds -> Int]]
         /\ \A o \in Holders, l \in LotIds : lots[l] = NoLot => TakenAfter(t)[o][l] = 0
<1>1. t.owner \in Holders /\ None \in Holders /\ t.change \in [LotIds -> Int]
  BY DEF Sale, Holders
<1>2. PICK mine : mine = [l \in LotIds |-> taken[t.owner][l] - t.change[l]]
  OBVIOUS
<1>3. \A o \in Holders, l \in LotIds : taken[o][l] \in Int
  BY DEF TypeOK
<1>4. mine \in [LotIds -> Int] /\ \A l \in LotIds : lots[l] = NoLot => mine[l] = 0
  BY <1>1, <1>2, <1>3 DEF TakenFromLots
<1>5. CASE t.op = "remove"
  <2>1. PICK nobodys : nobodys = [l \in LotIds |-> taken[None][l] + mine[l]]
    OBVIOUS
  <2>2. nobodys \in [LotIds -> Int] /\ \A l \in LotIds : lots[l] = NoLot => nobodys[l] = 0
    BY <1>1, <1>3, <1>4, <2>1 DEF TakenFromLots
  <2>3. NoChange \in [LotIds -> Int] /\ \A l \in LotIds : NoChange[l] = 0
    BY DEF NoChange
  <2>4. None # t.owner
    BY StockAssumption DEF Sale
  <2>5. TakenAfter(t) = [taken EXCEPT ![t.owner] = NoChange, ![None] = nobodys]
    BY <1>1, <1>2, <1>5, <2>1, <2>4 DEF TakenAfter, TypeOK
  <2> QED
    BY <1>1, <1>3, <2>2, <2>3, <2>5 DEF TypeOK, TakenFromLots
<1>6. CASE t.op # "remove"
  <2>1. TakenAfter(t) = [taken EXCEPT ![t.owner] = mine]
    BY <1>2, <1>6 DEF TakenAfter
  <2> QED
    BY <1>1, <1>4, <2>1 DEF TypeOK, TakenFromLots
<1> QED
  BY <1>5, <1>6

\* Rows without their owner are rows still.
LEMMA DisownedType ==
  ASSUME NEW t \in Sale, NEW rows \in SUBSET Oversale, IsFiniteSet(rows)
  PROVE  Disowned(t, rows) \in SUBSET Oversale /\ IsFiniteSet(Disowned(t, rows))
<1> DEFINE Now(r) == IF t.op = "remove" /\ r.owner = t.owner
                     THEN [r EXCEPT !.owner = None] ELSE r
<1>1. ASSUME NEW r \in rows
      PROVE  Now(r) \in Oversale
  <2>1. r \in Oversale /\ None \in Holders
    BY DEF Holders
  <2> QED
    BY <2>1 DEF Oversale
<1>2. Disowned(t, rows) = {Now(r) : r \in rows}
  BY DEF Disowned
<1> HIDE DEF Now
<1>3. PICK f : f = [r \in rows |-> Now(r)]
  OBVIOUS
<1>4. {f[r] : r \in rows} = {Now(r) : r \in rows}
  BY <1>3
<1> QED
  BY <1>1, <1>2, <1>4, FiniteImage

\* recordOversale writes rows, one at most for each need.
LEMMA ShortRowsType ==
  ASSUME TypeOK, NEW t \in Sale
  PROVE  ShortRows(t) \in SUBSET Oversale /\ IsFiniteSet(ShortRows(t))
<1> DEFINE Row(i) == [id |-> lastId + i, owner |-> t.owner, supply |-> t.needs[i].supply,
                      quantity |-> t.short[t.needs[i].supply]]
<1>1. PICK I : I = {j \in DOMAIN t.needs : t.short[t.needs[j].supply] > 0}
  OBVIOUS
<1>2. t.needs \in Seq(SaleNeed) /\ t.owner \in Holders /\ t.short \in [Supplies -> Nat]
  BY DEF Sale, Holders
<1>3. PICK n \in Nat : n = Len(t.needs) /\ DOMAIN t.needs = 1 .. n
  BY <1>2
<1>4. I \in SUBSET (1 .. n) /\ IsFiniteSet(1 .. n)
  BY <1>1, <1>3, FS_Interval
<1>5. IsFiniteSet(I)
  <2>1. PICK K : K = 1 .. n
    OBVIOUS
  <2> QED
    BY <1>4, <2>1, FS_Subset
<1>6. ASSUME NEW i \in I
      PROVE  Row(i) \in Oversale
  <2>1. i \in Nat /\ t.needs[i] \in SaleNeed /\ t.short[t.needs[i].supply] > 0
    BY <1>1, <1>2, <1>3
  <2>2. t.needs[i].supply \in Supplies
    BY <2>1 DEF SaleNeed
  <2>3. t.short[t.needs[i].supply] \in Nat \ {0}
    BY <1>2, <2>1, <2>2
  <2>4. lastId + i \in Nat
    BY <2>1 DEF TypeOK
  <2> QED
    BY <1>2, <2>2, <2>3, <2>4 DEF Oversale
<1>7. ShortRows(t) = {Row(i) : i \in I}
  BY <1>1 DEF ShortRows
<1> HIDE DEF Row
<1>8. PICK f : f = [i \in I |-> Row(i)]
  OBVIOUS
<1>9. {f[i] : i \in I} = {Row(i) : i \in I}
  BY <1>8
<1> QED
  BY <1>5, <1>6, <1>7, <1>9, FiniteImage

\* CommitSale.
LEMMA CommitSaleSound ==
  ASSUME IInv, NEW s \in Sessions, CommitSale(s)
  PROVE  IInv'
<1>1. PICK t : t = tx[s]
  OBVIOUS
<1>2. /\ t \in Sale /\ Sound(t) /\ t.op \in SaleOps
      /\ TypeOK /\ TakenFromLots
  BY <1>1, Kinds DEF IInv, TypeOK, SoundTransactions, CommitSale
<1>3. /\ t.change \in [LotIds -> Int] /\ t.owner \in Owners /\ t.needs \in Seq(SaleNeed)
      /\ \A l \in LotIds : lots[l] = NoLot => t.change[l] = 0
  BY <1>2 DEF Sale, Sound
<1>4. /\ lots' \in [LotIds -> Lot \cup {NoLot}]
      /\ \A l \in LotIds : lots'[l] = NoLot <=> lots[l] = NoLot
  BY <1>1, <1>2, <1>3, LotsAfterType DEF CommitSale
<1>5. taken' \in [Holders -> [LotIds -> Int]] /\ TakenFromLots'
  BY <1>1, <1>2, <1>3, <1>4, TakenAfterType DEF CommitSale, TakenFromLots
<1>6. oversales' \subseteq Oversale /\ IsFiniteSet(oversales')
  <2>1. PICK rows : rows = {r \in oversales : r.id \notin t.dropped}
    OBVIOUS
  <2>2. rows \in SUBSET Oversale /\ IsFiniteSet(rows)
    BY <1>2, <2>1, FS_Subset DEF TypeOK
  <2>3. oversales' = Disowned(t, rows) \cup ShortRows(t)
    BY <1>1, <2>1 DEF CommitSale
  <2> QED
    BY <1>2, <2>2, <2>3, DisownedType, ShortRowsType, FS_Union
<1>7. lastId' \in Nat
  BY <1>1, <1>2, <1>3 DEF CommitSale, TypeOK
<1>8. owners' \in [Owners -> Owner]
  <2>1. owners[t.owner] \in Owner /\ t.live \in BOOLEAN
    BY <1>2, <1>3 DEF TypeOK, Sale
  <2>2. PICK told \in Seq(SaleNeed) : told = IF t.live THEN t.needs ELSE owners[t.owner].told
    BY <1>3, <2>1 DEF Owner
  <2>3. OwnerAfter(t) \in Owner
    BY <1>2, <1>3, <2>1, <2>2 DEF OwnerAfter, Owner, SaleOps
  <2> QED
    BY <1>1, <1>2, <1>3, <2>3 DEF CommitSale, TypeOK
<1>9. tx' = [tx EXCEPT ![s] = Idle] /\ live' = live /\ asked' = asked
  BY DEF CommitSale, Runs
<1>10. TypeOK'
  <2>1. tx' \in [Sessions -> Transaction]
    BY <1>2, <1>9 DEF TypeOK, Transaction
  <2> QED
    BY <1>2, <1>4, <1>5, <1>6, <1>7, <1>8, <1>9, <2>1 DEF TypeOK
<1>11. ASSUME NEW r \in Sessions, tx[r].op = "entry"
       PROVE  lots'[tx[r].lot] = NoLot
  <2>1. tx[r] \in Entry /\ lots[tx[r].lot] = NoLot
    BY <1>11, Kinds DEF IInv, TypeOK, SoundTransactions, Sound
  <2> QED
    BY <1>4, <2>1 DEF Entry
<1> QED
  BY <1>4, <1>5, <1>9, <1>10, <1>11, CommitSound

\* createLot makes a lot.
LEMMA NewLotType ==
  ASSUME NEW u \in Supplies, NEW quantity \in Nat \ {0}, NEW expires \in Expiries,
         NEW entry \in BOOLEAN, NEW settled \in Int
  PROVE  /\ NewLot(u, quantity, expires, entry, settled) \in Lot
         /\ NewLot(u, quantity, expires, entry, settled) # NoLot
<1>1. quantity - settled \in Int
  OBVIOUS
<1>2. NewLot(u, quantity, expires, entry, settled) \in Lot
  BY <1>1 DEF NewLot, Lot
<1> QED
  BY <1>2, StockAssumption

\* What is left of the oversales after an entry are oversales of more than nothing.
LEMMA SettledType ==
  ASSUME TypeOK, NEW covers \in SUBSET Cover
  PROVE  Settled(covers) \in SUBSET Oversale /\ IsFiniteSet(Settled(covers))
<1> DEFINE Left(r) == [r EXCEPT !.quantity = LeftOf(covers, r)]
<1>1. PICK gone : gone = {r \in oversales : r.id \notin IdsOf(covers)}
  OBVIOUS
<1>2. PICK partly : partly = {q \in oversales : q.id \in IdsOf(covers) /\ LeftOf(covers, q) > 0}
  OBVIOUS
<1>3. /\ gone \in SUBSET Oversale /\ IsFiniteSet(gone)
      /\ partly \in SUBSET Oversale /\ IsFiniteSet(partly)
  BY <1>1, <1>2, FS_Subset DEF TypeOK
<1>4. ASSUME NEW r \in partly
      PROVE  Left(r) \in Oversale
  <2>1. r \in Oversale /\ r.id \in IdsOf(covers) /\ LeftOf(covers, r) > 0
    BY <1>2, <1>3
  <2>2. CoverOf(covers, r) \in Cover
    BY <2>1 DEF CoverOf, IdsOf
  <2>3. LeftOf(covers, r) \in Nat \ {0}
    BY <2>1, <2>2 DEF LeftOf, Cover
  <2> QED
    BY <2>1, <2>3 DEF Oversale
<1>5. Settled(covers) = gone \cup {Left(r) : r \in partly}
  BY <1>1, <1>2 DEF Settled
<1> HIDE DEF Left
<1>6. PICK f : f = [r \in partly |-> Left(r)]
  OBVIOUS
<1>7. {f[r] : r \in partly} = {Left(r) : r \in partly}
  BY <1>6
<1>8. IsFiniteSet({Left(r) : r \in partly})
  BY <1>3, <1>7, FiniteImage
<1> QED
  BY <1>3, <1>4, <1>5, <1>8, FS_Union

\* CommitEntry: the lot's id is still nobody's.
LEMMA CommitEntrySound ==
  ASSUME IInv, NEW s \in Sessions, CommitEntry(s)
  PROVE  IInv'
<1>1. PICK t : t = tx[s]
  OBVIOUS
<1>2. /\ t \in Entry /\ Sound(t) /\ t.op = "entry"
      /\ TypeOK /\ TakenFromLots
  BY <1>1, Kinds DEF IInv, TypeOK, SoundTransactions, CommitEntry
<1>3. /\ t.lot \in LotIds /\ t.supply \in Supplies /\ t.quantity \in Nat \ {0}
      /\ t.expires \in Expiries /\ t.covers \in SUBSET Cover
      /\ IsFiniteSet(t.covers) /\ lots[t.lot] = NoLot
  BY <1>2 DEF Entry, Sound
<1>4. UnitsOf(t.covers) \in Int
  BY <1>3, UnitsType DEF Cover
<1>5. PICK new \in Lot :
        /\ new = NewLot(t.supply, t.quantity, t.expires, TRUE, UnitsOf(t.covers))
        /\ new # NoLot
  BY <1>3, <1>4, NewLotType
<1>6. lots' = [lots EXCEPT ![t.lot] = new]
  BY <1>1, <1>5 DEF CommitEntry
<1>7. /\ lots' \in [LotIds -> Lot \cup {NoLot}]
      /\ \A l \in LotIds : lots'[l] = NoLot => lots[l] = NoLot /\ l # t.lot
  BY <1>2, <1>3, <1>5, <1>6 DEF TypeOK
<1>8. taken' \in [Holders -> [LotIds -> Int]] /\ TakenFromLots'
  <2>1. PICK f : f = [o \in Holders |-> UnitsOf({c \in t.covers : c.owner = o})]
    OBVIOUS
  <2>2. \A o \in Holders : f[o] \in Int
    <3> TAKE o \in Holders
    <3>1. PICK mine : mine = {c \in t.covers : c.owner = o}
      OBVIOUS
    <3>2. IsFiniteSet(mine) /\ mine \in SUBSET Cover
      BY <1>3, <3>1, FS_Subset
    <3>3. UnitsOf(mine) \in Int
      BY <3>2, UnitsType DEF Cover
    <3> QED
      BY <2>1, <3>1, <3>3
  <2>3. taken' = [o \in Holders |-> [taken[o] EXCEPT ![t.lot] = @ + f[o]]]
    BY <1>1, <2>1 DEF CommitEntry
  <2>4. ASSUME NEW o \in Holders
        PROVE  /\ taken'[o] \in [LotIds -> Int]
               /\ \A l \in LotIds \ {t.lot} : taken'[o][l] = taken[o][l]
    <3>1. taken[o] \in [LotIds -> Int] /\ taken[o][t.lot] \in Int
      BY <1>2, <1>3 DEF TypeOK
    <3>2. PICK n \in Int : n = taken[o][t.lot] + f[o]
      BY <2>2, <3>1
    <3>3. taken'[o] = [taken[o] EXCEPT ![t.lot] = n]
      BY <2>3, <3>1, <3>2
    <3> QED
      BY <1>3, <3>1, <3>3
  <2>5. taken' \in [Holders -> [LotIds -> Int]]
    BY <2>3, <2>4
  <2> QED
    BY <1>2, <1>7, <2>4, <2>5 DEF TakenFromLots
<1>9. oversales' \subseteq Oversale /\ IsFiniteSet(oversales')
  BY <1>1, <1>2, <1>3, SettledType DEF CommitEntry
<1>10. tx' = [tx EXCEPT ![s] = Idle] /\ UNCHANGED <<lastId, owners, live, asked>>
  BY DEF CommitEntry, Runs
<1>11. TypeOK'
  <2>1. tx' \in [Sessions -> Transaction]
    BY <1>2, <1>10 DEF TypeOK, Transaction
  <2> QED
    BY <1>2, <1>7, <1>8, <1>9, <1>10, <2>1 DEF TypeOK
<1>12. ASSUME NEW r \in Sessions \ {s}, tx[r].op = "entry"
       PROVE  lots'[tx[r].lot] = NoLot
  <2>1. tx[r] \in Entry /\ lots[tx[r].lot] = NoLot
    BY <1>12, Kinds DEF IInv, TypeOK, SoundTransactions, Sound
  <2>2. tx[r].lot # t.lot
    BY <1>1, <1>2, <1>12 DEF IInv, DrawnOnce
  <2> QED
    BY <1>2, <1>3, <1>6, <2>1, <2>2 DEF Entry, TypeOK
<1> QED
  BY <1>7, <1>8, <1>10, <1>11, <1>12, CommitSound

\* CommitCount: so is the surplus lot's.
LEMMA CommitCountSound ==
  ASSUME IInv, NEW s \in Sessions, CommitCount(s)
  PROVE  IInv'
<1>1. PICK t : t = tx[s]
  OBVIOUS
<1>2. /\ t \in StockCount /\ Sound(t) /\ t.op = "count"
      /\ TypeOK /\ TakenFromLots
  BY <1>1, Kinds DEF IInv, TypeOK, SoundTransactions, CommitCount
<1>3. /\ t.change \in [LotIds -> Int] /\ t.supply \in Supplies /\ t.surplus \in Nat
      /\ \A l \in LotIds : lots[l] = NoLot => t.change[l] = 0
  BY <1>2 DEF StockCount, Sound
<1>4. PICK counted : counted = LotsCounted(t.change)
  OBVIOUS
<1>5. /\ counted \in [LotIds -> Lot \cup {NoLot}]
      /\ \A l \in LotIds : counted[l] = NoLot <=> lots[l] = NoLot
  <2>1. NoLot \notin Lot
    BY StockAssumption
  <2>2. ASSUME NEW l \in LotIds
        PROVE  /\ counted[l] \in Lot \cup {NoLot}
               /\ counted[l] = NoLot <=> lots[l] = NoLot
    <3>1. CASE t.change[l] = 0
      BY <1>2, <1>4, <3>1 DEF LotsCounted, TypeOK
    <3>2. CASE t.change[l] # 0
      <4>1. PICK after : after = LotsAfter(t.change)[l]
        OBVIOUS
      <4>2. after \in Lot /\ lots[l] # NoLot
        BY <1>2, <1>3, <2>1, <3>2, <4>1, LotsAfterType
      <4>3. PICK n \in Int : n = after.counted + t.change[l]
        BY <1>3, <4>2 DEF Lot
      <4>4. counted[l] = [after EXCEPT !.counted = n]
        BY <1>4, <3>2, <4>1, <4>2, <4>3 DEF LotsCounted, Lot
      <4>5. counted[l] \in Lot
        BY <4>2, <4>4 DEF Lot
      <4> QED
        BY <2>1, <4>2, <4>5
    <3> QED
      BY <3>1, <3>2
  <2>3. counted = [l \in LotIds |-> counted[l]]
    BY <1>4 DEF LotsCounted
  <2> QED
    BY <2>2, <2>3
<1>6. /\ lots' \in [LotIds -> Lot \cup {NoLot}]
      /\ \A l \in LotIds : lots'[l] = NoLot => lots[l] = NoLot
      /\ \A l \in LotIds : lots[l] = NoLot /\ lots'[l] # NoLot => NextLot(l)
  <2>1. CASE t.surplus = 0
    BY <1>1, <1>4, <1>5, <2>1 DEF CommitCount
  <2>2. CASE t.surplus # 0
    <3>1. PICK l \in LotIds :
            /\ NextLot(l)
            /\ lots' = [counted EXCEPT ![l] = NewLot(t.supply, t.surplus, NoDate, FALSE, 0)]
      BY <1>1, <1>4, <2>2 DEF CommitCount
    <3>2. PICK n : n = t.surplus
      OBVIOUS
    <3>3. PICK u : u = t.supply
      OBVIOUS
    <3>4. n \in Nat \ {0} /\ u \in Supplies /\ NoDate \in Expiries /\ 0 \in Int
      BY <1>3, <2>2, <3>2, <3>3, StockAssumption
    <3>5. NewLot(u, n, NoDate, FALSE, 0) \in Lot /\ NewLot(u, n, NoDate, FALSE, 0) # NoLot
      BY <3>4, NewLotType
    <3>6. PICK new : new = NewLot(u, n, NoDate, FALSE, 0)
      OBVIOUS
    <3>7. lots' = [counted EXCEPT ![l] = new] /\ new \in Lot /\ new # NoLot
      BY <3>1, <3>2, <3>3, <3>5, <3>6
    <3> QED
      BY <1>5, <3>1, <3>7
  <2> QED
    BY <2>1, <2>2
<1>7. /\ tx' = [tx EXCEPT ![s] = Idle]
      /\ UNCHANGED <<taken, lastId, owners, live, asked>>
      /\ oversales' \in SUBSET oversales
  BY DEF CommitCount, Runs
<1>8. TypeOK'
  <2>1. tx' \in [Sessions -> Transaction]
    BY <1>2, <1>7 DEF TypeOK, Transaction
  <2>2. oversales' \subseteq Oversale /\ IsFiniteSet(oversales')
    BY <1>2, <1>7, FS_Subset DEF TypeOK
  <2> QED
    BY <1>2, <1>6, <1>7, <2>1, <2>2 DEF TypeOK
<1>9. ASSUME NEW r \in Sessions \ {s}, tx[r].op = "entry"
      PROVE  lots'[tx[r].lot] = NoLot
  <2>1. tx[r] \in Entry /\ lots[tx[r].lot] = NoLot
    BY <1>9, Kinds DEF IInv, TypeOK, SoundTransactions, Sound
  <2>2. ~NextLot(tx[r].lot)
    BY <1>9 DEF NextLot, Drawn
  <2> QED
    BY <1>6, <2>1, <2>2 DEF Entry
<1>10. TakenFromLots'
  BY <1>2, <1>6, <1>7 DEF TakenFromLots
<1> QED
  BY <1>6, <1>7, <1>8, <1>9, <1>10, CommitSound

\* CommitReverse: the lot is there.
LEMMA CommitReverseSound ==
  ASSUME IInv, NEW s \in Sessions, CommitReverse(s)
  PROVE  IInv'
<1>1. PICK l : l = tx[s].lot
  OBVIOUS
<1>2. l \in LotIds /\ lots[l] # NoLot /\ TypeOK /\ TakenFromLots
  BY <1>1, Kinds DEF IInv, TypeOK, SoundTransactions, Sound, CommitReverse, Reversal
<1>3. PICK new : new = [lots[l] EXCEPT !.remaining = 0, !.reversed = TRUE, !.moved = TRUE]
  OBVIOUS
<1>4. new \in Lot /\ new # NoLot
  <2>1. lots[l] \in Lot
    BY <1>2 DEF TypeOK
  <2>2. new = [supply |-> lots[l].supply, quantity |-> lots[l].quantity, remaining |-> 0,
               expires |-> lots[l].expires, entry |-> lots[l].entry, reversed |-> TRUE,
               counted |-> lots[l].counted, moved |-> TRUE]
    BY <1>3, <2>1 DEF Lot
  <2>3. new \in Lot
    BY <2>1, <2>2 DEF Lot
  <2> QED
    BY <2>3, StockAssumption
<1>5. lots' = [lots EXCEPT ![l] = new]
  BY <1>1, <1>2, <1>3 DEF CommitReverse, TypeOK
<1>6. /\ lots' \in [LotIds -> Lot \cup {NoLot}]
      /\ \A k \in LotIds : lots'[k] = NoLot <=> lots[k] = NoLot
  BY <1>2, <1>4, <1>5 DEF TypeOK
<1>7. tx' = [tx EXCEPT ![s] = Idle]
      /\ UNCHANGED <<taken, oversales, lastId, owners, live, asked>>
  BY DEF CommitReverse, Runs
<1>8. TypeOK'
  <2>1. tx' \in [Sessions -> Transaction]
    BY <1>2, <1>7 DEF TypeOK, Transaction
  <2> QED
    BY <1>2, <1>6, <1>7, <2>1 DEF TypeOK
<1>9. ASSUME NEW r \in Sessions, tx[r].op = "entry"
      PROVE  lots'[tx[r].lot] = NoLot
  <2>1. tx[r] \in Entry /\ lots[tx[r].lot] = NoLot
    BY <1>9, Kinds DEF IInv, TypeOK, SoundTransactions, Sound
  <2> QED
    BY <1>6, <2>1 DEF Entry
<1>10. TakenFromLots'
  BY <1>2, <1>6, <1>7 DEF TakenFromLots
<1> QED
  BY <1>6, <1>7, <1>8, <1>9, <1>10, CommitSound

\* Every step keeps the invariant.
LEMMA IInvInductive == IInv /\ [Next]_vars => IInv'
<1> SUFFICES ASSUME IInv, [Next]_vars PROVE IInv'
  OBVIOUS
<1>1. CASE UNCHANGED vars
  BY <1>1 DEF vars, IInv, TypeOK, SoundTransactions, Sound, DrawnOnce, TakenFromLots
<1>2. CASE NightEnds
  BY <1>2 DEF NightEnds, IInv, TypeOK, SoundTransactions, Sound, DrawnOnce, TakenFromLots
<1>3. ASSUME NEW s \in Sessions, Asks(s)
      PROVE  IInv'
  BY <1>3, SalesBegin, OthersBegin DEF Asks
<1>4. ASSUME NEW s \in Sessions, Advances(s)
      PROVE  IInv'
  BY <1>4, RowStepsSound, MoveLotSound, LockLotsSound, PlanSaleSound, CommitSaleSound,
     CommitEntrySound, PlanCountSound, CommitCountSound, CommitReverseSound DEF Advances
<1>5. ASSUME NEW s \in Sessions, RollBack(s)
      PROVE  IInv'
  <2>1. Idle \in Transaction /\ Sound(Idle) /\ Idle.op # "entry"
    BY DEF Transaction, Idle, Sound, SaleOps
  <2> QED
    BY <1>5, <2>1, RunsSound DEF RollBack
<1> QED
  BY <1>1, <1>2, <1>3, <1>4, <1>5 DEF Next

(***************************************************************************)
(* What the steps have in common.                                          *)
(***************************************************************************)

\* Next writes a lot or a movement only in a commit, and opens only operations
\* of Ops.
LEMMA StepKinds ==
  ASSUME NEW s \in Sessions, Asks(s) \/ Advances(s) \/ RollBack(s)
  PROVE  \/ CommitSale(s) \/ CommitEntry(s) \/ CommitCount(s) \/ CommitReverse(s)
         \/ UNCHANGED <<lots, taken>>
BY DEF Asks, BeginCreate, BeginConsume, BeginEdit, BeginCancel, BeginRestore,
   BeginRemove, BeginEntry, BeginCount, BeginReverse, Begins, Advances, LockFirst,
   DropOversales, ReadMoves, MoveLot, LockLots, PlanSale, PlanCount, RollBack, Tables

\* A transaction that changes after it began keeps its operation or ends.
LEMMA OperationKept ==
  ASSUME TypeOK, NEW s \in Sessions, Advances(s) \/ RollBack(s)
  PROVE  \E t : /\ tx' = [tx EXCEPT ![s] = t]
                /\ t.op \in {tx[s].op, "idle"}
<1>1. Idle.op = "idle"
  BY DEF Idle
<1>2. CASE RollBack(s) \/ CommitSale(s) \/ CommitEntry(s) \/ CommitCount(s) \/ CommitReverse(s)
  BY <1>1, <1>2 DEF RollBack, CommitSale, CommitEntry, CommitCount, CommitReverse, Runs
<1>3. PICK old : old = tx[s]
  OBVIOUS
<1>4. old.op \in SaleOps \cup {"count"} => old \in Sale \/ old \in StockCount
  BY <1>3, Kinds DEF TypeOK
<1>5. CASE LockFirst(s)
  <2>1. old \in Sale \/ old \in StockCount
    BY <1>3, <1>4, <1>5 DEF LockFirst, Moving, SaleOps
  <2>2. PICK t : Runs(s, t) /\ t.op = old.op
    BY <1>3, <1>5, <2>1 DEF LockFirst, Sale, StockCount
  <2> QED
    BY <1>3, <2>2 DEF Runs
<1>6. CASE DropOversales(s)
  <2>1. old \in Sale \/ old \in StockCount
    BY <1>3, <1>4, <1>6 DEF DropOversales, Moving, SaleOps
  <2>2. PICK a : Runs(s, [old EXCEPT !.pc = "moves", !.dropped = a])
    BY <1>3, <1>6, <2>1 DEF DropOversales, Sale, StockCount
  <2>3. [old EXCEPT !.pc = "moves", !.dropped = a].op = old.op
    BY <2>1 DEF Sale, StockCount
  <2> QED
    BY <1>3, <2>2, <2>3 DEF Runs
<1>7. CASE ReadMoves(s)
  <2>1. old \in Sale \/ old \in StockCount
    BY <1>3, <1>4, <1>7 DEF ReadMoves, Moving, SaleOps
  <2>2. PICK a : Runs(s, [old EXCEPT !.pc = "moving", !.plan = a])
    BY <1>3, <1>7, <2>1 DEF ReadMoves, Sale, StockCount
  <2>3. [old EXCEPT !.pc = "moving", !.plan = a].op = old.op
    BY <2>1 DEF Sale, StockCount
  <2> QED
    BY <1>3, <2>2, <2>3 DEF Runs
<1>8. CASE MoveLot(s)
  <2>1. old \in Sale \/ old \in StockCount
    BY <1>3, <1>4, <1>8 DEF MoveLot, Moving, SaleOps
  <2>2. PICK a, b, c : Runs(s, [old EXCEPT !.plan = a, !.locked = b, !.change = c])
    BY <1>3, <1>8, <2>1 DEF MoveLot, Sale, StockCount
  <2>3. [old EXCEPT !.plan = a, !.locked = b, !.change = c].op = old.op
    BY <2>1 DEF Sale, StockCount
  <2> QED
    BY <1>3, <2>2, <2>3 DEF Runs
<1>9. CASE LockLots(s)
  <2>1. old \in Sale \/ old \in StockCount
    BY <1>3, <1>4, <1>9 DEF LockLots, NextNeed, Moving, SaleOps
  <2>2. PICK a : Runs(s, [old EXCEPT !.pc = "locked", !.locked = a])
    BY <1>3, <1>9, <2>1 DEF LockLots, Sale, StockCount
  <2>3. [old EXCEPT !.pc = "locked", !.locked = a].op = old.op
    BY <2>1 DEF Sale, StockCount
  <2> QED
    BY <1>3, <2>2, <2>3 DEF Runs
<1>10. CASE PlanSale(s)
  <2>1. old \in Sale \/ old \in StockCount
    BY <1>3, <1>4, <1>10 DEF PlanSale, Moving, SaleOps
  <2>2. PICK a, b, c : Runs(s, [old EXCEPT !.pc = "moving", !.todo = a, !.plan = b, !.short = c])
    BY <1>3, <1>10, <2>1 DEF PlanSale, Sale, StockCount
  <2>3. [old EXCEPT !.pc = "moving", !.todo = a, !.plan = b, !.short = c].op = old.op
    BY <2>1 DEF Sale, StockCount
  <2> QED
    BY <1>3, <2>2, <2>3 DEF Runs
<1>11. CASE PlanCount(s)
  <2>1. old \in Sale \/ old \in StockCount
    BY <1>3, <1>4, <1>11 DEF PlanCount, Moving, SaleOps
  <2>2. PICK a, b : Runs(s, [old EXCEPT !.pc = "moving", !.plan = a, !.surplus = b])
    BY <1>3, <1>11, <2>1 DEF PlanCount, Sale, StockCount
  <2>3. [old EXCEPT !.pc = "moving", !.plan = a, !.surplus = b].op = old.op
    BY <2>1 DEF Sale, StockCount
  <2> QED
    BY <1>3, <2>2, <2>3 DEF Runs
<1> QED
  BY <1>2, <1>5, <1>6, <1>7, <1>8, <1>9, <1>10, <1>11 DEF Advances

\* Only operations of Ops are in flight.
OnlyAsked == \A s \in Sessions : tx[s].op \in Ops \cup {"idle"}

\* Every step keeps the operations in flight among those of Ops.
LEMMA OnlyAskedKept ==
  ASSUME TypeOK, OnlyAsked, NEW s \in Sessions, Asks(s) \/ Advances(s) \/ RollBack(s)
  PROVE  OnlyAsked'
<1>1. CASE Asks(s)
  <2>1. \E t : t.op \in Ops /\ tx' = [tx EXCEPT ![s] = t]
    BY <1>1 DEF Asks, BeginCreate, BeginConsume, BeginEdit, BeginCancel, BeginRestore,
       BeginRemove, BeginEntry, BeginCount, BeginReverse, Begins, Opens
  <2> QED
    BY <2>1 DEF OnlyAsked, TypeOK
<1>2. CASE Advances(s) \/ RollBack(s)
  <2>1. PICK t : tx' = [tx EXCEPT ![s] = t] /\ t.op \in {tx[s].op, "idle"}
    BY <1>2, OperationKept
  <2> QED
    BY <2>1 DEF OnlyAsked, TypeOK
<1> QED
  BY <1>1, <1>2

\* The invariant holds in every behaviour of SaleStock.
THEOREM InvariantHolds == Spec => []IInv
<1> QED
  BY InitSound, IInvInductive, PTL DEF Spec

(***************************************************************************)
(* Every table and every transaction in flight keeps its type.             *)
(***************************************************************************)
THEOREM StockTypeCorrect == Spec => []TypeOK
<1>1. IInv => TypeOK
  BY DEF IInv
<1> QED
  BY <1>1, InvariantHolds, PTL
=============================================================================
