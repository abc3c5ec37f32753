------------------------ MODULE StockPromises_proofs ------------------------
(***************************************************************************)
(* What the stock's transactions keep when they overlap: a lot's balance   *)
(* is its movements added up, sales launched at the same time never take a *)
(* lot below zero or skip one that expires sooner, a return gives back no  *)
(* more than was taken, no owner takes or owes more than it needs, and a   *)
(* reversed lot stays empty; last, that while only launches overlap every  *)
(* transaction is one step of StockPromise.                                *)
(***************************************************************************)
EXTENDS SaleStock_proofs

(***************************************************************************)
(* Why a lot's balance is its movements added up, however the transactions *)
(* overlap, when no entry is reversed: every commit changes both sides by  *)
(* the same amount, and nothing else writes them.                          *)
(***************************************************************************)
TakenOf(l) == SumOf([o \in Holders |-> taken[o][l]], Holders)

LInv == IInv /\ OnlyAsked /\ LedgerBalances

(***************************************************************************)
(* The two sides of the books.                                             *)
(***************************************************************************)

\* The owners and the place of the deleted ones are finitely many.
LEMMA FiniteHolders == IsFiniteSet(Holders)
BY StockAssumption, FS_AddElement DEF Holders

\* What the holders took of a lot together is an integer.
LEMMA TakenOfType ==
  ASSUME TypeOK, NEW l \in LotIds
  PROVE  TakenOf(l) \in Int
<1>1. PICK w : w = [o \in Holders |-> taken[o][l]]
  OBVIOUS
<1>2. \A o \in Holders : w[o] \in Int
  BY <1>1 DEF TypeOK
<1> QED
  BY <1>1, <1>2, FiniteHolders, SumOfType DEF TakenOf

\* A lot nobody took from has nothing on the owners' side.
LEMMA NothingTaken ==
  ASSUME NEW l \in LotIds, \A o \in Holders : taken[o][l] = 0
  PROVE  TakenOf(l) = 0
<1>1. PICK w : w = [o \in Holders |-> taken[o][l]]
  OBVIOUS
<1>2. \A o \in Holders : w[o] = 0
  BY <1>1
<1> QED
  BY <1>1, <1>2, FiniteHolders, SumOfZero DEF TakenOf

\* CommitSale: what the owners keep of a lot falls by what comes back to it,
\* also when the owner is deleted and its movements stay without one.
LEMMA SaleTakes ==
  ASSUME TypeOK, NEW t \in Sale, NEW l \in LotIds
  PROVE  SumOf([o \in Holders |-> TakenAfter(t)[o][l]], Holders)
           = TakenOf(l) - t.change[l]
<1>1. /\ t.owner \in Holders /\ None \in Holders /\ t.owner # None
      /\ t.change[l] \in Int
  BY StockAssumption DEF Sale, Holders
<1>2. \A o \in Holders : taken[o] \in [LotIds -> Int] /\ taken[o][l] \in Int
  BY DEF TypeOK
<1>3. PICK w : w = [o \in Holders |-> taken[o][l]]
  OBVIOUS
<1>4. PICK v : v = [o \in Holders |-> TakenAfter(t)[o][l]]
  OBVIOUS
<1>5. \A o \in Holders : w[o] = taken[o][l] /\ w[o] \in Int
  BY <1>2, <1>3
<1>6. PICK mine : mine = [k \in LotIds |-> taken[t.owner][k] - t.change[k]]
  OBVIOUS
<1>7. mine[l] = w[t.owner] - t.change[l] /\ mine[l] \in Int
  BY <1>1, <1>5, <1>6
<1>8. PICK a, b, c, d \in Int : /\ a = w[t.owner] /\ b = t.change[l]
                                /\ c = SumOf(w, Holders) /\ d = w[None]
  BY <1>1, <1>5, FiniteHolders, SumOfType
<1>9. CASE t.op = "remove"
  <2>1. PICK nobodys : nobodys = [k \in LotIds |-> taken[None][k] + mine[k]]
    OBVIOUS
  <2>2. TakenAfter(t) = [taken EXCEPT ![t.owner] = NoChange, ![None] = nobodys]
    BY <1>1, <1>6, <1>9, <2>1 DEF TakenAfter, TypeOK
  <2>3. /\ v[t.owner] = 0
        /\ v[None] = d + (a - b)
        /\ \A o \in Holders \ {t.owner, None} : v[o] = w[o]
    <3>1. nobodys[l] = d + (a - b)
      BY <1>1, <1>5, <1>7, <1>8, <2>1
    <3>2. NoChange[l] = 0
      BY DEF NoChange
    <3> QED
      BY <1>1, <1>4, <1>5, <2>2, <3>1, <3>2 DEF TypeOK
  <2>4. PICK z : z = [w EXCEPT ![t.owner] = 0]
    OBVIOUS
  <2>5. /\ z[t.owner] = 0 /\ z[None] = d
        /\ \A o \in Holders \ {t.owner} : z[o] = w[o]
        /\ \A o \in Holders : z[o] \in Int
    BY <1>1, <1>3, <1>5, <1>8, <2>4
  <2>6. /\ \A o \in Holders : v[o] \in Int
        /\ \A o \in Holders \ {None} : v[o] = z[o]
    BY <1>1, <1>5, <1>8, <2>3, <2>5
  <2>7. SumOf(z, Holders) = SumOf(w, Holders) - w[t.owner] + z[t.owner]
    BY <1>1, <1>5, <2>5, FiniteHolders, SumOfChange
  <2>8. SumOf(v, Holders) = SumOf(z, Holders) - z[None] + v[None]
    BY <1>1, <2>5, <2>6, FiniteHolders, SumOfChange
  <2>9. SumOf(v, Holders) = ((c - a) + 0 - d) + (d + (a - b))
    BY <1>8, <2>3, <2>5, <2>7, <2>8
  <2> QED
    BY <1>3, <1>4, <1>8, <2>9 DEF TakenOf
<1>10. CASE t.op # "remove"
  <2>1. TakenAfter(t) = [taken EXCEPT ![t.owner] = mine]
    BY <1>6, <1>10 DEF TakenAfter
  <2>2. /\ v[t.owner] = a - b
        /\ \A o \in Holders \ {t.owner} : v[o] = w[o]
    BY <1>1, <1>4, <1>5, <1>7, <1>8, <2>1 DEF TypeOK
  <2>3. \A o \in Holders : v[o] \in Int
    BY <1>5, <1>8, <2>2
  <2>4. SumOf(v, Holders) = SumOf(w, Holders) - w[t.owner] + v[t.owner]
    BY <1>1, <1>5, <2>2, <2>3, FiniteHolders, SumOfChange
  <2>5. SumOf(v, Holders) = c - a + (a - b)
    BY <1>8, <2>2, <2>4
  <2> QED
    BY <1>3, <1>4, <1>8, <2>5 DEF TakenOf
<1> QED
  BY <1>9, <1>10

\* CommitEntry: the sales an entry settles are shared out among their owners
\* with none left over.
LEMMA CoversShared ==
  ASSUME NEW covers \in SUBSET Cover, IsFiniteSet(covers)
  PROVE  SumOf([o \in Holders |-> UnitsOf({c \in covers : c.owner = o})], Holders)
           = UnitsOf(covers)
<1> DEFINE Part(o) == {c \in covers : c.owner = o}
<1>1. PICK w : w = [c \in covers |-> c.units]
  OBVIOUS
<1>2. PICK group : group = [c \in covers |-> c.owner]
  OBVIOUS
<1>3. /\ \A c \in covers : group[c] \in Holders /\ w[c] \in Int
      /\ \A c \in covers : group[c] = c.owner /\ w[c] = c.units
  BY <1>1, <1>2 DEF Cover
<1>4. \A o \in Holders : {c \in covers : group[c] = o} = Part(o)
  BY <1>3
<1>5. \A o \in Holders : UnitsOf(Part(o)) = SumOf(w, Part(o))
  <2> TAKE o \in Holders
  <2>1. PICK part : part = Part(o)
    OBVIOUS
  <2>2. IsFiniteSet(part) /\ part \subseteq covers
    BY <2>1, FS_Subset
  <2>3. PICK v : v = [c \in part |-> c.units]
    OBVIOUS
  <2>4. \A c \in part : v[c] = w[c]
    BY <1>3, <2>2, <2>3
  <2>5. SumOf(v, part) = SumOf(w, part)
    BY <2>2, <2>4, SumOfSame
  <2> QED
    BY <2>1, <2>3, <2>5 DEF UnitsOf
<1>6. SumOf([o \in Holders |-> SumOf(w, {c \in covers : group[c] = o})], Holders)
        = SumOf(w, covers)
  BY <1>3, FiniteHolders, SumOfGroups
<1> HIDE DEF Part
<1>7. [o \in Holders |-> SumOf(w, {c \in covers : group[c] = o})]
        = [o \in Holders |-> UnitsOf(Part(o))]
  BY <1>4, <1>5
<1>8. SumOf([o \in Holders |-> UnitsOf(Part(o))], Holders) = UnitsOf(covers)
  BY <1>1, <1>6, <1>7 DEF UnitsOf
<1> QED
  BY <1>8 DEF Part

(***************************************************************************)
(* One lemma for the steps that write neither side, one for each commit.   *)
(***************************************************************************)

\* The books of one lot.
Balanced(l) == lots[l].remaining = CameIn(l) + lots[l].counted - TakenOf(l)

\* LedgerBalances, lot by lot.
LEMMA LotByLot == LedgerBalances <=> \A l \in InStock : Balanced(l)
BY DEF LedgerBalances, Balanced, TakenOf

\* The books after a step, lot by lot.
LEMMA BooksKept ==
  ASSUME \A l \in InStock' : Balanced(l)'
  PROVE  LedgerBalances'
BY DEF LedgerBalances, Balanced, TakenOf

\* A step that writes no lot and no movement keeps the books.
LEMMA BooksUntouched ==
  ASSUME LedgerBalances, UNCHANGED <<lots, taken>>
  PROVE  LedgerBalances'
BY DEF LedgerBalances, InStock, CameIn

\* The stock at the start is balanced: untouched entries.
LEMMA InitBalanced == Init => LInv
<1> SUFFICES ASSUME Init PROVE LInv
  OBVIOUS
<1>1. OnlyAsked
  BY DEF Init, Idle, OnlyAsked
<1>2. ASSUME NEW l \in InStock
      PROVE  Balanced(l)
  <2>1. l \in LotIds /\ Stocked[l] \in Lot /\ lots[l] = Stocked[l]
    BY <1>2, StockAssumption DEF Init, InStock
  <2>2. PICK new \in Lot : new = Stocked[l]
    BY <2>1
  <2>3. new = NewLot(new.supply, new.quantity, new.expires, TRUE, 0)
    BY <2>1, <2>2, StockAssumption DEF Init, InStock
  <2>4. PICK n \in Nat \ {0} : n = new.quantity
    BY DEF Lot
  <2>5. new.remaining = n - 0 /\ new.counted = 0 /\ new.reversed = FALSE
    BY <2>3, <2>4 DEF NewLot
  <2>6. \A o \in Holders : taken[o][l] = 0
    BY <2>1 DEF Init, NoChange
  <2>7. TakenOf(l) = 0
    BY <2>1, <2>6, NothingTaken
  <2> QED
    BY <2>1, <2>2, <2>4, <2>5, <2>7 DEF Balanced, CameIn
<1> QED
  BY <1>1, <1>2, InitSound, LotByLot DEF LInv

\* A sale's commit: the balance and the movements change by the same amount.
LEMMA SaleBalanced ==
  ASSUME LInv, NEW s \in Sessions, CommitSale(s)
  PROVE  LedgerBalances'
<1>1. PICK t : t = tx[s]
  OBVIOUS
<1>2. TypeOK /\ t \in Sale /\ Sound(t) /\ t.op \in SaleOps
  BY <1>1, Kinds DEF LInv, IInv, TypeOK, SoundTransactions, CommitSale
<1>3. /\ t.change \in [LotIds -> Int]
      /\ \A l \in LotIds : lots[l] = NoLot => t.change[l] = 0
  BY <1>2 DEF Sale, Sound
<1>4. lots' = LotsAfter(t.change) /\ taken' = TakenAfter(t)
  BY <1>1 DEF CommitSale
<1>5. ASSUME NEW l \in InStock'
      PROVE  Balanced(l)'
  <2>1. l \in LotIds /\ l \in InStock /\ lots[l] \in Lot
    BY <1>2, <1>3, <1>4, LotsAfterType DEF InStock, TypeOK
  <2>2. Balanced(l)
    BY <2>1, LotByLot DEF LInv
  <2>3. TakenOf(l)' = TakenOf(l) - t.change[l]
    BY <1>2, <1>4, <2>1, SaleTakes DEF TakenOf
  <2>4. PICK lot \in Lot : lot = lots[l]
    BY <2>1
  <2>5. /\ lots'[l].remaining = lot.remaining + t.change[l]
        /\ lots'[l].counted = lot.counted
        /\ lots'[l].quantity = lot.quantity
        /\ lots'[l].reversed = lot.reversed
    <3>1. PICK r : r = lot.remaining + t.change[l]
      OBVIOUS
    <3>2. CASE t.change[l] = 0
      <4>1. lots'[l] = lot /\ lot.remaining \in Int
        BY <1>4, <2>1, <2>4, <3>2 DEF LotsAfter, Lot
      <4> QED
        BY <3>2, <4>1
    <3>3. CASE t.change[l] # 0
      <4>1. lots'[l] = [lot EXCEPT !.remaining = r, !.moved = TRUE]
        BY <1>4, <2>1, <2>4, <3>1, <3>3 DEF LotsAfter, Lot
      <4> QED
        BY <3>1, <4>1 DEF Lot
    <3> QED
      BY <3>2, <3>3
  <2>6. CameIn(l)' = CameIn(l) /\ CameIn(l) \in Int
    BY <2>4, <2>5 DEF CameIn, Lot
  <2>7. PICK a, b, c, d, e \in Int : /\ a = lot.remaining /\ b = t.change[l]
                                     /\ c = lot.counted /\ d = TakenOf(l)
                                     /\ e = CameIn(l)
    BY <1>2, <1>3, <2>1, <2>4, <2>6, TakenOfType DEF Lot
  <2>8. a = e + c - d
    BY <2>2, <2>4, <2>7 DEF Balanced
  <2>9. a + b = e + c - (d - b)
    BY <2>8
  <2> QED
    BY <2>3, <2>5, <2>6, <2>7, <2>9 DEF Balanced
<1> QED
  BY <1>5, BooksKept

\* An entry's commit: a new lot, less the sales it settles, each on its owner.
LEMMA EntryBalanced ==
  ASSUME LInv, NEW s \in Sessions, CommitEntry(s)
  PROVE  LedgerBalances'
<1>1. PICK t : t = tx[s]
  OBVIOUS
<1>2. /\ TypeOK /\ TakenFromLots /\ t \in Entry /\ Sound(t) /\ t.op = "entry"
  BY <1>1, Kinds DEF LInv, IInv, TypeOK, SoundTransactions, CommitEntry
<1>3. /\ t.lot \in LotIds /\ t.quantity \in Nat \ {0}
      /\ t.covers \in SUBSET Cover /\ IsFiniteSet(t.covers) /\ lots[t.lot] = NoLot
  BY <1>2 DEF Entry, Sound
<1>4. PICK settled \in Int : settled = UnitsOf(t.covers)
  BY <1>3, UnitsType DEF Cover
<1>5. PICK n \in Int : n = t.quantity
  BY <1>3
<1>6. /\ lots' = [lots EXCEPT ![t.lot] = NewLot(t.supply, n, t.expires, TRUE, settled)]
      /\ taken' = [o \in Holders |->
                     [taken[o] EXCEPT ![t.lot] =
                        @ + UnitsOf({c \in t.covers : c.owner = o})]]
  BY <1>1, <1>4, <1>5 DEF CommitEntry
<1>7. Balanced(t.lot)'
  <2>1. PICK new : new = NewLot(t.supply, n, t.expires, TRUE, settled)
    OBVIOUS
  <2>2. /\ new.remaining = n - settled /\ new.quantity = n
        /\ new.reversed = FALSE /\ new.counted = 0
    BY <2>1 DEF NewLot
  <2>3. lots'[t.lot] = new
    BY <1>2, <1>3, <1>6, <2>1 DEF TypeOK
  <2>4. PICK w : w = [o \in Holders |-> UnitsOf({c \in t.covers : c.owner = o})]
    OBVIOUS
  <2>5. SumOf(w, Holders) = settled
    BY <1>3, <1>4, <2>4, CoversShared
  <2>6. \A o \in Holders : taken'[o][t.lot] = w[o]
    <3> TAKE o \in Holders
    <3>1. taken[o] \in [LotIds -> Int] /\ taken[o][t.lot] = 0
      BY <1>2, <1>3 DEF TypeOK, TakenFromLots
    <3>2. PICK mine : mine = {c \in t.covers : c.owner = o}
      OBVIOUS
    <3>3. IsFiniteSet(mine) /\ mine \in SUBSET Cover
      BY <1>3, <3>2, FS_Subset
    <3>4. UnitsOf(mine) \in Int
      BY <3>3, UnitsType DEF Cover
    <3>5. taken'[o] = [taken[o] EXCEPT ![t.lot] = @ + UnitsOf(mine)]
      BY <1>6, <3>2
    <3>6. taken'[o][t.lot] = 0 + UnitsOf(mine)
      BY <1>3, <3>1, <3>5
    <3> QED
      BY <2>4, <3>2, <3>4, <3>6
  <2>7. TakenOf(t.lot)' = SumOf(w, Holders)
    <3>1. PICK v : v = [o \in Holders |-> taken'[o][t.lot]]
      OBVIOUS
    <3>2. \A o \in Holders : v[o] = w[o]
      BY <2>6, <3>1
    <3>3. SumOf(v, Holders) = SumOf(w, Holders)
      BY <3>2, FiniteHolders, SumOfSame
    <3> QED
      BY <3>1, <3>3 DEF TakenOf
  <2> QED
    BY <2>2, <2>3, <2>5, <2>7 DEF Balanced, CameIn
<1>8. ASSUME NEW l \in InStock', l # t.lot
      PROVE  Balanced(l)'
  <2>1. l \in LotIds /\ lots'[l] = lots[l] /\ l \in InStock
    BY <1>2, <1>6, <1>8 DEF InStock, TypeOK
  <2>2. \A o \in Holders : taken'[o][l] = taken[o][l]
    BY <1>2, <1>6, <1>8, <2>1 DEF TypeOK
  <2>3. [o \in Holders |-> taken'[o][l]] = [o \in Holders |-> taken[o][l]]
    BY <2>2
  <2>4. Balanced(l)
    BY <2>1, LotByLot DEF LInv
  <2> QED
    BY <2>1, <2>3, <2>4 DEF Balanced, CameIn, TakenOf
<1> QED
  BY <1>7, <1>8, BooksKept

\* A count's commit: every correction is a movement, and the surplus a lot.
LEMMA CountBalanced ==
  ASSUME LInv, NEW s \in Sessions, CommitCount(s)
  PROVE  LedgerBalances'
<1>1. PICK t : t = tx[s]
  OBVIOUS
<1>2. TypeOK /\ TakenFromLots /\ t \in StockCount /\ Sound(t) /\ t.op = "count"
  BY <1>1, Kinds DEF LInv, IInv, TypeOK, SoundTransactions, CommitCount
<1>3. /\ t.change \in [LotIds -> Int] /\ t.surplus \in Nat
      /\ \A l \in LotIds : lots[l] = NoLot => t.change[l] = 0
  BY <1>2 DEF StockCount, Sound
<1>4. PICK counted : counted = LotsCounted(t.change)
  OBVIOUS
<1>5. taken' = taken /\ \A l \in LotIds : TakenOf(l)' = TakenOf(l)
  BY DEF CommitCount, TakenOf
<1>6. ASSUME NEW l \in LotIds, lots[l] # NoLot
      PROVE  counted[l].remaining =
               (IF counted[l].reversed THEN 0 ELSE counted[l].quantity)
               + counted[l].counted - TakenOf(l)
  <2>1. Balanced(l) /\ lots[l] \in Lot
    BY <1>2, <1>6, LotByLot DEF LInv, InStock, TypeOK
  <2>2. PICK lot \in Lot : lot = lots[l]
    BY <2>1
  <2>3. PICK b \in Int : b = t.change[l]
    BY <1>3
  <2>4. /\ counted[l].remaining = lot.remaining + b
        /\ counted[l].counted = lot.counted + b
        /\ counted[l].quantity = lot.quantity
        /\ counted[l].reversed = lot.reversed
    <3>1. CASE b = 0
      <4>1. counted[l] = lot
        BY <1>4, <2>2, <2>3, <3>1 DEF LotsCounted
      <4>2. lot.remaining \in Int /\ lot.counted \in Int
        BY DEF Lot
      <4> QED
        BY <3>1, <4>1, <4>2
    <3>2. CASE b # 0
      <4>1. PICK r, c : r = lot.remaining + b /\ c = lot.counted + b
        OBVIOUS
      <4>2. counted[l] = [[lot EXCEPT !.remaining = r, !.moved = TRUE] EXCEPT !.counted = c]
        <5>1. PICK after : after = [lot EXCEPT !.remaining = r, !.moved = TRUE]
          OBVIOUS
        <5>2. LotsAfter(t.change)[l] = after
          BY <1>6, <2>2, <2>3, <3>2, <4>1, <5>1 DEF LotsAfter, Lot
        <5>3. after.counted = lot.counted
          BY <5>1 DEF Lot
        <5> QED
          BY <1>4, <2>3, <3>2, <4>1, <5>1, <5>2, <5>3 DEF LotsCounted
      <4> QED
        BY <4>1, <4>2 DEF Lot
    <3> QED
      BY <3>1, <3>2
  <2>5. PICK a, c, d, e \in Int : /\ a = lot.remaining /\ c = lot.counted
                                  /\ d = TakenOf(l)
                                  /\ e = IF lot.reversed THEN 0 ELSE lot.quantity
    BY <1>2, TakenOfType DEF Lot
  <2>6. a = e + c - d
    BY <2>1, <2>2, <2>5 DEF Balanced, CameIn
  <2> QED
    BY <2>4, <2>5, <2>6
<1>8. ASSUME NEW l \in LotIds, lots'[l] = counted[l], lots[l] # NoLot
      PROVE  Balanced(l)'
  BY <1>5, <1>6, <1>8 DEF Balanced, CameIn
<1>9. \A l \in LotIds : lots[l] = NoLot => counted[l] = NoLot
  BY <1>3, <1>4 DEF LotsCounted
<1>10. CASE t.surplus = 0
  <2>1. lots' = counted
    BY <1>1, <1>4, <1>10 DEF CommitCount
  <2> QED
    BY <1>8, <1>9, <2>1, BooksKept DEF InStock
<1>11. CASE t.surplus # 0
  <2>1. PICK l \in LotIds :
          /\ NextLot(l)
          /\ lots' = [counted EXCEPT ![l] = NewLot(t.supply, t.surplus, NoDate, FALSE, 0)]
    BY <1>1, <1>4, <1>11 DEF CommitCount
  <2>2. PICK n \in Nat : n = t.surplus
    BY <1>3
  <2>3. PICK new : new = NewLot(t.supply, n, NoDate, FALSE, 0)
    OBVIOUS
  <2>4. /\ new.remaining = n /\ new.quantity = n
        /\ new.reversed = FALSE /\ new.counted = 0
    BY <2>3 DEF NewLot
  <2>5. lots' = [counted EXCEPT ![l] = new] /\ DOMAIN counted = LotIds
    BY <1>4, <2>1, <2>2, <2>3 DEF LotsCounted
  <2>6. Balanced(l)'
    <3>1. TakenOf(l) = 0
      <4>1. lots[l] = NoLot
        BY <2>1 DEF NextLot, Drawn
      <4> QED
        BY <1>2, <4>1, NothingTaken DEF TakenFromLots
    <3>2. lots'[l] = new /\ TakenOf(l)' = 0
      BY <1>5, <2>5, <3>1
    <3> QED
      BY <2>4, <3>2 DEF Balanced, CameIn
  <2>7. ASSUME NEW k \in InStock', k # l
        PROVE  Balanced(k)'
    BY <1>8, <1>9, <2>5, <2>7 DEF InStock
  <2> QED
    BY <2>6, <2>7, BooksKept
<1> QED
  BY <1>10, <1>11

\* LInv is inductive when no entry is reversed.
LEMMA LInvInductive ==
  ASSUME "reverse" \notin Ops, LInv, [Next]_vars
  PROVE  LInv'
<1>1. IInv'
  BY IInvInductive DEF LInv
<1>2. CASE UNCHANGED vars \/ NightEnds
  <2>1. UNCHANGED <<lots, taken, tx>>
    BY <1>2 DEF vars, NightEnds
  <2> QED
    BY <1>1, <2>1, BooksUntouched DEF LInv, OnlyAsked
<1>3. ASSUME NEW s \in Sessions, Asks(s) \/ Advances(s) \/ RollBack(s)
      PROVE  LInv'
  <2>1. OnlyAsked'
    BY <1>3, OnlyAskedKept DEF LInv, IInv
  <2>2. ~CommitReverse(s)
    BY DEF LInv, OnlyAsked, CommitReverse
  <2>3. LedgerBalances'
    BY <1>3, <2>2, StepKinds, SaleBalanced, EntryBalanced, CountBalanced, BooksUntouched
       DEF LInv
  <2> QED
    BY <1>1, <2>1, <2>3 DEF LInv
<1> QED
  BY <1>2, <1>3 DEF Next

(***************************************************************************)
(* LedgerBalances of SaleStock, for every instance in which no entry is    *)
(* reversed: whatever launches, edits, cancels, restores, removals,        *)
(* entries and counts overlap, and whichever of them roll back, each lot's *)
(* balance is what came in, corrected by the counts, less what its owners  *)
(* took and keep (stock/prisma-sale-stock.ts writes the balance and the    *)
(* movement in two statements).                                            *)
(***************************************************************************)
THEOREM StockLedger ==
  ASSUME "reverse" \notin Ops
  PROVE  Spec => []LedgerBalances
<1>1. Init => LInv
  BY InitBalanced
<1>2. LInv /\ [Next]_vars => LInv'
  BY LInvInductive
<1>3. LInv => LedgerBalances
  BY DEF LInv
<1> QED
  BY <1>1, <1>2, <1>3, PTL DEF Spec

-----------------------------------------------------------------------------
(***************************************************************************)
(* Why a return gives back no more than was taken: the movements of an     *)
(* owner are written at a commit only, and an edit that still has to read  *)
(* them has returned nothing yet. A cancel, a restore or a removal reads   *)
(* them before it locks the owner's row, so this holds as long as none of  *)
(* them runs while another transaction of the same owner does; the run     *)
(* double_cancel shows what happens when one does.                         *)
(***************************************************************************)
Launches == {"create", "consume"}

Undoes == {"cancel", "restore", "remove"}

\* Nothing undoes an owner's sale while another transaction of its is in flight.
UndoneApart ==
    \A s, t \in Sessions :
        s # t /\ tx[s].op \in Undoes /\ tx[t].op \in SaleOps => tx[s].owner # tx[t].owner

\* Entries follow one another.
EntriesApart ==
    \A s, t \in Sessions : tx[s].op = "entry" /\ tx[t].op = "entry" => s = t

\* A launch is the only transaction of its owner, and the owner is not there yet.
LaunchedOnce ==
    \A s \in Sessions :
        /\ tx[s].op \in Launches =>
              /\ owners[tx[s].owner].state = "ABSENT"
              /\ \A t \in Sessions \ {s} : tx[t].op \in SaleOps => tx[t].owner # tx[s].owner
        /\ tx[s].op \in SaleOps \ Launches => owners[tx[s].owner].state # "ABSENT"

\* What comes back to a lot, and what is about to, is what the owner took of it.
ReturnFits(t) ==
    /\ t.pc \in {"start", "drop", "moves", "locked"} => \A l \in LotIds : t.plan[l] = 0
    /\ t.pc \in {"start", "drop", "moves"} => \A l \in LotIds : t.change[l] = 0
    /\ \A l \in LotIds : t.change[l] + AtLeast0(t.plan[l]) <= taken[t.owner][l]

ReturnsFit == \A s \in Sessions : tx[s].op \in SaleOps => ReturnFits(tx[s])

RInv == IInv /\ ReturnsOnlyWhatWasTaken /\ LaunchedOnce /\ ReturnsFit

\* A step that writes one transaction and no table.
LEMMA StaysFit ==
  ASSUME RInv, IInv', NEW s \in Sessions, NEW n, tx' = [tx EXCEPT ![s] = n],
         UNCHANGED Tables,
         n.op \in SaleOps => ReturnFits(n),
         n.op \in Launches =>
            /\ owners[n.owner].state = "ABSENT"
            /\ \A r \in Sessions \ {s} : tx[r].op \in SaleOps => tx[r].owner # n.owner,
         n.op \in SaleOps \ Launches => owners[n.owner].state # "ABSENT"
  PROVE  RInv'
<1>1. tx'[s] = n /\ \A r \in Sessions \ {s} : tx'[r] = tx[r]
  BY DEF RInv, IInv, TypeOK
<1>2. taken' = taken /\ owners' = owners
  BY DEF Tables
<1>3. ReturnsOnlyWhatWasTaken'
  BY <1>2 DEF RInv, ReturnsOnlyWhatWasTaken
<1>4. ReturnsFit'
  BY <1>1, <1>2 DEF RInv, ReturnsFit, ReturnFits
<1>5. LaunchedOnce'
  <2>1. Launches \subseteq SaleOps
    BY DEF Launches, SaleOps
  <2>2. ASSUME NEW r \in Sessions, tx'[r].op \in Launches
        PROVE  /\ owners[tx'[r].owner].state = "ABSENT"
               /\ \A q \in Sessions \ {r} :
                     tx'[q].op \in SaleOps => tx'[q].owner # tx'[r].owner
    <3>1. CASE r = s
      BY <1>1, <2>2, <3>1
    <3>2. CASE r # s
      <4>1. /\ tx'[r] = tx[r] /\ owners[tx[r].owner].state = "ABSENT"
            /\ \A q \in Sessions \ {r} : tx[q].op \in SaleOps => tx[q].owner # tx[r].owner
        BY <1>1, <2>2, <3>2 DEF RInv, LaunchedOnce
      <4>2. n.op \in SaleOps => n.owner # tx[r].owner
        BY <2>1, <2>2, <3>2, <4>1
      <4> QED
        BY <1>1, <4>1, <4>2
    <3> QED
      BY <3>1, <3>2
  <2>3. ASSUME NEW r \in Sessions, tx'[r].op \in SaleOps \ Launches
        PROVE  owners[tx'[r].owner].state # "ABSENT"
    BY <1>1, <2>3 DEF RInv, LaunchedOnce
  <2> QED
    BY <1>2, <2>2, <2>3 DEF LaunchedOnce
<1> QED
  BY <1>3, <1>4, <1>5 DEF RInv

\* A step that ends one transaction and writes the tables.
LEMMA EndsFit ==
  ASSUME RInv, IInv', NEW s \in Sessions, tx' = [tx EXCEPT ![s] = Idle],
         ReturnsOnlyWhatWasTaken',
         \A r \in Sessions \ {s} : tx[r].op \in SaleOps =>
            /\ owners'[tx[r].owner].state = "ABSENT" <=> owners[tx[r].owner].state = "ABSENT"
            /\ \A l \in LotIds :
                  tx[r].change[l] + AtLeast0(tx[r].plan[l]) <= taken'[tx[r].owner][l]
  PROVE  RInv'
<1>1. tx'[s] = Idle /\ \A r \in Sessions \ {s} : tx'[r] = tx[r]
  BY DEF RInv, IInv, TypeOK
<1>2. Idle.op = "idle" /\ Launches \subseteq SaleOps /\ "idle" \notin SaleOps
  BY DEF Idle, SaleOps, Launches
<1>3. ReturnsFit'
  <2>1. ASSUME NEW r \in Sessions, tx'[r].op \in SaleOps
        PROVE  ReturnFits(tx[r])' /\ r # s
    BY <1>1, <1>2, <2>1 DEF RInv, ReturnsFit, ReturnFits
  <2> QED
    BY <2>1 DEF ReturnsFit
<1>4. LaunchedOnce'
  <2>1. \A r \in Sessions : tx'[r].op \in SaleOps => r # s /\ tx'[r] = tx[r]
    BY <1>1, <1>2
  <2>2. ASSUME NEW r \in Sessions, tx'[r].op \in Launches
        PROVE  /\ owners'[tx'[r].owner].state = "ABSENT"
               /\ \A q \in Sessions \ {r} :
                     tx'[q].op \in SaleOps => tx'[q].owner # tx'[r].owner
    BY <1>2, <2>1, <2>2 DEF RInv, LaunchedOnce
  <2>3. ASSUME NEW r \in Sessions, tx'[r].op \in SaleOps \ Launches
        PROVE  owners'[tx'[r].owner].state # "ABSENT"
    BY <1>2, <2>1, <2>3 DEF RInv, LaunchedOnce
  <2> QED
    BY <2>2, <2>3 DEF LaunchedOnce
<1> QED
  BY <1>3, <1>4 DEF RInv

\* A sale begins with nothing to return.
LEMMA SaleBeginsFit ==
  ASSUME RInv, IInv', NEW s \in Sessions, NEW op \in SaleOps, NEW pc, NEW o \in Owners,
         NEW needs, Begins(s, SaleOf(op, pc, o, needs)),
         op \in Launches => Unused(o) /\ \A r \in Sessions : tx[r].op \in SaleOps => tx[r].owner # o,
         op \notin Launches => owners[o].state # "ABSENT"
  PROVE  RInv'
<1>1. PICK n : n = SaleOf(op, pc, o, needs)
  OBVIOUS
<1>2. /\ n.op = op /\ n.owner = o /\ n.pc = pc
      /\ n.plan = NoChange /\ n.change = NoChange
  BY <1>1 DEF SaleOf
<1>3. tx' = [tx EXCEPT ![s] = n] /\ UNCHANGED Tables
  BY <1>1 DEF Begins, Opens
<1>4. \A l \in LotIds : NoChange[l] = 0 /\ taken[o][l] >= 0
  BY DEF NoChange, RInv, ReturnsOnlyWhatWasTaken
<1>5. ReturnFits(n)
  BY <1>2, <1>4 DEF ReturnFits, AtLeast0
<1>6. op \in Launches => owners[o].state = "ABSENT"
  BY DEF Unused
<1> QED
  BY <1>2, <1>3, <1>5, <1>6, StaysFit

\* BeginCreate, BeginConsume, BeginEdit, BeginCancel, BeginRestore, BeginRemove.
LEMMA SalesBeginFit ==
  ASSUME RInv, IInv', NEW s \in Sessions,
         \/ BeginCreate(s) \/ BeginConsume(s) \/ BeginEdit(s)
         \/ BeginCancel(s) \/ BeginRestore(s) \/ BeginRemove(s)
  PROVE  RInv'
<1>1. \A o \in Orders \cup Consumptions : o \in Owners
  BY DEF Owners
<1>2. ASSUME NEW o \in Owners, Unused(o)
      PROVE  \A r \in Sessions : tx[r].op \in SaleOps => tx[r].owner # o
  BY <1>2 DEF Unused, RInv, LaunchedOnce, Launches
<1>3. /\ {"create", "consume"} = Launches
      /\ {"edit", "reconsume", "cancel", "restore", "remove"} = SaleOps \ Launches
      /\ Launches \subseteq SaleOps
  BY DEF SaleOps, Launches
<1>4. CASE BeginCreate(s)
  BY <1>1, <1>2, <1>3, <1>4, SaleBeginsFit DEF BeginCreate
<1>5. CASE BeginConsume(s)
  BY <1>1, <1>2, <1>3, <1>5, SaleBeginsFit DEF BeginConsume
<1>6. CASE BeginEdit(s)
  <2>1. PICK o \in Owners, needs \in Needs :
           /\ owners[o].state = "ACTIVE"
           /\ Begins(s, SaleOf(IF o \in Orders THEN "edit" ELSE "reconsume", "start", o, needs))
    BY <1>6 DEF BeginEdit
  <2>2. PICK op \in SaleOps \ Launches : op = IF o \in Orders THEN "edit" ELSE "reconsume"
    BY <1>3
  <2> QED
    BY <2>1, <2>2, SaleBeginsFit
<1>7. CASE BeginCancel(s)
  BY <1>1, <1>3, <1>7, SaleBeginsFit DEF BeginCancel
<1>8. CASE BeginRestore(s)
  BY <1>1, <1>3, <1>8, SaleBeginsFit DEF BeginRestore
<1>9. CASE BeginRemove(s)
  BY <1>1, <1>3, <1>9, SaleBeginsFit DEF BeginRemove
<1> QED
  BY <1>4, <1>5, <1>6, <1>7, <1>8, <1>9

\* An entry, a count or a reversal begins, or anything ends without a commit.
LEMMA OthersFit ==
  ASSUME RInv, IInv', NEW s \in Sessions,
         \/ BeginEntry(s) \/ BeginCount(s) \/ BeginReverse(s)
         \/ RollBack(s) \/ PlanCount(s) \/ (MoveLot(s) /\ tx[s].op = "count")
  PROVE  RInv'
<1>1. {"entry", "count", "reverse", "idle"} \cap SaleOps = {} /\ Launches \subseteq SaleOps
  BY DEF SaleOps, Launches
<1>2. ASSUME NEW n, tx' = [tx EXCEPT ![s] = n], UNCHANGED Tables, n.op \notin SaleOps
      PROVE  RInv'
  BY <1>1, <1>2, StaysFit
<1>3. CASE BeginEntry(s)
  <2>1. PICK n : Begins(s, n) /\ n.op = "entry"
    BY <1>3 DEF BeginEntry
  <2> QED
    BY <1>1, <1>2, <2>1 DEF Begins, Opens
<1>4. CASE BeginCount(s)
  <2>1. PICK n : Begins(s, n) /\ n.op = "count"
    BY <1>4 DEF BeginCount
  <2> QED
    BY <1>1, <1>2, <2>1 DEF Begins, Opens
<1>5. CASE BeginReverse(s)
  <2>1. PICK n : Begins(s, n) /\ n.op = "reverse"
    BY <1>5 DEF BeginReverse
  <2> QED
    BY <1>1, <1>2, <2>1 DEF Begins, Opens
<1>6. CASE RollBack(s)
  <2>1. Idle.op = "idle" /\ tx' = [tx EXCEPT ![s] = Idle] /\ UNCHANGED Tables
    BY <1>6 DEF RollBack, Runs, Idle
  <2> QED
    BY <1>1, <1>2, <2>1
<1>7. CASE PlanCount(s) \/ (MoveLot(s) /\ tx[s].op = "count")
  <2>1. TypeOK /\ UNCHANGED Tables /\ tx[s].op = "count"
    BY <1>7 DEF RInv, IInv, PlanCount, MoveLot
  <2>2. PICK n : tx' = [tx EXCEPT ![s] = n] /\ n.op \in {tx[s].op, "idle"}
    BY <1>7, <2>1, OperationKept DEF Advances
  <2> QED
    BY <1>1, <1>2, <2>1, <2>2
<1> QED
  BY <1>3, <1>4, <1>5, <1>6, <1>7

\* A step of a sale keeps what the sale is about.
LEMMA SaleRuns ==
  ASSUME IInv, NEW s \in Sessions, tx[s].op \in SaleOps, NEW n, Runs(s, n),
         UNCHANGED Tables, n.op = tx[s].op, n.owner = tx[s].owner, RInv, IInv',
         ReturnFits(n)
  PROVE  RInv'
<1>1. tx' = [tx EXCEPT ![s] = n] /\ Launches \subseteq SaleOps
  BY DEF Runs, SaleOps, Launches
<1>2. /\ n.op \in Launches =>
            /\ owners[n.owner].state = "ABSENT"
            /\ \A r \in Sessions \ {s} : tx[r].op \in SaleOps => tx[r].owner # n.owner
      /\ n.op \in SaleOps \ Launches => owners[n.owner].state # "ABSENT"
  BY DEF RInv, LaunchedOnce
<1> QED
  BY <1>1, <1>2, StaysFit

\* LockFirst, DropOversales, ReadMoves, LockLots, PlanSale, MoveLot of a sale.
LEMMA SaleStepsFit ==
  ASSUME RInv, IInv', NEW s \in Sessions, tx[s].op \in SaleOps,
         \/ LockFirst(s) \/ DropOversales(s) \/ ReadMoves(s) \/ LockLots(s)
         \/ PlanSale(s) \/ MoveLot(s)
  PROVE  RInv'
<1>1. PICK t : t = tx[s]
  OBVIOUS
<1>2. IInv /\ t \in Sale /\ ReturnFits(t) /\ UNCHANGED Tables /\ t.owner \in Owners
  <2>1. IInv /\ t \in Transaction /\ t.op \in SaleOps /\ ReturnFits(t)
    BY <1>1 DEF RInv, IInv, TypeOK, ReturnsFit
  <2>2. t \in Sale
    BY <2>1, Kinds
  <2>3. t.owner \in Owners
    BY <2>2 DEF Sale
  <2>4. UNCHANGED Tables
    BY DEF LockFirst, DropOversales, ReadMoves, LockLots, PlanSale, MoveLot
  <2> QED
    BY <2>1, <2>2, <2>3, <2>4
<1>3. /\ t.plan \in [LotIds -> Int] /\ t.change \in [LotIds -> Int]
      /\ taken[t.owner] \in [LotIds -> Int]
      /\ \A l \in LotIds : taken[t.owner][l] >= 0
  BY <1>2 DEF Sale, IInv, TypeOK, Holders, RInv, ReturnsOnlyWhatWasTaken
<1>4. CASE LockFirst(s)
  <2>1. PICK pc : pc \in {"moving", "drop"} /\ Runs(s, [t EXCEPT !.pc = pc]) /\ t.pc = "start"
    BY <1>1, <1>4 DEF LockFirst
  <2>2. PICK n : n = [t EXCEPT !.pc = pc]
    OBVIOUS
  <2>3. /\ n.op = t.op /\ n.owner = t.owner /\ n.pc = pc
        /\ n.plan = t.plan /\ n.change = t.change
    BY <1>2, <2>2 DEF Sale
  <2>4. ReturnFits(n)
    BY <1>2, <2>1, <2>3 DEF ReturnFits
  <2> QED
    BY <1>1, <1>2, <2>1, <2>2, <2>3, <2>4, SaleRuns
<1>5. CASE DropOversales(s)
  <2>1. PICK ids : Runs(s, [t EXCEPT !.pc = "moves", !.dropped = ids]) /\ t.pc = "drop"
    BY <1>1, <1>5 DEF DropOversales
  <2>2. PICK n : n = [t EXCEPT !.pc = "moves", !.dropped = ids]
    OBVIOUS
  <2>3. /\ n.op = t.op /\ n.owner = t.owner /\ n.pc = "moves"
        /\ n.plan = t.plan /\ n.change = t.change
    BY <1>2, <2>2 DEF Sale
  <2>4. ReturnFits(n)
    BY <1>2, <2>1, <2>3 DEF ReturnFits
  <2> QED
    BY <1>1, <1>2, <2>1, <2>2, <2>3, <2>4, SaleRuns
<1>6. CASE ReadMoves(s)
  <2>1. PICK net : net = NetTakenByLot(taken[t.owner])
    OBVIOUS
  <2>2. PICK n : n = [t EXCEPT !.pc = "moving", !.plan = net]
    OBVIOUS
  <2>3. Runs(s, n) /\ t.pc = "moves"
    BY <1>1, <1>6, <2>1, <2>2 DEF ReadMoves
  <2>4. /\ n.op = t.op /\ n.owner = t.owner /\ n.pc = "moving"
        /\ n.plan = net /\ n.change = t.change
    BY <1>2, <2>2 DEF Sale
  <2>5. \A l \in LotIds : net[l] = taken[t.owner][l]
    BY <1>3, <2>1 DEF NetTakenByLot, AtLeast0
  <2>6. \A l \in LotIds : t.change[l] = 0
    BY <1>2, <2>3 DEF ReturnFits
  <2>7. ReturnFits(n)
    BY <1>3, <2>4, <2>5, <2>6 DEF ReturnFits, AtLeast0
  <2> QED
    BY <1>1, <1>2, <2>3, <2>4, <2>7, SaleRuns
<1>7. CASE LockLots(s)
  <2>1. PICK ids : /\ Runs(s, [t EXCEPT !.pc = "locked", !.locked = ids])
                   /\ \A l \in LotIds : t.plan[l] = 0
    BY <1>1, <1>7 DEF LockLots, NextNeed, Planned
  <2>2. PICK n : n = [t EXCEPT !.pc = "locked", !.locked = ids]
    OBVIOUS
  <2>3. /\ n.op = t.op /\ n.owner = t.owner /\ n.pc = "locked"
        /\ n.plan = t.plan /\ n.change = t.change
    BY <1>2, <2>2 DEF Sale
  <2>4. ReturnFits(n)
    BY <1>2, <2>1, <2>3 DEF ReturnFits
  <2> QED
    BY <1>1, <1>2, <2>1, <2>2, <2>3, <2>4, SaleRuns
<1>8. CASE PlanSale(s)
  <2>1. PICK u, units, balance :
           /\ u = Head(t.todo).supply /\ units = Head(t.todo).units
           /\ balance = SeenBalance(s, u)
    OBVIOUS
  <2>2. PICK takes : takes = TakeInExpiryOrder(balance, ExpiryOf, units)
    OBVIOUS
  <2>3. PICK plan : plan = [l \in LotIds |-> IF l \in DOMAIN takes THEN -takes[l] ELSE 0]
    OBVIOUS
  <2>4. PICK n : n = [t EXCEPT !.pc = "moving", !.todo = NeedsLeft(s), !.plan = plan,
                               !.short[u] = MissingOf(balance, units)]
    OBVIOUS
  <2>5. Runs(s, n) /\ t.pc = "locked"
    BY <1>1, <1>8, <2>1, <2>2, <2>3, <2>4 DEF PlanSale
  <2>6. /\ n.op = t.op /\ n.owner = t.owner /\ n.pc = "moving"
        /\ n.plan = plan /\ n.change = t.change
    BY <1>2, <2>4 DEF Sale
  <2>7. \A l \in LotIds : plan[l] \in Int /\ plan[l] <= 0
    <3>1. t.todo \in Seq(SaleNeed) /\ t.todo # <<>>
      BY <1>1, <1>2, <2>5, Kinds DEF Sale, IInv, SoundTransactions, Sound
    <3>2. Head(t.todo) \in SaleNeed
      BY <3>1
    <3>3. u \in Supplies /\ units \in Nat
      BY <2>1, <3>2 DEF SaleNeed
    <3>4. \A l \in DOMAIN balance : balance[l] \in Nat
      BY <1>1, <1>2, <2>1, <3>3, SeenBalanceType DEF IInv, Moving
    <3>5. IsFiniteSet(DOMAIN balance)
      BY <1>1, <1>2, <2>1, <3>3, SeenBalanceType DEF IInv, Moving
    <3>6. \A l \in DOMAIN takes : takes[l] \in Nat
      BY <2>2, <3>3, <3>4, <3>5, TakesType
    <3> QED
      BY <2>3, <3>6
  <2>8. \A l \in LotIds : t.plan[l] = 0 /\ t.change[l] <= taken[t.owner][l]
    BY <1>2, <1>3, <2>5 DEF ReturnFits, AtLeast0
  <2>9. ReturnFits(n)
    BY <1>3, <2>6, <2>7, <2>8 DEF ReturnFits, AtLeast0
  <2> QED
    BY <1>1, <1>2, <2>5, <2>6, <2>9, SaleRuns
<1>9. CASE MoveLot(s)
  <2>1. PICK l \in LotIds :
           /\ t.pc = "moving"
           /\ Runs(s, [t EXCEPT !.plan[l] = 0, !.locked = @ \cup {l},
                                !.change[l] = @ + t.plan[l]])
    BY <1>1, <1>9 DEF MoveLot, Planned
  <2>2. PICK n : n = [t EXCEPT !.plan[l] = 0, !.locked = @ \cup {l},
                               !.change[l] = @ + t.plan[l]]
    OBVIOUS
  <2>3. /\ n.op = t.op /\ n.owner = t.owner /\ n.pc = "moving"
        /\ n.plan = [t.plan EXCEPT ![l] = 0]
        /\ n.change = [t.change EXCEPT ![l] = @ + t.plan[l]]
    BY <1>2, <2>1, <2>2 DEF Sale
  <2>4. \A k \in LotIds : n.change[k] + AtLeast0(n.plan[k]) <= taken[t.owner][k]
    <3> TAKE k \in LotIds
    <3>1. t.change[k] + AtLeast0(t.plan[k]) <= taken[t.owner][k]
      BY <1>2 DEF ReturnFits
    <3>2. CASE k = l
      <4>1. n.plan[k] = 0 /\ n.change[k] = t.change[k] + t.plan[k]
        BY <1>3, <2>3, <3>2
      <4> QED
        BY <1>3, <3>1, <4>1 DEF AtLeast0
    <3>3. CASE k # l
      BY <1>3, <2>3, <3>1, <3>3
    <3> QED
      BY <3>2, <3>3
  <2>5. ReturnFits(n)
    BY <2>3, <2>4 DEF ReturnFits
  <2> QED
    BY <1>1, <1>2, <2>1, <2>2, <2>3, <2>5, SaleRuns
<1> QED
  BY <1>4, <1>5, <1>6, <1>7, <1>8, <1>9

\* Who commits a sale is the only transaction of its owner that has gone past
\* the lock on the owner's row.
LEMMA CommitsAlone ==
  ASSUME RInv, UndoneApart, NEW s \in Sessions, CommitSale(s),
         NEW r \in Sessions \ {s}, tx[r].op \in SaleOps, tx[r].owner = tx[s].owner
  PROVE  /\ tx[r].op \in {"edit", "reconsume"} /\ tx[r].pc = "start"
         /\ tx[s].op \in {"edit", "reconsume"}
<1>1. tx[s].op \in SaleOps /\ OwnerFreeFor(s, tx[s].owner)
  BY DEF CommitSale
<1>2. tx[r].op \notin Launches \cup Undoes /\ tx[s].op \notin Launches \cup Undoes
  BY <1>1 DEF RInv, LaunchedOnce, UndoneApart, Launches, Undoes, SaleOps
<1>3. tx[r].op \in {"edit", "reconsume"} /\ tx[s].op \in {"edit", "reconsume"}
  BY <1>1, <1>2 DEF SaleOps, Launches, Undoes
<1> QED
  BY <1>1, <1>3 DEF OwnerFreeFor, HoldsOwner

\* A sale's commit writes its owner's movements and row, and no other owner's.
LEMMA SaleWrites ==
  ASSUME IInv, NEW s \in Sessions, CommitSale(s)
  PROVE  /\ tx[s] \in Sale /\ tx[s].owner \in Owners /\ tx[s].owner # None
         /\ \A o \in Owners \ {tx[s].owner} :
               taken'[o] = taken[o] /\ owners'[o] = owners[o]
         /\ \A l \in LotIds :
               taken'[tx[s].owner][l] = IF tx[s].op = "remove" THEN 0
                                        ELSE taken[tx[s].owner][l] - tx[s].change[l]
         /\ owners'[tx[s].owner] = OwnerAfter(tx[s])
         /\ tx' = [tx EXCEPT ![s] = Idle]
<1>1. PICK t : t = tx[s]
  OBVIOUS
<1>2. t \in Sale /\ t.owner \in Owners
  <2>1. t \in Transaction /\ t.op \in SaleOps
    BY <1>1 DEF IInv, TypeOK, CommitSale
  <2>2. t \in Sale
    BY <2>1, Kinds
  <2> QED
    BY <2>2 DEF Sale
<1>3. /\ taken' = TakenAfter(t) /\ owners' = [owners EXCEPT ![t.owner] = OwnerAfter(t)]
      /\ tx' = [tx EXCEPT ![s] = Idle]
  BY <1>1 DEF CommitSale, Runs
<1>4. t.owner # None /\ t.owner \in Holders /\ None \in Holders /\ None \notin Owners
  BY <1>2, StockAssumption DEF Holders
<1>5. taken \in [Holders -> [LotIds -> Int]] /\ owners \in [Owners -> Owner]
  BY DEF IInv, TypeOK
<1>6. PICK mine : mine = [l \in LotIds |-> taken[t.owner][l] - t.change[l]]
  OBVIOUS
<1>7. CASE t.op = "remove"
  <2>1. PICK left : left = [l \in LotIds |-> taken[None][l] + mine[l]]
    OBVIOUS
  <2>2. taken' = [taken EXCEPT ![t.owner] = NoChange, ![None] = left]
    BY <1>3, <1>4, <1>5, <1>6, <1>7, <2>1 DEF TakenAfter
  <2>3. taken'[t.owner] = NoChange
    BY <1>4, <1>5, <2>2
  <2>4. \A o \in Owners \ {t.owner} : taken'[o] = taken[o]
    BY <1>4, <1>5, <2>2 DEF Holders
  <2>5. \A l \in LotIds : NoChange[l] = 0
    BY DEF NoChange
  <2> QED
    BY <1>1, <1>2, <1>3, <1>4, <1>5, <1>7, <2>3, <2>4, <2>5
<1>8. CASE t.op # "remove"
  <2>1. taken' = [taken EXCEPT ![t.owner] = mine]
    BY <1>3, <1>6, <1>8 DEF TakenAfter
  <2>2. /\ taken'[t.owner] = mine
        /\ \A o \in Owners \ {t.owner} : taken'[o] = taken[o]
    BY <1>4, <1>5, <2>1 DEF Holders
  <2> QED
    BY <1>1, <1>2, <1>3, <1>4, <1>5, <1>6, <1>8, <2>2
<1> QED
  BY <1>7, <1>8

\* CommitSale.
LEMMA CommitSaleFit ==
  ASSUME RInv, UndoneApart, IInv', NEW s \in Sessions, CommitSale(s)
  PROVE  RInv'
<1>1. PICK t, o : t = tx[s] /\ o = t.owner
  OBVIOUS
<1>2. /\ t \in Sale /\ o \in Owners /\ tx' = [tx EXCEPT ![s] = Idle]
      /\ \A p \in Owners \ {o} : taken'[p] = taken[p] /\ owners'[p] = owners[p]
      /\ \A l \in LotIds :
            taken'[o][l] = IF t.op = "remove" THEN 0 ELSE taken[o][l] - t.change[l]
      /\ owners'[o] = OwnerAfter(t)
  BY <1>1, SaleWrites DEF RInv
<1>3. ReturnFits(t) /\ t.op \in SaleOps
  BY <1>1 DEF RInv, ReturnsFit, CommitSale
<1>4. \A l \in LotIds : taken'[o][l] >= 0
  <2> TAKE l \in LotIds
  <2>1. t.change[l] \in Int /\ t.plan[l] \in Int /\ taken[o][l] \in Int
    BY <1>2 DEF Sale, RInv, IInv, TypeOK, Holders
  <2>2. t.change[l] + AtLeast0(t.plan[l]) <= taken[o][l]
    BY <1>1, <1>3 DEF ReturnFits
  <2> QED
    BY <1>2, <2>1, <2>2 DEF AtLeast0
<1>5. ReturnsOnlyWhatWasTaken'
  BY <1>2, <1>4 DEF ReturnsOnlyWhatWasTaken, RInv
<1>6. ASSUME NEW r \in Sessions \ {s}, tx[r].op \in SaleOps
      PROVE  /\ owners'[tx[r].owner].state = "ABSENT" <=> owners[tx[r].owner].state = "ABSENT"
             /\ \A l \in LotIds :
                   tx[r].change[l] + AtLeast0(tx[r].plan[l]) <= taken'[tx[r].owner][l]
  <2>1. ReturnFits(tx[r]) /\ tx[r].owner \in Owners
    <3>1. tx[r] \in Sale
      BY <1>6, Kinds DEF RInv, IInv, TypeOK
    <3> QED
      BY <1>6, <3>1 DEF Sale, RInv, ReturnsFit
  <2>2. CASE tx[r].owner # o
    BY <1>2, <2>1, <2>2 DEF ReturnFits
  <2>3. CASE tx[r].owner = o
    <3>1. tx[r].pc = "start" /\ t.op \in {"edit", "reconsume"}
      BY <1>1, <1>6, <2>3, CommitsAlone
    <3>2. \A l \in LotIds : tx[r].change[l] = 0 /\ tx[r].plan[l] = 0
      BY <2>1, <3>1 DEF ReturnFits
    <3>3. owners'[o].state = owners[o].state
      <4>1. PICK row \in Owner : row = owners[o]
        BY <1>2 DEF RInv, IInv, TypeOK
      <4>2. PICK told : told = IF t.live THEN t.needs ELSE row.told
        OBVIOUS
      <4>3. owners'[o] = [row EXCEPT !.needs = t.needs, !.told = told]
        BY <1>1, <1>2, <3>1, <4>1, <4>2 DEF OwnerAfter
      <4> QED
        BY <4>1, <4>3 DEF Owner
    <3> QED
      BY <1>4, <2>3, <3>2, <3>3 DEF AtLeast0
  <2> QED
    BY <2>2, <2>3
<1> QED
  BY <1>2, <1>5, <1>6, EndsFit

\* An entry's commit adds to what the owners took of the new lot, and changes
\* no owner's row.
LEMMA EntryWrites ==
  ASSUME IInv, NEW s \in Sessions, CommitEntry(s)
  PROVE  /\ tx[s] \in Entry /\ tx[s].lot \in LotIds /\ lots[tx[s].lot] = NoLot
         /\ tx[s].covers \in SUBSET Cover /\ IsFiniteSet(tx[s].covers)
         /\ tx' = [tx EXCEPT ![s] = Idle] /\ owners' = owners
         /\ \A o \in Holders, l \in LotIds :
               /\ l # tx[s].lot => taken'[o][l] = taken[o][l]
               /\ l = tx[s].lot => /\ taken[o][l] = 0
                                   /\ taken'[o][l] = UnitsOf({c \in tx[s].covers : c.owner = o})
                                   /\ taken'[o][l] \in Nat
<1>1. PICK t : t = tx[s]
  OBVIOUS
<1>2. t \in Entry /\ Sound(t) /\ t.op = "entry"
  <2>1. t \in Transaction /\ t.op = "entry" /\ Sound(t)
    BY <1>1 DEF IInv, TypeOK, SoundTransactions, CommitEntry
  <2> QED
    BY <2>1, Kinds
<1>3. /\ t.lot \in LotIds /\ lots[t.lot] = NoLot
      /\ t.covers \in SUBSET Cover /\ IsFiniteSet(t.covers)
  BY <1>2 DEF Entry, Sound
<1>4. /\ taken' = [o \in Holders |->
                     [taken[o] EXCEPT ![t.lot] =
                        @ + UnitsOf({c \in t.covers : c.owner = o})]]
      /\ owners' = owners /\ tx' = [tx EXCEPT ![s] = Idle]
  BY <1>1 DEF CommitEntry, Runs
<1>5. ASSUME NEW o \in Holders
      PROVE  \A l \in LotIds :
               /\ l # t.lot => taken'[o][l] = taken[o][l]
               /\ l = t.lot => /\ taken[o][l] = 0
                               /\ taken'[o][l] = UnitsOf({c \in t.covers : c.owner = o})
                               /\ taken'[o][l] \in Nat
  <2>1. taken[o] \in [LotIds -> Int] /\ taken[o][t.lot] = 0
    BY <1>3 DEF IInv, TypeOK, TakenFromLots
  <2>2. PICK mine : mine = {c \in t.covers : c.owner = o}
    OBVIOUS
  <2>3. IsFiniteSet(mine) /\ mine \subseteq Cover
    BY <1>3, <2>2, FS_Subset
  <2>4. PICK w : w = [c \in mine |-> c.units]
    OBVIOUS
  <2>5. \A c \in mine : w[c] \in Nat
    BY <2>3, <2>4 DEF Cover
  <2>6. PICK units \in Nat : units = UnitsOf(mine)
    BY <2>3, <2>4, <2>5, SumOfNat DEF UnitsOf
  <2>7. taken'[o] = [taken[o] EXCEPT ![t.lot] = @ + units]
    BY <1>4, <2>2, <2>6
  <2> QED
    BY <1>3, <2>1, <2>2, <2>6, <2>7
<1> QED
  BY <1>1, <1>2, <1>3, <1>4, <1>5

\* CommitEntry, CommitCount, CommitReverse.
LEMMA OtherCommitsFit ==
  ASSUME RInv, IInv', NEW s \in Sessions,
         CommitEntry(s) \/ CommitCount(s) \/ CommitReverse(s)
  PROVE  RInv'
<1>1. /\ tx' = [tx EXCEPT ![s] = Idle] /\ owners' = owners
      /\ \A o \in Owners, l \in LotIds : taken'[o][l] >= taken[o][l]
  <2>1. CASE CommitEntry(s)
    <3>1. \A o \in Owners, l \in LotIds : o \in Holders /\ taken[o][l] \in Int
      BY DEF RInv, IInv, TypeOK, Holders
    <3>2. /\ tx' = [tx EXCEPT ![s] = Idle] /\ owners' = owners
          /\ \A o \in Holders, l \in LotIds :
                \/ taken'[o][l] = taken[o][l]
                \/ taken[o][l] = 0 /\ taken'[o][l] \in Nat
      BY <2>1, EntryWrites DEF RInv
    <3>3. \A n \in Int : n >= n
      OBVIOUS
    <3>4. \A n \in Nat : n >= 0
      OBVIOUS
    <3> QED
      BY <3>1, <3>2, <3>3, <3>4
  <2>2. CASE CommitCount(s) \/ CommitReverse(s)
    <3>1. \A o \in Owners, l \in LotIds : taken[o][l] \in Int
      BY DEF RInv, IInv, TypeOK, Holders
    <3>2. tx' = [tx EXCEPT ![s] = Idle] /\ owners' = owners /\ taken' = taken
      BY <2>2 DEF CommitCount, CommitReverse, Runs
    <3>3. \A n \in Int : n >= n
      OBVIOUS
    <3> QED
      BY <3>1, <3>2, <3>3
  <2> QED
    BY <2>1, <2>2
<1>2. \A o \in Owners, l \in LotIds : taken[o][l] \in Int /\ taken'[o][l] \in Int
  BY DEF RInv, IInv, TypeOK, Holders
<1>3. ReturnsOnlyWhatWasTaken'
  BY <1>1, <1>2 DEF RInv, ReturnsOnlyWhatWasTaken
<1>4. ASSUME NEW r \in Sessions \ {s}, tx[r].op \in SaleOps
      PROVE  \A l \in LotIds :
                tx[r].change[l] + AtLeast0(tx[r].plan[l]) <= taken'[tx[r].owner][l]
  <2>1. tx[r] \in Sale
    BY <1>4, Kinds DEF RInv, IInv, TypeOK
  <2>2. ReturnFits(tx[r]) /\ tx[r].owner \in Owners
    BY <1>4, <2>1 DEF Sale, RInv, ReturnsFit
  <2>3. \A l \in LotIds : tx[r].change[l] \in Int /\ tx[r].plan[l] \in Int
    BY <2>1 DEF Sale
  <2> QED
    BY <1>1, <1>2, <2>2, <2>3 DEF ReturnFits, AtLeast0
<1> QED
  BY <1>1, <1>3, <1>4, EndsFit

\* RInv is inductive while nothing undoes a sale whose owner is in use.
LEMMA RInvInductive == RInv /\ UndoneApart /\ [Next]_vars => RInv'
<1> SUFFICES ASSUME RInv, UndoneApart, [Next]_vars PROVE RInv'
  OBVIOUS
<1>1. IInv'
  BY IInvInductive DEF RInv
<1>2. CASE UNCHANGED vars
  BY <1>1, <1>2 DEF vars, RInv, ReturnsOnlyWhatWasTaken, LaunchedOnce, ReturnsFit, ReturnFits
<1>3. CASE NightEnds
  BY <1>1, <1>3 DEF NightEnds, RInv, ReturnsOnlyWhatWasTaken, LaunchedOnce, ReturnsFit, ReturnFits
<1>4. ASSUME NEW s \in Sessions, Asks(s) \/ Advances(s) \/ RollBack(s)
      PROVE  RInv'
  <2>1. CASE Asks(s)
    BY <1>1, <2>1, SalesBeginFit, OthersFit DEF Asks
  <2>2. CASE Advances(s)
    <3>1. CASE LockFirst(s) \/ DropOversales(s) \/ ReadMoves(s) \/ LockLots(s) \/ PlanSale(s)
      <4>1. tx[s].op \in SaleOps
        BY <3>1 DEF LockFirst, DropOversales, ReadMoves, LockLots, NextNeed, PlanSale, SaleOps
      <4> QED
        BY <1>1, <3>1, <4>1, SaleStepsFit
    <3>2. CASE MoveLot(s)
      <4>1. tx[s].op \in SaleOps \/ tx[s].op = "count"
        BY <3>2 DEF MoveLot, Moving
      <4> QED
        BY <1>1, <3>2, <4>1, SaleStepsFit, OthersFit
    <3>3. CASE CommitSale(s)
      BY <1>1, <3>3, CommitSaleFit
    <3>4. CASE CommitEntry(s) \/ CommitCount(s) \/ CommitReverse(s)
      BY <1>1, <3>4, OtherCommitsFit
    <3>5. CASE PlanCount(s)
      BY <1>1, <3>5, OthersFit
    <3> QED
      BY <2>2, <3>1, <3>2, <3>3, <3>4, <3>5 DEF Advances
  <2>3. CASE RollBack(s)
    BY <1>1, <2>3, OthersFit
  <2> QED
    BY <1>4, <2>1, <2>2, <2>3
<1> QED
  BY <1>2, <1>3, <1>4 DEF Next

\* Nothing was taken, and nothing is in flight, at the start.
LEMMA InitFit == Init => RInv
<1> SUFFICES ASSUME Init PROVE RInv
  OBVIOUS
<1>1. IInv
  BY InitSound
<1>2. \A s \in Sessions : tx[s].op = "idle"
  BY DEF Init, Idle
<1>3. "idle" \notin SaleOps /\ Launches \subseteq SaleOps
  BY DEF SaleOps, Launches
<1>4. ReturnsOnlyWhatWasTaken
  BY DEF Init, ReturnsOnlyWhatWasTaken, NoChange, Holders
<1> QED
  BY <1>1, <1>2, <1>3, <1>4 DEF RInv, LaunchedOnce, ReturnsFit

(***************************************************************************)
(* A return never gives back more than the owner's sales took and still    *)
(* keep (stock/prisma-sale-stock.ts, returnSale), however launches, edits, *)
(* counts, entries and reversals overlap, as long as no cancel, restore or *)
(* removal runs while another transaction of the same owner does: those    *)
(* look at what was taken before they lock the owner's row.                *)
(***************************************************************************)
THEOREM ReturnsStayWithin == Spec /\ []UndoneApart => []ReturnsOnlyWhatWasTaken
<1>1. RInv => ReturnsOnlyWhatWasTaken
  BY DEF RInv
<1> QED
  BY <1>1, InitFit, RInvInductive, PTL DEF Spec

-----------------------------------------------------------------------------
(***************************************************************************)
(* What takeInExpiryOrder gives, added up (stock/fefo.ts).                 *)
(***************************************************************************)

\* Among finitely many lots one is the last to go out.
LEMMA LastToGo ==
  ASSUME NEW S, S \subseteq Nat, IsFiniteSet(S), S # {},
         NEW expires, \A l \in S : expires[l] \in Nat
  PROVE  \E m \in S : \A l \in S : ~GoesFirst(expires, m, l)
<1> DEFINE Last(m, U) == \A l \in U : ~GoesFirst(expires, m, l)
<1> SUFFICES ASSUME ~(\E m \in S : Last(m, S)) PROVE FALSE
  OBVIOUS
<1>1. PICK F : F = {U \in SUBSET S : U # {} /\ ~(\E m \in U : Last(m, U))}
  OBVIOUS
<1>2. F \in SUBSET (SUBSET S) /\ S \in F
  BY <1>1
<1>3. PICK U \in F : \A V \in F : V \subseteq U => V = U
  <2>1. F # {}
    BY <1>2
  <2>2. F \in SUBSET (SUBSET S)
    BY <1>2
  <2> QED
    BY ONLY IsFiniteSet(S), <2>1, <2>2, MinimalSubset
<1>4. U \in SUBSET S /\ U # {} /\ ~(\E m \in U : Last(m, U))
  BY <1>1, <1>3
<1>5. PICK x \in U : x \in S
  BY <1>4
<1>6. PICK V : V = U \ {x}
  OBVIOUS
<1>7. V \notin F /\ V \in SUBSET S
  BY <1>3, <1>4, <1>5, <1>6
<1>8. /\ \A k, l \in S : k # l => GoesFirst(expires, k, l) \/ GoesFirst(expires, l, k)
      /\ \A k, l \in S : GoesFirst(expires, k, l) => ~GoesFirst(expires, l, k)
      /\ \A k, l, m \in S :
            GoesFirst(expires, k, l) /\ GoesFirst(expires, l, m) => GoesFirst(expires, k, m)
  BY DEF GoesFirst
<1>9. CASE V = {}
  <2>1. U = {x}
    BY <1>5, <1>6, <1>9
  <2> QED
    BY <1>4, <1>5, <1>8, <2>1
<1>10. CASE V # {}
  <2>1. PICK m \in V : Last(m, V)
    BY <1>1, <1>7, <1>10
  <2>2. m \in U /\ m \in S /\ m # x
    BY <1>6, <1>7, <2>1
  <2>3. CASE GoesFirst(expires, m, x)
    <3>1. Last(x, U)
      <4> SUFFICES ASSUME NEW l \in U PROVE ~GoesFirst(expires, x, l)
        OBVIOUS
      <4>1. l \in S
        BY <1>4
      <4>2. CASE l = x \/ l = m
        BY <1>5, <1>8, <2>2, <2>3, <4>2
      <4>3. CASE l # x /\ l # m
        <5>1. ~GoesFirst(expires, m, l)
          BY <1>6, <2>1, <4>3
        <5>2. GoesFirst(expires, l, m)
          BY <1>8, <2>2, <4>1, <4>3, <5>1
        <5>3. GoesFirst(expires, l, x)
          BY <1>5, <1>8, <2>2, <2>3, <4>1, <5>2
        <5> QED
          BY <1>5, <1>8, <4>1, <5>3
      <4> QED
        BY <4>2, <4>3
    <3> QED
      BY <1>4, <1>5, <3>1
  <2>4. CASE ~GoesFirst(expires, m, x)
    <3>1. Last(m, U)
      BY <1>6, <2>1, <2>4
    <3> QED
      BY <1>4, <2>2, <3>1
  <2> QED
    BY <2>3, <2>4
<1> QED
  BY <1>9, <1>10

\* What the lots give together is all that is asked, or all there is.
LEMMA SharesAddUp ==
  ASSUME NEW S, S \subseteq Nat, IsFiniteSet(S),
         NEW expires, \A l \in S : expires[l] \in Nat,
         NEW b, \A l \in S : b[l] \in Nat, NEW units \in Nat
  PROVE  SumOf([l \in S |-> Share(b[l], SumOf(b, {k \in S : GoesFirst(expires, k, l)}), units)], S)
           = Least(units, SumOf(b, S))
<1> DEFINE Ahead(l, U) == SumOf(b, {k \in U : GoesFirst(expires, k, l)})
           Given(U) == [l \in U |-> Share(b[l], Ahead(l, U), units)]
           Fails(U) == SumOf(Given(U), U) # Least(units, SumOf(b, U))
<1> SUFFICES ASSUME Fails(S) PROVE FALSE
  OBVIOUS
<1>1. PICK F : F = {U \in SUBSET S : Fails(U)}
  OBVIOUS
<1>2. F \in SUBSET (SUBSET S) /\ S \in F
  BY <1>1
<1>3. PICK U \in F : \A V \in F : V \subseteq U => V = U
  <2>1. F # {}
    BY <1>2
  <2>2. F \in SUBSET (SUBSET S)
    BY <1>2
  <2> QED
    BY ONLY IsFiniteSet(S), <2>1, <2>2, MinimalSubset
<1>4. U \in SUBSET S /\ Fails(U) /\ IsFiniteSet(U)
  BY <1>1, <1>3, FS_Subset
<1>5. U # {}
  <2> SUFFICES ASSUME U = {} PROVE FALSE
    OBVIOUS
  <2>1. SumOf(Given(U), U) = 0 /\ SumOf(b, U) = 0
    BY SumOfEmpty
  <2> QED
    BY <1>4, <2>1 DEF Least
<1>6. PICK m \in U : \A l \in U : ~GoesFirst(expires, m, l)
  BY <1>4, <1>5, LastToGo
<1>7. PICK V : V = U \ {m}
  OBVIOUS
<1>8. V \in SUBSET S /\ IsFiniteSet(V) /\ ~Fails(V) /\ V \subseteq U /\ m \in S
  <2>1. V \in SUBSET S /\ V \subseteq U /\ V # U
    BY <1>4, <1>6, <1>7
  <2>2. IsFiniteSet(V)
    BY <2>1, FS_Subset
  <2>3. V \notin F
    BY <1>3, <2>1
  <2> QED
    BY <1>1, <1>4, <1>6, <2>1, <2>2, <2>3
<1>9. {k \in U : GoesFirst(expires, k, m)} = V
  <2>1. \A k \in U : k # m => GoesFirst(expires, k, m)
    BY <1>4, <1>6, <1>8 DEF GoesFirst
  <2> QED
    BY <1>6, <1>7, <2>1
<1>10. \A l \in V : {k \in U : GoesFirst(expires, k, l)} = {k \in V : GoesFirst(expires, k, l)}
  BY <1>6, <1>7
<1>11. PICK a \in Nat, c \in Nat : a = SumOf(b, V) /\ c = b[m]
  BY <1>8, SumOfNat
<1>12. SumOf(b, U) = c + a
  <2>1. \A l \in U : b[l] \in Int
    BY <1>4
  <2> QED
    BY ONLY <1>4, <1>6, <1>7, <1>11, <2>1, SumsSplit
<1>13. PICK w, v : w = Given(U) /\ v = Given(V)
  OBVIOUS
<1>14. /\ w[m] = Share(c, a, units)
       /\ \A l \in V : w[l] = v[l]
  BY <1>6, <1>8, <1>9, <1>10, <1>11, <1>13
<1>15. \A l \in U : w[l] \in Int
  <2> TAKE l \in U
  <2>1. IsFiniteSet({k \in U : GoesFirst(expires, k, l)})
    BY <1>4, FS_Subset
  <2>2. PICK ahead : ahead = {k \in U : GoesFirst(expires, k, l)}
    OBVIOUS
  <2>3. \A k \in ahead : b[k] \in Int
    BY <1>4, <2>2
  <2>4. SumOf(b, ahead) \in Int
    BY <2>1, <2>2, <2>3, SumOfType
  <2>5. w[l] = Share(b[l], SumOf(b, ahead), units) /\ b[l] \in Nat
    BY <1>4, <1>13, <2>2
  <2> QED
    BY <2>4, <2>5, ShareType
<1>16. SumOf(w, U) = w[m] + SumOf(w, V)
  BY <1>4, <1>6, <1>7, <1>15, SumsSplit
<1>17. SumOf(w, V) = SumOf(v, V)
  BY <1>8, <1>14, SumOfSame
<1>18. SumOf(v, V) = Least(units, a)
  BY <1>8, <1>11, <1>13
<1>19. SumOf(w, U) = Share(c, a, units) + Least(units, a)
  BY <1>14, <1>16, <1>17, <1>18
<1>20. Share(c, a, units) + Least(units, a) = Least(units, c + a)
  BY <1>11 DEF Share, Least, AtLeast0
<1>21. SumOf(w, U) = Least(units, SumOf(b, U))
  BY <1>12, <1>19, <1>20
<1> QED
  BY <1>4, <1>13, <1>21

\* takeInExpiryOrder and what planSale finds missing add up to what is asked.
LEMMA TakesAddUp ==
  ASSUME NEW balance, IsFiniteSet(DOMAIN balance), DOMAIN balance \in SUBSET Nat,
         \A l \in DOMAIN balance : balance[l] \in Nat,
         NEW expires, \A l \in DOMAIN balance : expires[l] \in Nat, NEW units \in Nat
  PROVE  /\ SumOf(TakeInExpiryOrder(balance, expires, units), DOMAIN balance)
              = Least(units, SumOf(balance, DOMAIN balance))
         /\ SumOf(TakeInExpiryOrder(balance, expires, units), DOMAIN balance)
              + MissingOf(balance, units) = units
<1>1. PICK D : D = DOMAIN balance
  OBVIOUS
<1>2. SumOf([l \in D |-> Share(balance[l],
                               SumOf(balance, {k \in D : GoesFirst(expires, k, l)}), units)], D)
        = Least(units, SumOf(balance, D))
  BY <1>1, SharesAddUp
<1>3. SumOf(TakeInExpiryOrder(balance, expires, units), D) = Least(units, SumOf(balance, D))
  BY <1>1, <1>2 DEF TakeInExpiryOrder, LotsAhead
<1>4. SumOf(balance, D) \in Nat
  BY <1>1, SumOfNat
<1> QED
  BY <1>1, <1>3, <1>4 DEF MissingOf, Least, AtLeast0

\* What takeInExpiryOrder takes while more is asked than there is: all of it.
LEMMA MissingTakesAll ==
  ASSUME NEW balance, IsFiniteSet(DOMAIN balance), DOMAIN balance \in SUBSET Nat,
         \A l \in DOMAIN balance : balance[l] \in Nat,
         NEW expires, \A l \in DOMAIN balance : expires[l] \in Nat,
         NEW units \in Nat, MissingOf(balance, units) > 0,
         NEW k \in DOMAIN balance
  PROVE  TakeInExpiryOrder(balance, expires, units)[k] = balance[k]
<1>1. PICK D, ahead : D = DOMAIN balance /\ ahead = LotsAhead(balance, expires, k)
  OBVIOUS
<1>2. IsFiniteSet(D) /\ \A l \in D : balance[l] \in Nat
  BY <1>1
<1>3. k \in D /\ k \in Nat /\ expires[k] \in Nat
  BY <1>1
<1>4. ahead \in SUBSET (D \ {k})
  BY <1>1, <1>3 DEF LotsAhead, GoesFirst
<1>5. IsFiniteSet(D \ {k}) /\ \A l \in D \ {k} : balance[l] \in Nat
  BY <1>2, FS_Subset
<1>6. /\ SumOf(balance, ahead) \in Nat
      /\ SumOf(balance, ahead) <= SumOf(balance, D \ {k})
  BY <1>4, <1>5, SumOfPart
<1>7. /\ SumOf(balance, D \ {k}) \in Nat
      /\ SumOf(balance, D) = balance[k] + SumOf(balance, D \ {k})
  BY <1>2, <1>3, SumOfTerm
<1>8. PICK a, b, c \in Nat : /\ a = SumOf(balance, ahead) /\ b = balance[k]
                             /\ c = SumOf(balance, D \ {k})
  BY <1>2, <1>3, <1>6, <1>7
<1>9. a + b < units
  <2>1. AtLeast0(units - (b + c)) > 0
    BY <1>1, <1>7, <1>8 DEF MissingOf
  <2> QED
    BY <1>6, <1>8, <2>1 DEF AtLeast0
<1>10. Share(b, a, units) = b
  BY <1>8, <1>9 DEF Share, Least, AtLeast0
<1> QED
  BY <1>1, <1>3, <1>8, <1>10 DEF TakeInExpiryOrder

(***************************************************************************)
(* Why an owner takes and owes no more than it needs: a sale in flight     *)
(* keeps an account. What its owner keeps of a supply, what was found      *)
(* missing and what is still to sell are within its needs; it dropped the  *)
(* rows its owner had; and what an entry read of the rows is still so, or  *)
(* the entry fails, when it rewrites them.                                 *)
(***************************************************************************)
RowsToldApart ==
    /\ \A r \in oversales : r.id <= lastId
    /\ \A r, q \in oversales : r.id = q.id => r = q

\* Each supply is in a list of needs at most once.
Distinct(needs) ==
    \A i, j \in DOMAIN needs : needs[i].supply = needs[j].supply => i = j

\* An owner not there yet has nothing; orders are not deleted.
OwnersSound ==
    \A o \in Owners :
        /\ Distinct(owners[o].needs)
        /\ owners[o].state = "ABSENT" =>
              OversalesOf(o) = {} /\ \A l \in LotIds : taken[o][l] = 0
        /\ owners[o].state = "DELETED" => o \in Consumptions

\* What an entry read of the pending oversales is still so when it settles them.
CoversStand(t) ==
    /\ \A c, d \in t.covers : c.id = d.id => c = d
    /\ \A c \in t.covers :
          /\ c.id <= lastId /\ c.units <= c.was
          /\ \A r \in oversales : r.id = c.id =>
                /\ r.supply = t.supply /\ r.quantity = c.was
                /\ r.owner = c.owner
                   \/ (c.owner \in Owners /\ owners[c.owner].state = "DELETED")

\* what the owner will have taken of the supply when the plan is written
KeepsOf(t, u) ==
    SumOf([l \in LotIds |-> taken[t.owner][l] - t.change[l] - t.plan[l]], LotsIn(u))

\* A sale's account: what it keeps, what was short and what is still to do.
AccountFits(t) ==
    /\ Distinct(t.needs)
    /\ t.op \in {"cancel", "restore"} => t.owner \in Orders
    /\ t.op = "remove" => t.owner \in Consumptions
    /\ t.op \in Launches => t.pc \notin {"drop", "moves"}
    /\ ~t.live =>
          /\ t.pc \in {"start", "moving"} /\ t.todo = <<>> /\ t.dropped = {}
          /\ \A l \in LotIds : t.plan[l] = 0 /\ t.change[l] = 0
          /\ \A u \in Supplies : t.short[u] = 0
    /\ t.live /\ t.pc \in {"start", "drop", "moves"} =>
          /\ t.todo = t.needs
          /\ \A u \in Supplies : t.short[u] = 0
    /\ t.live /\ t.pc \in {"moves", "moving", "locked"} =>
          IdsOf(OversalesOf(t.owner)) \subseteq t.dropped
    /\ t.live /\ t.pc \in {"moving", "locked"} =>
          \A u \in Supplies :
              KeepsOf(t, u) + t.short[u] + NeedIn(t.todo, u) <= NeedIn(t.needs, u)

AccountsFit == \A s \in Sessions : tx[s].op \in SaleOps => AccountFits(tx[s])
CoversAllStand == \A s \in Sessions : tx[s].op = "entry" => CoversStand(tx[s])

TInv ==
    /\ RInv /\ TakesWhatItNeeds
    /\ RowsToldApart /\ OwnersSound /\ CoversAllStand /\ AccountsFit

(***************************************************************************)
(* What a list of needs asks of a supply.                                  *)
(***************************************************************************)

\* The lines of a list of needs are finitely many.
LEMMA FiniteLines ==
  ASSUME NEW needs \in Seq(SaleNeed)
  PROVE  DOMAIN needs = 1 .. Len(needs) /\ Len(needs) \in Nat /\ IsFiniteSet(DOMAIN needs)
<1>1. DOMAIN needs = 1 .. Len(needs) /\ Len(needs) \in Nat
  OBVIOUS
<1>2. 1 \in Int /\ Len(needs) \in Int
  BY <1>1
<1>3. IsFiniteSet(1 .. Len(needs))
  BY <1>2, FS_Interval, Zenon
<1> QED
  BY <1>1, <1>3

\* What is asked of a supply is a quantity.
LEMMA NeedType ==
  ASSUME NEW needs \in Seq(SaleNeed), NEW u
  PROVE  NeedIn(needs, u) \in Nat
<1>1. PICK S, w : /\ S = {i \in DOMAIN needs : needs[i].supply = u}
                  /\ w = [i \in DOMAIN needs |-> needs[i].units]
  OBVIOUS
<1>2. IsFiniteSet(S)
  BY <1>1, FiniteLines, FS_Subset
<1>3. \A i \in S : w[i] \in Nat
  <2> TAKE i \in S
  <2>1. needs[i] \in SaleNeed /\ i \in DOMAIN needs
    BY <1>1
  <2> QED
    BY <1>1, <2>1 DEF SaleNeed
<1> QED
  BY <1>1, <1>2, <1>3, SumOfNat DEF NeedIn

\* Nothing to sell asks for nothing.
LEMMA NeedOfNone ==
  ASSUME NEW u
  PROVE  NeedIn(<<>>, u) = 0
<1>1. {i \in DOMAIN <<>> : <<>>[i].supply = u} = {}
  OBVIOUS
<1> QED
  BY <1>1, SumOfEmpty DEF NeedIn

\* The first need and the others.
LEMMA NeedOfTail ==
  ASSUME NEW todo \in Seq(SaleNeed), todo # <<>>, NEW u
  PROVE  NeedIn(todo, u)
           = NeedIn(Tail(todo), u) + (IF Head(todo).supply = u THEN Head(todo).units ELSE 0)
<1>1. PICK n, tail : n = Len(todo) /\ tail = Tail(todo)
  OBVIOUS
<1>2. /\ n \in Nat /\ n >= 1 /\ DOMAIN todo = 1 .. n /\ tail \in Seq(SaleNeed)
      /\ DOMAIN tail = 1 .. (n - 1)
      /\ \A i \in 1 .. (n - 1) : tail[i] = todo[i + 1]
      /\ Head(todo) = todo[1]
  BY <1>1
<1>3. \A i \in 1 .. n : todo[i] \in SaleNeed
  BY <1>2
<1>4. PICK S, w : /\ S = {i \in 1 .. n : todo[i].supply = u}
                  /\ w = [i \in 1 .. n |-> todo[i].units]
  OBVIOUS
<1>5. PICK T, v : /\ T = {i \in 1 .. (n - 1) : tail[i].supply = u}
                  /\ v = [i \in 1 .. (n - 1) |-> tail[i].units]
  OBVIOUS
<1>6. NeedIn(todo, u) = SumOf(w, S) /\ NeedIn(tail, u) = SumOf(v, T)
  BY <1>2, <1>4, <1>5 DEF NeedIn
<1>7. IsFiniteSet(S) /\ IsFiniteSet(T)
  BY <1>2, <1>4, <1>5, FiniteLines, FS_Subset
<1>8. PICK R : R = S \ {1}
  OBVIOUS
<1>9. IsFiniteSet(R)
  BY <1>7, <1>8, FS_Subset
<1>10. \A i \in S : w[i] \in Int
  BY <1>3, <1>4 DEF SaleNeed
<1>11. SumOf(w, R) = SumOf(v, T)
  <2>1. PICK f : f = [i \in T |-> i + 1]
    OBVIOUS
  <2>2. /\ \A i \in T : f[i] \in R /\ f[i] = i + 1
        /\ \A i, j \in T : f[i] = f[j] => i = j
    BY <1>2, <1>4, <1>5, <1>8, <2>1
  <2>3. \A k \in R : \E i \in T : f[i] = k
    <3> TAKE k \in R
    <3>1. k - 1 \in T /\ f[k - 1] = k
      BY <1>2, <1>4, <1>5, <1>8, <2>1
    <3> QED
      BY <3>1
  <2>4. \A i \in T : v[i] \in Int /\ w[f[i]] = v[i]
    BY <1>2, <1>3, <1>4, <1>5, <2>2 DEF SaleNeed
  <2>5. \A i \in T : f[i] \in R
    BY <2>2
  <2>6. \A i, j \in T : f[i] = f[j] => i = j
    BY <2>2
  <2>7. \A i \in T : v[i] \in Int
    BY <2>4
  <2>8. \A i \in T : w[f[i]] = v[i]
    BY <2>4
  <2>9. IsFiniteSet(T)
    BY <1>7
  <2> QED
    BY ONLY <1>9, <2>3, <2>5, <2>6, <2>7, <2>8, <2>9, SumOfRenamed
<1>12. SumOf(v, T) \in Nat
  BY <1>1, <1>2, <1>6, NeedType
<1>13. CASE todo[1].supply = u
  <2>1. 1 \in S /\ w[1] = todo[1].units /\ todo[1].units \in Int
    BY <1>2, <1>3, <1>4, <1>13 DEF SaleNeed
  <2>2. SumOf(w, S) = w[1] + SumOf(w, R)
    BY <1>7, <1>8, <1>10, <2>1, SumsSplit
  <2> QED
    BY <1>1, <1>2, <1>6, <1>11, <1>12, <1>13, <2>1, <2>2
<1>14. CASE todo[1].supply # u
  <2>1. R = S
    BY <1>4, <1>8, <1>14
  <2> QED
    BY <1>1, <1>2, <1>6, <1>11, <1>12, <1>14, <2>1
<1> QED
  BY <1>13, <1>14

\* What a sale found missing of a supply is written once.
LEMMA ShortOnce ==
  ASSUME lastId \in Nat, NEW t \in Sale, Distinct(t.needs), NEW u \in Supplies,
         NEW rows, rows = {r \in ShortRows(t) : r.supply = u}
  PROVE  IsFiniteSet(rows) /\ QuantityOf(rows) \in Nat /\ QuantityOf(rows) <= t.short[u]
<1>1. t.short[u] \in Nat
  BY DEF Sale
<1>2. \A r \in rows : r.quantity = t.short[u] /\ \E i \in DOMAIN t.needs :
          /\ t.needs[i].supply = u
          /\ r = [id |-> lastId + i, owner |-> t.owner, supply |-> t.needs[i].supply,
                  quantity |-> t.short[t.needs[i].supply]]
  BY DEF ShortRows
<1>3. \A r, q \in rows : r = q
  BY <1>2 DEF Distinct
<1>4. CASE rows = {}
  <2>1. QuantityOf(rows) = 0
    BY <1>4, SumOfEmpty DEF QuantityOf
  <2> QED
    BY <1>1, <1>4, <2>1, FS_EmptySet
<1>5. CASE rows # {}
  <2>1. PICK r \in rows : rows = {r}
    BY <1>3, <1>5
  <2>2. PICK w : w = [x \in rows |-> x.quantity]
    OBVIOUS
  <2>3. w[r] = t.short[u]
    BY <1>2, <2>1, <2>2
  <2>4. SumOf(w, {r}) = w[r]
    BY <1>1, <2>3, SumOfOne
  <2>5. QuantityOf(rows) = t.short[u]
    BY <2>1, <2>2, <2>3, <2>4 DEF QuantityOf
  <2>6. IsFiniteSet(rows)
    BY <2>1, FS_Singleton
  <2> QED
    BY <1>1, <2>5, <2>6
<1> QED
  BY <1>4, <1>5

\* Fewer rows, no greater quantity.
LEMMA FewerRows ==
  ASSUME NEW rows, IsFiniteSet(rows), \A r \in rows : r.quantity \in Nat,
         NEW some \in SUBSET rows
  PROVE  IsFiniteSet(some) /\ QuantityOf(some) \in Nat /\ QuantityOf(some) <= QuantityOf(rows)
<1>1. PICK w, v : w = [r \in rows |-> r.quantity] /\ v = [r \in some |-> r.quantity]
  OBVIOUS
<1>2. IsFiniteSet(some)
  BY FS_Subset
<1>3. \A r \in some : v[r] = w[r]
  BY <1>1
<1>4. SumOf(v, some) = SumOf(w, some)
  BY <1>2, <1>3, SumOfSame
<1>5. \A r \in rows : w[r] \in Nat
  BY <1>1
<1>6. SumOf(w, some) \in Nat /\ SumOf(w, some) <= SumOf(w, rows)
  BY <1>5, SumOfPart
<1> QED
  BY <1>1, <1>2, <1>4, <1>6 DEF QuantityOf

(***************************************************************************)
(* What the steps of the others leave of a sale's account.                 *)
(***************************************************************************)

\* An account stands while no lot goes, its owner's rows are no more, and what
\* its owner took is the same.
LEMMA AccountStands ==
  ASSUME IInv, TypeOK', NEW t \in Sale, Sound(t), AccountFits(t),
         IdsOf(OversalesOf(t.owner))' \subseteq IdsOf(OversalesOf(t.owner))
            \/ t.pc \in {"start", "drop"},
         t.pc \in {"start", "drop", "moves"} \/
            \A l \in LotIds :
               /\ lots[l] # NoLot => /\ lots'[l] # NoLot /\ lots'[l].supply = lots[l].supply
                                     /\ taken'[t.owner][l] = taken[t.owner][l]
               /\ lots[l] = NoLot => taken'[t.owner][l] = 0
  PROVE  AccountFits(t)'
<1>1. CASE t.pc \in {"start", "drop", "moves"}
  BY <1>1 DEF AccountFits
<1>2. CASE t.pc \notin {"start", "drop", "moves"}
  <2>1. t.owner \in Holders /\ t.op \in SaleOps
    BY DEF Sale, Holders
  <2>2. /\ taken[t.owner] \in [LotIds -> Int]
        /\ t.change \in [LotIds -> Int] /\ t.plan \in [LotIds -> Int]
    BY <2>1 DEF IInv, TypeOK, Sale
  <2>3. ASSUME NEW u \in Supplies
        PROVE  KeepsOf(t, u)' = KeepsOf(t, u)
    <3>1. PICK S, T : S = LotsIn(u) /\ T = LotsIn(u)'
      OBVIOUS
    <3>2. PICK w, v : /\ w = [l \in LotIds |-> taken[t.owner][l] - t.change[l] - t.plan[l]]
                      /\ v = [l \in LotIds |-> taken'[t.owner][l] - t.change[l] - t.plan[l]]
      OBVIOUS
    <3>3. S \in SUBSET T /\ T \in SUBSET LotIds
      BY <1>2, <3>1 DEF LotsIn, InStock
    <3>4. /\ \A l \in S : w[l] \in Int /\ v[l] = w[l]
          /\ \A l \in T \ S : v[l] = 0
      <4>1. ASSUME NEW l \in S
            PROVE  w[l] \in Int /\ v[l] = w[l]
        <5>1. l \in LotIds /\ lots[l] # NoLot
          BY <3>1 DEF LotsIn, InStock
        <5>2. taken'[t.owner][l] = taken[t.owner][l]
          BY <1>2, <5>1
        <5> QED
          BY <2>2, <3>2, <5>1, <5>2
      <4>2. ASSUME NEW l \in T \ S
            PROVE  v[l] = 0
        <5>1. l \in LotIds /\ lots[l] = NoLot
          BY <1>2, <3>1 DEF LotsIn, InStock
        <5>2. taken'[t.owner][l] = 0 /\ t.change[l] = 0 /\ t.plan[l] = 0
          BY <1>2, <2>1, <5>1 DEF Sound
        <5> QED
          BY <3>2, <5>1, <5>2
      <4> QED
        BY <4>1, <4>2
    <3>5. IsFiniteSet(T)
      BY <3>3, FiniteLots
    <3>6. SumOf(v, T) = SumOf(w, S)
      BY <3>3, <3>4, <3>5, SumOfMore
    <3> QED
      BY <3>1, <3>2, <3>6 DEF KeepsOf
  <2> QED
    BY <1>2, <2>3 DEF AccountFits
<1> QED
  BY <1>1, <1>2

\* A step that writes none of the tables an account is about.
LEMMA AccountUntouched ==
  ASSUME UNCHANGED Tables, NEW t
  PROVE  /\ AccountFits(t) => AccountFits(t)'
         /\ CoversStand(t) => CoversStand(t)'
<1>1. /\ lots' = lots /\ taken' = taken /\ oversales' = oversales
      /\ lastId' = lastId /\ owners' = owners
  BY DEF Tables
<1>2. \A u \in Supplies : LotsIn(u)' = LotsIn(u)
  BY <1>1 DEF LotsIn, InStock
<1>3. \A u \in Supplies : KeepsOf(t, u)' = KeepsOf(t, u)
  BY <1>1, <1>2 DEF KeepsOf
<1>4. OversalesOf(t.owner)' = OversalesOf(t.owner)
  BY <1>1 DEF OversalesOf
<1>5. AccountFits(t) => AccountFits(t)'
  BY <1>3, <1>4 DEF AccountFits, IdsOf
<1>6. CoversStand(t) => CoversStand(t)'
  BY <1>1 DEF CoversStand
<1> QED
  BY <1>5, <1>6

\* A step that writes one transaction and no table.
LEMMA StaysAccounted ==
  ASSUME TInv, RInv', NEW s \in Sessions, NEW n, tx' = [tx EXCEPT ![s] = n],
         UNCHANGED Tables,
         n.op \in SaleOps => AccountFits(n),
         n.op = "entry" => CoversStand(n)
  PROVE  TInv'
<1>1. tx'[s] = n /\ \A r \in Sessions \ {s} : tx'[r] = tx[r]
  BY DEF TInv, RInv, IInv, TypeOK
<1>2. /\ lots' = lots /\ taken' = taken /\ oversales' = oversales
      /\ lastId' = lastId /\ owners' = owners
  BY DEF Tables
<1>3. TakesWhatItNeeds'
  <2>1. \A u \in Supplies : LotsIn(u)' = LotsIn(u)
    BY <1>2 DEF LotsIn, InStock
  <2>2. \A o \in Owners, u \in Supplies :
           TookOf(o, u)' = TookOf(o, u) /\ OwesOf(o, u)' = OwesOf(o, u)
    BY <1>2, <2>1 DEF TookOf, OwesOf, OversalesOf
  <2> QED
    BY <1>2, <2>2 DEF TInv, TakesWhatItNeeds
<1>4. RowsToldApart' /\ OwnersSound'
  BY <1>2 DEF TInv, RowsToldApart, OwnersSound, OversalesOf
<1>5. AccountsFit' /\ CoversAllStand'
  <2>1. ASSUME NEW r \in Sessions
        PROVE  /\ tx'[r].op \in SaleOps => AccountFits(tx'[r])
               /\ tx'[r].op = "entry" => CoversStand(tx'[r])
    BY <1>1 DEF TInv, AccountsFit, CoversAllStand
  <2>2. ASSUME NEW r \in Sessions
        PROVE  /\ tx'[r].op \in SaleOps => AccountFits(tx[r])'
               /\ tx'[r].op = "entry" => CoversStand(tx[r])'
    <3>1. PICK t : t = tx'[r]
      OBVIOUS
    <3>2. /\ t.op \in SaleOps => AccountFits(t)'
          /\ t.op = "entry" => CoversStand(t)'
      BY <2>1, <3>1, AccountUntouched
    <3> QED
      BY <3>1, <3>2 DEF AccountFits, CoversStand, KeepsOf
  <2> QED
    BY <2>2 DEF AccountsFit, CoversAllStand
<1> QED
  BY <1>3, <1>4, <1>5 DEF TInv

\* A commit, told by what it leaves of the others' accounts.
LEMMA EndsAccounted ==
  ASSUME TInv, RInv', NEW s \in Sessions, tx' = [tx EXCEPT ![s] = Idle],
         TakesWhatItNeeds', RowsToldApart', OwnersSound',
         \A r \in Sessions \ {s} : \E t :
            /\ t = tx[r]
            /\ t.op \in SaleOps => AccountFits(t)'
            /\ t.op = "entry" => CoversStand(t)'
  PROVE  TInv'
<1>1. tx'[s] = Idle /\ \A r \in Sessions \ {s} : tx'[r] = tx[r]
  BY DEF TInv, RInv, IInv, TypeOK
<1>2. Idle.op = "idle" /\ "idle" \notin SaleOps
  BY DEF Idle, SaleOps
<1>3. ASSUME NEW r \in Sessions
      PROVE  /\ tx'[r].op \in SaleOps => AccountFits(tx[r])'
             /\ tx'[r].op = "entry" => CoversStand(tx[r])'
  <2>1. CASE r = s
    BY <1>1, <1>2, <2>1
  <2>2. CASE r # s
    <3>1. PICK t : /\ t = tx[r]
                   /\ t.op \in SaleOps => AccountFits(t)'
                   /\ t.op = "entry" => CoversStand(t)'
      BY <2>2
    <3>2. t = tx'[r]
      BY <1>1, <2>2, <3>1
    <3> QED
      BY <3>1, <3>2 DEF AccountFits, CoversStand, KeepsOf
  <2> QED
    BY <2>1, <2>2
<1> QED
  BY <1>3 DEF TInv, AccountsFit, CoversAllStand

(***************************************************************************)
(* One lemma for each step that commits nothing.                           *)
(***************************************************************************)

\* An owner that keeps nothing of any lot keeps nothing of a supply.
LEMMA KeepsNothing ==
  ASSUME NEW t, NEW u,
         \A l \in LotIds : taken[t.owner][l] - t.change[l] - t.plan[l] = 0
  PROVE  KeepsOf(t, u) = 0
<1>1. PICK w : w = [l \in LotIds |-> taken[t.owner][l] - t.change[l] - t.plan[l]]
  OBVIOUS
<1>2. LotsIn(u) \in SUBSET LotIds
  BY DEF LotsIn, InStock
<1>3. IsFiniteSet(LotsIn(u)) /\ \A l \in LotsIn(u) : w[l] = 0
  BY <1>1, <1>2, FiniteLots
<1> QED
  BY <1>1, <1>3, SumOfZero DEF KeepsOf

\* Writing to a lot what was planned for it changes nothing of what is kept.
LEMMA KeepsSame ==
  ASSUME IInv, NEW t \in Sale, NEW n \in Sale, n.owner = t.owner, NEW u,
         \A l \in LotIds : n.change[l] + n.plan[l] = t.change[l] + t.plan[l]
  PROVE  KeepsOf(n, u) = KeepsOf(t, u)
<1>1. PICK w, v : /\ w = [l \in LotIds |-> taken[t.owner][l] - t.change[l] - t.plan[l]]
                  /\ v = [l \in LotIds |-> taken[t.owner][l] - n.change[l] - n.plan[l]]
  OBVIOUS
<1>2. t.owner \in Holders
  BY DEF Sale, Holders
<1>3. \A l \in LotIds : /\ taken[t.owner][l] \in Int /\ t.change[l] \in Int /\ t.plan[l] \in Int
                        /\ n.change[l] \in Int /\ n.plan[l] \in Int
  BY <1>2 DEF Sale, IInv, TypeOK
<1>4. \A l \in LotIds : w[l] = v[l]
  <2> TAKE l \in LotIds
  <2>1. \A a, b, c, d, e \in Int : d + e = b + c => a - b - c = a - d - e
    OBVIOUS
  <2>2. taken[t.owner][l] - t.change[l] - t.plan[l] = taken[t.owner][l] - n.change[l] - n.plan[l]
    BY <1>3, <2>1
  <2> QED
    BY <1>1, <2>2
<1>5. LotsIn(u) \in SUBSET LotIds
  BY DEF LotsIn, InStock
<1>6. SumOf(w, LotsIn(u)) = SumOf(v, LotsIn(u))
  BY <1>4, <1>5, FiniteLots, SumOfSame
<1> QED
  BY <1>1, <1>6 DEF KeepsOf

\* A sale begins with an account that fits.
LEMMA SaleBeginsAccounted ==
  ASSUME TInv, RInv', NEW s \in Sessions, NEW op \in SaleOps,
         NEW pc \in {"start", "drop", "moving"}, NEW o \in Owners,
         NEW needs \in Seq(SaleNeed), Begins(s, SaleOf(op, pc, o, needs)),
         Distinct(needs),
         op \in {"cancel", "restore"} => o \in Orders,
         op = "remove" => o \in Consumptions,
         pc = "drop" => live /\ op \notin Launches,
         pc = "moving" /\ live => owners[o].state = "ABSENT"
  PROVE  TInv'
<1>1. PICK n : n = SaleOf(op, pc, o, needs)
  OBVIOUS
<1>2. /\ n.op = op /\ n.owner = o /\ n.pc = pc /\ n.live = live /\ n.needs = needs
      /\ n.todo = (IF live THEN needs ELSE <<>>)
      /\ n.plan = NoChange /\ n.change = NoChange /\ n.dropped = {}
      /\ n.short = [u \in Supplies |-> 0]
  BY <1>1 DEF SaleOf
<1>3. tx' = [tx EXCEPT ![s] = n] /\ UNCHANGED Tables
  BY <1>1 DEF Begins, Opens
<1>4. \A l \in LotIds : n.plan[l] = 0 /\ n.change[l] = 0
  BY <1>2 DEF NoChange
<1>5. \A u \in Supplies : n.short[u] = 0
  BY <1>2
<1>6. ASSUME live, pc = "moving"
      PROVE  /\ IdsOf(OversalesOf(o)) = {}
             /\ \A u \in Supplies :
                   KeepsOf(n, u) + n.short[u] + NeedIn(n.todo, u) <= NeedIn(n.needs, u)
  <2>1. OversalesOf(o) = {} /\ \A l \in LotIds : taken[o][l] = 0
    BY <1>6 DEF TInv, OwnersSound
  <2>2. \A u \in Supplies : KeepsOf(n, u) = 0
    BY <1>2, <1>4, <2>1, KeepsNothing
  <2>3. n.todo = needs /\ n.needs = needs
    BY <1>2, <1>6
  <2>4. \A u \in Supplies : NeedIn(needs, u) \in Nat
    BY NeedType
  <2> QED
    BY <1>5, <2>1, <2>2, <2>3, <2>4 DEF IdsOf
<1>7. live \in BOOLEAN
  BY DEF TInv, RInv, IInv, TypeOK
<1>8. AccountFits(n)
  BY <1>2, <1>4, <1>5, <1>6, <1>7 DEF AccountFits
<1>9. n.op # "entry"
  BY <1>2 DEF SaleOps
<1> QED
  BY <1>3, <1>8, <1>9, StaysAccounted

\* BeginCreate, BeginConsume, BeginEdit, BeginCancel, BeginRestore, BeginRemove.
LEMMA SalesBeginAccounted ==
  ASSUME TInv, RInv', NEW s \in Sessions,
         \/ BeginCreate(s) \/ BeginConsume(s) \/ BeginEdit(s)
         \/ BeginCancel(s) \/ BeginRestore(s) \/ BeginRemove(s)
  PROVE  TInv'
<1>1. \A o \in Orders \cup Consumptions : o \in Owners
  BY DEF Owners
<1>2. \A needs \in Needs : needs \in Seq(SaleNeed) /\ Distinct(needs)
  BY StockAssumption DEF Distinct
<1>3. \A o \in Owners : owners[o].needs \in Seq(SaleNeed) /\ Distinct(owners[o].needs)
  BY DEF TInv, RInv, IInv, TypeOK, Owner, OwnersSound
<1>4. <<>> \in Seq(SaleNeed) /\ Distinct(<<>>)
  BY DEF Distinct
<1>5. /\ FirstPc \in {"start", "drop", "moving"}
      /\ FirstPc = "drop" => live
      /\ ~(FirstPc = "moving" /\ live)
  BY DEF FirstPc
<1>6. /\ {"create", "edit", "cancel", "restore", "consume", "reconsume", "remove"} = SaleOps
      /\ {"create", "consume"} = Launches
  BY DEF SaleOps, Launches
<1>7. CASE BeginCreate(s)
  BY <1>1, <1>2, <1>6, <1>7, SaleBeginsAccounted DEF BeginCreate
<1>8. CASE BeginConsume(s)
  <2>1. PICK o \in Consumptions, needs \in Needs :
           Unused(o) /\ Begins(s, SaleOf("consume", "moving", o, needs))
    BY <1>8 DEF BeginConsume
  <2>2. owners[o].state = "ABSENT" /\ o \in Owners
    BY <1>1, <2>1 DEF Unused
  <2> QED
    BY <1>2, <1>6, <2>1, <2>2, SaleBeginsAccounted
<1>9. CASE BeginEdit(s)
  <2>1. PICK o \in Owners, needs \in Needs :
           Begins(s, SaleOf(IF o \in Orders THEN "edit" ELSE "reconsume", "start", o, needs))
    BY <1>9 DEF BeginEdit
  <2>2. PICK op \in {"edit", "reconsume"} : op = IF o \in Orders THEN "edit" ELSE "reconsume"
    OBVIOUS
  <2> QED
    BY <1>2, <1>6, <2>1, <2>2, SaleBeginsAccounted
<1>10. CASE BeginCancel(s)
  BY <1>1, <1>4, <1>5, <1>6, <1>10, SaleBeginsAccounted DEF BeginCancel
<1>11. CASE BeginRestore(s)
  BY <1>1, <1>3, <1>5, <1>6, <1>11, SaleBeginsAccounted DEF BeginRestore
<1>12. CASE BeginRemove(s)
  BY <1>1, <1>4, <1>5, <1>6, <1>12, SaleBeginsAccounted DEF BeginRemove
<1> QED
  BY <1>7, <1>8, <1>9, <1>10, <1>11, <1>12

\* BeginEntry reads the pending oversales as they are.
LEMMA EntryBeginsAccounted ==
  ASSUME TInv, RInv', NEW s \in Sessions, BeginEntry(s)
  PROVE  TInv'
<1>0. PICK supply \in Supplies, quantity \in Units \ {0} : \E n :
         /\ Begins(s, n) /\ n.op = "entry" /\ n.supply = supply
         /\ n.covers = SettleOversales(OversalesOn(supply), quantity)
  BY DEF BeginEntry
<1>1. PICK n :
         /\ Begins(s, n) /\ n.op = "entry" /\ n.supply = supply
         /\ n.covers = SettleOversales(OversalesOn(supply), quantity)
  BY <1>0
<1>2. quantity \in Nat
  BY StockAssumption
<1>3. PICK pending : pending = OversalesOn(supply)
  OBVIOUS
<1>4. pending \subseteq oversales /\ oversales \subseteq Oversale /\ IsFiniteSet(pending)
  BY <1>3, FS_Subset DEF OversalesOn, TInv, RInv, IInv, TypeOK
<1>5. \A c \in n.covers : \E p \in pending : /\ c.id = p.id /\ c.owner = p.owner
                                             /\ c.was = p.quantity
                                             /\ c.units = Share(p.quantity,
                                                   QuantityOf({q \in pending : q.id < p.id}),
                                                   quantity)
  BY <1>1, <1>3 DEF SettleOversales
<1>6. \A c, d \in n.covers : c.id = d.id => c = d
  <2> SUFFICES ASSUME NEW c \in n.covers, NEW d \in n.covers, c.id = d.id
               PROVE  c = d
    OBVIOUS
  <2>1. n.covers = {r \in {[id |-> p.id, owner |-> p.owner,
             units |-> Share(p.quantity, QuantityOf({q \in pending : q.id < p.id}), quantity),
             was |-> p.quantity] : p \in pending} : r.units > 0}
    BY <1>1, <1>3 DEF SettleOversales
  <2>2. PICK p \in pending : c = [id |-> p.id, owner |-> p.owner,
             units |-> Share(p.quantity, QuantityOf({q \in pending : q.id < p.id}), quantity),
             was |-> p.quantity]
    BY <2>1
  <2>3. PICK r \in pending : d = [id |-> r.id, owner |-> r.owner,
             units |-> Share(r.quantity, QuantityOf({q \in pending : q.id < r.id}), quantity),
             was |-> r.quantity]
    BY <2>1
  <2>4. p.id = r.id
    BY <2>2, <2>3
  <2>5. p = r
    BY <1>4, <2>4 DEF TInv, RowsToldApart
  <2> QED
    BY <2>2, <2>3, <2>5
<1>7. ASSUME NEW c \in n.covers
      PROVE  /\ c.id <= lastId /\ c.units <= c.was
             /\ \A r \in oversales : r.id = c.id =>
                   r.supply = supply /\ r.quantity = c.was /\ r.owner = c.owner
  <2>1. PICK p \in pending : /\ c.id = p.id /\ c.owner = p.owner /\ c.was = p.quantity
                             /\ c.units = Share(p.quantity,
                                   QuantityOf({q \in pending : q.id < p.id}), quantity)
    BY <1>5
  <2>2. p \in oversales /\ p.supply = supply /\ p.quantity \in Nat
    BY <1>3, <1>4 DEF OversalesOn, Oversale
  <2>3. c.id <= lastId /\ \A r \in oversales : r.id = c.id => r = p
    BY <2>1, <2>2 DEF TInv, RowsToldApart
  <2>4. PICK ahead : ahead = {q \in pending : q.id < p.id}
    OBVIOUS
  <2>5. QuantityOf(ahead) \in Int
    BY <1>4, <2>4, FS_Subset, QuantityType DEF Oversale
  <2>6. Share(p.quantity, QuantityOf(ahead), quantity) \in 0 .. p.quantity
    BY <1>2, <2>2, <2>5, ShareType
  <2> QED
    BY <2>1, <2>2, <2>3, <2>4, <2>6
<1>8. CoversStand(n)
  BY <1>1, <1>6, <1>7 DEF CoversStand
<1>9. tx' = [tx EXCEPT ![s] = n] /\ UNCHANGED Tables /\ "entry" \notin SaleOps
  BY <1>1 DEF Begins, Opens, SaleOps
<1> QED
  BY <1>1, <1>8, <1>9, StaysAccounted

\* A count or a reversal begins, or anything ends without a commit.
LEMMA OthersAccounted ==
  ASSUME TInv, RInv', NEW s \in Sessions,
         \/ BeginCount(s) \/ BeginReverse(s) \/ RollBack(s) \/ PlanCount(s)
         \/ (MoveLot(s) /\ tx[s].op = "count")
  PROVE  TInv'
<1>1. {"entry", "count", "reverse", "idle"} \cap SaleOps = {}
  BY DEF SaleOps
<1>2. ASSUME NEW n, tx' = [tx EXCEPT ![s] = n], UNCHANGED Tables,
             n.op \in {"count", "reverse", "idle"}
      PROVE  TInv'
  BY <1>1, <1>2, StaysAccounted
<1>3. CASE BeginCount(s)
  <2>1. PICK n : Begins(s, n) /\ n.op = "count"
    BY <1>3 DEF BeginCount
  <2> QED
    BY <1>2, <2>1 DEF Begins, Opens
<1>4. CASE BeginReverse(s)
  <2>1. PICK n : Begins(s, n) /\ n.op = "reverse"
    BY <1>4 DEF BeginReverse
  <2> QED
    BY <1>2, <2>1 DEF Begins, Opens
<1>5. CASE RollBack(s)
  <2>1. Idle.op = "idle" /\ tx' = [tx EXCEPT ![s] = Idle] /\ UNCHANGED Tables
    BY <1>5 DEF RollBack, Runs, Idle
  <2> QED
    BY <1>2, <2>1
<1>6. CASE PlanCount(s) \/ (MoveLot(s) /\ tx[s].op = "count")
  <2>1. TypeOK /\ UNCHANGED Tables /\ tx[s].op = "count"
    BY <1>6 DEF TInv, RInv, IInv, PlanCount, MoveLot
  <2>2. PICK n : tx' = [tx EXCEPT ![s] = n] /\ n.op \in {tx[s].op, "idle"}
    BY <1>6, <2>1, OperationKept DEF Advances
  <2> QED
    BY <1>2, <2>1, <2>2
<1> QED
  BY <1>3, <1>4, <1>5, <1>6

\* A step of a sale that keeps what the sale is about.
LEMMA SaleRunsAccounted ==
  ASSUME TInv, RInv', NEW s \in Sessions, tx[s].op \in SaleOps, NEW n, Runs(s, n),
         UNCHANGED Tables, n.op = tx[s].op, AccountFits(n)
  PROVE  TInv'
<1>1. tx' = [tx EXCEPT ![s] = n] /\ n.op # "entry"
  BY DEF Runs, SaleOps
<1> QED
  BY <1>1, StaysAccounted

\* LockFirst, DropOversales, ReadMoves: the account opens.
LEMMA AccountOpens ==
  ASSUME TInv, RInv', NEW s \in Sessions, LockFirst(s) \/ DropOversales(s) \/ ReadMoves(s)
  PROVE  TInv'
<1>1. PICK t : t = tx[s]
  OBVIOUS
<1>2. t.op \in SaleOps
  BY <1>1 DEF LockFirst, DropOversales, ReadMoves, SaleOps
<1>3. t \in Sale /\ AccountFits(t) /\ ReturnFits(t)
  <2>1. t \in Transaction /\ AccountFits(t) /\ ReturnFits(t)
    BY <1>1, <1>2 DEF TInv, AccountsFit, RInv, ReturnsFit, IInv, TypeOK
  <2> QED
    BY <1>2, <2>1, Kinds
<1>4. UNCHANGED Tables /\ t.owner \in Owners /\ t.live \in BOOLEAN /\ t.needs \in Seq(SaleNeed)
  BY <1>3 DEF LockFirst, DropOversales, ReadMoves, Sale
<1>5. \A u \in Supplies : NeedIn(t.needs, u) \in Nat
  BY <1>4, NeedType
<1>6. \A l \in LotIds : taken[t.owner][l] \in Int /\ taken[t.owner][l] >= 0
  BY <1>4 DEF TInv, RInv, IInv, TypeOK, ReturnsOnlyWhatWasTaken, Holders
<1>7. CASE LockFirst(s)
  <2>1. PICK pc : /\ Runs(s, [t EXCEPT !.pc = pc]) /\ t.pc = "start"
                  /\ \/ t.op = "create" /\ pc = "moving"
                     \/ t.op \notin Launches /\ pc = IF t.live THEN "drop" ELSE "moving"
    BY <1>1, <1>7 DEF LockFirst, Launches
  <2>2. PICK n : n = [t EXCEPT !.pc = pc]
    OBVIOUS
  <2>3. /\ n.op = t.op /\ n.owner = t.owner /\ n.pc = pc /\ n.live = t.live
        /\ n.needs = t.needs /\ n.todo = t.todo /\ n.dropped = t.dropped
        /\ n.plan = t.plan /\ n.change = t.change /\ n.short = t.short
    BY <1>3, <2>2 DEF Sale
  <2>4. ASSUME t.live, pc = "moving"
        PROVE  /\ IdsOf(OversalesOf(t.owner)) \subseteq t.dropped
               /\ \A u \in Supplies :
                     KeepsOf(n, u) + n.short[u] + NeedIn(n.todo, u) <= NeedIn(n.needs, u)
    <3>1. t.op = "create" /\ owners[t.owner].state = "ABSENT"
      BY <1>1, <2>1, <2>4 DEF TInv, RInv, LaunchedOnce, Launches
    <3>2. OversalesOf(t.owner) = {} /\ \A l \in LotIds : taken[t.owner][l] = 0
      BY <1>4, <3>1 DEF TInv, OwnersSound
    <3>3. \A l \in LotIds : n.plan[l] = 0 /\ n.change[l] = 0
      BY <1>3, <2>1, <2>3 DEF ReturnFits
    <3>4. \A u \in Supplies : KeepsOf(n, u) = 0
      BY <2>3, <3>2, <3>3, KeepsNothing
    <3>5. n.todo = t.needs /\ \A u \in Supplies : n.short[u] = 0
      BY <1>3, <2>1, <2>3, <2>4 DEF AccountFits
    <3> QED
      BY <1>5, <2>3, <3>2, <3>4, <3>5 DEF IdsOf
  <2>5. AccountFits(n)
    BY <1>3, <1>4, <2>1, <2>3, <2>4 DEF AccountFits
  <2> QED
    BY <1>1, <1>2, <1>4, <2>1, <2>2, <2>3, <2>5, SaleRunsAccounted
<1>8. CASE DropOversales(s)
  <2>1. PICK ids : /\ Runs(s, [t EXCEPT !.pc = "moves", !.dropped = ids]) /\ t.pc = "drop"
                   /\ ids = IdsOf(OversalesOf(t.owner))
    BY <1>1, <1>8 DEF DropOversales
  <2>2. PICK n : n = [t EXCEPT !.pc = "moves", !.dropped = ids]
    OBVIOUS
  <2>3. /\ n.op = t.op /\ n.owner = t.owner /\ n.pc = "moves" /\ n.live = t.live
        /\ n.needs = t.needs /\ n.todo = t.todo /\ n.dropped = ids
        /\ n.plan = t.plan /\ n.change = t.change /\ n.short = t.short
    BY <1>3, <2>2 DEF Sale
  <2>4. AccountFits(n)
    BY <1>3, <1>4, <2>1, <2>3 DEF AccountFits
  <2> QED
    BY <1>1, <1>2, <1>4, <2>1, <2>2, <2>3, <2>4, SaleRunsAccounted
<1>9. CASE ReadMoves(s)
  <2>1. PICK net : net = NetTakenByLot(taken[t.owner])
    OBVIOUS
  <2>2. PICK n : n = [t EXCEPT !.pc = "moving", !.plan = net]
    OBVIOUS
  <2>3. Runs(s, n) /\ t.pc = "moves"
    BY <1>1, <1>9, <2>1, <2>2 DEF ReadMoves
  <2>4. /\ n.op = t.op /\ n.owner = t.owner /\ n.pc = "moving" /\ n.live = t.live
        /\ n.needs = t.needs /\ n.todo = t.todo /\ n.dropped = t.dropped
        /\ n.plan = net /\ n.change = t.change /\ n.short = t.short
    BY <1>3, <2>2 DEF Sale
  <2>5. t.live
    BY <1>3, <1>4, <2>3 DEF AccountFits
  <2>6. \A l \in LotIds : net[l] = taken[t.owner][l] /\ t.change[l] = 0
    <3>1. taken[t.owner] \in [LotIds -> Int]
      BY <1>4 DEF TInv, RInv, IInv, TypeOK, Holders
    <3>2. \A l \in LotIds : net[l] = AtLeast0(taken[t.owner][l])
      BY <2>1, <3>1 DEF NetTakenByLot
    <3> QED
      BY <1>3, <1>6, <2>3, <3>2 DEF AtLeast0, ReturnFits
  <2>7. \A l \in LotIds : taken[n.owner][l] - n.change[l] - n.plan[l] = 0
    BY <1>6, <2>4, <2>6
  <2>8. \A u \in Supplies : KeepsOf(n, u) = 0
    BY <2>7, KeepsNothing
  <2>9. n.todo = t.needs /\ \A u \in Supplies : n.short[u] = 0
    BY <1>3, <2>3, <2>4, <2>5 DEF AccountFits
  <2>10. \A u \in Supplies :
            KeepsOf(n, u) + n.short[u] + NeedIn(n.todo, u) <= NeedIn(n.needs, u)
    BY <1>5, <2>4, <2>8, <2>9
  <2>11. AccountFits(n)
    BY <1>3, <1>4, <2>3, <2>4, <2>5, <2>10 DEF AccountFits
  <2> QED
    BY <1>1, <1>2, <1>4, <2>3, <2>4, <2>11, SaleRunsAccounted
<1> QED
  BY <1>7, <1>8, <1>9

\* MoveLot, LockLots: what is kept is the same.
LEMMA AccountGoesOn ==
  ASSUME TInv, RInv', NEW s \in Sessions, tx[s].op \in SaleOps, MoveLot(s) \/ LockLots(s)
  PROVE  TInv'
<1>1. PICK t : t = tx[s]
  OBVIOUS
<1>2. t \in Sale /\ AccountFits(t) /\ t.op \in SaleOps /\ IInv
  <2>1. t \in Transaction /\ AccountFits(t)
    BY <1>1 DEF TInv, AccountsFit, RInv, IInv, TypeOK
  <2> QED
    BY <1>1, <2>1, Kinds DEF TInv, RInv
<1>3. UNCHANGED Tables /\ t.live \in BOOLEAN
  BY <1>2 DEF MoveLot, LockLots, Sale
<1>4. /\ t.plan \in [LotIds -> Int] /\ t.change \in [LotIds -> Int]
  BY <1>2 DEF Sale
<1>5. ASSUME NEW n \in Sale, Runs(s, n),
             n.op = t.op, n.owner = t.owner, n.live = t.live, n.needs = t.needs,
             n.todo = t.todo, n.dropped = t.dropped, n.short = t.short,
             n.pc \in {"moving", "locked"}, t.pc = "moving", t.live,
             \A l \in LotIds : n.change[l] + n.plan[l] = t.change[l] + t.plan[l]
      PROVE  TInv'
  <2>1. \A u \in Supplies : KeepsOf(n, u) = KeepsOf(t, u)
    BY <1>2, <1>5, KeepsSame
  <2>2. AccountFits(n)
    BY <1>2, <1>5, <2>1 DEF AccountFits
  <2> QED
    BY <1>1, <1>2, <1>3, <1>5, <2>2, SaleRunsAccounted
<1>6. CASE MoveLot(s)
  <2>1. PICK l \in LotIds :
           /\ t.pc = "moving" /\ t.plan[l] # 0
           /\ Runs(s, [t EXCEPT !.plan[l] = 0, !.locked = @ \cup {l},
                                !.change[l] = @ + t.plan[l]])
    BY <1>1, <1>6 DEF MoveLot, Planned
  <2>2. t.live
    BY <1>2, <1>3, <2>1 DEF AccountFits
  <2>3. PICK n : n = [t EXCEPT !.plan[l] = 0, !.locked = @ \cup {l},
                               !.change[l] = @ + t.plan[l]]
    OBVIOUS
  <2>4. n \in Sale
    <3>1. PICK plan, change, locked :
             /\ plan = [t.plan EXCEPT ![l] = 0]
             /\ change = [t.change EXCEPT ![l] = @ + t.plan[l]]
             /\ locked = t.locked \cup {l}
      OBVIOUS
    <3>2. t.plan[l] \in Int /\ t.change[l] \in Int
      BY <1>4
    <3>3. t.change[l] + t.plan[l] \in Int
      BY <3>2
    <3>4. /\ plan \in [LotIds -> Int] /\ change \in [LotIds -> Int]
          /\ locked \in SUBSET LotIds
      BY <1>2, <1>4, <3>1, <3>3 DEF Sale
    <3>5. n = [t EXCEPT !.plan = plan, !.locked = locked, !.change = change]
      BY <1>2, <2>3, <3>1 DEF Sale
    <3> QED
      BY <1>2, <3>4, <3>5 DEF Sale
  <2>5. /\ n.op = t.op /\ n.owner = t.owner /\ n.live = t.live /\ n.needs = t.needs
        /\ n.todo = t.todo /\ n.dropped = t.dropped /\ n.short = t.short
        /\ n.pc = "moving"
        /\ n.plan = [t.plan EXCEPT ![l] = 0]
        /\ n.change = [t.change EXCEPT ![l] = @ + t.plan[l]]
    BY <1>2, <2>1, <2>3 DEF Sale
  <2>6. \A k \in LotIds : n.change[k] + n.plan[k] = t.change[k] + t.plan[k]
    BY <1>4, <2>5
  <2> QED
    BY <1>5, <2>1, <2>2, <2>3, <2>4, <2>5, <2>6
<1>7. CASE LockLots(s)
  <2>1. PICK ids : /\ Runs(s, [t EXCEPT !.pc = "locked", !.locked = ids])
                   /\ t.todo # <<>> /\ t.pc = "moving" /\ ids = t.locked \cup LotsToLock(s)
    BY <1>1, <1>7 DEF LockLots, NextNeed
  <2>2. t.live
    BY <1>2, <1>3, <2>1 DEF AccountFits
  <2>3. PICK n : n = [t EXCEPT !.pc = "locked", !.locked = ids]
    OBVIOUS
  <2>4. n \in Sale
    <3>1. ids \in SUBSET LotIds
      BY <1>2, <2>1 DEF LotsToLock, SeenBalance, InStock, Sale
    <3> QED
      BY <1>2, <2>3, <3>1 DEF Sale
  <2>5. /\ n.op = t.op /\ n.owner = t.owner /\ n.live = t.live /\ n.needs = t.needs
        /\ n.todo = t.todo /\ n.dropped = t.dropped /\ n.short = t.short
        /\ n.pc = "locked" /\ n.plan = t.plan /\ n.change = t.change
    BY <1>2, <2>3 DEF Sale
  <2> QED
    BY <1>5, <2>1, <2>2, <2>3, <2>4, <2>5
<1> QED
  BY <1>6, <1>7

\* A plan moves what is still wanted of a supply to what is kept or missing.
Balances(t, n, v, short) ==
    /\ KeepsOf(t, v) \in Int /\ KeepsOf(n, v) \in Int
    /\ NeedIn(t.todo, v) \in Nat /\ NeedIn(n.todo, v) \in Nat
    /\ KeepsOf(n, v) + n.short[v] + NeedIn(n.todo, v) = KeepsOf(t, v) + short + NeedIn(t.todo, v)

\* One need is planned: PlanSale, told by what the sale t becomes.
Serves(s, t, n, u) ==
    /\ Runs(s, n) /\ UNCHANGED Tables
    /\ t \in Sale /\ t.op \in SaleOps /\ t.pc = "locked" /\ t.live /\ t.todo # <<>>
    /\ u \in Supplies /\ u = Head(t.todo).supply
    /\ n.op = t.op /\ n.owner = t.owner /\ n.pc = "moving" /\ n.live = t.live
    /\ n.needs = t.needs /\ n.todo = Tail(t.todo) /\ n.dropped = t.dropped
    /\ n.change = t.change /\ n.short \in [Supplies -> Nat]
    /\ \A v \in Supplies : /\ Balances(t, n, v, IF v = u THEN 0 ELSE t.short[v])
                           /\ v # u => n.short[v] = t.short[v]
    /\ \A l \in LotIds \ LotsIn(u) : n.plan[l] = 0
    /\ n.short[u] > 0 =>
          \A l \in LotsIn(u) : n.plan[l] = IF Seen(s, l) > 0 THEN -Seen(s, l) ELSE 0

\* PlanSale: what it takes and what it finds missing are the need; what is
\* missing leaves nothing of what the sale sees.
LEMMA PlanServes ==
  ASSUME TInv, NEW s \in Sessions, PlanSale(s), NEW t, t = tx[s]
  PROVE  \E n, u : Serves(s, t, n, u)
<1>1. t \in Sale /\ AccountFits(t) /\ t.op \in SaleOps /\ TypeOK /\ t.pc = "locked" /\ t.todo # <<>>
  <2>1. /\ t \in Transaction /\ AccountFits(t) /\ t.op \in SaleOps /\ TypeOK
        /\ t.pc = "locked" /\ Sound(t)
    BY DEF TInv, AccountsFit, RInv, IInv, TypeOK, PlanSale, SoundTransactions
  <2>2. t \in Sale
    BY <2>1, Kinds
  <2> QED
    BY <2>1, <2>2 DEF Sound
<1>2. UNCHANGED Tables /\ t.live
  BY <1>1 DEF PlanSale, Sale, AccountFits
<1>3. /\ t.plan \in [LotIds -> Int] /\ t.change \in [LotIds -> Int]
      /\ t.todo \in Seq(SaleNeed) /\ t.needs \in Seq(SaleNeed)
      /\ t.short \in [Supplies -> Nat] /\ t.owner \in Holders
  BY <1>1 DEF Sale, Holders
<1>4. /\ taken[t.owner] \in [LotIds -> Int]
      /\ \A l \in LotIds : t.plan[l] = 0
  <2>1. ReturnFits(t)
    BY <1>1 DEF TInv, RInv, ReturnsFit
  <2> QED
    BY <1>1, <1>3, <2>1 DEF TypeOK, ReturnFits
<1>5. PICK need : need = Head(t.todo) /\ need \in SaleNeed
  BY <1>1, <1>3
<1>6. PICK u, units : u = need.supply /\ units = need.units /\ u \in Supplies /\ units \in Nat
  BY <1>5 DEF SaleNeed
<1>7. PICK balance : balance = SeenBalance(s, u)
  OBVIOUS
<1>8. PICK takes : takes = TakeInExpiryOrder(balance, ExpiryOf, units)
  OBVIOUS
<1>9. PICK D, missing : D = DOMAIN balance /\ missing = MissingOf(balance, units)
  OBVIOUS
<1>10. /\ D \subseteq LotsIn(u) /\ IsFiniteSet(D) /\ D \subseteq LotIds
       /\ \A l \in D : balance[l] \in Nat
       /\ D \subseteq Nat /\ \A l \in D : ExpiryOf[l] \in Nat
  <2>1. Moving(s)
    BY <1>1 DEF Moving
  <2>2. /\ D \subseteq InStock /\ IsFiniteSet(D)
        /\ \A l \in D : balance[l] \in Nat
    BY <1>1, <1>6, <1>7, <1>9, <2>1, SeenBalanceType
  <2>3. D \subseteq LotsIn(u)
    BY <1>7, <1>9 DEF SeenBalance, LotsIn
  <2>4. LotIds \subseteq Nat /\ InStock \subseteq LotIds
    BY DEF LotIds, InStock
  <2>5. \A l \in InStock : ExpiryOf[l] \in Nat
    <3> TAKE l \in InStock
    <3>1. l \in LotIds /\ lots[l] \in Lot
      BY <1>1 DEF TypeOK, InStock
    <3>2. lots[l].expires \in Nat
      BY <3>1, StockAssumption DEF Lot
    <3> QED
      BY <3>2 DEF ExpiryOf
  <2> QED
    BY <2>2, <2>3, <2>4, <2>5
<1>11. /\ DOMAIN takes = D /\ \A l \in D : takes[l] \in Nat
       /\ SumOf(takes, D) + missing = units
       /\ SumOf(takes, D) \in Nat /\ missing \in Int
  <2>1. DOMAIN takes = D /\ \A l \in D : takes[l] \in Nat
    BY <1>6, <1>8, <1>9, <1>10, TakesType
  <2>2. SumOf(takes, D) + missing = units
    BY <1>6, <1>8, <1>9, <1>10, TakesAddUp
  <2>3. SumOf(takes, D) \in Nat
    BY <1>10, <2>1, SumOfNat
  <2>4. SumOf(balance, D) \in Int
    <3>1. IsFiniteSet(D)
      BY <1>10
    <3>2. \A l \in D : balance[l] \in Int
      BY <1>10
    <3> QED
      BY ONLY <3>1, <3>2, SumOfType
  <2>5. missing \in Int
    BY <1>6, <1>9, <2>4 DEF MissingOf, AtLeast0
  <2> QED
    BY <2>1, <2>2, <2>3, <2>5
<1>12. PICK plan : plan = [l \in LotIds |-> IF l \in DOMAIN takes THEN -takes[l] ELSE 0]
  OBVIOUS
<1>13. PICK n : n = [t EXCEPT !.pc = "moving", !.todo = NeedsLeft(s), !.plan = plan,
                              !.short[u] = missing]
  OBVIOUS
<1>14. Runs(s, n)
  BY <1>5, <1>6, <1>7, <1>8, <1>9, <1>12, <1>13 DEF PlanSale
<1>15. /\ n.op = t.op /\ n.owner = t.owner /\ n.pc = "moving" /\ n.live = t.live
       /\ n.needs = t.needs /\ n.todo = Tail(t.todo) /\ n.dropped = t.dropped
       /\ n.plan = plan /\ n.change = t.change /\ n.short = [t.short EXCEPT ![u] = missing]
  BY <1>1, <1>13 DEF Sale, NeedsLeft
<1>16. ASSUME NEW v \in Supplies
       PROVE  Balances(t, n, v, IF v = u THEN 0 ELSE t.short[v])
  <2>1. PICK S : S = LotsIn(v) /\ S \in SUBSET LotIds /\ IsFiniteSet(S)
    <3>1. LotsIn(v) \in SUBSET LotIds
      BY DEF LotsIn, InStock
    <3> QED
      BY <3>1, FiniteLots
  <2>2. PICK w, x : /\ w = [l \in LotIds |-> taken[t.owner][l] - t.change[l] - t.plan[l]]
                    /\ x = [l \in LotIds |-> taken[t.owner][l] - t.change[l] - plan[l]]
    OBVIOUS
  <2>3. KeepsOf(t, v) = SumOf(w, S) /\ KeepsOf(n, v) = SumOf(x, S)
    BY <1>15, <2>1, <2>2 DEF KeepsOf
  <2>4. PICK a, d \in Nat : a = NeedIn(t.todo, v) /\ d = NeedIn(Tail(t.todo), v)
    <3>1. Tail(t.todo) \in Seq(SaleNeed)
      BY <1>1, <1>3
    <3>2. NeedIn(t.todo, v) \in Nat
      BY <1>3, NeedType
    <3>3. NeedIn(Tail(t.todo), v) \in Nat
      BY <3>1, NeedType
    <3> QED
      BY <3>2, <3>3
  <2>5. a = d + (IF u = v THEN units ELSE 0)
    BY <1>1, <1>3, <1>5, <1>6, <2>4, NeedOfTail
  <2>6. \A l \in S : w[l] \in Int
    BY <1>3, <1>4, <2>1, <2>2
  <2>7. t.short[v] \in Nat /\ SumOf(w, S) \in Int
    BY <1>3, <2>1, <2>6, SumOfType
  <2>8. CASE v = u
    <3>1. PICK g : g = [l \in S |-> IF l \in D THEN takes[l] ELSE 0]
      OBVIOUS
    <3>2. D \in SUBSET S
      BY <1>10, <2>1, <2>8
    <3>3. SumOf(g, S) = SumOf(takes, D)
      <4>1. \A l \in D : takes[l] \in Int
        BY <1>11
      <4> QED
        BY <2>1, <3>1, <3>2, <4>1, SumOfWhere
    <3>4. \A l \in S : g[l] \in Int
      BY <1>11, <3>1
    <3>5. PICK h : h = [l \in S |-> w[l] + g[l]]
      OBVIOUS
    <3>6. SumOf(h, S) = SumOf(w, S) + SumOf(g, S)
      BY <2>1, <2>6, <3>4, <3>5, SumOfPlus
    <3>7. \A l \in S : x[l] = h[l]
      <4> TAKE l \in S
      <4>1. l \in LotIds /\ t.plan[l] = 0 /\ taken[t.owner][l] \in Int /\ t.change[l] \in Int
        BY <1>3, <1>4, <2>1
      <4>2. CASE l \in D
        <5>1. g[l] = takes[l] /\ plan[l] = -takes[l] /\ takes[l] \in Nat
          BY <1>11, <1>12, <3>1, <4>1, <4>2
        <5> QED
          BY <2>2, <3>5, <4>1, <5>1
      <4>3. CASE l \notin D
        <5>1. g[l] = 0 /\ plan[l] = 0
          BY <1>11, <1>12, <3>1, <4>1, <4>3
        <5> QED
          BY <2>2, <3>5, <4>1, <5>1
      <4> QED
        BY <4>2, <4>3
    <3>8. SumOf(x, S) = SumOf(h, S)
      BY <2>1, <3>7, SumOfSame
    <3>9. n.short[v] = missing
      BY <1>3, <1>15, <2>8
    <3>10. PICK k, m \in Int : k = SumOf(w, S) /\ m = SumOf(takes, D)
      BY <1>11, <2>7
    <3>11. SumOf(x, S) = k + m
      BY <3>3, <3>6, <3>8, <3>10
    <3>12. m + missing = units /\ a = d + units /\ missing \in Int
      BY <1>11, <2>5, <2>8, <3>10
    <3>13. k + m \in Int /\ k + m + missing + d = k + 0 + a
      BY <1>6, <2>4, <3>10, <3>12
    <3> QED
      BY <1>15, <2>3, <2>4, <2>7, <2>8, <3>9, <3>10, <3>11, <3>13 DEF Balances
  <2>9. CASE v # u
    <3>1. \A l \in S : x[l] = w[l]
      <4> TAKE l \in S
      <4>1. l \notin D
        BY <1>10, <2>1, <2>9 DEF LotsIn
      <4> QED
        BY <1>4, <1>11, <1>12, <2>1, <2>2, <4>1
    <3>2. SumOf(x, S) = SumOf(w, S)
      BY <2>1, <3>1, SumOfSame
    <3>3. n.short[v] = t.short[v]
      BY <1>3, <1>15, <2>9
    <3>4. a = d
      BY <2>4, <2>5, <2>9
    <3> QED
      BY <1>15, <2>3, <2>4, <2>7, <2>9, <3>2, <3>3, <3>4 DEF Balances
  <2> QED
    BY <2>8, <2>9
<1>17. missing \in Nat
  BY <1>6, <1>9, <1>10, RestType
<1>18. /\ n.short \in [Supplies -> Nat] /\ n.short[u] = missing
       /\ \A v \in Supplies : v # u => n.short[v] = t.short[v]
  BY <1>3, <1>6, <1>15, <1>17
<1>19. \A l \in LotIds \ LotsIn(u) : n.plan[l] = 0
  BY <1>10, <1>11, <1>12, <1>15
<1>20. ASSUME missing > 0, NEW l \in LotsIn(u)
       PROVE  n.plan[l] = IF Seen(s, l) > 0 THEN -Seen(s, l) ELSE 0
  <2>1. l \in LotIds /\ (l \in D <=> Seen(s, l) > 0)
    BY <1>7, <1>9 DEF LotsIn, InStock, SeenBalance
  <2>2. CASE l \in D
    <3>1. IsFiniteSet(DOMAIN balance) /\ DOMAIN balance \in SUBSET Nat
      BY <1>9, <1>10
    <3>2. /\ \A k \in DOMAIN balance : balance[k] \in Nat
          /\ \A k \in DOMAIN balance : ExpiryOf[k] \in Nat
          /\ MissingOf(balance, units) > 0 /\ l \in DOMAIN balance
      BY <1>9, <1>10, <1>20, <2>2
    <3>3. takes[l] = balance[l]
      BY <1>6, <1>8, <3>1, <3>2, MissingTakesAll
    <3>4. balance[l] = Seen(s, l)
      BY <1>7, <1>9, <2>2 DEF SeenBalance
    <3> QED
      BY <1>11, <1>12, <1>15, <2>1, <2>2, <3>3, <3>4
  <2>3. CASE l \notin D
    BY <1>11, <1>12, <1>15, <2>1, <2>3
  <2> QED
    BY <2>2, <2>3
<1>21. Serves(s, t, n, u)
  BY <1>1, <1>2, <1>5, <1>6, <1>14, <1>15, <1>16, <1>18, <1>19, <1>20 DEF Serves
<1> QED
  BY <1>21

\* PlanSale: the account it keeps.
LEMMA AccountPlans ==
  ASSUME TInv, RInv', NEW s \in Sessions, PlanSale(s)
  PROVE  TInv'
<1>1. PICK t : t = tx[s]
  OBVIOUS
<1>2. PICK n, u : Serves(s, t, n, u)
  BY <1>1, PlanServes
<1>3. AccountFits(t) /\ t.short \in [Supplies -> Nat] /\ t.needs \in Seq(SaleNeed)
  BY <1>1, <1>2 DEF TInv, AccountsFit, Serves, Sale
<1>4. ASSUME NEW v \in Supplies
      PROVE  KeepsOf(n, v) + n.short[v] + NeedIn(n.todo, v) <= NeedIn(n.needs, v)
  <2>1. KeepsOf(t, v) + t.short[v] + NeedIn(t.todo, v) <= NeedIn(t.needs, v)
    BY <1>2, <1>3 DEF AccountFits, Serves
  <2>2. Balances(t, n, v, IF v = u THEN 0 ELSE t.short[v])
    BY <1>2 DEF Serves
  <2>3. NeedIn(t.needs, v) \in Nat /\ t.short[v] \in Nat /\ n.short[v] \in Nat
    BY <1>2, <1>3, NeedType DEF Serves
  <2>4. PICK short \in Nat : Balances(t, n, v, short) /\ short <= t.short[v]
    BY <2>2, <2>3
  <2> QED
    BY <1>2, <2>1, <2>3, <2>4 DEF Balances, Serves
<1>5. AccountFits(n)
  BY <1>2, <1>3, <1>4 DEF AccountFits, Serves
<1> QED
  BY <1>1, <1>2, <1>5, SaleRunsAccounted DEF Serves

(***************************************************************************)
(* The commits.                                                            *)
(***************************************************************************)

\* What an owner took of a supply stands while its lots do.
LEMMA TookStands ==
  ASSUME IInv, IInv', NEW o \in Holders, NEW u,
         \A l \in LotIds :
            /\ lots[l] # NoLot => /\ lots'[l] # NoLot /\ lots'[l].supply = lots[l].supply
                                  /\ taken'[o][l] = taken[o][l]
            /\ lots[l] = NoLot => taken'[o][l] = 0
  PROVE  TookOf(o, u)' = TookOf(o, u)
<1>1. PICK S, T, w, v : S = LotsIn(u) /\ T = LotsIn(u)' /\ w = taken[o] /\ v = taken'[o]
  OBVIOUS
<1>2. S \in SUBSET T /\ T \in SUBSET LotIds
  BY <1>1 DEF LotsIn, InStock
<1>3. IsFiniteSet(T)
  BY <1>2, FiniteLots
<1>4. \A l \in S : w[l] \in Int
  BY <1>1, <1>2 DEF IInv, TypeOK, Holders
<1>5. \A l \in S : v[l] = w[l]
  BY <1>1 DEF LotsIn, InStock
<1>6. \A l \in T \ S : v[l] = 0
  BY <1>1 DEF LotsIn, InStock
<1>7. SumOf(v, T) = SumOf(w, S)
  BY ONLY <1>2, <1>3, <1>4, <1>5, <1>6, SumOfMore
<1> QED
  BY <1>1, <1>7 DEF TookOf

\* What an owner owes does not grow while its rows are among those it had.
LEMMA OwesLess ==
  ASSUME IInv, NEW o, NEW u, OversalesOf(o)' \subseteq OversalesOf(o)
  PROVE  /\ OwesOf(o, u) \in Nat /\ OwesOf(o, u)' \in Nat
         /\ OwesOf(o, u)' <= OwesOf(o, u)
<1>1. PICK rows, some : /\ rows = {r \in OversalesOf(o) : r.supply = u}
                        /\ some = {r \in OversalesOf(o)' : r.supply = u}
  OBVIOUS
<1>2. some \in SUBSET rows /\ rows \in SUBSET oversales
  BY <1>1 DEF OversalesOf
<1>3. IsFiniteSet(rows) /\ \A r \in rows : r.quantity \in Nat
  BY <1>2, FS_Subset DEF IInv, TypeOK, Oversale
<1>4. /\ QuantityOf(rows) \in Nat /\ QuantityOf(some) \in Nat
      /\ QuantityOf(some) <= QuantityOf(rows)
  <2>1. rows \in SUBSET rows
    OBVIOUS
  <2> QED
    BY <1>2, <1>3, <2>1, FewerRows
<1> QED
  BY <1>1, <1>4 DEF OwesOf

\* A list of needs, and what an owner took and owes, are numbers.
LEMMA TookOwesNeedType ==
  ASSUME IInv, NEW o \in Owners, NEW u
  PROVE  /\ TookOf(o, u) \in Int /\ NeedIn(owners[o].told, u) \in Nat
         /\ (\A l \in LotIds : taken[o][l] >= 0) => TookOf(o, u) >= 0
<1>1. PICK S, w : S = LotsIn(u) /\ w = taken[o]
  OBVIOUS
<1>2. S \in SUBSET LotIds
  BY <1>1 DEF LotsIn, InStock
<1>3. IsFiniteSet(S) /\ \A l \in LotIds : w[l] \in Int
  BY <1>1, <1>2, FiniteLots DEF IInv, TypeOK, Holders
<1>4. SumOf(w, S) \in Int
  BY <1>2, <1>3, SumOfType
<1>5. ASSUME \A l \in LotIds : w[l] >= 0
      PROVE  SumOf(w, S) >= 0
  <2>1. \A l \in S : w[l] \in Nat
    BY <1>2, <1>3, <1>5
  <2>2. SumOf(w, S) \in Nat
    BY <1>3, <2>1, SumOfNat
  <2> QED
    BY <2>2
<1>6. owners[o].told \in Seq(SaleNeed)
  BY DEF IInv, TypeOK, Owner
<1> QED
  BY <1>1, <1>4, <1>5, <1>6, NeedType DEF TookOf

\* What a sale's commit does to the rows.
LEMMA SaleRows ==
  ASSUME TInv, NEW s \in Sessions, CommitSale(s)
  PROVE  /\ \A r \in oversales' :
               \/ /\ r \in ShortRows(tx[s]) /\ r.owner = tx[s].owner
                  /\ r.id > lastId /\ r.id <= lastId'
               \/ /\ r \in oversales /\ r.id \notin tx[s].dropped
                  /\ tx[s].op = "remove" => r.owner # tx[s].owner
               \/ /\ tx[s].op = "remove" /\ r.owner = None
                  /\ \E q \in oversales : /\ q.id \notin tx[s].dropped
                                          /\ q.owner = tx[s].owner
                                          /\ r = [q EXCEPT !.owner = None]
         /\ lastId' \in Nat /\ lastId <= lastId'
<1>1. PICK t : t = tx[s]
  OBVIOUS
<1>2. t \in Sale /\ t.needs \in Seq(SaleNeed) /\ lastId \in Nat
  <2>1. t \in Transaction /\ t.op \in SaleOps /\ lastId \in Nat
    BY <1>1 DEF TInv, RInv, IInv, TypeOK, CommitSale
  <2>2. t \in Sale
    BY <2>1, Kinds
  <2> QED
    BY <2>1, <2>2 DEF Sale
<1>3. PICK n \in Nat : n = Len(t.needs) /\ DOMAIN t.needs = 1 .. n
  BY <1>2
<1>4. /\ lastId' = lastId + n
      /\ oversales' = Disowned(t, {r \in oversales : r.id \notin t.dropped}) \cup ShortRows(t)
  BY <1>1, <1>3 DEF CommitSale
<1>5. \A r \in ShortRows(t) : r.owner = t.owner /\ r.id > lastId /\ r.id <= lastId'
  BY <1>2, <1>3, <1>4 DEF ShortRows
<1>6. \A r \in Disowned(t, {q \in oversales : q.id \notin t.dropped}) :
         \/ /\ r \in oversales /\ r.id \notin t.dropped
            /\ t.op = "remove" => r.owner # t.owner
         \/ /\ t.op = "remove" /\ r.owner = None
            /\ \E q \in oversales : /\ q.id \notin t.dropped /\ q.owner = t.owner
                                    /\ r = [q EXCEPT !.owner = None]
  <2>1. \A q \in oversales : [q EXCEPT !.owner = None].owner = None
    BY DEF TInv, RInv, IInv, TypeOK, Oversale
  <2> QED
    BY <2>1 DEF Disowned
<1> QED
  BY <1>1, <1>2, <1>3, <1>4, <1>5, <1>6

\* Every row a sale's commit leaves has an id of its own.
LEMMA SaleRowsToldApart ==
  ASSUME TInv, NEW s \in Sessions, CommitSale(s)
  PROVE  RowsToldApart'
<1>1. PICK t : t = tx[s]
  OBVIOUS
<1>2. PICK old : old = oversales /\ old \subseteq Oversale
  BY DEF TInv, RInv, IInv, TypeOK
<1>3. PICK last : last = lastId /\ last \in Nat
  BY DEF TInv, RInv, IInv, TypeOK
<1>4. /\ \A r \in old : r.id <= last /\ r.id \in Nat
      /\ \A r, q \in old : r.id = q.id => r = q
  BY <1>2, <1>3 DEF TInv, RowsToldApart, Oversale
<1>5. \A r \in oversales' :
         \/ r \in ShortRows(t) /\ r.id > last /\ r.id <= lastId'
         \/ r \in old /\ (t.op = "remove" => r.owner # t.owner)
         \/ t.op = "remove" /\ \E q \in old : /\ q.owner = t.owner /\ r.id = q.id
                                              /\ r = [q EXCEPT !.owner = None]
  <2>1. \A q \in old : [q EXCEPT !.owner = None].id = q.id
    BY <1>2 DEF Oversale
  <2> TAKE r \in oversales'
  <2>2. \/ r \in ShortRows(t) /\ r.id > last /\ r.id <= lastId'
        \/ r \in old /\ (t.op = "remove" => r.owner # t.owner)
        \/ t.op = "remove" /\ \E q \in old : q.owner = t.owner /\ r = [q EXCEPT !.owner = None]
    BY ONLY TInv, s \in Sessions, CommitSale(s), r \in oversales', <1>1, <1>2, <1>3, SaleRows
  <2> QED
    BY <2>1, <2>2
<1>6. lastId' \in Nat /\ last <= lastId'
  BY <1>3, SaleRows
<1>7. \A r, q \in ShortRows(t) : r.id = q.id => r = q
  <2>1. t.needs \in Seq(SaleNeed)
    BY <1>1, Kinds DEF TInv, RInv, IInv, TypeOK, CommitSale, Sale
  <2>2. PICK D : D = DOMAIN t.needs /\ D \subseteq Nat
    BY <2>1
  <2> SUFFICES ASSUME NEW r \in ShortRows(t), NEW q \in ShortRows(t), r.id = q.id
               PROVE  r = q
    OBVIOUS
  <2>3. PICK i \in D : r = [id |-> last + i, owner |-> t.owner, supply |-> t.needs[i].supply,
                            quantity |-> t.short[t.needs[i].supply]]
    BY <1>3, <2>2 DEF ShortRows
  <2>4. PICK j \in D : q = [id |-> last + j, owner |-> t.owner, supply |-> t.needs[j].supply,
                            quantity |-> t.short[t.needs[j].supply]]
    BY <1>3, <2>2 DEF ShortRows
  <2>5. i = j
    BY <1>3, <2>2, <2>3, <2>4
  <2> QED
    BY <2>3, <2>4, <2>5
<1>8. \A r \in oversales' : r.id <= lastId'
  BY <1>3, <1>4, <1>5, <1>6
<1>9. ASSUME NEW r \in oversales', NEW q \in oversales', r.id = q.id
      PROVE  r = q
  BY <1>3, <1>4, <1>5, <1>7, <1>9
<1> QED
  BY <1>8, <1>9 DEF RowsToldApart

\* Rows of another owner are among those it had.
LEMMA SaleLeavesRows ==
  ASSUME TInv, NEW s \in Sessions, CommitSale(s), NEW p \in Owners, p # tx[s].owner
  PROVE  OversalesOf(p)' \subseteq OversalesOf(p)
<1>1. p # None
  BY StockAssumption
<1> QED
  BY <1>1, SaleRows DEF OversalesOf

\* A sale's commit removes no lot and no supply.
LEMMA SaleLeavesLots ==
  ASSUME IInv, NEW s \in Sessions, CommitSale(s)
  PROVE  \A l \in LotIds :
            /\ lots'[l] = NoLot <=> lots[l] = NoLot
            /\ lots[l] # NoLot => lots'[l].supply = lots[l].supply
<1>1. PICK t : t = tx[s]
  OBVIOUS
<1>2. t \in Sale /\ Sound(t) /\ t.op \in SaleOps
  BY <1>1, Kinds DEF IInv, TypeOK, SoundTransactions, CommitSale
<1>3. /\ t.change \in [LotIds -> Int]
      /\ \A l \in LotIds : lots[l] = NoLot => t.change[l] = 0
  BY <1>2 DEF Sale, Sound
<1>4. lots' = LotsAfter(t.change)
  BY <1>1 DEF CommitSale
<1>5. \A l \in LotIds : lots'[l] = NoLot <=> lots[l] = NoLot
  <2>1. TypeOK
    BY DEF IInv
  <2> QED
    BY <1>3, <1>4, <2>1, LotsAfterType
<1>6. ASSUME NEW l \in LotIds, lots[l] # NoLot
      PROVE  lots'[l].supply = lots[l].supply
  <2>1. lots[l] \in Lot
    BY <1>6 DEF IInv, TypeOK
  <2>2. lots'[l] = lots[l] \/ \E n : lots'[l] = [lots[l] EXCEPT !.remaining = n, !.moved = TRUE]
    BY <1>4, <2>1 DEF LotsAfter, Lot
  <2> QED
    BY <2>1, <2>2 DEF Lot
<1> QED
  BY <1>5, <1>6

\* The owner's row after a sale's commit.
LEMMA SaleOwner ==
  ASSUME TInv, UndoneApart, NEW s \in Sessions, CommitSale(s)
  PROVE  LET o == tx[s].owner IN
         /\ Distinct(owners'[o].needs)
         /\ owners'[o].state # "ABSENT"
         /\ owners'[o].state = "DELETED" => o \in Consumptions
         /\ owners[o].state = "DELETED" => owners'[o].state = "DELETED"
         /\ tx[s].op = "remove" => owners'[o].state = "DELETED"
         /\ owners'[o].told = IF tx[s].live THEN tx[s].needs ELSE owners[o].told
<1>1. PICK t, o, row : t = tx[s] /\ o = t.owner /\ row = owners[o]
  OBVIOUS
<1>2. t \in Sale /\ o \in Owners /\ t.op \in SaleOps /\ AccountFits(t) /\ row \in Owner
  <2>1. t \in Transaction /\ t.op \in SaleOps /\ AccountFits(t)
    BY <1>1 DEF TInv, RInv, IInv, TypeOK, CommitSale, AccountsFit
  <2>2. t \in Sale
    BY <2>1, Kinds
  <2>3. o \in Owners
    BY <1>1, <2>2 DEF Sale
  <2> QED
    BY <1>1, <2>1, <2>2, <2>3 DEF TInv, RInv, IInv, TypeOK
<1>3. PICK new : new = owners'[o] /\ new = OwnerAfter(t)
  BY <1>1, SaleWrites DEF TInv, RInv
<1>4. PICK told : told = IF t.live THEN t.needs ELSE row.told
  OBVIOUS
<1>5. /\ Distinct(row.needs) /\ Distinct(t.needs)
      /\ row.state = "DELETED" => o \in Consumptions
      /\ t.op \in Launches => row.state = "ABSENT"
      /\ t.op \in SaleOps \ Launches => row.state # "ABSENT"
      /\ t.op \in {"cancel", "restore"} => o \in Orders
      /\ t.op = "remove" => o \in Consumptions
  BY <1>1, <1>2 DEF TInv, OwnersSound, AccountFits, RInv, LaunchedOnce, Launches, SaleOps
<1>6. Orders \cap Consumptions = {}
  BY StockAssumption
<1>7. CASE t.op = "cancel"
  <2>1. new = [row EXCEPT !.state = "CANCELED", !.told = told]
    BY <1>1, <1>3, <1>4, <1>7 DEF OwnerAfter
  <2>2. new.state = "CANCELED" /\ new.needs = row.needs /\ new.told = told
    BY <1>2, <2>1 DEF Owner
  <2> QED
    BY <1>1, <1>3, <1>4, <1>5, <1>6, <1>7, <2>2
<1>8. CASE t.op = "restore"
  <2>1. new = [row EXCEPT !.state = "ACTIVE", !.told = told]
    BY <1>1, <1>3, <1>4, <1>8 DEF OwnerAfter
  <2>2. new.state = "ACTIVE" /\ new.needs = row.needs /\ new.told = told
    BY <1>2, <2>1 DEF Owner
  <2> QED
    BY <1>1, <1>3, <1>4, <1>5, <1>6, <1>8, <2>2
<1>9. CASE t.op = "remove"
  <2>1. new = [row EXCEPT !.state = "DELETED", !.told = told]
    BY <1>1, <1>3, <1>4, <1>9 DEF OwnerAfter
  <2>2. new.state = "DELETED" /\ new.needs = row.needs /\ new.told = told
    BY <1>2, <2>1 DEF Owner
  <2> QED
    BY <1>1, <1>3, <1>4, <1>5, <1>9, <2>2
<1>10. CASE t.op \in {"edit", "reconsume"}
  <2>1. new = [row EXCEPT !.needs = t.needs, !.told = told]
    BY <1>1, <1>3, <1>4, <1>10 DEF OwnerAfter
  <2>2. new.state = row.state /\ new.needs = t.needs /\ new.told = told
    BY <1>2, <2>1 DEF Owner
  <2>3. t.op \in SaleOps \ Launches /\ t.op # "remove"
    BY <1>10 DEF SaleOps, Launches
  <2> QED
    BY <1>1, <1>3, <1>4, <1>5, <2>2, <2>3
<1>11. CASE t.op \in {"create", "consume"}
  <2>1. new = [state |-> "ACTIVE", needs |-> t.needs, told |-> told]
    BY <1>1, <1>3, <1>4, <1>11 DEF OwnerAfter
  <2>2. row.state = "ABSENT"
    BY <1>5, <1>11 DEF Launches
  <2> QED
    BY <1>1, <1>3, <1>4, <1>5, <1>11, <2>1, <2>2
<1> QED
  BY <1>2, <1>7, <1>8, <1>9, <1>10, <1>11 DEF SaleOps

\* The owners are as sound after a sale's commit.
LEMMA SaleOwnersSound ==
  ASSUME TInv, UndoneApart, NEW s \in Sessions, CommitSale(s)
  PROVE  OwnersSound'
<1>1. PICK o : o = tx[s].owner
  OBVIOUS
<1>2. /\ Distinct(owners'[o].needs) /\ owners'[o].state # "ABSENT"
      /\ owners'[o].state = "DELETED" => o \in Consumptions
  BY <1>1, SaleOwner
<1>3. \A p \in Owners \ {o} : taken'[p] = taken[p] /\ owners'[p] = owners[p]
  BY <1>1, SaleWrites DEF TInv, RInv
<1>4. \A p \in Owners \ {o} : OversalesOf(p)' \subseteq OversalesOf(p)
  BY <1>1, SaleLeavesRows
<1>5. ASSUME NEW p \in Owners
      PROVE  /\ Distinct(owners'[p].needs)
             /\ owners'[p].state = "ABSENT" =>
                   OversalesOf(p)' = {} /\ \A l \in LotIds : taken'[p][l] = 0
             /\ owners'[p].state = "DELETED" => p \in Consumptions
  BY <1>2, <1>3, <1>4 DEF TInv, OwnersSound
<1> QED
  BY <1>5 DEF OwnersSound, OversalesOf

\* What the sale of a night in progress took and found missing is its needs.
LEMMA LiveSaleTakes ==
  ASSUME TInv, RInv', NEW s \in Sessions, CommitSale(s), tx[s].live, NEW u \in Supplies,
         NEW o, o = tx[s].owner
  PROVE  TookOf(o, u)' + OwesOf(o, u)' <= NeedIn(tx[s].needs, u)
<1>1. PICK t : t = tx[s] /\ o = t.owner
  OBVIOUS
<1>2. /\ t \in Sale /\ o \in Owners /\ o # None
      /\ \A l \in LotIds :
            taken'[o][l] = IF t.op = "remove" THEN 0 ELSE taken[o][l] - t.change[l]
  BY <1>1, SaleWrites DEF TInv, RInv
<1>3. /\ t.op \in SaleOps /\ t.pc = "moving" /\ t.todo = <<>> /\ t.live
      /\ \A l \in LotIds : t.plan[l] = 0
  BY <1>1 DEF CommitSale, Planned
<1>4. AccountFits(t) /\ ReturnFits(t) /\ TypeOK /\ lastId \in Nat
  BY <1>1, <1>3 DEF TInv, AccountsFit, RInv, ReturnsFit, IInv, TypeOK
<1>5. /\ IdsOf(OversalesOf(o)) \subseteq t.dropped /\ Distinct(t.needs)
      /\ KeepsOf(t, u) + t.short[u] + NeedIn(t.todo, u) <= NeedIn(t.needs, u)
  BY <1>1, <1>3, <1>4 DEF AccountFits
<1>6. /\ \A l \in LotIds : taken[o][l] \in Int /\ t.change[l] \in Int
      /\ t.short[u] \in Nat /\ t.needs \in Seq(SaleNeed)
  BY <1>2, <1>4 DEF Sale, TypeOK, Holders
<1>7. PICK S, w, v : /\ S = LotsIn(u) /\ v = taken'[o]
                     /\ w = [l \in LotIds |-> taken[o][l] - t.change[l] - t.plan[l]]
  OBVIOUS
<1>8. S \in SUBSET LotIds /\ IsFiniteSet(S) /\ LotsIn(u)' = S
  <2>1. S \in SUBSET LotIds /\ LotsIn(u)' = S
    BY <1>7, SaleLeavesLots DEF LotsIn, InStock, TInv, RInv
  <2> QED
    BY <2>1, FiniteLots
<1>9. \A l \in LotIds : w[l] \in Nat /\ w[l] = taken[o][l] - t.change[l]
  <2> TAKE l \in LotIds
  <2>1. t.change[l] + AtLeast0(t.plan[l]) <= taken[o][l] /\ t.plan[l] = 0
    BY <1>1, <1>3, <1>4 DEF ReturnFits
  <2> QED
    BY <1>6, <1>7, <2>1 DEF AtLeast0
<1>10. SumOf(w, S) \in Nat
  <2>1. \A l \in S : w[l] \in Nat
    BY <1>8, <1>9
  <2> QED
    BY <1>8, <2>1, SumOfNat
<1>11. TookOf(o, u)' \in Int /\ TookOf(o, u)' <= SumOf(w, S)
  <2>1. TookOf(o, u)' = SumOf(v, S)
    BY <1>7, <1>8 DEF TookOf
  <2>2. CASE t.op = "remove"
    <3>1. \A l \in S : v[l] = 0
      BY <1>2, <1>7, <1>8, <2>2
    <3>2. SumOf(v, S) = 0
      BY <1>8, <3>1, SumOfZero
    <3> QED
      BY <1>10, <2>1, <3>2
  <2>3. CASE t.op # "remove"
    <3>1. \A l \in S : v[l] = w[l]
      BY <1>2, <1>7, <1>8, <1>9, <2>3
    <3>2. SumOf(v, S) = SumOf(w, S)
      BY <1>8, <3>1, SumOfSame
    <3> QED
      BY <1>10, <2>1, <3>2
  <2> QED
    BY <2>2, <2>3
<1>12. OwesOf(o, u)' \in Nat /\ OwesOf(o, u)' <= t.short[u]
  <2>1. PICK some, rows : /\ some = {r \in OversalesOf(o)' : r.supply = u}
                          /\ rows = {r \in ShortRows(t) : r.supply = u}
    OBVIOUS
  <2>2. some \in SUBSET rows
    <3>1. \A r \in oversales' : r.owner = o => r \in ShortRows(t)
      BY <1>1, <1>2, <1>5, SaleRows DEF OversalesOf, IdsOf
    <3> QED
      BY <2>1, <3>1 DEF OversalesOf
  <2>3. IsFiniteSet(rows) /\ QuantityOf(rows) \in Nat /\ QuantityOf(rows) <= t.short[u]
    BY <1>2, <1>4, <1>5, <2>1, ShortOnce
  <2>4. \A r \in rows : r.quantity \in Nat
    <3>1. ShortRows(t) \in SUBSET Oversale
      BY <1>2, <1>4, ShortRowsType
    <3> QED
      BY <2>1, <3>1 DEF Oversale
  <2>5. QuantityOf(some) \in Nat /\ QuantityOf(some) <= QuantityOf(rows)
    BY <2>2, <2>3, <2>4, FewerRows
  <2>6. OwesOf(o, u)' = QuantityOf(some)
    BY <2>1 DEF OwesOf
  <2> QED
    BY <1>6, <2>3, <2>5, <2>6
<1>13. KeepsOf(t, u) = SumOf(w, S) /\ NeedIn(t.todo, u) = 0 /\ NeedIn(t.needs, u) \in Nat
  BY <1>1, <1>3, <1>6, <1>7, NeedOfNone, NeedType DEF KeepsOf
<1>14. SumOf(w, S) + t.short[u] + 0 <= NeedIn(t.needs, u)
  BY <1>5, <1>13
<1>15. \A a, b, c, d, e \in Int : a <= c /\ b <= d /\ c + d + 0 <= e => a + b <= e
  OBVIOUS
<1>16. TookOf(o, u)' + OwesOf(o, u)' <= NeedIn(t.needs, u)
  BY <1>6, <1>10, <1>11, <1>12, <1>13, <1>14, <1>15
<1> QED
  BY <1>1, <1>16

\* The sale of a night that ended takes no more, and owes no more.
LEMMA LateSaleTakes ==
  ASSUME TInv, RInv', NEW s \in Sessions, CommitSale(s), ~tx[s].live, NEW u \in Supplies,
         NEW o, o = tx[s].owner
  PROVE  TookOf(o, u)' + OwesOf(o, u)' <= NeedIn(owners[o].told, u)
<1>1. PICK t : t = tx[s] /\ o = t.owner
  OBVIOUS
<1>2. /\ t \in Sale /\ o \in Owners /\ o # None
      /\ \A l \in LotIds :
            taken'[o][l] = IF t.op = "remove" THEN 0 ELSE taken[o][l] - t.change[l]
  BY <1>1, SaleWrites DEF TInv, RInv
<1>3. /\ \A l \in LotIds : t.change[l] = 0
      /\ \A v \in Supplies : t.short[v] = 0
  BY <1>1 DEF TInv, AccountsFit, AccountFits, CommitSale
<1>4. IInv /\ IInv' /\ \A l \in LotIds : taken[o][l] \in Int /\ taken[o][l] >= 0
  BY <1>2 DEF TInv, RInv, IInv, TypeOK, Holders, ReturnsOnlyWhatWasTaken
<1>5. OversalesOf(o)' \subseteq OversalesOf(o)
  <2>1. t.needs \in Seq(SaleNeed)
    BY <1>2 DEF Sale
  <2>2. \A i \in DOMAIN t.needs : t.needs[i].supply \in Supplies
    <3>1. \A i \in DOMAIN t.needs : t.needs[i] \in SaleNeed
      BY <2>1
    <3> QED
      BY <3>1 DEF SaleNeed
  <2>3. ShortRows(t) = {}
    BY <1>3, <2>2 DEF ShortRows
  <2> QED
    BY <1>1, <1>2, <2>3, SaleRows DEF OversalesOf
<1>6. OwesOf(o, u) \in Nat /\ OwesOf(o, u)' \in Nat /\ OwesOf(o, u)' <= OwesOf(o, u)
  BY <1>4, <1>5, OwesLess
<1>7. TookOf(o, u) \in Int /\ TookOf(o, u) >= 0 /\ NeedIn(owners[o].told, u) \in Nat
  BY <1>2, <1>4, TookOwesNeedType
<1>8. TookOf(o, u)' \in Int /\ TookOf(o, u)' <= TookOf(o, u)
  <2>1. CASE t.op = "remove"
    <3>1. PICK S, v : S = LotsIn(u)' /\ v = taken'[o]
      OBVIOUS
    <3>2. S \in SUBSET LotIds
      BY <3>1 DEF LotsIn, InStock
    <3>3. IsFiniteSet(S) /\ \A l \in S : v[l] = 0
      BY <1>2, <2>1, <3>1, <3>2, FiniteLots
    <3>4. SumOf(v, S) = 0
      BY <3>3, SumOfZero
    <3> QED
      BY <1>7, <3>1, <3>4 DEF TookOf
  <2>2. CASE t.op # "remove"
    <3>1. \A l \in LotIds : taken'[o][l] = taken[o][l]
      BY <1>2, <1>3, <1>4, <2>2
    <3>2. \A l \in LotIds :
             /\ lots[l] # NoLot => /\ lots'[l] # NoLot /\ lots'[l].supply = lots[l].supply
                                   /\ taken'[o][l] = taken[o][l]
             /\ lots[l] = NoLot => taken'[o][l] = 0
      BY <1>2, <1>4, <3>1, SaleLeavesLots DEF IInv, TakenFromLots, Holders
    <3>3. TookOf(o, u)' = TookOf(o, u)
      BY <1>2, <1>4, <3>2, TookStands DEF Holders
    <3> QED
      BY <1>7, <3>3
  <2> QED
    BY <2>1, <2>2
<1>9. TookOf(o, u) + OwesOf(o, u) <= NeedIn(owners[o].told, u)
  BY <1>2 DEF TInv, TakesWhatItNeeds
<1>10. \A a, b, c, d, e \in Int : a <= c /\ b <= d /\ c + d <= e => a + b <= e
  OBVIOUS
<1> QED
  BY <1>6, <1>7, <1>8, <1>9, <1>10

\* An owner whose lots stand and whose rows are among those it had takes as much
\* and owes no more.
LEMMA TakesStill ==
  ASSUME TInv, RInv', NEW p \in Owners, NEW u \in Supplies,
         owners'[p].told = owners[p].told,
         OversalesOf(p)' \subseteq OversalesOf(p),
         \A l \in LotIds :
            /\ lots[l] # NoLot => /\ lots'[l] # NoLot /\ lots'[l].supply = lots[l].supply
                                  /\ taken'[p][l] = taken[p][l]
            /\ lots[l] = NoLot => taken'[p][l] = 0
  PROVE  TookOf(p, u)' + OwesOf(p, u)' <= NeedIn(owners'[p].told, u)
<1>1. IInv /\ IInv'
  BY DEF TInv, RInv
<1>2. TookOf(p, u)' = TookOf(p, u)
  BY <1>1, TookStands DEF Holders
<1>3. OwesOf(p, u) \in Nat /\ OwesOf(p, u)' \in Nat /\ OwesOf(p, u)' <= OwesOf(p, u)
  BY <1>1, OwesLess
<1>4. TookOf(p, u) \in Int /\ NeedIn(owners[p].told, u) \in Nat
  BY <1>1, TookOwesNeedType
<1>5. TookOf(p, u) + OwesOf(p, u) <= NeedIn(owners[p].told, u)
  BY DEF TInv, TakesWhatItNeeds
<1>6. \A a, b, d, e \in Int : b <= d /\ a + d <= e => a + b <= e
  OBVIOUS
<1> QED
  BY <1>2, <1>3, <1>4, <1>5, <1>6

\* CommitSale keeps what every owner took within its needs.
LEMMA SaleTakesWithinNeeds ==
  ASSUME TInv, RInv', UndoneApart, NEW s \in Sessions, CommitSale(s)
  PROVE  TakesWhatItNeeds'
<1>1. PICK o : o = tx[s].owner
  OBVIOUS
<1>2. owners'[o].told = IF tx[s].live THEN tx[s].needs ELSE owners[o].told
  BY <1>1, SaleOwner
<1>3. tx[s].live \in BOOLEAN
  BY SaleWrites DEF TInv, RInv, Sale
<1>4. ASSUME NEW p \in Owners, NEW u \in Supplies
      PROVE  TookOf(p, u)' + OwesOf(p, u)' <= NeedIn(owners'[p].told, u)
  <2>1. CASE p = o /\ tx[s].live
    BY <1>1, <1>2, <2>1, LiveSaleTakes
  <2>2. CASE p = o /\ ~tx[s].live
    BY <1>1, <1>2, <2>2, LateSaleTakes
  <2>3. CASE p # o
    <3>1. taken'[p] = taken[p] /\ owners'[p] = owners[p]
      BY <1>1, <2>3, SaleWrites DEF TInv, RInv
    <3>2. OversalesOf(p)' \subseteq OversalesOf(p)
      BY <1>1, <2>3, SaleLeavesRows
    <3>3. \A l \in LotIds :
            /\ lots[l] # NoLot => /\ lots'[l] # NoLot /\ lots'[l].supply = lots[l].supply
                                  /\ taken'[p][l] = taken[p][l]
            /\ lots[l] = NoLot => taken'[p][l] = 0
      BY <3>1, SaleLeavesLots DEF TInv, RInv, IInv, TakenFromLots, Holders
    <3> QED
      BY <3>1, <3>2, <3>3, TakesStill
  <2> QED
    BY <1>3, <2>1, <2>2, <2>3
<1> QED
  BY <1>4 DEF TakesWhatItNeeds, TookOf, OwesOf

\* CommitSale.
LEMMA CommitSaleAccounted ==
  ASSUME TInv, RInv', UndoneApart, NEW s \in Sessions, CommitSale(s)
  PROVE  TInv'
<1>1. PICK o : o = tx[s].owner
  OBVIOUS
<1>2. /\ tx' = [tx EXCEPT ![s] = Idle] /\ o \in Owners /\ o # None
      /\ \A p \in Owners \ {o} : taken'[p] = taken[p] /\ owners'[p] = owners[p]
  BY <1>1, SaleWrites DEF TInv, RInv
<1>3. IInv /\ TypeOK'
  BY DEF TInv, RInv, IInv
<1>4. ASSUME NEW r \in Sessions \ {s}, NEW t, t = tx[r], t.op \in SaleOps
      PROVE  AccountFits(t)'
  <2>1. t \in Sale /\ Sound(t) /\ AccountFits(t)
    BY <1>4, Kinds DEF TInv, RInv, IInv, TypeOK, SoundTransactions, AccountsFit
  <2>2. t.owner \in Owners
    BY <2>1 DEF Sale
  <2>3. CASE t.owner = o
    <3>1. t.pc = "start"
      BY <1>1, <1>4, <2>3, CommitsAlone DEF TInv
    <3> QED
      BY <1>3, <2>1, <3>1, AccountStands
  <2>4. CASE t.owner # o
    <3>1. PICK p : p = t.owner
      OBVIOUS
    <3>2. OversalesOf(p)' \subseteq OversalesOf(p)
      BY <1>1, <2>2, <2>4, <3>1, SaleLeavesRows
    <3>3. IdsOf(OversalesOf(t.owner))' \subseteq IdsOf(OversalesOf(t.owner))
      BY <3>1, <3>2 DEF IdsOf
    <3>4. \A l \in LotIds :
             /\ lots[l] # NoLot => /\ lots'[l] # NoLot /\ lots'[l].supply = lots[l].supply
                                   /\ taken'[t.owner][l] = taken[t.owner][l]
             /\ lots[l] = NoLot => taken'[t.owner][l] = 0
      BY <1>2, <1>3, <2>2, <2>4, SaleLeavesLots DEF IInv, TakenFromLots, Holders
    <3> QED
      BY <1>3, <2>1, <3>3, <3>4, AccountStands
  <2> QED
    BY <2>3, <2>4
<1>5. ASSUME NEW r \in Sessions \ {s}, NEW t, t = tx[r], t.op = "entry"
      PROVE  CoversStand(t)'
  <2>1. CoversStand(t) /\ t \in Entry
    BY <1>4, <1>5, Kinds DEF TInv, CoversAllStand, RInv, IInv, TypeOK
  <2>2. lastId \in Nat /\ lastId' \in Nat /\ lastId <= lastId'
    BY <1>3, SaleRows DEF IInv, TypeOK
  <2>3. \A p \in Owners : owners[p].state = "DELETED" => owners'[p].state = "DELETED"
    BY <1>1, <1>2, SaleOwner
  <2>4. tx[s].op = "remove" => owners'[o].state = "DELETED"
    BY <1>1, SaleOwner
  <2>5. ASSUME NEW c \in t.covers
        PROVE  /\ c.id <= lastId' /\ c.units <= c.was
               /\ \A row \in oversales' : row.id = c.id =>
                    /\ row.supply = t.supply /\ row.quantity = c.was
                    /\ row.owner = c.owner
                       \/ (c.owner \in Owners /\ owners'[c.owner].state = "DELETED")
    <3>1. /\ c.id \in Nat /\ c.id <= lastId /\ c.units <= c.was
          /\ \A q \in oversales : q.id = c.id =>
                /\ q.supply = t.supply /\ q.quantity = c.was
                /\ q.owner = c.owner
                   \/ (c.owner \in Owners /\ owners[c.owner].state = "DELETED")
      BY <2>1 DEF CoversStand, Entry, Cover
    <3>2. ASSUME NEW row \in oversales', row.id = c.id
          PROVE  /\ row.supply = t.supply /\ row.quantity = c.was
                 /\ row.owner = c.owner
                    \/ (c.owner \in Owners /\ owners'[c.owner].state = "DELETED")
      <4>1. CASE row \in oversales
        BY <2>3, <3>1, <3>2, <4>1
      <4>2. CASE row \notin oversales
        <5>1. PICK q \in oversales : /\ tx[s].op = "remove" /\ q.owner = o
                                     /\ row = [q EXCEPT !.owner = None]
          BY <1>1, <2>2, <3>1, <3>2, <4>2, SaleRows
        <5>2. q.id = c.id /\ row.supply = q.supply /\ row.quantity = q.quantity
          BY <1>3, <3>2, <5>1 DEF IInv, TypeOK, Oversale
        <5>3. CASE c.owner = o
          BY <1>2, <2>4, <3>1, <5>1, <5>2, <5>3
        <5>4. CASE c.owner # o
          BY <2>3, <3>1, <5>1, <5>2, <5>4
        <5> QED
          BY <5>3, <5>4
      <4> QED
        BY <4>1, <4>2
    <3> QED
      BY <2>2, <3>1, <3>2
  <2>6. \A c, d \in t.covers : c.id = d.id => c = d
    BY <2>1 DEF CoversStand
  <2> QED
    BY <2>5, <2>6 DEF CoversStand
<1>6. TakesWhatItNeeds' /\ RowsToldApart' /\ OwnersSound'
  BY SaleTakesWithinNeeds, SaleRowsToldApart, SaleOwnersSound
<1>7. ASSUME NEW r \in Sessions \ {s}
      PROVE  \E t : /\ t = tx[r]
                    /\ t.op \in SaleOps => AccountFits(t)'
                    /\ t.op = "entry" => CoversStand(t)'
  <2>1. PICK t : t = tx[r]
    OBVIOUS
  <2> QED
    BY <1>4, <1>5, <2>1
<1> QED
  BY <1>2, <1>6, <1>7, EndsAccounted

\* CommitCount, CommitReverse: what was counted or undone is nobody's.
LEMMA CountsAccounted ==
  ASSUME TInv, RInv', NEW s \in Sessions, CommitCount(s) \/ CommitReverse(s)
  PROVE  TInv'
<1>1. /\ tx' = [tx EXCEPT ![s] = Idle] /\ taken' = taken /\ owners' = owners
      /\ lastId' = lastId /\ oversales' \subseteq oversales
  BY DEF CommitCount, CommitReverse, Runs
<1>2. IInv /\ TypeOK' /\ IInv'
  BY DEF TInv, RInv, IInv
<1>3. ASSUME NEW l \in LotIds, lots[l] # NoLot
      PROVE  lots'[l] # NoLot /\ lots'[l].supply = lots[l].supply
  <2>1. lots[l] \in Lot /\ NoLot \notin Lot
    BY <1>2, <1>3, StockAssumption DEF IInv, TypeOK
  <2>2. CASE CommitReverse(s)
    <3>1. PICK k : k = tx[s].lot
      OBVIOUS
    <3>2. lots' = [lots EXCEPT ![k] = [lots[k] EXCEPT !.remaining = 0, !.reversed = TRUE,
                                                      !.moved = TRUE]]
      BY <1>2, <2>2, <3>1 DEF CommitReverse, IInv, TypeOK
    <3>3. lots'[l] = lots[l] \/ lots'[l] = [lots[l] EXCEPT !.remaining = 0, !.reversed = TRUE,
                                                           !.moved = TRUE]
      BY <1>2, <3>2 DEF IInv, TypeOK
    <3>4. lots'[l].supply = lots[l].supply
      BY <2>1, <3>3 DEF Lot
    <3>5. [lots[l] EXCEPT !.remaining = 0, !.reversed = TRUE, !.moved = TRUE] \in Lot
      <4>1. PICK new : new = [lots[l] EXCEPT !.remaining = 0, !.reversed = TRUE, !.moved = TRUE]
        OBVIOUS
      <4>2. new = [supply |-> lots[l].supply, quantity |-> lots[l].quantity, remaining |-> 0,
                   expires |-> lots[l].expires, entry |-> lots[l].entry, reversed |-> TRUE,
                   counted |-> lots[l].counted, moved |-> TRUE]
        BY <2>1, <4>1 DEF Lot
      <4>3. new \in Lot
        BY <2>1, <4>2 DEF Lot
      <4> QED
        BY <4>1, <4>3
    <3> QED
      BY <2>1, <3>3, <3>4, <3>5
  <2>3. CASE CommitCount(s)
    <3>1. PICK change : change = tx[s].change
      OBVIOUS
    <3>2. change \in [LotIds -> Int]
      BY <1>2, <2>3, <3>1, Kinds DEF IInv, TypeOK, CommitCount, StockCount
    <3>3. PICK counted : counted = LotsCounted(change)
      OBVIOUS
    <3>4. counted[l] \in Lot /\ counted[l].supply = lots[l].supply
      <4>1. CASE change[l] = 0
        BY <2>1, <3>3, <4>1 DEF LotsCounted
      <4>2. CASE change[l] # 0
        <5>1. PICK n, m \in Int : n = lots[l].remaining + change[l] /\ m = lots[l].counted + change[l]
          BY <2>1, <3>2 DEF Lot
        <5>2. PICK after : after = [lots[l] EXCEPT !.remaining = n, !.moved = TRUE]
          OBVIOUS
        <5>3. after \in Lot /\ after.supply = lots[l].supply /\ after.counted = lots[l].counted
          BY <2>1, <5>2 DEF Lot
        <5>4. LotsAfter(change)[l] = after
          BY <2>1, <4>2, <5>1, <5>2 DEF LotsAfter, Lot
        <5>5. counted[l] = [after EXCEPT !.counted = m]
          BY <3>3, <4>2, <5>1, <5>3, <5>4 DEF LotsCounted, Lot
        <5> QED
          BY <5>3, <5>5 DEF Lot
      <4> QED
        BY <4>1, <4>2
    <3>5. lots'[l] = counted[l]
      <4>1. \A k \in LotIds : NextLot(k) => k # l
        BY <1>3 DEF NextLot, Drawn
      <4> QED
        BY <2>3, <3>1, <3>3, <4>1 DEF CommitCount, LotsCounted
    <3> QED
      BY <2>1, <3>4, <3>5
  <2> QED
    BY <2>2, <2>3
<1>4. \A p \in Owners, l \in LotIds :
         /\ lots[l] # NoLot => /\ lots'[l] # NoLot /\ lots'[l].supply = lots[l].supply
                               /\ taken'[p][l] = taken[p][l]
         /\ lots[l] = NoLot => taken'[p][l] = 0
  BY <1>1, <1>2, <1>3 DEF IInv, TakenFromLots, Holders
<1>5. \A p : OversalesOf(p)' \subseteq OversalesOf(p)
  BY <1>1 DEF OversalesOf
<1>6. TakesWhatItNeeds'
  <2>1. ASSUME NEW p \in Owners, NEW u \in Supplies
        PROVE  TookOf(p, u)' + OwesOf(p, u)' <= NeedIn(owners'[p].told, u)
    BY <1>1, <1>4, <1>5, TakesStill
  <2> QED
    BY <2>1 DEF TakesWhatItNeeds, TookOf, OwesOf
<1>7. RowsToldApart' /\ OwnersSound'
  BY <1>1 DEF TInv, RowsToldApart, OwnersSound, OversalesOf
<1>8. ASSUME NEW r \in Sessions \ {s}
      PROVE  \E t : /\ t = tx[r]
                    /\ t.op \in SaleOps => AccountFits(t)'
                    /\ t.op = "entry" => CoversStand(t)'
  <2>1. PICK t : t = tx[r]
    OBVIOUS
  <2>2. ASSUME t.op \in SaleOps
        PROVE  AccountFits(t)'
    <3>1. t \in Sale /\ Sound(t) /\ AccountFits(t)
      BY <1>2, <2>1, <2>2, Kinds DEF TInv, IInv, TypeOK, SoundTransactions, AccountsFit
    <3>2. t.owner \in Owners
      BY <3>1 DEF Sale
    <3>3. IdsOf(OversalesOf(t.owner))' \subseteq IdsOf(OversalesOf(t.owner))
      BY <1>5 DEF IdsOf
    <3> QED
      BY <1>2, <1>4, <3>1, <3>2, <3>3, AccountStands
  <2>3. ASSUME t.op = "entry"
        PROVE  CoversStand(t)'
    BY <1>1, <2>1, <2>3 DEF TInv, CoversAllStand, CoversStand
  <2> QED
    BY <2>1, <2>2, <2>3
<1> QED
  BY <1>1, <1>6, <1>7, <1>8, EndsAccounted

\* What an entry covers is still there when it commits, and what it leaves of the
\* rows are theirs.
LEMMA EntryRows ==
  ASSUME TInv, NEW s \in Sessions, CommitEntry(s), NEW t, t = tx[s]
  PROVE  /\ t \in Entry /\ t.covers \in SUBSET Cover /\ IsFiniteSet(t.covers)
         /\ \A c \in t.covers : \E r \in oversales :
               /\ r.id = c.id /\ r.owner = c.owner /\ r.supply = t.supply /\ r.quantity = c.was
         /\ \A c, d \in t.covers : c.id = d.id => c = d
         /\ \A c \in t.covers : c.units <= c.was
         /\ \A r \in oversales : r.id \in IdsOf(t.covers) =>
               /\ CoverOf(t.covers, r) \in t.covers
               /\ CoverOf(t.covers, r).id = r.id
               /\ CoverOf(t.covers, r).owner = r.owner
               /\ CoverOf(t.covers, r).was = r.quantity
         /\ \A r \in oversales' : \E q \in oversales :
               r.id = q.id /\ r.owner = q.owner /\ r.supply = q.supply
<1>1. /\ t \in Entry /\ t.covers \in SUBSET Cover /\ IsFiniteSet(t.covers)
      /\ t.op = "entry" /\ CoversStand(t) /\ oversales \subseteq Oversale
  BY EntryWrites DEF TInv, RInv, IInv, TypeOK, CoversAllStand, CommitEntry
<1>2. \A c \in t.covers :
         /\ \E r \in oversales : r.id = c.id
         /\ ~(c.owner \in Owners /\ owners[c.owner].state = "DELETED")
  <2> TAKE c \in t.covers
  <2>1. c.id \in IdsOf(oversales) /\ ~(c.owner # None /\ owners[c.owner].state = "DELETED")
    BY <1>1 DEF CommitEntry, EntryFails
  <2>2. None \notin Owners
    BY StockAssumption
  <2> QED
    BY <2>1, <2>2 DEF IdsOf
<1>3. \A c \in t.covers, r \in oversales : r.id = c.id =>
         r.owner = c.owner /\ r.supply = t.supply /\ r.quantity = c.was
  BY <1>1, <1>2 DEF CoversStand
<1>4. /\ \A c \in t.covers : \E r \in oversales :
            /\ r.id = c.id /\ r.owner = c.owner /\ r.supply = t.supply /\ r.quantity = c.was
      /\ \A c, d \in t.covers : c.id = d.id => c = d
      /\ \A c \in t.covers : c.units <= c.was
  BY <1>1, <1>2, <1>3 DEF CoversStand
<1>5. ASSUME NEW r \in oversales, r.id \in IdsOf(t.covers)
      PROVE  /\ CoverOf(t.covers, r) \in t.covers
             /\ CoverOf(t.covers, r).id = r.id
             /\ CoverOf(t.covers, r).owner = r.owner
             /\ CoverOf(t.covers, r).was = r.quantity
  <2>1. \E c \in t.covers : c.id = r.id
    BY <1>5 DEF IdsOf
  <2>2. CoverOf(t.covers, r) \in t.covers /\ CoverOf(t.covers, r).id = r.id
    BY <2>1 DEF CoverOf
  <2> QED
    BY <1>3, <2>2
<1>6. ASSUME NEW r \in oversales'
      PROVE  \E q \in oversales : r.id = q.id /\ r.owner = q.owner /\ r.supply = q.supply
  <2>1. oversales' = Settled(t.covers)
    BY DEF CommitEntry
  <2>2. r \in oversales \/ \E q \in oversales : r = [q EXCEPT !.quantity = LeftOf(t.covers, q)]
    BY <2>1 DEF Settled
  <2> QED
    BY <1>1, <2>2 DEF Oversale
<1> QED
  BY <1>1, <1>4, <1>5, <1>6

\* Every row an entry's commit leaves has an id of its own.
LEMMA EntryRowsToldApart ==
  ASSUME TInv, NEW s \in Sessions, CommitEntry(s)
  PROVE  RowsToldApart'
<1>1. PICK t : t = tx[s]
  OBVIOUS
<1>2. oversales' = Settled(t.covers) /\ lastId' = lastId /\ oversales \subseteq Oversale
  BY <1>1 DEF CommitEntry, TInv, RInv, IInv, TypeOK
<1>3. \A r \in oversales' : \E q \in oversales : r.id = q.id
  BY <1>1, EntryRows
<1>4. ASSUME NEW r \in oversales', NEW q \in oversales', r.id = q.id
      PROVE  r = q
  <2>1. ASSUME NEW x \in oversales'
        PROVE  \E y \in oversales :
                  /\ y.id = x.id
                  /\ x = IF y.id \in IdsOf(t.covers)
                         THEN [y EXCEPT !.quantity = LeftOf(t.covers, y)] ELSE y
    BY <1>2 DEF Settled, Oversale
  <2>2. PICK y \in oversales :
           /\ y.id = r.id
           /\ r = IF y.id \in IdsOf(t.covers)
                  THEN [y EXCEPT !.quantity = LeftOf(t.covers, y)] ELSE y
    BY <2>1
  <2>3. PICK z \in oversales :
           /\ z.id = q.id
           /\ q = IF z.id \in IdsOf(t.covers)
                  THEN [z EXCEPT !.quantity = LeftOf(t.covers, z)] ELSE z
    BY <2>1
  <2>4. y = z
    BY <1>4, <2>2, <2>3 DEF TInv, RowsToldApart
  <2> QED
    BY <2>2, <2>3, <2>4
<1>5. \A r \in oversales' : r.id <= lastId'
  BY <1>2, <1>3 DEF TInv, RowsToldApart
<1> QED
  BY <1>4, <1>5 DEF RowsToldApart

\* What an entry settles of an owner's oversales is what it then owes less.
LEMMA EntrySettles ==
  ASSUME TInv, NEW s \in Sessions, CommitEntry(s), NEW t, t = tx[s], NEW p
  PROVE  /\ UnitsOf({c \in t.covers : c.owner = p}) \in Nat
         /\ OwesOf(p, t.supply)' \in Nat
         /\ OwesOf(p, t.supply)' + UnitsOf({c \in t.covers : c.owner = p})
              = OwesOf(p, t.supply)
<1>1. /\ t \in Entry /\ t.covers \in SUBSET Cover /\ IsFiniteSet(t.covers)
      /\ \A c \in t.covers : \E r \in oversales :
            /\ r.id = c.id /\ r.owner = c.owner /\ r.supply = t.supply /\ r.quantity = c.was
      /\ \A c, d \in t.covers : c.id = d.id => c = d
      /\ \A c \in t.covers : c.units <= c.was
      /\ \A r \in oversales : r.id \in IdsOf(t.covers) =>
            /\ CoverOf(t.covers, r) \in t.covers
            /\ CoverOf(t.covers, r).id = r.id
            /\ CoverOf(t.covers, r).owner = r.owner
            /\ CoverOf(t.covers, r).was = r.quantity
  BY EntryRows
<1>2. /\ oversales \subseteq Oversale /\ IsFiniteSet(oversales)
      /\ \A r, q \in oversales : r.id = q.id => r = q
      /\ oversales' = Settled(t.covers)
  BY DEF TInv, RInv, IInv, TypeOK, RowsToldApart, CommitEntry
<1>3. PICK R, N, mine : /\ R = {r \in oversales : r.owner = p /\ r.supply = t.supply}
                        /\ N = {r \in oversales' : r.owner = p /\ r.supply = t.supply}
                        /\ mine = {c \in t.covers : c.owner = p}
  OBVIOUS
<1>4. /\ R \in SUBSET oversales /\ IsFiniteSet(R) /\ IsFiniteSet(mine)
      /\ mine \in SUBSET t.covers
  BY <1>1, <1>2, <1>3, FS_Subset
<1>a. PICK k, q : /\ k = [r \in R |-> IF r.id \in IdsOf(t.covers)
                                      THEN CoverOf(t.covers, r).units ELSE 0]
                  /\ q = [r \in R |-> r.quantity]
  OBVIOUS
<1>b. PICK g : g = [r \in R |-> q[r] - k[r]]
  OBVIOUS
<1>5. /\ k = [r \in R |-> IF r.id \in IdsOf(t.covers)
                          THEN CoverOf(t.covers, r).units ELSE 0]
      /\ q = [r \in R |-> r.quantity]
      /\ g = [r \in R |-> q[r] - k[r]]
  BY <1>a, <1>b
<1>6. ASSUME NEW r \in R
      PROVE  /\ k[r] \in Nat /\ q[r] \in Nat /\ g[r] \in Nat /\ g[r] + k[r] = q[r]
             /\ r.id \in IdsOf(t.covers) => g[r] = LeftOf(t.covers, r)
             /\ r.id \notin IdsOf(t.covers) => g[r] = r.quantity /\ r.quantity > 0
  <2>1. r \in Oversale /\ q[r] = r.quantity /\ g[r] = q[r] - k[r]
    BY <1>2, <1>4, <1>5
  <2>2. r.quantity \in Nat /\ r.quantity > 0
    BY <2>1 DEF Oversale
  <2>3. CASE r.id \in IdsOf(t.covers)
    <3>1. PICK c \in t.covers : c = CoverOf(t.covers, r) /\ c.was = r.quantity
      BY <1>1, <1>4, <2>3
    <3>2. c.units \in Nat /\ c.units <= c.was
      BY <1>1 DEF Cover
    <3>3. k[r] = c.units
      BY <1>5, <2>3, <3>1
    <3> QED
      BY <2>1, <2>2, <2>3, <3>1, <3>2, <3>3 DEF LeftOf
  <2>4. CASE r.id \notin IdsOf(t.covers)
    <3>1. k[r] = 0
      BY <1>5, <2>4
    <3> QED
      BY <2>1, <2>2, <2>4, <3>1
  <2> QED
    BY <2>3, <2>4
<1>7. SumOf(q, R) = SumOf(g, R) + SumOf(k, R) /\ SumOf(g, R) \in Nat
  <2>1. (\A r \in R : g[r] \in Int) /\ (\A r \in R : k[r] \in Int)
    BY <1>6
  <2>2. PICK sum : sum = [r \in R |-> g[r] + k[r]]
    OBVIOUS
  <2>3. SumOf(sum, R) = SumOf(g, R) + SumOf(k, R)
    BY <1>4, <2>1, <2>2, SumOfPlus
  <2>4. \A r \in R : q[r] = sum[r]
    BY <1>6, <2>2
  <2>5. SumOf(q, R) = SumOf(sum, R)
    BY <1>4, <2>4, SumOfSame
  <2>6. SumOf(g, R) \in Nat
    <3>1. \A r \in R : g[r] \in Nat
      BY <1>6
    <3> QED
      BY <1>4, <3>1, SumOfNat
  <2> QED
    BY <2>3, <2>5, <2>6
<1>8. SumOf(k, R) = UnitsOf(mine) /\ UnitsOf(mine) \in Nat
  <2>1. PICK f, w : /\ f = [c \in mine |-> CHOOSE r \in R : r.id = c.id]
                    /\ w = [c \in mine |-> c.units]
    OBVIOUS
  <2>2. PICK C : C = {r \in R : r.id \in IdsOf(t.covers)}
    OBVIOUS
  <2>3. ASSUME NEW c \in mine
        PROVE  f[c] \in C /\ f[c].id = c.id
    <3>1. \E r \in R : r.id = c.id
      BY <1>1, <1>3, <1>4
    <3>2. f[c] \in R /\ f[c].id = c.id
      BY <2>1, <3>1
    <3> QED
      BY <1>4, <2>2, <3>2 DEF IdsOf
  <2>4. \A c \in mine : f[c] \in C
    BY <2>3
  <2>5. \A c, d \in mine : f[c] = f[d] => c = d
    BY <1>1, <1>4, <2>3
  <2>6. \A r \in C : \E c \in mine : f[c] = r
    <3> TAKE r \in C
    <3>1. PICK c \in t.covers : c = CoverOf(t.covers, r) /\ c.id = r.id /\ c.owner = r.owner
      BY <1>1, <1>4, <2>2
    <3>2. c \in mine
      BY <1>3, <2>2, <3>1
    <3>3. f[c] = r
      BY <1>2, <1>4, <2>2, <2>3, <3>1, <3>2
    <3> QED
      BY <3>2, <3>3
  <2>7. \A c \in mine : w[c] \in Nat
    BY <1>1, <1>4, <2>1 DEF Cover
  <2>8. \A c \in mine : w[c] \in Int
    BY <2>7
  <2>9. \A c \in mine : k[f[c]] = w[c]
    <3> TAKE c \in mine
    <3>1. f[c] \in C /\ f[c].id = c.id
      BY <2>3
    <3>2. CoverOf(t.covers, f[c]) \in t.covers /\ CoverOf(t.covers, f[c]).id = c.id
      BY <1>1, <1>4, <2>2, <3>1
    <3>3. CoverOf(t.covers, f[c]) = c
      BY <1>1, <1>4, <3>2
    <3> QED
      BY <1>5, <2>1, <2>2, <3>1, <3>3
  <2>10. IsFiniteSet(C) /\ C \in SUBSET R /\ IsFiniteSet(mine) /\ IsFiniteSet(R)
    BY <1>4, <2>2, FS_Subset
  <2>11. SumOf(k, C) = SumOf(w, mine)
    BY ONLY <2>4, <2>5, <2>6, <2>8, <2>9, <2>10, SumOfRenamed
  <2>12. \A r \in C : k[r] \in Int
    BY <1>6, <2>2
  <2>13. \A r \in R \ C : k[r] = 0
    BY <1>5, <2>2
  <2>14. SumOf(k, R) = SumOf(k, C)
    BY ONLY <2>10, <2>12, <2>13, SumOfMore
  <2>15. SumOf(w, mine) \in Nat
    BY <2>7, <2>10, SumOfNat
  <2> QED
    BY <2>1, <2>11, <2>14, <2>15 DEF UnitsOf
<1>9. SumOf(g, R) = QuantityOf(N)
  <2>1. PICK P, f, v : /\ P = {r \in R : g[r] > 0}
                       /\ f = [r \in R |-> [r EXCEPT !.quantity = g[r]]]
                       /\ v = [r \in N |-> r.quantity]
    OBVIOUS
  <2>2. \A r \in R : /\ f[r].id = r.id /\ f[r].owner = p /\ f[r].supply = t.supply
                     /\ f[r].quantity = g[r]
                     /\ g[r] = r.quantity => f[r] = r
    BY <1>2, <1>3, <2>1 DEF Oversale
  <2>3. \A r \in P : f[r] \in N
    <3> TAKE r \in P
    <3>1. r \in R /\ r \in oversales /\ g[r] > 0
      BY <1>3, <2>1
    <3>2. f[r] \in Settled(t.covers)
      <4>1. CASE r.id \in IdsOf(t.covers)
        BY <1>6, <2>1, <3>1, <4>1 DEF Settled
      <4>2. CASE r.id \notin IdsOf(t.covers)
        BY <1>6, <2>2, <3>1, <4>2 DEF Settled
      <4> QED
        BY <4>1, <4>2
    <3> QED
      BY <1>2, <1>3, <2>2, <3>1, <3>2
  <2>4. \A x, y \in P : f[x] = f[y] => x = y
    <3> SUFFICES ASSUME NEW x \in P, NEW y \in P, f[x] = f[y] PROVE x = y
      OBVIOUS
    <3>1. x \in R /\ y \in R /\ x \in oversales /\ y \in oversales
      BY <1>4, <2>1
    <3>2. f[x].id = x.id /\ f[y].id = y.id
      BY <2>2, <3>1
    <3> QED
      BY <1>2, <3>1, <3>2
  <2>5. \A z \in N : \E r \in P : f[r] = z
    <3> TAKE z \in N
    <3>1. z \in Settled(t.covers) /\ z.owner = p /\ z.supply = t.supply
      BY <1>2, <1>3
    <3>2. CASE z \in oversales /\ z.id \notin IdsOf(t.covers)
      <4>1. z \in R
        BY <1>3, <3>1, <3>2
      <4> QED
        BY <1>6, <2>1, <2>2, <3>2, <4>1
    <3>3. CASE \E r \in oversales : /\ r.id \in IdsOf(t.covers) /\ LeftOf(t.covers, r) > 0
                                    /\ z = [r EXCEPT !.quantity = LeftOf(t.covers, r)]
      <4>1. PICK r \in oversales : /\ r.id \in IdsOf(t.covers) /\ LeftOf(t.covers, r) > 0
                                   /\ z = [r EXCEPT !.quantity = LeftOf(t.covers, r)]
        BY <3>3
      <4>2. r.owner = p /\ r.supply = t.supply
        BY <1>2, <3>1, <4>1 DEF Oversale
      <4>3. r \in R
        BY <1>3, <4>2
      <4>4. g[r] = LeftOf(t.covers, r)
        BY <1>6, <4>1, <4>3
      <4> QED
        BY <2>1, <4>1, <4>3, <4>4
    <3> QED
      BY <3>1, <3>2, <3>3 DEF Settled
  <2>6. IsFiniteSet(P) /\ P \in SUBSET R /\ IsFiniteSet(R)
    BY <1>4, <2>1, FS_Subset
  <2>7. IsFiniteSet(N)
    <3>1. IsFiniteSet(oversales')
      BY <1>1, <1>2, SettledType DEF TInv, RInv, IInv
    <3> QED
      BY <1>3, <3>1, FS_Subset
  <2>8. \A r \in P : g[r] \in Int
    BY <1>6, <2>1
  <2>9. \A r \in P : v[f[r]] = g[r]
    BY <2>1, <2>2, <2>3
  <2>10. SumOf(v, N) = SumOf(g, P)
    BY ONLY <2>3, <2>4, <2>5, <2>6, <2>7, <2>8, <2>9, SumOfRenamed
  <2>11. \A r \in R \ P : g[r] = 0
    BY <1>6, <2>1
  <2>12. SumOf(g, R) = SumOf(g, P)
    BY ONLY <2>6, <2>8, <2>11, SumOfMore
  <2> QED
    BY <2>1, <2>10, <2>12 DEF QuantityOf
<1>10. OwesOf(p, t.supply) = SumOf(q, R) /\ OwesOf(p, t.supply)' = QuantityOf(N)
  <2>1. /\ {r \in OversalesOf(p) : r.supply = t.supply} = R
        /\ {r \in OversalesOf(p)' : r.supply = t.supply} = N
    BY <1>3 DEF OversalesOf
  <2> QED
    BY <1>5, <2>1 DEF OwesOf, QuantityOf
<1> QED
  BY <1>3, <1>7, <1>8, <1>9, <1>10

\* An entry's commit brings a lot of its supply, and leaves the others.
LEMMA EntryLots ==
  ASSUME IInv, NEW s \in Sessions, CommitEntry(s), NEW t, t = tx[s]
  PROVE  /\ t.lot \in LotIds /\ lots[t.lot] = NoLot
         /\ lots'[t.lot] # NoLot /\ lots'[t.lot].supply = t.supply
         /\ \A l \in LotIds \ {t.lot} : lots'[l] = lots[l]
<1>1. /\ t \in Entry /\ t.lot \in LotIds /\ lots[t.lot] = NoLot
      /\ t.covers \in SUBSET Cover /\ IsFiniteSet(t.covers) /\ TypeOK
  BY EntryWrites DEF IInv
<1>2. /\ t.supply \in Supplies /\ t.quantity \in Nat \ {0} /\ t.expires \in Expiries
  BY <1>1 DEF Entry
<1>3. UnitsOf(t.covers) \in Int
  BY <1>1, UnitsType DEF Cover
<1>4. PICK new : new = NewLot(t.supply, t.quantity, t.expires, TRUE, UnitsOf(t.covers))
  OBVIOUS
<1>5. new # NoLot
  <2>1. TRUE \in BOOLEAN
    OBVIOUS
  <2> QED
    BY <1>2, <1>3, <1>4, <2>1, NewLotType
<1>6. new.supply = t.supply
  BY <1>4 DEF NewLot
<1>7. lots' = [lots EXCEPT ![t.lot] = new]
  BY <1>4 DEF CommitEntry
<1> QED
  BY <1>1, <1>5, <1>6, <1>7 DEF TypeOK

\* An entry changes the account of what it covers and no other.
LEMMA EntryAccounts ==
  ASSUME TInv, IInv', NEW s \in Sessions, CommitEntry(s), NEW t, t = tx[s],
         NEW p \in Holders, NEW u
  PROVE  /\ u = t.supply =>
               TookOf(p, u)' = UnitsOf({c \in t.covers : c.owner = p}) + TookOf(p, u)
         /\ u # t.supply => TookOf(p, u)' = TookOf(p, u) /\ OwesOf(p, u)' = OwesOf(p, u)
<1>1. PICK k : k = t.lot
  OBVIOUS
<1>2. /\ k \in LotIds /\ lots[k] = NoLot /\ lots'[k] # NoLot /\ lots'[k].supply = t.supply
      /\ \A l \in LotIds \ {k} : lots'[l] = lots[l]
  BY <1>1, EntryLots DEF TInv, RInv
<1>3. \A l \in LotIds :
         /\ l # k => taken'[p][l] = taken[p][l]
         /\ l = k => taken'[p][l] = UnitsOf({c \in t.covers : c.owner = p})
  BY <1>1, EntryWrites DEF TInv, RInv
<1>4. IInv
  BY DEF TInv, RInv
<1>5. CASE u = t.supply
  <2>1. PICK S, T, w, v, m : /\ S = LotsIn(u) /\ T = LotsIn(u)'
                             /\ w = taken[p] /\ v = taken'[p]
                             /\ m = UnitsOf({c \in t.covers : c.owner = p})
    OBVIOUS
  <2>2. T \in SUBSET LotIds /\ k \in T /\ T \ {k} = S
    BY <1>2, <1>5, <2>1 DEF LotsIn, InStock
  <2>3. IsFiniteSet(T) /\ IsFiniteSet(S)
    BY <2>2, FiniteLots, FS_Subset
  <2>4. v[k] = m /\ \A l \in S : v[l] = w[l]
    BY <1>2, <1>3, <2>1, <2>2
  <2>5. \A l \in T : v[l] \in Int
    BY <2>1, <2>2 DEF IInv, TypeOK
  <2>6. SumOf(v, T) = v[k] + SumOf(v, S)
    BY <2>2, <2>3, <2>5, SumsSplit
  <2>7. SumOf(v, S) = SumOf(w, S)
    BY <2>3, <2>4, SumOfSame
  <2>8. TookOf(p, u)' = m + TookOf(p, u)
    BY <2>1, <2>4, <2>6, <2>7 DEF TookOf
  <2> QED
    BY <1>5, <2>1, <2>8
<1>6. CASE u # t.supply
  <2>1. TookOf(p, u)' = TookOf(p, u)
    <3>1. PICK S, w, v : S = LotsIn(u) /\ w = taken[p] /\ v = taken'[p]
      OBVIOUS
    <3>2. LotsIn(u)' = S /\ k \notin S /\ S \in SUBSET LotIds
      BY <1>2, <1>6, <3>1 DEF LotsIn, InStock
    <3>3. IsFiniteSet(S) /\ \A l \in S : v[l] = w[l]
      BY <1>3, <3>1, <3>2, FiniteLots
    <3>4. SumOf(v, S) = SumOf(w, S)
      BY <3>3, SumOfSame
    <3> QED
      BY <3>1, <3>2, <3>4 DEF TookOf
  <2>2. oversales' = Settled(t.covers) /\ oversales \subseteq Oversale
    BY <1>4 DEF CommitEntry, IInv, TypeOK
  <2>3. ASSUME NEW q \in oversales, q.supply = u
        PROVE  q.id \notin IdsOf(t.covers)
    <3> SUFFICES ASSUME q.id \in IdsOf(t.covers) PROVE FALSE
      OBVIOUS
    <3>1. PICK c \in t.covers : c.id = q.id
      BY DEF IdsOf
    <3>2. PICK x \in oversales : x.id = c.id /\ x.supply = t.supply
      BY EntryRows
    <3> QED
      BY <1>6, <2>3, <3>1, <3>2 DEF TInv, RowsToldApart
  <2>4. \A q \in oversales : [q EXCEPT !.quantity = LeftOf(t.covers, q)].supply = q.supply
    BY <2>2 DEF Oversale
  <2>5. \A r : r \in oversales' /\ r.supply = u <=> r \in oversales /\ r.supply = u
    BY <2>2, <2>3, <2>4 DEF Settled
  <2>6. {r \in OversalesOf(p)' : r.supply = u} = {r \in OversalesOf(p) : r.supply = u}
    BY <2>5 DEF OversalesOf
  <2> QED
    BY <1>6, <2>1, <2>6 DEF OwesOf
<1> QED
  BY <1>5, <1>6

\* What an entry gives an owner is what the owner owed: both together stay.
LEMMA EntryTakesWithinNeeds ==
  ASSUME TInv, RInv', NEW s \in Sessions, CommitEntry(s)
  PROVE  TakesWhatItNeeds'
<1>1. PICK t : t = tx[s]
  OBVIOUS
<1>2. owners' = owners /\ IInv /\ IInv'
  BY DEF CommitEntry, TInv, RInv
<1>3. ASSUME NEW p \in Owners, NEW u \in Supplies
      PROVE  TookOf(p, u)' + OwesOf(p, u)' <= NeedIn(owners'[p].told, u)
  <2>1. /\ TookOf(p, u) \in Int /\ NeedIn(owners[p].told, u) \in Nat
        /\ TookOf(p, u) + OwesOf(p, u) <= NeedIn(owners[p].told, u)
        /\ p \in Holders
    BY <1>2, TookOwesNeedType DEF TInv, TakesWhatItNeeds, Holders
  <2>2. CASE u = t.supply
    <3>1. PICK m \in Nat : m = UnitsOf({c \in t.covers : c.owner = p})
      BY <1>1, EntrySettles
    <3>2. OwesOf(p, u)' \in Int /\ OwesOf(p, u)' + m = OwesOf(p, u)
      BY <1>1, <2>2, <3>1, EntrySettles
    <3>3. TookOf(p, u)' = m + TookOf(p, u)
      BY <1>1, <1>2, <2>1, <2>2, <3>1, EntryAccounts
    <3>4. OwesOf(p, u) \in Int
      BY <3>1, <3>2
    <3>5. \A a, b, c, d, e \in Int : b + c = d /\ a + d <= e => (c + a) + b <= e
      OBVIOUS
    <3> QED
      BY <1>2, <2>1, <3>1, <3>2, <3>3, <3>4, <3>5
  <2>3. CASE u # t.supply
    BY <1>1, <1>2, <2>1, <2>3, EntryAccounts
  <2> QED
    BY <2>2, <2>3
<1> QED
  BY <1>3 DEF TakesWhatItNeeds, TookOf, OwesOf

\* CommitEntry.
LEMMA CommitEntryAccounted ==
  ASSUME TInv, RInv', EntriesApart, NEW s \in Sessions, CommitEntry(s)
  PROVE  TInv'
<1>1. PICK t, k : t = tx[s] /\ k = t.lot
  OBVIOUS
<1>2. /\ k \in LotIds /\ lots[k] = NoLot /\ lots'[k] # NoLot
      /\ \A l \in LotIds \ {k} : lots'[l] = lots[l]
  BY <1>1, EntryLots DEF TInv, RInv
<1>3. /\ owners' = owners /\ tx' = [tx EXCEPT ![s] = Idle]
      /\ \A o \in Owners, l \in LotIds :
            /\ l # k => taken'[o][l] = taken[o][l]
            /\ l = k => taken'[o][l] = UnitsOf({c \in t.covers : c.owner = o})
  BY <1>1, EntryWrites DEF TInv, RInv, Holders
<1>4. IInv /\ IInv' /\ TypeOK'
  BY DEF TInv, RInv, IInv
<1>5. /\ \A c \in t.covers : \E r \in oversales : r.id = c.id /\ r.owner = c.owner
      /\ \A r \in oversales' : \E q \in oversales : r.id = q.id /\ r.owner = q.owner
  BY <1>1, EntryRows
<1>6. ASSUME NEW p \in Owners, \A c \in t.covers : c.owner # p
      PROVE  \A l \in LotIds : lots[l] = NoLot => taken'[p][l] = 0
  <2>1. UnitsOf({c \in t.covers : c.owner = p}) = 0
    <3>1. {c \in t.covers : c.owner = p} = {}
      BY <1>6
    <3> QED
      BY <3>1, SumOfEmpty DEF UnitsOf
  <2> QED
    BY <1>3, <1>4, <2>1 DEF IInv, TakenFromLots, Holders
<1>7. OwnersSound'
  <2>1. ASSUME NEW p \in Owners, owners[p].state = "ABSENT"
        PROVE  OversalesOf(p)' = {} /\ \A l \in LotIds : taken'[p][l] = 0
    <3>1. OversalesOf(p) = {} /\ \A l \in LotIds : taken[p][l] = 0
      BY <2>1 DEF TInv, OwnersSound
    <3>2. \A c \in t.covers : c.owner # p
      BY <1>5, <3>1 DEF OversalesOf
    <3>3. taken'[p][k] = 0
      BY <1>2, <1>6, <3>2
    <3>4. OversalesOf(p)' = {}
      BY <1>5, <3>1 DEF OversalesOf
    <3>5. \A l \in LotIds : taken'[p][l] = 0
      <4> TAKE l \in LotIds
      <4>1. CASE l = k
        BY <3>3, <4>1
      <4>2. CASE l # k
        BY <1>3, <3>1, <4>2
      <4> QED
        BY <4>1, <4>2
    <3> QED
      BY <3>4, <3>5
  <2>2. ASSUME NEW p \in Owners
        PROVE  /\ Distinct(owners'[p].needs)
               /\ owners'[p].state = "ABSENT" =>
                     OversalesOf(p)' = {} /\ \A l \in LotIds : taken'[p][l] = 0
               /\ owners'[p].state = "DELETED" => p \in Consumptions
    BY <1>3, <2>1 DEF TInv, OwnersSound
  <2> QED
    BY <2>2 DEF OwnersSound, OversalesOf
<1>8. ASSUME NEW r \in Sessions \ {s}, NEW n, n = tx[r], n.op \in SaleOps
      PROVE  AccountFits(n)'
  <2>1. n \in Sale /\ Sound(n) /\ AccountFits(n)
    BY <1>4, <1>8, Kinds DEF TInv, IInv, TypeOK, SoundTransactions, AccountsFit
  <2>2. n.owner \in Owners /\ n.live \in BOOLEAN
        /\ n.pc \in {"start", "drop", "moves", "moving", "locked"}
    BY <2>1 DEF Sale
  <2>3. IdsOf(OversalesOf(n.owner))' \subseteq IdsOf(OversalesOf(n.owner))
    BY <1>5 DEF IdsOf, OversalesOf
  <2>4. CASE ~n.live
    BY <2>1, <2>4 DEF AccountFits
  <2>5. CASE n.pc \in {"start", "drop", "moves"}
    BY <1>4, <2>1, <2>3, <2>5, AccountStands
  <2>6. CASE n.live /\ n.pc \in {"moving", "locked"}
    <3>1. IdsOf(OversalesOf(n.owner)) \subseteq n.dropped
      BY <2>1, <2>6 DEF AccountFits
    <3>2. n.dropped \cap IdsOf(t.covers) = {}
      BY <1>1, <1>8 DEF CommitEntry, RowsFreeFor, DroppedBy, Moving
    <3>3. \A c \in t.covers : c.owner # n.owner
      BY <1>5, <3>1, <3>2 DEF IdsOf, OversalesOf
    <3>4. \A l \in LotIds : lots[l] = NoLot => taken'[n.owner][l] = 0
      BY <1>6, <2>2, <3>3
    <3>5. \A l \in LotIds :
             lots[l] # NoLot => /\ lots'[l] # NoLot /\ lots'[l].supply = lots[l].supply
                                /\ taken'[n.owner][l] = taken[n.owner][l]
      BY <1>2, <1>3, <2>2
    <3> QED
      BY <1>4, <2>1, <2>3, <3>4, <3>5, AccountStands
  <2> QED
    BY <2>2, <2>4, <2>5, <2>6
<1>9. \A r \in Sessions \ {s} : tx[r].op # "entry"
  BY DEF EntriesApart, CommitEntry
<1>10. ASSUME NEW r \in Sessions \ {s}
       PROVE  \E n : /\ n = tx[r]
                     /\ n.op \in SaleOps => AccountFits(n)'
                     /\ n.op = "entry" => CoversStand(n)'
  <2>1. PICK n : n = tx[r]
    OBVIOUS
  <2> QED
    BY <1>8, <1>9, <2>1
<1>11. TakesWhatItNeeds' /\ RowsToldApart'
  BY EntryTakesWithinNeeds, EntryRowsToldApart
<1> QED
  BY <1>3, <1>7, <1>10, <1>11, EndsAccounted

\* The end of the night changes nothing of the stock.
LEMMA NightEndsAccounted ==
  ASSUME TInv, RInv', UNCHANGED <<lots, taken, oversales, lastId, owners, tx>>
  PROVE  TInv'
<1>1. \A u \in Supplies : LotsIn(u)' = LotsIn(u)
  BY DEF LotsIn, InStock
<1>2. \A o \in Owners, u \in Supplies :
         TookOf(o, u)' = TookOf(o, u) /\ OwesOf(o, u)' = OwesOf(o, u)
  BY <1>1 DEF TookOf, OwesOf, OversalesOf
<1>3. TakesWhatItNeeds'
  BY <1>2 DEF TInv, TakesWhatItNeeds
<1>4. RowsToldApart' /\ OwnersSound' /\ CoversAllStand'
  BY DEF TInv, RowsToldApart, OwnersSound, CoversAllStand, CoversStand, OversalesOf
<1>5. AccountsFit'
  BY <1>1 DEF TInv, AccountsFit, AccountFits, KeepsOf, OversalesOf, IdsOf
<1> QED
  BY <1>3, <1>4, <1>5 DEF TInv

\* TInv is inductive while nothing undoes a sale whose owner is in use, and
\* entries follow one another.
LEMMA TInvInductive == TInv /\ UndoneApart /\ EntriesApart /\ [Next]_vars => TInv'
<1> SUFFICES ASSUME TInv, UndoneApart, EntriesApart, [Next]_vars PROVE TInv'
  OBVIOUS
<1>1. RInv'
  BY RInvInductive DEF TInv
<1>2. CASE UNCHANGED vars \/ NightEnds
  BY <1>1, <1>2, NightEndsAccounted DEF vars, NightEnds
<1>3. ASSUME NEW s \in Sessions, Asks(s)
      PROVE  TInv'
  BY <1>1, <1>3, SalesBeginAccounted, EntryBeginsAccounted, OthersAccounted DEF Asks
<1>4. ASSUME NEW s \in Sessions, Advances(s)
      PROVE  TInv'
  <2>1. CASE LockFirst(s) \/ DropOversales(s) \/ ReadMoves(s)
    BY <1>1, <2>1, AccountOpens
  <2>2. CASE LockLots(s)
    <3>1. tx[s].op \in SaleOps
      BY <2>2 DEF LockLots, NextNeed
    <3> QED
      BY <1>1, <2>2, <3>1, AccountGoesOn
  <2>3. CASE MoveLot(s)
    <3>1. tx[s].op \in SaleOps \/ tx[s].op = "count"
      BY <2>3 DEF MoveLot, Moving
    <3> QED
      BY <1>1, <2>3, <3>1, AccountGoesOn, OthersAccounted
  <2>4. CASE PlanSale(s)
    BY <1>1, <2>4, AccountPlans
  <2>5. CASE CommitSale(s)
    BY <1>1, <2>5, CommitSaleAccounted
  <2>6. CASE CommitEntry(s)
    BY <1>1, <2>6, CommitEntryAccounted
  <2>7. CASE CommitCount(s) \/ CommitReverse(s)
    BY <1>1, <2>7, CountsAccounted
  <2>8. CASE PlanCount(s)
    BY <1>1, <2>8, OthersAccounted
  <2> QED
    BY <1>4, <2>1, <2>2, <2>3, <2>4, <2>5, <2>6, <2>7, <2>8 DEF Advances
<1>5. ASSUME NEW s \in Sessions, RollBack(s)
      PROVE  TInv'
  BY <1>1, <1>5, OthersAccounted
<1> QED
  BY <1>2, <1>3, <1>4, <1>5 DEF Next

\* Nobody took, owes or needs anything at the start.
LEMMA InitAccounted == Init => TInv
<1> SUFFICES ASSUME Init PROVE TInv
  OBVIOUS
<1>1. RInv
  BY InitFit
<1>2. oversales = {} /\ \A s \in Sessions : tx[s].op = "idle"
  BY DEF Init, Idle
<1>3. \A o \in Owners : /\ owners[o].state = "ABSENT" /\ owners[o].needs = <<>>
                        /\ owners[o].told = <<>>
                        /\ taken[o] = NoChange
  BY DEF Init, Holders
<1>4. \A l \in LotIds : NoChange[l] = 0
  BY DEF NoChange
<1>5. ASSUME NEW o \in Owners, NEW u \in Supplies
      PROVE  TookOf(o, u) + OwesOf(o, u) <= NeedIn(owners[o].told, u)
  <2>1. PICK S : S = LotsIn(u) /\ S \in SUBSET LotIds
    BY DEF LotsIn, InStock
  <2>2. SumOf(taken[o], S) = 0
    <3>1. IsFiniteSet(S) /\ \A l \in S : taken[o][l] = 0
      BY <1>3, <1>4, <2>1, FiniteLots
    <3> QED
      BY <3>1, SumOfZero
  <2>3. {r \in OversalesOf(o) : r.supply = u} = {}
    BY <1>2 DEF OversalesOf
  <2>4. OwesOf(o, u) = 0
    BY <2>3, SumOfEmpty DEF OwesOf, QuantityOf
  <2>5. NeedIn(owners[o].told, u) = 0
    BY <1>3, NeedOfNone
  <2> QED
    BY <2>1, <2>2, <2>4, <2>5 DEF TookOf
<1>6. RowsToldApart /\ OwnersSound
  BY <1>2, <1>3, <1>4 DEF RowsToldApart, OwnersSound, OversalesOf, Distinct
<1>7. AccountsFit /\ CoversAllStand
  BY <1>2 DEF AccountsFit, CoversAllStand, SaleOps
<1> QED
  BY <1>1, <1>5, <1>6, <1>7 DEF TInv, TakesWhatItNeeds

(***************************************************************************)
(* What an order or a consumption took and still owes of a supply never    *)
(* exceeds what its items need, however launches, edits, counts, reversals *)
(* and an entry overlap, canceling and restoring included, as long as      *)
(* nothing undoes a sale whose owner another transaction is using, and     *)
(* entries follow one another: two of them may settle the same oversale.   *)
(***************************************************************************)
THEOREM SalesTakeTheirNeeds ==
  Spec /\ []UndoneApart /\ []EntriesApart => []TakesWhatItNeeds
<1>1. TInv => TakesWhatItNeeds
  BY DEF TInv
<1> QED
  BY <1>1, InitAccounted, TInvInductive, PTL DEF Spec

-----------------------------------------------------------------------------
(***************************************************************************)
(* Why a reversed entry stays empty: it was untouched when the reversal    *)
(* looked, and what is empty is neither taken from nor given back to. The  *)
(* reversal writes without looking again (stock/prisma-entry-history.ts),  *)
(* so this holds as long as no sale and no count is in flight with it.     *)
(***************************************************************************)
ReversalsApart == \A s, t \in Sessions : tx[s].op = "reverse" => ~Moving(t)

\* A lot nothing beyond its entry moved was taken from by nobody.
LotClear(l) ==
    /\ lots[l].reversed => lots[l].remaining = 0
    /\ ~lots[l].moved \/ lots[l].reversed => \A o \in Holders : taken[o][l] = 0

\* A sale or a count moves no reversed lot, and a reversal's lot is untouched.
StepsAround(t) ==
    /\ t.op \in SaleOps \cup {"count"} =>
          \A l \in InStock : lots[l].reversed => t.plan[l] = 0 /\ t.change[l] = 0
    /\ t.op = "reverse" => ~lots[t.lot].moved \/ lots[t.lot].reversed

AllStepAround == \A s \in Sessions : StepsAround(tx[s])

VInv == IInv /\ (\A l \in InStock : LotClear(l)) /\ AllStepAround

\* A step that writes one transaction and no table.
LEMMA StaysAround ==
  ASSUME VInv, IInv', NEW s \in Sessions, NEW n, tx' = [tx EXCEPT ![s] = n],
         UNCHANGED Tables, StepsAround(n)
  PROVE  VInv'
<1>1. tx'[s] = n /\ \A r \in Sessions \ {s} : tx'[r] = tx[r]
  BY DEF VInv, IInv, TypeOK
<1>2. taken' = taken /\ lots' = lots
  BY DEF Tables
<1>3. \A r \in Sessions : StepsAround(tx'[r])
  BY <1>1 DEF VInv, AllStepAround
<1>4. AllStepAround'
  BY <1>2, <1>3 DEF AllStepAround, StepsAround, InStock
<1>5. \A l \in InStock' : LotClear(l)'
  BY <1>2 DEF VInv, LotClear, InStock
<1> QED
  BY <1>4, <1>5 DEF VInv

\* A step that ends one transaction and writes the tables: no lot becomes
\* reversed unless nothing is moving.
LEMMA EndsAround ==
  ASSUME VInv, IInv', NEW s \in Sessions, tx' = [tx EXCEPT ![s] = Idle],
         \A l \in InStock' : LotClear(l)',
         \A r \in Sessions \ {s} :
            /\ Moving(r) => \A l \in InStock' : lots'[l].reversed => l \in InStock /\ lots[l].reversed
            /\ tx[r].op = "reverse" => ~lots'[tx[r].lot].moved \/ lots'[tx[r].lot].reversed
  PROVE  VInv'
<1>1. tx'[s] = Idle /\ \A r \in Sessions \ {s} : tx'[r] = tx[r]
  BY DEF VInv, IInv, TypeOK
<1>2. Idle.op \notin SaleOps \cup {"count", "reverse"}
  BY DEF Idle, SaleOps
<1>3. ASSUME NEW r \in Sessions
      PROVE  StepsAround(tx[r])'
  <2>1. CASE r = s
    BY <1>1, <1>2, <2>1 DEF StepsAround
  <2>2. CASE r # s
    BY <1>1, <2>2 DEF StepsAround, VInv, AllStepAround, Moving
  <2> QED
    BY <2>1, <2>2
<1> QED
  BY <1>3 DEF VInv, AllStepAround

\* A transaction begins with nothing moved, and a reversal with an untouched lot.
LEMMA AsksAround ==
  ASSUME VInv, IInv', NEW s \in Sessions, Asks(s)
  PROVE  VInv'
<1>1. ASSUME NEW n, Begins(s, n), StepsAround(n)
      PROVE  VInv'
  BY <1>1, StaysAround DEF Begins, Opens
<1>2. \A l \in InStock : l \in LotIds /\ NoChange[l] = 0
  BY DEF InStock, NoChange
<1>3. ASSUME NEW op \in SaleOps, NEW pc, NEW o, NEW needs, Begins(s, SaleOf(op, pc, o, needs))
      PROVE  VInv'
  <2>1. PICK n : n = SaleOf(op, pc, o, needs)
    OBVIOUS
  <2>2. n.op = op /\ op # "reverse" /\ n.plan = NoChange /\ n.change = NoChange
    BY <2>1 DEF SaleOf, SaleOps
  <2>3. StepsAround(n)
    BY <1>2, <2>2 DEF StepsAround
  <2> QED
    BY <1>1, <1>3, <2>1, <2>3
<1>4. {"create", "edit", "cancel", "restore", "consume", "reconsume", "remove"} = SaleOps
  BY DEF SaleOps
<1>5. CASE BeginCreate(s)
  BY <1>3, <1>4, <1>5 DEF BeginCreate
<1>6. CASE BeginConsume(s)
  BY <1>3, <1>4, <1>6 DEF BeginConsume
<1>7. CASE BeginEdit(s)
  <2>1. PICK o \in Owners, needs \in Needs :
           Begins(s, SaleOf(IF o \in Orders THEN "edit" ELSE "reconsume", "start", o, needs))
    BY <1>7 DEF BeginEdit
  <2>2. PICK op \in SaleOps : op = IF o \in Orders THEN "edit" ELSE "reconsume"
    BY <1>4
  <2> QED
    BY <1>3, <2>1, <2>2
<1>8. CASE BeginCancel(s)
  BY <1>3, <1>4, <1>8 DEF BeginCancel
<1>9. CASE BeginRestore(s)
  BY <1>3, <1>4, <1>9 DEF BeginRestore
<1>10. CASE BeginRemove(s)
  BY <1>3, <1>4, <1>10 DEF BeginRemove
<1>11. CASE BeginEntry(s)
  <2>1. PICK n : Begins(s, n) /\ n.op = "entry"
    BY <1>11 DEF BeginEntry
  <2> QED
    BY <1>1, <2>1 DEF StepsAround, SaleOps
<1>12. CASE BeginCount(s)
  <2>1. PICK n : Begins(s, n) /\ n.op = "count" /\ n.plan = NoChange /\ n.change = NoChange
    BY <1>12 DEF BeginCount
  <2>2. StepsAround(n)
    BY <1>2, <2>1 DEF StepsAround
  <2> QED
    BY <1>1, <2>1, <2>2
<1>13. CASE BeginReverse(s)
  <2>1. PICK l \in InStock : Reversible(l) /\ Begins(s, [op |-> "reverse", lot |-> l])
    BY <1>13 DEF BeginReverse
  <2>2. PICK n : n = [op |-> "reverse", lot |-> l]
    OBVIOUS
  <2>3. StepsAround(n)
    BY <2>1, <2>2 DEF StepsAround, Reversible, SaleOps
  <2> QED
    BY <1>1, <2>1, <2>2, <2>3
<1> QED
  BY <1>5, <1>6, <1>7, <1>8, <1>9, <1>10, <1>11, <1>12, <1>13 DEF Asks

\* The plan of a sale or a count takes nothing from an empty lot.
LEMMA PlanAround ==
  ASSUME VInv, NEW s \in Sessions, Moving(s), NEW u \in Supplies, NEW units \in Int,
         NEW takes, takes = TakeInExpiryOrder(SeenBalance(s, u), ExpiryOf, units),
         NEW plan, plan = [l \in LotIds |-> IF l \in DOMAIN takes THEN -takes[l] ELSE 0],
         NEW l \in InStock, lots[l].reversed
  PROVE  plan[l] = 0
<1>1. lots[l].remaining = 0 /\ tx[s].change[l] = 0
  BY DEF VInv, LotClear, AllStepAround, StepsAround, Moving
<1>2. Seen(s, l) = 0
  BY <1>1 DEF Seen
<1>3. l \notin DOMAIN SeenBalance(s, u)
  BY <1>2 DEF SeenBalance
<1>4. DOMAIN takes = DOMAIN SeenBalance(s, u)
  BY DEF TakeInExpiryOrder
<1> QED
  BY <1>3, <1>4 DEF InStock

\* The steps of a sale or a count before its commit, and a rollback.
LEMMA StepsStayAround ==
  ASSUME VInv, IInv', NEW s \in Sessions,
         \/ LockFirst(s) \/ DropOversales(s) \/ ReadMoves(s) \/ MoveLot(s)
         \/ LockLots(s) \/ PlanSale(s) \/ PlanCount(s) \/ RollBack(s)
  PROVE  VInv'
<1>1. PICK t : t = tx[s]
  OBVIOUS
<1>2. /\ TypeOK /\ t \in Transaction /\ StepsAround(t) /\ UNCHANGED Tables
  BY <1>1 DEF VInv, IInv, TypeOK, AllStepAround, LockFirst, DropOversales, ReadMoves,
     MoveLot, LockLots, PlanSale, PlanCount, RollBack
<1>3. ASSUME NEW n, Runs(s, n), n.op = t.op, t.op \in SaleOps \cup {"count"},
             \A l \in InStock : lots[l].reversed => n.plan[l] = 0 /\ n.change[l] = 0
      PROVE  VInv'
  <2>1. tx' = [tx EXCEPT ![s] = n] /\ n.op # "reverse"
    BY <1>3 DEF Runs, SaleOps
  <2>2. StepsAround(n)
    BY <1>3, <2>1 DEF StepsAround
  <2> QED
    BY <1>2, <2>1, <2>2, StaysAround
<1>4. ASSUME t.op \in SaleOps \cup {"count"}, NEW l \in InStock, lots[l].reversed
      PROVE  t.plan[l] = 0 /\ t.change[l] = 0
  BY <1>2, <1>4 DEF StepsAround
<1>5. t.op \in SaleOps => t \in Sale
  BY <1>2, Kinds
<1>6. CASE LockFirst(s)
  <2>1. t \in Sale /\ t.op \in SaleOps
    BY <1>1, <1>5, <1>6 DEF LockFirst, SaleOps
  <2>2. PICK pc : Runs(s, [t EXCEPT !.pc = pc])
    BY <1>1, <1>6 DEF LockFirst
  <2>3. PICK n : n = [t EXCEPT !.pc = pc]
    OBVIOUS
  <2>4. n.op = t.op /\ n.plan = t.plan /\ n.change = t.change
    BY <2>1, <2>3 DEF Sale
  <2> QED
    BY <1>3, <1>4, <2>1, <2>2, <2>3, <2>4
<1>7. CASE DropOversales(s)
  <2>1. t \in Sale /\ t.op \in SaleOps
    BY <1>1, <1>5, <1>7 DEF DropOversales
  <2>2. PICK ids : Runs(s, [t EXCEPT !.pc = "moves", !.dropped = ids])
    BY <1>1, <1>7 DEF DropOversales
  <2>3. PICK n : n = [t EXCEPT !.pc = "moves", !.dropped = ids]
    OBVIOUS
  <2>4. n.op = t.op /\ n.plan = t.plan /\ n.change = t.change
    BY <2>1, <2>3 DEF Sale
  <2> QED
    BY <1>3, <1>4, <2>1, <2>2, <2>3, <2>4
<1>8. CASE ReadMoves(s)
  <2>1. t \in Sale /\ t.op \in SaleOps
    BY <1>1, <1>5, <1>8 DEF ReadMoves
  <2>2. PICK net : net = NetTakenByLot(taken[t.owner])
    OBVIOUS
  <2>3. PICK n : n = [t EXCEPT !.pc = "moving", !.plan = net]
    OBVIOUS
  <2>4. Runs(s, n)
    BY <1>1, <1>8, <2>2, <2>3 DEF ReadMoves
  <2>5. n.op = t.op /\ n.plan = net /\ n.change = t.change
    BY <2>1, <2>3 DEF Sale
  <2>6. ASSUME NEW l \in InStock, lots[l].reversed
        PROVE  net[l] = 0
    <3>1. t.owner \in Holders /\ l \in LotIds
      BY <2>1 DEF Sale, Holders, InStock
    <3>2. taken[t.owner][l] = 0
      BY <2>6, <3>1 DEF VInv, LotClear
    <3>3. DOMAIN taken[t.owner] = LotIds
      BY <1>2, <3>1 DEF TypeOK
    <3> QED
      BY <2>2, <3>1, <3>2, <3>3 DEF NetTakenByLot, AtLeast0
  <2> QED
    BY <1>3, <1>4, <2>1, <2>4, <2>5, <2>6
<1>9. CASE LockLots(s)
  <2>1. t \in Sale /\ t.op \in SaleOps
    BY <1>1, <1>5, <1>9 DEF LockLots, NextNeed
  <2>2. PICK ids : Runs(s, [t EXCEPT !.pc = "locked", !.locked = ids])
    BY <1>1, <1>9 DEF LockLots
  <2>3. PICK n : n = [t EXCEPT !.pc = "locked", !.locked = ids]
    OBVIOUS
  <2>4. n.op = t.op /\ n.plan = t.plan /\ n.change = t.change
    BY <2>1, <2>3 DEF Sale
  <2> QED
    BY <1>3, <1>4, <2>1, <2>2, <2>3, <2>4
<1>10. CASE PlanSale(s)
  <2>1. t \in Sale /\ t.op \in SaleOps /\ t.todo # <<>> /\ Moving(s)
    BY <1>1, <1>5, <1>10 DEF PlanSale, VInv, IInv, SoundTransactions, Sound, Moving
  <2>2. PICK need : need = Head(t.todo)
    OBVIOUS
  <2>3. need.supply \in Supplies /\ need.units \in Int
    <3>1. t.todo \in Seq(SaleNeed)
      BY <2>1 DEF Sale
    <3>2. need \in SaleNeed
      BY <2>1, <2>2, <3>1
    <3> QED
      BY <3>2 DEF SaleNeed
  <2>4. PICK takes : takes = TakeInExpiryOrder(SeenBalance(s, need.supply), ExpiryOf, need.units)
    OBVIOUS
  <2>5. PICK plan : plan = [l \in LotIds |-> IF l \in DOMAIN takes THEN -takes[l] ELSE 0]
    OBVIOUS
  <2>6. PICK n : n = [t EXCEPT !.pc = "moving", !.todo = NeedsLeft(s), !.plan = plan,
                     !.short[need.supply] = MissingOf(SeenBalance(s, need.supply), need.units)]
    OBVIOUS
  <2>7. Runs(s, n)
    BY <1>1, <1>10, <2>2, <2>4, <2>5, <2>6 DEF PlanSale
  <2>8. n.op = t.op /\ n.plan = plan /\ n.change = t.change
    BY <2>1, <2>6 DEF Sale
  <2>9. \A l \in InStock : lots[l].reversed => plan[l] = 0
    BY <2>1, <2>3, <2>4, <2>5, PlanAround
  <2> QED
    BY <1>3, <1>4, <2>1, <2>7, <2>8, <2>9
<1>11. CASE PlanCount(s)
  <2>1. t.op = "count" /\ t \in StockCount /\ Moving(s)
    BY <1>1, <1>2, <1>11, Kinds DEF PlanCount, Moving
  <2>2. t.supply \in Supplies /\ t.quantity \in Nat
    BY <2>1 DEF StockCount
  <2>3. PICK balance : balance = SeenBalance(s, t.supply)
    OBVIOUS
  <2>4. PICK units \in Int : units = ExcessOf(balance, t.quantity)
    <3>1. ExcessOf(balance, t.quantity) \in Nat
      BY <1>2, <2>1, <2>2, <2>3, SeenBalanceType, RestType
    <3> QED
      BY <3>1
  <2>5. PICK takes : takes = TakeInExpiryOrder(balance, ExpiryOf, units)
    OBVIOUS
  <2>6. PICK plan : plan = [l \in LotIds |-> IF l \in DOMAIN takes THEN -takes[l] ELSE 0]
    OBVIOUS
  <2>7. PICK n : n = [t EXCEPT !.pc = "moving", !.plan = plan,
                              !.surplus = SurplusOf(balance, t.quantity)]
    OBVIOUS
  <2>8. Runs(s, n)
    BY <1>1, <1>11, <2>3, <2>4, <2>5, <2>6, <2>7 DEF PlanCount
  <2>9. n.op = t.op /\ n.plan = plan /\ n.change = t.change
    BY <2>1, <2>7 DEF StockCount
  <2>10. \A l \in InStock : lots[l].reversed => plan[l] = 0
    BY <2>1, <2>2, <2>3, <2>4, <2>5, <2>6, PlanAround
  <2> QED
    BY <1>3, <1>4, <2>1, <2>8, <2>9, <2>10
<1>12. CASE MoveLot(s)
  <2>1. PICK l \in LotIds :
           /\ t.op \in SaleOps \cup {"count"}
           /\ Runs(s, [t EXCEPT !.plan[l] = 0, !.locked = @ \cup {l},
                                !.change[l] = @ + t.plan[l]])
    BY <1>1, <1>12 DEF MoveLot, Planned, Moving
  <2>2. PICK n : n = [t EXCEPT !.plan[l] = 0, !.locked = @ \cup {l},
                               !.change[l] = @ + t.plan[l]]
    OBVIOUS
  <2>3. t \in Sale \/ t \in StockCount
    BY <1>2, <2>1, Kinds
  <2>4. /\ n.op = t.op
        /\ n.plan = [t.plan EXCEPT ![l] = 0]
        /\ n.change = [t.change EXCEPT ![l] = @ + t.plan[l]]
        /\ t.plan \in [LotIds -> Int] /\ t.change \in [LotIds -> Int]
    <3>1. CASE t \in Sale
      BY <2>2, <3>1 DEF Sale
    <3>2. CASE t \in StockCount
      BY <2>2, <3>2 DEF StockCount
    <3> QED
      BY <2>3, <3>1, <3>2
  <2>5. ASSUME NEW k \in InStock, lots[k].reversed
        PROVE  n.plan[k] = 0 /\ n.change[k] = 0
    <3>1. t.plan[k] = 0 /\ t.change[k] = 0 /\ k \in LotIds
      BY <1>4, <2>1, <2>5 DEF InStock
    <3>2. CASE k = l
      BY <2>4, <3>1, <3>2
    <3>3. CASE k # l
      BY <2>4, <3>1, <3>3
    <3> QED
      BY <3>2, <3>3
  <2> QED
    BY <1>3, <2>1, <2>2, <2>4, <2>5
<1>13. CASE RollBack(s)
  <2>1. StepsAround(Idle) /\ tx' = [tx EXCEPT ![s] = Idle]
    BY <1>13 DEF RollBack, Runs, Idle, StepsAround, SaleOps
  <2> QED
    BY <1>2, <2>1, StaysAround
<1> QED
  BY <1>6, <1>7, <1>8, <1>9, <1>10, <1>11, <1>12, <1>13

\* A sale's commit: it moved no reversed lot, and marks those it moved.
LEMMA CommitSaleAround ==
  ASSUME VInv, ReversalsApart, IInv', NEW s \in Sessions, CommitSale(s)
  PROVE  VInv'
<1>1. PICK t, o : t = tx[s] /\ o = t.owner
  OBVIOUS
<1>2. IInv /\ TypeOK /\ t \in Sale /\ Sound(t) /\ StepsAround(t) /\ t.op \in SaleOps /\ Moving(s)
  BY <1>1, Kinds DEF VInv, IInv, TypeOK, SoundTransactions, CommitSale, AllStepAround, Moving
<1>3. /\ t.change \in [LotIds -> Int] /\ o \in Holders /\ None \in Holders /\ o # None
      /\ \A l \in LotIds : lots[l] = NoLot => t.change[l] = 0
      /\ \A l \in InStock : lots[l].reversed => t.change[l] = 0
  BY <1>1, <1>2, StockAssumption DEF Sale, Sound, StepsAround, Holders
<1>4. lots' = LotsAfter(t.change) /\ taken' = TakenAfter(t) /\ tx' = [tx EXCEPT ![s] = Idle]
  BY <1>1 DEF CommitSale, Runs
<1>5. \A l \in LotIds : lots'[l] = NoLot <=> lots[l] = NoLot
  BY <1>2, <1>3, <1>4, LotsAfterType
<1>6. ASSUME NEW l \in LotIds, t.change[l] = 0
      PROVE  /\ lots'[l] = lots[l]
             /\ (\A p \in Holders : taken[p][l] = 0) => \A p \in Holders : taken'[p][l] = 0
  <2>1. lots'[l] = lots[l]
    BY <1>4, <1>6 DEF LotsAfter
  <2>2. ASSUME \A p \in Holders : taken[p][l] = 0, NEW p \in Holders
        PROVE  taken'[p][l] = 0
    <3>1. PICK mine : mine = [k \in LotIds |-> taken[o][k] - t.change[k]]
      OBVIOUS
    <3>2. mine[l] = 0
      BY <1>3, <1>6, <2>2, <3>1
    <3>3. PICK left : left = [k \in LotIds |-> taken[None][k] + mine[k]]
      OBVIOUS
    <3>4. left[l] = 0
      BY <1>3, <2>2, <3>2, <3>3
    <3>5. NoChange[l] = 0
      BY DEF NoChange
    <3>6. taken' = IF t.op = "remove"
                   THEN [taken EXCEPT ![o] = NoChange, ![None] = left]
                   ELSE [taken EXCEPT ![o] = mine]
      BY <1>1, <1>2, <1>3, <1>4, <3>1, <3>3 DEF TakenAfter, TypeOK
    <3>7. DOMAIN taken = Holders
      BY <1>2 DEF TypeOK
    <3>8. taken'[p] \in {taken[p], NoChange, left, mine}
      BY <1>3, <2>2, <3>6, <3>7
    <3> QED
      BY <2>2, <3>2, <3>4, <3>5, <3>8
  <2> QED
    BY <2>1, <2>2
<1>7. ASSUME NEW l \in LotIds, t.change[l] # 0
      PROVE  lots'[l].reversed = FALSE /\ lots'[l].moved = TRUE /\ l \in InStock
  <2>1. l \in InStock /\ lots[l] \in Lot
    BY <1>2, <1>3, <1>7 DEF InStock, TypeOK
  <2>2. lots[l].reversed = FALSE
    BY <1>3, <1>7, <2>1 DEF Lot
  <2>3. PICK n : n = lots[l].remaining + t.change[l]
    OBVIOUS
  <2>4. lots'[l] = [lots[l] EXCEPT !.remaining = n, !.moved = TRUE]
    BY <1>4, <1>7, <2>1, <2>3 DEF LotsAfter, Lot
  <2> QED
    BY <2>1, <2>2, <2>4 DEF Lot
<1>8. ASSUME NEW l \in InStock'
      PROVE  LotClear(l)'
  <2>1. l \in LotIds /\ l \in InStock
    BY <1>5, <1>8 DEF InStock
  <2>2. CASE t.change[l] = 0
    BY <1>6, <2>1, <2>2 DEF VInv, LotClear
  <2>3. CASE t.change[l] # 0
    BY <1>7, <2>1, <2>3 DEF LotClear
  <2> QED
    BY <1>3, <2>2, <2>3
<1>9. ASSUME NEW r \in Sessions
      PROVE  tx[r].op # "reverse" /\ \A l \in InStock' : lots'[l].reversed =>
                                        l \in InStock /\ lots[l].reversed
  BY <1>2, <1>5, <1>6, <1>7 DEF ReversalsApart, InStock
<1> QED
  BY <1>4, <1>8, <1>9, EndsAround

\* An entry's commit: the new lot is moved if anything was settled from it.
LEMMA CommitEntryAround ==
  ASSUME VInv, IInv', NEW s \in Sessions, CommitEntry(s)
  PROVE  VInv'
<1>1. PICK t : t = tx[s]
  OBVIOUS
<1>2. IInv /\ TypeOK
  BY DEF VInv, IInv
<1>3. /\ t \in Entry /\ t.lot \in LotIds /\ lots[t.lot] = NoLot
      /\ t.covers \in SUBSET Cover /\ IsFiniteSet(t.covers)
      /\ tx' = [tx EXCEPT ![s] = Idle]
      /\ \A o \in Holders, l \in LotIds :
            /\ l # t.lot => taken'[o][l] = taken[o][l]
            /\ l = t.lot => taken'[o][l] = UnitsOf({c \in t.covers : c.owner = o})
  BY <1>1, <1>2, EntryWrites
<1>4. PICK settled : settled = UnitsOf(t.covers)
  OBVIOUS
<1>5. PICK new : new = NewLot(t.supply, t.quantity, t.expires, TRUE, settled)
  OBVIOUS
<1>6. lots'[t.lot] = new /\ \A l \in LotIds \ {t.lot} : lots'[l] = lots[l]
  BY <1>1, <1>2, <1>3, <1>4, <1>5 DEF CommitEntry, TypeOK
<1>7. new.reversed = FALSE /\ new.moved = (settled > 0)
  BY <1>5 DEF NewLot
<1>8. ASSUME ~(settled > 0), NEW o \in Holders
      PROVE  UnitsOf({c \in t.covers : c.owner = o}) = 0
  <2>1. PICK mine : mine = {c \in t.covers : c.owner = o}
    OBVIOUS
  <2>2. IsFiniteSet(mine) /\ mine \subseteq t.covers
    BY <1>3, <2>1, FS_Subset
  <2>3. PICK w : w = [c \in t.covers |-> c.units]
    OBVIOUS
  <2>4. \A c \in t.covers : w[c] \in Nat
    BY <1>3, <2>3 DEF Cover
  <2>5. SumOf(w, mine) <= SumOf(w, t.covers)
    BY <1>3, <2>2, <2>4, SumOfPart
  <2>6. PICK v : v = [c \in mine |-> c.units]
    OBVIOUS
  <2>7. \A c \in mine : v[c] = w[c]
    BY <2>2, <2>3, <2>6
  <2>8. SumOf(v, mine) = SumOf(w, mine)
    BY <2>2, <2>7, SumOfSame
  <2>9. \A c \in mine : w[c] \in Nat
    BY <2>2, <2>4
  <2>10. SumOf(w, mine) \in Nat
    BY <2>2, <2>9, SumOfNat
  <2>11. SumOf(w, t.covers) \in Nat
    BY <1>3, <2>4, SumOfNat
  <2>12. SumOf(w, t.covers) = settled
    BY <1>4, <2>3 DEF UnitsOf
  <2>13. SumOf(w, mine) = 0
    BY <1>8, <2>5, <2>10, <2>11, <2>12
  <2> QED
    BY <2>1, <2>6, <2>8, <2>13 DEF UnitsOf
<1>9. ASSUME NEW l \in InStock'
      PROVE  LotClear(l)'
  <2>1. CASE l = t.lot
    BY <1>3, <1>6, <1>7, <1>8, <2>1 DEF LotClear
  <2>2. CASE l # t.lot
    <3>1. l \in LotIds /\ lots'[l] = lots[l] /\ l \in InStock
      BY <1>6, <1>9, <2>2 DEF InStock
    <3> QED
      BY <1>3, <2>2, <3>1 DEF VInv, LotClear
  <2> QED
    BY <2>1, <2>2
<1>10. ASSUME NEW r \in Sessions \ {s}
       PROVE  /\ Moving(r) => \A l \in InStock' : lots'[l].reversed =>
                                    l \in InStock /\ lots[l].reversed
              /\ tx[r].op = "reverse" => ~lots'[tx[r].lot].moved \/ lots'[tx[r].lot].reversed
  <2>1. \A l \in InStock' : lots'[l].reversed => l \in InStock /\ lots[l].reversed
    BY <1>6, <1>7 DEF InStock
  <2>2. ASSUME tx[r].op = "reverse"
        PROVE  ~lots'[tx[r].lot].moved \/ lots'[tx[r].lot].reversed
    <3>1. tx[r] \in Reversal /\ Sound(tx[r]) /\ StepsAround(tx[r])
      BY <1>2, <2>2, Kinds DEF TypeOK, IInv, SoundTransactions, VInv, AllStepAround
    <3>2. tx[r].lot \in LotIds \ {t.lot}
      BY <1>3, <2>2, <3>1 DEF Reversal, Sound
    <3> QED
      BY <1>6, <2>2, <3>1, <3>2 DEF StepsAround
  <2> QED
    BY <2>1, <2>2
<1> QED
  BY <1>3, <1>9, <1>10, EndsAround

\* A count's commit: it moved no reversed lot, and what it found is a new lot.
LEMMA CommitCountAround ==
  ASSUME VInv, ReversalsApart, IInv', NEW s \in Sessions, CommitCount(s)
  PROVE  VInv'
<1>1. PICK t : t = tx[s]
  OBVIOUS
<1>2. /\ IInv /\ TypeOK /\ t \in StockCount /\ Sound(t) /\ StepsAround(t) /\ t.op = "count"
      /\ Moving(s)
  BY <1>1, Kinds DEF VInv, IInv, TypeOK, SoundTransactions, CommitCount, AllStepAround, Moving
<1>3. /\ t.change \in [LotIds -> Int]
      /\ \A l \in LotIds : lots[l] = NoLot => t.change[l] = 0
      /\ \A l \in InStock : lots[l].reversed => t.change[l] = 0
  BY <1>1, <1>2 DEF StockCount, Sound, StepsAround
<1>4. taken' = taken /\ tx' = [tx EXCEPT ![s] = Idle]
  BY DEF CommitCount, Runs
<1>5. PICK counted : counted = LotsCounted(t.change)
  OBVIOUS
<1>6. ASSUME NEW l \in LotIds
      PROVE  \/ counted[l] = lots[l]
             \/ counted[l].reversed = FALSE /\ counted[l].moved = TRUE /\ lots[l] # NoLot
  <2>1. CASE t.change[l] = 0
    BY <1>5, <2>1 DEF LotsCounted
  <2>2. CASE t.change[l] # 0
    <3>1. l \in InStock /\ lots[l] \in Lot
      BY <1>2, <1>3, <2>2 DEF InStock, TypeOK
    <3>2. lots[l].reversed = FALSE
      BY <1>3, <2>2, <3>1 DEF Lot
    <3>3. PICK n : n = lots[l].remaining + t.change[l]
      OBVIOUS
    <3>4. PICK after : after = [lots[l] EXCEPT !.remaining = n, !.moved = TRUE]
      OBVIOUS
    <3>5. LotsAfter(t.change)[l] = after
      BY <2>2, <3>1, <3>3, <3>4 DEF LotsAfter, Lot
    <3>6. PICK m : m = after.counted + t.change[l]
      OBVIOUS
    <3>7. counted[l] = [after EXCEPT !.counted = m]
      <4>1. DOMAIN after = DOMAIN lots[l] /\ "counted" \in DOMAIN lots[l]
        BY <3>1, <3>4 DEF Lot
      <4> QED
        BY <1>5, <2>2, <3>5, <3>6, <4>1 DEF LotsCounted
    <3> QED
      BY <3>1, <3>2, <3>4, <3>7 DEF Lot, InStock
  <2> QED
    BY <1>3, <2>1, <2>2
<1>7. ASSUME NEW l \in LotIds
      PROVE  \/ lots'[l] = counted[l]
             \/ lots[l] = NoLot /\ lots'[l].reversed = FALSE
  <2>1. DOMAIN counted = LotIds
    BY <1>5 DEF LotsCounted
  <2>2. CASE t.surplus = 0
    BY <1>1, <1>5, <2>2 DEF CommitCount
  <2>3. CASE t.surplus # 0
    <3>1. PICK k \in LotIds :
            /\ NextLot(k)
            /\ lots' = [counted EXCEPT ![k] = NewLot(t.supply, t.surplus, NoDate, FALSE, 0)]
      BY <1>1, <1>5, <2>3 DEF CommitCount
    <3>2. lots[k] = NoLot
      BY <3>1 DEF NextLot, Drawn
    <3>3. PICK new : new = NewLot(t.supply, t.surplus, NoDate, FALSE, 0)
      OBVIOUS
    <3>4. new.reversed = FALSE
      BY <3>3 DEF NewLot
    <3> QED
      BY <2>1, <3>1, <3>2, <3>3, <3>4
  <2> QED
    BY <2>2, <2>3
<1>8. ASSUME NEW l \in InStock'
      PROVE  LotClear(l)'
  <2>1. l \in LotIds
    BY <1>8 DEF InStock
  <2>2. CASE lots[l] = NoLot
    <3>1. \A o \in Holders : taken'[o][l] = 0
      BY <1>2, <1>4, <2>1, <2>2 DEF IInv, TakenFromLots
    <3>2. lots'[l].reversed = FALSE
      BY <1>6, <1>7, <1>8, <2>1, <2>2 DEF InStock
    <3> QED
      BY <3>1, <3>2 DEF LotClear
  <2>3. CASE lots[l] # NoLot
    <3>1. lots'[l] = counted[l] /\ l \in InStock
      BY <1>7, <2>1, <2>3 DEF InStock
    <3> QED
      BY <1>4, <1>6, <2>1, <3>1 DEF LotClear, VInv
  <2> QED
    BY <2>2, <2>3
<1>9. ASSUME NEW r \in Sessions
      PROVE  tx[r].op # "reverse" /\ \A l \in InStock' : lots'[l].reversed =>
                                        l \in InStock /\ lots[l].reversed
  BY <1>2, <1>6, <1>7 DEF ReversalsApart, InStock
<1> QED
  BY <1>4, <1>8, <1>9, EndsAround

\* A reversal's commit: nobody is moving, and the lot was taken from by nobody.
LEMMA CommitReverseAround ==
  ASSUME VInv, ReversalsApart, IInv', NEW s \in Sessions, CommitReverse(s)
  PROVE  VInv'
<1>1. PICK k : k = tx[s].lot
  OBVIOUS
<1>2. /\ TypeOK /\ k \in LotIds /\ lots[k] \in Lot /\ k \in InStock
      /\ ~lots[k].moved \/ lots[k].reversed
  BY <1>1, Kinds DEF VInv, IInv, TypeOK, SoundTransactions, Sound, CommitReverse, Reversal,
     AllStepAround, StepsAround, InStock
<1>3. PICK new : new = [lots[k] EXCEPT !.remaining = 0, !.reversed = TRUE, !.moved = TRUE]
  OBVIOUS
<1>4. new.remaining = 0 /\ new.reversed = TRUE
  BY <1>2, <1>3 DEF Lot
<1>5. /\ lots'[k] = new /\ \A l \in LotIds \ {k} : lots'[l] = lots[l]
      /\ taken' = taken /\ tx' = [tx EXCEPT ![s] = Idle] /\ tx[s].op = "reverse"
  BY <1>1, <1>2, <1>3 DEF CommitReverse, Runs, TypeOK
<1>6. ASSUME NEW l \in InStock'
      PROVE  LotClear(l)'
  <2>1. CASE l = k
    BY <1>2, <1>4, <1>5, <2>1 DEF VInv, LotClear
  <2>2. CASE l # k
    <3>1. l \in LotIds /\ lots'[l] = lots[l] /\ l \in InStock
      BY <1>5, <1>6, <2>2 DEF InStock
    <3> QED
      BY <1>5, <3>1 DEF VInv, LotClear
  <2> QED
    BY <2>1, <2>2
<1>7. ASSUME NEW r \in Sessions \ {s}
      PROVE  /\ ~Moving(r)
             /\ tx[r].op = "reverse" => ~lots'[tx[r].lot].moved \/ lots'[tx[r].lot].reversed
  <2>1. ~Moving(r)
    BY <1>5 DEF ReversalsApart
  <2>2. ASSUME tx[r].op = "reverse"
        PROVE  ~lots'[tx[r].lot].moved \/ lots'[tx[r].lot].reversed
    <3>1. tx[r] \in Reversal /\ StepsAround(tx[r])
      BY <2>2, <1>2, Kinds DEF TypeOK, VInv, AllStepAround
    <3>2. tx[r].lot \in LotIds
      BY <3>1 DEF Reversal
    <3> QED
      BY <1>4, <1>5, <2>2, <3>1, <3>2 DEF StepsAround
  <2> QED
    BY <2>1, <2>2
<1> QED
  BY <1>5, <1>6, <1>7, EndsAround

\* VInv is inductive while reversals run apart from sales and counts.
LEMMA VInvInductive == VInv /\ ReversalsApart /\ [Next]_vars => VInv'
<1> SUFFICES ASSUME VInv, ReversalsApart, [Next]_vars PROVE VInv'
  OBVIOUS
<1>1. IInv'
  BY IInvInductive DEF VInv
<1>2. ASSUME UNCHANGED <<lots, taken, tx>>
      PROVE  VInv'
  BY <1>1, <1>2 DEF VInv, LotClear, AllStepAround, StepsAround, InStock
<1>3. CASE UNCHANGED vars \/ NightEnds
  BY <1>2, <1>3 DEF vars, NightEnds
<1>4. ASSUME NEW s \in Sessions, Asks(s) \/ Advances(s) \/ RollBack(s)
      PROVE  VInv'
  BY <1>1, <1>4, AsksAround, StepsStayAround, CommitSaleAround, CommitEntryAround,
     CommitCountAround, CommitReverseAround DEF Advances
<1> QED
  BY <1>3, <1>4 DEF Next

\* The lots at the start are untouched entries.
LEMMA InitAround == Init => VInv
<1> SUFFICES ASSUME Init PROVE VInv
  OBVIOUS
<1>1. IInv
  BY InitSound
<1>2. \A o \in Holders, l \in LotIds : taken[o][l] = 0
  BY DEF Init, NoChange
<1>3. ASSUME NEW l \in InStock
      PROVE  LotClear(l)
  <2>1. l \in LotIds /\ lots[l] = Stocked[l] /\ Stocked[l] # NoLot
    BY <1>3 DEF Init, InStock
  <2>2. PICK u, n, d : Stocked[l] = NewLot(u, n, d, TRUE, 0)
    BY <2>1, StockAssumption
  <2>3. lots[l].reversed = FALSE
    BY <2>1, <2>2 DEF NewLot
  <2> QED
    BY <1>2, <2>1, <2>3 DEF LotClear
<1>4. AllStepAround
  BY DEF Init, Idle, AllStepAround, StepsAround, SaleOps
<1> QED
  BY <1>1, <1>3, <1>4 DEF VInv

(***************************************************************************)
(* An entry that was reversed is empty and nobody took from it             *)
(* (stock/entry-reversal.ts: only an entry nothing touched is undone),     *)
(* however sales, counts, entries and reversals follow one another, as     *)
(* long as no sale and no count is in flight while a reversal is.          *)
(***************************************************************************)
THEOREM ReversalsLeaveNothing == Spec /\ []ReversalsApart => []ReversedLotIsEmpty
<1>1. VInv => ReversedLotIsEmpty
  BY DEF VInv, LotClear, ReversedLotIsEmpty
<1> QED
  BY <1>1, InitAround, VInvInductive, PTL DEF Spec

-----------------------------------------------------------------------------
(***************************************************************************)
(* What holds when transactions do not overlap, and also when the only     *)
(* ones that overlap launch new sales: what a sale or a count takes of a   *)
(* lot is there, and leaves nothing in the lots that go out before it; a   *)
(* launch takes only of lots it has locked, which is why another launch    *)
(* disturbs neither.                                                       *)
(***************************************************************************)
OnlyLaunchesOverlap ==
    \A s, t \in Sessions :
        s # t /\ tx[s] # Idle /\ tx[t] # Idle => tx[s].op \in Launches

LocksExclusive == \A s, t \in Sessions : s # t => LotsOf(s) \cap LotsOf(t) = {}

\* What will be left in a lot when all that is planned is written.
Leaves(t, l) == lots[l].remaining + t.change[l] + t.plan[l]

\* Whatever is taken leaves nothing in the lots that go out before.
EmptiesInOrder(t) ==
    \A k, l \in InStock :
        /\ lots[k].supply = lots[l].supply
        /\ GoesBefore(k, l)
        /\ t.change[l] + t.plan[l] < 0
        => Leaves(t, k) = 0

\* A sale or a count plans only while it is moving, and takes what is there.
MovesSound(t) ==
    t.op \in SaleOps \cup {"count"} =>
        /\ t.pc # "moving" => \A l \in LotIds : t.plan[l] = 0
        /\ t.pc \in {"start", "drop", "moves", "read"} => \A l \in LotIds : t.change[l] = 0
        /\ \A l \in InStock : lots[l].remaining + t.change[l] >= 0 /\ Leaves(t, l) >= 0
        /\ EmptiesInOrder(t)

\* Between the two statements of lockedLots no lot of the supply gains a balance.
LockedAllItSees(t) ==
    t.pc = "locked" =>
        \A l \in InStock :
            lots[l].supply = Head(t.todo).supply /\ lots[l].remaining + t.change[l] > 0
                => l \in t.locked

\* A launch returns nothing, and takes only of what it has locked.
LaunchSound(t) ==
    t.op \in Launches =>
        /\ t.pc \in {"start", "moving", "locked"}
        /\ \A l \in LotIds :
              /\ t.plan[l] <= 0 /\ t.change[l] <= 0
              /\ t.plan[l] # 0 \/ t.change[l] # 0 => l \in t.locked
        /\ LockedAllItSees(t)

\* An entry settles no more than it brings.
EntrySound(t) == t.op = "entry" => UnitsOf(t.covers) <= t.quantity

FlightSound(t) == MovesSound(t) /\ LaunchSound(t) /\ EntrySound(t)

AllFlightsSound == \A s \in Sessions : FlightSound(tx[s])

NInv == IInv /\ NeverNegative /\ LocksExclusive /\ AllFlightsSound

\* Who is not a launch is alone.
LEMMA NotLaunchedAlone ==
  ASSUME OnlyLaunchesOverlap, NEW s \in Sessions, tx[s] # Idle, tx[s].op \notin Launches
  PROVE  \A r \in Sessions \ {s} : tx[r] = Idle
BY DEF OnlyLaunchesOverlap

\* The conditions of the promises on returns, entries and reversals.
LEMMA OverlapsApart ==
  ASSUME OnlyLaunchesOverlap
  PROVE  UndoneApart /\ EntriesApart /\ ReversalsApart
<1>1. /\ \A op \in SaleOps \cup {"count", "entry", "reverse"} : op # "idle"
      /\ Undoes \cap Launches = {} /\ "entry" \notin Launches /\ "reverse" \notin Launches
      /\ "reverse" \notin SaleOps \cup {"count"} /\ Undoes \subseteq SaleOps
  BY DEF SaleOps, Undoes, Launches
<1>2. Idle.op = "idle"
  BY DEF Idle
<1>3. UndoneApart
  BY <1>1, <1>2 DEF OnlyLaunchesOverlap, UndoneApart
<1>4. EntriesApart
  BY <1>1, <1>2 DEF OnlyLaunchesOverlap, EntriesApart
<1>5. ReversalsApart
  BY <1>1, <1>2 DEF OnlyLaunchesOverlap, ReversalsApart, Moving
<1> QED
  BY <1>3, <1>4, <1>5

\* When only launches are asked for, only launches overlap.
LEMMA OnlyLaunchesAsked ==
  ASSUME Ops \subseteq Launches, IInv, OnlyAsked
  PROVE  OnlyLaunchesOverlap
<1>1. ASSUME NEW s \in Sessions, tx[s] # Idle
      PROVE  tx[s].op \in Launches
  <2>1. tx[s] \in Transaction /\ tx[s].op \in Ops \cup {"idle"}
    BY DEF IInv, TypeOK, OnlyAsked
  <2> QED
    BY <1>1, <2>1, Kinds
<1> QED
  BY <1>1 DEF OnlyLaunchesOverlap

\* A lot that goes out first is taken whole before the next is touched.
LEMMA TakesInOrder ==
  ASSUME NEW balance, IsFiniteSet(DOMAIN balance), DOMAIN balance \in SUBSET Nat,
         \A l \in DOMAIN balance : balance[l] \in Nat,
         NEW expires, \A l \in DOMAIN balance : expires[l] \in Nat, NEW units \in Int,
         NEW k \in DOMAIN balance, NEW l \in DOMAIN balance, GoesFirst(expires, k, l),
         TakeInExpiryOrder(balance, expires, units)[l] > 0
  PROVE  TakeInExpiryOrder(balance, expires, units)[k] = balance[k]
<1>1. PICK before : before = LotsAhead(balance, expires, k)
  OBVIOUS
<1>2. PICK ahead : ahead = LotsAhead(balance, expires, l)
  OBVIOUS
<1>3. PICK D : D = DOMAIN balance
  OBVIOUS
<1>4. k \in Nat /\ l \in Nat /\ expires[k] \in Nat /\ expires[l] \in Nat
  OBVIOUS
<1>5. before \in SUBSET D /\ ahead \in SUBSET D
  BY <1>1, <1>2, <1>3 DEF LotsAhead
<1>6. k \notin before /\ before \cup {k} \subseteq ahead
  <2>1. \A m \in before : GoesFirst(expires, m, l)
    <3> TAKE m \in before
    <3>1. m \in Nat /\ expires[m] \in Nat /\ GoesFirst(expires, m, k)
      BY <1>1, <1>3, <1>5 DEF LotsAhead
    <3> QED
      BY <1>4, <3>1 DEF GoesFirst
  <2> QED
    BY <1>1, <1>2, <1>3, <1>4, <1>5, <2>1 DEF LotsAhead, GoesFirst
<1>7. IsFiniteSet(before) /\ IsFiniteSet(ahead) /\ IsFiniteSet(before \cup {k})
  <2>1. before \cup {k} \in SUBSET D
    BY <1>3, <1>5
  <2> QED
    BY <1>3, <1>5, <2>1, FS_Subset
<1>8. PICK a \in Nat, n \in Nat, c \in Nat, d \in Nat :
         a = SumOf(balance, before) /\ n = SumOf(balance, ahead)
         /\ c = balance[k] /\ d = balance[l]
  <2>1. \A m \in before : balance[m] \in Nat
    BY <1>3, <1>5
  <2>2. \A m \in ahead : balance[m] \in Nat
    BY <1>3, <1>5
  <2>3. SumOf(balance, before) \in Nat
    BY <1>7, <2>1, SumOfNat
  <2>4. SumOf(balance, ahead) \in Nat
    BY <1>7, <2>2, SumOfNat
  <2> QED
    BY <2>3, <2>4
<1>9. c + a <= n
  <2>1. PICK more : more = before \cup {k}
    OBVIOUS
  <2>2. \A m \in ahead : balance[m] \in Nat
    BY <1>3, <1>5
  <2>3. more \in SUBSET ahead
    BY <1>6, <2>1
  <2>4. SumOf(balance, more) <= SumOf(balance, ahead)
    BY <1>7, <2>2, <2>3, SumOfPart
  <2>5. \A m \in more : balance[m] \in Int
    BY <2>2, <2>3
  <2>6. more \ {k} = before /\ k \in more /\ IsFiniteSet(more)
    BY <1>6, <1>7, <2>1
  <2>7. SumOf(balance, more) = balance[k] + SumOf(balance, more \ {k})
    BY <2>5, <2>6, SumsSplit
  <2> QED
    BY <1>8, <2>4, <2>6, <2>7
<1>10. Share(d, n, units) > 0
  BY <1>2, <1>8 DEF TakeInExpiryOrder
<1>11. Share(c, a, units) = c
  BY <1>8, <1>9, <1>10 DEF Share, Least, AtLeast0
<1> QED
  BY <1>1, <1>8, <1>11 DEF TakeInExpiryOrder

\* What a sale or a count has changed and planned, lot by lot.
LEMMA MovingType ==
  ASSUME TypeOK, NEW s \in Sessions, Moving(s), NEW t, t = tx[s]
  PROVE  /\ t \in Sale \/ t \in StockCount
         /\ t.plan \in [LotIds -> Int] /\ t.change \in [LotIds -> Int]
         /\ t.locked \subseteq LotIds /\ LotsOf(s) = t.locked
         /\ t.op \in SaleOps \cup {"count"}
<1>1. t \in Transaction /\ t.op \in SaleOps \cup {"count"}
  BY DEF TypeOK, Moving
<1>2. t \in Sale \/ t \in StockCount
  BY <1>1, Kinds
<1> QED
  BY <1>1, <1>2 DEF Sale, StockCount, LotsOf

\* The lots in stock and their balances.
LEMMA InStockType ==
  ASSUME TypeOK
  PROVE  \A l \in InStock : /\ l \in LotIds /\ l \in Nat /\ lots[l] \in Lot
                            /\ lots[l].remaining \in Int /\ lots[l].expires \in Nat
                            /\ lots[l].supply \in Supplies /\ ExpiryOf[l] = lots[l].expires
<1> SUFFICES ASSUME NEW l \in InStock
             PROVE  /\ l \in LotIds /\ l \in Nat /\ lots[l] \in Lot
                    /\ lots[l].remaining \in Int /\ lots[l].expires \in Nat
                    /\ lots[l].supply \in Supplies /\ ExpiryOf[l] = lots[l].expires
  OBVIOUS
<1>1. Expiries \subseteq Nat /\ MaxLots \in Nat
  BY StockAssumption
<1>2. l \in LotIds /\ lots[l] \in Lot
  BY DEF TypeOK, InStock
<1>3. l \in Nat
  BY <1>1, <1>2 DEF LotIds
<1>4. ExpiryOf[l] = lots[l].expires
  BY DEF ExpiryOf
<1> QED
  BY <1>1, <1>2, <1>3, <1>4 DEF Lot

(***************************************************************************)
(* What the steps have in common.                                          *)
(***************************************************************************)

\* A step that writes one transaction and no table.
LEMMA StaysInOrder ==
  ASSUME NInv, IInv', NEW s \in Sessions, NEW n, tx' = [tx EXCEPT ![s] = n],
         UNCHANGED Tables, FlightSound(n),
         \A r \in Sessions \ {s} : LotsOf(r) \cap LotsOf(s)' = {}
  PROVE  NInv'
<1>1. tx'[s] = n /\ \A r \in Sessions \ {s} : tx'[r] = tx[r]
  BY DEF NInv, IInv, TypeOK
<1>2. lots' = lots
  BY DEF Tables
<1>3. NeverNegative'
  BY <1>2 DEF NInv, NeverNegative, InStock
<1>4. \A r \in Sessions \ {s} : LotsOf(r)' = LotsOf(r)
  BY <1>1 DEF LotsOf, Moving
<1>5. LocksExclusive'
  BY <1>4 DEF NInv, LocksExclusive
<1>6. \A r \in Sessions : FlightSound(tx'[r])
  BY <1>1 DEF NInv, AllFlightsSound
<1>7. AllFlightsSound'
  BY <1>2, <1>6 DEF AllFlightsSound, FlightSound, MovesSound, LaunchSound, EntrySound,
     EmptiesInOrder, Leaves, LockedAllItSees, InStock, GoesBefore
<1> QED
  BY <1>3, <1>5, <1>7 DEF NInv

\* Such a step, when it locks nothing more.
LEMMA StaysInOrderLocked ==
  ASSUME NInv, IInv', NEW s \in Sessions, NEW n, tx' = [tx EXCEPT ![s] = n],
         UNCHANGED Tables, FlightSound(n),
         n.op \in SaleOps \cup {"count"} =>
            n.locked = {} \/ (Moving(s) /\ n.locked = tx[s].locked)
  PROVE  NInv'
<1>1. tx'[s] = n
  BY DEF NInv, IInv, TypeOK
<1>2. LotsOf(s)' \subseteq LotsOf(s)
  BY <1>1 DEF LotsOf, Moving
<1>3. \A r \in Sessions \ {s} : LotsOf(r) \cap LotsOf(s)' = {}
  BY <1>2 DEF NInv, LocksExclusive
<1> QED
  BY <1>3, StaysInOrder

\* A step that ends one transaction and writes the tables.
LEMMA EndsInOrder ==
  ASSUME NInv, IInv', NEW s \in Sessions, tx' = [tx EXCEPT ![s] = Idle],
         NeverNegative',
         \A r \in Sessions \ {s} : tx[r] = Idle \/ FlightSound(tx[r])'
  PROVE  NInv'
<1>1. tx'[s] = Idle /\ \A r \in Sessions \ {s} : tx'[r] = tx[r]
  BY DEF NInv, IInv, TypeOK
<1>2. Idle.op \notin SaleOps \cup {"count", "entry"} /\ Idle.op \notin Launches
  BY DEF Idle, SaleOps, Launches
<1>3. LocksExclusive'
  <2>1. LotsOf(s)' = {}
    BY <1>1, <1>2 DEF LotsOf, Moving
  <2>2. \A r \in Sessions \ {s} : LotsOf(r)' = LotsOf(r)
    BY <1>1 DEF LotsOf, Moving
  <2> QED
    BY <2>1, <2>2 DEF NInv, LocksExclusive
<1>4. ASSUME NEW r \in Sessions, tx'[r] = Idle
      PROVE  FlightSound(tx[r])'
  BY <1>2, <1>4 DEF FlightSound, MovesSound, LaunchSound, EntrySound
<1>5. ASSUME NEW r \in Sessions
      PROVE  FlightSound(tx[r])'
  <2>1. CASE r = s
    BY <1>1, <1>4, <2>1
  <2>2. CASE r # s
    BY <1>1, <1>4, <2>2
  <2> QED
    BY <2>1, <2>2
<1> QED
  BY <1>3, <1>5 DEF NInv, AllFlightsSound

(***************************************************************************)
(* What settleOversales gives, added up (stock/oversale.ts).               *)
(***************************************************************************)

\* The sum over rows is the sum over their ids.
LEMMA SumById ==
  ASSUME NEW rows, IsFiniteSet(rows), \A r, q \in rows : r.id = q.id => r = q,
         NEW w, \A r \in rows : w[r] \in Int,
         NEW v, \A r \in rows : v[r.id] = w[r]
  PROVE  SumOf(v, IdsOf(rows)) = SumOf(w, rows)
<1>1. PICK ids : ids = IdsOf(rows)
  OBVIOUS
<1>2. PICK f : f = [r \in rows |-> r.id]
  OBVIOUS
<1>3. {f[r] : r \in rows} = ids
  BY <1>1, <1>2 DEF IdsOf
<1>4. IsFiniteSet(ids)
  BY <1>3, FiniteImage
<1>5. \A r \in rows : f[r] \in ids /\ v[f[r]] = w[r]
  BY <1>2, <1>3
<1>6. \A r, q \in rows : f[r] = f[q] => r = q
  BY <1>2
<1>7. \A z \in ids : \E r \in rows : f[r] = z
  BY <1>3
<1> QED
  BY <1>1, <1>4, <1>5, <1>6, <1>7, SumOfRenamed

\* An entry settles all it can of what is pending.
LEMMA SettlesAddUp ==
  ASSUME NEW pending, pending \subseteq Oversale, IsFiniteSet(pending),
         \A r, q \in pending : r.id = q.id => r = q, NEW available \in Nat
  PROVE  /\ UnitsOf(SettleOversales(pending, available)) = Least(available, QuantityOf(pending))
         /\ QuantityOf(pending) \in Nat
<1> DEFINE Before(p) == {q \in pending : q.id < p.id}
           CoverFor(p) == [id |-> p.id, owner |-> p.owner,
                           units |-> Share(p.quantity, QuantityOf(Before(p)), available),
                           was |-> p.quantity]
<1>1. PICK ids : ids = IdsOf(pending)
  OBVIOUS
<1>2. \A r \in pending : r.id \in Nat /\ r.quantity \in Nat
  BY DEF Oversale
<1>3. PICK row : row = [i \in ids |-> CHOOSE r \in pending : r.id = i]
  OBVIOUS
<1>4. /\ \A r \in pending : r.id \in ids /\ row[r.id] = r
      /\ \A i \in ids : row[i] \in pending /\ row[i].id = i
  <2>1. \A i \in ids : \E r \in pending : r.id = i
    BY <1>1 DEF IdsOf
  <2>2. \A r \in pending : r.id \in ids
    BY <1>1 DEF IdsOf
  <2> QED
    BY <1>3, <2>1, <2>2
<1>5. PICK b : b = [i \in ids |-> row[i].quantity]
  OBVIOUS
<1>6. PICK own : own = [r \in pending |-> r.quantity]
  OBVIOUS
<1>7. \A r \in pending : own[r] \in Nat /\ own[r] \in Int /\ b[r.id] = own[r]
  BY <1>2, <1>4, <1>5, <1>6
<1>8. SumOf(b, ids) = QuantityOf(pending)
  <2>1. \A r \in pending : own[r] \in Int
    BY <1>7
  <2>2. \A r \in pending : b[r.id] = own[r]
    BY <1>7
  <2>3. SumOf(b, IdsOf(pending)) = SumOf(own, pending)
    BY <2>1, <2>2, SumById
  <2> QED
    BY <1>1, <1>6, <2>3 DEF QuantityOf
<1>9. QuantityOf(pending) \in Nat
  <2>1. \A r \in pending : own[r] \in Nat
    BY <1>7
  <2>2. SumOf(own, pending) \in Nat
    BY <2>1, SumOfNat
  <2> QED
    BY <1>6, <2>2 DEF QuantityOf
<1>10. ids \subseteq Nat /\ IsFiniteSet(ids) /\ \A i \in ids : b[i] \in Nat
  <2>1. PICK f : f = [r \in pending |-> r.id]
    OBVIOUS
  <2>2. {f[r] : r \in pending} = ids
    BY <1>1, <2>1 DEF IdsOf
  <2>3. IsFiniteSet(ids)
    BY <2>2, FiniteImage
  <2> QED
    BY <1>2, <1>4, <1>5, <2>3
<1>11. PICK order : order = [i \in ids |-> 0]
  OBVIOUS
<1>12. PICK share : share = [i \in ids |-> Share(b[i], SumOf(b, {k \in ids : GoesFirst(order, k, i)}), available)]
  OBVIOUS
<1>13. SumOf(share, ids) = Least(available, SumOf(b, ids))
  <2>1. \A i \in ids : order[i] \in Nat
    BY <1>11
  <2>2. SumOf([i \in ids |-> Share(b[i], SumOf(b, {k \in ids : GoesFirst(order, k, i)}), available)], ids)
          = Least(available, SumOf(b, ids))
    BY <1>10, <2>1, SharesAddUp
  <2> QED
    BY <1>12, <2>2
<1>14. ASSUME NEW p \in pending
       PROVE  /\ share[p.id] = Share(p.quantity, QuantityOf(Before(p)), available)
              /\ share[p.id] \in Nat
  <2>1. PICK i : i = p.id
    OBVIOUS
  <2>2. PICK rows : rows = Before(p)
    OBVIOUS
  <2>3. {k \in ids : GoesFirst(order, k, i)} = IdsOf(rows)
    <3>1. \A k \in ids : GoesFirst(order, k, i) <=> k < i
      BY <1>4, <1>11, <2>1 DEF GoesFirst
    <3>2. {k \in ids : k < i} = IdsOf(rows)
      BY <1>4, <2>1, <2>2 DEF IdsOf
    <3> QED
      BY <3>1, <3>2
  <2>4. /\ IsFiniteSet(rows) /\ rows \subseteq pending
        /\ \A r, q \in rows : r.id = q.id => r = q
    BY <2>2, FS_Subset
  <2>5. PICK mine : mine = [r \in rows |-> r.quantity]
    OBVIOUS
  <2>6. \A r \in rows : mine[r] \in Int
    BY <1>2, <2>4, <2>5
  <2>7. \A r \in rows : b[r.id] = mine[r]
    BY <1>6, <1>7, <2>4, <2>5
  <2>8. SumOf(b, IdsOf(rows)) = SumOf(mine, rows)
    BY <2>4, <2>6, <2>7, SumById
  <2>9. SumOf(b, IdsOf(rows)) = QuantityOf(rows)
    BY <2>5, <2>8 DEF QuantityOf
  <2>10. share[i] = Share(b[i], SumOf(b, IdsOf(rows)), available)
    BY <1>4, <1>12, <2>1, <2>3
  <2>11. b[i] = p.quantity /\ p.quantity \in Nat
    BY <1>2, <1>6, <1>7, <2>1
  <2>12. QuantityOf(rows) \in Int
    BY <2>4, <2>5, <2>6, SumOfType DEF QuantityOf
  <2>13. share[i] \in 0 .. p.quantity
    BY <2>9, <2>10, <2>11, <2>12, ShareType
  <2> QED
    BY <2>1, <2>2, <2>9, <2>10, <2>11, <2>13
<1>15. PICK served : served = {p \in pending : share[p.id] > 0}
  OBVIOUS
<1>16. PICK covers : covers = SettleOversales(pending, available)
  OBVIOUS
<1>17. PICK f : f = [p \in served |-> CoverFor(p)]
  OBVIOUS
<1>18. \A p \in served : f[p].units = share[p.id] /\ f[p].id = p.id /\ p \in pending
  BY <1>14, <1>15, <1>17
<1>19. covers = {f[p] : p \in served}
  <2>1. covers = {c \in {CoverFor(p) : p \in pending} : c.units > 0}
    BY <1>16 DEF SettleOversales
  <2>2. \A p \in pending : CoverFor(p).units = share[p.id]
    BY <1>14
  <2>3. \A p \in served : f[p] = CoverFor(p)
    BY <1>17
  <2> HIDE DEF CoverFor
  <2>4. covers = {CoverFor(p) : p \in served}
    BY <1>15, <2>1, <2>2
  <2> QED
    BY <2>3, <2>4
<1>20. IsFiniteSet(served) /\ IsFiniteSet(covers)
  <2>1. IsFiniteSet(served)
    BY <1>15, FS_Subset
  <2>2. IsFiniteSet({f[p] : p \in served})
    BY <2>1, FiniteImage
  <2> QED
    BY <1>19, <2>1, <2>2
<1>21. PICK units : units = [c \in covers |-> c.units]
  OBVIOUS
<1>22. PICK given : given = [p \in pending |-> share[p.id]]
  OBVIOUS
<1>23. \A p \in pending : share[p.id] \in Nat
  BY <1>14
<1> HIDE DEF Before, CoverFor
<1>24. \A p \in pending : given[p] = share[p.id] /\ given[p] \in Int
  <2>1. \A p \in pending : given[p] = share[p.id]
    BY <1>22
  <2> QED
    BY <1>23, <2>1
<1>25. SumOf(units, covers) = SumOf(given, served)
  <2>1. \A p \in served : f[p] \in covers
    BY <1>19
  <2>2. \A p, q \in served : f[p] = f[q] => p = q
    BY <1>18
  <2>3. \A c \in covers : \E p \in served : f[p] = c
    BY <1>19
  <2>4. \A p \in served : given[p] \in Int
    BY <1>18, <1>24
  <2>5. \A p \in served : units[f[p]] = given[p]
    BY <1>18, <1>21, <1>22, <2>1
  <2> QED
    BY <1>20, <2>1, <2>2, <2>3, <2>4, <2>5, SumOfRenamed
<1>26. SumOf(given, pending) = SumOf(given, served)
  <2>1. served \in SUBSET pending
    BY <1>15
  <2>2. \A p \in served : given[p] \in Int
    BY <1>18, <1>24
  <2>3. \A p \in pending \ served : given[p] = 0
    BY <1>15, <1>23, <1>24
  <2> QED
    BY <2>1, <2>2, <2>3, SumOfMore
<1>27. SumOf(share, ids) = SumOf(given, pending)
  <2>1. \A p \in pending : given[p] \in Int
    BY <1>24
  <2>2. \A p \in pending : share[p.id] = given[p]
    BY <1>24
  <2> QED
    BY <1>1, <2>1, <2>2, SumById
<1>28. UnitsOf(covers) = Least(available, QuantityOf(pending))
  BY <1>8, <1>13, <1>21, <1>25, <1>26, <1>27 DEF UnitsOf
<1> QED
  BY <1>9, <1>16, <1>28

(***************************************************************************)
(* One lemma per step.                                                     *)
(***************************************************************************)

\* Who has changed and planned nothing yet.
LEMMA QuietSound ==
  ASSUME NInv, NEW t, \A l \in LotIds : t.plan[l] = 0 /\ t.change[l] = 0
  PROVE  MovesSound(t) /\ (t.pc \in {"start", "moving"} => LaunchSound(t))
<1>1. ASSUME NEW l \in InStock
      PROVE  /\ t.plan[l] = 0 /\ t.change[l] = 0
             /\ lots[l].remaining \in Int /\ lots[l].remaining >= 0
  BY InStockType DEF NInv, IInv, NeverNegative
<1>2. \A l \in InStock : lots[l].remaining + t.change[l] >= 0 /\ Leaves(t, l) >= 0
  BY <1>1 DEF Leaves
<1>3. EmptiesInOrder(t)
  BY <1>1 DEF EmptiesInOrder
<1>4. LaunchSound(t) \/ t.pc \notin {"start", "moving"}
  BY DEF LaunchSound, LockedAllItSees
<1> QED
  BY <1>2, <1>3, <1>4 DEF MovesSound

\* A sale that begins holds nothing and has planned nothing.
LEMMA SaleBeginsInOrder ==
  ASSUME NInv, IInv', NEW s \in Sessions, NEW op \in SaleOps,
         NEW pc \in {"start", "drop", "moving"}, op \in Launches => pc # "drop",
         NEW o, NEW needs, Begins(s, SaleOf(op, pc, o, needs))
  PROVE  NInv'
<1>1. PICK n : n = SaleOf(op, pc, o, needs)
  OBVIOUS
<1>2. /\ n.op = op /\ n.pc = pc /\ n.locked = {}
      /\ \A l \in LotIds : n.plan[l] = 0 /\ n.change[l] = 0
  BY <1>1 DEF SaleOf, NoChange
<1>3. tx' = [tx EXCEPT ![s] = n] /\ UNCHANGED Tables
  BY <1>1 DEF Begins, Opens
<1>4. MovesSound(n) /\ (n.pc \in {"start", "moving"} => LaunchSound(n))
  BY <1>2, QuietSound
<1>5. LaunchSound(n)
  BY <1>2, <1>4 DEF LaunchSound
<1>6. EntrySound(n)
  BY <1>2 DEF EntrySound, SaleOps
<1> QED
  BY <1>2, <1>3, <1>4, <1>5, <1>6, StaysInOrderLocked DEF FlightSound

\* So of each operation that is a sale.
LEMMA SalesBeginInOrder ==
  ASSUME NInv, IInv', NEW s \in Sessions,
         \/ BeginCreate(s) \/ BeginConsume(s) \/ BeginEdit(s)
         \/ BeginCancel(s) \/ BeginRestore(s) \/ BeginRemove(s)
  PROVE  NInv'
<1>1. {"create", "edit", "cancel", "restore", "consume", "reconsume", "remove"} = SaleOps
  BY DEF SaleOps
<1>2. FirstPc \in {"drop", "moving"}
  BY DEF FirstPc
<1>3. {"edit", "reconsume", "cancel", "restore", "remove"} \cap Launches = {}
  BY DEF Launches
<1>4. CASE BeginCreate(s)
  BY <1>1, <1>4, SaleBeginsInOrder DEF BeginCreate
<1>5. CASE BeginConsume(s)
  BY <1>1, <1>5, SaleBeginsInOrder DEF BeginConsume
<1>6. CASE BeginEdit(s)
  <2>1. PICK o \in Owners, needs \in Needs, op \in {"edit", "reconsume"} :
          Begins(s, SaleOf(op, "start", o, needs))
    BY <1>6 DEF BeginEdit
  <2> QED
    BY <1>1, <2>1, SaleBeginsInOrder
<1>7. CASE BeginCancel(s)
  BY <1>1, <1>2, <1>3, <1>7, SaleBeginsInOrder DEF BeginCancel
<1>8. CASE BeginRestore(s)
  BY <1>1, <1>2, <1>3, <1>8, SaleBeginsInOrder DEF BeginRestore
<1>9. CASE BeginRemove(s)
  BY <1>1, <1>2, <1>3, <1>9, SaleBeginsInOrder DEF BeginRemove
<1> QED
  BY <1>4, <1>5, <1>6, <1>7, <1>8, <1>9

\* An entry, a count and a reversal begin.
LEMMA OthersBeginInOrder ==
  ASSUME NInv, TInv, IInv', NEW s \in Sessions,
         BeginEntry(s) \/ BeginCount(s) \/ BeginReverse(s)
  PROVE  NInv'
<1>1. CASE BeginEntry(s)
  <2>1. PICK l \in LotIds, u \in Supplies, quantity \in Units \ {0}, expires \in Expiries :
          Begins(s, [op |-> "entry", lot |-> l, supply |-> u, quantity |-> quantity,
                     expires |-> expires, covers |-> SettleOversales(OversalesOn(u), quantity)])
    BY <1>1 DEF BeginEntry
  <2>2. PICK pending : pending = OversalesOn(u)
    OBVIOUS
  <2>3. PICK covers : covers = SettleOversales(pending, quantity)
    OBVIOUS
  <2>4. PICK n : n = [op |-> "entry", lot |-> l, supply |-> u, quantity |-> quantity,
                      expires |-> expires, covers |-> covers]
    OBVIOUS
  <2>5. tx' = [tx EXCEPT ![s] = n] /\ UNCHANGED Tables
    BY <2>1, <2>2, <2>3, <2>4 DEF Begins, Opens
  <2>6. /\ pending \subseteq Oversale /\ IsFiniteSet(pending) /\ quantity \in Nat
        /\ \A r, q \in pending : r.id = q.id => r = q
    <3>1. oversales \subseteq Oversale /\ IsFiniteSet(oversales) /\ pending \subseteq oversales
      BY <2>2 DEF OversalesOn, NInv, IInv, TypeOK
    <3>2. IsFiniteSet(pending)
      BY <3>1, FS_Subset
    <3>3. quantity \in Nat
      BY StockAssumption
    <3> QED
      BY <3>1, <3>2, <3>3 DEF TInv, RowsToldApart
  <2>7. UnitsOf(covers) = Least(quantity, QuantityOf(pending)) /\ QuantityOf(pending) \in Nat
    BY <2>3, <2>6, SettlesAddUp
  <2>8. EntrySound(n)
    BY <2>4, <2>6, <2>7 DEF EntrySound, Least
  <2>9. n.op \notin SaleOps \cup {"count"} /\ n.op \notin Launches
    BY <2>4 DEF SaleOps, Launches
  <2>10. FlightSound(n)
    BY <2>8, <2>9 DEF FlightSound, MovesSound, LaunchSound
  <2> QED
    BY <2>5, <2>9, <2>10, StaysInOrderLocked
<1>2. CASE BeginCount(s)
  <2>1. PICK u, quantity, ids :
          Begins(s, [op |-> "count", pc |-> "read", supply |-> u, quantity |-> quantity,
                     plan |-> NoChange, locked |-> {}, change |-> NoChange,
                     dropped |-> ids, surplus |-> 0])
    BY <1>2 DEF BeginCount
  <2>2. PICK n : n = [op |-> "count", pc |-> "read", supply |-> u, quantity |-> quantity,
                      plan |-> NoChange, locked |-> {}, change |-> NoChange,
                      dropped |-> ids, surplus |-> 0]
    OBVIOUS
  <2>3. tx' = [tx EXCEPT ![s] = n] /\ UNCHANGED Tables
    BY <2>1, <2>2 DEF Begins, Opens
  <2>4. n.op = "count" /\ n.locked = {} /\ \A l \in LotIds : n.plan[l] = 0 /\ n.change[l] = 0
    BY <2>2 DEF NoChange
  <2>5. FlightSound(n)
    BY <2>4, QuietSound DEF FlightSound, LaunchSound, EntrySound, Launches
  <2> QED
    BY <2>3, <2>4, <2>5, StaysInOrderLocked
<1>3. CASE BeginReverse(s)
  <2>1. PICK l : Begins(s, [op |-> "reverse", lot |-> l])
    BY <1>3 DEF BeginReverse
  <2>2. PICK n : n = [op |-> "reverse", lot |-> l]
    OBVIOUS
  <2>3. tx' = [tx EXCEPT ![s] = n] /\ UNCHANGED Tables
    BY <2>1, <2>2 DEF Begins, Opens
  <2>4. n.op \notin SaleOps \cup {"count", "entry"} /\ n.op \notin Launches
    BY <2>2 DEF SaleOps, Launches
  <2>5. FlightSound(n)
    BY <2>4 DEF FlightSound, MovesSound, LaunchSound, EntrySound
  <2> QED
    BY <2>3, <2>4, <2>5, StaysInOrderLocked
<1> QED
  BY <1>1, <1>2, <1>3

\* LockFirst, DropOversales: nothing is changed or planned yet.
LEMMA OpensInOrder ==
  ASSUME NInv, IInv', NEW s \in Sessions, LockFirst(s) \/ DropOversales(s)
  PROVE  NInv'
<1>1. PICK t : t = tx[s]
  OBVIOUS
<1>2. t.op \in SaleOps /\ t.pc \in {"start", "drop"}
  BY <1>1 DEF LockFirst, DropOversales, SaleOps
<1>3. Moving(s) /\ t \in Sale
  BY <1>1, <1>2, Kinds DEF Moving, NInv, IInv, TypeOK
<1>4. PICK pc \in {"drop", "moves", "moving"} : \E dropped :
         /\ Runs(s, [t EXCEPT !.pc = pc, !.dropped = dropped])
         /\ t.op \in Launches => pc = "moving"
  <2>1. CASE DropOversales(s)
    <3>1. Runs(s, [t EXCEPT !.pc = "moves", !.dropped = IdsOf(OversalesOf(t.owner))])
      BY <1>1, <2>1 DEF DropOversales
    <3>2. t.op \notin Launches
      BY <1>1, <2>1 DEF NInv, AllFlightsSound, FlightSound, LaunchSound, DropOversales
    <3> QED
      BY <3>1, <3>2
  <2>2. CASE LockFirst(s)
    <3>1. \A p : [t EXCEPT !.pc = p] = [t EXCEPT !.pc = p, !.dropped = t.dropped]
      BY <1>3 DEF Sale
    <3>2. "consume" \notin {"create", "edit", "reconsume"}
      OBVIOUS
    <3>3. CASE t.op = "create"
      BY <1>1, <2>2, <3>1, <3>3 DEF LockFirst
    <3>4. CASE t.op # "create"
      BY <1>1, <2>2, <3>1, <3>4 DEF LockFirst, Launches
    <3> QED
      BY <3>3, <3>4
  <2> QED
    BY <2>1, <2>2
<1>5. PICK n : /\ \E dropped : n = [t EXCEPT !.pc = pc, !.dropped = dropped]
               /\ Runs(s, n)
               /\ t.op \in Launches => pc = "moving"
  BY <1>4
<1>6. /\ n.op = t.op /\ n.pc = pc /\ n.locked = t.locked
      /\ n.plan = t.plan /\ n.change = t.change
  BY <1>3, <1>5 DEF Sale
<1>7. tx' = [tx EXCEPT ![s] = n] /\ UNCHANGED Tables
  BY <1>5 DEF Runs, LockFirst, DropOversales
<1>8. \A l \in LotIds : n.plan[l] = 0 /\ n.change[l] = 0
  BY <1>1, <1>2, <1>6 DEF NInv, AllFlightsSound, FlightSound, MovesSound
<1>9. FlightSound(n)
  BY <1>2, <1>4, <1>5, <1>6, <1>8, QuietSound DEF FlightSound, LaunchSound, EntrySound, SaleOps
<1> QED
  BY <1>1, <1>3, <1>6, <1>7, <1>9, StaysInOrderLocked

\* ReadMoves: a return only gives back.
LEMMA ReadsInOrder ==
  ASSUME NInv, IInv', NEW s \in Sessions, ReadMoves(s)
  PROVE  NInv'
<1>1. PICK t : t = tx[s]
  OBVIOUS
<1>2. t.op \in SaleOps /\ t.pc = "moves"
  BY <1>1 DEF ReadMoves
<1>3. Moving(s) /\ t \in Sale
  BY <1>1, <1>2, Kinds DEF Moving, NInv, IInv, TypeOK
<1>4. PICK plan : plan = NetTakenByLot(taken[t.owner])
  OBVIOUS
<1>5. PICK n : n = [t EXCEPT !.pc = "moving", !.plan = plan]
  OBVIOUS
<1>6. /\ n.op = t.op /\ n.pc = "moving" /\ n.locked = t.locked
      /\ n.plan = plan /\ n.change = t.change
  BY <1>3, <1>5 DEF Sale
<1>7. tx' = [tx EXCEPT ![s] = n] /\ UNCHANGED Tables
  BY <1>1, <1>4, <1>5 DEF Runs, ReadMoves
<1>8. \A l \in LotIds : plan[l] \in Nat /\ t.change[l] = 0
  <2>1. taken[t.owner] \in [LotIds -> Int]
    BY <1>3 DEF NInv, IInv, TypeOK, Sale, Holders
  <2>2. \A l \in LotIds : plan[l] \in Nat
    BY <1>4, <2>1 DEF NetTakenByLot, AtLeast0
  <2> QED
    BY <1>1, <1>2, <2>2 DEF NInv, AllFlightsSound, FlightSound, MovesSound
<1>9. t.op \notin Launches
  BY <1>1, <1>2 DEF NInv, AllFlightsSound, FlightSound, LaunchSound
<1>10. MovesSound(n)
  <2>1. ASSUME NEW l \in InStock
        PROVE  /\ lots[l].remaining + n.change[l] >= 0 /\ Leaves(n, l) >= 0
               /\ ~(n.change[l] + n.plan[l] < 0)
    <3>1. PICK a \in Nat, b \in Nat : a = lots[l].remaining /\ b = plan[l]
      BY <1>8, InStockType DEF NInv, IInv, NeverNegative
    <3>2. n.change[l] = 0 /\ n.plan[l] = b
      BY <1>6, <1>8, <3>1, InStockType DEF NInv, IInv
    <3> QED
      BY <3>1, <3>2 DEF Leaves
  <2> QED
    BY <1>6, <2>1 DEF MovesSound, EmptiesInOrder
<1>11. FlightSound(n)
  BY <1>2, <1>6, <1>9, <1>10 DEF FlightSound, LaunchSound, EntrySound, SaleOps
<1> QED
  BY <1>1, <1>3, <1>6, <1>7, <1>11, StaysInOrderLocked

\* LockLots: the lots are free, and no lot of the supply with a balance is left out.
LEMMA LocksInOrder ==
  ASSUME NInv, IInv', NEW s \in Sessions, LockLots(s)
  PROVE  NInv'
<1>1. PICK t : t = tx[s]
  OBVIOUS
<1>2. t.op \in SaleOps /\ t.pc = "moving" /\ Planned(s) = {}
  BY <1>1 DEF LockLots, NextNeed
<1>3. Moving(s) /\ t \in Sale
  BY <1>1, <1>2, Kinds DEF Moving, NInv, IInv, TypeOK
<1>4. PICK more : more = LotsToLock(s)
  OBVIOUS
<1>5. PICK n : n = [t EXCEPT !.pc = "locked", !.locked = @ \cup more]
  OBVIOUS
<1>6. /\ n.op = t.op /\ n.pc = "locked" /\ n.locked = t.locked \cup more
      /\ n.plan = t.plan /\ n.change = t.change /\ n.todo = t.todo
  BY <1>3, <1>5 DEF Sale
<1>7. tx' = [tx EXCEPT ![s] = n] /\ UNCHANGED Tables
  BY <1>1, <1>4, <1>5 DEF Runs, LockLots
<1>8. FlightSound(t)
  BY <1>1 DEF NInv, AllFlightsSound
<1>9. MovesSound(n)
  <2>1. \A l \in LotIds : n.plan[l] = 0
    BY <1>1, <1>2, <1>6 DEF Planned
  <2>2. /\ \A l \in InStock : lots[l].remaining + n.change[l] >= 0 /\ Leaves(n, l) >= 0
        /\ EmptiesInOrder(n)
    BY <1>2, <1>6, <1>8 DEF FlightSound, MovesSound, EmptiesInOrder, Leaves
  <2> QED
    BY <1>6, <2>1, <2>2 DEF MovesSound
<1>10. LaunchSound(n)
  <2>1. LockedAllItSees(n)
    BY <1>1, <1>4, <1>6 DEF LockedAllItSees, LotsToLock, SeenBalance, Seen
  <2> QED
    BY <1>6, <1>8, <2>1 DEF FlightSound, LaunchSound
<1>11. FlightSound(n)
  BY <1>2, <1>6, <1>9, <1>10 DEF FlightSound, EntrySound, SaleOps
<1>12. \A r \in Sessions \ {s} : LotsOf(r) \cap LotsOf(s)' = {}
  <2>1. \A r \in Sessions \ {s} : LotsOf(r) \cap more = {}
    BY <1>4 DEF LockLots, FreeFor
  <2>2. LotsOf(s)' \subseteq t.locked \cup more
    <3>1. tx'[s] = n
      BY <1>7 DEF NInv, IInv, TypeOK
    <3> QED
      BY <1>6, <3>1 DEF LotsOf
  <2>3. LotsOf(s) = t.locked
    BY <1>1, <1>3 DEF LotsOf
  <2>4. \A r \in Sessions \ {s} : LotsOf(r) \cap t.locked = {}
    BY <2>3 DEF NInv, LocksExclusive
  <2> QED
    BY <2>1, <2>2, <2>4
<1> QED
  BY <1>7, <1>11, <1>12, StaysInOrder

\* What planSale and planCount plan is there, in the order of expiry.
LEMMA PlansInOrder ==
  ASSUME NInv, NEW s \in Sessions, Moving(s), NEW t, t = tx[s],
         \A l \in LotIds : t.plan[l] = 0,
         NEW u \in Supplies, NEW units \in Int,
         NEW takes, takes = TakeInExpiryOrder(SeenBalance(s, u), ExpiryOf, units),
         NEW plan, plan = [l \in LotIds |-> IF l \in DOMAIN takes THEN -takes[l] ELSE 0],
         NEW n, n.pc = "moving", n.plan = plan, n.change = t.change
  PROVE  /\ MovesSound(n)
         /\ \A l \in LotIds : /\ plan[l] <= 0
                              /\ plan[l] # 0 => l \in InStock /\ lots[l].supply = u
                                                /\ lots[l].remaining + t.change[l] > 0
<1>1. PICK balance : balance = SeenBalance(s, u)
  OBVIOUS
<1>2. PICK D : D = DOMAIN balance
  OBVIOUS
<1>3. /\ D \subseteq InStock /\ IsFiniteSet(D)
      /\ \A l \in D : balance[l] \in Nat
  BY <1>1, <1>2, SeenBalanceType DEF NInv, IInv
<1>4. DOMAIN takes = D /\ \A l \in D : takes[l] \in 0 .. balance[l]
  BY <1>1, <1>2, <1>3, TakesType
<1>5. /\ D = {k \in InStock : lots[k].supply = u /\ lots[k].remaining + t.change[k] > 0}
      /\ \A l \in D : balance[l] = lots[l].remaining + t.change[l]
  BY <1>1, <1>2 DEF SeenBalance, Seen
<1>6. \A l \in LotIds : plan[l] = IF l \in D THEN -takes[l] ELSE 0
  BY <1>4
<1>7. \A l \in LotIds : /\ plan[l] <= 0
                        /\ plan[l] # 0 => l \in InStock /\ lots[l].supply = u
                                          /\ lots[l].remaining + t.change[l] > 0
  <2> TAKE l \in LotIds
  <2>1. CASE l \notin D
    BY <1>6, <2>1
  <2>2. CASE l \in D
    <3>1. PICK b \in Nat : b = takes[l]
      BY <1>3, <1>4, <2>2
    <3>2. plan[l] = -b
      BY <1>6, <2>2, <3>1
    <3> QED
      BY <1>5, <2>2, <3>1, <3>2
  <2> QED
    BY <2>1, <2>2
<1>8. MovesSound(t) /\ t.op \in SaleOps \cup {"count"}
  BY DEF NInv, AllFlightsSound, FlightSound, Moving
<1>9. ASSUME NEW l \in InStock
      PROVE  \E a, c, p \in Int :
                /\ a = lots[l].remaining /\ c = t.change[l] /\ p = plan[l]
                /\ a + c >= 0 /\ p <= 0
                /\ Leaves(t, l) = a + c /\ Leaves(n, l) = a + c + p
                /\ a + c + p >= 0
                /\ l \notin D => p = 0
                /\ l \in D => balance[l] = a + c /\ p = -takes[l] /\ takes[l] \in 0 .. (a + c)
                /\ lots[l].supply = u /\ l \notin D => a + c = 0
  <2>1. l \in LotIds /\ lots[l].remaining \in Int
    BY InStockType DEF NInv, IInv
  <2>2. t.change[l] \in Int
    BY <2>1, MovingType DEF NInv, IInv
  <2>3. PICK a \in Int, c \in Int : a = lots[l].remaining /\ c = t.change[l]
    BY <2>1, <2>2
  <2>4. t.plan[l] = 0 /\ a + c >= 0
    BY <1>8, <2>1, <2>3 DEF MovesSound
  <2>5. Leaves(t, l) = a + c
    BY <2>3, <2>4 DEF Leaves
  <2>6. CASE l \notin D
    <3>1. plan[l] = 0
      BY <1>6, <2>1, <2>6
    <3>2. Leaves(n, l) = a + c + 0
      BY <2>3, <3>1 DEF Leaves
    <3>3. lots[l].supply = u => a + c = 0
      BY <1>5, <2>3, <2>4, <2>6
    <3>4. PICK p \in Int : p = 0
      OBVIOUS
    <3>5. p = plan[l] /\ p <= 0 /\ Leaves(n, l) = a + c + p /\ a + c + p >= 0
      BY <2>4, <3>1, <3>2, <3>4
    <3> QED
      BY <2>3, <2>4, <2>5, <2>6, <3>3, <3>4, <3>5
  <2>7. CASE l \in D
    <3>1. balance[l] = a + c
      BY <1>5, <2>3, <2>7
    <3>2. PICK b \in 0 .. (a + c) : b = takes[l]
      BY <1>4, <2>7, <3>1
    <3>3. plan[l] = -b
      BY <1>6, <2>1, <2>7, <3>2
    <3>4. PICK p \in Int : p = -b
      OBVIOUS
    <3>5. Leaves(n, l) = a + c + p
      BY <2>3, <3>3, <3>4 DEF Leaves
    <3>6. p <= 0 /\ a + c + p >= 0
      BY <3>2, <3>4
    <3> QED
      BY <2>3, <2>4, <2>5, <2>7, <3>1, <3>2, <3>3, <3>4, <3>5, <3>6
  <2> QED
    BY <2>6, <2>7
<1>10. \A l \in InStock : lots[l].remaining + n.change[l] >= 0 /\ Leaves(n, l) >= 0
  <2> TAKE l \in InStock
  <2>1. PICK a, c, p \in Int :
           /\ a = lots[l].remaining /\ c = t.change[l]
           /\ a + c >= 0 /\ Leaves(n, l) = a + c + p /\ a + c + p >= 0
    BY <1>9
  <2> QED
    BY <2>1
<1>11. EmptiesInOrder(n)
  <2> SUFFICES ASSUME NEW k \in InStock, NEW l \in InStock,
                      lots[k].supply = lots[l].supply, GoesBefore(k, l),
                      n.change[l] + n.plan[l] < 0
               PROVE  Leaves(n, k) = 0
    BY DEF EmptiesInOrder
  <2>1. PICK ak, ck, pk \in Int :
           /\ ck = t.change[k] /\ pk = plan[k]
           /\ ak + ck >= 0 /\ pk <= 0
           /\ Leaves(t, k) = ak + ck /\ Leaves(n, k) = ak + ck + pk
           /\ ak + ck + pk >= 0
           /\ k \notin D => pk = 0
           /\ k \in D => balance[k] = ak + ck /\ pk = -takes[k] /\ takes[k] \in 0 .. (ak + ck)
           /\ lots[k].supply = u /\ k \notin D => ak + ck = 0
    BY <1>9
  <2>2. PICK al, cl, pl \in Int :
           /\ cl = t.change[l] /\ pl = plan[l] /\ pl <= 0
           /\ l \notin D => pl = 0
           /\ l \in D => pl = -takes[l] /\ takes[l] \in 0 .. (al + cl)
    BY <1>9
  <2>3. cl + pl < 0
    BY <2>2
  <2>4. CASE pl = 0
    <3>1. t.change[l] + t.plan[l] < 0
      <4>1. t.plan[l] = 0
        BY InStockType DEF NInv, IInv
      <4> QED
        BY <2>2, <2>3, <2>4, <4>1
    <3>2. Leaves(t, k) = 0
      BY <1>8, <3>1 DEF MovesSound, EmptiesInOrder
    <3> QED
      BY <2>1, <3>2
  <2>5. CASE pl # 0
    <3>1. l \in D /\ lots[l].supply = u /\ lots[k].supply = u
      BY <1>5, <2>2, <2>5
    <3>2. PICK m \in Int : m = takes[l] /\ m > 0
      BY <2>2, <2>5, <3>1
    <3>3. CASE k \notin D
      BY <2>1, <3>1, <3>3
    <3>4. CASE k \in D
      <4>1. D \in SUBSET Nat /\ \A j \in D : ExpiryOf[j] \in Nat
        BY <1>3, InStockType DEF NInv, IInv
      <4>2. GoesFirst(ExpiryOf, k, l)
        BY InStockType DEF GoesBefore, GoesFirst, NInv, IInv
      <4>3. TakeInExpiryOrder(balance, ExpiryOf, units)[l] > 0
        BY <1>1, <3>2
      <4>4. TakeInExpiryOrder(balance, ExpiryOf, units)[k] = balance[k]
        BY <1>2, <1>3, <3>1, <3>4, <4>1, <4>2, <4>3, TakesInOrder
      <4>5. takes[k] = ak + ck
        BY <1>1, <2>1, <3>4, <4>4
      <4> QED
        BY <2>1, <3>4, <4>5
    <3> QED
      BY <3>3, <3>4
  <2> QED
    BY <2>4, <2>5
<1> QED
  BY <1>7, <1>10, <1>11 DEF MovesSound

\* PlanSale: every lot it takes from is one the first statement locked.
LEMMA SalePlansInOrder ==
  ASSUME NInv, IInv', NEW s \in Sessions, PlanSale(s)
  PROVE  NInv'
<1>1. PICK t : t = tx[s]
  OBVIOUS
<1>2. t.op \in SaleOps /\ t.pc = "locked"
  BY <1>1 DEF PlanSale
<1>3. Moving(s) /\ t \in Sale
  BY <1>1, <1>2, Kinds DEF Moving, NInv, IInv, TypeOK
<1>4. Head(t.todo) \in SaleNeed
  <2>1. t.todo # <<>> /\ t.todo \in Seq(SaleNeed)
    BY <1>1, <1>2, <1>3 DEF NInv, IInv, SoundTransactions, Sound, Sale
  <2> QED
    BY <2>1
<1>5. PICK need \in SaleNeed : need = Head(t.todo)
  BY <1>4
<1>6. PICK takes : takes = TakeInExpiryOrder(SeenBalance(s, need.supply), ExpiryOf, need.units)
  OBVIOUS
<1>7. PICK plan : plan = [l \in LotIds |-> IF l \in DOMAIN takes THEN -takes[l] ELSE 0]
  OBVIOUS
<1>8. PICK a, b : Runs(s, [t EXCEPT !.pc = "moving", !.todo = a, !.plan = plan, !.short = b])
  BY <1>1, <1>3, <1>5, <1>6, <1>7 DEF PlanSale, Sale
<1>9. PICK n : n = [t EXCEPT !.pc = "moving", !.todo = a, !.plan = plan, !.short = b]
  OBVIOUS
<1>10. tx' = [tx EXCEPT ![s] = n] /\ UNCHANGED Tables
  BY <1>8, <1>9 DEF PlanSale, Runs
<1>11. /\ n.op = t.op /\ n.pc = "moving" /\ n.plan = plan /\ n.change = t.change
       /\ n.locked = t.locked
  BY <1>3, <1>9 DEF Sale
<1>12. FlightSound(t)
  BY <1>1 DEF NInv, AllFlightsSound
<1>13. \A l \in LotIds : t.plan[l] = 0
  BY <1>2, <1>12 DEF FlightSound, MovesSound
<1>14. /\ MovesSound(n)
       /\ \A l \in LotIds : /\ plan[l] <= 0
                            /\ plan[l] # 0 => l \in InStock /\ lots[l].supply = need.supply
                                              /\ lots[l].remaining + t.change[l] > 0
  <2>1. need.supply \in Supplies /\ need.units \in Int
    BY DEF SaleNeed
  <2> QED
    BY <1>1, <1>3, <1>6, <1>7, <1>11, <1>13, <2>1, PlansInOrder
<1>15. LaunchSound(n)
  <2> SUFFICES ASSUME t.op \in Launches
               PROVE  \A l \in LotIds :
                         /\ plan[l] <= 0 /\ t.change[l] <= 0
                         /\ plan[l] # 0 \/ t.change[l] # 0 => l \in t.locked
    BY <1>11 DEF LaunchSound, LockedAllItSees
  <2> QED
    BY <1>2, <1>5, <1>12, <1>14 DEF FlightSound, LaunchSound, LockedAllItSees
<1>16. FlightSound(n)
  BY <1>2, <1>11, <1>14, <1>15 DEF FlightSound, EntrySound, SaleOps
<1> QED
  BY <1>1, <1>3, <1>10, <1>11, <1>16, StaysInOrderLocked

\* PlanCount: what the system has beyond the count goes out as a sale does.
LEMMA CountPlansInOrder ==
  ASSUME NInv, IInv', NEW s \in Sessions, PlanCount(s)
  PROVE  NInv'
<1>1. PICK t : t = tx[s]
  OBVIOUS
<1>2. t.op = "count" /\ t.pc = "read"
  BY <1>1 DEF PlanCount
<1>3. Moving(s) /\ t \in StockCount
  BY <1>1, <1>2, Kinds DEF Moving, NInv, IInv, TypeOK
<1>4. PICK excess : excess = ExcessOf(SeenBalance(s, t.supply), t.quantity)
  OBVIOUS
<1>5. PICK takes : takes = TakeInExpiryOrder(SeenBalance(s, t.supply), ExpiryOf, excess)
  OBVIOUS
<1>6. PICK plan : plan = [l \in LotIds |-> IF l \in DOMAIN takes THEN -takes[l] ELSE 0]
  OBVIOUS
<1>7. PICK b : Runs(s, [t EXCEPT !.pc = "moving", !.plan = plan, !.surplus = b])
  BY <1>1, <1>4, <1>5, <1>6 DEF PlanCount
<1>8. PICK n : n = [t EXCEPT !.pc = "moving", !.plan = plan, !.surplus = b]
  OBVIOUS
<1>9. tx' = [tx EXCEPT ![s] = n] /\ UNCHANGED Tables
  BY <1>7, <1>8 DEF PlanCount, Runs
<1>10. /\ n.op = t.op /\ n.pc = "moving" /\ n.plan = plan /\ n.change = t.change
       /\ n.locked = t.locked
  BY <1>3, <1>8 DEF StockCount
<1>11. \A l \in LotIds : t.plan[l] = 0
  BY <1>1, <1>2 DEF NInv, AllFlightsSound, FlightSound, MovesSound
<1>12. MovesSound(n)
  <2>1. t.supply \in Supplies /\ t.quantity \in Int
    BY <1>3 DEF StockCount
  <2>2. excess \in Int
    BY <1>3, <1>4, <2>1, SeenBalanceType, RestType DEF NInv, IInv
  <2> QED
    BY <1>1, <1>3, <1>5, <1>6, <1>10, <1>11, <2>1, <2>2, PlansInOrder
<1>13. FlightSound(n)
  BY <1>2, <1>10, <1>12 DEF FlightSound, LaunchSound, EntrySound, Launches
<1> QED
  BY <1>1, <1>3, <1>9, <1>10, <1>13, StaysInOrderLocked

\* MoveLot: what was planned for a lot is written to it.
LEMMA MovesInOrder ==
  ASSUME NInv, IInv', NEW s \in Sessions, MoveLot(s)
  PROVE  NInv'
<1>1. PICK t : t = tx[s]
  OBVIOUS
<1>2. t.pc = "moving" /\ Moving(s)
  BY <1>1 DEF MoveLot
<1>3. /\ t \in Sale \/ t \in StockCount
      /\ t.plan \in [LotIds -> Int] /\ t.change \in [LotIds -> Int]
      /\ t.locked \subseteq LotIds /\ LotsOf(s) = t.locked
      /\ t.op \in SaleOps \cup {"count"}
  BY <1>1, <1>2, MovingType DEF NInv, IInv
<1>4. FlightSound(t)
  BY <1>1 DEF NInv, AllFlightsSound
<1>5. PICK l \in LotIds :
        /\ t.plan[l] # 0 /\ FreeFor(s, {l})
        /\ Runs(s, [t EXCEPT !.plan[l] = 0, !.locked = @ \cup {l},
                             !.change[l] = @ + t.plan[l]])
  BY <1>1 DEF MoveLot, Planned
<1>6. PICK n : n = [t EXCEPT !.plan[l] = 0, !.locked = @ \cup {l},
                             !.change[l] = @ + t.plan[l]]
  OBVIOUS
<1>7. PICK b \in Int, c \in Int : b = t.plan[l] /\ c = t.change[l]
  BY <1>3
<1>8. /\ n.op = t.op /\ n.pc = "moving" /\ n.locked = t.locked \cup {l}
      /\ n.plan = [t.plan EXCEPT ![l] = 0]
      /\ n.change = [t.change EXCEPT ![l] = @ + t.plan[l]]
  <2>1. CASE t \in Sale
    BY <1>2, <1>6, <2>1 DEF Sale
  <2>2. CASE t \in StockCount
    BY <1>2, <1>6, <2>2 DEF StockCount
  <2> QED
    BY <1>3, <2>1, <2>2
<1>9. /\ n.plan[l] = 0 /\ n.change[l] = c + b
      /\ \A k \in LotIds \ {l} : n.plan[k] = t.plan[k] /\ n.change[k] = t.change[k]
  BY <1>3, <1>7, <1>8
<1>10. tx' = [tx EXCEPT ![s] = n] /\ UNCHANGED Tables
  BY <1>5, <1>6 DEF MoveLot, Runs
<1>11. ASSUME NEW k \in InStock
       PROVE  /\ Leaves(n, k) = Leaves(t, k)
              /\ n.change[k] + n.plan[k] = t.change[k] + t.plan[k]
              /\ lots[k].remaining + n.change[k] >= 0
  <2>1. PICK d \in Int : d = lots[k].remaining
    BY InStockType DEF NInv, IInv
  <2>2. d + t.change[k] >= 0 /\ Leaves(t, k) >= 0
    BY <1>3, <1>4, <2>1 DEF FlightSound, MovesSound
  <2>3. k \in LotIds
    BY DEF InStock
  <2>4. CASE k # l
    BY <1>9, <2>1, <2>2, <2>3, <2>4 DEF Leaves
  <2>5. CASE k = l
    <3>1. d + c + b >= 0 /\ d + c + b = d + (c + b) + 0 /\ d + (c + b) >= 0
      BY <1>7, <2>1, <2>2, <2>5 DEF Leaves
    <3> QED
      BY <1>7, <1>9, <2>1, <2>5, <3>1 DEF Leaves
  <2> QED
    BY <2>4, <2>5
<1>12. MovesSound(n)
  <2>1. \A k \in InStock : lots[k].remaining + n.change[k] >= 0 /\ Leaves(n, k) >= 0
    BY <1>3, <1>4, <1>11 DEF FlightSound, MovesSound
  <2>2. EmptiesInOrder(n)
    BY <1>3, <1>4, <1>11 DEF FlightSound, MovesSound, EmptiesInOrder
  <2> QED
    BY <1>8, <2>1, <2>2 DEF MovesSound
<1>13. LaunchSound(n)
  <2> SUFFICES ASSUME t.op \in Launches
               PROVE  \A k \in LotIds :
                         /\ n.plan[k] <= 0 /\ n.change[k] <= 0
                         /\ n.plan[k] # 0 \/ n.change[k] # 0 => k \in n.locked
    BY <1>8 DEF LaunchSound, LockedAllItSees
  <2> TAKE k \in LotIds
  <2>1. /\ t.plan[k] <= 0 /\ t.change[k] <= 0
        /\ t.plan[k] # 0 \/ t.change[k] # 0 => k \in t.locked
    BY <1>4 DEF FlightSound, LaunchSound
  <2>2. CASE k # l
    BY <1>8, <1>9, <2>1, <2>2
  <2>3. CASE k = l
    <3>1. b <= 0 /\ c <= 0
      BY <1>7, <2>1, <2>3
    <3>2. c + b <= 0
      BY <3>1
    <3> QED
      BY <1>8, <1>9, <2>3, <3>2
  <2> QED
    BY <2>2, <2>3
<1>14. FlightSound(n)
  BY <1>3, <1>8, <1>12, <1>13 DEF FlightSound, EntrySound, SaleOps
<1>15. \A r \in Sessions \ {s} : LotsOf(r) \cap LotsOf(s)' = {}
  <2>1. tx'[s] = n
    BY <1>10 DEF NInv, IInv, TypeOK
  <2>2. LotsOf(s)' \subseteq t.locked \cup {l}
    BY <1>8, <2>1 DEF LotsOf
  <2>3. \A r \in Sessions \ {s} : LotsOf(r) \cap {l} = {}
    BY <1>5 DEF FreeFor
  <2>4. \A r \in Sessions \ {s} : LotsOf(r) \cap t.locked = {}
    BY <1>3 DEF NInv, LocksExclusive
  <2> QED
    BY <2>2, <2>3, <2>4
<1> QED
  BY <1>10, <1>14, <1>15, StaysInOrder

\* A transaction that rolls back lets go of its lots.
LEMMA RollBackInOrder ==
  ASSUME NInv, IInv', NEW s \in Sessions, RollBack(s)
  PROVE  NInv'
<1>1. tx' = [tx EXCEPT ![s] = Idle] /\ UNCHANGED Tables
  BY DEF RollBack, Runs
<1>2. Idle.op \notin SaleOps \cup {"count", "entry"} /\ Idle.op \notin Launches
  BY DEF Idle, SaleOps, Launches
<1>3. FlightSound(Idle)
  BY <1>2 DEF FlightSound, MovesSound, LaunchSound, EntrySound
<1> QED
  BY <1>1, <1>2, <1>3, StaysInOrderLocked

(***************************************************************************)
(* What the commits do to the balances.                                    *)
(***************************************************************************)

\* What a commit leaves in each lot it moved.
LotWritten(old, new, change) ==
    /\ new \in Lot
    /\ new.remaining = old.remaining + change
    /\ new.supply = old.supply /\ new.expires = old.expires /\ new.reversed = old.reversed
    /\ new.quantity = old.quantity /\ new.entry = old.entry

\* What the commit of a sale does to the lots.
LEMMA SaleLots ==
  ASSUME IInv, NEW s \in Sessions, CommitSale(s)
  PROVE  /\ InStock' = InStock
         /\ \A l \in InStock : LotWritten(lots[l], lots'[l], tx[s].change[l])
         /\ \A l \in LotIds : tx[s].plan[l] = 0
<1>1. PICK t \in Sale : t = tx[s]
  BY Kinds DEF IInv, TypeOK, CommitSale
<1>2. /\ t.change \in [LotIds -> Int] /\ lots' = LotsAfter(t.change)
      /\ \A l \in LotIds : lots[l] = NoLot => t.change[l] = 0
  BY <1>1 DEF Sale, IInv, SoundTransactions, Sound, CommitSale
<1>3. InStock' = InStock
  BY <1>2, LotsAfterType DEF IInv, InStock
<1>4. ASSUME NEW l \in InStock
      PROVE  LotWritten(lots[l], lots'[l], t.change[l])
  <2>1. l \in LotIds /\ lots'[l] # NoLot /\ lots'[l] \in Lot
    BY <1>2, <1>3, LotsAfterType DEF IInv, InStock
  <2>2. PICK lot \in Lot : lot = lots[l]
    BY InStockType DEF IInv
  <2>3. PICK b \in Int, a \in Int : b = t.change[l] /\ a = lot.remaining
    BY <1>2, <2>1 DEF Lot
  <2>4. CASE b = 0
    <3>1. lots'[l] = lot
      BY <1>2, <2>1, <2>2, <2>3, <2>4 DEF LotsAfter
    <3>2. lot.remaining = lot.remaining + b
      BY <2>3, <2>4
    <3> QED
      BY <2>2, <2>3, <3>1, <3>2 DEF LotWritten
  <2>5. CASE b # 0
    <3>1. PICK c \in Int : c = lot.remaining + b
      BY <2>3
    <3>2. lots'[l] = [lot EXCEPT !.remaining = c, !.moved = TRUE]
      BY <1>2, <2>1, <2>2, <2>3, <2>5, <3>1 DEF LotsAfter, Lot
    <3> QED
      BY <2>1, <2>2, <2>3, <3>1, <3>2 DEF LotWritten, Lot
  <2> QED
    BY <2>4, <2>5
<1>5. \A l \in LotIds : t.plan[l] = 0
  BY <1>1 DEF CommitSale, Planned
<1> QED
  BY <1>1, <1>3, <1>4, <1>5

\* A count writes what it took, and may add one lot with the surplus.
LEMMA CountLots ==
  ASSUME IInv, IInv', NEW s \in Sessions, CommitCount(s)
  PROVE  /\ InStock \subseteq InStock'
         /\ \A l \in InStock : LotWritten(lots[l], lots'[l], tx[s].change[l])
         /\ \A l \in LotIds : tx[s].plan[l] = 0
         /\ tx[s] \in StockCount
         /\ tx[s].surplus = 0 => InStock' = InStock
         /\ tx[s].surplus # 0 =>
               \E l \in LotIds \ InStock :
                  /\ InStock' = InStock \cup {l}
                  /\ lots'[l].supply = tx[s].supply
                  /\ lots'[l].remaining = tx[s].surplus /\ ~lots'[l].entry
<1>1. PICK t \in StockCount : t = tx[s]
  BY Kinds DEF IInv, TypeOK, CommitCount
<1>2. /\ t.change \in [LotIds -> Int] /\ t.surplus \in Nat
      /\ \A l \in LotIds : lots[l] = NoLot => t.change[l] = 0
  BY <1>1 DEF StockCount, IInv, SoundTransactions, Sound, CommitCount
<1>3. PICK counted : counted = LotsCounted(t.change)
  OBVIOUS
<1>4. \A l \in LotIds \ InStock : counted[l] = NoLot
  BY <1>2, <1>3 DEF LotsCounted, InStock
<1>5. ASSUME NEW l \in InStock
      PROVE  /\ counted[l].remaining = lots[l].remaining + t.change[l]
             /\ counted[l].supply = lots[l].supply /\ counted[l].expires = lots[l].expires
             /\ counted[l].reversed = lots[l].reversed
             /\ counted[l].quantity = lots[l].quantity /\ counted[l].entry = lots[l].entry
             /\ counted[l] \in Lot
  <2>1. l \in LotIds
    BY DEF InStock
  <2>2. PICK lot \in Lot : lot = lots[l]
    BY InStockType DEF IInv
  <2>3. PICK b \in Int, a \in Int : b = t.change[l] /\ a = lot.remaining
    BY <1>2, <2>1 DEF Lot
  <2>4. CASE b = 0
    <3>1. counted[l] = lot
      BY <1>3, <2>1, <2>2, <2>3, <2>4 DEF LotsCounted
    <3>2. lot.remaining = lot.remaining + b
      BY <2>3, <2>4
    <3> QED
      BY <2>2, <2>3, <3>1, <3>2
  <2>5. CASE b # 0
    <3>1. PICK r \in Int, c \in Int : r = lot.remaining + b /\ c = lot.counted + b
      BY <2>3 DEF Lot
    <3>2. PICK after : after = [lot EXCEPT !.remaining = r, !.moved = TRUE]
      OBVIOUS
    <3>3. after \in Lot /\ after.counted = lot.counted
      BY <3>2 DEF Lot
    <3>4. LotsAfter(t.change)[l] = after
      BY <2>1, <2>2, <2>3, <2>5, <3>1, <3>2 DEF LotsAfter, Lot
    <3>5. counted[l] = [after EXCEPT !.counted = c]
      BY <1>3, <2>1, <2>3, <2>5, <3>1, <3>3, <3>4 DEF LotsCounted
    <3>6. counted[l] \in Lot
      BY <3>3, <3>5 DEF Lot
    <3>7. /\ counted[l].remaining = r /\ counted[l].supply = lot.supply
          /\ counted[l].expires = lot.expires /\ counted[l].reversed = lot.reversed
          /\ counted[l].quantity = lot.quantity /\ counted[l].entry = lot.entry
      BY <3>2, <3>5 DEF Lot
    <3> QED
      BY <2>2, <2>3, <3>1, <3>6, <3>7
  <2> QED
    BY <2>4, <2>5
<1>6. \A l \in LotIds : t.plan[l] = 0
  BY <1>1 DEF CommitCount, Planned
<1>7. \A l \in InStock : counted[l] # NoLot
  BY <1>5, StockAssumption
<1>8. CASE t.surplus = 0
  <2>1. lots' = counted
    BY <1>1, <1>3, <1>8 DEF CommitCount
  <2>2. InStock' = InStock
    BY <1>4, <1>7, <2>1 DEF InStock
  <2> QED
    BY <1>1, <1>5, <1>6, <1>8, <2>1, <2>2 DEF LotWritten
<1>9. CASE t.surplus # 0
  <2>1. PICK l \in LotIds :
          /\ NextLot(l)
          /\ lots' = [counted EXCEPT ![l] = NewLot(t.supply, t.surplus, NoDate, FALSE, 0)]
    BY <1>1, <1>3, <1>9 DEF CommitCount
  <2>2. PICK new : new = NewLot(t.supply, t.surplus, NoDate, FALSE, 0)
    OBVIOUS
  <2>3. new.supply = t.supply /\ new.remaining = t.surplus /\ ~new.entry
    BY <1>2, <2>2 DEF NewLot
  <2>4. l \notin InStock
    BY <2>1 DEF NextLot, Drawn, InStock
  <2>5. DOMAIN counted = LotIds
    BY <1>3 DEF LotsCounted
  <2>6. lots'[l] = new /\ \A k \in LotIds \ {l} : lots'[k] = counted[k]
    BY <2>1, <2>2, <2>5
  <2>7. lots'[l] # NoLot
    <3>1. t.supply \in Supplies /\ t.surplus \in Nat \ {0} /\ NoDate \in Expiries
      BY <1>2, <1>9, StockAssumption DEF StockCount
    <3>2. FALSE \in BOOLEAN /\ 0 \in Int
      OBVIOUS
    <3>3. new # NoLot
      BY <2>2, <3>1, <3>2, NewLotType
    <3> QED
      BY <2>6, <3>3
  <2>8. InStock' = InStock \cup {l}
    BY <1>4, <1>7, <2>6, <2>7 DEF InStock
  <2>9. \A k \in InStock : k \in LotIds \ {l}
    BY <2>4 DEF InStock
  <2>10. \A k \in InStock : LotWritten(lots[k], lots'[k], t.change[k])
    BY <1>5, <2>6, <2>9 DEF LotWritten
  <2> QED
    BY <1>1, <1>6, <1>9, <2>3, <2>4, <2>6, <2>8, <2>10
<1> QED
  BY <1>8, <1>9

\* What is written is what was left, so no balance is negative and what goes
\* out leaves nothing before it.
LEMMA WritesInOrder ==
  ASSUME NInv, IInv', NEW s \in Sessions, Moving(s), NEW t, t = tx[s],
         InStock \subseteq InStock',
         \A l \in InStock : LotWritten(lots[l], lots'[l], t.change[l]),
         \A l \in LotIds : t.plan[l] = 0,
         \A l \in InStock' \ InStock : lots'[l].remaining >= 0
  PROVE  NeverNegative' /\ FirstToExpireStep
<1>1. MovesSound(t) /\ t.op \in SaleOps \cup {"count"} /\ t.change \in [LotIds -> Int]
  BY MovingType DEF NInv, IInv, AllFlightsSound, FlightSound
<1>2. \A l \in InStock : /\ l \in LotIds /\ lots[l].remaining \in Int
                         /\ t.change[l] \in Int /\ t.plan[l] = 0
  BY <1>1, InStockType DEF NInv, IInv
<1>3. \A l \in InStock : lots'[l].remaining >= 0
  BY <1>1 DEF MovesSound, LotWritten
<1>4. NeverNegative'
  BY <1>3 DEF NeverNegative
<1>5. ASSUME NEW k \in InStock, NEW l \in InStock, lots[k].supply = lots[l].supply,
             GoesBefore(k, l), Lowered(l)
      PROVE  lots'[k].remaining = 0
  <2>1. PICK a \in Int, b \in Int : a = lots[l].remaining /\ b = t.change[l]
    BY <1>2
  <2>2. lots'[l].remaining < a /\ lots'[l].remaining = a + b
    BY <1>5, <2>1 DEF Lowered, LotWritten
  <2>3. b < 0
    BY <2>1, <2>2
  <2>4. t.change[l] + t.plan[l] < 0
    BY <1>2, <2>1, <2>3
  <2>5. Leaves(t, k) = 0
    BY <1>1, <1>5, <2>4 DEF MovesSound, EmptiesInOrder
  <2>6. lots'[k].remaining = lots[k].remaining + t.change[k] /\ t.plan[k] = 0
    BY <1>2 DEF LotWritten
  <2>7. PICK c \in Int, d \in Int : c = lots[k].remaining /\ d = t.change[k]
    BY <1>2
  <2>8. c + d + 0 = 0
    BY <2>5, <2>6, <2>7 DEF Leaves
  <2> QED
    BY <2>6, <2>7, <2>8
<1>6. FirstToExpireStep
  BY <1>5 DEF FirstToExpireStep
<1> QED
  BY <1>4, <1>6

\* What a launch writes was locked, so no other launch counts on it.
LEMMA LaunchUndisturbed ==
  ASSUME NInv, NeverNegative', NEW s \in Sessions, CommitSale(s),
         NEW old, old = tx[s], old.op \in Launches,
         NEW r \in Sessions \ {s}, NEW t, t = tx[r], t.op \in Launches
  PROVE  /\ FlightSound(t)'
         /\ \A l \in InStock : Leaves(t, l) = 0 => Leaves(t, l)' = 0
<1>1. Moving(s) /\ Moving(r)
  BY DEF Moving, Launches, SaleOps
<1>2. /\ old.change \in [LotIds -> Int] /\ old.plan \in [LotIds -> Int]
      /\ LotsOf(s) = old.locked
      /\ t.change \in [LotIds -> Int] /\ t.plan \in [LotIds -> Int]
      /\ LotsOf(r) = t.locked
  BY <1>1, MovingType DEF NInv, IInv
<1>3. FlightSound(old) /\ FlightSound(t)
  BY DEF NInv, AllFlightsSound
<1>4. InStock' = InStock /\ \A l \in InStock : LotWritten(lots[l], lots'[l], old.change[l])
  BY SaleLots DEF NInv, IInv
<1>5. ASSUME NEW l \in InStock
      PROVE  /\ l \in LotIds /\ lots[l].remaining \in Int /\ lots'[l].remaining \in Int
             /\ old.change[l] \in Int /\ t.change[l] \in Int /\ t.plan[l] \in Int
             /\ old.change[l] <= 0
             /\ lots'[l].remaining = lots[l].remaining + old.change[l]
             /\ lots'[l].supply = lots[l].supply /\ lots'[l].expires = lots[l].expires
             /\ lots'[l].remaining >= 0
             /\ old.change[l] # 0 => t.change[l] = 0 /\ t.plan[l] = 0
             /\ lots[l].remaining + t.change[l] >= 0 /\ Leaves(t, l) >= 0
  <2>1. l \in LotIds /\ lots[l].remaining \in Int
    BY InStockType DEF NInv, IInv
  <2>2. old.change[l] \in Int /\ t.change[l] \in Int /\ t.plan[l] \in Int
    BY <1>2, <2>1
  <2>3. /\ lots'[l].remaining = lots[l].remaining + old.change[l]
        /\ lots'[l].supply = lots[l].supply /\ lots'[l].expires = lots[l].expires
    BY <1>4 DEF LotWritten
  <2>4. lots'[l].remaining >= 0 /\ lots'[l].remaining \in Int
    BY <1>4, <2>1, <2>2, <2>3 DEF NeverNegative
  <2>5. old.change[l] <= 0 /\ (old.change[l] # 0 => l \in old.locked)
    BY <1>3, <2>1 DEF FlightSound, LaunchSound
  <2>6. t.plan[l] # 0 \/ t.change[l] # 0 => l \in t.locked
    BY <1>3, <2>1 DEF FlightSound, LaunchSound
  <2>7. old.locked \cap t.locked = {}
    BY <1>2 DEF NInv, LocksExclusive
  <2>8. lots[l].remaining + t.change[l] >= 0 /\ Leaves(t, l) >= 0
    BY <1>1, <1>3 DEF FlightSound, MovesSound, Moving
  <2> QED
    BY <2>1, <2>2, <2>3, <2>4, <2>5, <2>6, <2>7, <2>8
<1>6. ASSUME NEW l \in InStock
      PROVE  /\ lots'[l].remaining + t.change[l] >= 0
             /\ Leaves(t, l)' >= 0
             /\ Leaves(t, l) = 0 => Leaves(t, l)' = 0
  <2>1. PICK a \in Int, b \in Int, c \in Int, p \in Int :
           /\ a = lots[l].remaining /\ b = old.change[l]
           /\ c = t.change[l] /\ p = t.plan[l]
    BY <1>5
  <2>2. /\ lots'[l].remaining = a + b /\ a + b >= 0 /\ b <= 0
        /\ b # 0 => c = 0 /\ p = 0
        /\ a + c >= 0 /\ Leaves(t, l) >= 0
    BY <1>5, <2>1
  <2>3. Leaves(t, l) = a + c + p /\ Leaves(t, l)' = a + b + c + p
    BY <2>1, <2>2 DEF Leaves
  <2>4. lots'[l].remaining + t.change[l] = a + b + c
    BY <2>1, <2>2
  <2>5. CASE b = 0
    BY <2>2, <2>3, <2>4, <2>5
  <2>6. CASE b # 0
    BY <2>2, <2>3, <2>4, <2>6
  <2> QED
    BY <2>5, <2>6
<1>7. EmptiesInOrder(t)'
  <2> SUFFICES ASSUME NEW k \in InStock, NEW l \in InStock,
                      lots'[k].supply = lots'[l].supply, GoesBefore(k, l)',
                      t.change[l] + t.plan[l] < 0
               PROVE  Leaves(t, k)' = 0
    BY <1>4 DEF EmptiesInOrder
  <2>1. lots[k].supply = lots[l].supply /\ GoesBefore(k, l)
    BY <1>5 DEF GoesBefore
  <2>2. Leaves(t, k) = 0
    BY <1>1, <1>3, <2>1 DEF FlightSound, MovesSound, EmptiesInOrder, Moving
  <2> QED
    BY <1>6, <2>2
<1>8. MovesSound(t)'
  <2>1. /\ t.pc # "moving" => \A l \in LotIds : t.plan[l] = 0
        /\ t.pc \in {"start", "drop", "moves", "read"} => \A l \in LotIds : t.change[l] = 0
    BY <1>1, <1>3 DEF FlightSound, MovesSound, Moving
  <2> QED
    BY <1>4, <1>6, <1>7, <2>1 DEF MovesSound
<1>9. LockedAllItSees(t)'
  <2> SUFFICES ASSUME t.pc = "locked", NEW l \in InStock,
                      lots'[l].supply = Head(t.todo).supply,
                      lots'[l].remaining + t.change[l] > 0
               PROVE  l \in t.locked
    BY <1>4 DEF LockedAllItSees
  <2>1. PICK a \in Int, b \in Int, c \in Int :
           a = lots[l].remaining /\ b = old.change[l] /\ c = t.change[l]
    BY <1>5
  <2>2. lots'[l].remaining = a + b /\ b <= 0 /\ lots[l].supply = Head(t.todo).supply
    BY <1>5, <2>1
  <2>3. (a + b) + c > 0
    BY <2>1, <2>2
  <2>4. lots[l].remaining + t.change[l] > 0
    BY <2>1, <2>2, <2>3
  <2> QED
    BY <1>3, <2>2, <2>4 DEF FlightSound, LaunchSound, LockedAllItSees
<1>10. LaunchSound(t)'
  BY <1>3, <1>9 DEF FlightSound, LaunchSound
<1>11. EntrySound(t)'
  BY DEF EntrySound, Launches
<1> QED
  BY <1>6, <1>8, <1>10, <1>11 DEF FlightSound

\* The commit of a sale takes from the lots that go out first.
LEMMA CommitSaleInOrder ==
  ASSUME NInv, OnlyLaunchesOverlap, IInv', NEW s \in Sessions, CommitSale(s)
  PROVE  NInv' /\ FirstToExpireStep
<1>1. PICK t : t = tx[s]
  OBVIOUS
<1>2. Moving(s) /\ t # Idle /\ tx' = [tx EXCEPT ![s] = Idle]
  BY <1>1 DEF CommitSale, Moving, Idle, SaleOps, Runs
<1>3. NeverNegative' /\ FirstToExpireStep
  BY <1>1, <1>2, SaleLots, WritesInOrder DEF NInv
<1>4. ASSUME NEW r \in Sessions \ {s}
      PROVE  tx[r] = Idle \/ FlightSound(tx[r])'
  <2>1. PICK n : n = tx[r]
    OBVIOUS
  <2>2. CASE t.op \notin Launches
    BY <1>1, <1>2, <2>2, NotLaunchedAlone
  <2>3. CASE t.op \in Launches /\ n # Idle
    <3>1. n.op \in Launches
      BY <1>1, <1>2, <2>1, <2>3 DEF OnlyLaunchesOverlap
    <3>2. FlightSound(n)'
      BY <1>1, <1>3, <2>1, <2>3, <3>1, LaunchUndisturbed
    <3>3. tx'[r] = n /\ n = tx[r]
      BY <1>2, <2>1 DEF NInv, IInv, TypeOK
    <3> QED
      BY <3>2, <3>3
  <2> QED
    BY <2>1, <2>2, <2>3
<1> QED
  BY <1>2, <1>3, <1>4, EndsInOrder

\* The other commits run alone.
LEMMA EndsAlone ==
  ASSUME NInv, OnlyLaunchesOverlap, IInv', NEW s \in Sessions, tx' = [tx EXCEPT ![s] = Idle],
         tx[s].op \in {"entry", "count", "reverse"}, NeverNegative'
  PROVE  NInv'
<1>1. tx[s] # Idle /\ tx[s].op \notin Launches
  BY DEF Idle, Launches
<1>2. \A r \in Sessions \ {s} : tx[r] = Idle
  BY <1>1, NotLaunchedAlone
<1> QED
  BY <1>2, EndsInOrder

\* The commit of a count takes nothing for a sale.
LEMMA CommitCountInOrder ==
  ASSUME NInv, OnlyLaunchesOverlap, IInv', NEW s \in Sessions, CommitCount(s)
  PROVE  NInv' /\ FirstToExpireStep
<1>1. PICK t : t = tx[s]
  OBVIOUS
<1>2. Moving(s) /\ t.op = "count" /\ tx' = [tx EXCEPT ![s] = Idle]
  BY <1>1 DEF CommitCount, Moving, Runs
<1>3. \A l \in InStock' \ InStock : lots'[l].remaining >= 0
  <2>1. t.surplus \in Nat
    BY <1>1, CountLots DEF NInv, StockCount
  <2> QED
    BY <1>1, <2>1, CountLots DEF NInv
<1>4. NeverNegative' /\ FirstToExpireStep
  BY <1>1, <1>2, <1>3, CountLots, WritesInOrder DEF NInv
<1> QED
  BY <1>1, <1>2, <1>4, EndsAlone

\* Nor does that of an entry, whose lot is new.
LEMMA CommitEntryInOrder ==
  ASSUME NInv, OnlyLaunchesOverlap, IInv', NEW s \in Sessions, CommitEntry(s)
  PROVE  NInv' /\ FirstToExpireStep
<1>1. PICK t : t = tx[s]
  OBVIOUS
<1>2. /\ t \in Entry /\ t.op = "entry" /\ t.lot \in LotIds /\ lots[t.lot] = NoLot
      /\ t.covers \in SUBSET Cover /\ IsFiniteSet(t.covers)
      /\ tx' = [tx EXCEPT ![s] = Idle]
  BY <1>1, EntryWrites DEF NInv, CommitEntry
<1>3. PICK units \in Int : units = UnitsOf(t.covers)
  BY <1>2, UnitsType DEF Cover
<1>4. PICK quantity \in Nat : quantity = t.quantity
  BY <1>2 DEF Entry
<1>5. units <= quantity
  BY <1>1, <1>2, <1>3, <1>4 DEF NInv, AllFlightsSound, FlightSound, EntrySound
<1>6. PICK new : new = NewLot(t.supply, quantity, t.expires, TRUE, units)
  OBVIOUS
<1>7. new.remaining = quantity - units
  BY <1>6 DEF NewLot
<1>8. lots'[t.lot] = new /\ \A l \in LotIds \ {t.lot} : lots'[l] = lots[l]
  BY <1>1, <1>2, <1>3, <1>4, <1>6 DEF CommitEntry, NInv, IInv, TypeOK
<1>9. NeverNegative'
  <2> SUFFICES ASSUME NEW l \in InStock' PROVE lots'[l].remaining >= 0
    BY DEF NeverNegative
  <2>1. CASE l = t.lot
    BY <1>5, <1>7, <1>8, <2>1
  <2>2. CASE l # t.lot
    <3>1. l \in LotIds /\ lots'[l] = lots[l] /\ l \in InStock
      BY <1>8, <2>2 DEF InStock
    <3> QED
      BY <3>1 DEF NInv, NeverNegative
  <2> QED
    BY <2>1, <2>2
<1>10. FirstToExpireStep
  <2>1. \A l \in InStock : lots'[l] = lots[l] /\ lots[l].remaining \in Int
    BY <1>2, <1>8, InStockType DEF InStock, NInv, IInv
  <2> QED
    BY <2>1 DEF FirstToExpireStep, Lowered
<1> QED
  BY <1>1, <1>2, <1>9, <1>10, EndsAlone

\* Nor does that of a reversal.
LEMMA CommitReverseInOrder ==
  ASSUME NInv, OnlyLaunchesOverlap, IInv', NEW s \in Sessions, CommitReverse(s)
  PROVE  NInv' /\ FirstToExpireStep
<1>1. PICK k : k = tx[s].lot
  OBVIOUS
<1>2. k \in LotIds /\ lots[k] \in Lot /\ k \in InStock
  BY <1>1, Kinds DEF NInv, IInv, TypeOK, SoundTransactions, Sound, CommitReverse, Reversal,
     InStock
<1>3. PICK new : new = [lots[k] EXCEPT !.remaining = 0, !.reversed = TRUE, !.moved = TRUE]
  OBVIOUS
<1>4. new.remaining = 0 /\ new.reversed = TRUE
  BY <1>2, <1>3 DEF Lot
<1>5. /\ lots'[k] = new /\ \A l \in LotIds \ {k} : lots'[l] = lots[l]
      /\ tx' = [tx EXCEPT ![s] = Idle] /\ tx[s].op = "reverse"
  BY <1>1, <1>2, <1>3 DEF CommitReverse, Runs, NInv, IInv, TypeOK
<1>6. ASSUME NEW l \in InStock'
      PROVE  l \in InStock /\ (l # k => lots'[l] = lots[l])
  BY <1>2, <1>5, <1>6 DEF InStock
<1>7. NeverNegative'
  BY <1>4, <1>5, <1>6 DEF NInv, NeverNegative
<1>8. ASSUME NEW l \in InStock
      PROVE  ~Lowered(l)
  <2>1. CASE l = k
    BY <1>4, <1>5, <2>1 DEF Lowered
  <2>2. CASE l # k
    <3>1. l \in LotIds /\ lots'[l] = lots[l] /\ lots[l].remaining \in Int
      BY <1>5, <2>2, InStockType DEF NInv, IInv
    <3> QED
      BY <3>1 DEF Lowered
  <2> QED
    BY <2>1, <2>2
<1>9. FirstToExpireStep
  BY <1>8 DEF FirstToExpireStep
<1> QED
  BY <1>5, <1>7, <1>9, EndsAlone

(***************************************************************************)
(* The start, every step, and the promises.                                *)
(***************************************************************************)

\* Nothing is in flight at first.
LEMMA InitInOrder == Init => NInv
<1> SUFFICES ASSUME Init PROVE NInv
  OBVIOUS
<1>1. \A s \in Sessions : tx[s] = Idle
  BY DEF Init
<1>2. Idle.op \notin SaleOps \cup {"count", "entry"} /\ Idle.op \notin Launches
  BY DEF Idle, SaleOps, Launches
<1>3. AllFlightsSound
  BY <1>1, <1>2 DEF AllFlightsSound, FlightSound, MovesSound, LaunchSound, EntrySound
<1>4. LocksExclusive
  BY <1>1, <1>2 DEF LocksExclusive, LotsOf, Moving
<1>5. ASSUME NEW l \in InStock
      PROVE  lots[l].remaining >= 0
  <2>1. l \in LotIds /\ Stocked[l] \in Lot /\ lots[l] = Stocked[l]
    BY <1>5, StockAssumption DEF Init, InStock
  <2>2. PICK new \in Lot : new = Stocked[l]
    BY <2>1
  <2>3. new = NewLot(new.supply, new.quantity, new.expires, TRUE, 0)
    BY <2>1, <2>2, StockAssumption DEF Init, InStock
  <2>4. PICK n \in Nat : n = new.quantity
    BY DEF Lot
  <2>5. new.remaining = n - 0
    BY <2>3, <2>4 DEF NewLot
  <2> QED
    BY <2>1, <2>2, <2>4, <2>5
<1> QED
  BY <1>3, <1>4, <1>5, InitSound DEF NInv, NeverNegative

\* A step that writes no table lowers no lot.
LEMMA NothingLowered ==
  ASSUME TypeOK, lots' = lots
  PROVE  FirstToExpireStep
<1>1. \A l \in InStock : lots[l].remaining \in Int
  BY InStockType
<1> QED
  BY <1>1 DEF FirstToExpireStep, Lowered

\* Each step, while only launches overlap.
LEMMA NInvInductive ==
  NInv /\ TInv /\ OnlyLaunchesOverlap /\ [Next]_vars => NInv' /\ FirstToExpireStep
<1> SUFFICES ASSUME NInv, TInv, OnlyLaunchesOverlap, [Next]_vars
             PROVE  NInv' /\ FirstToExpireStep
  OBVIOUS
<1>1. IInv' /\ TypeOK
  BY IInvInductive DEF NInv, IInv
<1>2. CASE UNCHANGED vars \/ NightEnds
  <2>1. UNCHANGED <<lots, tx>>
    BY <1>2 DEF vars, NightEnds
  <2>2. NeverNegative' /\ LocksExclusive'
    BY <2>1 DEF NInv, NeverNegative, InStock, LocksExclusive, LotsOf, Moving
  <2>3. AllFlightsSound'
    BY <2>1 DEF NInv, AllFlightsSound, FlightSound, MovesSound, LaunchSound, EntrySound,
       EmptiesInOrder, Leaves, LockedAllItSees, InStock, GoesBefore
  <2> QED
    BY <1>1, <2>1, <2>2, <2>3, NothingLowered DEF NInv
<1>3. ASSUME NEW s \in Sessions, Asks(s) \/ Advances(s) \/ RollBack(s)
      PROVE  NInv' /\ FirstToExpireStep
  <2>1. CASE CommitSale(s)
    BY <1>1, <2>1, CommitSaleInOrder
  <2>2. CASE CommitCount(s)
    BY <1>1, <2>2, CommitCountInOrder
  <2>3. CASE CommitEntry(s)
    BY <1>1, <2>3, CommitEntryInOrder
  <2>4. CASE CommitReverse(s)
    BY <1>1, <2>4, CommitReverseInOrder
  <2>5. CASE UNCHANGED <<lots, taken>> /\ ~CommitSale(s) /\ ~CommitCount(s)
             /\ ~CommitEntry(s) /\ ~CommitReverse(s)
    <3>1. FirstToExpireStep
      BY <1>1, <2>5, NothingLowered
    <3>2. CASE Asks(s)
      BY <1>1, <3>1, <3>2, SalesBeginInOrder, OthersBeginInOrder DEF Asks
    <3>3. CASE RollBack(s)
      BY <1>1, <3>1, <3>3, RollBackInOrder
    <3>4. CASE Advances(s)
      BY <1>1, <2>5, <3>1, <3>4, OpensInOrder, ReadsInOrder, MovesInOrder, LocksInOrder,
         SalePlansInOrder, CountPlansInOrder DEF Advances
    <3> QED
      BY <1>3, <3>1, <3>2, <3>3, <3>4
  <2> QED
    BY <1>3, <2>1, <2>2, <2>3, <2>4, <2>5, StepKinds
<1> QED
  BY <1>2, <1>3 DEF Next

(***************************************************************************)
(* NeverNegative of SaleStock, when the only transactions that overlap     *)
(* launch sales, however many and however long: "two cashiers selling the  *)
(* same can at the same time do not take from the same balance"            *)
(* (stock/prisma-sale-stock.ts, lockedLots) and "the balance is never      *)
(* negative" (stock/fefo.ts, planSale), whatever the edits, cancellations, *)
(* entries, counts and reversals in between.                               *)
(***************************************************************************)
THEOREM BalancesNeverNegative == Spec /\ []OnlyLaunchesOverlap => []NeverNegative
<1>1. Init => NInv
  BY InitInOrder
<1>2. NInv /\ TInv /\ OnlyLaunchesOverlap /\ [Next]_vars => NInv'
  BY NInvInductive
<1>3. Init => TInv
  BY InitAccounted
<1>4. OnlyLaunchesOverlap => UndoneApart /\ EntriesApart
  BY OverlapsApart
<1>5. TInv /\ UndoneApart /\ EntriesApart /\ [Next]_vars => TInv'
  BY TInvInductive
<1>6. NInv => NeverNegative
  BY DEF NInv
<1> QED
  BY <1>1, <1>2, <1>3, <1>4, <1>5, <1>6, PTL DEF Spec

(***************************************************************************)
(* NeverNegative of SaleStock where the only requests are launches: any    *)
(* number of them at the same time, over any lots.                         *)
(***************************************************************************)
THEOREM LaunchesNeverNegative ==
  ASSUME Ops \subseteq Launches
  PROVE  Spec => []NeverNegative
<1>1. Init => IInv /\ OnlyAsked
  BY InitSound DEF Init, OnlyAsked, Idle
<1>2. IInv /\ OnlyAsked /\ [Next]_vars => IInv' /\ OnlyAsked'
  <2> SUFFICES ASSUME IInv, OnlyAsked, [Next]_vars PROVE OnlyAsked'
    BY IInvInductive
  <2>1. CASE UNCHANGED vars \/ NightEnds
    BY <2>1 DEF vars, NightEnds, OnlyAsked
  <2>2. ASSUME NEW s \in Sessions, Asks(s) \/ Advances(s) \/ RollBack(s)
        PROVE  OnlyAsked'
    BY <2>2, OnlyAskedKept DEF IInv
  <2> QED
    BY <2>1, <2>2 DEF Next
<1>3. IInv /\ OnlyAsked => OnlyLaunchesOverlap
  BY OnlyLaunchesAsked
<1> QED
  BY <1>1, <1>2, <1>3, BalancesNeverNegative, PTL DEF Spec

(***************************************************************************)
(* FirstToExpireFirst of SaleStock, under the same condition: first to     *)
(* expire, first out (stock/fefo.ts, sortByExpiry), over the whole of a    *)
(* transaction, which plans need by need and returns before it takes.      *)
(***************************************************************************)
THEOREM OldestGoesFirst == Spec /\ []OnlyLaunchesOverlap => FirstToExpireFirst
<1>1. Init => NInv
  BY InitInOrder
<1>2. NInv /\ TInv /\ OnlyLaunchesOverlap /\ [Next]_vars => NInv' /\ FirstToExpireStep
  BY NInvInductive
<1>3. Init => TInv
  BY InitAccounted
<1>4. OnlyLaunchesOverlap => UndoneApart /\ EntriesApart
  BY OverlapsApart
<1>5. TInv /\ UndoneApart /\ EntriesApart /\ [Next]_vars => TInv'
  BY TInvInductive
<1> QED
  BY <1>1, <1>2, <1>3, <1>4, <1>5, PTL DEF Spec, FirstToExpireFirst

-----------------------------------------------------------------------------
(***************************************************************************)
(* The promise, step by step. Where only launches overlap, each commit is  *)
(* a step of StockPromise and no other step shows. What TInv and NInv say  *)
(* of a transaction in flight with an inequality holds there exactly: what *)
(* a sale keeps, misses and still wants are its needs, it misses only what *)
(* no lot has, and a count, an entry and a reversal write what they read.  *)
(***************************************************************************)

\* what the stock is asked and given is among the quantities of the instance
UnitsFit(needs) == \A i \in DOMAIN needs : needs[i].units \in Units

UnitsAllowed ==
    /\ \A needs \in Needs : UnitsFit(needs)
    /\ \A l \in LotIds : Stocked[l] # NoLot => Stocked[l].quantity \in Units

QuantitiesAllowed ==
    /\ \A l \in InStock : lots[l].entry => lots[l].quantity \in Units
    /\ \A o \in Owners : UnitsFit(owners[o].needs)

\* what a sale keeps of a supply, misses and still wants
AddsUp(t, u) ==
    /\ KeepsOf(t, u) + t.short[u] + NeedIn(t.todo, u) = NeedIn(t.needs, u)
    /\ t.short[u] > 0 => \A l \in LotsIn(u) : Leaves(t, l) = 0

SaleExact(t) ==
    /\ UnitsFit(t.needs)
    /\ t.op = "remove" => t.needs = <<>>
    /\ t.op \in Launches => t.dropped = {}
    /\ \A r \in oversales : r.id \in t.dropped => r.owner = t.owner
    /\ Distinct(t.todo)
    /\ \A i \in DOMAIN t.todo : t.short[t.todo[i].supply] = 0
    /\ t.live /\ t.pc \in {"moving", "locked"} => \A u \in Supplies : AddsUp(t, u)

CountExact(t) ==
    /\ t.quantity \in Units
    /\ \A r \in oversales : r.id \in t.dropped <=> r.supply = t.supply
    /\ \A l \in InStock : lots[l].supply # t.supply => t.plan[l] = 0 /\ t.change[l] = 0
    /\ t.pc = "moving" =>
          SumOf([l \in InStock |-> Leaves(t, l)], LotsIn(t.supply)) + t.surplus = t.quantity

EntryExact(t) ==
    t.quantity \in Units /\ t.covers = SettleOversales(OversalesOn(t.supply), t.quantity)

ReversalExact(t) ==
    lots[t.lot].remaining = lots[t.lot].quantity /\ lots[t.lot].quantity \in Units

Exact(t) ==
    /\ t.op \in SaleOps => SaleExact(t)
    /\ t.op = "count" => CountExact(t)
    /\ t.op = "entry" => EntryExact(t)
    /\ t.op = "reverse" => ReversalExact(t)

AllExact == \A s \in Sessions : Exact(tx[s])

WInv == TInv /\ NInv /\ QuantitiesAllowed /\ AllExact

\* What holds of a transaction held still holds of the row it is.
LEMMA ExactOf ==
  ASSUME NEW r, NEW t, t = tx'[r], Exact(t)'
  PROVE  Exact(tx[r])'
<1>1. (t.op \in SaleOps => SaleExact(t)') => (tx'[r].op \in SaleOps => SaleExact(tx[r])')
  BY DEF SaleExact, AddsUp, KeepsOf, Leaves, LotsIn, InStock
<1>2. (t.op = "count" => CountExact(t)') => (tx'[r].op = "count" => CountExact(tx[r])')
  BY DEF CountExact, Leaves, LotsIn, InStock
<1>3. (t.op = "entry" => EntryExact(t)') => (tx'[r].op = "entry" => EntryExact(tx[r])')
  BY DEF EntryExact, OversalesOn
<1>4. (t.op = "reverse" => ReversalExact(t)') => (tx'[r].op = "reverse" => ReversalExact(tx[r])')
  BY DEF ReversalExact
<1> QED
  BY <1>1, <1>2, <1>3, <1>4 DEF Exact

\* A step that writes no table.
LEMMA ExactUntouched ==
  ASSUME UNCHANGED <<lots, taken, oversales, owners>>, NEW t, Exact(t)
  PROVE  Exact(t)'
<1>1. /\ lots' = lots /\ taken' = taken /\ oversales' = oversales
  OBVIOUS
<1>2. InStock' = InStock /\ \A u : LotsIn(u)' = LotsIn(u)
  BY <1>1 DEF LotsIn, InStock
<1>3. \A l : Leaves(t, l)' = Leaves(t, l)
  BY <1>1 DEF Leaves
<1>4. \A u : KeepsOf(t, u)' = KeepsOf(t, u)
  BY <1>1, <1>2 DEF KeepsOf
<1>5. SaleExact(t) => SaleExact(t)'
  BY <1>1, <1>2, <1>3, <1>4 DEF SaleExact, AddsUp
<1>6. CountExact(t) => CountExact(t)'
  BY <1>1, <1>2, <1>3 DEF CountExact
<1>7. EntryExact(t) => EntryExact(t)'
  BY <1>1 DEF EntryExact, OversalesOn
<1>8. ReversalExact(t) => ReversalExact(t)'
  BY <1>1 DEF ReversalExact
<1> QED
  BY <1>5, <1>6, <1>7, <1>8 DEF Exact

\* A step of one transaction that writes no table.
LEMMA StaysExact ==
  ASSUME WInv, TInv', NInv', NEW s \in Sessions, NEW n, tx' = [tx EXCEPT ![s] = n],
         UNCHANGED Tables, Exact(n)
  PROVE  WInv'
<1>1. tx'[s] = n /\ \A r \in Sessions \ {s} : tx'[r] = tx[r]
  BY DEF WInv, NInv, IInv, TypeOK
<1>2. UNCHANGED <<lots, taken, oversales, owners>>
  BY DEF Tables
<1>3. QuantitiesAllowed'
  BY <1>2 DEF WInv, QuantitiesAllowed, InStock
<1>4. ASSUME NEW r \in Sessions
      PROVE  Exact(tx[r])'
  <2>1. PICK t : t = tx'[r]
    OBVIOUS
  <2>2. Exact(t)
    BY <1>1, <2>1 DEF WInv, AllExact
  <2>3. Exact(t)'
    BY <1>2, <2>2, ExactUntouched
  <2> QED
    BY <2>1, <2>3, ExactOf
<1> QED
  BY <1>3, <1>4 DEF WInv, AllExact

\* A commit, told by what it leaves of the others.
LEMMA EndsExact ==
  ASSUME WInv, TInv', NInv', NEW s \in Sessions, tx' = [tx EXCEPT ![s] = Idle],
         QuantitiesAllowed',
         \A r \in Sessions \ {s} : \E t : t = tx[r] /\ (t = Idle \/ Exact(t)')
  PROVE  WInv'
<1>1. tx'[s] = Idle /\ \A r \in Sessions \ {s} : tx'[r] = tx[r]
  BY DEF WInv, NInv, IInv, TypeOK
<1>2. Idle.op = "idle" /\ "idle" \notin SaleOps
  BY DEF Idle, SaleOps
<1>3. ASSUME NEW t, t = Idle
      PROVE  Exact(t)'
  BY <1>2, <1>3 DEF Exact
<1>4. ASSUME NEW r \in Sessions
      PROVE  Exact(tx[r])'
  <2>1. PICK t : t = tx'[r] /\ Exact(t)'
    BY <1>1, <1>3
  <2> QED
    BY <2>1, ExactOf
<1> QED
  BY <1>4 DEF WInv, AllExact

\* A sale that took nothing yet, and wants all its needs, adds up.
LEMMA OpensExact ==
  ASSUME NEW t \in Sale, NEW u \in Supplies, t.todo = t.needs, t.short[u] = 0,
         \A l \in LotIds : taken[t.owner][l] - t.change[l] - t.plan[l] = 0
  PROVE  AddsUp(t, u)
<1>1. KeepsOf(t, u) = 0
  BY KeepsNothing
<1>2. t.needs \in Seq(SaleNeed)
  BY DEF Sale
<1>3. NeedIn(t.needs, u) \in Nat
  BY <1>2, NeedType
<1> QED
  BY <1>1, <1>3 DEF AddsUp

(***************************************************************************)
(* One lemma for each step that commits nothing.                           *)
(***************************************************************************)

\* A sale begins exact.
LEMMA SaleBeginsExact ==
  ASSUME WInv, TInv', NInv', NEW s \in Sessions, NEW op \in SaleOps,
         NEW pc \in {"start", "drop", "moving"}, NEW o \in Owners,
         NEW needs \in Seq(SaleNeed), Begins(s, SaleOf(op, pc, o, needs)),
         Distinct(needs), UnitsFit(needs),
         op = "remove" => needs = <<>>,
         pc = "moving" /\ live => owners[o].state = "ABSENT"
  PROVE  WInv'
<1>1. PICK n : n = SaleOf(op, pc, o, needs)
  OBVIOUS
<1>2. /\ n.op = op /\ n.owner = o /\ n.pc = pc /\ n.live = live /\ n.needs = needs
      /\ n.todo = (IF live THEN needs ELSE <<>>)
      /\ n.plan = NoChange /\ n.change = NoChange /\ n.dropped = {}
      /\ n.short = [u \in Supplies |-> 0]
  BY <1>1 DEF SaleOf
<1>3. tx' = [tx EXCEPT ![s] = n] /\ UNCHANGED Tables
  BY <1>1 DEF Begins, Opens
<1>4. n \in Sale /\ n.op \in SaleOps
  <2>1. TypeOK /\ pc \in {"start", "drop", "moves", "moving"}
    BY DEF WInv, NInv, IInv
  <2>2. n \in Transaction /\ n.op \in SaleOps
    BY <1>1, <2>1, SaleOfSound
  <2> QED
    BY <2>2, Kinds
<1>5. ASSUME NEW u \in Supplies, n.live, n.pc \in {"moving", "locked"}
      PROVE  AddsUp(n, u)
  <2>1. owners[o].state = "ABSENT"
    BY <1>2, <1>5
  <2>2. \A l \in LotIds : taken[o][l] = 0
    BY <2>1 DEF WInv, TInv, OwnersSound
  <2>3. \A l \in LotIds : taken[n.owner][l] - n.change[l] - n.plan[l] = 0
    BY <1>2, <2>2 DEF NoChange
  <2>4. n.todo = n.needs /\ n.short[u] = 0
    BY <1>2, <1>5
  <2> QED
    BY <1>4, <2>3, <2>4, OpensExact
<1>6. Distinct(n.todo) /\ \A i \in DOMAIN n.todo : n.short[n.todo[i].supply] = 0
  <2>1. \A i \in DOMAIN needs : needs[i].supply \in Supplies
    <3>1. \A i \in DOMAIN needs : needs[i] \in SaleNeed
      OBVIOUS
    <3> QED
      BY <3>1 DEF SaleNeed
  <2> QED
    BY <1>2, <2>1 DEF Distinct
<1>7. SaleExact(n)
  BY <1>2, <1>5, <1>6 DEF SaleExact
<1>8. Exact(n)
  BY <1>2, <1>7 DEF Exact, SaleOps
<1> QED
  BY <1>3, <1>8, StaysExact

\* BeginCreate, BeginConsume, BeginEdit, BeginCancel, BeginRestore, BeginRemove.
LEMMA SalesBeginExact ==
  ASSUME UnitsAllowed, WInv, TInv', NInv', NEW s \in Sessions,
         \/ BeginCreate(s) \/ BeginConsume(s) \/ BeginEdit(s)
         \/ BeginCancel(s) \/ BeginRestore(s) \/ BeginRemove(s)
  PROVE  WInv'
<1>1. \A o \in Orders \cup Consumptions : o \in Owners
  BY DEF Owners
<1>2. \A needs \in Needs : needs \in Seq(SaleNeed) /\ Distinct(needs) /\ UnitsFit(needs)
  BY StockAssumption DEF Distinct, UnitsAllowed
<1>3. \A o \in Owners :
         /\ owners[o].needs \in Seq(SaleNeed) /\ Distinct(owners[o].needs)
         /\ UnitsFit(owners[o].needs)
  BY DEF WInv, QuantitiesAllowed, TInv, RInv, IInv, TypeOK, Owner, OwnersSound
<1>4. <<>> \in Seq(SaleNeed) /\ Distinct(<<>>) /\ UnitsFit(<<>>)
  BY DEF Distinct, UnitsFit
<1>5. /\ FirstPc \in {"start", "drop", "moving"}
      /\ ~(FirstPc = "moving" /\ live)
  BY DEF FirstPc
<1>6. {"create", "edit", "cancel", "restore", "consume", "reconsume", "remove"} = SaleOps
  BY DEF SaleOps
<1>7. CASE BeginCreate(s)
  BY <1>1, <1>2, <1>6, <1>7, SaleBeginsExact DEF BeginCreate
<1>8. CASE BeginConsume(s)
  <2>1. PICK o \in Consumptions, needs \in Needs :
           Unused(o) /\ Begins(s, SaleOf("consume", "moving", o, needs))
    BY <1>8 DEF BeginConsume
  <2>2. owners[o].state = "ABSENT" /\ o \in Owners
    BY <1>1, <2>1 DEF Unused
  <2> QED
    BY <1>2, <1>6, <2>1, <2>2, SaleBeginsExact
<1>9. CASE BeginEdit(s)
  <2>1. PICK o \in Owners, needs \in Needs :
           Begins(s, SaleOf(IF o \in Orders THEN "edit" ELSE "reconsume", "start", o, needs))
    BY <1>9 DEF BeginEdit
  <2>2. PICK op \in {"edit", "reconsume"} : op = IF o \in Orders THEN "edit" ELSE "reconsume"
    OBVIOUS
  <2> QED
    BY <1>2, <1>6, <2>1, <2>2, SaleBeginsExact
<1>10. CASE BeginCancel(s)
  BY <1>1, <1>4, <1>5, <1>6, <1>10, SaleBeginsExact DEF BeginCancel
<1>11. CASE BeginRestore(s)
  BY <1>1, <1>3, <1>5, <1>6, <1>11, SaleBeginsExact DEF BeginRestore
<1>12. CASE BeginRemove(s)
  BY <1>1, <1>4, <1>5, <1>6, <1>12, SaleBeginsExact DEF BeginRemove
<1> QED
  BY <1>7, <1>8, <1>9, <1>10, <1>11, <1>12

\* An entry, a count, a reversal begin with what they read; or anything ends.
LEMMA OthersBeginExact ==
  ASSUME WInv, TInv', NInv', NEW s \in Sessions,
         BeginEntry(s) \/ BeginCount(s) \/ BeginReverse(s) \/ RollBack(s)
  PROVE  WInv'
<1>1. {"entry", "count", "reverse", "idle"} \cap SaleOps = {}
  BY DEF SaleOps
<1>2. CASE BeginEntry(s)
  <2>1. PICK u \in Supplies, quantity \in Units, l \in LotIds, expires \in Expiries :
           Begins(s, [op |-> "entry", lot |-> l, supply |-> u,
                      quantity |-> quantity, expires |-> expires,
                      covers |-> SettleOversales(OversalesOn(u), quantity)])
    BY <1>2 DEF BeginEntry
  <2>2. PICK n : n = [op |-> "entry", lot |-> l, supply |-> u,
                      quantity |-> quantity, expires |-> expires,
                      covers |-> SettleOversales(OversalesOn(u), quantity)]
    OBVIOUS
  <2>3. EntryExact(n) /\ n.op = "entry"
    BY <2>2 DEF EntryExact
  <2>4. Exact(n)
    BY <1>1, <2>3 DEF Exact
  <2> QED
    BY <2>1, <2>2, <2>4, StaysExact DEF Begins, Opens
<1>3. CASE BeginCount(s)
  <2>1. PICK u \in Supplies, quantity \in Units :
           Begins(s, [op |-> "count", pc |-> "read", supply |-> u,
                      quantity |-> quantity, plan |-> NoChange, locked |-> {},
                      change |-> NoChange, dropped |-> IdsOf(OversalesOn(u)), surplus |-> 0])
    BY <1>3 DEF BeginCount
  <2>2. PICK n : n = [op |-> "count", pc |-> "read", supply |-> u,
                      quantity |-> quantity, plan |-> NoChange, locked |-> {},
                      change |-> NoChange, dropped |-> IdsOf(OversalesOn(u)), surplus |-> 0]
    OBVIOUS
  <2>3. /\ n.op = "count" /\ n.pc = "read" /\ n.quantity \in Units /\ n.supply = u
        /\ n.dropped = IdsOf(OversalesOn(u))
        /\ \A l \in LotIds : n.plan[l] = 0 /\ n.change[l] = 0
    BY <2>2 DEF NoChange
  <2>4. \A r \in oversales : r.id \in n.dropped <=> r.supply = n.supply
    BY <2>3 DEF IdsOf, OversalesOn, WInv, TInv, RowsToldApart
  <2>5. CountExact(n)
    BY <2>3, <2>4 DEF CountExact, InStock
  <2>6. Exact(n)
    BY <1>1, <2>3, <2>5 DEF Exact
  <2> QED
    BY <2>1, <2>2, <2>6, StaysExact DEF Begins, Opens
<1>4. CASE BeginReverse(s)
  <2>1. PICK l \in InStock : Reversible(l) /\ Begins(s, [op |-> "reverse", lot |-> l])
    BY <1>4 DEF BeginReverse
  <2>2. PICK n : n = [op |-> "reverse", lot |-> l]
    OBVIOUS
  <2>3. ReversalExact(n) /\ n.op = "reverse"
    BY <2>1, <2>2 DEF ReversalExact, Reversible, WInv, QuantitiesAllowed
  <2>4. Exact(n)
    BY <1>1, <2>3 DEF Exact
  <2> QED
    BY <2>1, <2>2, <2>4, StaysExact DEF Begins, Opens
<1>5. CASE RollBack(s)
  <2>1. PICK n : n = Idle
    OBVIOUS
  <2>2. n.op = "idle"
    BY <2>1 DEF Idle
  <2>3. Exact(n)
    BY <1>1, <2>2 DEF Exact
  <2>4. tx' = [tx EXCEPT ![s] = n] /\ UNCHANGED Tables
    BY <1>5, <2>1 DEF RollBack, Runs
  <2> QED
    BY <2>3, <2>4, StaysExact
<1> QED
  BY <1>2, <1>3, <1>4, <1>5

\* LockFirst, DropOversales, ReadMoves.
LEMMA SaleOpensExact ==
  ASSUME WInv, TInv', NInv', NEW s \in Sessions,
         LockFirst(s) \/ DropOversales(s) \/ ReadMoves(s)
  PROVE  WInv'
<1>1. PICK t : t = tx[s]
  OBVIOUS
<1>2. t.op \in SaleOps
  BY <1>1 DEF LockFirst, DropOversales, ReadMoves, SaleOps
<1>3. t \in Sale /\ AccountFits(t) /\ ReturnFits(t) /\ SaleExact(t)
  <2>1. t \in Transaction /\ AccountFits(t) /\ ReturnFits(t) /\ Exact(t)
    BY <1>1, <1>2 DEF WInv, AllExact, TInv, AccountsFit, RInv, ReturnsFit, IInv, TypeOK
  <2> QED
    BY <1>2, <2>1, Kinds DEF Exact
<1>4. UNCHANGED Tables /\ t.owner \in Owners /\ t.live \in BOOLEAN
  BY <1>3 DEF LockFirst, DropOversales, ReadMoves, Sale
<1>5. ASSUME NEW n, Runs(s, n), n.op = t.op, SaleExact(n)
      PROVE  WInv'
  <2>1. Exact(n)
    BY <1>2, <1>5 DEF Exact, SaleOps
  <2> QED
    BY <1>4, <1>5, <2>1, StaysExact DEF Runs
<1>6. CASE LockFirst(s)
  <2>1. PICK pc \in {"drop", "moving"} :
                  /\ Runs(s, [t EXCEPT !.pc = pc]) /\ t.pc = "start"
                  /\ \/ t.op = "create" /\ pc = "moving"
                     \/ t.op \notin Launches /\ pc = IF t.live THEN "drop" ELSE "moving"
    BY <1>1, <1>6 DEF LockFirst, Launches
  <2>2. PICK n : n = [t EXCEPT !.pc = pc]
    OBVIOUS
  <2>3. /\ n.op = t.op /\ n.owner = t.owner /\ n.pc = pc /\ n.live = t.live
        /\ n.needs = t.needs /\ n.todo = t.todo /\ n.dropped = t.dropped
        /\ n.plan = t.plan /\ n.change = t.change /\ n.short = t.short
    BY <1>3, <2>2 DEF Sale
  <2>4. n \in Sale
    BY <1>3, <2>2 DEF Sale
  <2>5. ASSUME NEW u \in Supplies, n.live, n.pc \in {"moving", "locked"}
        PROVE  AddsUp(n, u)
    <3>1. t.op = "create" /\ owners[t.owner].state = "ABSENT"
      BY <1>1, <2>1, <2>3, <2>5 DEF WInv, TInv, RInv, LaunchedOnce, Launches
    <3>2. \A l \in LotIds : taken[t.owner][l] = 0
      BY <1>4, <3>1 DEF WInv, TInv, OwnersSound
    <3>3. \A l \in LotIds : taken[n.owner][l] - n.change[l] - n.plan[l] = 0
      BY <1>3, <2>1, <2>3, <3>2 DEF ReturnFits
    <3>4. n.todo = n.needs /\ n.short[u] = 0
      BY <1>3, <2>1, <2>3, <2>5 DEF AccountFits
    <3> QED
      BY <2>4, <3>3, <3>4, OpensExact
  <2>6. SaleExact(n)
    BY <1>3, <2>3, <2>5 DEF SaleExact
  <2> QED
    BY <1>5, <2>1, <2>2, <2>3, <2>6
<1>7. CASE DropOversales(s)
  <2>1. PICK ids : /\ Runs(s, [t EXCEPT !.pc = "moves", !.dropped = ids]) /\ t.pc = "drop"
                   /\ ids = IdsOf(OversalesOf(t.owner))
    BY <1>1, <1>7 DEF DropOversales
  <2>2. PICK n : n = [t EXCEPT !.pc = "moves", !.dropped = ids]
    OBVIOUS
  <2>3. /\ n.op = t.op /\ n.owner = t.owner /\ n.pc = "moves" /\ n.live = t.live
        /\ n.needs = t.needs /\ n.todo = t.todo /\ n.dropped = ids /\ n.short = t.short
    BY <1>3, <2>2 DEF Sale
  <2>4. \A r \in oversales : r.id \in ids => r.owner = t.owner
    BY <2>1 DEF IdsOf, OversalesOf, WInv, TInv, RowsToldApart
  <2>5. t.op \notin Launches
    BY <1>3, <2>1 DEF AccountFits
  <2>6. SaleExact(n)
    BY <1>3, <2>3, <2>4, <2>5 DEF SaleExact
  <2> QED
    BY <1>5, <2>1, <2>2, <2>3, <2>6
<1>8. CASE ReadMoves(s)
  <2>1. PICK net : net = NetTakenByLot(taken[t.owner])
    OBVIOUS
  <2>2. PICK n : n = [t EXCEPT !.pc = "moving", !.plan = net]
    OBVIOUS
  <2>3. Runs(s, n) /\ t.pc = "moves"
    BY <1>1, <1>8, <2>1, <2>2 DEF ReadMoves
  <2>4. /\ n.op = t.op /\ n.owner = t.owner /\ n.pc = "moving" /\ n.live = t.live
        /\ n.needs = t.needs /\ n.todo = t.todo /\ n.dropped = t.dropped
        /\ n.plan = net /\ n.change = t.change /\ n.short = t.short
    BY <1>3, <2>2 DEF Sale
  <2>5. /\ net \in [LotIds -> Int]
        /\ \A l \in LotIds : /\ taken[t.owner][l] \in Int
                             /\ net[l] = taken[t.owner][l] /\ t.change[l] = 0
    <3>1. taken[t.owner] \in [LotIds -> Int]
      BY <1>4 DEF WInv, NInv, IInv, TypeOK, Holders
    <3>2. \A l \in LotIds : taken[t.owner][l] >= 0
      BY <1>4 DEF WInv, TInv, RInv, ReturnsOnlyWhatWasTaken
    <3>3. DOMAIN net = LotIds /\ \A l \in LotIds : net[l] = AtLeast0(taken[t.owner][l])
      BY <2>1, <3>1 DEF NetTakenByLot
    <3>4. \A l \in LotIds : net[l] = taken[t.owner][l]
      BY <3>1, <3>2, <3>3 DEF AtLeast0
    <3>5. net = [l \in LotIds |-> net[l]]
      BY <2>1, <3>1 DEF NetTakenByLot
    <3> QED
      BY <1>3, <2>3, <3>1, <3>4, <3>5 DEF ReturnFits
  <2>6. n \in Sale
    BY <1>3, <2>2, <2>5 DEF Sale
  <2>7. \A l \in LotIds : taken[n.owner][l] - n.change[l] - n.plan[l] = 0
    BY <2>4, <2>5
  <2>8. t.live
    BY <1>3, <1>4, <2>3 DEF AccountFits
  <2>9. n.todo = n.needs /\ \A u \in Supplies : n.short[u] = 0
    BY <1>3, <2>3, <2>4, <2>8 DEF AccountFits
  <2>10. \A u \in Supplies : AddsUp(n, u)
    BY <2>6, <2>7, <2>9, OpensExact
  <2>11. SaleExact(n)
    BY <1>3, <2>4, <2>10 DEF SaleExact
  <2> QED
    BY <1>5, <2>3, <2>4, <2>11
<1> QED
  BY <1>6, <1>7, <1>8

\* The sale or the count n is t, its plan as it was or partly written.
GoesOn(t, n) ==
    /\ n.op = t.op
    /\ t.op \in SaleOps =>
          /\ n.owner = t.owner /\ n.live = t.live /\ n.needs = t.needs
          /\ n.todo = t.todo /\ n.dropped = t.dropped /\ n.short = t.short
    /\ t.op = "count" =>
          /\ n.pc = "moving" /\ n.supply = t.supply /\ n.quantity = t.quantity
          /\ n.dropped = t.dropped /\ n.surplus = t.surplus
    /\ n.plan \in [LotIds -> Int] /\ n.change \in [LotIds -> Int]
    /\ \A l \in LotIds : /\ n.change[l] + n.plan[l] = t.change[l] + t.plan[l]
                         /\ t.plan[l] = 0 => n.plan[l] = 0 /\ n.change[l] = t.change[l]

\* MoveLot, LockLots: what is planned of a lot is written to it, or nothing is.
LEMMA GoesOnExact ==
  ASSUME WInv, TInv', NInv', NEW s \in Sessions, MoveLot(s) \/ LockLots(s)
  PROVE  WInv'
<1>1. PICK t : t = tx[s]
  OBVIOUS
<1>2. /\ t \in Sale \/ t \in StockCount
      /\ t.plan \in [LotIds -> Int] /\ t.change \in [LotIds -> Int]
      /\ t.op \in SaleOps \cup {"count"}
      /\ t.op \in SaleOps => t \in Sale
  <2>1. Moving(s) /\ t \in Transaction
    BY <1>1 DEF MoveLot, LockLots, NextNeed, Moving, WInv, NInv, IInv, TypeOK
  <2> QED
    BY <1>1, <2>1, Kinds, MovingType DEF WInv, NInv, IInv
<1>3. UNCHANGED Tables /\ Exact(t) /\ t.pc = "moving" /\ IInv
  BY <1>1 DEF MoveLot, LockLots, NextNeed, WInv, AllExact, NInv
<1>4. \A l \in InStock : l \in LotIds /\ lots[l].remaining \in Int
  BY <1>3, InStockType DEF IInv
<1>5. PICK n : tx' = [tx EXCEPT ![s] = n] /\ GoesOn(t, n)
  <2>1. CASE MoveLot(s)
    <3>1. PICK l \in LotIds :
             /\ t.plan[l] # 0
             /\ tx' = [tx EXCEPT ![s] = [t EXCEPT !.plan[l] = 0, !.locked = @ \cup {l},
                                                  !.change[l] = @ + t.plan[l]]]
      BY <1>1, <2>1 DEF MoveLot, Planned, Runs
    <3>2. PICK n : n = [t EXCEPT !.plan[l] = 0, !.locked = @ \cup {l},
                                 !.change[l] = @ + t.plan[l]]
      OBVIOUS
    <3>3. /\ n.op = t.op /\ n.pc = "moving"
          /\ n.plan = [t.plan EXCEPT ![l] = 0]
          /\ n.change = [t.change EXCEPT ![l] = @ + t.plan[l]]
      <4>1. CASE t \in Sale
        BY <1>3, <3>2, <4>1 DEF Sale
      <4>2. CASE t \in StockCount
        BY <1>3, <3>2, <4>2 DEF StockCount
      <4> QED
        BY <1>2, <4>1, <4>2
    <3>4. t.op \in SaleOps =>
             /\ n.owner = t.owner /\ n.live = t.live /\ n.needs = t.needs
             /\ n.todo = t.todo /\ n.dropped = t.dropped /\ n.short = t.short
      BY <1>2, <3>2 DEF Sale
    <3>5. t.op = "count" =>
             /\ n.supply = t.supply /\ n.quantity = t.quantity
             /\ n.dropped = t.dropped /\ n.surplus = t.surplus
      <4>1. t.op = "count" => t \in StockCount
        BY <1>2 DEF Sale, SaleOps
      <4> QED
        BY <3>2, <4>1 DEF StockCount
    <3>6. PICK b \in Int, c \in Int : b = t.plan[l] /\ c = t.change[l]
      BY <1>2
    <3>7. n.plan \in [LotIds -> Int] /\ n.change \in [LotIds -> Int]
      <4>1. c + b \in Int
        BY <3>6
      <4> QED
        BY <1>2, <3>3, <3>6, <4>1
    <3>8. \A k \in LotIds : /\ n.change[k] + n.plan[k] = t.change[k] + t.plan[k]
                            /\ t.plan[k] = 0 => n.plan[k] = 0 /\ n.change[k] = t.change[k]
      <4> TAKE k \in LotIds
      <4>1. CASE k = l
        BY <1>2, <3>1, <3>3, <3>6, <4>1
      <4>2. CASE k # l
        BY <1>2, <3>3, <4>2
      <4> QED
        BY <4>1, <4>2
    <3>9. GoesOn(t, n)
      BY <3>3, <3>4, <3>5, <3>7, <3>8 DEF GoesOn
    <3> QED
      BY <3>1, <3>2, <3>9
  <2>2. CASE LockLots(s)
    <3>1. PICK ids : /\ tx' = [tx EXCEPT ![s] = [t EXCEPT !.pc = "locked", !.locked = ids]]
                     /\ t.op \in SaleOps
      BY <1>1, <2>2 DEF LockLots, NextNeed, Runs
    <3>2. PICK n : n = [t EXCEPT !.pc = "locked", !.locked = ids]
      OBVIOUS
    <3>3. /\ n.op = t.op /\ n.owner = t.owner /\ n.live = t.live /\ n.needs = t.needs
          /\ n.todo = t.todo /\ n.dropped = t.dropped /\ n.short = t.short
          /\ n.plan = t.plan /\ n.change = t.change
      BY <1>2, <3>1, <3>2 DEF Sale
    <3>4. t.op # "count"
      BY <3>1 DEF SaleOps
    <3>5. GoesOn(t, n)
      BY <1>2, <3>3, <3>4 DEF GoesOn
    <3> QED
      BY <3>1, <3>2, <3>5
  <2> QED
    BY <2>1, <2>2
<1>6. ASSUME NEW l \in InStock
      PROVE  Leaves(n, l) = Leaves(t, l)
  <2>1. PICK a, b, c, d, e \in Int :
            /\ a = lots[l].remaining /\ b = t.change[l] /\ c = t.plan[l]
            /\ d = n.change[l] /\ e = n.plan[l]
    BY <1>2, <1>4, <1>5 DEF GoesOn
  <2>2. d + e = b + c
    BY <1>4, <1>5, <2>1 DEF GoesOn
  <2>3. Leaves(t, l) = a + b + c /\ Leaves(n, l) = a + d + e
    BY <2>1 DEF Leaves
  <2> QED
    BY <2>1, <2>2, <2>3
<1>7. ASSUME t.op \in SaleOps
      PROVE  Exact(n)
  <2>1. t \in Sale /\ n \in Sale /\ SaleExact(t)
    <3>1. n \in Transaction /\ n.op \in SaleOps
      BY <1>3, <1>5, <1>7 DEF GoesOn, NInv, IInv, TypeOK
    <3> QED
      BY <1>2, <1>3, <1>7, <3>1, Kinds DEF Exact
  <2>2. \A u \in Supplies : KeepsOf(n, u) = KeepsOf(t, u)
    BY <1>3, <1>5, <1>7, <2>1, KeepsSame DEF GoesOn
  <2>3. \A u \in Supplies : \A l \in LotsIn(u) : Leaves(n, l) = Leaves(t, l)
    BY <1>6 DEF LotsIn
  <2>4. \A u \in Supplies : AddsUp(t, u) => AddsUp(n, u)
    BY <1>5, <1>7, <2>2, <2>3 DEF AddsUp, GoesOn
  <2>5. SaleExact(n)
    BY <1>3, <1>5, <1>7, <2>1, <2>4 DEF SaleExact, GoesOn
  <2> QED
    BY <1>5, <1>7, <2>5 DEF Exact, SaleOps, GoesOn
<1>8. ASSUME t.op = "count"
      PROVE  Exact(n)
  <2>1. CountExact(t)
    BY <1>3, <1>8 DEF Exact
  <2>2. [l \in InStock |-> Leaves(n, l)] = [l \in InStock |-> Leaves(t, l)]
    BY <1>6
  <2>3. \A l \in InStock : lots[l].supply # t.supply => n.plan[l] = 0 /\ n.change[l] = 0
    BY <1>4, <1>5, <2>1 DEF CountExact, GoesOn
  <2>4. CountExact(n)
    BY <1>3, <1>5, <1>8, <2>1, <2>2, <2>3 DEF CountExact, GoesOn
  <2> QED
    BY <1>5, <1>8, <2>4 DEF Exact, SaleOps, GoesOn
<1> QED
  BY <1>2, <1>3, <1>5, <1>7, <1>8, StaysExact

\* PlanSale: the need served adds up, and the others stand.
LEMMA PlanSaleExact ==
  ASSUME WInv, TInv', NInv', NEW s \in Sessions, PlanSale(s)
  PROVE  WInv'
<1>1. PICK t : t = tx[s]
  OBVIOUS
<1>2. PICK n, u : Serves(s, t, n, u)
  BY <1>1, PlanServes DEF WInv
<1>3. SaleExact(t) /\ t \in Sale /\ MovesSound(t) /\ UNCHANGED Tables
  BY <1>1, <1>2 DEF WInv, AllExact, Exact, NInv, AllFlightsSound, FlightSound, Serves
<1>4. /\ t.todo \in Seq(SaleNeed) /\ t.todo # <<>> /\ t.needs \in Seq(SaleNeed)
      /\ t.short \in [Supplies -> Nat]
      /\ t.op \in SaleOps /\ t.pc = "locked" /\ t.live
  BY <1>2, <1>3 DEF Serves, Sale
<1>5. t.short[u] = 0
  <2>1. 1 \in DOMAIN t.todo /\ t.todo[1].supply = u
    BY <1>2, <1>4 DEF Serves
  <2> QED
    BY <1>3, <2>1 DEF SaleExact
<1>6. Distinct(n.todo) /\ \A i \in DOMAIN n.todo : n.short[n.todo[i].supply] = 0
  <2>1. PICK todo, rest : todo = t.todo /\ rest = Tail(t.todo)
    OBVIOUS
  <2>2. todo \in Seq(SaleNeed) /\ todo # <<>> /\ rest \in Seq(SaleNeed)
    <3>1. Tail(t.todo) \in Seq(SaleNeed)
      BY <1>4
    <3> QED
      BY <1>4, <2>1, <3>1
  <2>3. \A i \in DOMAIN rest : i + 1 \in DOMAIN todo /\ i + 1 # 1 /\ rest[i] = todo[i + 1]
    BY <2>1, <2>2
  <2>4. \A i \in DOMAIN todo : todo[i] \in SaleNeed /\ todo[i].supply \in Supplies
    <3>1. \A i \in DOMAIN todo : todo[i] \in SaleNeed
      BY <2>2
    <3> QED
      BY <3>1 DEF SaleNeed
  <2>5. 1 \in DOMAIN todo /\ todo[1].supply = u
    BY <1>2, <2>1, <2>2 DEF Serves
  <2>6. Distinct(todo) /\ \A i \in DOMAIN todo : t.short[todo[i].supply] = 0
    BY <1>3, <2>1 DEF SaleExact
  <2>7. \A i \in DOMAIN rest : rest[i].supply \in Supplies \ {u} /\ t.short[rest[i].supply] = 0
    BY <2>3, <2>4, <2>5, <2>6 DEF Distinct
  <2>8. Distinct(rest)
    <3> SUFFICES ASSUME NEW i \in DOMAIN rest, NEW j \in DOMAIN rest,
                        rest[i].supply = rest[j].supply
                 PROVE  i = j
      BY DEF Distinct
    <3>1. i + 1 = j + 1
      BY <2>3, <2>6 DEF Distinct
    <3>2. i \in Nat /\ j \in Nat
      BY <2>2
    <3> QED
      BY <3>1, <3>2
  <2> QED
    BY <1>2, <2>1, <2>7, <2>8 DEF Serves
<1>7. ASSUME NEW v \in Supplies
      PROVE  AddsUp(n, v)
  <2>1. AddsUp(t, v)
    BY <1>3, <1>4 DEF SaleExact
  <2>2. PICK short \in Nat : /\ short = IF v = u THEN 0 ELSE t.short[v]
                             /\ Balances(t, n, v, short)
    BY <1>2, <1>4 DEF Serves
  <2>3. n.needs = t.needs /\ n.short[v] \in Nat /\ t.short[v] = short
    BY <1>2, <1>5, <2>2 DEF Serves
  <2>4. NeedIn(t.needs, v) \in Nat
    BY <1>4, NeedType
  <2>5. KeepsOf(n, v) + n.short[v] + NeedIn(n.todo, v) = NeedIn(n.needs, v)
    BY <2>1, <2>2, <2>3, <2>4 DEF AddsUp, Balances
  <2>6. ASSUME n.short[v] > 0, NEW l \in LotsIn(v)
        PROVE  Leaves(n, l) = 0
    <3>1. l \in InStock /\ lots[l].supply = v /\ l \in LotIds
      BY DEF LotsIn, InStock
    <3>2. PICK a, c \in Int : a = lots[l].remaining /\ c = t.change[l]
      BY <1>3, <3>1, InStockType DEF WInv, NInv, IInv, Sale
    <3>3. t.plan[l] = 0 /\ a + c >= 0 /\ n.change[l] = c
      BY <1>2, <1>3, <1>4, <3>1, <3>2 DEF MovesSound, Serves
    <3>4. CASE v = u
      <4>1. Seen(s, l) = a + c
        BY <1>1, <3>2 DEF Seen
      <4>2. n.plan[l] = IF a + c > 0 THEN -(a + c) ELSE 0
        BY <1>2, <2>6, <3>4, <4>1 DEF Serves
      <4> QED
        BY <3>2, <3>3, <4>2 DEF Leaves
    <3>5. CASE v # u
      <4>1. n.plan[l] = 0 /\ n.short[v] = t.short[v]
        BY <1>2, <3>1, <3>5 DEF Serves, LotsIn
      <4>2. Leaves(t, l) = 0
        BY <2>1, <2>6, <4>1 DEF AddsUp
      <4> QED
        BY <3>2, <3>3, <4>1, <4>2 DEF Leaves
    <3> QED
      BY <3>4, <3>5
  <2> QED
    BY <2>5, <2>6 DEF AddsUp
<1>8. SaleExact(n)
  BY <1>2, <1>3, <1>6, <1>7 DEF SaleExact, Serves
<1>9. Exact(n)
  BY <1>2, <1>4, <1>8 DEF Exact, SaleOps, Serves
<1> QED
  BY <1>2, <1>3, <1>9, StaysExact DEF Serves, Runs

\* PlanCount: what the count leaves, with the surplus, is what was counted.
LEMMA PlanCountExact ==
  ASSUME WInv, TInv', NInv', NEW s \in Sessions, PlanCount(s)
  PROVE  WInv'
<1>1. PICK t : t = tx[s]
  OBVIOUS
<1>2. t.op = "count" /\ t.pc = "read" /\ UNCHANGED Tables /\ TypeOK
  BY <1>1 DEF PlanCount, WInv, NInv, IInv
<1>3. Moving(s) /\ t \in StockCount /\ CountExact(t) /\ MovesSound(t)
  BY <1>1, <1>2, Kinds DEF Moving, WInv, AllExact, Exact, NInv, AllFlightsSound, FlightSound,
                           TypeOK
<1>4. t.quantity \in Nat /\ t.supply \in Supplies /\ t.change \in [LotIds -> Int]
  BY <1>3 DEF StockCount
<1>5. PICK u, q : u = t.supply /\ q = t.quantity
  OBVIOUS
<1>6. PICK balance : balance = SeenBalance(s, u)
  OBVIOUS
<1>7. PICK D, S : D = DOMAIN balance /\ S = LotsIn(u)
  OBVIOUS
<1>8. /\ IsFiniteSet(D) /\ \A l \in D : balance[l] \in Nat
  BY <1>2, <1>3, <1>4, <1>5, <1>6, <1>7, SeenBalanceType
<1>9. \A l \in InStock : /\ l \in LotIds /\ l \in Nat /\ lots[l].remaining \in Int
                         /\ ExpiryOf[l] \in Nat
  BY <1>2, InStockType
<1>10. \A l \in InStock : /\ lots[l].remaining >= 0 /\ t.change[l] = 0
                          /\ Seen(s, l) = lots[l].remaining
  <2> TAKE l \in InStock
  <2>1. PICK a \in Int : a = lots[l].remaining
    BY <1>9
  <2>2. a >= 0
    BY <2>1 DEF WInv, NInv, NeverNegative
  <2>3. t.change[l] = 0
    BY <1>2, <1>3, <1>9 DEF MovesSound
  <2>4. Seen(s, l) = a + 0
    BY <1>1, <2>1, <2>3 DEF Seen
  <2> QED
    BY <2>1, <2>2, <2>3, <2>4
<1>11. /\ S \in SUBSET InStock /\ S \in SUBSET LotIds /\ IsFiniteSet(S) /\ D \in SUBSET S
       /\ \A l \in D : balance[l] = lots[l].remaining
       /\ \A l \in S \ D : lots[l].remaining = 0
  <2>1. S \in SUBSET InStock /\ S \in SUBSET LotIds
    BY <1>7 DEF LotsIn, InStock
  <2>2. /\ D \in SUBSET S
        /\ \A l \in D : balance[l] = lots[l].remaining
        /\ \A l \in S \ D : ~(lots[l].remaining > 0)
    BY <1>6, <1>7, <1>10 DEF SeenBalance, LotsIn
  <2>3. \A l \in S \ D : lots[l].remaining = 0
    BY <1>9, <1>10, <2>1, <2>2
  <2> QED
    BY <2>1, <2>2, <2>3, FiniteLots
<1>12. PICK total \in Nat : total = SumOf(balance, D)
  BY <1>8, SumOfNat
<1>13. PICK excess, surplus :
          excess = ExcessOf(balance, q) /\ surplus = SurplusOf(balance, q)
  OBVIOUS
<1>14. excess \in Nat /\ surplus \in Nat /\ total - Least(excess, total) + surplus = q
  BY <1>4, <1>5, <1>7, <1>12, <1>13 DEF ExcessOf, SurplusOf, AtLeast0, Least
<1>15. PICK takes : takes = TakeInExpiryOrder(balance, ExpiryOf, excess)
  OBVIOUS
<1>16. DOMAIN takes = D /\ \A l \in D : takes[l] \in Nat
  <2>1. excess \in Int
    BY <1>14
  <2>2. DOMAIN takes = D /\ \A l \in D : takes[l] \in 0 .. balance[l]
    BY <1>7, <1>8, <1>15, <2>1, TakesType
  <2> QED
    BY <1>8, <2>2
<1>17. SumOf(takes, D) = Least(excess, total)
  <2>1. IsFiniteSet(DOMAIN balance) /\ DOMAIN balance \in SUBSET Nat
    BY <1>7, <1>8, <1>9, <1>11
  <2>2. \A l \in DOMAIN balance : balance[l] \in Nat
    BY <1>7, <1>8
  <2>3. \A l \in DOMAIN balance : ExpiryOf[l] \in Nat
    BY <1>7, <1>9, <1>11
  <2> QED
    BY <1>7, <1>12, <1>14, <1>15, <2>1, <2>2, <2>3, TakesAddUp
<1>18. PICK plan : plan = [l \in LotIds |-> IF l \in DOMAIN takes THEN -takes[l] ELSE 0]
  OBVIOUS
<1>19. PICK n : n = [t EXCEPT !.pc = "moving", !.plan = plan, !.surplus = surplus]
  OBVIOUS
<1>20. tx' = [tx EXCEPT ![s] = n]
  BY <1>1, <1>5, <1>6, <1>13, <1>15, <1>18, <1>19 DEF PlanCount, Runs
<1>21. /\ n.op = t.op /\ n.pc = "moving" /\ n.plan = plan /\ n.surplus = surplus
       /\ n.supply = u /\ n.quantity = q /\ n.change = t.change /\ n.dropped = t.dropped
  BY <1>3, <1>5, <1>19 DEF StockCount
<1>22. ASSUME NEW l \in S
       PROVE  Leaves(n, l) = IF l \in D THEN balance[l] - takes[l] ELSE 0
  <2>1. l \in InStock /\ l \in LotIds
    BY <1>11
  <2>2. n.change[l] = 0 /\ n.plan[l] = IF l \in D THEN -takes[l] ELSE 0
    BY <1>10, <1>16, <1>18, <1>21, <2>1
  <2>3. CASE l \in D
    <3>1. PICK a, b \in Nat : a = balance[l] /\ b = takes[l]
      BY <1>8, <1>16, <2>3
    <3>2. lots[l].remaining = a /\ n.plan[l] = -b
      BY <1>11, <2>2, <2>3, <3>1
    <3> QED
      BY <2>2, <2>3, <3>1, <3>2 DEF Leaves
  <2>4. CASE l \notin D
    BY <1>11, <2>2, <2>4 DEF Leaves
  <2> QED
    BY <2>3, <2>4
<1>23. PICK left, w : /\ left = [l \in D |-> balance[l] - takes[l]]
                      /\ w = [l \in InStock |-> Leaves(n, l)]
  OBVIOUS
<1>24. \A l \in D : left[l] \in Int /\ takes[l] \in Int /\ left[l] + takes[l] = balance[l]
  BY <1>8, <1>16, <1>23
<1>25. SumOf(w, S) = SumOf(left, D)
  <2>1. \A l \in D : left[l] \in Int
    BY <1>24
  <2>2. \A l \in D : w[l] = left[l]
    BY <1>11, <1>22, <1>23
  <2>3. \A l \in S \ D : w[l] = 0
    BY <1>11, <1>22, <1>23
  <2> QED
    BY ONLY <1>11, <2>1, <2>2, <2>3, SumOfMore
<1>26. SumOf(left, D) + SumOf(takes, D) = total /\ SumOf(left, D) \in Int
  <2>1. PICK both : both = [l \in D |-> left[l] + takes[l]]
    OBVIOUS
  <2>2. SumOf(both, D) = SumOf(left, D) + SumOf(takes, D)
    <3>1. \A l \in D : left[l] \in Int
      BY <1>24
    <3>2. \A l \in D : takes[l] \in Int
      BY <1>24
    <3> QED
      BY <1>8, <2>1, <3>1, <3>2, SumOfPlus
  <2>3. \A l \in D : both[l] = balance[l]
    BY <1>24, <2>1
  <2>4. SumOf(both, D) = SumOf(balance, D)
    BY <1>8, <2>3, SumOfSame
  <2>5. SumOf(left, D) \in Int
    BY <1>8, <1>24, SumOfType
  <2> QED
    BY <1>12, <2>2, <2>4, <2>5
<1>27. SumOf(w, S) + surplus = q
  <2>1. PICK c \in Int, d \in Int : c = SumOf(left, D) /\ d = Least(excess, total)
    BY <1>12, <1>14, <1>26 DEF Least
  <2>2. c + d = total /\ total - d + surplus = q
    BY <1>14, <1>17, <1>26, <2>1
  <2>3. c + surplus = q
    BY <1>12, <1>14, <2>1, <2>2
  <2> QED
    BY <1>25, <2>1, <2>3
<1>28. \A l \in InStock : lots[l].supply # u => n.plan[l] = 0 /\ n.change[l] = 0
  <2> TAKE l \in InStock
  <2>1. lots[l].supply # u => l \notin D
    BY <1>7, <1>11 DEF LotsIn
  <2> QED
    BY <1>9, <1>10, <1>16, <1>18, <1>21, <2>1
<1>29. CountExact(n)
  BY <1>2, <1>3, <1>5, <1>7, <1>21, <1>23, <1>27, <1>28 DEF CountExact
<1>30. Exact(n)
  BY <1>2, <1>21, <1>29 DEF Exact, SaleOps
<1> QED
  BY <1>2, <1>20, <1>30, StaysExact

(***************************************************************************)
(* The commits leave the others exact: another launch, or nobody.          *)
(***************************************************************************)

\* A launch in flight is as exact after another has committed.
LEMMA LaunchStaysExact ==
  ASSUME WInv, NeverNegative', NEW s \in Sessions, CommitSale(s),
         NEW old, old = tx[s], old.op \in Launches,
         NEW r \in Sessions \ {s}, NEW t, t = tx[r], t.op \in Launches
  PROVE  Exact(t)'
<1>1. t.op \in SaleOps /\ t \in Sale /\ old.op \in SaleOps /\ IInv /\ NInv
  BY Kinds DEF WInv, NInv, IInv, TypeOK, Launches, SaleOps
<1>2. SaleExact(t) /\ t.owner \in Owners /\ t.owner # old.owner
  BY <1>1 DEF WInv, TInv, RInv, LaunchedOnce, AllExact, Exact, Sale
<1>3. /\ InStock' = InStock
      /\ \A l \in InStock : LotWritten(lots[l], lots'[l], old.change[l])
  BY <1>1, SaleLots
<1>4. taken'[t.owner] = taken[t.owner]
  BY <1>1, <1>2, SaleWrites
<1>5. \A u : LotsIn(u)' = LotsIn(u)
  BY <1>3 DEF LotsIn, LotWritten
<1>6. \A u : KeepsOf(t, u)' = KeepsOf(t, u)
  BY <1>4, <1>5 DEF KeepsOf
<1>7. \A l \in InStock : Leaves(t, l) = 0 => Leaves(t, l)' = 0
  BY <1>1, LaunchUndisturbed
<1>8. ASSUME NEW u, AddsUp(t, u)
      PROVE  AddsUp(t, u)'
  <2>1. \A l \in LotsIn(u) : l \in InStock
    BY DEF LotsIn
  <2>2. t.short[u] > 0 => \A l \in LotsIn(u) : Leaves(t, l)' = 0
    BY <1>7, <1>8, <2>1 DEF AddsUp
  <2>3. t.short[u] > 0 => \A l \in LotsIn(u)' : Leaves(t, l)' = 0
    BY <1>5, <2>2
  <2>4. KeepsOf(t, u)' + t.short[u] + NeedIn(t.todo, u) = NeedIn(t.needs, u)
    BY <1>6, <1>8 DEF AddsUp
  <2> QED
    BY <2>3, <2>4 DEF AddsUp
<1>9. SaleExact(t)'
  BY <1>2, <1>8 DEF SaleExact
<1> QED
  BY <1>1, <1>9 DEF Exact, SaleOps

\* The commit of a sale leaves the others' accounts exact.
LEMMA CommitSaleExact ==
  ASSUME WInv, TInv', NInv', OnlyLaunchesOverlap, NEW s \in Sessions, CommitSale(s)
  PROVE  WInv'
<1>1. PICK t : t = tx[s]
  OBVIOUS
<1>2. /\ t.op \in SaleOps /\ t # Idle /\ tx' = [tx EXCEPT ![s] = Idle]
      /\ t \in Sale /\ SaleExact(t) /\ IInv
  BY <1>1, Kinds DEF CommitSale, Idle, SaleOps, Runs, WInv, AllExact, Exact, NInv, IInv, TypeOK
<1>3. /\ InStock' = InStock
      /\ \A l \in InStock : LotWritten(lots[l], lots'[l], t.change[l])
  BY <1>1, <1>2, SaleLots
<1>4. /\ t.owner \in Owners
      /\ \A o \in Owners \ {t.owner} : owners'[o] = owners[o]
      /\ owners'[t.owner] = OwnerAfter(t)
  BY <1>1, <1>2, SaleWrites
<1>5. UnitsFit(OwnerAfter(t).needs)
  <2>1. PICK row, told : /\ row = owners[t.owner] /\ row \in Owner /\ UnitsFit(row.needs)
                         /\ told = IF t.live THEN t.needs ELSE row.told
    BY <1>2, <1>4 DEF WInv, QuantitiesAllowed, IInv, TypeOK
  <2>2. UnitsFit(t.needs)
    BY <1>2 DEF SaleExact
  <2>3. PICK after : after = OwnerAfter(t)
    OBVIOUS
  <2>4. \/ after = [row EXCEPT !.state = "CANCELED", !.told = told]
        \/ after = [row EXCEPT !.state = "ACTIVE", !.told = told]
        \/ after = [row EXCEPT !.state = "DELETED", !.told = told]
        \/ after = [row EXCEPT !.needs = t.needs, !.told = told]
        \/ after = [state |-> "ACTIVE", needs |-> t.needs, told |-> told]
    BY <1>2, <2>1, <2>3 DEF OwnerAfter, SaleOps
  <2>5. \A state \in {"CANCELED", "ACTIVE", "DELETED"} :
          [row EXCEPT !.state = state, !.told = told].needs = row.needs
    BY <2>1 DEF Owner
  <2>6. /\ [row EXCEPT !.needs = t.needs, !.told = told].needs = t.needs
        /\ [state |-> "ACTIVE", needs |-> t.needs, told |-> told].needs = t.needs
    BY <2>1 DEF Owner
  <2>7. after.needs = row.needs \/ after.needs = t.needs
    BY <2>4, <2>5, <2>6
  <2> QED
    BY <2>1, <2>2, <2>3, <2>7
<1>6. QuantitiesAllowed'
  <2>1. \A l \in InStock' : lots'[l].entry => lots'[l].quantity \in Units
    BY <1>3 DEF LotWritten, WInv, QuantitiesAllowed
  <2>2. \A o \in Owners : UnitsFit(owners'[o].needs)
    BY <1>4, <1>5 DEF WInv, QuantitiesAllowed
  <2> QED
    BY <2>1, <2>2 DEF QuantitiesAllowed
<1>7. ASSUME NEW r \in Sessions \ {s}
      PROVE  \E n : n = tx[r] /\ (n = Idle \/ Exact(n)')
  <2>1. PICK n : n = tx[r]
    OBVIOUS
  <2>2. CASE n # Idle
    <3>1. t.op \in Launches /\ n.op \in Launches
      BY <1>1, <1>2, <2>1, <2>2 DEF OnlyLaunchesOverlap
    <3>2. NeverNegative'
      BY DEF NInv
    <3>3. Exact(n)'
      BY <1>1, <2>1, <3>1, <3>2, LaunchStaysExact
    <3> QED
      BY <2>1, <3>3
  <2> QED
    BY <2>1, <2>2
<1> QED
  BY <1>2, <1>6, <1>7, EndsExact

\* The other commits run alone.
LEMMA CommitsAloneExact ==
  ASSUME WInv, TInv', NInv', OnlyLaunchesOverlap, NEW s \in Sessions,
         CommitEntry(s) \/ CommitCount(s) \/ CommitReverse(s)
  PROVE  WInv'
<1>1. PICK t : t = tx[s]
  OBVIOUS
<1>2. /\ t.op \in {"entry", "count", "reverse"} /\ tx' = [tx EXCEPT ![s] = Idle]
      /\ owners' = owners /\ IInv /\ IInv'
  BY <1>1 DEF CommitEntry, CommitCount, CommitReverse, Runs, WInv, NInv
<1>3. \A r \in Sessions \ {s} : tx[r] = Idle
  <2>1. t # Idle /\ t.op \notin Launches
    BY <1>2 DEF Idle, Launches
  <2> QED
    BY <1>1, <2>1, NotLaunchedAlone
<1>4. \A l \in InStock : l \in LotIds /\ lots[l] \in Lot
  BY <1>2, InStockType DEF IInv
<1>5. \A l \in InStock' : lots'[l].entry => lots'[l].quantity \in Units
  <2>1. CASE CommitEntry(s)
    <3>1. /\ t.lot \in LotIds /\ \A l \in LotIds \ {t.lot} : lots'[l] = lots[l]
      BY <1>1, <1>2, <2>1, EntryLots
    <3>2. t.op = "entry" /\ EntryExact(t)
      BY <1>1, <2>1 DEF CommitEntry, WInv, AllExact, Exact
    <3>3. PICK settled : lots' = [lots EXCEPT ![t.lot] =
                                    NewLot(t.supply, t.quantity, t.expires, TRUE, settled)]
      BY <1>1, <2>1 DEF CommitEntry
    <3>4. lots'[t.lot].quantity = t.quantity
      BY <1>2, <3>1, <3>3 DEF NewLot, IInv, TypeOK
    <3>5. t.quantity \in Units
      BY <3>2 DEF EntryExact
    <3> QED
      BY <3>1, <3>4, <3>5 DEF WInv, QuantitiesAllowed, InStock
  <2>2. CASE CommitCount(s)
    <3>1. /\ \A l \in InStock : LotWritten(lots[l], lots'[l], t.change[l])
          /\ \A l \in InStock' \ InStock : ~lots'[l].entry
      BY <1>1, <1>2, <2>2, CountLots
    <3> QED
      BY <3>1 DEF WInv, QuantitiesAllowed, LotWritten
  <2>3. CASE CommitReverse(s)
    <3>1. PICK k : k = t.lot
      OBVIOUS
    <3>2. k \in LotIds /\ lots[k] \in Lot /\ k \in InStock
      BY <1>1, <1>2, <2>3, <3>1, Kinds
         DEF IInv, TypeOK, SoundTransactions, Sound, CommitReverse, Reversal, InStock
    <3>3. lots' = [lots EXCEPT ![k] =
                     [lots[k] EXCEPT !.remaining = 0, !.reversed = TRUE, !.moved = TRUE]]
      BY <1>1, <2>3, <3>1 DEF CommitReverse
    <3>4. /\ lots'[k].entry = lots[k].entry /\ lots'[k].quantity = lots[k].quantity
          /\ \A l \in LotIds \ {k} : lots'[l] = lots[l]
      BY <1>2, <3>2, <3>3 DEF Lot, IInv, TypeOK
    <3> QED
      BY <3>2, <3>4 DEF WInv, QuantitiesAllowed, InStock
  <2> QED
    BY <2>1, <2>2, <2>3
<1>6. QuantitiesAllowed'
  BY <1>2, <1>5 DEF WInv, QuantitiesAllowed
<1> QED
  BY <1>2, <1>3, <1>6, EndsExact

\* The night's end, or nothing at all.
LEMMA NightEndsExact ==
  ASSUME WInv, TInv', NInv', UNCHANGED <<lots, taken, oversales, owners, tx>>
  PROVE  WInv'
<1>1. QuantitiesAllowed'
  BY DEF WInv, QuantitiesAllowed, InStock
<1>2. ASSUME NEW r \in Sessions
      PROVE  Exact(tx[r])'
  <2>1. PICK t : t = tx'[r]
    OBVIOUS
  <2>2. Exact(t)
    BY <2>1 DEF WInv, AllExact
  <2>3. Exact(t)'
    BY <2>2, ExactUntouched
  <2> QED
    BY <2>1, <2>3, ExactOf
<1> QED
  BY <1>1, <1>2 DEF WInv, AllExact

\* Every step keeps it.
LEMMA WInvInductive ==
  UnitsAllowed /\ WInv /\ OnlyLaunchesOverlap /\ [Next]_vars => WInv'
<1> SUFFICES ASSUME UnitsAllowed, WInv, OnlyLaunchesOverlap, [Next]_vars
             PROVE  WInv'
  OBVIOUS
<1>1. TInv' /\ NInv'
  BY TInvInductive, NInvInductive, OverlapsApart DEF WInv
<1>2. CASE UNCHANGED vars \/ NightEnds
  BY <1>1, <1>2, NightEndsExact DEF vars, NightEnds
<1>3. ASSUME NEW s \in Sessions, Asks(s)
      PROVE  WInv'
  BY <1>1, <1>3, SalesBeginExact, OthersBeginExact DEF Asks
<1>4. ASSUME NEW s \in Sessions, Advances(s)
      PROVE  WInv'
  <2>1. CASE CommitSale(s)
    BY <1>1, <2>1, CommitSaleExact
  <2>2. CASE CommitEntry(s) \/ CommitCount(s) \/ CommitReverse(s)
    BY <1>1, <2>2, CommitsAloneExact
  <2>3. CASE LockFirst(s) \/ DropOversales(s) \/ ReadMoves(s)
    BY <1>1, <2>3, SaleOpensExact
  <2>4. CASE MoveLot(s) \/ LockLots(s)
    BY <1>1, <2>4, GoesOnExact
  <2>5. CASE PlanSale(s) \/ PlanCount(s)
    BY <1>1, <2>5, PlanSaleExact, PlanCountExact
  <2> QED
    BY <1>4, <2>1, <2>2, <2>3, <2>4, <2>5 DEF Advances
<1>5. ASSUME NEW s \in Sessions, RollBack(s)
      PROVE  WInv'
  BY <1>1, <1>5, OthersBeginExact
<1> QED
  BY <1>2, <1>3, <1>4, <1>5 DEF Next

\* Nothing is in flight at the start, and the stock was entered.
LEMMA InitExact ==
  ASSUME UnitsAllowed
  PROVE  Init => WInv
<1> SUFFICES ASSUME Init PROVE WInv
  OBVIOUS
<1>1. TInv /\ NInv
  BY InitAccounted, InitInOrder
<1>2. Idle.op \notin SaleOps \cup {"count", "entry", "reverse"}
  BY DEF Idle, SaleOps
<1>3. AllExact
  BY <1>2 DEF Init, AllExact, Exact
<1>4. QuantitiesAllowed
  BY DEF Init, UnitsAllowed, QuantitiesAllowed, InStock, UnitsFit
<1> QED
  BY <1>1, <1>3, <1>4 DEF WInv

(***************************************************************************)
(* The steps of StockPromise, told by what they make of one supply and one *)
(* owner.                                                                  *)
(***************************************************************************)
BalanceOf(u) == SumOf([l \in InStock |-> lots[l].remaining], LotsIn(u))

\* The owners of set `some` keep and owe what they did.
SameFor(some) ==
    \A p \in some, u \in Supplies : TookOf(p, u)' = TookOf(p, u) /\ OwesOf(p, u)' = OwesOf(p, u)

\* What the promise keeps, by its names here.
LEMMA PromisedState ==
  /\ Promise!Holders = Holders
  /\ \A w, S : Promise!SumOf(w, S) = SumOf(w, S)
<1>1. Promise!Holders = Holders
  BY DEF Promise!Holders, Holders
<1>2. ASSUME NEW w, NEW S
      PROVE  Promise!SumOf(w, S) = SumOf(w, S)
  BY DEF Promise!SumOf, SumOf, Promise!MapThenSumSet, MapThenSumSet,
         Promise!MapThenFoldSet, MapThenFoldSet
<1> QED
  BY <1>1, <1>2

\* No supply's balance changes, and no owner's account.
LEMMA Stutters ==
  ASSUME \A u \in Supplies : BalanceOf(u)' = BalanceOf(u), SameFor(Holders)
  PROVE  UNCHANGED Promise!pvars
<1>1. [u \in Supplies |-> SumOf([l \in InStock |-> lots[l].remaining], LotsIn(u))]'
        = [u \in Supplies |-> SumOf([l \in InStock |-> lots[l].remaining], LotsIn(u))]
  BY DEF BalanceOf
<1>2. [o \in Holders |-> [u \in Supplies |-> TookOf(o, u)]]'
        = [o \in Holders |-> [u \in Supplies |-> TookOf(o, u)]]
  BY DEF SameFor
<1>3. [o \in Holders |-> [u \in Supplies |-> OwesOf(o, u)]]'
        = [o \in Holders |-> [u \in Supplies |-> OwesOf(o, u)]]
  BY DEF SameFor
<1> QED
  BY <1>1, <1>2, <1>3 DEF Promise!pvars

\* An owner's sale, whole.
LEMMA Syncs ==
  ASSUME NEW o \in Owners, NEW need \in [Supplies -> Nat],
         NEW took \in [Supplies -> Int],
         \A u \in Supplies :
            /\ BalanceOf(u) \in Int /\ TookOf(o, u) \in Int
            /\ took[u] = Least(need[u], BalanceOf(u) + TookOf(o, u))
            /\ BalanceOf(u)' = BalanceOf(u) + TookOf(o, u) - took[u]
            /\ TookOf(o, u)' = took[u]
            /\ OwesOf(o, u)' = need[u] - took[u],
         SameFor(Holders \ {o})
  PROVE  Promise!Sync(o, need)
<1> DEFINE Bal == [u \in Supplies |-> SumOf([l \in InStock |-> lots[l].remaining], LotsIn(u))]
           Held == [p \in Holders |-> [u \in Supplies |-> TookOf(p, u)]]
           Owed == [p \in Holders |-> [u \in Supplies |-> OwesOf(p, u)]]
           There == [u \in Supplies |-> Bal[u] + Held[o][u]]
           Took == [u \in Supplies |-> Promise!Smaller(need[u], There[u])]
<1>1. o \in Holders
  BY DEF Holders
<1>2. \A u \in Supplies : There[u] = BalanceOf(u) + TookOf(o, u)
  BY <1>1 DEF BalanceOf
<1>3. Took = took
  <2>1. \A u \in Supplies : took[u] = Promise!Smaller(need[u], There[u])
    <3> HIDE DEF There
    <3> QED
      BY <1>2 DEF Promise!Smaller, Least
  <2> HIDE DEF There
  <2> QED
    BY <2>1
<1>4. Bal' = [u \in Supplies |-> There[u] - Took[u]]
  <2>1. Bal' = [u \in Supplies |-> BalanceOf(u)']
    BY DEF BalanceOf
  <2>2. \A u \in Supplies : BalanceOf(u)' = There[u] - Took[u]
    <3> HIDE DEF There, Took
    <3> QED
      BY <1>2, <1>3
  <2> HIDE DEF Bal, There, Took
  <2> QED
    BY <2>1, <2>2
<1>5. Held' = [Held EXCEPT ![o] = Took]
  <2> HIDE DEF There, Took
  <2> QED
    BY <1>1, <1>3 DEF SameFor
<1>6. Owed' = [Owed EXCEPT ![o] = [u \in Supplies |-> need[u] - Took[u]]]
  <2> HIDE DEF There, Took
  <2> QED
    BY <1>1, <1>3 DEF SameFor
<1> QED
  BY ONLY <1>4, <1>5, <1>6 DEF Promise!Sync

\* What an entry settles, and what it leaves.
LEMMA Enters ==
  ASSUME NEW u \in Supplies, NEW quantity \in Nat,
         NEW paid \in [Holders -> 0 .. quantity],
         \A p \in Holders : paid[p] <= OwesOf(p, u),
         SumOf(paid, Holders)
            = Least(quantity, SumOf([p \in Holders |-> OwesOf(p, u)], Holders)),
         \A v \in Supplies :
            BalanceOf(v)' = IF v = u THEN BalanceOf(u) + quantity - SumOf(paid, Holders)
                            ELSE BalanceOf(v),
         \A p \in Holders, v \in Supplies :
            /\ TookOf(p, v)' = IF v = u THEN TookOf(p, u) + paid[p] ELSE TookOf(p, v)
            /\ OwesOf(p, v)' = IF v = u THEN OwesOf(p, u) - paid[p] ELSE OwesOf(p, v)
  PROVE  Promise!Enter(u, quantity)
<1> DEFINE Bal == [v \in Supplies |-> SumOf([l \in InStock |-> lots[l].remaining], LotsIn(v))]
           Held == [p \in Holders |-> [v \in Supplies |-> TookOf(p, v)]]
           Owed == [p \in Holders |-> [v \in Supplies |-> OwesOf(p, v)]]
<1>1. /\ Promise!Total(paid) = SumOf(paid, Holders)
      /\ Promise!OwedOf(u) = SumOf([p \in Holders |-> OwesOf(p, u)], Holders)
  <2>1. [p \in Holders |-> Owed[p][u]] = [p \in Holders |-> OwesOf(p, u)]
    OBVIOUS
  <2> QED
    BY <2>1, PromisedState DEF Promise!Total, Promise!OwedOf
<1>2. Bal' = [Bal EXCEPT ![u] = @ + quantity - Promise!Total(paid)]
  BY <1>1 DEF BalanceOf
<1>3. Held' = [p \in Holders |-> [Held[p] EXCEPT ![u] = @ + paid[p]]]
  <2>1. ASSUME NEW p \in Holders
        PROVE  [v \in Supplies |-> TookOf(p, v)'] = [Held[p] EXCEPT ![u] = @ + paid[p]]
    OBVIOUS
  <2> QED
    BY <2>1
<1>4. Owed' = [p \in Holders |-> [Owed[p] EXCEPT ![u] = @ - paid[p]]]
  <2>1. ASSUME NEW p \in Holders
        PROVE  [v \in Supplies |-> OwesOf(p, v)'] = [Owed[p] EXCEPT ![u] = @ - paid[p]]
    OBVIOUS
  <2> QED
    BY <2>1
<1>5. \A p \in Holders : paid[p] <= Owed[p][u]
  OBVIOUS
<1>6. Promise!Total(paid) = Promise!Smaller(quantity, Promise!OwedOf(u))
  BY <1>1 DEF Promise!Smaller, Least
<1>7. paid \in [Promise!Holders -> 0 .. quantity]
  BY PromisedState
<1> QED
  BY <1>2, <1>3, <1>4, <1>5, <1>6, <1>7, PromisedState DEF Promise!Enter

\* A count leaves what it found, and forgives.
LEMMA Counts ==
  ASSUME NEW u \in Supplies, NEW quantity,
         \A v \in Supplies : BalanceOf(v)' = IF v = u THEN quantity ELSE BalanceOf(v),
         \A p \in Holders, v \in Supplies :
            /\ TookOf(p, v)' = TookOf(p, v)
            /\ OwesOf(p, v)' = IF v = u THEN 0 ELSE OwesOf(p, v)
  PROVE  Promise!Count(u, quantity)
<1> DEFINE Bal == [v \in Supplies |-> SumOf([l \in InStock |-> lots[l].remaining], LotsIn(v))]
           Held == [p \in Holders |-> [v \in Supplies |-> TookOf(p, v)]]
           Owed == [p \in Holders |-> [v \in Supplies |-> OwesOf(p, v)]]
<1>1. Bal' = [Bal EXCEPT ![u] = quantity]
  BY DEF BalanceOf
<1>2. Held' = Held
  OBVIOUS
<1>3. Owed' = [p \in Holders |-> [Owed[p] EXCEPT ![u] = 0]]
  <2>1. ASSUME NEW p \in Holders
        PROVE  [v \in Supplies |-> OwesOf(p, v)'] = [Owed[p] EXCEPT ![u] = 0]
    OBVIOUS
  <2> QED
    BY <2>1
<1> QED
  BY <1>1, <1>2, <1>3, PromisedState DEF Promise!Count

\* A reversal takes out what the entry brought.
LEMMA Reverses ==
  ASSUME NEW u \in Supplies, NEW quantity, quantity <= BalanceOf(u),
         \A v \in Supplies : BalanceOf(v)' = IF v = u THEN BalanceOf(u) - quantity
                                             ELSE BalanceOf(v),
         SameFor(Holders)
  PROVE  Promise!Reverse(u, quantity)
<1> DEFINE Bal == [v \in Supplies |-> SumOf([l \in InStock |-> lots[l].remaining], LotsIn(v))]
           Held == [p \in Holders |-> [v \in Supplies |-> TookOf(p, v)]]
           Owed == [p \in Holders |-> [v \in Supplies |-> OwesOf(p, v)]]
<1>1. Bal' = [Bal EXCEPT ![u] = @ - quantity] /\ quantity <= Bal[u]
  BY DEF BalanceOf
<1>2. Held' = Held /\ Owed' = Owed
  BY DEF SameFor
<1> QED
  BY <1>1, <1>2 DEF Promise!Reverse

\* A deletion leaves the owner's account to nobody.
LEMMA Forgets ==
  ASSUME NEW o \in Owners,
         \A u \in Supplies :
            /\ BalanceOf(u)' = BalanceOf(u)
            /\ TookOf(o, u)' = 0 /\ TookOf(None, u)' = TookOf(None, u) + TookOf(o, u)
            /\ OwesOf(o, u)' = 0 /\ OwesOf(None, u)' = OwesOf(None, u) + OwesOf(o, u),
         SameFor(Holders \ {o, None})
  PROVE  Promise!Forget(o)
<1> DEFINE Bal == [v \in Supplies |-> SumOf([l \in InStock |-> lots[l].remaining], LotsIn(v))]
           Held == [p \in Holders |-> [v \in Supplies |-> TookOf(p, v)]]
           Owed == [p \in Holders |-> [v \in Supplies |-> OwesOf(p, v)]]
           HeldByNone == [u \in Supplies |-> Held[None][u] + Held[o][u]]
           OwedByNone == [u \in Supplies |-> Owed[None][u] + Owed[o][u]]
<1>1. o \in Holders /\ None \in Holders /\ o # None
  BY StockAssumption DEF Holders
<1>2. Bal' = Bal
  BY DEF BalanceOf
<1>3. Held' = [Held EXCEPT ![o] = Promise!Nothing, ![None] = [u \in Supplies |-> @[u] + Held[o][u]]]
  <2>1. ASSUME NEW p \in Holders
        PROVE  [u \in Supplies |-> TookOf(p, u)']
                  = [Held EXCEPT ![o] = Promise!Nothing, ![None] = HeldByNone][p]
    BY <1>1 DEF SameFor, Promise!Nothing
  <2> QED
    BY <1>1, <2>1
<1>4. Owed' = [Owed EXCEPT ![o] = Promise!Nothing, ![None] = [u \in Supplies |-> @[u] + Owed[o][u]]]
  <2>1. ASSUME NEW p \in Holders
        PROVE  [u \in Supplies |-> OwesOf(p, u)']
                  = [Owed EXCEPT ![o] = Promise!Nothing, ![None] = OwedByNone][p]
    BY <1>1 DEF SameFor, Promise!Nothing
  <2> QED
    BY <1>1, <2>1
<1> QED
  BY <1>2, <1>3, <1>4 DEF Promise!Forget

(***************************************************************************)
(* A sale's commit.                                                        *)
(***************************************************************************)

\* A list that asks nothing of a supply, or asks once.
LEMMA NeedAsked ==
  ASSUME NEW needs \in Seq(SaleNeed), Distinct(needs), NEW u
  PROVE  \/ /\ NeedIn(needs, u) = 0 /\ \A i \in DOMAIN needs : needs[i].supply # u
         \/ \E i \in DOMAIN needs : needs[i].supply = u /\ NeedIn(needs, u) = needs[i].units
<1>1. PICK S, w : /\ S = {i \in DOMAIN needs : needs[i].supply = u}
                  /\ w = [i \in DOMAIN needs |-> needs[i].units]
  OBVIOUS
<1>2. NeedIn(needs, u) = SumOf(w, S)
  BY <1>1 DEF NeedIn
<1>3. CASE S = {}
  <2>1. SumOf(w, S) = 0
    BY <1>3, SumOfEmpty
  <2> QED
    BY <1>1, <1>2, <1>3, <2>1
<1>4. CASE S # {}
  <2>1. PICK i \in S : TRUE
    BY <1>4
  <2>2. S = {i}
    BY <1>1, <2>1 DEF Distinct
  <2>3. i \in DOMAIN needs /\ needs[i].supply = u /\ w[i] = needs[i].units
    BY <1>1, <2>1
  <2>4. needs[i] \in SaleNeed
    BY <2>3
  <2>5. w[i] \in Int
    BY <2>3, <2>4 DEF SaleNeed
  <2>6. SumOf(w, {i}) = w[i]
    BY <2>5, SumOfOne
  <2> QED
    BY <1>2, <2>2, <2>3, <2>6
<1> QED
  BY <1>3, <1>4

\* What is missing is written, all of it, when it was needed.
LEMMA ShortWritten ==
  ASSUME lastId \in Nat, NEW t \in Sale, Distinct(t.needs), NEW u \in Supplies,
         t.short[u] <= NeedIn(t.needs, u),
         NEW rows, rows = {r \in ShortRows(t) : r.supply = u}
  PROVE  QuantityOf(rows) = t.short[u]
<1>1. t.short[u] \in Nat /\ t.needs \in Seq(SaleNeed)
  BY DEF Sale
<1>2. CASE t.short[u] = 0
  <2>1. rows = {}
    BY <1>2 DEF ShortRows
  <2> QED
    BY <1>2, <2>1, SumOfEmpty DEF QuantityOf
<1>3. CASE t.short[u] > 0
  <2>1. PICK i \in DOMAIN t.needs : t.needs[i].supply = u
    BY <1>1, <1>3, NeedAsked
  <2>2. PICK r : r = [id |-> lastId + i, owner |-> t.owner, supply |-> u,
                      quantity |-> t.short[u]]
    OBVIOUS
  <2>3. r \in rows
    BY <1>3, <2>1, <2>2 DEF ShortRows
  <2>4. \A q \in rows : q = r
    BY <2>1, <2>2 DEF ShortRows, Distinct
  <2>5. rows = {r}
    BY <2>3, <2>4
  <2>6. PICK w : w = [x \in rows |-> x.quantity]
    OBVIOUS
  <2>7. w[r] = t.short[u] /\ w[r] \in Int
    BY <1>1, <2>2, <2>3, <2>6
  <2>8. SumOf(w, {r}) = w[r]
    BY <2>7, SumOfOne
  <2> QED
    BY <2>5, <2>6, <2>7, <2>8 DEF QuantityOf
<1> QED
  BY <1>1, <1>2, <1>3

\* The balance of a supply is a number.
LEMMA BalanceType ==
  ASSUME IInv, NeverNegative, NEW u
  PROVE  BalanceOf(u) \in Nat
<1>1. PICK S, w : S = LotsIn(u) /\ w = [l \in InStock |-> lots[l].remaining]
  OBVIOUS
<1>2. S \in SUBSET LotIds /\ S \subseteq InStock
  BY <1>1 DEF LotsIn, InStock
<1>3. \A l \in S : w[l] \in Nat
  BY <1>1, <1>2, InStockType DEF IInv, NeverNegative
<1>4. SumOf(w, S) \in Nat
  BY <1>2, <1>3, FiniteLots, SumOfNat
<1> QED
  BY <1>1, <1>4 DEF BalanceOf

\* What a sale keeps leaves the balance; what it had comes back.
LEMMA SaleMoves ==
  ASSUME WInv, IInv', NeverNegative', NEW s \in Sessions, CommitSale(s), NEW t, t = tx[s],
         NEW u \in Supplies
  PROVE  /\ BalanceOf(u) \in Nat /\ BalanceOf(u)' \in Nat
         /\ TookOf(t.owner, u) \in Nat /\ KeepsOf(t, u) \in Nat
         /\ BalanceOf(u)' = BalanceOf(u) + TookOf(t.owner, u) - KeepsOf(t, u)
         /\ (\A l \in LotsIn(u) : Leaves(t, l) = 0) => BalanceOf(u)' = 0
<1>1. /\ t \in Sale /\ t.owner \in Owners /\ t.owner \in Holders /\ t.op \in SaleOps
      /\ \A l \in LotIds : t.plan[l] = 0
      /\ InStock' = InStock
      /\ \A l \in InStock : LotWritten(lots[l], lots'[l], t.change[l])
      /\ IInv /\ RInv
  BY SaleWrites, SaleLots DEF WInv, NInv, TInv, CommitSale, Holders
<1>2. \A l \in LotIds : taken[t.owner][l] \in Nat /\ t.change[l] \in Int
  BY <1>1 DEF RInv, ReturnsOnlyWhatWasTaken, IInv, TypeOK, Holders, Sale
<1>3. ReturnFits(t)
  BY <1>1 DEF RInv, ReturnsFit
<1>4. PICK S, w, v, q, k, g :
         /\ S = LotsIn(u) /\ w = [l \in InStock |-> lots[l].remaining]
         /\ v = [l \in InStock' |-> lots'[l].remaining]
         /\ q = taken[t.owner]
         /\ k = [l \in LotIds |-> taken[t.owner][l] - t.change[l] - t.plan[l]]
         /\ g = [l \in LotIds |-> taken[t.owner][l] - k[l]]
  <2>1. PICK k : k = [l \in LotIds |-> taken[t.owner][l] - t.change[l] - t.plan[l]]
    OBVIOUS
  <2> QED
    BY <2>1
<1>5. S \in SUBSET LotIds /\ S \subseteq InStock /\ IsFiniteSet(S) /\ LotsIn(u)' = S
  <2>1. S \in SUBSET LotIds /\ S \subseteq InStock /\ LotsIn(u)' = S
    BY <1>1, <1>4 DEF LotsIn, InStock, LotWritten
  <2> QED
    BY <2>1, FiniteLots
<1>6. ASSUME NEW l \in S
      PROVE  /\ w[l] \in Int /\ v[l] \in Int /\ q[l] \in Nat /\ k[l] \in Nat
             /\ v[l] + k[l] = w[l] + q[l]
             /\ Leaves(t, l) = v[l]
  <2>1. l \in LotIds /\ l \in InStock
    BY <1>5
  <2>2. PICK a \in Int, b \in Nat, c \in Int :
           a = lots[l].remaining /\ b = taken[t.owner][l] /\ c = t.change[l]
    BY <1>1, <1>2, <2>1, InStockType DEF IInv
  <2>3. lots'[l].remaining = a + c
    BY <1>1, <2>1, <2>2 DEF LotWritten
  <2>4. t.plan[l] = 0
    BY <1>1, <2>1
  <2>5. c + AtLeast0(0) <= b
    BY <1>3, <2>1, <2>2, <2>4 DEF ReturnFits
  <2>6. c <= b
    BY <2>2, <2>5 DEF AtLeast0
  <2>7. w[l] = a /\ v[l] = a + c /\ q[l] = b
    BY <1>1, <1>4, <2>1, <2>2, <2>3
  <2>8. k[l] = b - c - 0
    BY <1>4, <2>1, <2>2, <2>4
  <2>9. Leaves(t, l) = a + c + 0
    BY <2>2, <2>4 DEF Leaves
  <2> QED
    BY <2>2, <2>6, <2>7, <2>8, <2>9
<1>7. SumOf(v, S) + SumOf(k, S) = SumOf(w, S) + SumOf(q, S)
  <2>1. /\ \A l \in S : w[l] \in Int
        /\ \A l \in S : v[l] \in Int
        /\ \A l \in S : q[l] \in Int
        /\ \A l \in S : k[l] \in Int
    BY <1>6
  <2>2. PICK x, y : x = [l \in S |-> v[l] + k[l]] /\ y = [l \in S |-> w[l] + q[l]]
    OBVIOUS
  <2>3. \A l \in S : x[l] = y[l]
    BY <1>6, <2>2
  <2>4. SumOf(x, S) = SumOf(y, S)
    BY <1>5, <2>3, SumOfSame
  <2>5. SumOf(x, S) = SumOf(v, S) + SumOf(k, S)
    BY <1>5, <2>1, <2>2, SumOfPlus
  <2>6. SumOf(y, S) = SumOf(w, S) + SumOf(q, S)
    BY <1>5, <2>1, <2>2, SumOfPlus
  <2> QED
    BY <2>4, <2>5, <2>6
<1>8. SumOf(q, S) \in Nat /\ SumOf(k, S) \in Nat
  <2>1. (\A l \in S : q[l] \in Nat) /\ (\A l \in S : k[l] \in Nat)
    BY <1>6
  <2> QED
    BY <1>5, <2>1, SumOfNat
<1>9. /\ BalanceOf(u) = SumOf(w, S) /\ BalanceOf(u)' = SumOf(v, S)
      /\ TookOf(t.owner, u) = SumOf(q, S) /\ KeepsOf(t, u) = SumOf(k, S)
  BY <1>4, <1>5 DEF BalanceOf, TookOf, KeepsOf
<1>10. BalanceOf(u) \in Nat /\ BalanceOf(u)' \in Nat
  <2>1. BalanceOf(u) \in Nat
    BY <1>1, BalanceType DEF WInv, NInv
  <2>2. \A l \in S : v[l] = lots'[l].remaining /\ l \in InStock'
    BY <1>1, <1>4, <1>5
  <2>3. \A l \in S : v[l] \in Nat
    BY <1>6, <2>2 DEF NeverNegative
  <2>4. SumOf(v, S) \in Nat
    BY <1>5, <2>3, SumOfNat
  <2> QED
    BY <1>9, <2>1, <2>4
<1>11. ASSUME \A l \in LotsIn(u) : Leaves(t, l) = 0
       PROVE  BalanceOf(u)' = 0
  <2>1. \A l \in S : v[l] = 0
    BY <1>4, <1>6, <1>11
  <2>2. SumOf(v, S) = 0
    BY <1>5, <2>1, SumOfZero
  <2> QED
    BY <1>9, <2>2
<1>12. \A a, b, c, d \in Nat : a + b = c + d => a = c + d - b
  OBVIOUS
<1> QED
  BY <1>7, <1>8, <1>9, <1>10, <1>11, <1>12

\* A sale that keeps nothing of any supply keeps nothing of any lot.
LEMMA SaleKeepsByLot ==
  ASSUME WInv, NEW s \in Sessions, CommitSale(s), NEW t, t = tx[s],
         \A v \in Supplies : KeepsOf(t, v) = 0, NEW l \in LotIds
  PROVE  taken[t.owner][l] - t.change[l] = 0
<1>1. /\ t \in Sale /\ t.owner \in Owners /\ t.owner \in Holders /\ t.op \in SaleOps
      /\ \A k \in LotIds : t.plan[k] = 0
      /\ IInv /\ RInv
  BY SaleWrites, SaleLots DEF WInv, NInv, TInv, CommitSale, Holders
<1>2. \A k \in LotIds : taken[t.owner][k] \in Nat /\ t.change[k] \in Int
  BY <1>1 DEF RInv, ReturnsOnlyWhatWasTaken, IInv, TypeOK, Holders, Sale
<1>3. ReturnFits(t)
  BY <1>1 DEF RInv, ReturnsFit
<1>4. PICK k : k = [m \in LotIds |-> taken[t.owner][m] - t.change[m] - t.plan[m]]
  OBVIOUS
<1>5. ASSUME NEW m \in LotIds
      PROVE  k[m] \in Nat /\ k[m] = taken[t.owner][m] - t.change[m]
  <2>1. PICK b \in Nat, c \in Int : b = taken[t.owner][m] /\ c = t.change[m]
    BY <1>2
  <2>2. t.plan[m] = 0
    BY <1>1
  <2>3. c + AtLeast0(0) <= b
    BY <1>3, <2>1, <2>2 DEF ReturnFits
  <2>4. c <= b
    BY <2>1, <2>3 DEF AtLeast0
  <2>5. k[m] = b - c - 0
    BY <1>4, <2>1, <2>2
  <2> QED
    BY <2>1, <2>4, <2>5
<1>6. CASE lots[l] = NoLot
  BY <1>1, <1>6 DEF IInv, TakenFromLots, SoundTransactions, Sound
<1>7. CASE lots[l] # NoLot
  <2>1. PICK u \in Supplies : u = lots[l].supply
    BY <1>1, <1>7 DEF IInv, TypeOK, Lot
  <2>2. PICK S : S = LotsIn(u)
    OBVIOUS
  <2>3. l \in S /\ S \in SUBSET LotIds /\ IsFiniteSet(S)
    <3>1. l \in S /\ S \in SUBSET LotIds
      BY <1>7, <2>1, <2>2 DEF LotsIn, InStock
    <3> QED
      BY <3>1, FiniteLots
  <2>4. \A m \in S : k[m] \in Nat
    BY <1>5, <2>3
  <2>5. SumOf(k, S) = 0
    BY <1>4, <2>1, <2>2 DEF KeepsOf
  <2>6. k[l] <= SumOf(k, S)
    BY <2>3, <2>4, SumOfTerm
  <2>7. k[l] \in Nat /\ k[l] = taken[t.owner][l] - t.change[l]
    BY <1>5
  <2> QED
    BY <2>5, <2>6, <2>7
<1> QED
  BY <1>6, <1>7

\* The rows a sale's commit leaves, owner by owner.
LEMMA SaleRowsExact ==
  ASSUME WInv, NEW s \in Sessions, CommitSale(s), NEW t, t = tx[s], NEW o, o = t.owner
  PROVE  /\ \A p \in Owners \ {o} : OversalesOf(p)' = OversalesOf(p)
         /\ t.live \/ t.op # "remove" => OversalesOf(None)' = OversalesOf(None)
         /\ t.live => OversalesOf(o)' = ShortRows(t)
         /\ ~t.live /\ t.op # "remove" => OversalesOf(o)' = OversalesOf(o)
         /\ ~t.live /\ t.op = "remove" =>
               /\ OversalesOf(o)' = {}
               /\ OversalesOf(None)' = OversalesOf(None)
                     \cup {[r EXCEPT !.owner = None] : r \in OversalesOf(o)}
<1>1. /\ t \in Sale /\ o \in Owners /\ o # None /\ None \notin Owners /\ t.op \in SaleOps
      /\ IInv /\ lastId \in Nat /\ oversales \subseteq Oversale
  BY SaleWrites, StockAssumption DEF WInv, NInv, IInv, TypeOK, CommitSale
<1>2. /\ SaleExact(t) /\ AccountFits(t) /\ t.pc = "moving"
  BY <1>1 DEF WInv, AllExact, Exact, TInv, AccountsFit, CommitSale
<1>3. PICK rows : rows = {r \in oversales : r.id \notin t.dropped}
  OBVIOUS
<1>4. oversales' = Disowned(t, rows) \cup ShortRows(t)
  BY <1>3 DEF CommitSale
<1>5. \A r \in ShortRows(t) : r.owner = o
  BY DEF ShortRows
<1>6. \A r \in oversales : r.owner # o => r \in rows
  BY <1>2, <1>3 DEF SaleExact
<1>7. t.live => \A r \in rows : r.owner # o
  BY <1>2, <1>3 DEF AccountFits, IdsOf, OversalesOf
<1>8. t.op = "remove" => ShortRows(t) = {}
  BY <1>2 DEF SaleExact, ShortRows
<1>9. ~t.live => rows = oversales /\ ShortRows(t) = {}
  <2> SUFFICES ASSUME ~t.live PROVE rows = oversales /\ ShortRows(t) = {}
    OBVIOUS
  <2>1. t.dropped = {} /\ \A v \in Supplies : t.short[v] = 0
    BY <1>2 DEF AccountFits
  <2>2. t.needs \in Seq(SaleNeed)
    BY <1>1 DEF Sale
  <2>3. \A i \in DOMAIN t.needs : t.needs[i] \in SaleNeed
    BY <2>2
  <2>4. \A i \in DOMAIN t.needs : t.needs[i].supply \in Supplies
    BY <2>3 DEF SaleNeed
  <2> QED
    BY <1>3, <2>1, <2>4 DEF ShortRows
<1>10. CASE t.live \/ t.op # "remove"
  <2>1. Disowned(t, rows) = rows
    BY <1>7, <1>10 DEF Disowned
  <2>2. oversales' = rows \cup ShortRows(t)
    BY <1>4, <2>1
  <2>3. rows \subseteq oversales
    BY <1>3
  <2>4. ASSUME NEW p, p # o
        PROVE  OversalesOf(p)' = OversalesOf(p)
    BY <1>5, <1>6, <2>2, <2>3, <2>4 DEF OversalesOf
  <2>5. t.live => OversalesOf(o)' = ShortRows(t)
    BY <1>5, <1>7, <2>2 DEF OversalesOf
  <2>6. ~t.live => OversalesOf(o)' = OversalesOf(o)
    BY <1>9, <2>2 DEF OversalesOf
  <2> QED
    BY <1>1, <1>10, <2>4, <2>5, <2>6
<1>11. CASE ~t.live /\ t.op = "remove"
  <2>1. rows = oversales /\ ShortRows(t) = {}
    BY <1>9, <1>11
  <2>2. oversales' = {IF r.owner = o THEN [r EXCEPT !.owner = None] ELSE r : r \in oversales}
    BY <1>4, <1>11, <2>1 DEF Disowned
  <2>3. \A r \in oversales : [r EXCEPT !.owner = None].owner = None
    BY <1>1 DEF Oversale
  <2>4. ASSUME NEW p \in Owners \ {o}
        PROVE  OversalesOf(p)' = OversalesOf(p)
    <3>1. \A r \in oversales' : r.owner = p => r \in oversales
      BY <1>1, <2>2, <2>3
    <3>2. \A r \in oversales : r.owner = p => r \in oversales'
      BY <2>2
    <3> QED
      BY <3>1, <3>2 DEF OversalesOf
  <2>5. OversalesOf(o)' = {}
    BY <1>1, <2>2, <2>3 DEF OversalesOf
  <2>6. OversalesOf(None)' = OversalesOf(None)
            \cup {[r EXCEPT !.owner = None] : r \in OversalesOf(o)}
    <3>1. ASSUME NEW r \in oversales', r.owner = None
          PROVE  r \in OversalesOf(None) \cup {[q EXCEPT !.owner = None] : q \in OversalesOf(o)}
      BY <2>2, <3>1 DEF OversalesOf
    <3>2. ASSUME NEW r \in OversalesOf(None)
          PROVE  r \in oversales' /\ r.owner = None
      BY <1>1, <2>2, <3>2 DEF OversalesOf
    <3>3. ASSUME NEW q \in OversalesOf(o)
          PROVE  [q EXCEPT !.owner = None] \in oversales' /\ [q EXCEPT !.owner = None].owner = None
      BY <2>2, <2>3, <3>3 DEF OversalesOf
    <3>4. PICK C : C = {[q EXCEPT !.owner = None] : q \in OversalesOf(o)}
      OBVIOUS
    <3>5. \A r \in C : r \in oversales' /\ r.owner = None
      BY <3>3, <3>4
    <3>6. \A r : r \in OversalesOf(None)' <=> r \in OversalesOf(None) \cup C
      BY <3>1, <3>2, <3>4, <3>5 DEF OversalesOf
    <3> QED
      BY <3>4, <3>6
  <2> QED
    BY <1>11, <2>4, <2>5, <2>6
<1> QED
  BY <1>10, <1>11

\* What the others took, and owe, does not change.
LEMMA SaleLeavesOthers ==
  ASSUME WInv, IInv', NEW s \in Sessions, CommitSale(s), NEW t, t = tx[s],
         NEW p \in Holders \ {t.owner}, NEW u \in Supplies,
         p = None => t.op # "remove" \/ (t.live /\ \A v \in Supplies : KeepsOf(t, v) = 0)
  PROVE  TookOf(p, u)' = TookOf(p, u) /\ OwesOf(p, u)' = OwesOf(p, u)
<1>1. /\ t \in Sale /\ t.owner \in Owners /\ t.owner # None /\ t.op \in SaleOps
      /\ \A l \in LotIds : t.plan[l] = 0
      /\ \A q \in Owners \ {t.owner} : taken'[q] = taken[q]
      /\ IInv /\ RInv
  BY SaleWrites, SaleLots DEF WInv, NInv, TInv, CommitSale
<1>2. OversalesOf(p)' = OversalesOf(p)
  BY <1>1, SaleRowsExact DEF Holders
<1>3. OwesOf(p, u)' = OwesOf(p, u)
  BY <1>2 DEF OwesOf
<1>4. \A l \in LotIds : taken'[p][l] = taken[p][l]
  <2>1. CASE p # None
    BY <1>1, <2>1 DEF Holders
  <2>2. CASE p = None /\ t.op # "remove"
    <3>1. taken' = [taken EXCEPT ![t.owner] = [l \in LotIds |-> taken[t.owner][l] - t.change[l]]]
      BY <2>2 DEF CommitSale, TakenAfter
    <3> QED
      BY <1>1, <2>2, <3>1 DEF IInv, TypeOK
  <2>3. CASE p = None /\ t.op = "remove" /\ \A v \in Supplies : KeepsOf(t, v) = 0
    <3> SUFFICES ASSUME NEW l \in LotIds PROVE taken'[p][l] = taken[p][l]
      OBVIOUS
    <3>1. PICK mine, nobodys : /\ mine = [k \in LotIds |-> taken[t.owner][k] - t.change[k]]
                               /\ nobodys = [k \in LotIds |-> taken[None][k] + mine[k]]
      <4>1. PICK mine : mine = [k \in LotIds |-> taken[t.owner][k] - t.change[k]]
        OBVIOUS
      <4> QED
        BY <4>1
    <3>2. taken' = [taken EXCEPT ![t.owner] = NoChange, ![None] = nobodys]
      BY <1>1, <2>3, <3>1 DEF CommitSale, TakenAfter, IInv, TypeOK, Holders
    <3>3. taken'[None] = nobodys
      BY <1>1, <3>2 DEF IInv, TypeOK, Holders
    <3>4. PICK a \in Int, b \in Int, c \in Int :
             a = taken[None][l] /\ b = taken[t.owner][l] /\ c = t.change[l]
      BY <1>1 DEF IInv, TypeOK, Holders, Sale
    <3>5. b - c = 0
      BY <1>1, <2>3, <3>4, SaleKeepsByLot
    <3>6. mine[l] = b - c
      BY <3>1, <3>4
    <3>7. nobodys[l] = a + mine[l]
      BY <3>1, <3>4
    <3> QED
      BY <2>3, <3>3, <3>4, <3>5, <3>6, <3>7
  <2> QED
    BY <2>1, <2>2, <2>3
<1>5. TookOf(p, u)' = TookOf(p, u)
  BY <1>1, <1>4, SaleLeavesLots, TookStands DEF IInv, TakenFromLots
<1> QED
  BY <1>3, <1>5

\* What a sale keeps is what its owner then holds, unless it is deleted.
LEMMA SaleTook ==
  ASSUME WInv, NEW s \in Sessions, CommitSale(s), NEW t, t = tx[s], NEW u \in Supplies,
         t.op # "remove" \/ KeepsOf(t, u) = 0
  PROVE  TookOf(t.owner, u)' = KeepsOf(t, u)
<1>1. /\ t \in Sale /\ t.owner \in Holders
      /\ \A l \in LotIds : /\ t.plan[l] = 0
                           /\ taken'[t.owner][l] = IF t.op = "remove" THEN 0
                                                   ELSE taken[t.owner][l] - t.change[l]
      /\ IInv
  BY SaleWrites, SaleLots DEF WInv, NInv, Holders
<1>2. \A l \in LotIds : taken[t.owner][l] \in Int /\ t.change[l] \in Int
  BY <1>1 DEF IInv, TypeOK, Sale
<1>3. PICK S, v, k : /\ S = LotsIn(u) /\ v = taken'[t.owner]
                     /\ k = [l \in LotIds |-> taken[t.owner][l] - t.change[l] - t.plan[l]]
  OBVIOUS
<1>4. S \in SUBSET LotIds /\ IsFiniteSet(S) /\ LotsIn(u)' = S
  <2>1. S \in SUBSET LotIds /\ LotsIn(u)' = S
    BY <1>1, <1>3, SaleLeavesLots DEF LotsIn, InStock
  <2> QED
    BY <2>1, FiniteLots
<1>5. TookOf(t.owner, u)' = SumOf(v, S) /\ KeepsOf(t, u) = SumOf(k, S)
  BY <1>3, <1>4 DEF TookOf, KeepsOf
<1>6. CASE t.op = "remove"
  <2>1. \A l \in S : v[l] = 0
    BY <1>1, <1>3, <1>4, <1>6
  <2>2. SumOf(v, S) = 0
    BY <1>4, <2>1, SumOfZero
  <2> QED
    BY <1>5, <1>6, <2>2
<1>7. CASE t.op # "remove"
  <2>1. \A l \in S : v[l] = k[l]
    <3> TAKE l \in S
    <3>1. PICK b \in Int, c \in Int : b = taken[t.owner][l] /\ c = t.change[l]
      BY <1>2, <1>4
    <3>2. k[l] = b - c - 0 /\ v[l] = b - c
      BY <1>1, <1>3, <1>4, <1>7, <3>1
    <3> QED
      BY <3>1, <3>2
  <2>2. SumOf(v, S) = SumOf(k, S)
    BY <1>4, <2>1, SumOfSame
  <2> QED
    BY <1>5, <2>2
<1> QED
  BY <1>6, <1>7

\* A sale within the night is one step of the promise.
LEMMA LiveSaleIsSync ==
  ASSUME WInv, IInv', NeverNegative', NEW s \in Sessions, CommitSale(s),
         NEW t, t = tx[s], t.live
  PROVE  \E o \in Owners, need \in [Supplies -> Units \cup {0}] : Promise!Sync(o, need)
<1>1. /\ t \in Sale /\ t.owner \in Owners /\ t.owner \in Holders /\ t.op \in SaleOps
      /\ t.pc = "moving" /\ t.todo = <<>> /\ t.owner # None
      /\ IInv /\ RInv /\ lastId \in Nat
  BY SaleWrites DEF WInv, NInv, TInv, CommitSale, Holders, IInv, TypeOK
<1>2. SaleExact(t) /\ AccountFits(t)
  BY <1>1 DEF WInv, AllExact, Exact, TInv, AccountsFit
<1>3. t.needs \in Seq(SaleNeed) /\ Distinct(t.needs) /\ UnitsFit(t.needs)
  BY <1>1, <1>2 DEF Sale, SaleExact, AccountFits
<1>4. PICK need, took : /\ need = [u \in Supplies |-> NeedIn(t.needs, u)]
                        /\ took = [u \in Supplies |-> KeepsOf(t, u)]
  OBVIOUS
<1>5. ASSUME NEW u \in Supplies
      PROVE  NeedIn(t.needs, u) \in Nat /\ NeedIn(t.needs, u) \in Units \cup {0}
  <2>1. NeedIn(t.needs, u) \in Nat
    BY <1>3, NeedType
  <2>2. NeedIn(t.needs, u) \in Units \cup {0}
    BY <1>3, NeedAsked DEF UnitsFit
  <2> QED
    BY <2>1, <2>2
<1>6. ASSUME NEW u \in Supplies
      PROVE  /\ BalanceOf(u) \in Int /\ TookOf(t.owner, u) \in Int
             /\ KeepsOf(t, u) \in Nat
             /\ KeepsOf(t, u) = Least(NeedIn(t.needs, u), BalanceOf(u) + TookOf(t.owner, u))
             /\ BalanceOf(u)' = BalanceOf(u) + TookOf(t.owner, u) - KeepsOf(t, u)
             /\ TookOf(t.owner, u)' = KeepsOf(t, u)
             /\ OwesOf(t.owner, u)' = NeedIn(t.needs, u) - KeepsOf(t, u)
  <2>1. PICK b, c, q, k, n, m :
           /\ b = BalanceOf(u) /\ c = BalanceOf(u)' /\ q = TookOf(t.owner, u)
           /\ k = KeepsOf(t, u) /\ n = NeedIn(t.needs, u) /\ m = t.short[u]
    OBVIOUS
  <2>2. b \in Nat /\ c \in Nat /\ q \in Nat /\ k \in Nat /\ c = b + q - k
    BY <2>1, SaleMoves
  <2>3. n \in Nat /\ m \in Nat
    BY <1>1, <1>5, <2>1 DEF Sale
  <2>4. AddsUp(t, u)
    BY <1>1, <1>2 DEF SaleExact
  <2>5. k + m = n
    <3>1. NeedIn(t.todo, u) = 0
      BY <1>1, NeedOfNone
    <3>2. k + m + 0 = n
      BY <2>1, <2>4, <3>1 DEF AddsUp
    <3> QED
      BY <2>2, <2>3, <3>2
  <2>6. m > 0 => c = 0
    BY <2>1, <2>4, SaleMoves DEF AddsUp
  <2>7. k = Least(n, b + q)
    BY <2>2, <2>3, <2>5, <2>6 DEF Least
  <2>8. TookOf(t.owner, u)' = k
    <3>1. t.op = "remove" => n = 0
      BY <1>2, <2>1, NeedOfNone DEF SaleExact
    <3>2. t.op # "remove" \/ KeepsOf(t, u) = 0
      BY <2>1, <2>2, <2>3, <2>5, <3>1
    <3> QED
      BY <2>1, <3>2, SaleTook
  <2>9. OwesOf(t.owner, u)' = m
    <3>1. OversalesOf(t.owner)' = ShortRows(t)
      BY SaleRowsExact
    <3>2. PICK rows : rows = {r \in ShortRows(t) : r.supply = u}
      OBVIOUS
    <3>3. t.short[u] <= NeedIn(t.needs, u)
      BY <2>1, <2>2, <2>3, <2>5
    <3>4. QuantityOf(rows) = m
      BY <1>1, <1>3, <2>1, <3>2, <3>3, ShortWritten
    <3> QED
      BY <3>1, <3>2, <3>4 DEF OwesOf
  <2> QED
    BY <2>1, <2>2, <2>3, <2>5, <2>7, <2>8, <2>9
<1>7. SameFor(Holders \ {t.owner})
  <2>1. t.op = "remove" => \A v \in Supplies : KeepsOf(t, v) = 0
    <3> SUFFICES ASSUME t.op = "remove", NEW v \in Supplies PROVE KeepsOf(t, v) = 0
      OBVIOUS
    <3>1. NeedIn(t.needs, v) = 0
      BY <1>2, NeedOfNone DEF SaleExact
    <3> QED
      BY <1>6, <3>1 DEF Least
  <2>2. ASSUME NEW p \in Holders \ {t.owner}, NEW u \in Supplies
        PROVE  TookOf(p, u)' = TookOf(p, u) /\ OwesOf(p, u)' = OwesOf(p, u)
    BY <2>1, SaleLeavesOthers
  <2> QED
    BY <2>2 DEF SameFor
<1>8. need \in [Supplies -> Nat] /\ need \in [Supplies -> Units \cup {0}]
  BY <1>4, <1>5
<1>9. took \in [Supplies -> Int]
  BY <1>4, <1>6
<1>10. \A u \in Supplies : need[u] = NeedIn(t.needs, u) /\ took[u] = KeepsOf(t, u)
  BY <1>4
<1>11. Promise!Sync(t.owner, need)
  BY <1>1, <1>6, <1>7, <1>8, <1>9, <1>10, Syncs
<1> QED
  BY <1>1, <1>8, <1>11

\* A sale of a night that ended leaves the balances, and its owner keeps what it had.
LEMMA LateSaleKeeps ==
  ASSUME WInv, IInv', NeverNegative', NEW s \in Sessions, CommitSale(s),
         NEW t, t = tx[s], ~t.live, NEW u \in Supplies
  PROVE  KeepsOf(t, u) = TookOf(t.owner, u) /\ BalanceOf(u)' = BalanceOf(u)
<1>1. t \in Sale /\ t.owner \in Holders /\ t.op \in SaleOps /\ IInv
  BY SaleWrites DEF WInv, NInv, CommitSale, Holders
<1>2. AccountFits(t)
  BY <1>1 DEF WInv, TInv, AccountsFit
<1>3. PICK S, q, k : /\ S = LotsIn(u) /\ q = taken[t.owner]
                     /\ k = [l \in LotIds |-> taken[t.owner][l] - t.change[l] - t.plan[l]]
  OBVIOUS
<1>4. S \in SUBSET LotIds /\ IsFiniteSet(S)
  <2>1. S \in SUBSET LotIds
    BY <1>3 DEF LotsIn, InStock
  <2> QED
    BY <2>1, FiniteLots
<1>5. \A l \in S : k[l] = q[l]
  <2> TAKE l \in S
  <2>1. PICK b \in Int : b = taken[t.owner][l]
    BY <1>1, <1>4 DEF IInv, TypeOK
  <2>2. t.change[l] = 0 /\ t.plan[l] = 0
    BY <1>2, <1>4 DEF AccountFits
  <2>3. k[l] = b - 0 - 0
    BY <1>3, <1>4, <2>1, <2>2
  <2> QED
    BY <1>3, <2>1, <2>3
<1>6. KeepsOf(t, u) = TookOf(t.owner, u)
  <2>1. SumOf(k, S) = SumOf(q, S)
    BY <1>4, <1>5, SumOfSame
  <2> QED
    BY <1>3, <2>1 DEF KeepsOf, TookOf
<1>7. PICK b, c, z : b = BalanceOf(u) /\ c = BalanceOf(u)' /\ z = TookOf(t.owner, u)
  OBVIOUS
<1>8. b \in Nat /\ c \in Nat /\ z \in Nat /\ c = b + z - z
  BY <1>6, <1>7, SaleMoves
<1>9. c = b
  BY <1>8
<1> QED
  BY <1>6, <1>7, <1>9

\* Rows that change hands add up as they did.
LEMMA RowsDisowned ==
  ASSUME IInv, RowsToldApart, NEW o \in Owners, NEW u,
         OversalesOf(None)' = OversalesOf(None)
            \cup {[r EXCEPT !.owner = None] : r \in OversalesOf(o)}
  PROVE  OwesOf(None, u)' = OwesOf(None, u) + OwesOf(o, u)
<1>a. PICK more, A, B : /\ more = {[r EXCEPT !.owner = None] : r \in OversalesOf(o)}
                        /\ A = {r \in OversalesOf(None) : r.supply = u}
                        /\ B = {r \in OversalesOf(o) : r.supply = u}
  OBVIOUS
<1>b. PICK C : C = {r \in OversalesOf(None) \cup more : r.supply = u}
  OBVIOUS
<1>1. /\ oversales \subseteq Oversale /\ IsFiniteSet(oversales)
      /\ \A r, q \in oversales : r.id = q.id => r = q
      /\ None \notin Owners
  BY StockAssumption DEF IInv, TypeOK, RowsToldApart
<1>2. /\ A \in SUBSET oversales /\ B \in SUBSET oversales /\ IsFiniteSet(A) /\ IsFiniteSet(B)
      /\ \A r \in A : r.owner = None
      /\ \A r \in B : r.owner = o
  <2>1. A \in SUBSET oversales /\ B \in SUBSET oversales
    BY <1>a DEF OversalesOf
  <2> QED
    BY <1>1, <1>a, <2>1, FS_Subset DEF OversalesOf
<1>3. PICK f, D : f = [r \in B |-> [r EXCEPT !.owner = None]] /\ D = {f[r] : r \in B}
  <2>1. PICK f : f = [r \in B |-> [r EXCEPT !.owner = None]]
    OBVIOUS
  <2> QED
    BY <2>1
<1>4. \A r \in B : /\ f[r].id = r.id /\ f[r].owner = None /\ f[r].supply = u
                   /\ f[r].quantity = r.quantity
  BY <1>1, <1>2, <1>3, <1>a DEF Oversale, OversalesOf
<1>5. C = A \cup D
  <2>1. \A r \in D : r \in more /\ r.supply = u
    <3> SUFFICES ASSUME NEW q \in B PROVE f[q] \in more /\ f[q].supply = u
      BY <1>3
    <3>1. q \in OversalesOf(o) /\ f[q] = [q EXCEPT !.owner = None]
      BY <1>3, <1>a
    <3> QED
      BY <1>4, <1>a, <3>1
  <2>2. \A r \in more : r.supply = u => r \in D
    <3> SUFFICES ASSUME NEW q \in OversalesOf(o), [q EXCEPT !.owner = None].supply = u
                 PROVE  [q EXCEPT !.owner = None] \in D
      BY <1>a
    <3>1. q.supply = u
      BY <1>1 DEF OversalesOf, Oversale
    <3> QED
      BY <1>3, <1>a, <3>1
  <2> QED
    BY <1>a, <1>b, <2>1, <2>2
<1>6. A \cap D = {}
  <2> SUFFICES ASSUME NEW r \in B, f[r] \in A PROVE FALSE
    BY <1>3
  <2>1. f[r].id = r.id /\ f[r] \in oversales /\ r \in oversales
    BY <1>2, <1>4
  <2>2. f[r] = r
    BY <1>1, <2>1
  <2> QED
    BY <1>1, <1>2, <1>4, <2>2
<1>7. IsFiniteSet(D) /\ IsFiniteSet(C)
  <2>1. IsFiniteSet(D)
    <3>1. D = {f[r] : r \in B} /\ IsFiniteSet(B)
      BY <1>2, <1>3
    <3> QED
      BY ONLY <3>1, FiniteImage
  <2>2. IsFiniteSet(A \cup D)
    BY <1>2, <2>1, FS_Union
  <2> QED
    BY <1>5, <2>1, <2>2
<1>8. PICK v, w, x, y : /\ v = [r \in C |-> r.quantity] /\ w = [r \in B |-> r.quantity]
                        /\ x = [r \in A |-> r.quantity] /\ y = [r \in D |-> r.quantity]
  OBVIOUS
<1>9. /\ \A r \in A : r.quantity \in Int
      /\ \A r \in B : r.quantity \in Int
      /\ \A r \in D : r.quantity \in Int
  <2>1. \A r \in oversales : r.quantity \in Int
    BY <1>1 DEF Oversale
  <2>2. \A r \in B : f[r].quantity \in Int
    BY <1>2, <1>4, <2>1
  <2>3. \A r \in D : r.quantity \in Int
    BY <1>3, <2>2
  <2> QED
    BY <1>2, <2>1, <2>3
<1>10. SumOf(v, C) = SumOf(x, A) + SumOf(w, B)
  <2>1. /\ A \in SUBSET C /\ C \ A = D /\ \A r \in C : v[r] \in Int
    BY <1>5, <1>6, <1>8, <1>9
  <2>2. SumOf(v, C) = SumOf(v, A) + SumOf(v, D)
    BY <1>7, <2>1, SumOfSplit
  <2>3. \A r \in A : v[r] = x[r]
    BY <1>8, <2>1
  <2>4. SumOf(v, A) = SumOf(x, A)
    BY <1>2, <2>3, SumOfSame
  <2>5. \A r \in B : f[r] \in D
    BY <1>3
  <2>6. \A r, q \in B : f[r] = f[q] => r = q
    BY <1>1, <1>2, <1>4
  <2>7. \A z \in D : \E r \in B : f[r] = z
    BY <1>3
  <2>8. \A r \in B : w[r] \in Int
    BY <1>8, <1>9
  <2>9. \A r \in B : v[f[r]] = w[r]
    BY <1>4, <1>5, <1>8, <2>5
  <2>10. SumOf(v, D) = SumOf(w, B)
    <3>1. IsFiniteSet(B) /\ IsFiniteSet(D)
      BY <1>2, <1>7
    <3> QED
      BY ONLY <3>1, <2>5, <2>6, <2>7, <2>8, <2>9, SumOfRenamed
  <2> QED
    BY <2>2, <2>4, <2>10
<1>11. QuantityOf(C) = QuantityOf(A) + QuantityOf(B)
  BY <1>8, <1>10 DEF QuantityOf
<1>12. {r \in OversalesOf(None)' : r.supply = u} = C
  BY <1>a, <1>b
<1> QED
  BY <1>11, <1>12, <1>a DEF OwesOf

\* After the night a sale moves no stock: nothing changes.
LEMMA LateSaleIsNothing ==
  ASSUME WInv, IInv', NeverNegative', NEW s \in Sessions, CommitSale(s),
         NEW t, t = tx[s], ~t.live, t.op # "remove"
  PROVE  UNCHANGED Promise!pvars
<1>1. \A u \in Supplies : /\ BalanceOf(u)' = BalanceOf(u)
                          /\ TookOf(t.owner, u)' = TookOf(t.owner, u)
  BY LateSaleKeeps, SaleTook
<1>2. OversalesOf(t.owner)' = OversalesOf(t.owner)
  BY SaleRowsExact
<1>3. \A u \in Supplies : OwesOf(t.owner, u)' = OwesOf(t.owner, u)
  BY <1>2 DEF OwesOf
<1>4. \A p \in Holders \ {t.owner}, u \in Supplies :
         TookOf(p, u)' = TookOf(p, u) /\ OwesOf(p, u)' = OwesOf(p, u)
  BY SaleLeavesOthers
<1>5. SameFor(Holders)
  BY <1>1, <1>3, <1>4 DEF SameFor
<1> QED
  BY <1>1, <1>5, Stutters

\* After the night a consumption is deleted, and what it took and owes is nobody's.
LEMMA LateRemovalIsForget ==
  ASSUME WInv, IInv', NeverNegative', NEW s \in Sessions, CommitSale(s),
         NEW t, t = tx[s], ~t.live, t.op = "remove"
  PROVE  \E o \in Owners : Promise!Forget(o)
<1>1. PICK o : o = t.owner
  OBVIOUS
<1>2. /\ t \in Sale /\ o \in Owners /\ o \in Holders /\ o # None /\ None \in Holders
      /\ \A l \in LotIds : t.change[l] = 0 /\ taken'[o][l] = 0
      /\ IInv
  <2>1. t \in Sale /\ o \in Owners /\ o # None /\ IInv /\ t.op \in SaleOps
    BY <1>1, SaleWrites DEF WInv, NInv, CommitSale
  <2>2. AccountFits(t)
    BY <2>1 DEF WInv, TInv, AccountsFit
  <2>3. \A l \in LotIds : t.change[l] = 0
    BY <2>2 DEF AccountFits
  <2>4. \A l \in LotIds : taken'[o][l] = 0
    BY <1>1, <2>1, SaleWrites
  <2> QED
    BY <2>1, <2>3, <2>4 DEF Holders
<1>3. ASSUME NEW l \in LotIds
      PROVE  /\ taken[None][l] \in Int /\ taken[o][l] \in Int
             /\ taken'[None][l] = taken[None][l] + taken[o][l]
  <2>1. PICK mine, nobodys : /\ mine = [k \in LotIds |-> taken[t.owner][k] - t.change[k]]
                             /\ nobodys = [k \in LotIds |-> taken[None][k] + mine[k]]
    <3>1. PICK mine : mine = [k \in LotIds |-> taken[t.owner][k] - t.change[k]]
      OBVIOUS
    <3> QED
      BY <3>1
  <2>2. taken' = [taken EXCEPT ![t.owner] = NoChange, ![None] = nobodys]
    BY <1>1, <1>2, <2>1 DEF CommitSale, TakenAfter, IInv, TypeOK
  <2>3. taken'[None] = nobodys
    BY <1>1, <1>2, <2>2 DEF IInv, TypeOK
  <2>4. PICK a \in Int, b \in Int : a = taken[None][l] /\ b = taken[o][l]
    BY <1>2 DEF IInv, TypeOK
  <2>5. mine[l] = b - 0
    BY <1>1, <1>2, <2>1, <2>4
  <2>6. nobodys[l] = a + mine[l]
    BY <2>1, <2>4
  <2> QED
    BY <2>3, <2>4, <2>5, <2>6
<1>4. ASSUME NEW u \in Supplies
      PROVE  TookOf(o, u)' = 0 /\ TookOf(None, u)' = TookOf(None, u) + TookOf(o, u)
  <2>1. PICK S, w, q, v, z : /\ S = LotsIn(u) /\ w = taken[None] /\ q = taken[o]
                             /\ v = taken'[None] /\ z = taken'[o]
    OBVIOUS
  <2>2. S \in SUBSET LotIds /\ IsFiniteSet(S) /\ LotsIn(u)' = S
    <3>1. S \in SUBSET LotIds /\ LotsIn(u)' = S
      BY <1>2, <2>1, SaleLeavesLots DEF LotsIn, InStock
    <3> QED
      BY <3>1, FiniteLots
  <2>3. /\ \A l \in S : w[l] \in Int
        /\ \A l \in S : q[l] \in Int
        /\ \A l \in S : v[l] = w[l] + q[l]
        /\ \A l \in S : z[l] = 0
    BY <1>2, <1>3, <2>1, <2>2
  <2>4. SumOf(z, S) = 0
    BY <2>2, <2>3, SumOfZero
  <2>5. PICK sum : sum = [l \in S |-> w[l] + q[l]]
    OBVIOUS
  <2>6. SumOf(sum, S) = SumOf(w, S) + SumOf(q, S)
    BY <2>2, <2>3, <2>5, SumOfPlus
  <2>7. \A l \in S : v[l] = sum[l]
    BY <2>3, <2>5
  <2>8. SumOf(v, S) = SumOf(sum, S)
    BY <2>2, <2>7, SumOfSame
  <2> QED
    BY <2>1, <2>2, <2>4, <2>6, <2>8 DEF TookOf
<1>5. /\ OversalesOf(o)' = {}
      /\ OversalesOf(None)' = OversalesOf(None)
            \cup {[r EXCEPT !.owner = None] : r \in OversalesOf(o)}
  BY <1>1, SaleRowsExact
<1>6. ASSUME NEW u \in Supplies
      PROVE  OwesOf(o, u)' = 0 /\ OwesOf(None, u)' = OwesOf(None, u) + OwesOf(o, u)
  <2>1. OwesOf(o, u)' = 0
    <3>1. {r \in OversalesOf(o)' : r.supply = u} = {}
      BY <1>5
    <3>2. QuantityOf({}) = 0
      BY SumOfEmpty DEF QuantityOf
    <3> QED
      BY <3>1, <3>2 DEF OwesOf
  <2>2. OwesOf(None, u)' = OwesOf(None, u) + OwesOf(o, u)
    BY <1>2, <1>5, RowsDisowned DEF WInv, TInv
  <2> QED
    BY <2>1, <2>2
<1>7. \A p \in Holders \ {o, None}, u \in Supplies :
         TookOf(p, u)' = TookOf(p, u) /\ OwesOf(p, u)' = OwesOf(p, u)
  BY <1>1, SaleLeavesOthers
<1>8. \A u \in Supplies : BalanceOf(u)' = BalanceOf(u)
  BY LateSaleKeeps
<1>9. SameFor(Holders \ {o, None})
  BY <1>7 DEF SameFor
<1>10. Promise!Forget(o)
  BY <1>2, <1>4, <1>6, <1>8, <1>9, Forgets
<1> QED
  BY <1>2, <1>10

(***************************************************************************)
(* An entry, a count and a reversal.                                       *)
(***************************************************************************)

\* What is owed of a supply, owner by owner, is what is pending on it.
LEMMA OwedByAll ==
  ASSUME IInv, NEW u
  PROVE  SumOf([p \in Holders |-> OwesOf(p, u)], Holders) = QuantityOf(OversalesOn(u))
<1> DEFINE Part(p) == {r \in OversalesOn(u) : r.owner = p}
<1>1. PICK rows, w, group : /\ rows = OversalesOn(u)
                            /\ w = [r \in rows |-> r.quantity]
                            /\ group = [r \in rows |-> r.owner]
  <2>1. PICK rows : rows = OversalesOn(u)
    OBVIOUS
  <2> QED
    BY <2>1
<1>2. rows \subseteq oversales /\ IsFiniteSet(rows) /\ oversales \subseteq Oversale
  BY <1>1, FS_Subset DEF OversalesOn, IInv, TypeOK
<1>3. \A r \in rows : /\ group[r] \in Holders /\ w[r] \in Int
                      /\ group[r] = r.owner /\ w[r] = r.quantity
  BY <1>1, <1>2 DEF Oversale
<1>4. \A p \in Holders : /\ {r \in rows : group[r] = p} = Part(p)
                         /\ {r \in OversalesOf(p) : r.supply = u} = Part(p)
  BY <1>1, <1>3 DEF OversalesOn, OversalesOf
<1>5. \A p \in Holders : OwesOf(p, u) = SumOf(w, Part(p))
  <2> TAKE p \in Holders
  <2>1. PICK part : part = Part(p)
    OBVIOUS
  <2>2. IsFiniteSet(part) /\ part \subseteq rows
    BY <1>1, <1>2, <2>1, FS_Subset
  <2>3. PICK v : v = [r \in part |-> r.quantity]
    OBVIOUS
  <2>4. \A r \in part : v[r] = w[r]
    BY <1>3, <2>2, <2>3
  <2>5. SumOf(v, part) = SumOf(w, part)
    BY <2>2, <2>4, SumOfSame
  <2> QED
    BY <1>4, <2>1, <2>3, <2>5 DEF OwesOf, QuantityOf
<1>6. SumOf([p \in Holders |-> SumOf(w, {r \in rows : group[r] = p})], Holders)
        = SumOf(w, rows)
  BY <1>2, <1>3, FiniteHolders, SumOfGroups
<1> HIDE DEF Part
<1>7. [p \in Holders |-> SumOf(w, {r \in rows : group[r] = p})]
        = [p \in Holders |-> OwesOf(p, u)]
  BY <1>4, <1>5
<1> QED
  BY <1>1, <1>6, <1>7 DEF QuantityOf

\* An entry's lot brings its supply what the oversales leave of it.
LEMMA EntryBrings ==
  ASSUME IInv, IInv', NEW s \in Sessions, CommitEntry(s), NEW t, t = tx[s], NEW v
  PROVE  BalanceOf(v)' = IF v = t.supply
                         THEN BalanceOf(v) + (t.quantity - UnitsOf(t.covers))
                         ELSE BalanceOf(v)
<1>1. PICK k, m : k = t.lot /\ m = t.quantity - UnitsOf(t.covers)
  OBVIOUS
<1>2. /\ k \in LotIds /\ lots[k] = NoLot /\ lots'[k] # NoLot /\ lots'[k].supply = t.supply
      /\ \A l \in LotIds \ {k} : lots'[l] = lots[l]
  BY <1>1, EntryLots
<1>3. lots'[k].remaining = m
  BY <1>1, <1>2 DEF CommitEntry, NewLot, IInv, TypeOK
<1>4. PICK S, T, w, b : /\ S = LotsIn(v) /\ T = LotsIn(v)'
                        /\ w = [l \in InStock |-> lots[l].remaining]
                        /\ b = [l \in InStock' |-> lots'[l].remaining]
  OBVIOUS
<1>5. /\ S \subseteq InStock /\ T \subseteq InStock' /\ InStock' = InStock \cup {k}
      /\ k \notin InStock /\ T \in SUBSET LotIds /\ S \in SUBSET LotIds
  BY <1>2, <1>4 DEF LotsIn, InStock
<1>6. \A l \in S : b[l] = w[l]
  BY <1>2, <1>4, <1>5
<1>7. IsFiniteSet(S) /\ IsFiniteSet(T)
  BY <1>5, FiniteLots, FS_Subset
<1>8. SumOf(b, S) = SumOf(w, S)
  BY <1>6, <1>7, SumOfSame
<1>9. BalanceOf(v) = SumOf(w, S) /\ BalanceOf(v)' = SumOf(b, T)
  BY <1>4 DEF BalanceOf
<1>10. CASE v = t.supply
  <2>1. k \in T /\ T \ {k} = S
    BY <1>2, <1>4, <1>5, <1>10 DEF LotsIn, InStock
  <2>2. \A l \in T : b[l] \in Int
    BY <1>4, <1>5 DEF IInv, TypeOK, Lot, InStock
  <2>3. SumOf(b, T) = b[k] + SumOf(b, S) /\ SumOf(b, S) \in Int
    BY <1>7, <2>1, <2>2, SumsSplit
  <2>4. b[k] = m /\ b[k] \in Int
    BY <1>3, <1>4, <1>5, <2>1, <2>2
  <2> QED
    BY <1>1, <1>8, <1>9, <1>10, <2>3, <2>4
<1>11. CASE v # t.supply
  <2>1. T = S
    BY <1>2, <1>4, <1>5, <1>11 DEF LotsIn, InStock
  <2> QED
    BY <1>8, <1>9, <1>11, <2>1
<1> QED
  BY <1>10, <1>11

\* What an entry settles of each debt is all it can of what is owed.
LEMMA EntryPays ==
  ASSUME WInv, NEW s \in Sessions, CommitEntry(s), NEW t, t = tx[s],
         NEW u, u = t.supply,
         NEW paid, paid = [p \in Holders |-> UnitsOf({c \in t.covers : c.owner = p})]
  PROVE  /\ t.supply \in Supplies /\ t.quantity \in Units
         /\ paid \in [Holders -> 0 .. t.quantity]
         /\ \A p \in Holders : paid[p] <= OwesOf(p, u)
         /\ SumOf(paid, Holders) = UnitsOf(t.covers)
         /\ SumOf(paid, Holders)
              = Least(t.quantity, SumOf([p \in Holders |-> OwesOf(p, u)], Holders))
<1>1. /\ t \in Entry /\ t.covers \in SUBSET Cover /\ IsFiniteSet(t.covers)
      /\ t.supply \in Supplies /\ t.quantity \in Nat
  BY EntryRows DEF WInv, Entry
<1>2. IInv /\ TInv /\ t.op = "entry"
  BY DEF WInv, TInv, RInv, CommitEntry
<1>3. EntryExact(t)
  BY <1>2 DEF WInv, AllExact, Exact
<1>4. PICK pending, total : pending = OversalesOn(u) /\ total = QuantityOf(OversalesOn(u))
  OBVIOUS
<1>5. /\ pending \subseteq Oversale /\ IsFiniteSet(pending)
      /\ \A r, q \in pending : r.id = q.id => r = q
  BY <1>2, <1>4, FS_Subset DEF OversalesOn, IInv, TypeOK, TInv, RowsToldApart
<1>6. UnitsOf(t.covers) = Least(t.quantity, total) /\ total \in Nat
  BY <1>1, <1>3, <1>4, <1>5, SettlesAddUp DEF EntryExact
<1>7. SumOf(paid, Holders) = UnitsOf(t.covers)
  BY <1>1, CoversShared
<1>8. total = SumOf([p \in Holders |-> OwesOf(p, u)], Holders)
  BY <1>2, <1>4, OwedByAll
<1>9. ASSUME NEW p \in Holders
      PROVE  paid[p] \in Nat /\ paid[p] <= OwesOf(p, u)
  <2>1. /\ UnitsOf({c \in t.covers : c.owner = p}) \in Nat
        /\ OwesOf(p, t.supply)' \in Nat
        /\ OwesOf(p, t.supply)' + UnitsOf({c \in t.covers : c.owner = p})
             = OwesOf(p, t.supply)
    BY <1>2, EntrySettles
  <2>2. PICK m, o, n : /\ m = UnitsOf({c \in t.covers : c.owner = p})
                       /\ o = OwesOf(p, t.supply) /\ n = OwesOf(p, t.supply)'
    OBVIOUS
  <2>3. m \in Nat /\ n \in Nat /\ n + m = o
    BY <2>1, <2>2
  <2>4. m <= o
    BY <2>3
  <2> QED
    BY <2>2, <2>3, <2>4
<1>10. SumOf(paid, Holders) <= t.quantity
  BY <1>1, <1>6, <1>7 DEF Least
<1>11. ASSUME NEW p \in Holders
       PROVE  paid[p] \in 0 .. t.quantity
  <2>1. paid[p] <= SumOf(paid, Holders) /\ SumOf(paid, Holders) \in Nat /\ paid[p] \in Nat
    <3>1. \A q \in Holders : paid[q] \in Nat
      BY <1>9
    <3> QED
      BY <3>1, FiniteHolders, SumOfTerm, SumOfNat
  <2> QED
    BY <1>1, <1>10, <2>1
<1>12. paid \in [Holders -> 0 .. t.quantity]
  BY <1>11
<1>13. t.quantity \in Units
  BY <1>3 DEF EntryExact
<1> QED
  BY <1>1, <1>6, <1>7, <1>8, <1>9, <1>12, <1>13

\* An entry that commits is one of the promise.
LEMMA EntryIsEnter ==
  ASSUME WInv, IInv', NEW s \in Sessions, CommitEntry(s)
  PROVE  \E u \in Supplies, quantity \in Units : Promise!Enter(u, quantity)
<1>1. PICK t : t = tx[s]
  OBVIOUS
<1>2. PICK u, quantity, paid :
         /\ u = t.supply /\ quantity = t.quantity
         /\ paid = [p \in Holders |-> UnitsOf({c \in t.covers : c.owner = p})]
  OBVIOUS
<1>3. /\ u \in Supplies /\ quantity \in Units
      /\ paid \in [Holders -> 0 .. quantity]
      /\ \A p \in Holders : paid[p] <= OwesOf(p, u)
      /\ SumOf(paid, Holders) = UnitsOf(t.covers)
      /\ SumOf(paid, Holders)
           = Least(quantity, SumOf([p \in Holders |-> OwesOf(p, u)], Holders))
  BY <1>1, <1>2, EntryPays
<1>4. IInv /\ TInv /\ quantity \in Nat
  BY <1>3, StockAssumption DEF WInv, TInv, RInv
<1>5. /\ SumOf(paid, Holders) \in Int
      /\ \A v : BalanceOf(v)' = IF v = u THEN BalanceOf(v) + (quantity - SumOf(paid, Holders))
                                ELSE BalanceOf(v)
  <2>1. \A p \in Holders : paid[p] \in Int
    BY <1>3, <1>4
  <2>2. SumOf(paid, Holders) \in Int
    BY <2>1, FiniteHolders, SumOfType
  <2> QED
    BY <1>1, <1>2, <1>3, <1>4, <2>2, EntryBrings
<1>6. ASSUME NEW v \in Supplies
      PROVE  BalanceOf(v)' = IF v = u THEN BalanceOf(u) + quantity - SumOf(paid, Holders)
                             ELSE BalanceOf(v)
  <2>1. BalanceOf(v) \in Int
    BY <1>4, BalanceType DEF WInv, NInv
  <2>2. PICK b, m : b = BalanceOf(v) /\ m = SumOf(paid, Holders)
    OBVIOUS
  <2>3. b + (quantity - m) = b + quantity - m
    BY <1>4, <1>5, <2>1, <2>2
  <2> QED
    BY <1>5, <2>2, <2>3
<1>7. ASSUME NEW p \in Holders, NEW v \in Supplies
      PROVE  /\ TookOf(p, v)' = IF v = u THEN TookOf(p, u) + paid[p] ELSE TookOf(p, v)
             /\ OwesOf(p, v)' = IF v = u THEN OwesOf(p, u) - paid[p] ELSE OwesOf(p, v)
  <2>1. CASE v # u
    BY <1>1, <1>2, <1>4, <2>1, EntryAccounts
  <2>2. CASE v = u
    <3>1. PICK m, o, n, a, b :
             /\ m = paid[p] /\ o = OwesOf(p, u) /\ n = OwesOf(p, u)'
             /\ a = TookOf(p, u) /\ b = TookOf(p, u)'
      OBVIOUS
    <3>2. m = UnitsOf({c \in t.covers : c.owner = p})
      BY <1>2, <3>1
    <3>3. m \in Nat /\ n \in Nat /\ n + m = o
      BY <1>1, <1>2, <1>4, <3>1, <3>2, EntrySettles
    <3>4. b = m + a
      BY <1>1, <1>2, <1>4, <3>1, <3>2, EntryAccounts
    <3>5. a \in Int
      <4>1. PICK w, S : w = taken[p] /\ S = LotsIn(u)
        OBVIOUS
      <4>2. S \in SUBSET LotIds /\ \A l \in S : w[l] \in Int
        BY <1>4, <4>1 DEF LotsIn, InStock, IInv, TypeOK
      <4>3. IsFiniteSet(S)
        BY <4>2, FiniteLots, FS_Subset
      <4>4. SumOf(w, S) \in Int
        BY <4>2, <4>3, SumOfType
      <4> QED
        BY <3>1, <4>1, <4>4 DEF TookOf
    <3>6. b = a + m /\ n = o - m
      BY <3>3, <3>4, <3>5
    <3> QED
      BY <2>2, <3>1, <3>6
  <2> QED
    BY <2>1, <2>2
<1>8. Promise!Enter(u, quantity)
  BY <1>3, <1>4, <1>6, <1>7, Enters
<1> QED
  BY <1>3, <1>8

\* A step that leaves each lot its supply and each movement its owner.
LEMMA TookAllStands ==
  ASSUME IInv, IInv', taken' = taken, InStock \subseteq InStock',
         \A l \in InStock : lots'[l].supply = lots[l].supply,
         NEW p \in Holders, NEW u
  PROVE  TookOf(p, u)' = TookOf(p, u)
<1>1. \A l \in LotIds :
         /\ lots[l] # NoLot => /\ lots'[l] # NoLot /\ lots'[l].supply = lots[l].supply
                               /\ taken'[p][l] = taken[p][l]
         /\ lots[l] = NoLot => taken'[p][l] = 0
  BY DEF InStock, IInv, TakenFromLots
<1> QED
  BY <1>1, TookStands

\* A count leaves its supply what was counted, and the others what they had.
LEMMA CountLeaves ==
  ASSUME WInv, IInv', NEW s \in Sessions, CommitCount(s), NEW t, t = tx[s], NEW v
  PROVE  BalanceOf(v)' = IF v = t.supply THEN t.quantity ELSE BalanceOf(v)
<1>1. /\ InStock \subseteq InStock' /\ t \in StockCount
      /\ \A l \in InStock : LotWritten(lots[l], lots'[l], t.change[l])
      /\ \A l \in LotIds : t.plan[l] = 0
      /\ t.surplus = 0 => InStock' = InStock
      /\ t.surplus # 0 =>
            \E l \in LotIds \ InStock :
               /\ InStock' = InStock \cup {l}
               /\ lots'[l].supply = t.supply
               /\ lots'[l].remaining = t.surplus /\ ~lots'[l].entry
  BY CountLots DEF WInv, NInv
<1>2. IInv /\ t.op = "count" /\ t.pc = "moving"
  BY DEF WInv, NInv, CommitCount
<1>3. CountExact(t)
  BY <1>2 DEF WInv, AllExact, Exact
<1>4. PICK S, T, w, b, g : /\ S = LotsIn(v) /\ T = LotsIn(v)'
                           /\ w = [l \in InStock |-> lots[l].remaining]
                           /\ b = [l \in InStock' |-> lots'[l].remaining]
                           /\ g = [l \in InStock |-> Leaves(t, l)]
  OBVIOUS
<1>5. /\ S \in SUBSET LotIds /\ T \in SUBSET LotIds
      /\ S \subseteq InStock /\ T \subseteq InStock' /\ S \subseteq T
  BY <1>1, <1>4 DEF LotsIn, InStock, LotWritten
<1>6. IsFiniteSet(S) /\ IsFiniteSet(T)
  BY <1>5, FiniteLots, FS_Subset
<1>7. BalanceOf(v) = SumOf(w, S) /\ BalanceOf(v)' = SumOf(b, T)
  BY <1>4 DEF BalanceOf
<1>8. \A l \in S : /\ w[l] \in Int /\ t.change[l] \in Int
                   /\ b[l] = w[l] + t.change[l] /\ g[l] = w[l] + t.change[l]
  <2> SUFFICES ASSUME NEW l \in S
               PROVE  /\ w[l] \in Int /\ t.change[l] \in Int
                      /\ b[l] = w[l] + t.change[l] /\ g[l] = w[l] + t.change[l]
    OBVIOUS
  <2>1. l \in InStock /\ l \in LotIds /\ l \in InStock'
    BY <1>1, <1>5
  <2>2. w[l] = lots[l].remaining /\ w[l] \in Int /\ t.change[l] \in Int
    BY <1>1, <1>2, <1>4, <2>1, InStockType DEF IInv, StockCount
  <2>3. b[l] = lots'[l].remaining /\ g[l] = lots[l].remaining + t.change[l] + t.plan[l]
    BY <1>4, <2>1 DEF Leaves
  <2>4. lots'[l].remaining = lots[l].remaining + t.change[l] /\ t.plan[l] = 0
    BY <1>1, <2>1 DEF LotWritten
  <2> QED
    BY <2>2, <2>3, <2>4
<1>9. CASE v # t.supply
  <2>1. T = S
    BY <1>1, <1>4, <1>5, <1>9 DEF LotsIn, LotWritten
  <2>2. \A l \in S : t.change[l] = 0
    BY <1>3, <1>4, <1>9 DEF CountExact, LotsIn
  <2>3. \A l \in S : b[l] = w[l]
    BY <1>8, <2>2
  <2>4. SumOf(b, S) = SumOf(w, S)
    BY <1>6, <2>3, SumOfSame
  <2> QED
    BY <1>7, <1>9, <2>1, <2>4
<1>10. CASE v = t.supply
  <2>1. /\ t.surplus \in Nat /\ t.quantity \in Nat
        /\ SumOf(g, S) + t.surplus = t.quantity
    BY <1>1, <1>2, <1>3, <1>4, <1>10 DEF CountExact, StockCount
  <2>2. SumOf(b, S) = SumOf(g, S) /\ SumOf(b, S) \in Int
    <3>1. \A l \in S : b[l] = g[l]
      BY <1>8
    <3>2. \A l \in S : b[l] \in Int
      BY <1>8
    <3>3. SumOf(b, S) = SumOf(g, S)
      BY <1>6, <3>1, SumOfSame
    <3>4. SumOf(b, S) \in Int
      BY <1>6, <3>2, SumOfType
    <3> QED
      BY <3>3, <3>4
  <2>3. CASE t.surplus = 0
    <3>1. T = S
      BY <1>1, <1>4, <1>5, <2>3 DEF LotsIn, LotWritten
    <3> QED
      BY <1>7, <1>10, <2>1, <2>2, <2>3, <3>1
  <2>4. CASE t.surplus # 0
    <3>1. PICK k \in LotIds \ InStock : /\ InStock' = InStock \cup {k}
                                        /\ lots'[k].supply = t.supply
                                        /\ lots'[k].remaining = t.surplus
      BY <1>1, <2>4
    <3>2. k \in T /\ T \ {k} = S
      BY <1>1, <1>4, <1>5, <1>10, <3>1 DEF LotsIn, LotWritten
    <3>3. b[k] = t.surplus
      BY <1>4, <3>1
    <3>4. \A l \in T : b[l] \in Int
      BY <1>8, <2>1, <3>2, <3>3
    <3>5. SumOf(b, T) = b[k] + SumOf(b, S)
      BY <1>6, <3>2, <3>4, SumsSplit
    <3> QED
      BY <1>7, <1>10, <2>1, <2>2, <3>3, <3>5
  <2> QED
    BY <2>3, <2>4
<1> QED
  BY <1>9, <1>10

\* A count that commits is one of the promise.
LEMMA CountIsCount ==
  ASSUME WInv, IInv', NEW s \in Sessions, CommitCount(s)
  PROVE  \E u \in Supplies, quantity \in Units : Promise!Count(u, quantity)
<1>1. PICK t, u, quantity : t = tx[s] /\ u = tx[s].supply /\ quantity = tx[s].quantity
  OBVIOUS
<1>2. /\ InStock \subseteq InStock' /\ t \in StockCount
      /\ \A l \in InStock : LotWritten(lots[l], lots'[l], t.change[l])
      /\ IInv /\ t.op = "count"
  BY <1>1, CountLots DEF WInv, NInv, CommitCount
<1>3. CountExact(t)
  BY <1>1, <1>2 DEF WInv, AllExact, Exact
<1>4. u \in Supplies /\ quantity \in Units
  BY <1>1, <1>2, <1>3 DEF CountExact, StockCount
<1>5. taken' = taken /\ oversales' = {r \in oversales : r.id \notin t.dropped}
  BY <1>1 DEF CommitCount
<1>6. \A r \in oversales : r.id \in t.dropped <=> r.supply = u
  BY <1>1, <1>3 DEF CountExact
<1>7. \A l \in InStock : lots'[l].supply = lots[l].supply
  BY <1>2 DEF LotWritten
<1>8. ASSUME NEW p \in Holders, NEW v \in Supplies
      PROVE  /\ TookOf(p, v)' = TookOf(p, v)
             /\ OwesOf(p, v)' = IF v = u THEN 0 ELSE OwesOf(p, v)
  <2>1. TookOf(p, v)' = TookOf(p, v)
    BY <1>2, <1>5, <1>7, TookAllStands
  <2>2. CASE v = u
    <3>1. {r \in OversalesOf(p)' : r.supply = v} = {}
      BY <1>5, <1>6, <2>2 DEF OversalesOf
    <3>2. QuantityOf({}) = 0
      BY SumOfEmpty DEF QuantityOf
    <3> QED
      BY <2>1, <2>2, <3>1, <3>2 DEF OwesOf
  <2>3. CASE v # u
    <3>1. {r \in OversalesOf(p)' : r.supply = v} = {r \in OversalesOf(p) : r.supply = v}
      BY <1>5, <1>6, <2>3 DEF OversalesOf
    <3> QED
      BY <2>1, <2>3, <3>1 DEF OwesOf
  <2> QED
    BY <2>2, <2>3
<1>9. \A v \in Supplies : BalanceOf(v)' = IF v = u THEN quantity ELSE BalanceOf(v)
  BY <1>1, CountLeaves
<1>10. Promise!Count(u, quantity)
  BY <1>4, <1>8, <1>9, Counts
<1> QED
  BY <1>4, <1>10

\* A reversal that commits is one of the promise.
LEMMA ReversalIsReverse ==
  ASSUME WInv, IInv', NEW s \in Sessions, CommitReverse(s)
  PROVE  \E u \in Supplies, quantity \in Units : Promise!Reverse(u, quantity)
<1>1. PICK k, u, quantity : /\ k = tx[s].lot /\ u = lots[tx[s].lot].supply
                            /\ quantity = lots[tx[s].lot].quantity
  OBVIOUS
<1>2. /\ IInv /\ TypeOK /\ NeverNegative /\ k \in LotIds /\ lots[k] \in Lot /\ k \in InStock
      /\ tx[s].op = "reverse"
  BY <1>1, Kinds DEF WInv, NInv, IInv, TypeOK, SoundTransactions, Sound, CommitReverse,
     Reversal, InStock
<1>3. lots[k].remaining = quantity /\ quantity \in Units /\ u \in Supplies
  BY <1>1, <1>2 DEF WInv, AllExact, Exact, ReversalExact, Lot
<1>4. PICK new : new = [lots[k] EXCEPT !.remaining = 0, !.reversed = TRUE, !.moved = TRUE]
  OBVIOUS
<1>5. new.remaining = 0 /\ new.supply = u /\ new \in Lot
  <2>1. new = [supply |-> lots[k].supply, quantity |-> lots[k].quantity, remaining |-> 0,
               expires |-> lots[k].expires, entry |-> lots[k].entry, reversed |-> TRUE,
               counted |-> lots[k].counted, moved |-> TRUE]
    BY <1>2, <1>4 DEF Lot
  <2>2. new \in Lot
    BY <1>2, <2>1 DEF Lot
  <2> QED
    BY <1>1, <2>1, <2>2
<1>6. /\ lots'[k] = new /\ \A l \in LotIds \ {k} : lots'[l] = lots[l]
      /\ taken' = taken /\ oversales' = oversales
  BY <1>1, <1>2, <1>4 DEF CommitReverse, TypeOK
<1>7. InStock' = InStock /\ \A l \in InStock : lots'[l].supply = lots[l].supply
  BY <1>1, <1>2, <1>5, <1>6, StockAssumption DEF InStock
<1>8. \A v : LotsIn(v)' = LotsIn(v)
  BY <1>7 DEF LotsIn
<1>9. PICK w, b : /\ w = [l \in InStock |-> lots[l].remaining]
                  /\ b = [l \in InStock' |-> lots'[l].remaining]
  OBVIOUS
<1>10. /\ \A l \in InStock : w[l] \in Nat
       /\ \A l \in InStock : b[l] \in Nat
       /\ \A l \in InStock \ {k} : b[l] = w[l]
       /\ w[k] = quantity /\ b[k] = 0
  <2>1. \A l \in InStock : w[l] \in Nat /\ l \in LotIds
    BY <1>2, <1>9, InStockType DEF NeverNegative
  <2>2. \A l \in InStock \ {k} : b[l] = w[l]
    BY <1>6, <1>7, <1>9, <2>1
  <2>3. w[k] = quantity /\ b[k] = 0
    BY <1>2, <1>3, <1>5, <1>6, <1>7, <1>9
  <2> QED
    BY <2>1, <2>2, <2>3
<1>11. ASSUME NEW v
       PROVE  /\ v = u => /\ BalanceOf(v)' = BalanceOf(v) - quantity
                          /\ quantity <= BalanceOf(v)
              /\ v # u => BalanceOf(v)' = BalanceOf(v)
  <2>1. PICK S : S = LotsIn(v)
    OBVIOUS
  <2>2. S \subseteq InStock /\ S \in SUBSET LotIds /\ (k \in S <=> v = u)
    BY <1>1, <1>2, <2>1 DEF LotsIn, InStock
  <2>3. IsFiniteSet(S)
    BY <2>2, FiniteLots, FS_Subset
  <2>4. BalanceOf(v) = SumOf(w, S) /\ BalanceOf(v)' = SumOf(b, S)
    BY <1>8, <1>9, <2>1 DEF BalanceOf
  <2>5. CASE v = u
    <3>1. k \in S
      BY <2>2, <2>5
    <3>2. \A l \in S : w[l] \in Nat
      BY <1>10, <2>2
    <3>3. \A l \in S : b[l] \in Nat
      BY <1>10, <2>2
    <3>4. /\ SumOf(w, S \ {k}) \in Nat /\ SumOf(w, S) = w[k] + SumOf(w, S \ {k})
          /\ w[k] <= SumOf(w, S)
      BY <2>3, <3>1, <3>2, SumOfTerm
    <3>5. SumOf(b, S) = b[k] + SumOf(b, S \ {k}) /\ SumOf(b, S \ {k}) \in Nat
      BY <2>3, <3>1, <3>3, SumOfTerm
    <3>6. SumOf(b, S \ {k}) = SumOf(w, S \ {k})
      <4>1. PICK R : R = S \ {k}
        OBVIOUS
      <4>2. IsFiniteSet(R) /\ \A l \in R : b[l] = w[l]
        BY <1>10, <2>2, <2>3, <4>1, FS_Subset
      <4> QED
        BY <4>1, <4>2, SumOfSame
    <3>7. quantity \in Nat
      BY <1>10, <3>1, <3>2
    <3> QED
      BY <1>10, <2>4, <2>5, <3>4, <3>5, <3>6, <3>7
  <2>6. CASE v # u
    <3>1. \A l \in S : b[l] = w[l]
      BY <1>10, <2>2, <2>6
    <3>2. SumOf(b, S) = SumOf(w, S)
      BY <2>3, <3>1, SumOfSame
    <3> QED
      BY <2>4, <2>6, <3>2
  <2> QED
    BY <2>5, <2>6
<1>12. ASSUME NEW p \in Holders, NEW v \in Supplies
       PROVE  TookOf(p, v)' = TookOf(p, v) /\ OwesOf(p, v)' = OwesOf(p, v)
  <2>1. TookOf(p, v)' = TookOf(p, v)
    BY <1>2, <1>6, <1>7, TookAllStands
  <2>2. OversalesOf(p)' = OversalesOf(p)
    BY <1>6 DEF OversalesOf
  <2> QED
    BY <2>1, <2>2 DEF OwesOf
<1>13. SameFor(Holders)
  BY <1>12 DEF SameFor
<1>14. \A v \in Supplies : BalanceOf(v)' = IF v = u THEN BalanceOf(u) - quantity
                                           ELSE BalanceOf(v)
  BY <1>11
<1>15. Promise!Reverse(u, quantity)
  BY <1>3, <1>11, <1>13, <1>14, Reverses
<1> QED
  BY <1>3, <1>15

(***************************************************************************)
(* Every step of the tables is a step of the promise, or none.             *)
(***************************************************************************)

\* A step that writes no row of the stock.
LEMMA UnseenStutters ==
  ASSUME UNCHANGED <<lots, taken, oversales>>
  PROVE  UNCHANGED Promise!pvars
<1>1. \A u : LotsIn(u)' = LotsIn(u)
  BY DEF LotsIn, InStock
<1>2. \A u : BalanceOf(u)' = BalanceOf(u)
  BY <1>1 DEF BalanceOf, InStock
<1>3. \A p, u : TookOf(p, u)' = TookOf(p, u)
  BY <1>1 DEF TookOf
<1>4. \A p, u : OwesOf(p, u)' = OwesOf(p, u)
  BY DEF OwesOf, OversalesOf
<1> QED
  BY <1>2, <1>3, <1>4, Stutters DEF SameFor

\* A commit is one step of the promise, or none.
LEMMA CommitsAreSteps ==
  ASSUME WInv, IInv', NeverNegative', NEW s \in Sessions,
         CommitSale(s) \/ CommitEntry(s) \/ CommitCount(s) \/ CommitReverse(s)
  PROVE  Promise!Next \/ UNCHANGED Promise!pvars
<1>1. CASE CommitSale(s)
  <2>1. PICK t : t = tx[s]
    OBVIOUS
  <2>2. CASE t.live
    BY <1>1, <2>1, <2>2, LiveSaleIsSync DEF Promise!Next
  <2>3. CASE ~t.live /\ t.op = "remove"
    BY <1>1, <2>1, <2>3, LateRemovalIsForget DEF Promise!Next
  <2>4. CASE ~t.live /\ t.op # "remove"
    BY <1>1, <2>1, <2>4, LateSaleIsNothing
  <2> QED
    BY <2>2, <2>3, <2>4
<1>2. CASE CommitEntry(s)
  BY <1>2, EntryIsEnter DEF Promise!Next
<1>3. CASE CommitCount(s)
  BY <1>3, CountIsCount DEF Promise!Next
<1>4. CASE CommitReverse(s)
  BY <1>4, ReversalIsReverse DEF Promise!Next
<1> QED
  BY <1>1, <1>2, <1>3, <1>4

\* Between the beginning of a transaction and its commit nothing shows.
LEMMA StepsArePromised ==
  WInv /\ IInv' /\ NeverNegative' /\ [Next]_vars => [Promise!Next]_(Promise!pvars)
<1> SUFFICES ASSUME WInv, IInv', NeverNegative', [Next]_vars
             PROVE  Promise!Next \/ UNCHANGED Promise!pvars
  OBVIOUS
<1>1. CASE UNCHANGED vars \/ NightEnds
  <2>1. UNCHANGED <<lots, taken, oversales>>
    BY <1>1 DEF vars, NightEnds
  <2> QED
    BY <2>1, UnseenStutters
<1>2. ASSUME NEW s \in Sessions, Asks(s) \/ RollBack(s)
      PROVE  UNCHANGED Promise!pvars
  <2>1. UNCHANGED Tables
    BY <1>2 DEF Asks, RollBack, Begins, BeginCreate, BeginConsume, BeginEdit, BeginCancel,
       BeginRestore, BeginRemove, BeginEntry, BeginCount, BeginReverse
  <2>2. UNCHANGED <<lots, taken, oversales>>
    BY <2>1 DEF Tables
  <2> QED
    BY <2>2, UnseenStutters
<1>3. ASSUME NEW s \in Sessions, Advances(s)
      PROVE  Promise!Next \/ UNCHANGED Promise!pvars
  <2>1. CASE CommitSale(s) \/ CommitEntry(s) \/ CommitCount(s) \/ CommitReverse(s)
    BY <2>1, CommitsAreSteps
  <2>2. CASE \/ LockFirst(s) \/ DropOversales(s) \/ ReadMoves(s) \/ MoveLot(s)
             \/ LockLots(s) \/ PlanSale(s) \/ PlanCount(s)
    <3>1. UNCHANGED Tables
      BY <2>2 DEF LockFirst, DropOversales, ReadMoves, MoveLot, LockLots, PlanSale, PlanCount
    <3>2. UNCHANGED <<lots, taken, oversales>>
      BY <3>1 DEF Tables
    <3> QED
      BY <3>2, UnseenStutters
  <2> QED
    BY <1>3, <2>1, <2>2 DEF Advances
<1> QED
  BY <1>1, <1>2, <1>3 DEF Next

\* At the start each supply has what was entered, and nobody owes.
LEMMA InitIsPromised ==
  ASSUME UnitsAllowed
  PROVE  Init => Promise!Init
<1> SUFFICES ASSUME Init PROVE Promise!Init
  OBVIOUS
<1>1. WInv
  BY InitExact
<1>2. \A u \in Supplies : BalanceOf(u) \in Nat
  BY <1>1, BalanceType DEF WInv, NInv
<1>3. ASSUME NEW p \in Holders, NEW u \in Supplies
      PROVE  TookOf(p, u) = 0 /\ OwesOf(p, u) = 0
  <2>1. PICK w, S : w = taken[p] /\ S = LotsIn(u)
    OBVIOUS
  <2>2. S \in SUBSET LotIds /\ \A l \in S : w[l] = 0
    BY <2>1 DEF LotsIn, InStock, Init, NoChange
  <2>3. IsFiniteSet(S)
    BY <2>2, FiniteLots, FS_Subset
  <2>4. SumOf(w, S) = 0
    BY <2>2, <2>3, SumOfZero
  <2>5. {r \in OversalesOf(p) : r.supply = u} = {}
    BY DEF OversalesOf, Init
  <2>6. QuantityOf({}) = 0
    BY SumOfEmpty DEF QuantityOf
  <2> QED
    BY <2>1, <2>4, <2>5, <2>6 DEF TookOf, OwesOf
<1>4. [u \in Supplies |-> SumOf([l \in InStock |-> lots[l].remaining], LotsIn(u))]
         \in [Supplies -> Nat]
  BY <1>2 DEF BalanceOf
<1>5. /\ [p \in Holders |-> [u \in Supplies |-> TookOf(p, u)]]
            = [p \in Holders |-> Promise!Nothing]
      /\ [p \in Holders |-> [u \in Supplies |-> OwesOf(p, u)]]
            = [p \in Holders |-> Promise!Nothing]
  BY <1>3 DEF Promise!Nothing
<1> QED
  BY <1>4, <1>5, PromisedState DEF Promise!Init

(***************************************************************************)
(* KeepsThePromise of SaleStock: SaleStock implements StockPromise while   *)
(* only launches overlap. To the users of the stock each transaction, with *)
(* its locks, its lots and its statements, is one step on the balance of   *)
(* each supply (stock/prisma-sale-stock.ts, prisma-stock.repository.ts,    *)
(* prisma-entry-history.ts). UnitsAllowed: what the stock is asked and     *)
(* given is among the quantities both specifications name.                 *)
(***************************************************************************)
THEOREM StockImplementsPromise ==
  ASSUME UnitsAllowed
  PROVE  Spec /\ []OnlyLaunchesOverlap => KeepsThePromise
<1>1. Init => WInv /\ Promise!Init
  BY InitExact, InitIsPromised
<1>2. WInv /\ OnlyLaunchesOverlap /\ [Next]_vars => WInv'
  BY WInvInductive
<1>3. WInv => IInv /\ NeverNegative
  BY DEF WInv, NInv
<1>4. WInv /\ IInv' /\ NeverNegative' /\ [Next]_vars => [Promise!Next]_(Promise!pvars)
  BY StepsArePromised
<1> QED
  BY <1>1, <1>2, <1>3, <1>4, PTL DEF Spec, KeepsThePromise, Promise!Spec

=============================================================================
