--------------------------- MODULE MenuBook_proofs ---------------------------
(***************************************************************************)
(* What holds of the menu for any number of products, prices, days and     *)
(* requests: its types, that a change made today leaves the menu and the   *)
(* prices of every earlier day as they were, and, where requests do not    *)
(* overlap, that combos and lists of add-ons keep one level and that an    *)
(* import leaves nothing for the next one.                                 *)
(*                                                                         *)
(* A write keeps the price it replaces in a row that ends yesterday, and   *)
(* only the first such row of a day counts. So it takes two facts: no row  *)
(* of the history reaches the day of a request in flight, and a request    *)
(* that is the first to write on its day still finds the price it read.    *)
(***************************************************************************)
EXTENDS BackOffice_proofs, SumTheorems

USE NightAssumption, DeskAssumption, MenuAssumption, SceneAssumption

\* the requests that carry the day they began on
Dated(s) == draft[s].op \in {"edit", "write", "supply", "writeSupply", "writeImport"}

\* the price a product had yesterday is kept
DayKept(p, today) == \E r \in history : r.product = p /\ r.until = today - 1

\* no row reaches the day of a request in flight
HistoryEnds ==
    /\ \A r \in history : r.until < DateOf(now)
    /\ \A s \in Sessions : Dated(s) =>
          /\ draft[s].today <= DateOf(now)
          /\ \A r \in history : r.until < draft[s].today

\* products are never taken off the table
DraftsHold ==
    \A s \in Sessions :
        /\ draft[s].op \in {"edit", "write", "writeSupply"} => draft[s].product \in Listed
        /\ draft[s].op = "writeImport" => draft[s].leaving \subseteq Listed

\* without overlaps a request writes over what it read
OneAtATime ==
    /\ \A s \in Sessions \ {Alone} : draft[s] = NoDraft
    /\ draft[Alone].op \in {"write", "writeSupply"} =>
          draft[Alone].before = TrackedOf(draft[Alone].product)

\* with overlaps, on one day, what was on the menu before it is known
InOneDay ==
    /\ \A s \in Sessions :
          /\ draft[s].op \in {"none", "edit", "write"}
          /\ Dated(s) => draft[s].today = DateOf(now)
          /\ draft[s].op = "write" =>
                draft[s].before.active \/ draft[s].before.deactivatedOn = DateOf(now)
    /\ \A p \in Listed :
          /\ products[p].active \/ products[p].deactivatedOn = DateOf(now)
          /\ \/ DayKept(p, DateOf(now))
             \/ /\ products[p].price # None
                /\ \A s \in Sessions :
                      draft[s].op = "write" /\ draft[s].product = p
                      => draft[s].before.price = products[p].price

MenuInv ==
    /\ now \in Nat
    /\ MenuTypeOK
    /\ HistoryEnds
    /\ DraftsHold
    /\ scene # "repricing" => OneAtATime
    /\ scene = "repricing" => InOneDay

-----------------------------------------------------------------------------
(***************************************************************************)
(* Types.                                                                  *)
(***************************************************************************)

\* What each kind of request carries.
LEMMA DraftFields ==
  ASSUME NEW e \in Draft
  PROVE  /\ e.op \in {"none", "createProduct", "edit", "write", "supply", "writeCost",
                      "writeSupply", "addons", "import", "writeImport"}
         /\ e.op = "none" <=> e = NoDraft
         /\ e.op \in {"createProduct", "edit", "write"} =>
               e.product \in Products /\ e.body \in Bodies
         /\ e.op \in {"edit", "write", "supply", "writeSupply", "writeImport"} => e.today \in Nat
         /\ e.op \in {"write", "writeSupply"} => e.product \in Products /\ e.before \in Tracked
         /\ e.op \in {"supply", "writeCost", "writeSupply"} =>
               e.supply \in Ingredients /\ e.cost \in Costs \cup {None}
         /\ e.op \in {"supply", "writeSupply"} => e.price \in Prices \cup {None}
         /\ e.op = "addons" =>
               e.category \in Categories /\ e.target \in Categories \cup {None}
         /\ e.op \in {"import", "writeImport"} => e.sheet \in Sheets
         /\ e.op = "writeImport" => e.leaving \in SUBSET Products
BY DEF Draft, NoDraft

\* Which requests carry a day.
LEMMA DraftDay ==
  ASSUME NEW e \in Draft, "today" \in DOMAIN e
  PROVE  e.op \in {"edit", "write", "supply", "writeSupply", "writeImport"}
BY DEF Draft, NoDraft

\* A product's row, field by field.
LEMMA ProductFields ==
  ASSUME MenuTypeOK, NEW p \in Listed
  PROVE  /\ p \in Products
         /\ products[p] \in Product
         /\ products[p].price \in Prices \cup {None}
         /\ products[p].active \in BOOLEAN
         /\ products[p].deactivatedOn \in Nat \cup {None}
         /\ products[p].bundle \in SUBSET Products
         /\ products[p].uses \in SUBSET Ingredients
         /\ products[p].source \in Sources \cup {None}
         /\ TrackedOf(p) \in Tracked
<1>1. p \in Products /\ products[p] \in Product
  BY DEF MenuTypeOK, Listed
<1>2. PICK x : x = products[p]
  OBVIOUS
<1>3. /\ x.price \in Prices \cup {None}
      /\ x.active \in BOOLEAN
      /\ x.deactivatedOn \in Nat \cup {None}
      /\ x.bundle \in SUBSET Products
      /\ x.uses \in SUBSET Ingredients
      /\ x.source \in Sources \cup {None}
  BY <1>1, <1>2, Zenon DEF Product
<1>4. TrackedOf(p) \in Tracked
  BY <1>2, <1>3, Zenon DEF TrackedOf, Tracked
<1> QED
  BY <1>1, <1>2, <1>3, <1>4, Zenon

\* The body of a request on a product, field by field.
LEMMA BodyFields ==
  ASSUME NEW b \in Bodies
  PROVE  /\ b.price \in Prices \cup {None}
         /\ b.active \in BOOLEAN
         /\ b.bundle \in SUBSET Products
         /\ b.uses \in SUBSET Ingredients
BY Zenon DEF Bodies

\* The day a product leaves the menu.
LEMMA NextDeactivatedType ==
  ASSUME NEW before \in Tracked, NEW active \in BOOLEAN, NEW today \in Nat
  PROVE  NextDeactivatedOn(before, active, today) \in Nat \cup {None}
<1>1. before.deactivatedOn \in Nat \cup {None}
  BY Zenon DEF Tracked
<1> QED
  BY <1>1 DEF NextDeactivatedOn

\* A row of products given by its fields is one, and is told from no row.
LEMMA IsProduct ==
  ASSUME NEW price \in Prices \cup {None}, NEW active \in BOOLEAN,
         NEW off \in Nat \cup {None}, NEW bundle \in SUBSET Products,
         NEW uses \in SUBSET Ingredients, NEW source \in Sources \cup {None}
  PROVE  [price |-> price, active |-> active, deactivatedOn |-> off,
          bundle |-> bundle, uses |-> uses, source |-> source] \in Product
BY Zenon DEF Product

\* What a price replaced leaves in the history.
LEMMA SupersededType ==
  ASSUME NEW p \in Products, NEW before \in Tracked, NEW price, NEW today \in Nat
  PROVE  \A r \in Superseded(p, before, price, today) :
            r \in PriceRow /\ r.product = p /\ r.until = today - 1 /\ r.price = before.price
<1>1. before.price \in Prices \cup {None}
  BY Zenon DEF Tracked
<1>2. today - 1 \in Int
  OBVIOUS
<1> QED
  BY <1>1, <1>2 DEF Superseded, PriceRow

\* The history after a write.
LEMMA KeptFirstType ==
  ASSUME MenuTypeOK, NEW rows, \A r \in rows : r \in PriceRow
  PROVE  \A r \in KeptFirst(rows) : r \in PriceRow
BY DEF MenuTypeOK, KeptFirst

\* The day of an instant.
LEMMA DateType ==
  ASSUME NEW t \in Nat
  PROVE  DateOf(t) \in Nat /\ DateOf(t) <= DateOf(t + 1)
BY DEF DateOf

\* The type of the rows after a product was edited (PrismaProductRepository.update).
LEMMA WriteProductType ==
  ASSUME MenuInv, NEW s \in Sessions, WriteProduct(s)
  PROVE  /\ MenuTypeOK'
         /\ Listed' = Listed
<1>1. PICK e \in Draft : e = draft[s]
  BY DEF MenuInv, MenuTypeOK
<1>2. /\ e.op = "write" /\ e.product \in Listed /\ e.body \in Bodies
      /\ e.today \in Nat /\ e.before \in Tracked
  BY <1>1, DraftFields DEF WriteProduct, MenuInv, DraftsHold
<1>3. PICK row : row =
          [price |-> e.body.price, active |-> e.body.active,
           deactivatedOn |-> NextDeactivatedOn(e.before, e.body.active, e.today),
           bundle |-> e.body.bundle, uses |-> e.body.uses,
           source |-> products[e.product].source]
  OBVIOUS
<1>4. row \in Product
  <2>1. products[e.product].source \in Sources \cup {None}
    BY <1>2, ProductFields DEF MenuInv
  <2>2. NextDeactivatedOn(e.before, e.body.active, e.today) \in Nat \cup {None}
    BY <1>2, BodyFields, NextDeactivatedType
  <2> QED
    BY <1>2, <1>3, <2>1, <2>2, BodyFields, IsProduct
<1>5. products' = [products EXCEPT ![e.product] = row]
  BY <1>1, <1>3 DEF WriteProduct
<1>6. products' \in [Products -> Product \cup {NoProduct}] /\ Listed' = Listed
  <2>1. NoProduct # row
    BY <1>4
  <2> QED
    BY <1>2, <1>4, <1>5, <2>1 DEF MenuInv, MenuTypeOK, Listed
<1>7. \A r \in history' : r \in PriceRow
  <2>1. PICK rows : rows = Superseded(e.product, e.before, e.body.price, e.today)
    OBVIOUS
  <2>2. \A r \in rows : r \in PriceRow
    BY <1>2, <2>1, SupersededType DEF Listed
  <2>3. history' = KeptFirst(rows)
    BY <1>1, <2>1 DEF WriteProduct
  <2> QED
    BY <2>2, <2>3, KeptFirstType DEF MenuInv
<1>8. draft' \in [Sessions -> Draft]
  BY DEF WriteProduct, DraftEnds, DraftGoes, MenuInv, MenuTypeOK, Draft
<1> QED
  BY <1>6, <1>7, <1>8 DEF WriteProduct, MenuInv, MenuTypeOK

\* The type of the rows after a supply was edited with its price
\* (PrismaSupplyRepository.update over saveSalePrice).
LEMMA WriteSupplyType ==
  ASSUME MenuInv, NEW s \in Sessions, WriteSupply(s)
  PROVE  /\ MenuTypeOK'
         /\ Listed' = Listed
<1>1. PICK e \in Draft : e = draft[s]
  BY DEF MenuInv, MenuTypeOK
<1>2. /\ e.op = "writeSupply" /\ e.product \in Listed /\ e.today \in Nat
      /\ e.before \in Tracked /\ e.price \in Prices \cup {None}
      /\ e.supply \in Ingredients /\ e.cost \in Costs \cup {None}
  BY <1>1, DraftFields DEF WriteSupply, MenuInv, DraftsHold
<1>3. PICK x : x = products[e.product]
  OBVIOUS
<1>4. PICK row : row = [x EXCEPT !.price = e.price, !.deactivatedOn = e.before.deactivatedOn]
  OBVIOUS
<1>5. row \in Product
  <2>1. e.before.deactivatedOn \in Nat \cup {None}
    BY <1>2, Zenon DEF Tracked
  <2>2. x \in Product
    BY <1>2, <1>3, ProductFields DEF MenuInv
  <2>3. row = [price |-> e.price, active |-> x.active,
               deactivatedOn |-> e.before.deactivatedOn, bundle |-> x.bundle,
               uses |-> x.uses, source |-> x.source]
    BY <1>4, <2>2 DEF Product
  <2> QED
    BY <1>2, <1>3, <2>1, <2>3, ProductFields, IsProduct DEF MenuInv
<1>6. products' = [products EXCEPT ![e.product] = row]
  BY <1>1, <1>2, <1>3, <1>4 DEF WriteSupply, MenuInv, MenuTypeOK, Listed
<1>7. products' \in [Products -> Product \cup {NoProduct}] /\ Listed' = Listed
  <2>1. NoProduct # row
    BY <1>5
  <2> QED
    BY <1>2, <1>5, <1>6, <2>1 DEF MenuInv, MenuTypeOK, Listed
<1>8. \A r \in history' : r \in PriceRow
  <2>1. PICK rows : rows = Superseded(e.product, e.before, e.price, e.today)
    OBVIOUS
  <2>2. \A r \in rows : r \in PriceRow
    BY <1>2, <2>1, SupersededType DEF Listed
  <2>3. history' = KeptFirst(rows)
    BY <1>1, <2>1 DEF WriteSupply
  <2> QED
    BY <2>2, <2>3, KeptFirstType DEF MenuInv
<1>9. draft' \in [Sessions -> Draft]
  BY DEF WriteSupply, DraftEnds, DraftGoes, MenuInv, MenuTypeOK, Draft
<1>10. costs' \in [Ingredients -> Costs \cup {None}]
  BY <1>1, <1>2 DEF WriteSupply, MenuInv, MenuTypeOK
<1> QED
  BY <1>7, <1>8, <1>9, <1>10 DEF WriteSupply, MenuInv, MenuTypeOK

\* What a spreadsheet asks for.
LEMMA SheetFields ==
  ASSUME NEW sheet \in Sheets
  PROVE  /\ sheet.source \in Sources
         /\ DOMAIN sheet.costs \subseteq Ingredients
         /\ \A u \in DOMAIN sheet.costs : sheet.costs[u] \in Costs \cup {None}
         /\ Planned(sheet) \subseteq Products
         /\ \A p \in Planned(sheet) : /\ sheet.rows[p].price \in Prices \cup {None}
                                      /\ sheet.rows[p].uses \in SUBSET Ingredients
<1>1. sheet \in Sheet
  OBVIOUS
<1>2. PICK named \in SUBSET Ingredients : sheet.costs \in [named -> Costs \cup {None}]
  BY <1>1 DEF Sheet
<1>3. PICK listed \in SUBSET Products :
        sheet.rows \in [listed -> [price : Prices \cup {None}, uses : SUBSET Ingredients]]
  BY <1>1 DEF Sheet
<1>4. sheet.source \in Sources
  BY <1>1 DEF Sheet
<1> QED
  BY <1>2, <1>3, <1>4 DEF Planned

\* A product as the import leaves it (upsertProduct).
LEMMA UpsertedType ==
  ASSUME MenuTypeOK, NEW sheet \in Sheets, NEW p \in Planned(sheet)
  PROVE  /\ Upserted(p, sheet.rows[p], sheet.source) \in Product
         /\ Upserted(p, sheet.rows[p], sheet.source).price = sheet.rows[p].price
         /\ p \in Listed =>
              /\ Upserted(p, sheet.rows[p], sheet.source).active = products[p].active
              /\ Upserted(p, sheet.rows[p], sheet.source).deactivatedOn = products[p].deactivatedOn
<1>1. PICK price \in Prices \cup {None} : price = sheet.rows[p].price
  BY SheetFields
<1>2. PICK uses \in SUBSET Ingredients : uses = sheet.rows[p].uses
  BY SheetFields
<1>3. PICK source \in Sources \cup {None} : source = sheet.source
  BY SheetFields
<1>4. PICK up : up = Upserted(p, sheet.rows[p], sheet.source)
  OBVIOUS
<1>5. CASE p \in Listed
  <2>1. PICK x : x = products[p]
    OBVIOUS
  <2>2. x \in Product
    BY <1>5, <2>1, ProductFields
  <2>3. up = [x EXCEPT !.price = price, !.uses = uses, !.source = source]
    BY <1>1, <1>2, <1>3, <1>4, <1>5, <2>1 DEF Upserted
  <2>4. up = [price |-> price, active |-> x.active, deactivatedOn |-> x.deactivatedOn,
              bundle |-> x.bundle, uses |-> uses, source |-> source]
    BY <2>2, <2>3 DEF Product
  <2>5. up \in Product
    BY <1>5, <2>1, <2>4, ProductFields, IsProduct
  <2>6. up.price = price /\ up.active = x.active /\ up.deactivatedOn = x.deactivatedOn
    BY <2>4, Zenon
  <2> QED
    BY <1>1, <1>4, <2>1, <2>5, <2>6, Zenon
<1>6. CASE p \notin Listed
  <2>1. up = [price |-> price, active |-> TRUE, deactivatedOn |-> None,
              bundle |-> {}, uses |-> uses, source |-> source]
    BY <1>1, <1>2, <1>3, <1>4, <1>6 DEF Upserted, NewProduct
  <2>2. up \in Product
    BY <2>1, Zenon DEF Product
  <2>3. up.price = price
    BY <2>1
  <2> QED
    BY <1>1, <1>4, <1>6, <2>2, <2>3
<1> QED
  BY <1>5, <1>6

\* A product the import takes off the menu (deactivateProducts).
LEMMA DeactivatedType ==
  ASSUME MenuTypeOK, NEW p \in Listed, NEW today \in Nat
  PROVE  /\ Deactivated(p, today) \in Product
         /\ Deactivated(p, today).price = products[p].price
         /\ ~Deactivated(p, today).active
         /\ Deactivated(p, today).deactivatedOn =
               IF products[p].active THEN today ELSE products[p].deactivatedOn
<1>1. PICK x : x = products[p]
  OBVIOUS
<1>2. PICK off : off = NextDeactivatedOn(TrackedOf(p), FALSE, today)
  OBVIOUS
<1>3. PICK gone : gone = Deactivated(p, today)
  OBVIOUS
<1>4. x \in Product
  BY <1>1, ProductFields
<1>5. gone = [x EXCEPT !.active = FALSE, !.deactivatedOn = off]
  BY <1>1, <1>2, <1>3 DEF Deactivated
<1>6. gone = [price |-> x.price, active |-> FALSE, deactivatedOn |-> off,
              bundle |-> x.bundle, uses |-> x.uses, source |-> x.source]
  BY <1>4, <1>5 DEF Product
<1>7. off \in Nat \cup {None}
  <2>1. TrackedOf(p) \in Tracked
    BY ProductFields
  <2> QED
    BY <1>2, <2>1, NextDeactivatedType
<1>8. gone \in Product
  BY <1>1, <1>6, <1>7, ProductFields, IsProduct
<1>9. gone.price = x.price /\ ~gone.active /\ gone.deactivatedOn = off
  BY <1>6, Zenon
<1>10. TrackedOf(p).active = x.active /\ TrackedOf(p).deactivatedOn = x.deactivatedOn
  BY <1>1, Zenon DEF TrackedOf
<1>11. off = IF x.active THEN today ELSE x.deactivatedOn
  BY <1>2, <1>10, Zenon DEF NextDeactivatedOn
<1> QED
  BY <1>1, <1>3, <1>8, <1>9, <1>11, Zenon

\* The rows an import adds to the history.
ImportRows(e) ==
    UNION {Superseded(p, TrackedOf(p), e.sheet.rows[p].price, e.today)
              : p \in Planned(e.sheet) \cap Listed}

\* Each is of a product's price that the import replaces.
LEMMA ImportRowsType ==
  ASSUME MenuTypeOK, NEW e \in Draft, e.op = "writeImport"
  PROVE  \A r \in ImportRows(e) :
            /\ r \in PriceRow /\ r.until = e.today - 1
            /\ r.product \in Planned(e.sheet) \cap Listed
            /\ r \in Superseded(r.product, TrackedOf(r.product),
                                e.sheet.rows[r.product].price, e.today)
<1> SUFFICES ASSUME NEW r \in ImportRows(e)
             PROVE  /\ r \in PriceRow /\ r.until = e.today - 1
                    /\ r.product \in Planned(e.sheet) \cap Listed
                    /\ r \in Superseded(r.product, TrackedOf(r.product),
                                        e.sheet.rows[r.product].price, e.today)
  OBVIOUS
<1>1. PICK p \in Planned(e.sheet) \cap Listed :
        r \in Superseded(p, TrackedOf(p), e.sheet.rows[p].price, e.today)
  BY DEF ImportRows
<1>2. e.today \in Nat /\ p \in Products /\ TrackedOf(p) \in Tracked
  BY <1>1, DraftFields, ProductFields
<1>3. r \in PriceRow /\ r.product = p /\ r.until = e.today - 1
  BY <1>1, <1>2, SupersededType
<1> QED
  BY <1>1, <1>3

\* The type of the rows after an import (PrismaMenuImportTarget.write).
LEMMA WriteImportType ==
  ASSUME MenuInv, NEW s \in Sessions, WriteImport(s)
  PROVE  /\ MenuTypeOK'
         /\ Listed \subseteq Listed'
<1>1. PICK e \in Draft : e = draft[s]
  BY DEF MenuInv, MenuTypeOK
<1>2. /\ e.op = "writeImport" /\ e.today \in Nat /\ e.sheet \in Sheets
      /\ e.leaving \subseteq Listed
  BY <1>1, DraftFields DEF WriteImport, MenuInv, DraftsHold
<1>3. products' = [p \in Products |->
              IF p \in Planned(e.sheet) THEN Upserted(p, e.sheet.rows[p], e.sheet.source)
              ELSE IF p \in e.leaving THEN Deactivated(p, e.today)
              ELSE products[p]]
  BY <1>1 DEF WriteImport
<1>4. \A p \in Products :
        /\ p \in Planned(e.sheet) => products'[p] \in Product
        /\ p \notin Planned(e.sheet) /\ p \in e.leaving => products'[p] \in Product
        /\ p \notin Planned(e.sheet) /\ p \notin e.leaving => products'[p] = products[p]
  BY <1>2, <1>3, UpsertedType, DeactivatedType DEF MenuInv
<1>5. products' \in [Products -> Product \cup {NoProduct}]
  BY <1>3, <1>4 DEF MenuInv, MenuTypeOK
<1>6. Listed \subseteq Listed'
  BY <1>4 DEF Listed
<1>7. \A r \in history' : r \in PriceRow
  <2>1. history' = KeptFirst(ImportRows(e))
    BY <1>1 DEF WriteImport, ImportRows
  <2>2. \A r \in ImportRows(e) : r \in PriceRow
    BY <1>2, ImportRowsType DEF MenuInv
  <2> QED
    BY <2>1, <2>2, KeptFirstType DEF MenuInv
<1>8. draft' \in [Sessions -> Draft]
  BY DEF WriteImport, DraftEnds, DraftGoes, MenuInv, MenuTypeOK, Draft
<1>9. costs' \in [Ingredients -> Costs \cup {None}]
  BY <1>1, <1>2, SheetFields DEF WriteImport, MenuInv, MenuTypeOK
<1> QED
  BY <1>5, <1>6, <1>7, <1>8, <1>9 DEF WriteImport, MenuInv, MenuTypeOK

-----------------------------------------------------------------------------
(***************************************************************************)
(* The prices and the menu of an earlier day.                              *)
(***************************************************************************)

\* What is new in the history is of the write.
LEMMA KeptFirstRows ==
  ASSUME NEW rows
  PROVE  /\ history \subseteq KeptFirst(rows)
         /\ \A r \in KeptFirst(rows) \ history :
               r \in rows /\ \A h \in history : h.product # r.product \/ h.until # r.until
         /\ \A r \in rows :
               (\A h \in history : h.product # r.product \/ h.until # r.until)
               => r \in KeptFirst(rows)
BY DEF KeptFirst

\* A product the write leaves alone keeps the price it had on any day.
LEMMA OtherPriceStands ==
  ASSUME NEW p, NEW d, NEW rows, history' = KeptFirst(rows),
         \A r \in rows : r.product # p,
         products'[p].price = products[p].price
  PROVE  PriceOn(p, d)' = PriceOn(p, d)
<1>1. RowsFrom(p, d)' = RowsFrom(p, d)
  BY KeptFirstRows DEF RowsFrom
<1>2. FirstRows(p, d)' = FirstRows(p, d)
  BY <1>1 DEF FirstRows
<1> QED
  BY <1>2 DEF PriceOn

\* The product the write is about, too: the price it had until yesterday is
\* kept, by this write or by the first of its day.
LEMMA PriceStands ==
  ASSUME NEW p \in Products, NEW today \in Nat, NEW d \in Nat, d < today,
         NEW before \in Tracked, NEW price, NEW rows,
         \A r \in history : r \in PriceRow /\ r.until < today,
         DayKept(p, today) \/ products[p].price = before.price,
         history' = KeptFirst(rows),
         \A r \in rows : r.product = p => r \in Superseded(p, before, price, today),
         \A r \in Superseded(p, before, price, today) : r \in rows,
         products'[p].price = price,
         PriceOn(p, d) # None
  PROVE  PriceOn(p, d)' = PriceOn(p, d)
<1>1. \A r \in Superseded(p, before, price, today) :
        r.product = p /\ r.until = today - 1 /\ r.price = before.price
  BY SupersededType
<1>2. \A r \in RowsFrom(p, d)' \ RowsFrom(p, d) :
        /\ r \in Superseded(p, before, price, today)
        /\ ~DayKept(p, today)
  BY <1>1, KeptFirstRows DEF RowsFrom, DayKept
<1>3. RowsFrom(p, d) \subseteq RowsFrom(p, d)'
  BY KeptFirstRows DEF RowsFrom
<1>4. CASE FirstRows(p, d) # {}
  <2>1. PICK q \in FirstRows(p, d) : TRUE
    BY <1>4
  <2>2. /\ q \in RowsFrom(p, d) /\ q.until \in Int /\ q.until < today
        /\ q \in history /\ q.product = p
        /\ \A r \in RowsFrom(p, d) : q.until <= r.until /\ r.until \in Int
    BY <2>1 DEF FirstRows, RowsFrom, PriceRow
  <2>3. \A r \in RowsFrom(p, d)' \ RowsFrom(p, d) : r.until = today - 1 /\ q.until < r.until
    <3> TAKE r \in RowsFrom(p, d)' \ RowsFrom(p, d)
    <3>1. r.until = today - 1 /\ ~DayKept(p, today)
      BY <1>1, <1>2
    <3>2. q.until # today - 1
      BY <2>2, <3>1 DEF DayKept
    <3> QED
      BY <2>2, <3>1, <3>2
  <2>4. FirstRows(p, d)' = FirstRows(p, d)
    <3>1. ASSUME NEW r \in FirstRows(p, d) PROVE r \in FirstRows(p, d)'
      <4>1. r \in RowsFrom(p, d) /\ r.until = q.until
        BY <2>1, <2>2 DEF FirstRows
      <4>2. \A x \in RowsFrom(p, d)' : r.until <= x.until
        BY <2>2, <2>3, <4>1
      <4> QED
        BY <1>3, <4>1, <4>2 DEF FirstRows
    <3>2. ASSUME NEW r \in FirstRows(p, d)' PROVE r \in FirstRows(p, d)
      <4>1. r \in RowsFrom(p, d)' /\ \A x \in RowsFrom(p, d)' : r.until <= x.until
        BY DEF FirstRows
      <4>2. r \in RowsFrom(p, d)
        BY <1>3, <2>2, <2>3, <4>1
      <4> QED
        BY <1>3, <4>1, <4>2 DEF FirstRows
    <3> QED
      BY <3>1, <3>2
  <2> QED
    BY <1>4, <2>4 DEF PriceOn
<1>5. CASE FirstRows(p, d) = {} /\ RowsFrom(p, d) = {}
  <2>1. PriceOn(p, d) = products[p].price
    BY <1>5 DEF PriceOn
  <2>2. ~DayKept(p, today)
    BY <1>5 DEF DayKept, RowsFrom
  <2>3. products[p].price = before.price /\ before.price # None
    BY <2>1, <2>2
  <2>4. CASE price = before.price
    <3>1. Superseded(p, before, price, today) = {}
      BY <2>4 DEF Superseded
    <3>2. RowsFrom(p, d)' = {}
      BY <1>2, <1>5, <3>1
    <3>3. FirstRows(p, d)' = {}
      BY <3>2 DEF FirstRows
    <3> QED
      BY <2>1, <2>3, <2>4, <3>3 DEF PriceOn
  <2>5. CASE price # before.price
    <3>1. PICK r : r = [product |-> p, until |-> today - 1, price |-> before.price]
      OBVIOUS
    <3>2. Superseded(p, before, price, today) = {r}
      BY <2>3, <2>5, <3>1 DEF Superseded
    <3>3. r \in history'
      BY <2>2, <3>1, <3>2, KeptFirstRows DEF DayKept
    <3>4. RowsFrom(p, d)' = {r}
      BY <1>2, <1>5, <3>1, <3>2, <3>3 DEF RowsFrom
    <3>5. FirstRows(p, d)' = {r}
      BY <3>1, <3>4 DEF FirstRows
    <3> QED
      BY <2>1, <2>3, <3>1, <3>5 DEF PriceOn
  <2> QED
    BY <2>4, <2>5
<1>6. RowsFrom(p, d) # {} => FirstRows(p, d) # {}
  <2> SUFFICES ASSUME RowsFrom(p, d) # {} PROVE FirstRows(p, d) # {}
    OBVIOUS
  <2>1. PICK T : T = {r.until : r \in RowsFrom(p, d)}
    OBVIOUS
  <2>2. T \in SUBSET Nat /\ T # {}
    BY <2>1 DEF RowsFrom, PriceRow
  <2>3. PICK n \in T : \A m \in T : n <= m
    BY <2>2, LeastNumber
  <2> QED
    BY <2>1, <2>3 DEF FirstRows
<1> QED
  BY <1>4, <1>5, <1>6

\* The write of an edit, or of a supply with its price, keeps what its product
\* cost until yesterday.
LEMMA KnowsItsPast ==
  ASSUME MenuInv, NEW s \in Sessions, draft[s].op \in {"write", "writeSupply"},
         scene = "repricing" \/ s = Alone
  PROVE  LET e == draft[s] IN
         /\ DayKept(e.product, e.today) \/ products[e.product].price = e.before.price
         /\ \/ e.before.active \/ e.before.deactivatedOn = e.today
            \/ /\ e.before.active = products[e.product].active
               /\ e.before.deactivatedOn = products[e.product].deactivatedOn
<1>1. CASE scene = "repricing"
  <2>1. draft[s].op = "write" /\ Dated(s) /\ draft[s].product \in Listed
    BY <1>1 DEF MenuInv, InOneDay, Dated, DraftsHold
  <2>2. draft[s].today = DateOf(now)
    BY <1>1, <2>1 DEF MenuInv, InOneDay
  <2> QED
    BY <1>1, <2>1, <2>2 DEF MenuInv, InOneDay
<1>2. CASE scene # "repricing"
  <2>1. draft[s].before = TrackedOf(draft[s].product)
    BY <1>2 DEF MenuInv, OneAtATime
  <2>2. PICK q, x : q = draft[s].before /\ x = products[draft[s].product]
    OBVIOUS
  <2>3. q = [price |-> x.price, active |-> x.active, deactivatedOn |-> x.deactivatedOn]
    BY <2>1, <2>2 DEF TrackedOf
  <2>4. q.price = x.price /\ q.active = x.active /\ q.deactivatedOn = x.deactivatedOn
    BY <2>3, Zenon
  <2> QED
    BY <2>2, <2>4, Zenon
<1> QED
  BY <1>1, <1>2

\* What is on the menu of a day stays on it while it is sold and priced on it.
LEMMA StaysOnMenu ==
  ASSUME NEW p \in Listed', NEW d, SellableOn(p, d)', PriceOn(p, d)' = PriceOn(p, d),
         PriceOn(p, d) # None
  PROVE  p \in SaleMenuOn(d)' /\ PriceOn(p, d)' = PriceOn(p, d)
BY DEF SaleMenuOn

\* An edit of a product.
LEMMA WriteProductStands ==
  ASSUME MenuInv, NEW s \in Sessions, WriteProduct(s), scene = "repricing" \/ s = Alone,
         NEW d \in Nat, d < draft[s].today, NEW p \in SaleMenuOn(d)
  PROVE  p \in SaleMenuOn(d)' /\ PriceOn(p, d)' = PriceOn(p, d)
<1>1. PICK e \in Draft : e = draft[s]
  BY DEF MenuInv, MenuTypeOK
<1>2. /\ e.op = "write" /\ e.product \in Listed /\ e.product \in Products
      /\ e.body \in Bodies /\ e.today \in Nat /\ e.before \in Tracked /\ Dated(s)
  BY <1>1, DraftFields DEF WriteProduct, MenuInv, DraftsHold, Dated
<1>3. p \in Listed /\ p \in Products /\ SellableOn(p, d) /\ PriceOn(p, d) # None
  BY DEF SaleMenuOn, Listed
<1>4. Listed' = Listed /\ MenuTypeOK'
  BY WriteProductType
<1>5. PICK rows : rows = Superseded(e.product, e.before, e.body.price, e.today)
  OBVIOUS
<1>6. /\ history' = KeptFirst(rows)
      /\ \A r \in rows : r.product = e.product
  BY <1>1, <1>2, <1>5, SupersededType DEF WriteProduct
<1>7. CASE p # e.product
  <2>1. products'[p] = products[p]
    BY <1>1, <1>3, <1>7 DEF WriteProduct, MenuInv, MenuTypeOK
  <2>2. PriceOn(p, d)' = PriceOn(p, d)
    BY <1>6, <1>7, <2>1, OtherPriceStands
  <2>3. SellableOn(p, d)'
    BY <1>3, <2>1 DEF SellableOn
  <2> QED
    BY <1>3, <1>4, <2>2, <2>3, StaysOnMenu
<1>8. CASE p = e.product
  <2>1. PICK row : row = products'[p]
    OBVIOUS
  <2>2. row = [price |-> e.body.price, active |-> e.body.active,
               deactivatedOn |-> NextDeactivatedOn(e.before, e.body.active, e.today),
               bundle |-> e.body.bundle, uses |-> e.body.uses,
               source |-> products[p].source]
    BY <1>1, <1>3, <1>8, <2>1 DEF WriteProduct, MenuInv, MenuTypeOK
  <2>3. /\ row.price = e.body.price /\ row.active = e.body.active
        /\ row.deactivatedOn = NextDeactivatedOn(e.before, e.body.active, e.today)
    BY <2>2, Zenon
  <2>4. PriceOn(p, d)' = PriceOn(p, d)
    <3>1. DayKept(p, e.today) \/ products[p].price = e.before.price
      BY <1>1, <1>2, <1>8, KnowsItsPast
    <3>2. \A r \in history : r \in PriceRow /\ r.until < e.today
      BY <1>1, <1>2 DEF MenuInv, MenuTypeOK, HistoryEnds
    <3>3. products'[p].price = e.body.price
      BY <2>1, <2>3
    <3> QED
      BY <1>1, <1>2, <1>3, <1>5, <1>6, <1>8, <3>1, <3>2, <3>3, PriceStands
  <2>5. SellableOn(p, d)'
    <3>1. CASE e.body.active
      BY <2>1, <2>3, <3>1 DEF SellableOn
    <3>2. CASE ~e.body.active /\ (e.before.active \/ e.before.deactivatedOn = e.today)
      <4>1. row.deactivatedOn = e.today
        BY <2>3, <3>2 DEF NextDeactivatedOn
      <4> QED
        BY <1>1, <1>2, <2>1, <4>1 DEF SellableOn
    <3>3. CASE /\ ~e.body.active /\ ~e.before.active
               /\ e.before.active = products[p].active
               /\ e.before.deactivatedOn = products[p].deactivatedOn
      <4>1. row.deactivatedOn = products[p].deactivatedOn
        BY <2>3, <3>3 DEF NextDeactivatedOn
      <4> QED
        BY <1>3, <2>1, <3>3, <4>1 DEF SellableOn
    <3> QED
      BY <1>1, <1>2, <1>8, <3>1, <3>2, <3>3, KnowsItsPast
  <2> QED
    BY <1>3, <1>4, <2>4, <2>5, StaysOnMenu
<1> QED
  BY <1>7, <1>8

\* An edit of a supply that carries the price it is sold at.
LEMMA WriteSupplyStands ==
  ASSUME MenuInv, NEW s \in Sessions, WriteSupply(s), s = Alone, scene # "repricing",
         NEW d \in Nat, d < draft[s].today, NEW p \in SaleMenuOn(d)
  PROVE  p \in SaleMenuOn(d)' /\ PriceOn(p, d)' = PriceOn(p, d)
<1>1. PICK e \in Draft : e = draft[s]
  BY DEF MenuInv, MenuTypeOK
<1>2. /\ e.op = "writeSupply" /\ e.product \in Listed /\ e.product \in Products
      /\ e.today \in Nat /\ e.before \in Tracked /\ Dated(s)
  BY <1>1, DraftFields DEF WriteSupply, MenuInv, DraftsHold, Dated
<1>3. p \in Listed /\ p \in Products /\ SellableOn(p, d) /\ PriceOn(p, d) # None
  BY DEF SaleMenuOn, Listed
<1>4. Listed' = Listed
  BY WriteSupplyType
<1>5. PICK rows : rows = Superseded(e.product, e.before, e.price, e.today)
  OBVIOUS
<1>6. /\ history' = KeptFirst(rows)
      /\ \A r \in rows : r.product = e.product
  BY <1>1, <1>2, <1>5, SupersededType DEF WriteSupply
<1>7. PICK x : x = products[p]
  OBVIOUS
<1>8. x \in Product
  BY <1>3, <1>7, ProductFields DEF MenuInv
<1>9. products' = [products EXCEPT ![e.product].price = e.price,
                                   ![e.product].deactivatedOn = e.before.deactivatedOn]
  BY <1>1 DEF WriteSupply
<1>10. CASE p # e.product
  <2>1. products'[p] = products[p]
    BY <1>3, <1>9, <1>10 DEF MenuInv, MenuTypeOK
  <2>2. PriceOn(p, d)' = PriceOn(p, d)
    BY <1>6, <1>10, <2>1, OtherPriceStands
  <2>3. SellableOn(p, d)'
    BY <1>3, <2>1 DEF SellableOn
  <2> QED
    BY <1>3, <1>4, <2>2, <2>3, StaysOnMenu
<1>11. CASE p = e.product
  <2>1. PICK row : row = products'[p]
    OBVIOUS
  <2>2. row = [x EXCEPT !.price = e.price, !.deactivatedOn = e.before.deactivatedOn]
    BY <1>3, <1>7, <1>9, <1>11, <2>1 DEF MenuInv, MenuTypeOK
  <2>3. row = [price |-> e.price, active |-> x.active,
               deactivatedOn |-> e.before.deactivatedOn, bundle |-> x.bundle,
               uses |-> x.uses, source |-> x.source]
    BY <1>8, <2>2 DEF Product
  <2>4. row.price = e.price /\ row.active = x.active /\ row.deactivatedOn = e.before.deactivatedOn
    BY <2>3, Zenon
  <2>5. e.before.price = x.price /\ e.before.deactivatedOn = x.deactivatedOn
    <3>1. e.before = TrackedOf(p)
      BY <1>1, <1>2, <1>11 DEF MenuInv, OneAtATime
    <3> QED
      BY <1>7, <3>1 DEF TrackedOf
  <2>6. PriceOn(p, d)' = PriceOn(p, d)
    <3>1. \A r \in history : r \in PriceRow /\ r.until < e.today
      BY <1>1, <1>2 DEF MenuInv, MenuTypeOK, HistoryEnds
    <3>2. products'[p].price = e.price /\ products[p].price = e.before.price
      BY <1>7, <2>1, <2>4, <2>5
    <3> QED
      BY <1>1, <1>2, <1>3, <1>5, <1>6, <1>11, <3>1, <3>2, PriceStands
  <2>7. SellableOn(p, d)'
    BY <1>3, <1>7, <2>1, <2>4, <2>5 DEF SellableOn
  <2> QED
    BY <1>3, <1>4, <2>6, <2>7, StaysOnMenu
<1> QED
  BY <1>10, <1>11

\* A reimport of a spreadsheet.
LEMMA WriteImportStands ==
  ASSUME MenuInv, NEW s \in Sessions, WriteImport(s),
         NEW d \in Nat, d < draft[s].today, NEW p \in SaleMenuOn(d)
  PROVE  p \in SaleMenuOn(d)' /\ PriceOn(p, d)' = PriceOn(p, d)
<1>1. PICK e \in Draft : e = draft[s]
  BY DEF MenuInv, MenuTypeOK
<1>2. /\ e.op = "writeImport" /\ e.today \in Nat /\ e.sheet \in Sheets
      /\ e.leaving \subseteq Listed /\ Dated(s)
  BY <1>1, DraftFields DEF WriteImport, MenuInv, DraftsHold, Dated
<1>3. p \in Listed /\ p \in Products /\ SellableOn(p, d) /\ PriceOn(p, d) # None
  BY DEF SaleMenuOn, Listed
<1>4. p \in Listed'
  BY <1>3, WriteImportType
<1>5. history' = KeptFirst(ImportRows(e))
  BY <1>1 DEF WriteImport, ImportRows
<1>6. products'[p] = IF p \in Planned(e.sheet) THEN Upserted(p, e.sheet.rows[p], e.sheet.source)
                     ELSE IF p \in e.leaving THEN Deactivated(p, e.today)
                     ELSE products[p]
  BY <1>1, <1>3 DEF WriteImport
<1>7. CASE p \in Planned(e.sheet)
  <2>1. PICK row : row = products'[p]
    OBVIOUS
  <2>2. /\ row.price = e.sheet.rows[p].price /\ row.active = products[p].active
        /\ row.deactivatedOn = products[p].deactivatedOn
    <3>1. row = Upserted(p, e.sheet.rows[p], e.sheet.source)
      BY <1>6, <1>7, <2>1
    <3>2. MenuTypeOK /\ e.sheet \in Sheets /\ p \in Planned(e.sheet) /\ p \in Listed
      BY <1>2, <1>3, <1>7 DEF MenuInv
    <3> QED
      BY ONLY <3>1, <3>2, UpsertedType, Zenon
  <2>3. PriceOn(p, d)' = PriceOn(p, d)
    <3>1. PICK before \in Tracked : before = TrackedOf(p)
      BY <1>3, ProductFields DEF MenuInv
    <3>2. products[p].price = before.price
      BY <3>1 DEF TrackedOf
    <3>3. \A r \in history : r \in PriceRow /\ r.until < e.today
      BY <1>1, <1>2 DEF MenuInv, MenuTypeOK, HistoryEnds
    <3>4. PICK price : price = e.sheet.rows[p].price
      OBVIOUS
    <3>5. \A r \in ImportRows(e) : r.product = p => r \in Superseded(p, before, price, e.today)
      BY <1>2, <3>1, <3>4, ImportRowsType DEF MenuInv
    <3>6. \A r \in Superseded(p, before, price, e.today) : r \in ImportRows(e)
      BY <1>3, <1>7, <3>1, <3>4 DEF ImportRows
    <3>7. products'[p].price = price
      BY <2>1, <2>2, <3>4
    <3> QED
      BY <1>1, <1>2, <1>3, <1>5, <3>2, <3>3, <3>5, <3>6, <3>7, PriceStands
  <2>4. SellableOn(p, d)'
    BY <1>3, <2>1, <2>2 DEF SellableOn
  <2> QED
    BY <1>3, <1>4, <2>3, <2>4, StaysOnMenu
<1>8. CASE p \notin Planned(e.sheet)
  <2>1. \A r \in ImportRows(e) : r.product # p
    BY <1>2, <1>8, ImportRowsType DEF MenuInv
  <2>2. CASE p \in e.leaving
    <3>1. PICK row : row = products'[p]
      OBVIOUS
    <3>2. /\ row.price = products[p].price
          /\ row.deactivatedOn =
                IF products[p].active THEN e.today ELSE products[p].deactivatedOn
      BY <1>2, <1>3, <1>6, <1>8, <2>2, <3>1, DeactivatedType DEF MenuInv
    <3>3. PriceOn(p, d)' = PriceOn(p, d)
      BY <1>5, <2>1, <3>1, <3>2, OtherPriceStands
    <3>4. SellableOn(p, d)'
      BY <1>1, <1>2, <1>3, <3>1, <3>2 DEF SellableOn
    <3> QED
      BY <1>3, <1>4, <3>3, <3>4, StaysOnMenu
  <2>3. CASE p \notin e.leaving
    <3>1. products'[p] = products[p]
      BY <1>6, <1>8, <2>3
    <3>2. PriceOn(p, d)' = PriceOn(p, d)
      BY <1>5, <2>1, <3>1, OtherPriceStands
    <3>3. SellableOn(p, d)'
      BY <1>3, <3>1 DEF SellableOn
    <3> QED
      BY <1>3, <1>4, <3>2, <3>3, StaysOnMenu
  <2> QED
    BY <2>2, <2>3
<1> QED
  BY <1>7, <1>8

-----------------------------------------------------------------------------
(***************************************************************************)
(* The invariant.                                                          *)
(***************************************************************************)

\* A request begun or gone on with: it holds rows that are there, and what it
\* read of a product is what the product is.
Sound(s, d) ==
    /\ d \in Draft
    /\ d.op \in {"edit", "write", "supply", "writeSupply", "writeImport"} =>
          \/ d.today = DateOf(now)
          \/ Dated(s) /\ d.today = draft[s].today
    /\ d.op \in {"edit", "write", "writeSupply"} => d.product \in Listed
    /\ d.op \in {"write", "writeSupply"} => d.before = TrackedOf(d.product)
    /\ d.op = "writeImport" => d.leaving \subseteq Listed

\* It keeps the invariant.
LEMMA GoesOn ==
  ASSUME MenuInv, NEW s \in Sessions, NEW d, Sound(s, d), DraftGoes(s, d),
         UNCHANGED <<now, scene, products, history, costs, addons>>,
         scene = "repricing" => d.op \in {"none", "edit", "write"},
         scene # "repricing" => s = Alone
  PROVE  MenuInv'
<1>1. d \in Draft /\ draft' = [draft EXCEPT ![s] = d] /\ draft \in [Sessions -> Draft]
  BY DEF Sound, DraftGoes, MenuInv, MenuTypeOK
<1>2. \A t \in Sessions : draft'[t] = IF t = s THEN d ELSE draft[t]
  BY <1>1
<1>3. Listed' = Listed /\ \A p : TrackedOf(p)' = TrackedOf(p)
  BY DEF Listed, TrackedOf
<1>4. MenuTypeOK'
  BY <1>1 DEF MenuInv, MenuTypeOK
<1>5. HistoryEnds'
  <2>1. \A r \in history' : r.until < DateOf(now')
    BY DEF MenuInv, HistoryEnds
  <2>2. ASSUME NEW t \in Sessions, Dated(t)'
        PROVE  draft'[t].today <= DateOf(now') /\ \A r \in history' : r.until < draft'[t].today
    <3>1. CASE t # s
      <4>1. Dated(t) /\ draft'[t] = draft[t]
        BY <1>2, <2>2, <3>1 DEF Dated
      <4> QED
        BY <4>1 DEF MenuInv, HistoryEnds
    <3>2. CASE t = s /\ d.today = DateOf(now)
      <4>1. DateOf(now) \in Nat
        BY DateType DEF MenuInv
      <4> QED
        BY <1>2, <2>1, <3>2, <4>1
    <3>3. CASE t = s /\ Dated(s) /\ d.today = draft[s].today
      BY <1>2, <3>3 DEF MenuInv, HistoryEnds
    <3> QED
      BY <1>2, <2>2, <3>1, <3>2, <3>3 DEF Dated, Sound
  <2> QED
    BY <2>1, <2>2 DEF HistoryEnds
<1>6. DraftsHold'
  BY <1>2, <1>3 DEF MenuInv, DraftsHold, Sound
<1>7. scene # "repricing" => OneAtATime'
  BY <1>2, <1>3, SceneAssumption DEF MenuInv, OneAtATime, Sound
<1>8. ASSUME scene = "repricing" PROVE InOneDay'
  <2>1. \A p \in Listed : DayKept(p, DateOf(now))' <=> DayKept(p, DateOf(now))
    BY DEF DayKept
  <2>2. PICK today : today = DateOf(now) /\ today = DateOf(now')
    OBVIOUS
  <2>3. ASSUME NEW t \in Sessions
        PROVE  /\ draft'[t].op \in {"none", "edit", "write"}
               /\ Dated(t)' => draft'[t].today = today
               /\ draft'[t].op = "write" =>
                     draft'[t].before.active \/ draft'[t].before.deactivatedOn = today
    <3>1. CASE t # s
      BY <1>2, <1>8, <2>2, <3>1 DEF MenuInv, InOneDay, Dated
    <3>2. CASE t = s
      <4>1. Dated(t)' => d.today = today
        BY <1>2, <1>8, <2>2, <3>2 DEF MenuInv, InOneDay, Dated, Sound
      <4>2. d.op = "write" => d.before.active \/ d.before.deactivatedOn = today
        <5> SUFFICES ASSUME d.op = "write"
                     PROVE  d.before.active \/ d.before.deactivatedOn = today
          OBVIOUS
        <5>1. PICK q, x : q = d.before /\ x = products[d.product]
          OBVIOUS
        <5>2. q = [price |-> x.price, active |-> x.active, deactivatedOn |-> x.deactivatedOn]
          BY <5>1 DEF Sound, TrackedOf
        <5>3. q.active = x.active /\ q.deactivatedOn = x.deactivatedOn
          BY <5>2, Zenon
        <5>4. x.active \/ x.deactivatedOn = today
          BY <1>8, <2>2, <5>1 DEF MenuInv, InOneDay, Sound
        <5> QED
          BY <5>1, <5>3, <5>4, Zenon
      <4> QED
        BY <1>2, <1>8, <3>2, <4>1, <4>2
    <3> QED
      BY <3>1, <3>2
  <2>4. ASSUME NEW p \in Listed, ~DayKept(p, today), NEW t \in Sessions,
               draft'[t].op = "write", draft'[t].product = p
        PROVE  draft'[t].before.price = products[p].price
    <3>1. CASE t # s
      BY <1>2, <1>8, <2>2, <2>4, <3>1 DEF MenuInv, InOneDay
    <3>2. CASE t = s
      BY <1>2, <2>4, <3>2 DEF Sound, TrackedOf
    <3> QED
      BY <3>1, <3>2
  <2>5. \A p \in Listed : /\ products[p].active \/ products[p].deactivatedOn = today
                          /\ DayKept(p, today) \/ products[p].price # None
    BY <1>8, <2>2 DEF MenuInv, InOneDay
  <2> QED
    BY <1>3, <2>1, <2>2, <2>3, <2>4, <2>5 DEF InOneDay
<1> QED
  BY <1>4, <1>5, <1>6, <1>7, <1>8 DEF MenuInv

\* A write of the one request in flight keeps the invariant.
LEMMA WritesAlone ==
  ASSUME MenuInv, scene # "repricing", UNCHANGED <<now, scene>>, DraftGoes(Alone, NoDraft),
         MenuTypeOK', Listed \subseteq Listed',
         \A r \in history' \ history : Dated(Alone) /\ r.until = draft[Alone].today - 1
  PROVE  MenuInv'
<1>1. Alone \in Sessions
  BY SceneAssumption
<1>2. \A t \in Sessions : draft'[t] = NoDraft
  BY <1>1 DEF MenuInv, OneAtATime, DraftGoes, MenuTypeOK
<1>3. \A t \in Sessions : draft'[t].op = "none"
  BY <1>2 DEF NoDraft
<1>4. HistoryEnds'
  <2>1. DateOf(now) \in Nat
    BY DateType DEF MenuInv
  <2>2. Dated(Alone) => draft[Alone].today \in Nat /\ draft[Alone].today <= DateOf(now)
    BY <1>1, DraftFields DEF MenuInv, MenuTypeOK, HistoryEnds, Dated
  <2>3. \A r \in history' : r.until < DateOf(now)
    BY <2>1, <2>2 DEF MenuInv, HistoryEnds
  <2> QED
    BY <1>3, <2>3 DEF HistoryEnds, Dated
<1>5. DraftsHold' /\ OneAtATime'
  BY <1>1, <1>2, <1>3 DEF DraftsHold, OneAtATime
<1> QED
  BY <1>4, <1>5 DEF MenuInv

\* A write among others of the same day keeps the invariant.
LEMMA WritesAmongOthers ==
  ASSUME MenuInv, scene = "repricing", UNCHANGED <<now, scene>>,
         NEW s \in Sessions, WriteProduct(s)
  PROVE  MenuInv'
<1>1. PICK e \in Draft : e = draft[s]
  BY DEF MenuInv, MenuTypeOK
<1>2. PICK today : today = DateOf(now) /\ today = DateOf(now') /\ today \in Nat
  BY DateType DEF MenuInv
<1>3. /\ e.op = "write" /\ e.product \in Listed /\ e.product \in Products
      /\ e.body \in Bodies /\ e.today = today /\ e.before \in Tracked
  BY <1>1, <1>2, DraftFields DEF WriteProduct, MenuInv, DraftsHold, InOneDay, Dated
<1>4. MenuTypeOK' /\ Listed' = Listed
  BY WriteProductType
<1>5. PICK rows : rows = Superseded(e.product, e.before, e.body.price, today)
  OBVIOUS
<1>6. /\ history' = KeptFirst(rows)
      /\ \A r \in rows : r.product = e.product /\ r.until = today - 1
  <2>1. history' = KeptFirst(Superseded(e.product, e.before, e.body.price, e.today))
    BY <1>1 DEF WriteProduct
  <2>2. \A r \in rows : r.product = e.product /\ r.until = today - 1
    BY <1>2, <1>3, <1>5, SupersededType
  <2> QED
    BY <1>3, <1>5, <2>1, <2>2
<1>7. /\ draft' = [draft EXCEPT ![s] = NoDraft]
      /\ \A t \in Sessions : draft'[t] = IF t = s THEN NoDraft ELSE draft[t]
  BY DEF WriteProduct, DraftEnds, DraftGoes, MenuInv, MenuTypeOK
<1>8. \A t \in Sessions : draft'[t].op # "none" => t # s /\ draft'[t] = draft[t]
  BY <1>7 DEF NoDraft
<1>9. HistoryEnds'
  <2>1. \A r \in history' : r.until < today
    BY <1>2, <1>6, KeptFirstRows DEF MenuInv, HistoryEnds
  <2>2. ASSUME NEW t \in Sessions, Dated(t)'
        PROVE  draft'[t].today = today
    <3>1. draft'[t] = draft[t] /\ Dated(t)
      BY <1>8, <2>2 DEF Dated
    <3> QED
      BY <1>2, <3>1 DEF MenuInv, InOneDay
  <2> QED
    BY <1>2, <2>1, <2>2 DEF HistoryEnds
<1>10. DraftsHold'
  BY <1>4, <1>8 DEF MenuInv, DraftsHold
<1>11. InOneDay'
  <2>1. ASSUME NEW t \in Sessions
        PROVE  /\ draft'[t].op \in {"none", "edit", "write"}
               /\ Dated(t)' => draft'[t].today = today
               /\ draft'[t].op = "write" =>
                     draft'[t].before.active \/ draft'[t].before.deactivatedOn = today
    <3>1. CASE t # s
      BY <1>2, <1>7, <3>1 DEF MenuInv, InOneDay, Dated
    <3>2. CASE t = s
      BY <1>7, <3>2 DEF NoDraft, Dated
    <3> QED
      BY <3>1, <3>2
  <2>2. ASSUME NEW p \in Listed
        PROVE  /\ products'[p].active \/ products'[p].deactivatedOn = today
               /\ \/ DayKept(p, today)'
                  \/ /\ products'[p].price # None
                     /\ \A t \in Sessions :
                           draft'[t].op = "write" /\ draft'[t].product = p
                           => draft'[t].before.price = products'[p].price
    <3>1. DayKept(p, today) => DayKept(p, today)'
      BY <1>6, KeptFirstRows DEF DayKept
    <3>2. CASE p # e.product
      <4>1. products'[p] = products[p]
        BY <1>1, <3>2 DEF WriteProduct, MenuInv, MenuTypeOK, Listed
      <4> QED
        BY <1>2, <1>8, <3>1, <4>1 DEF MenuInv, InOneDay
    <3>3. CASE p = e.product
      <4>1. PICK row : row = products'[p]
        OBVIOUS
      <4>2. row = [price |-> e.body.price, active |-> e.body.active,
                   deactivatedOn |-> NextDeactivatedOn(e.before, e.body.active, today),
                   bundle |-> e.body.bundle, uses |-> e.body.uses,
                   source |-> products[p].source]
        BY <1>1, <1>3, <3>3, <4>1 DEF WriteProduct, MenuInv, MenuTypeOK
      <4>3. /\ row.price = e.body.price /\ row.active = e.body.active
            /\ row.deactivatedOn = NextDeactivatedOn(e.before, e.body.active, today)
        BY <4>2, Zenon
      <4>4. row.active \/ row.deactivatedOn = today
        <5>1. e.before.active \/ e.before.deactivatedOn = today
          BY <1>1, <1>2, <1>3 DEF MenuInv, InOneDay
        <5> QED
          BY <4>3, <5>1 DEF NextDeactivatedOn
      <4>5. CASE DayKept(p, today)
        BY <3>1, <4>1, <4>4, <4>5
      <4>6. CASE ~DayKept(p, today)
        <5>1. /\ products[p].price # None
              /\ \A t \in Sessions : draft[t].op = "write" /\ draft[t].product = p
                                     => draft[t].before.price = products[p].price
          BY <1>2, <4>6 DEF MenuInv, InOneDay
        <5>2. e.before.price = products[p].price
          BY <1>1, <1>3, <3>3, <5>1
        <5>3. CASE e.body.price = e.before.price
          BY <1>8, <4>1, <4>3, <4>4, <5>1, <5>2, <5>3
        <5>4. CASE e.body.price # e.before.price
          <6>1. PICK r : r = [product |-> p, until |-> today - 1, price |-> e.before.price]
            OBVIOUS
          <6>2. r \in rows
            BY <1>5, <3>3, <5>1, <5>2, <5>4, <6>1 DEF Superseded
          <6>3. r \in history'
            BY <1>6, <4>6, <6>1, <6>2, KeptFirstRows DEF DayKept
          <6>4. DayKept(p, today)'
            BY <6>1, <6>3 DEF DayKept
          <6> QED
            BY <4>1, <4>4, <6>4
        <5> QED
          BY <5>3, <5>4
      <4> QED
        BY <4>5, <4>6
    <3> QED
      BY <3>2, <3>3
  <2> QED
    BY <1>2, <1>4, <2>1, <2>2 DEF InOneDay
<1> QED
  BY <1>4, <1>9, <1>10, <1>11 DEF MenuInv

-----------------------------------------------------------------------------
(***************************************************************************)
(* Each step.                                                              *)
(***************************************************************************)

\* Every menu request that does not write begins or goes on soundly.
LEMMA ReadsAreSound ==
  ASSUME MenuInv, NEW s \in Sessions,
         \/ BeginCreateProduct(s) \/ BeginProductEdit(s) \/ ReadProduct(s)
         \/ BeginSupplyEdit(s) \/ ReadSaleProduct(s) \/ BeginCostEdit(s)
         \/ BeginAddons(s) \/ BeginImport(s) \/ ReadLeaving(s) \/ DropDraft(s)
  PROVE  /\ \E d : Sound(s, d) /\ DraftGoes(s, d)
         /\ UNCHANGED <<now, products, history, costs, addons>>
<1>1. PICK e \in Draft : e = draft[s]
  BY DEF MenuInv, MenuTypeOK
<1>2. DateOf(now) \in Nat
  BY DateType DEF MenuInv
<1>3. CASE BeginCreateProduct(s)
  <2>1. PICK p \in Products \ Listed, body \in Bodies :
          DraftGoes(s, [op |-> "createProduct", product |-> p, body |-> body])
    BY <1>3 DEF BeginCreateProduct
  <2>2. Sound(s, [op |-> "createProduct", product |-> p, body |-> body])
    BY DEF Sound, Draft
  <2> QED
    BY <1>3, <2>1, <2>2 DEF BeginCreateProduct, CashStays
<1>4. CASE BeginProductEdit(s)
  <2>1. PICK p \in Listed, body \in Bodies :
          DraftGoes(s, [op |-> "edit", product |-> p, body |-> body, today |-> DateOf(now)])
    BY <1>4 DEF BeginProductEdit
  <2>2. Sound(s, [op |-> "edit", product |-> p, body |-> body, today |-> DateOf(now)])
    BY <1>2 DEF Sound, Draft, Listed
  <2> QED
    BY <1>4, <2>1, <2>2 DEF BeginProductEdit, CashStays
<1>5. CASE ReadProduct(s)
  <2>1. e.op = "edit" /\ e.product \in Listed /\ e.product \in Products
        /\ e.body \in Bodies /\ e.today \in Nat /\ Dated(s)
    BY <1>1, <1>5, DraftFields DEF ReadProduct, MenuInv, DraftsHold, Dated
  <2>2. PICK before \in Tracked : before = TrackedOf(e.product)
    BY <2>1, ProductFields DEF MenuInv
  <2>3. PICK d : d = [op |-> "write", product |-> e.product, body |-> e.body,
                      today |-> e.today, before |-> before]
    OBVIOUS
  <2>4. d \in Draft
    BY <2>1, <2>3 DEF Draft
  <2>5. Sound(s, d)
    BY <1>1, <2>1, <2>2, <2>3, <2>4 DEF Sound
  <2>6. DraftGoes(s, d)
    BY <1>1, <1>5, <2>2, <2>3 DEF ReadProduct
  <2> QED
    BY <1>5, <2>5, <2>6 DEF ReadProduct, CashStays
<1>6. CASE BeginSupplyEdit(s)
  <2>1. PICK u \in Ingredients, cost \in Costs \cup {None}, price \in Prices \cup {None} :
          DraftGoes(s, [op |-> "supply", supply |-> u, cost |-> cost, price |-> price,
                        today |-> DateOf(now)])
    BY <1>6 DEF BeginSupplyEdit
  <2>2. Sound(s, [op |-> "supply", supply |-> u, cost |-> cost, price |-> price,
                  today |-> DateOf(now)])
    BY <1>2 DEF Sound, Draft
  <2> QED
    BY <1>6, <2>1, <2>2 DEF BeginSupplyEdit, CashStays
<1>7. CASE ReadSaleProduct(s)
  <2>1. /\ e.op = "supply" /\ e.supply \in Ingredients /\ e.cost \in Costs \cup {None}
        /\ e.price \in Prices \cup {None} /\ e.today \in Nat /\ Dated(s)
    BY <1>1, <1>7, DraftFields DEF ReadSaleProduct, Dated
  <2>2. PICK p \in SaleProducts(e.supply) :
          DraftGoes(s,
             IF p = None
             THEN [op |-> "writeCost", supply |-> e.supply, cost |-> e.cost]
             ELSE [op |-> "writeSupply", supply |-> e.supply, cost |-> e.cost,
                   price |-> e.price, today |-> e.today, product |-> p,
                   before |-> TrackedOf(p)])
    BY <1>1, <1>7 DEF ReadSaleProduct
  <2>3. CASE p = None
    <3>1. PICK d : d = [op |-> "writeCost", supply |-> e.supply, cost |-> e.cost]
      OBVIOUS
    <3>2. d \in Draft
      BY <2>1, <3>1 DEF Draft
    <3>3. Sound(s, d)
      BY <3>1, <3>2 DEF Sound
    <3>4. DraftGoes(s, d)
      BY <2>2, <2>3, <3>1
    <3> QED
      BY <1>7, <3>3, <3>4 DEF ReadSaleProduct, CashStays
  <2>4. CASE p # None
    <3>1. p \in Listed /\ p \in Products
      BY <2>2, <2>4 DEF SaleProducts, MadeOf, Listed
    <3>2. PICK before \in Tracked : before = TrackedOf(p)
      BY <3>1, ProductFields DEF MenuInv
    <3>3. PICK d : d = [op |-> "writeSupply", supply |-> e.supply, cost |-> e.cost,
                        price |-> e.price, today |-> e.today, product |-> p,
                        before |-> before]
      OBVIOUS
    <3>4. d \in Draft
      BY <2>1, <3>1, <3>3 DEF Draft
    <3>5. Sound(s, d)
      BY <1>1, <2>1, <3>1, <3>2, <3>3, <3>4 DEF Sound
    <3>6. DraftGoes(s, d)
      BY <2>2, <2>4, <3>2, <3>3
    <3> QED
      BY <1>7, <3>5, <3>6 DEF ReadSaleProduct, CashStays
  <2> QED
    BY <2>3, <2>4
<1>8. CASE BeginCostEdit(s)
  <2>1. PICK u \in Ingredients, cost \in Costs \cup {None} :
          DraftGoes(s, [op |-> "writeCost", supply |-> u, cost |-> cost])
    BY <1>8 DEF BeginCostEdit
  <2>2. Sound(s, [op |-> "writeCost", supply |-> u, cost |-> cost])
    BY DEF Sound, Draft
  <2> QED
    BY <1>8, <2>1, <2>2 DEF BeginCostEdit, CashStays
<1>9. CASE BeginAddons(s)
  <2>1. PICK category \in Categories, target \in Categories \cup {None} :
          DraftGoes(s, [op |-> "addons", category |-> category, target |-> target])
    BY <1>9 DEF BeginAddons
  <2>2. Sound(s, [op |-> "addons", category |-> category, target |-> target])
    BY DEF Sound, Draft
  <2> QED
    BY <1>9, <2>1, <2>2 DEF BeginAddons, CashStays
<1>10. CASE BeginImport(s)
  <2>1. PICK sheet \in Sheets : DraftGoes(s, [op |-> "import", sheet |-> sheet])
    BY <1>10 DEF BeginImport
  <2>2. Sound(s, [op |-> "import", sheet |-> sheet])
    BY DEF Sound, Draft
  <2> QED
    BY <1>10, <2>1, <2>2 DEF BeginImport, CashStays
<1>11. CASE ReadLeaving(s)
  <2>1. e.op = "import" /\ e.sheet \in Sheets
    BY <1>1, <1>11, DraftFields DEF ReadLeaving
  <2>2. PICK leaving \in SUBSET Products : leaving = Leaving(e.sheet) /\ leaving \subseteq Listed
    <3>1. Leaving(e.sheet) \subseteq Listed
      BY DEF Leaving
    <3>2. Listed \subseteq Products
      BY DEF Listed
    <3> QED
      BY <3>1, <3>2
  <2>3. PICK today \in Nat : today = DateOf(now)
    BY <1>2
  <2>4. PICK d : d = [op |-> "writeImport", sheet |-> e.sheet, leaving |-> leaving,
                      today |-> today]
    OBVIOUS
  <2>5. d \in Draft
    BY <2>1, <2>4 DEF Draft
  <2>6. Sound(s, d)
    BY <2>2, <2>3, <2>4, <2>5 DEF Sound
  <2>7. DraftGoes(s, d)
    BY <1>1, <1>11, <2>2, <2>3, <2>4 DEF ReadLeaving
  <2> QED
    BY <1>11, <2>6, <2>7 DEF ReadLeaving, CashStays
<1>12. CASE DropDraft(s)
  <2>1. Sound(s, NoDraft)
    BY DEF Sound, Draft, NoDraft
  <2> QED
    BY <1>12, <2>1 DEF DropDraft, DraftEnds, CashStays
<1> QED
  BY <1>3, <1>4, <1>5, <1>6, <1>7, <1>8, <1>9, <1>10, <1>11, <1>12

\* What a write adds to the history ended the day before the write began.
LEMMA WritesUntilYesterday ==
  ASSUME MenuInv, NEW s \in Sessions, WriteProduct(s) \/ WriteSupply(s) \/ WriteImport(s)
  PROVE  \A r \in history' \ history : Dated(s) /\ r.until = draft[s].today - 1
<1>1. PICK e \in Draft : e = draft[s]
  BY DEF MenuInv, MenuTypeOK
<1>2. CASE WriteProduct(s)
  <2>1. e.op = "write" /\ e.product \in Products /\ e.before \in Tracked /\ e.today \in Nat
    BY <1>1, <1>2, DraftFields DEF WriteProduct
  <2>2. history' = KeptFirst(Superseded(e.product, e.before, e.body.price, e.today))
    BY <1>1, <1>2 DEF WriteProduct
  <2> QED
    BY <1>1, <2>1, <2>2, KeptFirstRows, SupersededType DEF Dated
<1>3. CASE WriteSupply(s)
  <2>1. /\ e.op = "writeSupply" /\ e.product \in Products /\ e.before \in Tracked
        /\ e.today \in Nat
    BY <1>1, <1>3, DraftFields DEF WriteSupply
  <2>2. history' = KeptFirst(Superseded(e.product, e.before, e.price, e.today))
    BY <1>1, <1>3 DEF WriteSupply
  <2> QED
    BY <1>1, <2>1, <2>2, KeptFirstRows, SupersededType DEF Dated
<1>4. CASE WriteImport(s)
  <2>1. e.op = "writeImport"
    BY <1>1, <1>4 DEF WriteImport
  <2>2. history' = KeptFirst(ImportRows(e))
    BY <1>1, <1>4 DEF WriteImport, ImportRows
  <2> QED
    BY <1>1, <2>1, <2>2, KeptFirstRows, ImportRowsType DEF MenuInv, Dated
<1> QED
  BY <1>2, <1>3, <1>4

\* Rows created, costs and add-on lists written leave every price as it was.
LEMMA OtherWritesType ==
  ASSUME MenuInv, NEW s \in Sessions,
         WriteCreateProduct(s) \/ WriteCost(s) \/ WriteAddons(s)
  PROVE  /\ MenuTypeOK' /\ Listed \subseteq Listed' /\ history' = history
         /\ ~Dated(s) /\ DraftGoes(s, NoDraft)
<1>1. PICK e \in Draft : e = draft[s]
  BY DEF MenuInv, MenuTypeOK
<1>2. DraftGoes(s, NoDraft) => draft' \in [Sessions -> Draft]
  BY DEF DraftGoes, MenuInv, MenuTypeOK, Draft
<1>3. CASE WriteCreateProduct(s)
  <2>1. e.op = "createProduct" /\ e.product \in Products /\ e.body \in Bodies
        /\ e.product \notin Listed
    BY <1>1, <1>3, DraftFields DEF WriteCreateProduct
  <2>2. PICK row : row = NewProduct(e.body, None)
    OBVIOUS
  <2>3. row \in Product
    BY <2>1, <2>2, BodyFields, IsProduct DEF NewProduct
  <2>4. products' = [products EXCEPT ![e.product] = row]
    BY <1>1, <1>3, <2>2 DEF WriteCreateProduct
  <2>5. products' \in [Products -> Product \cup {NoProduct}] /\ Listed \subseteq Listed'
    BY <2>1, <2>3, <2>4 DEF MenuInv, MenuTypeOK, Listed
  <2> QED
    BY <1>1, <1>2, <1>3, <2>1, <2>5
       DEF WriteCreateProduct, DraftEnds, MenuInv, MenuTypeOK, Dated
<1>4. CASE WriteCost(s)
  <2>1. e.op = "writeCost" /\ e.supply \in Ingredients /\ e.cost \in Costs \cup {None}
    BY <1>1, <1>4, DraftFields DEF WriteCost
  <2> QED
    BY <1>1, <1>2, <1>4, <2>1 DEF WriteCost, DraftEnds, MenuInv, MenuTypeOK, Dated, Listed
<1>5. CASE WriteAddons(s)
  <2>1. e.op = "addons" /\ e.category \in Categories /\ e.target \in Categories \cup {None}
    BY <1>1, <1>5, DraftFields DEF WriteAddons
  <2> QED
    BY <1>1, <1>2, <1>5, <2>1 DEF WriteAddons, DraftEnds, MenuInv, MenuTypeOK, Dated, Listed
<1> QED
  BY <1>3, <1>4, <1>5

\* Where nothing is written, nothing changes on any day's menu.
LEMMA NothingWritten ==
  ASSUME UNCHANGED <<products, history>>
  PROVE  PastPricesStandStep
<1>1. \A p, d : PriceOn(p, d)' = PriceOn(p, d)
  BY DEF PriceOn, FirstRows, RowsFrom
<1>2. \A d : SaleMenuOn(d)' = SaleMenuOn(d)
  BY <1>1 DEF SaleMenuOn, Listed, SellableOn
<1> QED
  BY <1>1, <1>2 DEF PastPricesStandStep

\* Only the request that ends carries a day and goes.
LEMMA OneWriter ==
  ASSUME MenuTypeOK, NEW s \in Sessions, DraftGoes(s, NoDraft), NEW t \in Sessions, Writes(t)
  PROVE  t = s /\ Dated(s) /\ draft[s].today \in Nat
<1>1. draft[t] \in Draft /\ Dated(t) /\ draft'[t].op = "none"
  BY DraftDay DEF MenuTypeOK, Writes, Dated, NoDraft
<1>2. t # s => draft'[t] = draft[t]
  BY DEF DraftGoes, MenuTypeOK
<1>3. draft[t].today \in Nat
  BY <1>1, DraftFields DEF Dated
<1> QED
  BY <1>1, <1>2, <1>3 DEF Dated

\* A step of a menu request, alone or among edits of the same day.
LEMMA MenuStepKeeps ==
  ASSUME MenuInv, NEW s \in Sessions, UNCHANGED scene,
         MenuStep(s) \/ CategoryStep(s),
         scene # "repricing" => s = Alone,
         scene = "repricing" => RepricingStep(s)
  PROVE  MenuInv' /\ PastPricesStandStep
<1>1. CASE /\ \/ BeginCreateProduct(s) \/ BeginProductEdit(s) \/ ReadProduct(s)
              \/ BeginSupplyEdit(s) \/ ReadSaleProduct(s) \/ BeginCostEdit(s)
              \/ BeginAddons(s) \/ BeginImport(s) \/ ReadLeaving(s) \/ DropDraft(s)
           /\ scene = "repricing" =>
                 BeginProductEdit(s) \/ ReadProduct(s) \/ DropDraft(s)
  <2>1. PICK d : Sound(s, d) /\ DraftGoes(s, d)
    BY <1>1, ReadsAreSound
  <2>2. UNCHANGED <<now, products, history, costs, addons>>
    BY <1>1, ReadsAreSound
  <2>3. scene = "repricing" => d.op \in {"none", "edit", "write"}
    <3>1. d = draft'[s]
      BY <2>1 DEF DraftGoes, MenuInv, MenuTypeOK
    <3>2. BeginProductEdit(s) \/ ReadProduct(s) \/ DropDraft(s)
          => draft'[s].op \in {"none", "edit", "write"}
      BY DEF BeginProductEdit, ReadProduct, DropDraft, DraftEnds, DraftGoes, NoDraft,
             MenuInv, MenuTypeOK
    <3> QED
      BY <1>1, <3>1, <3>2
  <2> QED
    BY <2>1, <2>2, <2>3, GoesOn, NothingWritten
<1>2. CASE /\ WriteCreateProduct(s) \/ WriteCost(s) \/ WriteAddons(s)
           /\ scene # "repricing"
  <2>1. /\ MenuTypeOK' /\ Listed \subseteq Listed' /\ history' = history
        /\ ~Dated(s) /\ DraftGoes(s, NoDraft)
    BY <1>2, OtherWritesType
  <2>2. now' = now
    BY <1>2 DEF WriteCreateProduct, WriteCost, WriteAddons, CashStays
  <2>3. MenuInv'
    BY <1>2, <2>1, <2>2, WritesAlone
  <2>4. PastPricesStandStep
    BY <2>1, OneWriter DEF PastPricesStandStep, MenuInv
  <2> QED
    BY <2>3, <2>4
<1>3. CASE WriteProduct(s)
  <2>1. DraftGoes(s, NoDraft) /\ now' = now
    BY <1>3 DEF WriteProduct, DraftEnds, CashStays
  <2>2. MenuInv'
    <3>1. CASE scene = "repricing"
      BY <1>3, <2>1, <3>1, WritesAmongOthers
    <3>2. CASE scene # "repricing"
      BY <1>3, <2>1, <3>2, WriteProductType, WritesUntilYesterday, WritesAlone
    <3> QED
      BY <3>1, <3>2
  <2>3. PastPricesStandStep
    <3> SUFFICES ASSUME NEW t \in Sessions, Writes(t), NEW d \in 0 .. draft[t].today - 1,
                        NEW p \in SaleMenuOn(d)
                 PROVE  p \in SaleMenuOn(d)' /\ PriceOn(p, d)' = PriceOn(p, d)
      BY DEF PastPricesStandStep
    <3>1. t = s /\ draft[s].today \in Nat
      BY <2>1, OneWriter DEF MenuInv
    <3>2. d \in Nat /\ d < draft[s].today
      BY <3>1
    <3> QED
      BY <1>3, <3>2, WriteProductStands
  <2> QED
    BY <2>2, <2>3
<1>4. CASE WriteSupply(s) /\ scene # "repricing"
  <2>1. DraftGoes(s, NoDraft) /\ now' = now
    BY <1>4 DEF WriteSupply, DraftEnds, CashStays
  <2>2. MenuInv'
    BY <1>4, <2>1, WriteSupplyType, WritesUntilYesterday, WritesAlone
  <2>3. PastPricesStandStep
    <3> SUFFICES ASSUME NEW t \in Sessions, Writes(t), NEW d \in 0 .. draft[t].today - 1,
                        NEW p \in SaleMenuOn(d)
                 PROVE  p \in SaleMenuOn(d)' /\ PriceOn(p, d)' = PriceOn(p, d)
      BY DEF PastPricesStandStep
    <3>1. t = s /\ draft[s].today \in Nat
      BY <2>1, OneWriter DEF MenuInv
    <3>2. d \in Nat /\ d < draft[s].today
      BY <3>1
    <3> QED
      BY <1>4, <3>2, WriteSupplyStands
  <2> QED
    BY <2>2, <2>3
<1>5. CASE WriteImport(s) /\ scene # "repricing"
  <2>1. DraftGoes(s, NoDraft) /\ now' = now
    BY <1>5 DEF WriteImport, DraftEnds, CashStays
  <2>2. MenuInv'
    BY <1>5, <2>1, WriteImportType, WritesUntilYesterday, WritesAlone
  <2>3. PastPricesStandStep
    <3> SUFFICES ASSUME NEW t \in Sessions, Writes(t), NEW d \in 0 .. draft[t].today - 1,
                        NEW p \in SaleMenuOn(d)
                 PROVE  p \in SaleMenuOn(d)' /\ PriceOn(p, d)' = PriceOn(p, d)
      BY DEF PastPricesStandStep
    <3>1. t = s /\ draft[s].today \in Nat
      BY <2>1, OneWriter DEF MenuInv
    <3>2. d \in Nat /\ d < draft[s].today
      BY <3>1
    <3> QED
      BY <1>5, <3>2, WriteImportStands
  <2> QED
    BY <2>2, <2>3
<1> QED
  BY <1>1, <1>2, <1>3, <1>4, <1>5 DEF MenuStep, CategoryStep, RepricingStep

\* What leaves the menu alone, the clock going on where no edits overlap.
LEMMA MenuWaits ==
  ASSUME MenuInv, UNCHANGED <<menuVars, scene>>, now' \in {now, now + 1},
         scene = "repricing" => now' = now
  PROVE  MenuInv' /\ PastPricesStandStep
<1>1. UNCHANGED <<products, history, costs, addons, draft>>
  BY DEF menuVars
<1>2. PICK a, b \in Nat : a = DateOf(now) /\ b = DateOf(now') /\ a <= b /\ now' \in Nat
  BY DateType DEF MenuInv
<1>3. MenuTypeOK' /\ DraftsHold'
  BY <1>1 DEF MenuInv, MenuTypeOK, DraftsHold, Listed
<1>4. HistoryEnds'
  <2>1. ASSUME NEW r \in history PROVE r.until < b
    <3>1. r.until \in Int /\ r.until < a
      BY <1>2 DEF MenuInv, MenuTypeOK, HistoryEnds, PriceRow
    <3> QED
      BY <1>2, <3>1
  <2>2. ASSUME NEW s \in Sessions, Dated(s) PROVE draft[s].today <= b
    <3>1. draft[s].today \in Nat /\ draft[s].today <= a
      BY <1>2, <2>2, DraftFields DEF MenuInv, MenuTypeOK, HistoryEnds, Dated
    <3> QED
      BY <1>2, <3>1
  <2> QED
    BY <1>1, <1>2, <2>1, <2>2 DEF MenuInv, HistoryEnds, Dated
<1>5. scene # "repricing" => OneAtATime'
  BY <1>1 DEF MenuInv, OneAtATime, TrackedOf
<1>6. scene = "repricing" => InOneDay'
  BY <1>1 DEF MenuInv, InOneDay, Dated, DayKept, Listed
<1> QED
  BY <1>1, <1>2, <1>3, <1>4, <1>5, <1>6, NothingWritten DEF MenuInv

\* An empty history, and no request yet.
LEMMA MenuInvInit ==
  ASSUME ShopInit
  PROVE  MenuInv
<1>1. /\ now \in Nat /\ MenuInit
      /\ scene = "repricing" => \A p \in Listed : products[p].active /\ products[p].price # None
  BY DEF ShopInit
<1>2. NoDraft \in Draft /\ NoDraft.op = "none"
  BY DEF Draft, NoDraft
<1>3. \A s \in Sessions : draft[s] = NoDraft
  BY <1>1 DEF MenuInit
<1>4. MenuTypeOK
  BY <1>1, <1>2 DEF MenuInit, MenuTypeOK
<1>5. history = {}
  BY <1>1 DEF MenuInit
<1>6. HistoryEnds /\ DraftsHold
  BY <1>2, <1>3, <1>5 DEF HistoryEnds, DraftsHold, Dated
<1>7. OneAtATime
  BY <1>2, <1>3, SceneAssumption DEF OneAtATime
<1>8. scene = "repricing" => InOneDay
  BY <1>1, <1>2, <1>3 DEF InOneDay, Dated
<1> QED
  BY <1>1, <1>4, <1>6, <1>7, <1>8 DEF MenuInv

\* Each step of the shop keeps the invariant, and the menus of earlier days.
LEMMA MenuInvNext ==
  ASSUME MenuInv, [ShopNext]_shopVars
  PROVE  MenuInv' /\ PastPricesStandStep
<1>0. scene' = scene /\ now' \in {now, now + 1} /\ Alone \in Sessions
  BY ClockAndScene, SceneAssumption
<1>1. CASE OnMenu
  <2>1. CASE MenuStep(Alone)
    BY <1>0, <1>1, <2>1, MenuStepKeeps DEF OnMenu
  <2>2. CASE ClockTicks /\ MenuStays
    BY <1>0, <1>1, <2>2, MenuWaits DEF OnMenu, MenuStays
  <2> QED
    BY <1>1, <2>1, <2>2 DEF OnMenu
<1>2. CASE OnLevels
  <2>1. MenuStep(Alone) \/ CategoryStep(Alone)
    BY <1>2 DEF OnLevels, MenuStep
  <2> QED
    BY <1>0, <1>2, <2>1, MenuStepKeeps DEF OnLevels
<1>3. CASE OnRepricing
  <2>1. PICK s \in Sessions : RepricingStep(s)
    BY <1>3 DEF OnRepricing
  <2>2. MenuStep(s)
    BY <2>1 DEF MenuStep
  <2> QED
    BY <1>0, <1>3, <2>1, <2>2, MenuStepKeeps DEF OnRepricing
<1>4. CASE OnPricing
  <2>1. CASE \E s \in Sessions : PricingStep(s)
    BY <1>0, <1>4, <2>1, PricingKeepsClock, MenuWaits DEF OnPricing
  <2>2. CASE \/ RepricingStep(Alone) \/ CategoryStep(Alone)
             \/ BeginCostEdit(Alone) \/ WriteCost(Alone)
    <3>1. MenuStep(Alone) \/ CategoryStep(Alone)
      BY <2>2 DEF MenuStep
    <3> QED
      BY <1>0, <1>4, <3>1, MenuStepKeeps DEF OnPricing
  <2> QED
    BY <1>4, <2>1, <2>2 DEF OnPricing
<1>5. CASE ~OnMenu /\ ~OnLevels /\ ~OnRepricing /\ ~OnPricing
  <2>1. UNCHANGED menuVars
    BY <1>5 DEF ShopNext, shopVars, OnExpenses, OnMarkings, OnScreen, OnForm, OnLines,
                MenuStays
  <2>2. scene = "repricing" => now' = now
    BY <1>5 DEF ShopNext, shopVars, expenseVars, vars, OnExpenses, OnMarkings, OnScreen,
                OnForm, OnLines
  <2> QED
    BY <1>0, <2>1, <2>2, MenuWaits
<1> QED
  BY <1>1, <1>2, <1>3, <1>4, <1>5

(***************************************************************************)
(* What is known of the history and of the requests in flight holds always.*)
(***************************************************************************)
THEOREM MenuInvariant == ShopSpec => []MenuInv
<1>1. ShopInit => MenuInv
  BY MenuInvInit
<1>2. MenuInv /\ [ShopNext]_shopVars => MenuInv'
  BY MenuInvNext
<1> QED
  BY <1>1, <1>2, PTL DEF ShopSpec

(***************************************************************************)
(* The menu's tables and requests keep their types                         *)
(* (products/product.service.ts, supplies/supply.service.ts, menu-import/).*)
(***************************************************************************)
THEOREM MenuTypeCorrect == ShopSpec => []MenuTypeOK
<1>1. MenuInv => MenuTypeOK
  BY DEF MenuInv
<1> QED
  BY <1>1, MenuInvariant, PTL

(***************************************************************************)
(* A change of the menu made today takes nothing off the menu of an        *)
(* earlier day and changes no price on it (products/product-change.ts).    *)
(***************************************************************************)
THEOREM PastPricesAreKept == ShopSpec => PastPricesStand
<1>1. MenuInv /\ [ShopNext]_shopVars => [PastPricesStandStep]_menuVars
  BY MenuInvNext
<1> QED
  BY <1>1, MenuInvariant, PTL DEF ShopSpec, PastPricesStand

-----------------------------------------------------------------------------
(***************************************************************************)
(* One level of combos and of add-ons. Both ends are checked before the    *)
(* write, so what is known of a request in flight is that its checks would *)
(* pass again; this takes requests that do not overlap.                    *)
(***************************************************************************)
FlatBundles == \A p \in Listed : products[p].bundle \cap (Combos \cup {p}) = {}

FlatAddons == \A c \in Categories : addons[c] # None => addons[addons[c]] = None

\* what the one request in flight found when it checked
ChecksHold ==
    /\ draft[Alone].op \in {"createProduct", "edit", "write"} =>
          BundleFits(draft[Alone].product, draft[Alone].body.bundle)
    /\ draft[Alone].op = "addons" => AddonFits(draft[Alone].category, draft[Alone].target)

LevelInv == scene # "repricing" => FlatBundles /\ FlatAddons /\ ChecksHold

\* the menus an instance starts with have one level
MenusFlat ==
    \A m \in MenusBefore :
        /\ \A p, q \in Products :
              m.products[p] # NoProduct /\ q \in m.products[p].bundle =>
                  p # q /\ (m.products[q] # NoProduct => m.products[q].bundle = {})
        /\ \A c \in Categories : m.addons[c] # None => m.addons[m.addons[c]] = None

\* No combo is made where every bundle stays or is emptied.
LEMMA BundlesStand ==
  ASSUME FlatBundles,
         \A p \in Listed' : \/ products'[p].bundle = {}
                            \/ p \in Listed /\ products'[p].bundle = products[p].bundle
  PROVE  FlatBundles'
<1>1. Combos' \subseteq Combos
  BY DEF Combos
<1> QED
  BY <1>1 DEF FlatBundles

\* A checked bundle may be written (products/product.service.ts, assertBundle).
LEMMA BundleWritten ==
  ASSUME FlatBundles, NEW q, NEW items, BundleFits(q, items),
         products'[q].bundle = items,
         \A p \in Listed' : p # q => p \in Listed /\ products'[p].bundle = products[p].bundle
  PROVE  FlatBundles'
<1>1. \A c \in Combos' : c \in Combos \/ (c = q /\ items # {})
  BY DEF Combos
<1>2. ASSUME NEW p \in Listed'
      PROVE  products'[p].bundle \cap (Combos' \cup {p}) = {}
  <2>1. CASE p = q
    BY <1>1, <2>1 DEF BundleFits
  <2>2. CASE p # q
    <3>1. products'[p].bundle \cap (Combos \cup {p}) = {}
      BY <2>2 DEF FlatBundles
    <3>2. items # {} => q \notin products'[p].bundle
      BY <2>2 DEF BundleFits
    <3> QED
      BY <1>1, <3>1, <3>2
  <2> QED
    BY <2>1, <2>2
<1> QED
  BY <1>2 DEF FlatBundles

\* The menu request in flight is this session's alone.
LEMMA LevelStep ==
  ASSUME MenuInv, LevelInv, scene # "repricing", scene' = scene,
         MenuStep(Alone) \/ CategoryStep(Alone)
  PROVE  LevelInv'
<1>1. Alone \in Sessions /\ draft \in [Sessions -> Draft]
  BY SceneAssumption DEF MenuInv, MenuTypeOK
<1>2. PICK e \in Draft : e = draft[Alone]
  BY <1>1
<1>3. FlatBundles /\ FlatAddons /\ ChecksHold
  BY DEF LevelInv
<1>4. NoDraft.op = "none"
  BY DEF NoDraft
<1>5. ASSUME draft'[Alone] = NoDraft
      PROVE  ChecksHold'
  BY <1>4, <1>5 DEF ChecksHold
<1>6. CASE WriteCreateProduct(Alone)
  <2>1. draft'[Alone] = NoDraft /\ addons' = addons
    BY <1>1, <1>6 DEF WriteCreateProduct, DraftEnds, DraftGoes
  <2>2. e.op = "createProduct" /\ e.product \in Products /\ e.body \in Bodies
    BY <1>2, <1>6, DraftFields DEF WriteCreateProduct
  <2>3. BundleFits(e.product, e.body.bundle)
    BY <1>2, <1>3, <2>2 DEF ChecksHold
  <2>4. products \in [Products -> Product \cup {NoProduct}]
    BY DEF MenuInv, MenuTypeOK
  <2>5. products' = [products EXCEPT ![e.product] = NewProduct(e.body, None)]
    BY <1>2, <1>6 DEF WriteCreateProduct
  <2>6. products'[e.product] = NewProduct(e.body, None)
    BY <2>2, <2>4, <2>5
  <2>7. products'[e.product].bundle = e.body.bundle
    BY <2>6 DEF NewProduct
  <2>8. \A p \in Listed' :
           p # e.product => p \in Listed /\ products'[p].bundle = products[p].bundle
    BY <2>4, <2>5 DEF Listed
  <2>9. FlatBundles'
    BY <1>3, <2>3, <2>7, <2>8, BundleWritten
  <2> QED
    BY <1>3, <1>5, <2>1, <2>9 DEF LevelInv, FlatAddons
<1>7. CASE WriteProduct(Alone)
  <2>1. draft'[Alone] = NoDraft /\ addons' = addons
    BY <1>1, <1>7 DEF WriteProduct, DraftEnds, DraftGoes
  <2>2. e.op = "write" /\ e.product \in Products
    BY <1>2, <1>7, DraftFields DEF WriteProduct
  <2>3. BundleFits(e.product, e.body.bundle)
    BY <1>2, <1>3, <2>2 DEF ChecksHold
  <2>4. products \in [Products -> Product \cup {NoProduct}]
    BY DEF MenuInv, MenuTypeOK
  <2>5. PICK row : row =
          [price |-> e.body.price, active |-> e.body.active,
           deactivatedOn |-> NextDeactivatedOn(e.before, e.body.active, e.today),
           bundle |-> e.body.bundle, uses |-> e.body.uses,
           source |-> products[e.product].source]
    OBVIOUS
  <2>6. products' = [products EXCEPT ![e.product] = row] /\ row.bundle = e.body.bundle
    BY <1>2, <1>7, <2>5 DEF WriteProduct
  <2>7. products'[e.product].bundle = e.body.bundle
    BY <2>2, <2>4, <2>6
  <2>8. \A p \in Listed' :
           p # e.product => p \in Listed /\ products'[p].bundle = products[p].bundle
    BY <2>4, <2>6 DEF Listed
  <2>9. FlatBundles'
    BY <1>3, <2>3, <2>7, <2>8, BundleWritten
  <2> QED
    BY <1>3, <1>5, <2>1, <2>9 DEF LevelInv, FlatAddons
<1>8. CASE WriteSupply(Alone)
  <2>1. draft'[Alone] = NoDraft /\ addons' = addons
    BY <1>1, <1>8 DEF WriteSupply, DraftEnds, DraftGoes
  <2>2. e.op = "writeSupply" /\ e.product \in Listed
    BY <1>2, <1>8 DEF WriteSupply, MenuInv, DraftsHold
  <2>3. PICK x : x = products[e.product]
    OBVIOUS
  <2>4. x \in Product
    BY <2>2, <2>3, ProductFields DEF MenuInv
  <2>5. PICK row : row = [x EXCEPT !.price = e.price, !.deactivatedOn = e.before.deactivatedOn]
    OBVIOUS
  <2>6. row.bundle = x.bundle
    BY <2>4, <2>5 DEF Product
  <2>7. products \in [Products -> Product \cup {NoProduct}] /\ e.product \in Products
    BY <2>2 DEF MenuInv, MenuTypeOK, Listed
  <2>8. products' = [products EXCEPT ![e.product] = row]
    BY <1>2, <1>8, <2>3, <2>5, <2>7 DEF WriteSupply
  <2>9. \A p \in Listed' : p \in Listed /\ products'[p].bundle = products[p].bundle
    BY <2>2, <2>3, <2>6, <2>7, <2>8 DEF Listed
  <2>10. FlatBundles'
    BY <1>3, <2>9, BundlesStand
  <2> QED
    BY <1>3, <1>5, <2>1, <2>10 DEF LevelInv, FlatAddons
<1>9. CASE WriteImport(Alone)
  <2>1. draft'[Alone] = NoDraft /\ addons' = addons
    BY <1>1, <1>9 DEF WriteImport, DraftEnds, DraftGoes
  <2>2. e.op = "writeImport" /\ e.sheet \in Sheets /\ e.leaving \subseteq Listed
    BY <1>1, <1>2, <1>9, DraftFields DEF WriteImport, MenuInv, DraftsHold
  <2>3. PICK rows, source : rows = e.sheet.rows /\ source = e.sheet.source
    OBVIOUS
  <2>4. products' = [p \in Products |->
              IF p \in Planned(e.sheet) THEN Upserted(p, rows[p], source)
              ELSE IF p \in e.leaving THEN Deactivated(p, e.today)
              ELSE products[p]]
    BY <1>2, <1>9, <2>3 DEF WriteImport
  <2>5. \A p \in Listed : products[p] \in Product
    BY ProductFields DEF MenuInv
  <2>6. ASSUME NEW p \in Listed'
        PROVE  \/ products'[p].bundle = {}
               \/ p \in Listed /\ products'[p].bundle = products[p].bundle
    <3>1. p \in Products /\ products'[p] # NoProduct
      BY <2>6 DEF Listed
    <3>2. CASE p \in Planned(e.sheet) /\ p \in Listed
      <4>1. PICK x \in Product : x = products[p]
        BY <2>5, <3>2
      <4>2. products'[p] = [x EXCEPT !.price = rows[p].price, !.uses = rows[p].uses,
                                     !.source = source]
        BY <2>4, <3>1, <3>2, <4>1 DEF Upserted
      <4>3. products'[p].bundle = x.bundle
        BY <4>2 DEF Product
      <4> QED
        BY <3>2, <4>1, <4>3
    <3>3. CASE p \in Planned(e.sheet) /\ p \notin Listed
      BY <2>4, <3>1, <3>3 DEF Upserted, NewProduct
    <3>4. CASE p \notin Planned(e.sheet) /\ p \in e.leaving
      <4>1. PICK x \in Product : x = products[p]
        BY <2>2, <2>5, <3>4
      <4>2. PICK off : off = NextDeactivatedOn(TrackedOf(p), FALSE, e.today)
        OBVIOUS
      <4>3. products'[p] = [x EXCEPT !.active = FALSE, !.deactivatedOn = off]
        BY <2>4, <3>1, <3>4, <4>1, <4>2 DEF Deactivated
      <4>4. products'[p].bundle = x.bundle
        BY <4>3 DEF Product
      <4> QED
        BY <2>2, <3>4, <4>1, <4>4
    <3>5. CASE p \notin Planned(e.sheet) /\ p \notin e.leaving
      BY <2>4, <3>1, <3>5 DEF Listed
    <3> QED
      BY <3>2, <3>3, <3>4, <3>5
  <2>7. FlatBundles'
    BY <1>3, <2>6, BundlesStand
  <2> QED
    BY <1>3, <1>5, <2>1, <2>7 DEF LevelInv, FlatAddons
<1>10. CASE WriteAddons(Alone)
  <2>1. draft'[Alone] = NoDraft /\ products' = products
    BY <1>1, <1>10 DEF WriteAddons, DraftEnds, DraftGoes
  <2>2. e.op = "addons" /\ e.category \in Categories /\ e.target \in Categories \cup {None}
    BY <1>2, <1>10, DraftFields DEF WriteAddons
  <2>3. AddonFits(e.category, e.target)
    BY <1>2, <1>3, <2>2 DEF ChecksHold
  <2>4. addons \in [Categories -> Categories \cup {None}]
    BY DEF MenuInv, MenuTypeOK
  <2>5. addons' = [addons EXCEPT ![e.category] = e.target]
    BY <1>2, <1>10 DEF WriteAddons
  <2>6. ASSUME NEW c \in Categories, addons'[c] # None
        PROVE  addons'[addons'[c]] = None
    <3>1. CASE c = e.category
      BY <2>2, <2>3, <2>4, <2>5, <2>6, <3>1 DEF AddonFits
    <3>2. CASE c # e.category
      <4>1. addons'[c] = addons[c] /\ addons[c] \in Categories
        BY <2>4, <2>5, <2>6, <3>2
      <4>2. addons[addons[c]] = None
        BY <1>3, <2>6, <4>1 DEF FlatAddons
      <4>3. e.target # None => addons[c] # e.category
        BY <2>3 DEF AddonFits
      <4> QED
        BY <2>2, <2>4, <2>5, <4>1, <4>2, <4>3
    <3> QED
      BY <3>1, <3>2
  <2> QED
    BY <1>3, <1>5, <2>1, <2>6 DEF LevelInv, FlatBundles, FlatAddons, Combos, Listed
<1>11. CASE WriteCost(Alone) \/ DropDraft(Alone)
  <2>1. draft'[Alone] = NoDraft /\ addons' = addons /\ products' = products
    BY <1>1, <1>11 DEF WriteCost, DropDraft, DraftEnds, DraftGoes
  <2> QED
    BY <1>3, <1>5, <2>1 DEF LevelInv, FlatBundles, FlatAddons, Combos, Listed
<1>12. ASSUME NEW d, draft' = [draft EXCEPT ![Alone] = d],
              addons' = addons, products' = products,
              d.op \in {"createProduct", "edit", "write"} =>
                 BundleFits(d.product, d.body.bundle),
              d.op = "addons" => AddonFits(d.category, d.target)
       PROVE  LevelInv'
  <2>1. draft'[Alone] = d
    BY <1>1, <1>12
  <2> QED
    BY <1>3, <1>12, <2>1
       DEF LevelInv, ChecksHold, FlatBundles, FlatAddons, Combos, Listed, BundleFits, AddonFits
<1>13. CASE BeginCreateProduct(Alone)
  <2>1. PICK p \in Products, body \in Bodies :
           /\ BundleFits(p, body.bundle)
           /\ DraftGoes(Alone, [op |-> "createProduct", product |-> p, body |-> body])
           /\ UNCHANGED <<products, addons>>
    BY <1>13 DEF BeginCreateProduct
  <2> QED
    BY <1>12, <2>1 DEF DraftGoes
<1>14. CASE BeginProductEdit(Alone)
  <2>1. PICK p \in Products, body \in Bodies :
           /\ BundleFits(p, body.bundle)
           /\ DraftGoes(Alone, [op |-> "edit", product |-> p, body |-> body,
                                today |-> DateOf(now)])
           /\ UNCHANGED <<products, addons>>
    BY <1>14 DEF BeginProductEdit, Listed
  <2> QED
    BY <1>12, <2>1 DEF DraftGoes
<1>15. CASE ReadProduct(Alone)
  <2>1. e.op = "edit"
    BY <1>2, <1>15 DEF ReadProduct
  <2>2. BundleFits(e.product, e.body.bundle)
    BY <1>2, <1>3, <2>1 DEF ChecksHold
  <2>3. PICK before : before = TrackedOf(e.product)
    OBVIOUS
  <2>4. draft' = [draft EXCEPT ![Alone] =
            [op |-> "write", product |-> e.product, body |-> e.body,
             today |-> e.today, before |-> before]]
    BY <1>2, <1>15, <2>3 DEF ReadProduct, DraftGoes
  <2>5. UNCHANGED <<products, addons>>
    BY <1>15 DEF ReadProduct
  <2> QED
    BY <1>12, <2>2, <2>4, <2>5
<1>16. CASE BeginAddons(Alone)
  <2>1. PICK c \in Categories, target \in Categories \cup {None} :
           /\ AddonFits(c, target)
           /\ DraftGoes(Alone, [op |-> "addons", category |-> c, target |-> target])
           /\ UNCHANGED <<products, addons>>
    BY <1>16 DEF BeginAddons
  <2> QED
    BY <1>12, <2>1 DEF DraftGoes
<1>17. CASE BeginSupplyEdit(Alone) \/ BeginCostEdit(Alone) \/ BeginImport(Alone)
            \/ ReadSaleProduct(Alone) \/ ReadLeaving(Alone)
  <2>1. UNCHANGED <<products, addons>>
    BY <1>17 DEF BeginSupplyEdit, BeginCostEdit, BeginImport, ReadSaleProduct, ReadLeaving
  <2>2. ASSUME NEW d, DraftGoes(Alone, d),
               d.op \in {"supply", "writeCost", "writeSupply", "import", "writeImport"}
        PROVE  LevelInv'
    BY <1>12, <2>1, <2>2 DEF DraftGoes
  <2>3. CASE BeginSupplyEdit(Alone)
    BY <2>2, <2>3 DEF BeginSupplyEdit
  <2>4. CASE BeginCostEdit(Alone)
    BY <2>2, <2>4 DEF BeginCostEdit
  <2>5. CASE BeginImport(Alone)
    BY <2>2, <2>5 DEF BeginImport
  <2>6. CASE ReadSaleProduct(Alone)
    <3>1. PICK d : DraftGoes(Alone, d) /\ d.op \in {"writeCost", "writeSupply"}
      BY <2>6 DEF ReadSaleProduct
    <3> QED
      BY <2>2, <3>1
  <2>7. CASE ReadLeaving(Alone)
    BY <2>2, <2>7 DEF ReadLeaving
  <2> QED
    BY <1>17, <2>3, <2>4, <2>5, <2>6, <2>7
<1> QED
  BY <1>6, <1>7, <1>8, <1>9, <1>10, <1>11, <1>13, <1>14, <1>15, <1>16, <1>17
     DEF MenuStep, CategoryStep, RepricingStep

\* The menu an instance starts with, and no request.
LEMMA LevelInit ==
  ASSUME MenusFlat, ShopInit
  PROVE  LevelInv
<1>1. PICK m \in MenusBefore : products = m.products /\ addons = m.addons
  BY DEF ShopInit, MenuInit
<1>2. draft[Alone] = NoDraft /\ NoDraft.op = "none"
  BY SceneAssumption DEF ShopInit, MenuInit, NoDraft
<1>3. m.products \in [Products -> Product \cup {NoProduct}]
  BY MenuAssumption
<1>4. \A p \in Listed : p \in Products /\ products[p] # NoProduct
                        /\ products[p].bundle \subseteq Products
  BY ProductFields, MenuInvInit DEF MenuInv, Listed
<1>5. FlatBundles
  BY <1>1, <1>4 DEF FlatBundles, Combos, MenusFlat
<1>6. FlatAddons
  BY <1>1 DEF FlatAddons, MenusFlat
<1> QED
  BY <1>2, <1>5, <1>6 DEF LevelInv, ChecksHold

\* Where menu requests do not overlap, a step is the one session's or no menu request's.
LEMMA MenuStepAlone ==
  ASSUME scene # "repricing", [ShopNext]_shopVars
  PROVE  MenuStep(Alone) \/ CategoryStep(Alone) \/ UNCHANGED menuVars
<1>1. CASE OnMenu
  BY <1>1 DEF OnMenu, MenuStays
<1>2. CASE OnLevels
  BY <1>2 DEF OnLevels, MenuStep
<1>3. CASE OnPricing
  <2>1. CASE \E s \in Sessions : PricingStep(s)
    BY <2>1, PricingKeepsClock
  <2> QED
    BY <1>3, <2>1 DEF OnPricing, MenuStep
<1>4. CASE ~OnMenu /\ ~OnLevels /\ ~OnPricing
  BY <1>4 DEF ShopNext, shopVars, OnExpenses, OnMarkings, OnRepricing, OnScreen,
              OnForm, OnLines, MenuStays
<1> QED
  BY <1>1, <1>2, <1>3, <1>4

\* Each step of the shop keeps one level.
LEMMA LevelNext ==
  ASSUME MenuInv, LevelInv, [ShopNext]_shopVars
  PROVE  LevelInv'
<1>0. scene' = scene
  BY ClockAndScene
<1>1. ASSUME UNCHANGED menuVars
      PROVE  LevelInv'
  BY <1>0, <1>1 DEF LevelInv, FlatBundles, FlatAddons, ChecksHold, Combos, Listed, BundleFits,
                    AddonFits, menuVars
<1>2. CASE scene = "repricing"
  BY <1>0, <1>2 DEF LevelInv
<1>3. CASE scene # "repricing"
  BY <1>0, <1>1, <1>3, MenuStepAlone, LevelStep
<1> QED
  BY <1>2, <1>3

(***************************************************************************)
(* Where menu requests do not overlap, no combo holds a combo              *)
(* (products/product.service.ts, assertBundle) and no category lends       *)
(* add-ons and takes some (products/category-addons.ts), whatever is       *)
(* edited, created or imported.                                            *)
(***************************************************************************)
THEOREM LevelsStayOne ==
  ASSUME MenusFlat
  PROVE  ShopSpec => [](scene # "repricing" => OneLevel)
<1>1. ShopInit => LevelInv
  BY LevelInit
<1>2. MenuInv /\ LevelInv /\ [ShopNext]_shopVars => LevelInv'
  BY LevelNext
<1>3. LevelInv => (scene # "repricing" => OneLevel)
  BY DEF LevelInv, FlatBundles, FlatAddons, OneLevel
<1> QED
  BY <1>1, <1>2, <1>3, MenuInvariant, PTL DEF ShopSpec
-----------------------------------------------------------------------------
(***************************************************************************)
(* The import. What leaves the spreadsheet is read before the transaction; *)
(* where requests do not overlap it still is what leaves when the          *)
(* transaction writes.                                                     *)
(***************************************************************************)
ImportInv ==
    scene # "repricing" /\ draft[Alone].op = "writeImport" =>
        Leaving(draft[Alone].sheet) \subseteq draft[Alone].leaving

\* After the write each row is as the spreadsheet has it, or left the menu.
LEMMA ImportWritesAll ==
  ASSUME MenuInv, ImportInv, scene # "repricing", WriteImport(Alone),
         NEW sheet \in Sheets, draft[Alone].sheet = sheet
  PROVE  DiffOf(sheet)' = NothingLeft
<1>1. Alone \in Sessions /\ draft \in [Sessions -> Draft] /\ MenuTypeOK
  BY SceneAssumption DEF MenuInv, MenuTypeOK
<1>2. PICK e \in Draft : e = draft[Alone]
  BY <1>1
<1>3. /\ e.op = "writeImport" /\ e.sheet = sheet /\ e.leaving \subseteq Listed
      /\ e.today \in Nat
  BY <1>1, <1>2, DraftFields DEF WriteImport, MenuInv, DraftsHold
<1>4. Leaving(sheet) \subseteq e.leaving
  BY <1>2, <1>3 DEF ImportInv
<1>5. /\ sheet.source \in Sources /\ DOMAIN sheet.costs \subseteq Ingredients
      /\ Planned(sheet) \subseteq Products
  BY SheetFields
<1>6. PICK rows, source : rows = sheet.rows /\ source = sheet.source
  OBVIOUS
<1>7. products' = [p \in Products |->
              IF p \in Planned(sheet) THEN Upserted(p, rows[p], source)
              ELSE IF p \in e.leaving THEN Deactivated(p, e.today)
              ELSE products[p]]
  BY <1>2, <1>3, <1>6 DEF WriteImport
<1>8. costs' = [u \in Ingredients |->
              IF u \in DOMAIN sheet.costs THEN sheet.costs[u] ELSE costs[u]]
  BY <1>2, <1>3 DEF WriteImport
<1>9. \A u \in DOMAIN sheet.costs : costs'[u] = sheet.costs[u]
  BY <1>5, <1>8
<1>10. ASSUME NEW p \in Planned(sheet)
       PROVE  /\ p \in Listed'
              /\ products'[p].price = sheet.rows[p].price
              /\ products'[p].uses = sheet.rows[p].uses
  <2>1. PICK up : up = Upserted(p, rows[p], source)
    OBVIOUS
  <2>2. up \in Product /\ up.price = sheet.rows[p].price
    BY <1>1, <1>6, <2>1, UpsertedType
  <2>3. up.uses = sheet.rows[p].uses
    <3>1. CASE p \in Listed
      <4>1. PICK x \in Product : x = products[p]
        BY <1>1, <3>1, ProductFields
      <4>2. up = [x EXCEPT !.price = rows[p].price, !.uses = rows[p].uses, !.source = source]
        BY <2>1, <3>1, <4>1 DEF Upserted
      <4> QED
        BY <1>6, <4>1, <4>2 DEF Product
    <3>2. CASE p \notin Listed
      BY <1>6, <2>1, <3>2 DEF Upserted, NewProduct
    <3> QED
      BY <3>1, <3>2
  <2>4. products'[p] = up /\ p \in Products
    BY <1>5, <1>7, <2>1
  <2> QED
    BY <2>2, <2>3, <2>4, MenuAssumption DEF Listed
<1>11. ASSUME NEW p \in Listed', products'[p].active, products'[p].source = sheet.source,
              p \notin Planned(sheet)
       PROVE  FALSE
  <2>1. p \in Products /\ products'[p] # NoProduct
    BY <1>11 DEF Listed
  <2>2. CASE p \in e.leaving
    <3>1. p \in Listed
      BY <1>3, <2>2
    <3>2. ~Deactivated(p, e.today).active
      BY <1>1, <1>3, <3>1, DeactivatedType
    <3>3. products'[p] = Deactivated(p, e.today)
      BY <1>7, <1>11, <2>1, <2>2
    <3> QED
      BY <1>11, <3>2, <3>3
  <2>3. CASE p \notin e.leaving
    <3>1. products'[p] = products[p]
      BY <1>7, <1>11, <2>1, <2>3
    <3>2. p \in Leaving(sheet)
      BY <1>11, <2>1, <3>1 DEF Leaving, Listed
    <3> QED
      BY <1>4, <2>3, <3>2
  <2> QED
    BY <2>2, <2>3
<1>12. {u \in DOMAIN sheet.costs : costs'[u] # sheet.costs[u]} = {}
  BY <1>9
<1>13. Planned(sheet) \ Listed' = {}
  BY <1>10
<1>14. {p \in Planned(sheet) \cap Listed' :
           \/ products'[p].price # sheet.rows[p].price
           \/ products'[p].uses # sheet.rows[p].uses} = {}
  BY <1>10
<1>15. Leaving(sheet)' = {}
  BY <1>11 DEF Leaving
<1> QED
  BY <1>12, <1>13, <1>14, <1>15 DEF DiffOf, NothingLeft

\* Any other step writes no import, and leaves what was read before one as it is.
LEMMA ImportStep ==
  ASSUME MenuInv, ImportInv, scene # "repricing", scene' = scene,
         MenuStep(Alone) \/ CategoryStep(Alone)
  PROVE  ImportInv' /\ ImportSettlesStep
<1>1. /\ Alone \in Sessions /\ draft \in [Sessions -> Draft]
      /\ \A s \in Sessions : s # Alone => draft[s] = NoDraft
  BY SceneAssumption DEF MenuInv, MenuTypeOK, OneAtATime
<1>2. NoDraft.op = "none"
  BY DEF NoDraft
<1>3. ASSUME draft[Alone].op # "writeImport" \/ UNCHANGED <<products, history, costs>>
      PROVE  ImportSettlesStep
  BY <1>1, <1>2, <1>3 DEF ImportSettlesStep
<1>4. ASSUME draft'[Alone].op # "writeImport"
      PROVE  ImportInv'
  BY <1>4 DEF ImportInv
<1>5. CASE WriteImport(Alone)
  <2>1. draft'[Alone] = NoDraft
    BY <1>1, <1>5 DEF WriteImport, DraftEnds, DraftGoes
  <2>2. ImportSettlesStep
    <3> SUFFICES ASSUME NEW s \in Sessions, NEW sheet \in Sheets,
                        draft[s].op = "writeImport", draft[s].sheet = sheet
                 PROVE  DiffOf(sheet)' = NothingLeft
      BY DEF ImportSettlesStep
    <3>1. s = Alone
      BY <1>1, <1>2
    <3> QED
      BY <1>5, <3>1, ImportWritesAll
  <2> QED
    BY <1>2, <1>4, <2>1, <2>2
<1>6. CASE ReadLeaving(Alone)
  <2>1. PICK sheet : sheet = draft[Alone].sheet
    OBVIOUS
  <2>2. PICK leaving : leaving = Leaving(sheet)
    OBVIOUS
  <2>3. DraftGoes(Alone, [op |-> "writeImport", sheet |-> sheet, leaving |-> leaving,
                          today |-> DateOf(now)])
    BY <1>6, <2>1, <2>2 DEF ReadLeaving
  <2>4. UNCHANGED <<products, history, costs>>
    BY <1>6 DEF ReadLeaving
  <2>5. PICK d : d = [op |-> "writeImport", sheet |-> sheet, leaving |-> leaving,
                      today |-> DateOf(now)]
    OBVIOUS
  <2>6. draft'[Alone] = d
    BY <1>1, <2>3, <2>5 DEF DraftGoes
  <2>7. draft'[Alone].sheet = sheet /\ draft'[Alone].leaving = leaving
    BY <2>5, <2>6
  <2>8. Leaving(sheet)' = Leaving(sheet)
    BY <2>4 DEF Leaving, Listed
  <2>9. ImportInv'
    BY <2>2, <2>4, <2>7 DEF ImportInv, Leaving, Listed
  <2> QED
    BY <1>3, <2>4, <2>9
<1>7. CASE DropDraft(Alone)
  <2>1. draft'[Alone] = NoDraft /\ UNCHANGED <<products, history, costs>>
    BY <1>1, <1>7 DEF DropDraft, DraftEnds, DraftGoes
  <2> QED
    BY <1>2, <1>3, <1>4, <2>1
<1>8. CASE \/ WriteCreateProduct(Alone) \/ WriteProduct(Alone) \/ WriteSupply(Alone)
           \/ WriteCost(Alone) \/ WriteAddons(Alone)
  <2>1. draft[Alone].op # "writeImport"
    BY <1>8 DEF WriteCreateProduct, WriteProduct, WriteSupply, WriteCost, WriteAddons
  <2>2. draft'[Alone] = NoDraft
    BY <1>1, <1>8 DEF WriteCreateProduct, WriteProduct, WriteSupply, WriteCost, WriteAddons,
                      DraftEnds, DraftGoes
  <2> QED
    BY <1>2, <1>3, <1>4, <2>1, <2>2
<1>9. ASSUME NEW d, DraftGoes(Alone, d), d.op # "writeImport",
             UNCHANGED <<products, history, costs>>
      PROVE  ImportInv' /\ ImportSettlesStep
  <2>1. draft'[Alone] = d
    BY <1>1, <1>9 DEF DraftGoes
  <2> QED
    BY <1>3, <1>4, <1>9, <2>1
<1>10. CASE BeginCreateProduct(Alone)
  BY <1>9, <1>10 DEF BeginCreateProduct
<1>11. CASE BeginProductEdit(Alone)
  BY <1>9, <1>11 DEF BeginProductEdit
<1>12. CASE ReadProduct(Alone)
  <2>1. PICK d : d = [op |-> "write", product |-> draft[Alone].product,
                      body |-> draft[Alone].body, today |-> draft[Alone].today,
                      before |-> TrackedOf(draft[Alone].product)]
    OBVIOUS
  <2>2. DraftGoes(Alone, d) /\ d.op # "writeImport" /\ UNCHANGED <<products, history, costs>>
    BY <1>12, <2>1 DEF ReadProduct
  <2> QED
    BY <1>9, <2>2
<1>13. CASE BeginSupplyEdit(Alone)
  BY <1>9, <1>13 DEF BeginSupplyEdit
<1>14. CASE BeginCostEdit(Alone)
  BY <1>9, <1>14 DEF BeginCostEdit
<1>15. CASE BeginAddons(Alone)
  BY <1>9, <1>15 DEF BeginAddons
<1>16. CASE BeginImport(Alone)
  BY <1>9, <1>16 DEF BeginImport
<1>17. CASE ReadSaleProduct(Alone)
  <2>1. UNCHANGED <<products, history, costs>>
    BY <1>17 DEF ReadSaleProduct
  <2>2. PICK d : DraftGoes(Alone, d) /\ d.op \in {"writeCost", "writeSupply"}
    BY <1>17 DEF ReadSaleProduct
  <2> QED
    BY <1>9, <2>1, <2>2
<1> QED
  BY <1>5, <1>6, <1>7, <1>8, <1>10, <1>11, <1>12, <1>13, <1>14, <1>15, <1>16, <1>17
     DEF MenuStep, CategoryStep, RepricingStep

\* Where requests overlap there are no imports; elsewhere there is one request.
LEMMA ImportNext ==
  ASSUME MenuInv, ImportInv, [ShopNext]_shopVars
  PROVE  ImportInv' /\ ImportSettlesStep
<1>1. scene' = scene
  BY ClockAndScene
<1>2. ASSUME UNCHANGED menuVars
      PROVE  ImportInv' /\ ImportSettlesStep
  BY <1>1, <1>2 DEF ImportInv, ImportSettlesStep, Leaving, Listed, menuVars
<1>3. CASE scene = "repricing"
  <2>1. \A s \in Sessions : draft[s].op # "writeImport"
    BY <1>3 DEF MenuInv, InOneDay
  <2> QED
    BY <1>1, <1>3, <2>1 DEF ImportInv, ImportSettlesStep
<1>4. CASE scene # "repricing"
  BY <1>1, <1>2, <1>4, MenuStepAlone, ImportStep
<1> QED
  BY <1>3, <1>4

(***************************************************************************)
(* An import leaves nothing for the next one: right after it was written   *)
(* the preview of the same spreadsheet is empty (menu-import/menu-diff.ts, *)
(* menu-import/prisma-menu-import.target.ts), whatever the menu was.       *)
(***************************************************************************)
THEOREM ImportsSettle == ShopSpec => ImportSettles
<1>1. ShopInit => ImportInv
  <2>1. ShopInit => draft[Alone].op # "writeImport"
    BY SceneAssumption DEF ShopInit, MenuInit, NoDraft
  <2> QED
    BY <2>1 DEF ImportInv
<1>2. MenuInv /\ ImportInv /\ [ShopNext]_shopVars => ImportInv' /\ [ImportSettlesStep]_menuVars
  BY ImportNext
<1> QED
  BY <1>1, <1>2, MenuInvariant, PTL DEF ShopSpec, ImportSettles

=============================================================================
