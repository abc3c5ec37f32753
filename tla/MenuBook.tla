------------------------------ MODULE MenuBook ------------------------------
(***************************************************************************)
(* The menu and the prices it had: products with their price history       *)
(* (products/product.service.ts over products/prisma-product-change.ts),   *)
(* the price typed on a supply's screen (supplies/supply.service.ts), the  *)
(* add-on lists of the categories, and the reimport of a spreadsheet       *)
(* (menu-import/run-menu-import.ts).                                       *)
(*                                                                         *)
(* A product is known by its category and name, which stay. A handler is   *)
(* three steps: it checks and takes the day's date, it reads the product   *)
(* in its transaction without locking it, and it writes. The import's      *)
(* transaction, one row after the other, is a single step.                 *)
(***************************************************************************)
EXTENDS DeskState

CONSTANTS
    Products,      \* (category, name) of the products in play
    NoProduct,     \* a product row not there
    Ingredients,   \* supplies
    Categories,    \* product categories
    Sources,       \* the spreadsheets a product may come from
    Prices,        \* sale prices, in cents
    Costs,         \* unit costs of a supply
    Sheets,        \* the plans read from the spreadsheets
    MenusBefore    \* what an instance may start with: menus and add-on lists

VARIABLES
    products,   \* products, by (category, name)
    history,    \* product_price_history
    costs,      \* unit cost of each supply
    addons,     \* category -> the category its add-ons come from
    draft       \* what each session's menu handler is doing

menuVars == <<products, history, costs, addons, draft>>

Product ==
    [price : Prices \cup {None}, active : BOOLEAN, deactivatedOn : Nat \cup {None},
     bundle : SUBSET Products, uses : SUBSET Ingredients, source : Sources \cup {None}]

PriceRow == [product : Products, until : Int, price : Prices]

\* what a spreadsheet asks for: costs, and price and composition of its products
Sheet ==
    [source : Sources,
     costs : UNION {[named -> Costs \cup {None}] : named \in SUBSET Ingredients},
     rows : UNION {[named -> [price : Prices \cup {None}, uses : SUBSET Ingredients]]
                      : named \in SUBSET Products}]

ASSUME MenuAssumption ==
    /\ Prices \subseteq Nat
    /\ None \notin Prices \cup Sources \cup Costs \cup Categories \cup Products
    /\ None \notin Nat
    /\ NoProduct \notin Product
    /\ Sheets \subseteq Sheet
    /\ MenusBefore \subseteq
          [products : [Products -> Product \cup {NoProduct}],
           addons : [Categories -> Categories \cup {None}]]

\* the tables are finite, and a combo's items are rows of products
ASSUME RowsAssumption ==
    /\ IsFiniteSet(Products) /\ IsFiniteSet(Ingredients)
    /\ \A m \in MenusBefore : \A p \in Products :
          m.products[p] # NoProduct =>
              \A q \in m.products[p].bundle : m.products[q] # NoProduct

\* parseProductInput and assertComboShape: a combo has no composition of its own
Bodies ==
    {b \in [price : Prices \cup {None}, active : BOOLEAN,
            bundle : SUBSET Products, uses : SUBSET Ingredients] :
        b.bundle # {} => b.uses = {}}

Tracked == [price : Prices \cup {None}, active : BOOLEAN, deactivatedOn : Nat \cup {None}]

NoDraft == [op |-> "none"]

Draft ==
    {NoDraft}
    \cup [op : {"createProduct"}, product : Products, body : Bodies]
    \cup [op : {"edit"}, product : Products, body : Bodies, today : Nat]
    \cup [op : {"write"}, product : Products, body : Bodies, today : Nat, before : Tracked]
    \cup [op : {"supply"}, supply : Ingredients, cost : Costs \cup {None},
          price : Prices \cup {None}, today : Nat]
    \cup [op : {"writeCost"}, supply : Ingredients, cost : Costs \cup {None}]
    \cup [op : {"writeSupply"}, supply : Ingredients, cost : Costs \cup {None},
          price : Prices \cup {None}, today : Nat, product : Products, before : Tracked]
    \cup [op : {"addons"}, category : Categories, target : Categories \cup {None}]
    \cup [op : {"import"}, sheet : Sheets]
    \cup [op : {"writeImport"}, sheet : Sheets, leaving : SUBSET Products, today : Nat]

(***************************************************************************)
(* The type of the menu's tables and of every menu request in flight.      *)
(***************************************************************************)
MenuTypeOK ==
    /\ products \in [Products -> Product \cup {NoProduct}]
    /\ \A r \in history : r \in PriceRow
    /\ costs \in [Ingredients -> Costs \cup {None}]
    /\ addons \in [Categories -> Categories \cup {None}]
    /\ draft \in [Sessions -> Draft]

MenuInit ==
    /\ \E m \in MenusBefore : products = m.products /\ addons = m.addons
    /\ history = {}
    /\ costs = [u \in Ingredients |-> None]
    /\ draft = [s \in Sessions |-> NoDraft]

Listed == {p \in Products : products[p] # NoProduct}

-----------------------------------------------------------------------------
\* datedPriceSelect: the history row with the smallest valid_until from a day on
RowsFrom(p, d) == {r \in history : r.product = p /\ r.until >= d}

FirstRows(p, d) == {r \in RowsFrom(p, d) : \A q \in RowsFrom(p, d) : r.until <= q.until}

\* priceOnDate
PriceOn(p, d) ==
    IF FirstRows(p, d) = {}
    THEN products[p].price
    ELSE (CHOOSE r \in FirstRows(p, d) : TRUE).price

\* sellableOn
SellableOn(p, d) ==
    \/ products[p].active
    \/ products[p].deactivatedOn # None /\ products[p].deactivatedOn > d

\* saleMenuOn: what the cashier may launch on a day
SaleMenuOn(d) == {p \in Listed : SellableOn(p, d) /\ PriceOn(p, d) # None}

\* toTracked
TrackedOf(p) ==
    [price |-> products[p].price, active |-> products[p].active,
     deactivatedOn |-> products[p].deactivatedOn]

\* supersededPrice: the new price holds from today, the old one until yesterday
Superseded(p, before, price, today) ==
    IF before.price # None /\ price # before.price
    THEN {[product |-> p, until |-> today - 1, price |-> before.price]}
    ELSE {}

\* Plausible bug, for a mutant: the last price of a day replaces the first one's row.
KeptLast(rows) ==
    {h \in history : \A r \in rows : h.product # r.product \/ h.until # r.until} \cup rows

\* createMany with skipDuplicates: the first row of a product and day stays
KeptFirst(rows) ==
    history \cup
        {r \in rows : \A h \in history : h.product # r.product \/ h.until # r.until}

\* nextDeactivatedOn, for a change that tells whether the product is active
NextDeactivatedOn(before, active, today) ==
    IF active THEN None ELSE IF before.active THEN today ELSE before.deactivatedOn

-----------------------------------------------------------------------------
CashStays == UNCHANGED <<now, closings, orders, trail, payments, req>>

\* A session takes a menu request, and goes on with it.
Opens(s, op) == draft[s] = NoDraft /\ Asks(s, op)
DraftGoes(s, d) == draft' = [draft EXCEPT ![s] = d]
DraftEnds(s) == DraftGoes(s, NoDraft) /\ UNCHANGED asked

Combos == {p \in Listed : products[p].bundle # {}}

\* Plausible bug, for a mutant: a product inside a combo may become one.
BundleOfPlain(product, items) ==
    product \notin items /\ items \subseteq Listed /\ items \cap Combos = {}

\* assertBundle: the items exist and are no combos, and what is in a combo
\* becomes none
BundleFits(product, items) ==
    items # {} =>
        /\ product \notin items
        /\ items \subseteq Listed
        /\ items \cap Combos = {}
        /\ \A p \in Listed : product \notin products[p].bundle

\* ProductService.create, whose product no combo holds yet
BeginCreateProduct(s) ==
    \E p \in Products \ Listed, body \in Bodies :
        /\ Opens(s, "product")
        /\ BundleFits(p, body.bundle)
        /\ DraftGoes(s, [op |-> "createProduct", product |-> p, body |-> body])
        /\ CashStays /\ UNCHANGED <<products, history, costs, addons>>

\* a new row: no spreadsheet's, and no day it left the menu
NewProduct(body, source) ==
    [price |-> body.price, active |-> body.active, deactivatedOn |-> None,
     bundle |-> body.bundle, uses |-> body.uses, source |-> source]

\* PrismaProductRepository.create: (category, name) is unique
WriteCreateProduct(s) ==
    /\ draft[s].op = "createProduct"
    /\ draft[s].product \notin Listed
    /\ products' = [products EXCEPT ![draft[s].product] = NewProduct(draft[s].body, None)]
    /\ DraftEnds(s) /\ CashStays /\ UNCHANGED <<history, costs, addons>>

\* ProductService.update: the body checked, then the day's date taken
BeginProductEdit(s) ==
    \E p \in Listed, body \in Bodies :
        /\ Opens(s, "product")
        /\ BundleFits(p, body.bundle)
        /\ DraftGoes(s, [op |-> "edit", product |-> p, body |-> body, today |-> DateOf(now)])
        /\ CashStays /\ UNCHANGED <<products, history, costs, addons>>

\* PrismaProductRepository.update: the read that opens its transaction
ReadProduct(s) ==
    LET e == draft[s] IN
    /\ e.op = "edit"
    /\ DraftGoes(s, [op |-> "write", product |-> e.product, body |-> e.body,
                     today |-> e.today, before |-> TrackedOf(e.product)])
    /\ CashStays /\ UNCHANGED <<products, history, costs, addons, asked>>

\* PrismaProductRepository.update: the history, then the whole row
WriteProduct(s) ==
    LET e == draft[s] IN
    /\ e.op = "write"
    /\ history' = KeptFirst(Superseded(e.product, e.before, e.body.price, e.today))
    /\ products' = [products EXCEPT ![e.product] =
          [price |-> e.body.price, active |-> e.body.active,
           deactivatedOn |-> NextDeactivatedOn(e.before, e.body.active, e.today),
           bundle |-> e.body.bundle, uses |-> e.body.uses, source |-> @.source]]
    /\ DraftEnds(s) /\ CashStays /\ UNCHANGED <<costs, addons>>

\* the active products made of the supply alone
MadeOf(u) == {p \in Listed : products[p].active /\ products[p].uses = {u}}

\* pickSaleProduct: the only one of them that takes one whole unit of it, and not
\* a portion. Recipes have no quantities here, so it may be any of them, or none.
SaleProducts(u) == MadeOf(u) \cup {None}

\* SupplyService.update: with a price, the supply is sold by itself
BeginSupplyEdit(s) ==
    \E u \in Ingredients, cost \in Costs \cup {None}, price \in Prices \cup {None} :
        /\ Opens(s, "supply")
        /\ SaleProducts(u) # {None}
        /\ DraftGoes(s, [op |-> "supply", supply |-> u, cost |-> cost, price |-> price,
                         today |-> DateOf(now)])
        /\ CashStays /\ UNCHANGED <<products, history, costs, addons>>

\* without a price there is nothing to look for
BeginCostEdit(s) ==
    \E u \in Ingredients, cost \in Costs \cup {None} :
        /\ Opens(s, "supply")
        /\ DraftGoes(s, [op |-> "writeCost", supply |-> u, cost |-> cost])
        /\ CashStays /\ UNCHANGED <<products, history, costs, addons>>

\* saveSalePrice picks the product again, and changeProduct reads it
ReadSaleProduct(s) ==
    LET e == draft[s] IN
        /\ e.op = "supply"
        /\ \E p \in SaleProducts(e.supply) :
              DraftGoes(s,
                 IF p = None
                 THEN [op |-> "writeCost", supply |-> e.supply, cost |-> e.cost]
                 ELSE [op |-> "writeSupply", supply |-> e.supply, cost |-> e.cost,
                       price |-> e.price, today |-> e.today, product |-> p,
                       before |-> TrackedOf(p)])
        /\ CashStays /\ UNCHANGED <<products, history, costs, addons, asked>>

\* PrismaSupplyRepository.update: the supply's row
WriteCost(s) ==
    LET e == draft[s] IN
    /\ e.op = "writeCost"
    /\ costs' = [costs EXCEPT ![e.supply] = e.cost]
    /\ DraftEnds(s) /\ CashStays /\ UNCHANGED <<products, history, addons>>

\* changeProduct writes price and deactivatedOn alone; then the supply's row
WriteSupply(s) ==
    LET e == draft[s] IN
    /\ e.op = "writeSupply"
    /\ history' = KeptFirst(Superseded(e.product, e.before, e.price, e.today))
    /\ products' = [products EXCEPT ![e.product].price = e.price,
                                    ![e.product].deactivatedOn = e.before.deactivatedOn]
    /\ costs' = [costs EXCEPT ![e.supply] = e.cost]
    /\ DraftEnds(s) /\ CashStays /\ UNCHANGED addons

\* Plausible bug, for a mutant: a list of add-ons may get add-ons.
AddonsOfPlain(category, target) ==
    target # None => target # category /\ addons[target] = None

\* assertAddonTarget: one level of add-ons
AddonFits(category, target) ==
    target # None =>
        /\ target # category
        /\ addons[target] = None
        /\ \A c \in Categories : addons[c] # category

\* ProductCategoryService.setAddonCategory up to its write
BeginAddons(s) ==
    \E category \in Categories, target \in Categories \cup {None} :
        /\ Opens(s, "addons")
        /\ AddonFits(category, target)
        /\ DraftGoes(s, [op |-> "addons", category |-> category, target |-> target])
        /\ CashStays /\ UNCHANGED <<products, history, costs, addons>>

WriteAddons(s) ==
    /\ draft[s].op = "addons"
    /\ addons' = [addons EXCEPT ![draft[s].category] = draft[s].target]
    /\ DraftEnds(s) /\ CashStays /\ UNCHANGED <<products, history, costs>>

-----------------------------------------------------------------------------
Planned(sheet) == DOMAIN sheet.rows

\* productsLeavingSheet: the active products of the same spreadsheet not in it
Leaving(sheet) ==
    {p \in Listed : /\ products[p].active
                    /\ products[p].source = sheet.source
                    /\ p \notin Planned(sheet)}

\* diffMenu: what an import would change
DiffOf(sheet) ==
    [supplies |-> {u \in DOMAIN sheet.costs : costs[u] # sheet.costs[u]},
     new |-> Planned(sheet) \ Listed,
     changed |-> {p \in Planned(sheet) \cap Listed :
                     \/ products[p].price # sheet.rows[p].price
                     \/ products[p].uses # sheet.rows[p].uses},
     leaving |-> Leaving(sheet)]

\* runMenuImport with apply: a plan without errors goes on to be written
BeginImport(s) ==
    \E sheet \in Sheets :
        /\ Opens(s, "import")
        /\ DraftGoes(s, [op |-> "import", sheet |-> sheet])
        /\ CashStays /\ UNCHANGED <<products, history, costs, addons>>

\* write: the leaving products and the date, read before the transaction
ReadLeaving(s) ==
    LET e == draft[s] IN
    /\ e.op = "import"
    /\ DraftGoes(s, [op |-> "writeImport", sheet |-> e.sheet,
                     leaving |-> Leaving(e.sheet), today |-> DateOf(now)])
    /\ CashStays /\ UNCHANGED <<products, history, costs, addons, asked>>

\* Plausible bug, for a mutant: a product already there keeps its composition.
UpsertedPrice(p, row, source) ==
    IF p \in Listed
    THEN [products[p] EXCEPT !.price = row.price, !.source = source]
    ELSE NewProduct([price |-> row.price, active |-> TRUE, bundle |-> {}, uses |-> row.uses],
                    source)

\* upsertProduct: whether it is active is not touched, nor a combo's items
Upserted(p, row, source) ==
    IF p \in Listed
    THEN [products[p] EXCEPT !.price = row.price, !.uses = row.uses, !.source = source]
    ELSE NewProduct([price |-> row.price, active |-> TRUE, bundle |-> {}, uses |-> row.uses],
                    source)

\* deactivateProducts
Deactivated(p, today) ==
    [products[p] EXCEPT !.active = FALSE,
                        !.deactivatedOn = NextDeactivatedOn(TrackedOf(p), FALSE, today)]

\* the transaction of PrismaMenuImportTarget.write
WriteImport(s) ==
    LET e == draft[s]
        rows == e.sheet.rows
    IN  /\ e.op = "writeImport"
        /\ costs' = [u \in Ingredients |->
              IF u \in DOMAIN e.sheet.costs THEN e.sheet.costs[u] ELSE costs[u]]
        /\ history' = KeptFirst(UNION
              {Superseded(p, TrackedOf(p), rows[p].price, e.today)
                  : p \in Planned(e.sheet) \cap Listed})
        /\ products' = [p \in Products |->
              IF p \in Planned(e.sheet) THEN Upserted(p, rows[p], e.sheet.source)
              ELSE IF p \in e.leaving THEN Deactivated(p, e.today)
              ELSE products[p]]
        /\ DraftEnds(s) /\ CashStays /\ UNCHANGED addons

\* A menu request ends before its write.
DropDraft(s) ==
    /\ draft[s] # NoDraft
    /\ DraftEnds(s) /\ CashStays /\ UNCHANGED <<products, history, costs, addons>>

\* the requests on categories
CategoryStep(s) == BeginAddons(s) \/ WriteAddons(s) \/ DropDraft(s)

\* the requests that change one product's whole row
RepricingStep(s) ==
    \/ BeginProductEdit(s) \/ ReadProduct(s) \/ WriteProduct(s)
    \/ DropDraft(s)

MenuStep(s) ==
    \/ BeginCreateProduct(s) \/ WriteCreateProduct(s)
    \/ RepricingStep(s)
    \/ BeginSupplyEdit(s) \/ ReadSaleProduct(s) \/ WriteSupply(s)
    \/ BeginCostEdit(s) \/ WriteCost(s)
    \/ BeginImport(s) \/ ReadLeaving(s) \/ WriteImport(s)

-----------------------------------------------------------------------------
(***************************************************************************)
(* "A cash desk of a past day launched later goes on with the price of its *)
(* time" (products/product-change.ts): a write that changes the menu today *)
(* takes nothing off the menu of an earlier day and changes no price on    *)
(* it, after any number of changes, on the same day or across days, typed  *)
(* on the product, on its supply, or imported.                             *)
(***************************************************************************)
Writes(s) == "today" \in DOMAIN draft[s] /\ draft'[s] = NoDraft

PastPricesStandStep ==
    \A s \in Sessions : Writes(s) =>
        \A d \in 0 .. draft[s].today - 1 : \A p \in SaleMenuOn(d) :
            p \in SaleMenuOn(d)' /\ PriceOn(p, d)' = PriceOn(p, d)

PastPricesStand == [][PastPricesStandStep]_menuVars

(***************************************************************************)
(* Combos and add-on lists have one level: no combo holds a combo          *)
(* (products/product.service.ts, assertBundle), no category lends add-ons  *)
(* and takes some (products/category-addons.ts). Each is kept from both    *)
(* ends: the one that becomes a combo and the one put into it.             *)
(***************************************************************************)
OneLevel ==
    /\ \A p \in Listed : products[p].bundle \cap (Combos \cup {p}) = {}
    /\ \A c \in Categories : addons[c] # None => addons[addons[c]] = None

(***************************************************************************)
(* An import leaves nothing for the next one: the preview of the same      *)
(* spreadsheet, right after it was written, shows no change                *)
(* (menu-import/menu-diff.ts against menu-import/                          *)
(* prisma-menu-import.target.ts).                                          *)
(***************************************************************************)
NothingLeft == [supplies |-> {}, new |-> {}, changed |-> {}, leaving |-> {}]

ImportSettlesStep ==
    \A s \in Sessions : \A sheet \in Sheets :
        /\ draft[s].op = "writeImport" /\ draft[s].sheet = sheet
        /\ products' # products \/ history' # history \/ costs' # costs
        => DiffOf(sheet)' = NothingLeft

ImportSettles == [][ImportSettlesStep]_menuVars

=============================================================================
