---------------------------- MODULE OrderPricing ----------------------------
(***************************************************************************)
(* What an order is charged for (orders/priced-items.ts over               *)
(* orders/prisma-order.catalog.ts, orders/order-pricing.ts,                *)
(* orders/order-addons.ts, orders/order-removals.ts): the menu checks and  *)
(* prices every line on the order's night, except what the order already   *)
(* had, which keeps the price it was sold at and is not asked for again.   *)
(* Staff consumptions are priced by the same functions.                    *)
(*                                                                         *)
(* A handler reads the stored order and the menu, and writes all the       *)
(* items later, by id. One order is followed; the delivery fee, the notes  *)
(* and the quantities of a recipe are left out.                            *)
(***************************************************************************)
EXTENDS MenuBook

CONSTANTS
    CategoryOf,  \* the category of a product
    Position,    \* where a category stands in the printed order
    Numbered,    \* products with a number on the menu
    Packaging,   \* supplies of the sections that are no ingredients
    Baskets      \* the items that may be sent: sequences of Item

\* parseOrderItem: an item as sent, its add-ons counted by the unit
Quantities == 1 .. 99

Item ==
    [product : Products, quantity : Quantities,
     addons : UNION {[chosen -> Quantities] : chosen \in SUBSET Products},
     removed : SUBSET Ingredients]

ASSUME PricingAssumption ==
    /\ CategoryOf \in [Products -> Categories]
    /\ Position \in [Categories -> Nat]
    /\ \A c, d \in Categories : Position[c] = Position[d] => c = d
    /\ Numbered \subseteq Products
    /\ Packaging \subseteq Ingredients
    /\ Baskets \subseteq Seq(Item)
    /\ \A basket \in Baskets : \A i \in DOMAIN basket : \A a \in DOMAIN basket[i].addons :
          basket[i].quantity * basket[i].addons[a] \in Quantities
    /\ Costs \subseteq Nat

VARIABLES
    bill,   \* the saved order: its night, its items as priced
    till    \* what each session's order handler is doing

billVars == <<bill, till>>

NoBill == [night |-> None, items |-> <<>>]
NoTill == [op |-> "none"]

Cost == [cmv : Nat, complete : BOOLEAN]

LineTyped(line) ==
    /\ line.quantity \in Nat
    /\ line.price \in Prices \cup {None}
    /\ line.cost \in Cost \cup {None}

ItemsTyped(items) ==
    \A i \in DOMAIN items :
        /\ items[i].product \in Products
        /\ items[i].removed \subseteq Ingredients
        /\ LineTyped(items[i])
        /\ \A a \in DOMAIN items[i].addons : a \in Products /\ LineTyped(items[i].addons[a])

(***************************************************************************)
(* The type of the priced order and of the handlers that price it.         *)
(***************************************************************************)
BillTypeOK ==
    /\ bill.night \in Nat \cup {None}
    /\ ItemsTyped(bill.items)
    /\ \A s \in Sessions : till[s] # NoTill =>
          /\ till[s].op \in {"launch", "replace"}
          /\ till[s].night \in Nat
          /\ ItemsTyped(till[s].items)

BillInit ==
    /\ bill = NoBill
    /\ till = [s \in Sessions |-> NoTill]

-----------------------------------------------------------------------------
\* saleComponentsOf: a combo is made of what its items are made of
Components(p) ==
    IF products[p].bundle = {}
    THEN {<<p, u>> : u \in products[p].uses}
    ELSE UNION {{<<i, u>> : u \in products[i].uses} : i \in products[p].bundle}

\* removablesOf
Removables(p) ==
    IF p \in Numbered /\ products[p].bundle = {} THEN products[p].uses \ Packaging ELSE {}

\* lineCost over computeCmv: none without a recipe; what was taken out is not paid
LineCost(p, removed) ==
    LET left == {c \in Components(p) : c[2] \notin removed}
        known == {c \in left : costs[c[2]] # None}
    IN  IF Components(p) = {} THEN None
        ELSE [cmv |-> SumOf([c \in known |-> costs[c[2]]], known), complete |-> left = known]

-----------------------------------------------------------------------------
\* Plausible bug, for a mutant: only what was an item is kept.
ItemHas(entry, p) == entry.product = p

Has(entry, p) == entry.product = p \/ p \in DOMAIN entry.addons

\* keptLines: the first line of a product, an item or an add-on
Keeps(before, p) == \E i \in DOMAIN before : Has(before[i], p)

KeptLine(before, p) ==
    LET entry == before[Min({i \in DOMAIN before : Has(before[i], p)})]
    IN  IF entry.product = p
        THEN [price |-> entry.price, cost |-> entry.cost]
        ELSE [price |-> entry.addons[p].price, cost |-> entry.addons[p].cost]

\* keptCosts: the first item of a product with the same ingredients out
SameRecipe(before, item) ==
    {i \in DOMAIN before : before[i].product = item.product /\ before[i].removed = item.removed}

\* the keptPairs of order-addons.ts and of order-removals.ts
AddonKept(before, p, a) ==
    \E i \in DOMAIN before : before[i].product = p /\ a \in DOMAIN before[i].addons

RemovalKept(before, p, u) ==
    \E i \in DOMAIN before : before[i].product = p /\ u \in before[i].removed

\* assertAddonAllowed
AddonAllowed(p, a) ==
    /\ products[a].bundle = {}
    /\ addons[CategoryOf[p]] = CategoryOf[a]

\* sellable
MayBeSold(p, night) == SellableOn(p, night) /\ PriceOn(p, night) # None

UsedBy(item) == {item.product} \cup DOMAIN item.addons

\* assertAddonsAllowed
AddonsAllowed(items, before) ==
    \A i \in DOMAIN items : \A a \in DOMAIN items[i].addons :
        AddonKept(before, items[i].product, a) \/ AddonAllowed(items[i].product, a)

\* assertRemovalsAllowed
RemovalsAllowed(items, before) ==
    \A i \in DOMAIN items : \A u \in items[i].removed :
        RemovalKept(before, items[i].product, u) \/ u \in Removables(items[i].product)

\* priceItemsForDay, up to the prices: what was in the order needs no place on the menu
Accepts(items, night, before) ==
    /\ \A i \in DOMAIN items : UsedBy(items[i]) \subseteq Listed
    /\ AddonsAllowed(items, before)
    /\ RemovalsAllowed(items, before)
    /\ \A i \in DOMAIN items : \A p \in UsedBy(items[i]) :
          Keeps(before, p) \/ MayBeSold(p, night)

\* sortItemsByCategory: a category after the other, and in one the order typed
PositionOf(item) == Position[CategoryOf[item.product]]

ComesBy(items, i, j) ==
    \/ PositionOf(items[i]) < PositionOf(items[j])
    \/ PositionOf(items[i]) = PositionOf(items[j]) /\ i <= j

PlaceOf(items, j) == Cardinality({i \in DOMAIN items : ComesBy(items, i, j)})

Sorted(items) ==
    [k \in DOMAIN items |-> items[CHOOSE j \in DOMAIN items : PlaceOf(items, j) = k]]

\* priceLine
PricedLine(p, night, before) ==
    IF Keeps(before, p)
    THEN KeptLine(before, p)
    ELSE [price |-> PriceOn(p, night), cost |-> LineCost(p, {})]

\* itemCost
ItemCost(item, before) ==
    IF SameRecipe(before, item) # {}
    THEN before[Min(SameRecipe(before, item))].cost
    ELSE LineCost(item.product, item.removed)

\* priceOrderEntries: an add-on is stored with its total
Priced(items, night, before) ==
    LET PricedAddon(item, a) ==
            LET line == PricedLine(a, night, before)
            IN  [quantity |-> item.quantity * item.addons[a],
                 price |-> line.price, cost |-> line.cost]
        PricedItem(item) ==
            [product |-> item.product, quantity |-> item.quantity,
             price |-> PricedLine(item.product, night, before).price,
             cost |-> ItemCost(item, before), removed |-> item.removed,
             addons |-> [a \in DOMAIN item.addons |-> PricedAddon(item, a)]]
        ordered == Sorted(items)
    IN  [i \in DOMAIN ordered |-> PricedItem(ordered[i])]

\* orderAmount, without the fee
LineAmount(line) == line.quantity * line.price

AddonsAmount(item) ==
    SumOf([a \in DOMAIN item.addons |-> LineAmount(item.addons[a])], DOMAIN item.addons)

AmountOf(items) ==
    SumOf([i \in DOMAIN items |-> LineAmount(items[i]) + AddonsAmount(items[i])], DOMAIN items)

-----------------------------------------------------------------------------
\* OrderService.create up to its transaction
PriceLaunch(s) ==
    \E items \in Baskets, night \in 0 .. DateOf(now) :
        /\ bill = NoBill /\ \A r \in Sessions : till[r] = NoTill
        /\ Asks(s, "order")
        /\ Accepts(items, night, <<>>)
        /\ till' = [till EXCEPT ![s] =
              [op |-> "launch", night |-> night, items |-> Priced(items, night, <<>>)]]
        /\ CashStays /\ UNCHANGED <<bill, menuVars>>

\* OrderService.replace up to its transaction
PriceEdit(s) ==
    \E items \in Baskets :
        /\ bill # NoBill /\ till[s] = NoTill
        /\ Asks(s, "order")
        /\ Accepts(items, bill.night, bill.items)
        /\ till' = [till EXCEPT ![s] =
              [op |-> "replace", night |-> bill.night,
               items |-> Priced(items, bill.night, bill.items)]]
        /\ CashStays /\ UNCHANGED <<bill, menuVars>>

\* the items of a new order, or all of an edited one's in place of the old
WriteItems(s) ==
    /\ till[s] # NoTill
    /\ bill' = [night |-> till[s].night, items |-> till[s].items]
    /\ till' = [till EXCEPT ![s] = NoTill]
    /\ CashStays /\ UNCHANGED <<menuVars, asked>>

\* The request ends before its transaction commits.
DropPricing(s) ==
    /\ till[s] # NoTill
    /\ till' = [till EXCEPT ![s] = NoTill]
    /\ CashStays /\ UNCHANGED <<bill, menuVars, asked>>

PricingStep(s) ==
    PriceLaunch(s) \/ PriceEdit(s) \/ WriteItems(s) \/ DropPricing(s)

-----------------------------------------------------------------------------
(***************************************************************************)
(* "Every product that was in the order keeps the price and the cost of    *)
(* its time" (orders/order-pricing.ts): whatever the menu became since -   *)
(* another price, another recipe, off the menu, a combo, add-ons no longer *)
(* lent - a saved order can be saved again as it stands, and is charged    *)
(* the same, line by line. (The cost is that of the items: an add-on that  *)
(* is also an item of the order takes the first item's.)                   *)
(***************************************************************************)
AsSent(items) ==
    [i \in DOMAIN items |->
        [product |-> items[i].product, quantity |-> items[i].quantity,
         addons |-> [a \in DOMAIN items[i].addons |->
                        items[i].addons[a].quantity \div items[i].quantity],
         removed |-> items[i].removed]]

SavedOrderStands ==
    LET again == Priced(AsSent(bill.items), bill.night, bill.items)
    IN  /\ Accepts(AsSent(bill.items), bill.night, bill.items)
        /\ AmountOf(again) = AmountOf(bill.items)
        /\ Len(again) = Len(bill.items)
        /\ \A i \in DOMAIN again :
              /\ again[i].price = bill.items[i].price
              /\ again[i].cost = bill.items[i].cost
              /\ \A a \in DOMAIN again[i].addons :
                    again[i].addons[a].price = bill.items[i].addons[a].price

=============================================================================
