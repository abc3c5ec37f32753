---------------------------- MODULE MCBackOffice ----------------------------
(***************************************************************************)
(* Small instances of BackOffice: two notes, of one and of two lines;      *)
(* three products, one supply; a spreadsheet that lists a product and a    *)
(* later one that lists another; one customer, with or without a phone, or *)
(* two of one name; one stored order of two lines.                         *)
(***************************************************************************)
EXTENDS BackOffice

CONSTANTS e1, k1, k2, p1, p2, p3, u1, g1, g2, sheet, c1, c2, n1, n1b, f1, a1, a2, x1, b1, v1

LinesOf == [k \in {k1, k2} |-> IF k = k1 THEN <<1, 2>> ELSE <<1>>]

\* an expense of 4 on the night of day 1, with or without the note k1
HoldingNote ==
    [e \in Expenses |->
        IF e = e1
        THEN [night |-> 1, amount |-> 4, note |-> [id |-> 1, key |-> k1, outside |-> {}]]
        ELSE NoExpense]

LaunchedOrNot == {NoExpenses, HoldingNote}

\* p1 for sale, as the supply itself; the others not there
OneForSale ==
    [p \in Products |->
        IF p = p1
        THEN [price |-> 1, active |-> TRUE, deactivatedOn |-> None, bundle |-> {},
              uses |-> {u1}, source |-> sheet]
        ELSE NoProduct]

\* every product for sale, of nothing but itself
PlainMenu ==
    [p \in Products |->
        [price |-> 1, active |-> TRUE, deactivatedOn |-> None, bundle |-> {},
         uses |-> {}, source |-> None]]

\* p1 and p2 for sale, each of the supply, p2 on top of p1 too
Sandwich ==
    [p \in Products |->
        IF p = p3 THEN NoProduct
        ELSE [price |-> 1, active |-> TRUE, deactivatedOn |-> None, bundle |-> {},
              uses |-> {u1}, source |-> None]]

NothingLent == [c \in Categories |-> None]

MenuOrNot ==
    {[products |-> menu, addons |-> NothingLent] : menu \in {NoMenu, OneForSale, PlainMenu}}
    \cup {[products |-> Sandwich, addons |-> [NothingLent EXCEPT ![g1] = g2]]}

Categorized == [p \in Products |-> IF p = p1 THEN g1 ELSE g2]
InOrder == [c \in Categories |-> IF c = g1 THEN 1 ELSE IF c = g2 THEN 2 ELSE 3]

Of(p, quantity, extra, removed) ==
    [product |-> p, quantity |-> quantity, addons |-> extra, removed |-> removed]

OneP2 == [a \in {p2} |-> 1]
Nothing == [a \in {} |-> 1]

\* two of p1 with p2 each; one without the supply and one with p2; p2 by itself, then p1
ThreeBaskets ==
    {<<Of(p1, 2, OneP2, {})>>,
     <<Of(p1, 1, Nothing, {u1}), Of(p1, 1, OneP2, {})>>,
     <<Of(p2, 1, Nothing, {}), Of(p1, 1, Nothing, {})>>}

TwoSheets ==
    {[source |-> sheet, costs |-> [u \in {u1} |-> 1],
      rows |-> [p \in {p1} |-> [price |-> 2, uses |-> {u1}]]],
     [source |-> sheet, costs |-> [u \in {} |-> 1],
      rows |-> [p \in {p2} |-> [price |-> 1, uses |-> {}]]]}

\* n1b is another spelling of n1
Spelled == [n \in Names |-> IF n = n1b THEN n1 ELSE n]

OneCustomer(phone) ==
    [c \in Customers |->
        IF c = c1 THEN [name |-> n1, phone |-> phone, place |-> a1] ELSE NoCustomer]

\* c2 is a namesake of c1, without a phone
TwoNamesakes ==
    [OneCustomer(f1) EXCEPT ![c2] = [name |-> n1, phone |-> None, place |-> a2]]

OneWithoutPhone == {OneCustomer(None)}

CustomersOrNot ==
    {NoCustomers, OneCustomer(f1), OneCustomer(None), TwoNamesakes}

\* two of x1 with b1 each and without v1, and x1 as it comes
StoredOrder ==
    <<[product |-> x1, quantity |-> 2, note |-> None, removals |-> {v1},
       addons |-> [b \in AddonItems |-> 2]],
      [product |-> x1, quantity |-> 1, note |-> None, removals |-> {},
       addons |-> [b \in AddonItems |-> 0]]>>

StoredOrders == {StoredOrder}

=============================================================================
