----------------------------- MODULE StockRules -----------------------------
(***************************************************************************)
(* The arithmetic of the stock, without state: which lots a sale or a      *)
(* count takes from (stock/fefo.ts), what a return gives back              *)
(* (stock/sale-reversal.ts) and which oversales an entry settles           *)
(* (stock/oversale.ts). Quantities are natural numbers of thousandths of   *)
(* the supply's count unit.                                                *)
(*                                                                         *)
(* A plan is a function from lot ids to what happens to each: the code's   *)
(* loops over a sorted list are given by what each lot finds left after    *)
(* the ones before it.                                                     *)
(***************************************************************************)
EXTENDS Tally

Least(a, b)  == IF a <= b THEN a ELSE b
AtLeast0(n)  == IF n < 0 THEN 0 ELSE n

\* What a row gets of `units` handed out in order, those `ahead` served first
Share(own, ahead, units) == Least(own, AtLeast0(units - ahead))

\* Plausible bug, for a mutant: the older lot goes first, whatever expires.
OldestFirst(expires, k, l) == k < l

\* sortByExpiry: first to expire first, no date (the greatest number) last, and
\* the older lot first among equals
GoesFirst(expires, k, l) ==
    \/ expires[k] < expires[l]
    \/ expires[k] = expires[l] /\ k < l

LotsAhead(balance, expires, l) == {k \in DOMAIN balance : GoesFirst(expires, k, l)}

\* takeInExpiryOrder, over the lots with a balance
TakeInExpiryOrder(balance, expires, units) ==
    [l \in DOMAIN balance |->
        Share(balance[l], SumOf(balance, LotsAhead(balance, expires, l)), units)]

\* Plausible bug, for a mutant: what was missing is not kept from going below zero.
MissingAnySign(balance, need) == need - SumOf(balance, DOMAIN balance)

\* planSale: how much was missing
MissingOf(balance, need) == AtLeast0(need - SumOf(balance, DOMAIN balance))

\* planCount: what the system has beyond the count goes out as a sale does, and
\* what the count found beyond the system is the surplus
ExcessOf(balance, counted)  == AtLeast0(SumOf(balance, DOMAIN balance) - counted)
SurplusOf(balance, counted) == AtLeast0(counted - SumOf(balance, DOMAIN balance))

\* netTakenByLot: a lot with nothing left to give back is skipped
NetTakenByLot(net) == [l \in DOMAIN net |-> AtLeast0(net[l])]

QuantityOf(rows) == SumOf([r \in rows |-> r.quantity], rows)

UnitsOf(covers) == SumOf([c \in covers |-> c.units], covers)

\* settleOversales: the oldest pending row first, until the entry is used up
SettleOversales(pending, available) ==
    {r \in {[id |-> p.id, owner |-> p.owner,
             units |-> Share(p.quantity, QuantityOf({q \in pending : q.id < p.id}),
                             available),
             was |-> p.quantity] : p \in pending} : r.units > 0}

=============================================================================
