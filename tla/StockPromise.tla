---------------------------- MODULE StockPromise ----------------------------
(***************************************************************************)
(* What the stock promises, supply by supply and with no lots, statements  *)
(* or locks: each operation is one step on a balance. A sale takes what    *)
(* there is and owes the rest; an entry first pays what is owed; a count   *)
(* says what there is and forgives what is owed.                           *)
(***************************************************************************)
EXTENDS Tally

CONSTANTS Supplies, Owners, None, Units

Holders == Owners \cup {None}   \* None: an owner that was deleted

VARIABLES
    balance,   \* of each supply
    held,      \* held[o][u]: what owner o took of supply u and keeps
    owed       \* owed[o][u]: what o sold beyond the balance

pvars == <<balance, held, owed>>

Smaller(a, b) == IF a <= b THEN a ELSE b
Nothing == [u \in Supplies |-> 0]

Init ==
    /\ balance \in [Supplies -> Nat]
    /\ held = [o \in Holders |-> Nothing]
    /\ owed = [o \in Holders |-> Nothing]

\* The owner gives back what it holds and takes its needs, as far as they go.
Sync(o, need) ==
    LET there == [u \in Supplies |-> balance[u] + held[o][u]]
        took  == [u \in Supplies |-> Smaller(need[u], there[u])]
    IN  /\ balance' = [u \in Supplies |-> there[u] - took[u]]
        /\ held' = [held EXCEPT ![o] = took]
        /\ owed' = [owed EXCEPT ![o] = [u \in Supplies |-> need[u] - took[u]]]

Total(amount) == SumOf(amount, Holders)

OwedOf(u) == Total([o \in Holders |-> owed[o][u]])

\* `paid`: what the entry settles of each owner's debt, all it can of the total
Enter(u, quantity) ==
    \E paid \in [Holders -> 0 .. quantity] :
        /\ \A o \in Holders : paid[o] <= owed[o][u]
        /\ Total(paid) = Smaller(quantity, OwedOf(u))
        /\ balance' = [balance EXCEPT ![u] = @ + quantity - Total(paid)]
        /\ held' = [o \in Holders |-> [held[o] EXCEPT ![u] = @ + paid[o]]]
        /\ owed' = [o \in Holders |-> [owed[o] EXCEPT ![u] = @ - paid[o]]]

Count(u, quantity) ==
    /\ balance' = [balance EXCEPT ![u] = quantity]
    /\ owed' = [o \in Holders |-> [owed[o] EXCEPT ![u] = 0]]
    /\ UNCHANGED held

Reverse(u, quantity) ==
    /\ quantity <= balance[u]
    /\ balance' = [balance EXCEPT ![u] = @ - quantity]
    /\ UNCHANGED <<held, owed>>

\* A deleted owner's takes and debts stay, with no owner.
Forget(o) ==
    /\ held' = [held EXCEPT ![o] = Nothing,
                            ![None] = [u \in Supplies |-> @[u] + held[o][u]]]
    /\ owed' = [owed EXCEPT ![o] = Nothing,
                            ![None] = [u \in Supplies |-> @[u] + owed[o][u]]]
    /\ UNCHANGED balance

\* A sale needs at most what the instance lets anyone ask for.
Next ==
    \/ \E o \in Owners, need \in [Supplies -> Units \cup {0}] : Sync(o, need)
    \/ \E u \in Supplies, quantity \in Units : Enter(u, quantity)
    \/ \E u \in Supplies, quantity \in Units : Count(u, quantity)
    \/ \E u \in Supplies, quantity \in Units : Reverse(u, quantity)
    \/ \E o \in Owners : Forget(o)

Spec == Init /\ [][Next]_pvars

=============================================================================
