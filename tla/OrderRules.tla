----------------------------- MODULE OrderRules -----------------------------
(***************************************************************************)
(* The rules one order obeys, without state: its progress                  *)
(* (orders/order-status.ts), the cashier's lock (orders/order-lock.ts and  *)
(* orders/cashier-lock.guard.ts), and what a request may ask for           *)
(* (orders/order-input.ts). Money is a natural number of cents.            *)
(***************************************************************************)
EXTENDS Integers, Sequences, SequencesExt

CONSTANTS
    Amounts,        \* the totals an order may have, in cents
    Methods,        \* payment methods, the fiado ones included
    FiadoMethods,   \* the methods with isFiado
    DueDates,       \* days a fiado may be promised for
    FixMinutes,     \* cashierFixMinutes of the settings, in clock units
    None            \* SQL null

ASSUME OrderAssumption ==
    /\ Amounts \subseteq Nat \ {0}
    /\ FiadoMethods \subseteq Methods
    /\ None \notin Methods
    /\ DueDates \subseteq Nat /\ None \notin DueDates
    /\ FixMinutes \in Nat

Types    == {"DELIVERY", "COUNTER"}
Statuses == {"PREPARING", "OUT_FOR_DELIVERY", "DELIVERED"}

STATUS_FLOW ==
    [DELIVERY |-> <<"PREPARING", "OUT_FOR_DELIVERY", "DELIVERED">>,
     COUNTER  |-> <<"PREPARING", "DELIVERED">>]

InFlow(type, status) == status \in ToSet(STATUS_FLOW[type])

InitialStatus(live) == IF live THEN "PREPARING" ELSE "DELIVERED"

\* indexOf counts from 0 and gives -1 for a status the flow lacks, which then
\* steps forward to the first one.
FlowPosition(type, status) ==
    IF InFlow(type, status)
    THEN CHOOSE i \in DOMAIN STATUS_FLOW[type] : STATUS_FLOW[type][i] = status
    ELSE 0

\* null (here None) beyond either end of the flow
StepStatus(type, status, direction) ==
    LET i == FlowPosition(type, status) + direction
    IN  IF i \in DOMAIN STATUS_FLOW[type] THEN STATUS_FLOW[type][i] ELSE None

\* Plausible bug, for a mutant: a change of type keeps any status.
StatusKept(type, status) == status

StatusForType(type, status) ==
    IF InFlow(type, status) THEN status ELSE "PREPARING"

\* Plausible bug, for a mutant: an order already on its way is not locked.
LockedByAge(createdAt, status, t) == t - createdAt >= FixMinutes

\* isLockedForCashier: the order has left the cashier's hands. A fiado payment
\* has no status and counts as "PREPARING".
IsLockedForCashier(createdAt, status, t) ==
    ~(status = "PREPARING" /\ t - createdAt < FixMinutes)

\* CashierLockGuard.authorize, when it does not refuse: whether the manager's
\* password was used, which goes to the order's trail.
ManagerAuthorized(role, createdAt, status, t) ==
    role # "ADMIN" /\ IsLockedForCashier(createdAt, status, t)

IsSensitiveEdit(before, after) ==
    \/ after.amount < before.amount
    \/ before.method # None /\ after.method # before.method

\* parseOrderInput and assertOpenAccount: an order without a method is an open
\* tab, and only the counter keeps one; rejectDueDate: only fiado has a due date.
OrderInputs ==
    {i \in [type : Types, method : Methods \cup {None}, amount : Amounts,
            due : DueDates \cup {None}] :
        /\ i.type = "DELIVERY" => i.method # None
        /\ i.due # None => i.method \in FiadoMethods}

\* assertDueNotBefore: not before the order's night
DueNotBefore(due, night) == due # None => due >= night

\* snapshotOf: what the trail keeps of an order; the items' text is left out
SnapshotOf(data) == [amount |-> data.amount, method |-> data.method]

=============================================================================
