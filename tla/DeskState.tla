------------------------------ MODULE DeskState ------------------------------
(***************************************************************************)
(* The tables the cash desk's requests share, and the requests themselves. *)
(*                                                                         *)
(* The API handles many requests at once. A handler awaits the database    *)
(* between its reads, its checks and its write, so it is a few steps:      *)
(* each step is one read-and-check or one transaction, and what a handler  *)
(* read earlier travels in req[s] while other requests run. A transaction  *)
(* of PostgreSQL at READ COMMITTED that writes under the row locks it      *)
(* takes itself is one step.                                               *)
(***************************************************************************)
EXTENDS NightRules, OrderRules, Tally

CONSTANTS
    Sessions,      \* requests in flight at the same time
    Orders,        \* ids of order rows
    Payments,      \* ids of fiado payment rows
    Dates,         \* business dates in play
    Ops,           \* operations the users ask for in this instance
    FirstMoment,   \* the clock at the start
    LastMoment,    \* bound: the clock stops here
    MaxRequests,   \* bound: how many requests are begun
    NoOrder,       \* an order row not inserted yet
    NoPayment      \* a fiado payment row not inserted yet

ASSUME DeskAssumption ==
    /\ Dates \subseteq Nat
    /\ FirstMoment \in Nat
    /\ LastMoment \in Nat
    /\ MaxRequests \in Nat
    /\ IsFiniteSet(Payments)

VARIABLES
    now,        \* the server's clock
    closings,   \* daily_closings, by business date
    orders,     \* orders, by id
    trail,      \* order_events of each order, oldest first
    payments,   \* fiado_payments, by id
    req,        \* what each session's handler is doing
    asked       \* requests begun so far (only to bound the instance)

vars == <<now, closings, orders, trail, payments, req, asked>>

Closing == [status : {"ABSENT", "OPEN", "CLOSED"}, last : Nat]

Order ==
    [night : Dates, number : Nat \ {0}, type : Types \cup {None},
     method : Methods \cup {None}, amount : Amounts, due : DueDates \cup {None},
     status : Statuses, canceled : BOOLEAN, createdAt : Nat]

Snapshot == [amount : Amounts, method : Methods \cup {None}]

Event ==
    [kind : {"CREATED"}, after : Snapshot]
    \cup [kind : {"EDITED"}, auth : BOOLEAN, before : Snapshot, after : Snapshot]
    \cup [kind : {"STATUS"}, from : Statuses, to : Statuses]
    \cup [kind : {"CANCELED"}, auth : BOOLEAN]
    \cup [kind : {"RESTORED", "FIADO_PAYMENT"}]
    \cup [kind : {"FIADO_PAYMENT_CANCELED"}, auth : BOOLEAN]
    \cup [kind : {"FIADO_DUE_DATE"}, from : DueDates \cup {None}, to : DueDates \cup {None}]

Payment ==
    [order : Orders, amount : Nat \ {0}, night : Dates, createdAt : Nat,
     canceled : BOOLEAN]

\* an id without a row is told from a row
ASSUME NoRowAssumption == NoOrder \notin Order /\ NoPayment \notin Payment

Idle == [op |-> "idle"]

Request ==
    {Idle}
    \cup [op : {"close", "markClosed", "reopen"}, role : Roles, night : Dates]
    \cup [op : {"create"}, role : Roles, night : Dates, data : OrderInputs,
          status : Statuses]
    \cup [op : {"replace"}, role : Roles, order : Orders, data : OrderInputs,
          status : Statuses, auth : BOOLEAN, before : Snapshot]
    \cup [op : {"step"}, role : Roles, order : Orders, from : Statuses,
          to : Statuses]
    \cup [op : {"cancel"}, role : Roles, order : Orders, auth : BOOLEAN]
    \cup [op : {"restore"}, role : Roles, order : Orders]
    \cup [op : {"receive"}, role : Roles, order : Orders, amount : Nat \ {0}]
    \cup [op : {"createPayment"}, role : Roles, order : Orders,
          amount : Nat \ {0}, night : Dates]
    \cup [op : {"refund"}, role : Roles, payment : Payments, auth : BOOLEAN]
    \cup [op : {"reschedule"}, role : Roles, order : Orders,
          from : DueDates \cup {None}, to : DueDates \cup {None}]

(***************************************************************************)
(* The type of every table and of every request in flight.                 *)
(***************************************************************************)
TypeOK ==
    /\ now \in Nat
    /\ closings \in [Dates -> Closing]
    /\ orders \in [Orders -> Order \cup {NoOrder}]
    /\ trail \in [Orders -> Seq(Event)]
    /\ payments \in [Payments -> Payment \cup {NoPayment}]
    /\ req \in [Sessions -> Request]
    /\ asked \in Nat

Placed    == {o \in Orders : orders[o] # NoOrder}
Received  == {p \in Payments : payments[p] # NoPayment}

(***************************************************************************)
(* Every reference leads to a row: an order and a fiado payment to their   *)
(* night, a payment to its order, and a handler's parameters to rows that  *)
(* were there when it read them and that nothing deletes meanwhile. This   *)
(* is what lets a transaction write by id alone.                           *)
(***************************************************************************)
HasRow(d) == closings[d].status # "ABSENT"

RequestHolds(s) ==
    /\ req[s].op \in {"close", "markClosed", "reopen", "create", "createPayment"}
          => HasRow(req[s].night)
    /\ req[s].op \in {"replace", "step", "cancel", "restore", "receive", "createPayment",
                      "reschedule"}
          => req[s].order \in Placed
    /\ req[s].op = "refund" => req[s].payment \in Received

ReferencesHold ==
    /\ \A o \in Placed : HasRow(orders[o].night)
    /\ \A p \in Received : payments[p].order \in Placed /\ HasRow(payments[p].night)
    /\ \A s \in Sessions : RequestHolds(s)

\* A session takes a new request; `MaxRequests` bounds how many there are.
Asks(s, op) ==
    /\ op \in Ops
    /\ req[s] = Idle
    /\ asked < MaxRequests
    /\ asked' = asked + 1

Goes(s, r) == req' = [req EXCEPT ![s] = r]

\* The handler answers: its session takes the next request.
Answers(s) == Goes(s, Idle) /\ UNCHANGED asked

\* writeOrderEvent, in the transaction of the change itself
Recorded(o, event) == trail' = [trail EXCEPT ![o] = Append(@, event)]

\* Plausible bug, for a mutant: the night's row is looked for and not inserted.
NightAsItIs(d) == closings

\* getOrCreateFor: the night's row, inserted by an upsert at its first entry
GotOrCreated(d) ==
    IF closings[d].status = "ABSENT"
    THEN [closings EXCEPT ![d].status = "OPEN"]
    ELSE closings

\* currentNight: before the night ends, yesterday's if it is still open
CurrentNight ==
    IF DateOf(now) - 1 \in LiveNightDates(now) \cap Dates
       /\ closings[DateOf(now) - 1].status = "OPEN"
    THEN DateOf(now) - 1
    ELSE DateOf(now)

\* selectedDate: the date the user asked for, or (None) the current night
SelectedDate(raw) == IF raw = None THEN CurrentNight ELSE raw

\* paidByOrder: the payments of an order not refunded, summed
ActivePayments(o) ==
    {p \in Received : payments[p].order = o /\ ~payments[p].canceled}

Receipts == [p \in Received |-> payments[p].amount]

PaidTotal(o) == SumOf(Receipts, ActivePayments(o))

IsFiado(o) == orders[o].method \in FiadoMethods

\* assertNoFiadoPayment
NoFiadoPayment(o) == ~(IsFiado(o) /\ PaidTotal(o) # 0)

\* findEditableOrder: the order, then its night, two reads taken as one. The night of
\* an order never changes, and neither row is locked until the commit anyway.
Editable(role, o) ==
    /\ o \in Placed
    /\ CanEditClosing(role, orders[o].night, closings[orders[o].night].status, now)

\* findUncanceledOrder
EditableUncanceled(role, o) == Editable(role, o) /\ ~orders[o].canceled

=============================================================================
