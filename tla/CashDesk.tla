------------------------------ MODULE CashDesk ------------------------------
(***************************************************************************)
(* The cash desk as a whole: the requests of ClosingDesk, OrderDesk and    *)
(* FiadoDesk interleaved over the tables of DeskState, with the clock and  *)
(* with requests that end early, and what the desk promises.               *)
(*                                                                         *)
(* With several Sessions the requests overlap, as in production. With one, *)
(* each request ends before the next begins; the promises the checks make  *)
(* only in that case are stated apart, below.                              *)
(***************************************************************************)
EXTENDS ClosingDesk, OrderDesk, FiadoDesk

CONSTANTS
    ImportedNight,   \* a night the spreadsheet import wrote
    Imported         \* its orders, in the spreadsheet's order

ASSUME ImportedAssumption ==
    /\ ImportedNight \in Dates
    /\ Imported \in Seq(Orders)
    /\ \A i, j \in DOMAIN Imported : Imported[i] = Imported[j] => i = j

\* closingData: an imported order has neither type nor method
ImportedOrder(i, amount) ==
    [night |-> ImportedNight, number |-> i, type |-> None, method |-> None,
     amount |-> amount, due |-> None, status |-> "DELIVERED", canceled |-> FALSE,
     createdAt |-> FirstMoment]

Init ==
    /\ now = FirstMoment
    /\ closings = [d \in Dates |->
                     IF d = ImportedNight
                     THEN [status |-> "CLOSED", last |-> Len(Imported)]
                     ELSE [status |-> "ABSENT", last |-> 0]]
    /\ \E amount \in Amounts :
         orders = [o \in Orders |->
                     IF \E i \in DOMAIN Imported : Imported[i] = o
                     THEN ImportedOrder(CHOOSE i \in DOMAIN Imported : Imported[i] = o,
                                        amount)
                     ELSE NoOrder]
    /\ trail = [o \in Orders |-> <<>>]
    /\ payments = [p \in Payments |-> NoPayment]
    /\ req = [s \in Sessions |-> Idle]
    /\ asked = 0

Tick ==
    /\ now < LastMoment
    /\ now' = now + 1
    /\ UNCHANGED <<closings, orders, trail, payments, req, asked>>

\* A request ends before its transaction: a 4xx answer of a later check, a
\* manager's password refused, a connection lost, the process restarted.
Abandon(s) ==
    /\ req[s] # Idle
    /\ Answers(s)
    /\ UNCHANGED <<now, closings, orders, trail, payments>>

Next ==
    \/ Tick
    \/ \E s \in Sessions :
          ClosingNext(s) \/ OrderNext(s) \/ FiadoNext(s) \/ Abandon(s)

Spec == Init /\ [][Next]_vars

-----------------------------------------------------------------------------
(***************************************************************************)
(* Promises that hold however the requests overlap.                        *)
(***************************************************************************)

OrdersOf(d) == {o \in Placed : orders[o].night = d}

(***************************************************************************)
(* The orders of a night bear exactly the numbers 1 to the night's         *)
(* counter, each once: two cashiers launching together never share a       *)
(* number, a canceled order keeps its own, and no number is skipped        *)
(* (orders/prisma-order.repository.ts, nextDayNumber).                     *)
(***************************************************************************)
NumbersExact ==
    \A d \in Dates :
        /\ \A o \in OrdersOf(d) : orders[o].number \in 1 .. closings[d].last
        /\ \A o, p \in OrdersOf(d) : orders[o].number = orders[p].number => o = p
        /\ \A n \in 1 .. closings[d].last : \E o \in OrdersOf(d) : orders[o].number = n

(***************************************************************************)
(* "The order never changes without leaving a trail"                       *)
(* (orders/prisma-order-events.ts): a step that changes an order, or a     *)
(* payment of it, adds one event to that order in the same transaction.    *)
(* The one silent change is closing the night, which only delivers the     *)
(* orders still active.                                                    *)
(***************************************************************************)
OneEventMore(o) == \E e \in Event : trail'[o] = Append(trail[o], e)

SilentlyDelivered(o) ==
    /\ closings'[orders[o].night].status = "CLOSED"
    /\ ~orders[o].canceled
    /\ orders'[o] = [orders[o] EXCEPT !.status = "DELIVERED"]

LeavesATrailStep ==
    /\ \A o \in Orders : orders'[o] # orders[o] =>
            OneEventMore(o) \/ (o \in Placed /\ SilentlyDelivered(o))
    /\ \A p \in Payments : payments'[p] # payments[p] =>
            OneEventMore(payments'[p].order)

LeavesATrail == [][LeavesATrailStep]_vars

(***************************************************************************)
(* Two quick clicks never walk two steps: a STATUS event is only ever      *)
(* written over an active order that is still where the click saw it       *)
(* (PrismaOrderRepository.updateStatus).                                   *)
(***************************************************************************)
ClickStep ==
    \A o \in Orders :
        /\ Len(trail'[o]) = Len(trail[o]) + 1
        /\ trail'[o][Len(trail'[o])].kind = "STATUS"
        => LET e == trail'[o][Len(trail'[o])] IN
           /\ orders[o].status = e.from /\ ~orders[o].canceled
           /\ orders'[o].status = e.to

ClickWalksOneStep == [][ClickStep]_vars

(***************************************************************************)
(* An order's trail tells the fiado money that came in: receipts less      *)
(* refunds in the trail are the payments still active. Two refunds of one  *)
(* payment count once (fiado/prisma-fiado.repository.ts, cancelPayment).   *)
(***************************************************************************)
EventsOf(o, kind) == {i \in DOMAIN trail[o] : trail[o][i].kind = kind}

TrailTellsPaid ==
    \A o \in Orders :
        Cardinality(EventsOf(o, "FIADO_PAYMENT"))
            - Cardinality(EventsOf(o, "FIADO_PAYMENT_CANCELED"))
        = Cardinality(ActivePayments(o))

-----------------------------------------------------------------------------
(***************************************************************************)
(* Promises the code makes by checking first and writing later. They hold  *)
(* when requests do not overlap; overlapping ones break them.              *)
(***************************************************************************)

(***************************************************************************)
(* "The day does not close with an open tab" (closing/closing.service.ts): *)
(* at the moment a night becomes CLOSED it has no unpaid counter order.    *)
(***************************************************************************)
NoCloseWithOpenTab ==
    [][\A d \in Dates :
            closings[d].status # "CLOSED" /\ closings'[d].status = "CLOSED"
            => OpenTabs(d) = {}]_vars

(***************************************************************************)
(* An order's status belongs to its type's flow: a counter order is never  *)
(* out for delivery (orders/order-status.ts).                              *)
(***************************************************************************)
StatusFitsType ==
    \A o \in Placed :
        orders[o].type # None => InFlow(orders[o].type, orders[o].status)

(***************************************************************************)
(* Fiado has no credit, and money received pins its order down             *)
(* (fiado/fiado-payment.service.ts, orders/order-fiado.ts): the active     *)
(* payments of an order never exceed it, and while there is one the order  *)
(* is still fiado and not canceled; and a day is only promised for fiado,  *)
(* not before its night, however often it is edited and rescheduled.       *)
(***************************************************************************)
FiadoNeverOverpaid ==
    \A o \in Placed : PaidTotal(o) <= orders[o].amount

PaidOrderStands ==
    \A o \in Placed : ActivePayments(o) # {} => IsFiado(o) /\ ~orders[o].canceled

PromisedDayFits ==
    \A o \in Placed : orders[o].due # None => IsFiado(o) /\ orders[o].due >= orders[o].night

FiadoSound == FiadoNeverOverpaid /\ PaidOrderStands /\ PromisedDayFits

(***************************************************************************)
(* The trail reads as a chain: each edit starts from what the previous one *)
(* left, the last one left what the order is now, and the order is         *)
(* canceled exactly when its last cancel is not followed by a restore.     *)
(***************************************************************************)
Snapshots(o) == {i \in DOMAIN trail[o] : trail[o][i].kind \in {"CREATED", "EDITED"}}

\* what a launch or an edit saved, with no later edit before the event k
StandsUntil(o, i, k) == i < k /\ \A j \in Snapshots(o) : j \in i + 1 .. k => j = k

EditsChain(o) ==
    \A i \in Snapshots(o) :
        /\ \A k \in Snapshots(o) : StandsUntil(o, i, k) => trail[o][k].before = trail[o][i].after
        /\ StandsUntil(o, i, Len(trail[o]) + 1) => trail[o][i].after = SnapshotOf(orders[o])

CanceledByTrail(o) ==
    \E i \in EventsOf(o, "CANCELED") : \A j \in EventsOf(o, "RESTORED") : j < i

TrailChains ==
    \A o \in Placed : EditsChain(o) /\ (orders[o].canceled <=> CanceledByTrail(o))

(***************************************************************************)
(* A closed night is the admin's alone (closing/closing-access.ts): while  *)
(* a night is closed, no request of the cashier changes its orders or the  *)
(* fiado money that came in on it, but for the day an order was promised   *)
(* to be paid on, which moves no money.                                    *)
(***************************************************************************)
TouchesNight(d) ==
    \/ \E o \in Orders :
          /\ orders'[o] # orders[o] /\ orders'[o].night = d
          /\ o \in Placed => orders'[o] # [orders[o] EXCEPT !.due = orders'[o].due]
    \/ \E p \in Payments : payments'[p] # payments[p] /\ payments'[p].night = d

ClosedNightIsAdmins ==
    [][\A d \in Dates, s \in Sessions :
            /\ closings[d].status = "CLOSED"
            /\ TouchesNight(d)
            /\ req'[s] # req[s]
            => req[s].role = "ADMIN"]_vars

(***************************************************************************)
(* Outside the lock, lowering an order or changing how it was paid takes   *)
(* the admin's password (orders/order-lock.ts): the step that does it for  *)
(* a cashier leaves an event that says so. The lock is the one of the      *)
(* moment the request looked, so the order is compared without its age.    *)
(***************************************************************************)
MoneyEditsAuthorized ==
    [][\A o \in Placed, s \in Sessions :
            /\ req[s] # Idle /\ req'[s] = Idle
            /\ req[s].role = "CAIXA"
            /\ orders'[o] # orders[o]
            /\ \/ orders'[o].amount < orders[o].amount
               \/ orders[o].method \notin {None, orders'[o].method}
            /\ orders[o].status # "PREPARING"
            => trail'[o][Len(trail'[o])].auth]_vars

=============================================================================
