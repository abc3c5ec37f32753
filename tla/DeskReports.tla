---------------------------- MODULE DeskReports ----------------------------
(***************************************************************************)
(* What the desk's reports read from its tables: the revenue of a night    *)
(* (report/, one night or a period of nights) and the fiado still owed     *)
(* (fiado/fiado-views.ts). Extras (interest) and delivery fees are not     *)
(* modelled, so a receipt is what it takes off its order.                  *)
(***************************************************************************)
EXTENDS CashDesk

\* Rows are inserted one at a time, and each names one night.
ASSUME ReportAssumption == IsFiniteSet(Orders) /\ IsFiniteSet(Dates)

Total(S) == SumOf([o \in Placed |-> orders[o].amount], S)

\* listOrders, without the canceled ones
Counted(d) == {o \in OrdersOf(d) : ~orders[o].canceled}

\* Plausible bug, for a mutant: fiado counts on the night it is sold, too.
PaidOrNot(S) == S

\* paidOnTheSpot: an unpaid tab and an imported order stay
PaidOnTheSpot(S) == {o \in S : ~IsFiado(o)}

\* listFiadoPayments, of the night whose drawer took the money
ReceiptsOf(d) == {p \in Received : payments[p].night = d /\ ~payments[p].canceled}

\* revenueCents
Revenue(d) ==
    Total(PaidOnTheSpot(Counted(d)))
        + SumOf(Receipts, ReceiptsOf(d))

\* listOrders of the fiado, and isOpen
Debts == {o \in Placed : IsFiado(o) /\ ~orders[o].canceled /\ Remaining(o) > 0}

\* openTotalOf, over every customer
OpenTotal == SumOf([o \in Debts |-> Remaining(o)], Debts)

-----------------------------------------------------------------------------
(***************************************************************************)
(* Every cent of an order that stands is the revenue of some night or a    *)
(* debt, and never both: whatever is launched, edited to and from fiado,   *)
(* canceled, restored, received on another night and refunded, the         *)
(* revenues of all the nights and the open total make up the orders        *)
(* (report/revenue.ts over fiado/fiado-views.ts). It rests on              *)
(* checks made before the write, so it is of requests that do not overlap. *)
(***************************************************************************)
RevenueAndDebt ==
    SumOf([d \in Dates |-> Revenue(d)], Dates) + OpenTotal
        = SumOf([d \in Dates |-> Total(Counted(d))], Dates)

=============================================================================
