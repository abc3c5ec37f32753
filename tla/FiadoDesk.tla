------------------------------ MODULE FiadoDesk ------------------------------
(***************************************************************************)
(* Receiving, refunding and rescheduling fiado (orders paid later, on      *)
(* account): fiado/fiado-payment.service.ts over                           *)
(* fiado/prisma-fiado.repository.ts. The extra (interest) of a receipt     *)
(* changes nothing modelled here.                                          *)
(***************************************************************************)
EXTENDS DeskState

\* remainingCents: what is left to receive is never stored
Remaining(o) ==
    IF orders[o].canceled \/ orders[o].amount <= PaidTotal(o)
    THEN 0
    ELSE orders[o].amount - PaidTotal(o)

\* Plausible bug, for a mutant: the limit is the order's amount, paid or not.
UpToAmount(o, amount) == amount \in 1 .. orders[o].amount

\* assertWithinRemaining: from one cent to what is left
WithinRemaining(o, amount) == amount \in 1 .. Remaining(o)

\* FiadoPaymentService.receive: the order, still active, and what is left of it
BeginReceive(s) ==
    \E role \in Roles, o \in Placed :
        /\ Asks(s, "receive")
        /\ IsFiado(o)
        /\ ~orders[o].canceled
        /\ \E amount \in 1 .. orders[o].amount :
              /\ WithinRemaining(o, amount)
              /\ Goes(s, [op |-> "receive", role |-> role, order |-> o,
                          amount |-> amount])
        /\ UNCHANGED <<now, closings, orders, trail, payments>>

\* receive goes on: the night whose drawer takes the money
ResolveReceiveNight(s) ==
    \E raw \in Dates \cup {None} :
        LET r == req[s]
            d == SelectedDate(raw)
        IN  /\ r.op = "receive"
            /\ d \in Dates
            /\ CanSelectDate(r.role, d, now)
            /\ closings' = GotOrCreated(d)
            /\ CanEditClosing(r.role, d, closings'[d].status, now)
            /\ Goes(s, [op |-> "createPayment", role |-> r.role,
                        order |-> r.order, amount |-> r.amount, night |-> d])
            /\ UNCHANGED <<now, orders, trail, payments, asked>>

\* createPayment: an insert, with no look back at what is left
CommitReceive(s) ==
    \E p \in Payments \ Received :
        /\ req[s].op = "createPayment"
        /\ payments' = [payments EXCEPT ![p] =
                            [order |-> req[s].order, amount |-> req[s].amount,
                             night |-> req[s].night, createdAt |-> now,
                             canceled |-> FALSE]]
        /\ Recorded(req[s].order, [kind |-> "FIADO_PAYMENT"])
        /\ Answers(s)
        /\ UNCHANGED <<now, closings, orders>>

\* FiadoPaymentService.cancel up to its transaction: the lock looks at the
\* payment's age alone
BeginRefund(s) ==
    \E role \in Roles, p \in Received :
        /\ Asks(s, "refund")
        /\ ~payments[p].canceled
        /\ CanEditClosing(role, payments[p].night,
                          closings[payments[p].night].status, now)
        /\ Goes(s, [op |-> "refund", role |-> role, payment |-> p,
                    auth |-> ManagerAuthorized(role, payments[p].createdAt,
                                               "PREPARING", now)])
        /\ UNCHANGED <<now, closings, orders, trail, payments>>

\* Plausible bug, for a mutant: the update is by id alone.
RefundMatchesAny(s) == TRUE

\* updateMany's condition: not refunded yet
RefundMatches(s) == ~payments[req[s].payment].canceled

\* Plausible bug, for a mutant: the refund leaves no event.
RefundSilently(s) ==
    /\ req[s].op = "refund"
    /\ RefundMatches(s)
    /\ payments' = [payments EXCEPT ![req[s].payment].canceled = TRUE]
    /\ Answers(s)
    /\ UNCHANGED <<now, closings, orders, trail>>

\* cancelPayment
CommitRefund(s) ==
    /\ req[s].op = "refund"
    /\ RefundMatches(s)
    /\ payments' = [payments EXCEPT ![req[s].payment].canceled = TRUE]
    /\ Recorded(payments[req[s].payment].order,
                [kind |-> "FIADO_PAYMENT_CANCELED", auth |-> req[s].auth])
    /\ Answers(s)
    /\ UNCHANGED <<now, closings, orders>>

\* no row matched: 409, another click refunded it first
StaleRefund(s) ==
    /\ req[s].op = "refund"
    /\ ~RefundMatches(s)
    /\ Answers(s)
    /\ UNCHANGED <<now, closings, orders, trail, payments>>

\* FiadoPaymentService.reschedule up to its transaction: the night may be over,
\* closed or paid; no money moves, so no password is asked for
BeginReschedule(s) ==
    \E role \in Roles, o \in Placed, due \in DueDates \cup {None} :
        /\ Asks(s, "reschedule")
        /\ IsFiado(o)
        /\ ~orders[o].canceled
        /\ DueNotBefore(due, orders[o].night)
        /\ Goes(s, [op |-> "reschedule", role |-> role, order |-> o,
                    from |-> orders[o].due, to |-> due])
        /\ UNCHANGED <<now, closings, orders, trail, payments>>

\* setDueDate: by id alone
CommitReschedule(s) ==
    /\ req[s].op = "reschedule"
    /\ orders' = [orders EXCEPT ![req[s].order].due = req[s].to]
    /\ Recorded(req[s].order, [kind |-> "FIADO_DUE_DATE", from |-> req[s].from,
                               to |-> req[s].to])
    /\ Answers(s)
    /\ UNCHANGED <<now, closings, payments>>

FiadoNext(s) ==
    \/ BeginReceive(s)
    \/ ResolveReceiveNight(s)
    \/ CommitReceive(s)
    \/ BeginRefund(s)
    \/ CommitRefund(s)
    \/ StaleRefund(s)
    \/ BeginReschedule(s)
    \/ CommitReschedule(s)

=============================================================================
