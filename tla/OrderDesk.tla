------------------------------ MODULE OrderDesk ------------------------------
(***************************************************************************)
(* Launching, editing, advancing, canceling and restoring an order:        *)
(* orders/order.service.ts, order-status.service.ts and                    *)
(* order-cancel.service.ts over orders/prisma-order.repository.ts.         *)
(* The stock each transaction also moves is the subject of SaleStock.      *)
(***************************************************************************)
EXTENDS DeskState

(***************************************************************************)
(* create                                                                  *)
(***************************************************************************)

\* OrderService.create up to its transaction
BeginCreate(s) ==
    \E role \in Roles, raw \in Dates \cup {None}, data \in OrderInputs :
        LET d == SelectedDate(raw) IN
        /\ Asks(s, "create")
        /\ d \in Dates
        /\ CanSelectDate(role, d, now)
        /\ closings' = GotOrCreated(d)
        /\ CanEditClosing(role, d, closings'[d].status, now)
        /\ DueNotBefore(data.due, d)
        /\ Goes(s, [op |-> "create", role |-> role, night |-> d, data |-> data,
                    status |-> InitialStatus(IsLiveNight(d, now))])
        /\ UNCHANGED <<now, orders, trail, payments>>

\* Plausible bug, for a mutant: the number is that of the orders still active.
CountedDayNumber(d) ==
    Cardinality({o \in Placed : orders[o].night = d /\ ~orders[o].canceled}) + 1

\* Plausible bug, for a mutant: the counter as it was before its update.
ReadBeforeUpdate(d) == closings[d].last

\* nextDayNumber: the night's counter plus one
NextDayNumber(d) == closings[d].last + 1

\* PrismaOrderRepository.create; the counter's row stays locked to the end
CommitCreate(s) ==
    \E o \in Orders \ Placed :
        /\ req[s].op = "create"
        /\ LET r == req[s]
               n == NextDayNumber(r.night)
           IN  /\ closings' = [closings EXCEPT ![r.night].last = @ + 1]
               /\ orders' = [orders EXCEPT ![o] =
                    [night |-> r.night, number |-> n, type |-> r.data.type,
                     method |-> r.data.method, amount |-> r.data.amount, due |-> r.data.due,
                     status |-> r.status, canceled |-> FALSE, createdAt |-> now]]
               /\ Recorded(o, [kind |-> "CREATED", after |-> SnapshotOf(r.data)])
        /\ Answers(s)
        /\ UNCHANGED <<now, payments>>

(***************************************************************************)
(* replace                                                                 *)
(***************************************************************************)

\* OrderService.replace up to its transaction: the new status, the manager's
\* password and the trail's "before" come from the order read here
BeginReplace(s) ==
    \E role \in Roles, o \in Placed, data \in OrderInputs :
        /\ Asks(s, "replace")
        /\ EditableUncanceled(role, o)
        /\ NoFiadoPayment(o)
        /\ DueNotBefore(data.due, orders[o].night)
        /\ Goes(s, [op |-> "replace", role |-> role, order |-> o, data |-> data,
                    status |-> StatusForType(data.type, orders[o].status),
                    auth |-> IsSensitiveEdit(orders[o], data)
                             /\ ManagerAuthorized(role, orders[o].createdAt,
                                                  orders[o].status, now),
                    before |-> SnapshotOf(orders[o])])
        /\ UNCHANGED <<now, closings, orders, trail, payments>>

\* Plausible bug, for a mutant: the edit leaves no event.
ReplaceSilently(s) ==
    /\ req[s].op = "replace"
    /\ LET r == req[s] IN
       orders' = [orders EXCEPT ![r.order] =
                    [@ EXCEPT !.type = r.data.type, !.method = r.data.method,
                              !.amount = r.data.amount, !.due = r.data.due,
                              !.status = r.status]]
    /\ Answers(s)
    /\ UNCHANGED <<now, closings, trail, payments>>

\* PrismaOrderRepository.update: by id alone, whatever the row has become
CommitReplace(s) ==
    /\ req[s].op = "replace"
    /\ LET r == req[s] IN
       /\ orders' = [orders EXCEPT ![r.order] =
                        [@ EXCEPT !.type = r.data.type, !.method = r.data.method,
                                  !.amount = r.data.amount, !.due = r.data.due,
                                  !.status = r.status]]
       /\ Recorded(r.order, [kind |-> "EDITED", auth |-> r.auth,
                             before |-> r.before, after |-> SnapshotOf(r.data)])
    /\ Answers(s)
    /\ UNCHANGED <<now, closings, payments>>

(***************************************************************************)
(* advance and revert                                                      *)
(***************************************************************************)

\* OrderStatusService.step; `from` is the status the user's screen showed
BeginStep(s) ==
    \E role \in Roles, o \in Placed, direction \in {-1, 1} :
        LET from == orders[o].status
            to   == StepStatus(orders[o].type, from, direction)
        IN  /\ Asks(s, "step")
            /\ EditableUncanceled(role, o)
            /\ orders[o].type # None
            /\ to # None
            /\ Goes(s, [op |-> "step", role |-> role, order |-> o,
                        from |-> from, to |-> to])
            /\ UNCHANGED <<now, closings, orders, trail, payments>>

\* Plausible bug, for a mutant: the update is by id alone.
StepMatchesAny(s) == TRUE

\* updateMany's condition: still where the screen showed it, and not canceled
StepMatches(s) ==
    /\ orders[req[s].order].status = req[s].from
    /\ ~orders[req[s].order].canceled

\* PrismaOrderRepository.updateStatus
CommitStep(s) ==
    /\ req[s].op = "step"
    /\ StepMatches(s)
    /\ orders' = [orders EXCEPT ![req[s].order].status = req[s].to]
    /\ Recorded(req[s].order, [kind |-> "STATUS", from |-> req[s].from,
                               to |-> req[s].to])
    /\ Answers(s)
    /\ UNCHANGED <<now, closings, payments>>

\* no row matched: 409, another click or the night's closing came first
StaleStep(s) ==
    /\ req[s].op = "step"
    /\ ~StepMatches(s)
    /\ Answers(s)
    /\ UNCHANGED <<now, closings, orders, trail, payments>>

(***************************************************************************)
(* cancel and restore                                                      *)
(***************************************************************************)

\* OrderCancelService.cancel up to its transaction
BeginCancel(s) ==
    \E role \in Roles, o \in Placed :
        /\ Asks(s, "cancel")
        /\ EditableUncanceled(role, o)
        /\ NoFiadoPayment(o)
        /\ Goes(s, [op |-> "cancel", role |-> role, order |-> o,
                    auth |-> ManagerAuthorized(role, orders[o].createdAt,
                                               orders[o].status, now)])
        /\ UNCHANGED <<now, closings, orders, trail, payments>>

\* PrismaOrderRepository.cancel: by id alone
CommitCancel(s) ==
    /\ req[s].op = "cancel"
    /\ orders' = [orders EXCEPT ![req[s].order].canceled = TRUE]
    /\ Recorded(req[s].order, [kind |-> "CANCELED", auth |-> req[s].auth])
    /\ Answers(s)
    /\ UNCHANGED <<now, closings, payments>>

\* OrderCancelService.restore up to its transaction; the route is the admin's
BeginRestore(s) ==
    \E o \in Placed :
        /\ Asks(s, "restore")
        /\ Editable("ADMIN", o)
        /\ orders[o].canceled
        /\ Goes(s, [op |-> "restore", role |-> "ADMIN", order |-> o])
        /\ UNCHANGED <<now, closings, orders, trail, payments>>

\* Plausible bug, for a mutant: the restore leaves no event.
RestoreSilently(s) ==
    /\ req[s].op = "restore"
    /\ orders' = [orders EXCEPT ![req[s].order].canceled = FALSE]
    /\ Answers(s)
    /\ UNCHANGED <<now, closings, trail, payments>>

\* PrismaOrderRepository.restore: by id alone
CommitRestore(s) ==
    /\ req[s].op = "restore"
    /\ orders' = [orders EXCEPT ![req[s].order].canceled = FALSE]
    /\ Recorded(req[s].order, [kind |-> "RESTORED"])
    /\ Answers(s)
    /\ UNCHANGED <<now, closings, payments>>

OrderNext(s) ==
    \/ BeginCreate(s)
    \/ CommitCreate(s)
    \/ BeginReplace(s)
    \/ CommitReplace(s)
    \/ BeginStep(s)
    \/ CommitStep(s)
    \/ StaleStep(s)
    \/ BeginCancel(s)
    \/ CommitCancel(s)
    \/ BeginRestore(s)
    \/ CommitRestore(s)

=============================================================================
