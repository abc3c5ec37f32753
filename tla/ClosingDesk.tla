----------------------------- MODULE ClosingDesk -----------------------------
(***************************************************************************)
(* Closing and reopening a night: closing/closing.service.ts over          *)
(* closing/prisma-closing.repository.ts.                                   *)
(***************************************************************************)
EXTENDS DeskState

\* closeFor: today's close button; opens the night's row if there is none
BeginClose(s) ==
    \E role \in Roles, raw \in Dates \cup {None} :
        LET d == SelectedDate(raw) IN
        /\ Asks(s, "close")
        /\ d \in Dates
        /\ CanSelectDate(role, d, now)
        /\ closings' = GotOrCreated(d)
        /\ closings'[d].status # "CLOSED"
        /\ Goes(s, [op |-> "close", role |-> role, night |-> d])
        /\ UNCHANGED <<now, orders, trail, payments>>

\* closeByDate: the admin closes a forgotten night; never inserts one
BeginCloseByDate(s) ==
    \E d \in Dates :
        /\ Asks(s, "close")
        /\ closings[d].status = "OPEN"
        /\ Goes(s, [op |-> "close", role |-> "ADMIN", night |-> d])
        /\ UNCHANGED <<now, closings, orders, trail, payments>>

\* listOpenOrders: an imported order has no type and is no open tab
OpenTabs(d) ==
    {o \in Placed : /\ orders[o].night = d
                    /\ orders[o].method = None
                    /\ orders[o].type # None
                    /\ ~orders[o].canceled}

\* Plausible bug, for a mutant: the list of open tabs is not looked at.
CheckNothing(s) ==
    /\ req[s].op = "close"
    /\ Goes(s, [req[s] EXCEPT !.op = "markClosed"])
    /\ UNCHANGED <<now, closings, orders, trail, payments, asked>>

\* closeClosing, after the list came back: with an open tab it answers 409
CheckOpenTabs(s) ==
    /\ req[s].op = "close"
    /\ OpenTabs(req[s].night) = {}
    /\ Goes(s, [req[s] EXCEPT !.op = "markClosed"])
    /\ UNCHANGED <<now, closings, orders, trail, payments, asked>>

\* markClosed: one transaction, and no look back at what was checked
MarkClosed(s) ==
    /\ req[s].op = "markClosed"
    /\ closings' = [closings EXCEPT ![req[s].night].status = "CLOSED"]
    /\ orders' = [o \in Orders |->
                    IF /\ o \in Placed
                       /\ orders[o].night = req[s].night
                       /\ ~orders[o].canceled
                    THEN [orders[o] EXCEPT !.status = "DELIVERED"]
                    ELSE orders[o]]
    /\ Answers(s)
    /\ UNCHANGED <<now, trail, payments>>

\* reopenFor
BeginReopen(s) ==
    \E role \in Roles, d \in Dates :
        /\ Asks(s, "reopen")
        /\ closings[d].status = "CLOSED"
        /\ CanReopen(role, d, now)
        /\ Goes(s, [op |-> "reopen", role |-> role, night |-> d])
        /\ UNCHANGED <<now, closings, orders, trail, payments>>

\* markReopened: unconditional
MarkReopened(s) ==
    /\ req[s].op = "reopen"
    /\ closings' = [closings EXCEPT ![req[s].night].status = "OPEN"]
    /\ Answers(s)
    /\ UNCHANGED <<now, orders, trail, payments>>

ClosingNext(s) ==
    \/ BeginClose(s)
    \/ BeginCloseByDate(s)
    \/ CheckOpenTabs(s)
    \/ MarkClosed(s)
    \/ BeginReopen(s)
    \/ MarkReopened(s)

=============================================================================
