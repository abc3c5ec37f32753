--------------------------- MODULE CashDesk_proofs ---------------------------
(***************************************************************************)
(* What holds of CashDesk for any number of sessions, orders, receipts and *)
(* nights: its types and references, the exact numbering of each night's   *)
(* orders, that a click on the status walks one step, and that the trail   *)
(* tells the money that came in (DeskReports).                             *)
(*                                                                         *)
(* The promises that rest on a check made before the write are proved of   *)
(* requests that do not overlap: what a handler read still stands when it  *)
(* writes.                                                                 *)
(***************************************************************************)
EXTENDS DeskReports, SumTheorems

USE NightAssumption, OrderAssumption, DeskAssumption, NoRowAssumption, ImportedAssumption

(***************************************************************************)
(* What the rules return.                                                  *)
(***************************************************************************)
LEMMA StepStatusType ==
  ASSUME NEW type \in Types, NEW status \in Statuses, NEW direction \in {-1, 1},
         StepStatus(type, status, direction) # None
  PROVE  StepStatus(type, status, direction) \in Statuses
<1>1. \A i \in DOMAIN STATUS_FLOW[type] : STATUS_FLOW[type][i] \in Statuses
  BY DEF STATUS_FLOW, Types, Statuses
<1> QED
  BY <1>1 DEF StepStatus

\* What a request for an order carries.
LEMMA InputType ==
  ASSUME NEW data \in OrderInputs
  PROVE  /\ data.type \in Types
         /\ data.method \in Methods \cup {None}
         /\ data.amount \in Amounts
         /\ data.due \in DueDates \cup {None}
         /\ SnapshotOf(data) \in Snapshot
BY DEF OrderInputs, SnapshotOf, Snapshot

\* An order that is there.
LEMMA PlacedType ==
  ASSUME TypeOK, NEW o \in Placed
  PROVE  /\ o \in Orders
         /\ orders[o] \in Order
         /\ SnapshotOf(orders[o]) \in Snapshot
BY DEF TypeOK, Placed, Order, SnapshotOf, Snapshot

\* The status an order gets with its type is a status.
LEMMA StatusForTypeType ==
  ASSUME NEW type \in Types, NEW status \in Statuses
  PROVE  StatusForType(type, status) \in Statuses
BY DEF StatusForType, Statuses

\* The night's row, there or inserted, with its counter as it was.
LEMMA GotOrCreatedType ==
  ASSUME TypeOK, NEW d \in Dates
  PROVE  /\ GotOrCreated(d) \in [Dates -> Closing]
         /\ \A n \in Dates : GotOrCreated(d)[n].last = closings[n].last
BY DEF TypeOK, GotOrCreated, Closing

\* One event more in a trail.
LEMMA RecordedType ==
  ASSUME TypeOK, NEW o \in Orders, NEW e \in Event, Recorded(o, e)
  PROVE  trail' \in [Orders -> Seq(Event)]
BY DEF TypeOK, Recorded

\* A request goes on.
LEMMA GoesType ==
  ASSUME TypeOK, NEW s \in Sessions, NEW r \in Request, Goes(s, r)
  PROVE  req' \in [Sessions -> Request]
BY DEF TypeOK, Goes

\* A request ends.
LEMMA AnswersType ==
  ASSUME TypeOK, NEW s \in Sessions, Answers(s)
  PROVE  req' \in [Sessions -> Request] /\ asked' \in Nat
BY DEF TypeOK, Answers, Goes, Request

\* A request begins.
LEMMA AsksType ==
  ASSUME TypeOK, NEW s \in Sessions, NEW op, Asks(s, op)
  PROVE  asked' \in Nat
BY DEF TypeOK, Asks

(***************************************************************************)
(* What a request in flight carries.                                       *)
(***************************************************************************)
LEMMA RequestType ==
  ASSUME TypeOK, NEW s \in Sessions
  PROVE  /\ req[s].op \in {"close", "markClosed", "reopen"} =>
              req[s] \in [op : {"close", "markClosed", "reopen"}, role : Roles,
                          night : Dates]
         /\ req[s].op = "create" =>
              req[s] \in [op : {"create"}, role : Roles, night : Dates,
                          data : OrderInputs, status : Statuses]
         /\ req[s].op = "replace" =>
              req[s] \in [op : {"replace"}, role : Roles, order : Orders,
                          data : OrderInputs, status : Statuses,
                          auth : BOOLEAN, before : Snapshot]
         /\ req[s].op = "step" =>
              req[s] \in [op : {"step"}, role : Roles, order : Orders,
                          from : Statuses, to : Statuses]
         /\ req[s].op = "cancel" =>
              req[s] \in [op : {"cancel"}, role : Roles, order : Orders,
                          auth : BOOLEAN]
         /\ req[s].op = "restore" =>
              req[s] \in [op : {"restore"}, role : Roles, order : Orders]
         /\ req[s].op = "receive" =>
              req[s] \in [op : {"receive"}, role : Roles, order : Orders,
                          amount : Nat \ {0}]
         /\ req[s].op = "createPayment" =>
              req[s] \in [op : {"createPayment"}, role : Roles, order : Orders,
                          amount : Nat \ {0}, night : Dates]
         /\ req[s].op = "refund" =>
              req[s] \in [op : {"refund"}, role : Roles, payment : Payments,
                          auth : BOOLEAN]
         /\ req[s].op = "reschedule" =>
              req[s] \in [op : {"reschedule"}, role : Roles, order : Orders,
                          from : DueDates \cup {None}, to : DueDates \cup {None}]
<1>1. req[s] \in Request
  BY DEF TypeOK
<1> QED
  BY <1>1 DEF Request, Idle

(***************************************************************************)
(* The inductive invariant, and what every step keeps of the rows: none    *)
(* goes away, an order keeps its night and its number, a payment its order *)
(* and its night.                                                          *)
(***************************************************************************)
IInv == TypeOK /\ ReferencesHold

OrdersStay ==
    \A o \in Placed :
        /\ o \in Placed'
        /\ orders'[o].night = orders[o].night
        /\ orders'[o].number = orders[o].number

PaymentsStay ==
    \A p \in Received :
        /\ p \in Received'
        /\ payments'[p].order = payments[p].order
        /\ payments'[p].night = payments[p].night

RowsStay ==
    /\ \A d \in Dates : HasRow(d) => HasRow(d)'
    /\ OrdersStay
    /\ PaymentsStay

\* no order launched, no counter moved
NumberingStays ==
    /\ Placed' \subseteq Placed
    /\ \A d \in Dates : closings'[d].last = closings[d].last

(***************************************************************************)
(* One row changed.                                                        *)
(***************************************************************************)
LEMMA OrderUpdated ==
  ASSUME NEW r \in Order
  PROVE  /\ \A st \in Statuses : [r EXCEPT !.status = st] \in Order
         /\ \A b \in BOOLEAN : [r EXCEPT !.canceled = b] \in Order
         /\ \A d \in DueDates \cup {None} : [r EXCEPT !.due = d] \in Order
         /\ \A data \in OrderInputs, st \in Statuses :
              [r EXCEPT !.type = data.type, !.method = data.method,
                        !.amount = data.amount, !.due = data.due,
                        !.status = st] \in Order
BY InputType DEF Order

\* The status of a night changes: every row stays, and every counter.
LEMMA ClosingUpdated ==
  ASSUME TypeOK, NEW d \in Dates, NEW status \in {"OPEN", "CLOSED"},
         closings' = [closings EXCEPT ![d].status = status]
  PROVE  /\ closings' \in [Dates -> Closing]
         /\ \A n \in Dates : HasRow(n) => HasRow(n)'
         /\ \A n \in Dates : closings'[n].last = closings[n].last
         /\ HasRow(d)'
<1>1. closings \in [Dates -> Closing]
  BY DEF TypeOK
<1>2. \A c \in Closing : [c EXCEPT !.status = status] \in Closing
  BY DEF Closing
<1> QED
  BY <1>1, <1>2 DEF Closing, HasRow

\* The night's row is there afterwards, and no other went.
LEMMA GotOrCreatedRow ==
  ASSUME TypeOK, NEW d \in Dates, closings' = GotOrCreated(d)
  PROVE  /\ closings' \in [Dates -> Closing]
         /\ \A n \in Dates : HasRow(n) => HasRow(n)'
         /\ \A n \in Dates : closings'[n].last = closings[n].last
         /\ HasRow(d)'
<1>1. CASE closings[d].status = "ABSENT"
  BY <1>1, ClosingUpdated DEF GotOrCreated
<1>2. CASE closings[d].status # "ABSENT"
  BY <1>2 DEF GotOrCreated, TypeOK, HasRow
<1> QED
  BY <1>1, <1>2

\* An order changes, but for its night and its number.
LEMMA OrderRow ==
  ASSUME TypeOK, NEW o \in Placed, NEW r \in Order,
         r.night = orders[o].night, r.number = orders[o].number,
         orders' = [orders EXCEPT ![o] = r]
  PROVE  /\ orders' \in [Orders -> Order \cup {NoOrder}]
         /\ OrdersStay
         /\ Placed' \subseteq Placed
BY DEF TypeOK, Placed, OrdersStay


(***************************************************************************)
(* The references hold after a step that keeps the rows, when what it      *)
(* inserts and what its own request goes on with lead to rows.             *)
(***************************************************************************)
LEMMA ReferencesStay ==
  ASSUME IInv, NEW s \in Sessions, RowsStay, RequestHolds(s)',
         \A t \in Sessions \ {s} : req'[t] = req[t],
         \A o \in Placed' \ Placed : HasRow(orders[o].night)',
         \A p \in Received' \ Received :
            (payments[p].order \in Placed /\ HasRow(payments[p].night))',
         TypeOK'
  PROVE  ReferencesHold'
<1>1. \A o \in Placed : orders[o].night \in Dates /\ HasRow(orders[o].night)
  BY PlacedType DEF IInv, ReferencesHold, Order
<1>2. \A p \in Received : /\ payments[p].night \in Dates /\ HasRow(payments[p].night)
                         /\ payments[p].order \in Placed
  BY DEF IInv, ReferencesHold, TypeOK, Received, Payment
<1>3. \A o \in Placed' : HasRow(orders[o].night)'
  BY <1>1 DEF RowsStay, OrdersStay, HasRow
<1>4. \A p \in Received' : (payments[p].order \in Placed /\ HasRow(payments[p].night))'
  BY <1>2 DEF RowsStay, OrdersStay, PaymentsStay, HasRow
<1>5. ASSUME NEW t \in Sessions \ {s}
      PROVE  RequestHolds(t)'
  <2>1. req'[t] = req[t] /\ RequestHolds(t)
    BY DEF IInv, ReferencesHold
  <2>2. req[t].op \in {"close", "markClosed", "reopen", "create", "createPayment"}
          => req[t].night \in Dates
    BY RequestType DEF IInv
  <2> QED
    BY <2>1, <2>2 DEF RequestHolds, RowsStay, OrdersStay, PaymentsStay, HasRow
<1> QED
  BY <1>3, <1>4, <1>5 DEF ReferencesHold

\* A handler goes on, writing no order and no payment.
LEMMA Proceeds ==
  ASSUME IInv, NEW s \in Sessions, NEW r \in Request, Goes(s, r), asked' \in Nat,
         UNCHANGED <<now, orders, trail, payments>>,
         UNCHANGED closings \/ \E d \in Dates : closings' = GotOrCreated(d),
         RequestHolds(s)'
  PROVE  IInv' /\ RowsStay /\ NumberingStays
<1>1. /\ closings' \in [Dates -> Closing]
      /\ \A n \in Dates : HasRow(n) => HasRow(n)'
      /\ \A n \in Dates : closings'[n].last = closings[n].last
  BY GotOrCreatedRow DEF IInv, TypeOK, HasRow
<1>2. TypeOK'
  BY <1>1, GoesType DEF IInv, TypeOK
<1>3. Placed' = Placed /\ Received' = Received
  BY DEF Placed, Received
<1>4. RowsStay /\ NumberingStays
  BY <1>1, <1>3 DEF RowsStay, OrdersStay, PaymentsStay, NumberingStays
<1>5. \A t \in Sessions \ {s} : req'[t] = req[t]
  BY DEF Goes, IInv, TypeOK
<1> QED
  BY <1>2, <1>3, <1>4, <1>5, ReferencesStay DEF IInv

\* A handler answers: it holds nothing any more.
LEMMA AnswerHolds ==
  ASSUME IInv, NEW s \in Sessions, Answers(s)
  PROVE  /\ RequestHolds(s)'
         /\ req' \in [Sessions -> Request]
         /\ asked' \in Nat
         /\ \A t \in Sessions \ {s} : req'[t] = req[t]
BY AnswersType DEF IInv, TypeOK, Answers, Goes, RequestHolds, Idle

\* A request ends and writes nothing.
LEMMA AnswersOnly ==
  ASSUME IInv, NEW s \in Sessions, Answers(s),
         UNCHANGED <<now, closings, orders, trail, payments>>
  PROVE  IInv' /\ RowsStay /\ NumberingStays
<1>1. Idle \in Request
  BY DEF Request
<1> QED
  BY <1>1, AnswerHolds, Proceeds DEF Answers

\* A transaction changes one order, keeping its night and its number.
LEMMA OrderCommitted ==
  ASSUME IInv, NEW s \in Sessions, NEW o \in Placed, NEW r \in Order,
         r.night = orders[o].night, r.number = orders[o].number,
         orders' = [orders EXCEPT ![o] = r],
         NEW e \in Event, Recorded(o, e), Answers(s),
         UNCHANGED <<now, closings, payments>>
  PROVE  IInv' /\ RowsStay /\ NumberingStays
<1>1. /\ orders' \in [Orders -> Order \cup {NoOrder}]
      /\ OrdersStay
      /\ Placed' \subseteq Placed
  BY OrderRow DEF IInv
<1>2. TypeOK'
  BY <1>1, AnswerHolds, RecordedType, PlacedType DEF IInv, TypeOK
<1>3. Received' = Received
  BY DEF Received
<1>4. RowsStay /\ NumberingStays
  BY <1>1, <1>3 DEF RowsStay, PaymentsStay, NumberingStays, HasRow
<1> QED
  BY <1>1, <1>2, <1>3, <1>4, AnswerHolds, ReferencesStay DEF IInv

(***************************************************************************)
(* The steps, one desk at a time.                                          *)
(***************************************************************************)
LEMMA ClosingKeeps ==
  ASSUME IInv, NEW s \in Sessions, ClosingNext(s)
  PROVE  IInv' /\ RowsStay /\ NumberingStays
<1> USE DEF IInv
<1>1. CASE BeginClose(s)
  <2>1. PICK role \in Roles, raw \in Dates \cup {None} : BeginClose(s)!(role, raw)
    BY <1>1 DEF BeginClose
  <2> DEFINE d == SelectedDate(raw)
             r == [op |-> "close", role |-> role, night |-> d]
  <2>2. d \in Dates /\ closings' = GotOrCreated(d) /\ Goes(s, r) /\ asked' \in Nat
    BY <2>1, AsksType
  <2> HIDE DEF d
  <2>3. r \in Request
    BY <2>2 DEF Request
  <2>4. RequestHolds(s)'
    BY <2>2, GotOrCreatedRow DEF RequestHolds, Goes, TypeOK
  <2> QED
    BY <2>1, <2>2, <2>3, <2>4, Proceeds
<1>2. CASE BeginCloseByDate(s)
  <2>1. PICK d \in Dates : BeginCloseByDate(s)!(d)
    BY <1>2 DEF BeginCloseByDate
  <2>2. [op |-> "close", role |-> "ADMIN", night |-> d] \in Request
    BY DEF Request, Roles
  <2>3. RequestHolds(s)'
    BY <2>1 DEF RequestHolds, Goes, TypeOK, HasRow
  <2> QED
    BY <2>1, <2>2, <2>3, AsksType, Proceeds
<1>3. CASE CheckOpenTabs(s)
  <2>1. req[s] \in [op : {"close", "markClosed", "reopen"}, role : Roles, night : Dates]
    BY <1>3, RequestType DEF CheckOpenTabs
  <2>2. [req[s] EXCEPT !.op = "markClosed"] \in Request
    BY <2>1 DEF Request
  <2>3. RequestHolds(s)'
    BY <1>3, <2>1 DEF CheckOpenTabs, RequestHolds, Goes, TypeOK, HasRow, ReferencesHold
  <2> QED
    BY <1>3, <2>2, <2>3, Proceeds DEF CheckOpenTabs, TypeOK
<1>4. CASE MarkClosed(s)
  <2>1. req[s].night \in Dates
    BY <1>4, RequestType DEF MarkClosed
  <2>2. /\ closings' \in [Dates -> Closing]
        /\ \A n \in Dates : HasRow(n) => HasRow(n)'
        /\ \A n \in Dates : closings'[n].last = closings[n].last
    BY <1>4, <2>1, ClosingUpdated DEF MarkClosed
  <2>3. /\ orders' \in [Orders -> Order \cup {NoOrder}]
        /\ OrdersStay
        /\ Placed' \subseteq Placed
    <3>1. ASSUME NEW o \in Placed
          PROVE  /\ orders'[o] \in Order
                 /\ orders'[o].night = orders[o].night
                 /\ orders'[o].number = orders[o].number
      <4>1. o \in Orders /\ orders[o] \in Order
        BY PlacedType
      <4>2. orders'[o] = orders[o] \/ orders'[o] = [orders[o] EXCEPT !.status = "DELIVERED"]
        BY <1>4, <4>1 DEF MarkClosed
      <4>3. [orders[o] EXCEPT !.status = "DELIVERED"] \in Order
        BY <4>1, OrderUpdated DEF Statuses
      <4> QED
        BY <4>1, <4>2, <4>3 DEF Order
    <3>2. \A o \in Orders \ Placed : orders'[o] = NoOrder
      BY <1>4 DEF MarkClosed, Placed
    <3>3. orders' = [o \in Orders |-> orders'[o]]
      BY <1>4 DEF MarkClosed
    <3> QED
      BY <3>1, <3>2, <3>3, NoRowAssumption DEF Placed, OrdersStay
  <2>4. Received' = Received
    BY <1>4 DEF MarkClosed, Received
  <2>5. TypeOK'
    BY <1>4, <2>2, <2>3, AnswerHolds DEF MarkClosed, TypeOK
  <2>6. RowsStay /\ NumberingStays
    BY <1>4, <2>2, <2>3, <2>4 DEF MarkClosed, RowsStay, PaymentsStay, NumberingStays
  <2> QED
    BY <1>4, <2>3, <2>4, <2>5, <2>6, AnswerHolds, ReferencesStay DEF MarkClosed
<1>5. CASE BeginReopen(s)
  <2>1. PICK role \in Roles, d \in Dates : BeginReopen(s)!(role, d)
    BY <1>5 DEF BeginReopen
  <2>2. [op |-> "reopen", role |-> role, night |-> d] \in Request
    BY DEF Request
  <2>3. RequestHolds(s)'
    BY <2>1 DEF RequestHolds, Goes, TypeOK, HasRow
  <2> QED
    BY <2>1, <2>2, <2>3, AsksType, Proceeds
<1>6. CASE MarkReopened(s)
  <2>1. req[s].night \in Dates
    BY <1>6, RequestType DEF MarkReopened
  <2>2. /\ closings' \in [Dates -> Closing]
        /\ \A n \in Dates : HasRow(n) => HasRow(n)'
        /\ \A n \in Dates : closings'[n].last = closings[n].last
    BY <1>6, <2>1, ClosingUpdated DEF MarkReopened
  <2>3. Placed' = Placed /\ Received' = Received
    BY <1>6 DEF MarkReopened, Placed, Received
  <2>4. TypeOK'
    BY <1>6, <2>2, AnswerHolds DEF MarkReopened, TypeOK
  <2>5. RowsStay /\ NumberingStays
    BY <1>6, <2>2, <2>3 DEF MarkReopened, RowsStay, OrdersStay, PaymentsStay, NumberingStays
  <2> QED
    BY <1>6, <2>3, <2>4, <2>5, AnswerHolds, ReferencesStay DEF MarkReopened
<1> QED
  BY <1>1, <1>2, <1>3, <1>4, <1>5, <1>6 DEF ClosingNext

\* Launching: the number is taken in the transaction that inserts the order.
LEMMA CreateKeeps ==
  ASSUME IInv, NEW s \in Sessions, NEW o \in Orders \ Placed, CommitCreate(s)!(o)
  PROVE  /\ IInv' /\ RowsStay
         /\ Placed' = Placed \cup {o}
         /\ orders'[o].night = req[s].night
         /\ orders'[o].number = closings[req[s].night].last + 1
         /\ req[s].night \in Dates
         /\ \A d \in Dates : closings'[d].last =
              IF d = req[s].night THEN closings[d].last + 1 ELSE closings[d].last
<1> USE DEF IInv
<1> DEFINE night == req[s].night
           data  == req[s].data
           row   == [night |-> night, number |-> NextDayNumber(night),
                     type |-> data.type, method |-> data.method,
                     amount |-> data.amount, due |-> data.due, status |-> req[s].status,
                     canceled |-> FALSE, createdAt |-> now]
           event == [kind |-> "CREATED", after |-> SnapshotOf(data)]
<1>1. night \in Dates /\ data \in OrderInputs /\ req[s].status \in Statuses
  BY RequestType
<1>2. HasRow(night)
  BY DEF ReferencesHold, RequestHolds
<1>3. closings \in [Dates -> Closing] /\ closings[night] \in Closing
  BY <1>1 DEF TypeOK
<1>4. closings[night].last \in Nat
  BY <1>3 DEF Closing
<1>5. row \in Order
  <2>1. NextDayNumber(night) \in Nat \ {0}
    <3>1. \A n \in Nat : n + 1 \in Nat \ {0}
      OBVIOUS
    <3> QED
      BY <1>4, <3>1 DEF NextDayNumber
  <2>2. now \in Nat
    BY DEF TypeOK
  <2> HIDE DEF night, data
  <2> QED
    BY <1>1, <2>1, <2>2, InputType DEF Order
<1>6. event \in Event
  BY <1>1, InputType DEF Event
<1>7. /\ orders' = [orders EXCEPT ![o] = row]
      /\ closings' = [closings EXCEPT ![night].last = @ + 1]
      /\ Recorded(o, event) /\ Answers(s) /\ UNCHANGED <<now, payments>>
  OBVIOUS
<1>8. /\ closings' \in [Dates -> Closing]
      /\ \A d \in Dates : closings'[d].status = closings[d].status
      /\ \A d \in Dates : closings'[d].last =
           IF d = night THEN closings[d].last + 1 ELSE closings[d].last
  <2> DEFINE c == [closings[night] EXCEPT !.last = closings[night].last + 1]
  <2>1. closings[night].last + 1 \in Nat
    BY <1>4
  <2>2. closings' = [closings EXCEPT ![night] = c]
    BY <1>7
  <2>3. c \in Closing /\ c.status = closings[night].status /\ c.last = closings[night].last + 1
    <3> HIDE DEF night
    <3> QED
      BY <1>3, <2>1 DEF Closing
  <2> HIDE DEF night, c
  <2> QED
    BY <1>1, <1>3, <2>2, <2>3
<1> HIDE DEF row, event
<1>9. /\ orders' \in [Orders -> Order \cup {NoOrder}]
      /\ Placed' = Placed \cup {o}
      /\ orders'[o] = row
      /\ OrdersStay
  <2>1. orders \in [Orders -> Order \cup {NoOrder}] /\ row # NoOrder
    BY <1>5, NoRowAssumption DEF TypeOK
  <2>2. orders' = [orders EXCEPT ![o] = row]
    BY <1>7
  <2>3. /\ orders' \in [Orders -> Order \cup {NoOrder}]
        /\ orders'[o] = row
        /\ \A q \in Orders \ {o} : orders'[q] = orders[q]
    BY <1>5, <2>1, <2>2
  <2>4. Placed' = Placed \cup {o}
    BY <2>1, <2>3 DEF Placed
  <2> QED
    BY <2>3, <2>4 DEF Placed, OrdersStay
<1>10. TypeOK'
  BY <1>6, <1>7, <1>8, <1>9, AnswerHolds, RecordedType DEF TypeOK
<1>11. Received' = Received
  BY <1>7 DEF Received
<1>12. RowsStay
  BY <1>7, <1>8, <1>9, <1>11 DEF RowsStay, PaymentsStay, HasRow
<1>13. HasRow(night) => closings'[night].status # "ABSENT"
  BY <1>1, <1>8 DEF HasRow
<1>14. orders'[o].night = night /\ orders'[o].number = closings[night].last + 1
  BY <1>9 DEF row, NextDayNumber
<1>15. \A q \in Placed' \ Placed : HasRow(orders[q].night)'
  BY <1>2, <1>9, <1>13, <1>14 DEF HasRow
<1>16. ReferencesHold'
  BY <1>7, <1>10, <1>11, <1>12, <1>15, AnswerHolds, ReferencesStay
<1> QED
  BY <1>1, <1>8, <1>9, <1>10, <1>12, <1>14, <1>16

\* Each step of an order's handler but the launch keeps rows and numbers.
LEMMA OrderKeeps ==
  ASSUME IInv, NEW s \in Sessions, OrderNext(s), ~CommitCreate(s)
  PROVE  IInv' /\ RowsStay /\ NumberingStays
<1> USE DEF IInv
<1>1. CASE BeginCreate(s)
  <2>1. PICK role \in Roles, raw \in Dates \cup {None}, data \in OrderInputs :
          BeginCreate(s)!(role, raw, data)
    BY <1>1 DEF BeginCreate
  <2> DEFINE d == SelectedDate(raw)
             status == InitialStatus(IsLiveNight(d, now))
             r == [op |-> "create", role |-> role, night |-> d, data |-> data,
                   status |-> status]
  <2>2. d \in Dates /\ closings' = GotOrCreated(d) /\ Goes(s, r) /\ asked' \in Nat
    BY <2>1, AsksType
  <2>3. status \in Statuses
    BY DEF InitialStatus, Statuses
  <2> HIDE DEF d, status
  <2>4. r \in Request
    BY <2>2, <2>3 DEF Request
  <2>5. RequestHolds(s)'
    BY <2>2, GotOrCreatedRow DEF RequestHolds, Goes, TypeOK
  <2> QED
    BY <2>1, <2>2, <2>4, <2>5, Proceeds
<1>3. CASE BeginReplace(s)
  <2>1. PICK role \in Roles, o \in Placed, data \in OrderInputs :
          BeginReplace(s)!(role, o, data)
    BY <1>3 DEF BeginReplace
  <2> DEFINE status == StatusForType(data.type, orders[o].status)
             auth   == IsSensitiveEdit(orders[o], data)
                       /\ ManagerAuthorized(role, orders[o].createdAt,
                                            orders[o].status, now)
             before == SnapshotOf(orders[o])
             r == [op |-> "replace", role |-> role, order |-> o, data |-> data,
                   status |-> status, auth |-> auth, before |-> before]
  <2>2. /\ Goes(s, r) /\ asked' \in Nat
        /\ UNCHANGED <<now, closings, orders, trail, payments>>
    BY <2>1, AsksType
  <2>3. status \in Statuses /\ auth \in BOOLEAN /\ before \in Snapshot /\ o \in Orders
    BY PlacedType, InputType, StatusForTypeType DEF Order
  <2> HIDE DEF status, auth, before
  <2>4. r \in Request
    BY <2>3 DEF Request
  <2>5. RequestHolds(s)'
    BY <2>2 DEF RequestHolds, Goes, TypeOK, Placed
  <2> QED
    BY <2>2, <2>4, <2>5, Proceeds
<1>4. CASE CommitReplace(s)
  <2> DEFINE r == req[s]
             row == [orders[r.order] EXCEPT !.type = r.data.type,
                       !.method = r.data.method, !.amount = r.data.amount,
                       !.due = r.data.due, !.status = r.status]
             event == [kind |-> "EDITED", auth |-> r.auth, before |-> r.before,
                       after |-> SnapshotOf(r.data)]
  <2>1. /\ r.data \in OrderInputs /\ r.status \in Statuses
        /\ r.auth \in BOOLEAN /\ r.before \in Snapshot
        /\ r.order \in Placed
    BY <1>4, RequestType DEF CommitReplace, ReferencesHold, RequestHolds
  <2>2. orders[r.order] \in Order
    BY <2>1, PlacedType
  <2>3. event \in Event
    BY <2>1, InputType DEF Event
  <2>4. row \in Order
    BY <2>1, <2>2, OrderUpdated
  <2>5. row.night = orders[r.order].night /\ row.number = orders[r.order].number
    BY <2>2 DEF Order
  <2>6. /\ orders' = [orders EXCEPT ![r.order] = row]
        /\ Recorded(r.order, event) /\ Answers(s) /\ UNCHANGED <<now, closings, payments>>
    BY <1>4 DEF CommitReplace
  <2> HIDE DEF row, event, r
  <2> QED
    BY <2>1, <2>3, <2>4, <2>5, <2>6, OrderCommitted
<1>5. CASE BeginStep(s)
  <2>1. PICK role \in Roles, o \in Placed, direction \in {-1, 1} :
          BeginStep(s)!(role, o, direction)
    BY <1>5 DEF BeginStep
  <2> DEFINE from == orders[o].status
             to == StepStatus(orders[o].type, from, direction)
             r == [op |-> "step", role |-> role, order |-> o, from |-> from, to |-> to]
  <2>2. /\ Goes(s, r) /\ asked' \in Nat
        /\ UNCHANGED <<now, closings, orders, trail, payments>>
        /\ to # None
    BY <2>1, AsksType
  <2>3. from \in Statuses /\ orders[o].type \in Types /\ o \in Orders
    BY <2>1, PlacedType DEF Order
  <2>4. to \in Statuses
    BY <2>2, <2>3, StepStatusType
  <2> HIDE DEF from, to
  <2>5. r \in Request
    BY <2>3, <2>4 DEF Request
  <2>6. RequestHolds(s)'
    BY <2>2 DEF RequestHolds, Goes, TypeOK, Placed
  <2> QED
    BY <2>2, <2>5, <2>6, Proceeds
<1>6. CASE CommitStep(s)
  <2> DEFINE o == req[s].order
             row == [orders[o] EXCEPT !.status = req[s].to]
             event == [kind |-> "STATUS", from |-> req[s].from, to |-> req[s].to]
  <2>1. o \in Placed /\ req[s].from \in Statuses /\ req[s].to \in Statuses
    BY <1>6, RequestType DEF CommitStep, ReferencesHold, RequestHolds
  <2>2. orders[o] \in Order
    BY <2>1, PlacedType
  <2>3. event \in Event
    BY <2>1 DEF Event
  <2>4. row \in Order /\ row.night = orders[o].night /\ row.number = orders[o].number
    BY <2>1, <2>2, OrderUpdated DEF Order
  <2>5. /\ orders' = [orders EXCEPT ![o] = row]
        /\ Recorded(o, event) /\ Answers(s) /\ UNCHANGED <<now, closings, payments>>
    BY <1>6 DEF CommitStep
  <2> HIDE DEF row, event, o
  <2> QED
    BY <2>1, <2>3, <2>4, <2>5, OrderCommitted
<1>7. CASE StaleStep(s)
  BY <1>7, AnswersOnly DEF StaleStep
<1>8. CASE BeginCancel(s)
  <2>1. PICK role \in Roles, o \in Placed : BeginCancel(s)!(role, o)
    BY <1>8 DEF BeginCancel
  <2> DEFINE auth == ManagerAuthorized(role, orders[o].createdAt, orders[o].status, now)
             r == [op |-> "cancel", role |-> role, order |-> o, auth |-> auth]
  <2>2. /\ Goes(s, r) /\ asked' \in Nat
        /\ UNCHANGED <<now, closings, orders, trail, payments>>
    BY <2>1, AsksType
  <2>3. auth \in BOOLEAN /\ o \in Orders
    BY PlacedType DEF ManagerAuthorized
  <2> HIDE DEF auth
  <2>4. r \in Request
    BY <2>3 DEF Request
  <2>5. RequestHolds(s)'
    BY <2>2 DEF RequestHolds, Goes, TypeOK, Placed
  <2> QED
    BY <2>2, <2>4, <2>5, Proceeds
<1>9. CASE CommitCancel(s)
  <2> DEFINE o == req[s].order
             row == [orders[o] EXCEPT !.canceled = TRUE]
             event == [kind |-> "CANCELED", auth |-> req[s].auth]
  <2>1. o \in Placed /\ req[s].auth \in BOOLEAN
    BY <1>9, RequestType DEF CommitCancel, ReferencesHold, RequestHolds
  <2>2. orders[o] \in Order
    BY <2>1, PlacedType
  <2>3. event \in Event
    BY <2>1 DEF Event
  <2>4. row \in Order /\ row.night = orders[o].night /\ row.number = orders[o].number
    BY <2>2, OrderUpdated DEF Order
  <2>5. /\ orders' = [orders EXCEPT ![o] = row]
        /\ Recorded(o, event) /\ Answers(s) /\ UNCHANGED <<now, closings, payments>>
    BY <1>9 DEF CommitCancel
  <2> HIDE DEF row, event, o
  <2> QED
    BY <2>1, <2>3, <2>4, <2>5, OrderCommitted
<1>10. CASE BeginRestore(s)
  <2>1. PICK o \in Placed : BeginRestore(s)!(o)
    BY <1>10 DEF BeginRestore
  <2>2. [op |-> "restore", role |-> "ADMIN", order |-> o] \in Request
    BY PlacedType DEF Request, Roles
  <2>3. RequestHolds(s)'
    BY <2>1 DEF RequestHolds, Goes, TypeOK, Placed
  <2> QED
    BY <2>1, <2>2, <2>3, AsksType, Proceeds
<1>11. CASE CommitRestore(s)
  <2> DEFINE o == req[s].order
             row == [orders[o] EXCEPT !.canceled = FALSE]
             event == [kind |-> "RESTORED"]
  <2>1. o \in Placed
    BY <1>11, RequestType DEF CommitRestore, ReferencesHold, RequestHolds
  <2>2. orders[o] \in Order
    BY <2>1, PlacedType
  <2>3. event \in Event
    BY DEF Event
  <2>4. row \in Order /\ row.night = orders[o].night /\ row.number = orders[o].number
    BY <2>2, OrderUpdated DEF Order
  <2>5. /\ orders' = [orders EXCEPT ![o] = row]
        /\ Recorded(o, event) /\ Answers(s) /\ UNCHANGED <<now, closings, payments>>
    BY <1>11 DEF CommitRestore
  <2> HIDE DEF row, event, o
  <2> QED
    BY <2>1, <2>3, <2>4, <2>5, OrderCommitted
<1> QED
  BY <1>1, <1>3, <1>4, <1>5, <1>6, <1>7, <1>8, <1>9, <1>10, <1>11 DEF OrderNext

\* A payment that is there.
LEMMA PaymentType ==
  ASSUME TypeOK, NEW p \in Received
  PROVE  /\ p \in Payments
         /\ payments[p] \in Payment
BY DEF TypeOK, Received

\* A transaction writes one payment, leaving a received one's order and night.
LEMMA PaymentCommitted ==
  ASSUME IInv, NEW s \in Sessions, NEW p \in Payments, NEW r \in Payment,
         p \in Received => r.order = payments[p].order /\ r.night = payments[p].night,
         r.order \in Placed, HasRow(r.night),
         payments' = [payments EXCEPT ![p] = r],
         NEW e \in Event, Recorded(r.order, e), Answers(s),
         UNCHANGED <<now, closings, orders>>
  PROVE  IInv' /\ RowsStay /\ NumberingStays
<1> USE DEF IInv
<1>1. /\ payments' \in [Payments -> Payment \cup {NoPayment}]
      /\ payments'[p] = r
      /\ \A q \in Payments \ {p} : payments'[q] = payments[q]
  BY DEF TypeOK
<1>2. r # NoPayment
  BY NoRowAssumption
<1>3. Received' = Received \cup {p}
  BY <1>1, <1>2 DEF Received
<1>4. PaymentsStay
  BY <1>1, <1>3 DEF Received, PaymentsStay
<1>5. Placed' = Placed
  BY DEF Placed
<1>6. RowsStay /\ NumberingStays
  BY <1>4, <1>5 DEF RowsStay, OrdersStay, NumberingStays, HasRow
<1>7. TypeOK'
  BY <1>1, AnswerHolds, RecordedType, PlacedType DEF TypeOK
<1>8. \A q \in Received' \ Received : (payments[q].order \in Placed /\ HasRow(payments[q].night))'
  BY <1>1, <1>3, <1>5 DEF HasRow
<1> QED
  BY <1>5, <1>6, <1>7, <1>8, AnswerHolds, ReferencesStay

\* So does each step of a receipt, a refund and a rescheduling.
LEMMA FiadoKeeps ==
  ASSUME IInv, NEW s \in Sessions, FiadoNext(s)
  PROVE  IInv' /\ RowsStay /\ NumberingStays
<1> USE DEF IInv
<1>1. CASE BeginReceive(s)
  <2>1. PICK role \in Roles, o \in Placed : BeginReceive(s)!(role, o)
    BY <1>1 DEF BeginReceive
  <2>2. PICK amount \in 1 .. orders[o].amount :
          Goes(s, [op |-> "receive", role |-> role, order |-> o, amount |-> amount])
    BY <2>1
  <2>3. orders[o].amount \in Nat /\ o \in Orders
    BY PlacedType, OrderAssumption DEF Order
  <2>4. amount \in Nat \ {0}
    BY <2>3
  <2>5. [op |-> "receive", role |-> role, order |-> o, amount |-> amount] \in Request
    BY <2>3, <2>4 DEF Request
  <2>6. RequestHolds(s)'
    BY <2>1, <2>2 DEF RequestHolds, Goes, TypeOK, Placed
  <2> QED
    BY <2>1, <2>2, <2>5, <2>6, AsksType, Proceeds
<1>2. CASE ResolveReceiveNight(s)
  <2>1. PICK raw \in Dates \cup {None} : ResolveReceiveNight(s)!(raw)
    BY <1>2 DEF ResolveReceiveNight
  <2> DEFINE d == SelectedDate(raw)
             r == [op |-> "createPayment", role |-> req[s].role, order |-> req[s].order,
                   amount |-> req[s].amount, night |-> d]
  <2>2. /\ req[s].op = "receive" /\ d \in Dates /\ closings' = GotOrCreated(d) /\ Goes(s, r)
        /\ UNCHANGED <<now, orders, trail, payments, asked>>
    BY <2>1
  <2> HIDE DEF d
  <2>3. /\ req[s].role \in Roles /\ req[s].order \in Orders /\ req[s].amount \in Nat \ {0}
        /\ req[s].order \in Placed
    BY <2>2, RequestType DEF ReferencesHold, RequestHolds
  <2>4. r \in Request
    BY <2>2, <2>3 DEF Request
  <2>5. RequestHolds(s)'
    BY <2>2, <2>3, GotOrCreatedRow DEF RequestHolds, Goes, TypeOK, Placed
  <2>6. asked' \in Nat
    BY <2>2 DEF TypeOK
  <2> HIDE DEF r
  <2> QED
    BY <2>2, <2>4, <2>5, <2>6, Proceeds
<1>3. CASE CommitReceive(s)
  <2>1. PICK p \in Payments \ Received : CommitReceive(s)!(p)
    BY <1>3 DEF CommitReceive
  <2> DEFINE r == [order |-> req[s].order, amount |-> req[s].amount,
                   night |-> req[s].night, createdAt |-> now, canceled |-> FALSE]
             event == [kind |-> "FIADO_PAYMENT"]
  <2>2. /\ req[s].order \in Orders /\ req[s].amount \in Nat \ {0} /\ req[s].night \in Dates
        /\ req[s].order \in Placed /\ HasRow(req[s].night)
    BY <2>1, RequestType DEF ReferencesHold, RequestHolds
  <2>3. now \in Nat
    BY DEF TypeOK
  <2>4. r \in Payment
    BY <2>2, <2>3 DEF Payment
  <2>5. event \in Event
    BY DEF Event
  <2>6. /\ payments' = [payments EXCEPT ![p] = r] /\ Recorded(r.order, event) /\ Answers(s)
        /\ UNCHANGED <<now, closings, orders>>
    BY <2>1
  <2>7. r.order \in Placed /\ HasRow(r.night)
    BY <2>2
  <2> HIDE DEF r, event
  <2> QED
    BY <2>1, <2>4, <2>5, <2>6, <2>7, PaymentCommitted
<1>4. CASE BeginRefund(s)
  <2>1. PICK role \in Roles, p \in Received : BeginRefund(s)!(role, p)
    BY <1>4 DEF BeginRefund
  <2> DEFINE auth == ManagerAuthorized(role, payments[p].createdAt, "PREPARING", now)
             r == [op |-> "refund", role |-> role, payment |-> p, auth |-> auth]
  <2>2. /\ Goes(s, r) /\ asked' \in Nat
        /\ UNCHANGED <<now, closings, orders, trail, payments>>
    BY <2>1, AsksType
  <2>3. auth \in BOOLEAN /\ p \in Payments
    BY PaymentType DEF ManagerAuthorized
  <2> HIDE DEF auth
  <2>4. r \in Request
    BY <2>3 DEF Request
  <2>5. RequestHolds(s)'
    BY <2>2 DEF RequestHolds, Goes, TypeOK, Received
  <2> QED
    BY <2>2, <2>4, <2>5, Proceeds
<1>5. CASE CommitRefund(s)
  <2> DEFINE p == req[s].payment
             r == [payments[p] EXCEPT !.canceled = TRUE]
             event == [kind |-> "FIADO_PAYMENT_CANCELED", auth |-> req[s].auth]
  <2>1. p \in Received /\ req[s].auth \in BOOLEAN
    BY <1>5, RequestType DEF CommitRefund, ReferencesHold, RequestHolds
  <2>2. payments[p] \in Payment /\ p \in Payments
    BY <2>1, PaymentType
  <2>3. event \in Event
    BY <2>1 DEF Event
  <2>4. r \in Payment /\ r.order = payments[p].order /\ r.night = payments[p].night
    BY <2>2 DEF Payment
  <2>5. r.order \in Placed /\ HasRow(r.night)
    BY <2>1, <2>4 DEF ReferencesHold
  <2>6. /\ payments' = [payments EXCEPT ![p] = r] /\ Recorded(payments[p].order, event)
        /\ Answers(s) /\ UNCHANGED <<now, closings, orders>>
    BY <1>5 DEF CommitRefund
  <2>7. Recorded(r.order, event)
    BY <2>4, <2>6
  <2> HIDE DEF r, event, p
  <2> QED
    BY <2>2, <2>3, <2>4, <2>5, <2>6, <2>7, PaymentCommitted
<1>6. CASE StaleRefund(s)
  BY <1>6, AnswersOnly DEF StaleRefund
<1>7. CASE BeginReschedule(s)
  <2>1. PICK role \in Roles, o \in Placed, due \in DueDates \cup {None} :
          BeginReschedule(s)!(role, o, due)
    BY <1>7 DEF BeginReschedule
  <2> DEFINE from == orders[o].due
             r == [op |-> "reschedule", role |-> role, order |-> o, from |-> from, to |-> due]
  <2>2. /\ Goes(s, r) /\ asked' \in Nat
        /\ UNCHANGED <<now, closings, orders, trail, payments>>
    BY <2>1, AsksType
  <2>3. from \in DueDates \cup {None} /\ o \in Orders
    BY PlacedType DEF Order
  <2> HIDE DEF from
  <2>4. r \in Request
    BY <2>3 DEF Request
  <2>5. RequestHolds(s)'
    BY <2>2 DEF RequestHolds, Goes, TypeOK, Placed
  <2> QED
    BY <2>2, <2>4, <2>5, Proceeds
<1>8. CASE CommitReschedule(s)
  <2> DEFINE o == req[s].order
             row == [orders[o] EXCEPT !.due = req[s].to]
             event == [kind |-> "FIADO_DUE_DATE", from |-> req[s].from, to |-> req[s].to]
  <2>1. /\ o \in Placed
        /\ req[s].from \in DueDates \cup {None} /\ req[s].to \in DueDates \cup {None}
    BY <1>8, RequestType DEF CommitReschedule, ReferencesHold, RequestHolds
  <2>2. orders[o] \in Order
    BY <2>1, PlacedType
  <2>3. event \in Event
    BY <2>1 DEF Event
  <2>4. row \in Order /\ row.night = orders[o].night /\ row.number = orders[o].number
    BY <2>1, <2>2, OrderUpdated DEF Order
  <2>5. /\ orders' = [orders EXCEPT ![o] = row]
        /\ Recorded(o, event) /\ Answers(s) /\ UNCHANGED <<now, closings, payments>>
    BY <1>8 DEF CommitReschedule
  <2> HIDE DEF row, event, o
  <2> QED
    BY <2>1, <2>3, <2>4, <2>5, OrderCommitted
<1> QED
  BY <1>1, <1>2, <1>3, <1>4, <1>5, <1>6, <1>7, <1>8 DEF FiadoNext

\* So does the clock.
LEMMA TickKeeps ==
  ASSUME IInv, now' \in Nat, UNCHANGED <<closings, orders, trail, payments, req, asked>>
  PROVE  IInv' /\ RowsStay /\ NumberingStays
BY DEF IInv, TypeOK, ReferencesHold, RequestHolds, HasRow, Placed, Received,
       RowsStay, OrdersStay, PaymentsStay, NumberingStays

(***************************************************************************)
(* Types and references hold in every reachable state.                     *)
(***************************************************************************)
LEMMA InitHolds == Init => IInv /\ NumbersExact
<1> SUFFICES ASSUME Init PROVE IInv /\ NumbersExact
  OBVIOUS
<1>1. PICK amount \in Amounts :
        orders = [o \in Orders |->
                   IF \E i \in DOMAIN Imported : Imported[i] = o
                   THEN ImportedOrder(CHOOSE i \in DOMAIN Imported : Imported[i] = o, amount)
                   ELSE NoOrder]
  BY DEF Init
<1>2. /\ Len(Imported) \in Nat /\ DOMAIN Imported = 1 .. Len(Imported)
      /\ \A i \in DOMAIN Imported : Imported[i] \in Orders
  BY ImportedAssumption
<1>3. \A i \in DOMAIN Imported : ImportedOrder(i, amount) \in Order
  BY <1>2, DeskAssumption, ImportedAssumption DEF ImportedOrder, Order, Statuses
<1>4. \A i \in DOMAIN Imported : orders[Imported[i]] = ImportedOrder(i, amount)
  <2> SUFFICES ASSUME NEW i \in DOMAIN Imported
               PROVE  orders[Imported[i]] = ImportedOrder(i, amount)
    OBVIOUS
  <2>1. (CHOOSE j \in DOMAIN Imported : Imported[j] = Imported[i]) = i
    BY ImportedAssumption
  <2> QED
    BY <1>1, <1>2, <2>1
<1>5. \A o \in Orders : \/ orders[o] = NoOrder
                        \/ \E i \in DOMAIN Imported : Imported[i] = o
  BY <1>1
<1>6. \A o \in Placed : \E i \in DOMAIN Imported :
         o = Imported[i] /\ orders[o].night = ImportedNight /\ orders[o].number = i
  <2>1. \A i : /\ ImportedOrder(i, amount).night = ImportedNight
               /\ ImportedOrder(i, amount).number = i
    BY DEF ImportedOrder
  <2> QED
    BY <1>4, <1>5, <2>1 DEF Placed
<1>7. \A i \in DOMAIN Imported : Imported[i] \in Placed
  BY <1>2, <1>3, <1>4, NoRowAssumption DEF Placed
<1>8. /\ closings \in [Dates -> Closing]
      /\ closings[ImportedNight] = [status |-> "CLOSED", last |-> Len(Imported)]
      /\ \A d \in Dates \ {ImportedNight} : closings[d].last = 0
  BY <1>2, ImportedAssumption DEF Init, Closing
<1>9. orders \in [Orders -> Order \cup {NoOrder}]
  BY <1>1, <1>3, <1>4, <1>5
<1>10. TypeOK
  BY <1>8, <1>9, DeskAssumption DEF Init, TypeOK, Request
<1>11. ReferencesHold
  <2>1. \A o \in Placed : HasRow(orders[o].night)
    BY <1>6, <1>8, ImportedAssumption DEF HasRow
  <2>2. Received = {}
    BY DEF Init, Received
  <2>3. \A s \in Sessions : RequestHolds(s)
    BY DEF Init, RequestHolds, Idle
  <2> QED
    BY <2>1, <2>2, <2>3 DEF ReferencesHold
<1>12. NumbersExact
  <2> SUFFICES ASSUME NEW d \in Dates
      PROVE  /\ \A o \in OrdersOf(d) : orders[o].number \in 1 .. closings[d].last
             /\ \A o, p \in OrdersOf(d) : orders[o].number = orders[p].number => o = p
             /\ \A n \in 1 .. closings[d].last : \E o \in OrdersOf(d) : orders[o].number = n
    BY DEF NumbersExact
  <2>1. \A o \in OrdersOf(d) : \E i \in DOMAIN Imported :
          o = Imported[i] /\ orders[o].number = i /\ d = ImportedNight
    BY <1>6 DEF OrdersOf
  <2>2. CASE d = ImportedNight
    <3>1. \A i \in 1 .. Len(Imported) :
             Imported[i] \in OrdersOf(d) /\ orders[Imported[i]].number = i
      <4>1. \A i \in 1 .. Len(Imported) : Imported[i] \in Placed
        BY <1>2, <1>7
      <4>2. \A i, j \in DOMAIN Imported : Imported[i] = Imported[j] => i = j
        BY ImportedAssumption
      <4> QED
        BY <1>2, <1>6, <2>2, <4>1, <4>2 DEF OrdersOf
    <3> QED
      <4>1. closings[d].last = Len(Imported)
        BY <1>8, <2>2
      <4> QED
        BY <1>2, <2>1, <3>1, <4>1
  <2>3. CASE d # ImportedNight
    <3>1. OrdersOf(d) = {}
      BY <2>1, <2>3
    <3>2. closings[d].last = 0 /\ 1 .. 0 = {}
      BY <1>8, <2>3
    <3> QED
      BY <3>1, <3>2
  <2> QED
    BY <2>2, <2>3
<1> QED
  BY <1>10, <1>11, <1>12 DEF IInv

\* Every step keeps the invariant, and all but a launch keep the numbering.
LEMMA StepKeeps ==
  ASSUME IInv, [Next]_vars
  PROVE  /\ IInv' /\ RowsStay
         /\ NumberingStays \/ \E s \in Sessions : CommitCreate(s)
<1>1. CASE Tick
  BY <1>1, TickKeeps DEF Tick, IInv, TypeOK
<1>2. ASSUME NEW s \in Sessions, ClosingNext(s) \/ OrderNext(s) \/ FiadoNext(s) \/ Abandon(s)
      PROVE  /\ IInv' /\ RowsStay
             /\ NumberingStays \/ CommitCreate(s)
  <2>1. CASE ClosingNext(s)
    BY <2>1, ClosingKeeps
  <2>2. CASE CommitCreate(s)
    BY <2>2, CreateKeeps DEF CommitCreate
  <2>3. CASE OrderNext(s) /\ ~CommitCreate(s)
    BY <2>3, OrderKeeps
  <2>4. CASE FiadoNext(s)
    BY <2>4, FiadoKeeps
  <2>5. CASE Abandon(s)
    BY <2>5, AnswersOnly DEF Abandon
  <2> QED
    BY <1>2, <2>1, <2>2, <2>3, <2>4, <2>5
<1>3. CASE UNCHANGED vars
  BY <1>3, TickKeeps DEF vars, IInv, TypeOK
<1> QED
  BY <1>1, <1>2, <1>3 DEF Next

(***************************************************************************)
(* Every table and every request in flight keeps its type, and every       *)
(* reference leads to a row, for any number of sessions and orders.        *)
(***************************************************************************)
THEOREM Inductive == Spec => []IInv
<1>1. Init => IInv
  BY InitHolds
<1>2. IInv /\ [Next]_vars => IInv'
  BY StepKeeps
<1> QED
  BY <1>1, <1>2, PTL DEF Spec

\* The types of the tables and of the requests (TypeOK) are invariant.
THEOREM TypeCorrect == Spec => []TypeOK
<1>1. IInv => TypeOK
  BY DEF IInv
<1> QED
  BY <1>1, Inductive, PTL

\* No order, payment or request ever refers to a row that is not there.
THEOREM ReferencesAlwaysHold == Spec => []ReferencesHold
<1>1. IInv => ReferencesHold
  BY DEF IInv
<1> QED
  BY <1>1, Inductive, PTL

(***************************************************************************)
(* Rows are for good: no order and no payment is ever deleted, and an      *)
(* order never moves to another night nor changes its number.              *)
(***************************************************************************)
THEOREM RowsAreForGood == Spec => [][RowsStay]_vars
<1>1. IInv /\ [Next]_vars => [RowsStay]_vars
  BY StepKeeps
<1> QED
  BY <1>1, Inductive, PTL DEF Spec

(***************************************************************************)
(* The numbering. Only a launch touches it: it raises the counter of its   *)
(* night and gives the new value to its own order.                         *)
(***************************************************************************)
LEMMA NumberingStaysExact ==
  ASSUME IInv, NumbersExact, OrdersStay, NumberingStays, IInv'
  PROVE  NumbersExact'
<1>1. Placed' = Placed
  BY DEF NumberingStays, OrdersStay
<1>2. \A d \in Dates : OrdersOf(d)' = OrdersOf(d)
  BY <1>1 DEF OrdersOf, OrdersStay
<1>3. \A o \in Placed : orders'[o].number = orders[o].number
  BY DEF OrdersStay
<1>4. \A d \in Dates : closings'[d].last = closings[d].last
  BY DEF NumberingStays
<1> QED
  BY <1>2, <1>3, <1>4 DEF NumbersExact, OrdersOf

\* A launch takes the number after the night's last one.
LEMMA CreateNumbersExact ==
  ASSUME IInv, NumbersExact, NEW s \in Sessions, NEW o \in Orders \ Placed,
         CommitCreate(s)!(o)
  PROVE  NumbersExact'
<1> DEFINE night == req[s].night
<1>1. /\ OrdersStay
      /\ Placed' = Placed \cup {o}
      /\ orders'[o].night = night
      /\ orders'[o].number = closings[night].last + 1
      /\ night \in Dates
      /\ \A d \in Dates : closings'[d].last =
           IF d = night THEN closings[d].last + 1 ELSE closings[d].last
  BY CreateKeeps DEF RowsStay
<1> HIDE DEF night
<1>2. \A d \in Dates : closings[d].last \in Nat
  BY DEF IInv, TypeOK, Closing
<1>3. \A d \in Dates : OrdersOf(d)' = IF d = night THEN OrdersOf(d) \cup {o} ELSE OrdersOf(d)
  BY <1>1 DEF OrdersOf, OrdersStay
<1>4. \A d \in Dates : \A p \in OrdersOf(d) :
         orders'[p].number = orders[p].number /\ orders[p].number \in 1 .. closings[d].last
  BY <1>1 DEF OrdersOf, OrdersStay, NumbersExact
<1> SUFFICES ASSUME NEW d \in Dates
    PROVE  /\ \A p \in OrdersOf(d)' : orders'[p].number \in 1 .. closings'[d].last
           /\ \A p, q \in OrdersOf(d)' : orders'[p].number = orders'[q].number => p = q
           /\ \A n \in 1 .. closings'[d].last :
                 \E p \in OrdersOf(d)' : orders'[p].number = n
  BY DEF NumbersExact
<1>5. /\ \A p, q \in OrdersOf(d) : orders[p].number = orders[q].number => p = q
      /\ \A n \in 1 .. closings[d].last : \E p \in OrdersOf(d) : orders[p].number = n
  BY DEF NumbersExact
<1>6. CASE d # night
  BY <1>1, <1>3, <1>4, <1>5, <1>6
<1>7. CASE d = night
  <2> DEFINE last == closings[d].last
  <2>1. /\ OrdersOf(d)' = OrdersOf(d) \cup {o}
        /\ closings'[d].last = last + 1
        /\ orders'[o].number = last + 1
        /\ last \in Nat
    BY <1>1, <1>2, <1>3, <1>7
  <2>2. \A p \in OrdersOf(d) : orders'[p].number = orders[p].number
                               /\ orders[p].number \in 1 .. last
    BY <1>4
  <2>3. /\ \A p, q \in OrdersOf(d) : orders[p].number = orders[q].number => p = q
        /\ \A n \in 1 .. last : \E p \in OrdersOf(d) : orders[p].number = n
    BY <1>5
  <2> HIDE DEF last
  <2>4. \A n \in 1 .. last + 1 : n \in 1 .. last \/ n = last + 1
    BY <2>1
  <2>5. \A p \in OrdersOf(d)' : orders'[p].number \in 1 .. closings'[d].last
    BY <2>1, <2>2
  <2>6. \A p, q \in OrdersOf(d)' : orders'[p].number = orders'[q].number => p = q
    BY <2>1, <2>2, <2>3
  <2>7. \A n \in 1 .. closings'[d].last : \E p \in OrdersOf(d)' : orders'[p].number = n
    BY <2>1, <2>2, <2>3, <2>4
  <2> QED
    BY <2>5, <2>6, <2>7
<1> QED
  BY <1>6, <1>7

(***************************************************************************)
(* However many cashiers launch at the same time, the orders of a night    *)
(* bear the numbers from 1 to its counter, each exactly once.              *)
(***************************************************************************)
THEOREM NumbersAreExact == Spec => []NumbersExact
<1>1. Init => NumbersExact
  BY InitHolds
<1>2. IInv /\ IInv' /\ NumbersExact /\ [Next]_vars => NumbersExact'
  <2> SUFFICES ASSUME IInv, IInv', NumbersExact, [Next]_vars
               PROVE  NumbersExact'
    OBVIOUS
  <2>1. RowsStay /\ (NumberingStays \/ \E s \in Sessions : CommitCreate(s))
    BY StepKeeps
  <2>2. CASE NumberingStays
    BY <2>1, <2>2, NumberingStaysExact DEF RowsStay
  <2>3. CASE \E s \in Sessions : CommitCreate(s)
    BY <2>3, CreateNumbersExact DEF CommitCreate
  <2> QED
    BY <2>1, <2>2, <2>3
<1> QED
  BY <1>1, <1>2, Inductive, PTL DEF Spec

(***************************************************************************)
(* The trail. A step writes nothing, closes a night, or changes one order  *)
(* or payment and adds one event to that order; only an order still where  *)
(* the click saw it gets a STATUS event.                                   *)
(***************************************************************************)
WritesNothing == UNCHANGED <<orders, trail, payments>>

WritesWith(o, e) ==
    /\ Recorded(o, e)
    /\ \A q \in Orders \ {o} : orders'[q] = orders[q]
    /\ \A p \in Payments : payments'[p] # payments[p] => payments'[p].order = o
    /\ e.kind = "STATUS" => /\ orders[o].status = e.from /\ ~orders[o].canceled
                            /\ orders'[o].status = e.to
    /\ \/ UNCHANGED payments /\ e.kind \notin {"FIADO_PAYMENT", "FIADO_PAYMENT_CANCELED"}
       \/ \E s \in Sessions : CommitReceive(s) \/ CommitRefund(s)

\* A step writes nothing, closes a night, or writes one order and one event of it.
LEMMA OneOrderOneEvent ==
  ASSUME IInv, [Next]_vars
  PROVE  \/ WritesNothing
         \/ \E s \in Sessions : MarkClosed(s)
         \/ \E o \in Orders, e \in Event : WritesWith(o, e)
<1> USE DEF IInv
<1>1. ASSUME NEW s \in Sessions, OrderNext(s)
      PROVE  WritesNothing \/ \E o \in Orders, e \in Event : WritesWith(o, e)
  <2>1. CASE CommitCreate(s)
    <3>1. PICK o \in Orders \ Placed : CommitCreate(s)!(o)
      BY <2>1 DEF CommitCreate
    <3> DEFINE e == [kind |-> "CREATED", after |-> SnapshotOf(req[s].data)]
    <3>2. e \in Event
      BY <3>1, RequestType, InputType DEF Event
    <3>3. WritesWith(o, e)
      BY <3>1 DEF WritesWith, TypeOK
    <3> QED
      BY <3>2, <3>3
  <2>2. CASE CommitReplace(s)
    <3> DEFINE e == [kind |-> "EDITED", auth |-> req[s].auth, before |-> req[s].before,
                     after |-> SnapshotOf(req[s].data)]
    <3>1. /\ req[s].order \in Orders /\ req[s].data \in OrderInputs
          /\ req[s].auth \in BOOLEAN /\ req[s].before \in Snapshot
      BY <2>2, RequestType DEF CommitReplace
    <3>2. e \in Event
      BY <3>1, InputType DEF Event
    <3>3. WritesWith(req[s].order, e)
      BY <2>2 DEF CommitReplace, WritesWith, TypeOK
    <3> QED
      BY <3>1, <3>2, <3>3
  <2>3. CASE CommitStep(s)
    <3> DEFINE o == req[s].order
               e == [kind |-> "STATUS", from |-> req[s].from, to |-> req[s].to]
    <3>1. o \in Placed /\ req[s].from \in Statuses /\ req[s].to \in Statuses
      BY <2>3, RequestType DEF CommitStep, ReferencesHold, RequestHolds
    <3>2. e \in Event
      BY <3>1 DEF Event
    <3>3. orders'[o].status = req[s].to
      BY <2>3, <3>1, PlacedType DEF CommitStep, TypeOK, Order
    <3>4. WritesWith(o, e)
      BY <2>3, <3>3 DEF CommitStep, StepMatches, WritesWith, TypeOK
    <3> QED
      BY <3>1, <3>2, <3>4, PlacedType
  <2>4. CASE CommitCancel(s)
    <3> DEFINE e == [kind |-> "CANCELED", auth |-> req[s].auth]
    <3>1. req[s].order \in Orders /\ e \in Event
      BY <2>4, RequestType DEF CommitCancel, Event
    <3>2. WritesWith(req[s].order, e)
      BY <2>4 DEF CommitCancel, WritesWith, TypeOK
    <3> QED
      BY <3>1, <3>2
  <2>5. CASE CommitRestore(s)
    <3> DEFINE e == [kind |-> "RESTORED"]
    <3>1. req[s].order \in Orders /\ e \in Event
      BY <2>5, RequestType DEF CommitRestore, Event
    <3>2. WritesWith(req[s].order, e)
      BY <2>5 DEF CommitRestore, WritesWith, TypeOK
    <3> QED
      BY <3>1, <3>2
  <2> QED
    BY <1>1, <2>1, <2>2, <2>3, <2>4, <2>5
    DEF OrderNext, WritesNothing, BeginCreate, BeginReplace, BeginStep, StaleStep,
        BeginCancel, BeginRestore
<1>2. ASSUME NEW s \in Sessions, FiadoNext(s)
      PROVE  WritesNothing \/ \E o \in Orders, e \in Event : WritesWith(o, e)
  <2>1. CASE CommitReceive(s)
    <3>1. PICK p \in Payments \ Received : CommitReceive(s)!(p)
      BY <2>1 DEF CommitReceive
    <3> DEFINE e == [kind |-> "FIADO_PAYMENT"]
    <3>2. req[s].order \in Orders /\ e \in Event
      BY <3>1, RequestType DEF Event
    <3>3. /\ payments'[p].order = req[s].order
          /\ \A q \in Payments \ {p} : payments'[q] = payments[q]
      BY <3>1 DEF TypeOK
    <3>4. WritesWith(req[s].order, e)
      BY <2>1, <3>1, <3>3 DEF WritesWith
    <3> QED
      BY <3>2, <3>4
  <2>2. CASE CommitRefund(s)
    <3> DEFINE p == req[s].payment
               e == [kind |-> "FIADO_PAYMENT_CANCELED", auth |-> req[s].auth]
    <3>1. p \in Received /\ req[s].auth \in BOOLEAN
      BY <2>2, RequestType DEF CommitRefund, ReferencesHold, RequestHolds
    <3>2. payments[p] \in Payment /\ p \in Payments
      BY <3>1, PaymentType
    <3>3. e \in Event /\ payments[p].order \in Orders
      BY <3>1, <3>2 DEF Event, Payment
    <3>4. payments' = [payments EXCEPT ![p] = [payments[p] EXCEPT !.canceled = TRUE]]
      BY <2>2 DEF CommitRefund
    <3>5. /\ payments'[p].order = payments[p].order
          /\ \A q \in Payments \ {p} : payments'[q] = payments[q]
      BY <3>2, <3>4 DEF TypeOK, Payment
    <3>6. WritesWith(payments[p].order, e)
      BY <2>2, <3>5 DEF CommitRefund, WritesWith
    <3> QED
      BY <3>3, <3>6
  <2>3. CASE CommitReschedule(s)
    <3> DEFINE e == [kind |-> "FIADO_DUE_DATE", from |-> req[s].from, to |-> req[s].to]
    <3>1. req[s].order \in Orders /\ e \in Event
      BY <2>3, RequestType DEF CommitReschedule, Event
    <3>2. WritesWith(req[s].order, e)
      BY <2>3 DEF CommitReschedule, WritesWith, TypeOK
    <3> QED
      BY <3>1, <3>2
  <2> QED
    BY <1>2, <2>1, <2>2, <2>3
    DEF FiadoNext, WritesNothing, BeginReceive, ResolveReceiveNight, BeginRefund, StaleRefund,
        BeginReschedule
<1>3. ASSUME NEW s \in Sessions, ClosingNext(s)
      PROVE  WritesNothing \/ MarkClosed(s)
  BY <1>3 DEF ClosingNext, WritesNothing, BeginClose, BeginCloseByDate, CheckOpenTabs,
              BeginReopen, MarkReopened
<1> QED
  BY <1>1, <1>2, <1>3 DEF Next, Tick, Abandon, vars, WritesNothing

(***************************************************************************)
(* Two quick clicks never walk two steps, whatever else is going on.       *)
(***************************************************************************)
THEOREM ClicksWalkOneStep == Spec => ClickWalksOneStep
<1>1. IInv /\ [Next]_vars => [ClickStep]_vars
  <2> SUFFICES ASSUME IInv, [Next]_vars, NEW o \in Orders,
                      Len(trail'[o]) = Len(trail[o]) + 1,
                      trail'[o][Len(trail'[o])].kind = "STATUS"
               PROVE  LET e == trail'[o][Len(trail'[o])] IN
                      /\ orders[o].status = e.from /\ ~orders[o].canceled
                      /\ orders'[o].status = e.to
    BY DEF ClickStep
  <2>1. trail[o] \in Seq(Event) /\ trail \in [Orders -> Seq(Event)]
    BY DEF IInv, TypeOK
  <2>2. trail'[o] # trail[o]
    BY <2>1
  <2>3. ~WritesNothing /\ ~\E s \in Sessions : MarkClosed(s)
    BY <2>2 DEF WritesNothing, MarkClosed
  <2>4. PICK q \in Orders, e \in Event : WritesWith(q, e)
    BY <2>3, OneOrderOneEvent
  <2>5. q = o /\ trail'[o] = Append(trail[o], e)
    BY <2>1, <2>2, <2>4 DEF WritesWith, Recorded
  <2>6. trail'[o][Len(trail'[o])] = e
    BY <2>1, <2>5
  <2> QED
    BY <2>4, <2>5, <2>6 DEF WritesWith
<1> QED
  BY <1>1, Inductive, PTL DEF Spec, ClickWalksOneStep

(***************************************************************************)
(* The order never changes without leaving a trail, its night's closing    *)
(* apart.                                                                  *)
(***************************************************************************)
THEOREM ChangesLeaveATrail == Spec => LeavesATrail
<1>1. IInv /\ [Next]_vars => [LeavesATrailStep]_vars
  <2> SUFFICES ASSUME IInv, [Next]_vars
               PROVE  LeavesATrailStep
    OBVIOUS
  <2>1. trail \in [Orders -> Seq(Event)]
    BY DEF IInv, TypeOK
  <2>2. CASE WritesNothing
    BY <2>2 DEF WritesNothing, LeavesATrailStep
  <2>3. ASSUME NEW s \in Sessions, MarkClosed(s)
        PROVE  LeavesATrailStep
    <3>1. req[s].night \in Dates
      BY <2>3, RequestType DEF MarkClosed, IInv
    <3>2. closings'[req[s].night].status = "CLOSED"
      BY <2>3, <3>1 DEF MarkClosed, IInv, TypeOK, Closing
    <3>3. ASSUME NEW o \in Orders, orders'[o] # orders[o]
          PROVE  o \in Placed /\ SilentlyDelivered(o)
      BY <2>3, <3>2, <3>3 DEF MarkClosed, SilentlyDelivered
    <3> QED
      BY <2>3, <3>3 DEF MarkClosed, LeavesATrailStep
  <2>4. ASSUME NEW o \in Orders, NEW e \in Event, WritesWith(o, e)
        PROVE  LeavesATrailStep
    <3>1. OneEventMore(o)
      BY <2>1, <2>4 DEF WritesWith, Recorded, OneEventMore
    <3> QED
      BY <2>4, <3>1 DEF WritesWith, LeavesATrailStep
  <2> QED
    BY <2>2, <2>3, <2>4, OneOrderOneEvent
<1> QED
  BY <1>1, Inductive, PTL DEF Spec, LeavesATrail

-----------------------------------------------------------------------------
(***************************************************************************)
(* The promises that rest on a check, and the trail.                       *)
(***************************************************************************)
HIDE NightAssumption
HIDE OrderAssumption
HIDE DeskAssumption
HIDE NoRowAssumption
HIDE ImportedAssumption

USE ReportAssumption

\* one request ends before the next begins
OneAtATime == \A s, t \in Sessions : s = t

(***************************************************************************)
(* What the handler of each request read, and writes by.                   *)
(***************************************************************************)
MayWrite(role, d) == role = "ADMIN" \/ closings[d].status # "CLOSED"

CreateStands(r) ==
    /\ InFlow(r.data.type, r.status)
    /\ DueNotBefore(r.data.due, r.night)
    /\ MayWrite(r.role, r.night)

ReplaceStands(r) ==
    /\ NoFiadoPayment(r.order)
    /\ DueNotBefore(r.data.due, orders[r.order].night)
    /\ InFlow(r.data.type, r.status)
    /\ r.before = SnapshotOf(orders[r.order])
    /\ MayWrite(r.role, orders[r.order].night)
    /\ /\ IsSensitiveEdit(orders[r.order], r.data)
       /\ r.role # "ADMIN"
       /\ orders[r.order].status # "PREPARING"
       => r.auth

StepStands(r) ==
    /\ InFlow(orders[r.order].type, r.to)
    /\ MayWrite(r.role, orders[r.order].night)

CancelStands(r) ==
    NoFiadoPayment(r.order) /\ MayWrite(r.role, orders[r.order].night)

ReceiptStands(r) ==
    /\ IsFiado(r.order)
    /\ ~orders[r.order].canceled
    /\ WithinRemaining(r.order, r.amount)

DueDateStands(r) ==
    /\ IsFiado(r.order)
    /\ DueNotBefore(r.to, orders[r.order].night)

ReadStands(r) ==
    /\ r.op = "create" => CreateStands(r)
    /\ r.op = "replace" => ReplaceStands(r)
    /\ r.op = "step" => StepStands(r)
    /\ r.op = "cancel" => CancelStands(r)
    /\ r.op = "restore" => r.role = "ADMIN"
    /\ r.op \in {"receive", "createPayment"} => ReceiptStands(r)
    /\ r.op = "createPayment" => MayWrite(r.role, r.night)
    /\ r.op = "refund" => MayWrite(r.role, payments[r.payment].night)
    /\ r.op = "reschedule" => DueDateStands(r)
    /\ r.op \in {"close", "markClosed"} => closings[r.night].status # "CLOSED"
    /\ r.op = "markClosed" => OpenTabs(r.night) = {}

ReadsStand == \A s \in Sessions : ReadStands(req[s])

(***************************************************************************)
(* What holds of one order.                                                *)
(***************************************************************************)
Fits(o) == orders[o].type # None => InFlow(orders[o].type, orders[o].status)

FiadoFits(o) ==
    /\ PaidTotal(o) <= orders[o].amount
    /\ ActivePayments(o) # {} => IsFiado(o) /\ ~orders[o].canceled
    /\ orders[o].due # None => IsFiado(o) /\ orders[o].due >= orders[o].night

Chained(o) == EditsChain(o) /\ (orders[o].canceled <=> CanceledByTrail(o))

Sound(o) == Fits(o) /\ FiadoFits(o) /\ Chained(o)

AllSound == \A o \in Placed : Sound(o)

\* the first event of an order is its launch, or an imported order's first change
NoEventBefore == \A o \in Orders \ Placed : trail[o] = <<>>

PInv == IInv /\ NoEventBefore /\ AllSound /\ ReadsStand

-----------------------------------------------------------------------------
(***************************************************************************)
(* The payments of an order.                                               *)
(***************************************************************************)

\* What is paid of an order is a finite sum of positive amounts.
LEMMA PaidType ==
  ASSUME TypeOK, NEW o
  PROVE  /\ IsFiniteSet(ActivePayments(o))
         /\ \A p \in ActivePayments(o) : Receipts[p] = payments[p].amount
                                         /\ Receipts[p] \in Nat \ {0}
         /\ PaidTotal(o) \in Nat
         /\ PaidTotal(o) = 0 <=> ActivePayments(o) = {}
<1>1. ActivePayments(o) \subseteq Received /\ Received \subseteq Payments
  BY DEF ActivePayments, Received
<1>2. IsFiniteSet(ActivePayments(o))
  BY <1>1, FS_Subset, DeskAssumption
<1>3. \A p \in ActivePayments(o) : Receipts[p] = payments[p].amount
                                  /\ Receipts[p] \in Nat \ {0}
  BY <1>1, PaymentType DEF Receipts, Payment
<1>4. PaidTotal(o) \in Nat
  BY <1>2, <1>3, SumOfNat DEF PaidTotal
<1>5. ASSUME ActivePayments(o) # {}
      PROVE  PaidTotal(o) # 0
  <2>1. PICK p \in ActivePayments(o) : TRUE
    BY <1>5
  <2>2. Receipts[p] <= PaidTotal(o)
    BY <1>2, <1>3, <2>1, SumOfTerm DEF PaidTotal
  <2> QED
    BY <1>3, <1>4, <2>1, <2>2
<1>6. ActivePayments(o) = {} => PaidTotal(o) = 0
  BY SumOfEmpty DEF PaidTotal
<1> QED
  BY <1>2, <1>3, <1>4, <1>5, <1>6

\* Nothing is paid of an order that is not there.
LEMMA NothingPaid ==
  ASSUME IInv, NEW o, o \notin Placed
  PROVE  ActivePayments(o) = {} /\ PaidTotal(o) = 0
<1>1. ActivePayments(o) = {}
  BY DEF IInv, ReferencesHold, ActivePayments
<1> QED
  BY <1>1, PaidType DEF IInv

\* The check of an edit and of a cancel: no money is in.
LEMMA NoMoneyIn ==
  ASSUME IInv, NEW o \in Placed, FiadoFits(o), NoFiadoPayment(o)
  PROVE  ActivePayments(o) = {} /\ PaidTotal(o) = 0
BY PaidType DEF IInv, NoFiadoPayment, FiadoFits

\* The payments, and what was paid of every order, are as they were.
LEMMA MoneyStays ==
  ASSUME UNCHANGED payments
  PROVE  /\ Received' = Received
         /\ \A o : ActivePayments(o)' = ActivePayments(o)
         /\ \A o : PaidTotal(o)' = PaidTotal(o)
BY DEF Received, ActivePayments, PaidTotal, Receipts

(***************************************************************************)
(* The trail of an order, with one event more.                             *)
(***************************************************************************)
LEMMA Appended ==
  ASSUME TypeOK, NEW o \in Orders, NEW e \in Event, Recorded(o, e)
  PROVE  /\ Len(trail[o]) \in Nat
         /\ DOMAIN trail[o] = 1 .. Len(trail[o])
         /\ Len(trail'[o]) = Len(trail[o]) + 1
         /\ DOMAIN trail'[o] = 1 .. (Len(trail[o]) + 1)
         /\ \A i \in 1 .. Len(trail[o]) : trail'[o][i] = trail[o][i]
         /\ trail'[o][Len(trail[o]) + 1] = e
         /\ \A q \in Orders \ {o} : trail'[q] = trail[q]
<1>1. /\ trail[o] \in Seq(Event)
      /\ trail'[o] = Append(trail[o], e)
      /\ \A q \in Orders \ {o} : trail'[q] = trail[q]
  BY DEF TypeOK, Recorded
<1> QED
  BY <1>1

\* An event that saves no order leaves the chain of edits as it is.
LEMMA ChainKept ==
  ASSUME TypeOK, NEW o \in Orders, NEW e \in Event, Recorded(o, e),
         e.kind \notin {"CREATED", "EDITED"},
         SnapshotOf(orders[o])' = SnapshotOf(orders[o]),
         EditsChain(o)
  PROVE  EditsChain(o)'
<1> DEFINE n == Len(trail[o])
<1>1. /\ n \in Nat /\ DOMAIN trail[o] = 1 .. n
      /\ Len(trail'[o]) = n + 1 /\ DOMAIN trail'[o] = 1 .. (n + 1)
      /\ \A i \in 1 .. n : trail'[o][i] = trail[o][i]
      /\ trail'[o][n + 1] = e
  BY Appended
<1> HIDE DEF n
<1>2. Snapshots(o)' = Snapshots(o) /\ Snapshots(o) \subseteq 1 .. n
  BY <1>1 DEF Snapshots
<1>3. \A i, k : StandsUntil(o, i, k)' <=> StandsUntil(o, i, k)
  BY <1>2 DEF StandsUntil
<1>4. ASSUME NEW i \in Snapshots(o), StandsUntil(o, i, n + 2)
      PROVE  StandsUntil(o, i, n + 1)
  <2>1. i \in 1 .. n /\ i < n + 1
    BY <1>1, <1>2, <1>4
  <2>2. ASSUME NEW j \in Snapshots(o), j \in i + 1 .. n + 1
        PROVE  FALSE
    <3>1. j \in i + 1 .. n + 2 /\ j <= n
      BY <1>1, <1>2, <2>1, <2>2
    <3>2. j = n + 2
      BY <1>4, <3>1 DEF StandsUntil
    <3> QED
      BY <1>1, <3>1, <3>2
  <2> QED
    BY <2>1, <2>2 DEF StandsUntil
<1>5. n = Len(trail[o]) /\ (n + 1) + 1 = n + 2
  BY <1>1 DEF n
<1> QED
  BY <1>1, <1>2, <1>3, <1>4, <1>5 DEF EditsChain

\* An event that saves the order, from what it was to what it is, is the next
\* link of the chain.
LEMMA ChainLinked ==
  ASSUME TypeOK, NEW o \in Orders, NEW e \in Event, Recorded(o, e),
         e.kind \in {"CREATED", "EDITED"},
         Snapshots(o) # {} => e.before = SnapshotOf(orders[o]),
         e.after = SnapshotOf(orders[o])',
         EditsChain(o)
  PROVE  EditsChain(o)'
<1> DEFINE n == Len(trail[o])
<1>1. /\ n \in Nat /\ DOMAIN trail[o] = 1 .. n
      /\ Len(trail'[o]) = n + 1 /\ DOMAIN trail'[o] = 1 .. (n + 1)
      /\ \A i \in 1 .. n : trail'[o][i] = trail[o][i]
      /\ trail'[o][n + 1] = e
  BY Appended
<1>2. n = Len(trail[o])
  OBVIOUS
<1> HIDE DEF n
<1>3. Snapshots(o)' = Snapshots(o) \cup {n + 1} /\ Snapshots(o) \subseteq 1 .. n
  BY <1>1 DEF Snapshots
<1>4. ASSUME NEW i \in Snapshots(o)', NEW k \in Snapshots(o)', StandsUntil(o, i, k)'
      PROVE  trail'[o][k].before = trail'[o][i].after
  <2>1. i \in Snapshots(o)
    BY <1>1, <1>3, <1>4 DEF StandsUntil
  <2>2. StandsUntil(o, i, k)
    BY <1>3, <1>4 DEF StandsUntil
  <2>3. CASE k \in Snapshots(o)
    BY <1>1, <1>3, <2>1, <2>2, <2>3 DEF EditsChain
  <2>4. CASE k = n + 1
    BY <1>1, <1>2, <1>3, <2>1, <2>2, <2>4 DEF EditsChain
  <2> QED
    BY <1>3, <2>3, <2>4
<1>5. ASSUME NEW i \in Snapshots(o)', StandsUntil(o, i, Len(trail[o]) + 1)'
      PROVE  trail'[o][i].after = SnapshotOf(orders[o])'
  <2>1. i = n + 1
    <3> SUFFICES ASSUME i \in 1 .. n PROVE FALSE
      BY <1>3
    <3>1. n + 1 \in i + 1 .. Len(trail'[o]) + 1
      BY <1>1
    <3>2. n + 1 = Len(trail'[o]) + 1
      BY <1>3, <1>5, <3>1 DEF StandsUntil
    <3> QED
      BY <1>1, <3>2
  <2> QED
    BY <1>1, <2>1
<1> QED
  BY <1>4, <1>5 DEF EditsChain

\* The events of a kind, with one event more.
LEMMA EventsGrow ==
  ASSUME TypeOK, NEW o \in Orders, NEW e \in Event, Recorded(o, e), NEW kind
  PROVE  /\ EventsOf(o, kind) \subseteq 1 .. Len(trail[o])
         /\ EventsOf(o, kind)' = IF e.kind = kind
                                 THEN EventsOf(o, kind) \cup {Len(trail[o]) + 1}
                                 ELSE EventsOf(o, kind)
         /\ \A q \in Orders \ {o} : EventsOf(q, kind)' = EventsOf(q, kind)
<1> DEFINE n == Len(trail[o])
<1>1. /\ n \in Nat /\ DOMAIN trail[o] = 1 .. n
      /\ DOMAIN trail'[o] = 1 .. (n + 1)
      /\ \A i \in 1 .. n : trail'[o][i] = trail[o][i]
      /\ trail'[o][n + 1] = e
      /\ \A q \in Orders \ {o} : trail'[q] = trail[q]
  BY Appended
<1> HIDE DEF n
<1>2. /\ EventsOf(o, kind) \subseteq 1 .. n
      /\ EventsOf(o, kind)' = IF e.kind = kind THEN EventsOf(o, kind) \cup {n + 1}
                              ELSE EventsOf(o, kind)
  BY <1>1 DEF EventsOf
<1>3. \A q \in Orders \ {o} : EventsOf(q, kind)' = EventsOf(q, kind)
  BY <1>1 DEF EventsOf
<1> QED
  BY <1>2, <1>3 DEF n

\* Whether the trail says the order is canceled: only a cancel and a restore do.
LEMMA CancelTold ==
  ASSUME TypeOK, NEW o \in Orders, NEW e \in Event, Recorded(o, e)
  PROVE  CanceledByTrail(o)' <=>
            \/ e.kind = "CANCELED"
            \/ e.kind # "RESTORED" /\ CanceledByTrail(o)
<1> DEFINE n == Len(trail[o])
<1>1. n \in Nat
  BY Appended
<1>2. \A kind : /\ EventsOf(o, kind) \subseteq 1 .. n
                /\ EventsOf(o, kind)' = IF e.kind = kind THEN EventsOf(o, kind) \cup {n + 1}
                                        ELSE EventsOf(o, kind)
  BY EventsGrow
<1> HIDE DEF n
<1>3. \A i \in 1 .. n : i < n + 1 /\ ~(n + 1 < i)
  BY <1>1
<1>4. CASE e.kind = "CANCELED"
  <2>1. /\ n + 1 \in EventsOf(o, "CANCELED")'
        /\ EventsOf(o, "RESTORED")' \subseteq 1 .. n
    BY <1>2, <1>4
  <2> QED
    BY <1>3, <1>4, <2>1 DEF CanceledByTrail
<1>5. CASE e.kind = "RESTORED"
  <2>1. /\ EventsOf(o, "CANCELED")' \subseteq 1 .. n
        /\ n + 1 \in EventsOf(o, "RESTORED")'
    BY <1>2, <1>5
  <2> QED
    BY <1>3, <1>5, <2>1 DEF CanceledByTrail
<1>6. CASE e.kind \notin {"CANCELED", "RESTORED"}
  <2>1. /\ EventsOf(o, "CANCELED")' = EventsOf(o, "CANCELED")
        /\ EventsOf(o, "RESTORED")' = EventsOf(o, "RESTORED")
    BY <1>2, <1>6
  <2> QED
    BY <1>6, <2>1 DEF CanceledByTrail
<1> QED
  BY <1>4, <1>5, <1>6

(***************************************************************************)
(* What the steps have in common.                                          *)
(***************************************************************************)

\* An order nothing wrote, and of which nothing was paid or refunded, is as sound.
LEMMA SoundStays ==
  ASSUME NEW o, Sound(o), orders'[o] = orders[o], trail'[o] = trail[o],
         ActivePayments(o)' = ActivePayments(o), PaidTotal(o)' = PaidTotal(o)
  PROVE  Sound(o)'
<1>1. Fits(o)'
  BY DEF Sound, Fits
<1>2. FiadoFits(o)'
  BY DEF Sound, FiadoFits, IsFiado
<1>3. Snapshots(o)' = Snapshots(o) /\ SnapshotOf(orders[o])' = SnapshotOf(orders[o])
  BY DEF Snapshots, SnapshotOf
<1>4. EditsChain(o)'
  BY <1>3 DEF Sound, Chained, EditsChain, StandsUntil
<1>5. CanceledByTrail(o)' <=> CanceledByTrail(o)
  BY DEF CanceledByTrail, EventsOf
<1> QED
  BY <1>1, <1>2, <1>4, <1>5 DEF Sound, Chained

\* When the only session answers, no request is left to stand.
LEMMA NoneInFlight ==
  ASSUME OneAtATime, IInv, NEW s \in Sessions, Answers(s)
  PROVE  ReadsStand'
<1>1. \A t \in Sessions : req'[t] = Idle
  BY DEF OneAtATime, IInv, TypeOK, Answers, Goes
<1> QED
  BY <1>1 DEF ReadsStand, ReadStands, Idle

\* A handler goes on by what it just read.
LEMMA GoesOn ==
  ASSUME PInv, IInv', OneAtATime, NEW s \in Sessions, NEW r, Goes(s, r),
         UNCHANGED <<orders, trail, payments>>, ReadStands(r)'
  PROVE  PInv'
<1>1. Placed' = Placed
  BY DEF Placed
<1>2. AllSound'
  BY <1>1, MoneyStays, SoundStays DEF PInv, AllSound
<1>3. \A t \in Sessions : req'[t] = r
  BY DEF OneAtATime, PInv, IInv, TypeOK, Goes
<1>4. ReadsStand'
  BY <1>3 DEF ReadsStand
<1> QED
  BY <1>1, <1>2, <1>4 DEF PInv, NoEventBefore

\* A handler answers, having written nothing.
LEMMA AnswersSound ==
  ASSUME PInv, IInv', OneAtATime, NEW s \in Sessions, Answers(s),
         UNCHANGED <<orders, trail, payments>>
  PROVE  PInv'
<1>1. ReadStands(Idle)'
  BY DEF ReadStands, Idle
<1> QED
  BY <1>1, GoesOn DEF Answers

\* A transaction writes one order, or a payment of it, and its trail.
LEMMA OneOrderSound ==
  ASSUME PInv, IInv', OneAtATime, NEW s \in Sessions, Answers(s),
         NEW o \in Orders, NEW e \in Event, Recorded(o, e), o \in Placed', Sound(o)',
         \A q \in Orders \ {o} : /\ orders'[q] = orders[q]
                                /\ ActivePayments(q)' = ActivePayments(q)
                                /\ PaidTotal(q)' = PaidTotal(q)
  PROVE  PInv'
<1>1. \A q \in Orders \ {o} : trail'[q] = trail[q]
  BY Appended DEF PInv, IInv
<1>2. \A q \in Orders \ {o} : q \in Placed' <=> q \in Placed
  BY DEF Placed
<1>3. NoEventBefore'
  BY <1>1, <1>2 DEF PInv, NoEventBefore
<1>4. AllSound'
  <2> SUFFICES ASSUME NEW q \in Placed' PROVE Sound(q)'
    BY DEF AllSound
  <2>1. CASE q # o
    <3>1. q \in Orders /\ q \in Placed
      BY <1>2, <2>1 DEF Placed
    <3> QED
      BY <1>1, <2>1, <3>1, SoundStays DEF PInv, AllSound
  <2> QED
    BY <2>1
<1> QED
  BY <1>3, <1>4, NoneInFlight DEF PInv

\* Who may edit a night that is not closed, or is the admin, may still write.
LEMMA MayEdit ==
  ASSUME NEW role, NEW d, NEW status, NEW t, CanEditClosing(role, d, status, t)
  PROVE  role = "ADMIN" \/ status # "CLOSED"
BY DEF CanEditClosing

\* The row of the night is inserted open; closed nights stay, and no other is closed.
LEMMA ClosedStay ==
  ASSUME TypeOK, NEW d \in Dates, closings' = GotOrCreated(d)
  PROVE  \A n \in Dates : closings'[n].status = "CLOSED" <=> closings[n].status = "CLOSED"
<1>1. CASE closings[d].status = "ABSENT"
  BY <1>1 DEF GotOrCreated, TypeOK, Closing
<1>2. CASE closings[d].status # "ABSENT"
  BY <1>2 DEF GotOrCreated
<1> QED
  BY <1>1, <1>2

-----------------------------------------------------------------------------
(***************************************************************************)
(* The promises at the start: the imported orders are no open tabs, nobody *)
(* paid them, and no event tells of them.                                  *)
(***************************************************************************)
LEMMA InitSound == Init => PInv
<1> SUFFICES ASSUME Init PROVE PInv
  OBVIOUS
<1>1. IInv
  BY InitHolds
<1>2. PICK amount \in Amounts :
        orders = [o \in Orders |->
                   IF \E i \in DOMAIN Imported : Imported[i] = o
                   THEN ImportedOrder(CHOOSE i \in DOMAIN Imported : Imported[i] = o, amount)
                   ELSE NoOrder]
  BY DEF Init
<1>3. ASSUME NEW o \in Placed
      PROVE  /\ orders[o].type = None /\ orders[o].due = None /\ ~orders[o].canceled
             /\ orders[o].amount \in Nat
  BY <1>2, OrderAssumption DEF Placed, ImportedOrder
<1>4. \A o \in Orders : trail[o] = <<>> /\ DOMAIN trail[o] = {}
  BY DEF Init
<1>5. ReadsStand
  BY DEF Init, ReadsStand, ReadStands, Idle
<1>6. ASSUME NEW o \in Placed PROVE Sound(o)
  <2>1. o \in Orders
    BY DEF Placed
  <2>2. ActivePayments(o) = {}
    BY DEF Init, ActivePayments, Received
  <2>3. PaidTotal(o) = 0
    BY <1>1, <2>2, PaidType DEF IInv
  <2>4. Snapshots(o) = {} /\ \A kind : EventsOf(o, kind) = {}
    BY <1>4, <2>1 DEF Snapshots, EventsOf
  <2>5. FiadoFits(o)
    BY <1>3, <2>2, <2>3 DEF FiadoFits
  <2>6. Chained(o)
    BY <1>3, <2>4 DEF Chained, EditsChain, CanceledByTrail
  <2> QED
    BY <1>3, <2>5, <2>6 DEF Sound, Fits
<1> QED
  BY <1>1, <1>4, <1>5, <1>6 DEF PInv, NoEventBefore, AllSound

(***************************************************************************)
(* Both flows start at PREPARING and end at DELIVERED.                     *)
(***************************************************************************)
LEMMA StartsInFlow ==
  ASSUME NEW type \in Types
  PROVE  /\ InFlow(type, "PREPARING")
         /\ InFlow(type, "DELIVERED")
         /\ \A live : InFlow(type, InitialStatus(live))
<1>1. /\ STATUS_FLOW["DELIVERY"][1] = "PREPARING" /\ 1 \in DOMAIN STATUS_FLOW["DELIVERY"]
      /\ STATUS_FLOW["COUNTER"][1] = "PREPARING" /\ 1 \in DOMAIN STATUS_FLOW["COUNTER"]
  BY DEF STATUS_FLOW
<1>2. /\ STATUS_FLOW["DELIVERY"][3] = "DELIVERED" /\ 3 \in DOMAIN STATUS_FLOW["DELIVERY"]
      /\ STATUS_FLOW["COUNTER"][2] = "DELIVERED" /\ 2 \in DOMAIN STATUS_FLOW["COUNTER"]
  BY DEF STATUS_FLOW
<1>3. /\ \E i \in DOMAIN STATUS_FLOW[type] : STATUS_FLOW[type][i] = "PREPARING"
      /\ \E i \in DOMAIN STATUS_FLOW[type] : STATUS_FLOW[type][i] = "DELIVERED"
  BY <1>1, <1>2 DEF Types
<1> QED
  BY <1>3 DEF InFlow, ToSet, InitialStatus

(***************************************************************************)
(* The requests of ClosingDesk.                                            *)
(***************************************************************************)

\* Closing a night delivers its orders: both flows end there.
LEMMA DeliveredSound ==
  ASSUME NEW o, Sound(o), trail'[o] = trail[o], UNCHANGED payments,
         orders[o] \in Order,
         orders'[o] \in {orders[o], [orders[o] EXCEPT !.status = "DELIVERED"]}
  PROVE  Sound(o)'
<1>1. CASE orders'[o] = orders[o]
  BY <1>1, MoneyStays, SoundStays
<1>2. CASE orders'[o] = [orders[o] EXCEPT !.status = "DELIVERED"]
  <2>1. /\ orders'[o].status = "DELIVERED"
        /\ orders'[o].type = orders[o].type /\ orders'[o].method = orders[o].method
        /\ orders'[o].amount = orders[o].amount /\ orders'[o].due = orders[o].due
        /\ orders'[o].night = orders[o].night /\ orders'[o].canceled = orders[o].canceled
    BY <1>2 DEF Order
  <2>2. orders[o].type \in Types \cup {None}
    BY DEF Order
  <2>3. \A type \in Types : InFlow(type, "DELIVERED")
    BY StartsInFlow
  <2>4. Fits(o)'
    BY <2>1, <2>2, <2>3 DEF Fits
  <2>5. FiadoFits(o)'
    BY <2>1, MoneyStays DEF Sound, FiadoFits, IsFiado
  <2>6. Snapshots(o)' = Snapshots(o) /\ SnapshotOf(orders[o])' = SnapshotOf(orders[o])
    BY <2>1 DEF Snapshots, SnapshotOf
  <2>7. EditsChain(o)'
    BY <2>6 DEF Sound, Chained, EditsChain, StandsUntil
  <2>8. CanceledByTrail(o)' <=> CanceledByTrail(o)
    BY DEF CanceledByTrail, EventsOf
  <2> QED
    BY <2>1, <2>4, <2>5, <2>7, <2>8 DEF Sound, Chained
<1> QED
  BY <1>1, <1>2

\* Closing and reopening a night keep the promises.
LEMMA ClosingSound ==
  ASSUME PInv, IInv', OneAtATime, NEW s \in Sessions, ClosingNext(s)
  PROVE  PInv'
<1>1. CASE BeginClose(s)
  <2>1. PICK role \in Roles, raw \in Dates \cup {None} : BeginClose(s)!(role, raw)
    BY <1>1 DEF BeginClose
  <2>r. PICK d, r :
          /\ d = SelectedDate(raw)
          /\ r = [op |-> "close", role |-> role, night |-> d]
    OBVIOUS
  <2>2. Goes(s, r) /\ UNCHANGED <<orders, trail, payments>> /\ closings'[d].status # "CLOSED"
    BY <2>r, <2>1
  <2>3. ReadStands(r)'
    BY <2>r, <2>2 DEF ReadStands
  <2> QED
    BY <2>r, <2>2, <2>3, GoesOn
<1>2. CASE BeginCloseByDate(s)
  <2>1. PICK d \in Dates : BeginCloseByDate(s)!(d)
    BY <1>2 DEF BeginCloseByDate
  <2>r. PICK r :
          r = [op |-> "close", role |-> "ADMIN", night |-> d]
    OBVIOUS
  <2>2. ReadStands(r)'
    BY <2>r, <2>1 DEF ReadStands
  <2> QED
    BY <2>r, <2>1, <2>2, GoesOn
<1>3. CASE CheckOpenTabs(s)
  <2>r. PICK r :
          r = [req[s] EXCEPT !.op = "markClosed"]
    OBVIOUS
  <2>1. /\ Goes(s, r) /\ UNCHANGED <<closings, orders, trail, payments>>
        /\ OpenTabs(req[s].night) = {} /\ closings[req[s].night].status # "CLOSED"
    BY <2>r, <1>3 DEF CheckOpenTabs, PInv, ReadsStand, ReadStands
  <2>2. r.op = "markClosed" /\ r.night = req[s].night
    BY <2>r, <1>3, RequestType DEF CheckOpenTabs, PInv, IInv
  <2>3. ReadStands(r)'
    BY <2>1, <2>2 DEF ReadStands, OpenTabs, Placed
  <2> QED
    BY <2>1, <2>3, GoesOn
<1>4. CASE MarkClosed(s)
  <2>1. ASSUME NEW o \in Placed
        PROVE  /\ o \in Orders /\ orders[o] \in Order
               /\ orders'[o] \in {orders[o], [orders[o] EXCEPT !.status = "DELIVERED"]}
    BY <1>4, PlacedType DEF MarkClosed, PInv, IInv
  <2>2. \A o \in Orders \ Placed : orders'[o] = orders[o]
    BY <1>4 DEF MarkClosed
  <2>3. Placed' = Placed
    <3>1. \A o \in Placed : o \in Placed'
      BY <1>4, StepKeeps DEF PInv, Next, ClosingNext, RowsStay, OrdersStay
    <3> QED
      BY <2>2, <3>1 DEF Placed
  <2>4. AllSound'
    BY <1>4, <2>1, <2>3, DeliveredSound DEF MarkClosed, PInv, AllSound
  <2> QED
    BY <1>4, <2>3, <2>4, NoneInFlight DEF MarkClosed, PInv, NoEventBefore
<1>5. CASE BeginReopen(s)
  <2>1. PICK role \in Roles, d \in Dates : BeginReopen(s)!(role, d)
    BY <1>5 DEF BeginReopen
  <2>r. PICK r :
          r = [op |-> "reopen", role |-> role, night |-> d]
    OBVIOUS
  <2>2. ReadStands(r)'
    BY <2>r DEF ReadStands
  <2> QED
    BY <2>r, <2>1, <2>2, GoesOn
<1>6. CASE MarkReopened(s)
  BY <1>6, AnswersSound DEF MarkReopened
<1> QED
  BY <1>1, <1>2, <1>3, <1>4, <1>5, <1>6 DEF ClosingNext

(***************************************************************************)
(* The requests of OrderDesk.                                              *)
(***************************************************************************)

\* A transaction of OrderDesk changes one row, and no payment.
LEMMA OneRowSound ==
  ASSUME PInv, IInv', OneAtATime, NEW s \in Sessions, Answers(s),
         NEW o \in Orders, NEW row \in Order, orders' = [orders EXCEPT ![o] = row],
         UNCHANGED payments, NEW e \in Event, Recorded(o, e),
         Fits(o)', FiadoFits(o)', Chained(o)'
  PROVE  PInv'
<1>1. orders'[o] = row /\ \A q \in Orders \ {o} : orders'[q] = orders[q]
  BY DEF PInv, IInv, TypeOK
<1>2. o \in Placed'
  BY <1>1, NoRowAssumption DEF Placed
<1>3. Sound(o)'
  BY DEF Sound
<1> QED
  BY <1>1, <1>2, <1>3, MoneyStays, OneOrderSound

\* CommitCreate: the new order is sound, and the others are untouched.
LEMMA CreateSound ==
  ASSUME PInv, IInv', OneAtATime, NEW s \in Sessions, NEW o \in Orders \ Placed,
         CommitCreate(s)!(o)
  PROVE  PInv'
<1> DEFINE r == req[s]
           row == [night |-> r.night, number |-> NextDayNumber(r.night), type |-> r.data.type,
                   method |-> r.data.method, amount |-> r.data.amount, due |-> r.data.due,
                   status |-> r.status, canceled |-> FALSE, createdAt |-> now]
           e == [kind |-> "CREATED", after |-> SnapshotOf(r.data)]
<1>1. /\ orders' = [orders EXCEPT ![o] = row]
      /\ Recorded(o, e) /\ Answers(s) /\ UNCHANGED payments
  OBVIOUS
<1>2. orders'[o] = row
  BY <1>1 DEF PInv, IInv, TypeOK
<1>3. row \in Order
  BY <1>2, CreateKeeps, NoRowAssumption DEF PInv, IInv, TypeOK, Placed
<1>4. r.data \in OrderInputs /\ r.op = "create"
  BY RequestType DEF PInv, IInv
<1>5. e \in Event
  BY <1>4, InputType DEF Event
<1>6. CreateStands(r)
  BY <1>4 DEF PInv, ReadsStand, ReadStands
<1>7. Fits(o)'
  BY <1>2, <1>6 DEF Fits, CreateStands
<1>8. FiadoFits(o)'
  <2>1. ActivePayments(o)' = {} /\ PaidTotal(o)' = 0
    BY <1>1, NothingPaid, MoneyStays DEF PInv
  <2>2. row.amount \in Nat
    BY <1>3, OrderAssumption DEF Order
  <2>3. row.due # None => row.method \in FiadoMethods /\ row.due >= row.night
    BY <1>4, <1>6 DEF CreateStands, OrderInputs, DueNotBefore
  <2> HIDE DEF row
  <2> QED
    BY <1>2, <2>1, <2>2, <2>3 DEF FiadoFits, IsFiado
<1>9. Chained(o)'
  <2>1. trail[o] = <<>> /\ DOMAIN trail[o] = {}
    BY DEF PInv, NoEventBefore
  <2>2. Snapshots(o) = {} /\ \A kind : EventsOf(o, kind) = {}
    BY <2>1 DEF Snapshots, EventsOf
  <2>3. EditsChain(o) /\ ~CanceledByTrail(o)
    BY <2>2 DEF EditsChain, CanceledByTrail
  <2>4. e.after = SnapshotOf(orders[o])' /\ orders'[o].canceled = FALSE
    BY <1>2 DEF SnapshotOf
  <2>5. e.kind = "CREATED"
    OBVIOUS
  <2> HIDE DEF e, row
  <2>6. EditsChain(o)'
    BY <1>1, <1>5, <2>2, <2>3, <2>4, <2>5, ChainLinked DEF PInv, IInv
  <2>7. ~CanceledByTrail(o)'
    BY <1>1, <1>5, <2>3, <2>5, CancelTold DEF PInv, IInv
  <2> QED
    BY <2>4, <2>6, <2>7 DEF Chained
<1> HIDE DEF row, e
<1> QED
  BY <1>1, <1>3, <1>5, <1>7, <1>8, <1>9, OneRowSound

\* CommitReplace: the order as edited is sound.
LEMMA ReplaceSound ==
  ASSUME PInv, IInv', OneAtATime, NEW s \in Sessions, CommitReplace(s)
  PROVE  PInv'
<1>0. PICK o : o = req[s].order
  OBVIOUS
<1> DEFINE r == req[s]
           row == [orders[o] EXCEPT !.type = r.data.type, !.method = r.data.method,
                     !.amount = r.data.amount, !.due = r.data.due, !.status = r.status]
           e == [kind |-> "EDITED", auth |-> r.auth, before |-> r.before,
                 after |-> SnapshotOf(r.data)]
<1>1. /\ orders' = [orders EXCEPT ![o] = row]
      /\ Recorded(o, e) /\ Answers(s) /\ UNCHANGED payments
  BY <1>0 DEF CommitReplace
<1>2. /\ r.op = "replace" /\ o \in Placed /\ r.data \in OrderInputs /\ r.status \in Statuses
      /\ r.auth \in BOOLEAN /\ r.before \in Snapshot
  BY <1>0, RequestType DEF CommitReplace, PInv, IInv, ReferencesHold, RequestHolds
<1>3. o \in Orders /\ orders[o] \in Order /\ row \in Order
  BY <1>2, PlacedType, OrderUpdated DEF PInv, IInv
<1>4. orders'[o] = row
  BY <1>1, <1>3 DEF PInv, IInv, TypeOK
<1>5. e \in Event
  BY <1>2, InputType DEF Event
<1>6. ReplaceStands(r) /\ Sound(o)
  BY <1>0, <1>2 DEF PInv, ReadsStand, ReadStands, AllSound
<1>7. /\ row.type = r.data.type /\ row.method = r.data.method /\ row.amount = r.data.amount
      /\ row.due = r.data.due /\ row.status = r.status
      /\ row.night = orders[o].night /\ row.canceled = orders[o].canceled
  BY <1>3 DEF Order
<1> HIDE DEF row
<1>8. Fits(o)'
  BY <1>4, <1>6, <1>7 DEF Fits, ReplaceStands
<1>9. FiadoFits(o)'
  <2>1. ActivePayments(o)' = {} /\ PaidTotal(o)' = 0
    BY <1>0, <1>1, <1>2, <1>6, NoMoneyIn, MoneyStays DEF PInv, Sound, ReplaceStands
  <2>2. row.amount \in Nat
    BY <1>3, OrderAssumption DEF Order
  <2>3. row.due # None => row.method \in FiadoMethods /\ row.due >= row.night
    BY <1>0, <1>2, <1>6, <1>7 DEF ReplaceStands, OrderInputs, DueNotBefore
  <2> QED
    BY <1>4, <2>1, <2>2, <2>3 DEF FiadoFits, IsFiado
<1>10. Chained(o)'
  <2>1. e.before = SnapshotOf(orders[o]) /\ e.after = SnapshotOf(orders[o])'
    BY <1>0, <1>4, <1>6, <1>7 DEF ReplaceStands, SnapshotOf
  <2>2. e.kind = "EDITED"
    OBVIOUS
  <2> HIDE DEF e
  <2>3. EditsChain(o)'
    BY <1>1, <1>3, <1>5, <1>6, <2>1, <2>2, ChainLinked DEF PInv, IInv, Sound, Chained
  <2>4. CanceledByTrail(o)' <=> CanceledByTrail(o)
    BY <1>1, <1>3, <1>5, <2>2, CancelTold DEF PInv, IInv
  <2> QED
    BY <1>4, <1>6, <1>7, <2>3, <2>4 DEF Sound, Chained
<1> HIDE DEF e
<1> QED
  BY <1>1, <1>3, <1>5, <1>8, <1>9, <1>10, OneRowSound

\* A change that is no edit leaves the money as it is, and is canceled or not
\* as its event says: the trail still reads as a chain.
LEMMA ChainStands ==
  ASSUME PInv, NEW o \in Placed, NEW e \in Event, Recorded(o, e),
         e.kind \notin {"CREATED", "EDITED"},
         SnapshotOf(orders[o])' = SnapshotOf(orders[o]),
         orders'[o].canceled <=> \/ e.kind = "CANCELED"
                                 \/ e.kind # "RESTORED" /\ orders[o].canceled
  PROVE  Chained(o)'
<1>1. o \in Orders /\ Sound(o)
  BY DEF Placed, PInv, AllSound
<1>2. EditsChain(o)'
  BY <1>1, ChainKept DEF PInv, IInv, Sound, Chained
<1>3. CanceledByTrail(o)' <=> \/ e.kind = "CANCELED"
                              \/ e.kind # "RESTORED" /\ CanceledByTrail(o)
  BY <1>1, CancelTold DEF PInv, IInv
<1> QED
  BY <1>1, <1>2, <1>3 DEF Sound, Chained

\* CommitStep: the order one step further is sound.
LEMMA StepSound ==
  ASSUME PInv, IInv', OneAtATime, NEW s \in Sessions, CommitStep(s)
  PROVE  PInv'
<1>0. PICK o : o = req[s].order
  OBVIOUS
<1> DEFINE r == req[s]
           row == [orders[o] EXCEPT !.status = r.to]
           e == [kind |-> "STATUS", from |-> r.from, to |-> r.to]
<1>1. /\ orders' = [orders EXCEPT ![o] = row]
      /\ Recorded(o, e) /\ Answers(s) /\ UNCHANGED payments
  BY <1>0 DEF CommitStep
<1>2. /\ r.op = "step" /\ o \in Placed /\ r.from \in Statuses /\ r.to \in Statuses
  BY <1>0, RequestType DEF CommitStep, PInv, IInv, ReferencesHold, RequestHolds
<1>3. o \in Orders /\ orders[o] \in Order /\ row \in Order
  BY <1>2, PlacedType, OrderUpdated DEF PInv, IInv
<1>4. orders'[o] = row
  BY <1>1, <1>3 DEF PInv, IInv, TypeOK
<1>5. e \in Event /\ e.kind = "STATUS"
  BY <1>2 DEF Event
<1>6. StepStands(r) /\ Sound(o)
  BY <1>0, <1>2 DEF PInv, ReadsStand, ReadStands, AllSound
<1>7. /\ row.type = orders[o].type /\ row.method = orders[o].method
      /\ row.amount = orders[o].amount /\ row.due = orders[o].due /\ row.status = r.to
      /\ row.night = orders[o].night /\ row.canceled = orders[o].canceled
  BY <1>3 DEF Order
<1> HIDE DEF row, e
<1>8. Fits(o)'
  BY <1>0, <1>4, <1>6, <1>7 DEF Fits, StepStands
<1>9. FiadoFits(o)'
  BY <1>1, <1>4, <1>6, <1>7, MoneyStays DEF Sound, FiadoFits, IsFiado
<1>10. SnapshotOf(orders[o])' = SnapshotOf(orders[o])
  BY <1>4, <1>7 DEF SnapshotOf
<1>11. Chained(o)'
  BY <1>1, <1>2, <1>4, <1>5, <1>7, <1>10, ChainStands
<1> QED
  BY <1>1, <1>3, <1>5, <1>8, <1>9, <1>11, OneRowSound

\* CommitCancel: the order canceled is sound.
LEMMA CancelSound ==
  ASSUME PInv, IInv', OneAtATime, NEW s \in Sessions, CommitCancel(s)
  PROVE  PInv'
<1>0. PICK o : o = req[s].order
  OBVIOUS
<1> DEFINE r == req[s]
           row == [orders[o] EXCEPT !.canceled = TRUE]
           e == [kind |-> "CANCELED", auth |-> r.auth]
<1>1. /\ orders' = [orders EXCEPT ![o] = row]
      /\ Recorded(o, e) /\ Answers(s) /\ UNCHANGED payments
  BY <1>0 DEF CommitCancel
<1>2. r.op = "cancel" /\ o \in Placed /\ r.auth \in BOOLEAN
  BY <1>0, RequestType DEF CommitCancel, PInv, IInv, ReferencesHold, RequestHolds
<1>3. o \in Orders /\ orders[o] \in Order /\ row \in Order
  BY <1>2, PlacedType, OrderUpdated DEF PInv, IInv
<1>4. orders'[o] = row
  BY <1>1, <1>3 DEF PInv, IInv, TypeOK
<1>5. e \in Event /\ e.kind = "CANCELED"
  BY <1>2 DEF Event
<1>6. CancelStands(r) /\ Sound(o)
  BY <1>0, <1>2 DEF PInv, ReadsStand, ReadStands, AllSound
<1>7. /\ row.type = orders[o].type /\ row.method = orders[o].method
      /\ row.amount = orders[o].amount /\ row.due = orders[o].due
      /\ row.status = orders[o].status
      /\ row.night = orders[o].night /\ row.canceled = TRUE
  BY <1>3 DEF Order
<1> HIDE DEF row, e
<1>8. Fits(o)'
  BY <1>4, <1>6, <1>7 DEF Fits, Sound
<1>9. FiadoFits(o)'
  <2>1. ActivePayments(o)' = {} /\ PaidTotal(o)' = PaidTotal(o)
    BY <1>0, <1>1, <1>2, <1>6, NoMoneyIn, MoneyStays DEF PInv, Sound, CancelStands
  <2> QED
    BY <1>4, <1>6, <1>7, <2>1 DEF Sound, FiadoFits, IsFiado
<1>10. SnapshotOf(orders[o])' = SnapshotOf(orders[o])
  BY <1>4, <1>7 DEF SnapshotOf
<1>11. Chained(o)'
  BY <1>1, <1>2, <1>4, <1>5, <1>7, <1>10, ChainStands
<1> QED
  BY <1>1, <1>3, <1>5, <1>8, <1>9, <1>11, OneRowSound

\* CommitRestore: the order taken back is sound.
LEMMA RestoreSound ==
  ASSUME PInv, IInv', OneAtATime, NEW s \in Sessions, CommitRestore(s)
  PROVE  PInv'
<1>0. PICK o : o = req[s].order
  OBVIOUS
<1> DEFINE r == req[s]
           row == [orders[o] EXCEPT !.canceled = FALSE]
           e == [kind |-> "RESTORED"]
<1>1. /\ orders' = [orders EXCEPT ![o] = row]
      /\ Recorded(o, e) /\ Answers(s) /\ UNCHANGED payments
  BY <1>0 DEF CommitRestore
<1>2. o \in Placed
  BY <1>0 DEF CommitRestore, PInv, IInv, ReferencesHold, RequestHolds
<1>3. o \in Orders /\ orders[o] \in Order /\ row \in Order
  BY <1>2, PlacedType, OrderUpdated DEF PInv, IInv
<1>4. orders'[o] = row
  BY <1>1, <1>3 DEF PInv, IInv, TypeOK
<1>5. e \in Event /\ e.kind = "RESTORED"
  BY DEF Event
<1>6. Sound(o)
  BY <1>0, <1>2 DEF PInv, AllSound
<1>7. /\ row.type = orders[o].type /\ row.method = orders[o].method
      /\ row.amount = orders[o].amount /\ row.due = orders[o].due
      /\ row.status = orders[o].status
      /\ row.night = orders[o].night /\ row.canceled = FALSE
  BY <1>3 DEF Order
<1> HIDE DEF row, e
<1>8. Fits(o)'
  BY <1>4, <1>6, <1>7 DEF Fits, Sound
<1>9. FiadoFits(o)'
  BY <1>1, <1>4, <1>6, <1>7, MoneyStays DEF Sound, FiadoFits, IsFiado
<1>10. SnapshotOf(orders[o])' = SnapshotOf(orders[o])
  BY <1>4, <1>7 DEF SnapshotOf
<1>11. Chained(o)'
  BY <1>1, <1>2, <1>4, <1>5, <1>7, <1>10, ChainStands
<1> QED
  BY <1>1, <1>3, <1>5, <1>8, <1>9, <1>11, OneRowSound

\* So does each step of an order's handler.
LEMMA OrderSound ==
  ASSUME PInv, IInv', OneAtATime, NEW s \in Sessions, OrderNext(s)
  PROVE  PInv'
<1>1. CASE BeginCreate(s)
  <2>1. PICK role \in Roles, raw \in Dates \cup {None}, data \in OrderInputs :
          BeginCreate(s)!(role, raw, data)
    BY <1>1 DEF BeginCreate
  <2>r. PICK d, status, r :
          /\ d = SelectedDate(raw)
          /\ status = InitialStatus(IsLiveNight(d, now))
          /\ r = [op |-> "create", role |-> role, night |-> d, data |-> data,
                   status |-> status]
    OBVIOUS
  <2>2. /\ Goes(s, r) /\ UNCHANGED <<orders, trail, payments>>
        /\ DueNotBefore(data.due, d)
        /\ CanEditClosing(role, d, closings'[d].status, now)
    BY <2>r, <2>1
  <2>3. InFlow(data.type, status)
    BY <2>r, InputType, StartsInFlow
  <2>4. role = "ADMIN" \/ closings'[d].status # "CLOSED"
    BY <2>r, <2>2, MayEdit
  <2>5. ReadStands(r)'
    BY <2>r, <2>2, <2>3, <2>4 DEF ReadStands, CreateStands, MayWrite
  <2> QED
    BY <2>2, <2>5, GoesOn
<1>2. CASE CommitCreate(s)
  BY <1>2, CreateSound DEF CommitCreate
<1>3. CASE BeginReplace(s)
  <2>1. PICK role \in Roles, o \in Placed, data \in OrderInputs :
          BeginReplace(s)!(role, o, data)
    BY <1>3 DEF BeginReplace
  <2>r. PICK status, auth, r :
          /\ status = StatusForType(data.type, orders[o].status)
          /\ auth = (IsSensitiveEdit(orders[o], data)
                       /\ ManagerAuthorized(role, orders[o].createdAt,
                                            orders[o].status, now))
          /\ r = [op |-> "replace", role |-> role, order |-> o, data |-> data,
                   status |-> status, auth |-> auth, before |-> SnapshotOf(orders[o])]
    OBVIOUS
  <2>2. /\ Goes(s, r) /\ UNCHANGED <<closings, orders, trail, payments>>
        /\ NoFiadoPayment(o) /\ DueNotBefore(data.due, orders[o].night)
        /\ MayWrite(role, orders[o].night)
    BY <2>r, <2>1, MayEdit DEF EditableUncanceled, Editable, MayWrite
  <2>3. InFlow(data.type, status)
    BY <2>r, InputType, StartsInFlow DEF StatusForType
  <2>4. IsSensitiveEdit(orders[o], data) /\ role # "ADMIN" /\ orders[o].status # "PREPARING"
          => auth
    BY <2>r DEF ManagerAuthorized, IsLockedForCashier
  <2>5. ReplaceStands(r)'
    BY <2>r, <2>2, <2>3, <2>4, MoneyStays DEF ReplaceStands, MayWrite, NoFiadoPayment, IsFiado
  <2>6. ReadStands(r)'
    BY <2>r, <2>5 DEF ReadStands
  <2> QED
    BY <2>2, <2>6, GoesOn
<1>4. CASE CommitReplace(s)
  BY <1>4, ReplaceSound
<1>5. CASE BeginStep(s)
  <2>1. PICK role \in Roles, o \in Placed, direction \in {-1, 1} :
          BeginStep(s)!(role, o, direction)
    BY <1>5 DEF BeginStep
  <2>r. PICK from, to, r :
          /\ from = orders[o].status
          /\ to = StepStatus(orders[o].type, from, direction)
          /\ r = [op |-> "step", role |-> role, order |-> o, from |-> from, to |-> to]
    OBVIOUS
  <2>2. /\ Goes(s, r) /\ UNCHANGED <<closings, orders, trail, payments>>
        /\ to # None /\ MayWrite(role, orders[o].night)
    BY <2>r, <2>1, MayEdit DEF EditableUncanceled, Editable, MayWrite
  <2>3. InFlow(orders[o].type, to)
    BY <2>r, <2>2 DEF StepStatus, InFlow, ToSet
  <2>4. ReadStands(r)'
    BY <2>r, <2>2, <2>3 DEF ReadStands, StepStands, MayWrite
  <2> QED
    BY <2>2, <2>4, GoesOn
<1>6. CASE CommitStep(s)
  BY <1>6, StepSound
<1>7. CASE StaleStep(s)
  BY <1>7, AnswersSound DEF StaleStep
<1>8. CASE BeginCancel(s)
  <2>1. PICK role \in Roles, o \in Placed : BeginCancel(s)!(role, o)
    BY <1>8 DEF BeginCancel
  <2>r. PICK auth, r :
          /\ auth = ManagerAuthorized(role, orders[o].createdAt, orders[o].status, now)
          /\ r = [op |-> "cancel", role |-> role, order |-> o, auth |-> auth]
    OBVIOUS
  <2>2. /\ Goes(s, r) /\ UNCHANGED <<closings, orders, trail, payments>>
        /\ NoFiadoPayment(o) /\ MayWrite(role, orders[o].night)
    BY <2>r, <2>1, MayEdit DEF EditableUncanceled, Editable, MayWrite
  <2>3. CancelStands(r)'
    BY <2>r, <2>2, MoneyStays DEF CancelStands, MayWrite, NoFiadoPayment, IsFiado
  <2>4. ReadStands(r)'
    BY <2>r, <2>3 DEF ReadStands
  <2> QED
    BY <2>2, <2>4, GoesOn
<1>9. CASE CommitCancel(s)
  BY <1>9, CancelSound
<1>10. CASE BeginRestore(s)
  <2>1. PICK o \in Placed : BeginRestore(s)!(o)
    BY <1>10 DEF BeginRestore
  <2>r. PICK r :
          r = [op |-> "restore", role |-> "ADMIN", order |-> o]
    OBVIOUS
  <2>2. ReadStands(r)'
    BY <2>r DEF ReadStands
  <2> QED
    BY <2>r, <2>1, <2>2, GoesOn
<1>11. CASE CommitRestore(s)
  BY <1>11, RestoreSound
<1> QED
  BY <1>1, <1>2, <1>3, <1>4, <1>5, <1>6, <1>7, <1>8, <1>9, <1>10, <1>11 DEF OrderNext

(***************************************************************************)
(* The requests of FiadoDesk.                                              *)
(***************************************************************************)

\* One payment is written: the other payments, and the orders it does not pay,
\* have the money they had.
LEMMA OnePayment ==
  ASSUME TypeOK, TypeOK', NEW p \in Payments, NEW r \in Payment,
         payments' = [payments EXCEPT ![p] = r],
         p \in Received => payments[p].order = r.order
  PROVE  /\ p \in Received' /\ Receipts'[p] = r.amount /\ r.amount \in Nat
         /\ ActivePayments(r.order)' =
              IF r.canceled THEN ActivePayments(r.order) \ {p}
              ELSE ActivePayments(r.order) \cup {p}
         /\ \A o : \A q \in ActivePayments(o) \ {p} : Receipts'[q] = Receipts[q]
         /\ \A o : o # r.order => /\ ActivePayments(o)' = ActivePayments(o)
                                  /\ PaidTotal(o)' = PaidTotal(o)
<1>1. payments'[p] = r /\ \A q \in Payments \ {p} : payments'[q] = payments[q]
  BY DEF TypeOK
<1>2. r # NoPayment
  BY NoRowAssumption
<1>3. p \in Received' /\ \A q \in Payments \ {p} : q \in Received' <=> q \in Received
  BY <1>1, <1>2 DEF Received
<1>4. Receipts'[p] = r.amount /\ r.amount \in Nat
  BY <1>1, <1>3 DEF Receipts, Payment
<1>5. \A q \in Received \ {p} : q \in Received' /\ Receipts'[q] = Receipts[q]
  BY <1>1, <1>3 DEF Received, Receipts
<1>6. ActivePayments(r.order)' = IF r.canceled THEN ActivePayments(r.order) \ {p}
                                 ELSE ActivePayments(r.order) \cup {p}
  BY <1>1, <1>3 DEF ActivePayments, Received
<1>7. ASSUME NEW o, o # r.order
      PROVE  ActivePayments(o)' = ActivePayments(o) /\ p \notin ActivePayments(o)
  BY <1>1, <1>3, <1>7 DEF ActivePayments, Received
<1>8. \A o : ActivePayments(o) \subseteq Received
  BY DEF ActivePayments
<1>9. ASSUME NEW o, o # r.order
      PROVE  PaidTotal(o)' = PaidTotal(o)
  <2>1. \A q \in ActivePayments(o) : Receipts[q] = Receipts'[q]
    BY <1>5, <1>7, <1>8, <1>9
  <2>2. IsFiniteSet(ActivePayments(o))
    BY PaidType
  <2>3. SumOf(Receipts', ActivePayments(o)) = SumOf(Receipts, ActivePayments(o))
    BY <2>1, <2>2, SumOfSame
  <2> QED
    BY <1>7, <1>9, <2>3 DEF PaidTotal
<1> QED
  BY <1>3, <1>4, <1>5, <1>6, <1>7, <1>8, <1>9

\* A receipt adds its amount to what is paid of its order.
LEMMA PaidMore ==
  ASSUME TypeOK, TypeOK', NEW p \in Payments \ Received, NEW r \in Payment, ~r.canceled,
         payments' = [payments EXCEPT ![p] = r]
  PROVE  PaidTotal(r.order)' = PaidTotal(r.order) + r.amount
<1> DEFINE A == ActivePayments(r.order)
<1>1. /\ ActivePayments(r.order)' = A \cup {p} /\ Receipts'[p] = r.amount
      /\ \A q \in A \ {p} : Receipts'[q] = Receipts[q]
  BY OnePayment
<1>2. p \notin A
  BY DEF ActivePayments
<1>3. IsFiniteSet(A) /\ PaidTotal(r.order) \in Nat
  BY PaidType
<1>4. \A q \in A \cup {p} : Receipts'[q] \in Int
  BY <1>1, PaidType DEF Payment
<1> HIDE DEF A
<1>5. SumOf(Receipts', A \cup {p}) = Receipts'[p] + SumOf(Receipts', A)
  BY <1>2, <1>3, <1>4, SumOfAdd
<1>6. SumOf(Receipts', A) = SumOf(Receipts, A)
  BY <1>1, <1>2, <1>3, SumOfSame
<1>7. PaidTotal(r.order)' = r.amount + PaidTotal(r.order)
  BY <1>1, <1>5, <1>6 DEF A, PaidTotal
<1>8. r.amount \in Nat
  BY DEF Payment
<1> QED
  BY <1>3, <1>7, <1>8

\* A refund never leaves more paid of its order than before.
LEMMA PaidLess ==
  ASSUME TypeOK, TypeOK', NEW p \in Received, NEW r \in Payment, r.canceled,
         r.order = payments[p].order,
         payments' = [payments EXCEPT ![p] = r]
  PROVE  /\ PaidTotal(r.order)' \in Nat
         /\ PaidTotal(r.order)' <= PaidTotal(r.order)
<1> DEFINE A == ActivePayments(r.order)
<1>1. p \in Payments
  BY DEF Received
<1>2. /\ ActivePayments(r.order)' = A \ {p}
      /\ \A q \in A \ {p} : Receipts'[q] = Receipts[q]
  BY <1>1, OnePayment
<1>3. /\ IsFiniteSet(A) /\ PaidTotal(r.order) \in Nat
      /\ \A q \in A : Receipts[q] \in Nat
  BY PaidType
<1> HIDE DEF A
<1>4. IsFiniteSet(A \ {p})
  BY <1>3, FS_Subset
<1>5. SumOf(Receipts', A \ {p}) = SumOf(Receipts, A \ {p})
  BY <1>2, <1>4, SumOfSame
<1>6. PaidTotal(r.order)' = SumOf(Receipts, A \ {p})
  BY <1>2, <1>5 DEF A, PaidTotal
<1>7. CASE p \in A
  <2>1. /\ SumOf(Receipts, A \ {p}) \in Nat
        /\ SumOf(Receipts, A) = Receipts[p] + SumOf(Receipts, A \ {p})
    BY <1>3, <1>7, SumOfTerm
  <2> QED
    BY <1>3, <1>6, <1>7, <2>1 DEF A, PaidTotal
<1>8. CASE p \notin A
  <2>1. A \ {p} = A
    BY <1>8
  <2> QED
    BY <1>3, <1>6, <2>1 DEF A, PaidTotal
<1> QED
  BY <1>7, <1>8

\* A transaction of FiadoDesk writes one payment and no order.
LEMMA OnePaymentSound ==
  ASSUME PInv, IInv', OneAtATime, NEW s \in Sessions, Answers(s),
         NEW p \in Payments, NEW r \in Payment, r.order \in Placed,
         payments' = [payments EXCEPT ![p] = r],
         p \in Received => payments[p].order = r.order,
         UNCHANGED orders, NEW e \in Event, Recorded(r.order, e),
         e.kind \in {"FIADO_PAYMENT", "FIADO_PAYMENT_CANCELED"},
         FiadoFits(r.order)'
  PROVE  PInv'
<1> DEFINE o == r.order
<1>1. o \in Orders /\ o \in Placed' /\ Sound(o)
  BY DEF Placed, PInv, AllSound
<1>2. \A q \in Orders \ {o} : /\ orders'[q] = orders[q]
                             /\ ActivePayments(q)' = ActivePayments(q)
                             /\ PaidTotal(q)' = PaidTotal(q)
  BY OnePayment DEF PInv, IInv
<1>3. Fits(o)'
  BY <1>1 DEF Sound, Fits
<1>4. SnapshotOf(orders[o])' = SnapshotOf(orders[o])
  BY DEF SnapshotOf
<1> HIDE DEF o
<1>5. Chained(o)'
  BY <1>4, ChainStands DEF o
<1>6. Sound(o)'
  BY <1>3, <1>5 DEF o, Sound
<1> QED
  BY <1>1, <1>2, <1>6, OneOrderSound DEF o

\* So does a receipt: what is left of the order was read before and still is.
LEMMA ReceiveSound ==
  ASSUME PInv, IInv', OneAtATime, NEW s \in Sessions, NEW p \in Payments \ Received,
         CommitReceive(s)!(p)
  PROVE  PInv'
<1>1. PICK o, r : /\ o = req[s].order
                  /\ r = [order |-> o, amount |-> req[s].amount, night |-> req[s].night,
                          createdAt |-> now, canceled |-> FALSE]
  OBVIOUS
<1> DEFINE e == [kind |-> "FIADO_PAYMENT"]
<1>2. /\ payments' = [payments EXCEPT ![p] = r] /\ Recorded(o, e) /\ Answers(s)
      /\ UNCHANGED orders
  BY <1>1
<1>3. /\ o \in Orders /\ req[s].amount \in Nat \ {0} /\ req[s].night \in Dates
      /\ req[s].op = "createPayment" /\ o \in Placed /\ now \in Nat
  BY <1>1, RequestType DEF PInv, IInv, TypeOK, ReferencesHold, RequestHolds
<1>4. r \in Payment /\ ~r.canceled /\ r.order = o /\ r.amount = req[s].amount
  BY <1>1, <1>3 DEF Payment
<1>5. e \in Event /\ e.kind = "FIADO_PAYMENT"
  BY DEF Event
<1>6. ReceiptStands(req[s]) /\ Sound(o)
  BY <1>3 DEF PInv, ReadsStand, ReadStands, AllSound
<1> HIDE DEF e
<1>7. PaidTotal(o)' = PaidTotal(o) + r.amount
  <2>1. PaidTotal(r.order)' = PaidTotal(r.order) + r.amount
    BY <1>2, <1>4, PaidMore DEF PInv, IInv
  <2> QED
    BY <1>4, <2>1
<1>8. FiadoFits(o)'
  <2>1. orders[o].amount \in Nat /\ PaidTotal(o) \in Nat
    BY <1>3, PlacedType, PaidType, OrderAssumption DEF PInv, IInv, Order
  <2>2. IsFiado(o) /\ ~orders[o].canceled /\ r.amount \in 1 .. Remaining(o)
    BY <1>1, <1>4, <1>6 DEF ReceiptStands, WithinRemaining
  <2>3. PaidTotal(o) + r.amount <= orders[o].amount
    BY <2>1, <2>2 DEF Remaining
  <2> QED
    BY <1>2, <1>6, <1>7, <2>2, <2>3 DEF FiadoFits, IsFiado, Sound
<1> QED
  BY <1>2, <1>3, <1>4, <1>5, <1>8, OnePaymentSound

\* So does a refund, which lowers what was paid.
LEMMA RefundSound ==
  ASSUME PInv, IInv', OneAtATime, NEW s \in Sessions, CommitRefund(s)
  PROVE  PInv'
<1>1. PICK p, o, r : /\ p = req[s].payment /\ o = payments[p].order
                     /\ r = [payments[p] EXCEPT !.canceled = TRUE]
  OBVIOUS
<1> DEFINE e == [kind |-> "FIADO_PAYMENT_CANCELED", auth |-> req[s].auth]
<1>2. p \in Received /\ req[s].auth \in BOOLEAN
  BY <1>1, RequestType DEF CommitRefund, PInv, IInv, ReferencesHold, RequestHolds
<1>3. payments[p] \in Payment /\ p \in Payments
  BY <1>2, PaymentType DEF PInv, IInv
<1>4. r \in Payment /\ r.canceled /\ r.order = o
  BY <1>1, <1>3 DEF Payment
<1>5. /\ payments' = [payments EXCEPT ![p] = r] /\ Recorded(o, e) /\ Answers(s)
      /\ UNCHANGED orders
  BY <1>1 DEF CommitRefund
<1>6. e \in Event /\ e.kind = "FIADO_PAYMENT_CANCELED"
  BY <1>2 DEF Event
<1>7. o \in Placed /\ Sound(o)
  BY <1>1, <1>2 DEF PInv, IInv, ReferencesHold, AllSound
<1> HIDE DEF e
<1>8. PaidTotal(o)' \in Nat /\ PaidTotal(o)' <= PaidTotal(o)
  <2>1. PaidTotal(r.order)' \in Nat /\ PaidTotal(r.order)' <= PaidTotal(r.order)
    BY <1>1, <1>2, <1>4, <1>5, PaidLess DEF PInv, IInv
  <2> QED
    BY <1>4, <2>1
<1>9. ActivePayments(o)' = ActivePayments(o) \ {p}
  BY <1>1, <1>3, <1>4, <1>5, OnePayment DEF PInv, IInv
<1>10. FiadoFits(o)'
  <2>1. orders[o].amount \in Nat /\ PaidTotal(o) \in Nat
    BY <1>7, PlacedType, PaidType, OrderAssumption DEF PInv, IInv, Order
  <2>2. PaidTotal(o)' <= orders[o].amount
    BY <1>7, <1>8, <2>1 DEF Sound, FiadoFits
  <2> QED
    BY <1>5, <1>7, <1>9, <2>2 DEF FiadoFits, IsFiado, Sound
<1> QED
  BY <1>1, <1>3, <1>4, <1>5, <1>6, <1>7, <1>10, OnePaymentSound

\* So does another day for a fiado order.
LEMMA RescheduleSound ==
  ASSUME PInv, IInv', OneAtATime, NEW s \in Sessions, CommitReschedule(s)
  PROVE  PInv'
<1>0. PICK o : o = req[s].order
  OBVIOUS
<1> DEFINE r == req[s]
           row == [orders[o] EXCEPT !.due = r.to]
           e == [kind |-> "FIADO_DUE_DATE", from |-> r.from, to |-> r.to]
<1>1. /\ orders' = [orders EXCEPT ![o] = row]
      /\ Recorded(o, e) /\ Answers(s) /\ UNCHANGED payments
  BY <1>0 DEF CommitReschedule
<1>2. /\ r.op = "reschedule" /\ o \in Placed
      /\ r.from \in DueDates \cup {None} /\ r.to \in DueDates \cup {None}
  BY <1>0, RequestType DEF CommitReschedule, PInv, IInv, ReferencesHold, RequestHolds
<1>3. o \in Orders /\ orders[o] \in Order /\ row \in Order
  BY <1>2, PlacedType, OrderUpdated DEF PInv, IInv
<1>4. orders'[o] = row
  BY <1>1, <1>3 DEF PInv, IInv, TypeOK
<1>5. e \in Event /\ e.kind = "FIADO_DUE_DATE"
  BY <1>2 DEF Event
<1>6. DueDateStands(r) /\ Sound(o)
  BY <1>0, <1>2 DEF PInv, ReadsStand, ReadStands, AllSound
<1>7. /\ row.type = orders[o].type /\ row.method = orders[o].method
      /\ row.amount = orders[o].amount /\ row.due = r.to
      /\ row.status = orders[o].status
      /\ row.night = orders[o].night /\ row.canceled = orders[o].canceled
  BY <1>3 DEF Order
<1> HIDE DEF row, e
<1>8. Fits(o)'
  BY <1>4, <1>6, <1>7 DEF Fits, Sound
<1>9. FiadoFits(o)'
  BY <1>0, <1>1, <1>4, <1>6, <1>7, MoneyStays
  DEF Sound, FiadoFits, IsFiado, DueDateStands, DueNotBefore
<1>10. SnapshotOf(orders[o])' = SnapshotOf(orders[o])
  BY <1>4, <1>7 DEF SnapshotOf
<1>11. Chained(o)'
  BY <1>1, <1>2, <1>4, <1>5, <1>7, <1>10, ChainStands
<1> QED
  BY <1>1, <1>3, <1>5, <1>8, <1>9, <1>11, OneRowSound

\* So does each step of the fiado desk.
LEMMA FiadoDeskSound ==
  ASSUME PInv, IInv', OneAtATime, NEW s \in Sessions, FiadoNext(s)
  PROVE  PInv'
<1>1. CASE BeginReceive(s)
  <2>1. PICK role \in Roles, o \in Placed : BeginReceive(s)!(role, o)
    BY <1>1 DEF BeginReceive
  <2>2. PICK amount \in 1 .. orders[o].amount :
          /\ WithinRemaining(o, amount)
          /\ Goes(s, [op |-> "receive", role |-> role, order |-> o, amount |-> amount])
    BY <2>1
  <2>r. PICK r :
          r = [op |-> "receive", role |-> role, order |-> o, amount |-> amount]
    OBVIOUS
  <2>3. ReceiptStands(r)'
    BY <2>r, <2>1, <2>2, MoneyStays DEF ReceiptStands, IsFiado, WithinRemaining, Remaining
  <2>4. ReadStands(r)'
    BY <2>r, <2>3 DEF ReadStands
  <2> QED
    BY <2>r, <2>1, <2>2, <2>4, GoesOn
<1>2. CASE ResolveReceiveNight(s)
  <2>1. PICK raw \in Dates \cup {None} : ResolveReceiveNight(s)!(raw)
    BY <1>2 DEF ResolveReceiveNight
  <2>r. PICK d, r :
          /\ d = SelectedDate(raw)
          /\ r = [op |-> "createPayment", role |-> req[s].role, order |-> req[s].order,
                   amount |-> req[s].amount, night |-> d]
    OBVIOUS
  <2>2. /\ req[s].op = "receive" /\ Goes(s, r) /\ UNCHANGED <<orders, trail, payments>>
        /\ CanEditClosing(req[s].role, d, closings'[d].status, now)
    BY <2>r, <2>1
  <2>3. ReceiptStands(req[s])
    BY <2>r, <2>2 DEF PInv, ReadsStand, ReadStands
  <2>4. ReceiptStands(r)'
    BY <2>r, <2>2, <2>3, MoneyStays DEF ReceiptStands, IsFiado, WithinRemaining, Remaining
  <2>5. ReadStands(r)'
    BY <2>r, <2>2, <2>4, MayEdit DEF ReadStands, MayWrite
  <2> QED
    BY <2>2, <2>5, GoesOn
<1>3. CASE CommitReceive(s)
  BY <1>3, ReceiveSound DEF CommitReceive
<1>4. CASE BeginRefund(s)
  <2>1. PICK role \in Roles, p \in Received : BeginRefund(s)!(role, p)
    BY <1>4 DEF BeginRefund
  <2>r. PICK auth, r :
          /\ auth = ManagerAuthorized(role, payments[p].createdAt, "PREPARING", now)
          /\ r = [op |-> "refund", role |-> role, payment |-> p, auth |-> auth]
    OBVIOUS
  <2>2. /\ Goes(s, r) /\ UNCHANGED <<closings, orders, trail, payments>>
        /\ MayWrite(role, payments[p].night)
    BY <2>r, <2>1, MayEdit DEF MayWrite
  <2>3. ReadStands(r)'
    BY <2>r, <2>2 DEF ReadStands, MayWrite
  <2> QED
    BY <2>2, <2>3, GoesOn
<1>5. CASE CommitRefund(s)
  BY <1>5, RefundSound
<1>6. CASE StaleRefund(s)
  BY <1>6, AnswersSound DEF StaleRefund
<1>7. CASE BeginReschedule(s)
  <2>1. PICK role \in Roles, o \in Placed, due \in DueDates \cup {None} :
          BeginReschedule(s)!(role, o, due)
    BY <1>7 DEF BeginReschedule
  <2>r. PICK r :
          r = [op |-> "reschedule", role |-> role, order |-> o,
                   from |-> orders[o].due, to |-> due]
    OBVIOUS
  <2>2. DueDateStands(r)'
    BY <2>r, <2>1 DEF DueDateStands, IsFiado
  <2>3. ReadStands(r)'
    BY <2>r, <2>2 DEF ReadStands
  <2> QED
    BY <2>r, <2>1, <2>3, GoesOn
<1>8. CASE CommitReschedule(s)
  BY <1>8, RescheduleSound
<1> QED
  BY <1>1, <1>2, <1>3, <1>4, <1>5, <1>6, <1>7, <1>8 DEF FiadoNext

(***************************************************************************)
(* Every step keeps the promises.                                          *)
(***************************************************************************)
LEMMA StepKeepsSound ==
  ASSUME PInv, OneAtATime, [Next]_vars
  PROVE  PInv'
<1>1. IInv'
  BY StepKeeps DEF PInv
<1>2. CASE Tick \/ UNCHANGED vars
  <2>1. UNCHANGED <<closings, orders, trail, payments, req>>
    BY <1>2 DEF Tick, vars
  <2>2. Placed' = Placed
    BY <2>1 DEF Placed
  <2>3. AllSound'
    BY <2>1, <2>2, MoneyStays, SoundStays DEF PInv, AllSound
  <2>4. ASSUME NEW s \in Sessions PROVE ReadStands(req[s])'
    <3>1. ReadStands(req[s])
      BY DEF PInv, ReadsStand
    <3> QED
      BY <2>1, <2>2, <3>1, MoneyStays
      DEF ReadStands, CreateStands, ReplaceStands, StepStands, CancelStands, ReceiptStands,
          DueDateStands, MayWrite, NoFiadoPayment, IsFiado, WithinRemaining, Remaining,
          OpenTabs
  <2> QED
    BY <1>1, <2>1, <2>2, <2>3, <2>4 DEF PInv, NoEventBefore, ReadsStand
<1>3. ASSUME NEW s \in Sessions, ClosingNext(s) \/ OrderNext(s) \/ FiadoNext(s) \/ Abandon(s)
      PROVE  PInv'
  BY <1>1, <1>3, ClosingSound, OrderSound, FiadoDeskSound, AnswersSound DEF Abandon
<1> QED
  BY <1>2, <1>3 DEF Next

(***************************************************************************)
(* While no two requests overlap, what each handler read still stands when *)
(* it writes, and every order is sound, for any number of orders, payments *)
(* and nights.                                                             *)
(***************************************************************************)
THEOREM PromisesKept == ASSUME OneAtATime PROVE Spec => []PInv
<1>1. PInv /\ [Next]_vars => PInv'
  BY StepKeepsSound
<1> QED
  BY <1>1, InitSound, PTL DEF Spec

\* An order's status belongs to its type's flow (StatusFitsType).
THEOREM StatusesFit == ASSUME OneAtATime PROVE Spec => []StatusFitsType
<1>1. PInv => StatusFitsType
  BY DEF PInv, AllSound, Sound, Fits, StatusFitsType
<1> QED
  BY <1>1, PromisesKept, PTL

\* Fiado is never overpaid, a paid order stands, a promised day fits (FiadoSound).
THEOREM FiadoIsSound == ASSUME OneAtATime PROVE Spec => []FiadoSound
<1>1. PInv => FiadoSound
  BY DEF PInv, AllSound, Sound, FiadoFits, FiadoSound, FiadoNeverOverpaid, PaidOrderStands,
         PromisedDayFits
<1> QED
  BY <1>1, PromisesKept, PTL

\* The trail reads as a chain and tells what is canceled (TrailChains).
THEOREM TrailsChain == ASSUME OneAtATime PROVE Spec => []TrailChains
<1>1. PInv => TrailChains
  BY DEF PInv, AllSound, Sound, Chained, TrailChains
<1> QED
  BY <1>1, PromisesKept, PTL

-----------------------------------------------------------------------------
(***************************************************************************)
(* Who writes what, however the requests overlap.                          *)
(***************************************************************************)

\* Only markClosed closes a night.
LEMMA WhoCloses ==
  ASSUME IInv, [Next]_vars, NEW d \in Dates,
         closings[d].status # "CLOSED", closings'[d].status = "CLOSED"
  PROVE  \E s \in Sessions : MarkClosed(s) /\ req[s].night = d
<1> USE DEF IInv
<1>1. closings' # closings
  OBVIOUS
<1>2. \A n \in Dates : closings' # GotOrCreated(n)
  BY ClosedStay
<1>3. PICK s \in Sessions : ClosingNext(s) \/ OrderNext(s) \/ FiadoNext(s)
  BY <1>1 DEF Next, Tick, vars, Abandon
<1>4. CASE ClosingNext(s)
  <2>1. ~MarkReopened(s)
    <3> SUFFICES ASSUME MarkReopened(s) PROVE FALSE
      OBVIOUS
    <3>1. req[s].night \in Dates
      BY RequestType DEF MarkReopened
    <3> QED
      BY <3>1 DEF MarkReopened, TypeOK, Closing
  <2>2. MarkClosed(s)
    BY <1>1, <1>2, <1>4, <2>1
    DEF ClosingNext, BeginClose, BeginCloseByDate, CheckOpenTabs, BeginReopen
  <2>3. req[s].night \in Dates
    BY <2>2, RequestType DEF MarkClosed
  <2> QED
    BY <2>2, <2>3 DEF MarkClosed, TypeOK, Closing
<1>5. CASE OrderNext(s)
  <2>1. PICK o \in Orders \ Placed : CommitCreate(s)!(o)
    BY <1>1, <1>2, <1>5
    DEF OrderNext, BeginCreate, CommitCreate, BeginReplace, CommitReplace, BeginStep, CommitStep,
        StaleStep, BeginCancel, CommitCancel, BeginRestore, CommitRestore
  <2> QED
    BY <2>1 DEF TypeOK, Closing
<1>6. CASE FiadoNext(s)
  BY <1>1, <1>2, <1>6
  DEF FiadoNext, BeginReceive, ResolveReceiveNight, CommitReceive, BeginRefund, CommitRefund,
      StaleRefund, BeginReschedule, CommitReschedule
<1> QED
  BY <1>3, <1>4, <1>5, <1>6

\* Who changes an order that is there: the closing of its night, or a request of its own.
LEMMA WhoWritesOrder ==
  ASSUME IInv, [Next]_vars, NEW o \in Placed, orders'[o] # orders[o]
  PROVE  \E s \in Sessions :
            \/ MarkClosed(s) /\ orders[o].night = req[s].night
            \/ /\ req[s].order = o
               /\ \/ CommitReplace(s) \/ CommitStep(s) \/ CommitCancel(s)
                  \/ CommitRestore(s) \/ CommitReschedule(s)
<1> USE DEF IInv
<1>1. o \in Orders /\ orders' # orders
  BY DEF Placed
<1>2. PICK s \in Sessions : ClosingNext(s) \/ OrderNext(s) \/ FiadoNext(s)
  BY <1>1 DEF Next, Tick, vars, Abandon
<1>3. CASE ClosingNext(s)
  <2>1. MarkClosed(s)
    BY <1>1, <1>3
    DEF ClosingNext, BeginClose, BeginCloseByDate, CheckOpenTabs, BeginReopen, MarkReopened
  <2> QED
    BY <1>1, <2>1 DEF MarkClosed
<1>4. CASE OrderNext(s)
  <2>1. ~CommitCreate(s)
    BY <1>1 DEF CommitCreate, TypeOK
  <2>2. CommitReplace(s) \/ CommitStep(s) \/ CommitCancel(s) \/ CommitRestore(s)
    BY <1>1, <1>4, <2>1
    DEF OrderNext, BeginCreate, BeginReplace, BeginStep, StaleStep, BeginCancel, BeginRestore
  <2>3. req[s].order = o
    BY <1>1, <2>2 DEF CommitReplace, CommitStep, CommitCancel, CommitRestore, TypeOK
  <2> QED
    BY <2>2, <2>3
<1>5. CASE FiadoNext(s)
  <2>1. CommitReschedule(s)
    BY <1>1, <1>5
    DEF FiadoNext, BeginReceive, ResolveReceiveNight, CommitReceive, BeginRefund, CommitRefund,
        StaleRefund, BeginReschedule
  <2> QED
    BY <1>1, <2>1 DEF CommitReschedule, TypeOK
<1> QED
  BY <1>2, <1>3, <1>4, <1>5

\* Who inserts an order: a launch, on the night it asked for.
LEMMA WhoInsertsOrder ==
  ASSUME IInv, [Next]_vars, NEW o \in Orders \ Placed, orders'[o] # orders[o]
  PROVE  \E s \in Sessions : req[s].op = "create" /\ orders'[o].night = req[s].night
<1> USE DEF IInv
<1>1. orders' # orders
  OBVIOUS
<1>2. PICK s \in Sessions : ClosingNext(s) \/ OrderNext(s) \/ FiadoNext(s)
  BY <1>1 DEF Next, Tick, vars, Abandon
<1>3. ~ClosingNext(s)
  BY <1>1 DEF ClosingNext, BeginClose, BeginCloseByDate, CheckOpenTabs, MarkClosed, BeginReopen,
              MarkReopened
<1>4. \A q \in Orders : \A r : orders' = [orders EXCEPT ![q] = r] => q = o
  BY DEF TypeOK
<1>5. /\ req[s].op \in {"replace", "step", "cancel", "restore", "reschedule"}
           => req[s].order \in Orders /\ req[s].order # o
  BY DEF ReferencesHold, RequestHolds, Placed
<1>6. ~FiadoNext(s)
  BY <1>1, <1>4, <1>5
  DEF FiadoNext, BeginReceive, ResolveReceiveNight, CommitReceive, BeginRefund, CommitRefund,
      StaleRefund, BeginReschedule, CommitReschedule
<1>7. CommitCreate(s)
  <2>1. OrderNext(s)
    BY <1>2, <1>3, <1>6
  <2> QED
    BY <1>1, <1>4, <1>5, <2>1
    DEF OrderNext, BeginCreate, BeginReplace, CommitReplace, BeginStep, CommitStep,
        StaleStep, BeginCancel, CommitCancel, BeginRestore, CommitRestore
<1>8. PICK q \in Orders \ Placed : CommitCreate(s)!(q)
  BY <1>7 DEF CommitCreate
<1>9. q = o
  BY <1>4, <1>8
<1> QED
  BY <1>8, <1>9 DEF TypeOK

\* Who changes a payment: the receipt that inserts it, on the night it asked
\* for, or a refund of it.
LEMMA WhoWritesPayment ==
  ASSUME IInv, [Next]_vars, NEW p \in Payments, payments'[p] # payments[p]
  PROVE  \E s \in Sessions :
            \/ req[s].op = "createPayment" /\ payments'[p].night = req[s].night
            \/ /\ req[s].op = "refund" /\ req[s].payment = p
               /\ payments'[p].night = payments[p].night
<1> USE DEF IInv
<1>1. payments' # payments
  OBVIOUS
<1>2. PICK s \in Sessions : ClosingNext(s) \/ OrderNext(s) \/ FiadoNext(s)
  BY <1>1 DEF Next, Tick, vars, Abandon
<1>3. ~ClosingNext(s) /\ ~OrderNext(s)
  BY <1>1
  DEF ClosingNext, BeginClose, BeginCloseByDate, CheckOpenTabs, MarkClosed, BeginReopen,
      MarkReopened, OrderNext, BeginCreate, CommitCreate, BeginReplace, CommitReplace,
      BeginStep, CommitStep, StaleStep, BeginCancel, CommitCancel, BeginRestore, CommitRestore
<1>4. CommitReceive(s) \/ CommitRefund(s)
  BY <1>1, <1>2, <1>3
  DEF FiadoNext, BeginReceive, ResolveReceiveNight, BeginRefund, StaleRefund, BeginReschedule,
      CommitReschedule
<1>5. CASE CommitReceive(s)
  BY <1>5 DEF CommitReceive, TypeOK
<1>6. CASE CommitRefund(s)
  <2>1. req[s].op = "refund" /\ req[s].payment = p
    BY <1>6 DEF CommitRefund, TypeOK
  <2>2. p \in Received
    BY <2>1 DEF ReferencesHold, RequestHolds
  <2> QED
    BY <1>6, <2>1, <2>2, PaymentType DEF CommitRefund, TypeOK, Payment
<1> QED
  BY <1>4, <1>5, <1>6

(***************************************************************************)
(* What a step may never do, while requests do not overlap.                *)
(***************************************************************************)

\* At the moment a night becomes closed it has no open tab (NoCloseWithOpenTab).
THEOREM NeverClosesWithOpenTab == ASSUME OneAtATime PROVE Spec => NoCloseWithOpenTab
<1> DEFINE Closes == \A d \in Dates :
              closings[d].status # "CLOSED" /\ closings'[d].status = "CLOSED"
              => OpenTabs(d) = {}
<1>1. PInv /\ [Next]_vars => Closes
  <2> SUFFICES ASSUME PInv, [Next]_vars, NEW d \in Dates,
                      closings[d].status # "CLOSED", closings'[d].status = "CLOSED"
               PROVE  OpenTabs(d) = {}
    OBVIOUS
  <2>1. PICK s \in Sessions : MarkClosed(s) /\ req[s].night = d
    BY WhoCloses DEF PInv
  <2> QED
    BY <2>1 DEF MarkClosed, PInv, ReadsStand, ReadStands
<1>2. PInv /\ [Next]_vars => [Closes]_vars
  BY <1>1
<1> QED
  BY <1>2, PromisesKept, PTL DEF Spec, NoCloseWithOpenTab

\* On a closed night every step that touches it is of the admin's request.
LEMMA TouchedByAdmin ==
  ASSUME PInv, OneAtATime, [Next]_vars, NEW d \in Dates, NEW s \in Sessions,
         closings[d].status = "CLOSED", TouchesNight(d)
  PROVE  req[s].role = "ADMIN"
<1> USE DEF PInv
<1>1. \A t \in Sessions : t = s
  BY DEF OneAtATime
<1>2. ReadStands(req[s])
  BY DEF ReadsStand
<1>3. CASE \E p \in Payments : payments'[p] # payments[p] /\ payments'[p].night = d
  <2>1. PICK p \in Payments : payments'[p] # payments[p] /\ payments'[p].night = d
    BY <1>3
  <2>2. \/ req[s].op = "createPayment" /\ d = req[s].night
        \/ req[s].op = "refund" /\ payments[req[s].payment].night = d
    BY <1>1, <2>1, WhoWritesPayment
  <2> QED
    BY <1>2, <2>2 DEF ReadStands, MayWrite
<1>4. ASSUME NEW o \in Orders, orders'[o] # orders[o], orders'[o].night = d,
             o \in Placed => orders'[o] # [orders[o] EXCEPT !.due = orders'[o].due]
      PROVE  req[s].role = "ADMIN"
  <2>1. CASE o \notin Placed
    <3>1. req[s].op = "create" /\ d = req[s].night
      BY <1>1, <1>4, <2>1, WhoInsertsOrder
    <3> QED
      BY <1>2, <3>1 DEF ReadStands, CreateStands, MayWrite
  <2>2. CASE o \in Placed
    <3>1. orders[o].night = d
      BY <1>4, <2>2, StepKeeps DEF RowsStay, OrdersStay
    <3>2. CASE MarkClosed(s) /\ orders[o].night = req[s].night
      BY <1>2, <3>1, <3>2 DEF MarkClosed, ReadStands
    <3>3. CASE req[s].order = o /\ CommitReplace(s)
      BY <1>2, <3>1, <3>3 DEF CommitReplace, ReadStands, ReplaceStands, MayWrite
    <3>4. CASE req[s].order = o /\ CommitStep(s)
      BY <1>2, <3>1, <3>4 DEF CommitStep, ReadStands, StepStands, MayWrite
    <3>5. CASE req[s].order = o /\ CommitCancel(s)
      BY <1>2, <3>1, <3>5 DEF CommitCancel, ReadStands, CancelStands, MayWrite
    <3>6. CASE req[s].order = o /\ CommitRestore(s)
      BY <1>2, <3>6 DEF CommitRestore, ReadStands
    <3>7. ~(req[s].order = o /\ CommitReschedule(s))
      <4> SUFFICES ASSUME req[s].order = o, CommitReschedule(s) PROVE FALSE
        OBVIOUS
      <4>1. orders'[o] = [orders[o] EXCEPT !.due = req[s].to]
        BY DEF CommitReschedule, IInv, TypeOK
      <4>2. orders[o] \in Order
        BY <2>2, PlacedType DEF IInv
      <4>3. orders'[o].due = req[s].to
        BY <4>1, <4>2 DEF Order
      <4> QED
        BY <1>4, <2>2, <4>1, <4>3
    <3> QED
      BY <1>1, <1>4, <2>2, <3>2, <3>3, <3>4, <3>5, <3>6, <3>7, WhoWritesOrder
  <2> QED
    BY <2>1, <2>2
<1> QED
  BY <1>3, <1>4 DEF TouchesNight

\* While a night is closed only the admin changes its orders and its fiado money,
\* the promised day apart (ClosedNightIsAdmins).
THEOREM ClosedNightsAreAdmins == ASSUME OneAtATime PROVE Spec => ClosedNightIsAdmins
<1> DEFINE Touches == \A d \in Dates, s \in Sessions :
              /\ closings[d].status = "CLOSED"
              /\ TouchesNight(d)
              /\ req'[s] # req[s]
              => req[s].role = "ADMIN"
<1>1. PInv /\ [Next]_vars => [Touches]_vars
  BY TouchedByAdmin
<1> QED
  BY <1>1, PromisesKept, PTL DEF Spec, ClosedNightIsAdmins

\* A cashier's step that lowers an order, or changes how it was paid, says so.
LEMMA EditAuthorized ==
  ASSUME PInv, OneAtATime, [Next]_vars, NEW o \in Placed, NEW s \in Sessions,
         req[s].role = "CAIXA", orders'[o] # orders[o],
         \/ orders'[o].amount < orders[o].amount
         \/ orders[o].method \notin {None, orders'[o].method},
         orders[o].status # "PREPARING"
  PROVE  trail'[o][Len(trail'[o])].auth
<1> USE DEF PInv, IInv
<1>1. o \in Orders /\ orders[o] \in Order
  BY PlacedType
<1>2. orders[o].amount \in Nat
  BY <1>1, OrderAssumption DEF Order
<1>3. ASSUME NEW r, r.amount = orders[o].amount, r.method = orders[o].method
      PROVE  orders'[o] # r
  BY <1>2, <1>3
<1>4. ASSUME NEW x
       PROVE  /\ orders'[o] # [orders[o] EXCEPT !.status = x]
              /\ orders'[o] # [orders[o] EXCEPT !.canceled = x]
              /\ orders'[o] # [orders[o] EXCEPT !.due = x]
  <2>1. PICK r : r = [orders[o] EXCEPT !.status = x]
    OBVIOUS
  <2>2. PICK q : q = [orders[o] EXCEPT !.canceled = x]
    OBVIOUS
  <2>3. PICK t : t = [orders[o] EXCEPT !.due = x]
    OBVIOUS
  <2>4. r.amount = orders[o].amount /\ r.method = orders[o].method
    BY <1>1, <2>1 DEF Order
  <2>5. q.amount = orders[o].amount /\ q.method = orders[o].method
    BY <1>1, <2>2 DEF Order
  <2>6. t.amount = orders[o].amount /\ t.method = orders[o].method
    BY <1>1, <2>3 DEF Order
  <2> QED
    BY <1>3, <2>1, <2>2, <2>3, <2>4, <2>5, <2>6
<1>5. CommitReplace(s) /\ req[s].order = o
  <2>1. ~MarkClosed(s)
    <3> SUFFICES ASSUME MarkClosed(s) PROVE FALSE
      OBVIOUS
    <3>1. orders'[o] \in {orders[o], [orders[o] EXCEPT !.status = "DELIVERED"]}
      BY <1>1 DEF MarkClosed
    <3> QED
      BY <1>4, <3>1
  <2>2. req[s].order = o => ~CommitStep(s)
    <3>1. CommitStep(s) /\ req[s].order = o => orders'[o] = [orders[o] EXCEPT !.status = req[s].to]
      BY <1>1 DEF CommitStep, TypeOK
    <3> QED
      BY <1>4, <3>1
  <2>3. req[s].order = o => ~CommitCancel(s)
    <3>1. CommitCancel(s) /\ req[s].order = o => orders'[o] = [orders[o] EXCEPT !.canceled = TRUE]
      BY <1>1 DEF CommitCancel, TypeOK
    <3> QED
      BY <1>4, <3>1
  <2>4. req[s].order = o => ~CommitRestore(s)
    <3>1. CommitRestore(s) /\ req[s].order = o => orders'[o] = [orders[o] EXCEPT !.canceled = FALSE]
      BY <1>1 DEF CommitRestore, TypeOK
    <3> QED
      BY <1>4, <3>1
  <2>5. req[s].order = o => ~CommitReschedule(s)
    <3>1. CommitReschedule(s) /\ req[s].order = o => orders'[o] = [orders[o] EXCEPT !.due = req[s].to]
      BY <1>1 DEF CommitReschedule, TypeOK
    <3> QED
      BY <1>4, <3>1
  <2>6. \A t \in Sessions : t = s
    BY DEF OneAtATime
  <2> QED
    BY <2>1, <2>2, <2>3, <2>4, <2>5, <2>6, WhoWritesOrder
<1>6. /\ req[s].op = "replace" /\ req[s].data \in OrderInputs
      /\ req[s].auth \in BOOLEAN /\ req[s].before \in Snapshot
  BY <1>5, RequestType DEF CommitReplace
<1>7. ReplaceStands(req[s])
  BY <1>6 DEF ReadsStand, ReadStands
<1>8. orders'[o].amount = req[s].data.amount /\ orders'[o].method = req[s].data.method
  BY <1>1, <1>5 DEF CommitReplace, TypeOK, Order
<1>9. IsSensitiveEdit(orders[o], req[s].data)
  BY <1>8 DEF IsSensitiveEdit
<1>10. req[s].auth
  BY <1>5, <1>7, <1>9 DEF ReplaceStands
<1>11. trail'[o][Len(trail'[o])].auth = req[s].auth
  <2>1. PICK e \in Event : Recorded(o, e) /\ e.auth = req[s].auth
    <3> DEFINE e == [kind |-> "EDITED", auth |-> req[s].auth, before |-> req[s].before,
                     after |-> SnapshotOf(req[s].data)]
    <3>1. e \in Event
      BY <1>6, InputType DEF Event
    <3>2. Recorded(o, e)
      BY <1>5 DEF CommitReplace
    <3> QED
      BY <3>1, <3>2
  <2>2. trail'[o][Len(trail[o]) + 1] = e /\ Len(trail'[o]) = Len(trail[o]) + 1
    BY <1>1, <2>1, Appended
  <2> QED
    BY <2>1, <2>2
<1> QED
  BY <1>10, <1>11

\* Outside the lock, what a cashier does to the money of an order leaves an event
\* that says the admin's password was used (MoneyEditsAuthorized).
THEOREM MoneyEditsAreAuthorized == ASSUME OneAtATime PROVE Spec => MoneyEditsAuthorized
<1> DEFINE Edits == \A o \in Placed, s \in Sessions :
              /\ req[s] # Idle /\ req'[s] = Idle
              /\ req[s].role = "CAIXA"
              /\ orders'[o] # orders[o]
              /\ \/ orders'[o].amount < orders[o].amount
                 \/ orders[o].method \notin {None, orders'[o].method}
              /\ orders[o].status # "PREPARING"
              => trail'[o][Len(trail'[o])].auth
<1>1. PInv /\ [Next]_vars => [Edits]_vars
  BY EditAuthorized
<1> QED
  BY <1>1, PromisesKept, PTL DEF Spec, MoneyEditsAuthorized

-----------------------------------------------------------------------------
(***************************************************************************)
(* The trail tells the fiado money that came in, however the requests      *)
(* overlap: a receipt inserts one payment and writes one event, and of two *)
(* refunds of a payment only the first finds it and writes its event.      *)
(***************************************************************************)
LEMMA EventsCounted ==
  ASSUME TypeOK, NEW o \in Orders, NEW e \in Event, Recorded(o, e), NEW kind
  PROVE  /\ Cardinality(EventsOf(o, kind)) \in Nat
         /\ Cardinality(EventsOf(o, kind)') =
              IF e.kind = kind THEN Cardinality(EventsOf(o, kind)) + 1
              ELSE Cardinality(EventsOf(o, kind))
<1> DEFINE n == Len(trail[o])
           E == EventsOf(o, kind)
<1>1. /\ E \subseteq 1 .. n
      /\ E' = IF e.kind = kind THEN E \cup {n + 1} ELSE E
  BY EventsGrow
<1>2. n \in Nat
  BY Appended
<1> HIDE DEF n, E
<1>3. IsFiniteSet(E)
  <2>1. 1 \in Int /\ n \in Int
    BY <1>2
  <2>2. IsFiniteSet(1 .. n)
    BY <2>1, FS_Interval, Zenon
  <2> QED
    BY <1>1, <2>2, FS_Subset
<1>4. n + 1 \notin E
  BY <1>1, <1>2
<1> QED
  BY <1>1, <1>3, <1>4, FS_AddElement, FS_CardinalityType DEF E

\* Each step changes both sides of what a trail tells by as much.
LEMMA TellsPaidStays ==
  ASSUME IInv, IInv', TrailTellsPaid, [Next]_vars
  PROVE  TrailTellsPaid'
<1> USE DEF IInv
<1> DEFINE In(o) == Cardinality(EventsOf(o, "FIADO_PAYMENT"))
           Out(o) == Cardinality(EventsOf(o, "FIADO_PAYMENT_CANCELED"))
           Active(o) == Cardinality(ActivePayments(o))
<1>1. ASSUME UNCHANGED <<trail, payments>>
      PROVE  TrailTellsPaid'
  BY <1>1, MoneyStays DEF TrailTellsPaid, EventsOf
<1>2. ASSUME NEW o \in Orders, NEW e \in Event, Recorded(o, e), UNCHANGED payments,
             e.kind \notin {"FIADO_PAYMENT", "FIADO_PAYMENT_CANCELED"}
      PROVE  TrailTellsPaid'
  <2>1. \A q \in Orders :
           /\ EventsOf(q, "FIADO_PAYMENT")' = EventsOf(q, "FIADO_PAYMENT")
           /\ EventsOf(q, "FIADO_PAYMENT_CANCELED")' = EventsOf(q, "FIADO_PAYMENT_CANCELED")
    BY <1>2, EventsGrow
  <2> QED
    BY <1>2, <2>1, MoneyStays DEF TrailTellsPaid
\* what a payment written with its event does to the three counts
<1>3. ASSUME NEW p \in Payments, NEW r \in Payment, r.order \in Orders,
             payments' = [payments EXCEPT ![p] = r],
             p \in Received => payments[p].order = r.order,
             NEW e \in Event, Recorded(r.order, e),
             \/ e.kind = "FIADO_PAYMENT" /\ p \notin Received /\ ~r.canceled
             \/ /\ e.kind = "FIADO_PAYMENT_CANCELED"
                /\ p \in ActivePayments(r.order) /\ r.canceled
      PROVE  TrailTellsPaid'
  <2>1. PICK o : o = r.order /\ o \in Orders /\ Recorded(o, e)
    BY <1>3
  <2>2. ASSUME NEW q \in Orders, q # o
        PROVE  In(q)' - Out(q)' = Active(q)'
    <3>1. /\ EventsOf(q, "FIADO_PAYMENT")' = EventsOf(q, "FIADO_PAYMENT")
          /\ EventsOf(q, "FIADO_PAYMENT_CANCELED")' = EventsOf(q, "FIADO_PAYMENT_CANCELED")
      BY <2>1, <2>2, EventsGrow
    <3>2. ActivePayments(q)' = ActivePayments(q)
      BY <1>3, <2>1, <2>2, OnePayment
    <3> QED
      BY <3>1, <3>2 DEF TrailTellsPaid
  <2>3. /\ In(o) \in Nat /\ Out(o) \in Nat
        /\ In(o)' = IF e.kind = "FIADO_PAYMENT" THEN In(o) + 1 ELSE In(o)
        /\ Out(o)' = IF e.kind = "FIADO_PAYMENT_CANCELED" THEN Out(o) + 1 ELSE Out(o)
    BY <2>1, EventsCounted
  <2>4. ActivePayments(o)' = IF r.canceled THEN ActivePayments(o) \ {p}
                             ELSE ActivePayments(o) \cup {p}
    <3>1. ActivePayments(r.order)' = IF r.canceled THEN ActivePayments(r.order) \ {p}
                                     ELSE ActivePayments(r.order) \cup {p}
      BY <1>3, OnePayment
    <3> QED
      BY <2>1, <3>1
  <2>5. IsFiniteSet(ActivePayments(o)) /\ Active(o) \in Nat
    BY PaidType, FS_CardinalityType
  <2>6. In(o) - Out(o) = Active(o)
    BY <2>1 DEF TrailTellsPaid
  <2>7. CASE e.kind = "FIADO_PAYMENT"
    <3>1. p \notin ActivePayments(o) /\ ActivePayments(o)' = ActivePayments(o) \cup {p}
      BY <1>3, <2>4, <2>7 DEF ActivePayments
    <3>2. Active(o)' = Active(o) + 1
      BY <2>5, <3>1, FS_AddElement
    <3> QED
      BY <2>2, <2>3, <2>5, <2>6, <2>7, <3>2 DEF TrailTellsPaid
  <2>8. CASE e.kind = "FIADO_PAYMENT_CANCELED"
    <3>1. p \in ActivePayments(o) /\ ActivePayments(o)' = ActivePayments(o) \ {p}
      BY <1>3, <2>1, <2>4, <2>8
    <3>2. Active(o)' = Active(o) - 1
      BY <2>5, <3>1, FS_RemoveElement
    <3> QED
      BY <2>2, <2>3, <2>5, <2>6, <2>8, <3>2 DEF TrailTellsPaid
  <2> QED
    BY <1>3, <2>7, <2>8
<1>4. ASSUME NEW s \in Sessions, CommitReceive(s)
      PROVE  TrailTellsPaid'
  <2>1. PICK p \in Payments \ Received : CommitReceive(s)!(p)
    BY <1>4 DEF CommitReceive
  <2>2. PICK r, e : /\ r = [order |-> req[s].order, amount |-> req[s].amount,
                            night |-> req[s].night, createdAt |-> now, canceled |-> FALSE]
                    /\ e = [kind |-> "FIADO_PAYMENT"]
    OBVIOUS
  <2>3. /\ req[s].order \in Orders /\ req[s].amount \in Nat \ {0} /\ req[s].night \in Dates
        /\ now \in Nat
    BY <2>1, RequestType DEF TypeOK
  <2>4. r \in Payment /\ ~r.canceled /\ r.order = req[s].order /\ e \in Event
        /\ e.kind = "FIADO_PAYMENT"
    BY <2>2, <2>3 DEF Payment, Event
  <2>5. payments' = [payments EXCEPT ![p] = r] /\ Recorded(r.order, e)
    BY <2>1, <2>2
  <2> QED
    BY <1>3, <2>3, <2>4, <2>5
<1>5. ASSUME NEW s \in Sessions, CommitRefund(s)
      PROVE  TrailTellsPaid'
  <2>1. PICK p : p = req[s].payment
    OBVIOUS
  <2>2. PICK r, e : /\ r = [payments[p] EXCEPT !.canceled = TRUE]
                    /\ e = [kind |-> "FIADO_PAYMENT_CANCELED", auth |-> req[s].auth]
    OBVIOUS
  <2>3. p \in Received /\ req[s].auth \in BOOLEAN /\ ~payments[p].canceled
    BY <1>5, <2>1, RequestType
    DEF CommitRefund, RefundMatches, ReferencesHold, RequestHolds
  <2>4. p \in Payments /\ payments[p] \in Payment /\ payments[p].order \in Orders
    BY <2>3, PaymentType DEF Payment
  <2>5. r \in Payment /\ r.canceled /\ r.order = payments[p].order
    BY <2>2, <2>4 DEF Payment
  <2>6. e \in Event /\ e.kind = "FIADO_PAYMENT_CANCELED"
    BY <2>2, <2>3 DEF Event
  <2>7. payments' = [payments EXCEPT ![p] = r] /\ Recorded(r.order, e)
    BY <1>5, <2>1, <2>2, <2>5 DEF CommitRefund
  <2>8. p \in ActivePayments(r.order)
    BY <2>3, <2>5 DEF ActivePayments
  <2> QED
    BY <1>3, <2>4, <2>5, <2>6, <2>7, <2>8
<1>6. ASSUME NEW o \in Orders, NEW e \in Event, WritesWith(o, e)
      PROVE  TrailTellsPaid'
  BY <1>2, <1>4, <1>5, <1>6 DEF WritesWith
<1> QED
  BY <1>1, <1>6, OneOrderOneEvent DEF WritesNothing, MarkClosed

\* Receipts less refunds in the trail are the payments still active (TrailTellsPaid).
THEOREM TrailTellsThePaid == Spec => []TrailTellsPaid
<1>1. Init => TrailTellsPaid
  <2> SUFFICES ASSUME Init, NEW o \in Orders
               PROVE  Cardinality(EventsOf(o, "FIADO_PAYMENT"))
                        - Cardinality(EventsOf(o, "FIADO_PAYMENT_CANCELED"))
                      = Cardinality(ActivePayments(o))
    BY DEF TrailTellsPaid
  <2>1. trail[o] = <<>> /\ DOMAIN trail[o] = {} /\ Received = {}
    BY DEF Init, Received
  <2>2. (\A kind : EventsOf(o, kind) = {}) /\ ActivePayments(o) = {}
    BY <2>1 DEF EventsOf, ActivePayments
  <2> QED
    BY <2>2, FS_EmptySet
<1>2. IInv /\ IInv' /\ TrailTellsPaid /\ [Next]_vars => TrailTellsPaid'
  BY TellsPaidStays
<1> QED
  BY <1>1, <1>2, Inductive, PTL DEF Spec

-----------------------------------------------------------------------------
(***************************************************************************)
(* The reports. The orders that stand are those paid on the spot and the   *)
(* fiado ones; of a fiado order, what was received is the revenue of the   *)
(* nights whose drawers took it, and the rest is its debt.                 *)
(***************************************************************************)
LEMMA RevenueAndDebtAddUp ==
  ASSUME IInv, FiadoSound
  PROVE  RevenueAndDebt
<1> USE DEF IInv
<1>1. PICK w, night : /\ w = [o \in Placed |-> orders[o].amount]
                      /\ night = [o \in Placed |-> orders[o].night]
  OBVIOUS
<1>2. PICK Standing, Spot, Fiado :
         /\ Standing = {o \in Placed : ~orders[o].canceled}
         /\ Spot = {o \in Standing : ~IsFiado(o)}
         /\ Fiado = Standing \ Spot
  OBVIOUS
<1>3. PICK Active, drawer, owner :
         /\ Active = {p \in Received : ~payments[p].canceled}
         /\ drawer = [p \in Received |-> payments[p].night]
         /\ owner = [p \in Received |-> payments[p].order]
  OBVIOUS
<1>4. /\ Standing \subseteq Placed /\ IsFiniteSet(Standing)
      /\ Spot \subseteq Standing /\ IsFiniteSet(Spot)
      /\ Fiado \subseteq Standing /\ IsFiniteSet(Fiado)
  <2>1. Placed \subseteq Orders
    BY DEF Placed
  <2> QED
    BY <1>2, <2>1, FS_Subset, ReportAssumption
<1>5. Active \subseteq Received /\ IsFiniteSet(Active)
  <2>1. Received \subseteq Payments
    BY DEF Received
  <2> QED
    BY <1>3, <2>1, FS_Subset, DeskAssumption
<1>6. \A o \in Placed : w[o] \in Nat /\ w[o] = orders[o].amount /\ night[o] \in Dates
  BY <1>1, PlacedType, OrderAssumption DEF Order
<1>7. \A p \in Received : Receipts[p] \in Nat /\ drawer[p] \in Dates
  BY <1>3, PaymentType DEF Receipts, Payment
<1>8. \A S : Total(S) = SumOf(w, S)
  BY <1>1 DEF Total
<1>9. SumOf([d \in Dates |-> Total(Counted(d))], Dates) = SumOf(w, Standing)
  <2>1. \A d \in Dates : Counted(d) = {o \in Standing : night[o] = d}
    BY <1>1, <1>2 DEF Counted, OrdersOf
  <2>2. [d \in Dates |-> Total(Counted(d))]
           = [d \in Dates |-> SumOf(w, {o \in Standing : night[o] = d})]
    BY <1>8, <2>1
  <2>3. \A o \in Standing : night[o] \in Dates /\ w[o] \in Int
    BY <1>4, <1>6
  <2> QED
    BY <1>4, <2>2, <2>3, SumOfGroups, ReportAssumption
<1>10. PICK spot, cash :
          /\ spot = [d \in Dates |-> SumOf(w, {o \in Spot : night[o] = d})]
          /\ cash = [d \in Dates |-> SumOf(Receipts, {p \in Active : drawer[p] = d})]
  OBVIOUS
<1>11. SumOf(spot, Dates) = SumOf(w, Spot)
  <2>1. \A o \in Spot : night[o] \in Dates /\ w[o] \in Int
    BY <1>4, <1>6
  <2> QED
    BY <1>4, <1>10, <2>1, SumOfGroups, ReportAssumption
<1>12. SumOf(cash, Dates) = SumOf(Receipts, Active)
  <2>1. \A p \in Active : drawer[p] \in Dates /\ Receipts[p] \in Int
    BY <1>5, <1>7
  <2> QED
    BY <1>5, <1>10, <2>1, SumOfGroups, ReportAssumption
<1>13. SumOf([d \in Dates |-> Revenue(d)], Dates) = SumOf(w, Spot) + SumOf(Receipts, Active)
  <2>1. ASSUME NEW d \in Dates
        PROVE  /\ spot[d] \in Int /\ cash[d] \in Int
               /\ Revenue(d) = spot[d] + cash[d]
    <3>1. /\ PaidOnTheSpot(Counted(d)) = {o \in Spot : night[o] = d}
          /\ ReceiptsOf(d) = {p \in Active : drawer[p] = d}
      BY <1>1, <1>2, <1>3 DEF PaidOnTheSpot, Counted, OrdersOf, ReceiptsOf
    <3>2. SumOf(w, {o \in Spot : night[o] = d}) \in Int
      <4>1. IsFiniteSet({o \in Spot : night[o] = d})
        BY <1>4, FS_Subset
      <4>2. \A o \in {q \in Spot : night[q] = d} : w[o] \in Int
        BY <1>4, <1>6
      <4> QED
        BY <4>1, <4>2, SumOfType
    <3>3. SumOf(Receipts, {p \in Active : drawer[p] = d}) \in Int
      <4>1. IsFiniteSet({p \in Active : drawer[p] = d})
        BY <1>5, FS_Subset
      <4>2. \A p \in {q \in Active : drawer[q] = d} : Receipts[p] \in Int
        BY <1>5, <1>7
      <4> QED
        BY <4>1, <4>2, SumOfType
    <3> QED
      BY <1>8, <1>10, <3>1, <3>2, <3>3 DEF Revenue
  <2>2. [d \in Dates |-> Revenue(d)] = [d \in Dates |-> spot[d] + cash[d]]
    BY <2>1
  <2> QED
    BY <1>11, <1>12, <2>1, <2>2, SumOfPlus, ReportAssumption
<1>14. PICK paid, left : /\ paid = [o \in Fiado |-> SumOf(Receipts, {p \in Active : owner[p] = o})]
                         /\ left = [o \in Fiado |-> Remaining(o)]
  OBVIOUS
<1>15. SumOf(paid, Fiado) = SumOf(Receipts, Active)
  <2>1. ASSUME NEW p \in Active
        PROVE  owner[p] \in Fiado /\ Receipts[p] \in Int
    <3>1. p \in ActivePayments(owner[p]) /\ owner[p] \in Placed
      BY <1>3, <1>5 DEF ActivePayments, ReferencesHold
    <3>2. IsFiado(owner[p]) /\ ~orders[owner[p]].canceled
      BY <3>1 DEF FiadoSound, PaidOrderStands
    <3> QED
      BY <1>2, <1>5, <1>7, <3>1, <3>2
  <2> QED
    BY <1>4, <1>5, <1>14, <2>1, SumOfGroups
<1>16. ASSUME NEW o \in Fiado
       PROVE  /\ paid[o] \in Nat /\ left[o] \in Nat
              /\ w[o] = paid[o] + left[o]
              /\ o \in Debts <=> left[o] # 0
              /\ o \in Placed
  <2>1. o \in Placed /\ IsFiado(o) /\ ~orders[o].canceled
    BY <1>2
  <2>2. {p \in Active : owner[p] = o} = ActivePayments(o)
    BY <1>3 DEF ActivePayments
  <2>3. paid[o] = PaidTotal(o) /\ PaidTotal(o) \in Nat
    BY <1>14, <2>2, PaidType DEF PaidTotal
  <2>4. PaidTotal(o) <= orders[o].amount
    BY <2>1 DEF FiadoSound, FiadoNeverOverpaid
  <2>5. w[o] = orders[o].amount /\ w[o] \in Nat
    BY <1>6, <2>1
  <2>6. left[o] = orders[o].amount - PaidTotal(o)
    BY <1>14, <2>1, <2>3, <2>4, <2>5 DEF Remaining
  <2>7. o \in Debts <=> left[o] > 0
    BY <1>14, <2>1 DEF Debts
  <2> QED
    BY <2>1, <2>3, <2>4, <2>5, <2>6, <2>7
<1>17. SumOf(w, Fiado) = SumOf(paid, Fiado) + SumOf(left, Fiado)
  <2>1. PICK z : z = [o \in Fiado |-> paid[o] + left[o]]
    OBVIOUS
  <2>2. SumOf(z, Fiado) = SumOf(paid, Fiado) + SumOf(left, Fiado)
    BY <1>4, <1>16, <2>1, SumOfPlus
  <2>3. \A o \in Fiado : w[o] = z[o]
    BY <1>16, <2>1
  <2> QED
    BY <1>4, <2>2, <2>3, SumOfSame
<1>18. OpenTotal = SumOf(left, Fiado)
  <2>1. Debts \subseteq Fiado
    BY <1>2 DEF Debts
  <2>2. SumOf(left, Fiado) = SumOf(left, Debts) + SumOf(left, Fiado \ Debts)
        /\ SumOf(left, Debts) \in Int
    BY <1>4, <1>16, <2>1, SumOfSplit
  <2>3. SumOf(left, Fiado \ Debts) = 0
    <3>1. IsFiniteSet(Fiado \ Debts)
      BY <1>4, FS_Subset
    <3> QED
      BY <1>16, <3>1, SumOfZero
  <2>4. OpenTotal = SumOf(left, Debts)
    <3>1. PICK v : v = [o \in Debts |-> Remaining(o)]
      OBVIOUS
    <3>2. IsFiniteSet(Debts)
      BY <1>4, <2>1, FS_Subset
    <3>3. \A o \in Debts : v[o] = left[o]
      BY <1>14, <2>1, <3>1
    <3> QED
      BY <3>1, <3>2, <3>3, SumOfSame DEF OpenTotal
  <2> QED
    BY <2>2, <2>3, <2>4
<1>19. /\ SumOf(w, Spot) \in Int
       /\ SumOf(w, Standing) = SumOf(w, Spot) + SumOf(w, Fiado)
  BY <1>2, <1>4, <1>6, SumOfSplit
<1>20. SumOf(Receipts, Active) \in Int /\ OpenTotal \in Int
  <2>1. \A o \in Fiado : left[o] \in Int
    BY <1>16
  <2> QED
    BY <1>4, <1>5, <1>7, <1>18, <2>1, SumOfType
<1> QED
  BY <1>9, <1>13, <1>15, <1>17, <1>18, <1>19, <1>20 DEF RevenueAndDebt

\* Every cent of an order that stands is the revenue of some night or a debt,
\* and never both (RevenueAndDebt).
THEOREM RevenueAndDebtHold == ASSUME OneAtATime PROVE Spec => []RevenueAndDebt
<1>1. IInv /\ FiadoSound => RevenueAndDebt
  BY RevenueAndDebtAddUp
<1> QED
  BY <1>1, Inductive, FiadoIsSound, PTL

=============================================================================
