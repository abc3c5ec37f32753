----------------------------- MODULE OrderForm -----------------------------
(***************************************************************************)
(* Whose record an order is saved to (frontend: cash/use-order-form.ts,    *)
(* cash/use-customer-lookup.ts, cash/save-order.ts; backend: customers/).  *)
(* The order form looks customers up while the user types, answers come    *)
(* later, and saving an order writes the customer's record first.          *)
(*                                                                         *)
(* Of an order only its type, whether it is fiado and its customer are     *)
(* kept; items and payment are there when it is submitted. A place is a    *)
(* street, a number and a zone together. Two names may be spellings of     *)
(* one (toNeighborhoodKey).                                                *)
(***************************************************************************)
EXTENDS DeskState

CONSTANTS
    Customers,         \* ids of customer rows
    NoCustomer,        \* a row not inserted yet
    Names, Phones, Places,
    KeyOf,             \* a name without case, accents and spaces
    CustomersBefore,   \* the customers table at the start
    MaxMoves,          \* bound: what the user does at the form
    MaxSaves           \* bound: saves begun

ASSUME FormAssumption ==
    /\ None \notin Names \cup Phones \cup Places \cup Customers
    /\ KeyOf \in [Names -> Names]
    /\ MaxMoves \in Nat
    /\ MaxSaves \in Nat

VARIABLES
    customers,   \* customers, by id
    copied,      \* the customers of the orders saved so far, as the orders copied
                 \* them: an order of the counter copies no address
    form,        \* what the form's fields hold
    known,       \* the record the form's customer is, as read; or None
    byName,      \* it was found by the name
    choices,     \* namesakes found, to choose among
    editing,     \* whether the form edits an order already saved
    searches,    \* lookups not answered yet
    question,    \* the save that waits for "same person or another?"
    saves,       \* saves on their way: zone and customer, then the order
    late,        \* what was found, for the form or to choose among, was looked up
                 \* for another phone than the one typed (ghost)
    strayed,     \* records that a save made of such an answer wrote over (ghost)
    moves,       \* what the user did so far (only a bound)
    sent         \* saves begun so far

formVars ==
    <<customers, copied, form, known, byName, choices, editing, searches, question,
      saves, late, strayed, moves, sent>>

OrNone(S) == S \cup {None}

Record == [name : Names, phone : OrNone(Phones), place : OrNone(Places)]
Read   == [id : Customers, name : Names, phone : OrNone(Phones), place : OrNone(Places)]

Values ==
    [type : {"COUNTER", "DELIVERY"}, fiado : BOOLEAN, counter : OrNone(Names),
     name : OrNone(Names), phone : OrNone(Phones), place : OrNone(Places)]

Resolved == [known : OrNone(Read), values : Values, late : BOOLEAN]

Save ==
    [no : Nat, id : OrNone(Customers), name : OrNone(Names), phone : OrNone(Phones),
     place : OrNone(Places), type : {"COUNTER", "DELIVERY"}, here : BOOLEAN,
     late : BOOLEAN, step : {"address", "customer", "order"}]

ASSUME CustomersAssumption ==
    /\ NoCustomer \notin Record
    /\ CustomersBefore \subseteq [Customers -> Record \cup {NoCustomer}]

(***************************************************************************)
(* The type of the customers table, of the form and of what it sent.       *)
(***************************************************************************)
FormTypeOK ==
    /\ customers \in [Customers -> Record \cup {NoCustomer}]
    /\ copied \subseteq Read
    /\ form \in Values
    /\ known \in OrNone(Read)
    /\ byName \in BOOLEAN
    /\ choices \subseteq Read
    /\ editing \in BOOLEAN
    /\ \A x \in searches :
          /\ x.by \in {"phone", "name", "submit"}
          /\ x.values \in Values
          /\ x.found \subseteq Read
    /\ question \in OrNone(Resolved)
    /\ saves \subseteq Save
    /\ late \in BOOLEAN
    /\ strayed \subseteq Customers
    /\ moves \in Nat
    /\ sent \in Nat

-----------------------------------------------------------------------------
SameName(n, m) ==
    IF None \in {n, m} THEN n = m ELSE KeyOf[n] = KeyOf[m]

InTable == {c \in Customers : customers[c] # NoCustomer}

AsRead(c) ==
    [id |-> c, name |-> customers[c].name, phone |-> customers[c].phone,
     place |-> customers[c].place]

\* resolveDelivery, counterCustomer: what an order of customer c copies
CopyOf(c, type) == [AsRead(c) EXCEPT !.place = IF type = "COUNTER" THEN None ELSE @]

\* findCustomer, deliveryZoneOf: the customer is there, with an address to deliver to
Orderable(c, type) ==
    /\ c \in InTable
    /\ type = "DELIVERY" => customers[c].place # None

\* the copies that orders of customer c launched now make
CopiesOf(c) ==
    {CopyOf(c, type) : type \in {t \in {"COUNTER", "DELIVERY"} : Orderable(c, t)}}

\* searchByPhone: none or one; searchByName: every namesake
FoundBy(v) ==
    {AsRead(c) : c \in {c \in InTable :
        IF v.phone # None THEN customers[c].phone = v.phone
                          ELSE SameName(customers[c].name, v.name)}}

\* EMPTY_ORDER_FORM
EmptyForm ==
    [type |-> "COUNTER", fiado |-> FALSE, counter |-> None,
     name |-> None, phone |-> None, place |-> None]

\* filledWith: the record's phone only when the user typed none
Filled(v, k, withPhone) ==
    [v EXCEPT !.name = k.name, !.place = k.place,
              !.phone = IF withPhone /\ k.phone # None THEN k.phone ELSE @]

\* Plausible bug, for a mutant: only another name is another customer.
IsAnotherName(field, v) ==
    field = "name" /\ form.phone = None /\ ~SameName(v, known.name)

\* isAnotherCustomer: another phone is; without a phone, so is another name
IsAnother(field, v) ==
    \/ field = "phone"
    \/ field = "name" /\ form.phone = None /\ ~SameName(v, known.name)

\* addressDiffersFromRecord
PlaceDiffers(r) == r.values.place # r.known.place

\* the form's fields are there to look a customer up
ShowsCustomer == form.type = "DELIVERY" \/ form.fiado

FormInit ==
    /\ customers \in CustomersBefore
    /\ copied = UNION {CopiesOf(c) : c \in InTable}
    /\ form = EmptyForm
    /\ known = None
    /\ byName = FALSE
    /\ choices = {}
    /\ editing = FALSE
    /\ searches = {}
    /\ question = None
    /\ saves = {}
    /\ late = FALSE
    /\ strayed = {}
    /\ moves = 0
    /\ sent = 0

-----------------------------------------------------------------------------
\* what the user does at the form, bounded; the question is a dialog over it
Move ==
    /\ question = None
    /\ moves < MaxMoves
    /\ moves' = moves + 1

FieldValues(field) ==
    CASE field = "phone" -> OrNone(Phones)
      [] field = "place" -> OrNone(Places)
      [] OTHER           -> OrNone(Names)

\* setField: typed, then the field
Type(field, v) ==
    /\ Move
    /\ v # form[field]
    /\ field = "counter" => form.type = "COUNTER"
    /\ field # "counter" => ShowsCustomer
    /\ field = "place" => form.type = "DELIVERY"
    /\ form' = [form EXCEPT ![field] = v]
    /\ choices' = IF field \in {"phone", "name"} THEN {} ELSE choices
    /\ LET forget == known # None /\ IsAnother(field, v) IN
          /\ known' = IF forget THEN None ELSE known
          /\ byName' = (byName /\ ~forget)
          /\ late' = (late /\ (known' # None \/ choices' # {}))
    /\ UNCHANGED <<customers, copied, strayed, editing, searches, question, saves, sent>>

\* toggleType
ToggleType ==
    /\ Move
    /\ form' = [form EXCEPT !.type = IF @ = "COUNTER" THEN "DELIVERY" ELSE "COUNTER"]
    /\ UNCHANGED <<customers, copied, strayed, known, byName, choices, editing, searches,
                   question, saves, late, sent>>

\* chooseFiado: at the counter the name typed becomes the customer's
ChooseFiado ==
    /\ Move
    /\ ~form.fiado
    /\ form' = [form EXCEPT !.fiado = TRUE,
          !.name = IF form.type = "COUNTER" /\ @ = None THEN form.counter ELSE @]
    /\ UNCHANGED <<customers, copied, strayed, known, byName, choices, editing, searches,
                   question, saves, late, sent>>

LooksUp(by) ==
    searches' = searches \cup {[by |-> by, values |-> form, found |-> FoundBy(form)]}

\* lookup, on leaving the phone
LookupPhone ==
    /\ Move
    /\ ShowsCustomer
    /\ form.phone # None
    /\ ~(known # None /\ known.phone = form.phone)
    /\ LooksUp("phone")
    /\ UNCHANGED <<customers, copied, strayed, form, known, byName, choices, editing,
                   question, saves, late, sent>>

\* lookupName, on leaving the name
LookupName ==
    /\ Move
    /\ ShowsCustomer
    /\ form.name # None /\ known = None /\ form.phone = None
    /\ LooksUp("name")
    /\ UNCHANGED <<customers, copied, strayed, form, known, byName, choices, editing,
                   question, saves, late, sent>>

\* fill
Fills(k, foundByName) ==
    /\ known' = k
    /\ byName' = foundByName
    /\ choices' = {}
    /\ form' = Filled(form, k, foundByName)

Outdated(x) == form.phone # x.values.phone

\* lookup's answer: the record, or none any more
PhoneAnswered(x) ==
    /\ x.by = "phone"
    /\ searches' = searches \ {x}
    /\ \/ \E k \in x.found : Fills(k, FALSE) /\ late' = Outdated(x)
       \/ /\ x.found = {}
          /\ known' = None /\ byName' = FALSE
          /\ late' = (late /\ choices # {})
          /\ UNCHANGED <<form, choices>>
    /\ UNCHANGED <<customers, copied, strayed, editing, question, saves, moves, sent>>

\* lookupName's answer: the one record, or the namesakes to choose among
NameAnswered(x) ==
    /\ x.by = "name"
    /\ searches' = searches \ {x}
    /\ IF Cardinality(x.found) = 1
       THEN \E k \in x.found : Fills(k, TRUE) /\ late' = Outdated(x)
       ELSE /\ choices' = x.found
            /\ late' = ((late /\ known # None) \/ (x.found # {} /\ Outdated(x)))
            /\ UNCHANGED <<form, known, byName>>
    /\ UNCHANGED <<customers, copied, strayed, editing, question, saves, moves, sent>>

SearchFails(x) ==
    /\ searches' = searches \ {x}
    /\ UNCHANGED <<customers, copied, strayed, form, known, byName, choices, editing,
                   question, saves, late, moves, sent>>

\* choose, among two namesakes or more
Choose(k) ==
    /\ Move
    /\ ShowsCustomer
    /\ Cardinality(choices) > 1
    /\ Fills(k, TRUE)
    /\ UNCHANGED <<customers, copied, strayed, editing, searches, question, saves, late,
                   sent>>

-----------------------------------------------------------------------------
\* buildCustomerDraft, buildCounterCustomerDraft: the record to write first, if
\* it changed; none at the counter when it is not fiado
SaveOf(r) ==
    LET k == r.known
        place == IF r.values.type = "DELIVERY" THEN r.values.place
                 ELSE IF k = None THEN None ELSE k.place
        changed == \/ k = None
                   \/ k.name # r.values.name \/ k.phone # r.values.phone \/ k.place # place
        counter == r.values.type = "COUNTER" /\ ~r.values.fiado
    IN  [no |-> sent, id |-> IF k = None \/ counter THEN None ELSE k.id,
         name |-> r.values.name, phone |-> r.values.phone, place |-> place,
         type |-> r.values.type, here |-> TRUE, late |-> r.late,
         step |-> IF counter \/ ~changed THEN "order"
                  ELSE IF k # None /\ place = None /\ r.values.phone # None THEN "address"
                  ELSE "customer"]

\* buildOrderRequest finds nothing missing
Complete(v) ==
    /\ v.type = "DELIVERY" \/ v.fiado => v.name # None
    /\ v.type = "DELIVERY" => v.place # None

\* saveRequest
SavesResolved(r) ==
    /\ sent < MaxSaves
    /\ saves' = saves \cup {SaveOf(r)}
    /\ sent' = sent + 1

\* submit, but for the fiado of the counter whose customer is not known: the
\* customer found by name at another place may be a namesake, so it asks
Submit ==
    LET r == [known |-> known, values |-> form, late |-> late] IN
    /\ Move
    /\ form.type = "COUNTER" /\ form.fiado => known # None \/ choices # {}
    /\ Complete(form)
    /\ IF form.type = "DELIVERY" /\ byName /\ known # None /\ PlaceDiffers(r)
       THEN question' = r /\ UNCHANGED <<saves, sent>>
       ELSE SavesResolved(r) /\ UNCHANGED question
    /\ UNCHANGED <<customers, copied, strayed, form, known, byName, choices, editing,
                   searches, late>>

\* submit: resolve looks the customer of the fiado up first
SubmitLooksUp ==
    /\ Move
    /\ form.type = "COUNTER" /\ form.fiado /\ known = None /\ choices = {}
    /\ form.name # None \/ form.phone # None
    /\ LooksUp("submit")
    /\ UNCHANGED <<customers, copied, strayed, form, known, byName, choices, editing,
                   question, saves, late, sent>>

\* resolve's answer: the namesakes to choose among, or the customer and the save
SubmitAnswered(x) ==
    LET named == x.values.phone = None IN
    /\ x.by = "submit"
    /\ searches' = searches \ {x}
    /\ \/ /\ Cardinality(x.found) > 1
          /\ choices' = x.found
          /\ late' = ((late /\ known # None) \/ Outdated(x))
          /\ UNCHANGED <<form, known, byName, saves, sent>>
       \/ /\ x.found = {}
          /\ IF Complete(x.values)
             THEN SavesResolved([known |-> None, values |-> x.values, late |-> FALSE])
             ELSE UNCHANGED <<saves, sent>>
          /\ UNCHANGED <<form, known, byName, choices, late>>
       \/ /\ Cardinality(x.found) = 1
          /\ \E k \in x.found :
                /\ Fills(k, named)
                /\ SavesResolved([known |-> k, values |-> Filled(x.values, k, named),
                                 late |-> FALSE])
          /\ late' = Outdated(x)
    /\ UNCHANGED <<customers, copied, strayed, editing, question, moves>>

\* applyHomonymAnswer: another person is a new record, without the phone
AnswerQuestion(other) ==
    /\ question # None
    /\ SavesResolved(IF other
                     THEN [known |-> None, late |-> FALSE,
                           values |-> [question.values EXCEPT !.phone = None]]
                     ELSE question)
    /\ question' = None
    /\ UNCHANGED <<customers, copied, strayed, form, known, byName, choices, editing,
                   searches, late, moves>>

CancelQuestion ==
    /\ question # None
    /\ question' = None
    /\ UNCHANGED <<customers, copied, strayed, form, known, byName, choices, editing,
                   searches, saves, late, moves, sent>>

-----------------------------------------------------------------------------
\* addressToKeep: the place on file of the record with this phone, if it is it
KeepsAddress(d) ==
    /\ d.step = "address"
    /\ LET onFile == {c \in InTable : customers[c].phone = d.phone /\ c = d.id} IN
          saves' = (saves \ {d}) \cup
              {[d EXCEPT !.step = "customer",
                         !.place = IF onFile = {} THEN @ ELSE customers[d.id].place]}
    /\ UNCHANGED <<customers, copied, strayed, form, known, byName, choices, editing,
                   searches, question, late, moves, sent>>

\* saveCustomer: POST or PUT /customers; a phone is one customer's
WritesCustomer(d) ==
    /\ d.step = "customer"
    /\ \A c \in InTable : d.phone # None /\ customers[c].phone = d.phone => c = d.id
    /\ \E c \in Customers :
          /\ IF d.id = None THEN customers[c] = NoCustomer ELSE c = d.id
          /\ customers' = [customers EXCEPT ![c] =
                              [name |-> d.name, phone |-> d.phone, place |-> d.place]]
          /\ saves' = (saves \ {d}) \cup {[d EXCEPT !.step = "order", !.id = c]}
          /\ strayed' = IF d.late /\ d.id # None THEN strayed \cup {c} ELSE strayed
    /\ UNCHANGED <<copied, form, known, byName, choices, editing, searches, question,
                   late, moves, sent>>

\* a request of the save is refused or lost: what was written before it stays
SaveFails(d) ==
    /\ saves' = saves \ {d}
    /\ UNCHANGED <<customers, copied, strayed, form, known, byName, choices, editing,
                   searches, question, late, moves, sent>>

\* blankForm
Blank ==
    /\ form' = EmptyForm
    /\ known' = None /\ byName' = FALSE /\ choices' = {} /\ late' = FALSE

\* another form is mounted: what the one before waits for comes to nothing there
Mounts(v, k, edits) ==
    /\ form' = v
    /\ known' = k
    /\ byName' = FALSE /\ choices' = {} /\ late' = FALSE
    /\ editing' = edits
    /\ searches' = {}
    /\ question' = None

Elsewhere(S) == {[d EXCEPT !.here = FALSE] : d \in S}

\* saveOrder answered: the order copied its customer, as the table has it now;
\* blankForm, and onSaved ends any edit
OrderSaved(d) ==
    /\ d.step = "order"
    /\ d.id # None => Orderable(d.id, d.type)
    /\ copied' = copied \cup (IF d.id = None THEN {} ELSE {CopyOf(d.id, d.type)})
    /\ IF editing
       THEN Mounts(EmptyForm, None, FALSE) /\ saves' = Elsewhere(saves \ {d})
       ELSE /\ saves' = saves \ {d}
            /\ IF d.here THEN Blank ELSE UNCHANGED <<form, known, byName, choices, late>>
            /\ UNCHANGED <<editing, searches, question>>
    /\ UNCHANGED <<customers, strayed, moves, sent>>

\* clearAll, of a new order
ClearAll ==
    /\ Move
    /\ ~editing
    /\ Blank
    /\ UNCHANGED <<customers, copied, strayed, editing, searches, question, saves, sent>>

\* onEdit: an order of customer k, as the order copied it (formValuesOf,
\* customerOfOrder); the copy that the edit replaces stays, for another order's
EditOrder(k) ==
    LET type == IF k.place = None THEN "COUNTER" ELSE "DELIVERY" IN
    /\ Move
    /\ Mounts(Filled([EmptyForm EXCEPT !.type = type, !.fiado = TRUE], k, TRUE), k, TRUE)
    /\ saves' = Elsewhere(saves)
    /\ UNCHANGED <<customers, copied, strayed, sent>>

\* onCancelEdit
CancelEdit ==
    /\ Move
    /\ editing
    /\ Mounts(EmptyForm, None, FALSE)
    /\ saves' = Elsewhere(saves)
    /\ UNCHANGED <<customers, copied, strayed, sent>>

FormStep ==
    \/ \E field \in {"name", "phone", "place", "counter"} :
          \E v \in FieldValues(field) : Type(field, v)
    \/ ToggleType \/ ChooseFiado \/ ClearAll \/ CancelEdit
    \/ LookupPhone \/ LookupName
    \/ \E x \in searches :
          PhoneAnswered(x) \/ NameAnswered(x) \/ SubmitAnswered(x) \/ SearchFails(x)
    \/ \E k \in choices : Choose(k)
    \/ Submit \/ SubmitLooksUp \/ CancelQuestion
    \/ \E other \in BOOLEAN : AnswerQuestion(other)
    \/ \E d \in saves :
          KeepsAddress(d) \/ WritesCustomer(d) \/ OrderSaved(d) \/ SaveFails(d)
    \/ \E k \in copied : EditOrder(k)

-----------------------------------------------------------------------------
\* the saves of which a step wrote record c
WritersOf(c) ==
    {d \in saves : d.step = "customer" /\ d.id = c /\ d \notin saves'
                   /\ customers'[c] # customers[c]}

(***************************************************************************)
(* "Another phone = another customer. Without a phone the name identifies  *)
(* the customer" (cash/use-customer-lookup.ts): however the user types,    *)
(* looks up, chooses, answers and saves again meanwhile, a save that       *)
(* writes over a record leaves it with its phone, and one without a phone  *)
(* with its name. A save that follows an answer come too late is excepted, *)
(* for nothing drops that answer, and so is the record it wrote over: what *)
(* was read of it before is of the person it was.                          *)
(***************************************************************************)
RecordKeepsItsPersonStep ==
    \A c \in Customers \ strayed : \A d \in WritersOf(c) :
        ~d.late =>
            /\ customers'[c].phone = customers[c].phone
            /\ customers[c].phone = None => SameName(customers'[c].name, customers[c].name)

RecordKeepsItsPerson == [][RecordKeepsItsPersonStep]_formVars

(***************************************************************************)
(* The fiado of the counter "keeps the address it already had"             *)
(* (cash/customer-draft.ts): no save of an order of the counter takes a    *)
(* record's address away.                                                  *)
(***************************************************************************)
CounterKeepsAddress ==
    [][\A c \in Customers : \A d \in WritersOf(c) :
          d.type = "COUNTER" /\ customers[c].place # None => customers'[c].place # None]_formVars

=============================================================================
