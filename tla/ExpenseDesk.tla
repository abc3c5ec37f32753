----------------------------- MODULE ExpenseDesk -----------------------------
(***************************************************************************)
(* The expenses of a night and the purchase notes (NFC-e) held by them:    *)
(* expenses/expense.service.ts over expenses/prisma-expense.repository.ts, *)
(* and the marking of a note's items as bought for the house, which moves  *)
(* the expense's amount (purchases/purchase.service.ts).                   *)
(*                                                                         *)
(* A note is read at the tax office between the check that it is unused    *)
(* and the write: seconds in which other requests run.                     *)
(***************************************************************************)
EXTENDS ClosingDesk

CONSTANTS
    Expenses,         \* ids of expense rows
    NoExpense,        \* an expense row not there
    Keys,             \* access keys of the notes in play
    Totals,           \* the line totals of each note, by position
    ExpenseAmounts,   \* amounts typed for an expense
    LaunchedBefore    \* the expenses an instance may start with

VARIABLES
    expenses,   \* expenses with the note held by each
    noteSeq,    \* the last id given to a note
    task        \* what each session's expense handler is doing

expenseVars == <<vars, expenses, noteSeq, task>>

ASSUME NotesAssumption ==
    /\ Totals \in [Keys -> Seq(Nat \ {0})]
    /\ ExpenseAmounts \subseteq Nat \ {0}
    /\ IsFiniteSet(Expenses)

Positions(key) == 1 .. Len(Totals[key])

\* centsOf: what the marked lines of a note add up to
OutsideTotal(key, marks) == SumOf(Totals[key], marks)

\* assertOutsidePositions: lines of the note, and never the whole note
MarksFit(key, marks) ==
    /\ marks \subseteq Positions(key)
    /\ marks # {} => marks # Positions(key)

Lines == UNION {Positions(k) : k \in Keys}

Note ==
    {n \in [id : Nat, key : Keys, outside : SUBSET Lines] : n.outside \subseteq Positions(n.key)}

Expense == [night : Dates, amount : Nat \ {0}, note : Note \cup {None}]

\* an id without a row is told from a row; no note is all marked from the start
ASSUME LaunchedAssumption ==
    /\ NoExpense \notin Expense
    /\ None \notin Note
    /\ LaunchedBefore \subseteq [Expenses -> Expense \cup {NoExpense}]
    /\ \A launched \in LaunchedBefore : \A e \in Expenses :
          launched[e] # NoExpense /\ launched[e].note # None
          => MarksFit(launched[e].note.key, launched[e].note.outside)

Launched == {e \in Expenses : expenses[e] # NoExpense}

HasNote(e) == e \in Launched /\ expenses[e].note # None

\* the expense's total of marked lines
OutsideOf(e) ==
    IF HasNote(e) THEN OutsideTotal(expenses[e].note.key, expenses[e].note.outside) ELSE 0

\* The body of a request as to the note: kept as it is, kept with new marks,
\* taken off, or another one read and attached.
NoteChanges ==
    [kind : {"keep", "remove"}]
    \cup (UNION {[kind : {"mark"}, marks : SUBSET Positions(k)] : k \in Keys})
    \cup (UNION {[kind : {"attach"}, key : {k}, marks : SUBSET Positions(k)] : k \in Keys})

Free == [op |-> "free"]

\* the fields of the request each handler goes on with
Task ==
    {Free}
    \cup [op : {"readLaunch", "saveLaunch"}, role : Roles, night : Dates,
          amount : ExpenseAmounts, change : NoteChanges]
    \cup [op : {"readReplace", "saveReplace"}, role : Roles, expense : Expenses,
          amount : ExpenseAmounts, change : NoteChanges]
    \cup [op : {"remove"}, role : Roles, expense : Expenses]
    \cup [op : {"mark"}, role : {"ADMIN"}, expense : Expenses, note : Nat,
          marks : SUBSET Lines,
          previous : Nat \ {0}, base : Nat, amount : Nat \ {0}]

(***************************************************************************)
(* The type of the expense tables and of every expense request in flight.  *)
(***************************************************************************)
ExpensesTypeOK ==
    /\ expenses \in [Expenses -> Expense \cup {NoExpense}]
    /\ noteSeq \in Nat
    /\ \A e \in Launched : HasNote(e) => expenses[e].note.id <= noteSeq
    /\ task \in [Sessions -> Task]

\* A night starts with the rows LaunchedBefore gives, their notes numbered first.
ExpenseInit ==
    /\ expenses \in LaunchedBefore
    /\ noteSeq = Cardinality(Expenses)
    /\ \A e \in Launched : HasNote(e) => expenses[e].note.id <= noteSeq
    /\ task = [s \in Sessions |-> Free]

-----------------------------------------------------------------------------
\* A session takes an expense request, and goes on with it.
Calls(s, op) == task[s] = Free /\ Asks(s, op) /\ UNCHANGED req
TaskGoes(s, t) == task' = [task EXCEPT ![s] = t]
TaskEnds(s) == TaskGoes(s, Free) /\ UNCHANGED <<req, asked>>

DeskStays == UNCHANGED <<now, orders, trail, payments>>

\* readUnused: the key is in no expense but, in an edit, the one edited
Unused(key, own) == \A e \in Expenses \ own : HasNote(e) => expenses[e].note.key # key

\* ExpenseService.create up to the note: the night, got or created, is open to
\* the user; marks without a note are refused
BeginLaunch(s) ==
    \E role \in Roles, raw \in Dates \cup {None}, amount \in ExpenseAmounts,
       change \in {c \in NoteChanges : c.kind \in {"keep", "attach"}} :
        LET d == SelectedDate(raw) IN
        /\ Calls(s, "launch")
        /\ d \in Dates
        /\ CanSelectDate(role, d, now)
        /\ closings' = GotOrCreated(d)
        /\ CanEditClosing(role, d, closings'[d].status, now)
        /\ TaskGoes(s, [op |-> IF change.kind = "attach" THEN "readLaunch" ELSE "saveLaunch",
                        role |-> role, night |-> d, amount |-> amount, change |-> change])
        /\ DeskStays /\ UNCHANGED <<expenses, noteSeq>>

\* attach: the note is unused, is read, and its marks fit it
ReadNote(s) ==
    LET t == task[s]
        own == IF t.op = "readReplace" THEN {t.expense} ELSE {}
    IN  /\ t.op \in {"readLaunch", "readReplace"}
        /\ Unused(t.change.key, own)
        /\ MarksFit(t.change.key, t.change.marks)
        /\ TaskGoes(s, [t EXCEPT !.op =
                            IF t.op = "readLaunch" THEN "saveLaunch" ELSE "saveReplace"])
        /\ DeskStays /\ UNCHANGED <<closings, req, asked, expenses, noteSeq>>

\* invoiceCreate: the note with its marks, under an id of its own
NoteOf(change) ==
    IF change.kind = "attach"
    THEN [id |-> noteSeq + 1, key |-> change.key, outside |-> change.marks]
    ELSE None

\* rows a request in flight read: an id is given once, even after its row is gone
Remembered ==
    {task[s].expense : s \in {x \in Sessions : "expense" \in DOMAIN task[x]}}

\* PrismaExpenseRepository.create: the row and its note in one statement; the
\* access key is unique
SaveLaunch(s) ==
    LET t == task[s] IN
    /\ t.op = "saveLaunch"
    /\ t.change.kind = "attach" => Unused(t.change.key, {})
    /\ \E e \in Expenses \ (Launched \cup Remembered) :
          expenses' = [expenses EXCEPT ![e] =
              [night |-> t.night, amount |-> t.amount, note |-> NoteOf(t.change)]]
    /\ noteSeq' = IF t.change.kind = "attach" THEN noteSeq + 1 ELSE noteSeq
    /\ TaskEnds(s) /\ DeskStays /\ UNCHANGED closings

\* Plausible bug, for a mutant: the night's status is not looked at in an edit.
LiveExpense(role, e) ==
    e \in Launched /\ CanSelectDate(role, expenses[e].night, now)

\* ExpenseService.findEditable
EditableExpense(role, e) ==
    /\ e \in Launched
    /\ CanEditClosing(role, expenses[e].night, closings[expenses[e].night].status, now)

\* Plausible bug, for a mutant: the marks of a note that stays are not checked.
UncheckedChange(e, change) ==
    IF change.kind = "mark" /\ ~HasNote(e) THEN [kind |-> "keep"] ELSE change

\* keptInvoice and assertNoInvoiceMarks: marks on a note that stays are checked
\* against the note as it was read; without a note there is nothing to mark
CheckedChange(e, change) ==
    LET marks == change.kind = "mark" IN
    CASE ~marks -> change
      [] marks /\ HasNote(e) /\ MarksFit(expenses[e].note.key, change.marks) -> change
      [] marks /\ ~HasNote(e) /\ change.marks = {} -> [kind |-> "keep"]
      [] OTHER -> None

\* ExpenseService.replace up to its write, or to the reading of a new note
BeginEdit(s) ==
    \E role \in Roles, e \in Launched, amount \in ExpenseAmounts, asks \in NoteChanges :
        LET change == CheckedChange(e, asks) IN
        /\ Calls(s, "edit")
        /\ EditableExpense(role, e)
        /\ change # None
        /\ TaskGoes(s, [op |-> IF change.kind = "attach" THEN "readReplace" ELSE "saveReplace",
                        role |-> role, expense |-> e, amount |-> amount, change |-> change])
        /\ DeskStays /\ UNCHANGED <<closings, expenses, noteSeq>>

\* replaceOutsideMarks over the note the expense holds now: positions it does
\* not have mark nothing
Marked(note, marks) ==
    IF note = None
    THEN None
    ELSE [note EXCEPT !.outside = marks \cap Positions(note.key)]

\* PrismaExpenseRepository.update: by id, over whatever the row is now
SaveReplace(s) ==
    LET t == task[s]
        kind == t.change.kind
    IN  /\ t.op = "saveReplace"
        /\ t.expense \in Launched
        /\ kind = "attach" => Unused(t.change.key, {t.expense})
        /\ expenses' = [expenses EXCEPT ![t.expense] =
              [night |-> @.night, amount |-> t.amount,
               note |-> CASE kind = "keep" -> @.note
                          [] kind = "mark" -> Marked(@.note, t.change.marks)
                          [] OTHER -> NoteOf(t.change)]]
        /\ noteSeq' = IF kind = "attach" THEN noteSeq + 1 ELSE noteSeq
        /\ TaskEnds(s) /\ DeskStays /\ UNCHANGED closings

\* ExpenseService.remove
BeginRemove(s) ==
    \E role \in Roles, e \in Launched :
        /\ Calls(s, "remove")
        /\ EditableExpense(role, e)
        /\ TaskGoes(s, [op |-> "remove", role |-> role, expense |-> e])
        /\ DeskStays /\ UNCHANGED <<closings, expenses, noteSeq>>

\* PrismaExpenseRepository.delete: the note goes with the row
SaveRemove(s) ==
    /\ task[s].op = "remove"
    /\ task[s].expense \in Launched
    /\ expenses' = [expenses EXCEPT ![task[s].expense] = NoExpense]
    /\ TaskEnds(s) /\ DeskStays /\ UNCHANGED <<closings, noteSeq>>

\* what an expense comes to with nothing marked
Base(e) == expenses[e].amount + OutsideOf(e)

\* Plausible bug, for a mutant: what was marked before is not given back.
RebalancedAnew(e, marks) ==
    expenses[e].amount - OutsideTotal(expenses[e].note.key, marks)

\* rebalancedExpenseAmount: what the marks before gave back, less the new ones
Rebalanced(e, marks) == Base(e) - OutsideTotal(expenses[e].note.key, marks)

\* PurchaseService.markOutsideItems: the admin's, for any night, closed or not
BeginMark(s) ==
    \E e \in Launched :
        /\ Calls(s, "mark")
        /\ HasNote(e)
        /\ \E marks \in SUBSET Positions(expenses[e].note.key) :
              /\ MarksFit(expenses[e].note.key, marks)
              /\ Rebalanced(e, marks) > 0
              /\ TaskGoes(s, [op |-> "mark", role |-> "ADMIN", expense |-> e,
                              note |-> expenses[e].note.id, marks |-> marks,
                              previous |-> expenses[e].amount, base |-> Base(e),
                              amount |-> Rebalanced(e, marks)])
        /\ DeskStays /\ UNCHANGED <<closings, expenses, noteSeq>>

\* Plausible bug, for a mutant: the amount read is not compared.
StillThere(t) == t.expense \in Launched

\* the updateMany of saveOutsideItems finds the row with the amount it read
StillAsRead(t) == t.expense \in Launched /\ expenses[t.expense].amount = t.previous

\* saveOutsideItems: the amount, and the marks of the note that was read
SaveMark(s) ==
    LET t == task[s] IN
    /\ t.op = "mark"
    /\ expenses' =
          IF StillAsRead(t)
          THEN [expenses EXCEPT ![t.expense] =
                  [night |-> @.night, amount |-> t.amount,
                   note |-> IF @.note # None /\ @.note.id = t.note
                            THEN Marked(@.note, t.marks) ELSE @.note]]
          ELSE expenses
    /\ TaskEnds(s) /\ DeskStays /\ UNCHANGED <<closings, noteSeq>>

\* An expense request ends before its write: a 4xx answer of a later check, an
\* inactive type, the tax office silent, a key just taken, the process restarted.
DropTask(s) ==
    /\ task[s] # Free
    /\ TaskEnds(s) /\ DeskStays /\ UNCHANGED <<closings, expenses, noteSeq>>

EditOrMark(s) ==
    \/ BeginEdit(s) \/ ReadNote(s) \/ SaveReplace(s)
    \/ BeginMark(s) \/ SaveMark(s)
    \/ DropTask(s)

ExpenseStep(s) ==
    \/ BeginLaunch(s) \/ SaveLaunch(s)
    \/ BeginRemove(s) \/ SaveRemove(s)
    \/ EditOrMark(s)

-----------------------------------------------------------------------------
(***************************************************************************)
(* Marking a note's items moves money between the shop and the house and   *)
(* neither makes nor loses any: what the expense and its marked lines add  *)
(* up to is the same before and after (purchases/expense-rebalance.ts),    *)
(* though other markings and edits are saved between its read and its      *)
(* write. The write compares the amount alone: the one case left out is    *)
(* an amount that is back to what was read while the rest is not, which    *)
(* an edit can bring about.                                                *)
(***************************************************************************)
Marks(s) == task[s].op = "mark" /\ task'[s] = Free

AmountAloneStands(t) ==
    /\ expenses[t.expense].amount = t.previous
    /\ \/ Base(t.expense) # t.base
       \/ ~HasNote(t.expense)
       \/ expenses[t.expense].note.id # t.note

RebalanceKeepsBaseStep ==
    \A s \in Sessions, e \in Launched :
        Marks(s) /\ task[s].expense = e /\ ~AmountAloneStands(task[s])
        => Base(e)' = Base(e)

RebalanceKeepsBase == [][RebalanceKeepsBaseStep]_expenseVars

(***************************************************************************)
(* No expense holds a note that is all marked as the house's               *)
(* (expenses/outside-items.ts): the check looks at the note as it was      *)
(* read, the write finds it by the expense, and the two are steps apart.   *)
(***************************************************************************)
NeverAllOutside ==
    \A e \in Launched :
        HasNote(e) => MarksFit(expenses[e].note.key, expenses[e].note.outside)

(***************************************************************************)
(* While a night is closed its expenses change by the admin's hand alone   *)
(* (closing/closing-access.ts, asked by each expense request at its start).*)
(***************************************************************************)
ClosedExpensesStep ==
    \A e \in Expenses, s \in Sessions :
        /\ expenses'[e] # expenses[e]
        /\ task'[s] # task[s]
        /\ LET row == IF e \in Launched THEN expenses[e] ELSE expenses'[e]
           IN  closings[row.night].status = "CLOSED"
        => task[s].role = "ADMIN"

ClosedExpensesAreAdmins == [][ClosedExpensesStep]_expenseVars

=============================================================================
