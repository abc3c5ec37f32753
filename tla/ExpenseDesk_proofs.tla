------------------------- MODULE ExpenseDesk_proofs -------------------------
(***************************************************************************)
(* What holds of the expenses for any number of expenses, notes, lines of  *)
(* a note and sessions: their types; that marking a note's lines moves     *)
(* money and makes none; and, of requests that do not overlap, that no     *)
(* note comes to be all marked and that a closed night's expenses change   *)
(* by the admin's hand alone.                                              *)
(*                                                                         *)
(* A marking carries an amount worked out when it was begun. That it still *)
(* fits when it is written rests on the note's id: an id is given once, so *)
(* the note found with the id that was read has the lines that were read.  *)
(***************************************************************************)
EXTENDS BackOffice_proofs, SumTheorems

USE NightAssumption, DeskAssumption, NotesAssumption, LaunchedAssumption, SceneAssumption

\* a marking in flight, while its expense holds the note that was read
MarkFits(t) ==
    t.op = "mark" =>
        /\ t.note <= noteSeq
        /\ HasNote(t.expense) /\ expenses[t.expense].note.id = t.note =>
              /\ MarksFit(expenses[t.expense].note.key, t.marks)
              /\ t.base = t.amount + OutsideTotal(expenses[t.expense].note.key, t.marks)

\* a note on its way to an expense was read, and its marks fit it
AttachFits(t) ==
    /\ t.op \in {"readLaunch", "readReplace"} => t.change.kind = "attach"
    /\ t.op \in {"saveLaunch", "saveReplace"} /\ t.change.kind = "attach" =>
          MarksFit(t.change.key, t.change.marks)

\* what a request alone checked stands until it writes
Stands(t) ==
    /\ t.op \in {"readReplace", "saveReplace", "remove"} => t.expense \in Launched
    /\ t.op = "saveReplace" /\ t.change.kind = "mark" =>
          /\ HasNote(t.expense)
          /\ MarksFit(expenses[t.expense].note.key, t.change.marks)
    /\ t.op \in {"readLaunch", "saveLaunch"} /\ t.role # "ADMIN" =>
          closings[t.night].status # "CLOSED"
    /\ t.op \in {"readReplace", "saveReplace", "remove"} /\ t.role # "ADMIN" =>
          closings[expenses[t.expense].night].status # "CLOSED"

Undisturbed ==
    /\ \A s \in Sessions \ {Alone} : task[s] = Free
    /\ NeverAllOutside
    /\ Stands(task[Alone])

ExpenseInv ==
    /\ ExpensesTypeOK
    /\ closings \in [Dates -> Closing]
    /\ \A s \in Sessions : MarkFits(task[s]) /\ AttachFits(task[s])
    /\ scene = "expenses" => Undisturbed
    /\ scene = "markings" => \A d \in Dates : closings[d].status # "CLOSED"

-----------------------------------------------------------------------------
(***************************************************************************)
(* Types.                                                                  *)
(***************************************************************************)

\* What the marked lines of a note add up to.
LEMMA OutsideTotalType ==
  ASSUME NEW key \in Keys, NEW marks \in SUBSET Positions(key)
  PROVE  OutsideTotal(key, marks) \in Nat
<1>1. PICK w \in Seq(Nat \ {0}) : w = Totals[key]
  OBVIOUS
<1>2. Positions(key) = 1 .. Len(w) /\ Len(w) \in Nat
  BY <1>1 DEF Positions
<1>3. IsFiniteSet(marks)
  <2>1. PICK I : I = 1 .. Len(w) /\ IsFiniteSet(I)
    BY <1>2, FS_Interval
  <2>2. marks \in SUBSET I
    BY <1>2, <2>1
  <2> QED
    BY <2>1, <2>2, FS_Subset
<1>4. \A i \in marks : w[i] \in Nat
  BY <1>2
<1>5. OutsideTotal(key, marks) = SumOf(w, marks)
  BY <1>1 DEF OutsideTotal
<1> QED
  BY <1>3, <1>4, <1>5, SumOfNat

\* What each kind of request carries.
LEMMA TaskFields ==
  ASSUME NEW t \in Task
  PROVE  /\ t.op \in {"free", "readLaunch", "saveLaunch", "readReplace", "saveReplace",
                      "remove", "mark"}
         /\ t.op = "free" <=> t = Free
         /\ t.op \in {"readLaunch", "saveLaunch"} => t.night \in Dates
         /\ t.op \in {"readLaunch", "saveLaunch", "readReplace", "saveReplace"} =>
               /\ t.role \in Roles
               /\ t.amount \in ExpenseAmounts
               /\ t.change \in NoteChanges
         /\ t.op \in {"readReplace", "saveReplace", "remove", "mark"} => t.expense \in Expenses
         /\ t.op = "mark" =>
               /\ t.role = "ADMIN"
               /\ t.note \in Nat /\ t.base \in Nat
               /\ t.previous \in Nat \ {0} /\ t.amount \in Nat \ {0}
               /\ t.marks \in SUBSET Lines
BY DEF Task, Free

\* What a request says of the note.
LEMMA ChangeFields ==
  ASSUME NEW c \in NoteChanges
  PROVE  /\ c.kind \in {"keep", "remove", "mark", "attach"}
         /\ c.kind = "attach" => c.key \in Keys /\ c.marks \in SUBSET Positions(c.key)
         /\ c.kind = "mark" => c.marks \in SUBSET Lines
<1>1. \/ c \in [kind : {"keep", "remove"}]
      \/ \E k \in Keys : c \in [kind : {"mark"}, marks : SUBSET Positions(k)]
      \/ \E k \in Keys : c \in [kind : {"attach"}, key : {k}, marks : SUBSET Positions(k)]
  <2>1. PICK P, M, A : /\ P = [kind : {"keep", "remove"}]
                       /\ M = {[kind : {"mark"}, marks : SUBSET Positions(k)] : k \in Keys}
                       /\ A = {[kind : {"attach"}, key : {k}, marks : SUBSET Positions(k)] : k \in Keys}
    OBVIOUS
  <2>2. NoteChanges = P \cup (UNION M) \cup (UNION A)
    BY <2>1, Zenon DEF NoteChanges
  <2>3. c \in P \/ (\E S \in M : c \in S) \/ (\E S \in A : c \in S)
    BY <2>2, Zenon
  <2>4. ASSUME NEW S \in M, c \in S
        PROVE  \E k \in Keys : c \in [kind : {"mark"}, marks : SUBSET Positions(k)]
    BY <2>1, <2>4, Zenon
  <2>5. ASSUME NEW S \in A, c \in S
        PROVE  \E k \in Keys : c \in [kind : {"attach"}, key : {k}, marks : SUBSET Positions(k)]
    BY <2>1, <2>5, Zenon
  <2> QED
    BY <2>1, <2>3, <2>4, <2>5, Zenon
<1>2. CASE c \in [kind : {"keep", "remove"}]
  BY <1>2
<1>3. ASSUME NEW k \in Keys, c \in [kind : {"mark"}, marks : SUBSET Positions(k)]
      PROVE  c.kind = "mark" /\ c.marks \in SUBSET Lines
  BY <1>3 DEF Lines
<1>4. ASSUME NEW k \in Keys, c \in [kind : {"attach"}, key : {k}, marks : SUBSET Positions(k)]
      PROVE  c.kind = "attach" /\ c.key \in Keys /\ c.marks \in SUBSET Positions(c.key)
  BY <1>4
<1> QED
  BY <1>1, <1>2, <1>3, <1>4

\* A row of expenses, field by field.
LEMMA ExpenseFields ==
  ASSUME ExpensesTypeOK, NEW e \in Launched
  PROVE  /\ e \in Expenses
         /\ expenses[e] \in Expense
         /\ expenses[e].night \in Dates
         /\ expenses[e].amount \in Nat \ {0}
         /\ expenses[e].note \in Note \cup {None}
         /\ expenses[e] = [night |-> expenses[e].night, amount |-> expenses[e].amount,
                           note |-> expenses[e].note]
BY DEF ExpensesTypeOK, Launched, Expense

\* A note, field by field.
LEMMA NoteFields ==
  ASSUME NEW n \in Note
  PROVE  /\ n.id \in Nat /\ n.key \in Keys
         /\ n.outside \in SUBSET Positions(n.key)
         /\ n = [id |-> n.id, key |-> n.key, outside |-> n.outside]
BY DEF Note

\* A note with its marks.
LEMMA IsNote ==
  ASSUME NEW id \in Nat, NEW key \in Keys, NEW marks \in SUBSET Positions(key)
  PROVE  [id |-> id, key |-> key, outside |-> marks] \in Note
BY DEF Note, Lines

\* The marks of a note replaced: the same note, with the lines it has.
LEMMA MarkedType ==
  ASSUME NEW n \in Note, NEW marks
  PROVE  /\ Marked(n, marks) \in Note /\ Marked(n, marks) # None
         /\ Marked(n, marks).id = n.id /\ Marked(n, marks).key = n.key
         /\ Marked(n, marks).outside = marks \cap Positions(n.key)
<1>1. PICK m : m = Marked(n, marks)
  OBVIOUS
<1>2. n # None
  OBVIOUS
<1>3. m = [id |-> n.id, key |-> n.key, outside |-> marks \cap Positions(n.key)]
  <2>1. PICK i, k, o : n = [id |-> i, key |-> k, outside |-> o]
    BY NoteFields
  <2> QED
    BY <1>1, <1>2, <2>1 DEF Marked
<1>4. m \in Note
  <2>1. n.id \in Nat /\ n.key \in Keys /\ marks \cap Positions(n.key) \in SUBSET Positions(n.key)
    BY NoteFields
  <2> QED
    BY <1>3, <2>1, IsNote
<1>5. m.id = n.id /\ m.key = n.key /\ m.outside = marks \cap Positions(n.key)
  BY <1>3
<1>6. m # None
  BY <1>4
<1> QED
  BY <1>1, <1>4, <1>5, <1>6

\* A new note takes an id no note had.
LEMMA NoteOfType ==
  ASSUME ExpensesTypeOK, NEW c \in NoteChanges
  PROVE  /\ NoteOf(c) \in Note \cup {None}
         /\ NoteOf(c) # None => /\ c.kind = "attach"
                                /\ NoteOf(c).id = noteSeq + 1
                                /\ NoteOf(c).key = c.key
                                /\ NoteOf(c).outside = c.marks
<1>1. CASE c.kind = "attach"
  <2>1. NoteOf(c) = [id |-> noteSeq + 1, key |-> c.key, outside |-> c.marks]
    BY <1>1 DEF NoteOf
  <2>2. NoteOf(c) \in Note
    <3>1. noteSeq + 1 \in Nat
      BY DEF ExpensesTypeOK
    <3>2. c.key \in Keys /\ c.marks \in SUBSET Positions(c.key)
      BY <1>1, ChangeFields
    <3> QED
      BY <2>1, <3>1, <3>2, IsNote
  <2> QED
    BY <1>1, <2>1, <2>2
<1>2. CASE c.kind # "attach"
  BY <1>2 DEF NoteOf
<1> QED
  BY <1>1, <1>2

-----------------------------------------------------------------------------
(***************************************************************************)
(* The two ways the tables change: a request goes on, or a row is written. *)
(***************************************************************************)

\* A request that goes on, what it carries being as it was read.
LEMMA TaskGoesOn ==
  ASSUME ExpenseInv, NEW s \in Sessions, NEW t \in Task, TaskGoes(s, t),
         UNCHANGED <<scene, expenses, noteSeq>>,
         closings' \in [Dates -> Closing],
         \A d \in Dates : closings'[d].status = "CLOSED" => closings[d].status = "CLOSED",
         MarkFits(t), AttachFits(t),
         scene = "expenses" => s = Alone /\ Stands(t)'
  PROVE  ExpenseInv'
<1>1. /\ task' = [task EXCEPT ![s] = t] /\ task' \in [Sessions -> Task]
      /\ \A x \in Sessions : task'[x] = IF x = s THEN t ELSE task[x]
  BY DEF TaskGoes, ExpenseInv, ExpensesTypeOK
<1>2. /\ Launched' = Launched /\ \A e : HasNote(e)' = HasNote(e)
  BY DEF Launched, HasNote
<1>3. ExpensesTypeOK'
  BY <1>1, <1>2 DEF ExpenseInv, ExpensesTypeOK
<1>4. ASSUME NEW x \in Sessions PROVE MarkFits(task[x])' /\ AttachFits(task[x])'
  BY <1>1, <1>2 DEF ExpenseInv, MarkFits, AttachFits, HasNote
<1>5. scene = "expenses" => Undisturbed'
  <2>1. NeverAllOutside => NeverAllOutside'
    BY <1>2 DEF NeverAllOutside
  <2> QED
    BY <1>1, <2>1 DEF ExpenseInv, Undisturbed
<1>6. scene = "markings" => \A d \in Dates : closings'[d].status # "CLOSED"
  BY DEF ExpenseInv
<1> QED
  BY <1>3, <1>4, <1>5, <1>6 DEF ExpenseInv

\* The note a row holds is the one it held, or has an id of its own.
FollowsOn(e, row) ==
    row # NoExpense /\ row.note # None =>
        /\ row.note.id <= noteSeq'
        /\ \/ row.note.id = noteSeq + 1
           \/ /\ HasNote(e)
              /\ row.note.id = expenses[e].note.id
              /\ row.note.key = expenses[e].note.key

\* A row written by a request that ends.
LEMMA RowWritten ==
  ASSUME ExpenseInv, NEW s \in Sessions, TaskGoes(s, Free),
         UNCHANGED <<scene, closings>>,
         NEW e \in Expenses, NEW row \in Expense \cup {NoExpense},
         expenses' = [expenses EXCEPT ![e] = row],
         noteSeq' \in {noteSeq, noteSeq + 1},
         FollowsOn(e, row),
         scene = "expenses" =>
             /\ s = Alone
             /\ row # NoExpense /\ row.note # None => MarksFit(row.note.key, row.note.outside)
  PROVE  ExpenseInv'
<1>1. /\ expenses \in [Expenses -> Expense \cup {NoExpense}] /\ noteSeq \in Nat
      /\ \A x \in Expenses : expenses'[x] = IF x = e THEN row ELSE expenses[x]
  BY DEF ExpenseInv, ExpensesTypeOK
<1>2. Free \in Task /\ Free.op = "free"
  BY DEF Task, Free
<1>3. /\ task' = [task EXCEPT ![s] = Free] /\ task' \in [Sessions -> Task]
      /\ \A x \in Sessions : task'[x] = IF x = s THEN Free ELSE task[x]
  BY <1>2 DEF TaskGoes, ExpenseInv, ExpensesTypeOK
<1>4. \A x \in Expenses : x # e => (HasNote(x)' <=> HasNote(x))
  BY <1>1 DEF HasNote, Launched
<1>5. HasNote(e)' <=> row # NoExpense /\ row.note # None
  BY <1>1 DEF HasNote, Launched
<1>6. \A x \in Expenses : HasNote(x)' => expenses'[x].note.id <= noteSeq'
  <2> SUFFICES ASSUME NEW x \in Expenses, HasNote(x)'
               PROVE  expenses'[x].note.id <= noteSeq'
    OBVIOUS
  <2>1. CASE x = e
    BY <1>1, <1>5, <2>1 DEF FollowsOn
  <2>2. CASE x # e
    <3>1. HasNote(x) /\ x \in Launched /\ expenses'[x] = expenses[x]
      BY <1>1, <1>4, <2>2 DEF HasNote
    <3>2. expenses[x].note.id <= noteSeq /\ expenses[x].note \in Note
      BY <3>1, ExpenseFields DEF ExpenseInv, ExpensesTypeOK, HasNote
    <3>3. expenses[x].note.id \in Nat
      BY <3>2, NoteFields
    <3> QED
      BY <1>1, <3>1, <3>2, <3>3
  <2> QED
    BY <2>1, <2>2
<1>7. ExpensesTypeOK'
  <2>1. expenses' \in [Expenses -> Expense \cup {NoExpense}] /\ noteSeq' \in Nat
    BY <1>1
  <2>2. \A x \in Launched' : x \in Expenses
    BY DEF Launched
  <2> QED
    BY <1>3, <1>6, <2>1, <2>2 DEF ExpensesTypeOK
<1>8. ASSUME NEW x \in Sessions PROVE MarkFits(task[x])' /\ AttachFits(task[x])'
  <2>1. CASE x = s
    BY <1>2, <1>3, <2>1 DEF MarkFits, AttachFits
  <2>2. CASE x # s
    <3>1. PICK t \in Task : t = task[x] /\ t = task'[x]
      BY <1>3, <2>2 DEF ExpenseInv, ExpensesTypeOK
    <3>2. AttachFits(t)'
      BY <3>1 DEF ExpenseInv, AttachFits
    <3>3. ASSUME t.op = "mark" PROVE MarkFits(t)'
      <4>1. t.note \in Nat /\ t.note <= noteSeq /\ t.expense \in Expenses
        BY <3>1, <3>3, TaskFields DEF ExpenseInv, MarkFits
      <4>2. t.note <= noteSeq'
        BY <1>1, <4>1
      <4>3. ASSUME HasNote(t.expense)', expenses'[t.expense].note.id = t.note
            PROVE  /\ HasNote(t.expense) /\ expenses[t.expense].note.id = t.note
                   /\ expenses'[t.expense].note.key = expenses[t.expense].note.key
        <5>1. CASE t.expense = e
          BY <1>1, <1>5, <4>1, <4>3, <5>1 DEF FollowsOn
        <5>2. CASE t.expense # e
          BY <1>1, <1>4, <4>1, <4>3, <5>2
        <5> QED
          BY <5>1, <5>2
      <4> QED
        BY <3>1, <3>3, <4>2, <4>3 DEF ExpenseInv, MarkFits
    <3> QED
      BY <3>1, <3>2, <3>3 DEF MarkFits
  <2> QED
    BY <2>1, <2>2
<1>9. scene = "expenses" => Undisturbed'
  <2> SUFFICES ASSUME scene = "expenses" PROVE Undisturbed'
    OBVIOUS
  <2>1. \A x \in Sessions : task'[x] = Free
    BY <1>3 DEF ExpenseInv, Undisturbed
  <2>2. Stands(task[Alone])'
    BY <1>2, <2>1, SceneAssumption DEF Stands
  <2>3. NeverAllOutside'
    <3> SUFFICES ASSUME NEW x \in Launched', HasNote(x)'
                 PROVE  MarksFit(expenses'[x].note.key, expenses'[x].note.outside)
      BY DEF NeverAllOutside
    <3>1. x \in Expenses
      BY DEF Launched
    <3>2. CASE x = e
      BY <1>1, <1>5, <3>2
    <3>3. CASE x # e
      BY <1>1, <1>4, <3>1, <3>3 DEF ExpenseInv, Undisturbed, NeverAllOutside, HasNote
    <3> QED
      BY <3>2, <3>3
  <2> QED
    BY <2>1, <2>2, <2>3 DEF Undisturbed
<1> QED
  BY <1>7, <1>8, <1>9 DEF ExpenseInv

-----------------------------------------------------------------------------
(***************************************************************************)
(* Each step of a request.                                                 *)
(***************************************************************************)

\* A request that ends without a write.
LEMMA TaskLeaves ==
  ASSUME ExpenseInv, NEW s \in Sessions, TaskGoes(s, Free),
         UNCHANGED <<scene, closings, expenses, noteSeq>>,
         scene = "expenses" => s = Alone
  PROVE  ExpenseInv'
<1>1. Free \in Task /\ Free.op = "free"
  BY DEF Task, Free
<1>2. PICK t \in Task : t = Free /\ t.op = "free"
  BY <1>1
<1>3. MarkFits(t) /\ AttachFits(t) /\ Stands(t)'
  BY <1>2 DEF MarkFits, AttachFits, Stands
<1>4. closings' \in [Dates -> Closing]
  BY DEF ExpenseInv
<1>5. TaskGoes(s, t)
  BY <1>2
<1>6. \A d \in Dates : closings'[d].status = "CLOSED" => closings[d].status = "CLOSED"
  OBVIOUS
<1> QED
  BY <1>3, <1>4, <1>5, <1>6, TaskGoesOn

\* Getting or creating a night's row closes none.
LEMMA GotOrCreatedType ==
  ASSUME closings \in [Dates -> Closing], NEW d \in Dates
  PROVE  /\ GotOrCreated(d) \in [Dates -> Closing]
         /\ \A x \in Dates : GotOrCreated(d)[x].status = "CLOSED" => closings[x].status = "CLOSED"
<1>1. CASE closings[d].status = "ABSENT"
  <2>1. GotOrCreated(d) = [closings EXCEPT ![d].status = "OPEN"]
    BY <1>1 DEF GotOrCreated
  <2>2. closings[d] = [status |-> closings[d].status, last |-> closings[d].last]
    BY DEF Closing
  <2>3. PICK c : c = [status |-> "OPEN", last |-> closings[d].last]
    OBVIOUS
  <2>4. c \in Closing /\ c.status = "OPEN"
    BY <2>3 DEF Closing
  <2>5. GotOrCreated(d) = [closings EXCEPT ![d] = c]
    BY <2>1, <2>2, <2>3
  <2> QED
    BY <2>4, <2>5
<1>2. CASE closings[d].status # "ABSENT"
  BY <1>2 DEF GotOrCreated
<1> QED
  BY <1>1, <1>2

\* A launch begins on a night open to the user.
LEMMA BeginLaunchKeeps ==
  ASSUME ExpenseInv, NEW s \in Sessions, BeginLaunch(s), UNCHANGED scene,
         scene = "expenses" => s = Alone
  PROVE  ExpenseInv'
<1>1. PICK role \in Roles, d \in Dates, amount \in ExpenseAmounts, change \in NoteChanges :
        /\ change.kind \in {"keep", "attach"}
        /\ closings' = GotOrCreated(d)
        /\ CanEditClosing(role, d, closings'[d].status, now)
        /\ TaskGoes(s, [op |-> IF change.kind = "attach" THEN "readLaunch" ELSE "saveLaunch",
                        role |-> role, night |-> d, amount |-> amount, change |-> change])
        /\ expenses' = expenses /\ noteSeq' = noteSeq
  BY Zenon DEF BeginLaunch
<1>2. PICK op \in {"readLaunch", "saveLaunch"} :
        op = (IF change.kind = "attach" THEN "readLaunch" ELSE "saveLaunch")
  OBVIOUS
<1>3. PICK t : t = [op |-> op, role |-> role, night |-> d, amount |-> amount, change |-> change]
  OBVIOUS
<1>4. t \in Task /\ TaskGoes(s, t)
  BY <1>1, <1>2, <1>3 DEF Task
<1>5. t.op = op /\ t.role = role /\ t.night = d /\ t.change = change
  BY <1>3
<1>6. MarkFits(t) /\ AttachFits(t)
  BY <1>1, <1>2, <1>5 DEF MarkFits, AttachFits
<1>7. Stands(t)'
  <2>1. role # "ADMIN" => closings'[d].status # "CLOSED"
    BY <1>1 DEF CanEditClosing
  <2> QED
    BY <1>2, <1>5, <2>1 DEF Stands
<1>8. /\ closings' \in [Dates -> Closing]
      /\ \A x \in Dates : closings'[x].status = "CLOSED" => closings[x].status = "CLOSED"
  BY <1>1, GotOrCreatedType DEF ExpenseInv
<1> QED
  BY <1>1, <1>4, <1>6, <1>7, <1>8, TaskGoesOn

\* What an edit goes on with: a change whose marks fit the note as it is.
LEMMA CheckedChangeType ==
  ASSUME NEW e, NEW c \in NoteChanges, CheckedChange(e, c) # None
  PROVE  /\ CheckedChange(e, c) \in NoteChanges
         /\ CheckedChange(e, c).kind = "mark" =>
               HasNote(e) /\ MarksFit(expenses[e].note.key, CheckedChange(e, c).marks)
<1>1. CASE c.kind # "mark"
  BY <1>1 DEF CheckedChange
<1>2. CASE c.kind = "mark" /\ HasNote(e) /\ MarksFit(expenses[e].note.key, c.marks)
  BY <1>2 DEF CheckedChange
<1>3. CASE c.kind = "mark" /\ ~HasNote(e) /\ c.marks = {}
  <2>1. CheckedChange(e, c) = [kind |-> "keep"]
    BY <1>3 DEF CheckedChange
  <2>2. [kind |-> "keep"] \in NoteChanges
    <3>1. [kind |-> "keep"] \in [kind : {"keep", "remove"}]
      OBVIOUS
    <3> QED
      BY <3>1, Zenon DEF NoteChanges
  <2> QED
    BY <2>1, <2>2
<1>4. CASE /\ c.kind = "mark"
           /\ ~(HasNote(e) /\ MarksFit(expenses[e].note.key, c.marks))
           /\ ~(~HasNote(e) /\ c.marks = {})
  BY <1>4 DEF CheckedChange
<1> QED
  BY <1>1, <1>2, <1>3, <1>4

\* An edit begins on an expense open to the user.
LEMMA BeginEditKeeps ==
  ASSUME ExpenseInv, NEW s \in Sessions, BeginEdit(s), UNCHANGED scene,
         scene = "expenses" => s = Alone
  PROVE  ExpenseInv'
<1>1. PICK role \in Roles, e \in Launched, amount \in ExpenseAmounts, asks \in NoteChanges :
        LET change == CheckedChange(e, asks) IN
        /\ EditableExpense(role, e)
        /\ change # None
        /\ TaskGoes(s, [op |-> IF change.kind = "attach" THEN "readReplace" ELSE "saveReplace",
                        role |-> role, expense |-> e, amount |-> amount, change |-> change])
        /\ UNCHANGED <<closings, expenses, noteSeq>>
  BY Zenon DEF BeginEdit
<1>2. PICK change : change = CheckedChange(e, asks)
  OBVIOUS
<1>3. /\ change \in NoteChanges
      /\ change.kind = "mark" => HasNote(e) /\ MarksFit(expenses[e].note.key, change.marks)
  BY <1>1, <1>2, CheckedChangeType
<1>4. PICK op \in {"readReplace", "saveReplace"} :
        op = (IF change.kind = "attach" THEN "readReplace" ELSE "saveReplace")
  OBVIOUS
<1>5. PICK t : t = [op |-> op, role |-> role, expense |-> e, amount |-> amount, change |-> change]
  OBVIOUS
<1>6. t \in Task
  BY <1>3, <1>4, <1>5 DEF Task, Launched
<1>7. TaskGoes(s, t)
  BY <1>1, <1>2, <1>4, <1>5
<1>8. t.op = op /\ t.role = role /\ t.expense = e /\ t.change = change
  BY <1>5
<1>9. MarkFits(t) /\ AttachFits(t)
  BY <1>4, <1>8 DEF MarkFits, AttachFits
<1>10. Stands(t)'
  <2>1. role # "ADMIN" => closings[expenses[e].night].status # "CLOSED"
    BY <1>1 DEF EditableExpense, CanEditClosing
  <2>2. e \in Launched' /\ expenses' = expenses /\ closings' = closings
    BY <1>1 DEF Launched
  <2>3. change.kind = "mark" => HasNote(e)' /\ MarksFit(expenses'[e].note.key, change.marks)
    BY <1>3, <2>2 DEF HasNote
  <2> QED
    BY <1>4, <1>8, <2>1, <2>2, <2>3 DEF Stands
<1>11. closings' \in [Dates -> Closing]
  BY <1>1 DEF ExpenseInv
<1> QED
  BY <1>1, <1>6, <1>7, <1>9, <1>10, <1>11, TaskGoesOn

\* A removal begins on an expense open to the user.
LEMMA BeginRemoveKeeps ==
  ASSUME ExpenseInv, NEW s \in Sessions, BeginRemove(s), UNCHANGED scene,
         scene = "expenses" => s = Alone
  PROVE  ExpenseInv'
<1>1. PICK role \in Roles, e \in Launched :
        /\ EditableExpense(role, e)
        /\ TaskGoes(s, [op |-> "remove", role |-> role, expense |-> e])
        /\ UNCHANGED <<closings, expenses, noteSeq>>
  BY Zenon DEF BeginRemove
<1>2. PICK t : t = [op |-> "remove", role |-> role, expense |-> e]
  OBVIOUS
<1>3. t \in Task /\ TaskGoes(s, t)
  BY <1>1, <1>2 DEF Task, Launched
<1>4. t.op = "remove" /\ t.role = role /\ t.expense = e
  BY <1>2
<1>5. MarkFits(t) /\ AttachFits(t)
  BY <1>4 DEF MarkFits, AttachFits
<1>6. Stands(t)'
  <2>1. role # "ADMIN" => closings[expenses[e].night].status # "CLOSED"
    BY <1>1 DEF EditableExpense, CanEditClosing
  <2>2. e \in Launched' /\ expenses' = expenses /\ closings' = closings
    BY <1>1 DEF Launched
  <2> QED
    BY <1>4, <2>1, <2>2 DEF Stands
<1>7. closings' \in [Dates -> Closing]
  BY <1>1 DEF ExpenseInv
<1> QED
  BY <1>1, <1>3, <1>5, <1>6, <1>7, TaskGoesOn

\* A marking begins with what its marks come to.
LEMMA BeginMarkKeeps ==
  ASSUME ExpenseInv, NEW s \in Sessions, BeginMark(s), UNCHANGED scene,
         scene = "expenses" => s = Alone
  PROVE  ExpenseInv'
<1>1. PICK e \in Launched : HasNote(e) /\
        \E marks \in SUBSET Positions(expenses[e].note.key) :
              /\ MarksFit(expenses[e].note.key, marks)
              /\ Rebalanced(e, marks) > 0
              /\ TaskGoes(s, [op |-> "mark", role |-> "ADMIN", expense |-> e,
                              note |-> expenses[e].note.id, marks |-> marks,
                              previous |-> expenses[e].amount, base |-> Base(e),
                              amount |-> Rebalanced(e, marks)])
  BY Zenon DEF BeginMark
<1>2. PICK marks \in SUBSET Positions(expenses[e].note.key) :
              /\ MarksFit(expenses[e].note.key, marks)
              /\ Rebalanced(e, marks) > 0
              /\ TaskGoes(s, [op |-> "mark", role |-> "ADMIN", expense |-> e,
                              note |-> expenses[e].note.id, marks |-> marks,
                              previous |-> expenses[e].amount, base |-> Base(e),
                              amount |-> Rebalanced(e, marks)])
  BY <1>1
<1>3. UNCHANGED <<closings, expenses, noteSeq>>
  BY DEF BeginMark
<1>4. PICK n \in Note : n = expenses[e].note
  BY <1>1, ExpenseFields DEF ExpenseInv, HasNote
<1>5. /\ e \in Expenses /\ expenses[e].amount \in Nat \ {0}
      /\ n.id \in Nat /\ n.id <= noteSeq /\ n.key \in Keys
      /\ n.outside \in SUBSET Positions(n.key) /\ marks \in SUBSET Lines
  <2>1. n.id <= noteSeq
    BY <1>1, <1>4 DEF ExpenseInv, ExpensesTypeOK
  <2>2. marks \in SUBSET Lines
    BY <1>2, <1>4, NoteFields DEF Lines
  <2> QED
    BY <1>4, <2>1, <2>2, ExpenseFields, NoteFields DEF ExpenseInv
<1>6. PICK out \in Nat : out = OutsideTotal(n.key, marks)
  BY <1>2, <1>4, <1>5, OutsideTotalType
<1>7. PICK before \in Nat : before = OutsideTotal(n.key, n.outside)
  BY <1>5, OutsideTotalType
<1>8. PICK base \in Nat : base = Base(e) /\ base = expenses[e].amount + before
  <2>1. Base(e) = expenses[e].amount + before
    BY <1>1, <1>4, <1>7 DEF Base, OutsideOf
  <2> QED
    BY <1>5, <2>1
<1>9. PICK amount \in Nat \ {0} : amount = Rebalanced(e, marks) /\ base = amount + out
  <2>1. Rebalanced(e, marks) = base - out
    BY <1>4, <1>6, <1>8 DEF Rebalanced
  <2>2. base - out \in Nat \ {0}
    BY <1>2, <2>1
  <2> QED
    BY <2>1, <2>2
<1>10. PICK t : t = [op |-> "mark", role |-> "ADMIN", expense |-> e, note |-> n.id,
                     marks |-> marks, previous |-> expenses[e].amount, base |-> base,
                     amount |-> amount]
  OBVIOUS
<1>11. t \in Task
  BY <1>5, <1>10 DEF Task
<1>12. TaskGoes(s, t)
  BY <1>2, <1>4, <1>8, <1>9, <1>10
<1>13. /\ t.op = "mark" /\ t.expense = e /\ t.note = n.id /\ t.marks = marks
       /\ t.base = base /\ t.amount = amount
  BY <1>10
<1>14. MarkFits(t)
  BY <1>2, <1>4, <1>5, <1>6, <1>9, <1>13 DEF MarkFits
<1>15. AttachFits(t) /\ Stands(t)'
  BY <1>13 DEF AttachFits, Stands
<1>16. closings' \in [Dates -> Closing]
  BY <1>3 DEF ExpenseInv
<1> QED
  BY <1>3, <1>11, <1>12, <1>14, <1>15, <1>16, TaskGoesOn

\* A note is read, and its marks fit it.
LEMMA ReadNoteKeeps ==
  ASSUME ExpenseInv, NEW s \in Sessions, ReadNote(s), UNCHANGED scene,
         scene = "expenses" => s = Alone
  PROVE  ExpenseInv'
<1>1. PICK t \in Task : t = task[s]
  BY DEF ExpenseInv, ExpensesTypeOK
<1>2. /\ t.op \in {"readLaunch", "readReplace"}
      /\ MarksFit(t.change.key, t.change.marks)
      /\ UNCHANGED <<closings, expenses, noteSeq>>
      /\ AttachFits(t)
      /\ scene = "expenses" => Stands(t)
  BY <1>1 DEF ReadNote, ExpenseInv, Undisturbed
<1>3. t.change.kind = "attach"
  BY <1>2 DEF AttachFits
<1>4. PICK u : u = [t EXCEPT !.op = IF t.op = "readLaunch" THEN "saveLaunch" ELSE "saveReplace"]
  OBVIOUS
<1>5. TaskGoes(s, u)
  BY <1>1, <1>4 DEF ReadNote
<1>6. /\ u \in Task /\ u.role = t.role /\ u.change = t.change
      /\ t.op = "readLaunch" => u.op = "saveLaunch" /\ u.night = t.night
      /\ t.op = "readReplace" => u.op = "saveReplace" /\ u.expense = t.expense
  <2>1. CASE t.op = "readLaunch"
    <3>1. PICK role \in Roles, night \in Dates, amount \in ExpenseAmounts, change \in NoteChanges :
            t = [op |-> "readLaunch", role |-> role, night |-> night, amount |-> amount,
                 change |-> change]
      BY <2>1 DEF Task, Free
    <3>2. u = [op |-> "saveLaunch", role |-> role, night |-> night, amount |-> amount,
               change |-> change]
      BY <1>4, <3>1
    <3> QED
      BY <2>1, <3>1, <3>2 DEF Task
  <2>2. CASE t.op = "readReplace"
    <3>1. PICK role \in Roles, e \in Expenses, amount \in ExpenseAmounts, change \in NoteChanges :
            t = [op |-> "readReplace", role |-> role, expense |-> e, amount |-> amount,
                 change |-> change]
      BY <2>2 DEF Task, Free
    <3>2. u = [op |-> "saveReplace", role |-> role, expense |-> e, amount |-> amount,
               change |-> change]
      BY <1>4, <3>1
    <3> QED
      BY <2>2, <3>1, <3>2 DEF Task
  <2> QED
    BY <1>2, <2>1, <2>2
<1>7. MarkFits(u) /\ AttachFits(u)
  BY <1>2, <1>6 DEF MarkFits, AttachFits
<1>8. scene = "expenses" => Stands(u)'
  BY <1>2, <1>3, <1>6 DEF Stands, Launched
<1>9. closings' \in [Dates -> Closing]
  BY <1>2 DEF ExpenseInv
<1> QED
  BY <1>2, <1>5, <1>6, <1>7, <1>8, <1>9, TaskGoesOn

\* While a night is closed, s changes its expenses by the admin's hand alone.
ByTheAdmin(s) ==
    \A e \in Expenses :
        /\ expenses'[e] # expenses[e]
        /\ LET row == IF e \in Launched THEN expenses[e] ELSE expenses'[e]
           IN  closings[row.night].status = "CLOSED"
        => task[s].role = "ADMIN"

\* A launch is written.
LEMMA SaveLaunchKeeps ==
  ASSUME ExpenseInv, NEW s \in Sessions, SaveLaunch(s), UNCHANGED scene,
         scene = "expenses" => s = Alone
  PROVE  ExpenseInv' /\ (scene = "expenses" => ByTheAdmin(s))
<1>1. PICK t \in Task : t = task[s]
  BY DEF ExpenseInv, ExpensesTypeOK
<1>2. /\ t.op = "saveLaunch" /\ t.change \in NoteChanges
      /\ t.night \in Dates /\ t.amount \in Nat \ {0}
  BY <1>1, TaskFields DEF SaveLaunch
<1>3. PICK e \in Expenses \ (Launched \cup Remembered) :
        expenses' = [expenses EXCEPT ![e] =
              [night |-> t.night, amount |-> t.amount, note |-> NoteOf(t.change)]]
  BY <1>1 DEF SaveLaunch
<1>4. PICK n \in Note \cup {None} : n = NoteOf(t.change)
  BY <1>2, NoteOfType DEF ExpenseInv
<1>5. n # None => /\ t.change.kind = "attach" /\ n.id = noteSeq + 1
                  /\ n.key = t.change.key /\ n.outside = t.change.marks
  BY <1>2, <1>4, NoteOfType DEF ExpenseInv
<1>6. PICK row : row = [night |-> t.night, amount |-> t.amount, note |-> n]
  OBVIOUS
<1>7. row \in Expense /\ row.night = t.night /\ row.note = n
  BY <1>2, <1>6 DEF Expense
<1>8. TaskGoes(s, Free) /\ UNCHANGED closings
  BY DEF SaveLaunch, TaskEnds
<1>9. /\ noteSeq \in Nat /\ noteSeq' \in {noteSeq, noteSeq + 1}
      /\ t.change.kind = "attach" => noteSeq' = noteSeq + 1
  BY <1>1 DEF SaveLaunch, ExpenseInv, ExpensesTypeOK
<1>10. FollowsOn(e, row)
  BY <1>5, <1>7, <1>9 DEF FollowsOn
<1>11. n # None => MarksFit(n.key, n.outside)
  BY <1>1, <1>2, <1>5 DEF ExpenseInv, AttachFits
<1>12. expenses' = [expenses EXCEPT ![e] = row]
  BY <1>3, <1>4, <1>6
<1>13. ExpenseInv'
  BY <1>3, <1>7, <1>8, <1>9, <1>10, <1>11, <1>12, RowWritten
<1>14. ASSUME scene = "expenses" PROVE ByTheAdmin(s)
  <2>1. t.role # "ADMIN" => closings[t.night].status # "CLOSED"
    BY <1>1, <1>2, <1>14 DEF ExpenseInv, Undisturbed, Stands
  <2>2. \A x \in Expenses : expenses'[x] # expenses[x] => x = e
    BY <1>12 DEF ExpenseInv, ExpensesTypeOK
  <2>3. expenses'[e] = row
    BY <1>12 DEF ExpenseInv, ExpensesTypeOK
  <2> QED
    BY <1>1, <1>3, <1>7, <2>1, <2>2, <2>3 DEF ByTheAdmin
<1> QED
  BY <1>13, <1>14

\* An edit is written over the row and the note as they are now.
LEMMA SaveReplaceKeeps ==
  ASSUME ExpenseInv, NEW s \in Sessions, SaveReplace(s), UNCHANGED scene,
         scene = "expenses" => s = Alone
  PROVE  ExpenseInv' /\ (scene = "expenses" => ByTheAdmin(s))
<1>1. PICK t \in Task : t = task[s]
  BY DEF ExpenseInv, ExpensesTypeOK
<1>2. /\ t.op = "saveReplace" /\ t.change \in NoteChanges
      /\ t.amount \in Nat \ {0} /\ t.expense \in Launched
  BY <1>1, TaskFields DEF SaveReplace
<1>3. PICK e \in Launched : e = t.expense
  BY <1>2
<1>4. PICK old : old = expenses[e].note
  OBVIOUS
<1>5. /\ e \in Expenses /\ expenses[e].night \in Dates /\ old \in Note \cup {None}
      /\ expenses[e] = [night |-> expenses[e].night, amount |-> expenses[e].amount, note |-> old]
  BY <1>4, ExpenseFields DEF ExpenseInv
<1>6. PICK n : n = CASE t.change.kind = "keep" -> old
                     [] t.change.kind = "mark" -> Marked(old, t.change.marks)
                     [] OTHER -> NoteOf(t.change)
  OBVIOUS
<1>7. PICK row : row = [night |-> expenses[e].night, amount |-> t.amount, note |-> n]
  OBVIOUS
<1>8. expenses' = [expenses EXCEPT ![e] = row]
  <2>1. expenses' = [expenses EXCEPT ![e] =
              [night |-> @.night, amount |-> t.amount,
               note |-> CASE t.change.kind = "keep" -> @.note
                          [] t.change.kind = "mark" -> Marked(@.note, t.change.marks)
                          [] OTHER -> NoteOf(t.change)]]
    BY <1>1, <1>3 DEF SaveReplace
  <2> QED
    BY <1>4, <1>6, <1>7, <2>1
<1>9. TaskGoes(s, Free) /\ UNCHANGED closings
  BY DEF SaveReplace, TaskEnds
<1>10. /\ noteSeq \in Nat /\ noteSeq' \in {noteSeq, noteSeq + 1}
       /\ t.change.kind = "attach" => noteSeq' = noteSeq + 1
  BY <1>1 DEF SaveReplace, ExpenseInv, ExpensesTypeOK
<1>11. n \in Note \cup {None}
  <2>1. CASE t.change.kind = "keep"
    BY <1>5, <1>6, <2>1
  <2>2. CASE t.change.kind = "mark"
    <3>1. n = Marked(old, t.change.marks)
      BY <1>6, <2>2
    <3>2. old = None => n = None
      BY <3>1 DEF Marked
    <3>3. old # None => n \in Note
      BY <1>5, <3>1, MarkedType
    <3> QED
      BY <3>2, <3>3
  <2>3. CASE t.change.kind \notin {"keep", "mark"}
    BY <1>2, <1>6, <2>3, NoteOfType DEF ExpenseInv
  <2> QED
    BY <2>1, <2>2, <2>3
<1>12. row \in Expense /\ row.note = n
  BY <1>2, <1>5, <1>7, <1>11 DEF Expense
<1>13. old # None => HasNote(e) /\ old.id <= noteSeq /\ old.id \in Nat
  BY <1>4, <1>5, NoteFields DEF ExpenseInv, ExpensesTypeOK, HasNote
<1>14. FollowsOn(e, row)
  <2>1. CASE t.change.kind = "keep"
    BY <1>4, <1>6, <1>10, <1>12, <1>13, <2>1 DEF FollowsOn
  <2>2. CASE t.change.kind = "mark"
    <3>1. n = Marked(old, t.change.marks)
      BY <1>6, <2>2
    <3>2. old = None => n = None
      BY <3>1 DEF Marked
    <3>3. old # None => n.id = old.id /\ n.key = old.key
      BY <1>5, <3>1, MarkedType
    <3> QED
      BY <1>4, <1>10, <1>12, <1>13, <3>2, <3>3 DEF FollowsOn
  <2>3. CASE t.change.kind \notin {"keep", "mark"}
    <3>1. n = NoteOf(t.change)
      BY <1>6, <2>3
    <3>2. n # None => n.id = noteSeq + 1 /\ t.change.kind = "attach"
      BY <1>2, <3>1, NoteOfType DEF ExpenseInv
    <3> QED
      BY <1>10, <1>12, <3>2 DEF FollowsOn
  <2> QED
    BY <2>1, <2>2, <2>3
<1>15. scene = "expenses" /\ n # None => MarksFit(n.key, n.outside)
  <2> SUFFICES ASSUME scene = "expenses", n # None PROVE MarksFit(n.key, n.outside)
    OBVIOUS
  <2>0. AttachFits(t) /\ Stands(t) /\ NeverAllOutside
    BY <1>1 DEF ExpenseInv, Undisturbed
  <2>1. CASE t.change.kind = "keep"
    BY <1>4, <1>6, <1>13, <2>0, <2>1 DEF NeverAllOutside
  <2>2. CASE t.change.kind = "mark"
    <3>1. n = Marked(old, t.change.marks)
      BY <1>6, <2>2
    <3>2. old # None
      BY <3>1 DEF Marked
    <3>3. n.key = old.key /\ n.outside = t.change.marks \cap Positions(old.key)
      BY <1>5, <3>1, <3>2, MarkedType
    <3>4. MarksFit(old.key, t.change.marks)
      BY <1>2, <1>3, <1>4, <2>0, <2>2 DEF Stands
    <3>5. t.change.marks \cap Positions(old.key) = t.change.marks
      BY <3>4 DEF MarksFit
    <3> QED
      BY <3>3, <3>4, <3>5
  <2>3. CASE t.change.kind \notin {"keep", "mark"}
    <3>1. n = NoteOf(t.change)
      BY <1>6, <2>3
    <3>2. t.change.kind = "attach" /\ n.key = t.change.key /\ n.outside = t.change.marks
      BY <1>2, <3>1, NoteOfType DEF ExpenseInv
    <3> QED
      BY <1>2, <2>0, <3>2 DEF AttachFits
  <2> QED
    BY <2>1, <2>2, <2>3
<1>16. ExpenseInv'
  BY <1>5, <1>8, <1>9, <1>10, <1>12, <1>14, <1>15, RowWritten
<1>17. ASSUME scene = "expenses" PROVE ByTheAdmin(s)
  <2>1. t.role # "ADMIN" => closings[expenses[e].night].status # "CLOSED"
    BY <1>1, <1>2, <1>3, <1>17 DEF ExpenseInv, Undisturbed, Stands
  <2>2. \A x \in Expenses : expenses'[x] # expenses[x] => x = e
    BY <1>8 DEF ExpenseInv, ExpensesTypeOK
  <2> QED
    BY <1>1, <2>1, <2>2 DEF ByTheAdmin
<1> QED
  BY <1>16, <1>17

\* A removal is written.
LEMMA SaveRemoveKeeps ==
  ASSUME ExpenseInv, NEW s \in Sessions, SaveRemove(s), UNCHANGED scene,
         scene = "expenses" => s = Alone
  PROVE  ExpenseInv' /\ (scene = "expenses" => ByTheAdmin(s))
<1>1. PICK t \in Task : t = task[s]
  BY DEF ExpenseInv, ExpensesTypeOK
<1>2. PICK e \in Launched : e = t.expense
  BY <1>1 DEF SaveRemove
<1>3. /\ expenses' = [expenses EXCEPT ![e] = NoExpense]
      /\ TaskGoes(s, Free) /\ UNCHANGED <<closings, noteSeq>> /\ t.op = "remove"
  BY <1>1, <1>2 DEF SaveRemove, TaskEnds
<1>4. FollowsOn(e, NoExpense)
  BY DEF FollowsOn
<1>5. e \in Expenses
  BY <1>2 DEF Launched
<1>6. ExpenseInv'
  BY <1>3, <1>4, <1>5, RowWritten
<1>7. ASSUME scene = "expenses" PROVE ByTheAdmin(s)
  <2>1. t.role # "ADMIN" => closings[expenses[e].night].status # "CLOSED"
    BY <1>1, <1>2, <1>3, <1>7 DEF ExpenseInv, Undisturbed, Stands
  <2>2. \A x \in Expenses : expenses'[x] # expenses[x] => x = e
    BY <1>3 DEF ExpenseInv, ExpensesTypeOK
  <2> QED
    BY <1>1, <1>2, <2>1, <2>2 DEF ByTheAdmin
<1> QED
  BY <1>6, <1>7

\* A marking is written, if the amount it read still stands: by the note's id
\* its marks still fit, and the expense comes to what it came to.
LEMMA SaveMarkKeeps ==
  ASSUME ExpenseInv, NEW s \in Sessions, SaveMark(s), UNCHANGED scene,
         scene = "expenses" => s = Alone
  PROVE  /\ ExpenseInv'
         /\ \A x \in Launched : task[s].expense = x /\ ~AmountAloneStands(task[s]) =>
               Base(x)' = Base(x)
<1>1. PICK t \in Task : t = task[s]
  BY DEF ExpenseInv, ExpensesTypeOK
<1>2. /\ t.op = "mark" /\ t.amount \in Nat \ {0} /\ t.marks \in SUBSET Lines /\ t.note \in Nat
      /\ TaskGoes(s, Free) /\ UNCHANGED <<closings, noteSeq>>
  BY <1>1, TaskFields DEF SaveMark, TaskEnds
<1>3. CASE ~StillAsRead(t)
  <2>1. expenses' = expenses
    BY <1>1, <1>3 DEF SaveMark
  <2>2. ExpenseInv'
    BY <1>2, <2>1, TaskLeaves
  <2>3. \A x : Base(x)' = Base(x)
    BY <2>1 DEF Base, OutsideOf, HasNote, Launched
  <2> QED
    BY <1>1, <2>2, <2>3
<1>4. CASE StillAsRead(t)
  <2>1. PICK e \in Launched : e = t.expense /\ expenses[e].amount = t.previous
    BY <1>4 DEF StillAsRead
  <2>2. PICK old : old = expenses[e].note
    OBVIOUS
  <2>3. /\ e \in Expenses /\ expenses[e].night \in Dates /\ old \in Note \cup {None}
        /\ old # None <=> HasNote(e)
    BY <2>2, ExpenseFields DEF ExpenseInv, HasNote
  <2>4. old # None => old.id \in Nat /\ old.id <= noteSeq /\ old.key \in Keys
    BY <2>2, <2>3, NoteFields DEF ExpenseInv, ExpensesTypeOK
  <2>5. PICK n : n = IF old # None /\ old.id = t.note THEN Marked(old, t.marks) ELSE old
    OBVIOUS
  <2>6. PICK row : row = [night |-> expenses[e].night, amount |-> t.amount, note |-> n]
    OBVIOUS
  <2>7. expenses' = [expenses EXCEPT ![e] = row]
    <3>1. expenses' = [expenses EXCEPT ![e] =
                  [night |-> @.night, amount |-> t.amount,
                   note |-> IF @.note # None /\ @.note.id = t.note
                            THEN Marked(@.note, t.marks) ELSE @.note]]
      BY <1>1, <1>4, <2>1 DEF SaveMark
    <3> QED
      BY <2>2, <2>5, <2>6, <3>1
  <2>8. MarkFits(t)
    BY <1>1 DEF ExpenseInv
  <2>9. old # None /\ old.id = t.note =>
          /\ MarksFit(old.key, t.marks)
          /\ t.base = t.amount + OutsideTotal(old.key, t.marks)
          /\ n \in Note /\ n # None /\ n.id = old.id /\ n.key = old.key /\ n.outside = t.marks
    <3> SUFFICES ASSUME old # None, old.id = t.note
                 PROVE  /\ MarksFit(old.key, t.marks)
                        /\ t.base = t.amount + OutsideTotal(old.key, t.marks)
                        /\ n \in Note /\ n # None /\ n.id = old.id /\ n.key = old.key
                        /\ n.outside = t.marks
      OBVIOUS
    <3>1. MarksFit(old.key, t.marks) /\ t.base = t.amount + OutsideTotal(old.key, t.marks)
      BY <1>2, <2>1, <2>2, <2>3, <2>8 DEF MarkFits
    <3>2. t.marks \cap Positions(old.key) = t.marks
      BY <3>1 DEF MarksFit
    <3>3. n = Marked(old, t.marks) /\ old \in Note
      BY <2>3, <2>5
    <3> QED
      BY <3>1, <3>2, <3>3, MarkedType
  <2>10. ~(old # None /\ old.id = t.note) => n = old
    BY <2>5
  <2>11. n \in Note \cup {None}
    BY <2>3, <2>9, <2>10
  <2>12. row \in Expense /\ row.note = n /\ row.amount = t.amount
    BY <1>2, <2>3, <2>6, <2>11 DEF Expense
  <2>13. FollowsOn(e, row)
    BY <1>2, <2>2, <2>3, <2>4, <2>9, <2>10, <2>12 DEF FollowsOn
  <2>14. scene = "expenses" /\ n # None => MarksFit(n.key, n.outside)
    <3>1. scene = "expenses" /\ old # None => MarksFit(old.key, old.outside)
      BY <2>2, <2>3 DEF ExpenseInv, Undisturbed, NeverAllOutside
    <3> QED
      BY <2>9, <2>10, <3>1
  <2>15. noteSeq' \in {noteSeq, noteSeq + 1}
    BY <1>2
  <2>16. ExpenseInv'
    BY <1>2, <2>3, <2>7, <2>12, <2>13, <2>14, <2>15, RowWritten
  <2>17. ASSUME ~AmountAloneStands(t) PROVE Base(e)' = Base(e)
    <3>1. Base(e) = t.base /\ HasNote(e) /\ old.id = t.note
      BY <2>1, <2>2, <2>17 DEF AmountAloneStands
    <3>2. expenses'[e] = row /\ row # NoExpense
      BY <2>3, <2>7, <2>12 DEF ExpenseInv, ExpensesTypeOK
    <3>3. HasNote(e)'
      BY <2>3, <2>9, <2>12, <3>1, <3>2 DEF HasNote, Launched
    <3>4. expenses'[e].note.key = old.key /\ expenses'[e].note.outside = t.marks
      BY <2>3, <2>9, <2>12, <3>1, <3>2
    <3>5. OutsideOf(e)' = OutsideTotal(old.key, t.marks)
      BY <3>3, <3>4 DEF OutsideOf
    <3>6. Base(e)' = t.amount + OutsideTotal(old.key, t.marks)
      BY <2>12, <3>2, <3>5 DEF Base
    <3> QED
      BY <2>3, <2>9, <3>1, <3>6
  <2> QED
    BY <1>1, <2>1, <2>16, <2>17
<1> QED
  BY <1>3, <1>4

-----------------------------------------------------------------------------
(***************************************************************************)
(* The initial state and each step of the shop.                            *)
(***************************************************************************)

\* Only the request that moves ends.
LEMMA OthersGoOn ==
  ASSUME ExpensesTypeOK, NEW s \in Sessions, NEW t, TaskGoes(s, t)
  PROVE  \A x \in Sessions : x # s => task'[x] = task[x]
BY DEF TaskGoes, ExpensesTypeOK

\* The promises of the expenses, of a step.
ExpensePromises ==
    /\ RebalanceKeepsBaseStep
    /\ \A s \in Sessions : task'[s] # task[s] => ByTheAdmin(s)

\* A step of one request keeps them.
LEMMA ExpenseStepKeeps ==
  ASSUME ExpenseInv, NEW s \in Sessions, UNCHANGED scene,
         \/ scene = "expenses" /\ s = Alone /\ ExpenseStep(s)
         \/ scene = "markings" /\ EditOrMark(s)
  PROVE  ExpenseInv' /\ ExpensePromises
<1>0. /\ scene = "expenses" => s = Alone
      /\ ExpensesTypeOK
  BY DEF ExpenseInv
<1>1. ASSUME expenses' = expenses PROVE ExpensePromises
  <2>1. \A e : Base(e)' = Base(e)
    BY <1>1 DEF Base, OutsideOf, HasNote, Launched
  <2> QED
    BY <1>1, <2>1 DEF ExpensePromises, RebalanceKeepsBaseStep, ByTheAdmin
<1>2. ASSUME ExpenseInv', NEW t, TaskGoes(s, t), task[s].op # "mark",
             scene = "expenses" => ByTheAdmin(s)
      PROVE  ExpensePromises
  <2>1. \A x \in Sessions : task'[x] # task[x] => x = s
    BY <1>0, <1>2, OthersGoOn
  <2>2. \A x \in Sessions : ~Marks(x)
    <3> SUFFICES ASSUME NEW x \in Sessions, Marks(x) PROVE FALSE
      OBVIOUS
    <3>1. task[x].op = "mark" /\ task'[x] = Free
      BY DEF Marks
    <3>2. task'[x] # task[x]
      BY <3>1 DEF Free
    <3> QED
      BY <1>2, <2>1, <3>1, <3>2
  <2>3. scene = "markings" => ByTheAdmin(s)
    <3> SUFFICES ASSUME scene = "markings", NEW e \in Expenses, expenses'[e] # expenses[e]
                 PROVE  closings[(IF e \in Launched THEN expenses[e] ELSE expenses'[e]).night].status
                           # "CLOSED"
      BY DEF ByTheAdmin
    <3>1. \A d \in Dates : closings[d].status # "CLOSED"
      BY DEF ExpenseInv
    <3>2. e \in Launched => expenses[e].night \in Dates
      BY <1>0, ExpenseFields
    <3>3. e \notin Launched => expenses'[e].night \in Dates
      <4>1. (e \in Launched => expenses[e].night \in Dates)'
        <5>1. ExpensesTypeOK'
          BY <1>2 DEF ExpenseInv
        <5>2. e \in Launched' => expenses'[e] \in Expense
          BY <5>1 DEF ExpensesTypeOK, Launched
        <5> QED
          BY <5>2 DEF Expense
      <4>2. e \notin Launched => e \in Launched'
        BY DEF Launched
      <4> QED
        BY <4>1, <4>2
    <3> QED
      BY <3>1, <3>2, <3>3
  <2> QED
    BY <2>1, <2>2, <2>3, <1>2 DEF ExpensePromises, RebalanceKeepsBaseStep
<1>3. CASE BeginLaunch(s)
  BY <1>0, <1>1, <1>3, BeginLaunchKeeps DEF BeginLaunch
<1>4. CASE SaveLaunch(s)
  BY <1>0, <1>2, <1>4, SaveLaunchKeeps DEF SaveLaunch, TaskEnds
<1>5. CASE BeginRemove(s)
  BY <1>0, <1>1, <1>5, BeginRemoveKeeps DEF BeginRemove
<1>6. CASE SaveRemove(s)
  BY <1>0, <1>2, <1>6, SaveRemoveKeeps DEF SaveRemove, TaskEnds
<1>7. CASE BeginEdit(s)
  BY <1>0, <1>1, <1>7, BeginEditKeeps DEF BeginEdit
<1>8. CASE ReadNote(s)
  BY <1>0, <1>1, <1>8, ReadNoteKeeps DEF ReadNote
<1>9. CASE SaveReplace(s)
  BY <1>0, <1>2, <1>9, SaveReplaceKeeps DEF SaveReplace, TaskEnds
<1>10. CASE BeginMark(s)
  BY <1>0, <1>1, <1>10, BeginMarkKeeps DEF BeginMark
<1>11. CASE SaveMark(s)
  <2>1. /\ ExpenseInv'
        /\ \A x \in Launched : task[s].expense = x /\ ~AmountAloneStands(task[s]) =>
               Base(x)' = Base(x)
    BY <1>0, <1>11, SaveMarkKeeps
  <2>2. \A x \in Sessions : task'[x] # task[x] => x = s
    BY <1>0, <1>11, OthersGoOn DEF SaveMark, TaskEnds
  <2>3. task[s].op = "mark" /\ task[s].role = "ADMIN"
    BY <1>0, <1>11, TaskFields DEF SaveMark, ExpensesTypeOK
  <2>4. \A x \in Sessions : Marks(x) => x = s
    <3> SUFFICES ASSUME NEW x \in Sessions, Marks(x) PROVE x = s
      OBVIOUS
    <3>1. task[x].op = "mark" /\ task'[x] = Free
      BY DEF Marks
    <3>2. task'[x] # task[x]
      BY <3>1 DEF Free
    <3> QED
      BY <2>2, <3>2
  <2>5. RebalanceKeepsBaseStep
    BY <2>1, <2>4 DEF RebalanceKeepsBaseStep
  <2> QED
    BY <2>1, <2>2, <2>3, <2>5 DEF ExpensePromises, ByTheAdmin
<1>12. CASE DropTask(s)
  BY <1>0, <1>1, <1>12, TaskLeaves DEF DropTask, TaskEnds
<1> QED
  BY <1>3, <1>4, <1>5, <1>6, <1>7, <1>8, <1>9, <1>10, <1>11, <1>12 DEF ExpenseStep, EditOrMark

\* The status of a night is written.
LEMMA StatusType ==
  ASSUME closings \in [Dates -> Closing], NEW d, NEW status \in {"OPEN", "CLOSED"},
         closings' = [closings EXCEPT ![d].status = status]
  PROVE  closings' \in [Dates -> Closing]
<1>1. CASE d \in Dates
  <2>1. /\ closings[d] = [status |-> closings[d].status, last |-> closings[d].last]
        /\ closings[d].last \in Nat
    BY <1>1 DEF Closing
  <2>2. PICK c : c = [closings[d] EXCEPT !.status = status]
    OBVIOUS
  <2>3. c = [status |-> status, last |-> closings[d].last]
    BY <2>1, <2>2
  <2>4. c \in Closing
    BY <2>1, <2>3 DEF Closing
  <2>5. closings' = [closings EXCEPT ![d] = c]
    BY <2>2
  <2> QED
    BY <2>4, <2>5
<1>2. CASE d \notin Dates
  BY <1>2
<1> QED
  BY <1>1, <1>2

\* A night is closed or reopened while no request on expenses is in flight.
LEMMA ClosingNextKeeps ==
  ASSUME ExpenseInv, scene = "expenses", task[Alone] = Free, ClosingNext(Alone),
         UNCHANGED <<scene, expenses, noteSeq, task>>
  PROVE  ExpenseInv'
<1>1. closings' \in [Dates -> Closing]
  <2>0. closings \in [Dates -> Closing]
    BY DEF ExpenseInv
  <2>1. CASE BeginClose(Alone)
    <3>1. PICK d \in Dates : closings' = GotOrCreated(d)
      BY <2>1, Zenon DEF BeginClose
    <3> QED
      BY <2>0, <3>1, GotOrCreatedType
  <2>2. CASE MarkClosed(Alone)
    BY <2>0, <2>2, StatusType DEF MarkClosed
  <2>3. CASE MarkReopened(Alone)
    BY <2>0, <2>3, StatusType DEF MarkReopened
  <2>4. CASE BeginCloseByDate(Alone) \/ CheckOpenTabs(Alone) \/ BeginReopen(Alone)
    BY <2>0, <2>4 DEF BeginCloseByDate, CheckOpenTabs, BeginReopen
  <2> QED
    BY <2>1, <2>2, <2>3, <2>4 DEF ClosingNext
<1>2. Launched' = Launched /\ \A e : HasNote(e)' = HasNote(e)
  BY DEF Launched, HasNote
<1>3. ExpensesTypeOK' /\ \A s \in Sessions : (MarkFits(task[s]) /\ AttachFits(task[s]))'
  BY <1>2 DEF ExpenseInv, ExpensesTypeOK, MarkFits, AttachFits
<1>4. Undisturbed'
  <2>1. Free.op = "free"
    BY DEF Free
  <2>2. Stands(task[Alone])'
    BY <2>1 DEF Stands
  <2>3. NeverAllOutside'
    BY <1>2 DEF ExpenseInv, Undisturbed, NeverAllOutside
  <2> QED
    BY <2>2, <2>3 DEF ExpenseInv, Undisturbed
<1> QED
  BY <1>1, <1>3, <1>4 DEF ExpenseInv

\* Elsewhere nothing of the expenses moves.
LEMMA ExpensesUntouched ==
  ASSUME ExpenseInv, UNCHANGED <<scene, closings, expenses, noteSeq, task>>
  PROVE  ExpenseInv' /\ ExpensePromises
<1>1. Launched' = Launched /\ \A e : HasNote(e)' = HasNote(e)
  BY DEF Launched, HasNote
<1>2. ExpensesTypeOK' /\ \A s \in Sessions : (MarkFits(task[s]) /\ AttachFits(task[s]))'
  BY <1>1 DEF ExpenseInv, ExpensesTypeOK, MarkFits, AttachFits
<1>3. Undisturbed => Undisturbed'
  <2>1. NeverAllOutside => NeverAllOutside'
    BY <1>1 DEF NeverAllOutside
  <2>2. Stands(task[Alone]) => Stands(task[Alone])'
    BY <1>1 DEF Stands
  <2> QED
    BY <2>1, <2>2 DEF Undisturbed
<1>4. ExpenseInv'
  BY <1>2, <1>3 DEF ExpenseInv
<1>5. \A e : Base(e)' = Base(e)
  BY DEF Base, OutsideOf, HasNote, Launched
<1> QED
  BY <1>4, <1>5 DEF ExpensePromises, RebalanceKeepsBaseStep, ByTheAdmin

\* The rows an instance starts with, and no request yet.
LEMMA ExpenseInvInit ==
  ASSUME ShopInit
  PROVE  ExpenseInv
<1>1. /\ ExpenseInit /\ scene \in Scenes
      /\ closings = [d \in Dates |->
            [status |-> IF \E e \in Launched : expenses[e].night = d THEN "OPEN" ELSE "ABSENT",
             last |-> 0]]
  BY DEF ShopInit
<1>2. Free \in Task /\ Free.op = "free"
  BY DEF Task, Free
<1>3. expenses \in LaunchedBefore /\ \A s \in Sessions : task[s] = Free
  BY <1>1 DEF ExpenseInit
<1>4. ExpensesTypeOK
  <2>1. noteSeq \in Nat
    BY <1>1, NotesAssumption, FS_CardinalityType DEF ExpenseInit
  <2> QED
    BY <1>1, <1>2, <1>3, <2>1 DEF ExpensesTypeOK, ExpenseInit
<1>5. /\ closings \in [Dates -> Closing]
      /\ \A d \in Dates : closings[d].status # "CLOSED"
  BY <1>1 DEF Closing
<1>6. \A s \in Sessions : MarkFits(task[s]) /\ AttachFits(task[s])
  BY <1>2, <1>3 DEF MarkFits, AttachFits
<1>7. NeverAllOutside
  BY <1>3 DEF NeverAllOutside, HasNote, Launched
<1>8. Undisturbed
  BY <1>2, <1>3, <1>7, SceneAssumption DEF Undisturbed, Stands
<1> QED
  BY <1>4, <1>5, <1>6, <1>8 DEF ExpenseInv

\* A request on the menu leaves the nights as they are.
LEMMA MenuKeepsNights ==
  ASSUME NEW s, MenuStep(s) \/ CategoryStep(s) \/ RepricingStep(s)
  PROVE  closings' = closings
BY DEF MenuStep, CategoryStep, RepricingStep, BeginAddons, WriteAddons, DropDraft,
       BeginCreateProduct, WriteCreateProduct, BeginProductEdit, ReadProduct,
       WriteProduct, BeginSupplyEdit, ReadSaleProduct, WriteSupply, BeginCostEdit,
       WriteCost, BeginImport, ReadLeaving, WriteImport, CashStays

\* Each step of the shop keeps the invariant, and the promises.
LEMMA ExpenseInvNext ==
  ASSUME ExpenseInv, [ShopNext]_shopVars
  PROVE  ExpenseInv' /\ ExpensePromises
<1>0. Alone \in Sessions
  BY SceneAssumption
<1>1. CASE OnExpenses
  <2>0. scene = "expenses" /\ scene' = scene
    BY <1>1 DEF OnExpenses
  <2>1. CASE ExpenseStep(Alone)
    BY <1>0, <2>0, <2>1, ExpenseStepKeeps
  <2>2. CASE task[Alone] = Free /\ ClosingNext(Alone) /\ ExpensesStay
    <3>1. ExpenseInv'
      BY <2>0, <2>2, ClosingNextKeeps DEF ExpensesStay
    <3>2. \A e : Base(e)' = Base(e)
      BY <2>2 DEF ExpensesStay, Base, OutsideOf, HasNote, Launched
    <3> QED
      BY <2>2, <3>1, <3>2 DEF ExpensesStay, ExpensePromises, RebalanceKeepsBaseStep, ByTheAdmin
  <2>3. CASE ClockTicks /\ ExpensesStay
    BY <2>0, <2>3, ExpensesUntouched DEF ClockTicks, ExpensesStay
  <2> QED
    BY <1>1, <2>1, <2>2, <2>3 DEF OnExpenses
<1>2. CASE OnMarkings
  BY <1>2, ExpenseStepKeeps DEF OnMarkings
<1>3. CASE OnMenu
  BY <1>3, MenuKeepsNights, ExpensesUntouched DEF OnMenu, ClockTicks, ExpensesStay
<1>4. CASE OnLevels
  BY <1>4, MenuKeepsNights, ExpensesUntouched DEF OnLevels, ExpensesStay
<1>5. CASE OnRepricing
  BY <1>5, MenuKeepsNights, ExpensesUntouched DEF OnRepricing, ExpensesStay
<1>6. CASE OnPricing
  BY <1>6, MenuKeepsNights, PricingKeepsClock, ExpensesUntouched
  DEF OnPricing, MenuStep, ExpensesStay
<1>7. CASE OnScreen
  BY <1>7, ExpensesUntouched DEF OnScreen, ClockTicks, ExpensesStay, vars
<1>8. CASE OnForm
  BY <1>8, ExpensesUntouched DEF OnForm, ExpensesStay, vars
<1>9. CASE OnLines
  BY <1>9, ExpensesUntouched DEF OnLines, ExpensesStay, vars
<1>10. CASE UNCHANGED shopVars
  BY <1>10, ExpensesUntouched DEF shopVars, expenseVars, vars
<1> QED
  BY <1>1, <1>2, <1>3, <1>4, <1>5, <1>6, <1>7, <1>8, <1>9, <1>10 DEF ShopNext

-----------------------------------------------------------------------------
(***************************************************************************)
(* What is known of the expenses and of the requests in flight holds       *)
(* always.                                                                 *)
(***************************************************************************)
THEOREM ExpenseInvariant == ShopSpec => []ExpenseInv
<1>1. ShopInit => ExpenseInv
  BY ExpenseInvInit
<1>2. ExpenseInv /\ [ShopNext]_shopVars => ExpenseInv'
  BY ExpenseInvNext
<1> QED
  BY <1>1, <1>2, PTL DEF ShopSpec

(***************************************************************************)
(* The expenses, their notes and the requests on them keep their types     *)
(* (expenses/expense.service.ts, purchases/purchase.service.ts).           *)
(***************************************************************************)
THEOREM ExpenseTypeCorrect == ShopSpec => []ExpensesTypeOK
<1>1. ExpenseInv => ExpensesTypeOK
  BY DEF ExpenseInv
<1> QED
  BY <1>1, ExpenseInvariant, PTL

(***************************************************************************)
(* Marking a note's lines moves money and makes none, whatever is saved    *)
(* between the reading and the writing (purchases/expense-rebalance.ts).   *)
(***************************************************************************)
THEOREM RebalanceIsExact == ShopSpec => RebalanceKeepsBase
<1>1. ExpenseInv /\ [ShopNext]_shopVars => [RebalanceKeepsBaseStep]_expenseVars
  BY ExpenseInvNext DEF ExpensePromises
<1> QED
  BY <1>1, ExpenseInvariant, PTL DEF ShopSpec, RebalanceKeepsBase

(***************************************************************************)
(* Of requests that do not overlap, none leaves a note all marked          *)
(* (expenses/outside-items.ts).                                            *)
(***************************************************************************)
THEOREM NotesKeepALine == ShopSpec => []NoNoteAllOutside
<1>1. ExpenseInv => NoNoteAllOutside
  BY DEF ExpenseInv, Undisturbed, NoNoteAllOutside
<1> QED
  BY <1>1, ExpenseInvariant, PTL

(***************************************************************************)
(* Of requests that do not overlap with the closing of the night, none but *)
(* the admin's changes an expense of a closed night                        *)
(* (closing/closing-access.ts).                                            *)
(***************************************************************************)
THEOREM ClosedNightsAreTheAdmins == ShopSpec => ClosedExpensesAreAdmins
<1>1. ExpenseInv /\ [ShopNext]_shopVars => [ClosedExpensesStep]_expenseVars
  <2>1. ExpensePromises => ClosedExpensesStep
    BY DEF ExpensePromises, ByTheAdmin, ClosedExpensesStep
  <2> QED
    BY <2>1, ExpenseInvNext
<1> QED
  BY <1>1, ExpenseInvariant, PTL DEF ShopSpec, ClosedExpensesAreAdmins

=============================================================================
