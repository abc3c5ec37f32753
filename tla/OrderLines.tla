----------------------------- MODULE OrderLines -----------------------------
(***************************************************************************)
(* The lines of the order being typed, and the items a save sends          *)
(* (frontend: cash/order-lines.ts, cash/line-addons.ts,                    *)
(* cash/line-removals.ts, cash/line-merge.ts, cash/item-request.ts,        *)
(* cash/edit-marks.ts). Every item typed is a line of its own; lines that  *)
(* came out alike are joined when the order is saved. Prices and how the   *)
(* typed text is read are left out.                                        *)
(***************************************************************************)
EXTENDS DeskState

CONSTANTS
    SaleItems,       \* products of the menu
    AddonItems,      \* products sold on top of another
    RemovalChoices,  \* the keys that take ingredients out: sets of supplies
    Notes,           \* what may be noted on a line
    LineCap,         \* MAX_LINE_QUANTITY, 99
    SavedOrders,     \* orders that may be edited: sequences of stored items
    MaxTyped         \* bound: what is done to the lines

\* an item as the order stored it: of each add-on the total, which fits the cap too
StoredItem ==
    [product : SaleItems, quantity : 1 .. LineCap, note : Notes \cup {None},
     addons : [AddonItems -> 0 .. LineCap], removals : SUBSET UNION RemovalChoices]

ASSUME LinesAssumption ==
    /\ None \notin Notes
    /\ LineCap \in Nat \ {0}
    /\ MaxTyped \in Nat
    /\ IsFiniteSet(AddonItems)
    /\ SavedOrders \subseteq Seq(StoredItem)

VARIABLES
    lines,   \* the order's lines
    stored,  \* the lines of the saved order being edited; none for a new one
    typed    \* what was done so far (only a bound)

lineVars == <<lines, stored, typed>>

AddonCounts == [AddonItems -> Nat]
NoAddons == [b \in AddonItems |-> 0]

Line ==
    [id : Nat \ {0}, savedId : Nat, product : SaleItems, quantity : 1 .. LineCap,
     note : Notes \cup {None}, addons : AddonCounts, removals : SUBSET UNION RemovalChoices]

(***************************************************************************)
(* The type of the lines on the screen.                                    *)
(***************************************************************************)
LinesTypeOK ==
    /\ \A i \in DOMAIN lines : lines[i] \in Line
    /\ \A i \in DOMAIN stored : stored[i] \in Line
    /\ typed \in Nat

-----------------------------------------------------------------------------
\* nextLineId: one more than the greatest on the screen
NextLineId(ls) == 1 + Max({0} \cup {ls[i].id : i \in DOMAIN ls})

\* maxParentQuantity: every addon, counted by the unit, fits the cap too
MaxParentQuantity(line) ==
    LineCap \div Max({1} \cup {line.addons[b] : b \in AddonItems})

\* linesOfOrder: an addon is stored with its total
LinesOfOrder(items) ==
    [i \in DOMAIN items |->
        [id |-> i, savedId |-> i, product |-> items[i].product,
         quantity |-> items[i].quantity, note |-> items[i].note,
         addons |-> [b \in AddonItems |-> items[i].addons[b] \div items[i].quantity],
         removals |-> items[i].removals]]

\* newLine
NewLine(ls, p, quantity) ==
    [id |-> NextLineId(ls), savedId |-> 0, product |-> p,
     quantity |-> Min({quantity, LineCap}), note |-> None,
     addons |-> NoAddons, removals |-> {}]

LinesInit ==
    /\ lines \in {<<>>} \cup {LinesOfOrder(items) : items \in SavedOrders}
    /\ stored = lines
    /\ typed = 0

Typing == typed < MaxTyped /\ typed' = typed + 1 /\ UNCHANGED stored

\* addLine
AddLine(p, quantity) ==
    /\ Typing
    /\ lines' = Append(lines, NewLine(lines, p, quantity))

\* what changeQuantity leaves of the quantity wanted
WithinParent(line, wanted) == Min({wanted, MaxParentQuantity(line)})

\* Plausible bug, for a mutant: a line of which nothing is left stays.
WithLineAnyway(i, line) == [lines EXCEPT ![i] = line]

\* at zero the line goes
WithLine(i, line) ==
    IF line.quantity > 0 THEN [lines EXCEPT ![i] = line] ELSE RemoveAt(lines, i)

\* changeQuantity; adjustLast is it, of the last line
ChangeQuantity(i, delta) ==
    /\ Typing
    /\ lines' = WithLine(i, [lines[i] EXCEPT
                                !.quantity = WithinParent(lines[i], lines[i].quantity + delta)])

\* changeAddon: one that does not fit in the cap changes nothing
ChangeAddon(i, b, delta) ==
    LET wanted == lines[i].addons[b] + delta IN
    /\ Typing
    /\ wanted * lines[i].quantity <= LineCap
    /\ lines' = [lines EXCEPT ![i].addons[b] = Max({wanted, 0})]

\* setNote
SetNote(i, note) ==
    /\ Typing
    /\ lines' = [lines EXCEPT ![i].note = note]

\* toggleRemoval: all of the key's, or back when all were out
ToggleRemoval(i, choice) ==
    /\ Typing
    /\ lines' = [lines EXCEPT ![i].removals =
                    IF choice \subseteq @ THEN @ \ choice ELSE @ \cup choice]

\* removedLines, and restoreSavedLine
RestoreLine(i) ==
    /\ Typing
    /\ \A j \in DOMAIN lines : lines[j].savedId # stored[i].savedId
    /\ lines' = Append(lines, [stored[i] EXCEPT !.id = NextLineId(lines)])

\* the order is saved, or cleared: another is typed
NextOrder ==
    /\ Len(lines) > 0
    /\ lines' = <<>>
    /\ stored' = <<>>
    /\ UNCHANGED typed

LinesStep ==
    \/ \E p \in SaleItems, quantity \in {1, LineCap} : AddLine(p, quantity)
    \/ \E i \in DOMAIN lines :
          \/ \E delta \in {1, -1} :
                ChangeQuantity(i, delta) \/ (\E b \in AddonItems : ChangeAddon(i, b, delta))
          \/ \E note \in Notes \cup {None} : SetNote(i, note)
          \/ \E choice \in RemovalChoices : ToggleRemoval(i, choice)
    \/ \E i \in DOMAIN stored : RestoreLine(i)
    \/ NextOrder

-----------------------------------------------------------------------------
\* Plausible bug, for a mutant: the addons are compared without their counts.
LooseKey(line) ==
    <<line.product, {b \in AddonItems : line.addons[b] > 0}, line.removals, line.note>>

\* lineKey
LineKey(line) == <<line.product, line.addons, line.removals, line.note>>

\* what of a line a line alike has room for
Takes(line, left, target) ==
    IF LineKey(target) # LineKey(line) THEN 0
    ELSE Min({left, MaxParentQuantity(target) - target.quantity})

Passes(line, acc, target) ==
    LET taken == Takes(line, acc.left, target)
    IN  [left |-> acc.left - taken,
         into |-> Append(acc.into, [target EXCEPT !.quantity = @ + taken])]

\* mergeInto: each line alike takes what it has room for, the rest is a new line
MergeInto(merged, line) ==
    LET end == FoldLeft(LAMBDA acc, target : Passes(line, acc, target),
                        [left |-> line.quantity, into |-> <<>>], merged)
    IN  IF end.left > 0 THEN Append(end.into, [line EXCEPT !.quantity = end.left])
                        ELSE end.into

\* itemsRequestOf over mergeIdenticalLines
ItemsRequest == FoldLeft(MergeInto, <<>>, lines)

(***************************************************************************)
(* What is saved is what is on the screen: of each item, with its addons,  *)
(* removals and note, exactly the units typed; no line over the cap of     *)
(* units, each addon counted for every unit (MAX_ROW_QUANTITY,             *)
(* orders/order-item-input.ts, whose limits on how many lines, addons and  *)
(* removals there are the form does not know); alike lines together, one   *)
(* being split off only when the one before is full (cash/line-merge.ts);  *)
(* and a line on the screen is told by its id, a line of the saved order   *)
(* there at most once, whatever was taken out, typed and brought back      *)
(* (cash/edit-marks.ts).                                                   *)
(***************************************************************************)
Same(l, m) ==
    /\ l.product = m.product /\ l.addons = m.addons
    /\ l.removals = m.removals /\ l.note = m.note

UnitsLike(ls, l) ==
    SumOf([i \in DOMAIN ls |-> ls[i].quantity], {i \in DOMAIN ls : Same(ls[i], l)})

KeepsUnits ==
    \A i \in DOMAIN lines : UnitsLike(ItemsRequest, lines[i]) = UnitsLike(lines, lines[i])

WithinTheCap ==
    \A i \in DOMAIN ItemsRequest :
        /\ ItemsRequest[i].quantity \in 1 .. LineCap
        /\ \A b \in AddonItems : ItemsRequest[i].addons[b] * ItemsRequest[i].quantity <= LineCap

JoinsAlike ==
    \A i, j \in DOMAIN ItemsRequest :
        i < j /\ Same(ItemsRequest[i], ItemsRequest[j])
        => ItemsRequest[i].quantity = MaxParentQuantity(ItemsRequest[i])

ToldApart ==
    \A i, j \in DOMAIN lines :
        i # j => /\ lines[i].id # lines[j].id
                 /\ lines[i].savedId # 0 => lines[i].savedId # lines[j].savedId

SavesWhatIsTyped == KeepsUnits /\ WithinTheCap /\ JoinsAlike /\ ToldApart

=============================================================================
