------------------------- MODULE ShopOrders_proofs -------------------------
(***************************************************************************)
(* What holds of the order being typed and of the order priced, for any    *)
(* number of products, add-ons, lines and sessions.                        *)
(*                                                                         *)
(* Priced: whatever the menu became since, a saved order can be saved      *)
(* again as it stands and is charged the same. It rests on what the menu   *)
(* never does: no product leaves its table and no combo comes to hold what *)
(* is not there, so what an item uses is still found.                      *)
(*                                                                         *)
(* Typed: what is saved is what is on the screen. The merge goes down the  *)
(* lines before and fills each up to the cap; that it adds up rests on the *)
(* lines before having room for their own add-ons, which every change on   *)
(* the screen keeps.                                                       *)
(***************************************************************************)
EXTENDS MenuBook_proofs, ExpenseDesk_proofs, SequenceTheorems

-----------------------------------------------------------------------------
(***************************************************************************)
(* The lines of the order being typed.                                     *)
(***************************************************************************)

USE LinesAssumption

\* Division tells how many times m fits in c.
LEMMA DivRoom ==
  ASSUME NEW c \in Nat, NEW m \in Nat \ {0}
  PROVE  /\ c \div m \in Nat
         /\ \A q \in Nat : q <= c \div m <=> q * m <= c
<1>1. PICK d, r \in Int : d = c \div m /\ r = c % m
  OBVIOUS
<1>2. c = d * m + r /\ 0 <= r /\ r < m
  BY <1>1
<1>3. d \in Nat
  BY <1>2
<1>4. ASSUME NEW q \in Nat
      PROVE q <= d <=> q * m <= c
  <2>1. CASE q <= d
    <3>1. PICK k \in Nat : d = q + k
      BY <1>3, <2>1
    <3>2. d * m = q * m + k * m /\ k * m >= 0
      BY <3>1
    <3> QED
      BY <1>2, <2>1, <3>2
  <2>2. CASE ~ (q <= d)
    <3>1. PICK k \in Nat : q = d + 1 + k
      BY <1>3, <2>2
    <3>2. q * m = d * m + m + k * m /\ k * m >= 0
      BY <3>1
    <3> QED
      BY <1>2, <2>2, <3>2
  <2> QED
    BY <2>1, <2>2
<1> QED
  BY <1>1, <1>3, <1>4
\* A line none of whose add-ons, counted by the unit, is over the cap.
GoodLine == {l \in Line : l.quantity <= MaxParentQuantity(l)}

\* What a line of the form carries.
LEMMA LineFields ==
  ASSUME NEW l \in Line
  PROVE  /\ l.id \in Nat \ {0} /\ l.savedId \in Nat /\ l.product \in SaleItems
         /\ l.quantity \in 1 .. LineCap /\ l.note \in Notes \cup {None}
         /\ l.addons \in AddonCounts /\ l.removals \in SUBSET UNION RemovalChoices
         /\ l.quantity \in Nat \ {0}
BY DEF Line

\* maxParentQuantity: as many of a line as fit, each add-on counted for every one.
LEMMA RoomOfLine ==
  ASSUME NEW l, l.addons \in AddonCounts
  PROVE  /\ MaxParentQuantity(l) \in 0 .. LineCap
         /\ \A q \in Nat : q <= MaxParentQuantity(l) <=>
               q <= LineCap /\ \A b \in AddonItems : l.addons[b] * q <= LineCap
<1>1. PICK C : C = {l.addons[b] : b \in AddonItems}
  OBVIOUS
<1>2. PICK M : M = {1} \cup C
  OBVIOUS
<1>3. IsFiniteSet(C)
  <2>1. PICK f : f = l.addons
    OBVIOUS
  <2>2. C = {f[b] : b \in AddonItems}
    BY <1>1, <2>1
  <2> QED
    BY <2>2, FiniteImage
<1>4. IsFiniteSet(M)
  BY <1>2, <1>3, FS_AddElement, FS_Union, FS_Singleton
<1>5. \A b \in AddonItems : l.addons[b] \in Nat
  BY DEF AddonCounts
<1>6. M \in SUBSET Nat /\ M # {} /\ 1 \in M
  BY <1>1, <1>2, <1>5
<1>7. PICK m : m = Max(M)
  OBVIOUS
<1>8. m \in M /\ \A y \in M : m >= y
  BY <1>4, <1>6, <1>7, MaxOfFinite
<1>9. m \in Nat \ {0}
  BY <1>6, <1>8
<1>10. MaxParentQuantity(l) = LineCap \div m
  BY <1>1, <1>2, <1>7 DEF MaxParentQuantity
<1>11. /\ LineCap \div m \in Nat
       /\ \A q \in Nat : q <= LineCap \div m <=> q * m <= LineCap
  BY <1>9, DivRoom
<1>12. ASSUME NEW q \in Nat
       PROVE  q * m <= LineCap <=>
                 q <= LineCap /\ \A b \in AddonItems : l.addons[b] * q <= LineCap
  <2>1. q * 1 <= q * m /\ \A b \in AddonItems : l.addons[b] * q <= q * m
    <3>1. \A x, y \in Nat : x <= y => x * q <= q * y
      <4>1. ASSUME NEW x \in Nat, NEW y \in Nat, x <= y
            PROVE  x * q <= q * y
        <5>1. PICK k \in Nat : y = x + k
          BY <4>1
        <5>2. q * y = x * q + k * q /\ k * q >= 0
          BY <5>1
        <5> QED
          BY <5>2
      <4> QED
        BY <4>1
    <3>2. 1 <= m /\ \A b \in AddonItems : l.addons[b] <= m
      BY <1>1, <1>2, <1>5, <1>8, <1>9
    <3> QED
      BY <1>5, <1>9, <3>1, <3>2
  <2>2. CASE m = 1
    BY <1>5, <2>1, <2>2
  <2>3. CASE m # 1
    <3>1. PICK b \in AddonItems : m = l.addons[b]
      BY <1>1, <1>2, <1>8, <2>3
    <3>2. l.addons[b] * q = q * m
      BY <1>5, <3>1
    <3> QED
      BY <1>5, <1>9, <2>1, <3>1, <3>2
  <2> QED
    BY <2>2, <2>3
<1>13. LineCap \div m <= LineCap
  <2>1. PICK d \in Nat : d = LineCap \div m
    BY <1>11
  <2>2. d * m <= LineCap
    BY <1>11, <2>1
  <2>3. d <= LineCap
    BY <1>12, <2>1, <2>2
  <2> QED
    BY <2>1, <2>3
<1> QED
  BY <1>10, <1>11, <1>12, <1>13

\* A good line is within the cap.
LEMMA GoodLineFits ==
  ASSUME NEW l \in GoodLine
  PROVE  /\ l \in Line
         /\ l.quantity \in 1 .. LineCap
         /\ MaxParentQuantity(l) \in 1 .. LineCap
         /\ l.quantity <= MaxParentQuantity(l)
         /\ \A b \in AddonItems : l.addons[b] * l.quantity <= LineCap
<1>1. l \in Line /\ l.quantity <= MaxParentQuantity(l)
  BY DEF GoodLine
<1>2. l.quantity \in 1 .. LineCap /\ l.addons \in AddonCounts
  BY <1>1, LineFields
<1>3. MaxParentQuantity(l) \in 0 .. LineCap
  BY <1>2, RoomOfLine
<1>4. \A b \in AddonItems : l.addons[b] * l.quantity <= LineCap
  BY <1>1, <1>2, RoomOfLine
<1> QED
  BY <1>1, <1>2, <1>3, <1>4

\* A good line with another quantity that fits is good, for its room is the same.
LEMMA OtherQuantity ==
  ASSUME NEW l \in GoodLine, NEW q, q \in 1 .. MaxParentQuantity(l)
  PROVE  /\ [l EXCEPT !.quantity = q] \in GoodLine
         /\ MaxParentQuantity([l EXCEPT !.quantity = q]) = MaxParentQuantity(l)
<1>1. l \in Line /\ MaxParentQuantity(l) \in 1 .. LineCap
  BY GoodLineFits
<1>2. PICK k : k = [l EXCEPT !.quantity = q]
  OBVIOUS
<1>3. q \in 1 .. LineCap
  BY <1>1
<1>4. k \in Line /\ k.quantity = q /\ k.addons = l.addons
  BY <1>1, <1>2, <1>3 DEF Line
<1>5. MaxParentQuantity(k) = MaxParentQuantity(l)
  BY <1>4 DEF MaxParentQuantity
<1>6. k \in GoodLine
  BY <1>4, <1>5 DEF GoodLine
<1> QED
  BY <1>2, <1>5, <1>6

-----------------------------------------------------------------------------
\* No two lines of a list are taken for one another.
Apart(ls) ==
    \A i, j \in DOMAIN ls :
        i # j => /\ ls[i].id # ls[j].id
                 /\ ls[i].savedId # 0 => ls[i].savedId # ls[j].savedId

TidyList(ls) == ls \in Seq(GoodLine) /\ Apart(ls)

\* The places of a list, and what stands on them.
LEMMA ListPlaces ==
  ASSUME NEW S, NEW ls \in Seq(S)
  PROVE  /\ Len(ls) \in Nat
         /\ DOMAIN ls = 1 .. Len(ls)
         /\ \A i \in DOMAIN ls : ls[i] \in S /\ i \in Nat \ {0}
BY LenProperties, ElementOfSeq

\* nextLineId: no line has it yet.
LEMMA NextIdIsNew ==
  ASSUME NEW ls \in Seq(Line)
  PROVE  /\ NextLineId(ls) \in Nat \ {0}
         /\ \A i \in DOMAIN ls : ls[i].id # NextLineId(ls)
<1>1. PICK f : f = [i \in DOMAIN ls |-> ls[i].id]
  OBVIOUS
<1>2. DOMAIN ls = 1 .. Len(ls) /\ Len(ls) \in Nat /\ \A i \in DOMAIN ls : ls[i] \in Line
  BY ListPlaces
<1>3. IsFiniteSet(DOMAIN ls)
  BY <1>2, FS_Interval
<1>4. PICK C : C = {ls[i].id : i \in DOMAIN ls}
  OBVIOUS
<1>5. IsFiniteSet(C)
  <2>1. C = {f[i] : i \in DOMAIN ls}
    BY <1>1, <1>4
  <2> QED
    BY <1>3, <2>1, FiniteImage
<1>6. PICK M : M = {0} \cup C
  OBVIOUS
<1>7. IsFiniteSet(M) /\ M # {}
  BY <1>5, <1>6, FS_Union, FS_Singleton
<1>8. M \in SUBSET Nat
  BY <1>2, <1>4, <1>6, LineFields
<1>9. Max(M) \in M /\ \A y \in M : Max(M) >= y
  BY <1>7, <1>8, MaxOfFinite
<1>10. NextLineId(ls) = 1 + Max(M)
  BY <1>4, <1>6 DEF NextLineId
<1>11. PICK m \in Nat : m = Max(M)
  BY <1>8, <1>9
<1>12. \A i \in DOMAIN ls : ls[i].id \in Nat /\ ls[i].id <= m
  BY <1>2, <1>4, <1>6, <1>9, <1>11, LineFields
<1> QED
  BY <1>10, <1>11, <1>12

\* A good line is a line.
LEMMA GoodLineIsLine == GoodLine \subseteq Line
BY DEF GoodLine

\* A line added at the end with a new id keeps the list tidy.
LEMMA AppendTidy ==
  ASSUME NEW ls, TidyList(ls), NEW l \in GoodLine, l.id = NextLineId(ls),
         l.savedId # 0 => \A j \in DOMAIN ls : ls[j].savedId # l.savedId
  PROVE  TidyList(Append(ls, l))
<1>1. ls \in Seq(GoodLine) /\ Apart(ls)
  BY DEF TidyList
<1>2. Len(ls) \in Nat /\ DOMAIN ls = 1 .. Len(ls) /\ \A i \in DOMAIN ls : ls[i] \in GoodLine
  BY <1>1, ListPlaces
<1>3. ls \in Seq(Line)
  BY <1>1, GoodLineIsLine, SeqMonotonic
<1>4. \A i \in DOMAIN ls : ls[i].id # l.id
  BY <1>3, NextIdIsNew
<1>5. PICK ms : ms = Append(ls, l)
  OBVIOUS
<1>6. /\ ms \in Seq(GoodLine) /\ Len(ms) = Len(ls) + 1 /\ DOMAIN ms = 1 .. Len(ls) + 1
      /\ ms[Len(ls) + 1] = l
      /\ \A i \in DOMAIN ls : ms[i] = ls[i]
  BY <1>1, <1>2, <1>5, AppendProperties, ListPlaces
<1>7. \A i \in DOMAIN ms : i \in DOMAIN ls \/ i = Len(ls) + 1
  BY <1>2, <1>6
<1>8. Apart(ms)
  <2> SUFFICES ASSUME NEW i \in DOMAIN ms, NEW j \in DOMAIN ms, i # j
               PROVE  /\ ms[i].id # ms[j].id
                      /\ ms[i].savedId # 0 => ms[i].savedId # ms[j].savedId
    BY DEF Apart
  <2>1. CASE i \in DOMAIN ls /\ j \in DOMAIN ls
    BY <1>1, <1>6, <2>1 DEF Apart
  <2>2. CASE i \in DOMAIN ls /\ j = Len(ls) + 1
    BY <1>4, <1>6, <2>2
  <2>3. CASE i = Len(ls) + 1 /\ j \in DOMAIN ls
    BY <1>4, <1>6, <2>3
  <2> QED
    BY <1>7, <2>1, <2>2, <2>3
<1> QED
  BY <1>5, <1>6, <1>8 DEF TidyList

\* A line changed in its place keeps the list tidy.
LEMMA ChangeTidy ==
  ASSUME NEW ls, TidyList(ls), NEW i \in DOMAIN ls, NEW l \in GoodLine,
         l.id = ls[i].id, l.savedId = ls[i].savedId
  PROVE  TidyList([ls EXCEPT ![i] = l])
<1>1. ls \in Seq(GoodLine) /\ Apart(ls)
  BY DEF TidyList
<1>2. DOMAIN ls = 1 .. Len(ls)
  BY <1>1, ListPlaces
<1>3. [ls EXCEPT ![i] = l] \in Seq(GoodLine)
  BY <1>1, <1>2, ExceptSeq
<1> QED
  BY <1>1, <1>3 DEF TidyList, Apart

\* So does a line that goes.
LEMMA RemoveTidy ==
  ASSUME NEW ls, TidyList(ls), NEW i \in DOMAIN ls
  PROVE  TidyList(RemoveAt(ls, i))
<1>1. ls \in Seq(GoodLine) /\ Apart(ls)
  BY DEF TidyList
<1>2. PICK n \in Nat : n = Len(ls)
  BY <1>1, ListPlaces
<1>3. DOMAIN ls = 1 .. n /\ i \in 1 .. n /\ \A j \in 1 .. n : ls[j] \in GoodLine
  BY <1>1, <1>2, ListPlaces
<1>4. PICK a : a = SubSeq(ls, 1, i - 1)
  OBVIOUS
<1>5. PICK b : b = SubSeq(ls, i + 1, n)
  OBVIOUS
<1>6. a \in Seq(GoodLine) /\ Len(a) = i - 1 /\ \A j \in 1 .. i - 1 : a[j] = ls[j]
  <2>1. \A j \in 1 .. i - 1 : ls[j] \in GoodLine
    BY <1>3
  <2> QED
    BY <1>3, <1>4, <2>1, SubSeqProperties
<1>7. b \in Seq(GoodLine) /\ Len(b) = n - i /\ \A j \in 1 .. n - i : b[j] = ls[i + j]
  <2>1. \A j \in i + 1 .. n : ls[j] \in GoodLine
    BY <1>3
  <2> QED
    BY <1>3, <1>5, <2>1, SubSeqProperties
<1>8. PICK ms : ms = RemoveAt(ls, i)
  OBVIOUS
<1>9. ms = a \o b
  BY <1>2, <1>4, <1>5, <1>8 DEF RemoveAt
<1>10. /\ ms \in Seq(GoodLine) /\ Len(ms) = n - 1
       /\ \A j \in 1 .. n - 1 : ms[j] = IF j <= i - 1 THEN ls[j] ELSE ls[j + 1]
  <2>1. /\ ms \in Seq(GoodLine) /\ Len(ms) = Len(a) + Len(b)
        /\ \A j \in 1 .. Len(a) + Len(b) :
              ms[j] = IF j <= Len(a) THEN a[j] ELSE b[j - Len(a)]
    BY <1>6, <1>7, <1>9, ConcatProperties
  <2>2. Len(a) + Len(b) = n - 1
    BY <1>3, <1>6, <1>7
  <2>3. ASSUME NEW j \in 1 .. n - 1
        PROVE  ms[j] = IF j <= i - 1 THEN ls[j] ELSE ls[j + 1]
    <3>1. CASE j <= i - 1
      BY <1>3, <1>6, <2>1, <2>2, <3>1
    <3>2. CASE ~ (j <= i - 1)
      <4>1. j - (i - 1) \in 1 .. n - i /\ i + (j - (i - 1)) = j + 1
        BY <1>3, <3>2
      <4>2. ms[j] = b[j - (i - 1)]
        BY <1>3, <1>6, <2>1, <2>2, <3>2
      <4> QED
        BY <1>7, <3>2, <4>1, <4>2
    <3> QED
      BY <3>1, <3>2
  <2> QED
    BY <2>1, <2>2, <2>3
<1>11. DOMAIN ms = 1 .. n - 1
  BY <1>10, ListPlaces
<1>12. Apart(ms)
  <2>1. PICK f : f = [j \in 1 .. n - 1 |-> IF j <= i - 1 THEN j ELSE j + 1]
    OBVIOUS
  <2>2. \A j \in 1 .. n - 1 : f[j] \in DOMAIN ls /\ ms[j] = ls[f[j]]
    BY <1>3, <1>10, <2>1
  <2>3. \A j, k \in 1 .. n - 1 : j # k => f[j] # f[k]
    BY <1>3, <2>1
  <2> QED
    BY <1>1, <1>11, <2>2, <2>3 DEF Apart
<1> QED
  BY <1>8, <1>10, <1>12 DEF TidyList

LinesInv ==
    /\ TidyList(lines)
    /\ stored \in Seq(GoodLine)
    /\ typed \in Nat

\* linesOfOrder: what was stored fits, and so do its lines.
LEMMA StoredIsTidy ==
  ASSUME NEW items \in SavedOrders
  PROVE  TidyList(LinesOfOrder(items))
<1>1. items \in Seq(StoredItem)
  OBVIOUS
<1>2. PICK n \in Nat : n = Len(items)
  BY <1>1, ListPlaces
<1>3. DOMAIN items = 1 .. n /\ \A i \in 1 .. n : items[i] \in StoredItem
  BY <1>1, <1>2, ListPlaces
<1>4. PICK ls : ls = LinesOfOrder(items)
  OBVIOUS
<1>5. \A i \in 1 .. n : /\ ls[i] \in GoodLine
                        /\ ls[i].id = i /\ ls[i].savedId = i
  <2> SUFFICES ASSUME NEW i \in 1 .. n
               PROVE  ls[i] \in GoodLine /\ ls[i].id = i /\ ls[i].savedId = i
    OBVIOUS
  <2>1. PICK q \in 1 .. LineCap : q = items[i].quantity
    BY <1>3 DEF StoredItem
  <2>2. \A b \in AddonItems : items[i].addons[b] \in 0 .. LineCap
    BY <1>3 DEF StoredItem
  <2>3. q \in Nat \ {0}
    BY <2>1
  <2>4. ASSUME NEW b \in AddonItems
        PROVE  /\ items[i].addons[b] \div q \in Nat
               /\ (items[i].addons[b] \div q) * q <= LineCap
    <3>1. PICK a \in 0 .. LineCap : a = items[i].addons[b]
      BY <2>2
    <3>2. a \in Nat
      BY <3>1
    <3>3. a \div q \in Nat /\ \A k \in Nat : k <= a \div q <=> k * q <= a
      BY <2>3, <3>2, DivRoom
    <3>4. (a \div q) * q <= a
      BY <3>3
    <3>5. PICK d \in Nat : d = a \div q
      BY <3>3
    <3>6. d * q <= a /\ a <= LineCap /\ d * q \in Int
      BY <2>3, <3>1, <3>4, <3>5
    <3>7. d * q <= LineCap
      BY <3>2, <3>6
    <3> QED
      BY <3>1, <3>5, <3>7
  <2>5. PICK adds : adds = [b \in AddonItems |-> items[i].addons[b] \div q]
    OBVIOUS
  <2>6. adds \in AddonCounts /\ \A b \in AddonItems : adds[b] * q <= LineCap
    BY <2>4, <2>5 DEF AddonCounts
  <2>7. ls[i] = [id |-> i, savedId |-> i, product |-> items[i].product,
                 quantity |-> q, note |-> items[i].note,
                 addons |-> adds, removals |-> items[i].removals]
    BY <1>3, <1>4, <2>1, <2>5 DEF LinesOfOrder
  <2>8. ls[i] \in Line
    BY <1>3, <2>1, <2>6, <2>7 DEF Line, StoredItem
  <2>9. ls[i].quantity <= MaxParentQuantity(ls[i])
    BY <2>1, <2>3, <2>6, <2>7, RoomOfLine
  <2> QED
    BY <2>7, <2>8, <2>9 DEF GoodLine
<1>6. ls \in [1 .. n -> GoodLine] /\ DOMAIN ls = 1 .. n
  BY <1>3, <1>4, <1>5 DEF LinesOfOrder
<1>7. ls \in Seq(GoodLine)
  BY <1>6
<1> QED
  BY <1>4, <1>5, <1>6, <1>7 DEF TidyList, Apart

\* A form that opens, empty or on a saved order.
LEMMA LinesInvInit == LinesInit => LinesInv
<1> SUFFICES ASSUME LinesInit PROVE LinesInv
  OBVIOUS
<1>1. TidyList(lines)
  <2>1. CASE lines = <<>>
    BY <2>1, EmptySeq DEF TidyList, Apart
  <2>2. CASE lines # <<>>
    BY <2>2, StoredIsTidy DEF LinesInit
  <2> QED
    BY <2>1, <2>2
<1> QED
  BY <1>1 DEF LinesInit, LinesInv, TidyList

\* addLine: the new line has a key of its own and an amount that fits.
LEMMA AddLineKeeps ==
  ASSUME LinesInv, NEW p \in SaleItems, NEW quantity \in Nat \ {0}, AddLine(p, quantity)
  PROVE  LinesInv'
<1>1. PICK l : l = NewLine(lines, p, quantity)
  OBVIOUS
<1>2. TidyList(lines) /\ lines \in Seq(Line)
  BY GoodLineIsLine, SeqMonotonic DEF LinesInv, TidyList
<1>3. Min({quantity, LineCap}) \in 1 .. LineCap
  <2>1. PICK c \in Nat \ {0} : c = LineCap
    OBVIOUS
  <2>2. \E x \in {quantity, c} : \A y \in {quantity, c} : x <= y
    OBVIOUS
  <2>3. PICK x : x = Min({quantity, c})
    OBVIOUS
  <2>4. x \in {quantity, c} /\ x <= c
    BY <2>2, <2>3 DEF Min
  <2>5. x \in 1 .. c
    BY <2>1, <2>4
  <2> QED
    BY <2>1, <2>3, <2>5
<1>4. NextLineId(lines) \in Nat \ {0}
  BY <1>2, NextIdIsNew
<1>5. /\ l \in Line /\ l.id = NextLineId(lines) /\ l.savedId = 0
      /\ l.addons = NoAddons /\ l.quantity \in 1 .. LineCap
  BY <1>1, <1>3, <1>4 DEF NewLine, Line, NoAddons, AddonCounts
<1>6. l.quantity <= MaxParentQuantity(l)
  <2>1. l.addons \in AddonCounts /\ \A b \in AddonItems : l.addons[b] * l.quantity <= LineCap
    BY <1>5 DEF NoAddons, AddonCounts
  <2> QED
    BY <1>5, <2>1, RoomOfLine
<1>7. l \in GoodLine
  BY <1>5, <1>6 DEF GoodLine
<1>8. TidyList(Append(lines, l))
  BY <1>2, <1>5, <1>7, AppendTidy
<1> QED
  BY <1>1, <1>8 DEF AddLine, Typing, LinesInv

\* changeQuantity: between one and what the add-ons leave room for, or the line goes.
LEMMA ChangeQuantityKeeps ==
  ASSUME LinesInv, NEW i \in DOMAIN lines, NEW delta \in Int, ChangeQuantity(i, delta)
  PROVE  LinesInv'
<1>1. TidyList(lines) /\ lines[i] \in GoodLine
  BY ListPlaces DEF LinesInv, TidyList
<1>2. PICK q : q = WithinParent(lines[i], lines[i].quantity + delta)
  OBVIOUS
<1>3. PICK r \in 1 .. LineCap : r = MaxParentQuantity(lines[i])
  BY <1>1, GoodLineFits
<1>4. q \in Int /\ q <= r
  <2>1. PICK x \in Int : x = lines[i].quantity + delta
    BY <1>1, GoodLineFits
  <2>2. \E y \in {x, r} : \A z \in {x, r} : y <= z
    BY <2>1
  <2>3. q = Min({x, r})
    BY <1>2, <1>3, <2>1 DEF WithinParent
  <2> QED
    BY <2>1, <2>2, <2>3 DEF Min
<1>5. PICK l : l = [lines[i] EXCEPT !.quantity = q]
  OBVIOUS
<1>6. /\ l.quantity = q /\ l.id = lines[i].id /\ l.savedId = lines[i].savedId
  BY <1>1, <1>5 DEF GoodLine, Line
<1>7. lines' = WithLine(i, l)
  BY <1>2, <1>5 DEF ChangeQuantity
<1>8. TidyList(lines')
  <2>1. CASE q > 0
    <3>1. q \in 1 .. MaxParentQuantity(lines[i])
      BY <1>3, <1>4, <2>1
    <3>2. l \in GoodLine
      BY <1>1, <1>5, <3>1, OtherQuantity
    <3>3. TidyList([lines EXCEPT ![i] = l])
      BY <1>1, <1>6, <3>2, ChangeTidy
    <3> QED
      BY <1>6, <1>7, <2>1, <3>3 DEF WithLine
  <2>2. CASE ~ (q > 0)
    BY <1>1, <1>6, <1>7, <2>2, RemoveTidy DEF WithLine
  <2> QED
    BY <2>1, <2>2
<1> QED
  BY <1>8 DEF ChangeQuantity, Typing, LinesInv

\* changeAddon: counted by the unit, up to what the line's amount leaves room for.
LEMMA ChangeAddonKeeps ==
  ASSUME LinesInv, NEW i \in DOMAIN lines, NEW b \in AddonItems, NEW delta \in Int,
         ChangeAddon(i, b, delta)
  PROVE  LinesInv'
<1>1. TidyList(lines) /\ lines[i] \in GoodLine
  BY ListPlaces DEF LinesInv, TidyList
<1>2. lines[i] \in Line /\ lines[i].addons \in AddonCounts
  BY <1>1, LineFields DEF GoodLine
<1>3. PICK wanted \in Int : wanted = lines[i].addons[b] + delta
  BY <1>2 DEF AddonCounts
<1>4. PICK k : k = Max({wanted, 0})
  OBVIOUS
<1>5. PICK adds : adds = [lines[i].addons EXCEPT ![b] = k]
  OBVIOUS
<1>6. PICK l : l = [lines[i] EXCEPT !.addons = adds]
  OBVIOUS
<1>7. lines' = [lines EXCEPT ![i] = l]
  BY <1>3, <1>4, <1>5, <1>6 DEF ChangeAddon
<1>8. k \in Nat /\ (k = wanted \/ k = 0)
  <2>1. \E x \in {wanted, 0} : \A y \in {wanted, 0} : x >= y
    OBVIOUS
  <2> QED
    BY <1>4, <2>1 DEF Max
<1>9. PICK q \in 1 .. LineCap : q = lines[i].quantity
  BY <1>2, LineFields
<1>10. k * q <= LineCap
  <2>1. wanted * q <= LineCap
    BY <1>3, <1>9 DEF ChangeAddon
  <2>2. 0 * q <= LineCap
    BY <1>9
  <2> QED
    BY <1>8, <2>1, <2>2
<1>11. \A a \in AddonItems : lines[i].addons[a] * q <= LineCap
  BY <1>1, <1>9, GoodLineFits
<1>12. adds \in AddonCounts /\ \A a \in AddonItems : adds[a] * q <= LineCap
  BY <1>2, <1>5, <1>8, <1>10, <1>11 DEF AddonCounts
<1>13. /\ l \in Line /\ l.quantity = q /\ l.addons = adds
       /\ l.id = lines[i].id /\ l.savedId = lines[i].savedId
  BY <1>2, <1>6, <1>9, <1>12 DEF Line
<1>14. l.quantity <= MaxParentQuantity(l)
  BY <1>9, <1>12, <1>13, RoomOfLine
<1>15. TidyList(lines')
  BY <1>1, <1>7, <1>13, <1>14, ChangeTidy DEF GoodLine
<1> QED
  BY <1>15 DEF ChangeAddon, Typing, LinesInv

\* A line keeps its room with another note or with other ingredients out.
LEMMA OtherDetails ==
  ASSUME NEW k \in GoodLine, NEW l \in Line, l.quantity = k.quantity, l.addons = k.addons
  PROVE  l \in GoodLine
BY DEF GoodLine, MaxParentQuantity

\* A note or a removal leaves a line's amounts as they are.
LEMMA DetailsKeep ==
  ASSUME LinesInv, NEW i \in DOMAIN lines,
         \/ \E note \in Notes \cup {None} : SetNote(i, note)
         \/ \E choice \in RemovalChoices : ToggleRemoval(i, choice)
  PROVE  LinesInv'
<1>1. TidyList(lines) /\ lines[i] \in GoodLine
  BY ListPlaces DEF LinesInv, TidyList
<1>2. lines[i] \in Line /\ lines[i].removals \in SUBSET UNION RemovalChoices
  BY <1>1, LineFields DEF GoodLine
<1>3. CASE \E note \in Notes \cup {None} : SetNote(i, note)
  <2>1. PICK note \in Notes \cup {None} : SetNote(i, note)
    BY <1>3
  <2>2. PICK l : l = [lines[i] EXCEPT !.note = note]
    OBVIOUS
  <2>3. /\ l \in Line /\ l.quantity = lines[i].quantity /\ l.addons = lines[i].addons
        /\ l.id = lines[i].id /\ l.savedId = lines[i].savedId
    BY <1>2, <2>2 DEF Line
  <2>4. TidyList([lines EXCEPT ![i] = l])
    BY <1>1, <2>3, OtherDetails, ChangeTidy
  <2> QED
    BY <2>1, <2>2, <2>4 DEF SetNote, Typing, LinesInv
<1>4. CASE \E choice \in RemovalChoices : ToggleRemoval(i, choice)
  <2>1. PICK choice \in RemovalChoices : ToggleRemoval(i, choice)
    BY <1>4
  <2>2. PICK out : out = IF choice \subseteq lines[i].removals
                         THEN lines[i].removals \ choice ELSE lines[i].removals \cup choice
    OBVIOUS
  <2>3. out \in SUBSET UNION RemovalChoices
    BY <1>2, <2>2
  <2>4. PICK l : l = [lines[i] EXCEPT !.removals = out]
    OBVIOUS
  <2>5. /\ l \in Line /\ l.quantity = lines[i].quantity /\ l.addons = lines[i].addons
        /\ l.id = lines[i].id /\ l.savedId = lines[i].savedId
    BY <1>2, <2>3, <2>4 DEF Line
  <2>6. TidyList([lines EXCEPT ![i] = l])
    BY <1>1, <2>5, OtherDetails, ChangeTidy
  <2> QED
    BY <2>1, <2>2, <2>4, <2>6 DEF ToggleRemoval, Typing, LinesInv
<1> QED
  BY <1>3, <1>4

\* restoreLine: the line taken off comes back under its saved id.
LEMMA RestoreLineKeeps ==
  ASSUME LinesInv, NEW i \in DOMAIN stored, RestoreLine(i)
  PROVE  LinesInv'
<1>1. TidyList(lines) /\ stored[i] \in GoodLine
  BY ListPlaces DEF LinesInv
<1>2. lines \in Seq(Line)
  BY <1>1, GoodLineIsLine, SeqMonotonic DEF TidyList
<1>3. NextLineId(lines) \in Nat \ {0}
  BY <1>2, NextIdIsNew
<1>4. PICK l : l = [stored[i] EXCEPT !.id = NextLineId(lines)]
  OBVIOUS
<1>5. /\ l \in Line /\ l.quantity = stored[i].quantity /\ l.addons = stored[i].addons
      /\ l.id = NextLineId(lines) /\ l.savedId = stored[i].savedId
  BY <1>1, <1>3, <1>4 DEF GoodLine, Line
<1>6. l \in GoodLine
  BY <1>1, <1>5, OtherDetails
<1>7. TidyList(Append(lines, l))
  BY <1>1, <1>5, <1>6, AppendTidy DEF RestoreLine
<1> QED
  BY <1>4, <1>7 DEF RestoreLine, Typing, LinesInv

\* Each thing done to the order being typed.
LEMMA LinesStepKeeps ==
  ASSUME LinesInv, LinesStep
  PROVE  LinesInv'
<1>1. ASSUME NEW p \in SaleItems, NEW quantity \in {1, LineCap}, AddLine(p, quantity)
      PROVE  LinesInv'
  BY <1>1, AddLineKeeps
<1>2. ASSUME NEW i \in DOMAIN lines, NEW delta \in {1, -1}, ChangeQuantity(i, delta)
      PROVE  LinesInv'
  BY <1>2, ChangeQuantityKeeps
<1>3. ASSUME NEW i \in DOMAIN lines, NEW delta \in {1, -1}, NEW b \in AddonItems,
             ChangeAddon(i, b, delta)
      PROVE  LinesInv'
  BY <1>3, ChangeAddonKeeps
<1>4. CASE NextOrder
  BY <1>4, EmptySeq DEF NextOrder, LinesInv, TidyList, Apart
<1> QED
  BY <1>1, <1>2, <1>3, <1>4, DetailsKeep, RestoreLineKeeps DEF LinesStep

-----------------------------------------------------------------------------
\* mergeInto as a fold: what is left to place of a line, and the lines before it.
PassStart(line) == [left |-> line.quantity, into |-> <<>>]

PassStep(line, m, f, s) ==
    IF s = {} THEN PassStart(line) ELSE Passes(line, f[s \ {Max(s)}], m[Max(s)])

Passing(line, m) == CHOOSE f : f = [s \in SUBSET DOMAIN m |-> PassStep(line, m, f, s)]

PassEnd(line, m) == Passing(line, m)[DOMAIN m]

\* Merging a line in: the lines before it take what they have room for, and a line of
\* its own has the rest.
LEMMA MergeIntoIsPassing ==
  ASSUME NEW m, NEW line
  PROVE  MergeInto(m, line) =
            IF PassEnd(line, m).left > 0
            THEN Append(PassEnd(line, m).into, [line EXCEPT !.quantity = PassEnd(line, m).left])
            ELSE PassEnd(line, m).into
BY DEF MergeInto, FoldLeft, MapThenFoldSet, PassEnd, Passing, PassStep, PassStart

Alike(k, l) == LineKey(k) = LineKey(l)

\* Lines with one key have one product, note, add-ons and removals.
LEMMA AlikeIsSame ==
  ASSUME NEW k, NEW l
  PROVE  Alike(k, l) <=> Same(k, l)
BY DEF Alike, LineKey, Same

PassState == [left : Nat, into : Seq(GoodLine)]

Room(l) == MaxParentQuantity(l) - l.quantity

\* One line on the way takes no more than it has room for, nor than is left.
LEMMA TakesWithinRoom ==
  ASSUME NEW line, NEW left \in Nat, NEW target \in GoodLine
  PROVE  /\ Room(target) \in Nat
         /\ Takes(line, left, target) \in Nat
         /\ Takes(line, left, target) <= left
         /\ Takes(line, left, target) <= Room(target)
         /\ ~Alike(target, line) => Takes(line, left, target) = 0
         /\ Alike(target, line) /\ Takes(line, left, target) < left
               => Takes(line, left, target) = Room(target)
<1>1. target.quantity \in 1 .. LineCap /\ MaxParentQuantity(target) \in 1 .. LineCap
      /\ target.quantity <= MaxParentQuantity(target)
  BY GoodLineFits
<1>2. PICK r \in Nat : r = Room(target)
  BY <1>1 DEF Room
<1>3. PICK x : x = Min({left, r})
  OBVIOUS
<1>4. \E y \in {left, r} : \A z \in {left, r} : y <= z
  BY <1>2
<1>5. x \in {left, r} /\ x <= left /\ x <= r
  BY <1>3, <1>4 DEF Min
<1>6. Takes(line, left, target) = IF Alike(target, line) THEN x ELSE 0
  BY <1>2, <1>3 DEF Takes, Alike, Room
<1> QED
  BY <1>2, <1>5, <1>6

\* A pass leaves lines that fit, and no less than nothing to take.
LEMMA PassesType ==
  ASSUME NEW line, NEW acc \in PassState, NEW target \in GoodLine
  PROVE  Passes(line, acc, target) \in PassState
<1>1. acc.left \in Nat /\ acc.into \in Seq(GoodLine)
  BY DEF PassState
<1>2. PICK t \in Nat : t = Takes(line, acc.left, target) /\ t <= acc.left /\ t <= Room(target)
  BY <1>1, TakesWithinRoom
<1>3. target.quantity + t \in 1 .. MaxParentQuantity(target)
  BY <1>2, GoodLineFits DEF Room
<1>4. PICK l : l = [target EXCEPT !.quantity = @ + t]
  OBVIOUS
<1>5. l \in GoodLine
  BY <1>3, <1>4, OtherQuantity
<1>6. Passes(line, acc, target) = [left |-> acc.left - t, into |-> Append(acc.into, l)]
  BY <1>2, <1>4 DEF Passes
<1>7. Append(acc.into, l) \in Seq(GoodLine)
  BY <1>1, <1>5, AppendProperties
<1> QED
  BY <1>1, <1>2, <1>6, <1>7 DEF PassState

\* The states of the fold, place by place.
LEMMA PassPlaces ==
  ASSUME NEW line \in GoodLine, NEW m \in Seq(GoodLine), NEW n, n = Len(m)
  PROVE  \E a : /\ a[0] = PassStart(line)
                /\ \A k \in 1 .. n : a[k] = Passes(line, a[k - 1], m[k])
                /\ \A k \in 0 .. n : a[k] \in PassState
                /\ PassEnd(line, m) = a[n]
<1>1. n \in Nat /\ DOMAIN m = 1 .. n /\ \A i \in 1 .. n : m[i] \in GoodLine
  BY ListPlaces
<1>2. PassStart(line) \in PassState
  BY GoodLineFits, EmptySeq DEF PassStart, PassState
<1>3. PICK g : g = [p \in PassState \X (1 .. n) |-> Passes(line, p[1], m[p[2]])]
  OBVIOUS
<1>4. \A u \in PassState : \A i \in 1 .. n :
         g[<<u, i>>] = Passes(line, u, m[i]) /\ g[<<u, i>>] \in PassState
  BY <1>1, <1>3, PassesType
<1>5. PICK h \in [SUBSET (1 .. n) -> PassState] :
         \A s \in SUBSET (1 .. n) : h[s] = OneStep(PassStart(line), g, h, s)
  <2>1. PICK U : U = PassState
    OBVIOUS
  <2>2. PICK base : base = PassStart(line)
    OBVIOUS
  <2>3. base \in U
    BY <1>2, <2>1, <2>2
  <2>4. StepsWithin(U, n, g)
    BY <1>4, <2>1 DEF StepsWithin
  <2>5. FoldWithin(U, base, n, g)
    BY <1>1, <2>3, <2>4, FoldSolved
  <2> QED
    BY <2>1, <2>2, <2>5 DEF FoldWithin
<1>6. h = [s \in SUBSET DOMAIN m |-> PassStep(line, m, h, s)]
  <2>1. ASSUME NEW s \in SUBSET (1 .. n)
        PROVE  h[s] = PassStep(line, m, h, s)
    <3>1. CASE s = {}
      BY <1>5, <3>1 DEF OneStep, PassStep
    <3>2. CASE s # {}
      <4>1. s \in SUBSET (0 .. n)
        OBVIOUS
      <4>2. Max(s) \in s
        BY <1>1, <3>2, <4>1, MaxOfSome
      <4>3. Max(s) \in 1 .. n /\ h[s \ {Max(s)}] \in PassState
        BY <1>5, <4>2
      <4> QED
        BY <1>4, <1>5, <3>2, <4>3 DEF OneStep, PassStep
    <3> QED
      BY <3>1, <3>2
  <2> QED
    BY <1>1, <1>5, <2>1
<1>7. PICK f : f = Passing(line, m)
  OBVIOUS
<1>8. f = [s \in SUBSET (1 .. n) |-> PassStep(line, m, f, s)]
  BY <1>1, <1>6, <1>7 DEF Passing
<1>9. \A s \in SUBSET (1 .. n) : f[s] = PassStep(line, m, f, s)
  BY <1>8
<1>10. PICK a : a = [k \in 0 .. n |-> f[1 .. k]]
  OBVIOUS
<1>11. a[0] = PassStart(line)
  <2>1. 1 .. 0 = {} /\ 0 \in 0 .. n
    BY <1>1
  <2> QED
    BY <1>9, <1>10, <2>1 DEF PassStep
<1>12. ASSUME NEW k \in 1 .. n
       PROVE  a[k] = Passes(line, a[k - 1], m[k])
  <2>1. 1 .. k \in SUBSET (0 .. n) /\ 1 .. k \in SUBSET (1 .. n) /\ k \in 1 .. k
    BY <1>1
  <2>2. Max(1 .. k) \in 1 .. k /\ Max(1 .. k) >= k
    BY <1>1, <2>1, MaxOfSome
  <2>3. Max(1 .. k) = k /\ (1 .. k) \ {k} = 1 .. (k - 1)
    BY <2>2
  <2>4. k \in 0 .. n /\ k - 1 \in 0 .. n
    BY <1>1
  <2>5. f[1 .. k] = Passes(line, f[1 .. (k - 1)], m[k])
    BY <1>9, <2>1, <2>3 DEF PassStep
  <2> QED
    BY <1>10, <2>4, <2>5
<1>13. \A k \in 0 .. n : a[k] \in PassState
  <2>1. PICK P : P = {k \in 0 .. n : a[k] \in PassState}
    OBVIOUS
  <2>2. 0 \in P
    BY <1>1, <1>2, <1>11, <2>1
  <2>3. ASSUME NEW k \in 0 .. n - 1, k \in P
        PROVE  k + 1 \in P
    <3>1. k + 1 \in 1 .. n /\ k + 1 \in 0 .. n /\ (k + 1) - 1 = k
      BY <1>1
    <3>2. a[k + 1] = Passes(line, a[k], m[k + 1])
      BY <1>12, <3>1
    <3> QED
      BY <1>1, <2>1, <2>3, <3>1, <3>2, PassesType
  <2>4. \A k \in 0 .. n : k \in P
    BY <1>1, <2>2, <2>3, UpTo
  <2> QED
    BY <2>1, <2>4
<1>14. PassEnd(line, m) = a[n]
  <2>1. n \in 0 .. n
    BY <1>1
  <2> QED
    BY <1>1, <1>7, <1>10, <2>1 DEF PassEnd
<1> QED
  BY <1>11, <1>12, <1>13, <1>14
\* What each of the first k lines took, and what is then left of the line joined.
FilledUpTo(line, m, t, k, acc) ==
    /\ Len(acc.into) = k
    /\ \A i \in 1 .. k : acc.into[i] = [m[i] EXCEPT !.quantity = @ + t[i]]
    /\ acc.left + SumOf(t, 1 .. k) = line.quantity
    /\ acc.left > 0 => \A i \in 1 .. k : Alike(m[i], line) => t[i] = Room(m[i])

\* A pass over one more line fills that line and no other.
LEMMA PassFills ==
  ASSUME NEW line \in GoodLine, NEW m \in Seq(GoodLine), NEW n, n = Len(m),
         NEW k \in 0 .. n - 1, NEW acc \in PassState,
         NEW t, \A i \in 1 .. k + 1 : t[i] \in Nat, t[k + 1] = Takes(line, acc.left, m[k + 1]),
         FilledUpTo(line, m, t, k, acc)
  PROVE  FilledUpTo(line, m, t, k + 1, Passes(line, acc, m[k + 1]))
<1>1. n \in Nat /\ DOMAIN m = 1 .. n /\ \A i \in 1 .. n : m[i] \in GoodLine
  BY ListPlaces
<1>2. k \in Nat /\ k + 1 \in 1 .. n /\ m[k + 1] \in GoodLine
  BY <1>1
<1>3. acc.left \in Nat /\ acc.into \in Seq(GoodLine) /\ Len(acc.into) = k
  BY DEF PassState, FilledUpTo
<1>4. PICK x \in Nat : x = t[k + 1]
  BY <1>2
<1>5. /\ x <= acc.left
      /\ Alike(m[k + 1], line) /\ x < acc.left => x = Room(m[k + 1])
  BY <1>2, <1>3, <1>4, TakesWithinRoom
<1>6. PICK l : l = [m[k + 1] EXCEPT !.quantity = @ + t[k + 1]]
  OBVIOUS
<1>7. PICK e : e = Passes(line, acc, m[k + 1])
  OBVIOUS
<1>8. e = [left |-> acc.left - x, into |-> Append(acc.into, l)]
  BY <1>4, <1>6, <1>7 DEF Passes
<1>9. e.left = acc.left - x /\ e.into = Append(acc.into, l)
  BY <1>8
<1>10. /\ Len(e.into) = k + 1 /\ e.into[k + 1] = l
       /\ \A i \in 1 .. k : e.into[i] = acc.into[i]
  <2>1. PICK s : s = acc.into
    OBVIOUS
  <2>2. Len(Append(s, l)) = k + 1
    BY <1>3, <2>1
  <2>3. \A i \in 1 .. k : Append(s, l)[i] = s[i]
    BY <1>2, <1>3, <2>1
  <2>4. Append(s, l)[k + 1] = l
    BY <1>2, <1>3, <2>1
  <2> QED
    BY <1>9, <2>1, <2>2, <2>3, <2>4
<1>11. \A i \in 1 .. k + 1 : i \in 1 .. k \/ i = k + 1
  BY <1>2
<1>12. \A i \in 1 .. k + 1 : e.into[i] = [m[i] EXCEPT !.quantity = @ + t[i]]
  BY <1>6, <1>10, <1>11 DEF FilledUpTo
<1>13. e.left + SumOf(t, 1 .. k + 1) = line.quantity
  <2>1. PICK S : S = 1 .. k
    OBVIOUS
  <2>2. IsFiniteSet(S) /\ k + 1 \notin S /\ S \cup {k + 1} = 1 .. k + 1
    <3>1. IsFiniteSet(S)
      BY <1>2, <2>1, FS_Interval
    <3>2. k + 1 \notin S /\ S \cup {k + 1} = 1 .. k + 1
      BY <1>2, <2>1
    <3> QED
      BY <3>1, <3>2
  <2>3. \A y \in S \cup {k + 1} : t[y] \in Int
    BY <2>2
  <2>4. SumOf(t, S \cup {k + 1}) = t[k + 1] + SumOf(t, S) /\ SumOf(t, S) \in Int
    BY <2>2, <2>3, SumOfAdd, SumOfType
  <2>5. acc.left + SumOf(t, S) = line.quantity
    BY <2>1 DEF FilledUpTo
  <2>6. PICK s \in Int : s = SumOf(t, S)
    BY <2>4
  <2>7. SumOf(t, 1 .. k + 1) = x + s
    BY <1>4, <2>2, <2>4, <2>6
  <2> QED
    BY <1>3, <1>4, <1>9, <2>5, <2>6, <2>7
<1>14. ASSUME e.left > 0, NEW i \in 1 .. k + 1, Alike(m[i], line)
       PROVE  t[i] = Room(m[i])
  <2>1. x < acc.left /\ acc.left > 0
    BY <1>3, <1>4, <1>9, <1>14
  <2> QED
    BY <1>4, <1>5, <1>11, <1>14, <2>1 DEF FilledUpTo
<1> QED
  BY <1>7, <1>10, <1>12, <1>13, <1>14 DEF FilledUpTo

\* The whole fold: what each line before took, and what is left.
LEMMA PassEndFills ==
  ASSUME NEW line \in GoodLine, NEW m \in Seq(GoodLine), NEW n, n = Len(m)
  PROVE  /\ PassEnd(line, m) \in PassState
         /\ \E t \in [1 .. n -> Nat] :
               /\ \A i \in 1 .. n : t[i] <= Room(m[i]) /\ (~Alike(m[i], line) => t[i] = 0)
               /\ FilledUpTo(line, m, t, n, PassEnd(line, m))
<1>1. n \in Nat /\ DOMAIN m = 1 .. n /\ \A i \in 1 .. n : m[i] \in GoodLine
  BY ListPlaces
<1>2. PICK a : /\ a[0] = PassStart(line)
               /\ \A k \in 1 .. n : a[k] = Passes(line, a[k - 1], m[k])
               /\ \A k \in 0 .. n : a[k] \in PassState
               /\ PassEnd(line, m) = a[n]
  BY PassPlaces
<1>3. PICK t : t = [i \in 1 .. n |-> Takes(line, a[i - 1].left, m[i])]
  OBVIOUS
<1>4. ASSUME NEW i \in 1 .. n
      PROVE  /\ t[i] = Takes(line, a[i - 1].left, m[i])
             /\ t[i] \in Nat /\ t[i] <= Room(m[i])
             /\ ~Alike(m[i], line) => t[i] = 0
  <2>1. i - 1 \in 0 .. n
    BY <1>1
  <2>2. a[i - 1].left \in Nat
    BY <1>2, <2>1 DEF PassState
  <2> QED
    BY <1>1, <1>3, <2>2, TakesWithinRoom
<1>5. PICK P : P = {k \in 0 .. n : FilledUpTo(line, m, t, k, a[k])}
  OBVIOUS
<1>6. 0 \in P
  <2>1. 0 \in 0 .. n /\ 1 .. 0 = {}
    BY <1>1
  <2>2. a[0].left = line.quantity /\ a[0].into = <<>>
    BY <1>2 DEF PassStart
  <2>3. SumOf(t, 1 .. 0) = 0
    BY <2>1, SumOfEmpty
  <2>4. line.quantity \in Nat
    BY GoodLineFits
  <2>5. FilledUpTo(line, m, t, 0, a[0])
    BY <2>1, <2>2, <2>3, <2>4 DEF FilledUpTo
  <2> QED
    BY <1>5, <2>1, <2>5
<1>7. ASSUME NEW k \in 0 .. n - 1, k \in P
      PROVE  k + 1 \in P
  <2>1. /\ k + 1 \in 1 .. n /\ k + 1 \in 0 .. n /\ k \in 0 .. n /\ (k + 1) - 1 = k
        /\ \A i \in 1 .. k + 1 : i \in 1 .. n
    BY <1>1
  <2>2. FilledUpTo(line, m, t, k, a[k]) /\ a[k] \in PassState
    BY <1>2, <1>5, <1>7, <2>1
  <2>3. t[k + 1] = Takes(line, a[k].left, m[k + 1]) /\ \A i \in 1 .. k + 1 : t[i] \in Nat
    BY <1>4, <2>1
  <2>4. PICK acc \in PassState : acc = a[k]
    BY <2>2
  <2>5. FilledUpTo(line, m, t, k + 1, Passes(line, acc, m[k + 1]))
    BY <2>2, <2>3, <2>4, PassFills
  <2>6. a[k + 1] = Passes(line, acc, m[k + 1])
    BY <1>2, <2>1, <2>4
  <2> QED
    BY <1>5, <2>1, <2>5, <2>6
<1>8. \A k \in 0 .. n : k \in P
  BY <1>1, <1>6, <1>7, UpTo
<1>9. n \in 0 .. n
  BY <1>1
<1>10. FilledUpTo(line, m, t, n, PassEnd(line, m)) /\ PassEnd(line, m) \in PassState
  BY <1>2, <1>5, <1>8, <1>9
<1>11. t \in [1 .. n -> Nat]
  BY <1>3, <1>4
<1> QED
  BY <1>4, <1>10, <1>11

-----------------------------------------------------------------------------
\* Alike lines together, one being split off only when the one before is full.
Joined(ls) ==
    \A i, j \in DOMAIN ls :
        i < j /\ Same(ls[i], ls[j]) => ls[i].quantity = MaxParentQuantity(ls[i])

Units(ls) == [i \in DOMAIN ls |-> ls[i].quantity]

Likes(ls, l) == {i \in DOMAIN ls : Same(ls[i], l)}

\* The units of a dish are a sum over the lines that are like it.
LEMMA UnitsOfLines ==
  ASSUME NEW ls \in Seq(GoodLine), NEW l
  PROVE  /\ UnitsLike(ls, l) = SumOf(Units(ls), Likes(ls, l))
         /\ IsFiniteSet(Likes(ls, l)) /\ Likes(ls, l) \subseteq DOMAIN ls
         /\ \A i \in DOMAIN ls : Units(ls)[i] = ls[i].quantity /\ Units(ls)[i] \in Nat
         /\ UnitsLike(ls, l) \in Nat
<1>1. DOMAIN ls = 1 .. Len(ls) /\ Len(ls) \in Nat /\ \A i \in DOMAIN ls : ls[i] \in GoodLine
  BY ListPlaces
<1>2. IsFiniteSet(DOMAIN ls)
  BY <1>1, FS_Interval
<1>3. Likes(ls, l) \subseteq DOMAIN ls
  BY DEF Likes
<1>4. IsFiniteSet(Likes(ls, l))
  BY <1>2, <1>3, FS_Subset
<1>5. \A i \in DOMAIN ls : Units(ls)[i] = ls[i].quantity /\ Units(ls)[i] \in Nat
  BY <1>1, GoodLineFits DEF Units
<1>6. SumOf(Units(ls), Likes(ls, l)) \in Nat
  BY <1>3, <1>4, <1>5, SumOfNat
<1>7. UnitsLike(ls, l) = SumOf(Units(ls), Likes(ls, l))
  BY DEF UnitsLike, Units, Likes
<1> QED
  BY <1>3, <1>4, <1>5, <1>6, <1>7

\* A line at the end adds its units to those alike.
LEMMA UnitsOfAppend ==
  ASSUME NEW ls \in Seq(GoodLine), NEW k \in GoodLine, NEW l
  PROVE  UnitsLike(Append(ls, k), l)
            = UnitsLike(ls, l) + (IF Same(k, l) THEN k.quantity ELSE 0)
<1>1. PICK n \in Nat : n = Len(ls)
  BY ListPlaces
<1>2. DOMAIN ls = 1 .. n /\ \A i \in 1 .. n : ls[i] \in GoodLine
  BY <1>1, ListPlaces
<1>3. PICK ms : ms = Append(ls, k)
  OBVIOUS
<1>4. /\ ms \in Seq(GoodLine) /\ Len(ms) = n + 1 /\ DOMAIN ms = 1 .. n + 1
      /\ ms[n + 1] = k /\ \A i \in 1 .. n : ms[i] = ls[i]
  BY <1>1, <1>2, <1>3, AppendProperties, ListPlaces
<1>5. PICK u : u = Units(ls)
  OBVIOUS
<1>6. PICK v : v = Units(ms)
  OBVIOUS
<1>7. PICK S : S = Likes(ls, l)
  OBVIOUS
<1>8. PICK T : T = Likes(ms, l)
  OBVIOUS
<1>9. /\ UnitsLike(ls, l) = SumOf(u, S) /\ IsFiniteSet(S) /\ S \subseteq 1 .. n
      /\ UnitsLike(ls, l) \in Nat
      /\ \A i \in 1 .. n : u[i] = ls[i].quantity /\ u[i] \in Nat
  BY <1>2, <1>5, <1>7, UnitsOfLines
<1>10. /\ UnitsLike(ms, l) = SumOf(v, T)
       /\ \A i \in 1 .. n + 1 : v[i] = ms[i].quantity /\ v[i] \in Nat
  BY <1>4, <1>6, <1>8, UnitsOfLines
<1>11. \A i \in S : v[i] = u[i]
  BY <1>1, <1>4, <1>9, <1>10
<1>12. SumOf(v, S) = SumOf(u, S)
  BY <1>9, <1>11, SumOfSame
<1>13. n + 1 \notin S
  BY <1>1, <1>9
<1>14. k.quantity \in Nat /\ v[n + 1] = k.quantity
  <2>1. k.quantity \in 1 .. LineCap
    BY GoodLineFits
  <2>2. n + 1 \in 1 .. n + 1
    BY <1>1
  <2>3. v[n + 1] = ms[n + 1].quantity
    BY <1>10, <2>2
  <2> QED
    BY <1>4, <2>1, <2>3
<1>15. \A i \in 1 .. n + 1 : i \in 1 .. n \/ i = n + 1
  BY <1>1
<1>16. CASE Same(k, l)
  <2>1. T = S \cup {n + 1}
    BY <1>1, <1>2, <1>4, <1>7, <1>8, <1>15, <1>16 DEF Likes
  <2>2. \A i \in S \cup {n + 1} : v[i] \in Int
    <3>1. \A i \in S : v[i] = u[i] /\ u[i] \in Nat
      BY <1>9, <1>11
    <3>2. v[n + 1] \in Nat
      BY <1>14
    <3> QED
      BY <3>1, <3>2
  <2>3. SumOf(v, S \cup {n + 1}) = v[n + 1] + SumOf(v, S)
    BY <1>9, <1>13, <2>2, SumOfAdd
  <2>4. PICK s \in Nat : s = UnitsLike(ls, l)
    BY <1>9
  <2>5. SumOf(v, T) = k.quantity + s
    BY <1>9, <1>12, <1>14, <2>1, <2>3, <2>4
  <2> QED
    BY <1>3, <1>10, <1>14, <1>16, <2>4, <2>5
<1>17. CASE ~Same(k, l)
  <2>1. T = S
    BY <1>1, <1>2, <1>4, <1>7, <1>8, <1>15, <1>17 DEF Likes
  <2> QED
    BY <1>3, <1>9, <1>10, <1>12, <1>17, <2>1
<1> QED
  BY <1>16, <1>17

\* Being the same dish goes both ways, and on.
LEMMA SameIsAlike ==
  /\ \A k, l : Same(k, l) => Same(l, k)
  /\ \A j, k, l : Same(j, k) /\ Same(k, l) => Same(j, l)
BY DEF Same

\* A line that takes more is the same, of the same room, with more units.
LEMMA FilledLine ==
  ASSUME NEW line, NEW m \in Seq(GoodLine), NEW n, n = Len(m),
         NEW t, NEW acc \in PassState, FilledUpTo(line, m, t, n, acc),
         NEW i \in 1 .. n, t[i] \in Nat
  PROVE  /\ acc.into[i].quantity = m[i].quantity + t[i]
         /\ Same(acc.into[i], m[i])
         /\ MaxParentQuantity(acc.into[i]) = MaxParentQuantity(m[i])
         /\ acc.into[i] \in GoodLine /\ m[i] \in GoodLine
<1>1. DOMAIN m = 1 .. n /\ m[i] \in GoodLine
  BY ListPlaces
<1>2. PICK l : l = m[i]
  OBVIOUS
<1>3. PICK k : k = acc.into[i]
  OBVIOUS
<1>4. l \in Line
  BY <1>1, <1>2 DEF GoodLine
<1>5. k = [l EXCEPT !.quantity = l.quantity + t[i]]
  BY <1>2, <1>3 DEF FilledUpTo
<1>6. /\ k.quantity = l.quantity + t[i] /\ k.addons = l.addons /\ k.product = l.product
      /\ k.removals = l.removals /\ k.note = l.note
  BY <1>4, <1>5 DEF Line
<1>7. k \in GoodLine
  <2>1. acc.into \in Seq(GoodLine) /\ Len(acc.into) = n
    BY DEF PassState, FilledUpTo
  <2>2. DOMAIN acc.into = 1 .. n
    BY <2>1, ListPlaces
  <2> QED
    BY <1>3, <2>1, <2>2, ListPlaces
<1>8. Same(k, l) /\ MaxParentQuantity(k) = MaxParentQuantity(l)
  BY <1>6 DEF Same, MaxParentQuantity
<1> QED
  BY <1>1, <1>2, <1>3, <1>6, <1>7, <1>8

\* The lines before stay joined, for a full one takes nothing.
LEMMA FilledJoins ==
  ASSUME NEW line, NEW m \in Seq(GoodLine), NEW n, n = Len(m), Joined(m),
         NEW t \in [1 .. n -> Nat], \A i \in 1 .. n : t[i] <= Room(m[i]),
         NEW acc \in PassState, FilledUpTo(line, m, t, n, acc)
  PROVE  Joined(acc.into)
<1>1. n \in Nat /\ DOMAIN m = 1 .. n
  BY ListPlaces
<1>2. acc.into \in Seq(GoodLine) /\ Len(acc.into) = n
  BY DEF PassState, FilledUpTo
<1>3. DOMAIN acc.into = 1 .. n
  BY <1>2, ListPlaces
<1> SUFFICES ASSUME NEW i \in 1 .. n, NEW j \in 1 .. n, i < j,
                    Same(acc.into[i], acc.into[j])
             PROVE  acc.into[i].quantity = MaxParentQuantity(acc.into[i])
  BY <1>3 DEF Joined
<1>4. Same(m[i], m[j])
  <2>1. Same(acc.into[i], m[i]) /\ Same(acc.into[j], m[j])
    BY FilledLine
  <2> QED
    BY <2>1, SameIsAlike
<1>5. m[i].quantity = MaxParentQuantity(m[i])
  BY <1>1, <1>4 DEF Joined
<1>6. m[i] \in GoodLine /\ t[i] \in Nat
  BY FilledLine
<1>7. PICK q \in Nat : q = m[i].quantity
  BY <1>6, GoodLineFits
<1>8. t[i] <= q - q
  BY <1>5, <1>7 DEF Room
<1>9. t[i] = 0
  BY <1>6, <1>7, <1>8
<1>10. acc.into[i].quantity = q + 0
  BY <1>6, <1>7, <1>9, FilledLine
<1>11. MaxParentQuantity(acc.into[i]) = q
  BY <1>5, <1>6, <1>7, FilledLine
<1> QED
  BY <1>7, <1>10, <1>11

\* What the lines before took are units alike the line, and only those.
LEMMA FilledUnits ==
  ASSUME NEW line \in GoodLine, NEW m \in Seq(GoodLine), NEW n, n = Len(m),
         NEW t \in [1 .. n -> Nat], \A i \in 1 .. n : ~Alike(m[i], line) => t[i] = 0,
         NEW acc \in PassState, FilledUpTo(line, m, t, n, acc), NEW l
  PROVE  UnitsLike(acc.into, l)
            = UnitsLike(m, l) + (IF Same(line, l) THEN line.quantity - acc.left ELSE 0)
<1>1. n \in Nat /\ DOMAIN m = 1 .. n
  BY ListPlaces
<1>2. PICK e : e = acc.into
  OBVIOUS
<1>3. e \in Seq(GoodLine) /\ Len(e) = n /\ acc.left \in Nat
  BY <1>2 DEF PassState, FilledUpTo
<1>4. DOMAIN e = 1 .. n
  BY <1>3, ListPlaces
<1>5. \A i \in 1 .. n : e[i].quantity = m[i].quantity + t[i] /\ Same(e[i], m[i])
  BY <1>2, FilledLine
<1>6. PICK S : S = Likes(m, l)
  OBVIOUS
<1>7. Likes(e, l) = S
  BY <1>1, <1>4, <1>5, <1>6, SameIsAlike DEF Likes
<1>8. PICK u : u = Units(m)
  OBVIOUS
<1>9. PICK v : v = Units(e)
  OBVIOUS
<1>10. /\ UnitsLike(m, l) = SumOf(u, S) /\ IsFiniteSet(S) /\ S \subseteq 1 .. n
       /\ \A i \in 1 .. n : u[i] = m[i].quantity /\ u[i] \in Nat
  BY <1>1, <1>6, <1>8, UnitsOfLines
<1>11. /\ UnitsLike(e, l) = SumOf(v, S)
       /\ \A i \in 1 .. n : v[i] = e[i].quantity /\ v[i] \in Nat
  BY <1>3, <1>4, <1>7, <1>9, UnitsOfLines
<1>12. \A i \in S : u[i] \in Int /\ t[i] \in Int /\ v[i] = u[i] + t[i]
  BY <1>5, <1>10, <1>11
<1>13. PICK w : w = [i \in S |-> u[i] + t[i]]
  OBVIOUS
<1>14. SumOf(v, S) = SumOf(w, S)
  <2>1. \A i \in S : v[i] = w[i]
    BY <1>12, <1>13
  <2> QED
    BY <1>10, <2>1, SumOfSame
<1>15. SumOf(w, S) = SumOf(u, S) + SumOf(t, S)
  BY <1>10, <1>12, <1>13, SumOfPlus
<1>16. SumOf(t, S) = IF Same(line, l) THEN line.quantity - acc.left ELSE 0
  <2>1. CASE Same(line, l)
    <3>1. PICK T : T = 1 .. n
      OBVIOUS
    <3>2. IsFiniteSet(T)
      BY <1>1, <3>1, FS_Interval
    <3>3. \A i \in T \ S : t[i] = 0
      <4>1. \A i \in T \ S : ~Same(m[i], l)
        BY <1>1, <1>6, <3>1 DEF Likes
      <4>2. \A i \in T \ S : ~Alike(m[i], line)
        BY <2>1, <4>1, SameIsAlike, AlikeIsSame
      <4> QED
        BY <3>1, <4>2
    <3>4. S \in SUBSET T /\ \A i \in S : t[i] \in Int /\ t[i] = t[i]
      BY <1>10, <1>12, <3>1
    <3>5. SumOf(t, T) = SumOf(t, S)
      BY <3>2, <3>3, <3>4, SumOfMore
    <3>6. acc.left + SumOf(t, T) = line.quantity
      BY <3>1 DEF FilledUpTo
    <3>7. \A i \in T : t[i] \in Int
      BY <3>1
    <3>8. PICK s \in Int : s = SumOf(t, T)
      BY <3>2, <3>7, SumOfType
    <3>9. s = line.quantity - acc.left
      BY <1>3, <3>6, <3>8
    <3> QED
      BY <2>1, <3>5, <3>8, <3>9
  <2>2. CASE ~Same(line, l)
    <3>1. \A i \in S : ~Alike(m[i], line)
      BY <1>6, <2>2, SameIsAlike, AlikeIsSame DEF Likes
    <3>2. \A i \in S : t[i] = 0
      BY <1>10, <3>1
    <3> QED
      BY <1>10, <2>2, <3>2, SumOfZero
  <2> QED
    BY <2>1, <2>2
<1> QED
  BY <1>2, <1>10, <1>11, <1>14, <1>15, <1>16

\* mergeInto: a line is joined with those alike, none of its units lost.
LEMMA MergeIntoKeeps ==
  ASSUME NEW line \in GoodLine, NEW m \in Seq(GoodLine)
  PROVE  /\ MergeInto(m, line) \in Seq(GoodLine)
         /\ Joined(m) => Joined(MergeInto(m, line))
         /\ \A l : UnitsLike(MergeInto(m, line), l)
                      = UnitsLike(m, l) + (IF Same(line, l) THEN line.quantity ELSE 0)
<1>1. PICK n \in Nat : n = Len(m)
  BY ListPlaces
<1>2. PICK e : e = PassEnd(line, m)
  OBVIOUS
<1>3. e \in PassState
  BY <1>1, <1>2, PassEndFills
<1>4. PICK t \in [1 .. n -> Nat] :
         /\ \A i \in 1 .. n : t[i] <= Room(m[i]) /\ (~Alike(m[i], line) => t[i] = 0)
         /\ FilledUpTo(line, m, t, n, e)
  BY <1>1, <1>2, PassEndFills
<1>5. e.into \in Seq(GoodLine) /\ Len(e.into) = n /\ e.left \in Nat
  BY <1>3, <1>4 DEF PassState, FilledUpTo
<1>6. DOMAIN m = 1 .. n /\ DOMAIN e.into = 1 .. n
  BY <1>1, <1>5, ListPlaces
<1>7. Joined(m) => Joined(e.into)
  BY <1>1, <1>3, <1>4, FilledJoins
<1>8. \A l : UnitsLike(e.into, l)
               = UnitsLike(m, l) + (IF Same(line, l) THEN line.quantity - e.left ELSE 0)
  BY <1>1, <1>3, <1>4, FilledUnits
<1>9. line.quantity \in Nat /\ \A l : UnitsLike(m, l) \in Nat
  BY GoodLineFits, UnitsOfLines
<1>10. CASE ~ (e.left > 0)
  <2>1. MergeInto(m, line) = e.into
    BY <1>2, <1>10, MergeIntoIsPassing
  <2>2. e.left = 0 /\ line.quantity - e.left = line.quantity
    BY <1>5, <1>9, <1>10
  <2> QED
    BY <1>5, <1>7, <1>8, <2>1, <2>2
<1>11. CASE e.left > 0
  <2>1. PICK k : k = [line EXCEPT !.quantity = e.left]
    OBVIOUS
  <2>2. MergeInto(m, line) = Append(e.into, k)
    BY <1>2, <1>11, <2>1, MergeIntoIsPassing
  <2>3. line \in Line /\ k.quantity = e.left /\ k.addons = line.addons
        /\ k.product = line.product /\ k.note = line.note /\ k.removals = line.removals
    BY <2>1 DEF GoodLine, Line
  <2>4. e.left <= line.quantity
    <3>1. \A i \in 1 .. n : t[i] \in Nat
      OBVIOUS
    <3>2. SumOf(t, 1 .. n) \in Nat
      <4>1. IsFiniteSet(1 .. n)
        BY <1>1, FS_Interval
      <4> QED
        BY <3>1, <4>1, SumOfNat
    <3>3. e.left + SumOf(t, 1 .. n) = line.quantity
      BY <1>4 DEF FilledUpTo
    <3>4. PICK s \in Nat : s = SumOf(t, 1 .. n)
      BY <3>2
    <3> QED
      BY <1>5, <1>9, <3>3, <3>4
  <2>5. k \in GoodLine
    <3>1. e.left \in 1 .. MaxParentQuantity(line)
      BY <1>5, <1>9, <1>11, <2>4, GoodLineFits
    <3> QED
      BY <2>1, <3>1, OtherQuantity
  <2>6. \A l : Same(k, l) <=> Same(line, l)
    BY <2>3 DEF Same
  <2>7. Append(e.into, k) \in Seq(GoodLine)
    BY <1>5, <2>5, AppendProperties
  <2>8. ASSUME NEW l
        PROVE  UnitsLike(Append(e.into, k), l)
                  = UnitsLike(m, l) + (IF Same(line, l) THEN line.quantity ELSE 0)
    <3>1. UnitsLike(Append(e.into, k), l)
             = UnitsLike(e.into, l) + (IF Same(k, l) THEN k.quantity ELSE 0)
      BY <1>5, <2>5, UnitsOfAppend
    <3>2. PICK s \in Nat : s = UnitsLike(m, l)
      BY <1>9
    <3>3. UnitsLike(e.into, l) = s + (IF Same(line, l) THEN line.quantity - e.left ELSE 0)
      BY <1>8, <3>2
    <3>4. CASE Same(line, l)
      BY <1>5, <1>9, <2>3, <2>6, <3>1, <3>2, <3>3, <3>4
    <3>5. CASE ~Same(line, l)
      BY <2>6, <3>1, <3>2, <3>3, <3>5
    <3> QED
      BY <3>4, <3>5
  <2>9. ASSUME Joined(m) PROVE Joined(Append(e.into, k))
    <3>1. PICK ms : ms = Append(e.into, k)
      OBVIOUS
    <3>2. /\ DOMAIN ms = 1 .. n + 1 /\ ms[n + 1] = k
          /\ \A i \in 1 .. n : ms[i] = e.into[i]
      <4>1. PICK s \in Seq(GoodLine) : s = e.into
        BY <1>5
      <4>2. Len(s) = n /\ ms = Append(s, k)
        BY <1>5, <3>1, <4>1
      <4>3. Len(ms) = n + 1 /\ ms[n + 1] = k /\ \A i \in 1 .. n : ms[i] = s[i]
        BY <1>1, <4>2, AppendProperties
      <4>4. DOMAIN ms = 1 .. n + 1
        BY <2>7, <3>1, <4>3, ListPlaces
      <4> QED
        BY <4>1, <4>3, <4>4
    <3> SUFFICES ASSUME NEW i \in 1 .. n + 1, NEW j \in 1 .. n + 1, i < j,
                        Same(ms[i], ms[j])
                 PROVE  ms[i].quantity = MaxParentQuantity(ms[i])
      BY <3>1, <3>2 DEF Joined
    <3>3. i \in 1 .. n /\ (j \in 1 .. n \/ j = n + 1)
      BY <1>1
    <3>4. CASE j \in 1 .. n
      BY <1>6, <1>7, <2>9, <3>2, <3>3, <3>4 DEF Joined
    <3>5. CASE j = n + 1
      <4>1. Same(e.into[i], m[i]) /\ m[i] \in GoodLine
            /\ e.into[i].quantity = m[i].quantity + t[i]
            /\ MaxParentQuantity(e.into[i]) = MaxParentQuantity(m[i])
        BY <1>1, <1>3, <1>4, <3>3, FilledLine
      <4>2. Same(e.into[i], k)
        BY <3>2, <3>3, <3>5
      <4>3. Same(k, line)
        BY <2>3 DEF Same
      <4>4. Alike(m[i], line)
        BY <4>1, <4>2, <4>3, SameIsAlike, AlikeIsSame
      <4>5. t[i] = Room(m[i])
        BY <1>4, <1>11, <3>3, <4>4 DEF FilledUpTo
      <4>6. PICK q \in Nat, r \in Nat : q = m[i].quantity /\ r = MaxParentQuantity(m[i])
        BY <4>1, GoodLineFits
      <4>7. t[i] = r - q
        BY <4>5, <4>6 DEF Room
      <4>8. e.into[i].quantity = r
        BY <4>1, <4>6, <4>7
      <4>9. MaxParentQuantity(e.into[i]) = r
        BY <4>1, <4>6
      <4> QED
        BY <3>2, <3>3, <4>8, <4>9
    <3> QED
      BY <3>3, <3>4, <3>5
  <2> QED
    BY <2>2, <2>7, <2>8, <2>9
<1> QED
  BY <1>10, <1>11

-----------------------------------------------------------------------------
\* itemsRequestOf as a fold: the items joined so far.
MergeStep(ls, f, s) ==
    IF s = {} THEN <<>> ELSE MergeInto(f[s \ {Max(s)}], ls[Max(s)])

Merging(ls) == CHOOSE f : f = [s \in SUBSET DOMAIN ls |-> MergeStep(ls, f, s)]

MergedAll(ls) == Merging(ls)[DOMAIN ls]

\* itemsRequest merges the typed lines one by one, from the first.
LEMMA ItemsRequestIsMerging == ItemsRequest = MergedAll(lines)
BY DEF ItemsRequest, FoldLeft, MapThenFoldSet, MergedAll, Merging, MergeStep

\* The items place by place.
LEMMA MergePlaces ==
  ASSUME NEW ls \in Seq(GoodLine), NEW n, n = Len(ls)
  PROVE  \E a : /\ a[0] = <<>>
                /\ \A k \in 1 .. n : a[k] = MergeInto(a[k - 1], ls[k])
                /\ MergedAll(ls) = a[n]
<1>1. n \in Nat /\ DOMAIN ls = 1 .. n /\ \A i \in 1 .. n : ls[i] \in GoodLine
  BY ListPlaces
<1>2. PICK U : U = Seq(GoodLine)
  OBVIOUS
<1>3. PICK base : base = <<>>
  OBVIOUS
<1>4. base \in U
  BY <1>2, <1>3, EmptySeq
<1>5. PICK g : g = [p \in U \X (1 .. n) |-> MergeInto(p[1], ls[p[2]])]
  OBVIOUS
<1>6. \A u \in U : \A i \in 1 .. n :
         g[<<u, i>>] = MergeInto(u, ls[i]) /\ g[<<u, i>>] \in U
  BY <1>1, <1>2, <1>5, MergeIntoKeeps
<1>7. StepsWithin(U, n, g)
  BY <1>6 DEF StepsWithin
<1>8. FoldWithin(U, base, n, g)
  BY <1>1, <1>4, <1>7, FoldSolved
<1>9. PICK h \in [SUBSET (1 .. n) -> U] :
         \A s \in SUBSET (1 .. n) : h[s] = OneStep(base, g, h, s)
  BY <1>8 DEF FoldWithin
<1>10. h = [s \in SUBSET DOMAIN ls |-> MergeStep(ls, h, s)]
  <2>1. ASSUME NEW s \in SUBSET (1 .. n)
        PROVE  h[s] = MergeStep(ls, h, s)
    <3>1. CASE s = {}
      BY <1>3, <1>9, <3>1 DEF OneStep, MergeStep
    <3>2. CASE s # {}
      <4>1. s \in SUBSET (0 .. n)
        OBVIOUS
      <4>2. Max(s) \in s
        BY <1>1, <3>2, <4>1, MaxOfSome
      <4>3. Max(s) \in 1 .. n /\ h[s \ {Max(s)}] \in U
        BY <1>9, <4>2
      <4> QED
        BY <1>6, <1>9, <3>2, <4>3 DEF OneStep, MergeStep
    <3> QED
      BY <3>1, <3>2
  <2> QED
    BY <1>1, <1>9, <2>1
<1>11. PICK f : f = Merging(ls)
  OBVIOUS
<1>12. f = [s \in SUBSET (1 .. n) |-> MergeStep(ls, f, s)]
  BY <1>1, <1>10, <1>11 DEF Merging
<1>13. \A s \in SUBSET (1 .. n) : f[s] = MergeStep(ls, f, s)
  BY <1>12
<1>14. PICK a : a = [k \in 0 .. n |-> f[1 .. k]]
  OBVIOUS
<1>15. a[0] = <<>>
  <2>1. 1 .. 0 = {} /\ 0 \in 0 .. n
    BY <1>1
  <2> QED
    BY <1>13, <1>14, <2>1 DEF MergeStep
<1>16. ASSUME NEW k \in 1 .. n
       PROVE  a[k] = MergeInto(a[k - 1], ls[k])
  <2>1. 1 .. k \in SUBSET (0 .. n) /\ 1 .. k \in SUBSET (1 .. n) /\ k \in 1 .. k
    BY <1>1
  <2>2. Max(1 .. k) \in 1 .. k /\ Max(1 .. k) >= k
    BY <1>1, <2>1, MaxOfSome
  <2>3. Max(1 .. k) = k /\ (1 .. k) \ {k} = 1 .. (k - 1)
    BY <2>2
  <2>4. k \in 0 .. n /\ k - 1 \in 0 .. n
    BY <1>1
  <2>5. f[1 .. k] = MergeInto(f[1 .. (k - 1)], ls[k])
    BY <1>13, <2>1, <2>3 DEF MergeStep
  <2> QED
    BY <1>14, <2>4, <2>5
<1>17. MergedAll(ls) = a[n]
  <2>1. n \in 0 .. n
    BY <1>1
  <2> QED
    BY <1>1, <1>11, <1>14, <2>1 DEF MergedAll
<1> QED
  BY <1>15, <1>16, <1>17

\* Of each line, the units among the first k.
UnitsUpTo(ls, l, k) == SumOf(Units(ls), {i \in 1 .. k : Same(ls[i], l)})

\* One more line counted.
LEMMA UnitsUpToNext ==
  ASSUME NEW ls \in Seq(GoodLine), NEW k \in 0 .. Len(ls) - 1, NEW l
  PROVE  UnitsUpTo(ls, l, k + 1)
            = UnitsUpTo(ls, l, k) + (IF Same(ls[k + 1], l) THEN ls[k + 1].quantity ELSE 0)
<1>1. PICK n \in Nat : n = Len(ls)
  BY ListPlaces
<1>2. DOMAIN ls = 1 .. n /\ k \in Nat /\ k + 1 \in 1 .. n
  BY <1>1, ListPlaces
<1>3. PICK u : u = Units(ls)
  OBVIOUS
<1>4. \A i \in 1 .. n : u[i] = ls[i].quantity /\ u[i] \in Nat
  BY <1>2, <1>3, UnitsOfLines
<1>5. PICK S : S = {i \in 1 .. k : Same(ls[i], l)}
  OBVIOUS
<1>6. PICK T : T = {i \in 1 .. k + 1 : Same(ls[i], l)}
  OBVIOUS
<1>7. S \subseteq 1 .. k /\ k + 1 \notin S
  BY <1>2, <1>5
<1>8. IsFiniteSet(S)
  <2>1. IsFiniteSet(1 .. k)
    BY <1>2, FS_Interval
  <2> QED
    BY <1>7, <2>1, FS_Subset
<1>9. \A i \in 1 .. k + 1 : i \in 1 .. k \/ i = k + 1
  BY <1>2
<1>10. \A i \in 1 .. k : i \in 1 .. k + 1 /\ i \in 1 .. n
  BY <1>1, <1>2
<1>11. k + 1 \in 1 .. k + 1
  BY <1>2
<1>12. CASE Same(ls[k + 1], l)
  <2>1. T = S \cup {k + 1}
    BY <1>5, <1>6, <1>9, <1>10, <1>11, <1>12
  <2>2. \A i \in S \cup {k + 1} : u[i] \in Int
    <3>1. \A i \in S \cup {k + 1} : i \in 1 .. n
      BY <1>2, <1>7, <1>10
    <3> QED
      BY <1>4, <3>1
  <2>3. SumOf(u, S \cup {k + 1}) = u[k + 1] + SumOf(u, S) /\ SumOf(u, S) \in Int
    BY <1>7, <1>8, <2>2, SumOfAdd, SumOfType
  <2>4. PICK s \in Int : s = SumOf(u, S)
    BY <2>3
  <2>5. ls[k + 1].quantity \in Nat /\ SumOf(u, T) = ls[k + 1].quantity + s
    BY <1>2, <1>4, <2>1, <2>3, <2>4
  <2> QED
    BY <1>3, <1>5, <1>6, <1>12, <2>4, <2>5 DEF UnitsUpTo
<1>13. CASE ~Same(ls[k + 1], l)
  <2>1. T = S
    BY <1>5, <1>6, <1>9, <1>10, <1>13
  <2>2. SumOf(u, S) \in Int
    <3>1. \A i \in S : u[i] \in Int
      BY <1>4, <1>7, <1>10
    <3> QED
      BY <1>8, <3>1, SumOfType
  <2>3. PICK s \in Int : s = SumOf(u, S)
    BY <2>2
  <2>4. UnitsUpTo(ls, l, k + 1) = s /\ UnitsUpTo(ls, l, k) = s
    BY <1>3, <1>5, <1>6, <2>1, <2>3 DEF UnitsUpTo
  <2> QED
    BY <1>13, <2>3, <2>4
<1> QED
  BY <1>12, <1>13

\* itemsRequestOf: good lines come out good, joined, and with all their units.
LEMMA MergedAllKeeps ==
  ASSUME NEW ls \in Seq(GoodLine)
  PROVE  /\ MergedAll(ls) \in Seq(GoodLine)
         /\ Joined(MergedAll(ls))
         /\ \A l : UnitsLike(MergedAll(ls), l) = UnitsLike(ls, l)
<1>1. PICK n \in Nat : n = Len(ls)
  BY ListPlaces
<1>2. DOMAIN ls = 1 .. n /\ \A i \in 1 .. n : ls[i] \in GoodLine
  BY <1>1, ListPlaces
<1>3. PICK a : /\ a[0] = <<>>
               /\ \A k \in 1 .. n : a[k] = MergeInto(a[k - 1], ls[k])
               /\ MergedAll(ls) = a[n]
  BY <1>1, MergePlaces
<1>4. PICK P : P = {k \in 0 .. n : /\ a[k] \in Seq(GoodLine) /\ Joined(a[k])
                                   /\ \A l : UnitsLike(a[k], l) = UnitsUpTo(ls, l, k)}
  OBVIOUS
<1>5. 0 \in P
  <2>1. 0 \in 0 .. n /\ 1 .. 0 = {}
    BY <1>1
  <2>2. a[0] \in Seq(GoodLine) /\ DOMAIN a[0] = {}
    BY <1>3, EmptySeq
  <2>3. Joined(a[0])
    BY <2>2 DEF Joined
  <2>4. ASSUME NEW l PROVE UnitsLike(a[0], l) = UnitsUpTo(ls, l, 0)
    <3>1. Likes(a[0], l) = {}
      BY <2>2 DEF Likes
    <3>2. UnitsLike(a[0], l) = 0
      BY <2>2, <3>1, UnitsOfLines, SumOfEmpty
    <3>3. {i \in 1 .. 0 : Same(ls[i], l)} = {}
      BY <2>1
    <3> QED
      BY <3>2, <3>3, SumOfEmpty DEF UnitsUpTo
  <2> QED
    BY <1>4, <2>1, <2>2, <2>3, <2>4
<1>6. ASSUME NEW k \in 0 .. n - 1, k \in P
      PROVE  k + 1 \in P
  <2>1. k + 1 \in 1 .. n /\ k + 1 \in 0 .. n /\ (k + 1) - 1 = k
    BY <1>1
  <2>2. PICK m \in Seq(GoodLine) : m = a[k]
    BY <1>4, <1>6
  <2>3. Joined(m) /\ \A l : UnitsLike(m, l) = UnitsUpTo(ls, l, k)
    BY <1>4, <1>6, <2>2
  <2>4. PICK line \in GoodLine : line = ls[k + 1]
    BY <1>2, <2>1
  <2>5. a[k + 1] = MergeInto(m, line)
    BY <1>3, <2>1, <2>2, <2>4
  <2>6. /\ MergeInto(m, line) \in Seq(GoodLine)
        /\ Joined(MergeInto(m, line))
        /\ \A l : UnitsLike(MergeInto(m, line), l)
                     = UnitsLike(m, l) + (IF Same(line, l) THEN line.quantity ELSE 0)
    BY <2>3, MergeIntoKeeps
  <2>7. \A l : UnitsLike(a[k + 1], l) = UnitsUpTo(ls, l, k + 1)
    <3>1. k \in 0 .. Len(ls) - 1
      BY <1>1
    <3>2. \A l : UnitsUpTo(ls, l, k + 1)
                   = UnitsUpTo(ls, l, k) + (IF Same(line, l) THEN line.quantity ELSE 0)
      BY <2>4, <3>1, UnitsUpToNext
    <3> QED
      BY <2>3, <2>5, <2>6, <3>2
  <2> QED
    BY <1>4, <2>1, <2>5, <2>6, <2>7
<1>7. \A k \in 0 .. n : k \in P
  BY <1>1, <1>5, <1>6, UpTo
<1>8. n \in P
  BY <1>1, <1>7
<1>9. \A l : UnitsUpTo(ls, l, n) = UnitsLike(ls, l)
  BY <1>2, UnitsOfLines DEF UnitsUpTo, Likes
<1> QED
  BY <1>3, <1>4, <1>8, <1>9

\* What is saved is what is on the screen.
LEMMA LinesInvSaves ==
  ASSUME LinesInv
  PROVE  SavesWhatIsTyped /\ LinesTypeOK
<1>1. lines \in Seq(GoodLine) /\ Apart(lines) /\ stored \in Seq(GoodLine) /\ typed \in Nat
  BY DEF LinesInv, TidyList
<1>2. PICK r : r = ItemsRequest
  OBVIOUS
<1>3. r \in Seq(GoodLine) /\ Joined(r) /\ \A l : UnitsLike(r, l) = UnitsLike(lines, l)
  BY <1>1, <1>2, ItemsRequestIsMerging, MergedAllKeeps
<1>4. \A i \in DOMAIN r : r[i] \in GoodLine
  BY <1>3, ListPlaces
<1>5. KeepsUnits
  BY <1>2, <1>3 DEF KeepsUnits
<1>6. WithinTheCap
  BY <1>2, <1>4, GoodLineFits DEF WithinTheCap
<1>7. JoinsAlike
  BY <1>2, <1>3 DEF JoinsAlike, Joined
<1>8. ToldApart
  BY <1>1 DEF ToldApart, Apart
<1>9. LinesTypeOK
  BY <1>1, ListPlaces, GoodLineIsLine DEF LinesTypeOK
<1> QED
  BY <1>5, <1>6, <1>7, <1>8, <1>9 DEF SavesWhatIsTyped

\* The form opened, in whatever scene.
LEMMA LinesOpen ==
  ASSUME ShopInit
  PROVE  LinesInv
BY LinesInvInit DEF ShopInit

\* Only the scene of the lines moves them.
LEMMA LinesInvNext ==
  ASSUME LinesInv, [ShopNext]_shopVars
  PROVE  LinesInv'
<1>1. CASE OnLines
  BY <1>1, LinesStepKeeps DEF OnLines
<1>2. CASE ~OnLines
  <2>1. UNCHANGED lineVars
    BY <1>2 DEF ShopNext, shopVars, OnExpenses, OnMarkings, OnMenu, OnLevels, OnRepricing,
                OnPricing, OnScreen, OnForm, LinesStay
  <2>2. lines' = lines /\ stored' = stored /\ typed' = typed
    BY <2>1 DEF lineVars
  <2> QED
    BY <2>2 DEF LinesInv, TidyList, Apart
<1> QED
  BY <1>1, <1>2

(***************************************************************************)
(* The lines of the order form keep their types (cash/order-lines.ts).     *)
(***************************************************************************)
THEOREM LinesTypeCorrect == ShopSpec => []LinesTypeOK
<1>1. ShopInit => LinesInv
  BY LinesOpen
<1>2. LinesInv /\ [ShopNext]_shopVars => LinesInv'
  BY LinesInvNext
<1>3. LinesInv => LinesTypeOK
  BY LinesInvSaves
<1> QED
  BY <1>1, <1>2, <1>3, PTL DEF ShopSpec

(***************************************************************************)
(* What is saved is what was typed: as many units of each dish, within     *)
(* the cap of units, like with like and no line lost (cash/line-merge.ts   *)
(* and cash/item-request.ts).                                              *)
(***************************************************************************)
THEOREM SavesAreTyped == ShopSpec => []SavesWhatIsTyped
<1>1. ShopInit => LinesInv
  BY LinesOpen
<1>2. LinesInv /\ [ShopNext]_shopVars => LinesInv'
  BY LinesInvNext
<1>3. LinesInv => SavesWhatIsTyped
  BY LinesInvSaves
<1> QED
  BY <1>1, <1>2, <1>3, PTL DEF ShopSpec

USE RowsAssumption, PricingAssumption

-----------------------------------------------------------------------------
(***************************************************************************)
(* Orders by category (sortItemsByCategory).                               *)
(***************************************************************************)

\* An item on its line of the order, each category after the other.
ByCategory(items) ==
    \A i, j \in DOMAIN items : i <= j => PositionOf(items[i]) <= PositionOf(items[j])

\* The place of a product's category on the menu.
LEMMA PositionType ==
  ASSUME NEW item, item.product \in Products
  PROVE  PositionOf(item) \in Nat
BY DEF PositionOf

\* The places of the items, which the order takes in turn.
LEMMA PlacesInOrder ==
  ASSUME NEW n \in Nat, NEW items, DOMAIN items = 1 .. n,
         \A i \in 1 .. n : items[i].product \in Products
  PROVE  /\ \A j \in 1 .. n : PlaceOf(items, j) \in 1 .. n
         /\ \A i, j \in 1 .. n :
               i # j /\ ComesBy(items, i, j) => PlaceOf(items, i) < PlaceOf(items, j)
         /\ \A i, j \in 1 .. n : ComesBy(items, i, j) \/ ComesBy(items, j, i)
<1>1. PICK pos : pos = [i \in 1 .. n |-> PositionOf(items[i])]
  OBVIOUS
<1>2. \A i \in 1 .. n : pos[i] \in Nat /\ pos[i] = PositionOf(items[i])
  BY <1>1, PositionType
<1>3. \A i, j \in 1 .. n :
         ComesBy(items, i, j) <=> pos[i] < pos[j] \/ (pos[i] = pos[j] /\ i <= j)
  BY <1>2 DEF ComesBy
<1>4. PICK upTo : upTo = [j \in 1 .. n |-> {i \in 1 .. n : ComesBy(items, i, j)}]
  OBVIOUS
<1>5. \A j \in 1 .. n : PlaceOf(items, j) = Cardinality(upTo[j])
  BY <1>4 DEF PlaceOf
<1>6. IsFiniteSet(1 .. n) /\ Cardinality(1 .. n) = n
  <2>1. 0 \in Int /\ 1 \in Int /\ n \in Int
    OBVIOUS
  <2>2. IsFiniteSet(1 .. n) /\ Cardinality(1 .. n) = IF 1 > n THEN 0 ELSE n - 1 + 1
    BY <2>1, FS_Interval
  <2> QED
    BY <2>2
<1>7. ASSUME NEW j \in 1 .. n
      PROVE  /\ upTo[j] \in SUBSET (1 .. n) /\ j \in upTo[j] /\ IsFiniteSet(upTo[j])
             /\ Cardinality(upTo[j]) \in 1 .. n
  <2>1. upTo[j] \in SUBSET (1 .. n) /\ j \in upTo[j]
    BY <1>2, <1>3, <1>4
  <2>2. IsFiniteSet(upTo[j]) /\ Cardinality(upTo[j]) <= n
    BY <1>6, <2>1, FS_Subset
  <2>3. Cardinality(upTo[j]) \in Nat
    BY <2>2, FS_CardinalityType
  <2>4. Cardinality(upTo[j]) # 0
    BY <2>1, <2>2, FS_EmptySet
  <2> QED
    BY <2>1, <2>2, <2>3, <2>4
<1>8. ASSUME NEW i \in 1 .. n, NEW j \in 1 .. n, i # j, ComesBy(items, i, j)
      PROVE  PlaceOf(items, i) < PlaceOf(items, j)
  <2>1. upTo[i] \in SUBSET upTo[j]
    BY <1>2, <1>3, <1>4, <1>8
  <2>2. j \notin upTo[i]
    BY <1>2, <1>3, <1>4, <1>8
  <2>3. upTo[i] # upTo[j]
    BY <1>7, <2>2
  <2>4. Cardinality(upTo[i]) <= Cardinality(upTo[j])
        /\ Cardinality(upTo[i]) # Cardinality(upTo[j])
    BY <1>7, <2>1, <2>3, FS_Subset
  <2> QED
    BY <1>5, <1>7, <2>4
<1>9. \A i, j \in 1 .. n : ComesBy(items, i, j) \/ ComesBy(items, j, i)
  BY <1>2, <1>3
<1> QED
  BY <1>5, <1>7, <1>8, <1>9

\* Each item has its place: what is sorted holds each once, by category.
LEMMA SortedIsByCategory ==
  ASSUME NEW n \in Nat, NEW items, DOMAIN items = 1 .. n,
         \A i \in 1 .. n : items[i].product \in Products
  PROVE  /\ DOMAIN Sorted(items) = 1 .. n
         /\ \A k \in 1 .. n : \E j \in 1 .. n : Sorted(items)[k] = items[j]
         /\ ByCategory(Sorted(items))
<1>1. PICK place : place = [j \in 1 .. n |-> PlaceOf(items, j)]
  OBVIOUS
<1>2. /\ \A j \in 1 .. n : PlaceOf(items, j) \in 1 .. n
      /\ \A i, j \in 1 .. n :
            i # j /\ ComesBy(items, i, j) => PlaceOf(items, i) < PlaceOf(items, j)
      /\ \A i, j \in 1 .. n : ComesBy(items, i, j) \/ ComesBy(items, j, i)
  BY PlacesInOrder
<1>3. \A i, j \in 1 .. n :
         i # j => place[i] < place[j] \/ place[j] < place[i]
  BY <1>1, <1>2
<1>4. place \in [1 .. n -> 1 .. n] /\ \A i, j \in 1 .. n : place[i] = place[j] => i = j
  <2>1. \A j \in 1 .. n : place[j] \in 1 .. n
    BY <1>1, <1>2
  <2>2. place \in [1 .. n -> 1 .. n]
    BY <1>1, <2>1
  <2>3. ASSUME NEW i \in 1 .. n, NEW j \in 1 .. n, place[i] = place[j]
        PROVE  i = j
    <3>1. PICK x \in Nat : x = place[i] /\ x = place[j]
      BY <2>1, <2>3
    <3>2. i # j => place[i] < place[j] \/ place[j] < place[i]
      BY <1>3
    <3>3. ~ (x < x)
      BY <3>1
    <3> QED
      BY <3>1, <3>2, <3>3
  <2> QED
    BY <2>2, <2>3
<1>5. place \in Surjection(1 .. n, 1 .. n)
  <2>1. IsFiniteSet(1 .. n)
    BY FS_Interval
  <2>2. place \in Injection(1 .. n, 1 .. n)
    BY <1>4 DEF Injection, IsInjective
  <2> QED
    BY <2>1, <2>2, FS_Injection
<1>6. \A k \in 1 .. n : \E j \in 1 .. n : place[j] = k
  BY <1>5 DEF Surjection
<1>7. PICK from : from = [k \in 1 .. n |-> CHOOSE j \in DOMAIN items : PlaceOf(items, j) = k]
  OBVIOUS
<1>8. \A k \in 1 .. n : from[k] \in 1 .. n /\ place[from[k]] = k
  <2> SUFFICES ASSUME NEW k \in 1 .. n
               PROVE  from[k] \in 1 .. n /\ place[from[k]] = k
    OBVIOUS
  <2>1. \E j \in DOMAIN items : PlaceOf(items, j) = k
    BY <1>1, <1>6
  <2>2. from[k] \in DOMAIN items /\ PlaceOf(items, from[k]) = k
    BY <1>7, <2>1
  <2> QED
    BY <1>1, <2>2
<1>9. PICK ls : ls = Sorted(items)
  OBVIOUS
<1>10. DOMAIN ls = 1 .. n /\ \A k \in 1 .. n : ls[k] = items[from[k]]
  BY <1>7, <1>9 DEF Sorted
<1>11. ASSUME NEW k \in 1 .. n, NEW l \in 1 .. n, k <= l
       PROVE  PositionOf(ls[k]) <= PositionOf(ls[l])
  <2>1. PICK i \in 1 .. n, j \in 1 .. n : i = from[k] /\ j = from[l]
    BY <1>8
  <2>2. place[i] = k /\ place[j] = l
    BY <1>8, <2>1
  <2>3. i = j \/ ComesBy(items, i, j)
    <3>1. i # j /\ ComesBy(items, j, i) => place[j] < place[i]
      BY <1>1, <1>2
    <3> QED
      BY <1>2, <1>11, <2>2, <3>1
  <2>4. PositionOf(items[i]) \in Nat /\ PositionOf(items[j]) \in Nat
    BY PositionType
  <2>5. PositionOf(items[i]) <= PositionOf(items[j])
    BY <2>3, <2>4 DEF ComesBy
  <2> QED
    BY <1>10, <2>1, <2>5
<1>12. ByCategory(ls)
  BY <1>10, <1>11 DEF ByCategory
<1> QED
  BY <1>8, <1>9, <1>10, <1>12

\* What is by category already stays as it is.
LEMMA SortedAgain ==
  ASSUME NEW n \in Nat, NEW items, DOMAIN items = 1 .. n, ByCategory(items),
         \A i \in 1 .. n : items[i].product \in Products
  PROVE  /\ DOMAIN Sorted(items) = 1 .. n
         /\ \A k \in 1 .. n : Sorted(items)[k] = items[k]
<1>1. ASSUME NEW j \in 1 .. n
      PROVE  PlaceOf(items, j) = j
  <2>1. ASSUME NEW i \in 1 .. n
        PROVE  ComesBy(items, i, j) <=> i <= j
    <3>1. PICK x \in Nat, y \in Nat : x = PositionOf(items[i]) /\ y = PositionOf(items[j])
      BY PositionType
    <3>2. (i <= j => x <= y) /\ (j <= i => y <= x)
      BY <3>1 DEF ByCategory
    <3>3. ComesBy(items, i, j) <=> x < y \/ (x = y /\ i <= j)
      BY <3>1 DEF ComesBy
    <3> QED
      BY <3>1, <3>2, <3>3
  <2>2. {i \in DOMAIN items : ComesBy(items, i, j)} = 1 .. j
    <3>1. \A i \in 1 .. j : i \in 1 .. n /\ i <= j
      OBVIOUS
    <3>2. \A i \in 1 .. n : i <= j => i \in 1 .. j
      OBVIOUS
    <3> QED
      BY <2>1, <3>1, <3>2
  <2>3. Cardinality(1 .. j) = j
    <3>1. Cardinality(1 .. j) = IF 1 > j THEN 0 ELSE j - 1 + 1
      BY FS_Interval
    <3> QED
      BY <3>1
  <2> QED
    BY <2>2, <2>3 DEF PlaceOf
<1>2. ASSUME NEW k \in 1 .. n
      PROVE  (CHOOSE j \in DOMAIN items : PlaceOf(items, j) = k) = k
  BY <1>1
<1> QED
  BY <1>2 DEF Sorted

-----------------------------------------------------------------------------
(***************************************************************************)
(* What an order is once priced.                                           *)
(***************************************************************************)

\* A line charged: an item's own, or that of an add-on of it.
Charged == [quantity : Nat \ {0}, price : Prices, cost : Cost \cup {None}]

\* An item charged, its add-ons counted for each of its units.
GoodItem ==
    {item \in [product : Products, quantity : Nat \ {0}, price : Prices,
               cost : Cost \cup {None}, removed : SUBSET Ingredients,
               addons : UNION {[chosen -> Charged] : chosen \in SUBSET Products}] :
        \A a \in DOMAIN item.addons :
            \E k \in Nat \ {0} : item.addons[a].quantity = item.quantity * k}

\* One price for a product, wherever it is in the order.
PricedAs(items, price) ==
    \A i \in DOMAIN items :
        /\ items[i].price = price[items[i].product]
        /\ \A a \in DOMAIN items[i].addons : items[i].addons[a].price = price[a]

\* One cost for a product with the same ingredients out.
CostedAs(items, cost) ==
    \A i \in DOMAIN items : items[i].cost = cost[<<items[i].product, items[i].removed>>]

PricedOrders ==
    {items \in Seq(GoodItem) :
        /\ \E price : PricedAs(items, price)
        /\ \E cost : CostedAs(items, cost)
        /\ ByCategory(items)}

\* What it is made of is on the menu's tables.
OnTables(items) == \A i \in DOMAIN items : UsedBy(items[i]) \subseteq Listed

\* A priced item, field by field.
LEMMA GoodItemFields ==
  ASSUME NEW item \in GoodItem
  PROVE  /\ item.product \in Products /\ item.quantity \in Nat \ {0}
         /\ item.price \in Prices /\ item.cost \in Cost \cup {None}
         /\ item.removed \in SUBSET Ingredients
         /\ DOMAIN item.addons \in SUBSET Products
         /\ \A a \in DOMAIN item.addons :
               /\ item.addons[a] \in Charged
               /\ item.addons[a].quantity \in Nat \ {0}
               /\ item.addons[a].price \in Prices
               /\ item.addons[a].cost \in Cost \cup {None}
               /\ \E k \in Nat \ {0} : item.addons[a].quantity = item.quantity * k
<1>1. item \in [product : Products, quantity : Nat \ {0}, price : Prices,
               cost : Cost \cup {None}, removed : SUBSET Ingredients,
               addons : UNION {[chosen -> Charged] : chosen \in SUBSET Products}]
  BY DEF GoodItem
<1>2. PICK chosen \in SUBSET Products : item.addons \in [chosen -> Charged]
  BY <1>1
<1>3. DOMAIN item.addons = chosen /\ \A a \in chosen : item.addons[a] \in Charged
  BY <1>2
<1> QED
  BY <1>1, <1>3 DEF GoodItem, Charged

\* The items of a priced order, each on its place.
LEMMA PricedOrderPlaces ==
  ASSUME NEW items \in PricedOrders
  PROVE  /\ Len(items) \in Nat /\ DOMAIN items = 1 .. Len(items)
         /\ \A i \in DOMAIN items : items[i] \in GoodItem
         /\ ByCategory(items)
BY LenProperties, ElementOfSeq DEF PricedOrders

\* A priced order has its type.
LEMMA PricedOrderTyped ==
  ASSUME NEW items \in PricedOrders
  PROVE  ItemsTyped(items)
<1> SUFFICES ASSUME NEW i \in DOMAIN items
             PROVE  /\ items[i].product \in Products
                    /\ items[i].removed \subseteq Ingredients
                    /\ LineTyped(items[i])
                    /\ \A a \in DOMAIN items[i].addons :
                          a \in Products /\ LineTyped(items[i].addons[a])
  BY DEF ItemsTyped
<1>1. items[i] \in GoodItem
  BY PricedOrderPlaces
<1> QED
  BY <1>1, GoodItemFields DEF LineTyped

\* keptLines: the line kept is charged what every line of the product is.
LEMMA KeptPrice ==
  ASSUME NEW before \in PricedOrders, NEW p, Keeps(before, p),
         NEW price, PricedAs(before, price)
  PROVE  /\ KeptLine(before, p).price = price[p]
         /\ KeptLine(before, p).price \in Prices
         /\ KeptLine(before, p).cost \in Cost \cup {None}
<1>1. PICK n \in Nat : DOMAIN before = 1 .. n
  BY PricedOrderPlaces
<1>2. PICK T : T = {i \in DOMAIN before : Has(before[i], p)}
  OBVIOUS
<1>3. T \in SUBSET Nat /\ T # {}
  BY <1>1, <1>2 DEF Keeps
<1>4. PICK m : m = Min(T)
  OBVIOUS
<1>5. m \in T
  <2>1. \E x \in T : \A y \in T : x <= y
    BY <1>3, LeastNumber
  <2> QED
    BY <1>4, <2>1 DEF Min
<1>6. PICK entry : entry = before[m]
  OBVIOUS
<1>7. m \in DOMAIN before /\ entry \in GoodItem /\ Has(entry, p)
  BY <1>2, <1>5, <1>6, PricedOrderPlaces
<1>8. KeptLine(before, p) = IF entry.product = p
                            THEN [price |-> entry.price, cost |-> entry.cost]
                            ELSE [price |-> entry.addons[p].price,
                                  cost |-> entry.addons[p].cost]
  BY <1>2, <1>4, <1>6 DEF KeptLine
<1>9. CASE entry.product = p
  <2>1. entry.price = price[p]
    BY <1>6, <1>7, <1>9 DEF PricedAs
  <2> QED
    BY <1>7, <1>8, <1>9, <2>1, GoodItemFields
<1>10. CASE entry.product # p
  <2>1. p \in DOMAIN entry.addons
    BY <1>7, <1>10 DEF Has
  <2>2. entry.addons[p].price = price[p]
    BY <1>6, <1>7, <2>1 DEF PricedAs
  <2> QED
    BY <1>7, <1>8, <1>10, <2>1, <2>2, GoodItemFields
<1> QED
  BY <1>9, <1>10

\* keptCosts: the cost kept is that of every item made the same way.
LEMMA KeptCost ==
  ASSUME NEW before \in PricedOrders, NEW item, SameRecipe(before, item) # {},
         NEW cost, CostedAs(before, cost)
  PROVE  /\ ItemCost(item, before) = cost[<<item.product, item.removed>>]
         /\ ItemCost(item, before) \in Cost \cup {None}
<1>1. PICK n \in Nat : DOMAIN before = 1 .. n
  BY PricedOrderPlaces
<1>2. PICK T : T = SameRecipe(before, item)
  OBVIOUS
<1>3. T \in SUBSET Nat /\ T # {}
  <2>1. SameRecipe(before, item) \subseteq DOMAIN before
    BY Zenon DEF SameRecipe
  <2>2. 1 .. n \subseteq Nat
    OBVIOUS
  <2>3. T \subseteq Nat
    BY <1>1, <1>2, <2>1, <2>2, Zenon
  <2> QED
    BY <1>2, <2>3, Zenon
<1>4. PICK m : m = Min(T)
  OBVIOUS
<1>5. m \in T
  <2>1. \E x \in T : \A y \in T : x <= y
    BY <1>3, LeastNumber
  <2> QED
    BY <1>4, <2>1 DEF Min
<1>6. PICK entry : entry = before[m]
  OBVIOUS
<1>7. /\ m \in DOMAIN before /\ entry \in GoodItem
      /\ entry.product = item.product /\ entry.removed = item.removed
  BY <1>2, <1>5, <1>6, PricedOrderPlaces DEF SameRecipe
<1>8. ItemCost(item, before) = entry.cost
  BY <1>2, <1>4, <1>6 DEF ItemCost
<1>9. entry.cost = cost[<<item.product, item.removed>>]
  BY <1>6, <1>7 DEF CostedAs
<1> QED
  BY <1>7, <1>8, <1>9, GoodItemFields

\* A combo's items are products on the tables.
BundlesThere == \A p \in Listed : products[p].bundle \subseteq Listed

\* computeCmv: what a product is made of costs an amount, if it is known.
LEMMA LineCostType ==
  ASSUME MenuTypeOK, BundlesThere, NEW p \in Listed, NEW removed
  PROVE  LineCost(p, removed) \in Cost \cup {None}
<1>1. PICK parts : parts = Components(p)
  OBVIOUS
<1>2. parts \subseteq Products \X Ingredients
  <2>1. \A q \in Listed : q \in Products /\ products[q].uses \in SUBSET Ingredients
    BY ProductFields
  <2>2. \A i \in products[p].bundle : i \in Listed
    BY DEF BundlesThere
  <2> QED
    BY <1>1, <2>1, <2>2 DEF Components
<1>3. PICK costed : costed = {c \in {x \in parts : x[2] \notin removed} : costs[c[2]] # None}
  OBVIOUS
<1>4. costed \in SUBSET (Products \X Ingredients)
  BY <1>2, <1>3
<1>5. IsFiniteSet(costed)
  <2>1. IsFiniteSet(Products \X Ingredients)
    BY FS_Product
  <2> QED
    BY <1>4, <2>1, FS_Subset
<1>6. PICK w : w = [c \in costed |-> costs[c[2]]]
  OBVIOUS
<1>7. \A c \in costed : w[c] \in Nat
  <2>1. \A u \in Ingredients : costs[u] \in Costs \cup {None}
    BY DEF MenuTypeOK
  <2>2. \A c \in costed : c[2] \in Ingredients /\ costs[c[2]] # None
    BY <1>3, <1>4
  <2> QED
    BY <1>6, <2>1, <2>2
<1>8. SumOf(w, costed) \in Nat
  BY <1>5, <1>7, SumOfNat
<1>9. PICK left : left = {c \in parts : c[2] \notin removed}
  OBVIOUS
<1>10. LineCost(p, removed) = IF parts = {} THEN None
                              ELSE [cmv |-> SumOf(w, costed), complete |-> left = costed]
  BY <1>1, <1>3, <1>6, <1>9 DEF LineCost
<1>11. (left = costed) \in BOOLEAN
  OBVIOUS
<1> QED
  BY <1>8, <1>10, <1>11 DEF Cost

\* priceOnDate: a price of the history or of the product.
LEMMA PriceOnType ==
  ASSUME MenuTypeOK, NEW p \in Listed, NEW night
  PROVE  PriceOn(p, night) \in Prices \cup {None}
<1>1. PICK F : F = FirstRows(p, night)
  OBVIOUS
<1>2. CASE F = {}
  BY <1>1, <1>2, ProductFields DEF PriceOn
<1>3. CASE F # {}
  <2>1. PICK r : r = CHOOSE x \in F : TRUE
    OBVIOUS
  <2>2. r \in F
    BY <1>3, <2>1
  <2>3. r \in PriceRow
    BY <1>1, <2>2 DEF FirstRows, RowsFrom, MenuTypeOK
  <2>4. PriceOn(p, night) = r.price
    BY <1>1, <1>3, <2>1 DEF PriceOn
  <2> QED
    BY <2>3, <2>4 DEF PriceRow
<1> QED
  BY <1>2, <1>3

-----------------------------------------------------------------------------
(***************************************************************************)
(* Pricing an order.                                                       *)
(***************************************************************************)

\* An item as sent, and what it became.
PricedFrom(item, charged, night, before) ==
    /\ charged = [product |-> item.product, quantity |-> item.quantity,
                  price |-> charged.price, cost |-> charged.cost,
                  removed |-> item.removed, addons |-> charged.addons]
    /\ charged.product = item.product /\ charged.quantity = item.quantity
    /\ charged.removed = item.removed
    /\ charged.price = PricedLine(item.product, night, before).price
    /\ charged.cost = ItemCost(item, before)
    /\ DOMAIN charged.addons = DOMAIN item.addons
    /\ charged.addons = [a \in DOMAIN item.addons |-> charged.addons[a]]
    /\ \A a \in DOMAIN item.addons :
          charged.addons[a] = [quantity |-> item.quantity * item.addons[a],
                               price |-> PricedLine(a, night, before).price,
                               cost |-> PricedLine(a, night, before).cost]

\* priceOrderEntries, place by place.
LEMMA PricedPlaces ==
  ASSUME NEW items, NEW night, NEW before, NEW ls, ls = Sorted(items),
         NEW ps, ps = Priced(items, night, before)
  PROVE  /\ DOMAIN ps = DOMAIN ls
         /\ ps = [i \in DOMAIN ls |-> ps[i]]
         /\ \A i \in DOMAIN ls : PricedFrom(ls[i], ps[i], night, before)
BY DEF Priced, PricedFrom

\* An item as sent, field by field.
LEMMA ItemFields ==
  ASSUME NEW item \in Item
  PROVE  /\ item.product \in Products /\ item.quantity \in Nat \ {0}
         /\ item.removed \in SUBSET Ingredients
         /\ DOMAIN item.addons \in SUBSET Products
         /\ \A a \in DOMAIN item.addons : item.addons[a] \in Nat \ {0}
<1>1. PICK chosen \in SUBSET Products : item.addons \in [chosen -> Quantities]
  BY DEF Item
<1>2. DOMAIN item.addons = chosen /\ \A a \in chosen : item.addons[a] \in Quantities
  BY <1>1
<1>3. Quantities \subseteq Nat \ {0}
  BY DEF Quantities
<1> QED
  BY <1>2, <1>3 DEF Item

\* priceLine: what was in the order keeps its price, and the rest has one.
LEMMA PricedLineType ==
  ASSUME MenuTypeOK, BundlesThere, NEW before \in PricedOrders, NEW night,
         NEW p \in Listed, Keeps(before, p) \/ MayBeSold(p, night)
  PROVE  /\ PricedLine(p, night, before).price \in Prices
         /\ PricedLine(p, night, before).cost \in Cost \cup {None}
<1>1. CASE Keeps(before, p)
  <2>1. PICK price : PricedAs(before, price)
    BY DEF PricedOrders
  <2> QED
    BY <1>1, <2>1, KeptPrice DEF PricedLine
<1>2. CASE ~Keeps(before, p)
  <2>1. PricedLine(p, night, before) = [price |-> PriceOn(p, night), cost |-> LineCost(p, {})]
    BY <1>2 DEF PricedLine
  <2>2. PriceOn(p, night) \in Prices
    BY <1>2, PriceOnType DEF MayBeSold
  <2> QED
    BY <2>1, <2>2, LineCostType
<1> QED
  BY <1>1, <1>2

\* What an item costs the house.
LEMMA ItemCostType ==
  ASSUME MenuTypeOK, BundlesThere, NEW before \in PricedOrders,
         NEW item, item.product \in Listed
  PROVE  ItemCost(item, before) \in Cost \cup {None}
<1>1. CASE SameRecipe(before, item) # {}
  <2>1. PICK cost : CostedAs(before, cost)
    BY DEF PricedOrders
  <2> QED
    BY <1>1, <2>1, KeptCost
<1>2. CASE SameRecipe(before, item) = {}
  BY <1>2, LineCostType DEF ItemCost
<1> QED
  BY <1>1, <1>2

\* priceItemsForDay: what is accepted comes out with one price for each product,
\* one cost for each way it is made, by category, and of products on the tables.
LEMMA PricedIsOrder ==
  ASSUME MenuTypeOK, BundlesThere, NEW items \in Baskets, NEW night,
         NEW before \in PricedOrders, Accepts(items, night, before)
  PROVE  /\ Priced(items, night, before) \in PricedOrders
         /\ OnTables(Priced(items, night, before))
<1>1. PICK n \in Nat : n = Len(items)
  BY LenProperties
<1>2. DOMAIN items = 1 .. n /\ \A i \in 1 .. n : items[i] \in Item
  <2>1. items \in Seq(Item)
    OBVIOUS
  <2> QED
    BY <1>1, <2>1, LenProperties, ElementOfSeq
<1>3. PICK ls : ls = Sorted(items)
  OBVIOUS
<1>4. /\ DOMAIN ls = 1 .. n
      /\ \A k \in 1 .. n : \E j \in 1 .. n : ls[k] = items[j]
      /\ ByCategory(ls)
  BY <1>2, <1>3, ItemFields, SortedIsByCategory
<1>5. \A k \in 1 .. n : /\ ls[k] \in Item /\ UsedBy(ls[k]) \subseteq Listed
                        /\ \A p \in UsedBy(ls[k]) : Keeps(before, p) \/ MayBeSold(p, night)
  BY <1>2, <1>4 DEF Accepts
<1>6. PICK ps : ps = Priced(items, night, before)
  OBVIOUS
<1>7. DOMAIN ps = 1 .. n /\ ps = [i \in 1 .. n |-> ps[i]]
  BY <1>3, <1>4, <1>6, PricedPlaces
<1>8. \A i \in 1 .. n : PricedFrom(ls[i], ps[i], night, before)
  BY <1>3, <1>4, <1>6, PricedPlaces
<1>9. ASSUME NEW i \in 1 .. n
      PROVE  ps[i] \in GoodItem
  <2>1. PICK l : l = ls[i]
    OBVIOUS
  <2>2. /\ l \in Item /\ l.product \in Products /\ l.quantity \in Nat \ {0}
        /\ l.removed \in SUBSET Ingredients /\ DOMAIN l.addons \in SUBSET Products
        /\ \A a \in DOMAIN l.addons : l.addons[a] \in Nat \ {0}
    BY <1>5, <2>1, ItemFields
  <2>3. l.product \in Listed /\ \A a \in DOMAIN l.addons : a \in Listed
    BY <1>5, <2>1 DEF UsedBy
  <2>4. ps[i].price \in Prices /\ ps[i].cost \in Cost \cup {None}
    <3>1. l.product \in UsedBy(l)
      BY DEF UsedBy
    <3>2. Keeps(before, l.product) \/ MayBeSold(l.product, night)
      BY <1>5, <2>1, <3>1
    <3>3. PricedLine(l.product, night, before).price \in Prices
      BY <2>3, <3>2, PricedLineType
    <3>4. ItemCost(l, before) \in Cost \cup {None}
      BY <2>3, ItemCostType
    <3> QED
      BY <1>8, <2>1, <3>3, <3>4 DEF PricedFrom
  <2>5. ASSUME NEW a \in DOMAIN l.addons
        PROVE  /\ ps[i].addons[a] \in Charged
               /\ ps[i].addons[a].quantity = l.quantity * l.addons[a]
    <3>1. a \in UsedBy(l)
      BY DEF UsedBy
    <3>2. Keeps(before, a) \/ MayBeSold(a, night)
      BY <1>5, <2>1, <3>1
    <3>3. PICK x : x = PricedLine(a, night, before)
      OBVIOUS
    <3>4. x.price \in Prices /\ x.cost \in Cost \cup {None}
      BY <2>3, <3>2, <3>3, PricedLineType
    <3>5. PICK q \in Nat \ {0}, k \in Nat \ {0} : q = l.quantity /\ k = l.addons[a]
      BY <2>2
    <3>6. PICK y \in Nat \ {0} : y = q * k
      OBVIOUS
    <3>7. ps[i].addons[a] = [quantity |-> y, price |-> x.price, cost |-> x.cost]
      BY <1>8, <2>1, <3>3, <3>5, <3>6 DEF PricedFrom
    <3> QED
      BY <3>4, <3>5, <3>6, <3>7 DEF Charged
  <2>6. ps[i].addons \in [DOMAIN l.addons -> Charged]
    BY <1>8, <2>1, <2>5 DEF PricedFrom
  <2>7. ps[i] = [product |-> l.product, quantity |-> l.quantity,
                 price |-> ps[i].price, cost |-> ps[i].cost,
                 removed |-> l.removed, addons |-> ps[i].addons]
    BY <1>8, <2>1 DEF PricedFrom
  <2>8. ps[i] \in [product : Products, quantity : Nat \ {0}, price : Prices,
                   cost : Cost \cup {None}, removed : SUBSET Ingredients,
                   addons : UNION {[chosen -> Charged] : chosen \in SUBSET Products}]
    <3>1. PICK adds : adds = ps[i].addons
      OBVIOUS
    <3>2. adds \in UNION {[chosen -> Charged] : chosen \in SUBSET Products}
      BY <2>2, <2>6, <3>1
    <3> QED
      BY <2>2, <2>4, <2>7, <3>1, <3>2
  <2>9. \A a \in DOMAIN ps[i].addons :
           \E k \in Nat \ {0} : ps[i].addons[a].quantity = ps[i].quantity * k
    <3>1. DOMAIN ps[i].addons = DOMAIN l.addons /\ ps[i].quantity = l.quantity
      BY <1>8, <2>1 DEF PricedFrom
    <3>2. ASSUME NEW a \in DOMAIN l.addons
          PROVE  \E k \in Nat \ {0} : ps[i].addons[a].quantity = ps[i].quantity * k
      <4>1. PICK k \in Nat \ {0} : k = l.addons[a]
        BY <2>2
      <4> QED
        BY <2>5, <3>1, <4>1
    <3> QED
      BY <3>1, <3>2
  <2> QED
    BY <2>8, <2>9 DEF GoodItem
<1>10. ps \in Seq(GoodItem)
  <2>1. ps \in [1 .. n -> GoodItem]
    BY <1>7, <1>9
  <2> QED
    BY <2>1
<1>11. \E price : PricedAs(ps, price)
  <2>1. PICK price : price = [p \in Products |-> PricedLine(p, night, before).price]
    OBVIOUS
  <2>2. ASSUME NEW i \in 1 .. n
        PROVE  /\ ps[i].price = price[ps[i].product]
               /\ \A a \in DOMAIN ps[i].addons : ps[i].addons[a].price = price[a]
    <3>1. ls[i].product \in Products /\ \A a \in DOMAIN ls[i].addons : a \in Products
      BY <1>5, ItemFields
    <3>2. ps[i].price = price[ps[i].product]
      BY <1>8, <2>1, <3>1 DEF PricedFrom
    <3>3. ASSUME NEW a \in DOMAIN ls[i].addons
          PROVE  ps[i].addons[a].price = price[a]
      <4>1. PICK q, x : q = ls[i].quantity * ls[i].addons[a] /\ x = PricedLine(a, night, before)
        OBVIOUS
      <4>2. PricedFrom(ls[i], ps[i], night, before)
        BY <1>8
      <4>3. ps[i].addons[a] = [quantity |-> q, price |-> x.price, cost |-> x.cost]
        BY <4>1, <4>2 DEF PricedFrom
      <4>4. ps[i].addons[a].price = PricedLine(a, night, before).price
        BY <4>1, <4>3
      <4> QED
        BY <2>1, <3>1, <4>4
    <3>4. DOMAIN ps[i].addons = DOMAIN ls[i].addons
      BY <1>8 DEF PricedFrom
    <3> QED
      BY <3>2, <3>3, <3>4
  <2>3. PricedAs(ps, price)
    BY <1>7, <2>2 DEF PricedAs
  <2> QED
    BY <2>3
<1>12. \E cost : CostedAs(ps, cost)
  <2>1. PICK cost : cost = [r \in Products \X SUBSET Ingredients |->
                             ItemCost([product |-> r[1], removed |-> r[2]], before)]
    OBVIOUS
  <2>2. \A l, m : l.product = m.product /\ l.removed = m.removed
                  => ItemCost(l, before) = ItemCost(m, before)
    BY DEF ItemCost, SameRecipe
  <2>3. ASSUME NEW i \in 1 .. n
        PROVE  ps[i].cost = cost[<<ps[i].product, ps[i].removed>>]
    <3>1. ls[i].product \in Products /\ ls[i].removed \in SUBSET Ingredients
      BY <1>5, ItemFields
    <3>2. PICK m : m = [product |-> ls[i].product, removed |-> ls[i].removed]
      OBVIOUS
    <3>3. cost[<<ls[i].product, ls[i].removed>>] = ItemCost(m, before)
      BY <2>1, <3>1, <3>2
    <3>4. ItemCost(m, before) = ItemCost(ls[i], before)
      BY <2>2, <3>2
    <3> QED
      BY <1>8, <3>3, <3>4 DEF PricedFrom
  <2>4. CostedAs(ps, cost)
    BY <1>7, <2>3 DEF CostedAs
  <2> QED
    BY <2>4
<1>13. ByCategory(ps)
  BY <1>4, <1>7, <1>8 DEF ByCategory, PositionOf, PricedFrom
<1>14. OnTables(ps)
  BY <1>5, <1>7, <1>8 DEF OnTables, UsedBy, PricedFrom
<1> QED
  BY <1>6, <1>10, <1>11, <1>12, <1>13, <1>14 DEF PricedOrders

-----------------------------------------------------------------------------
(***************************************************************************)
(* A saved order saved again.                                              *)
(***************************************************************************)

\* parseOrderItem after priceOrderEntries: a total told by the unit is what it was.
LEMMA TotalByUnit ==
  ASSUME NEW q \in Nat \ {0}, NEW k \in Nat
  PROVE  (q * k) \div q = k
<1>1. PICK c \in Nat : c = q * k
  OBVIOUS
<1>2. PICK d, r \in Int : d = c \div q /\ r = c % q
  OBVIOUS
<1>3. c = d * q + r /\ 0 <= r /\ r < q /\ d \in Int
  BY <1>2
<1>4. CASE d < k
  <2>1. PICK j \in Nat : k = d + 1 + j
    BY <1>3, <1>4
  <2>2. q * k = d * q + q + j * q /\ j * q >= 0
    BY <1>3, <2>1
  <2> QED
    BY <1>1, <1>3, <2>2
<1>5. CASE d > k
  <2>1. PICK j \in Nat : d = k + 1 + j
    BY <1>3, <1>5
  <2>2. d * q = q * k + q + j * q /\ j * q >= 0
    BY <1>3, <2>1
  <2> QED
    BY <1>1, <1>3, <2>2
<1>6. CASE d = k
  BY <1>1, <1>2, <1>6
<1>7. d < k \/ d > k \/ d = k
  BY <1>3
<1> QED
  BY <1>4, <1>5, <1>6, <1>7

\* The order as sent again, place by place.
LEMMA SentPlaces ==
  ASSUME NEW items \in PricedOrders, NEW asIs, asIs = AsSent(items)
  PROVE  /\ DOMAIN asIs = DOMAIN items
         /\ \A i \in DOMAIN items :
               /\ asIs[i].product = items[i].product /\ asIs[i].quantity = items[i].quantity
               /\ asIs[i].removed = items[i].removed
               /\ DOMAIN asIs[i].addons = DOMAIN items[i].addons
               /\ UsedBy(asIs[i]) = UsedBy(items[i])
               /\ \A a \in DOMAIN items[i].addons :
                     asIs[i].quantity * asIs[i].addons[a] = items[i].addons[a].quantity
<1>1. DOMAIN asIs = DOMAIN items
  BY DEF AsSent
<1>2. ASSUME NEW i \in DOMAIN items
      PROVE  /\ asIs[i].product = items[i].product /\ asIs[i].quantity = items[i].quantity
             /\ asIs[i].removed = items[i].removed
             /\ DOMAIN asIs[i].addons = DOMAIN items[i].addons
             /\ \A a \in DOMAIN items[i].addons :
                   asIs[i].addons[a] = items[i].addons[a].quantity \div items[i].quantity
  BY DEF AsSent
<1>3. ASSUME NEW i \in DOMAIN items, NEW a \in DOMAIN items[i].addons
      PROVE  asIs[i].quantity * asIs[i].addons[a] = items[i].addons[a].quantity
  <2>1. items[i] \in GoodItem
    BY PricedOrderPlaces
  <2>2. PICK q \in Nat \ {0} : q = items[i].quantity
    BY <2>1, GoodItemFields
  <2>3. PICK k \in Nat \ {0} : items[i].addons[a].quantity = q * k
    BY <2>1, <2>2, GoodItemFields
  <2>4. asIs[i].addons[a] = (q * k) \div q
    BY <1>2, <2>2, <2>3
  <2>5. asIs[i].addons[a] = k
    BY <2>4, TotalByUnit
  <2> QED
    BY <1>2, <2>2, <2>3, <2>5
<1>4. \A i \in DOMAIN items : UsedBy(asIs[i]) = UsedBy(items[i])
  BY <1>2 DEF UsedBy
<1> QED
  BY <1>1, <1>2, <1>3, <1>4

\* priceItemsForDay takes it: all of it was in the order.
LEMMA SentIsAccepted ==
  ASSUME NEW items \in PricedOrders, OnTables(items), NEW night
  PROVE  Accepts(AsSent(items), night, items)
<1>1. PICK asIs : asIs = AsSent(items)
  OBVIOUS
<1>2. /\ DOMAIN asIs = DOMAIN items
      /\ \A i \in DOMAIN items :
            /\ asIs[i].product = items[i].product /\ asIs[i].removed = items[i].removed
            /\ DOMAIN asIs[i].addons = DOMAIN items[i].addons
            /\ UsedBy(asIs[i]) = UsedBy(items[i])
  BY <1>1, SentPlaces
<1>3. \A i \in DOMAIN asIs : UsedBy(asIs[i]) \subseteq Listed
  BY <1>2 DEF OnTables
<1>4. AddonsAllowed(asIs, items)
  BY <1>2 DEF AddonsAllowed, AddonKept
<1>5. RemovalsAllowed(asIs, items)
  BY <1>2 DEF RemovalsAllowed, RemovalKept
<1>6. \A i \in DOMAIN asIs : \A p \in UsedBy(asIs[i]) : Keeps(items, p)
  BY <1>2 DEF Keeps, Has, UsedBy
<1> QED
  BY <1>1, <1>3, <1>4, <1>5, <1>6 DEF Accepts

\* priceLine and priceOrderEntries give it the same lines.
LEMMA SentIsPriced ==
  ASSUME NEW items \in PricedOrders, NEW night,
         NEW again, again = Priced(AsSent(items), night, items)
  PROVE  /\ DOMAIN again = DOMAIN items
         /\ Len(again) = Len(items)
         /\ \A i \in DOMAIN items :
               /\ again[i].quantity = items[i].quantity
               /\ again[i].price = items[i].price
               /\ again[i].cost = items[i].cost
               /\ DOMAIN again[i].addons = DOMAIN items[i].addons
               /\ \A a \in DOMAIN items[i].addons :
                     /\ again[i].addons[a].quantity = items[i].addons[a].quantity
                     /\ again[i].addons[a].price = items[i].addons[a].price
<1>1. PICK n \in Nat : n = Len(items)
  BY PricedOrderPlaces
<1>2. DOMAIN items = 1 .. n /\ \A i \in 1 .. n : items[i] \in GoodItem
  BY <1>1, PricedOrderPlaces
<1>3. PICK asIs : asIs = AsSent(items)
  OBVIOUS
<1>4. /\ DOMAIN asIs = 1 .. n
      /\ \A i \in 1 .. n :
            /\ asIs[i].product = items[i].product /\ asIs[i].quantity = items[i].quantity
            /\ asIs[i].removed = items[i].removed
            /\ DOMAIN asIs[i].addons = DOMAIN items[i].addons
            /\ \A a \in DOMAIN items[i].addons :
                  asIs[i].quantity * asIs[i].addons[a] = items[i].addons[a].quantity
  BY <1>2, <1>3, SentPlaces
<1>5. ByCategory(asIs)
  BY <1>2, <1>4, PricedOrderPlaces DEF ByCategory, PositionOf
<1>6. PICK ls : ls = Sorted(asIs)
  OBVIOUS
<1>7. DOMAIN ls = 1 .. n /\ \A i \in 1 .. n : ls[i] = asIs[i]
  BY <1>2, <1>4, <1>5, <1>6, GoodItemFields, SortedAgain
<1>8. /\ DOMAIN again = 1 .. n /\ again = [i \in 1 .. n |-> again[i]]
      /\ \A i \in 1 .. n : PricedFrom(asIs[i], again[i], night, items)
  BY <1>3, <1>6, <1>7, PricedPlaces
<1>9. Len(again) = n
  BY <1>8
<1>10. PICK price : PricedAs(items, price)
  BY DEF PricedOrders
<1>11. PICK cost : CostedAs(items, cost)
  BY DEF PricedOrders
<1>12. ASSUME NEW p, Keeps(items, p)
       PROVE  PricedLine(p, night, items).price = price[p]
  BY <1>10, <1>12, KeptPrice DEF PricedLine
<1>13. ASSUME NEW i \in 1 .. n
       PROVE  /\ again[i].quantity = items[i].quantity
              /\ again[i].price = items[i].price
              /\ again[i].cost = items[i].cost
              /\ DOMAIN again[i].addons = DOMAIN items[i].addons
  <2>1. PricedFrom(asIs[i], again[i], night, items)
    BY <1>8
  <2>2. again[i].price = items[i].price
    <3>1. Keeps(items, items[i].product)
      BY <1>2 DEF Keeps, Has
    <3>2. again[i].price = price[items[i].product]
      BY <1>4, <1>12, <2>1, <3>1 DEF PricedFrom
    <3> QED
      BY <1>2, <1>10, <3>2 DEF PricedAs
  <2>3. again[i].cost = items[i].cost
    <3>1. SameRecipe(items, asIs[i]) # {}
      BY <1>2, <1>4 DEF SameRecipe
    <3>2. ItemCost(asIs[i], items) = cost[<<asIs[i].product, asIs[i].removed>>]
      BY <1>11, <3>1, KeptCost
    <3>3. items[i].cost = cost[<<asIs[i].product, asIs[i].removed>>]
      BY <1>2, <1>4, <1>11 DEF CostedAs
    <3> QED
      BY <2>1, <3>2, <3>3 DEF PricedFrom
  <2> QED
    BY <1>4, <2>1, <2>2, <2>3 DEF PricedFrom
<1>14. ASSUME NEW i \in 1 .. n, NEW a \in DOMAIN items[i].addons
       PROVE  /\ again[i].addons[a].quantity = items[i].addons[a].quantity
              /\ again[i].addons[a].price = items[i].addons[a].price
  <2>1. PricedFrom(asIs[i], again[i], night, items) /\ a \in DOMAIN asIs[i].addons
    BY <1>4, <1>8
  <2>2. PICK q, x : q = asIs[i].quantity * asIs[i].addons[a]
                    /\ x = PricedLine(a, night, items)
    OBVIOUS
  <2>3. again[i].addons[a] = [quantity |-> q, price |-> x.price, cost |-> x.cost]
    BY <2>1, <2>2 DEF PricedFrom
  <2>4. q = items[i].addons[a].quantity
    BY <1>4, <2>2
  <2>5. Keeps(items, a)
    BY <1>2 DEF Keeps, Has
  <2>6. x.price = price[a]
    BY <1>12, <2>2, <2>5
  <2>7. items[i].addons[a].price = price[a]
    BY <1>2, <1>10 DEF PricedAs
  <2> QED
    BY <2>3, <2>4, <2>6, <2>7
<1> QED
  BY <1>1, <1>2, <1>8, <1>9, <1>13, <1>14

\* orderAmount over lines charged the same is the same.
LEMMA SameAmount ==
  ASSUME NEW items \in PricedOrders, NEW again,
         DOMAIN again = DOMAIN items,
         \A i \in DOMAIN items :
            /\ again[i].quantity = items[i].quantity
            /\ again[i].price = items[i].price
            /\ DOMAIN again[i].addons = DOMAIN items[i].addons
            /\ \A a \in DOMAIN items[i].addons :
                  /\ again[i].addons[a].quantity = items[i].addons[a].quantity
                  /\ again[i].addons[a].price = items[i].addons[a].price
  PROVE  AmountOf(again) = AmountOf(items)
<1>1. PICK D : D = DOMAIN items
  OBVIOUS
<1>2. IsFiniteSet(D)
  BY <1>1, PricedOrderPlaces, FS_Interval
<1>3. ASSUME NEW i \in D
      PROVE  LineAmount(again[i]) + AddonsAmount(again[i])
                = LineAmount(items[i]) + AddonsAmount(items[i])
  <2>1. PICK A : A = DOMAIN items[i].addons
    OBVIOUS
  <2>2. IsFiniteSet(A)
    <3>1. A \in SUBSET Products
      BY <1>1, <2>1, PricedOrderPlaces, GoodItemFields
    <3> QED
      BY <3>1, FS_Subset
  <2>3. PICK w : w = [a \in A |-> LineAmount(items[i].addons[a])]
    OBVIOUS
  <2>4. PICK v : v = [a \in A |-> LineAmount(again[i].addons[a])]
    OBVIOUS
  <2>5. \A a \in A : v[a] = w[a]
    BY <1>1, <2>1, <2>3, <2>4 DEF LineAmount
  <2>6. SumOf(v, A) = SumOf(w, A)
    BY <2>2, <2>5, SumOfSame
  <2>7. AddonsAmount(items[i]) = SumOf(w, A) /\ AddonsAmount(again[i]) = SumOf(v, A)
    BY <1>1, <2>1, <2>3, <2>4 DEF AddonsAmount
  <2>8. LineAmount(again[i]) = LineAmount(items[i])
    BY <1>1 DEF LineAmount
  <2> QED
    BY <2>6, <2>7, <2>8
<1>4. PICK w : w = [i \in D |-> LineAmount(items[i]) + AddonsAmount(items[i])]
  OBVIOUS
<1>5. PICK v : v = [i \in D |-> LineAmount(again[i]) + AddonsAmount(again[i])]
  OBVIOUS
<1>6. \A i \in D : v[i] = w[i]
  BY <1>3, <1>4, <1>5
<1>7. SumOf(v, D) = SumOf(w, D)
  BY <1>2, <1>6, SumOfSame
<1>8. AmountOf(items) = SumOf(w, D) /\ AmountOf(again) = SumOf(v, D)
  BY <1>1, <1>4, <1>5 DEF AmountOf
<1> QED
  BY <1>7, <1>8

\* A priced order on the tables can be saved again and is charged the same.
LEMMA OrderStands ==
  ASSUME bill.items \in PricedOrders, OnTables(bill.items)
  PROVE  SavedOrderStands
<1>1. PICK again : again = Priced(AsSent(bill.items), bill.night, bill.items)
  OBVIOUS
<1>2. Accepts(AsSent(bill.items), bill.night, bill.items)
  BY SentIsAccepted
<1>3. PICK items \in PricedOrders : items = bill.items
  OBVIOUS
<1>4. /\ DOMAIN again = DOMAIN items
      /\ Len(again) = Len(items)
      /\ \A i \in DOMAIN items :
            /\ again[i].quantity = items[i].quantity
            /\ again[i].price = items[i].price
            /\ again[i].cost = items[i].cost
            /\ DOMAIN again[i].addons = DOMAIN items[i].addons
            /\ \A a \in DOMAIN items[i].addons :
                  /\ again[i].addons[a].quantity = items[i].addons[a].quantity
                  /\ again[i].addons[a].price = items[i].addons[a].price
  BY <1>1, <1>3, SentIsPriced
<1>5. AmountOf(again) = AmountOf(items)
  BY <1>4, SameAmount
<1> QED
  BY <1>1, <1>2, <1>3, <1>4, <1>5 DEF SavedOrderStands

-----------------------------------------------------------------------------
(***************************************************************************)
(* The order followed, the menu changing.                                  *)
(***************************************************************************)

USE NightAssumption, DeskAssumption, MenuAssumption, SceneAssumption

TillStates ==
    {NoTill} \cup [op : {"launch", "replace"}, night : Nat, items : PricedOrders]

Bills == {NoBill} \cup [night : Nat, items : PricedOrders]

\* the combos of the scene, and of what is on its way to its table
CombosThere ==
    /\ BundlesThere
    /\ draft[Alone].op \in {"edit", "write"} => draft[Alone].body.bundle \subseteq Listed

BillInv ==
    /\ bill \in Bills
    /\ till \in [Sessions -> TillStates]
    /\ OnTables(bill.items)
    /\ \A s \in Sessions : till[s] # NoTill => OnTables(till[s].items)
    /\ scene # "pricing" => bill = NoBill /\ \A s \in Sessions : till[s] = NoTill
    /\ scene = "pricing" => CombosThere

\* No items are an order.
LEMMA NoItemsYet ==
  /\ <<>> \in PricedOrders
  /\ OnTables(<<>>)
  /\ NoBill.items = <<>>
<1>1. <<>> \in Seq(GoodItem) /\ DOMAIN <<>> = {}
  BY EmptySeq
<1>2. PricedAs(<<>>, 0) /\ CostedAs(<<>>, 0) /\ ByCategory(<<>>) /\ OnTables(<<>>)
  BY <1>1 DEF PricedAs, CostedAs, ByCategory, OnTables
<1> QED
  BY <1>1, <1>2 DEF PricedOrders, NoBill

\* The order followed and its items.
LEMMA BillFields ==
  ASSUME BillInv
  PROVE  /\ bill.items \in PricedOrders
         /\ bill.night \in Nat \cup {None}
         /\ bill # NoBill => bill.night \in Nat
         /\ \A s \in Sessions : till[s] # NoTill =>
               /\ till[s].op \in {"launch", "replace"}
               /\ till[s].night \in Nat
               /\ till[s].items \in PricedOrders
BY NoItemsYet DEF BillInv, Bills, TillStates, NoBill

\* The order followed keeps its type and can be saved again.
LEMMA BillInvHolds ==
  ASSUME BillInv
  PROVE  BillTypeOK /\ SavedOrderStands
<1>1. BillTypeOK
  BY BillFields, PricedOrderTyped DEF BillTypeOK
<1>2. SavedOrderStands
  BY BillFields, OrderStands DEF BillInv
<1> QED
  BY <1>1, <1>2

\* The menu an instance starts with, and no order.
LEMMA BillInvInit ==
  ASSUME ShopInit
  PROVE  BillInv
<1>1. BillInit /\ MenuInit
  BY DEF ShopInit
<1>2. PICK m \in MenusBefore : products = m.products
  BY <1>1 DEF MenuInit
<1>3. BundlesThere
  <2>1. \A p \in Listed : products[p].bundle \in SUBSET Products
    BY ProductFields, MenuInvInit DEF MenuInv
  <2> QED
    BY <1>2, <2>1 DEF BundlesThere, Listed
<1>4. draft[Alone] = NoDraft
  BY <1>1 DEF MenuInit
<1>5. CombosThere
  BY <1>3, <1>4 DEF CombosThere, NoDraft
<1> QED
  BY <1>1, <1>5, NoItemsYet DEF BillInv, BillInit, Bills, TillStates

\* OrderService.create and replace up to their transactions.
LEMMA PriceKeeps ==
  ASSUME BillInv, MenuInv, scene = "pricing", scene' = scene,
         NEW s \in Sessions, PriceLaunch(s) \/ PriceEdit(s)
  PROVE  BillInv'
<1>1. MenuTypeOK /\ BundlesThere /\ UNCHANGED <<bill, products, draft>>
  BY DEF MenuInv, BillInv, CombosThere, PriceLaunch, PriceEdit, menuVars
<1>2. \A items : OnTables(items)' <=> OnTables(items)
  BY <1>1 DEF OnTables, Listed, UsedBy
<1>3. PICK t : /\ t \in TillStates
               /\ t # NoTill => OnTables(t.items)
               /\ till' = [till EXCEPT ![s] = t]
  <2>1. CASE PriceLaunch(s)
    <3>1. PICK items \in Baskets, night \in 0 .. DateOf(now) :
             /\ Accepts(items, night, <<>>)
             /\ till' = [till EXCEPT ![s] =
                   [op |-> "launch", night |-> night, items |-> Priced(items, night, <<>>)]]
      BY <2>1 DEF PriceLaunch
    <3>2. night \in Nat
      BY DateType DEF MenuInv
    <3>3. PICK ps : ps = Priced(items, night, <<>>)
      OBVIOUS
    <3>4. ps \in PricedOrders /\ OnTables(ps)
      BY <1>1, <3>1, <3>3, NoItemsYet, PricedIsOrder
    <3> QED
      BY <3>1, <3>2, <3>3, <3>4 DEF TillStates
  <2>2. CASE PriceEdit(s)
    <3>1. PICK items \in Baskets :
             /\ bill # NoBill
             /\ Accepts(items, bill.night, bill.items)
             /\ till' = [till EXCEPT ![s] =
                   [op |-> "replace", night |-> bill.night,
                    items |-> Priced(items, bill.night, bill.items)]]
      BY <2>2 DEF PriceEdit
    <3>2. PICK ps : ps = Priced(items, bill.night, bill.items)
      OBVIOUS
    <3>3. ps \in PricedOrders /\ OnTables(ps)
      BY <1>1, <3>1, <3>2, BillFields, PricedIsOrder
    <3>4. bill.night \in Nat
      BY <3>1, BillFields
    <3> QED
      BY <3>1, <3>2, <3>3, <3>4 DEF TillStates
  <2> QED
    BY <2>1, <2>2
<1>4. /\ till' \in [Sessions -> TillStates]
      /\ \A r \in Sessions : till'[r] # NoTill => OnTables(till'[r].items)
  <2>1. /\ till \in [Sessions -> TillStates]
        /\ \A r \in Sessions : till[r] # NoTill => OnTables(till[r].items)
    BY DEF BillInv
  <2>2. till' \in [Sessions -> TillStates]
    BY <1>3, <2>1
  <2>3. till'[s] = t /\ \A r \in Sessions \ {s} : till'[r] = till[r]
    BY <1>3, <2>1
  <2> QED
    BY <1>3, <2>1, <2>2, <2>3
<1>5. CombosThere'
  BY <1>1 DEF BillInv, CombosThere, BundlesThere, Listed
<1> QED
  BY <1>1, <1>2, <1>4, <1>5 DEF BillInv

\* The transaction of an order, or a request that ends before it.
LEMMA WriteKeeps ==
  ASSUME BillInv, scene = "pricing", scene' = scene,
         NEW s \in Sessions, WriteItems(s) \/ DropPricing(s)
  PROVE  BillInv'
<1>1. UNCHANGED <<products, draft>>
  BY DEF WriteItems, DropPricing, menuVars
<1>2. \A items : OnTables(items)' <=> OnTables(items)
  BY <1>1 DEF OnTables, Listed, UsedBy
<1>3. till[s] # NoTill /\ till' = [till EXCEPT ![s] = NoTill]
  BY DEF WriteItems, DropPricing
<1>4. /\ till' \in [Sessions -> TillStates]
      /\ \A r \in Sessions : till'[r] # NoTill => OnTables(till'[r].items)
  <2>1. NoTill \in TillStates
    BY DEF TillStates
  <2>2. till \in [Sessions -> TillStates]
    BY DEF BillInv
  <2>3. \A r \in Sessions : till'[r] # NoTill => till'[r] = till[r]
    BY <1>3, <2>2
  <2>4. till' \in [Sessions -> TillStates]
    BY <1>3, <2>1, <2>2
  <2> QED
    BY <2>3, <2>4 DEF BillInv
<1>5. CombosThere'
  BY <1>1 DEF BillInv, CombosThere, BundlesThere, Listed
<1>6. bill' \in Bills /\ OnTables(bill'.items)
  <2>1. CASE WriteItems(s)
    <3>1. bill' = [night |-> till[s].night, items |-> till[s].items]
      BY <2>1 DEF WriteItems
    <3>2. /\ till[s].night \in Nat /\ till[s].items \in PricedOrders
          /\ OnTables(till[s].items)
      BY <1>3, BillFields DEF BillInv
    <3> QED
      BY <3>1, <3>2 DEF Bills
  <2>2. CASE DropPricing(s)
    BY <2>2 DEF DropPricing, BillInv
  <2> QED
    BY <2>1, <2>2
<1> QED
  BY <1>2, <1>4, <1>5, <1>6 DEF BillInv

\* A change of the menu: no product leaves its table, and no combo comes to hold
\* what is not there.
LEMMA MenuChangeKeeps ==
  ASSUME BillInv, MenuInv, scene = "pricing", scene' = scene, UNCHANGED <<bill, till>>,
         \/ RepricingStep(Alone) \/ CategoryStep(Alone)
         \/ BeginCostEdit(Alone) \/ WriteCost(Alone)
  PROVE  BillInv'
<1>1. Alone \in Sessions /\ draft \in [Sessions -> Draft] /\ CombosThere
  BY DEF MenuInv, MenuTypeOK, BillInv
<1>2. PICK e : e = draft[Alone]
  OBVIOUS
<1>3. CASE WriteProduct(Alone)
  <2>1. Listed' = Listed
    BY <1>1, <1>3, WriteProductType
  <2>2. e.op = "write" /\ products \in [Products -> Product \cup {NoProduct}]
    BY <1>2, <1>3 DEF WriteProduct, MenuInv, MenuTypeOK
  <2>3. \A p \in Listed : products'[p].bundle = e.body.bundle
                          \/ products'[p].bundle = products[p].bundle
    BY <1>2, <1>3, <2>2 DEF WriteProduct, Listed
  <2>4. BundlesThere'
    BY <1>1, <1>2, <2>1, <2>2, <2>3 DEF CombosThere, BundlesThere
  <2>5. draft'[Alone] = NoDraft
    BY <1>1, <1>3 DEF WriteProduct, DraftEnds, DraftGoes
  <2>6. CombosThere'
    BY <2>4, <2>5 DEF CombosThere, NoDraft
  <2> QED
    BY <2>1, <2>6 DEF BillInv, OnTables
<1>4. CASE ~WriteProduct(Alone)
  <2>1. products' = products
    BY <1>4 DEF RepricingStep, CategoryStep, BeginCostEdit, WriteCost, BeginProductEdit,
                ReadProduct, DropDraft, BeginAddons, WriteAddons
  <2>2. Listed' = Listed /\ BundlesThere'
    BY <1>1, <2>1 DEF CombosThere, BundlesThere, Listed
  <2>3. ASSUME draft'[Alone].op \in {"edit", "write"}
        PROVE  draft'[Alone].body.bundle \subseteq Listed
    <3>1. CASE BeginProductEdit(Alone)
      <4>1. PICK p \in Listed, body \in Bodies :
               /\ BundleFits(p, body.bundle)
               /\ DraftGoes(Alone, [op |-> "edit", product |-> p, body |-> body,
                                    today |-> DateOf(now)])
        BY <3>1 DEF BeginProductEdit
      <4>2. draft'[Alone].body = body
        BY <1>1, <4>1 DEF DraftGoes
      <4> QED
        BY <4>1, <4>2 DEF BundleFits
    <3>2. CASE ReadProduct(Alone)
      <4>1. draft[Alone].op = "edit" /\ draft'[Alone].body = draft[Alone].body
        BY <1>1, <3>2 DEF ReadProduct, DraftGoes
      <4> QED
        BY <1>1, <4>1 DEF CombosThere
    <3>3. CASE BeginAddons(Alone) \/ BeginCostEdit(Alone)
      BY <1>1, <2>3, <3>3 DEF BeginAddons, BeginCostEdit, DraftGoes
    <3>4. CASE DropDraft(Alone) \/ WriteAddons(Alone) \/ WriteCost(Alone)
      BY <1>1, <2>3, <3>4 DEF DropDraft, WriteAddons, WriteCost, DraftEnds, DraftGoes, NoDraft
    <3> QED
      BY <1>4, <3>1, <3>2, <3>3, <3>4 DEF RepricingStep, CategoryStep
  <2>4. CombosThere'
    BY <2>2, <2>3 DEF CombosThere
  <2> QED
    BY <2>2, <2>4 DEF BillInv, OnTables
<1> QED
  BY <1>3, <1>4

\* Each step of the shop.
LEMMA BillInvNext ==
  ASSUME BillInv, MenuInv, [ShopNext]_shopVars
  PROVE  BillInv'
<1>0. scene' = scene
  BY ClockAndScene
<1>1. CASE OnPricing
  <2>1. scene = "pricing"
    BY <1>1 DEF OnPricing
  <2>2. CASE \E s \in Sessions : PricingStep(s)
    BY <1>0, <2>1, <2>2, PriceKeeps, WriteKeeps DEF PricingStep
  <2>3. CASE ~ \E s \in Sessions : PricingStep(s)
    <3>1. UNCHANGED <<bill, till>>
      BY <1>1, <2>3 DEF OnPricing, BillStays, billVars
    <3> QED
      BY <1>0, <1>1, <2>1, <2>3, <3>1, MenuChangeKeeps DEF OnPricing
  <2> QED
    BY <2>2, <2>3
<1>2. CASE ~OnPricing
  <2>1. UNCHANGED <<bill, till>>
    BY <1>2 DEF ShopNext, shopVars, OnExpenses, OnMarkings, OnMenu, OnLevels, OnRepricing,
                OnScreen, OnForm, OnLines, BillStays, billVars
  <2>2. CASE scene = "pricing"
    <3>1. UNCHANGED <<products, draft>>
      BY <1>2, <2>2 DEF ShopNext, shopVars, menuVars, OnExpenses, OnMarkings, OnMenu, OnLevels,
                        OnRepricing, OnScreen, OnForm, OnLines
    <3>2. \A items : OnTables(items)' <=> OnTables(items)
      BY <3>1 DEF OnTables, Listed, UsedBy
    <3>3. CombosThere'
      BY <2>2, <3>1 DEF BillInv, CombosThere, BundlesThere, Listed
    <3> QED
      BY <1>0, <2>1, <3>2, <3>3 DEF BillInv
  <2>3. CASE scene # "pricing"
    <3>1. bill' = NoBill /\ \A s \in Sessions : till'[s] = NoTill
      BY <2>1, <2>3 DEF BillInv
    <3>2. OnTables(bill.items)'
      <4>1. bill'.items = <<>>
        BY <3>1, NoItemsYet
      <4>2. DOMAIN bill'.items = {}
        BY <4>1, EmptySeq
      <4> QED
        BY <4>2 DEF OnTables
    <3> QED
      BY <1>0, <2>1, <2>3, <3>1, <3>2 DEF BillInv
  <2> QED
    BY <2>2, <2>3
<1> QED
  BY <1>1, <1>2

(***************************************************************************)
(* The priced order and the handlers that price it keep their types        *)
(* (orders/priced-items.ts).                                               *)
(***************************************************************************)
THEOREM BillTypeCorrect == ShopSpec => []BillTypeOK
<1>1. ShopInit => BillInv
  BY BillInvInit
<1>2. BillInv /\ MenuInv /\ [ShopNext]_shopVars => BillInv'
  BY BillInvNext
<1>3. BillInv => BillTypeOK
  BY BillInvHolds
<1> QED
  BY <1>1, <1>2, <1>3, MenuInvariant, PTL DEF ShopSpec

(***************************************************************************)
(* Whatever the menu became since, a saved order can be saved again as it  *)
(* stands and is charged the same, line by line (orders/order-pricing.ts). *)
(***************************************************************************)
THEOREM SavedOrdersStand == ShopSpec => []SavedOrderStands
<1>1. ShopInit => BillInv
  BY BillInvInit
<1>2. BillInv /\ MenuInv /\ [ShopNext]_shopVars => BillInv'
  BY BillInvNext
<1>3. BillInv => SavedOrderStands
  BY BillInvHolds
<1> QED
  BY <1>1, <1>2, <1>3, MenuInvariant, PTL DEF ShopSpec
-----------------------------------------------------------------------------
(***************************************************************************)
(* Every table and every request of the shop.                              *)
(***************************************************************************)

\* the only requests of the night here are those that close and reopen it
NightRequest == {Idle} \cup [op : {"close", "markClosed", "reopen"}, role : Roles, night : Dates]

NightRequests == req \in [Sessions -> NightRequest]

\* A request of the night goes on, and stays one.
LEMMA ClosingKeepsRequests ==
  ASSUME NightRequests, NEW s \in Sessions, ClosingNext(s)
  PROVE  NightRequests'
<1>1. PICK r : r \in NightRequest /\ req' = [req EXCEPT ![s] = r]
  <2>1. CASE BeginClose(s)
    <3>1. PICK role \in Roles, d \in Dates :
             req' = [req EXCEPT ![s] = [op |-> "close", role |-> role, night |-> d]]
      BY <2>1 DEF BeginClose, Goes
    <3> QED
      BY <3>1 DEF NightRequest
  <2>2. CASE BeginCloseByDate(s)
    <3>1. PICK d \in Dates :
             req' = [req EXCEPT ![s] = [op |-> "close", role |-> "ADMIN", night |-> d]]
      BY <2>2 DEF BeginCloseByDate, Goes
    <3> QED
      BY <3>1 DEF NightRequest, Roles
  <2>3. CASE CheckOpenTabs(s)
    <3>1. /\ req[s].op = "close" /\ req[s] \in NightRequest
          /\ req' = [req EXCEPT ![s] = [req[s] EXCEPT !.op = "markClosed"]]
      BY <2>3 DEF CheckOpenTabs, Goes, NightRequests
    <3>2. req[s] \in [op : {"close", "markClosed", "reopen"}, role : Roles, night : Dates]
      BY <3>1 DEF NightRequest, Idle
    <3>3. [req[s] EXCEPT !.op = "markClosed"] \in NightRequest
      BY <3>2 DEF NightRequest
    <3> QED
      BY <3>1, <3>3
  <2>4. CASE MarkClosed(s) \/ MarkReopened(s)
    BY <2>4 DEF MarkClosed, MarkReopened, Answers, Goes, NightRequest
  <2>5. CASE BeginReopen(s)
    <3>1. PICK role \in Roles, d \in Dates :
             req' = [req EXCEPT ![s] = [op |-> "reopen", role |-> role, night |-> d]]
      BY <2>5 DEF BeginReopen, Goes
    <3> QED
      BY <3>1 DEF NightRequest
  <2> QED
    BY <2>1, <2>2, <2>3, <2>4, <2>5 DEF ClosingNext
<1> QED
  BY <1>1 DEF NightRequests

\* A request on expenses is none of the night's.
LEMMA ExpenseKeepsRequests ==
  ASSUME NEW s, ExpenseStep(s)
  PROVE  req' = req
BY DEF ExpenseStep, EditOrMark, BeginLaunch, SaveLaunch, BeginRemove, SaveRemove,
       BeginEdit, ReadNote, SaveReplace, BeginMark, SaveMark, DropTask, DeskStays, Calls,
       TaskEnds

\* Nor is one on the menu.
LEMMA MenuKeepsRequests ==
  ASSUME NEW s, MenuStep(s) \/ CategoryStep(s) \/ RepricingStep(s)
  PROVE  req' = req
BY DEF MenuStep, CategoryStep, RepricingStep, BeginAddons, WriteAddons, DropDraft,
       BeginCreateProduct, WriteCreateProduct, BeginProductEdit, ReadProduct,
       WriteProduct, BeginSupplyEdit, ReadSaleProduct, WriteSupply, BeginCostEdit,
       WriteCost, BeginImport, ReadLeaving, WriteImport, CashStays

\* Nor is one that prices an order.
LEMMA PricingKeepsRequests ==
  ASSUME NEW s, PricingStep(s)
  PROVE  req' = req
BY DEF PricingStep, PriceLaunch, PriceEdit, WriteItems, DropPricing, CashStays

\* Each step of the shop.
LEMMA NightRequestsNext ==
  ASSUME NightRequests, [ShopNext]_shopVars
  PROVE  NightRequests'
<1>1. CASE OnExpenses
  <2>1. ClosingNext(Alone) \/ req' = req
    BY <1>1, ExpenseKeepsRequests DEF OnExpenses, ClockTicks
  <2> QED
    BY <2>1, ClosingKeepsRequests, SceneAssumption DEF NightRequests
<1>2. CASE ~OnExpenses
  <2>1. req' = req
    <3>1. CASE OnMarkings
      BY <3>1, ExpenseKeepsRequests DEF OnMarkings, ExpenseStep
    <3>2. CASE OnMenu
      BY <3>2, MenuKeepsRequests DEF OnMenu, ClockTicks
    <3>3. CASE OnLevels
      BY <3>3, MenuKeepsRequests DEF OnLevels
    <3>4. CASE OnRepricing
      BY <3>4, MenuKeepsRequests DEF OnRepricing
    <3>5. CASE OnPricing
      BY <3>5, MenuKeepsRequests, PricingKeepsRequests DEF OnPricing, MenuStep
    <3>6. CASE OnScreen \/ OnForm \/ OnLines
      BY <3>6 DEF OnScreen, OnForm, OnLines, ClockTicks, vars
    <3>7. CASE UNCHANGED shopVars
      BY <3>7 DEF shopVars, expenseVars, vars
    <3> QED
      BY <1>2, <3>1, <3>2, <3>3, <3>4, <3>5, <3>6, <3>7 DEF ShopNext
  <2> QED
    BY <2>1 DEF NightRequests
<1> QED
  BY <1>1, <1>2

\* The requests of the night are requests.
LEMMA NightRequestType ==
  ASSUME NightRequests
  PROVE  req \in [Sessions -> Request]
BY DEF NightRequests, NightRequest, Request

(***************************************************************************)
(* The type of every table and of every request in flight of the shop: the *)
(* night, its expenses, the menu, the priced order, the screen, the order  *)
(* form and its lines.                                                     *)
(***************************************************************************)
THEOREM ShopTypeCorrect == ShopSpec => []ShopTypeOK
<1>1. ShopInit => NightRequests
  BY DEF ShopInit, NightRequests, NightRequest
<1>2. NightRequests /\ [ShopNext]_shopVars => NightRequests'
  BY NightRequestsNext
<1>3. ShopSpec => []NightRequests
  BY <1>1, <1>2, PTL DEF ShopSpec
<1>4. MenuInv => now \in Nat
  BY DEF MenuInv
<1>5. ExpenseInv => closings \in [Dates -> Closing]
  BY DEF ExpenseInv
<1>6. NightRequests => req \in [Sessions -> Request]
  BY NightRequestType
<1>7. /\ now \in Nat
      /\ closings \in [Dates -> Closing]
      /\ req \in [Sessions -> Request]
      /\ ExpensesTypeOK /\ MenuTypeOK /\ BillTypeOK /\ ScreenTypeOK
      /\ FormTypeOK /\ LinesTypeOK
      => ShopTypeOK
  BY DEF ShopTypeOK
<1> QED
  BY <1>3, <1>4, <1>5, <1>6, <1>7, MenuInvariant, ExpenseInvariant, ExpenseTypeCorrect,
     MenuTypeCorrect, BillTypeCorrect, ScreenTypeCorrect, FormTypeCorrect,
     LinesTypeCorrect, PTL

=============================================================================
