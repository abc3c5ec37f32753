------------------------- MODULE BackOffice_proofs -------------------------
(***************************************************************************)
(* What a scene of BackOffice leaves alone, and what holds of the cash     *)
(* desk's screen and of the order form, whatever overlaps there.           *)
(*                                                                         *)
(* Of the screen, for any number of lists, dates, reloads and changes made *)
(* on other devices: no reload that counts takes the screen back, and a    *)
(* screen on a picked date shows that date alone. Both rest on what is     *)
(* known of the loads still out: at most one is the latest, it began no    *)
(* earlier than anything the last reload showed, and every load is for the *)
(* date the screen is on.                                                  *)
(*                                                                         *)
(* Of the form, for any number of customers, lookups and saves: a save     *)
(* over a record leaves it to its person. This rests on what the form      *)
(* cannot see: whatever was read of a record, by a lookup not answered     *)
(* yet, in the form, in the question or in a save on its way, still agrees *)
(* with the table.                                                         *)
(***************************************************************************)
EXTENDS BackOffice, TLAPS

USE NightAssumption, DeskAssumption, ScreenAssumption, FormAssumption, CustomersAssumption

\* Closing and reopening a night leave the clock alone.
LEMMA ClosingKeepsClock ==
  ASSUME NEW s, ClosingNext(s)
  PROVE  now' = now
BY DEF ClosingNext, BeginClose, BeginCloseByDate, CheckOpenTabs, MarkClosed,
       BeginReopen, MarkReopened

\* So does a request on expenses.
LEMMA ExpenseKeepsClock ==
  ASSUME NEW s, ExpenseStep(s)
  PROVE  now' = now
BY DEF ExpenseStep, EditOrMark, BeginLaunch, SaveLaunch, BeginRemove, SaveRemove,
       BeginEdit, ReadNote, SaveReplace, BeginMark, SaveMark, DropTask, DeskStays

\* So does a request on the menu.
LEMMA MenuKeepsClock ==
  ASSUME NEW s, MenuStep(s) \/ CategoryStep(s) \/ RepricingStep(s)
  PROVE  now' = now
BY DEF MenuStep, CategoryStep, RepricingStep, BeginAddons, WriteAddons, DropDraft,
       BeginCreateProduct, WriteCreateProduct, BeginProductEdit, ReadProduct,
       WriteProduct, BeginSupplyEdit, ReadSaleProduct, WriteSupply, BeginCostEdit,
       WriteCost, BeginImport, ReadLeaving, WriteImport, CashStays

\* And one that prices an order, which leaves the nights and the menu alone too.
LEMMA PricingKeepsClock ==
  ASSUME NEW s, PricingStep(s)
  PROVE  now' = now /\ closings' = closings /\ UNCHANGED menuVars
BY DEF PricingStep, PriceLaunch, PriceEdit, WriteItems, DropPricing, CashStays

\* The clock goes on by one at most, and a behavior plays one scene.
LEMMA ClockAndScene ==
  ASSUME [ShopNext]_shopVars
  PROVE  now' \in {now, now + 1} /\ scene' = scene
<1>1. CASE OnExpenses
  BY <1>1, ClosingKeepsClock, ExpenseKeepsClock DEF OnExpenses, ClockTicks
<1>2. CASE OnMarkings
  BY <1>2, ExpenseKeepsClock DEF OnMarkings, ExpenseStep
<1>3. CASE OnMenu
  BY <1>3, MenuKeepsClock DEF OnMenu, ClockTicks
<1>4. CASE OnLevels
  BY <1>4, MenuKeepsClock DEF OnLevels
<1>5. CASE OnRepricing
  BY <1>5, MenuKeepsClock DEF OnRepricing
<1>6. CASE OnPricing
  BY <1>6, MenuKeepsClock, PricingKeepsClock DEF OnPricing, MenuStep
<1>7. CASE OnScreen
  BY <1>7 DEF OnScreen, vars, ClockTicks
<1>8. CASE OnForm
  BY <1>8 DEF OnForm, vars
<1>9. CASE OnLines
  BY <1>9 DEF OnLines, vars
<1>10. CASE UNCHANGED shopVars
  BY <1>10 DEF shopVars, expenseVars, vars
<1> QED
  BY <1>1, <1>2, <1>3, <1>4, <1>5, <1>6, <1>7, <1>8, <1>9, <1>10 DEF ShopNext

-----------------------------------------------------------------------------
ScreenTypes ==
    /\ now \in Nat
    /\ date \in PickedDates \cup {None}
    /\ shown \in [Lists -> Seen] \cup {None}
    /\ error \in BOOLEAN
    /\ \A x \in loads : x \in Load
    /\ paused \in BOOLEAN
    /\ act \in {"none", "sent", "done", "stale"}
    /\ own \in Nat
    /\ moments \in Seq(Nat)
    /\ lastReload \in [Lists -> Seen] \cup {None}
    /\ overtakes \in Nat
    /\ Moment > 0

LoadsInOrder ==
    /\ \A x \in loads : x.began \in 1 .. Moment /\ (x.kind = "first" => ~x.latest)
    /\ \A x, y \in loads : x.latest /\ y.latest => x = y
    /\ lastReload # None =>
          \A l \in Lists :
              /\ lastReload[l].at <= Moment
              /\ \A x \in loads : x.latest => lastReload[l].at <= x.began

LoadsForItsDate ==
    /\ \A x \in loads : x.date = date
    /\ date # None /\ shown # None => \A l \in Lists : shown[l].night = date

ScreenInv == ScreenTypes /\ LoadsInOrder /\ LoadsForItsDate

-----------------------------------------------------------------------------
\* The current night is a date.
LEMMA CurrentNightType ==
  ASSUME now \in Nat
  PROVE  CurrentNight \in Nat
<1>1. DateOf(now) \in Nat
  BY DEF DateOf
<1> QED
  BY <1>1 DEF CurrentNight

\* A moment more: what was known of the earlier ones stays.
LEMMA OneMomentMore ==
  ASSUME moments \in Seq(Nat), NEW n \in Nat, moments' = Append(moments, n)
  PROVE  moments' \in Seq(Nat) /\ Moment' = Moment + 1 /\ Moment \in Nat
BY DEF Moment

\* A new load begins now, for the screen's date.
LEMMA NewLoadType ==
  ASSUME ScreenTypes, NEW kind \in {"first", "reload"}, NEW d \in PickedDates \cup {None}
  PROVE  /\ NewLoad(kind, d) \in Load
         /\ NewLoad(kind, d).began = Moment
         /\ NewLoad(kind, d).date = d
         /\ NewLoad(kind, d).kind = kind
         /\ NewLoad(kind, d).latest <=> kind = "reload"
         /\ Moment \in Nat /\ Moment \in 1 .. Moment
<1>1. Moment \in Nat /\ Moment \in 1 .. Moment
  BY DEF ScreenTypes, Moment
<1>2. PICK f : f = NewLoad(kind, d)
  OBVIOUS
<1>3. CASE kind = "reload"
  <2>1. f = [kind |-> "reload", latest |-> TRUE, date |-> d, began |-> Moment]
    BY <1>2, <1>3 DEF NewLoad
  <2>2. f \in Load /\ f.latest
    BY <1>1, <2>1, Zenon DEF Load
  <2> QED
    BY <1>1, <1>2, <1>3, <2>1, <2>2
<1>4. CASE kind = "first"
  <2>1. f = [kind |-> "first", latest |-> FALSE, date |-> d, began |-> Moment]
    BY <1>2, <1>4 DEF NewLoad
  <2>2. f \in Load /\ ~f.latest
    BY <1>1, <2>1, Zenon DEF Load
  <2> QED
    BY <1>1, <1>2, <1>4, <2>1, <2>2
<1> QED
  BY <1>3, <1>4

\* A reload leaves one latest load, begun now.
LEMMA ReloadsKeep ==
  ASSUME ScreenInv, Reloads,
         UNCHANGED <<now, date, shown, error, paused, own, moments, lastReload>>,
         act' \in {"none", "sent", "done", "stale"}
  PROVE  ScreenInv'
<1>1. PICK r : r = NewLoad("reload", date)
  OBVIOUS
<1>2. /\ r \in Load /\ r.began = Moment /\ r.date = date /\ r.kind = "reload"
      /\ r.latest /\ Moment \in Nat /\ Moment \in 1 .. Moment
  BY <1>1, NewLoadType DEF ScreenInv, ScreenTypes
<1>3. PICK old : old = {[x EXCEPT !.latest = FALSE] : x \in loads}
  OBVIOUS
<1>4. loads' = old \cup {r}
  BY <1>1, <1>3 DEF Reloads
<1>5. \A y \in old : \E x \in loads : y = [x EXCEPT !.latest = FALSE]
  BY <1>3
<1>6. \A y \in old : /\ y \in Load /\ ~y.latest /\ y.date = date
                     /\ y.began \in 1 .. Moment
  <2> SUFFICES ASSUME NEW x \in loads, NEW y, y = [x EXCEPT !.latest = FALSE]
               PROVE  y \in Load /\ ~y.latest /\ y.date = date /\ y.began \in 1 .. Moment
    BY <1>5
  <2>1. x \in Load /\ x.date = date /\ x.began \in 1 .. Moment
    BY DEF ScreenInv, ScreenTypes, LoadsInOrder, LoadsForItsDate
  <2>2. y = [kind |-> x.kind, latest |-> FALSE, date |-> x.date, began |-> x.began]
    BY <2>1 DEF Load
  <2>3. x.kind \in {"first", "reload"} /\ x.date \in PickedDates \cup {None} /\ x.began \in Nat
    BY <2>1 DEF Load
  <2>4. y \in Load
    BY <2>2, <2>3, Zenon DEF Load
  <2>5. ~y.latest
    BY <2>2, Zenon
  <2> QED
    BY <2>1, <2>2, <2>4, <2>5
<1>7. Moment' = Moment
  BY DEF Moment
<1>8. ScreenTypes'
  <2>1. overtakes' \in Nat
    BY DEF ScreenInv, ScreenTypes, Reloads
  <2>2. \A x \in loads' : x \in Load
    BY <1>2, <1>4, <1>6
  <2> QED
    BY <1>7, <2>1, <2>2 DEF ScreenInv, ScreenTypes
<1>9. LoadsInOrder'
  BY <1>2, <1>4, <1>6, <1>7 DEF ScreenInv, LoadsInOrder
<1>10. LoadsForItsDate'
  BY <1>2, <1>4, <1>6 DEF ScreenInv, LoadsForItsDate
<1> QED
  BY <1>8, <1>9, <1>10 DEF ScreenInv

\* An answer is of moments since its load began, and of the load's date.
LEMMA ArrivesKeeps ==
  ASSUME ScreenInv, now' \in Nat, NEW x \in loads, Arrives(x)
  PROVE  ScreenInv' /\ ReloadsNeverGoBackStep
<1>1. PICK at \in [Lists -> x.began .. Moment] :
        LET read == [l \in Lists |-> SeenAt(x.date, at[l])] IN
        /\ shown' = IF Counts(x) THEN read ELSE shown
        /\ lastReload' = IF Counts(x) /\ x.kind = "reload" THEN read ELSE lastReload
  BY DEF Arrives
<1>2. PICK read : read = [l \in Lists |-> SeenAt(x.date, at[l])]
  OBVIOUS
<1>3. /\ shown' = (IF Counts(x) THEN read ELSE shown)
      /\ lastReload' = (IF Counts(x) /\ x.kind = "reload" THEN read ELSE lastReload)
  BY <1>1, <1>2
<1>4. Moment' = Moment /\ Moment \in Nat /\ loads' = loads \ {x}
  BY DEF Moment, Arrives, ScreenInv, ScreenTypes
<1>5. x.began \in 1 .. Moment /\ x \in Load /\ x.date = date
  BY DEF ScreenInv, LoadsInOrder, LoadsForItsDate, ScreenTypes
<1>6. \A l \in Lists : /\ read[l] \in Seen
                       /\ read[l].at \in x.began .. Moment
                       /\ x.date # None => read[l].night = x.date
  <2> TAKE l \in Lists
  <2>1. read[l] = SeenAt(x.date, at[l]) /\ at[l] \in x.began .. Moment
    BY <1>2
  <2>2. at[l] \in Nat /\ at[l] \in 1 .. Len(moments)
    BY <1>4, <1>5, <2>1 DEF Moment
  <2>3. moments[at[l]] \in Nat
    BY <2>2 DEF ScreenInv, ScreenTypes
  <2>4. x.date # None => x.date \in Nat
    BY <1>5 DEF Load
  <2> QED
    BY <2>1, <2>2, <2>3, <2>4 DEF SeenAt, Seen
<1>7. read \in [Lists -> Seen]
  BY <1>2, <1>6
<1>8. ScreenTypes'
  <2>1. shown' \in [Lists -> Seen] \cup {None} /\ lastReload' \in [Lists -> Seen] \cup {None}
    BY <1>3, <1>7 DEF ScreenInv, ScreenTypes
  <2>2. error' \in BOOLEAN
    BY DEF Arrives, ScreenInv, ScreenTypes
  <2> QED
    BY <1>4, <2>1, <2>2 DEF Arrives, ScreenInv, ScreenTypes
<1>9. lastReload # None => \A l \in Lists : lastReload[l].at \in Nat
  BY DEF ScreenInv, ScreenTypes, Seen
<1>10. Counts(x) /\ x.kind = "reload" => x.latest
  BY DEF Counts
<1>11. LoadsInOrder'
  <2>1. \A y \in loads' : y.began \in 1 .. Moment' /\ (y.kind = "first" => ~y.latest)
    BY <1>4 DEF ScreenInv, LoadsInOrder
  <2>2. \A y, z \in loads' : y.latest /\ z.latest => y = z
    BY <1>4 DEF ScreenInv, LoadsInOrder
  <2>3. CASE Counts(x) /\ x.kind = "reload"
    <3>1. \A y \in loads' : ~y.latest
      BY <1>4, <1>10, <2>3 DEF ScreenInv, LoadsInOrder
    <3>2. \A l \in Lists : lastReload'[l].at <= Moment'
      BY <1>3, <1>4, <1>5, <1>6, <2>3
    <3> QED
      BY <2>1, <2>2, <3>1, <3>2 DEF LoadsInOrder
  <2>4. CASE ~(Counts(x) /\ x.kind = "reload")
    BY <1>3, <1>4, <2>1, <2>2, <2>4 DEF ScreenInv, LoadsInOrder
  <2> QED
    BY <2>3, <2>4
<1>12. LoadsForItsDate'
  BY <1>3, <1>4, <1>5, <1>6 DEF Arrives, ScreenInv, LoadsForItsDate
<1>13. ReloadsNeverGoBackStep
  <2>1. CASE Counts(x) /\ x.kind = "reload" /\ lastReload # None
    <3> SUFFICES ASSUME NEW l \in Lists PROVE lastReload'[l].at >= lastReload[l].at
      BY DEF ReloadsNeverGoBackStep
    <3>1. lastReload[l].at <= x.began /\ lastReload[l].at \in Nat
      BY <1>9, <1>10, <2>1 DEF ScreenInv, LoadsInOrder
    <3>2. lastReload'[l].at \in x.began .. Moment
      BY <1>3, <1>6, <2>1
    <3> QED
      BY <1>4, <1>5, <3>1, <3>2
  <2>2. CASE ~(Counts(x) /\ x.kind = "reload")
    BY <1>3, <1>9, <2>2 DEF ReloadsNeverGoBackStep
  <2>3. CASE lastReload = None
    BY <2>3 DEF ReloadsNeverGoBackStep
  <2> QED
    BY <2>1, <2>2, <2>3
<1> QED
  BY <1>8, <1>11, <1>12, <1>13 DEF ScreenInv

\* A load that fails is one less.
LEMMA FailsKeeps ==
  ASSUME ScreenInv, now' \in Nat, NEW x \in loads, Fails(x)
  PROVE  ScreenInv'
<1>1. Moment' = Moment /\ loads' = loads \ {x}
  BY DEF Moment, Fails
<1>2. ScreenTypes'
  <2>1. error' \in BOOLEAN
    BY DEF Fails, ScreenInv, ScreenTypes
  <2> QED
    BY <1>1, <2>1 DEF Fails, ScreenInv, ScreenTypes
<1>3. LoadsInOrder'
  BY <1>1 DEF Fails, ScreenInv, LoadsInOrder
<1>4. LoadsForItsDate'
  BY <1>1 DEF Fails, ScreenInv, LoadsForItsDate
<1> QED
  BY <1>2, <1>3, <1>4 DEF ScreenInv

\* Another date starts the screen anew, with one first load of that date.
LEMMA PickDateKeeps ==
  ASSUME ScreenInv, now' \in Nat, NEW d \in PickedDates, PickDate(d)
  PROVE  ScreenInv'
<1>1. PICK f : f = NewLoad("first", d)
  OBVIOUS
<1>2. /\ f \in Load /\ f.began = Moment /\ f.date = d /\ ~f.latest
      /\ Moment \in 1 .. Moment
  BY <1>1, NewLoadType DEF ScreenInv
<1>3. loads' = {f} /\ Moment' = Moment
  BY <1>1 DEF PickDate, LoadsLeft, Moment
<1> QED
  BY <1>2, <1>3
     DEF PickDate, ScreenInv, ScreenTypes, LoadsInOrder, LoadsForItsDate

\* The day's data change, or its night passes: a moment more, the loads as they were.
LEMMA MomentKeeps ==
  ASSUME ScreenInv, now' \in Nat, NEW n \in Nat, moments' = Append(moments, n),
         act' \in {"none", "sent", "done", "stale"}, own' \in Nat,
         UNCHANGED <<date, shown, error, loads, paused, lastReload, overtakes>>
  PROVE  ScreenInv'
<1>1. moments' \in Seq(Nat) /\ Moment' = Moment + 1 /\ Moment \in Nat
  BY OneMomentMore DEF ScreenInv, ScreenTypes
<1>2. ScreenTypes'
  BY <1>1 DEF ScreenInv, ScreenTypes
<1>3. LoadsInOrder'
  <2>1. \A x \in loads' : x.began \in 1 .. Moment' /\ (x.kind = "first" => ~x.latest)
    BY <1>1 DEF ScreenInv, LoadsInOrder
  <2>2. lastReload # None => \A l \in Lists : lastReload[l].at <= Moment + 1
    <3>1. lastReload # None => \A l \in Lists : lastReload[l].at \in Nat
      BY DEF ScreenInv, ScreenTypes, Seen
    <3> QED
      BY <1>1, <3>1 DEF ScreenInv, LoadsInOrder
  <2> QED
    BY <1>1, <2>1, <2>2 DEF ScreenInv, LoadsInOrder
<1>4. LoadsForItsDate'
  BY DEF ScreenInv, LoadsForItsDate
<1> QED
  BY <1>2, <1>3, <1>4 DEF ScreenInv

\* What the user does to an order, or to the tab, touches no load.
LEMMA IdleKeeps ==
  ASSUME ScreenInv, now' \in Nat, act' \in {"none", "sent", "done", "stale"}, paused' \in BOOLEAN,
         UNCHANGED <<date, shown, error, loads, own, moments, lastReload, overtakes>>
  PROVE  ScreenInv'
<1>1. Moment' = Moment
  BY DEF Moment
<1> QED
  BY <1>1 DEF ScreenInv, ScreenTypes, LoadsInOrder, LoadsForItsDate

-----------------------------------------------------------------------------
\* Without an answer the last reload is as it was, or forgotten.
LEMMA LastReloadStays ==
  ASSUME ScreenTypes, lastReload' \in {lastReload, None}
  PROVE  ReloadsNeverGoBackStep
<1>1. lastReload # None => \A l \in Lists : lastReload[l].at \in Nat
  BY DEF ScreenTypes, Seen
<1> QED
  BY <1>1 DEF ReloadsNeverGoBackStep

\* Each step of the screen keeps the invariant and never goes back.
LEMMA ScreenStepKeeps ==
  ASSUME ScreenInv, ScreenStep, UNCHANGED now
  PROVE  ScreenInv' /\ ReloadsNeverGoBackStep
<1>0. ScreenTypes /\ now' \in Nat
  BY DEF ScreenInv, ScreenTypes
<1>1. CASE AutoRefresh
  BY <1>0, <1>1, ReloadsKeep, LastReloadStays DEF AutoRefresh, ScreenInv, ScreenTypes
<1>2. CASE PressRefresh
  BY <1>0, <1>2, ReloadsKeep, LastReloadStays DEF PressRefresh, ScreenInv, ScreenTypes
<1>3. ASSUME NEW x \in loads, Arrives(x) PROVE ScreenInv' /\ ReloadsNeverGoBackStep
  BY <1>0, <1>3, ArrivesKeeps
<1>4. ASSUME NEW x \in loads, Fails(x) PROVE ScreenInv' /\ ReloadsNeverGoBackStep
  BY <1>0, <1>4, FailsKeeps, LastReloadStays DEF Fails
<1>5. ASSUME NEW d \in PickedDates, PickDate(d) PROVE ScreenInv' /\ ReloadsNeverGoBackStep
  BY <1>0, <1>5, PickDateKeeps, LastReloadStays DEF PickDate
<1>6. CASE Tap
  BY <1>0, <1>6, IdleKeeps, LastReloadStays DEF Tap, ScreenTypes
<1>7. CASE ServerTakes
  <2>1. CurrentNight \in Nat /\ Moment + 1 \in Nat
    BY <1>0, CurrentNightType DEF ScreenTypes, Moment
  <2> QED
    BY <1>0, <1>7, <2>1, MomentKeeps, LastReloadStays DEF ServerTakes, ServerMoves
<1>8. CASE ServerRefuses
  BY <1>0, <1>8, IdleKeeps, LastReloadStays DEF ServerRefuses, ScreenTypes
<1>9. CASE ActAnswered
  BY <1>0, <1>9, ReloadsKeep, LastReloadStays DEF ActAnswered, ReloadsAfterAct
<1>10. CASE OthersChange
  <2>1. CurrentNight \in Nat
    BY <1>0, CurrentNightType DEF ScreenTypes
  <2>2. own' \in Nat /\ act' \in {"none", "sent", "done", "stale"}
    BY <1>0, <1>10 DEF OthersChange, ScreenTypes
  <2> QED
    BY <1>0, <1>10, <2>1, <2>2, MomentKeeps, LastReloadStays DEF OthersChange, ServerMoves
<1>11. CASE TogglePause
  <2>1. paused' \in BOOLEAN /\ act' \in {"none", "sent", "done", "stale"}
    BY <1>0, <1>11 DEF TogglePause, ScreenTypes
  <2> QED
    BY <1>0, <1>11, <2>1, IdleKeeps, LastReloadStays DEF TogglePause
<1> QED
  BY <1>1, <1>2, <1>3, <1>4, <1>5, <1>6, <1>7, <1>8, <1>9, <1>10, <1>11 DEF ScreenStep

\* The night passing is a moment more.
LEMMA NightPassesKeeps ==
  ASSUME ScreenInv, ClockTicks, NightPasses
  PROVE  ScreenInv' /\ ReloadsNeverGoBackStep
<1>1. ScreenTypes /\ now' \in Nat
  BY DEF ScreenInv, ScreenTypes, ClockTicks
<1>2. (CurrentNight \in Nat)'
  <2>1. PICK t \in Nat : t = now'
    BY <1>1
  <2>2. DateOf(t) \in Nat
    BY DEF DateOf
  <2>3. (DateOf(now) \in Nat)'
    BY <2>1, <2>2
  <2> QED
    BY <2>3 DEF CurrentNight
<1>3. own' \in Nat /\ act' \in {"none", "sent", "done", "stale"}
  BY <1>1 DEF NightPasses, ScreenTypes
<1> QED
  BY <1>1, <1>2, <1>3, MomentKeeps, LastReloadStays DEF NightPasses

-----------------------------------------------------------------------------
\* What leaves the screen alone keeps its invariant.
LEMMA OthersKeep ==
  ASSUME ScreenInv, now' \in {now, now + 1}, UNCHANGED screenVars
  PROVE  ScreenInv'
<1>1. Moment' = Moment /\ now' \in Nat
  BY DEF Moment, screenVars, ScreenInv, ScreenTypes
<1> QED
  BY <1>1 DEF screenVars, ScreenInv, ScreenTypes, LoadsInOrder, LoadsForItsDate

\* Initially one first load is out and nothing is shown.
LEMMA ScreenInvInit ==
  ASSUME ShopInit
  PROVE  ScreenInv
<1>1. now \in Nat /\ ScreenInit
  BY DEF ShopInit
<1>2. CurrentNight \in Nat
  BY <1>1, CurrentNightType
<1>3. moments \in Seq(Nat) /\ Moment = 1
  BY <1>1, <1>2 DEF ScreenInit, Moment
<1>4. PICK f : f = [kind |-> "first", latest |-> FALSE, date |-> None, began |-> 1]
  OBVIOUS
<1>5. f \in Load /\ ~f.latest
  BY <1>4, 1 \in Nat, Zenon DEF Load
<1>6. f.kind = "first" /\ f.date = None /\ f.began = 1
  BY <1>4
<1>7. loads = {f} /\ shown = None /\ lastReload = None /\ date = None
  BY <1>1, <1>4 DEF ScreenInit
<1>8. ScreenTypes
  <2>1. error \in BOOLEAN /\ paused \in BOOLEAN
    BY <1>1 DEF ScreenInit
  <2> QED
    BY <1>1, <1>3, <1>5, <1>7, <2>1 DEF ScreenInit, ScreenTypes
<1>9. LoadsInOrder
  BY <1>3, <1>5, <1>6, <1>7 DEF LoadsInOrder
<1>10. LoadsForItsDate
  BY <1>6, <1>7 DEF LoadsForItsDate
<1> QED
  BY <1>8, <1>9, <1>10 DEF ScreenInv

\* Each step of the shop keeps the invariant and never goes back.
LEMMA ScreenInvNext ==
  ASSUME ScreenInv, [ShopNext]_shopVars
  PROVE  ScreenInv' /\ (ReloadsNeverGoBackStep \/ UNCHANGED screenVars)
<1>1. CASE OnScreen
  BY <1>1, ScreenStepKeeps, NightPassesKeeps DEF OnScreen, vars
<1>2. CASE ~OnScreen
  <2>1. UNCHANGED screenVars
    BY <1>2 DEF ShopNext, shopVars, OnExpenses, OnMarkings, OnMenu, OnLevels, OnRepricing,
                OnPricing, OnForm, OnLines, ScreenStays
  <2> QED
    BY <2>1, ClockAndScene, OthersKeep
<1> QED
  BY <1>1, <1>2

(***************************************************************************)
(* What is known of the loads holds always.                                *)
(***************************************************************************)
THEOREM ScreenInvariant == ShopSpec => []ScreenInv
<1>1. ShopInit => ScreenInv
  BY ScreenInvInit
<1>2. ScreenInv /\ [ShopNext]_shopVars => ScreenInv'
  BY ScreenInvNext
<1> QED
  BY <1>1, <1>2, PTL DEF ShopSpec

(***************************************************************************)
(* The screen's state keeps its types (cash/use-cash-day.ts).              *)
(***************************************************************************)
THEOREM ScreenTypeCorrect == ShopSpec => []ScreenTypeOK
<1>1. ScreenInv => ScreenTypeOK
  BY DEF ScreenInv, ScreenTypes, ScreenTypeOK
<1> QED
  BY <1>1, ScreenInvariant, PTL

(***************************************************************************)
(* A screen on a picked date never shows another day's lists               *)
(* (pages/CashierPage.tsx).                                                *)
(***************************************************************************)
THEOREM PickedNightIsShown == ShopSpec => []ShowsPickedNight
<1>1. ScreenInv => ShowsPickedNight
  BY DEF ScreenInv, LoadsForItsDate, ShowsPickedNight
<1> QED
  BY <1>1, ScreenInvariant, PTL

(***************************************************************************)
(* Of no list do the reloads take the screen back to an earlier moment,    *)
(* whatever the order their answers come in (cash/use-cash-day.ts).        *)
(***************************************************************************)
THEOREM ReloadsGoForward == ShopSpec => ReloadsNeverGoBack
<1>1. ScreenInv /\ [ShopNext]_shopVars => [ReloadsNeverGoBackStep]_screenVars
  BY ScreenInvNext
<1> QED
  BY <1>1, ScreenInvariant, PTL DEF ShopSpec, ReloadsNeverGoBack

-----------------------------------------------------------------------------
\* Record k, as it was read or as a save will write it, is still of its person:
\* the row has its phone or, where it has none, its name.
Agrees(k) ==
    /\ customers[k.id] # NoCustomer
    /\ customers[k.id].phone = k.phone
    /\ k.phone = None => SameName(customers[k.id].name, k.name)

Holds(k) == k.id \notin strayed => Agrees(k)

\* The customer typed is the one of record k.
Fits(v, k) ==
    /\ v.phone = k.phone
    /\ k.phone = None => SameName(v.name, k.name)

\* An order to deliver or to be paid later is some customer's.
Named(v) == v.type = "DELIVERY" \/ v.fiado => v.name # None

TableGood ==
    /\ customers \in [Customers -> Record \cup {NoCustomer}]
    /\ strayed \subseteq Customers
    /\ editing \in BOOLEAN /\ moves \in Nat /\ sent \in Nat

\* What the form holds fits the record it was filled with and each one offered.
FieldsGood ==
    /\ form \in Values /\ known \in OrNone(Read) /\ choices \subseteq Read
    /\ byName \in BOOLEAN /\ late \in BOOLEAN
    /\ known # None => Holds(known) /\ (~late => Fits(form, known))
    /\ \A k \in choices : Holds(k) /\ (~late /\ k.phone = None => form.phone = None)

SearchGood(x) ==
    /\ x.by \in {"phone", "name", "submit"} /\ x.values \in Values /\ x.found \subseteq Read
    /\ x.by = "name" => x.values.phone = None
    /\ x.by = "phone" => x.values.phone # None
    /\ \A k \in x.found : Holds(k) /\ (x.values.phone # None => k.phone = x.values.phone)

SearchesGood == \A x \in searches : SearchGood(x)

QuestionGood ==
    question # None =>
        /\ question \in Resolved /\ question.known # None
        /\ Complete(question.values)
        /\ Holds(question.known)
        /\ ~question.late => Fits(question.values, question.known)

SaveGood(d) ==
    /\ d \in Save
    /\ d.step # "order" =>
          /\ d.name # None
          /\ d.id # None /\ ~d.late => Holds(d)

SavesGood == \A d \in saves : SaveGood(d)

\* The customer an order copied is still the one of its record.
CopiesGood == copied \subseteq Read /\ \A k \in copied : Holds(k)

FormInv ==
    TableGood /\ CopiesGood /\ FieldsGood /\ SearchesGood /\ QuestionGood /\ SavesGood

\* What was read or is to be written agrees as long as the table stays.
LEMMA TableStays ==
  ASSUME UNCHANGED <<customers, strayed>>
  PROVE  /\ \A k : Holds(k)' <=> Holds(k)
         /\ \A x : SearchGood(x) => SearchGood(x)'
         /\ \A d : SaveGood(d) => SaveGood(d)'
         /\ copied' = copied /\ CopiesGood => CopiesGood'
         /\ RecordKeepsItsPersonStep
<1>1. \A k : Holds(k)' <=> Holds(k)
  BY DEF Holds, Agrees
<1>2. \A x : SearchGood(x) => SearchGood(x)'
  BY <1>1 DEF SearchGood
<1>3. \A d : SaveGood(d) => SaveGood(d)'
  BY <1>1 DEF SaveGood
<1>4. RecordKeepsItsPersonStep
  BY DEF RecordKeepsItsPersonStep, WritersOf
<1>5. copied' = copied /\ CopiesGood => CopiesGood'
  BY <1>1 DEF CopiesGood
<1> QED
  BY <1>1, <1>2, <1>3, <1>4, <1>5

\* A row read now is of its person.
LEMMA AsReadHolds ==
  ASSUME TableGood, NEW c \in InTable
  PROVE  /\ AsRead(c) \in Read
         /\ Holds(AsRead(c))
         /\ AsRead(c).id = c /\ AsRead(c).name = customers[c].name
         /\ AsRead(c).phone = customers[c].phone
<1>1. c \in Customers /\ customers[c] \in Record
  BY DEF InTable, TableGood
<1>2. PICK row \in Record : row = customers[c]
  BY <1>1
<1>3. row.name \in Names /\ row.phone \in OrNone(Phones) /\ row.place \in OrNone(Places)
  BY DEF Record
<1>4. PICK k : k = AsRead(c)
  OBVIOUS
<1>5. k = [id |-> c, name |-> row.name, phone |-> row.phone, place |-> row.place]
  BY <1>2, <1>4 DEF AsRead
<1>6. k \in Read
  BY <1>1, <1>3, <1>5 DEF Read
<1>7. k.id = c /\ k.name = row.name /\ k.phone = row.phone
  BY <1>5
<1>8. Holds(k)
  BY <1>1, <1>2, <1>3, <1>7 DEF Holds, Agrees, SameName, InTable
<1> QED
  BY <1>2, <1>4, <1>6, <1>7, <1>8

\* What an order copies now is of the record's person.
LEMMA CopyOfHolds ==
  ASSUME TableGood, NEW c \in InTable, NEW type
  PROVE  CopyOf(c, type) \in Read /\ Holds(CopyOf(c, type))
<1>1. PICK read : read = AsRead(c)
  OBVIOUS
<1>2. read \in Read /\ Holds(read)
  BY <1>1, AsReadHolds
<1>3. PICK k : k = CopyOf(c, type)
  OBVIOUS
<1>4. k = [read EXCEPT !.place = IF type = "COUNTER" THEN None ELSE @]
  BY <1>1, <1>3 DEF CopyOf
<1>5. PICK place \in OrNone(Places) :
        k = [id |-> read.id, name |-> read.name, phone |-> read.phone, place |-> place]
  BY <1>2, <1>4 DEF Read, OrNone
<1>6. read.id \in Customers /\ read.name \in Names /\ read.phone \in OrNone(Phones)
  BY <1>2 DEF Read
<1>7. k \in Read /\ Holds(k)
  BY <1>2, <1>5, <1>6 DEF Read, Holds, Agrees
<1> QED
  BY <1>3, <1>7

\* A search finds records of their persons, by the phone when there is one.
LEMMA FoundByHolds ==
  ASSUME TableGood, NEW v \in Values
  PROVE  /\ FoundBy(v) \subseteq Read
         /\ \A k \in FoundBy(v) : Holds(k) /\ (v.phone # None => k.phone = v.phone)
<1> SUFFICES ASSUME NEW k \in FoundBy(v)
             PROVE  k \in Read /\ Holds(k) /\ (v.phone # None => k.phone = v.phone)
  OBVIOUS
<1>1. PICK c \in InTable : /\ k = AsRead(c)
                           /\ v.phone # None => customers[c].phone = v.phone
  BY DEF FoundBy
<1> QED
  BY <1>1, AsReadHolds

\* A form filled with a record has its name, and its phone or the one typed.
LEMMA FilledFits ==
  ASSUME NEW v \in Values, NEW k \in Read, NEW b \in BOOLEAN
  PROVE  /\ Filled(v, k, b) \in Values
         /\ Filled(v, k, b).name = k.name /\ k.name # None
         /\ Filled(v, k, b).phone = IF b /\ k.phone # None THEN k.phone ELSE v.phone
         /\ Filled(v, k, b).type = v.type /\ Filled(v, k, b).fiado = v.fiado
<1>1. /\ k.name \in Names /\ k.phone \in OrNone(Phones) /\ k.place \in OrNone(Places)
      /\ k.name # None
  BY DEF Read
<1>2. /\ v.type \in {"COUNTER", "DELIVERY"} /\ v.fiado \in BOOLEAN
      /\ v.counter \in OrNone(Names) /\ v.phone \in OrNone(Phones)
  BY DEF Values
<1>3. PICK phone : phone = IF b /\ k.phone # None THEN k.phone ELSE v.phone
  OBVIOUS
<1>4. phone \in OrNone(Phones)
  BY <1>1, <1>2, <1>3
<1>5. PICK f : f = Filled(v, k, b)
  OBVIOUS
<1>6. f = [type |-> v.type, fiado |-> v.fiado, counter |-> v.counter,
           name |-> k.name, phone |-> phone, place |-> k.place]
  BY <1>3, <1>5 DEF Filled, Values
<1>7. k.name \in OrNone(Names)
  BY <1>1 DEF OrNone
<1>8. f \in Values
  BY <1>1, <1>2, <1>4, <1>6, <1>7 DEF Values
<1> QED
  BY <1>1, <1>3, <1>5, <1>6, <1>8

\* The save of a customer that fits its record is good.
LEMMA SaveOfGood ==
  ASSUME sent \in Nat, NEW r \in Resolved, Named(r.values),
         r.known # None => Holds(r.known) /\ (~r.late => Fits(r.values, r.known))
  PROVE  SaveGood(SaveOf(r))
<1>1. PICK d : d = SaveOf(r)
  OBVIOUS
<1>2. PICK k : k = r.known
  OBVIOUS
<1>3. PICK v : v = r.values
  OBVIOUS
<1>4. k \in OrNone(Read) /\ v \in Values /\ r.late \in BOOLEAN
  BY <1>2, <1>3 DEF Resolved
<1>5. /\ v.type \in {"COUNTER", "DELIVERY"} /\ v.fiado \in BOOLEAN /\ v.name \in OrNone(Names)
      /\ v.phone \in OrNone(Phones) /\ v.place \in OrNone(Places)
  BY <1>4 DEF Values
<1>6. k # None => /\ k.id \in Customers /\ k.name \in Names /\ k.phone \in OrNone(Phones)
                  /\ k.place \in OrNone(Places) /\ k.id # None
  BY <1>4 DEF Read, OrNone
<1>7. PICK id : id = IF k = None \/ (v.type = "COUNTER" /\ ~v.fiado) THEN None ELSE k.id
  OBVIOUS
<1>8. PICK place : place = IF v.type = "DELIVERY" THEN v.place
                           ELSE IF k = None THEN None ELSE k.place
  OBVIOUS
<1>9. id \in OrNone(Customers) /\ place \in OrNone(Places)
  BY <1>5, <1>6, <1>7, <1>8 DEF OrNone
<1>10. PICK step \in {"address", "customer", "order"} :
          /\ d = [no |-> sent, id |-> id, name |-> v.name, phone |-> v.phone, place |-> place,
                  type |-> v.type, here |-> TRUE, late |-> r.late, step |-> step]
          /\ v.type = "COUNTER" /\ ~v.fiado => step = "order"
  BY <1>1, <1>2, <1>3, <1>7, <1>8 DEF SaveOf
<1>11. d \in Save
  BY <1>4, <1>5, <1>9, <1>10 DEF Save
<1>12. ASSUME d.step # "order"  PROVE d.name # None
  BY <1>3, <1>5, <1>10, <1>12 DEF Named
<1>13. ASSUME d.id # None, ~d.late  PROVE Holds(d)
  <2>1. k # None /\ d.id = k.id /\ d.phone = v.phone /\ d.name = v.name /\ ~r.late
    BY <1>7, <1>10, <1>13
  <2>2. Holds(k) /\ Fits(v, k)
    BY <1>2, <1>3, <2>1
  <2>3. k.id \notin strayed => customers[k.id].name # None \/ k.phone # None
    BY <1>6, <2>1, <2>2 DEF Holds, Agrees, SameName
  <2> QED
    BY <1>5, <1>6, <2>1, <2>2, <2>3 DEF Holds, Agrees, Fits, SameName
<1> QED
  BY <1>1, <1>11, <1>12, <1>13 DEF SaveGood
-----------------------------------------------------------------------------
\* A step that only changes the form, and leaves it good.
LEMMA FieldsAlone ==
  ASSUME FormInv, FieldsGood', moves' \in Nat,
         UNCHANGED <<customers, copied, strayed, editing, searches, question, saves, sent>>
  PROVE  FormInv' /\ RecordKeepsItsPersonStep
<1>1. TableGood'
  BY DEF FormInv, TableGood
<1>2. SearchesGood' /\ SavesGood'
  BY TableStays DEF FormInv, SearchesGood, SavesGood
<1>3. QuestionGood'
  <2>1. \A k : Holds(k)' <=> Holds(k)
    BY TableStays
  <2> QED
    BY <2>1 DEF FormInv, QuestionGood, Complete, Fits
<1> QED
  BY <1>1, <1>2, <1>3, TableStays DEF FormInv

\* A field typed: the form forgets the record once it is another customer's.
LEMMA TypeKeeps ==
  ASSUME FormInv, NEW field \in {"name", "phone", "place", "counter"},
         NEW v \in FieldValues(field), Type(field, v)
  PROVE  FormInv' /\ RecordKeepsItsPersonStep
<1>1. /\ form \in Values /\ known \in OrNone(Read) /\ choices \subseteq Read
      /\ byName \in BOOLEAN /\ late \in BOOLEAN
  BY DEF FormInv, FieldsGood
<1>2. /\ form.type \in {"COUNTER", "DELIVERY"} /\ form.fiado \in BOOLEAN
      /\ form.counter \in OrNone(Names) /\ form.name \in OrNone(Names)
      /\ form.phone \in OrNone(Phones) /\ form.place \in OrNone(Places)
  BY <1>1 DEF Values
<1>3. form' \in Values /\ (field # "phone" => form'.phone = form.phone)
      /\ (field # "name" => form'.name = form.name) /\ form'[field] = v
  <2>1. form' = [form EXCEPT ![field] = v]
    BY DEF Type
  <2>2. CASE field = "name"
    <3>1. form' = [type |-> form.type, fiado |-> form.fiado, counter |-> form.counter,
                   name |-> v, phone |-> form.phone, place |-> form.place]
      BY <1>1, <2>1, <2>2 DEF Values
    <3>2. v \in OrNone(Names)
      BY <2>2 DEF FieldValues
    <3> QED
      BY <1>2, <2>2, <3>1, <3>2 DEF Values
  <2>3. CASE field = "phone"
    <3>1. form' = [type |-> form.type, fiado |-> form.fiado, counter |-> form.counter,
                   name |-> form.name, phone |-> v, place |-> form.place]
      BY <1>1, <2>1, <2>3 DEF Values
    <3>2. v \in OrNone(Phones)
      BY <2>3 DEF FieldValues
    <3> QED
      BY <1>2, <2>3, <3>1, <3>2 DEF Values
  <2>4. CASE field = "place"
    <3>1. form' = [type |-> form.type, fiado |-> form.fiado, counter |-> form.counter,
                   name |-> form.name, phone |-> form.phone, place |-> v]
      BY <1>1, <2>1, <2>4 DEF Values
    <3>2. v \in OrNone(Places)
      BY <2>4 DEF FieldValues
    <3> QED
      BY <1>2, <2>4, <3>1, <3>2 DEF Values
  <2>5. CASE field = "counter"
    <3>1. form' = [type |-> form.type, fiado |-> form.fiado, counter |-> v,
                   name |-> form.name, phone |-> form.phone, place |-> form.place]
      BY <1>1, <2>1, <2>5 DEF Values
    <3>2. v \in OrNone(Names)
      BY <2>5 DEF FieldValues
    <3> QED
      BY <1>2, <2>5, <3>1, <3>2 DEF Values
  <2> QED
    BY <2>2, <2>3, <2>4, <2>5
<1>4. PICK forget \in BOOLEAN :
        /\ forget <=> known # None /\ IsAnother(field, v)
        /\ known' = IF forget THEN None ELSE known
        /\ byName' = (byName /\ ~forget)
        /\ late' = (late /\ (known' # None \/ choices' # {}))
  BY DEF Type
<1>5. /\ choices' = IF field \in {"phone", "name"} THEN {} ELSE choices
      /\ UNCHANGED <<customers, copied, strayed, editing, searches, question, saves, sent>>
      /\ moves' = moves + 1
  BY DEF Type, Move
<1>6. \A k : Holds(k)' <=> Holds(k)
  BY <1>5, TableStays
<1>7. known' # None => Holds(known') /\ (~late' => Fits(form', known'))
  <2> SUFFICES ASSUME known' # None
               PROVE  Holds(known') /\ (~late' => Fits(form', known'))
    OBVIOUS
  <2>1. known' = known /\ ~IsAnother(field, v)
    BY <1>4
  <2>2. Holds(known) /\ (~late => Fits(form, known)) /\ (late' <=> late)
    BY <1>1, <1>4, <2>1 DEF FormInv, FieldsGood
  <2>3. field # "phone" /\ form'.phone = form.phone
    BY <1>3, <2>1 DEF IsAnother
  <2>4. field = "name" /\ form.phone = None => SameName(v, known.name)
    BY <2>1 DEF IsAnother
  <2> QED
    BY <1>3, <2>1, <2>2, <2>3, <2>4 DEF Fits
<1>8. \A k \in choices' : Holds(k) /\ (~late' /\ k.phone = None => form'.phone = None)
  BY <1>3, <1>4, <1>5, <1>1 DEF FormInv, FieldsGood
<1>9. known' \in OrNone(Read) /\ choices' \subseteq Read /\ byName' \in BOOLEAN /\ late' \in BOOLEAN
  BY <1>1, <1>4, <1>5 DEF OrNone
<1>10. FieldsGood'
  BY <1>3, <1>6, <1>7, <1>8, <1>9 DEF FieldsGood, Fits
<1>11. moves' \in Nat
  BY <1>5 DEF FormInv, TableGood
<1> QED
  BY <1>5, <1>10, <1>11, FieldsAlone

\* Its type, its being fiado and a name where there was none leave the rest as it is.
LEMMA ToggleKeeps ==
  ASSUME FormInv, ToggleType \/ ChooseFiado
  PROVE  FormInv' /\ RecordKeepsItsPersonStep
<1>1. /\ form \in Values
      /\ UNCHANGED <<customers, copied, strayed, known, byName, choices, editing, searches,
                     question, saves, late, sent>>
      /\ moves' = moves + 1 /\ moves \in Nat
  BY DEF ToggleType, ChooseFiado, Move, FormInv, FieldsGood, TableGood
<1>2. /\ form.type \in {"COUNTER", "DELIVERY"} /\ form.fiado \in BOOLEAN
      /\ form.counter \in OrNone(Names) /\ form.name \in OrNone(Names)
      /\ form.phone \in OrNone(Phones) /\ form.place \in OrNone(Places)
  BY <1>1 DEF Values
<1>3. /\ form' \in Values /\ form'.phone = form.phone
      /\ form.name # None => form'.name = form.name
  <2>1. CASE ToggleType
    <3>1. PICK type \in {"COUNTER", "DELIVERY"} :
            form' = [type |-> type, fiado |-> form.fiado, counter |-> form.counter,
                     name |-> form.name, phone |-> form.phone, place |-> form.place]
      BY <1>1, <1>2, <2>1 DEF ToggleType, Values
    <3> QED
      BY <1>2, <3>1 DEF Values
  <2>2. CASE ChooseFiado
    <3>1. PICK name \in OrNone(Names) :
            /\ form' = [type |-> form.type, fiado |-> TRUE, counter |-> form.counter,
                        name |-> name, phone |-> form.phone, place |-> form.place]
            /\ form.name # None => name = form.name
      BY <1>1, <1>2, <2>2 DEF ChooseFiado, Values
    <3> QED
      BY <1>2, <3>1 DEF Values
  <2> QED
    BY <2>1, <2>2
<1>4. \A k : Holds(k)' <=> Holds(k)
  BY <1>1, TableStays
<1>5. known # None /\ ~late => Fits(form', known)
  <2> SUFFICES ASSUME known # None, ~late
               PROVE  Fits(form', known)
    OBVIOUS
  <2>1. Fits(form, known) /\ known.name \in Names
    BY DEF FormInv, FieldsGood, OrNone, Read
  <2>2. known.phone = None => form.name # None
    BY <2>1 DEF Fits, SameName
  <2> QED
    BY <1>3, <2>1, <2>2 DEF Fits
<1>6. FieldsGood'
  BY <1>1, <1>3, <1>4, <1>5 DEF FormInv, FieldsGood, Fits
<1> QED
  BY <1>1, <1>6, FieldsAlone

\* Filling leaves the form fitting the record, unless its phone is another's.
LEMMA FillsFields ==
  ASSUME FormInv, NEW k \in Read, NEW b \in BOOLEAN, Holds(k), Fills(k, b),
         UNCHANGED <<customers, copied, strayed>>, late' \in BOOLEAN,
         ~late' => IF b /\ k.phone # None THEN TRUE ELSE form.phone = k.phone
  PROVE  FieldsGood'
<1>1. known' = k /\ byName' = b /\ choices' = {} /\ form' = Filled(form, k, b)
  BY DEF Fills
<1>2. form \in Values
  BY DEF FormInv, FieldsGood
<1>3. /\ form' \in Values /\ form'.name = k.name /\ k.name # None
      /\ form'.phone = IF b /\ k.phone # None THEN k.phone ELSE form.phone
  BY <1>1, <1>2, FilledFits
<1>4. ~late' => Fits(form', k)
  BY <1>3 DEF Fits, SameName
<1>5. Holds(k)'
  BY TableStays
<1> QED
  BY <1>1, <1>3, <1>4, <1>5 DEF FieldsGood, Fits, OrNone

\* One of the namesakes offered is chosen.
LEMMA ChooseKeeps ==
  ASSUME FormInv, NEW k \in choices, Choose(k)
  PROVE  FormInv' /\ RecordKeepsItsPersonStep
<1>1. /\ Fills(k, TRUE) /\ moves' = moves + 1
      /\ UNCHANGED <<customers, copied, strayed, editing, searches, question, saves, late, sent>>
  BY DEF Choose, Move
<1>2. k \in Read /\ Holds(k) /\ (~late /\ k.phone = None => form.phone = None)
      /\ late \in BOOLEAN /\ moves \in Nat
  BY DEF FormInv, FieldsGood, TableGood
<1>3. FieldsGood'
  BY <1>1, <1>2, FillsFields
<1> QED
  BY <1>1, <1>2, <1>3, FieldsAlone

\* A blank form holds nothing to agree with.
LEMMA BlankFields ==
  ASSUME form' = EmptyForm, known' = None, byName' = FALSE, choices' = {}, late' = FALSE
  PROVE  FieldsGood'
<1>1. EmptyForm \in Values
  BY DEF EmptyForm, Values, OrNone
<1> QED
  BY <1>1 DEF FieldsGood, OrNone

\* The form is emptied.
LEMMA ClearAllKeeps ==
  ASSUME FormInv, ClearAll
  PROVE  FormInv' /\ RecordKeepsItsPersonStep
<1>1. FieldsGood'
  BY BlankFields DEF ClearAll, Blank
<1>2. moves' \in Nat
  BY DEF ClearAll, Move, FormInv, TableGood
<1> QED
  BY <1>1, <1>2, FieldsAlone DEF ClearAll
-----------------------------------------------------------------------------
\* A lookup asked for now finds records of their persons.
LEMMA LooksUpKeeps ==
  ASSUME FormInv, LookupPhone \/ LookupName \/ SubmitLooksUp
  PROVE  FormInv' /\ RecordKeepsItsPersonStep
<1>1. /\ UNCHANGED <<customers, copied, strayed, form, known, byName, choices, editing, question,
                     saves, late, sent>>
      /\ moves' = moves + 1
  BY DEF LookupPhone, LookupName, SubmitLooksUp, Move
<1>2. PICK by \in {"phone", "name", "submit"} :
        /\ LooksUp(by)
        /\ by = "name" => form.phone = None
        /\ by = "phone" => form.phone # None
  BY DEF LookupPhone, LookupName, SubmitLooksUp
<1>3. form \in Values /\ TableGood
  BY DEF FormInv, FieldsGood
<1>4. PICK found : found = FoundBy(form)
  OBVIOUS
<1>5. /\ found \subseteq Read
      /\ \A k \in found : Holds(k) /\ (form.phone # None => k.phone = form.phone)
  BY <1>3, <1>4, FoundByHolds
<1>6. PICK x : x = [by |-> by, values |-> form, found |-> found]
  OBVIOUS
<1>7. SearchGood(x)
  BY <1>2, <1>3, <1>5, <1>6 DEF SearchGood
<1>8. searches' = searches \cup {x}
  BY <1>2, <1>4, <1>6 DEF LooksUp
<1>9. SearchesGood'
  BY <1>1, <1>7, <1>8, TableStays DEF FormInv, SearchesGood
<1>10. \A k : Holds(k)' <=> Holds(k)
  BY <1>1, TableStays
<1>11. FieldsGood' /\ QuestionGood'
  BY <1>1, <1>10 DEF FormInv, FieldsGood, QuestionGood, Fits, Complete
<1>12. TableGood' /\ SavesGood'
  BY <1>1, TableStays DEF FormInv, TableGood, SavesGood
<1> QED
  BY <1>1, <1>9, <1>11, <1>12, TableStays DEF FormInv

\* An answer that leaves the form good and begins no save.
LEMMA AnswerAlone ==
  ASSUME FormInv, NEW x \in searches, searches' = searches \ {x}, FieldsGood',
         UNCHANGED <<customers, copied, strayed, editing, question, saves, moves, sent>>
  PROVE  FormInv' /\ RecordKeepsItsPersonStep
<1>1. \A k : Holds(k)' <=> Holds(k)
  BY TableStays
<1>2. QuestionGood'
  BY <1>1 DEF FormInv, QuestionGood, Fits, Complete
<1>3. TableGood' /\ SavesGood' /\ SearchesGood'
  BY TableStays DEF FormInv, TableGood, SavesGood, SearchesGood
<1> QED
  BY <1>2, <1>3, TableStays DEF FormInv

\* The lookup by phone is answered.
LEMMA PhoneAnsweredKeeps ==
  ASSUME FormInv, NEW x \in searches, PhoneAnswered(x)
  PROVE  FormInv' /\ RecordKeepsItsPersonStep
<1>1. /\ SearchGood(x) /\ x.by = "phone" /\ searches' = searches \ {x}
      /\ UNCHANGED <<customers, copied, strayed, editing, question, saves, moves, sent>>
  BY DEF PhoneAnswered, FormInv, SearchesGood
<1>2. FieldsGood'
  <2>1. CASE \E k \in x.found : Fills(k, FALSE) /\ late' = Outdated(x)
    <3>1. PICK k \in x.found : Fills(k, FALSE) /\ late' = Outdated(x)
      BY <2>1
    <3>2. k \in Read /\ Holds(k) /\ k.phone = x.values.phone
      BY <1>1 DEF SearchGood
    <3>3. late' \in BOOLEAN /\ (~late' => form.phone = k.phone)
      BY <3>1, <3>2 DEF Outdated
    <3> QED
      BY <1>1, <3>1, <3>2, <3>3, FillsFields
  <2>2. CASE /\ known' = None /\ byName' = FALSE /\ late' = (late /\ choices # {})
             /\ UNCHANGED <<form, choices>>
    <3>1. \A k : Holds(k)' <=> Holds(k)
      BY <1>1, TableStays
    <3> QED
      BY <2>2, <3>1 DEF FormInv, FieldsGood, OrNone
  <2> QED
    BY <2>1, <2>2 DEF PhoneAnswered
<1> QED
  BY <1>1, <1>2, AnswerAlone

\* The form keeps its record and is offered those found for its phone.
LEMMA OfferedFields ==
  ASSUME FormInv, NEW x \in searches, choices' = x.found,
         UNCHANGED <<customers, copied, strayed, form, known, byName>>,
         late' \in BOOLEAN, late /\ known # None => late', x.found # {} /\ Outdated(x) => late'
  PROVE  FieldsGood'
<1>1. SearchGood(x) /\ late \in BOOLEAN
  BY DEF FormInv, SearchesGood, FieldsGood
<1>2. \A k \in x.found : k \in Read /\ Holds(k) /\ (~late' /\ k.phone = None => form.phone = None)
  BY <1>1 DEF SearchGood, Outdated
<1>3. \A k : Holds(k)' <=> Holds(k)
  BY TableStays
<1> QED
  BY <1>2, <1>3 DEF FormInv, FieldsGood, Fits

\* The lookup by name is answered, with one record or with several.
LEMMA NameAnsweredKeeps ==
  ASSUME FormInv, NEW x \in searches, NameAnswered(x)
  PROVE  FormInv' /\ RecordKeepsItsPersonStep
<1>1. /\ SearchGood(x) /\ x.by = "name" /\ searches' = searches \ {x}
      /\ UNCHANGED <<customers, copied, strayed, editing, question, saves, moves, sent>>
  BY DEF NameAnswered, FormInv, SearchesGood
<1>2. FieldsGood'
  <2>1. CASE \E k \in x.found : Fills(k, TRUE) /\ late' = Outdated(x)
    <3>1. PICK k \in x.found : Fills(k, TRUE) /\ late' = Outdated(x)
      BY <2>1
    <3>2. k \in Read /\ Holds(k) /\ x.values.phone = None
      BY <1>1 DEF SearchGood
    <3>3. late' \in BOOLEAN /\ (~late' /\ k.phone = None => form.phone = k.phone)
      BY <3>1, <3>2 DEF Outdated
    <3> QED
      BY <1>1, <3>1, <3>2, <3>3, FillsFields
  <2>2. CASE /\ choices' = x.found
             /\ late' = ((late /\ known # None) \/ (x.found # {} /\ Outdated(x)))
             /\ UNCHANGED <<form, known, byName>>
    <3>1. /\ late' \in BOOLEAN /\ (late /\ known # None => late')
          /\ x.found # {} /\ Outdated(x) => late'
      BY <2>2 DEF FormInv, FieldsGood, Outdated
    <3> QED
      BY <1>1, <2>2, <3>1, OfferedFields
  <2> QED
    BY <2>1, <2>2 DEF NameAnswered
<1> QED
  BY <1>1, <1>2, AnswerAlone

\* A lookup fails, and the form stays as it is.
LEMMA SearchFailsKeeps ==
  ASSUME FormInv, NEW x \in searches, SearchFails(x)
  PROVE  FormInv' /\ RecordKeepsItsPersonStep
<1>1. UNCHANGED <<customers, copied, strayed, form, known, byName, choices, late>>
  BY DEF SearchFails
<1>2. \A k : Holds(k)' <=> Holds(k)
  BY <1>1, TableStays
<1>3. FieldsGood'
  BY <1>1, <1>2 DEF FormInv, FieldsGood, Fits
<1> QED
  BY <1>3, AnswerAlone DEF SearchFails

-----------------------------------------------------------------------------
\* A save of a customer that fits its record joins the others.
LEMMA SavesResolvedGood ==
  ASSUME FormInv, UNCHANGED <<customers, copied, strayed>>, NEW r \in Resolved, Named(r.values),
         r.known # None => Holds(r.known) /\ (~r.late => Fits(r.values, r.known)),
         SavesResolved(r)
  PROVE  SavesGood' /\ sent' \in Nat
<1>1. SaveGood(SaveOf(r)) /\ sent \in Nat
  BY SaveOfGood DEF FormInv, TableGood
<1>2. PICK d : d = SaveOf(r)
  OBVIOUS
<1>3. saves' = saves \cup {d} /\ sent' = sent + 1
  BY <1>2 DEF SavesResolved
<1>4. SaveGood(d)
  BY <1>1, <1>2
<1> QED
  BY <1>1, <1>3, <1>4, TableStays DEF FormInv, SavesGood

\* Save is pressed: at once where the customer is known, else after a lookup.
LEMMA SubmitKeeps ==
  ASSUME FormInv, Submit
  PROVE  FormInv' /\ RecordKeepsItsPersonStep
<1>1. PICK r : r = [known |-> known, values |-> form, late |-> late]
  OBVIOUS
<1>2. /\ UNCHANGED <<customers, copied, strayed, form, known, byName, choices, editing,
                     searches, late>>
      /\ moves' = moves + 1 /\ Complete(form)
  BY DEF Submit, Move
<1>3. /\ form \in Values /\ known \in OrNone(Read) /\ late \in BOOLEAN
      /\ known # None => Holds(known) /\ (~late => Fits(form, known))
  BY DEF FormInv, FieldsGood
<1>4. r \in Resolved
  BY <1>1, <1>3 DEF Resolved
<1>5. r.known = known /\ r.values = form /\ r.late = late /\ Named(form)
  BY <1>1, <1>2 DEF Complete, Named
<1>6. \A k : Holds(k)' <=> Holds(k)
  BY <1>2, TableStays
<1>7. QuestionGood' /\ SavesGood' /\ sent' \in Nat
  <2>1. CASE known # None /\ question' = r /\ UNCHANGED <<saves, sent>>
    <3>1. QuestionGood'
      BY <1>2, <1>3, <1>4, <1>5, <1>6, <2>1 DEF QuestionGood, Complete, Fits
    <3>2. SavesGood' /\ sent' \in Nat
      BY <1>2, <2>1, TableStays DEF FormInv, SavesGood, TableGood
    <3> QED
      BY <3>1, <3>2
  <2>2. CASE SavesResolved(r) /\ UNCHANGED question
    <3>1. SavesGood' /\ sent' \in Nat
      BY <1>2, <1>3, <1>4, <1>5, <2>2, SavesResolvedGood
    <3>2. QuestionGood'
      BY <1>6, <2>2 DEF FormInv, QuestionGood, Complete, Fits
    <3> QED
      BY <3>1, <3>2
  <2> QED
    BY <1>1, <2>1, <2>2 DEF Submit
<1>8. FieldsGood' /\ SearchesGood'
  BY <1>2, <1>6, TableStays DEF FormInv, FieldsGood, SearchesGood, Fits
<1>9. TableGood'
  BY <1>2, <1>7 DEF FormInv, TableGood
<1> QED
  BY <1>2, <1>7, <1>8, <1>9, TableStays DEF FormInv

\* The lookup of a save is answered: it saves, or asks which customer is meant.
LEMMA SubmitAnsweredKeeps ==
  ASSUME FormInv, NEW x \in searches, SubmitAnswered(x)
  PROVE  FormInv' /\ RecordKeepsItsPersonStep
<1>1. /\ SearchGood(x) /\ searches' = searches \ {x}
      /\ UNCHANGED <<customers, copied, strayed, editing, question, moves>>
  BY DEF SubmitAnswered, FormInv, SearchesGood
<1>2. \A k : Holds(k)' <=> Holds(k)
  BY <1>1, TableStays
<1>3. FieldsGood' /\ SavesGood' /\ sent' \in Nat
  <2>1. CASE /\ choices' = x.found
             /\ late' = ((late /\ known # None) \/ Outdated(x))
             /\ UNCHANGED <<form, known, byName, saves, sent>>
    <3>1. /\ late' \in BOOLEAN /\ (late /\ known # None => late')
          /\ x.found # {} /\ Outdated(x) => late'
      BY <2>1 DEF FormInv, FieldsGood, Outdated
    <3>2. FieldsGood'
      BY <1>1, <2>1, <3>1, OfferedFields
    <3>3. SavesGood' /\ sent' \in Nat
      BY <1>1, <2>1, TableStays DEF FormInv, SavesGood, TableGood
    <3> QED
      BY <3>2, <3>3
  <2>2. CASE /\ IF Complete(x.values)
                THEN SavesResolved([known |-> None, values |-> x.values, late |-> FALSE])
                ELSE UNCHANGED <<saves, sent>>
             /\ UNCHANGED <<form, known, byName, choices, late>>
    <3>1. FieldsGood'
      BY <1>2, <2>2 DEF FormInv, FieldsGood, Fits
    <3>2. SavesGood' /\ sent' \in Nat
      <4>1. CASE Complete(x.values)
        <5>1. PICK r : r = [known |-> None, values |-> x.values, late |-> FALSE]
          OBVIOUS
        <5>2. r \in Resolved
          BY <1>1, <5>1 DEF SearchGood, Resolved, OrNone
        <5>3. r.known = None /\ r.values = x.values /\ Named(x.values)
          BY <4>1, <5>1 DEF Complete, Named
        <5> QED
          BY <1>1, <2>2, <4>1, <5>1, <5>2, <5>3, SavesResolvedGood
      <4>2. CASE ~Complete(x.values)
        BY <1>1, <2>2, <4>2, TableStays DEF FormInv, SavesGood, TableGood
      <4> QED
        BY <4>1, <4>2
    <3> QED
      BY <3>1, <3>2
  <2>3. CASE \E k \in x.found :
               /\ Fills(k, x.values.phone = None)
               /\ SavesResolved([known |-> k, values |-> Filled(x.values, k, x.values.phone = None),
                                 late |-> FALSE])
               /\ late' = Outdated(x)
    <3>1. PICK named \in BOOLEAN : named <=> x.values.phone = None
      OBVIOUS
    <3>2. PICK k \in x.found :
            /\ Fills(k, named)
            /\ SavesResolved([known |-> k, values |-> Filled(x.values, k, named), late |-> FALSE])
            /\ late' = Outdated(x)
      BY <2>3, <3>1
    <3>3. /\ k \in Read /\ Holds(k) /\ x.values \in Values
          /\ ~named => k.phone = x.values.phone
      BY <1>1, <3>1 DEF SearchGood
    <3>4. late' \in BOOLEAN /\ (~late' /\ ~(named /\ k.phone # None) => form.phone = k.phone)
      BY <3>1, <3>2, <3>3 DEF Outdated
    <3>5. FieldsGood'
      BY <1>1, <3>2, <3>3, <3>4, FillsFields
    <3>6. PICK v : v = Filled(x.values, k, named)
      OBVIOUS
    <3>7. v \in Values /\ v.name = k.name /\ k.name # None /\ v.phone = k.phone
      BY <3>1, <3>3, <3>6, FilledFits
    <3>8. PICK r : r = [known |-> k, values |-> v, late |-> FALSE]
      OBVIOUS
    <3>9. r \in Resolved
      BY <3>3, <3>7, <3>8 DEF Resolved, OrNone
    <3>10. r.known = k /\ r.values = v
      BY <3>8
    <3>11. Named(v) /\ Fits(v, k)
      BY <3>7 DEF Fits, SameName, Named
    <3>12. SavesGood' /\ sent' \in Nat
      BY <1>1, <3>2, <3>3, <3>6, <3>8, <3>9, <3>10, <3>11, SavesResolvedGood
    <3> QED
      BY <3>5, <3>12
  <2> QED
    BY <2>1, <2>2, <2>3 DEF SubmitAnswered
<1>4. QuestionGood'
  BY <1>1, <1>2 DEF FormInv, QuestionGood, Complete, Fits
<1>5. TableGood' /\ SearchesGood'
  BY <1>1, <1>3, TableStays DEF FormInv, TableGood, SearchesGood
<1> QED
  BY <1>1, <1>3, <1>4, <1>5, TableStays DEF FormInv
\* Another person has no record yet; the same one has the record that was asked about.
LEMMA AnswerQuestionKeeps ==
  ASSUME FormInv, NEW other \in BOOLEAN, AnswerQuestion(other)
  PROVE  FormInv' /\ RecordKeepsItsPersonStep
<1>1. /\ question # None /\ question' = None
      /\ UNCHANGED <<customers, copied, strayed, form, known, byName, choices, editing, searches,
                     late, moves>>
  BY DEF AnswerQuestion
<1>2. PICK q : q = question
  OBVIOUS
<1>3. /\ q \in Resolved /\ q.known # None /\ Complete(q.values) /\ Holds(q.known)
      /\ ~q.late => Fits(q.values, q.known)
  BY <1>1, <1>2 DEF FormInv, QuestionGood
<1>4. SavesGood' /\ sent' \in Nat
  <2>1. CASE ~other
    BY <1>1, <1>2, <1>3, <2>1, SavesResolvedGood DEF AnswerQuestion, Complete, Named
  <2>2. CASE other
    <3>1. PICK v : v = [q.values EXCEPT !.phone = None]
      OBVIOUS
    <3>2. PICK r : r = [known |-> None, late |-> FALSE, values |-> v]
      OBVIOUS
    <3>3. q.values \in Values
      BY <1>3 DEF Resolved
    <3>4. v = [type |-> q.values.type, fiado |-> q.values.fiado, counter |-> q.values.counter,
               name |-> q.values.name, phone |-> None, place |-> q.values.place]
      BY <3>1, <3>3 DEF Values
    <3>5. /\ q.values.type \in {"COUNTER", "DELIVERY"} /\ q.values.fiado \in BOOLEAN
          /\ q.values.counter \in OrNone(Names) /\ q.values.name \in OrNone(Names)
          /\ q.values.place \in OrNone(Places) /\ None \in OrNone(Phones)
      BY <3>3 DEF Values, OrNone
    <3>6. v \in Values
      BY <3>4, <3>5 DEF Values
    <3>7. r \in Resolved
      BY <3>2, <3>6 DEF Resolved, OrNone
    <3>8. r.known = None /\ r.values = v /\ Named(v)
      BY <1>3, <3>2, <3>4 DEF Complete, Named
    <3>9. SavesResolved(r)
      BY <1>2, <2>2, <3>1, <3>2 DEF AnswerQuestion
    <3> QED
      BY <1>1, <3>7, <3>8, <3>9, SavesResolvedGood
  <2> QED
    BY <2>1, <2>2
<1>5. \A k : Holds(k)' <=> Holds(k)
  BY <1>1, TableStays
<1>6. FieldsGood' /\ QuestionGood'
  BY <1>1, <1>5 DEF FormInv, FieldsGood, QuestionGood, Fits
<1>7. TableGood' /\ SearchesGood'
  BY <1>1, <1>4, TableStays DEF FormInv, TableGood, SearchesGood
<1> QED
  BY <1>1, <1>4, <1>6, <1>7, TableStays DEF FormInv

\* The question is left without an answer.
LEMMA CancelQuestionKeeps ==
  ASSUME FormInv, CancelQuestion
  PROVE  FormInv' /\ RecordKeepsItsPersonStep
<1>1. /\ question' = None
      /\ UNCHANGED <<customers, copied, strayed, form, known, byName, choices, editing, searches,
                     saves, late, moves, sent>>
  BY DEF CancelQuestion
<1>2. \A k : Holds(k)' <=> Holds(k)
  BY <1>1, TableStays
<1>3. FieldsGood' /\ QuestionGood'
  BY <1>1, <1>2 DEF FormInv, FieldsGood, QuestionGood, Fits
<1>4. TableGood' /\ SearchesGood' /\ SavesGood'
  BY <1>1, TableStays DEF FormInv, TableGood, SearchesGood, SavesGood
<1> QED
  BY <1>1, <1>3, <1>4, TableStays DEF FormInv

-----------------------------------------------------------------------------
\* Only the saves go on.
LEMMA SavesAlone ==
  ASSUME FormInv, SavesGood',
         UNCHANGED <<customers, copied, strayed, form, known, byName, choices, editing, searches,
                     question, late, moves, sent>>
  PROVE  FormInv' /\ RecordKeepsItsPersonStep
<1>1. \A k : Holds(k)' <=> Holds(k)
  BY TableStays
<1>2. FieldsGood' /\ QuestionGood'
  BY <1>1 DEF FormInv, FieldsGood, QuestionGood, Fits, Complete
<1>3. TableGood' /\ SearchesGood'
  BY TableStays DEF FormInv, TableGood, SearchesGood
<1> QED
  BY <1>2, <1>3, TableStays DEF FormInv

\* The address to keep changes nobody's name or phone.
LEMMA KeepsAddressKeeps ==
  ASSUME FormInv, NEW d \in saves, KeepsAddress(d)
  PROVE  FormInv' /\ RecordKeepsItsPersonStep
<1>1. /\ d.step = "address" /\ SaveGood(d) /\ TableGood
      /\ UNCHANGED <<customers, copied, strayed, form, known, byName, choices, editing, searches,
                     question, late, moves, sent>>
  BY DEF KeepsAddress, FormInv, SavesGood
<1>2. PICK onFile : onFile = {c \in InTable : customers[c].phone = d.phone /\ c = d.id}
  OBVIOUS
<1>3. PICK place : place = IF onFile = {} THEN d.place ELSE customers[d.id].place
  OBVIOUS
<1>4. PICK e : e = [d EXCEPT !.step = "customer", !.place = place]
  OBVIOUS
<1>5. d \in Save
  BY <1>1 DEF SaveGood
<1>6. saves' = (saves \ {d}) \cup {e}
  <2>1. [d EXCEPT !.step = "customer",
                  !.place = IF onFile = {} THEN @ ELSE customers[d.id].place] = e
    BY <1>3, <1>4, <1>5 DEF Save
  <2> QED
    BY <1>2, <2>1 DEF KeepsAddress
<1>7. e = [no |-> d.no, id |-> d.id, name |-> d.name, phone |-> d.phone, place |-> place,
           type |-> d.type, here |-> d.here, late |-> d.late, step |-> "customer"]
  BY <1>4, <1>5 DEF Save
<1>8. /\ d.no \in Nat /\ d.id \in OrNone(Customers) /\ d.name \in OrNone(Names)
      /\ d.phone \in OrNone(Phones) /\ d.place \in OrNone(Places)
      /\ d.type \in {"COUNTER", "DELIVERY"} /\ d.here \in BOOLEAN /\ d.late \in BOOLEAN
  BY <1>5 DEF Save
<1>9. place \in OrNone(Places)
  <2>1. CASE onFile = {}
    BY <1>3, <1>8, <2>1
  <2>2. CASE onFile # {}
    <3>1. d.id \in InTable
      BY <1>2, <2>2
    <3>2. customers[d.id] \in Record
      BY <1>1, <3>1 DEF InTable, TableGood
    <3> QED
      BY <1>3, <2>2, <3>2 DEF Record
  <2> QED
    BY <2>1, <2>2
<1>10. e \in Save
  BY <1>7, <1>8, <1>9 DEF Save
<1>11. e.id = d.id /\ e.name = d.name /\ e.phone = d.phone /\ e.late = d.late
  BY <1>7
<1>12. SaveGood(e)
  BY <1>1, <1>10, <1>11 DEF SaveGood, Holds, Agrees
<1>13. SavesGood'
  BY <1>1, <1>6, <1>12, TableStays DEF FormInv, SavesGood
<1> QED
  BY <1>1, <1>13, SavesAlone

\* A save is refused or lost.
LEMMA SaveFailsKeeps ==
  ASSUME FormInv, NEW d \in saves, SaveFails(d)
  PROVE  FormInv' /\ RecordKeepsItsPersonStep
<1>1. SavesGood'
  BY TableStays DEF SaveFails, FormInv, SavesGood
<1> QED
  BY <1>1, SavesAlone DEF SaveFails

(***************************************************************************)
(* The write itself: a save that is not late writes its record over with   *)
(* the phone, or the name, it has; a late one makes it a record that       *)
(* strayed, and a new record is of nobody yet. So what was read of any     *)
(* other still agrees.                                                     *)
(***************************************************************************)
LEMMA WritesCustomerKeeps ==
  ASSUME FormInv, NEW d \in saves, WritesCustomer(d)
  PROVE  FormInv' /\ RecordKeepsItsPersonStep
<1>1. PICK row : row = [name |-> d.name, phone |-> d.phone, place |-> d.place]
  OBVIOUS
<1>2. PICK c \in Customers :
        /\ IF d.id = None THEN customers[c] = NoCustomer ELSE c = d.id
        /\ customers' = [customers EXCEPT ![c] = row]
        /\ saves' = (saves \ {d}) \cup {[d EXCEPT !.step = "order", !.id = c]}
        /\ strayed' = IF d.late /\ d.id # None THEN strayed \cup {c} ELSE strayed
  BY <1>1 DEF WritesCustomer
<1>3. /\ d.step = "customer"
      /\ UNCHANGED <<copied, form, known, byName, choices, editing, searches, question, late,
                     moves, sent>>
  BY DEF WritesCustomer
<1>4. TableGood /\ SaveGood(d) /\ d \in Save
  BY DEF FormInv, SavesGood, SaveGood
<1>5. /\ d.no \in Nat /\ d.name \in Names /\ d.phone \in OrNone(Phones)
      /\ d.place \in OrNone(Places) /\ d.type \in {"COUNTER", "DELIVERY"}
      /\ d.here \in BOOLEAN /\ d.late \in BOOLEAN
  BY <1>3, <1>4 DEF SaveGood, Save, OrNone
<1>6. row \in Record /\ row.name = d.name /\ row.phone = d.phone /\ row # NoCustomer
  BY <1>1, <1>5, CustomersAssumption DEF Record
<1>7. customers'[c] = row /\ \A b \in Customers \ {c} : customers'[b] = customers[b]
  BY <1>2, <1>4 DEF TableGood
<1>8. d.id # None /\ ~d.late /\ c \notin strayed =>
        /\ customers[c] # NoCustomer /\ customers[c].phone = d.phone
        /\ d.phone = None => SameName(customers[c].name, d.name)
  BY <1>2, <1>3, <1>4 DEF SaveGood, Holds, Agrees
<1>9. \A b \in Customers : customers[b] # NoCustomer => customers[b].name \in Names
  BY <1>4 DEF TableGood, Record
<1>10. \A k : k.id \in Customers /\ k.name \in Names /\ Holds(k) => Holds(k)'
  <2> SUFFICES ASSUME NEW k, k.id \in Customers, k.name \in Names, Holds(k), k.id \notin strayed'
               PROVE  /\ customers'[k.id] # NoCustomer /\ customers'[k.id].phone = k.phone
                      /\ k.phone = None => SameName(customers'[k.id].name, k.name)
    BY DEF Holds, Agrees
  <2>1. /\ k.id \notin strayed /\ customers[k.id] # NoCustomer
        /\ customers[k.id].phone = k.phone
        /\ k.phone = None => SameName(customers[k.id].name, k.name)
    BY <1>2 DEF Holds, Agrees
  <2>2. CASE k.id # c
    BY <1>7, <2>1, <2>2
  <2>3. CASE k.id = c
    <3>1. d.id # None /\ ~d.late
      BY <1>2, <2>1, <2>3
    <3>2. customers[c].phone = d.phone /\ (d.phone = None => SameName(customers[c].name, d.name))
      BY <1>8, <2>1, <2>3, <3>1
    <3>3. /\ customers[c].name \in Names /\ d.name # None /\ k.name # None
          /\ customers[c].name # None
      BY <1>5, <1>9, <2>1, <2>3
    <3> QED
      BY <1>6, <1>7, <2>1, <2>3, <3>2, <3>3 DEF SameName
  <2> QED
    BY <2>2, <2>3
<1>11. \A k \in Read : Holds(k) => Holds(k)'
  BY <1>10 DEF Read
<1>12. \A x : SearchGood(x) => SearchGood(x)'
  BY <1>11 DEF SearchGood
<1>13. \A e : SaveGood(e) => SaveGood(e)'
  <2> SUFFICES ASSUME NEW e, SaveGood(e), e.step # "order", e.id # None, ~e.late
               PROVE  Holds(e)'
    BY DEF SaveGood
  <2>1. e.id \in Customers /\ e.name \in Names /\ Holds(e)
    BY DEF SaveGood, Save, OrNone
  <2> QED
    BY <1>10, <2>1
<1>14. SavesGood'
  <2>1. PICK e : e = [d EXCEPT !.step = "order", !.id = c]
    OBVIOUS
  <2>2. e = [no |-> d.no, id |-> c, name |-> d.name, phone |-> d.phone, place |-> d.place,
             type |-> d.type, here |-> d.here, late |-> d.late, step |-> "order"]
    BY <1>4, <2>1 DEF Save
  <2>3. e \in Save /\ e.step = "order"
    BY <1>5, <2>2 DEF Save, OrNone
  <2>4. SaveGood(e)'
    BY <2>3 DEF SaveGood
  <2> QED
    BY <1>2, <1>13, <2>1, <2>4 DEF FormInv, SavesGood
<1>15. SearchesGood'
  BY <1>3, <1>12 DEF FormInv, SearchesGood
<1>16. FieldsGood'
  <2>1. known # None => Holds(known)'
    <3> SUFFICES ASSUME known # None  PROVE Holds(known)'
      OBVIOUS
    <3>1. PICK k : k = known
      OBVIOUS
    <3>2. k \in Read /\ Holds(k)
      BY <3>1 DEF FormInv, FieldsGood, OrNone
    <3> QED
      BY <1>3, <1>11, <3>1, <3>2
  <2> QED
    BY <1>3, <1>11, <2>1 DEF FormInv, FieldsGood, Fits
<1>17. QuestionGood'
  <2> SUFFICES ASSUME question # None
               PROVE  QuestionGood'
    BY <1>3 DEF QuestionGood
  <2>1. PICK q : q = question
    OBVIOUS
  <2>2. /\ q \in Resolved /\ q.known # None /\ Complete(q.values)
        /\ Holds(q.known) /\ (~q.late => Fits(q.values, q.known))
    BY <2>1 DEF FormInv, QuestionGood
  <2>3. q.known \in Read
    BY <2>2 DEF Resolved, OrNone
  <2>4. Holds(q.known)'
    BY <1>11, <2>2, <2>3
  <2> QED
    BY <1>3, <2>1, <2>2, <2>4 DEF QuestionGood
<1>18. TableGood'
  <2>1. customers' \in [Customers -> Record \cup {NoCustomer}]
    BY <1>2, <1>4, <1>6 DEF TableGood
  <2> QED
    BY <1>2, <1>3, <1>4, <2>1 DEF TableGood
<1>20. CopiesGood'
  BY <1>3, <1>11 DEF FormInv, CopiesGood
<1>19. RecordKeepsItsPersonStep
  <2> SUFFICES ASSUME NEW b \in Customers \ strayed, NEW e \in WritersOf(b), ~e.late
               PROVE  /\ customers'[b].phone = customers[b].phone
                      /\ customers[b].phone = None => SameName(customers'[b].name, customers[b].name)
    BY DEF RecordKeepsItsPersonStep
  <2>1. e \in saves /\ e \notin saves' /\ e.id = b /\ customers'[b] # customers[b]
    BY DEF WritersOf
  <2>2. e = d
    BY <1>2, <2>1
  <2>3. b = c
    BY <1>7, <2>1
  <2>4. b # None
    BY <2>1, FormAssumption
  <2>5. /\ customers[c] # NoCustomer /\ customers[c].phone = d.phone
        /\ d.phone = None => SameName(customers[c].name, d.name)
    BY <1>8, <2>1, <2>2, <2>3, <2>4
  <2> QED
    BY <1>5, <1>6, <1>7, <1>9, <2>3, <2>5 DEF SameName
<1> QED
  BY <1>14, <1>15, <1>16, <1>17, <1>18, <1>19, <1>20 DEF FormInv

-----------------------------------------------------------------------------
\* Saves begun at another form are as good as they were.
LEMMA ElsewhereGood ==
  ASSUME NEW S, \A d \in S : SaveGood(d)
  PROVE  \A d \in Elsewhere(S) : SaveGood(d)
<1> SUFFICES ASSUME NEW d \in S
             PROVE  SaveGood([d EXCEPT !.here = FALSE])
  BY DEF Elsewhere
<1>1. SaveGood(d) /\ d \in Save
  BY DEF SaveGood
<1>2. PICK e : e = [d EXCEPT !.here = FALSE]
  OBVIOUS
<1>3. e = [no |-> d.no, id |-> d.id, name |-> d.name, phone |-> d.phone, place |-> d.place,
           type |-> d.type, here |-> FALSE, late |-> d.late, step |-> d.step]
  BY <1>1, <1>2 DEF Save
<1>4. /\ d.no \in Nat /\ d.id \in OrNone(Customers) /\ d.name \in OrNone(Names)
      /\ d.phone \in OrNone(Phones) /\ d.place \in OrNone(Places)
      /\ d.type \in {"COUNTER", "DELIVERY"} /\ d.late \in BOOLEAN
      /\ d.step \in {"address", "customer", "order"}
  BY <1>1 DEF Save
<1>5. e \in Save
  BY <1>3, <1>4 DEF Save
<1>6. /\ e.id = d.id /\ e.name = d.name /\ e.phone = d.phone /\ e.late = d.late
      /\ e.step = d.step
  BY <1>3
<1>7. SaveGood(e)
  BY <1>1, <1>5, <1>6 DEF SaveGood, Holds, Agrees
<1> QED
  BY <1>2, <1>7

\* A form is mounted, blank or with an order's customer.
LEMMA MountsKeeps ==
  ASSUME FormInv, NEW v, NEW k, NEW edits \in BOOLEAN, Mounts(v, k, edits),
         UNCHANGED <<customers, strayed, sent>>, moves' \in Nat, CopiesGood', SavesGood',
         v \in Values, k \in OrNone(Read), k # None => Holds(k) /\ Fits(v, k)
  PROVE  FormInv' /\ RecordKeepsItsPersonStep
<1>1. /\ form' = v /\ known' = k /\ byName' = FALSE /\ choices' = {} /\ late' = FALSE
      /\ editing' = edits /\ searches' = {} /\ question' = None
  BY DEF Mounts
<1>2. k # None => Holds(k)'
  BY TableStays
<1>3. FieldsGood'
  BY <1>1, <1>2 DEF FieldsGood, Fits
<1>4. TableGood' /\ SearchesGood' /\ QuestionGood'
  BY <1>1 DEF FormInv, TableGood, SearchesGood, QuestionGood
<1> QED
  BY <1>3, <1>4, TableStays DEF FormInv

\* The order is saved and the form starts anew.
LEMMA OrderSavedKeeps ==
  ASSUME FormInv, NEW d \in saves, OrderSaved(d)
  PROVE  FormInv' /\ RecordKeepsItsPersonStep
<1>1. UNCHANGED <<customers, strayed, moves, sent>> /\ moves \in Nat
  BY DEF OrderSaved, FormInv, TableGood
<1>2. EmptyForm \in Values
  BY DEF EmptyForm, Values, OrNone
<1>5. CopiesGood'
  <2>1. \A k \in copied : k \in Read /\ Holds(k) /\ (Holds(k)' <=> Holds(k))
    BY <1>1, TableStays DEF FormInv, CopiesGood
  <2>2. CASE d.id = None
    BY <1>1, <2>1, <2>2 DEF OrderSaved, CopiesGood
  <2>3. CASE d.id # None
    <3>1. PICK k : k = CopyOf(d.id, d.type)
      OBVIOUS
    <3>2. copied' = copied \cup {k}
      BY <2>3, <3>1 DEF OrderSaved
    <3>3. d.id \in InTable
      BY <2>3 DEF OrderSaved, Orderable
    <3>4. k \in Read /\ Holds(k)'
      BY <1>1, <3>1, <3>3, CopyOfHolds, TableStays DEF FormInv
    <3> QED
      BY <2>1, <3>2, <3>4 DEF CopiesGood
  <2> QED
    BY <2>2, <2>3
<1>3. CASE editing
  <2>1. Mounts(EmptyForm, None, FALSE) /\ saves' = Elsewhere(saves \ {d})
    BY <1>3 DEF OrderSaved
  <2>2. SavesGood'
    BY <1>1, <2>1, ElsewhereGood, TableStays DEF FormInv, SavesGood
  <2> QED
    BY <1>1, <1>2, <1>5, <2>1, <2>2, MountsKeeps DEF OrNone
<1>4. CASE ~editing
  <2>1. /\ saves' = saves \ {d} /\ UNCHANGED <<editing, searches, question>>
        /\ Blank \/ UNCHANGED <<form, known, byName, choices, late>>
    BY <1>4 DEF OrderSaved
  <2>2. \A k : Holds(k)' <=> Holds(k)
    BY <1>1, TableStays
  <2>3. FieldsGood'
    <3>1. CASE Blank
      BY <3>1, BlankFields DEF Blank
    <3>2. CASE UNCHANGED <<form, known, byName, choices, late>>
      BY <2>2, <3>2 DEF FormInv, FieldsGood, Fits
    <3> QED
      BY <2>1, <3>1, <3>2
  <2>4. QuestionGood'
    BY <2>1, <2>2 DEF FormInv, QuestionGood, Fits, Complete
  <2>5. TableGood' /\ SearchesGood' /\ SavesGood'
    BY <1>1, <2>1, TableStays DEF FormInv, TableGood, SearchesGood, SavesGood
  <2> QED
    BY <1>1, <1>5, <2>3, <2>4, <2>5, TableStays DEF FormInv
<1> QED
  BY <1>3, <1>4

\* An edit is given up.
LEMMA CancelEditKeeps ==
  ASSUME FormInv, CancelEdit
  PROVE  FormInv' /\ RecordKeepsItsPersonStep
<1>1. /\ Mounts(EmptyForm, None, FALSE) /\ saves' = Elsewhere(saves)
      /\ UNCHANGED <<customers, copied, strayed, sent>>
  BY Zenon DEF CancelEdit
<1>4. moves' \in Nat
  BY DEF CancelEdit, Move, FormInv, TableGood
<1>2. EmptyForm \in Values
  BY DEF EmptyForm, Values, OrNone
<1>3. SavesGood'
  BY <1>1, ElsewhereGood, TableStays DEF FormInv, SavesGood
<1>5. CopiesGood'
  BY <1>1, TableStays DEF FormInv
<1> QED
  BY <1>1, <1>2, <1>3, <1>4, <1>5, MountsKeeps DEF OrNone

\* An order is opened, with the customer as the order copied it.
LEMMA EditOrderKeeps ==
  ASSUME FormInv, NEW k \in copied, EditOrder(k)
  PROVE  FormInv' /\ RecordKeepsItsPersonStep
<1>1. k \in Read /\ Holds(k)
  BY DEF FormInv, CopiesGood
<1>2. PICK type \in {"COUNTER", "DELIVERY"} :
        type = IF k.place = None THEN "COUNTER" ELSE "DELIVERY"
  OBVIOUS
<1>3. PICK base : base = [EmptyForm EXCEPT !.type = type, !.fiado = TRUE]
  OBVIOUS
<1>4. base = [type |-> type, fiado |-> TRUE, counter |-> None,
              name |-> None, phone |-> None, place |-> None]
  BY <1>3 DEF EmptyForm
<1>5. base \in Values /\ base.phone = None
  BY <1>4 DEF Values, OrNone
<1>6. PICK v : v = Filled(base, k, TRUE)
  OBVIOUS
<1>7. /\ v \in Values /\ v.name = k.name /\ k.name # None
      /\ v.phone = IF k.phone # None THEN k.phone ELSE None
  BY <1>1, <1>5, <1>6, FilledFits
<1>8. Fits(v, k)
  BY <1>7 DEF Fits, SameName
<1>9. /\ Mounts(v, k, TRUE) /\ saves' = Elsewhere(saves)
      /\ UNCHANGED <<customers, copied, strayed, sent>>
  BY <1>2, <1>3, <1>6, Zenon DEF EditOrder
<1>10. moves' \in Nat
  BY DEF EditOrder, Move, FormInv, TableGood
<1>11. SavesGood' /\ CopiesGood'
  BY <1>9, ElsewhereGood, TableStays DEF FormInv, SavesGood
<1> QED
  BY <1>1, <1>7, <1>8, <1>9, <1>10, <1>11, MountsKeeps DEF OrNone

-----------------------------------------------------------------------------

\* Each step of the form.
LEMMA FormStepKeeps ==
  ASSUME FormInv, FormStep
  PROVE  FormInv' /\ RecordKeepsItsPersonStep
<1>1. CASE \E field \in {"name", "phone", "place", "counter"} :
             \E v \in FieldValues(field) : Type(field, v)
  BY <1>1, TypeKeeps
<1>2. CASE ToggleType \/ ChooseFiado \/ ClearAll \/ CancelEdit
  BY <1>2, ToggleKeeps, ClearAllKeeps, CancelEditKeeps
<1>3. CASE LookupPhone \/ LookupName \/ SubmitLooksUp
  BY <1>3, LooksUpKeeps
<1>4. CASE \E x \in searches :
             PhoneAnswered(x) \/ NameAnswered(x) \/ SubmitAnswered(x) \/ SearchFails(x)
  BY <1>4, PhoneAnsweredKeeps, NameAnsweredKeeps, SubmitAnsweredKeeps, SearchFailsKeeps
<1>5. CASE \E k \in choices : Choose(k)
  BY <1>5, ChooseKeeps
<1>6. CASE Submit \/ CancelQuestion \/ \E other \in BOOLEAN : AnswerQuestion(other)
  BY <1>6, SubmitKeeps, CancelQuestionKeeps, AnswerQuestionKeeps
<1>7. CASE \E d \in saves :
             KeepsAddress(d) \/ WritesCustomer(d) \/ OrderSaved(d) \/ SaveFails(d)
  BY <1>7, KeepsAddressKeeps, WritesCustomerKeeps, OrderSavedKeeps, SaveFailsKeeps
<1>8. CASE \E k \in copied : EditOrder(k)
  BY <1>8, EditOrderKeeps
<1> QED
  BY <1>1, <1>2, <1>3, <1>4, <1>5, <1>6, <1>7, <1>8 DEF FormStep

\* The customers an instance starts with, and an empty form.
LEMMA FormInvInit ==
  ASSUME ShopInit
  PROVE  FormInv
<1>1. FormInit
  BY DEF ShopInit
<1>2. EmptyForm \in Values
  BY DEF EmptyForm, Values, OrNone
<1>3. FieldsGood /\ SearchesGood /\ QuestionGood /\ SavesGood
  BY <1>1, <1>2 DEF FormInit, FieldsGood, SearchesGood, QuestionGood, SavesGood, OrNone
<1>4. TableGood
  BY <1>1, CustomersAssumption DEF FormInit, TableGood
<1>5. CopiesGood
  BY <1>1, <1>4, CopyOfHolds DEF FormInit, CopiesOf, CopiesGood
<1> QED
  BY <1>3, <1>4, <1>5 DEF FormInv

\* Every other part of the shop leaves the form alone.
LEMMA FormInvNext ==
  ASSUME FormInv, [ShopNext]_shopVars
  PROVE  FormInv' /\ (RecordKeepsItsPersonStep \/ UNCHANGED formVars)
<1>1. CASE OnForm
  BY <1>1, FormStepKeeps DEF OnForm
<1>2. CASE ~OnForm
  <2>1. UNCHANGED formVars
    BY <1>2 DEF ShopNext, shopVars, OnExpenses, OnMarkings, OnMenu, OnLevels, OnRepricing,
                OnPricing, OnScreen, OnLines, FormStays
  <2>2. UNCHANGED <<customers, copied, strayed, form, known, byName, choices, editing, searches,
                    question, saves, late, moves, sent>>
    BY <2>1 DEF formVars
  <2>3. SavesGood'
    BY <2>2, TableStays DEF FormInv, SavesGood
  <2> QED
    BY <2>1, <2>2, <2>3, SavesAlone
<1> QED
  BY <1>1, <1>2

(***************************************************************************)
(* What is known of the records read, of the form and of the saves on      *)
(* their way holds always.                                                 *)
(***************************************************************************)
THEOREM FormInvariant == ShopSpec => []FormInv
<1>1. ShopInit => FormInv
  BY FormInvInit
<1>2. FormInv /\ [ShopNext]_shopVars => FormInv'
  BY FormInvNext
<1> QED
  BY <1>1, <1>2, PTL DEF ShopSpec

(***************************************************************************)
(* The form, the customers table and the saves keep their types            *)
(* (cash/use-order-form.ts, cash/save-order.ts).                           *)
(***************************************************************************)
THEOREM FormTypeCorrect == ShopSpec => []FormTypeOK
<1>1. FormInv => FormTypeOK
  BY DEF FormInv, TableGood, CopiesGood, FieldsGood, SearchesGood, SearchGood, QuestionGood,
         SavesGood, SaveGood, FormTypeOK, OrNone
<1> QED
  BY <1>1, FormInvariant, PTL

(***************************************************************************)
(* A save over a record leaves it its phone, or its name where it has      *)
(* none, however lookups, choices, answers and other saves come between    *)
(* (cash/use-customer-lookup.ts, cash/save-order.ts).                      *)
(***************************************************************************)
THEOREM RecordsKeepTheirPeople == ShopSpec => RecordKeepsItsPerson
<1>1. FormInv /\ [ShopNext]_shopVars => [RecordKeepsItsPersonStep]_formVars
  BY FormInvNext
<1> QED
  BY <1>1, FormInvariant, PTL DEF ShopSpec, RecordKeepsItsPerson

=============================================================================
