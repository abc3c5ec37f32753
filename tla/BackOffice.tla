----------------------------- MODULE BackOffice -----------------------------
(***************************************************************************)
(* What the shop does around its orders: the night's expenses and their    *)
(* notes (ExpenseDesk) with the closing of the night (ClosingDesk), the    *)
(* menu (MenuBook) and the orders priced by it (OrderPricing), a screen    *)
(* that follows the day (DayScreen), the order being typed (OrderLines)    *)
(* and the customer it is saved to (OrderForm), over one clock.            *)
(*                                                                         *)
(* These parts share the clock and the night and, but for the menu and     *)
(* what is priced by it, no other table, so their interleavings add        *)
(* nothing to one another: a behavior plays one `scene`, in which some     *)
(* parts move and the others stand.                                        *)
(*                                                                         *)
(*    expenses     one request at a time, the night closing and reopening  *)
(*    markings     edits and markings of expenses that overlap             *)
(*    menu         one menu request at a time, the days passing            *)
(*    levels       combos put together and add-ons lent, one at a time     *)
(*    repricing    edits, overlapping on one day, of products for sale     *)
(*    pricing      an order launched and edited while the menu changes     *)
(*    screen       a screen, the other devices, the night passing          *)
(*    form         the order form and the customers it saves               *)
(*    lines        the lines of one order after another                    *)
(***************************************************************************)
EXTENDS ExpenseDesk, OrderPricing, DayScreen, OrderForm, OrderLines

CONSTANTS
    Scenes,         \* the scenes played
    Alone,          \* the session of the scenes in which no requests overlap
    MenuProducts    \* the products of the scene "menu"; "levels" has them all

ASSUME SceneAssumption ==
    /\ Scenes \subseteq
          {"expenses", "markings", "menu", "levels", "repricing", "pricing",
           "screen", "form", "lines"}
    /\ Alone \in Sessions
    /\ MenuProducts \subseteq Products

VARIABLE scene

shopVars == <<expenseVars, menuVars, billVars, screenVars, formVars, lineVars, scene>>

NoExpenses == [e \in Expenses |-> NoExpense]
NoMenu == [p \in Products |-> NoProduct]
NoCustomers == [c \in Customers |-> NoCustomer]

\* No orders yet; a night has its row when an expense is on it.
ShopInit ==
    /\ scene \in Scenes
    /\ now = FirstMoment
    /\ ExpenseInit /\ MenuInit /\ BillInit /\ ScreenInit /\ FormInit /\ LinesInit
    /\ scene \in {"expenses", "markings"} <=> expenses # NoExpenses
    /\ scene \in {"menu", "levels", "repricing", "pricing"} <=> products # NoMenu
    /\ scene = "pricing" <=> \E c \in Categories : addons[c] # None
    /\ scene = "levels" <=> Listed = Products
    /\ scene = "repricing" => \A p \in Listed : products[p].active /\ products[p].price # None
    /\ scene = "form" <=> customers # NoCustomers
    /\ scene # "lines" => lines = <<>>
    /\ closings = [d \in Dates |->
          [status |-> IF \E e \in Launched : expenses[e].night = d THEN "OPEN" ELSE "ABSENT",
           last |-> 0]]
    /\ orders = [o \in Orders |-> NoOrder]
    /\ trail = [o \in Orders |-> <<>>]
    /\ payments = [p \in Payments |-> NoPayment]
    /\ req = [s \in Sessions |-> Idle]
    /\ asked = 0

ClockTicks ==
    /\ now < LastMoment
    /\ now' = now + 1
    /\ UNCHANGED <<closings, orders, trail, payments, req, asked>>

ExpensesStay == UNCHANGED <<expenses, noteSeq, task>>
MenuStays    == UNCHANGED menuVars
BillStays    == UNCHANGED billVars
ScreenStays  == UNCHANGED screenVars
FormStays    == UNCHANGED formVars
LinesStay    == UNCHANGED lineVars

\* the one session of a scene without overlaps asks for one thing at a time
OnExpenses ==
    /\ scene = "expenses"
    /\ \/ req[Alone] = Idle /\ ExpenseStep(Alone)
       \/ task[Alone] = Free /\ ClosingNext(Alone) /\ ExpensesStay
       \/ ClockTicks /\ ExpensesStay
    /\ MenuStays /\ BillStays /\ ScreenStays /\ FormStays /\ LinesStay /\ UNCHANGED scene

OnMarkings ==
    /\ scene = "markings"
    /\ \E s \in Sessions : EditOrMark(s)
    /\ MenuStays /\ BillStays /\ ScreenStays /\ FormStays /\ LinesStay /\ UNCHANGED scene

\* the products the requests in flight are about
AboutProducts == {draft'[s].product : s \in {x \in Sessions : "product" \in DOMAIN draft'[x]}}

OnMenu ==
    /\ scene = "menu"
    /\ MenuStep(Alone) \/ (ClockTicks /\ MenuStays)
    /\ AboutProducts \subseteq MenuProducts
    /\ ExpensesStay /\ BillStays /\ ScreenStays /\ FormStays /\ LinesStay /\ UNCHANGED scene

\* an edit of what a combo holds and of nothing else
Composes ==
    LET e == draft'[Alone]
        row == products[e.product]
    IN  e.op = "edit" =>
            e.body = [price |-> row.price, active |-> row.active, uses |-> row.uses,
                      bundle |-> e.body.bundle]

OnLevels ==
    /\ scene = "levels"
    /\ CategoryStep(Alone) \/ (RepricingStep(Alone) /\ Composes)
    /\ ExpensesStay /\ BillStays /\ ScreenStays /\ FormStays /\ LinesStay /\ UNCHANGED scene

OnRepricing ==
    /\ scene = "repricing"
    /\ \E s \in Sessions : RepricingStep(s)
    /\ ExpensesStay /\ BillStays /\ ScreenStays /\ FormStays /\ LinesStay /\ UNCHANGED scene

\* one menu change at a time, between the steps of the handlers that price
OnPricing ==
    /\ scene = "pricing"
    /\ \/ \E s \in Sessions : PricingStep(s)
       \/ (RepricingStep(Alone) \/ CategoryStep(Alone)) /\ BillStays
       \/ (BeginCostEdit(Alone) \/ WriteCost(Alone)) /\ BillStays
    /\ ExpensesStay /\ ScreenStays /\ FormStays /\ LinesStay /\ UNCHANGED scene

OnScreen ==
    /\ scene = "screen"
    /\ \/ ScreenStep /\ UNCHANGED vars
       \/ ClockTicks /\ NightPasses
    /\ ExpensesStay /\ MenuStays /\ BillStays /\ FormStays /\ LinesStay /\ UNCHANGED scene

OnForm ==
    /\ scene = "form"
    /\ FormStep
    /\ UNCHANGED vars
    /\ ExpensesStay /\ MenuStays /\ BillStays /\ ScreenStays /\ LinesStay /\ UNCHANGED scene

OnLines ==
    /\ scene = "lines"
    /\ LinesStep
    /\ UNCHANGED vars
    /\ ExpensesStay /\ MenuStays /\ BillStays /\ ScreenStays /\ FormStays /\ UNCHANGED scene

ShopNext ==
    \/ OnExpenses \/ OnMarkings
    \/ OnMenu \/ OnLevels \/ OnRepricing \/ OnPricing
    \/ OnScreen \/ OnForm \/ OnLines

ShopSpec == ShopInit /\ [][ShopNext]_shopVars

(***************************************************************************)
(* What the screen's progress rests on: its timer fires; every load comes  *)
(* back or fails; a change sent is taken or refused, and its answer is     *)
(* heard; and the latest reload does not fail for ever. That reloads begun *)
(* before the one before came back are bounded (MaxOvertakes) is part of   *)
(* it: were every answer slower than the timer, none would ever count.     *)
(***************************************************************************)
Watched ==
    /\ scene = "screen"
    /\ UNCHANGED <<vars, menuVars, billVars, formVars, lineVars, expenses, noteSeq, task, scene>>

ScreenFairness ==
    /\ WF_shopVars(Watched /\ AutoRefresh)
    /\ WF_shopVars(Watched /\ \E x \in loads : x.kind = "first" /\ (Arrives(x) \/ Fails(x)))
    /\ WF_shopVars(Watched /\ \E x \in loads : x.kind = "reload" /\ (Arrives(x) \/ Fails(x)))
    /\ WF_shopVars(Watched /\ (ServerTakes \/ ServerRefuses))
    /\ WF_shopVars(Watched /\ ActAnswered)
    /\ SF_shopVars(Watched /\ \E x \in loads : x.latest /\ Arrives(x))

FairShopSpec == ShopSpec /\ ScreenFairness

-----------------------------------------------------------------------------
(***************************************************************************)
(* The type of every table and of every request in flight.                 *)
(***************************************************************************)
ShopTypeOK ==
    /\ now \in Nat
    /\ closings \in [Dates -> Closing]
    /\ req \in [Sessions -> Request]
    /\ ExpensesTypeOK
    /\ MenuTypeOK
    /\ BillTypeOK
    /\ ScreenTypeOK
    /\ FormTypeOK
    /\ LinesTypeOK

(***************************************************************************)
(* The promises below rest on a check made before the write, so they are   *)
(* made of requests that do not overlap.                                   *)
(***************************************************************************)

(***************************************************************************)
(* No expense holds a note that is all marked as the house's.              *)
(***************************************************************************)
NoNoteAllOutside == scene = "expenses" => NeverAllOutside

(***************************************************************************)
(* Tonight's screen follows the day (DayScreen, ScreenCatchesUp), in the   *)
(* scene in which it moves.                                                *)
(***************************************************************************)
TonightIsFollowed == scene = "screen" => ScreenCatchesUp

=============================================================================
