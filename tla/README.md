# PortalLanches in TLA+

PortalLanches is the point of sale of a snack bar that works at night: cashiers
launch orders into the current *business night*, advance them on the kitchen
board, cancel and restore them, receive fiado (orders paid later), and close the
night at the end. The API is NestJS over PostgreSQL through Prisma
(`src/backend/src`); the screens (`src/frontend`) only call it.

The API is one process that handles many requests at once. A handler `await`s the
database between its reads, its checks and its writes, so the handlers of two
cashiers interleave at every query; the writes themselves are transactions at
PostgreSQL's default isolation, READ COMMITTED. Most handlers check first and
write later **by id alone**: what the check saw may no longer be true. This
project says which promises survive that, proves the ones that do, and shows the
ones that do not.

## 1. Inventory

| Component | State it keeps | Operations | Hard behaviour | What makes it correct |
| --- | --- | --- | --- | --- |
| closing | one row per business date: status, `last_order_number` | get or create, close, close by date, reopen | closing races with launches; the night crosses midnight | no open tab in a night that closes; a closed night is the admin's |
| orders | orders, their items, `order_events` | create, replace, advance, revert, cancel, restore | two clicks, stale edits, day numbers taken together, prices that moved on since the sale | exact numbering; one step a click; every change leaves its event; a status of the order's type; what was sold keeps its price |
| fiado | `fiado_payments` | receive, refund, reschedule | two receipts or refunds at once, a receipt racing a cancel | never overpaid; a refund counts once; paid orders stand |
| report | none | the revenue of nights, the open fiado | an order that moves between fiado and cash, a receipt of another night | every cent is revenue or debt, never both |
| stock | lots, movements, oversales, counts | sale, return, entry, count, reversal | row locks, statements that see different data in one transaction, deadlocks | the balance agrees with the movements; never negative; first to expire goes first |
| staff consumption | consumptions | create, edit, delete | the same sale of stock and the same pricing as an order | as stock |
| expenses, purchases | expenses, the note (NFC-e) each holds, its lines marked as the house's | launch, edit, remove, mark | the tax office answers between the check and the write; compare-and-set of the amount alone | marking makes no money; a note keeps a line; a closed night is the admin's |
| products, supplies | products with their price history, combos, add-on lists, costs | create, edit, price typed on the supply, lend add-ons | several changes of one day, two writers of one product, days passing | the menu of an earlier night stands; one level of combos and add-ons |
| imports of the menu | none of their own | diff and write a spreadsheet's plan | products listed before the transaction that deactivates them | the next preview is empty |
| customers | one row each | search, create, update | written by a form that looked them up earlier | a record stays its person's |
| frontend: the cash desk's screen | the lists shown, the loads out | load, reload by timer, by hand and after a change, pick a date | answers out of order, lost, of another date | never back in time; comes to show what the server has |
| frontend: the order form | fields, lines, the customer found, saves out | type, look up, choose, submit | answers that come after more typing | as customers; what is saved is what was typed |
| auth, users | sessions and failed attempts (in memory) | login, logout, revoke, block | - | - |
| catalog, settings | one table each | edit one row | none of their own | - |
| nfce, analytics, ticket import, other screens | none | parsing, sums, one-off scripts, forms | - | - |

How they interact: every order, expense and receipt asks *closing* for its night
and for permission; an order's transaction also moves the *stock* and writes the
order's trail, and its items are priced by the *products*; *fiado* pins the
orders it was paid for; *closing* delivers the night's orders; *purchases* move
the amount of the *expense* that holds the note; the *screen* reads what the
desk wrote and the *form* writes the customer first and the order after.
`PROJECT.json` lists every component with what is modelled of it.

## 2. Modules

| Module | Models | Form |
| --- | --- | --- |
| `NightRules` | `closing/live-night.ts`, `closing-access.ts`, `business-date.ts` | operators on instants and dates |
| `OrderRules` | `orders/order-status.ts`, `order-lock.ts`, `cashier-lock.guard.ts`, `order-input.ts` | operators on one order |
| `DeskState` | the tables, the requests in flight, shared reads | variables, `TypeOK`, `ReferencesHold` |
| `ClosingDesk` | close, close by date, reopen | actions |
| `OrderDesk` | create, replace, advance and revert, cancel, restore | actions |
| `FiadoDesk` | receive, refund, reschedule | actions |
| `CashDesk` | all of them interleaved, the clock, requests that end early; the promises | `Init`, `Next`, `Spec`, properties |
| `MCCashDesk` | small instances (it extends `DeskReports`) | definitions for TLC |
| `DeskReports` | `report/revenue.ts`, `fiado/fiado-views.ts`: what the reports read off the desk's tables | operators, one promise |
| `CashDesk_proofs` | theorems about `CashDesk` and `DeskReports` | proofs |
| `Tally` | the sum of a quantity over rows, `SumOf` | an operator |
| `StockRules` | `stock/fefo.ts`, `sale-reversal.ts`, `oversale.ts` | operators on balances and rows |
| `StockTables` | the stock's tables, its transactions in flight, what each sees and has locked | variables, `TypeOK` |
| `SaleStock` | `stock/prisma-sale-stock.ts` under the orders' and consumptions' repositories, `prisma-stock.repository.ts`, `prisma-oversale-settlement.ts`, `prisma-entry-history.ts` | one action per statement that matters; the promises |
| `StockPromise` | what the stock promises, one step per operation, without lots or locks | abstract specification |
| `MCSaleStock` | small instances | definitions for TLC |
| `SumTheorems` | lemmas about `SumOf`, the sum behind every total, and about folds over lists | proofs |
| `SaleStock_proofs`, `StockPromises_proofs` | theorems about `SaleStock` | proofs |
| `ExpenseDesk` | `expenses/`, `purchases/purchase.service.ts` | actions over `ClosingDesk`'s tables |
| `MenuBook` | `products/`, `supplies/supply.service.ts`, `menu-import/` | actions |
| `OrderPricing` | `orders/priced-items.ts`, `order-pricing.ts`, `order-addons.ts`, `order-removals.ts` | actions over `MenuBook`'s tables |
| `DayScreen` | frontend `cash/use-cash-day.ts`, `use-auto-refresh.ts`, `use-order-actions.ts`, `pages/CashierPage.tsx` | actions, fairness |
| `OrderForm` | frontend `cash/use-order-form.ts`, `use-customer-lookup.ts`, `save-order.ts`, `customer-draft.ts`; backend `customers/` | actions |
| `OrderLines` | frontend `cash/order-lines.ts`, `line-addons.ts`, `line-removals.ts`, `line-merge.ts` | actions and a fold |
| `BackOffice` | the six above over one clock, scene by scene; the promises made of requests that do not overlap | `ShopInit`, `ShopNext`, `FairShopSpec` |
| `MCBackOffice` | small instances | definitions for TLC |
| `BackOffice_proofs`, `MenuBook_proofs`, `ExpenseDesk_proofs`, `ShopOrders_proofs` | theorems about `BackOffice` | proofs |

`CashDesk` and `SaleStock` model the same order transaction from two sides. In
`CashDesk` it is one step, its guard and its writes; what it does to the stock is
left out, because no rule of the desk reads the stock. In `SaleStock` it is a
sequence of statements with locks, and of the order only what the stock reads:
whether it is active, what its items need.

### State and code: the cash desk

* `closings[d]` is the `daily_closings` row of business date `d` (`ABSENT`: not
  inserted), with `last`, the column `last_order_number`. `orders`, `payments`:
  rows by id. `trail[o]`: the `order_events` of an order, oldest first.
* `req[s]` is what a handler holds in its local variables between two awaits:
  what it read, decided and will write. A handler is `Begin...` (authentication,
  reads and checks), sometimes a second read, then `Commit...` (its transaction).
  `Stale...` is the 409 of an update whose condition matched no row. Any other
  refusal, a lost connection or a restart is `Abandon`, possible at any point
  before the commit.
* The day's number is taken inside the transaction (`NextDayNumber`): the update
  of the counter locks the night's row until the commit, so the whole of
  `CommitCreate` is one step.
* A handler reads the order, then its night (`findEditableOrder`, two awaits);
  `Editable` takes the two as one read. An order never changes its night, neither
  row is locked, and the transaction comes after yet another await, so both are
  old by then in any case: the one thing left out is a night reopened, and its
  order changed, between the two. A later read in the
  same handler (what is left of a fiado order, then the night of the receipt) is
  a step of its own where something may change between the two in a way a
  property tells apart (`ResolveReceiveNight`, `CheckOpenTabs`).
* Data is abstracted to what the properties tell apart: amounts are natural
  numbers of cents, methods and ids are model values, items, texts, customers
  and tickets are left out. A trail entry keeps its kind, the manager's
  authorisation and the snapshots of amount and method.
* The clock is a counter of half days in the instances; the code only asks it
  for the business date and whether it is before the hour the night ends.

### State and code: the stock

* `lots[l]` is the `stock_lots` row, with two facts about its movements:
  `counted`, the COUNT movements after its first, and `moved`, whether it has
  any beyond its first. `taken[o][l]` is what owner `o` (an order, a staff
  consumption, or `None` for those of a deleted one) took of the lot and has not
  given back: its SALE less its SALE_RETURN movements. `oversales` is the table
  of what was sold beyond the balance.
* A transaction is `tx[s]`. At READ COMMITTED a statement sees what was committed
  when it starts and the transaction's own writes, and a row written or read FOR
  UPDATE stays locked to the end. The model keeps the writes in `tx[s].change`
  and `tx[s].dropped` and applies them at the commit; `Seen` adds them to what is
  committed; `FreeFor` and `RowsFreeFor` are the locks. A statement that would
  wait is a step that is not enabled yet: when it goes on it sees the rows as
  they are then. So does PostgreSQL with the rows a statement waited for, but which
  rows those are it decides when the statement begins: a lot that had no balance
  then and got one during the wait is not locked, and in `LockLots` it is. It takes
  a return, an entry or a count that ends meanwhile. What rests on the lots' locks
  (`NeverNegative`, `FirstToExpireFirst`, `KeepsThePromise` and their theorems)
  is promised where only launches overlap, under which no balance grows; the books,
  the returns and the needs of `stock_overlap` rest on the locks of the owner's row
  and of the oversales. That a sale may read a lot it has not locked is what
  `sale_window` shows. Taking the rows of one FOR UPDATE is one step.
* A sale (`syncSale`) is: drop the owner's oversales, read what it took, give
  it back lot by lot (`MoveLot`), then for each need lock the lots with a balance
  (`LockLots`), read them again (`PlanSale`) and take lot by lot. The order's row
  is written **before** that by an edit (`LockFirst`) and **after** it by a
  cancel, a restore or a removal (`CommitSale`): the difference decides which of
  them may overlap. A launch first takes the night's number, whose row is locked
  to the commit, so two launches of the same night never overlap: the launches
  that do are staff consumptions.
* Once the night has ended no stock moves (`stockChangeFor`): only the row is saved.
* Nothing is retried: a deadlock, a timeout or a lost connection is `RollBack`.
* Left out: the cost of a lot, packages and unit conversion, the texts of a
  movement; an entry has one lot and a count one supply; an entry's reads and its
  check are one step and its writes another, so are a reversal's.

### State and code: what surrounds the orders

`BackOffice` puts six parts side by side. They share the clock, the closings
and, for what is priced, the menu, and no other table: interleaving their steps
would multiply states and add no behaviour to any of them. So a behaviour plays
one `scene`, chosen at the start, in which some parts move and the others stand
(the module's head lists the nine); a scene is also where requests are let
overlap (`markings`, `repricing`, `pricing`, `form`) or kept one at a time
(`expenses`, `menu`, `levels`).

* **`ExpenseDesk`.** `expenses[e]` is the `expenses` row with the
  `purchase_invoices` row it holds: the note's id, key and the positions marked
  `outside`. `task[s]` is what a handler holds between awaits. A launch or an
  edit with a new note has three steps: checks, the reading of the note at the
  tax office (`ReadNote`), the write; the database keeps a key in one expense
  only. An edit writes by id over whatever the row is (`SaveReplace`); a marking
  compares the amount it read (`StillAsRead`) and writes the marks of the note it
  read. Line totals are natural numbers of cents; the seller, the types and the
  HTML are left out.
* **`MenuBook`.** `products[p]` by category and name, `history` the
  `product_price_history` rows (product, last day, price), `addons[c]` the
  category a category borrows its add-ons from. An edit is the service's checks
  and date, the transaction's first read (not locked) and its writes; the write
  of a supply with a sale price goes through the same `changeProduct`, which
  writes price and deactivation date and leaves the rest. Recipes are sets of
  supplies, without quantities: which of the products made of one supply alone
  takes one whole unit of it, and so is sold as it (`pickSaleProduct`), is any of
  them or none (`SaleProducts`). An import is its plan,
  the list of products that leave the sheet, and one transaction.
* **`OrderPricing`.** `bill` is one saved order, its night and its priced items;
  `till[s]` the items a handler has priced and not yet written. `Accepts` and
  `Priced` are the checks and the pricing, with what is kept of the stored items
  (`KeptLine`, `SameRecipe`, `AddonKept`, `RemovalKept`) found as the code finds
  it: by product for the price, by product and removed ingredients for the cost
  of an item.
* **`DayScreen`.** The server's data is a sequence of `moments`; a list shown is
  of a moment between the start and the end of its load. A `load` is the first
  of a screen (it always counts) or a reload (it counts when it is the latest:
  the request counter). Picking a date mounts the screen anew (`key` in
  `CashierPage.tsx`).
* **`OrderForm`.** `customers` are rows by id; `form` the fields; `known` the
  record the form's customer is, as read; `searches` the lookups not answered;
  `saves` the chain a submit starts: look the address up, write the customer,
  write the order, which copies its customer as the table has it then (`copied`).
  Opening an order to edit it fills the form with that copy, however old it is
  (`EditOrder`). A `Place` is street, number and zone together; two `Names`
  may be spellings of one (`KeyOf`). Two ghosts: `late`, that what fills the form
  or is offered for it was looked up for another phone than the one typed since,
  and `strayed`, the records a save made of such an answer wrote over.
* **`OrderLines`.** `lines` are the lines typed, `stored` those of the order
  being edited; `ItemsRequest` is `mergeIdenticalLines`, a fold.
* **`DeskReports`.** `Revenue(d)` and `OpenTotal` as the reports sum them.

## 3. What the runs check

| Run | Question | Instance |
| --- | --- | --- |
| `desk_overlap` | what holds however two requests over the orders of three nights overlap | 2 sessions, 2 orders, 4 requests, every order and closing operation |
| `fiado_overlap` | the same for fiado: receipts, refunds and cancels of one order | 2 sessions, 1 order, 2 receipts, 5 requests |
| `desk_serial` | the promises that rest on checking before writing, one request at a time | 1 session, 2 orders (one imported), 2 receipts, 2 nights, 1 due date, 4 requests, all operations |
| `close_race` | the same promise about open tabs, with two requests: **violated** | 2 sessions, create and close |
| `fiado_race` | the same promise about overpaying, with two requests: **violated** | 2 sessions, create and receive |
| `stock_serial` | does every operation on the stock, run alone, do what it promises | 1 session, an order and a consumption, up to 4 lots, 4 transactions, all operations |
| `stock_overlap` | what holds however launches, edits, counts and an entry overlap | 2 sessions, 4 transactions, 1 lot and room for another |
| `sale_overlap` | are sales launched at once as good as one after the other, and do they end | 2 sessions, 3 sales over 2 supplies in crossed orders, 3 lots |
| `shop_day` | scene by scene, does what surrounds the orders keep its promises | 2 sessions, nine scenes (bounds below) |
| `erased_address` | "so as not to erase the address", saving at the counter: **violated** | the form, 1 customer without a phone, a name of two spellings |
| `sale_window` | "the balance is never negative", with an entry in the window: **violated** | 2 sessions, sales and one entry |
| `double_cancel` | "what the owner's sales took and has not come back", cancelled twice: **violated** | 2 sessions, one order |

Properties of the cash desk, in `CashDesk.tla` (`TypeOK` and `ReferencesHold` in `DeskState.tla`):

* **However requests overlap** - `NumbersExact` (each night numbers its orders
  1..n, none shared or skipped), `ReferencesHold` (an update by id finds its row),
  `LeavesATrail` (one event per change, closing apart), `ClickWalksOneStep`,
  `TrailTellsPaid` (receipts less refunds in the trail are the receipts active).
* **When they do not overlap** - `NoCloseWithOpenTab`, `StatusFitsType`,
  `FiadoSound`, `TrailChains`, `ClosedNightIsAdmins`, `MoneyEditsAuthorized`, and
  `RevenueAndDebt` (`DeskReports`): the revenues of all nights and the open
  fiado make up the orders that stand, cent by cent.
  Overlapping requests break each of these; two are shown as violations because
  the repository states them as unconditional: "O dia não fecha com conta aberta"
  (`closing/closing.service.ts:50`) and "não existe crédito nem troco no fiado"
  (`fiado/fiado-payment.service.ts:55`).

Properties of the stock, in `SaleStock.tla` (`TypeOK` in `StockTables.tla`):

* **However launches, edits and counts overlap** - `LedgerBalances` (a lot's
  balance is its movements added up), `ReturnsOnlyWhatWasTaken`,
  `TakesWhatItNeeds` (an owner keeps and owes of a supply no more than its items
  need; with one transaction at a time `KeepsThePromise` says it exactly).
* **Alone, or when only launches overlap** - `NeverNegative`,
  `FirstToExpireFirst`, `ReversedLotIsEmpty`, and `KeepsThePromise`: SaleStock
  implements `StockPromise`, with the balance, what each owner holds and what it
  owes of each supply read off the tables, every statement before the commit
  mapped to a stutter.
* **Every transaction ends** - `EveryTransactionEnds`. Two sales of the same
  supplies in opposite orders of lines do wait for each other, and the instance
  reaches that deadlock.

What breaks when more overlaps is known from the same model: a lot entered
between the two statements of `lockedLots` (`sale_window`), two cancels of one
order (`double_cancel`); and, listed among the hazards without a run, two entries
that settle the same oversale, a count or a reversal that writes what it read
before a sale committed.

Properties of what surrounds the orders, by scene of `shop_day` (`ShopTypeOK` in `BackOffice.tla`):

| Scene | Property | What it says |
| --- | --- | --- |
| `markings` | `RebalanceKeepsBase` | a marking moves money between shop and house and makes none, whatever is saved between its read and its write |
| `expenses` | `NoNoteAllOutside`, `ClosedExpensesAreAdmins` | a note keeps a line of the shop's; a closed night's expenses change by the admin alone |
| `menu`, `repricing` | `PastPricesStand` | no change of today takes a product or a price off the menu of an earlier day |
| `levels`, `menu` | `OneLevel` | no combo in a combo, no list of add-ons that has add-ons |
| `menu` | `ImportSettles` | right after an import was written its preview is empty |
| `pricing` | `SavedOrderStands` | a saved order can be saved again as it stands and costs the same, line by line, whatever the menu became |
| `screen` | `ReloadsNeverGoBack`, `ShowsPickedNight` | reloads never show an earlier moment; no list of another date |
| `screen` | `TonightIsFollowed`, `OwnChangesShow` | (liveness) tonight's screen comes to show what the server has and stays with it; a change made on it comes to be shown |
| `form` | `RecordKeepsItsPerson` | a save over a record leaves it its phone, or its name where it has no phone |
| `lines` | `SavesWhatIsTyped` | the units typed, no line over the cap of units, alike lines joined, lines told apart |

The exceptions these properties state are behaviours the code does have:

* the marking compares the amount alone, so a row that came back to the amount
  read with other marks is not told from the one read (`AmountAloneStands`);
* two overlapping edits of one expense, or an edit over a night that closes
  meanwhile, break the promises of `expenses`: the scene is serial for that;
* `repricing` has edits of products for sale on one day. An edit dates its
  history row by the day it began, so across midnight the promise is about the
  days before that one; and a price typed on a supply writes back the
  deactivation date it read, so it is checked one at a time;
* the cost of an *add-on* is kept by its product alone (`order-pricing.ts`): one
  that is also an item of the order takes the first item's, which may have
  ingredients out. `SavedOrderStands` is about the prices of add-ons and the
  prices and costs of items;
* nothing drops a lookup answered after the phone was typed over
  (`RecordKeepsItsPerson` excepts the save that follows one, and from then on the
  record it wrote over: saves made of an older reading of it would put it back);
* the API also refuses an order of more than 50 lines, 10 add-ons or 15 removals on
  a line (`order-item-input.ts:9`); the form does not count them, and such an order
  is refused whole. `SavesWhatIsTyped` is about the cap of 99 units alone;
* an order's copy of its customer keeps phone and name what they must be, but its
  address may be an old one: an edit that changes anything else of the record
  writes that address back.

`erased_address` is where the code and its comment part: `save-order.ts` looks the
address to keep up by the phone, so the counter order of a customer who has no
phone, edited with the name respelled in one stroke (pasted, or over a selected
letter: a name half erased is another name), writes the record without its
address. The properties of a customer with a phone hold.

A request that is refused changes nothing, and `desk_serial` starts each request
in a state reached by complete ones, so the pass there says that the checks are
right; the violations say that they are not repeated where they are relied on.

Rescheduling a fiado asks neither for the night nor for a password, because no
money moves: `ClosedNightIsAdmins` leaves the due date out, and what is promised
of it is part of `FiadoSound` (only fiado has one, never before its night).

One difference between the API's table in `src/README.md` and the code is
modelled as the code has it: the README lets a cashier choose "hoje e os 7 dias
anteriores", `assertCanSelectDate` only the nights still live.

### Bounds

`Dates` are days 0 to 2, two clock units a day: the instance starts on the
evening of day 1 (`FirstMoment = 3`) and, where `LastMoment = 4`, crosses into
the small hours of day 2, when both days are live. Day 0 is never live: only the
admin reaches it, and it is the one due date (`DueDates`) of `desk_serial`, which
an order of day 0 may have and one of day 1 may not; the other instances have no
due dates. Two sessions are enough for every hazard listed, each being
about one request's write falling between another's read and write; the fourth
and fifth requests let a state be prepared (create, then two requests over what
was created) and then looked at again. Amounts 1 and 2 tell a lowered order from
another. `MaxRequests` and `LastMoment` bound the instance only; the theorems do
not use them. Deadlock is not checked because the instances stop when the
requests run out.

In the stock, one supply and two expiries are enough to order lots, a lot of a
later date that is older than another tells expiry from age, needs of 1 and 3
units stay within and go beyond the balance; two supplies are needed only for a
deadlock between lots. `MaxLots` bounds the lots that entries and surpluses add
(`stock_overlap` has room for one, so two entries never overlap there);
`MaxRequests` how many transactions begin, the fourth needed to look at what two
overlapping ones left behind a first.

In `shop_day`: two expenses and two notes, of two lines (totals 1 and 2) and of
one, are enough for a note to be moved, replaced and marked, and an amount typed
(6) tells itself from one rebalanced (4 less 0 to 2). The menu has two products
in `menu`, one for sale and edited by two in `repricing`, three in `levels` (a
combo of a combo needs two, and a third to be put into), three categories, one supply, prices 1 and 2, two
spreadsheets of one source that list different products. `pricing` has two
products, one the other's add-on, and three baskets that repeat a product as item
and as add-on, with and without the ingredient; the order may be for the night
before. The screen has two lists, one change of data besides the night's turn,
and one overtaking reload per date (`MaxOvertakes`); the form two customers of
one name, five moves of the user and two saves; the lines a cap of 3 units in
place of 99, add-ons counted to it, four strokes over a stored order of two lines
or none. `MaxRequests` is 3, `FirstMoment` 3 and `LastMoment` 4 as above; the
clock stands where overlapping edits are of one day.

### Fairness

`sale_overlap` assumes (`FairSpec`): weak fairness of each
transaction's next statement - the event loop resumes a handler whose query
returned, and the database grants a lock that is free - and of the roll back of
a transaction in a cycle of waits, which is PostgreSQL's deadlock detector.
Nothing is assumed about users: no transaction has to begin, none has to fail.

`shop_day` assumes, for the screen alone (`ScreenFairness`): the timer fires while
the screen shows tonight, visible and with no dialog (`use-auto-refresh.ts` sets
an interval); a load out comes back or fails, as `fetch` does; a change sent is
taken or refused and its answer is heard; and the latest reload does not fail for
ever. That one reload overtakes another a bounded number of times is part of it:
were every answer slower than the timer, each would be overtaken by the next and
none would count. Nothing is assumed of the user, who may hide the tab or leave.

## 4. What is proved

`CashDesk_proofs.tla`, for any number of sessions, orders, receipts and nights,
any `Amounts`, methods and clock, from the assumptions on the constants alone
(`NightAssumption`, `OrderAssumption`, `DeskAssumption`, `NoRowAssumption`,
`ImportedAssumption`):

* `TypeCorrect` (`TypeOK`) and `ReferencesAlwaysHold` (`ReferencesHold`). The
  inductive invariant is their conjunction `IInv`: a commit updates by id the row
  its request named, so its type is kept only because the reference holds, and
  the reference is kept because no step removes a row (`RowsStay`).
* `RowsAreForGood`: no row is deleted, none changes its night, number or order.
* `NumbersAreExact`: on top of `IInv`, every step either leaves the numbering as
  it was (`NumberingStays` and `RowsStay`) or is `CommitCreate`, which adds the
  order numbered by the counter it increments.
* `ClicksWalkOneStep` and `ChangesLeaveATrail`: action properties from `IInv`,
  action by action.

Its second part, from the same assumptions and `ReportAssumption`:

* `TrailTellsThePaid` (`TrailTellsPaid`), however requests overlap. A commit
  writes one order's events and at most one payment of that order (`WritesWith`),
  and counts one receipt or one refund more exactly when it adds or cancels one
  active payment; the second of two refunds of a payment finds it canceled in its
  own transaction and changes neither side.
* `StatusesFit`, `FiadoIsSound`, `TrailsChain`, `NeverClosesWithOpenTab`,
  `ClosedNightsAreAdmins`, `MoneyEditsAreAuthorized` (`StatusFitsType`,
  `FiadoSound`, `TrailChains`, `NoCloseWithOpenTab`, `ClosedNightIsAdmins`,
  `MoneyEditsAuthorized`): the promises a handler makes by checking before it
  writes. They are of requests that do not overlap, `OneAtATime`, for any number
  of requests, orders, payments and nights; overlapping ones break them
  (`close_race`, `fiado_race`). The invariant `PInv` has two halves that carry
  each other: every order is `Sound`, and what the request in flight read and
  checked still holds of the tables it will write (`ReadsStand`). Sound alone is
  not inductive, since a commit looks at nothing but what its request knows.
* `RevenueAndDebtHold` (`RevenueAndDebt`): from `PInv`, the revenue of the nights
  and what is owed are sums over orders and payments. The payments are grouped by
  order, and of one order what was paid never exceeds it, so what is left of it
  is exactly its debt.

`SaleStock_proofs.tla` and `StockPromises_proofs.tla`, for any number of sessions,
owners, supplies and lots and any needs, from `StockAssumption` alone:

* `StockTypeCorrect` (`TypeOK`), whatever operations overlap. Its invariant
  `IInv` adds what the types rest on: a transaction plans and changes only lots
  that are there, the id an entry drew stays its own, movements are of lots that
  are there, a reversal's lot exists.
* `StockLedger` (`LedgerBalances`), for every instance in which `"reverse"` is
  not among the operations: launches, edits, cancels, restores, removals, entries
  and counts overlapping in any way, any of them rolled back. Each commit changes
  both sides of a lot's books by the same amount: a sale by its change, with the
  movements of a deleted owner passing to `None`; an entry by the units it
  settles, which add up over the owners to what the lot loses; a count by a
  correction that is itself a movement. The hypothesis is needed: a reversal
  writes a zero over what a sale took meanwhile.

The other promises of the stock need that some transactions do not overlap. Each
theorem says which, as a property of the behaviour:

* `ReturnsStayWithin` (`ReturnsOnlyWhatWasTaken`) while nothing undoes an owner's
  sale when another transaction of its is in flight (`UndoneApart`). Two cancels
  of one order are outside it, and break the property in `double_cancel`. `RInv`
  says of every sale in flight that what it has put back, and is about to, is what
  its owner took (`ReturnFits`); an edit keeps it because it locks the owner's
  row before it reads the movements, a launch because its owner is new.
* `SalesTakeTheirNeeds` (`TakesWhatItNeeds`) when, besides, entries follow one
  another (`EntriesApart`): two entries may settle the same oversale, each from
  its own copy. `TInv` keeps the account of every sale in flight: what its owner
  will keep of a supply, what it is short of and what its items still need are
  never more than it needs (`AccountFits`). The lemmas the account rests on are of
  the code's own functions: what `takeInExpiryOrder` takes (`SharesAddUp`,
  `TakesAddUp`) and what `settleOversales` covers (`SettlesAddUp`).
* `ReversalsLeaveNothing` (`ReversedLotIsEmpty`) while no sale and no count is in
  flight together with a reversal (`ReversalsApart`): a reversal reads that its lot
  is untouched and writes a zero without looking again.
* `BalancesNeverNegative` (`NeverNegative`) and `OldestGoesFirst`
  (`FirstToExpireFirst`) while only launches overlap and any other transaction
  runs alone (`OnlyLaunchesOverlap`): `sale_window` is an entry that commits while
  a launch is between its two reads. `NInv` says that no two transactions hold a
  lot, that what is changed or planned leaves a lot of its own at zero or more,
  that what is taken leaves nothing in a lot that goes out sooner, and that
  between the two statements of `lockedLots` no lot of the supply gains a balance.
  `LaunchesNeverNegative` is the same of the instances whose operations are
  launches alone, where no hypothesis is left.
* `StockImplementsPromise` (`KeepsThePromise`) under the same condition: `SaleStock`
  implements `StockPromise`. A commit maps to one step (a sale to `Sync`, or, when
  the night is over, to a deletion's `Forget` or to nothing; an entry to `Enter`,
  a count to `Count`, a reversal to `Reverse`) and every other statement to a
  stutter. `StockPromise` says how much exactly, so the inequalities of `TInv`
  and `NInv` do not do: `WInv` adds their exact forms (`AllExact`). What a sale in
  flight keeps of a supply, is short of and still wants is what it needs, and it
  is short of a supply only when it leaves nothing in its lots (`AddsUp`), which is
  why what it took is the smaller of its need and of what there was; a count,
  an entry and a reversal write by what they read. Its one assumption on the
  constants, `UnitsAllowed`, is that the quantities in `Needs` and of the lots in
  `Stocked` are among `Units`, the set both specifications take quantities from.

`stock_overlap` is an instance of `UndoneApart` and `EntriesApart`, `stock_serial`
and `sale_overlap` of `OnlyLaunchesOverlap`.

The sums in these books are folds, recursive functions of the library. Their
lemmas (`SumTheorems`) are proved for every finite set without induction: a
nonempty family of subsets of a finite set has a minimal one, and a minimal
subset on which a law of sums failed would have a smaller one. The code's loops
over a list (`FoldLeft`) are taken apart likewise (`FoldPlaces`): there is a value
for each place of the list, each made of the one before and the item there, and
what holds of the first and is handed on holds of the last (`UpTo`).

`BackOffice_proofs.tla`, `MenuBook_proofs.tla`, `ExpenseDesk_proofs.tla` and
`ShopOrders_proofs.tla`, about `ShopSpec`, for any sessions, products, notes, dates, lists and bounds and every
scene, from the assumptions on the constants alone:

* `ScreenTypeCorrect`, `PickedNightIsShown` (`ShowsPickedNight`) and
  `ReloadsGoForward` (`ReloadsNeverGoBack`). Their invariant `ScreenInv` says of
  the loads what the screen cannot see: every one is of the date picked and began
  no later than now, at most one is the latest reload, and that one began no
  earlier than anything a reload has shown. Without the last part a step that
  lets a reload through could go back.
* `FormTypeCorrect` and `RecordsKeepTheirPeople` (`RecordKeepsItsPerson`).
  `FormInv` says that every reading of a record, by an order that copied it, by a
  lookup not answered yet, in the form, among the namesakes offered, in the question or in a save on its way,
  still agrees with the row in the table (`Agrees`: its phone or, without one, its
  name), and that a form no late answer filled fits the record it would save over
  (`Fits`). The last is what the form's rule, another phone or without one another
  name is another customer (`IsAnother`), is for; the first is kept by every save
  because each fits its own record.
* `MenuTypeCorrect` and `PastPricesAreKept` (`PastPricesStand`), with overlapping
  edits where the scene `repricing` has them. `MenuInv` adds to the types that a
  history row is of a day gone by, that a day taken by a request is no later than
  today, and, in `repricing`, what makes a stale read harmless: a product off the
  menu left it today, so a deactivation written back changes no earlier day; and
  as long as the day's first price is not in the history, it is the price every
  request in flight has read. Once it is, the row stands (`KeptFirst`).
* `LevelsStayOne` (`OneLevel` in every scene but `repricing`, the one where menu
  requests overlap), for initial menus of one level themselves (`MenusFlat`). The
  code checks both ends before it writes: the items of a combo are no combos, and
  what becomes a combo is an item of none. `LevelInv` adds that the check of the
  request in flight would pass again (`ChecksHold`).
* `ImportsSettle` (`ImportSettles`): the import reads what leaves the spreadsheet
  before its transaction, and `ImportInv` says that where one request is in flight
  nothing else has left by the time it writes. Nothing else of the menu matters:
  each row planned is written whole as far as the preview compares.
* `ExpenseTypeCorrect`, `RebalanceIsExact` (`RebalanceKeepsBase`),
  `NotesKeepALine` (`NoNoteAllOutside`), `ClosedNightsAreTheAdmins`
  (`ClosedExpensesAreAdmins`). `ExpenseInv` says that the ids in use
  are ids already given, so a note read is never taken for a later one, and what
  a marking in flight knows while its note is there: the marks fit its lines, and
  the amount it will write plus those lines is the base it read. So where the
  amount compared still stands and the note found is the one read, both sides of
  the move are right, however much was saved in between. For the requests of
  `expenses` it adds that what the one in flight checked stands until it writes.

* `SavesAreTyped` (`SavesWhatIsTyped`) and `LinesTypeCorrect`. `LinesInv` says of
  the lines on the screen that none has add-ons which, counted by the unit, are
  over the cap (`GoodLine`), and that no two share an id; the type alone is not
  inductive for what is saved. The merge (`mergeInto`) walks the lines before and
  fills each one alike up to its room. What it took and what is left add up to
  the line at every place (`PassEndFills`), so no unit is lost or made
  (`MergeIntoKeeps`), and of two lines alike in the result the first is full
  (`Joined`), which is why the next one alike fills nothing twice.
* `SavedOrdersStand` (`SavedOrderStands`) and `BillTypeCorrect`, while the scene's
  menu requests come one at a time between the steps of the handlers that price.
  `BillInv` says of the saved order and of every one priced and not yet written
  what pricing leaves behind: one price for a product and one cost for a product
  with its removals, wherever they are in the order (what lets the old prices be
  looked up by product), add-ons a multiple of their item, the items by category;
  and of the menu, that what an order is made of is on its tables and no combo
  holds what is not. That sorting (`Sorted`) leaves each item once, and a sorted
  list as it is, is proved by counting the items that come before each.
* `ShopTypeCorrect` (`ShopTypeOK`) puts the types together: those of the parts, the
  clock's and the nights', and the requests, which are the closing's alone here
  (`NightRequests`).

Of the last group, `RowsAssumption` and `LinesAssumption` say what the database
does: the tables are finite, a combo of the initial menu holds products that are
there (the foreign keys of `product_bundle_items`), and the orders a form can be
opened on have amounts within the columns' checks (`StoredItem`). A category's
`Position` is its rank by sort order and id, which no two categories share
(`orders/item-order.ts`); the categories themselves stand.

Every safety property and every action property that a passing run checks is
proved. Only model-checked is liveness, out of the prover's reach:
`EveryTransactionEnds`, `TonightIsFollowed` and `OwnChangesShow`. For the cash desk
liveness is not claimed: every request ends by its own code, and nothing there
waits for anything else. The four runs of overlaps and the one of addresses that
expect a violation are counterexamples, and need no proof.

## 5. Plan

What the theorems rest on could be weakened: `SavedOrdersStand` with the menu
requests of the scene overlapping, and with categories that change places or
products that change category, which the model leaves out;
`RevenueAndDebtHold` without `OneAtATime`, for the instances in which no order
is both edited and received at once.

## 6. Not modelled

* **auth, users**: who may come in, and for how long. The desk's rules about
  roles and the manager's password are inputs of the models; how a session is
  kept is a subject apart, not stated here.
* **nfce, spreadsheets, ticket text, `common`**: parsing and formatting of texts
  and numbers. A note is its key and its lines' totals, a spreadsheet its plan,
  an amount a number of cents. There is no state in them to check, and what they
  do to characters is better tested than modelled.
* **report and analytics** beyond revenue and open fiado: sums of the same rows,
  grouped otherwise.
* **catalog, settings**: lists and values edited one row at a time, read by the
  desk; they are constants here.
* **the extra charged on a receipt, the delivery fee and its zone**: amounts that
  are added where they are shown and that no rule modelled here reads.
* **the other screens**: forms and tables of one request each, over the API. Most
  of the repository's lines are such screens, test fixtures, styles and parsing,
  so the share of lines a model can stand for is small.
