# SH ERP: a verification project for stock, production, labour and purchasing

This directory holds a formal model of the parts of SH ERP where a mistake
costs material or money: warehouse stock, the reservations customer orders hold
on it, the customer orders themselves, stocktakes and production batches; the
database transactions they run in; the labour recorded on batches and tasks, the
pay it leads to and the bot it is reported through; and the purchase of material.
The model is written in TLA+ from the source, checked with TLC on small
instances, and its main invariants are proved with TLAPS for every number of
orders, products, warehouses, batches, connections, executions and chats.

All paths below are relative to `src/backend/src/modules/` unless they start
with `src/`.

## 1. The system

SH ERP is a multi-tenant ERP for a metal-working factory: a NestJS backend over
PostgreSQL (Prisma), a Next.js frontend, a Telegram bot and a few tools. The
frontend and the assistant only call the backend; the bot is part of it. The backend keeps no
state in memory: everything below is rows of the database described by
`src/prisma/schema.prisma`.

Every authenticated HTTP request runs in ONE database transaction
(`src/backend/src/common/interceptors/tenant-scope.interceptor.ts`,
`runInTenantTransaction` in `src/backend/src/prisma/prisma.service.ts`): READ
COMMITTED, 60 s timeout, rolled back when the handler throws. So the atomic
step of the system, seen from outside, is a request; inside, two requests
interleave statement by statement, and only row locks taken by UPDATEs
serialise them.

### Components

| Component | State | Operations that change state | What makes it correct |
|---|---|---|---|
| Stock ledger (`inventory/stock.service.ts`) | `warehouse_stock.qty` per product and warehouse, `products.qty` (cache of the sum), `stock_movements` | `recordMovement`, `move`, and `applyMovement`, called by every other component | the physical quantity follows the movements; every increase is offered to waiting orders |
| Reservations (`inventory/stock-reservation.service.ts`) | `warehouse_stock.reservedQty` (running total), `stock_reservations` (qty, consumedQty per order, product, warehouse, source) | `grantReservation`, `reserveCapped`, `release`, `releaseAllForOrder`, `consume`, `topUp` | the running total is the sum of the rows; a unit is never reserved twice; arrivals go to the order that waited longest and to nobody who does not need them |
| Stocktakes (`inventory/inventory-sessions.service.ts`) | `inventory_sessions`, `inventory_items` (expected, actual) | `start`, `recordCount`, `complete` | a correction posts what the count found and nothing that happened during it |
| Customer orders (`sales/customer-orders.service.ts`) | `customer_orders.status`, `customer_order_items.qty` | `create`, `addItem`, `updateItemQty`, `removeItem`, `giveItemToProduction`, `giveAllToProduction`, `cancel`, `complete`, `remove` | batches never exceed the line; an order that closes gives back what it held |
| Requirements and decisions (`sales/customer-order-shortage.service.ts`) | `order_material_requirements` (requiredQty, qtyFromStock) | `ensureRequirementsAndAutoReserve`, `saveReservationDecisions`, purchase from shortage | what the user decided is what is held |
| Component lists (`bom/assemblies.service.ts`) | versions of an assembly's components | `setComponents` | a running batch keeps the version it was created with |
| Quality control (`production/qc.service.ts`) | checks of units | `recordCheck`, which overwrites the unit's status | a unit somebody has does not come back to the shelf |
| Production orders (`production/production-orders.service.ts`) | batch status, stage, consumed material as movements | `create`, `cancel`, `remove`, `start`, `revertStart`, `advanceStage` | a revert undoes exactly what the start did |
| Finished goods (`production/finished-goods.service.ts`), shipments (`sales/shipments.service.ts`) | units with serial numbers and a status; shipments of units | batch start creates units; `create`, `markDelivered`, `remove` | a unit is shipped once; serial numbers are unique |
| Sub-assembly claims (`inventory/sub-assembly-reservation.service.ts`) | claimed units per order | `reserve`, `consume`, `releaseAll` | no unit is claimed or used by two orders |
| Production executions (`production/production-executions.service.ts`), work tasks (`production/work-tasks.service.ts`) | drafts, confirmed and void records with the shares of a crew; the fund of a batch or task | `create`, `patch`, `remove`, `confirm`, `void_`, `correct`; tasks: `create`, `update`, `close`, `reopen`, `remove` | confirmed work never exceeds the plan and the fund; a void takes back exactly what a confirm paid |
| Payroll (`hr/payroll.service.ts`, `hr/payroll-periods.service.ts`) | payroll entries, closed periods | `recordManualEntry`, `voidManualEntry`, `close`, `reopen` | closed days get no more entries |
| Telegram bot (`telegram-bot/telegram-bot.service.ts`) | what each chat is in the middle of, on the Employee and User rows | one per button or message; `submitPendingExecution`, `submitPendingAdminExecution`, `handleSupervisorDecision`, pairing | a number somebody typed becomes work once, for the job and the people it was typed for |
| Purchase requests (`procurement/purchase-requests.service.ts`) | requests with lines, the requirements they claim | `create`, `saveItems`, `send`, `cancel`, `remove`, `convertToOrder` | a requirement is bought once; a conversion keeps the quantity |
| Purchase orders (`procurement/purchase-orders.service.ts`) | orders, lines received | `create`, `receive`, `remove` | received quantities reach stock once |
| Delivery schedules (`procurement/delivery-schedules.service.ts`, `supplier-portal/supplier-portal.service.ts`) | versions of a line's schedule, the one in force | `createFirstVersion`, `confirmAsIs`, `propose`, `accept`, `reject` | no quantity is gained or lost; one version is in force |
| Request transactions (`src/backend/src/common/interceptors/`, `src/backend/src/prisma/prisma.service.ts`) | what an open transaction has written and locked | begin, statements, commit, roll-back | requests act as if they ran one after the other; each of them ends |
| Finance, quotations, catalogue, settings, identity, files, notifications | rows of their own | mostly single-row create, update, delete | local |
| Frontend, migration toolkit | none that the stock depends on | | |

### Interactions

- Everything that changes physical stock goes through `applyMovement`
  (`inventory/stock.service.ts:106`). An increase calls `topUp`, which grants
  the arrival to orders that are IN_PRODUCTION and still wait for the product.
- A customer order computes its needs from the current component list
  (`buildPools`). While NEW it only previews what is on the shelf; the first
  batch flips it to IN_PRODUCTION and reserves for real. Every line edit releases
  all its holds and claims again.
- A batch start consumes the order's holds and writes movements out of stock; a
  revert writes movements into stock, which top up waiting orders. The start also
  consumes units of sub-assemblies and the order's claims on them, and creates the
  units of its own output; a revert deletes those and returns the ones it consumed.
- Shipments, inspections and deletions change the status of units one by one.
- A purchase receipt is a movement into stock that prefers the order it was
  bought for.
- A purchase request claims requirements of several customer orders; converting it
  makes one purchase order per customer order, whose lines remember the request
  line, so that one delivery schedule can cover them.
- A start freezes the labour fund of a batch; executions draw on it when they are
  confirmed, each confirmation writes payroll entries, and voids, corrections,
  reverts and deletions write entries that take them back.
- The bot keeps a conversation on the row of the employee or user and turns it into
  an execution through the same service as the web application; a supervisor
  confirms or removes that draft from a chat. Its own rows are written outside the
  transaction of the submission.
- A stocktake and the assistant's stock tool write movements like anybody else.

### What is hard here

1. Two caches of sums (`reservedQty`, `products.qty`) that every path must keep
   exact; a `GREATEST(.., 0)` hides a drift instead of failing.
2. Grants, releases and top-ups in any order over several orders and
   warehouses: a unit must never be reserved twice, and an arrival must go to
   the right order.
3. Figures computed in one request and used in another: previews, saved
   decisions, the expected quantity of a stocktake, a locked component list.
4. Statement-level interleavings: reads without locks before a conditional
   write, rows locked in different orders by different requests.
5. Undo operations (revert, void, delete) after a long history.
6. Conversations: buttons that stay in a chat for good, updates that come again,
   messages that fail after the work was stored.
7. Quantities and money that are shared out and rounded.

`PROJECT.json` lists each hazard at its line with the properties that cover it.

## 2. Modules

| Module | Models | Extends |
|---|---|---|
| `Sums` | a sum over 1..n as a recursive function, minimum, clamp at zero | |
| `StockRows` | the statements of the reservation service and the stock write, as operators on the rows of one product in one warehouse (a *cell*) | `Sums` |
| `Inventory` | the whole system of stock, reservations, orders, lines, batches before their start, component lists and stocktakes; one action per request | `StockRows` |
| `Production` | `Inventory` with the material side of production orders: direct creation, start, revert, stages | `Inventory` |
| `FinishedGoods` | the units: batches, purchases, serial numbers, inspections, shipments, deletions, and the claims of orders on sub-assemblies | `Sums` |
| `StockTransactions` | the handlers of the reservation service statement by statement, several connections at a time: row locks, what a statement can see, blocking, deadlocks, failures | `StockRows` |
| `Reservations` | what those handlers promise together: one request at a time, completely or not at all | `StockRows` |
| `Executions` | executions, work tasks, the labour side of batches, payroll entries and periods | `Sums` |
| `WorkBot` | the conversations of the bot, submissions, decisions of supervisors, pairing | |
| `Procurement` | purchase requests, purchase orders and their receipt, delivery schedules | `Sums` |
| `MC...` | values for TLC | the module each is named after |
| `SumTheorems` | lemmas about the sum | `Sums` |
| `StockRowsProofs` | lemmas about each statement and about the top-up loop | `StockRows`, `SumTheorems` |
| `ProductionProofs` | theorems about `Inventory` and `Production` | `Production`, `StockRowsProofs` |
| `FinishedGoodsProofs` | theorems about `FinishedGoods` | `FinishedGoods`, `SumTheorems` |
| `StockTransactionsProofs` | theorems about `StockTransactions`, and that it implements `Reservations` | `StockTransactions`, `StockRowsProofs` |
| `ExecutionsProofs` | theorems about `Executions` | `Executions`, `SumTheorems` |
| `WorkBotProofs` | theorems about `WorkBot` | `WorkBot` |
| `ProcurementProofs` | theorems about `Procurement` | `Procurement`, `SumTheorems` |

A start changes material and units in one transaction. `Production` and
`FinishedGoods` each model it whole on their own side, because neither side reads
the other's state: `Production` keeps of the units only whether one was used
since (`outputUsed`, any value while the batch has output), and `FinishedGoods`
treats a start that is refused for lack of material as one nobody asked for. What
one side's properties say of every behaviour of its module therefore holds of the
two together.

### State and code

| Variable of `Inventory` | Rows |
|---|---|
| `cell[p][w].qty`, `.reserved` | `warehouse_stock.qty`, `.reservedQty`; a missing row acts like zeros |
| `cell[p][w].hold[source][order]` | `stock_reservations.qty`, one row per source |
| `cell[p][w].consumed[order]` | `stock_reservations.consumedQty`, both sources added up, the only way it is read |
| `productQty[p]` | `products.qty` |
| `status[o]`, `lines[o][i]` | `customer_orders.status`, `customer_order_items.qty` |
| `requirement[o][p]` | `order_material_requirements` |
| `bom[i]` | the current version of an assembly's component list |
| `batch[b]` | `production_orders`, with the component list locked at creation |
| `stocktake[s]` | `inventory_sessions` with their `inventory_items` |

| Variable of `Production` | Rows |
|---|---|
| `taken[b][w]` | starts of the batch whose PRODUCTION_CONSUMPTION movements are in `stock_movements`, an append-only ledger |
| `returned[b][w]` | how many times PRODUCTION_REVERSAL movements of one start were written |
| `stage[b]` | `production_orders.currentStageIndex` |
| `outputUsed[b]` | some unit of the batch is no longer as the start left it |

| Variable of `FinishedGoods` | Rows |
|---|---|
| `batch[b]`, `stage[b]` | `production_orders` |
| `picked[b]` | `consumedFinishedGoodIds` of the batch's pick list |
| `unit[u]` | `finished_goods`; `checked` says that it has quality checks |
| `claim[o][j]` | `sub_assembly_reservations.qty` |
| `shipment[s]` | `shipments` with their items |

| Variable of `StockTransactions` | Rows |
|---|---|
| `cell`, `status` | the committed rows: `warehouse_stock` with its `stock_reservations`; `customer_orders.status`, `production_orders.status` |
| `draft`, `draftStatus`, `cellOwner`, `docOwner` | the versions an open transaction has written, and the row locks it holds |
| `running[t]`, `todo[t]` | the request a connection runs, and the statements left of it; a statement carries what its handler read earlier: the orders an arrival found running, the holds a cancel listed |
| `shelf[t]` | the stock row a start has read of the line it checks, before it reads what its order holds |
| `seen[t]` | what a start has read of its order's holds (`consume` reads all of them, then updates them one by one) |
| `waiting` | requests that have not come in yet |

| Variable of `Executions` | Rows |
|---|---|
| `execution[e]` | `production_executions` with their allocations; `stamped` is how many `finished_goods.confirmedExecutionId` name it |
| `ledger[e][w]`, `manual[m]` | `payroll_entries` |
| `status[j]`, `fund[j]` | `production_orders.status`, `.laborCostEur`; `work_tasks.status`, `.fund` |
| `closed`, `today` | closed `payroll_periods`; the date |
| `pending[c]` | what a confirmation has read and not yet written |

| Variable of `WorkBot` | Rows |
|---|---|
| `session[c]` | the `telegramPending...` and `telegramAwaiting...` columns of an Employee or User row |
| `linked` | rows with a `telegramChatId` |
| `open` | started orders and open tasks |
| `tap[c][t]` | what a confirming tap has read of the row and not yet stored |
| `recorded` | executions stored by the bot, `SENDING` until their transaction commits |
| `typed` | history: who typed each number, while which job was picked |

| Variable of `Procurement` | Rows |
|---|---|
| `request[q]` | `purchase_requests` with their lines; `needs` is what a line was made for |
| `claim[r]` | `order_material_requirements.fulfillingPurchaseRequestItemId` |
| `order[n]` | `purchase_orders` with lines, `qtyReceived`, and the versions of a line's schedule |
| `posted[n]` | stock movements and finished goods with a `sourcePurchaseOrderItemId` of the order |
| `tx[c]` | what a request has read, or received and not yet committed |

Except in `StockTransactions` and where noted below, each action is one request
handler with every call it makes that changes state; the name of the action is
the name of the handler. What an action abstracts:

- Orders are numbered in the order of creation, so "oldest first" is "smallest
  first". A line is named by its assembly (at most one line per assembly and
  order), and component lists are flat lists of products with one line each.
- Quantities are whole numbers; the code uses decimals and only adds, subtracts,
  multiplies and compares them.
- Cancelled and deleted orders keep their number, so a number is never reused,
  as ids never are.
- Units are numbered in the order in which their rows are created, which stands
  for the manufacture date by which a start picks the oldest.
- Reverting a start voids the labour recorded on the batch, which may be refused
  (closed payroll period). `Executions` models that side; where `Production` and
  `FinishedGoods` revert, a refused revert is a request nobody made.
- A step of `StockTransactions` is a statement, or statements of one transaction
  that no other transaction can tell apart. The rows of a stock row and its
  reservations are one there, since everybody who writes a reservation holds the
  lock of the stock row. It has one warehouse, and a request names a product once.
- In `Executions` a confirmation is two steps, what it reads and what it writes; every
  other request is one. Money is counted in cents, quantities in halves of a unit.
- In `WorkBot` an update of Telegram is one step, except the tap that confirms a
  submission. A number is represented by when it was typed, percentages by the people
  they were typed for, so that a property can ask what became of each.
- In `Procurement` a request reads in one step and writes in another, a receipt
  commits in a third, and a proposal reads its version number in a step of its own.
  `Racing` names the kinds of requests that overlap in a run. A line is `stocked` if it
  names a product or an assembly: only then does a receipt post anything.
- The arrivals of `Inventory` and `Production` are for no order in particular. A purchase
  receipt serves the order it was made for first; the operator `TopUp` has that turn and
  its lemmas cover it, but no action takes it, so `ArrivalsServeOldestFirst` and
  `OldestIsServedFirst` are about arrivals without a preferred order.
- The set of production stages does not change while batches run.
- A batch created directly may name an order line; one made as a sub-assembly for
  a line (`subAssemblyForItemId`) is left out.
- Prices, texts, audit records, notifications and permissions are left out.

## 3. What is checked

TLC runs; every passing run terminates with the whole state space explored.

| Run | Instance | What it shows |
|---|---|---|
| `InventoryCore` | 1 product, two of it per unit, 1 warehouse, 2 orders, 2 batches, stock from -1 to 3 | two running orders compete for one product through every order, batch, decision and movement: `ReservedMatchesHolds`, `GrantsFitFreeStock`, `ArrivalsServeOldestFirst`, `ArrivalsLeaveNobodyWaiting`, `ArrivalsFeedOnlyRunningOrders` |
| `InventoryWarehouses` | 2 warehouses, 1 order with a line of 1 or 2, 2 batches, a stocktake, assistant corrections | a line edited up and down while batches are given, cancelled and removed, stock moved between warehouses, a count that begins before and ends after other movements: `BatchesFitTheLine`, `ReservedMatchesHolds`, `ArrivalsLeaveNobodyWaiting` |
| `ProductionCore` | 2 warehouses, 2 orders, 1 batch, 1 stage, one start from each warehouse, stock from 0 to 2 | starts and reverts between all other requests: `StartsLeaveOthersTheirHolds`, `ConsumptionWasTaken`, `PlannedBatchesKeepNoMaterial`, `ReservedMatchesHolds` |
| `FinishedGoodsCore` | 2 assemblies, one made from the other, 1 order, 2 batches, 2 units, 1 shipment, 1 stage | `OutputOnlyOfStartedBatches`, `ConsumedUnitsAreOnAPickList`, `ShippedUnitsExist`, `StartsLeaveOthersTheirClaims`, `DeliveredUnitsStayOut` |
| `TransactionsMixed` | 2 products, 2 orders, 2 connections, six requests: give, reserve, arrive, issue, start, cancel, of which two lock the products in opposite orders | the statements of any two requests interleave, block, deadlock, fail: `CommittedTotalsMatch`, `GrantsFitCommitted`, the refinement `OneAfterTheOther`, and `EveryRequestEnds` |
| `ExecutionsCore` | 2 executions, 1 batch of one unit, 1 task, 2 employees, 2 days, 1 period, 1 manual entry, quantities of a half and a whole | `ConfirmedWithinPlan`, `LedgerMatchesExecutions`, `StampsMatch`, `ClosedPeriodsStayAsTheyAre` |
| `WorkBotCore` | 1 employee, 1 administrator, 1 order, 1 task, 1 number | `RecordedOnce`, `TypedForItsJob` through every button, again and late |
| `ProcurementCore` | 2 requests, 2 requirements of 2 customer orders, 2 orders, 3 request lines, 2 connections that receive | `RequirementsBoughtOnce`, `ConversionsKeepTheQuantity`, `ReceiptsReachTheStock`, `DeliveredOrdersAreComplete`; some lines are of articles nobody has entered as a product |
| `ProcurementSchedules` | 1 request, 2 orders, up to 3 versions of a schedule, 2 connections that negotiate | `VersionsKeepTheQuantity`, `VersionsMoveForward` |
| `RevertReturnsTwice`, `StartsRace`, `PercentsOfAnotherCrew` | the smallest instance of each | three statements of comments in the code that the code does not keep (section 6) |

Bounds. `StockRange` bounds physical quantities in the guards of the actions that
move stock; `Amount` is what one movement, count or decision carries, `LineQty`
what a line or a batch asks for. Two orders are
enough for every property: each relates at most an older and a younger order,
and the top-up loop already distinguishes the first, a later and the last
waiting order with a need of up to two units against arrivals of one or two.
Negative stock is in the range of `InventoryCore` because nothing in the code
excludes it. Two units are enough for the chain the properties of
`FinishedGoods` are about: a unit, and the unit it is consumed for or that is made
after it is deleted. `MaxStarts` and `MaxClaim` bound two counters nothing else
bounds. Each request of `StockTransactions` comes once, so that its liveness is
about requests and not about how many there are; two connections suffice because a
deadlock, a lost update or a dirty read needs two, and the third request that could
profit from what they left comes when one of them is done. `NumExecutions`,
`MaxNumbers`, `NumLines`, `NumOrders`, `NumVersions` and `MaxReceived` bound how
many rows or numbers there are; two of each let one replace, follow or overtake
another. One number is enough in `WorkBotCore` because its properties follow one number
from the moment it is typed; that two numbers never meet is what the proof adds. For
the modules with proofs, that the invariants do not depend on these bounds is what the
proofs show.

Every property has a mutant in `PROJECT.json`: a plausible bug in the code that
the property catches.

Fairness. `Inventory`, `Production`, `FinishedGoods`, `Executions`, `WorkBot` and
`Procurement` have none: each action is a request a user may or may not send.
`StockTransactions` has weak fairness of the statements of each connection and of
`BreakDeadlock`: the server executes a statement of a handler that has begun unless
it waits for a lock, and PostgreSQL looks for deadlocks periodically. It has none of
`Begin` and `Fail`: `EveryRequestEnds` does not rely on the 60 second timeout. Since
every request comes once, the system stops when all were answered; its two configurations
therefore do not check for deadlock (a deadlock of the DATABASE is a state of the
model, and that it ends is what `EveryRequestEnds` says).

Refinement. `OneAfterTheOther` says that the committed rows of `StockTransactions`
behave as `Reservations` (`Promise == INSTANCE Reservations WITH cell <- cell,
status <- status`: the mapping forgets drafts, locks and what is left to do): every commit is one whole request of the abstract module, and every
other statement is a stutter. What READ COMMITTED takes from the requests is
visible in the abstract module and not hidden by it: an arrival may serve an order
that was cancelled meanwhile, a start closes some of its order's holds, a cancel
releases some of them.

## 4. What is proved

All theorems hold for every number of orders, warehouses, items, batches, units,
shipments, request lines and schedule versions, and every set of products, stocktakes,
component lists, requirements, amounts and quantities that satisfy `NumOrdersAssumption`, `InventoryAssumption`,
`ProductionAssumption`, `FinishedGoodsAssumption`, `WorkBotAssumption`,
`TransactionsAssumption`, `ExecutionsAssumption` and `ProcurementAssumption`, which say
little more than that counts are natural numbers; those about requests, executions and
purchasing hold besides for every set of connections.

Some hold only where requests do not overlap in a way nothing in the code prevents.
Their hypotheses are what fails in the counterexamples of section 6:

- `OneTap`: two confirming taps of one chat do not overlap between reading the row
  and clearing it.
- `HoldsEndedOnce`, `StatusWrittenOnce`: while a request is about to end the holds of
  an order, no other one is about to end the same; while one is about to write a
  status, no other one is about to write the same. Two cancels of one order, or a cancel
  that overlaps a start for it, break them, and then totals really go wrong. `Apart` is
  a condition on the requests alone that implies both: no two that come in
  concern the same order that way. The requests of `TransactionsMixed` satisfy it
  (`NoClash` in `MCStockTransactions`), so the run checks what the theorem says.
- `OneConfirms`: no two connections are between reading and writing a confirmation.
  With one connection it always holds (`OneConnection`).
- `"requests" \notin Racing`: while an operation on a purchase request is between reading
  and writing, nothing else in purchasing is. Two requests that overlap both find a requirement free.
- `FewServed`: no line of a purchase request is for more than three customer orders. It
  is not about overlapping but about rounding: of four equal shares of 0.002 three are
  rounded up to 0.001 each, and the last one, which is then -0.001, is dropped, so that
  0.003 are ordered. The comment in the code says that the exact split is not critical;
  up to three it is exact all the same.

| Theorem | Says |
|---|---|
| `TypeCorrect` | every reachable state is well typed; in particular no hold and no running total is negative |
| `TotalsMatch` | `reservedQty` is the sum of the reservations of all orders |
| `GrantsAreBacked` | no step that reserves more leaves the reservations above the physical stock |
| `OldestIsServedFirst` | an order gains from an arrival only when no older one is left waiting |
| `NobodyIsLeftWaiting` | after an arrival all of it is reserved, or nothing is free, or nobody waits |
| `OnlyRunningOrdersAreFed` | arrivals are reserved for orders in production only, and not beyond what they require |
| `BatchesFit` | the live batches of a line never add up to more than the line |
| `TopUpGood` | the same two facts for one whole top-up, by itself, whatever the number of orders |
| `ProductionTypeCorrect`, `ProductionTotalsMatch` | types and running totals stay right through starts and reverts of batches |
| `RevertsGiveBack` | a batch that is not running has returned at least what its starts took, in every warehouse |
| `StartsSpareOthers` | a start leaves every other order the material it holds |
| `GoodsTypeCorrect` | units, claims and shipments are well typed |
| `OutputIsOfStartedBatches` | only batches that were started and not reverted have output |
| `ConsumedUnitsAreListed` | every consumed unit is on a pick list |
| `ShippedUnitsKeepTheirRows` | nothing deletes a unit a shipment lists |
| `DeliveredIsFinal` | only an inspection takes a unit out of a delivered shipment |
| `StartsSpareClaims` | a start leaves in stock what the other orders have claimed |
| `ConsumedWasTaken` | the material a started batch counts as consumed was taken for it from some warehouse |
| `TransactionsTypes` | rows, drafts, locks and the statements left of each request are well typed |
| `GrantsFitTheRow` | no commit that reserves more leaves a row with more reserved than is there |
| `CommittedTotals`, `TotalsOfApartRequests` | the committed running total is the sum of the committed holds, if `HoldsEndedOnce`, and whenever the requests are `Apart` |
| `ApartRequests` | requests that are `Apart` never end the same holds or write the same status twice |
| `TransactionsRefine`, `ApartRequestsRefine` | requests whose statements interleave act as `Reservations`, one at a time, completely or not at all |
| `ExecutionsTypes` | executions, entries, periods and pending confirmations are well typed |
| `LedgerMatches` | what each worker was paid for an execution is what its state says, whatever overlaps |
| `ClosedPeriodsStay` | no request writes an entry dated in a closed period |
| `StaysWithinPlan`, `UnitsAreStamped` | confirmed work stays within quantity and fund, and as many units carry its stamp as it confirmed, if `OneConfirms` |
| `OneConnection` | both, always, when requests do not overlap |
| `ProcurementTypes` | purchase requests, claims, orders and schedules are well typed |
| `ReceiptsAreStocked` | what the lines of products and assemblies of an order received, and nothing else, was posted into stock for it, whatever overlaps |
| `DeliveredIsComplete` | a DELIVERED order has all it ordered, whatever overlaps |
| `VersionsPlanTheSame`, `SchedulesMoveForward` | no version of a schedule plans another quantity than the first, and the one in force is replaced by a later one only, which is CONFIRMED when it takes over, whatever overlaps |
| `RequirementsAreBoughtOnce` | a requirement is in one line of the requests that are not cancelled, if `"requests" \notin Racing` |
| `ConversionsOrderEverything` | the orders made from a request line have exactly its quantity, if `FewServed`, whatever overlaps |
| `WorkBotTypeCorrect` | conversations, taps and submissions are well typed |
| `NumbersRecordedOnce` | a typed number becomes work at most once |
| `NumbersTypedForTheirJob` | and only for the job it was typed for |

The argument. `TypeOK` is not inductive: `release` subtracts from the running
total what the order held, and that the result is a natural number, without the
clamp ever hiding a difference, needs the total to be the sum of the holds. So
the inductive invariant is `Inv == TypeOK /\ ReservedMatchesHolds`. Cell by cell:
`StockRowsProofs` shows that a grant or a release moves hold and total by the
same amount (`HoldMovesMatched`, which rests on a lemma about changing one term
of a sum, `TotalUpdate`), that a grant stays within the free stock
(`GrantedBounds`), and, by induction over the loop, that a whole top-up does.
`ProductionProofs` then has one lemma per action, combined by `NextOK`.

Who gains from an arrival is a matter of the loop alone. After the turns of the orders
1..k (`Dealt`), either nothing is left of the arrival, or nothing is free, or none of the k
waits any more; so the order whose turn it is gains only when those before it are
served, and its gain changes nothing for them (`TurnDeals`). `TopUpServes` is the whole loop,
by induction over the turns. Then a step is either an arrival, which leaves alone what
the orders need, or it neither adds stock nor gives any order more of what arrived
(`ArrivalsOK`, one lemma per action again, combined by `NextArrives`).

`BatchesFit` needs its own strengthening: that an order which was never created
has no lines (`NoLinesYet`), because creating an order overwrites its lines; and
that a batch belongs to a line as long as it has an order at all, which is why
`removeItem` refuses a line with a live batch.

`Production` extends the invariant with the types of its own variables. A start
takes material from a cell without separating total and holds (`TakenGood`); a
revert writes one movement into stock for every time a start of the batch took
from the cell, so that its effect (`ReturnedGood`) is proved by induction over
those movements, each of which is a whole top-up. `RevertsGiveBack` needs one
fact more, `Settled`: starts and reverts alternate, so a batch that is not running
has returned what it took. `StartsSpareOthers` follows from the exact total: what
the start may not touch is the total minus what its own order holds, which is
the sum of what the others hold. `ConsumedWasTaken` needs that a batch nobody created
has taken nothing (`NotYetStarted`), because creating it sets its order; a start adds the
need of its batch to the right side, and what it closes of the order's two holds is that
much at most.

The invariant of `FinishedGoods` (`GoodsInv`) is about lists. Its heart is
`UncheckedUnitsAreWhereListed`: a unit that was never inspected is on at most one
pick list or shipment, and its status is the one that list gave it. Without it no
undo could be shown right, because a revert and the removal of a shipment trust
their lists: they must not return a unit another list has taken meanwhile, nor
delete one another list names. An inspection breaks that tie, which is why the
properties that survive one (the row exists) and those that do not (a shipped
unit is not in stock, section 6) are told apart by `checked`. That rows are
numbered without gaps (`UnitsInOrder`) makes new units new. `StartsSpareClaims` rests on
a counting argument (`OldestAreFew`): no two of the n oldest units have the same
number of older ones, so they are at most n.

The invariant of `WorkBot` (`WorkBotInv`) follows a number from the session that
holds it, through the tap that has read it, to the execution that records it:
wherever it is, it is known who typed it and for which job, and once recorded it is
in no session and in no tap (`RecordedIsGone`). The last part needs `OneTap`.

The invariant of `StockTransactions` has layers. `InOrder` places each connection
in the program of its request: it has executed the first k statements, so the locks it holds are
those of the rows these lock, and what is left is the rest of the program, with the
statements a listing or a reading has put in front. It is what makes a lock mean
something: the draft of a locked row was written by the one connection that holds it. A start that has read a
stock row and not yet what its order holds has settled nothing (`ReadStockSettlesNothing`). `Fits`
carries the grants from statement to statement until the commit. `Sound` says that every
draft counts its holds right, lowers nobody's hold but that of the order its request
ends, and that no statement is about to take more off a hold than is there, although it
was read without a lock; this is where `HoldsEndedOnce` is needed. The refinement adds `Effective`:
the draft of each row is what the abstract request makes of the committed one, or
of the committed one when it was locked, which is the same row since nobody else can
write it. A commit is then one step of `Reservations` and everything else a stutter.

The invariant of `Executions` (`LedgerInv`) says of every execution what each worker's entries
must be in its state (`Paid`), which is stronger than that they add up: a new entry is made
from the one before it. `PendingOK` is about confirmations
that overlap: what a connection has read may be stale, but the execution still exists in the state
or was confirmed by the other one, and then `PaidOnce` applies, since the unique index over
entries lets the second one write nothing. `JobsUnderWay` says why no batch is
reverted and no task removed under a draft. The closed periods need no more. The
plan does: what is compared with the fund was read earlier, and `PlanInv` says that
it still holds (`PendingFits`), for which `OneConfirms` is needed. A batch has a unit for every
whole unit confirmed because each execution stamps at most half of its halves (`StampsWithinQty`).

The invariant of `Procurement` (`ProcInv`) ties each open request to the rows it has read, which
others may have changed meanwhile. What it can rely on is that an order only grows (`OrderGrows`: lines
receive more, schedules get more versions) until it is removed, and that ids are not given again while an
open request refers to them. So the status a receipt has computed stays right (`ReceiptOK`): if it saw all lines full,
they are full when it commits, because lines only receive more and a removal waits for the
locks of the receipt. The other direction fails (section 6), and is not claimed. An answer to a
proposal concerns a version later than the one that was in force when it was read
(`AnswerOK`), and no version proposed since is earlier, so an accept never goes back, even
one that has been overtaken. `RequirementsAreBoughtOnce` adds that what a lone request has read still
stands when it writes (`Stands`). `ConversionsOrderEverything` needs that the lines a conversion has read are
different ones, each for requirements its line was made for (`OwnInv`); the rest is arithmetic: the rounded shares of two
customer orders leave nothing negative for the third (`TwoRounded`), the lines of all
buyers are those with a positive share (`LinesAmount`), and a sum over the new orders is the same
sum over the buyers, in another order and without those who get nothing (`TotalRenumbered`).

Every safety property of a passing run is a theorem. Only model-checked: that every
request ends (`EveryRequestEnds`), and that the claims of section 6 fail. Out of the
prover's reach: liveness, and what a recursive definition computes for every input in
general (the library's induction theorems need an operator as a parameter, except for
the induction over natural numbers written out here).

## 5. Plan

Done: `StockRows`, `Inventory`, `Production`, `FinishedGoods`, `StockTransactions`,
`Executions`, `WorkBot` and `Procurement` with their theorems; the refinement of
`Reservations`, checked and proved, and the first liveness.

Left, in this order:

1. `StockTransactions` with units and batches of a line as rows, for the races of
   shipments, claims and batches (hazards without a property).
2. Nested component lists, sub-assembly batches of an order line.
3. Quotations that become orders; the pure algorithms (cutting, packing).

## 6. Where the code and its comments disagree

With a run and a finding in `PROJECT.json`:

- `RevertReturnsTwice`: the second revert of a batch also credits the consumption
  of its first start, which the first revert had credited already.
- `StartsRace`: two starts that overlap both find the material and both take it; the
  comment says that a start cannot race with itself.
- `PercentsOfAnotherCrew`: the percentages an administrator typed survive a change of
  the crew, although the schema says they are cleared.

Stated in the modules as what a comment promises, false of the code, without a run of
their own. To see a counterexample, name the property in the configuration of that module's
passing run, changed as the table says:

| Property | Module | What happens |
|---|---|---|
| `ReservationsFitStock` | `Inventory` | a manual issue, a move or a stocktake correction does not look at reservations, which then exceed the stock |
| `DecisionsAreHeld` | `Inventory` | a decision saved for a NEW order reserves only the difference to a preview |
| `RevertsReserveAgain` | `Production` | the reservation a revert should re-create is not, because what was consumed still counts as covered |
| `NextSerialIsFree` | `FinishedGoods` | serial numbers are the count of units plus one, so after a deletion the next may be in use and starts and receipts fail |
| `ShippedUnitsAreNotInStock` | `FinishedGoods` | an inspection overwrites the status of a shipped unit |
| `CancelledOrdersHoldNothing` | `StockTransactions`, `Request <- CancelAndArrive` | an arrival that read the order as running still tops it up while it is being cancelled |
| `ConfirmedWithinPlan` | `Executions`, two connections | two confirmations that overlap each compare with a fund the other has not yet used |
| `ReportsPayWhatIsConfirmed` | `Executions` | the reports of a customer order count the entries of voided executions: the entries that take them back have no allocation |
| `OneVersionInForce` | `Procurement` | a reject that overlaps an accept, or a confirm that overlaps an accept, leaves a rejected version in force or two confirmed ones |

Seen while modelling, without a statement of their own because the code promises less
clearly what should happen:

- the need of an order is counted per warehouse, so stock that arrives in a second
  warehouse is reserved for an order that already has all it needs;
- the assistant's stock correction changes the product total and no warehouse row;
- a completed order keeps what it still holds, and can no longer be cancelled;
- a revert does not give back the claims on sub-assemblies the start consumed;
- a batch created directly for an order line is not compared with the line, so
  `BatchesFitTheLine` is stated of `Inventory`, where batches come from
  `giveItemToProduction`;
- two cancellations of an order that overlap release the same holds twice, two gives
  reserve twice, and a give that overlaps a cancel puts the order back in production;
- the last share of a crew may be a cent below zero; rounding up may make the last
  fraction of a batch's fund unconfirmable; a fraction of a unit stamps no unit;
- a confirming tap that is handled twice at the same time records the work twice; an
  unpairing by the office leaves most of the conversation on the row;
- a purchase line that names neither a product nor an assembly is received, and completes its
  order, without anything reaching the stock;
- two receipts of different lines that overlap may leave a complete order PARTIAL, two
  conversions that overlap both make orders, two requests that overlap may claim the same
  requirement; a requirement can be bought through a request and directly;
- with four customer orders or more and tiny quantities the rounded shares of a conversion
  may exceed the quantity (0.002 for four makes 0.003).

## 7. Not modelled

Listed with reasons in `PROJECT.json`. Finance and reports only sum what others wrote.
Quotations, catalogue, identity, files, notifications, search and settings are
rows of their own without shared state. Cutting and packing are pure heuristics over
real-valued sizes. The frontend presents what the backend returns, and the migration
tools run once.

Of the components that are modelled in part: nested component lists, sub-assembly
batches of a line, frozen costs and planning fields; prices, suppliers, quotes, comments,
documents and header edits of purchase orders; photos, lists, search, reminders and
notifications of the bot; balances and payouts of payroll; stages and plans of
workers. They change nothing the modelled state depends on, or are refusals, which
the model treats as requests nobody made.
