# A TLA+ verification project for Synkro

Synkro is an inventory and order platform made of separate services and three
web front ends.  This directory specifies the parts of it that keep state and
act on it concurrently, checks them with TLC on small instances and proves the
main invariants with TLAPS.  Paths below are relative to the repository; `src/`
in `PROJECT.json` is its root.

## The system

| Part | State | Operations | Hard behaviour | What makes it correct |
|---|---|---|---|---|
| inventory-sync-service (Go), stock core: `services/inventory.go`, `repository/postgres/inventory_repository.go`, `api/grpc/server.go`, `api/rest/handlers.go` | `inventory_levels`, `inventory_reservations`, `inventory_transactions`; the connection pool | adjust, allocate, check-and-reserve, release, commit, cancel | unlocked checks before locked transactions; transactions left open by error returns; nested use of the pool; Postgres deadlocks | columns agree, nothing oversold, a reservation settles once, every request returns |
| inventory-sync-service, catalogue and start | `inventory_items`, `warehouses` | create, update, delete; `RunMigrations` | deletions cascade under running requests; every start drops the inventory tables | the tables stay consistent with each other |
| logistics-engine (Rust), orders: `services/order_service.rs` and its repositories | `orders`, `order_items`, `inventory_items.quantity` | create, change status, update, edit and delete items | status read outside the transaction that acts on it; futures dropped at an await; events published after the commit | units move between shelf and orders only, the checks keep stock from going below zero, announced means done |
| logistics-engine, inventory items | `inventory_items` of this service | adjust, update, reserve, record | read, check, then unguarded write | stock negative only by the writes that skip a check |
| logistics-engine, messaging `mq/` | connection, channels, queues | publish, consume, reconnect | lost, repeated and reordered messages | (plan) |
| logistics-engine, order producer, payments, shipping | a flag and a loop; status columns | start, stop; process, refund | stop racing the loop; read-then-write | (plan) |
| api-gateway-auth (NestJS, one Node process) | `users`; the set of invalidated tokens, in memory; requests under way | login, register, validate, logout, read and update an account, forward, broadcast, health check | interleaving at every await; check then insert; in-memory list and its cleanup; `Promise.all` | unique emails, logout is final, a broadcast that succeeds was written to every connection |
| frontend-dashboard, charts: `hooks/useAnalytics.ts`, `utils/chartHelpers.ts`, `components/builders/D3Chart.tsx` | the chart's data, a timer, a status, the svg | fetch, repair, draw | 25 getters with fallbacks, answers in five shapes, a timer that outlives its data | what arrives is drawn, no count lost |
| frontend-dashboard, analytics pages and data hooks | requests in flight, flags, panels | open, leave, refresh, generate, CRUD calls | answers in any order, failures, an interval | pages fill, nothing stays loading |
| frontend-dashboard, backoffice forms | form values, saves in flight, the picker's cache | open, edit, pick, submit | saves that outlive the form | one save per form, a save button that tells the truth |
| frontend-dashboard, backoffice lists and details | query cache, fetches, deletions, path | search, visit, delete, open | out-of-order answers over a shared cache | the list matches the search, a deleted row is not fresh data again |
| frontend-auth, `stores/auth.store.ts` | token and user of each tab, `localStorage`, storage events | login, register, logout, poll | several tabs that hear of each other late | tabs agree, dead tokens are dropped |
| frontend-dashboard session, frontend-landing | sessions of their own | validate, sign in | cached validation | (plan) |
| ai-ml-predictions (Python), notification-service, layout, deployment files | a cache, a registry; sockets; none | predict; relay; show | a cache replaced while read | not modelled, see below |

The parts interact by calls (logistics-engine calls inventory-sync-service over
gRPC when an order is created and cancelled; the front ends call the gateway and
logistics-engine over HTTP; the gateway forwards to the services), by messages
(logistics-engine publishes order events to RabbitMQ), by storage events (tabs of
one origin) and through a shared database: inventory-sync-service's default
`POSTGRES_DB` is `logistics_engine`
(`src/inventory-sync-service/src/config/config.go`), so a restart of one service
drops the `inventory_items` table that the other one sells from.

`PROJECT.json` lists every component with its status, and every hazard with the
properties that guard against it.

## Modules

| Module | What it is |
|---|---|
| `InventorySync` | the stock core of inventory-sync-service, catalogue creation and deletion, restarts; the refinement mapping to `StockBook` |
| `StockBook` | what the stock core promises for one warehouse: units on hand, units held |
| `MCInventorySync`, `InventorySyncProofs` | instances; theorems |
| `OrderService`, `MCOrderService`, `OrderServiceProofs` | orders and their stock in logistics-engine; instances; theorems |
| `Gateway`, `MCGateway`, `GatewayProofs` | accounts, tokens and routes of api-gateway-auth; instance; theorems |
| `Charts`, `MCCharts` | one chart of the dashboard from the answer to the picture; instance |
| `Pages`, `MCPages` | the dashboard's pages and data hooks while requests are in flight; instance |
| `DashboardProofs` | theorems about `Charts`, `Pages` and the two together |
| `BackofficeForm`, `MCBackofficeForm`, `BackofficeFormProofs` | the six create and edit forms of the backoffice; instance; theorems |
| `BackofficeList`, `MCBackofficeList`, `BackofficeListProofs` | its lists and details; instance; theorems |
| `AuthStore`, `MCAuthStore`, `AuthStoreProofs` | the session store of frontend-auth in several tabs; instance; theorems |
| `SumProofs` | lemmas about sums over finite sets, for the proofs that count units and transactions |

A definition whose name has an underscore and a suffix after the name of a
definition of the same module (`Deleted_Hang`, `AnswerCheck_Keep`, ...) is a
mutant: a version of the code with a plausible bug, which the property named for
it in `PROJECT.json` must detect.

### InventorySync

State: `itemState` and `whState` (does the row exist), `levels` (the level of
each item in each warehouse, or `None`), `reservations` (for each status, order
and item, the total of the rows), `pendingRows` (which order and item has a
pending row: two rows can add up to nothing).  A handler is a `pc`, a `call`
record with its arguments and locals, and `abandoned`: the pool connections and
row locks that its error returns left behind.  `negatives` is history: the items
of which a negative quantity was reserved.

Quantities have either sign, as in the code: REST's `binding:"required"` refuses
only zero and the gRPC methods check nothing.  An adjustment by zero only reads
the level (`ReadLevel`).  `LookupLine` ends a basket in the middle when a line
names no product, after earlier lines were reserved.

A step is a transaction that locks what it reads and commits, or a single
statement outside one.  `AllocateInventory`, `Settle` (release, commit and
cancel, which differ in `SettleLevel` and `Outcome`) and `AdjustLevel` are each
one step, because `SELECT ... FOR UPDATE` holds their rows from the check to the
commit.  What is *not* locked is split: `Validate`, `LookupLine` and `PreCheck`
read a level that may change before it is used; `CreateTransaction` writes its
ledger row on the pool and not in the handler's transaction; `AdjustMissing`
finds no row to lock, so `InsertLevel` may collide with another insert.

Two things in the Go code shape the model.

* The repository rolls back in a deferred function that looks at the function's
  own `err`.  Errors returned while that variable is nil (no pending
  reservation, insufficient inventory, an error shadowed inside the loop) leave
  the transaction open.  `AbandonTx` records its connection and locks.
* A gRPC context is cancelled when the handler returns, and database/sql then
  rolls the transaction back.  REST handlers pass the `*gin.Context`, whose `Done`
  channel is nil, so nothing ever gives the connection back.  `Return` makes
  that difference; `RestClients` says which callers are which.

`SettleDeadlock` stands for Postgres aborting one of two settlements whose
updates cross.  `Disconnect` is a gRPC caller going away at any point.
`DeleteItem`, `DeleteWarehouse` (with their cascades) and `Restart` (with its
`DROP TABLE`s) happen between any two steps.

Free stock is not a variable of `StockBook`: it is what is on hand and not held.
That the code, which keeps `reserved` and `available` in columns of their own
and reservations in another table, implements the book says that the columns
and the tables never drift apart.  It holds with one warehouse only: with two,
settling a reservation changes the levels of both.

### OrderService

State: `stock` (`inventory_items.quantity`), `orders` (the status, or `None`),
`items` (what an order has of each product), `events` (what was published), and
a `pc` and `call` for each caller.  `unguarded` is history: the products whose
quantity was changed past its check (`Exposes`).

The operations are creating an order, changing its status, `PUT /orders/{id}`
(`UpdateOrder`, which writes any status, `cancelled` included, and leaves the
shelf alone), editing and deleting an item, adjusting, recording a transaction
(`create_transaction`: a ledger row, then the quantity) and editing the stock.
Lines have either sign: the order handlers never call `validate()`.

`CreateOrder` is the transaction of `create_order`: lock the products, insert
the order, its items, its payment and shipping rows, take each quantity with
`UPDATE ... WHERE quantity >= $1`, or roll everything back.  The call to the
inventory service before it may refuse the order; every other answer, an
unreachable service included, lets it continue.  `update_order_status` is five
steps: `FindOrder` (unlocked), `BeginCancel` (takes a connection), `ReadItems`
(on a second connection, outside the transaction), `CancelOrder`, and the
publications.  Statuses other than cancelled go through `UpdateStatus`; the
database type has no label for `out_of_stock`, and that write fails.

`Abort` ends a handler at any await: axum drops the future when the client
disconnects, the database may abort it, the process may stop.  `PoolTimeout` is
sqlx's acquire timeout.

### Gateway

The gateway is one Node process, so an action is the code between two awaits of
one request.  `req[r]` is the request: its step (`pc`), its operation, the token,
id and body it carries, the row it has read, its answer.  `users` is the table,
`invalidated` the in-memory set of `AuthService`, `issued` the strings handed
out, `sent` the messages to the three services.

Login and registration are two actions each (before and after the await on bcrypt
or the insert), validation two (the list is consulted before the account is
awaited), an update up to five: `Guarded` (the guards in the order they run),
`GuardLookup` (`JwtStrategy.validate`), `FindOne`, `UpdateCheckEmail`,
`UpdateSave`, which writes every column of the row read before.  `Forward` sends.
`Answer` is what comes back for a message sent with `send`, `Emit` the writing of
an event to its connection with `emit`, which no service acknowledges; what either
does to the request is `Outcome`.  `Settled` is `Promise.all` or
`Promise.allSettled`.  `Tick` lets tokens expire, `Cleanup` is the hourly
interval, `Restart` forgets the list.  `late` and `dirty` in a request and
`loggedOut` are history for the properties.  A token is stamped in whole seconds:
two sign-ins in one tick are the same string.

### Charts

A chart is its type, the kind of its rows and, for each metadata key, whether it
is absent, in snake case, names a fitting column, a column without numbers, or no
column: what the code branches on.  The 25 getters are operators from an answer of
the endpoint to a chart; `validateChartData` and `statusPie` are the repairs on
the way; `transformTransactionVolumeData` groups real points by the period
`aggregationPeriod` chooses, with a calendar month of 30 days.  Both of its sorts
are `InOrder`, which puts a member where as many come before it; ties keep their
order, as in `Array.sort`.  `WeekPoints` and `MonthPoints` are 50 and 100 in the
code and small in the instance.  `Served` is what logistics-engine answers today,
read from its handlers.  The draw functions are abstracted to whether the rows are
in the picture, with the combo chart's x values put on a time scale
(`D3Chart.tsx:1806-1837`): one that is no date has no position.  The quarters of
the financial mock (`Q1`, `Q2`, ...) are taken to be no dates; the language leaves
strings that are not ISO dates to the implementation.  `SankeyLayers` is the
layering itself.  `Receive`, `Fire` and `Unmount` are the component's effect, its
100 ms timer and its cleanup.

### Pages

One view is mounted at a time.  `calls` is its requests in flight; an answer
action exists for each kind of view (`AnswerGetter`, `AnswerRefresh`,
`AnswerPredictions`, `AnswerModels`, `AnswerGenerate`, `AnswerHook`), each with
its failure.  The forty operations of the five data hooks have one body and one
action.  `Leave` drops the state, as React does.

### BackofficeForm

`initialize` is the six form configurations of `BackofficeDirector`, field by
field, reduced to what validation asks of a field.  Required fields without a
rule of their own are interchangeable, so the model counts those filled.  The
picker (`fetchOptions`, `PickProduct`) and the order items (`handleSelect`,
`handleRemove`, the quantity buttons) keep what their closures really hold: the
listener of `update-hidden-field` writes the values of the first render.  `saves`
are the saves in flight, each with the form it came from; `AnswerSave` navigates
wherever the user is by then.  `PressSave` is the button, disabled while saving.
The quantity buttons of the order form have no `type`, so their clicks submit it
too, and `handleSubmit` asks nothing about a save under way.  A button disabled by
its own click may or may not submit.

### BackofficeList

`cache` and `fetch` are react-query's, by key (title and search term); a fetch is
sent, served and received, so that a deletion can come between.  `Shown` is the
key's data or the placeholder of the last key.  `Observe`, `invalidate` and
`Unmounted` are what mounting, invalidating and unmounting do to the cache and
to a running mutation: a confirmed deletion restarts the fetch of a key that has
data, and leaves a key's first fetch running, which react-query then keeps.
`Searched` and `Deletable` are what the engine's list and delete handlers do; those
of transactions and reservations ignore the term.  The related rows of a detail
page are fetched by `fetchRelated`, past the API client.  `getModuleByPathSegment`
works on a stem and the number of `s` at its end.  `gone` and `late` are history:
rows a list knows deleted, and those of them confirmed during the key's fetch.

### AuthStore

Each tab has a page, a token, a user, an interval flag, checks in flight by
token and a queue of storage events; `stored` is `localStorage`.  A handler runs
to its next await as one action, except where another tab can act between two of
its statements: the two writes of a session are `WriteToken` and, in
`LoginStored` and `LogoutStored`, `WriteUser`.  Each write is an event of its own
to the other tabs.  `Take` and `Follow` are what a tab does with the token's event:
it reads the user key as it is then, and an event that finds the token unchanged
reads nothing.  `Open` runs `initAuth` twice (the store and `main.ts` call it); a
stored token without a user asks for the profile, and until `ProfileRefused` the
tab is not `Listening`.  `overlap` (two tabs wrote a session at once) and `torn`
(tabs that read one while it was written, or after such writes) are history.

## Runs

| Run | Bounds | What it shows |
|---|---|---|
| `stock_single` | one item, one warehouse, a REST and a gRPC caller, four requests of every kind with quantities -1, 0, 1 and 2, two units at the start, four connections, one restart, deletions | every pair of operations interleaved: types, `Balanced`, `NeverOversold`, `ReservedIsPending`, `SettledOnce`, `ImplementsBook` |
| `stock_warehouses` | two items in two warehouses, a REST caller that adjusts, allocates and releases and a gRPC caller that reserves, releases and commits, three requests, two connections, baskets in either order, with one item twice and with a line without a product | lines of two baskets interleave, abandoned transactions take connections and rows: `ReservedBacked`, `EveryRequestReturns` |
| `stock_deadlock` | two items, a warehouse with two units of each and one that may be created, two gRPC callers, four requests that reserve one unit of each item or release an order, two connections | two settlements update the levels of two items in opposite orders and Postgres aborts one: `EveryRequestReturns` |
| `orders_core` | two products, three orders, two callers, three requests of every operation, a basket with a negative line, changes of -2 and 1, two connections | types, `StockNonNegative`, `UnitsMoved`, `EventsTruthful`; `EveryRequestReturns` though two cancellations can take the whole pool and wait for each other |
| `gateway_accounts` | one account on record and one that can register, two emails, two requests at a time, three in all, tokens that live one tick | `UniqueEmails`, `LoggedOutNeverValid`, `OkMeansAll`, `UpdateChangesOneColumn`, `EveryStepReplied` |
| `charts` | each of the 25 getters, two answers in a row out of every shape, volumes of up to four points over six instants chosen so that every period occurs, up to three parallel paths | `FallbackDraws` (all getters but the financial one), `LiveAnswerDraws`, `SuccessIsCurrent`, `SankeyPlaced`, `VolumeConserved` |
| `pages` | every view, three requests after the first | types with the interval, `IdleNotLoading`, `GeneratedStays`, `PageFills` |
| `auth_store` | two tabs, two accounts, two logins, five inputs in all (openings, logins submitted, logouts, failed checks, revocations) | `UserOfToken`, `PollsWhileHolding`, `QuietTabsAgree`, `DeadIsDropped` |
| `backoffice_form` | two forms of any of the six modules, two products, two order lines, quantities to 2, two saves in flight | types with the floor of a quantity, `OneSavePerForm`, `SavingIsInFlight`, `SavingEnds` |
| `backoffice_list` | a module that is searched and one that is not, three rows, three visits, one change of the search, one deletion | `GoneStaysGone`, `SettledMatches`, `PathsResolve`, `PagesSettle` |
| `orders_twice` (violation) | one order, three requests | two cancellations of one order both restore its stock |
| `gateway_admin` (violation) | as `gateway_accounts` | the global `RolesGuard` runs before any guard has set `request.user`, and an administrator's request to an administrator's route gets 401; `test/user-role.e2e-spec.ts` expects 201 |

Why the bounds are enough: four requests are reserve, reserve, settle, settle of
two callers, the shortest history in which two settlements contend or, with two
items each (`stock_deadlock`), deadlock, and two units make a request for two
compete with two requests for one; a quantity of minus one turns every comparison
round.  In `stock_warehouses` three requests are one that abandons a transaction,
one that needs what it kept and one that competes, and two connections are as few
as a handler that writes its ledger row on the pool needs.  In `orders_core` three
requests are a creation and two that compete for its order, the shortest history of
each write that `MovesUnits` names, and three creations have three orders.  Five
inputs of the auth store are two tabs opened, two logins that overlap and a logout.
In the gateway three requests are a sign-in, an update and a competing update or a
logout and a validation, two of them interleaved.  Two forms are enough for a save
that returns into a later form; two tabs are enough for every order of
events between a tab and the rest, and the invariants are proved for any number.

Deadlock checking is off where the bounds stop the model (`CHECK_DEADLOCK FALSE`)
and on in `gateway_accounts`, `gateway_admin` and `pages`, where something can
always happen; that requests do not get stuck is what the liveness properties say.

## Fairness

* `InventorySync`, `OrderService`: weak fairness of every handler's next step, and
  nothing else.  A goroutine or a task that can run is run, a statement that can
  get its connection and its locks gets them.  No fairness of callers,
  disconnects, the broker or restarts.  In `stock_warehouses` and `stock_deadlock`
  there are as many connections as callers, and a request may wait for good for
  what a skipped rollback has kept, of a running request (a gRPC basket that
  repeats an item waits for its own lock) or of the REST API:
  `EveryRequestReturns` says that nothing else keeps one from returning
  (`HeldUp`).  At most one caller adjusts in these runs and leaves a connection to
  spare; with as many adjustments at once as connections each waits for a second
  one, and the service stands still.  `orders_core` needs no such exceptions,
  because sqlx gives up after the acquire timeout.
* `Gateway`: weak fairness of each request's next step: the database and bcrypt
  answer.  Nothing makes a service behind the gateway answer, and
  `EveryStepReplied` does not speak of requests that wait for one.
* `Pages`, `BackofficeForm` and the fetches of `BackofficeList` that use the API
  client: requests end, because `fetchWithTimeout` aborts the ones that are not
  answered; timers fire.  The related rows of a detail page are fetched with the
  browser's own `fetch` (`DetailPage.tsx:39`), which nothing aborts: nothing is
  assumed of `fetchRelated`, and `PagesSettle` excepts a page that waits for it.
* `AuthStore`: the event loop of each tab turns.  Failed checks are among the
  `MaxInputs` inputs; a network that fails for ever keeps a dead token.

`Charts` has safety properties only.

## Proofs

Every safety property of the passing runs is a theorem.  Each inductive invariant
was first checked with TLC on the run's instance.

### InventorySyncProofs

For any sets of items, orders, warehouses, callers and baskets, any quantities and
any pool size:

* `TypeCorrect`: `TypeOK`;
* `AlwaysBalanced`: the three columns of every level agree;
* `AlwaysNeverOversold`: no available column of an item is negative, until a
  negative quantity of it is reserved;
* `AlwaysReservedBacked`: until then no level shows more units reserved than the
  item's pending reservations hold, in any number of warehouses;
* `AlwaysSettledOnce`: no step settles units that are not pending;

and, if there is one warehouse (`OneWarehouse`):

* `AlwaysReservedIsPending`: the reserved column is the sum of the pending
  reservations;
* `BookRefinement`: every step is a step of `StockBook` or leaves the book alone
  (`ImplementsBook`).

`OneWarehouse` is what the code needs for the last two and not a convenience of
the proof: a reservation raises `reserved` in the level of one warehouse, and a
settlement lowers it in the level of every warehouse, so with two the columns and
the reservations part (see below).

The assumptions are `ConstantsAssumption` (the callers and operations are subsets
of the ones there are, quantities are integers, baskets are sequences of lines
that may name no item, the null value is not a number) and `FiniteTables`
(finitely many orders and warehouses, which a sum over them needs).

There are two inductive invariants.  `IInv` is `TablesOK` (the types of the
tables, `Balanced`, and that no row refers to an item or a warehouse that is
gone) and `ControlOK` (a handler has the arguments its step uses).  It holds for
quantities of either sign.  The argument goes action by action, with one lemma for
each kind of change to the tables (`AdjustTables`, `AllocateTables`, `SettleTables`,
`DeleteTables`, `RestartTables`) and one for each way a handler moves on
(`ReturnControl`, `GotoControl`, `NextLineControl`).  `AlwaysSettledOnce` is an
action property and uses the same invariant.

`Sound` is about the items that are not in `negatives`: what is available is not
negative, what is reserved is at most what is pending, and no reservation row
holds a negative total.  `NeverOversold` alone is not inductive: the adjustment and
the allocation keep it by the check under the row lock, but a settlement only
because what it gives back is not negative, and a release because what it takes
from `reserved` was pending.  `AdjustSound`, `AllocateSound`, `SettleSound` and
`DeleteSound` are its steps, joined in `NextSound`.

The refinement adds `BookOK`: where an item has a level its reserved column is the
pending total, and where it has none but could get one, nothing of it is pending.
The second half is needed because `InsertLevel` creates levels with nothing
reserved.  One lemma for each action that changes the tables says which step of
the book it is (`AllocateBook`, the ones for adjusting, settling, deleting and
restarting); all other actions leave the book as it is.  `BookOK` and the mapping
are proved together, because that a settlement maps to a step of the book uses
that the column and the total agree before it.

### OrderServiceProofs

For any sets of products and callers and any finite set of orders
(`FiniteOrders`):

* `TypeCorrect`: `TypeOK`, in particular that no order gets a status without a
  database label;
* `AlwaysEventsTruthful`: a creation that was announced happened;
* `NeverNegative`: the stock of a product is not negative until one of three
  things happened to it: a negative line was ordered, a transaction removed units
  unchecked, or its quantity changed between `adjust_quantity`'s check and its
  write (`unguarded`);
* `AlwaysUnitsMoved`: no step of any operation makes a unit appear or vanish,
  except the writes that `MovesUnits` names: a status over an order that is
  cancelled already, a cancellation of items that changed since they were read,
  `PUT /orders/{id}` to or from cancelled, and writes of the quantity itself.

The inductive invariant adds to the types that a handler has the arguments its
step uses (`Fits`) and that a handler about to announce a creation has committed
it (`Committed`), which other handlers keep because no operation deletes an
order (`OrdersStay`).  `NeverNegative` needs `GuardOK`: of a product outside
`unguarded` no order has a negative quantity, no handler is about to give back or
write a negative one, and a checked adjustment still fits the stock.  The sums need
`KnowledgeOK`: the order a handler acts on exists, and a plain status change never
cancels.

### SumProofs

`Units`, `PendingOf` and the book's `HeldOf` are sums over a set of orders, folds
defined by recursion over subsets.  The induction they need is done with sets
instead of an induction rule: if some subset of a finite set violated the defining
equation there would be a minimal one, and removing an element from it leads to a
contradiction (`Minimal`, `SumExists`, `SumEquation`).  The other proofs use
`SumType`, `SumRemove`, `SumSame`, `SumZero` and `SumChange`, and, where counts are
regrouped, `SumParts` (summing part by part) and `SumPermuted` (in another order).

### AuthStoreProofs

For any number of tabs, logins and inputs and any account of each token, from
`AuthStoreAssumption` (the bounds are naturals, no token's account is the null
one):

* `TypeCorrect`; `AlwaysUserOfToken`: a tab shows the account of its token, unless
  it read the session during another tab's write of it or after two writes that
  overlapped (`torn`); and the stored keys belong together when nobody is writing
  them and no two writes overlapped;
* `AlwaysPolls`: a tab polls exactly while it holds a token, except one that opened
  with a token and no user (`Bare`);
* `TabsAgree`: tabs that have heard everything hold the stored token, `Bare` ones
  excepted.

The exceptions are the code's: a tab that hears of a token between the two writes
keeps no user or the old one, and the later event of the user key repairs nothing,
because the handler reads only when the token differs.

The three are proved together with `ClosedEmpty` (a closed tab has no session and
hears nothing), `WriterOK` (between its writes a tab shows the session it is
writing, and without an overlap no other tab has written since) and `DeafOK` (a
tab without a listener has done nothing since it opened).  `UserOfToken` needs
`WriterOK` at the second write, `PollsWhileHolding` needs `ClosedEmpty` at `Open`
and `WriterOK` at the second removal, and `QuietTabsAgree` needs `DeafOK` where an
event is lost.  A write of the token keeps `QuietTabsAgree` because every other
open tab that listens gets an event (`AnnounceHeard`).  The steps come in kinds,
one lemma each: `WriteTokenStep`, `WriteUserStep`, `LogoutStep`, `TakeStep` and
`QuietStep`, and `OpenIInv`, `ProfileIInv`, `CloseIInv`, `EventIInv` for the
actions that are none of them.

### GatewayProofs

For any accounts, emails, passwords and services and any number of requests, from
`GatewayAssumption` (the seeded accounts are rows with different emails, a token
lives at least one tick, the special values are not rows or tokens):

* `AlwaysUniqueEmails`; `AlwaysLoggedOut` (`LoggedOutNeverValid`);
* `AlwaysOneColumn` (`UpdateChangesOneColumn`, an action property);
* `AlwaysOkMeansAll`: a broadcast answered with success was written to the
  connection of every service, and a health check that says ok has heard from all.

Its invariant says of each request that it has what the code after its await uses
(`Fits`), that a validation begun after the logout was refused before its await
(`Refused`), and that an update holds the row of the table unless it was saved
since (`Fresh`); and of the list that every logged-out token is in it or no longer
verifies (`Remembered`).  The last is what makes the cleanup harmless: it drops
only tokens that do not verify, the clock does not go back, and a token signed
later has a later stamp than an expired one.  A registration keeps `Fresh` because
it writes a row that did not exist, and no update holds such a row.
`AlwaysOkMeansAll` adds `SentOK`: a request that waits has sent to every service,
so that "no message is pending" cannot mean that some were never sent.

### DashboardProofs

About one chart, for any hourly counts, any number of parallel paths, thresholds
and answers, from `ChartsAssumption` (a volume is a non-empty sequence of hours and
counts, there is at least one path, the week threshold is below the month's):

* `AlwaysSuccessIsCurrent`, `AlwaysFallbackDraws`, `AlwaysLiveAnswerDraws`,
  `AlwaysSankeyPlaced`, `AlwaysVolumeConserved`.

The invariant `IInv` says that the chart is what the getter made of the last
answer (`ChartOK`), that at most one timer is pending and was set for that chart
(`TimerOK`), that a settled status is the outcome of its timer (`SettledOK`), and
that the picture is that of some answer of this getter (`ShownOK`): it may be an
earlier one, because data without rows leave the svg alone.  What remains is about
operators, not steps:

* *Drawing.*  `Ready` says what a chart must have before validation, by type;
  `ReadyDrawn` that validation and the draw function then put its rows into the
  picture.  `FallbackDrawn` shows it of the mock data of 24 of the 25 getters (the
  financial mock's quarters have no place on a time scale), `LiveDrawn` of the
  engine's answers, with their snake case, flat metadata and status counts
  labelled sankey.
* *Layers.*  `SankeyLayers` iterates over its own result.  If the nodes have a
  grade such that each link leads from one grade to the next, every node above the
  first grade has a link to it and no grade is empty (`Graded`), then after k rounds
  the layers are the first k grades (`GradedLayers`, by a least counterexample), and
  the number of nodes is enough rounds (`EnoughRounds`).  Chains, parallel paths and
  the tree of the mock data are graded; `GetPlaceable` shows that no getter returns
  other links.
* *Counts.*  `InOrderIs`: a rank under a total order is a bijection, so sorting
  returns each member once and in order.  The periods part the points, so the sum of
  the sums is the sum (`SumParts`).  Equal hours are allowed, and any order of the
  answer.

About the pages, for any number of requests of a mounted view: `PagesTypeCorrect`,
`AlwaysIdleNotLoading`, `AlwaysGeneratedStays`.  `GeneratedStays` is not inductive:
the first page of predictions overwrites the list.  `FirstPageFirst` says that
while it is awaited it is the only request, no model is loaded and nothing is
generated; `Cleared` says that nothing of one view is left for the next.
`AlwaysPageWhole` is what `PageFills` says short of liveness: an analytics page sets
none of its panels or all of them, and has set all when nothing is in flight
(`PageOK`: each getter has answered or is in flight).  `AlwaysPanelsDraw` joins the
two models: each panel of such a page has data, and the mock data of each getter but
the financial one are drawn.

### BackofficeFormProofs

For any number of forms, order lines and quantities, and each of the six
configurations: `TypeCorrect`; `AlwaysOneSavePerForm`, outside the order form;
`AlwaysSavingIsInFlight`: a form's button is disabled only while a save of its own
is in flight, and outside the order form always then.  The order form is excepted
because its quantity buttons submit it while it is saving.  Both rest on `SavesOK`:
no save is of a form that was not opened yet; outside the order form a form whose
button is enabled has no save in flight, and any form that is saving has one.  A
failed answer re-enables a form only if the save was its own, and `OneSavePerForm`
itself says that no other is left then.

### BackofficeListProofs

For any non-empty selection of the modules, any rows, owners, search terms and
paths and any number of visits, changes and deletions, from
`BackofficeListAssumption`: `AlwaysGoneStaysGone`, `AlwaysSettledMatches`,
`AlwaysPathsResolve`.  The invariant has four parts.  `KeyOK`: what is cached for
a key or on its way to it belongs to that key's module and, where the engine
searches, its term, and a row known to be deleted is in a fetch under way or in
fresh data only if its deletion was confirmed during that fetch (`late`).
`DeletedOK`: a confirmed deletion has happened in the service, so that rows read
later do not have it.  `ListOK`: the key on screen is being fetched, has data or
has failed, and a search without a pending timer is the debounced one.  `PathOK`:
the segment behind "Module not found" found nothing.  A confirmation starts the
fetch of the key on screen anew if the key has data (`InvalidateOK`), which keeps
an answer that was read before the deletion out of the fresh data; a key's first
fetch it leaves running, and that is the exception in `GoneStaysGone`.

### Only model-checked

* All liveness properties: outside the prover's reach.
* The two violations are TLC's.

## What the code does that no property contradicts

Recorded while modelling; the models have these behaviours, and the properties
are stated so as to hold with them.

* inventory-sync-service: quantities of either sign are accepted, REST refuses only
  zero (`api/rest/handlers.go:375`), gRPC nothing, and after a negative reservation
  more can be sold than there is; release, commit and cancel update the item's
  level in every warehouse; a basket that is refused keeps the lines it could
  reserve; a gRPC basket that repeats an item it could not get waits for its own
  lock; REST requests that fail keep their connections, until a request waits for
  ever; a restart drops the stock.
* logistics-engine: no order handler validates its lines, and a negative one adds to
  the stock; `PUT /orders/{id}` writes cancelled without restoring anything; an
  order to be kept as out of stock is rolled back with its transaction;
  `adjust_quantity` and `update_item` act on a value read earlier;
  `create_transaction` writes in two statements and checks no stock; two status
  changes may publish in the other order than they commit.
* gateway: `PATCH /users/:id` stores a new password as typed, after which no login
  succeeds; `JwtStrategy` does not look at the invalidated tokens, so guarded
  routes accept a logged-out token; two sign-ins in one second share a token and
  one logout ends both; a broadcast succeeds without a service having read it; a
  health check waits for a service that stays silent.
* charts: the financial mock is not placed, its quarters being no dates; the
  business getters return what they get unvalidated; a single order
  status leaves the order flow without links; a draw function that throws is
  reported as a success; the stock-movements metadata name columns the rows do not
  have.
* pages: overlapping refreshes of a panel answer in any order; the calls of a hook
  share one loading flag, which the first answer clears; `fetchWithTimeout` clears
  its timer before the body is read.
* auth store: a tab that hears of a login between its two writes keeps no user, or
  the old one, with the new token; one opened then does not poll; a late negative
  answer for an old token, or a late removal event, logs out a newer session; a
  lost logout request leaves the token valid; the profile page stays after a
  logout heard from another tab.
* forms: each click on a quantity button of the order form submits it, also while
  a save is in flight; an edit form whose load failed overwrites the optional
  columns with empty ones; the listener of the picker writes back the values of
  the first render; results from the picker's cache come without a sku; selecting
  a second product loses the first one's id and price; an item list that was
  emptied passes the required check; a late save navigates away from whatever is
  open.
* lists: until a new key has data, rows of another module are shown with working
  buttons; a deletion confirmed after the search changed invalidates the new key;
  a deletion from the detail page invalidates nothing; a placeholder row deleted
  while the key's first fetch is under way is back when that fetch answers, and
  counts as fresh; a related row that is not answered keeps the detail page loading.

Read in parts that are not modelled: a consumer acknowledges messages it failed to
handle; reconnection tries once more than configured; the order producer's start
and stop race with its loop; payments read a status and then write it; the gRPC
method `ReleaseInventory` of inventory-sync-service looks for a ledger row of type
`allocate`, which nothing writes, and changes nothing (`api/grpc/server.go:263`).

## Abstractions

Ids are model values; names, prices, timestamps and payloads are left out.
Reservation rows of one order, item and status are one total, which is what every
statement that reads them uses.  `int64` columns are integers: requests carry
quantities far below the width.  Connection errors of the database appear as
disconnects and aborts.  `expires_at` of a reservation is written and never read,
and is left out.  A handler's last read, of the level it returns, is part of its
last step.  `CancelReservation` has no endpoint; it is modelled as the operation
of the service's interface that it is.

In the front ends, rendering, wording and styles are left out; a React effect and
its cleanup are part of the action that triggers them; react-query, passport,
bcrypt, jsonwebtoken and the browser are modelled by what the code relies on and
marked external in `PROJECT.json`.

## Not modelled

Customers, warehouses and analytics of logistics-engine, the reports of
inventory-sync-service: single statements and read-only SQL.  The in-memory
repository: a stand-in for tests.  Rate limits: a library's counter.
ai-ml-predictions: numerical code around a cache with expiry.
notification-service: a relay without durable state.  Dashboard layout and
primitives, most of frontend-landing: presentation.  Deployment files:
configuration.  The services behind the administrator's routes of the gateway:
no HTTP request reaches them (`gateway_admin`).

## Plan

1. Proofs: that `StockBook` keeps promises of its own, so that they carry over
   through the refinement.
2. Messaging of logistics-engine: publisher, broker, consumer and dead letter
   queue, reconnection with its retry counter; composition with `OrderService`,
   whose `events` become the broker's input.
3. Composition of `OrderService` with `InventorySync`: an order reserves in one
   service and takes stock in the other.  Composition of `AuthStore` with the
   tokens of `Gateway`.
4. Payments, shipping and the order producer of logistics-engine; the session
   store of the dashboard; the ledger against the levels.
