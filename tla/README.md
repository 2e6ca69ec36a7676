# The warehouse backend in TLA+

This directory models the warehouse management backend (NestJS, TypeORM, MySQL,
Redis, MQTT): how requests, timers and messages that run at the same time move
the stock, the holds and the orders of a tenant, light the lamps of its shelves,
tell its users, and keep its accounts, its catalogue and its public pages. The
modules are checked with TLC on small instances, and the safety properties that
matter most are proved with TLAPS for all of them.

- [1. Inventory of the system](#1-inventory-of-the-system)
- [2. Modules and the code they model](#2-modules-and-the-code-they-model)
- [3. What is abstracted, and why it may be](#3-what-is-abstracted-and-why-it-may-be)
- [4. Properties](#4-properties)
- [5. Runs, bounds and what they show](#5-runs-bounds-and-what-they-show)
- [6. Proofs](#6-proofs)
- [7. Where the code departs from what it says](#7-where-the-code-departs-from-what-it-says)
- [8. Not modelled, and plan](#8-not-modelled-and-plan)

Paths below are relative to `src/src/modules/` unless they start with `src/`.

## 1. Inventory of the system

One Node process serves HTTP; each request is a chain of `await`s, and requests
interleave at every one of them. State that outlives a request is in MySQL
(through TypeORM), in Redis, in the memory of lamp controllers, or in maps of the
process.

| Component | State | Hard behaviour | What makes it correct | Modelled in |
|---|---|---|---|---|
| order service (`order/`) | `orders` with status, `stockLocked`, source, type; items | an order is read and judged outside the transaction that acts on it; items are locked in the order of the lines; `save` writes only changed columns and re-inserts a deleted row | a hold is taken, released or deducted once; closed orders hold nothing; every request ends | `OrderService` |
| inventory service (`inventory/`) | `inventory` row per SKU, `inventory_locations`, `inventory_transactions` | row locks taken before or after the read view is fixed; a ledger row read before the lock; six places that judge low stock | total, locations, ledger and holds agree; nothing is promised beyond what is there; lists agree | `StockRow`, `StockDb`, `InventoryService`, `StockViews`, `Products` |
| location service (`location/`) | `locations` with status and code | looks first and writes later, without transaction | a removed location is empty; the status shows the stock; a code finds one location | `LocationService`, `LocationCodes`, `StockViews` |
| pick-to-light tasks (`ptl/ptl.service.ts`) | tasks, items, Redis key of a location | button, handheld, acknowledgements and sweep all save the same task from their own copy | one task per location; a confirmed item stays so; tasks end | `PtlTask` |
| pick-to-light lamps (`ptl/ptl.service.ts`) | bindings, controllers, what a lamp shows | commands are fire and forget; controllers restart and go off line | lamps show the stock, or the search | `PtlLights` |
| pick-to-light gateway (`ptl/ptl-command.gateway.ts`) | the MQTT client, its count and its stable timer | bounded reconnects, timers racing events | outages are counted honestly; the server hears again | `PtlGateway` |
| notifications, SSE connections (`notifications/`) | notices with read state, the Redis channel, streams per server and user | saved, published and delivered in three steps; Redis loses what nobody listens to, and may carry a thing twice; the sweep ends streams | a notice reaches the open streams it is for, and no others | `Notify` |
| rate limit guard (`src/src/common/guards`) | counters in Redis | `INCR` and `EXPIRE` are two commands | never above its points; the window ends | `RateLimit` |
| auth and SMS codes (`auth/`, `aliyun/sms`) | users, codes in Redis | code checked, user saved, code deleted in separate steps | a code registers one user | `Registration` |
| tenants, mini-program members (`tenant/`, `miniapp/miniapp.service.ts`) | tenant row with approval and life cycle, members bound to it | stale copies are saved, each by a SELECT and an UPDATE of the columns that differ; members are told in another statement | everyone agrees on who is in business; members know how their company stands | `Tenants` |
| users, roles, menu grants (`users/`, `roles/`) | users, roles, join tables, grants | a grant is withdrawn without looking at roles | nobody sees what was withdrawn | `TenantAccess` |
| platform administration (`admin/`) | platform users, roles, menus | counted first, deleted later | somebody remains; what is assigned exists | `PlatformAdmin` |
| units, products (`unit/`, `product/`) | units, conversions, products | rounding; products read before the stock is locked | stock keeps its unit; rounding stays bounded | `Products` |
| categories, attributes, options (`product/service/`) | two levels, platform's and tenants' | each side looks at its own rows only | nothing refers to what was deleted | `Catalogue` |
| imports (`product-import`, `attribute-import`, `base-import`) | the sheet, its pictures | the start of the data is guessed; pictures before rows | the entered rows, with their own pictures | `SheetImport` |
| mini-program posts and categories (`miniapp/`) | posts, review status, views, collections | author, reviewer and visitors save their copies | what is public was reviewed | `Posts` |
| portal (`portal/`) | settings, jobs, inquiries | settings deleted and made anew; stale saves of jobs | one configuration; what is listed opens | `Portal` |
| Redis service, JWT and platform guards, banners and yellow pages, audit log | | | | partly: as what the components above use of them |
| devices, open API, dictionaries, departments, positions, upload, OSS, mail, health, migrations, configuration | one table each, or none | — | — | no (section 8) |

Interaction. The order service and the inventory service never call each other:
they meet in the tables `inventory`, `inventory_locations` and
`inventory_transactions`, guarded by the `pessimistic_write` lock that each
takes on the inventory row of a SKU. The location service reads both stock
tables and owns `locations`, whose status the inventory service rewrites after
each booking. After a commit the order and inventory services call the
notifications (which go to Redis and to the SSE connections) and the
pick-to-light service (which refreshes base colours through the gateway); both
calls are fire-and-forget, so a failure or crash there loses a notice or a colour
and never touches stock. Bookings read products and units before they lock
anything. Login and the request guards read tenants and users; the public pages
read tenants, products and posts.

## 2. Modules and the code they model

```
StockRow            one SKU's rows and what one operation makes of them
  └─ StockDb        tables, row locks, commit, rollback; stock invariants
       ├─ OrderService       orders and their requests  ── Book == Reservation
       ├─ InventoryService   manual operations and their requests
       └─ LocationService    location requests
            └─ Warehouse     the three side by side, with crashes
                 └─ StockViews   what lists, alerts, lamps and the map show of it
PtlTask  PtlLights  PtlGateway                       pick to light
Notify  RateLimit                                    messages, limits
Tenants  Registration  TenantAccess  PlatformAdmin   who may do what
  └─ Accounts       the four side by side
Products  Catalogue  SheetImport                     what stock is called
  └─ Goods          the three side by side
Posts  Portal  LocationCodes                         pages and codes
  └─ Pages          the three side by side
MC*                                                  instances for TLC
StockRowProofs ← OrderProofs ← WarehouseProofs                  theorems
AccountsProofs  ContentProofs  GoodsProofs  PtlTaskProofs  DeliveryProofs
```

**StockRow** (`inventory/inventory.service.ts`, `order/order.service.ts`). The
inventory row of a SKU with its location rows as one record, and each
transaction's effect on it as the *set of its outcomes*; the empty set is the
exception that rolls back. `LockOutcomes`, `ReleaseOutcomes`, `DeductOutcomes`
are the three loops over order items with their greedy passes over the location
rows (`Splits`, `Passes`); `CellAccepts`/`CellChanged` are
`changeLocationStock`.

**StockDb.** `stock` is what transactions have written, `saved` what is
committed, `owner` the row locks, `ledger` the audit table, `status` the
locations. `CommitTx`, `RollbackTx`, `RollbackAll` are MySQL's.

**OrderService** (`order/order.service.ts`). A handler is the sequence
`Begin…` (read the order, check, decide on that copy) → one `StockStep` per
item (wait for the row lock, act, write the ledger row) or `ReadRow` →
`Save` (TypeORM's `save`, then commit). `StockFail` is a
`BusinessException` in the middle, `LockWaitFails` a deadlock victim or a lock
wait timeout, `SaveFail` a duplicate key. `Patch` and `Delete` are the single
statements that end `update` and `remove`. `NextStatus` is `getTransitionMap`,
`EffectOf`/`HeldAfter` the decisions of `updateStatus`.

**InventoryService** (`inventory/inventory.service.ts`). `Open` is inbound,
outbound and adjust up to their row lock, `ReadEntry` and `LockForRemove` the
two phases of `removeTransaction`, `Commit` and `Reject` everything that follows
the lock: from there on the transaction only touches rows it holds or reads
its own fixed view (`View`). `PatchQuantity`, `CreateInventory`,
`RemoveInventory` are the plain endpoints. `batchInbound` and `batchOutbound` are
these operations, one after the other.

**LocationService** (`location/location.service.ts`). `update` and `remove`,
each a look and a later write.

**Warehouse.** All of them interleaved; `Crash` loses every request and rolls
back every transaction.

**StockViews** has no state: it is the queries by which the inventory service,
the location service and the lamps show the committed rows of `Warehouse`, each
translated from its own place in the code.

**Reservation** is the abstract specification: goods on hand and the set of
orders that hold what they need. `KeepsBook` and `KeepsOpenBook` state that the
services implement it (`onHand` ← committed quantities, `holding` ← orders
with `stockLocked = 1`).

**PtlTask** (`ptl/ptl.service.ts`). No handler runs in a transaction, so a
handler is its copy of the task and the *list of statements* it still has to
perform (`todo`); `Begin…` reads and fills the list, `Step` performs its head.
The sweep is two statements of its own (`SweepItems`, `SweepTasks`), the Redis
key of a location expires by itself (`KeyExpires`), and `PtlCrash` drops
everything between any two statements.

**PtlLights** (`ptl/ptl.service.ts`). Whatever changes a colour starts a *chore*:
`Read` bindings and stock, `Look` for searches, `Push` one command per lamp.
Chores overlap. A history says which lamps are vouched for: a chore has a lamp to
itself (`alone`) until another one that is about the lamp begins, and a lamp is `fresh`
when the chore that told it last had it to itself. What changes a lamp's colour
without telling the lamp (a binding, a search dropped, a lamp's own timeout) takes it
out. Controllers restart, report, go off line and are declared off line by the sweep.

**PtlGateway** (`ptl/ptl-command.gateway.ts`). One MQTT client with its count of
attempts and its stable timer, the broker, and what depends on the two: commands
and events.

**Notify** (`notifications/`). Servers with registries of streams. A request saves its
notices together and announces them in turn (`after`), each by a `Publish` and a
`WriteLocal`; requests of one server overlap. Redis hands a publication to the servers
that listen (`hearing`) and to no others; a subscriber that loses Redis goes deaf and
misses what was on its way, a subscription that failed is only logged, and a
publication that was not answered is sent once more. A stream is opened for the tenant
of the token or, when that has none, of the `x-tenant-id` header; `SendToUsers` takes
any users. `Heartbeat` sweeps, `ServerDies` forgets, readers mark, notices expire.

**RateLimit** (`src/src/common/guards/rate-limit.guard.ts`): the counter, the
clock on it, and requests that die between `INCR` and `EXPIRE`.

**Tenants** (`tenant/`, `miniapp/miniapp.service.ts`, `admin/`): every handler
reads a row, changes its copy and saves it, then tells the members. A save is two
steps, the SELECT (`SelectTenant`, `SelectMember`) and the UPDATE (`WriteTenant`,
`WriteMember`) of the columns in which the copy differs from what the SELECT saw;
`MayLogIn`, `MayPass`, `Shown` and `Listed` are the four places that judge whether
a company is in business. **Registration** (`auth/`, `aliyun/sms`): a code is
drawn, checked, used and deleted. **TenantAccess** (`users/`, `roles/`): grants,
roles and users, and what `getProfile` makes of them. **PlatformAdmin**
(`admin/`): the platform's own users, roles and menus.

**Products** (`unit/`, `product/`, and the half of `inventory/` that converts):
units, rules, products and bookings into and out of stock, with the exact quantity
carried beside the rounded one. **Catalogue** (`product/service/`): categories, attributes, options
and filed products. **SheetImport** (`product-import`, `attribute-import`): a
sheet is a sequence of rows of known parts; cells are there and sound or not.

**Posts**, **Portal**, **LocationCodes**: posts between author, reviewer and
visitors, saved in two steps like tenants; the site of a tenant; the codes of
locations.

**Accounts** and **Pages** put components that share no state side by side: each of
their behaviours (`AccountsSpec`, `PagesSpec`) is a behaviour of every part, and
they state the properties that several parts keep together.

Operators whose comment begins with *Fault:* are not used by any specification:
each is the definition after it with a plausible bug, and shows that a property
notices that bug.

## 3. What is abstracted, and why it may be

- *One row lock per SKU.* Every writer of a SKU's location rows locks its
  inventory row first, so the lock on the inventory row stands for all. The one
  case in which nothing is locked (the very first inbound of a SKU) is taken as
  if its row lock existed: two first inbounds at once run into the unique key
  `(tenantId, sku)` and one of them fails.
- *The greedy loops* over location rows go in `updatedAt` order. That order is
  left open, so the model has every result the loops can have.
- *Read views.* Under REPEATABLE READ the first plain SELECT of a transaction
  fixes what plain SELECTs see. `view` (orders) and `View` (locations) keep
  just the part of the view that is used later.
- *TypeORM's `save`* reads the row, writes the columns that differ, inserts
  when there is none: a stale copy of a row that was deleted for good comes back
  as a new row, one of a row that was soft-deleted revives it. `Written`,
  `SavedRow`, `DuplicateKey` say this of orders, `Patched` of tenants, members, posts
  and their categories, where the SELECT and the UPDATE are steps of their own. In the
  other modules a save is one step that stores the copy: their properties relate no
  columns that two requests write, or except requests that overlapped.
- *Handlers without a transaction.* The reads a handler makes one after the other
  are one step, and so are its checks on them; what it writes is a later step of
  the copy it holds. What it has read may be stale by then, which is the point.
- *Keys.* The entities declare unique indexes (code and name of a tenant,
  `(tenantId, username)`, codes of units, products, categories and locations,
  order numbers) that `src/dbsql/*/init/init-schema.sql` does not create, and the
  schema is not synchronised (`src/src/app.module.ts:68`,
  `src/src/config/database.config.ts:11`). The models rely on the keys of the
  schema and the migrations only, so a property about a code says "unless such
  requests overlapped".
- *Lists.* The rows and the count of a page, and the two queries of the map, are
  taken as one read of committed rows.
- *Quantities* are integers: columns are `decimal(…,2)`. In `Warehouse` they are
  pieces of the stock unit; conversion and its rounding are in `Products`, which
  asks for thousandths (nothing limits the decimals of a request), stocks hundredths
  and carries the exact amount in ten-millionths.
- *Ledger kinds* are reduced to the five the checks distinguish: the prefixes
  INBOUND_ and OUTBOUND_, the adjustments, and the orders' lock and release.
- Prices, wording, notes, passwords, tokens, paging and statistics are left out.
  `PATCH` of an inventory row may also change its SKU; the model changes the
  quantity only.
- *Menus* of tenants: a directory stands below a directory or at the top, as all the
  seeded ones do (`src/dbsql`), so the ancestors of a page are directories.
- *One tenant* where nothing couples tenants; two where something might
  (`Notify`, `TenantAccess`, `LocationCodes`, the platform's and a tenant's rows
  in `Products` and `Catalogue`).

## 4. Properties

Each is checked by one run. Where a property is a conjunction of named parts the
parts are listed; each part is a definition with a comment of its own. Models of
handlers without a transaction carry history variables (`overlapped`, `crossed`,
`clash`, `raced`, …) that say whether requests for one thing have overlapped: a
property that begins with one of them holds as long as they have not, and the
code does not keep it otherwise. Others are narrower: `torn` names the rows that were
written between the two statements of a save, `fresh` the lamps that are vouched for,
`missed` the notices that Redis did not bring to a server.

| Property | Module | What it rules out |
|---|---|---|
| `TypeOK` | Warehouse | rows, requests and ledger out of shape; a removal whose ledger row has gone |
| `StockCovered` | StockDb | a total or a location with more locked than there is, inside or after a transaction |
| `NoDirtyRows` | StockDb | a failed or crashed transaction leaving a trace |
| `LedgerExplainsStock`, `LedgerExplainsHolds` | StockDb | stock or holds that change without a ledger row, or a ledger row without a change |
| `HoldMatchesLedger` | OrderService | a hold taken, released or deducted twice, or lost, while `stockLocked` says otherwise |
| `DeductedAtMostOnce` | OrderService | goods that leave twice |
| `StatusTellsStock` (`ShippedIsDeducted`, `ClosedHoldsNothing`) | OrderService | a shipped order whose goods never left; stock locked for a closed order, in any status and type, whatever `update` changes |
| `TerminalIsFinal` | OrderService | an order that leaves COMPLETED, CANCELLED or REJECTED |
| `RequestsEnd` | OrderService | requests that wait for each other's row locks for ever |
| `KeepsBook`, `KeepsOpenBook` | OrderService, Warehouse | anything the reservation book does not do: overselling, partial holds, a reservation that ends twice |
| `LocationsAddUp` (`LocationHoldsAddUp`, `LocatedStockAddsUp`) | Warehouse | a total, or a total hold, that moves without its locations |
| `StatusShowsStock`, `GoneHoldsNoStock` | Warehouse | an AVAILABLE location with goods in it, a removed one with goods in it |
| `ViewsAgree` (`PagesAgree`, `LampsAgree`, `OffersBookable`, `MapShowsAll`, `PagesExplainStock`) | StockViews | a SKU under a filter it is not shown with, an alert without a warning, a lamp of another colour than the list says, an offer that booking refuses, stock missing on the map, ledger pages that do not add up to the stock |
| `OneTaskPerLocation` | PtlTask | a lamp lit for two pickers |
| `CompletedInFull` (`PtlTypeOK`, `CompletedIsConfirmed`) | PtlTask | a task completed with a location nobody went to |
| `ConfirmedStays` | PtlTask | a confirmed location that expires, is cancelled or lights up again, also by a late acknowledgement |
| `TasksEnd` (`TasksClose`, `LampsGoOut`) | PtlTask | a task or an item that stays lit for ever after a crash or a lost answer |
| `LampsRight` (`LightsTypeOK`, `LampsTellTheTruth`) | PtlLights | a vouched-for lamp that shows an old colour, or the wrong thing, once no chore is about it |
| `CountIsHonest` (types included) | PtlGateway | a reconnect count that is cleared by a connection that was not stable, or passes its limit |
| `HeardAgainInTurn` | PtlGateway | a server that never hears its controllers again |
| `NoticesFit` (types, `RightEars`, `HeardAsSent`, `UnreadStays`) | Notify | a notice heard by another user, by a user of another tenant, or more often than it was published and written; reading for oneself that empties another's unread list |
| `StreamsServed` (`Reaches`, `Forgets`) | Notify | a notice that never reaches an open stream, of the server that sends it or of one to which Redis brings it; a dead stream that is written to for ever |
| `AtMostPoints` (types included), `Reopens` | RateLimit | a window that admits more than its points; one that never ends |
| `OneAnswer` | Tenants | login, token guard, public pages and yellow pages of different opinion on a company that no write caught between the statements of another save |
| `MembersFollow` (`BoundTogether`, `BindTellsStage`) | Tenants | a member certified without a company, or by one that was rejected |
| `UsedOnce` (`NameOnce`, `PhoneOnce`, `CodeOnce`) | Accounts | a code that registers two users; two companies of one name |
| `PlatformHolds` (types, `SomeoneRemains`, `DutyExists`, `ParentExists`) | Accounts | a platform without users, users with roles and menus with parents that were deleted |
| `GrantsHold` (`WithdrawnIsGone`, `OwnRoles`) | TenantAccess | a page somebody still sees after the platform withdrew it; a role of another tenant |
| `StockKeepsUnit` (`MeasuredAlike`, `MeasureStays`) | Products | stock measured in another unit than its product, or in one that was deleted |
| `RoundingBounded` | Products | conversions and decimals that create or lose more than half a hundredth per booking, in or out |
| `CatalogueHolds` (types, `SkuNamesOne`, `UnitCodeNamesOne`, `OneRatio`, `CategoryThere`, `BoundThere`, `OptionOnce`, `OptionBelongs`) | Products, Catalogue | two products of one code, two ratios for one pair of units, products in and attributes bound to what was deleted, an option given twice |
| `RowsAsEntered` (`OnlyEntries`, `NothingSkipped`, `FewPictures`, `OwnPictures`) | SheetImport | headings or instructions imported as products, entered rows left out, more than five pictures or those of another row |
| `ReviewsHold` (`PublicWasReviewed`, `LogTellsReviews`, `CollectedWasPublic`) | Posts | a text that is public and no reviewer let through, in a post that no write caught between the statements of another save; a log of a review that was not saved |
| `ViewsAddUp` | Posts | views that are counted twice, or lost otherwise than under a save that puts an old count back |
| `SiteHolds` (`OneConfig`, `NoticeTellsOfInquiry`, `ListedOpens`, `DeletedStaysDeleted`) | Portal | two configurations, a notice of an inquiry that is not there, a product listed that cannot be opened, a deleted job that comes back |
| `CodesNameOne` (types, `ScanFindsOne`, `SectionCodeOnce`) | Pages | a scanned code that finds two locations; two live categories of one code |

## 5. Runs, bounds and what they show

`tlc -config <cfg> <module>`. `CHECK_DEADLOCK FALSE` is set where the system may
stop: tasks are all closed, requests all used up, a sheet is imported.

| Run (cfg) | Module | Instance | Properties |
|---|---|---|---|
| `MCOrderSerial` | MCOrderService | 2 orders (one from the mini-program) of 2 pieces each, 3 pieces over 2 locations, 2 requests, one per order at a time; all 15 statuses, both types and sources | `HoldMatchesLedger`, `StatusTellsStock`, `TerminalIsFinal`, `KeepsBook` |
| `MCOrderPileUp` | MCOrderService | 1 order of the back office, 3 requests for it at a time, 4 pieces (enough to lock the order twice) | `LedgerExplainsHolds`, `StockCovered` |
| `MCOrderWaits` | MCOrderService | 2 orders, 2 SKUs locked in opposite order, fairness | `NoDirtyRows`, `RequestsEnd` |
| `MCWarehouse` | MCStockViews | 2 orders, 1 order request, 2 clerks on one SKU, 2 locations, one removal of a ledger row at a time, safety stocks 0, 1, 2 | `TypeOK`, `LedgerExplainsStock`, `LocationsAddUp`, `StatusShowsStock`, `ViewsAgree`, `KeepsOpenBook` |
| `MCRawEndpoints` | MCWarehouse | 2 orders of 2 pieces, 4 pieces (enough to ship one order twice), 1 order request, plain inventory endpoints, 1 location request | `DeductedAtMostOnce`, `GoneHoldsNoStock` |
| `MCPtlTasks` | MCPtlTask | 2 tasks that want overlapping locations, 2 locations with a row each, 1 handler at a time beside the sweep, expiries and crashes | `OneTaskPerLocation`, `CompletedInFull`, `ConfirmedStays` |
| `MCPtlLights` | MCPtlLights | 1 controller, 2 places; in turn 2 lamps, 2 goods of at most 1 piece per place and 1 chore, or 1 lamp, 1 good and 2 chores that overlap | `LampsRight` |
| `MCMessaging` | MCMessaging | in turn: 1 task with 2 handlers; 3 reconnects and 2 outages; 2 servers, 2 streams, 2 users of whom one has no tenant, 2 tenants, 1 notice that Redis may get twice; 2 points, 3 requests; fairness | `CountIsHonest`, `AtMostPoints`, `NoticesFit`, `TasksEnd`, `HeardAgainInTurn`, `StreamsServed`, `Reopens` |
| `MCAccounts` | MCAccounts | in turn: 2 companies, or 2 requests for one, with a member; 2 applicants, codes and phones; 2 platform users, 1 role, 2 menus; 2 firms, 3 roles, 1 user; 2 requests each | `OneAnswer`, `MembersFollow`, `UsedOnce`, `PlatformHolds`, `GrantsHold` |
| `MCCatalogue` | MCCatalogue | in turn: 3 units, 2 products, ratios 0.3333 and 2, 2 bookings; 2 categories, 2 attributes, 2 options, one of each the platform's; sheets of at most 2 entries; 2 callers | `StockKeepsUnit`, `RoundingBounded`, `CatalogueHolds`, `RowsAsEntered` |
| `MCContent` | MCContent | in turn: 1 post with 2 texts, 2 categories, 2 views; 2 configurations, a job, an inquiry, 2 products; 3 locations of 2 tenants; 2 editors | `ReviewsHold`, `ViewsAddUp`, `CodesNameOne`, `SiteHolds` |
| `MCDoubleDeduct` | MCOrderService | 2 overlapping requests for one order | violates `DeductedAtMostOnce` |

**Turns.** Four MC modules extend several components that share no state. A
variable `turn`, fixed in the initial state, says which of them a behaviour
exercises while the others stand still, so the run is the sum of the instances
and not their product. Some turns also say which things are busy at a time (for
example: either there are two companies, or two requests for one): each
combination that the parts need is in some turn, and the conjuncts in the MC module
name what is left out.

**Bounds.** `MaxLedger` stops *new* requests once the ledger has that many rows;
what has begun runs to its end, so no behaviour is cut in the middle. Three to
six rows are enough for each order to lock and deduct, or to lock, release and
lock again, while the other does the same. Two locations make the greedy loops
split; two orders compete; two requests (three in `MCOrderPileUp`) are what it
takes for each of the stale reads, and the third for a deletion that two savers
undo at the same time. `Amount` has the values 1 and 2 against at most 4 pieces
so that every guard is met with room, exactly and not at all (`MCRawEndpoints`
uses 1 only: one request moves one piece, two reach the limit). Two handlers that
save copies, over two rows, show every stale save the other models are about; a
third adds nothing a handler looks at. `MaxReconnects = 3` is the code's own
number, and two outages are one to use the count up and one to find it so.
`MaxBookings = 2`, with ratios and quantities that leave more than two decimals and
others that do not, has bookings that are rounded and bookings that are exact, into
and out of stock. `Sendings = 2`: a publication without an answer is sent once more.
`MaxViews`, `Beats`, `MaxAvail` and `MaxEntries` bound counters; two is what it
takes to see one lost or doubled, and `Beats = 0` lets the sweep end streams at
any time.

**Switches.** `Overlap` says whether two requests may be in flight *for the same
order*; requests for different orders always overlap. `HoldMatchesLedger`,
`StatusTellsStock`, `TerminalIsFinal` and `KeepsBook` are about `Overlap =
FALSE`: with overlap the code does not keep them (section 7). `DeleteHeld =
FALSE` would leave the deletion of an order that holds stock out. `MaxRemove`
bounds the removals of ledger rows in flight: one keeps `LedgerExplainsStock`, two
do not. `ManualLocation` without `NoLocation` means that callers name a
location: without one the undo of an inbound breaks `LocatedStockAddsUp`.
`StatusShowsStock` is about one SKU and manual operations, as the code promises
no more: orders never refresh the status, and transactions on two SKUs sum the
location in views that do not see each other. `SYMMETRY` is used for invariants and
action properties, never where liveness is checked.

**Fairness.** `OrdFairSpec` has weak fairness of `Proceed(w)` for each request:
once begun, its promise chain is awaited by the framework, MySQL answers every
statement, and an InnoDB lock wait ends with the lock, as deadlock victim, or with
`innodb_lock_wait_timeout`. `PtlFairness` has the same for the statements of a
handler, and that time passes and the timer of the sweep fires; its second
statement is strongly fair, as a crash between the two may disable it again and
again. `NotifyFairness`: a notice whose turn it is is published, or its publication
fails, and is then written to the server's own streams; a subscriber handles what it
has received; the socket of a client that left closes. No subscription has to succeed,
and no heartbeat has to help. `RateFairness`: Redis answers and expires keys. Of the gateway:
the MQTT library connects, loses, reconnects, its timers fire, controllers report,
the broker comes back, pickers light lamps again and again, and somebody calibrates
or refreshes a controller by hand; without that last one the server may stay deaf
(section 7). No client is otherwise obliged to send a request, and a crash is
never obliged to happen.

## 6. Proofs

Each theorem is proved for every value of the constants that meets the named
assumptions of its component's modules, which TLC evaluates in each run. Where a
theorem assumes more, the hypothesis is named below; the instance of the run that
checks the property meets it.

| Theorem | Module | Property | Beyond the named assumptions |
|---|---|---|---|
| `TypeCorrect`, `NothingOverpromised`, `NoDirtyRowsEver` | WarehouseProofs | `TypeOK`, `StockCovered`, `NoDirtyRows` | — |
| `HoldsAreExplained` | WarehouseProofs | `LedgerExplainsHolds` | — |
| `StockIsExplained` | WarehouseProofs | `LedgerExplainsStock` | `MaxRemove <= 1`, finitely many clerks |
| `LocationsFollowTotals` | WarehouseProofs | `LocationsAddUp` | callers name a location; the start rows add up |
| `StatusFollowsStock` | WarehouseProofs | `StatusShowsStock` | no location requests; one clerk, or one SKU |
| `DeletedHoldsNoStock` | WarehouseProofs | `GoneHoldsNoStock` | `[]Apart`: no booking is on its way to a location while that location is being removed; any clerks, plain endpoints included |
| `OrdersMatchLedger` | WarehouseProofs | `HoldMatchesLedger`, `StatusTellsStock`, `DeductedAtMostOnce` | `~Overlap` |
| `ClosedStaysClosed` | WarehouseProofs | `TerminalIsFinal` | `~Overlap` |
| `WarehouseKeepsOpenBook` | WarehouseProofs | `KeepsOpenBook` | `~Overlap`, finitely many orders |
| `ViewsTellOneStory` | WarehouseProofs | `ViewsAgree` | callers name a location; the start rows add up and have nothing where they have no row; `MaxRemove <= 1`, finitely many clerks; no location is marked LOCKED or RESERVED |
| `OrdersLeaveAccounts` | OrderProofs | `LedgerExplainsStock`, `LedgerExplainsHolds`, `StockCovered` | — |
| `OrdersKeepBook` | OrderProofs | `KeepsBook` | `~Overlap`, finitely many orders |
| `OnePickerPerLamp` | PtlTaskProofs | `OneTaskPerLocation`, `CompletedInFull` | finitely many rows |
| `ConfirmedForGood` | PtlTaskProofs | `ConfirmedStays` | finitely many rows |
| `AnswersAgree`, `MembersAreTold` | AccountsProofs | `OneAnswer`, `MembersFollow` | — |
| `OnceInAllAccounts`, `AccountsHold`, `GrantsAreKept` | AccountsProofs | `UsedOnce`, `PlatformHolds`, `GrantsHold` | — |
| `PostsKept` | ContentProofs | `ReviewsHold`, `ViewsAddUp` | finitely many editors |
| `SiteKept` | ContentProofs | `SiteHolds` | — |
| `CodesNameOneEver` | ContentProofs | `CodesNameOne` | finitely many editors |
| `StockStaysMeasured`, `RoundingStaysBounded` | GoodsProofs | `StockKeepsUnit`, `RoundingBounded` | finitely many callers |
| `CatalogueStands` | GoodsProofs | `CatalogueHolds` | finitely many callers, categories and pictures |
| `SheetsAreReadAsEntered` | GoodsProofs | `RowsAsEntered` | finitely many categories and pictures |
| `NeverAboveItsPoints`, `ReconnectsAreCounted` | DeliveryProofs | `AtMostPoints`, `CountIsHonest` | — |
| `NoticesReachTheRightEars` | DeliveryProofs | `NoticesFit` | finitely many notices |
| `LampsComeRight` | DeliveryProofs | `LampsRight` | — |

### Stock and orders

**Rows** (`StockRowProofs`). What `Splits` takes is within the capacities
(`SplitsBounds`), so a hold never exceeds its cell (`LockKeepsCovered`,
`ReleaseKeepsCovered`, `DeductKeepsCovered`), and what the checks of a manual
operation admit keeps the row covered (`MovedKeepsCovered`). `StockCovered` is
inductive with `TypeOK` because it covers the *uncommitted* rows too: each operation
starts from a covered row and its own guard covers the result; a commit copies one
covered row, a rollback the other. `NoDirtyRows` needs `Isolated`: an open request
owns the lock of its SKU, else a clerk's commit could publish a row it does not hold.

**Sums** (`StockRowProofs`). The ledger, the locations and the orders are summed with
folds over finite sets, which have to be shown equal after a change to one member.
`MinimalSubset` (in a nonempty family of finite sets there is a least one, from the
cardinality theorems) does what induction over data would do: a smallest set on
which a fact fails has a member without which it holds. From it follow that a sum
grows by what is added, changes by what is replaced, is nonnegative, and that the
worth of a sequence of ledger rows is that of its parts (`WorthAppend`,
`WorthReplace`, `WorthConcat`).

**Orders alone** (`OrderProofs`). `OrdInv` has no restriction on overlapping
requests: types; a request has written one ledger row for each item it has been
through (`AllRowsRight`); `Locking` (who owns a row lock is at work, `HoldersWork`,
and the ledger rows a request has written and not committed are worth the difference
between what is written and what is committed of the rows it has locked, and of no
other, `Pending`); covered rows; and what every committed hold and total is the sum
of (`HoldsExplained`, `StockExplained`). So double deductions are accounted for, too:
they take goods that another order holds, never goods that are not there. With one
request per order, `LoneInv` adds `OrderBooks`: no two requests are in flight for one
order (`Alone`), the row stays as the request has read it and the copy fits it
(`Steady`), and what the ledger rows of an order add up to is what `stockLocked` and
the status say (`BooksRight`). `Promises` says that the orders with `stockLocked = 1`
account for all that is locked; with it each commit is a step of `Reservation` and
every other step a stutter, which is the refinement.

**The warehouse.** The same invariants hold beside clerks and location requests,
because these leave `lockedQuantity` and the ledger rows of orders alone
(`HoldsAreExplained`, `OrdersMatchLedger`, `ClosedStaysClosed`; the last two also
beside the plain inventory endpoints, `RawSpec`). For the stock itself `RemovalsRight`
says that the ledger row a removal has read is still booked and that no other
removal is under way, hence `MaxRemove <= 1`; the code does allow two (section 7).
For the locations `Placed` says that every ledger row and every request in flight
names a location: an inbound without one books none, and taking its row back would
lower the total only.

What a location holds and shows rests on two more facts. Orders only lower location
rows, in transactions (`Lowered`) and by committing them (`SavedFalls`), and a clerk
raises one only at the location the request works on (`CommitRaises`), so what a
location request has seen before a DELETE stays true (`LooksHold`) unless such a
request ends in between. `Apart` excludes just that, as the code does not (section 7).
A booking that starts before the look of a removal and ends after its DELETE is what
`Apart` rules out; one that starts after it, and may look before the DELETE, too. What
remains is that a booking which found its location finds it still there when it ends
(`ArrivalsLand`). And a worker that
has lowered a location row has written a ledger row that says so (`Taking`), which is
why `StatusShowsStock` can except orders that shipped. `updateLocationOccupancy` sums
the other SKUs of a location in the transaction's read view; `ViewsTrue` says that
this sum is still right, or an order has shipped since, which needs that no other
manual operation moves another SKU meanwhile (`NobodyMeddles`: one clerk, or one SKU).

**What is shown** (`ViewsTellOneStory`). Lists and alerts read totals, lamps and the map
read location rows, pages read the ledger, so the views agree because the rows do:
totals add up (`LocationsAddUp`), the ledger explains them (`LedgerExplainsStock`), and
three facts that no other theorem needs. Where a SKU has no location row it has no
stock (`AllRowsTell`); a ledger row moves stock the way its kind says (`AllSigned`); and
no location is marked LOCKED or RESERVED (`NobodyReserves`), a hypothesis about what
callers of the location service choose, as nothing in the code sets these by itself: a
location so marked is still offered for its stock (`getStockLocations`) and is not
among the locations a form lets one choose (`getAvailableForSelection`).

### Pick to light

`PtlInv` types the rows and, as long as handlers follow one another (`~raced`), has
two parts. `Safe` is what the tables say: items belong to tasks that were created and
that count them (`Filed`), a location is lit for one task (`OneLit`), and a task that
is completed has all its items confirmed (`DoneIsConfirmed`). `Alone` says that at
most one handler is busy, and that its copy and the *set* of statements it still has
to perform fit the tables (`Fit`): a task still to be created has no items yet
(`Begun`), one that is there counts all its items, those to come included, and so
does the copy (`Numbered`); what will be lit is lit for nobody else (`Unlit`);
whoever is going to write another status than CONFIRMED writes over none
(`Harmless`); whoever is going to complete the task has seen all of it confirmed
(`Earned`). Fewer statements fit where more did, so `Fit` outlasts each statement,
with the sweep, expiries and a crash before or after. Programs are put together by
`FlattenSeq`, whose recursion is unfolded with least numbers instead of induction
(`Joins`).

**Lamps** (`DeliveryProofs`). `LampsRight` speaks of lamps that are vouched for and
that no chore is about. `LightsInv` says what holds in between, for any number of
chores. `ChoresApart`: who has a lamp to itself is alone with it, and a lamp loses its
voucher when a chore begins beside another. Then what happens to a lamp is one chore's
story: that chore knows what is *owed* (`Right`: it has still to read it, or what it
plans is that), or *tells* it yet (`Tells`: a refresh does not tell lamps that are
searched; a command is still in the plan), and a lamp that is claimed to be right
(`Claimed`) is so already or is going to be told (`Served`). What is owed looks ahead:
a search that the chore is going to end no longer counts, as `applyConfirm` reverts the
lamp before it ends the item. A chore begins about every lamp whose colour changes (a
booking changes the colours of the places that `refreshBaseColorsForStockChange`
refreshes, and of no others), and a controller or server that restarts claims nothing
until it is synchronised. Nothing is assumed about load: overlapping chores do show
wrong colours (section 7), and the theorem says which lamps they can do it to and that
the next chore that has such a lamp to itself ends it.

### Accounts

Every handler saves the copy it has read, so the invariants speak of rows *and* of
the copies in flight.

- `RegisterInv`: the columns of a company say the same, in every copy (`CopiesAgree`)
  and in every row (`RowsAgree`) that is not `torn`. A stale copy may put an old answer
  back, but half of one only if another request wrote the row between the SELECT and
  the UPDATE of its save: where the SELECT saw what is there, the UPDATE leaves what
  the copy says (`PatchedTenant`). This holds however requests overlap.
- `MembersInv`: a member has a state exactly when it has a company that exists
  (`Bound`, `Known`), also in copies; `torn` is excepted in rows. Without overlap, no two requests are about one
  company or name (`Uncrossed`); members have been told what suits the row
  (`MembersSuit`), except while their company waits for its *tell* or its mark of
  removal; what a request is going to write suits what the others leave alone
  (`PlansSuit`); and the names it is going to write are free (`NamesFree`).
  `Suits` is stronger than the property's `Fits`: the members of a live company that
  is disabled are approved, otherwise its expiry would not suit them.
- `RegInv`: a code is one phone's from the draw to the form that quotes it
  (`OneReceiver`). Without overlap, applicants in flight have phones and names of
  their own (`FormsApart`), what was looked up is still free when the account is saved
  (`StillUnused`), and a code that has made its account is quoted only by the request
  that is going to delete it (`CodesSpent`).
- `PlatformInv`: what a request has counted (other enabled users, holders of a role,
  children of a menu) is still so when it writes (`UsersLeft`, `DutiesKept`,
  `MenusKept`), each unless two requests clashed on it.
- `AccessInv`: the copies of a role or a user are of the company its row is of
  (`OneFirm`), and users hold roles of their own company, in rows and in copies
  (`RolesFit`), also a role that was removed and is about to be saved again. What a
  user sees is judged against the grants of today, and the ancestors that are added
  are directories (`Above`).

`AccountsSpec` is the conjunction of the four specifications, so their theorems give
`OnceInAllAccounts` and `AccountsHold`.

### Pages and codes

`PostsInv`: what is in flight was read from rows that have only gone on since
(`AllFit`): a member's copy publishes nothing, a reviewer's copy carries a verdict, no
copy and no SELECT of a save has more views than were counted, and a row of the log still to be written tells
a review that took place. `Growing` names what a step may not take away for this to
last. A post that did not change between the two statements of a save has, after it, the
status and text of the copy, which a reviewer loaded if it is public; of the others
`LetThrough` still says that some reviewer published the post, in whatever words.
`ViewsBounded` counts the views whose row is still to come, and `IndexHolds` is
the unique index of categories. `PortalInv`: one configuration unless requests crossed
(`OneSite`), a copy of a job deleted since is known to have raced (`GoneIsMarked`), a
notice, sent or still to be sent, names an inquiry that was saved (`ToldIsThere`).
`CodesInv` (`CodesApart`): two locations have one code only after requests for it
overlapped or a batch was created.

### Goods

**Products.** `ProductsInv` has types and the bound of bookings, made and in flight
(`Booked`). `RoundingBounded` is inductive with these: a booking moves a shelf's difference
from the exact amount by half a hundredth at most. `NamesInv`: a code that a request is going to write is still free, as only
one request of a kind saves at a time (`OneSaves`). `MeasureInv`: what a booking has read
of its product still stands (`BookingsSee`), a unit that is being deleted measures
nothing (`DropsSee`), where a product's unit is being changed there is no stock
(`CopiesSee`), and stock is counted in live units (`UnitsLive`); each as long as no
request crossed another that undoes its look, which the history `crossed` says by kind.

An update of a unit that leaves the code alone looks for nothing, so `NamesInv` asks only
that its code is free of the others that are being written (`FreeBeside`).

**Catalogue.** The same for what hangs together. `FilingInv`: the category something is
being filed under is there, and under one that is being deleted nothing is filed.
`BindingInv` says this of attributes bound to categories, `OptionsInv` of the options of
an attribute, written or about to be written. `GoodsSpec` is the conjunction of the three
specifications, so `CatalogueStands` joins their theorems.

**Sheets.** What a user leaves of a template is laid out (`Laid`): above the first row of
data nothing is an entry, below it everything is an entry or a sample. Concatenation
keeps this (`MarkedLaid`, `UnmarkedLaid`), so no induction over rows is needed. `SheetInv`
then says that each row that is due is queued or handled, and that a product has the
pictures of its own row.

### Messages

`NeverAboveItsPoints` needs that a window admits no more than it has counted, requests
that die between the two commands and windows that never end included.
`ReconnectsAreCounted` also bounds the attempts, for any limit and any outages.

`NotifyInv`: who is registered has a stream there, as that user for that tenant
(`RegistryHonest`); a stream is of its token's tenant, if that has one (`TokensFit`); what
is queued anywhere was published, and what was published was saved (`QueuesSent`). So
whoever a notice is written to is one it is for, which makes `RightEars` inductive. What a
stream has heard and may still hear from its server's subscriber is at most what was
published and, once the server has written to its own streams, one more (`HeardBound`,
`Said`), which gives `HeardAsSent` however often Redis gets a publication. That an unread
list shrinks only with its owner's count, or because a notice expires, is proved from the
rows a step may change.

### Only model-checked

Liveness (`RequestsEnd`, `TasksEnd`, `HeardAgainInTurn`, `StreamsServed`, `Reopens`),
which TLAPS does not reach. Every invariant and every action property of a passing run
is stated by a theorem above.

One definition was made precise by a proof: the arms of a CASE that TLC reads in their
order overlapped (`StockColour`, `BaseColour`, `Planned`), which leaves the value open
in TLA+; they exclude each other now.

## 7. Where the code departs from what it says

One departure is shown by a run, with a shortest trace:

- `MCDoubleDeduct`: `updateStatus` tests `stockLocked` on a copy read before the
  transaction (`order/order.service.ts:879`). Two shipments of one order both
  deduct, the second out of what another order holds; the entity says it happens
  once (`order/entities/order.entity.ts:64`).

The others were met while modelling. They are in the models, where a property
excepts them by name, or are stated here because no state is involved.

*Orders and stock.*
- With overlapping requests a stale copy writes its status over a terminal one.
- `remove` deletes a mini-program order without releasing what it has held since
  its creation (`order/order.service.ts:914`).
- `removeTransaction` reads the ledger row without a lock and never looks again:
  two removals of one row both roll back (`inventory/inventory.service.ts:1090`).
  It admits the OUTBOUND_SALES row of a shipped order (`:1099`), and books onto a
  location disabled after its view was fixed (`:227`).
- An inbound without a location fills the default location, but its ledger row
  names none, so undoing it leaves the location full (`:783`).
- `PATCH` of an inventory row goes below the hold (`:613`).
- A location is removed after goods came in behind the check
  (`location/location.service.ts:519`).
- The map shows a SKU's whole stock a second time at its default location when its
  row there is empty (`location/location.service.ts:311`); `getStockLocations`
  offers the default location though the free stock lies at disabled ones (`:750`).
- The IN_STOCK filter also lists a SKU without stock whose safety stock is 0
  (`inventory/inventory.service.ts:505`); at exactly the safety stock the lamp is
  yellow and the list says in stock (`ptl/ptl.service.ts:798` against
  `inventory/inventory.service.ts:527`).
- The code of a location is looked up among all tenants' (`location/location.service.ts:68`);
  `batchCreate` looks up none (`:562`).

*Pick to light.*
- Two `lightUp`s that overlap both find a location free (`ptl/ptl.service.ts:332`).
- The active searches are read before the commands go out (`ptl/ptl.service.ts:924`,
  `:998`), so a `lightUp` between the two has its lamp overwritten with the colour of
  the stock, although the comment says that a searched lamp is never overwritten
  (`:901`). `MCPtlLights` has such behaviours; the lamp is then not vouched for.
- A lamp bound or calibrated while a search uses it shows the wrong thing until the
  next refresh (`ptl/ptl.service.ts:199`, `:266`); a lamp that ends its blinking by itself
  (`:428`) does so up to a sweep before the search ends.
- The MQTT client that was given up is made anew only by a command, and `lightUp`
  sends none to a controller it has not heard of: the server stays deaf until
  somebody refreshes or calibrates by hand (`ptl/ptl-command.gateway.ts:147`).

*Notices and limits.*
- Nothing calls `updateHeartbeat`, so the sweep ends live streams
  (`notifications/services/sse-connection.manager.ts:331`); nothing calls
  `cleanExpiredNotifications` either, which is why it is in no model
  (`notifications/services/notifications.service.ts:383`).
- A failed subscription is only logged, and the instance stays deaf (`:64`).
- A user whose token names no tenant opens a stream for the tenant of a header
  (`notifications/notifications.controller.ts:130`), and `sendToUsers` does not ask
  whether a user is of the tenant (`:184`); such a notice waits in a list that its
  receiver cannot see (`RightEars` and `FindByUser` say who hears and who sees).
- The clients of the publishing instance get a notice twice, those of the others
  none when the publication fails (`notifications/services/notifications.service.ts:145`).
- An announcement is listed as unread for everyone and in nobody's count (`:346`);
  a notice to a role is sent to nobody (`notifications/notifications.controller.ts:211`).
- A process that dies between `INCR` and `EXPIRE` shuts its client out for good
  (`src/src/common/guards/rate-limit.guard.ts:32`).

*Accounts.*
- Approval, rejection and resubmission that overlap leave a member told otherwise
  than its company stands (`tenant/tenants.service.ts:265`); `applyTenant` saves the
  member it read before (`miniapp/miniapp.service.ts:237`); a company removed while
  pending leaves its member stuck (`tenant/tenants.service.ts:551`).
- A save of a stale copy revives a tenant, a role or a user that was removed.
- An approval that ends between the SELECT and the UPDATE of a rejection leaves half of
  each in the row: columns that the comments say follow from one another
  (`admin/admin-platform.service.ts:694`, `tenant/tenants.service.ts:423`) then differ,
  and login, the guard and the pages answer differently.
- Two platform users delete each other (`admin/admin-platform.service.ts:576`);
  `saveUser` disables the last one (`:513`); a menu may be hung below itself
  (`saveMenu`).
- A disabled user's token stays good (`src/src/common/guards/jwt-auth.guard.ts:81`).
- The ADMIN role of a tenant can be removed; updating a tenant resets its portal
  (`tenant/tenants.service.ts:481`).

*Catalogue.*
- A product that is deleted and made again with another unit, or under another
  code, leaves stock that can no longer be booked; `unit.remove` counts no products
  (`unit/unit.service.ts:292`).
- `saveConversions` deletes and inserts without a transaction (`unit/unit.service.ts:410`).
- The platform deletes categories and attributes tenants use
  (`product/service/categories.service.ts:202`, `attributes.service.ts:229`).
- `updateStatus` revives a deleted option (`attributes-option.service.ts:175`); an
  attribute takes a value twice, when it is made and when it is updated
  (`attributes.service.ts:89`, `:149`).
- An import takes the samples of a template that were left in it
  (`product-import.service.ts:555`), drops rows without a name although there is a
  message for them (`:470`), drops pictures that fail to upload (`:805`), and accepts
  disabled categories and missing required specs (`:652`).

*Pages.*
- A text that is resubmitted between the SELECT and the UPDATE of a review's save is
  published by it without anybody having looked at it, and a review puts the view count
  back that it read (`miniapp/miniapp-post.service.ts:248`).
- A soft-deleted category of posts keeps its code (`miniapp/miniapp-category.service.ts:55`).
- The portal is shown for suspended tenants (`portal/portal.service.ts:40`), and finds
  its tenant by a domain in which `-` has become `_` (`:39`).

## 8. Not modelled, and plan

Not modelled: hardware devices (rows that no handler of their own edits; the columns
the PTL service uses are in `PtlLights` and `PtlTask`); the open API and its
signature guard (a computation over headers in front of services modelled here);
dictionaries, departments and positions (rows that nothing else decides on);
upload and Aliyun OSS, mail and health (adapters without state); migrations
(one-off schema changes, whose keys the models assume); configuration and HTTP
plumbing. Partly modelled: the Redis service (as the store and channel of those
that use it), the auth service and the guards (what they ask of users and tenants,
not tokens and hashes), banners and yellow pages, the audit log's queries.

What would come next: the SELECT of a save as a step of its own for jobs, roles and users,
too; the liveness properties, should a prover reach them; the signature guard.
