# Verification of the market bot

A TLA+ development for the Dune Awakening market bot in `src/`: the modules
model the bot's state machines as its Go code has them, TLC checks them on small
instances and TLAPS proves their central invariants for all of them.

File and line numbers are those of `src/`; `exchange.go:445` is
`src/exchange.go`, line 445.

## The system

The bot is one process with a main goroutine and an HTTP server. The main
goroutine runs *buy ticks* and *list ticks*, one at a time, against a
PostgreSQL database that belongs to the game: players and the game server use
the same tables at the same time. The deployment scripts replace the process and
wipe the bot's listings from the outside.

| Component | State | Operations | Talks to | Hard about it |
|---|---|---|---|---|
| Buy side (`exchange.go` 378-512, 644-659) | player orders, items, receipts, balance in the database; `prices`; the tick's snapshot, row cursor and counters | one query, then one transaction per row | players through the database, list tick through `prices`, operator through the config | rows are stale when they are bought; a commit's answer can be lost; crash between transactions; `LIMIT` without order |
| List side (`exchange.go` 525-592, 663-804) | the bot's orders and items; the tick's plan | load, delete orders, delete items, refill, insert in batches | players and deployment through the database | five separate statements whose errors are mostly dropped; crash between any two; concurrent sales and wipes |
| Price loop (`exchange.go` 812-903) | `prices`, `marketPrices` | fetch minima, update prices, relist | its own listings come back as market minima | feedback, rounding, averaging after the clamp, stale minima |
| Pricing arithmetic (`pricing.go` 324-534) | none | price tables, rounding, drift, bounds | used by all of the above | rounding steps against percentages |
| Game clock (`exchange.go` 152-179, 906-929) | `gameEpochUnix`, its SQLite copy | learn the epoch from player orders, expire orders | the buy side's receipts are rows it learns from | sentinel expiry, epoch inferred from one row |
| Runtime configuration (`config.go`) | `Config.config` under a `RWMutex` | `Apply`, `Snapshot` | HTTP writes, ticks read | all-or-nothing patch; no shared maps in a snapshot |
| Main loop (`main.go` 107-134) | two deadlines | run the ticks that are due | configuration | changed intervals, `enabled`, shutdown |
| Status and report (`exchange.go` 29-46, 791-804, `report.go`) | atomic counters, `prices` | read on HTTP goroutines | list and buy tick | torn status, unsynchronised map |
| Bootstrap (`exchange.go` 181-292) | ids, balance, position counter | find or create the bot's actor, seed its balance | database; `-report` does the same beside the bot | ignored errors, lost answers, restarts |
| Category masks (`pricing.go` 11-322, `exchange.go` 294-376) | segment index, category cache and its SQLite copy | category path to 32-bit mask, refresh the cache | list side's inserts | codes must not collide; masks of an earlier catalog |
| Catalog loading (`catalog.go`) | none | filter `item-data.json` | input of everything | - |
| HTTP server (`api.go`), report command, deployment | none of their own | - | - | - |

`exchange.go` 594-641 (`createListing`) is dead code.

## What makes each component correct

- *Buy side*: a seller is paid at most once, never short, and exactly unless the
  listing changed under the bot; a tick keeps its budget up to the errors it
  counts; the books balance; a lasting bargain is eventually bought.
- *List side*: an undisturbed tick restores quota, price and full stacks from
  any state; faults leave bounded damage; only stale listings are pruned; orders
  and items stay paired.
- *Price loop*: prices stay in a band around the configured floor and ceiling,
  settle when the world is quiet and recover when undercutting ends.
- *Game clock*: the inferred clock is never ahead of the game's, so that nothing
  is expired before its time; a wrong clock is corrected; new listings live.
- *Configuration*: a patch is applied whole or not at all; a tick sees one
  configuration; every value was checked or is one the process started with.
- *Main loop*: ticks recur, none is late by more than the ticks before it, missed ones
  are not made up for, disabling takes effect, a signal ends the process.
- *Status*: what it shows is at most one list tick apart; nobody waits for ever.
- *Bootstrap*: one actor that owns all stock, money seeded only as often as reads failed or
  processes overlapped, distinct positions.
- *Category masks*: an item is filed where the running catalog says, whatever the
  cache holds, over restarts and deployments; places whose codes are confirmed are
  distinct and never move.

## Modules

| Module | Models |
|---|---|
| `Pricing` | the arithmetic of `pricing.go`, as pure operators |
| `Settlement` | abstract: what a seller is promised |
| `BuySide`, `MCBuySide`, `BuySideProofs` | buy ticks against concurrent players; implements `Settlement` |
| `ListSide`, `MCListSide`, `ListSideProofs` | list ticks against concurrent sales, removals and wipes |
| `PriceLoop`, `MCPriceLoop`, `PriceLoopProofs` | the prices of one template over list ticks |
| `GameClock`, `MCGameClock`, `GameClockProofs` | the clock inferred from orders, its stamps and its copy on disk |
| `MainLoop`, `MCMainLoop`, `MainLoopProofs` | which tick starts when |
| `AtomicConfig` | abstract: a register that is read and patched atomically |
| `ControlApi`, `MCControlApi`, `ControlApiProofs` | HTTP handlers beside the ticks: configuration, counters, price map; implements `AtomicConfig` |
| `Bootstrap`, `BootstrapProofs` | what a process does before its first tick |
| `CategoryMask` | the code tables and masks of `pricing.go`, as pure operators |
| `Categories`, `MCCategories`, `CategoriesProofs` | the masks on the market over restarts, deployments and wipes |

`BuySide` and `PriceLoop` use `Pricing`, `Categories` extends `CategoryMask`. The others
meet in the variables they share with the code: what one module does in detail another
has as a single step (a whole tick is one action, or a `PutConfig`, in the modules that
only need to know that it happens). An `MC` module only gives constants values.

Some operators stand before the one they imitate with a bug (`ScanLimitNoSlack` before
`ScanLimit`, `ReadersStay` before `ReadersWithout`). They belong to no behaviour;
`PROJECT.json` says which property notices when one takes the other's place.

### BuySide

The database is `order`, `stack`, `sold`, `returned`, `receipts`, `paid` and
`balance`, per listing; ids are never reused, as the database's sequences
guarantee. The process is `pc`, `cfg`, `botPrice` (`e.prices`), `snap`, `rows`
(what is left of the query's result) and `seen` (`actual_stack` of those rows).

`StartTick` takes the snapshot and runs the query; `QueryResults` is every answer
`LIMIT` without `ORDER BY` allows. `SkipRow`, `FailRow`, `BuyRow` and
`BuyRowUnacknowledged` are the outcomes of one round of the loop. A transaction is
one step, because nothing of it is visible before its commit and its statements
do not depend on what they read. `Settle` therefore also pays for a listing that
has gone: the deletes touch no row and nobody looks. `EndTick` and `StreamBreaks`
end the loop. `committed`, `raced` and `faults` only observe.

The players' side (`PlayerLists`, `PlayerBuys`, `ListingReturned`) is the game's,
not the repository's. It is assumed to keep an order and its stack consistent and
to remove both when the stack is sold.

`Settlement` has none of this: a listing is bought in one step, at most once, for at least
what is left and at most what was listed. `SettlesOnce` states that `BuySide` implements it
with `stack` as what is left.

The code takes the configuration's snapshot shortly before the query (`exchange.go`
644-659); nothing observes the gap, so both are one step.

### ListSide

An order and its item share an id, because the bot creates them together. `pc`
walks through the statements of `ListTick` in their order. `Plan` is the whole
loop over the catalog: the target prices (what the price loop computes, here any),
`stale`, `topUps` and `pending`. `StatementIgnored` is a statement that fails and
is ignored; `BatchFails` has the three ways an insertion batch is lost (`BEGIN`,
a statement, `COMMIT`), which count differently. A failure reported for a
statement that did take effect is the same step as its success, since no code
looks at it. `calm` observes whether anything failed or interfered since the load.

### PriceLoop

One template, any of the catalog, with a single listing at grade 0. `FetchMarketPrices`
reads the minimum over players' and own listings; `UpdatePrices` applies
`AdjustPrice` and `MarketPull`; `Relist` replaces listings at another price, which
resets the count of units sold from them. `NoListing` is not a price: a listing at 0 is
possible, and the minimum it makes counts as none. `ListSide` has the detail of the
replacement and of its failures. `basis` remembers the configuration the price was last
moved under, if it was moved since the process started.

### GameClock

`clock` is the game's true time, `epoch` what the bot holds in `gameEpochUnix`,
`cached` the row in SQLite. `open` and `done` are the expiries of the orders
`learnGameEpoch` reads: open player orders, and completed ones, which include the
receipts of the bot's purchases. `LearnGameEpoch` is the call at the start of both
ticks, with its failures to read and to write. `BuyTick` stamps, `Purchase` writes a
receipt with the stamp, `ExpireOrders` runs the expiry procedure with `GameNow`;
time passes and players act between any two of these. `Restart` goes back to the copy.
The game is assumed to give orders the 24 hours the code assumes, and the procedure to
complete the orders whose expiry is not after the time it is given.

### MainLoop

Time is in minutes and relative: `left` is the time until `nextBuy` and `nextList`, `slot` and
`age` are the ages of the stamp in the ticker's channel (one place; further ticks are dropped)
and of the stamp the poll works with. A tick takes up to `MaxTick` minutes, during which
`Minute` goes on. Deadlines are compared with and computed from the stamp, and a stamp of
the very minute of a deadline may or may not be after it. `Start` to `FirstListEnds` are the
unconditional first ticks; `PutConfig`, `Signal` and `Crash` come at any moment. `since`, `ahead`,
`granted` and `strays` only observe.

### ControlApi

Every connection of the HTTP server is a goroutine, and so is the bot. `Announce`, `Lock`, `RLock`,
`RUnlock` and `Unlock` are `sync.RWMutex`: a waiting writer holds off new readers and
lets those that waited go first. `ApplyKey` visits the keys of a patch in any order on `copy`;
`RejectKey` leaves through the deferred unlock; `Commit` assigns. `CopyField` copies a snapshot or an
answer key by key. `StoreList`, `StoreFirst` and `StoreSecond` store what `Load` loads one by one,
each as the number of the list tick it is from, or `Failed` for the 0 of a query that failed. Only list
ticks that store their time are counted: one whose load fails returns before that and shows nowhere. `ReadPrices` against `WritePrices` is a data
race; what the build does about it is `MapRace`, the runtime's fatal error, or nothing.
Configuration values are numbers against the least value each check accepts.

`AtomicConfig` is the same interface without locks, copies or key order; callers' requests
and replies are its variables as well, so that `ConfigIsAtomic` is linearizability.

### Bootstrap

Any number of processes go through `Init`: the pod over all its lives, and invocations with
`-report`, which initialise the same exchange before they print. One action per query, with the
queries whose errors are dropped (`MisreadBalance`, `MisreadPosition`), those whose error means
something else (`DetectFails`), those that end the process (`Dies`), and the statements
whose answer is lost (`InsertUnacknowledged`, `SeedUnacknowledged`). `ListItem`,
`RollBackItem` and `Spend` are what ticks do to the same rows. `items` is a bag, since
positions may repeat. The amounts are scaled down; only their order matters. `misreads`, `miscounts`,
`overlaps` (starts of a process while another was in `Init`), `debt` (how far below nothing a
balance has been) and `earned` only observe.

### CategoryMask and Categories

A mask is a triple of bytes. The tables are rows of names whose place is the code, as the comments
of `pricing.go` have them; a name without a code gets its place in the alphabet of the catalog's
level, modulo 256. A catalog is a file of items as `LoadCatalog` keeps it: without those
that have no category. `Categories` keeps which (template, mask) are on the market, in the cache
and in its file. `CategoryFor` asks the cache for an item without a category only, as the code
does; since no such item is loaded, no listing depends on the cache, which is what `MasksAreCurrent`
says and what fails if the cache is asked first, or if such items are loaded. `Refresh` is `refreshCategoryCache`, at the start of a process and of each list tick,
reading any part of the file, finding any one live mask of a template, and writing any part back.
`Deploy` starts a process with another catalog. `Wipe` is a step of its own before it, as in
`deploy.sh`, where the old process still runs: it may list again in between, also in a tick that had
begun (`ListTick`, `CreateListings`). `wiped` and `mixed` observe whether it did. An item is assumed to
keep its category from catalog to catalog. Rows with mask 0 (garments/light armour/head) are never
cached, as in the query.

### Pricing

Prices are natural numbers and multipliers whole percentages. `RoundDiv` rounds
exactly; the code rounds a float64 product. For the shipped multipliers both agree
on the multiples of ten below four million, which is what prices are.

## Runs

| Run | Instance | Shows |
|---|---|---|
| `buy_safety` | 2 listings, 2 templates (one not buyable), grades 0 and 5, stacks of 1 and 2, budgets of 1 and 2, 2 faults | payments, budget and books under all interleavings |
| `buy_liveness` | stacks of 1, `LIMIT` covers both listings, 1 fault | ticks end, bargains are bought |
| `list_safety` | 2 keys sharing batches of 2, quota 1, 5 ids, 1 fault, 2 outside events | repair after anything; pairing; pruning |
| `list_quota` | 1 key, quotas 1 and 2, batches of 1, 5 ids, 1 fault, 1 event | with a quota that is raised and lowered and several batches, the surplus is bounded, ticks end and stock comes back |
| `price_loop` | 5 items at the magnitudes where rounding bites, with hard bounds and with material costs; three configurations, one with a multiplier of 10 percent; player prices 4 and 60; 3 events, 1 fault | the band; nothing is listed far below its floor; prices settle and recover |
| `clock_safety` | lifetime 2, 5 units of time, 1 fault | the clock is not ahead, or no longer; that it does not fall behind is not claimed |
| `main_loop` | intervals 1 and 3, exchanged and disabled at will, ticks of up to 2 minutes, 1 signal or crash | no bursts, no starvation, the switch and signals work |
| `control_api` | 1 operator, 1 connection that does everything, the bot; 2 keys, a patch that is accepted and one that is refused for one of its keys; 2 list ticks per process that store their time | atomic configuration, checked values, recent status, progress |
| `bootstrap` | the pod and 1 report, 1 exchange, floor 2, seed amount 4, a purchase of 3, 2 faults, 1 payment, positions 0 and 1 | one actor, how much may be seeded, positions, start |
| `categories` | 2 files of 4 items with every way to get a code, one of them without a category in the first; a player's mask | masks are current, confirmed places stay and are distinct |

Runs that end in a counterexample, each against a sentence of the repository:

| Run | The sentence | What happens |
|---|---|---|
| `buy_race` | `exchange.go:386` "Use actual current stack_size from items so partial fills pay the right amount." | a partial fill between query and transaction is paid twice |
| `clock_placeholder` | `README.md:18` "player listings are never modified (only purchased if below threshold)" | a placeholder expiry becomes the clock, and every player order is expired |

Other disagreements with the repository's sentences that no run repeats:

- `README.md:7` "checks for underpriced player listings and buys them": `LIMIT` without `ORDER BY`
  (`exchange.go:397`) can answer with the same expensive listings for ever when there are more than it.
  `UnderpricedIsBought` is checked where the limit covers all listings.
- `exchange.go:764` "Bulk delete stale orders and their items.": two statements outside a transaction. A
  crash or failure between them leaves items that no later tick sees; `NoOrphansWithoutFaults` is checked
  and proved without failures.
- `exchange.go:858` "Don't go below our floor, but trend toward market.": the average is not clamped
  again and may be half of the floor (`PriceBand`).
- `README.md:47` "Order expiry | 24 h (game time)": `learnGameEpoch` takes the latest order to be
  new on every call, so game time stands still while no newer one appears, and listings created a day
  later have expired already.
- `README.md:7` "up to 50 per tick": a purchase whose commit answer is lost is missing from the budget
  (`BudgetAccounted` says by how much it can be exceeded).
- `README.md:7` "Every 5 minutes": `now.After` of the very minute is false, so with minute stamps the
  effective interval is often 6 (`NeverLate`).
- `api.go:88` "changes apply on next tick" and `main.go:110` "apply promptly": a tick works with the snapshot
  taken when it was polled, and the first ticks of a process do not ask at all, so that a tick of each
  kind may start after `enabled` was switched off (`StopsWhenDisabled` allows these two), and a shorter
  interval applies from the next deadline on (`NeverLate` is about the interval granted).
- `exchange.go:276` "Seed if balance is below 1T, top up to 9T": the credit is computed from a balance
  read before. If the pod and `-report` are in `Init` at the same time, both may credit, and a balance whose query
  failed is credited as if it were 0. `NotOverfunded` has the exact bound. Two processes in `Init` may also
  insert two actors; `StockIsOwned` is about lives without such a start.
- `exchange.go:858` again: with a grade multiplier under 100 percent the bot's own listing is a market minimum
  below its price, so the price stays under its floor after the players have left; and if it gets so low that the
  item is listed for nothing, that minimum counts as none (`exchange.go:855`) and the price goes up and down
  for ever. `PricesSettle` and `RecoversFromUndercutting` are about configurations without such a discount
  on the grade. At 10 percent an item with a floor of 40 is listed for nothing (`ListedNearFloor`).
- A lowered `listings_per_grade` removes nothing; failures of the load, the deletes, the refill and
  `COMMIT` are missing from the errors "since process start" (`exchange.go:106`); the balance "as of
  last list tick" (`exchange.go:107`) is 0 after a failed query, which `StatusIsRecent` allows as `Failed`.
- Five percent off 70 rounds back to 70 (`README.md:36`); the first listings of an item ignore its
  `MinPrice` (`catalog.go:25`); the multipliers of `README.md:28` are not those of `config.go:45`; order
  expiries are never refreshed (`README.md:16`); `disabled_items` is read by nothing (`config.go:22`).
- `pricing.go:83` and `:151` name codes (deployables 1, shield 2) that the tables lack; the names get
  alphabetical ones. `heavypistol` has the code of the weapons' unique schematics, one level
  up. Schematics of a compactor are not rerouted, because the table's key is `staticcompactor`. In the
  shipped catalog no two categories share mask and depth.

### Bounds

Faults and outside events are bounded per behaviour (`MaxFaults`, `MaxEvents`),
which is also how liveness gets a time after which they cease. Two listings are
enough for the buy side because rows interact only through the budget and the
limit, both of which two listings reach. On the list side a key's listings are
interchangeable; five ids hold full quotas, a surplus and a replacement of it. If
a run needed more ids than it has, `InsertBatch` would be disabled and the run
would report a deadlock: it does not. `MaxSold` reaches all three cases of the
sold fraction. Five units of game time are two lifetimes and a half, enough for an order
to be overdue while the clock stands still. Counters of errors are bounded by the
faults.

In `main_loop` an interval is shorter than, as long as and longer than the longest tick, so that
stamps are dropped, wait, and are older than the deadline they set. `ahead` and `since` stop
counting where no property looks. In `control_api` a second operator adds nothing that the bot,
a third reader, does not do; two list ticks per process that store their time are what one status can mix (`StatusesAreRecent` has
any number). `bootstrap`'s
purchase of 3 from a balance at the floor leaves a debt, which the pod's next life and a report that
overlaps with it may both make up for; its two faults are a lost answer and a second failure in the life after it; with the report, two
processes meet at every step. With one exchange the choice of `Detectable` is whether it is known
from orders. `categories` has one item for every branch of the mask functions: confirmed,
rerouted, alphabetical, mask 0, and no category; the remapped weapons are left to the theorems.
`MCCategories` also has TLC evaluate the hypothesis `PlacesStayDistinct` needs beyond the module's
own assumptions. In `price_loop` the offers are one near and one far below what the items cost, so
low that at 10 percent a price it has pulled down is listed for nothing.

Listings and ids are symmetric; symmetry is used in safety runs only.

### Fairness

- `WF(StartTick)`: the main loop's ticker recurs and a tick with a positive
  threshold reaches its query (`main.go` 112-134). The `enabled` switch is taken to be on.
- `WF` on processing rows, on the statements and on the end of a tick: the main goroutine
  runs a tick to its end; database calls return.
- `WF(Restart)`: `restartPolicy: Always` (`k8s/market-bot.yaml:60`).
- In `MainLoop`, `WF` on the minute, the poll and each step of a tick; ticks end because `TickEnds`
  holds of both sides. `SF(ShutDown)`: when a poll is ready as well, `select` takes either case at
  random (`main.go` 117), so it cannot pass over the cancelled context for ever.
- In `ControlApi`, `WF` on every goroutine that is inside a handler or a tick, and `SF(Announce)`: the mutex
  writers queue on hands itself over to one that has waited for a millisecond. Clients owe neither
  a request nor the reading of an answer; answering is not waited for.
- In `Bootstrap`, `WF` on starting the pod and on each query; once the faults are used up the
  queries succeed.
- Players, the operator and failures owe nothing. Only the two named actions have strong fairness.

## Proofs

Checked by TLAPS for all values of the constants, under each module's assumptions (finite sets of
listings or keys, positive prices and quotas, typed catalogs and configurations). Where a theorem needs
more it says so in its `ASSUME`; there is one such theorem, see `CategoriesProofs`.

- `BuySideProofs`: `TypeOK`, `PaidAtMostOnce`, `SellerNeverShort`,
  `PaidExactUnlessRaced`, `BudgetAccounted`, `BooksBalance` and `SettlesOnce`. None of the middle ones is
  inductive: that a second receipt cannot be written needs that a listing whose
  row is still waiting has no receipt yet, and that a payment covers the seller needs
  that what the row's `seen` promises is at least what is left. `IInv` adds, per
  listing, `ListingInv` (what its units are accounted as in each state of its order) and
  `RowInv` (how a waiting row relates to the listing, with equality unless it is raced), and
  `CountInv` for the budget. The books are a sum over listings; it is written as the cardinality of
  the set of coins promised, so that paying a listing adds a finite set disjoint from the rest
  (`CoinsCounted`) where a recursive sum would need an induction over data. That the set is disjoint
  is `PaidAtMostOnce` again. The refinement maps every action to one of `Settlement`'s or a
  stutter; that a purchase is one needs `ListingInv` and `RowInv` as well.
- `ListSideProofs`: `TypeOK`, `NoOrphansWithoutFaults`, `OnlyStalePruned`, `CleanTickRestocks`,
  `SurplusBounded`. `IInv` adds `PairInv` (orders and items agree except between the two deletes),
  `StaleInv` (everything planned for deletion is still at a wrong price) and finiteness. `RestockInv` is
  the promise of an undisturbed tick at each of its statements: listings at the target price and
  insertions still owed add up to the quota, every listing not at the target price is among the stale ones
  while these are still there, and every stack that is not full is among the refills still to come.
  `SurplusInv` keeps a key's orders within a cap of one quota and another per fault: those that stay
  together with what the plan owes the key are within it, and those a truncated load missed leave room
  for a whole quota, since missing any was a fault.
- `PriceLoopProofs`: `TypeOK`, `PriceBand`, `ListedNearFloor`. The lemmas follow a price through the
  arithmetic: `AdjustInBand` puts it between floor and ceiling, `PullHalves` bounds
  what the market can take away, and since every update starts with the clamp the
  result does not compound. `NeverGivenAway` adds that grading and rounding are monotone: a price that
  is at least `Lowest` is listed at no less than `Lowest` would be. It holds for any positive multipliers.
- `GameClockProofs`: `TypeOK`, `ClockNotAhead`, and that only overdue orders are expired, both
  until a receipt carries the placeholder. The clock feeds on its own stamps, so the
  invariant bounds at once every expiry in the database (by a lifetime from the true
  clock), the epoch in memory, its copy on disk and the stamp of the running tick.
  `Recent` keeps the epochs, and with them the stamps, within their types.
- `MainLoopProofs`: `TypeOK`, `NoBursts`, `StopsWhenDisabled`, `NeverLate`. `AgeInv` bounds the age of a
  stamp by where the loop is, `BurstInv` relates what a kind is ahead of its intervals to the time left
  until its deadline, `StrayInv` counts what one snapshot may still start. That `left` is in its range
  needs `AgeInv`. `WaitInv` is for `NeverLate`: what a kind has waited and the time left until its
  deadline add up to no more than it was granted (`Behind`; for the first deadlines of a process, the first
  ticks more), and a deadline that was not due at a stamp is no further behind than that stamp is old.
  `BuyWait` and `ListWait` differ because the list deadline is checked after the buy tick of the same poll.
- `ControlApiProofs`: `TypeOK`, `ConfigIsChecked`, `ConfigIsAtomic`, `StatusIsRecent`. `LockInv` is mutual
  exclusion, `PatchInv` says that the copy is the configuration with the visited keys replaced by accepted
  values, `SnapshotInv` that a reader's copy agrees with the configuration where it has been. `Commit`,
  `RejectKey` and `RUnlock` are the register's `Put` and `Get`, everything else but requests, answers
  and `Die` a stutter. `StatusInv` relates the counters to each other at every point of a list tick
  (`StoredInv`) and what a client has loaded to what is stored when it loads the next (`LoadedInv`).
- `BootstrapProofs`: `TypeOK`, `StockIsOwned`, `NotOverfunded`, `FundedWhenReady`, `PositionsShared`. `Alone` and
  `OneActor` say that processes that do not overlap never see two actors; `Counted` that every actor has its
  process; `Funded` relates a balance that was read to the one there is when it is acted upon,
  with `Fresh` saying that one that was not read is 0. `NotOverfunded` is not inductive: a process that has read a
  low balance will credit it whatever the balance is by then. `Lent` strengthens it to an actor's balance
  together with the credits under way (`Coming`, bounded by `Capped`): several processes can be about to
  credit only if all but one started while another was in `Init`, which `Crowd` counts, and no credit exceeds
  the seed amount and the debt (`Deep`). `Placed` types the counters and places of items,
  and `Stacked` that the positions the next items will be put at hold one item less than a position may:
  none, if no counter was misread (`HighestIsThere`: the highest position in use exists, by counting).
- `CategoriesProofs`: `TypeOK`, `MasksAreCurrent`, `ConfirmedPlacesStay`, `PlacesAreDistinct`. `ConfirmedMask` is
  the lemma about the tables: where all names are confirmed the index is never looked at. The invariant
  keeps, for each listing, a catalog that filed it, and the running one until catalogs have met on the
  market; that a wipe lets another catalog be deployed without their meeting needs that nothing of the
  bot is listed while `wiped` holds. `NoCacheForItems` is where the loader comes in: what is
  loaded has a category, so the cache is not asked. `MaskFits` and `SchematicFits` are the bytes: every row of the tables is shorter than 256, and the
  alphabetical place is taken modulo 256. For `PlacesAreDistinct`, `MenuMask`, `BladeMask` and `RoutedMask`
  read a path back from its mask, level by level, and `MenuAndSections` tells items from the
  sections of unique schematics. It assumes `CatalogsSorted`: confirmed names sit where the menu has them and the
  schematics of a section come from one category. Without it the property is false, because
  the code of a name does not depend on the names above it and a fifth level is cut off. The shipped
  `item-data.json` is sorted in this sense.

`TypeOK` of `BuySide`, `PriceLoop`, `MainLoop` and `ControlApi`, and `PaidAtMostOnce`, which `SettlesOnce`
implies, are proved and therefore in no run.

Every invariant a passing run checks is proved, and every action property and refinement. Only model-checked
are the liveness properties (`UnderpricedIsBought`, `TickEnds`, `EventuallyStocked`, `PricesSettle`,
`RecoversFromUndercutting`, `ClockRecovers`, `KeepsTicking`, `SignalEnds`, `EveryoneProceeds`, `EventuallyReady`):
fairness and `ENABLED` are out of this prover's reach.

## Not modelled

- Reading and filtering `item-data.json` (`catalog.go`): parsing; its records are constants.
- Routing, the bearer token, `/health`, `/config/reload`, JSON, logging, the numbers of a report row and
  the TSV report: no state, or pure output.
- `createListing` (`exchange.go` 594-641): dead code.
- Scripts other than the wipe and the restart.
- Float64 rounding other than for the shipped multipliers, and int64 overflow, which
  the price ceilings keep far away; `MaxBuys*10` of a huge `max_buys`.
- On the list side: the server-side expiration of its own listings (it appears as
  `ListingLeaves`) and listings of items no longer in the catalog.
- `last_buy_tick` and the error count, which no other value is related to; the access point id, the
  inventory id and the category hash, which are written or read once.
- The initial stack size the buy query falls back to when an order has no item (`exchange.go:391`): players'
  orders have theirs. The receipt of a purchase of an order that has gone (`exchange.go:449`) in `GameClock`: it
  carries the same stamp as one of an order that is there. A `null` for a number in a patch (`config.go:153`),
  which leaves the number as it was.
- A `null` for a map in a patch, or a map with some rarities only, which replaces the whole map: a
  value like any other in `ControlApi`, and in `PriceLoop` the configuration that lacks a rarity.
- Calls that never return: the bot sets no timeout on its queries, and fairness assumes they end.

## Plan

Done: the modules above, with their theorems. Next:

1. Proofs: lemmas about the operators of `Pricing` (rounding is monotone, the bounds of the drift); invariants
   of `Settlement` and `AtomicConfig`, which the refinements carry over to `BuySide` and `ControlApi`.
2. Listings of keys that leave the catalog in `ListSide`; two exchanges in `Bootstrap`'s run.
3. `MarketBot`: buy side, list side and price loop composed over one market, to relate bought and
   listed prices of items with material costs.
