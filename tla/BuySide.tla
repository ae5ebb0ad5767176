------------------------------ MODULE BuySide ------------------------------
(***************************************************************************)
(* The buying half of the bot: BuyTick and buyPlayerListings of            *)
(* src/exchange.go, against an exchange database that players use at the   *)
(* same time.                                                              *)
(*                                                                         *)
(* One query reads the open player listings.  The rows are then worked off *)
(* one by one, and every purchase is a transaction of its own that pays    *)
(* for the stack size THE QUERY saw and deletes the listing by its id,     *)
(* without looking at how many rows the DELETE touched.  Between the query *)
(* and the transaction players may buy from the listing, cancel it, or the *)
(* exchange may return it.  A transaction takes effect at its commit; a    *)
(* commit whose answer is lost has taken effect although the bot counts an *)
(* error.  The process may die at any point and is restarted.              *)
(*                                                                         *)
(* The game's side of a listing (PlayerLists, PlayerBuys, ListingReturned) *)
(* is not part of the repository; it is modelled from what the queries of  *)
(* src/exchange.go assume of the tables.                                   *)
(***************************************************************************)
EXTENDS Integers, FiniteSets, Pricing

CONSTANTS
    Listings,      \* ids of player sell orders; the database never reuses one
    Templates,     \* item templates
    NotBuyable,    \* templates the operator marked "buyable": false
    Offers,        \* what a player listing may be: [tmpl, grade, price, units]
    BotPrices,     \* values of e.prices; 0 stands for "no price known"
    ListPrice,     \* the catalog price e.prices is seeded with
    Configs,       \* values of the runtime configuration (threshold in percent)
    DefaultConfig, \* the configuration a process starts with
    ScanFactor,    \* the query's LIMIT is maxBuys * ScanFactor (10 in the code)
    MaxFaults      \* how many failures and crashes a behaviour may contain

ASSUME ConstantsAssumption ==
    /\ IsFiniteSet(Listings)
    /\ NotBuyable \subseteq Templates
    /\ Offers \subseteq [tmpl : Templates, grade : Grades, price : Nat \ {0}, units : Nat \ {0}]
    /\ BotPrices \subseteq Nat
    /\ ListPrice \in [Templates -> BotPrices]
    /\ Configs \subseteq [threshold : Nat, maxBuys : Nat, gradeMult : [Grades -> Nat \ {0}]]
    /\ DefaultConfig \in Configs
    /\ ScanFactor \in Nat \ {0}
    /\ MaxFaults \in Nat

VARIABLES
    \* the exchange database
    offer,      \* the terms of each listing, fixed when it is created
    order,      \* its sell order: "none" (not created), "open" or "gone"
    stack,      \* units left in its item stack
    sold,       \* units other players bought from it
    returned,   \* units handed back to the seller (cancelled or expired)
    receipts,   \* fulfilled-order rows the bot wrote for it
    paid,       \* units those rows pay the seller for
    balance,    \* the bot's balance relative to the start (may be negative)
    \* the bot process
    pc,         \* "idle", "buying" or "down"
    cfg,        \* Config.config
    botPrice,   \* e.prices
    snap,       \* the configuration snapshot of the running tick
    rows,       \* rows of the query's result not read yet
    seen,       \* actual_stack of those rows
    purchased, errs,   \* the counters of buyPlayerListings
    errCount,   \* e.errCount
    \* observed, not part of the program
    committed,  \* purchases of the running tick the database committed
    raced,      \* listings that changed while their row waited in a tick
    faults      \* failures so far

dbVars   == <<offer, order, stack, sold, returned, receipts, paid, balance>>
tickVars == <<snap, rows, seen, purchased, errs, committed>>
vars     == <<dbVars, pc, cfg, botPrice, tickVars, errCount, raced, faults>>

Nothing == [l \in Listings |-> 0]

TypeOK ==
    /\ offer \in [Listings -> Offers]
    /\ order \in [Listings -> {"none", "open", "gone"}]
    /\ stack \in [Listings -> Nat]
    /\ sold \in [Listings -> Nat]
    /\ returned \in [Listings -> Nat]
    /\ receipts \in [Listings -> Nat]
    /\ paid \in [Listings -> Nat]
    /\ balance \in Int
    /\ pc \in {"idle", "buying", "down"}
    /\ cfg \in Configs
    /\ botPrice \in [Templates -> BotPrices]
    /\ snap \in Configs
    /\ rows \subseteq Listings
    /\ seen \in [Listings -> Nat]
    /\ purchased \in 0 .. snap.maxBuys
    /\ errs \in Nat
    /\ errCount \in Nat
    /\ committed \in Nat
    /\ raced \subseteq Listings
    /\ faults \in 0 .. MaxFaults

Init ==
    /\ offer \in [Listings -> Offers]
    /\ order = [l \in Listings |-> "none"]
    /\ stack = Nothing /\ sold = Nothing /\ returned = Nothing
    /\ receipts = Nothing /\ paid = Nothing
    /\ balance = 0
    /\ pc = "down"
    /\ cfg = DefaultConfig /\ snap = DefaultConfig
    /\ botPrice = ListPrice
    /\ rows = {} /\ seen = Nothing
    /\ purchased = 0 /\ errs = 0 /\ errCount = 0 /\ committed = 0
    /\ raced = {} /\ faults = 0

Fault == faults < MaxFaults /\ faults' = faults + 1

-----------------------------------------------------------------------------
(* The exchange, driven by players and by the game server.                 *)

PlayerLists(l) ==
    /\ order[l] = "none"
    /\ order' = [order EXCEPT ![l] = "open"]
    /\ stack' = [stack EXCEPT ![l] = offer[l].units]
    /\ UNCHANGED <<offer, sold, returned, receipts, paid, balance,
                   pc, cfg, botPrice, tickVars, errCount, raced, faults>>

(* A listing that changes while a tick still holds its row is raced.       *)
Touched(l) == IF l \in rows THEN raced \cup {l} ELSE raced

PlayerBuys(l) == \E n \in 1 .. stack[l] :
    /\ order[l] = "open"
    /\ stack' = [stack EXCEPT ![l] = @ - n]
    /\ sold' = [sold EXCEPT ![l] = @ + n]
    /\ order' = [order EXCEPT ![l] = IF n = stack[l] THEN "gone" ELSE "open"]
    /\ raced' = Touched(l)
    /\ UNCHANGED <<offer, returned, receipts, paid, balance,
                   pc, cfg, botPrice, tickVars, errCount, faults>>

(* Cancelled by its seller, or expired (also by the bot's own list tick).  *)
ListingReturned(l) ==
    /\ order[l] = "open"
    /\ order' = [order EXCEPT ![l] = "gone"]
    /\ returned' = [returned EXCEPT ![l] = stack[l]]
    /\ stack' = [stack EXCEPT ![l] = 0]
    /\ raced' = Touched(l)
    /\ UNCHANGED <<offer, sold, receipts, paid, balance,
                   pc, cfg, botPrice, tickVars, errCount, faults>>

-----------------------------------------------------------------------------
(* The operator and the list tick.                                         *)

(* PUT /config is served by another goroutine, at any time.                *)
PutConfig ==
    /\ pc # "down"
    /\ \E c \in Configs : cfg' = c
    /\ UNCHANGED <<dbVars, pc, botPrice, tickVars, errCount, raced, faults>>

(* updatePrices runs in the list tick, on the goroutine of the buy tick.   *)
Reprice ==
    /\ pc = "idle"
    /\ \E t \in Templates, p \in BotPrices : botPrice' = [botPrice EXCEPT ![t] = p]
    /\ UNCHANGED <<dbVars, pc, cfg, tickVars, errCount, raced, faults>>

-----------------------------------------------------------------------------
(* The buy tick.                                                           *)

ScanLimitNoSlack(c) == c.maxBuys

ScanLimit(c) == c.maxBuys * ScanFactor

(* actual_stack: what is left of the listing, not what it started with.    *)
InitialStack(l) == IF order[l] = "open" THEN offer[l].units ELSE 0

ActualStack(l) == IF order[l] = "open" THEN stack[l] ELSE 0

OpenListings == {l \in Listings : order[l] = "open"}

(* What the query may answer: LIMIT without ORDER BY picks any rows.       *)
QueryResults(c) ==
    {R \in SUBSET OpenListings :
        \/ R = OpenListings /\ Cardinality(R) <= ScanLimit(c)
        \/ R # OpenListings /\ Cardinality(R) = ScanLimit(c)}

(* A tick with threshold zero returns before the query.                    *)
StartTick ==
    /\ pc = "idle"
    /\ cfg.threshold > 0
    /\ pc' = "buying"
    /\ snap' = cfg
    /\ rows' \in QueryResults(cfg)
    /\ seen' = [l \in Listings |-> IF l \in rows' THEN ActualStack(l) ELSE 0]
    /\ purchased' = 0 /\ errs' = 0 /\ committed' = 0
    /\ raced' = raced \ rows'
    /\ UNCHANGED <<dbVars, cfg, botPrice, errCount, faults>>

(* A query that fails is logged and the tick returns, not counted.         *)
QueryFails ==
    /\ pc = "idle" /\ cfg.threshold > 0
    /\ Fault
    /\ UNCHANGED <<dbVars, pc, cfg, botPrice, tickVars, errCount, raced>>

RefPrice(l) == GradedPrice(botPrice[offer[l].tmpl], offer[l].grade, snap.gradeMult)

(* Known to the bot, not marked, and at or below threshold times the bot's *)
(* own price for the grade (the product is truncated).                     *)
Acceptable(l) ==
    /\ botPrice[offer[l].tmpl] > 0
    /\ offer[l].tmpl \notin NotBuyable
    /\ offer[l].price <= (RefPrice(l) * snap.threshold) \div 100

WithinBudgetOffByOne == purchased <= snap.maxBuys

WithinBudget == purchased < snap.maxBuys

ConsumeKeepsRow(l) ==
    /\ pc = "buying" /\ l \in rows /\ WithinBudget
    /\ UNCHANGED <<rows, seen, pc, cfg, botPrice, snap, errCount, raced>>

(* The next row is read, whatever becomes of it.                           *)
Consume(l) ==
    /\ pc = "buying" /\ l \in rows /\ WithinBudget
    /\ rows' = rows \ {l}
    /\ seen' = [seen EXCEPT ![l] = 0]
    /\ UNCHANGED <<pc, cfg, botPrice, snap, errCount, raced>>

SkipRow(l) ==
    /\ ~Acceptable(l)
    /\ Consume(l)
    /\ UNCHANGED <<dbVars, purchased, errs, committed, faults>>

(* Scan, BEGIN, a statement or COMMIT fails and the database is unchanged. *)
FailRow(l) ==
    /\ Fault
    /\ Consume(l)
    /\ errs' = errs + 1
    /\ UNCHANGED <<dbVars, purchased, committed>>

PaidSingleUnit(l) == 1

PaidUnits(l) == seen[l]

CostOfOneUnit(l) == offer[l].price

Cost(l) == offer[l].price * seen[l]

AfterSaleKeepsOrder(l) == order

AfterSale(l) == [order EXCEPT ![l] = "gone"]

(* The transaction: receipt and payment for the seller, the bot's balance  *)
(* debited, sell order, order and item deleted if they are still there.    *)
Settle(l) ==
    /\ receipts' = [receipts EXCEPT ![l] = @ + 1]
    /\ paid' = [paid EXCEPT ![l] = @ + PaidUnits(l)]
    /\ balance' = balance - Cost(l)
    /\ order' = AfterSale(l)
    /\ stack' = [stack EXCEPT ![l] = 0]
    /\ committed' = committed + 1
    /\ UNCHANGED <<offer, sold, returned>>

BuyRow(l) ==
    /\ Acceptable(l)
    /\ Consume(l)
    /\ Settle(l)
    /\ purchased' = purchased + 1
    /\ UNCHANGED <<errs, faults>>

(* COMMIT took effect but its answer was lost: the bot counts an error.    *)
BuyRowUnacknowledged(l) ==
    /\ Acceptable(l)
    /\ Fault
    /\ Consume(l)
    /\ Settle(l)
    /\ errs' = errs + 1
    /\ UNCHANGED purchased

(* The counters of a finished tick go to e.errCount.                       *)
Finish ==
    /\ pc' = "idle"
    /\ errCount' = errCount + errs
    /\ rows' = {} /\ seen' = Nothing
    /\ UNCHANGED <<dbVars, cfg, botPrice, snap, purchased, errs, committed, raced>>

EndTick ==
    /\ pc = "buying"
    /\ rows = {} \/ ~WithinBudget
    /\ Finish
    /\ UNCHANGED faults

(* The result stream breaks: the loop ends as if there were no more rows.  *)
StreamBreaks ==
    /\ pc = "buying" /\ rows # {} /\ WithinBudget
    /\ Fault
    /\ Finish

-----------------------------------------------------------------------------
Crash ==
    /\ pc # "down"
    /\ Fault
    /\ pc' = "down"
    /\ rows' = {} /\ seen' = Nothing
    /\ UNCHANGED <<dbVars, cfg, botPrice, snap, purchased, errs, errCount, committed, raced>>

(* The pod is started again: flags and catalog give the initial values.    *)
Restart ==
    /\ pc = "down"
    /\ pc' = "idle"
    /\ cfg' = DefaultConfig /\ snap' = DefaultConfig
    /\ botPrice' = ListPrice
    /\ purchased' = 0 /\ errs' = 0 /\ errCount' = 0 /\ committed' = 0
    /\ UNCHANGED <<dbVars, rows, seen, raced, faults>>

ProcessRow(l) == SkipRow(l) \/ BuyRow(l)

Next ==
    \/ \E l \in Listings :
        \/ PlayerLists(l) \/ PlayerBuys(l) \/ ListingReturned(l)
        \/ SkipRow(l) \/ FailRow(l) \/ BuyRow(l) \/ BuyRowUnacknowledged(l)
    \/ PutConfig \/ Reprice
    \/ StartTick \/ QueryFails \/ EndTick \/ StreamBreaks
    \/ Crash \/ Restart

Spec == Init /\ [][Next]_vars

(* The main loop starts buy ticks for ever, a tick goes on to its end, and *)
(* Kubernetes restarts the pod (restartPolicy: Always).  Players, the      *)
(* operator and failures owe nothing.                                      *)
Fairness ==
    /\ WF_vars(StartTick)
    /\ WF_vars(\E l \in Listings : ProcessRow(l))
    /\ WF_vars(EndTick)
    /\ WF_vars(Restart)

FairSpec == Spec /\ Fairness

-----------------------------------------------------------------------------
(* A seller is paid for a listing at most once, over all ticks, crashes    *)
(* and lost commit answers: the order is deleted in the transaction that   *)
(* pays, and a consumed row never comes back.                              *)
PaidAtMostOnce == \A l \in Listings : receipts[l] <= 1

Settled(l) == sold[l] + returned[l] + paid[l]

(* Once a listing is gone its seller has, in payments and returned goods,  *)
(* at least everything that was listed, whatever the timing.               *)
SellerNeverShort ==
    \A l \in Listings : order[l] = "gone" => Settled(l) >= offer[l].units

(* The payment is exact unless the listing changed between the query and   *)
(* the transaction of one tick: partial fills BEFORE the query, earlier    *)
(* ticks and crashes do not disturb it.                                    *)
PaidExactUnlessRaced ==
    \A l \in Listings \ raced : order[l] = "gone" => Settled(l) = offer[l].units

(* Purchases beyond maxBuys are only those whose commit answer was lost.   *)
BudgetAccounted ==
    pc = "buying" => committed <= snap.maxBuys + errs

(* The coins that the receipts of all listings promise their sellers.      *)
Promised == UNION {{l} \X (1 .. offer[l].price * paid[l]) : l \in Listings}

(* The bot's balance is what its receipts say it spent.                    *)
BooksBalance == balance = -Cardinality(Promised)

(* Seen from the sellers, ticks, transactions, lost answers and crashes    *)
(* come to single purchases as Settlement has them: once per listing, all  *)
(* that is left, paid for in full and never beyond what was listed.        *)
Deal == INSTANCE Settlement WITH
    units <- [l \in Listings |-> offer[l].units],
    left <- stack

SettlesOnce == Deal!Spec

(* A tick comes to its end, whatever the rows and the failures.            *)
TickEnds == pc = "buying" ~> pc # "buying"

(* A listing that stays open and stays acceptable under the live           *)
(* configuration and prices is not overlooked for ever.                    *)
Underpriced(l) ==
    /\ order[l] = "open"
    /\ cfg.maxBuys > 0
    /\ botPrice[offer[l].tmpl] > 0 /\ offer[l].tmpl \notin NotBuyable
    /\ offer[l].price * 100 <=
         GradedPrice(botPrice[offer[l].tmpl], offer[l].grade, cfg.gradeMult) * cfg.threshold

UnderpricedIsBought == \A l \in Listings : ~<>[]Underpriced(l)

-----------------------------------------------------------------------------
(* What the repository says and the code does not do.                      *)

(* src/exchange.go:386: "Use actual current stack_size from items so       *)
(* partial fills pay the right amount."                                    *)
PartialFillsPayExactly ==
    \A l \in Listings : order[l] = "gone" => Settled(l) = offer[l].units
=============================================================================
