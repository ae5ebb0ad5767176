------------------------------ MODULE ListSide ------------------------------
(***************************************************************************)
(* The listing half of the bot: ListTick and createListingsBatch of        *)
(* src/exchange.go.                                                        *)
(*                                                                         *)
(* A tick reads the bot's own orders JOINed with their items, plans from   *)
(* that one reading what to prune, what to refill and what to create, and  *)
(* carries the plan out in separate statements: delete stale orders,       *)
(* delete their items, refill depleted stacks, insert new listings in      *)
(* batches.  Each statement may fail, most failures are ignored, the       *)
(* process may die between any two, and players buy from the listings, the *)
(* exchange removes some and a deployment wipes all at the same time.      *)
(*                                                                         *)
(* An order and the item it offers are two database rows that the bot      *)
(* creates together; here they share an id.  The next load must find both. *)
(***************************************************************************)
EXTENDS Integers, FiniteSets, FiniteSetsExt, Functions

CONSTANTS
    Ids,           \* database ids of the bot's listings
    Keys,          \* gradeKey: the (template, grade) pairs the catalog lists
    Prices,        \* listing prices
    StackMax,      \* StackMax[k]: units of a full stack
    Quotas,        \* values of listings_per_grade
    DefaultQuota,
    BatchSize,     \* listings per transaction (100 in the code)
    MaxFaults,     \* how many failures and crashes a behaviour may contain
    MaxEvents      \* how many outside changes a behaviour may contain

ASSUME ConstantsAssumption ==
    /\ IsFiniteSet(Keys)
    /\ Prices \subseteq Nat \ {0}
    /\ StackMax \in [Keys -> Nat \ {0}]
    /\ Quotas \subseteq Nat \ {0}
    /\ DefaultQuota \in Quotas
    /\ BatchSize \in Nat \ {0}
    /\ MaxFaults \in Nat
    /\ MaxEvents \in Nat

VARIABLES
    \* the exchange database
    orders,     \* ids with a row in dune_exchange_orders
    items,      \* ids with a row in dune.items
    row,        \* their columns: [key, price, stack]
    \* the bot process
    pc,         \* "down", "idle", "orders", "items", "refill" or "insert"
    quota,      \* the live listings_per_grade
    target,     \* the price each key should be listed at
    snapQuota,  \* listings_per_grade in the snapshot of the running tick
    stale,      \* staleOrderIDs and staleItemIDs
    topUps,     \* items to refill
    pending,    \* listings to create: <<key, n>> for the n-th of the key
    errs,       \* the counter of the running tick
    errCount,   \* e.errCount
    \* observed, not part of the program
    calm,       \* nothing failed or interfered since the last tick's load
    faults, events

dbVars    == <<orders, items, row>>
planVars  == <<snapQuota, stale, topUps, pending, errs>>
countVars == <<calm, faults, events>>
vars      == <<dbVars, pc, quota, target, planVars, errCount, countVars>>

NoRow == [key |-> "none"]
Rows == UNION {[key : {k}, price : Prices, stack : 1 .. StackMax[k]] : k \in Keys}

TypeOK ==
    /\ orders \subseteq Ids /\ items \subseteq Ids
    /\ row \in [Ids -> Rows \cup {NoRow}]
    /\ \A i \in orders \cup items : row[i] \in Rows
    /\ pc \in {"down", "idle", "orders", "items", "refill", "insert"}
    /\ quota \in Quotas /\ snapQuota \in Quotas
    /\ target \in [Keys -> Prices]
    /\ stale \subseteq Ids /\ topUps \subseteq Ids
    /\ pending \subseteq Keys \X (Nat \ {0})
    /\ errs \in Nat /\ errCount \in Nat
    /\ calm \in BOOLEAN
    /\ faults \in 0 .. MaxFaults /\ events \in 0 .. MaxEvents

Init ==
    /\ orders = {} /\ items = {} /\ row = [i \in Ids |-> NoRow]
    /\ pc = "down"
    /\ quota = DefaultQuota /\ snapQuota = DefaultQuota
    /\ target \in [Keys -> Prices]
    /\ stale = {} /\ topUps = {} /\ pending = {}
    /\ errs = 0 /\ errCount = 0
    /\ calm = FALSE /\ faults = 0 /\ events = 0

(* An operation of the bot fails.                                          *)
Fails ==
    /\ faults < MaxFaults
    /\ faults' = faults + 1
    /\ calm' = FALSE
    /\ UNCHANGED events

(* Somebody else changes the database.                                     *)
Happens ==
    /\ events < MaxEvents
    /\ events' = events + 1
    /\ calm' = FALSE
    /\ UNCHANGED faults

Remaining(newOrders, newItems) ==
    [i \in Ids |-> IF i \in newOrders \cup newItems THEN row[i] ELSE NoRow]

-----------------------------------------------------------------------------
(* Players, the exchange, the deployment script and the operator.          *)

Listed == orders \cap items
ListedFor(k) == {i \in Listed : row[i].key = k}

PlayerBuysPart(i) ==
    /\ Happens
    /\ i \in Listed
    /\ \E n \in 1 .. row[i].stack - 1 : row' = [row EXCEPT ![i].stack = @ - n]
    /\ UNCHANGED <<orders, items, pc, quota, target, planVars, errCount>>

(* Sold out, or removed by the exchange.                                   *)
ListingLeaves(i) ==
    /\ Happens
    /\ i \in orders
    /\ orders' = orders \ {i} /\ items' = items \ {i}
    /\ row' = Remaining(orders', items')
    /\ UNCHANGED <<pc, quota, target, planVars, errCount>>

(* The deployment script deletes the bot's orders and the items they       *)
(* reference in one statement, while the old process still runs.           *)
DeployWipes ==
    /\ Happens
    /\ orders # {}
    /\ orders' = {} /\ items' = items \ orders
    /\ row' = Remaining(orders', items')
    /\ UNCHANGED <<pc, quota, target, planVars, errCount>>

(* PUT /config with another listings_per_grade.                            *)
PutQuota ==
    /\ events < MaxEvents /\ events' = events + 1
    /\ pc # "down"
    /\ \E q \in Quotas \ {quota} : quota' = q
    /\ UNCHANGED <<dbVars, pc, target, planVars, errCount, calm, faults>>

-----------------------------------------------------------------------------
(* The list tick.                                                          *)

DriftedUpOnly(i) == row[i].price > target'[row[i].key]

DriftedOrDepleted(i) ==
    row[i].price # target'[row[i].key] \/ row[i].stack < StackMax[row[i].key]

Drifted(i) == row[i].price # target'[row[i].key]

Depleted(i) == row[i].stack < StackMax[row[i].key]

MissingOneMore(k, L) ==
    LET valid == {i \in L : row[i].key = k /\ ~Drifted(i)}
    IN  {<<k, n>> : n \in Cardinality(valid) + 1 .. quota + 1}

(* The plan for the listings L the load returned.                          *)
Missing(k, L) ==
    LET valid == {i \in L : row[i].key = k /\ ~Drifted(i)}
    IN  {<<k, n>> : n \in Cardinality(valid) + 1 .. quota}

Plan(L) ==
    /\ pc = "idle"
    /\ target' \in [Keys -> Prices]
    /\ stale' = {i \in L : Drifted(i)}
    /\ topUps' = {i \in L : ~Drifted(i) /\ Depleted(i)}
    /\ pending' = UNION {Missing(k, L) : k \in Keys}
    /\ snapQuota' = quota /\ errs' = 0
    /\ pc' = "orders"
    /\ UNCHANGED <<dbVars, quota, errCount>>

StartTick ==
    /\ Plan(Listed)
    /\ calm' = TRUE
    /\ UNCHANGED <<faults, events>>

(* A row that does not scan is left out; a stream that breaks ends early.  *)
LoadTruncated ==
    /\ \E L \in SUBSET Listed : L # Listed /\ Plan(L)
    /\ Fails

(* The load query fails: prices have moved, nothing else happens.          *)
LoadFails ==
    /\ pc = "idle"
    /\ target' \in [Keys -> Prices]
    /\ Fails
    /\ UNCHANGED <<dbVars, pc, quota, planVars, errCount>>

(* A statement that does nothing because it failed; the error is dropped.  *)
StatementIgnored(from, to, ids) ==
    /\ pc = from /\ pc' = to
    /\ ids # {}
    /\ Fails
    /\ UNCHANGED <<dbVars, quota, target, planVars, errCount>>

StatementDone(from, to) ==
    /\ pc = from /\ pc' = to
    /\ UNCHANGED <<quota, target, planVars, errCount, countVars>>

PruneOrders ==
    /\ StatementDone("orders", "items")
    /\ orders' = orders \ stale
    /\ row' = Remaining(orders', items)
    /\ UNCHANGED items

PruneOrdersFails == StatementIgnored("orders", "items", stale)

PruneItemsForgotten ==
    /\ StatementDone("items", "refill")
    /\ UNCHANGED dbVars

PruneItems ==
    /\ StatementDone("items", "refill")
    /\ items' = items \ stale
    /\ row' = Remaining(orders, items')
    /\ UNCHANGED orders

PruneItemsFails == StatementIgnored("items", "refill", stale)

FullStackAdded(i) == row[i].stack + StackMax[row[i].key]

FullStack(i) == StackMax[row[i].key]

(* Items that left since the load are not touched by the UPDATE.           *)
Refill ==
    /\ StatementDone("refill", "insert")
    /\ row' = [i \in Ids |-> IF i \in topUps \cap items
                             THEN [row[i] EXCEPT !.stack = FullStack(i)]
                             ELSE row[i]]
    /\ UNCHANGED <<orders, items>>

RefillFails == StatementIgnored("refill", "insert", topUps)

(* The next transaction takes up to BatchSize of the pending listings.     *)
IsBatch(B) ==
    /\ pending # {}
    /\ B \subseteq pending
    /\ Cardinality(B) = IF Cardinality(pending) < BatchSize
                        THEN Cardinality(pending) ELSE BatchSize

AfterBatchNotTaken(B) ==
    /\ pc = "insert"
    /\ UNCHANGED <<pc, quota, target, snapQuota, stale, topUps, pending, errCount>>

AfterBatch(B) ==
    /\ pc = "insert"
    /\ pending' = pending \ B
    /\ UNCHANGED <<pc, quota, target, snapQuota, stale, topUps, errCount>>

FreshRow(k) == [key |-> k, price |-> target[k], stack |-> StackMax[k]]

NewIds(B, id) == {id[p] : p \in B}

(* Each listing p of the batch gets an order and an item, both id[p].      *)
InsertAs(B, id) ==
    /\ orders' = orders \cup NewIds(B, id)
    /\ items' = items \cup NewIds(B, id)
    /\ row' = [i \in Ids |-> IF i \in NewIds(B, id)
                             THEN FreshRow((CHOOSE p \in B : id[p] = i)[1])
                             ELSE row[i]]

InsertBatch == \E B \in SUBSET pending :
    /\ IsBatch(B)
    /\ AfterBatch(B)
    /\ \E id \in Injection(B, Ids \ (orders \cup items)) : InsertAs(B, id)
    /\ UNCHANGED <<errs, countVars>>

(* BEGIN fails and counts every listing of the batch; a statement fails    *)
(* and counts once; COMMIT fails and is not looked at.                     *)
BatchFails == \E B \in SUBSET pending :
    /\ IsBatch(B)
    /\ AfterBatch(B)
    /\ Fails
    /\ errs' \in {errs + Cardinality(B), errs + 1, errs}
    /\ UNCHANGED dbVars

Finish ==
    /\ pc = "insert" /\ pending = {}
    /\ pc' = "idle"
    /\ errCount' = errCount + errs
    /\ stale' = {} /\ topUps' = {}
    /\ UNCHANGED <<dbVars, quota, target, snapQuota, pending, errs, countVars>>

-----------------------------------------------------------------------------
Crash ==
    /\ pc # "down"
    /\ faults < MaxFaults /\ faults' = faults + 1
    /\ pc' = "down" /\ calm' = FALSE
    /\ stale' = {} /\ topUps' = {} /\ pending' = {}
    /\ UNCHANGED <<dbVars, quota, target, snapQuota, errs, errCount, events>>

Restart ==
    /\ pc = "down"
    /\ pc' = "idle"
    /\ quota' = DefaultQuota
    /\ errs' = 0 /\ errCount' = 0
    /\ UNCHANGED <<dbVars, target, snapQuota, stale, topUps, pending, calm, faults, events>>

Statement == PruneOrders \/ PruneItems \/ Refill \/ InsertBatch \/ Finish

Next ==
    \/ \E i \in Ids : PlayerBuysPart(i) \/ ListingLeaves(i)
    \/ DeployWipes \/ PutQuota
    \/ StartTick \/ LoadTruncated \/ LoadFails
    \/ PruneOrders \/ PruneOrdersFails
    \/ PruneItems \/ PruneItemsFails
    \/ Refill \/ RefillFails
    \/ InsertBatch \/ BatchFails \/ Finish
    \/ Crash \/ Restart

Spec == Init /\ [][Next]_vars

(* List ticks recur, a tick goes on to its end, and Kubernetes restarts    *)
(* the pod.                                                                *)
Fairness == WF_vars(StartTick) /\ WF_vars(Statement) /\ WF_vars(Restart)

FairSpec == Spec /\ Fairness

-----------------------------------------------------------------------------
Stocked(k) ==
    /\ Cardinality(ListedFor(k)) >= snapQuota
    /\ \A i \in ListedFor(k) : row[i].price = target[k] /\ row[i].stack = StackMax[k]

(* After a tick nobody disturbed, whatever state earlier failures, crashes *)
(* and wipes left the database in, every key has its quota of full stacks  *)
(* and nothing of it is listed at any other price.                         *)
CleanTickRestocks == pc = "idle" /\ calm => \A k \in Keys : Stocked(k)

(* Each faulty tick (truncated load, ignored failure, crash) leaves at     *)
(* most one quota of surplus listings per key.                             *)
SurplusBounded ==
    \A k \in Keys, q \in Quotas :
        (\A p \in Quotas : p <= q)
            => Cardinality({i \in orders : row[i].key = k}) <= q * (1 + faults)

(* Without failures an order always has its item, and an item loses its    *)
(* order only between the two deletes of one tick: players, removals and   *)
(* wipes at any moment of a tick leave nothing behind.                     *)
NoOrphansWithoutFaults ==
    faults = 0 =>
        /\ orders \subseteq items
        /\ items \ orders \subseteq IF pc = "items" THEN stale ELSE {}

(* The bot deletes an order only if its price is not the target.           *)
OnlyStalePruned ==
    [][PruneOrders => \A i \in orders \ orders' : row[i].price # target[row[i].key]]_vars

(* A tick comes to its end.                                                *)
TickEnds == (pc \notin {"idle", "down"}) ~> (pc \in {"idle", "down"})

(* When failures and outside changes cease, every key ends up stocked      *)
(* after every tick, at whatever prices the ticks choose.                  *)
EventuallyStocked == <>[](pc = "idle" => \A k \in Keys : Stocked(k))
=============================================================================
