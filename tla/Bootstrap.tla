------------------------------ MODULE Bootstrap ------------------------------
(***************************************************************************)
(* Init and initBotUser of src/exchange.go: what a process does with the   *)
(* database before its first tick.  It picks an exchange, finds or inserts *)
(* the actor that stands for the bot, tops its balance up, and takes the   *)
(* position of its first item from the highest one there is.  None of this *)
(* is one transaction, two of the queries drop their error, and `-report`  *)
(* makes a second process do the same beside the bot.                      *)
(***************************************************************************)
EXTENDS Integers, FiniteSets, FiniteSetsExt, BagsExt

CONSTANTS
    Pod,          \* the process Kubernetes keeps alive, one at a time
    Reports,      \* invocations with -report
    Exchanges,    \* exchanges that are not 'Global'
    First,        \* the one with the lowest id
    SeedFloor,    \* a lower balance is topped up ...
    SeedAmount,   \* ... to this one
    Price,        \* of what the bot buys
    MaxFaults,    \* bound: failed queries, lost answers, crashes
    MaxSpent,     \* bound: spending in a lifetime
    MaxEarned,    \* bound: payments to the bot
    MaxPos        \* bound: positions

Procs == {Pod} \cup Reports

ASSUME ConstantsAssumption ==
    /\ Pod \notin Reports /\ IsFiniteSet(Reports)
    /\ First \in Exchanges
    /\ SeedFloor \in Nat /\ SeedAmount \in Nat /\ SeedFloor <= SeedAmount /\ Price \in Nat
    /\ MaxFaults \in Nat /\ MaxSpent \in Nat /\ MaxEarned \in Nat /\ MaxPos \in Nat

VARIABLES
    (* the database *)
    actors,       \* number of actors of class 'Revy', their ids 1 .. actors
    balance,      \* of each of them; 0 until it is credited
    items,        \* bag of the bot's items: owner, exchange, position
    trading,      \* exchanges with orders that are not the bot's listings
    playersTop,   \* highest position of a player's item, -1 for none
    (* the processes *)
    pc,
    exchange,     \* exchangeID
    owner,        \* ownerID, 0 before it is known
    seen,         \* currentBalance
    nextPos,
    (* the past *)
    faults,       \* how many there have been
    misreads,     \* of these, balances read as 0
    miscounts,    \* of these, position counters left at 0
    spent,        \* by the pod in this lifetime
    debt,         \* the furthest a balance has been below nothing
    earned,       \* by the bot, ever
    overlaps      \* starts of a process while another was in Init

database  == <<actors, balance, items>>
players   == <<trading, playersTop>>
processes == <<pc, exchange, owner, seen, nextPos>>
past      == <<misreads, miscounts, debt, earned, overlaps>>
vars      == <<database, players, processes, past, spent, faults>>

Steps == {"down", "exchange", "actor", "insert", "fund", "seed", "position", "ready", "ended"}

(* No process inserts more than one actor, the pod in however many lives.  *)
Ids == 1 .. Cardinality(Procs)

Actors == 1 .. actors

TypeOK ==
    /\ actors \in 0 .. Cardinality(Procs)
    /\ balance \in [Ids -> Int]
    /\ items \in [DOMAIN items -> Nat \ {0}]
    /\ DOMAIN items \subseteq [owner : Actors, at : Exchanges, pos : 0 .. MaxPos - 1]
    /\ trading \subseteq Exchanges
    /\ playersTop \in [Exchanges -> -1 .. MaxPos - 1]
    /\ pc \in [Procs -> Steps]
    /\ exchange \in [Procs -> Exchanges]
    /\ owner \in [Procs -> {0} \cup Actors]
    /\ seen \in [Procs -> Int]
    /\ nextPos \in [Procs -> 0 .. MaxPos]
    /\ faults \in 0 .. MaxFaults
    /\ misreads + miscounts <= faults
    /\ spent \in 0 .. MaxSpent /\ earned \in 0 .. MaxEarned
    /\ debt \in Nat /\ overlaps \in Nat

Init ==
    /\ actors = 0 /\ items = [i \in {} |-> 0]
    /\ balance = [a \in Ids |-> 0]
    /\ trading = {} /\ playersTop = [x \in Exchanges |-> -1]
    /\ pc = [p \in Procs |-> "down"]
    /\ exchange = [p \in Procs |-> First]
    /\ owner = [p \in Procs |-> 0]
    /\ seen = [p \in Procs |-> 0]
    /\ nextPos = [p \in Procs |-> 0]
    /\ faults = 0 /\ misreads = 0 /\ miscounts = 0
    /\ spent = 0 /\ debt = 0 /\ earned = 0 /\ overlaps = 0

At(p, step) == pc[p] = step
Go(p, step) == pc' = [pc EXCEPT ![p] = step]

Booting(p) == pc[p] \notin {"down", "ready", "ended"}

Fault == faults < MaxFaults /\ faults' = faults + 1

(* The end of a process: nothing of it is left.  Nobody restarts a report. *)
Exit(p) ==
    /\ Go(p, IF p = Pod THEN "down" ELSE "ended")
    /\ exchange' = [exchange EXCEPT ![p] = First]
    /\ owner' = [owner EXCEPT ![p] = 0]
    /\ seen' = [seen EXCEPT ![p] = 0]
    /\ nextPos' = [nextPos EXCEPT ![p] = 0]
    /\ spent' = IF p = Pod THEN 0 ELSE spent

-----------------------------------------------------------------------------
(* The pod starts whenever it is down, -report when somebody runs it.      *)
Start(p) ==
    /\ At(p, "down")
    /\ Go(p, "exchange")
    /\ overlaps' = IF \E q \in Procs : Booting(q) THEN overlaps + 1 ELSE overlaps
    /\ UNCHANGED <<database, players, exchange, owner, seen, nextPos, misreads,
                   miscounts, debt, spent, earned, faults>>

OfOrders == trading

Detectable == IF trading = {} THEN {First} ELSE trading

DetectExchange(p) == \E x \in Detectable :
    /\ At(p, "exchange")
    /\ exchange' = [exchange EXCEPT ![p] = x]
    /\ Go(p, "actor")
    /\ UNCHANGED <<database, players, owner, seen, nextPos, past, spent, faults>>

(* Whatever the error, it is taken for there being no order.               *)
DetectFails(p) ==
    /\ At(p, "exchange") /\ Fault
    /\ exchange' = [exchange EXCEPT ![p] = First]
    /\ Go(p, "actor")
    /\ UNCHANGED <<database, players, owner, seen, nextPos, past, spent>>

FindActor(p) == \E a \in Actors :
    /\ At(p, "actor")
    /\ owner' = [owner EXCEPT ![p] = a]
    /\ Go(p, "fund")
    /\ UNCHANGED <<database, players, exchange, seen, nextPos, past, spent, faults>>

(* Any other error of the look-up ends the process.                        *)
NoRowsOrError == actors = 0 \/ faults < MaxFaults

(* The same for as long as there are ids.                                  *)
NoRowsOrErrorOnce ==
    NoRowsOrError /\ actors + Cardinality({p \in Procs : At(p, "insert")}) < Cardinality(Procs)

NoRows == actors = 0

ActorMissing(p) ==
    /\ At(p, "actor") /\ NoRows
    /\ Go(p, "insert")
    /\ UNCHANGED <<database, players, exchange, owner, seen, nextPos, past, spent, faults>>

InsertActor(p) ==
    /\ At(p, "insert")
    /\ actors' = actors + 1
    /\ owner' = [owner EXCEPT ![p] = actors + 1]
    /\ Go(p, "fund")
    /\ UNCHANGED <<balance, items, players, exchange, seen, nextPos, past, spent, faults>>

InsertUnacknowledged(p) ==
    /\ At(p, "insert") /\ Fault
    /\ actors' = actors + 1
    /\ Exit(p)
    /\ UNCHANGED <<balance, items, players, past>>

ReadBalance(p) ==
    /\ At(p, "fund")
    /\ seen' = [seen EXCEPT ![p] = balance[owner[p]]]
    /\ Go(p, "seed")
    /\ UNCHANGED <<database, players, exchange, owner, nextPos, past, spent, faults>>

(* The error is dropped and the balance stays 0.                           *)
MisreadBalance(p) ==
    /\ At(p, "fund") /\ Fault
    /\ misreads' = misreads + 1
    /\ Go(p, "seed")
    /\ UNCHANGED <<database, players, exchange, owner, seen, nextPos,
                   miscounts, spent, debt, earned, overlaps>>

OnlyWhenEmpty(p) == seen[p] = 0

BelowFloor(p) == seen[p] < SeedFloor

WholeAmount(p) == SeedAmount

TopUp(p) == SeedAmount - seen[p]

Credited(p) == balance' = [balance EXCEPT ![owner[p]] = @ + TopUp(p)]

Seed(p) ==
    /\ At(p, "seed")
    /\ IF BelowFloor(p) THEN Credited(p) ELSE UNCHANGED balance
    /\ seen' = [seen EXCEPT ![p] = 0]
    /\ Go(p, "position")
    /\ UNCHANGED <<actors, items, players, exchange, owner, nextPos, past, spent, faults>>

SeedUnacknowledged(p) ==
    /\ At(p, "seed") /\ BelowFloor(p) /\ Fault
    /\ Credited(p)
    /\ Exit(p)
    /\ UNCHANGED <<actors, items, players, past>>

BotPositions(x) == {i.pos : i \in {j \in DOMAIN items : j.at = x}}

AfterCount(x) == Cardinality(BotPositions(x))

AfterHighest(x) == Max({playersTop[x]} \cup BotPositions(x)) + 1

ReadPosition(p) ==
    /\ At(p, "position")
    /\ nextPos' = [nextPos EXCEPT ![p] = AfterHighest(exchange[p])]
    /\ Go(p, "ready")
    /\ UNCHANGED <<database, players, exchange, owner, seen, past, spent, faults>>

(* The error is dropped and the counter stays 0.                           *)
MisreadPosition(p) ==
    /\ At(p, "position") /\ Fault
    /\ miscounts' = miscounts + 1
    /\ Go(p, "ready")
    /\ UNCHANGED <<database, players, exchange, owner, seen, nextPos,
                   misreads, spent, debt, earned, overlaps>>

(* Every other error in Init, and a crash at any time.                     *)
Dies(p) ==
    /\ Booting(p) \/ At(p, "ready")
    /\ Fault
    /\ Exit(p)
    /\ UNCHANGED <<database, players, past>>

Boot(p) ==
    \/ DetectExchange(p) \/ DetectFails(p)
    \/ FindActor(p) \/ ActorMissing(p) \/ InsertActor(p) \/ InsertUnacknowledged(p)
    \/ ReadBalance(p) \/ MisreadBalance(p) \/ Seed(p) \/ SeedUnacknowledged(p)
    \/ ReadPosition(p) \/ MisreadPosition(p)

-----------------------------------------------------------------------------
(* What the ticks of the pod do to the same rows.                          *)
ListItem ==
    /\ At(Pod, "ready") /\ nextPos[Pod] < MaxPos
    /\ items' = BagAdd(items, [owner |-> owner[Pod], at |-> exchange[Pod],
                               pos |-> nextPos[Pod]])
    /\ nextPos' = [nextPos EXCEPT ![Pod] = @ + 1]
    /\ UNCHANGED <<actors, balance, players, pc, exchange, owner, seen, past, spent, faults>>

(* The counter is not set back with the transaction.                       *)
RollBackItem ==
    /\ At(Pod, "ready") /\ nextPos[Pod] < MaxPos
    /\ nextPos' = [nextPos EXCEPT ![Pod] = @ + 1]
    /\ UNCHANGED <<database, players, pc, exchange, owner, seen, past, spent, faults>>

Spend ==
    /\ At(Pod, "ready") /\ spent + Price <= MaxSpent
    /\ balance' = [balance EXCEPT ![owner[Pod]] = @ - Price]
    /\ spent' = spent + Price
    /\ debt' = Max({debt, Price - balance[owner[Pod]]})
    /\ UNCHANGED <<actors, items, players, processes, misreads, miscounts,
                   earned, overlaps, faults>>

ReportEnds(p) ==
    /\ p \in Reports /\ At(p, "ready")
    /\ Exit(p)
    /\ UNCHANGED <<database, players, past, faults>>

-----------------------------------------------------------------------------
(* The game: an item of the bot leaves, the bot is paid, another player's  *)
(* order comes or goes, with or without an item.                           *)
ItemLeaves == \E i \in DOMAIN items :
    /\ items' = BagRemove(items, i)
    /\ UNCHANGED <<actors, balance, players, processes, past, spent, faults>>

BotIsPaid == \E a \in Actors :
    /\ earned < MaxEarned
    /\ balance' = [balance EXCEPT ![a] = @ + 1]
    /\ earned' = earned + 1
    /\ UNCHANGED <<actors, items, players, processes, misreads, miscounts,
                   spent, debt, overlaps, faults>>

PlayersTrade == \E x \in Exchanges, top \in -1 .. MaxPos - 1 :
    /\ trading' = trading \cup {x} \/ (trading' = trading \ {x} /\ top = -1)
    /\ playersTop' = [playersTop EXCEPT ![x] = top]
    /\ UNCHANGED <<database, processes, past, spent, faults>>

-----------------------------------------------------------------------------
Next ==
    \/ \E p \in Procs : Start(p) \/ Boot(p) \/ Dies(p) \/ ReportEnds(p)
    \/ ListItem \/ RollBackItem \/ Spend
    \/ ItemLeaves \/ BotIsPaid \/ PlayersTrade

Spec == Init /\ [][Next]_vars

(* Kubernetes restarts the pod, and its queries come back.                 *)
FairSpec == Spec /\ WF_vars(Start(Pod)) /\ WF_vars(Boot(Pod))

-----------------------------------------------------------------------------
(* Whatever failed before, the running bot works under the actor that owns *)
(* every item it ever listed, so that none of its stock is beyond its      *)
(* ticks: as long as no process was started while another was in Init, for *)
(* two that look an actor up at the same time may both insert one.         *)
StockIsOwned ==
    At(Pod, "ready") /\ overlaps = 0 => \A i \in DOMAIN items : i.owner = owner[Pod]

(* What the bot may have beyond what it earned, whatever failed, crashed   *)
(* or ran at the same time (lines 268 to 287): the seed amount once, once  *)
(* more for each balance that was not read, and once more, with the debt   *)
(* it makes up for, for each start of a process while another was in Init: *)
(* -report and the bot may both read the low balance and both credit it.   *)
Allowed == SeedAmount * (1 + misreads + overlaps) + overlaps * debt + earned

NotOverfunded == \A a \in Actors : balance[a] <= Allowed

(* If every balance was read, the bot starts with the floor: all it lacks  *)
(* of that it has spent since.  After a failed query, whose error line 271 *)
(* drops, it may start with less: a balance below zero is then credited as *)
(* if it were 0.                                                           *)
FundedWhenReady ==
    At(Pod, "ready") /\ misreads = 0 => balance[owner[Pod]] >= SeedFloor - spent

(* The bot's items at a position, the copies of equal rows numbered.       *)
CopiesAt(x, n) ==
    UNION {{i} \X (1 .. items[i]) : i \in {j \in DOMAIN items : j.at = x /\ j.pos = n}}

(* No two of the bot's items share a position in an exchange, but for one  *)
(* more at each position for every position counter that was not read.     *)
PositionsShared ==
    \A i \in DOMAIN items : Cardinality(CopiesAt(i.at, i.pos)) <= 1 + miscounts

(* Once failures cease the bot gets to its first tick.                     *)
EventuallyReady == At(Pod, "down") ~> At(Pod, "ready")
=============================================================================
