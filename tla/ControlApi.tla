----------------------------- MODULE ControlApi -----------------------------
(***************************************************************************)
(* What the HTTP handlers of src/api.go share with the goroutine that runs *)
(* the ticks: the configuration of src/config.go behind its RWMutex, the   *)
(* atomic counters GET /status shows, and the map of prices GET /report    *)
(* reads without a lock.                                                   *)
(*                                                                         *)
(* Apply checks a patch key by key, in the random order of a map, on a     *)
(* copy; Snapshot and MarshalJSON copy field by field.  A tick stores its  *)
(* counters one by one, and the status handler loads them one by one.  The *)
(* runtime aborts the process if it catches a read of the price map during *)
(* a write.                                                                *)
(***************************************************************************)
EXTENDS Integers

CONSTANTS
    Operators,   \* connections that send PUT and GET /config
    Viewers,     \* connections that send GET /status and GET /report
    Bot,         \* the goroutine of the main loop
    Default,     \* the configuration a process starts with, keys to numbers
    Values,      \* values a patch may carry, Malformed among them
    Patches,     \* bodies of PUT /config: some keys, known or not, to values
    MaxTicks     \* bound: list ticks that get as far as storing their time

Clients == Operators \cup Viewers

Callers == Clients \cup {Bot}

Keys == DOMAIN Default

(* The least value each check accepts: minutes, percent, counts; enabled   *)
(* and disabled_items have no check beyond their type.                     *)
Least ==
    [buy_interval |-> 1, list_interval |-> 1, buy_threshold |-> 0, max_buys |-> 0,
     listings_per_grade |-> 1, enabled |-> 0, disabled_items |-> 0,
     grade_multipliers |-> 1, rarity_multipliers |-> 1, vendor_multipliers |-> 1]

(* Stands for every value that does not parse, and every negative one.     *)
Malformed == -1

Nobody == "nobody"

ASSUME ConstantsAssumption ==
    /\ Bot \notin Clients /\ Nobody \notin Callers
    /\ Keys \subseteq DOMAIN Least
    /\ Default \in [Keys -> Int]
    /\ Values \subseteq Nat \cup {Malformed}
    /\ \A p \in Patches : \A k \in DOMAIN p : p[k] \in Values
    /\ MaxTicks \in Nat

VARIABLES
    config,     \* Config.config
    writer,     \* who has announced or holds the write lock, or Nobody
    readers,    \* who holds read locks
    pc,         \* where each caller is
    request,    \* what each caller asks of the configuration
    todo,       \* keys of the patch, or of the copy, still to be visited
    copy,       \* next of Apply, snap of Snapshot
    reply,      \* what each caller was told last
    kind,       \* the kind of the running tick, "buy" or "list"
    counters,   \* what /status shows, as the number of the list tick it is from
    shown       \* what the status handler has loaded so far

lockVars   == <<writer, readers, todo, copy>>
configVars == <<config, request, reply>>
statusVars == <<kind, counters, shown>>
vars       == <<lockVars, configVars, statusVars, pc>>

(* lastListNano, listingCount and solariBalance, in the order in which the *)
(* status handler loads them; 0 is "never", Failed the 0 that a query that *)
(* fails leaves.  Numbered are the list ticks that store lastListNano.     *)
(* The other two, lastBuyNano and errCount, are related to none of these.  *)
Counters == {"list", "count", "balance"}
Failed == -1
Unset == [x \in Counters |-> 0]
Unfilled == [k \in Keys |-> Malformed]

ClientSteps ==
    {"idle", "put", "locking", "applying", "get", "blocked", "reading",
     "report", "answer", "down"} \cup Counters
BotSteps ==
    {"idle", "get", "blocked", "reading", "buying", "pricing", "listing",
     "listed", "refreshed", "down"}

TypeOK ==
    /\ config \in [Keys -> Int]
    /\ writer \in Callers \cup {Nobody}
    /\ readers \subseteq Callers
    /\ \A c \in Clients : pc[c] \in ClientSteps
    /\ pc[Bot] \in BotSteps
    /\ copy \in [Callers -> [Keys -> Int]]
    /\ DOMAIN todo = Callers /\ DOMAIN request = Callers /\ DOMAIN reply = Callers
    /\ kind \in {"buy", "list"}
    /\ counters \in [Counters -> Failed .. MaxTicks]
    /\ shown \in [Clients -> [Counters -> Failed .. MaxTicks]]

Init ==
    /\ config = Default
    /\ writer = Nobody /\ readers = {}
    /\ request = [c \in Callers |-> <<>>]
    /\ todo = [c \in Callers |-> {}]
    /\ copy = [c \in Callers |-> Unfilled]
    /\ kind = "buy"
    /\ counters = Unset /\ shown = [c \in Clients |-> Unset]
    /\ pc = [c \in Callers |-> "idle"]
    /\ reply = [c \in Callers |-> <<>>]

At(c, step) == pc[c] = step
Go(c, step) == pc' = [pc EXCEPT ![c] = step]

Answer(c, r) ==
    /\ reply' = [reply EXCEPT ![c] = r]
    /\ request' = [request EXCEPT ![c] = <<>>]

Ask(c, r) ==
    /\ request' = [request EXCEPT ![c] = r]
    /\ reply' = [reply EXCEPT ![c] = <<>>]

-----------------------------------------------------------------------------
(* sync.RWMutex: a writer announces itself and waits for the readers that  *)
(* are in; readers that arrive meanwhile are let in when it unlocks.       *)

Announce(c) ==
    /\ At(c, "put") /\ writer = Nobody
    /\ writer' = c
    /\ Go(c, "locking")
    /\ UNCHANGED <<configVars, readers, todo, copy, statusVars>>

ReadersWait(c) == writer = Nobody

RLock(c) ==
    /\ At(c, "get")
    /\ IF ReadersWait(c) THEN Go(c, "reading") /\ readers' = readers \cup {c}
                         ELSE Go(c, "blocked") /\ UNCHANGED readers
    /\ todo' = [todo EXCEPT ![c] = Keys]
    /\ UNCHANGED <<configVars, writer, copy, statusVars>>

Done(c) == todo' = [todo EXCEPT ![c] = {}] /\ copy' = [copy EXCEPT ![c] = Unfilled]

Blocked == {d \in Callers : At(d, "blocked")}

Unlock(c) ==
    /\ writer' = Nobody
    /\ readers' = Blocked
    /\ pc' = [d \in Callers |-> IF d = c THEN "answer"
                                ELSE IF d \in Blocked THEN "reading" ELSE pc[d]]

-----------------------------------------------------------------------------
(* PUT /config: the body is read before the lock is taken.                 *)
ReceivePut(c) == \E p \in Patches :
    /\ At(c, "idle")
    /\ Ask(c, <<"put", p>>)
    /\ Go(c, "put")
    /\ UNCHANGED <<config, lockVars, statusVars>>

Patch(c) == request[c][2]

Lock(c) ==
    /\ At(c, "locking") /\ readers = {}
    /\ Go(c, "applying")
    /\ todo' = [todo EXCEPT ![c] = DOMAIN Patch(c)]
    /\ copy' = [copy EXCEPT ![c] = config]
    /\ UNCHANGED <<configVars, writer, readers, statusVars>>

AcceptsWellFormed(k, v) == v # Malformed

Accepts(k, v) == v # Malformed /\ v >= Least[k]

(* A key the switch does not know is passed over.                          *)
WithKey(c, k) == [x \in Keys |-> IF x = k THEN Patch(c)[k] ELSE copy[c][x]]

ApplyKey(c) == \E k \in todo[c] :
    /\ At(c, "applying")
    /\ k \in Keys => Accepts(k, Patch(c)[k])
    /\ copy' = [copy EXCEPT ![c] = WithKey(c, k)]
    /\ todo' = [todo EXCEPT ![c] = @ \ {k}]
    /\ UNCHANGED <<configVars, writer, readers, pc, statusVars>>

AfterRejectCommitted(c) == copy[c]

AfterReject(c) == config

RejectKey(c) == \E k \in todo[c] \cap Keys :
    /\ At(c, "applying")
    /\ ~Accepts(k, Patch(c)[k])
    /\ config' = AfterReject(c)
    /\ Unlock(c)
    /\ Answer(c, <<"rejected">>)
    /\ Done(c)
    /\ UNCHANGED <<statusVars>>

Commit(c) ==
    /\ At(c, "applying") /\ todo[c] = {}
    /\ config' = copy[c]
    /\ Unlock(c)
    /\ Answer(c, <<"ok">>)
    /\ Done(c)
    /\ UNCHANGED <<statusVars>>

-----------------------------------------------------------------------------
(* GET /config (MarshalJSON), and Snapshot at the start of a tick.         *)
ReceiveGet(c) ==
    /\ At(c, "idle")
    /\ Ask(c, <<"get">>)
    /\ Go(c, "get")
    /\ UNCHANGED <<config, lockVars, statusVars>>

CopyField(c) == \E k \in todo[c] :
    /\ At(c, "reading")
    /\ copy' = [copy EXCEPT ![c][k] = config[k]]
    /\ todo' = [todo EXCEPT ![c] = @ \ {k}]
    /\ UNCHANGED <<configVars, writer, readers, pc, statusVars>>

ReadersStay(c) == readers

ReadersWithout(c) == readers \ {c}

RUnlock(c) ==
    /\ At(c, "reading") /\ todo[c] = {}
    /\ readers' = ReadersWithout(c)
    /\ Answer(c, <<"config", copy[c]>>)
    /\ Go(c, IF c # Bot THEN "answer" ELSE IF kind = "buy" THEN "buying" ELSE "pricing")
    /\ Done(c)
    /\ UNCHANGED <<config, writer, statusVars>>

-----------------------------------------------------------------------------
(* GET /status and GET /report.                                            *)
ReceiveOther(c) ==
    /\ At(c, "idle")
    /\ Go(c, "list") \/ Go(c, "report")
    /\ UNCHANGED <<configVars, lockVars, statusVars>>

AfterLoad == [list |-> "count", count |-> "balance", balance |-> "answer"]

Load(c) == \E x \in Counters :
    /\ At(c, x)
    /\ shown' = [shown EXCEPT ![c][x] = counters[x]]
    /\ Go(c, AfterLoad[x])
    /\ UNCHANGED <<configVars, lockVars, kind, counters>>

(* reportData looks up a price for every row of its query.                 *)
ReadPrices(c) ==
    /\ At(c, "report")
    /\ Go(c, "answer")
    /\ UNCHANGED <<configVars, lockVars, statusVars>>

Responded(c) ==
    /\ At(c, "answer")
    /\ Go(c, "idle")
    /\ shown' = [shown EXCEPT ![c] = Unset]
    /\ reply' = [reply EXCEPT ![c] = <<>>]
    /\ UNCHANGED <<config, request, lockVars, kind, counters>>

-----------------------------------------------------------------------------
(* The bot's goroutine.  A tick begins with its snapshot.                  *)
StartTick(k) ==
    /\ At(Bot, "idle")
    /\ kind' = k
    /\ Ask(Bot, <<"get">>)
    /\ Go(Bot, "get")
    /\ UNCHANGED <<config, lockVars, counters, shown>>

BotGoes(from, to) ==
    /\ At(Bot, from) /\ Go(Bot, to)
    /\ reply' = IF to = "idle" THEN [reply EXCEPT ![Bot] = <<>>] ELSE reply
    /\ UNCHANGED <<config, request, lockVars, kind, shown>>

Store(x, v) == counters' = [counters EXCEPT ![x] = v]

EndBuyTick == BotGoes("buying", "idle") /\ UNCHANGED counters

(* updatePrices writes the map of prices.                                  *)
WritePrices == BotGoes("pricing", "listing") /\ UNCHANGED counters

(* A list tick that cannot load the listings returns without a trace.      *)
LoadFails == BotGoes("listing", "idle") /\ UNCHANGED counters

StoreList ==
    /\ BotGoes("listing", "listed")
    /\ counters["list"] < MaxTicks
    /\ Store("list", counters["list"] + 1)

(* Balance and count are queried, either may fail, and stored in turn.     *)
CountFirst == <<"count", "balance">>

StoreOrder == <<"balance", "count">>

Refresh(from, to, x) ==
    /\ BotGoes(from, to)
    /\ Store(x, counters["list"]) \/ Store(x, Failed)

StoreFirst  == Refresh("listed", "refreshed", StoreOrder[1])
StoreSecond == Refresh("refreshed", "idle", StoreOrder[2])

-----------------------------------------------------------------------------
(* The end of a process: for any reason, or because the runtime caught the *)
(* report handler reading the price map during a write.                    *)
Die ==
    /\ pc' = [c \in Callers |-> "down"]
    /\ config' = Default
    /\ writer' = Nobody /\ readers' = {}
    /\ request' = [c \in Callers |-> <<>>]
    /\ todo' = [c \in Callers |-> {}]
    /\ copy' = [c \in Callers |-> Unfilled]
    /\ kind' = "buy"
    /\ counters' = Unset /\ shown' = [c \in Clients |-> Unset]
    /\ reply' = [c \in Callers |-> <<>>]

Crash == ~At(Bot, "down") /\ Die

MapRace == At(Bot, "pricing") /\ (\E c \in Clients : At(c, "report")) /\ Die

Restart ==
    /\ At(Bot, "down")
    /\ pc' = [c \in Callers |-> "idle"]
    /\ UNCHANGED <<configVars, lockVars, statusVars>>

-----------------------------------------------------------------------------
Handler(c) ==
    \/ Announce(c) \/ Lock(c) \/ ApplyKey(c) \/ RejectKey(c) \/ Commit(c)
    \/ RLock(c) \/ CopyField(c) \/ RUnlock(c)

BotStep ==
    \/ EndBuyTick \/ WritePrices \/ LoadFails \/ StoreList \/ StoreFirst \/ StoreSecond

Next ==
    \/ \E c \in Operators : ReceivePut(c) \/ ReceiveGet(c)
    \/ \E c \in Viewers : ReceiveOther(c) \/ Load(c) \/ ReadPrices(c)
    \/ \E c \in Clients : Responded(c)
    \/ \E c \in Callers : Handler(c)
    \/ \E k \in {"buy", "list"} : StartTick(k)
    \/ BotStep
    \/ Crash \/ MapRace \/ Restart

Spec == Init /\ [][Next]_vars

(* The goroutines are scheduled, and sync.Mutex hands itself to a writer   *)
(* that has waited too long; a client owes neither a request nor the       *)
(* reading of its answer.                                                  *)
Fairness ==
    /\ \A c \in Operators : SF_vars(Announce(c))
    /\ \A c \in Callers : WF_vars(Handler(c))
    /\ \A c \in Viewers : WF_vars(Load(c) \/ ReadPrices(c))
    /\ WF_vars(BotStep)
    /\ WF_vars(Restart)

FairSpec == Spec /\ Fairness

-----------------------------------------------------------------------------
(* Seen by its callers the configuration is AtomicConfig: a patch goes in  *)
(* as a whole or not at all, whatever the order of its keys, and snapshots *)
(* and answers to GET /config are never mixtures of two configurations.    *)
Register == INSTANCE AtomicConfig WITH
    Accepted <- [k \in Keys |-> {v \in Values : Accepts(k, v)}]

ConfigIsAtomic == Register!Spec

(* A value that no check accepts is one the process was started with.      *)
ConfigIsChecked ==
    \A k \in Keys : config[k] = Default[k] \/ config[k] >= Least[k]

(* Count and balance in an answer to GET /status may be of another list    *)
(* tick than its last_list_tick, but never of one older than the one that  *)
(* stored its time before it, and the balance never older than the count.  *)
StatusIsRecent ==
    \A c \in Clients : At(c, "answer") /\ shown[c]["list"] > 0 =>
        /\ shown[c]["count"] = Failed \/ shown[c]["count"] >= shown[c]["list"] - 1
        /\ shown[c]["balance"] = Failed \/ shown[c]["balance"] >= shown[c]["count"]

(* Every request that has been received is answered and every tick that    *)
(* has begun goes on, however long other clients take to send or read.     *)
AtRest(c) == pc[c] \in {"idle", "answer", "down"}

EveryoneProceeds == \A c \in Callers : ~AtRest(c) ~> AtRest(c)
=============================================================================
