----------------------------- MODULE GameClock -----------------------------
(***************************************************************************)
(* The game clock of src/exchange.go: learnGameEpoch, gameNow, the expiry  *)
(* stamps of both ticks, expireAndPurgeOrders, and the copy of the epoch   *)
(* in the SQLite file that survives a restart.                             *)
(*                                                                         *)
(* The game's clock is nowhere in the database.  The bot infers it from    *)
(* the latest expiry among the orders that are not its own listings,       *)
(* taking that order to be new and to live for 24 hours.  The receipts of  *)
(* its own purchases are such orders; they are stamped from the inferred   *)
(* clock, or with a placeholder while there is none.                       *)
(*                                                                         *)
(* The game's side (orders appear with a full lifetime, are sold, collected*)
(* or removed; what the expiry procedure does to an order) is modelled     *)
(* from what the code assumes of it.                                       *)
(***************************************************************************)
EXTENDS Integers

CONSTANTS
    Life,        \* lifetime of an order (24 h)
    Placeholder, \* expiry while the clock is unknown (999_999_999)
    Epoch,       \* unix time at which the game's clock was 0
    MaxClock,    \* the game time at which a behaviour stops
    MaxFaults

ASSUME ConstantsAssumption ==
    /\ Life \in Nat \ {0}
    /\ MaxClock \in Nat /\ MaxFaults \in Nat
    /\ Placeholder \in Nat /\ Placeholder > MaxClock + Life
    /\ Epoch \in Nat /\ Epoch > Placeholder

VARIABLES
    clock,     \* the true game time
    open,      \* expiries of open player orders
    done,      \* expiries of completed ones: receipts of the bot, expired orders
    \* the bot
    pc,        \* "idle", "buying", "expiring" or "listing"
    epoch,     \* e.gameEpochUnix; 0: unknown
    stamp,     \* orderExpiry of the running tick
    cached,    \* game_epoch_unix in the SQLite file; 0: no row
    \* observed, not part of the program
    poisoned,  \* a receipt carries the placeholder, or did
    faults

vars == <<clock, open, done, pc, epoch, stamp, cached, poisoned, faults>>

Expiries == 1 .. Placeholder + MaxClock

TypeOK ==
    /\ clock \in 1 .. MaxClock + 1
    /\ open \subseteq Expiries /\ done \subseteq Expiries
    /\ pc \in {"idle", "buying", "expiring", "listing"}
    /\ epoch \in Nat /\ cached \in Nat
    /\ stamp \in Expiries
    /\ poisoned \in BOOLEAN
    /\ faults \in 0 .. MaxFaults

Init ==
    /\ clock = 1 /\ open = {} /\ done = {}
    /\ pc = "idle" /\ epoch = 0 /\ cached = 0 /\ stamp = Placeholder
    /\ poisoned = FALSE /\ faults = 0

Fault == faults < MaxFaults /\ faults' = faults + 1

-----------------------------------------------------------------------------
(* The game.                                                               *)

TimePasses ==
    /\ clock <= MaxClock
    /\ clock' = clock + 1
    /\ UNCHANGED <<open, done, pc, epoch, stamp, cached, poisoned, faults>>

PlayerLists ==
    /\ clock <= MaxClock - 1
    /\ open' = open \cup {clock + Life}
    /\ UNCHANGED <<clock, done, pc, epoch, stamp, cached, poisoned, faults>>

(* Taken back, or bought by a player, whose seller may have to collect.    *)
OrderLeaves ==
    /\ \E e \in open : open' = open \ {e} /\ done' \in {done, done \cup {e}}
    /\ UNCHANGED <<clock, pc, epoch, stamp, cached, poisoned, faults>>

(* A seller collects, or the game purges, a completed order.               *)
Collected ==
    /\ \E e \in done : done' = done \ {e}
    /\ UNCHANGED <<clock, open, pc, epoch, stamp, cached, poisoned, faults>>

-----------------------------------------------------------------------------
Unix == Epoch + clock

UncheckedGameNow == Unix - epoch

GameNow == IF epoch = 0 THEN 0 ELSE Unix - epoch

(* The expiries the query admits; its limit lies just over the placeholder.*)
Readable == {e \in open \cup done : e <= Placeholder}

Latest == {r \in Readable : \A e \in Readable : e <= r}

EpochWithoutLifetime(ref) == Unix - ref

(* The order with the latest expiry is taken to have been made just now.   *)
EpochFrom(ref) == Unix - (ref - Life)

LearnForwardOnly(keep) ==
    IF Readable = {} THEN UNCHANGED <<epoch, cached>>
    ELSE \E ref \in Latest :
            IF epoch # 0 /\ EpochFrom(ref) >= epoch THEN UNCHANGED <<epoch, cached>>
            ELSE /\ epoch' = EpochFrom(ref)
                 /\ cached' = IF keep THEN epoch' ELSE cached

(* An epoch that differs is kept in memory and written to the file; with   *)
(* keep false the write fails.                                             *)
Learn(keep) ==
    IF Readable = {} THEN UNCHANGED <<epoch, cached>>
    ELSE \E ref \in Latest :
            IF EpochFrom(ref) = epoch THEN UNCHANGED <<epoch, cached>>
            ELSE /\ epoch' = EpochFrom(ref)
                 /\ cached' = IF keep THEN epoch' ELSE cached

(* learnGameEpoch as a tick calls it: it may fail to read or to write.     *)
LearnGameEpoch ==
    \/ Learn(TRUE) /\ UNCHANGED faults
    \/ Learn(FALSE) /\ Fault
    \/ UNCHANGED <<epoch, cached>> /\ Fault

OrderExpiry == IF GameNow > 0 THEN GameNow + Life ELSE Placeholder

BuyTick ==
    /\ pc = "idle" /\ pc' = "buying"
    /\ UNCHANGED <<clock, open, done, poisoned>>
    /\ LearnGameEpoch
    /\ stamp' = OrderExpiry'

(* A purchase replaces a player's order by a receipt with the tick's stamp.*)
Purchase ==
    /\ pc = "buying"
    /\ \E e \in open : open' = open \ {e}
    /\ done' = done \cup {stamp}
    /\ poisoned' = (poisoned \/ stamp = Placeholder)
    /\ UNCHANGED <<clock, pc, epoch, stamp, cached, faults>>

EndBuyTick ==
    /\ pc = "buying" /\ pc' = "idle"
    /\ UNCHANGED <<clock, open, done, epoch, stamp, cached, poisoned, faults>>

ListTick ==
    /\ pc = "idle" /\ pc' = "expiring"
    /\ LearnGameEpoch
    /\ UNCHANGED <<clock, open, done, stamp, poisoned>>

(* Orders whose time has come by the bot's clock are completed, then the   *)
(* stamp of the new listings is computed.                                  *)
Overdue == {e \in open : GameNow > 0 /\ e <= GameNow}

ExpireOrders ==
    /\ pc = "expiring" /\ pc' = "listing"
    /\ open' = open \ Overdue
    /\ done' = done \cup Overdue
    /\ stamp' = OrderExpiry
    /\ UNCHANGED <<clock, epoch, cached, poisoned, faults>>

ExpireFails ==
    /\ pc = "expiring" /\ pc' = "listing"
    /\ Fault
    /\ stamp' = OrderExpiry
    /\ UNCHANGED <<clock, open, done, epoch, cached, poisoned>>

(* The bot's own listings carry the stamp; learnGameEpoch skips them.      *)
CreateListings ==
    /\ pc = "listing" /\ pc' = "idle"
    /\ UNCHANGED <<clock, open, done, epoch, stamp, cached, poisoned, faults>>

Restart ==
    /\ Fault
    /\ pc' = "idle"
    /\ epoch' = cached
    /\ UNCHANGED <<clock, open, done, stamp, cached, poisoned>>

Bot ==
    \/ BuyTick \/ EndBuyTick
    \/ ListTick \/ ExpireOrders \/ CreateListings

Next ==
    \/ TimePasses \/ PlayerLists \/ OrderLeaves \/ Collected
    \/ Bot \/ Purchase \/ ExpireFails \/ Restart

Spec == Init /\ [][Next]_vars

(* Ticks recur and run to their end (main loop).                           *)
FairSpec == Spec /\ WF_vars(Bot)

-----------------------------------------------------------------------------
(* Until a receipt carries the placeholder, the bot's clock is never ahead *)
(* of the game's, although it learns from stamps it made itself, lags and  *)
(* falls back on old copies: nothing is expired before its time.           *)
ClockNotAhead == ~poisoned => GameNow <= clock

(* However wrong the clock was, it is right or behind again once no stray  *)
(* expiry is left to learn from and there is an order to learn from.       *)
Sane == Readable # {} /\ \A e \in Readable : e <= clock + Life

ClockRecovers == <>[]Sane => <>[](GameNow <= clock)

-----------------------------------------------------------------------------
(* What the repository says and the code does not do.                      *)

(* src/README.md:18: "player listings are never modified (only purchased   *)
(* if below threshold)": a list tick ends no player order before its time. *)
OnlyOverdueExpire == [][\A e \in open \ open' : ExpireOrders => e <= clock]_vars
=============================================================================
