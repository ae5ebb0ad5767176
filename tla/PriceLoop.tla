----------------------------- MODULE PriceLoop -----------------------------
(***************************************************************************)
(* How the bot's prices move: fetchMarketPrices, updatePrices and the      *)
(* relisting of ListTick in src/exchange.go, with the arithmetic of        *)
(* Pricing.                                                                *)
(*                                                                         *)
(* A list tick fetches the lowest price of every template over all active  *)
(* listings, the bot's own included; moves e.prices of the templates it    *)
(* has orders for by what was sold and by that market minimum; and relists *)
(* what is not at the new price, which starts a fresh count of sales.      *)
(* Any of the three may fail and is skipped.                               *)
(*                                                                         *)
(* The loops treat every template for itself, so the module follows one:   *)
(* any item of the catalog, and one listing of grade 0 for all it has.     *)
(***************************************************************************)
EXTENDS Integers, FiniteSets, FiniteSetsExt, Pricing

CONSTANTS
    Catalog,       \* the items, as the records pricing reads
    Configs,       \* runtime configurations: gradeMult, rarityMult, vendorMult
    DefaultConfig,
    Offers,        \* lowest price among player listings; 0 stands for none
    MaxSold,       \* bound on the units sold from one generation of listings
    MaxFaults, MaxEvents

ItemType ==
    [tier : Nat, rarity : STRING, basePrice : Nat, stackMax : Nat \ {0},
     isSchematic : BOOLEAN, minPrice : Nat, maxPrice : Nat,
     materialCost : Nat, materialCostPerGrade : [Grades -> Nat]]

ASSUME ConstantsAssumption ==
    /\ Catalog \subseteq ItemType
    /\ DefaultConfig \in Configs
    /\ \A c \in Configs :
        /\ c.gradeMult \in [Grades -> Nat \ {0}]
        /\ \A r \in DOMAIN c.rarityMult : c.rarityMult[r] \in Nat \ {0}
        /\ \A r \in DOMAIN c.vendorMult : c.vendorMult[r] \in Nat \ {0}
    /\ Offers \subseteq Nat
    /\ MaxSold \in Nat /\ MaxFaults \in Nat /\ MaxEvents \in Nat

VARIABLES
    item,      \* the template looked at
    \* the exchange
    offer,     \* lowest player price
    listed,    \* price of the bot's listings
    sold,      \* units players bought from them
    \* the bot
    pc,        \* "idle", "fetched" or "priced"
    cfg, snap, \* the live configuration and the tick's snapshot of it
    price,     \* e.prices[..]
    basis,     \* the configuration it was last moved under; none at first
    market,    \* e.marketPrices[..].minimum; 0: no entry
    \* bounds
    faults, events

vars == <<item, offer, listed, sold, pc, cfg, snap, price, basis, market, faults, events>>

NoListing == -1

ListPrice == ComputePrice(item, DefaultConfig)

TypeOK ==
    /\ item \in Catalog
    /\ offer \in Offers
    /\ listed \in Nat \cup {NoListing}
    /\ sold \in 0 .. MaxSold
    /\ pc \in {"idle", "fetched", "priced"}
    /\ cfg \in Configs /\ snap \in Configs
    /\ price \in Nat /\ market \in Nat
    /\ basis \in {{}} \cup {{c} : c \in Configs}
    /\ faults \in 0 .. MaxFaults /\ events \in 0 .. MaxEvents

Init ==
    /\ item \in Catalog
    /\ offer \in Offers
    /\ listed = NoListing /\ sold = 0
    /\ pc = "idle"
    /\ cfg = DefaultConfig /\ snap = DefaultConfig
    /\ price = ListPrice /\ basis = {} /\ market = 0
    /\ faults = 0 /\ events = 0

Fault == faults < MaxFaults /\ faults' = faults + 1 /\ UNCHANGED events
Event == events < MaxEvents /\ events' = events + 1 /\ UNCHANGED faults

-----------------------------------------------------------------------------
(* Players and the operator.                                               *)

PlayersUndercut ==
    /\ Event
    /\ \E p \in Offers : offer' = p
    /\ UNCHANGED <<item, listed, sold, pc, cfg, snap, price, basis, market>>

PlayersBuy ==
    /\ Event
    /\ listed # NoListing
    /\ \E n \in 1 .. MaxSold - sold : sold' = sold + n
    /\ UNCHANGED <<item, offer, listed, pc, cfg, snap, price, basis, market>>

(* Sold out, expired or wiped.                                             *)
ListingsLeave ==
    /\ Event
    /\ listed # NoListing
    /\ listed' = NoListing
    /\ sold' = 0
    /\ UNCHANGED <<item, offer, pc, cfg, snap, price, basis, market>>

PutConfig ==
    /\ Event
    /\ \E c \in Configs \ {cfg} : cfg' = c
    /\ UNCHANGED <<item, offer, listed, sold, pc, snap, price, basis, market>>

-----------------------------------------------------------------------------
(* The list tick.                                                          *)

(* Mutant: the players' listings only.                                     *)
PlayerMin == IF offer > 0 THEN offer ELSE market

Active == ({offer} \ {0}) \cup ({listed} \ {NoListing})

(* The lowest of all active prices.                                        *)
ActiveMin == Min(Active)

(* A template the statistics do not name keeps its old entry.              *)
FetchMarketPrices ==
    /\ pc = "idle" /\ pc' = "fetched"
    /\ snap' = cfg
    /\ market' = IF Active # {} THEN ActiveMin ELSE market
    /\ UNCHANGED <<item, offer, listed, sold, cfg, price, basis, faults, events>>

FetchFails ==
    /\ Fault
    /\ pc = "idle" /\ pc' = "fetched"
    /\ snap' = cfg
    /\ UNCHANGED <<item, offer, listed, sold, cfg, price, basis, market>>

CurrentPrice == IF price <= 0 THEN ListPrice ELSE price

(* A market minimum more than 10% under the price pulls it half way down.  *)
(* The first two are mutants: the price follows the minimum all the way,   *)
(* or goes to half of whatever is cheapest, its own listing included.      *)
FollowMinimum(adjusted, minimum) ==
    IF minimum > 0 /\ minimum < (adjusted * 90) \div 100 THEN minimum ELSE adjusted

UndercutMinimum(adjusted, minimum) ==
    IF minimum > 0 /\ minimum <= adjusted THEN minimum \div 2 ELSE adjusted

MarketPull(adjusted, minimum) ==
    IF minimum > 0 /\ minimum < (adjusted * 90) \div 100
    THEN (adjusted + minimum) \div 2
    ELSE adjusted

NextPrice ==
    MarketPull(AdjustPrice(item, CurrentPrice, sold, item.stackMax, snap),
               market)

(* Only templates the bot has orders for are in the query's result.        *)
UpdatePrices ==
    /\ pc = "fetched" /\ pc' = "priced"
    /\ IF listed # NoListing
       THEN price' = NextPrice /\ basis' = {snap}
       ELSE UNCHANGED <<price, basis>>
    /\ UNCHANGED <<item, offer, listed, sold, cfg, snap, market, faults, events>>

UpdateFails ==
    /\ Fault
    /\ pc = "fetched" /\ pc' = "priced"
    /\ UNCHANGED <<item, offer, listed, sold, cfg, snap, price, basis, market>>

(* What the tick lists the item at; 0: it is skipped.                      *)
TargetPrice ==
    IF CurrentPrice <= 0 THEN 0
    ELSE IF item.materialCost <= 0
    THEN GradedPrice(CurrentPrice, 0, snap.gradeMult)
    ELSE GradeFloor(item, 0, snap)

(* Stale listings are replaced, missing ones created: ListSide has how.    *)
Relist ==
    /\ pc = "priced" /\ pc' = "idle"
    /\ listed' = IF CurrentPrice > 0 THEN TargetPrice ELSE listed
    /\ sold' = IF listed' = listed THEN sold ELSE 0
    /\ UNCHANGED <<item, offer, cfg, snap, price, basis, market, faults, events>>

RelistFails ==
    /\ Fault
    /\ pc = "priced" /\ pc' = "idle"
    /\ UNCHANGED <<item, offer, listed, sold, cfg, snap, price, basis, market>>

(* A crash: prices are seeded from the catalog again, the configuration is *)
(* the default one, the market map is empty.                               *)
Restart ==
    /\ Fault
    /\ pc' = "idle"
    /\ cfg' = DefaultConfig /\ snap' = DefaultConfig
    /\ price' = ListPrice /\ basis' = {} /\ market' = 0
    /\ UNCHANGED <<item, offer, listed, sold>>

Tick == FetchMarketPrices \/ UpdatePrices \/ Relist

Next ==
    \/ PlayersUndercut \/ PlayersBuy \/ ListingsLeave \/ PutConfig
    \/ FetchMarketPrices \/ FetchFails
    \/ UpdatePrices \/ UpdateFails
    \/ Relist \/ RelistFails
    \/ Restart

Spec == Init /\ [][Next]_vars

(* List ticks recur (main loop) and run to their end.                      *)
FairSpec == Spec /\ WF_vars(Tick)

-----------------------------------------------------------------------------
Floor(c) == PriceFloor(item, c)
Ceiling(c) == PriceCeiling(item, c)

(* However undercutting, sales, failures, restarts and configuration       *)
(* changes combine, a price that has moved away from the catalog's lies in *)
(* the band of the configuration it was last moved under: at or under the  *)
(* ceiling, and at or over half of the floor (half of the ceiling where    *)
(* that is lower).  Every update of updatePrices clamps before it          *)
(* averages, so repeated undercutting does not compound.                   *)
InBand(p, c) ==
    /\ p <= Ceiling(c)
    /\ 2 * p >= Floor(c) \/ 2 * p >= Ceiling(c)

PriceBand ==
    IF basis = {} THEN price = ListPrice ELSE \A c \in basis : InBand(price, c)

(* The least a price can be in its band.                                   *)
Half(c) == ((IF Floor(c) < Ceiling(c) THEN Floor(c) ELSE Ceiling(c)) + 1) \div 2

Lowest == IF basis = {} THEN ListPrice ELSE Min({Half(c) : c \in basis})

(* An item that is not priced by its materials is never listed under half  *)
(* of its floor at the grade's multiplier (gradedPrice, line 493), however *)
(* long it was undercut and whatever multipliers the operator sets: so for *)
(* nothing only where they take half of the floor under 5, as a tenth      *)
(* takes 40, which is rounded down to 0.                                   *)
ListedNearFloor ==
    [][Relist /\ CurrentPrice > 0 /\ item.materialCost = 0
       => listed' >= GradedPrice(Lowest, 0, snap.gradeMult)]_vars

(* What the operator sells at a discount is listed under its own price, so *)
(* that the listing is the market minimum which pulls that price down.     *)
Discounted(c) == c.gradeMult[0] < 100

(* Once the outside world and the failures rest, prices stop moving: the   *)
(* feedback of the bot's own listings through the market minimum does not  *)
(* cycle, and neither do drift and rounding.  At a discount it may: once   *)
(* pulled down the item is listed for nothing, a minimum of nothing counts *)
(* as none (line 855), and the price goes up again.                        *)
PricesSettle == <>[]~Discounted(cfg) => <>[][UNCHANGED price]_vars

(* Once nobody undercuts any more, the price is back at its floor: the     *)
(* minimum fetchMarketPrices keeps is overwritten by the bot's own price.  *)
(* At a discount that price is what keeps it under its floor.              *)
RecoversFromUndercutting ==
    <>[](offer = 0 /\ ~Discounted(cfg)) => <>[](price >= Floor(cfg) \/ price >= Ceiling(cfg))
=============================================================================
