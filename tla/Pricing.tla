------------------------------ MODULE Pricing ------------------------------
(***************************************************************************)
(* The pure price arithmetic of src/pricing.go, over natural numbers.      *)
(*                                                                         *)
(* The code multiplies int64 prices by float64 multipliers and rounds half *)
(* away from zero.  Here a multiplier is a whole number of percent and the *)
(* product is rounded exactly; for the multipliers the program ships       *)
(* (0.90, 0.95, 1.05, 1.10, 1.25, 1.50, 1.75, 2, 3, 5) both give the same  *)
(* integer for every multiple of ten below 4 million.                      *)
(*                                                                         *)
(* An item is a record with the fields of CatalogItem that pricing reads:  *)
(*   tier, rarity, basePrice, stackMax, isSchematic, minPrice, maxPrice,   *)
(*   materialCost, materialCostPerGrade (a function of the grade).         *)
(* A configuration is a record with gradeMult, rarityMult and vendorMult.  *)
(***************************************************************************)
EXTENDS Integers

Grades == 0 .. 5

(* The tables of the three tier switches, with the default of each.        *)
ByTier(table, default, tier) ==
    IF tier \in DOMAIN table THEN table[tier] ELSE default

EquipmentPrice(tier) ==
    ByTier(<<2000, 8000, 30000, 100000, 300000, 750000>>, 500, tier)

SchematicEquipmentPrice(tier) ==
    ByTier(<<500, 1500, 4000, 12000, 30000, 75000>>, 500, tier)

MaterialUnitPrice(tier) ==
    ByTier(<<20, 80, 200, 600, 1500, 4000>>, 5, tier)

(* n / d rounded to the nearest integer, halves up (math.Round).           *)
RoundDiv(n, d) == (2 * n + d) \div (2 * d)

Percent(v, pct) == RoundDiv(v * pct, 100)

(* The step of the magnitude v falls in.                                   *)
Step(v) ==
    IF v >= 1000000 THEN 100000
    ELSE IF v >= 100000 THEN 10000
    ELSE IF v >= 10000 THEN 1000
    ELSE IF v >= 1000 THEN 100
    ELSE 10

RoundPrice(v) == RoundDiv(v, Step(v)) * Step(v)

(* The lookup in a multiplier map: a rarity it does not name counts 1.0.   *)
MultOf(rarity, mults) ==
    IF rarity \in DOMAIN mults THEN mults[rarity] ELSE 100

MinMeaningfulVendorPrice == 10

(* Unique or memento equipment with a crafting recipe: the items priced    *)
(* from their material cost.                                               *)
CraftedUnique(item) ==
    /\ item.materialCost > 0
    /\ item.stackMax <= 1
    /\ ~item.isSchematic
    /\ item.rarity \in {"unique", "memento"}

MaterialCostForGrade(item, grade) ==
    IF grade \in Grades /\ item.materialCostPerGrade[grade] > 0
    THEN item.materialCostPerGrade[grade]
    ELSE item.materialCost

(* Schematic price times rarity plus three quarters of the materials.      *)
CraftedPrice(item, grade, cfg) ==
    RoundDiv(  SchematicEquipmentPrice(item.tier) * MultOf(item.rarity, cfg.rarityMult)
             + MaterialCostForGrade(item, grade) * 75, 100)

FallbackPrice(item, cfg) ==
    LET mult == MultOf(item.rarity, cfg.rarityMult)
        unit == Percent(MaterialUnitPrice(item.tier), mult)
    IN  IF item.stackMax <= 1
        THEN Percent(IF item.isSchematic THEN SchematicEquipmentPrice(item.tier)
                                         ELSE EquipmentPrice(item.tier), mult)
        ELSE IF unit < 1 THEN 1 ELSE unit

BasePrice(item, cfg) ==
    IF CraftedUnique(item) THEN CraftedPrice(item, 0, cfg)
    ELSE IF item.basePrice >= MinMeaningfulVendorPrice
    THEN Percent(item.basePrice, MultOf(item.rarity, cfg.vendorMult))
    ELSE FallbackPrice(item, cfg)

ComputePrice(item, cfg) == RoundPrice(BasePrice(item, cfg))

GradePriceMult(grade, mults) == IF grade \in Grades THEN mults[grade] ELSE 100

GradedPrice(base, grade, mults) ==
    RoundPrice(Percent(base, GradePriceMult(grade, mults)))

GradeFloor(item, grade, cfg) ==
    IF CraftedUnique(item)
    THEN RoundPrice(CraftedPrice(item, grade, cfg))
    ELSE GradedPrice(RoundPrice(BasePrice(item, cfg)), grade, cfg.gradeMult)

(* The bounds of adjustPrice: the computed floor and five times it, moved  *)
(* by the item's own minimum and maximum.                                  *)
PriceFloor(item, cfg) ==
    LET floor == ComputePrice(item, cfg)
    IN  IF item.minPrice > 0 /\ floor < item.minPrice THEN item.minPrice ELSE floor

PriceCeiling(item, cfg) ==
    LET ceiling == ComputePrice(item, cfg) * 5
    IN  IF item.maxPrice > 0 /\ ceiling > item.maxPrice THEN item.maxPrice ELSE ceiling

(* The three cases of soldFraction: more than half of the listed stack was *)
(* sold, nothing was, or something in between.                             *)
Drift(current, sold, listed) ==
    IF listed > 0 /\ 2 * sold > listed THEN Percent(current, 110)
    ELSE IF listed <= 0 \/ sold = 0 THEN Percent(current, 95)
    ELSE current

(* Clamped from below first: when an item's maximum lies under its floor,  *)
(* the maximum wins.                                                       *)
Clamp(v, floor, ceiling) ==
    LET raised == IF v < floor THEN floor ELSE v
    IN  IF raised > ceiling THEN ceiling ELSE raised

AdjustPrice(item, current, sold, listed, cfg) ==
    Clamp(RoundPrice(Drift(current, sold, listed)),
          PriceFloor(item, cfg), PriceCeiling(item, cfg))
=============================================================================
