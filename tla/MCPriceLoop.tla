---------------------------- MODULE MCPriceLoop ----------------------------
(* Instances of PriceLoop: items at the magnitudes where rounding bites.   *)
EXTENDS PriceLoop, TLC

MCItem(tier, rarity, base, stack, schematic, cost) ==
    [tier |-> tier, rarity |-> rarity, basePrice |-> base, stackMax |-> stack,
     isSchematic |-> schematic, minPrice |-> 0, maxPrice |-> 0,
     materialCost |-> cost,
     materialCostPerGrade |-> [g \in Grades |-> IF g = 5 THEN 0 ELSE cost + g * 100]]

MCCatalog ==
    { MCItem(0, "common", 1, 3, FALSE, 0),
      MCItem(3, "unique", 2, 1, TRUE, 0),
      MCItem(1, "memento", 20, 1, FALSE, 1000),
      [MCItem(2, "unique", 310, 1, FALSE, 0) EXCEPT !.minPrice = 2000],
      [MCItem(2, "common", 40, 2, FALSE, 0) EXCEPT !.maxPrice = 100] }

MCMults(c, u, m) == [common |-> c, unique |-> u, memento |-> m]

MCDefault ==
    [gradeMult  |-> <<100, 125, 150, 175, 200>> @@ [g \in {0} |-> 100],
     rarityMult |-> MCMults(100, 300, 500),
     vendorMult |-> MCMults(300, 500, 500)]

(* The operator halves the vendor multipliers and drops a rarity.          *)
MCCheap ==
    [MCDefault EXCEPT !.rarityMult = [common |-> 100],
                      !.vendorMult = MCMults(150, 250, 250)]

(* A tenth for what has no grade.                                          *)
MCDiscount == [MCDefault EXCEPT !.gradeMult[0] = 10]

MCConfigs == {MCDefault, MCCheap, MCDiscount}
=============================================================================
