----------------------------- MODULE MCBuySide -----------------------------
(* Instances of BuySide small enough for TLC: two templates, one of them   *)
(* marked not buyable, grades 0 and 5, stacks of one and two units.        *)
EXTENDS BuySide, TLC

MCTemplates == {"ore", "relic"}
MCNotBuyable == {"relic"}
MCListPrice == [t \in MCTemplates |-> 10]
MCBotPrices == {0, 10}

(* With e.prices at 10 the bot pays up to 10 for grade 0, up to 21 (1.05   *)
(* times 20) for grade 5: the second offer is never acceptable.            *)
MCOffers ==
    { [tmpl |-> "ore", grade |-> 0, price |-> 10, units |-> 2],
      [tmpl |-> "ore", grade |-> 0, price |-> 20, units |-> 1],
      [tmpl |-> "ore", grade |-> 5, price |-> 20, units |-> 1],
      [tmpl |-> "relic", grade |-> 0, price |-> 10, units |-> 1] }

MCGradeMult == [g \in Grades |-> IF g = 5 THEN 200 ELSE 100]

MCConfig(threshold, maxBuys) ==
    [threshold |-> threshold, maxBuys |-> maxBuys, gradeMult |-> MCGradeMult]

MCDefault == MCConfig(105, 1)
MCConfigs == {MCDefault, MCConfig(105, 2), MCConfig(0, 1)}

(* For the temporal runs: one template, and stacks of one unit.            *)
MCFewTemplates == {"ore"}
MCFewListPrice == [t \in MCFewTemplates |-> 10]
MCNoTemplates == {}
MCFewOffers ==
    { [tmpl |-> "ore", grade |-> 0, price |-> 10, units |-> 1],
      [tmpl |-> "ore", grade |-> 0, price |-> 20, units |-> 1] }
MCPartialOffers == { [tmpl |-> "ore", grade |-> 0, price |-> 10, units |-> 2] }
MCFewConfigs == {MCDefault, MCConfig(0, 1)}

ListingSymmetry == Permutations(Listings)
=============================================================================
