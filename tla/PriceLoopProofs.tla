-------------------------- MODULE PriceLoopProofs --------------------------
(***************************************************************************)
(* Proofs about PriceLoop, for every catalog, set of configurations and    *)
(* bound.  The arithmetic lemmas say that the operators of Pricing return  *)
(* natural numbers and that Clamp ends in its band; PriceBand then follows *)
(* because UpdatePrices, the only step that moves a price away from the    *)
(* catalog's, clamps before it averages with the market minimum.  What is  *)
(* listed follows from the price because rounding keeps the order.         *)
(***************************************************************************)
EXTENDS PriceLoop, TLAPS

ConfigType ==
    {c \in Configs :
        /\ c.gradeMult \in [Grades -> Nat \ {0}]
        /\ \A r \in DOMAIN c.rarityMult : c.rarityMult[r] \in Nat \ {0}
        /\ \A r \in DOMAIN c.vendorMult : c.vendorMult[r] \in Nat \ {0}}

LEMMA ConfigsTyped == Configs = ConfigType
  BY ConstantsAssumption DEF ConfigType

(* Rounding by a constant divisor stays among the natural numbers.         *)
LEMMA PercentNat ==
  ASSUME NEW v \in Nat, NEW pct \in Nat
  PROVE  Percent(v, pct) \in Nat
  <1>1. v * pct \in Nat
    OBVIOUS
  <1>2. ASSUME NEW n \in Nat PROVE RoundDiv(n, 100) \in Nat
    BY DEF RoundDiv
  <1> QED
    BY <1>1, <1>2 DEF Percent

LEMMA RoundPriceNat ==
  ASSUME NEW v \in Nat
  PROVE  RoundPrice(v) \in Nat
  BY DEF RoundPrice, RoundDiv, Step

LEMMA TablesNat ==
  ASSUME NEW tier \in Nat
  PROVE  /\ EquipmentPrice(tier) \in Nat
         /\ SchematicEquipmentPrice(tier) \in Nat
         /\ MaterialUnitPrice(tier) \in Nat
  BY DEF EquipmentPrice, SchematicEquipmentPrice, MaterialUnitPrice, ByTier

LEMMA MultNat ==
  ASSUME NEW c \in ConfigType, NEW r
  PROVE  /\ MultOf(r, c.rarityMult) \in Nat
         /\ MultOf(r, c.vendorMult) \in Nat
  BY DEF ConfigType, MultOf

LEMMA CraftedPriceNat ==
  ASSUME NEW i \in ItemType, NEW c \in ConfigType, NEW g \in Grades
  PROVE  CraftedPrice(i, g, c) \in Nat
  <1>1. MaterialCostForGrade(i, g) \in Nat
    BY DEF ItemType, MaterialCostForGrade, Grades
  <1>2. SchematicEquipmentPrice(i.tier) \in Nat
    BY TablesNat DEF ItemType
  <1>3. MultOf(i.rarity, c.rarityMult) \in Nat
    BY MultNat
  <1>4. SchematicEquipmentPrice(i.tier) * MultOf(i.rarity, c.rarityMult) \in Nat
    BY <1>2, <1>3
  <1>5. ASSUME NEW a \in Nat, NEW b \in Nat PROVE RoundDiv(a + b * 75, 100) \in Nat
    BY DEF RoundDiv
  <1> QED
    BY <1>1, <1>4, <1>5 DEF CraftedPrice

LEMMA BasePriceNat ==
  ASSUME NEW i \in ItemType, NEW c \in ConfigType
  PROVE  BasePrice(i, c) \in Nat
  <1>1. CraftedPrice(i, 0, c) \in Nat
    BY CraftedPriceNat DEF Grades
  <1>2. Percent(i.basePrice, MultOf(i.rarity, c.vendorMult)) \in Nat
    BY MultNat, PercentNat DEF ItemType
  <1>3. FallbackPrice(i, c) \in Nat
    BY MultNat, TablesNat, PercentNat DEF ItemType, FallbackPrice
  <1> QED
    BY <1>1, <1>2, <1>3 DEF BasePrice

LEMMA BoundsNat ==
  ASSUME NEW i \in ItemType, NEW c \in ConfigType
  PROVE  /\ ComputePrice(i, c) \in Nat
         /\ PriceFloor(i, c) \in Nat
         /\ PriceCeiling(i, c) \in Nat
  <1>1. ComputePrice(i, c) \in Nat
    BY BasePriceNat, RoundPriceNat DEF ComputePrice
  <1> QED
    BY <1>1 DEF PriceFloor, PriceCeiling, ItemType

LEMMA GradedNat ==
  ASSUME NEW c \in ConfigType, NEW base \in Nat, NEW g \in Grades
  PROVE  GradedPrice(base, g, c.gradeMult) \in Nat
  <1>1. GradePriceMult(g, c.gradeMult) \in Nat
    BY DEF GradePriceMult, ConfigType
  <1> QED
    BY <1>1, PercentNat, RoundPriceNat DEF GradedPrice

LEMMA GradeFloorNat ==
  ASSUME NEW i \in ItemType, NEW c \in ConfigType, NEW g \in Grades
  PROVE  GradeFloor(i, g, c) \in Nat
  BY CraftedPriceNat, BasePriceNat, RoundPriceNat, GradedNat DEF GradeFloor

LEMMA DriftNat ==
  ASSUME NEW current \in Nat, NEW n \in Nat, NEW m \in Nat
  PROVE  Drift(current, n, m) \in Nat
  BY PercentNat DEF Drift

(* Clamped, a price is under the ceiling and over the floor, or at the     *)
(* ceiling.                                                                *)
LEMMA Clamped ==
  ASSUME NEW v \in Nat, NEW floor \in Nat, NEW ceiling \in Nat
  PROVE  /\ Clamp(v, floor, ceiling) \in Nat
         /\ Clamp(v, floor, ceiling) <= ceiling
         /\ Clamp(v, floor, ceiling) >= floor \/ Clamp(v, floor, ceiling) >= ceiling
  BY DEF Clamp

LEMMA AdjustInBand ==
  ASSUME NEW i \in ItemType, NEW c \in ConfigType,
         NEW current \in Nat, NEW n \in Nat, NEW m \in Nat
  PROVE  LET a == AdjustPrice(i, current, n, m, c)
         IN  /\ a \in Nat
             /\ a <= PriceCeiling(i, c)
             /\ a >= PriceFloor(i, c) \/ a >= PriceCeiling(i, c)
  BY DriftNat, RoundPriceNat, BoundsNat, Clamped DEF AdjustPrice

(* The pull takes at most half of the adjusted price away.                 *)
LEMMA PullHalves ==
  ASSUME NEW a \in Nat, NEW m \in Nat
  PROVE  /\ MarketPull(a, m) \in Nat
         /\ MarketPull(a, m) <= a
         /\ 2 * MarketPull(a, m) >= a
  BY DEF MarketPull
-----------------------------------------------------------------------------
LEMMA Typing ==
  ASSUME TypeOK
  PROVE  /\ item \in ItemType /\ snap \in ConfigType /\ cfg \in ConfigType
         /\ DefaultConfig \in ConfigType
         /\ ListPrice \in Nat /\ CurrentPrice \in Nat
  <1>1. item \in ItemType /\ snap \in ConfigType /\ cfg \in ConfigType /\ DefaultConfig \in ConfigType
    BY ConstantsAssumption, ConfigsTyped DEF TypeOK
  <1>2. ListPrice \in Nat
    BY <1>1, BoundsNat DEF ListPrice
  <1> QED
    BY <1>1, <1>2 DEF TypeOK, CurrentPrice

LEMMA NextPriceInBand ==
  ASSUME TypeOK
  PROVE  NextPrice \in Nat /\ InBand(NextPrice, snap)
  <1> DEFINE a == AdjustPrice(item, CurrentPrice, sold, item.stackMax, snap)
  <1>1. item \in ItemType /\ snap \in ConfigType /\ CurrentPrice \in Nat
    BY Typing
  <1>2. sold \in Nat /\ item.stackMax \in Nat /\ market \in Nat
    BY <1>1, ConstantsAssumption DEF TypeOK, ItemType
  <1>3. /\ a \in Nat /\ a <= Ceiling(snap)
        /\ a >= Floor(snap) \/ a >= Ceiling(snap)
    BY <1>1, <1>2, AdjustInBand DEF Floor, Ceiling
  <1>4. Floor(snap) \in Nat /\ Ceiling(snap) \in Nat
    BY <1>1, BoundsNat DEF Floor, Ceiling
  <1>5. NextPrice = MarketPull(a, market)
    BY DEF NextPrice
  <1> HIDE DEF a
  <1>6. NextPrice \in Nat /\ NextPrice <= a /\ 2 * NextPrice >= a
    BY <1>2, <1>3, <1>5, PullHalves
  <1> QED
    BY <1>3, <1>4, <1>6 DEF InBand

LEMMA TargetPriceNat == ASSUME TypeOK PROVE TargetPrice \in Nat
  <1>1. item \in ItemType /\ snap \in ConfigType /\ CurrentPrice \in Nat
    BY Typing
  <1>2. 0 \in Grades
    BY DEF Grades
  <1>3. GradedPrice(CurrentPrice, 0, snap.gradeMult) \in Nat
    BY <1>1, <1>2, GradedNat
  <1>4. GradeFloor(item, 0, snap) \in Nat
    BY <1>1, <1>2, GradeFloorNat
  <1> QED
    BY <1>3, <1>4 DEF TargetPrice

LEMMA ActiveMinNat == ASSUME TypeOK, Active # {} PROVE ActiveMin \in Nat
  <1>1. offer \in Nat /\ listed \in Nat \cup {-1}
    BY ConstantsAssumption DEF TypeOK, NoListing
  <1>2. Active = (IF offer = 0 THEN {} ELSE {offer}) \cup (IF listed = -1 THEN {} ELSE {listed})
    BY DEF Active, NoListing
  <1>3. \E x \in Active : \A y \in Active : x <= y
    <2>1. CASE offer \in Active /\ (listed \in Active => offer <= listed)
      BY <1>1, <1>2, <2>1
    <2>2. CASE ~(offer \in Active /\ (listed \in Active => offer <= listed))
      BY <1>1, <1>2, <2>2
    <2> QED BY <2>1, <2>2
  <1>4. Min(Active) \in Active
    BY <1>3 DEF Min
  <1> QED
    BY <1>1, <1>2, <1>4 DEF ActiveMin
-----------------------------------------------------------------------------
(* Type correctness: prices, minima and listings are natural numbers.      *)
THEOREM TypeCorrect == Spec => []TypeOK
  <1>1. Init => TypeOK
    <2> SUFFICES ASSUME Init PROVE TypeOK
      OBVIOUS
    <2>1. item \in ItemType /\ DefaultConfig \in ConfigType
      BY ConstantsAssumption, ConfigsTyped DEF Init
    <2>2. ListPrice \in Nat
      BY <2>1, BoundsNat DEF ListPrice
    <2> QED
      BY <2>2, ConstantsAssumption DEF Init, TypeOK
  <1>2. TypeOK /\ [Next]_vars => TypeOK'
    <2> SUFFICES ASSUME TypeOK, [Next]_vars PROVE TypeOK'
      OBVIOUS
    <2> USE ConstantsAssumption DEF TypeOK
    <2>1. CASE PlayersUndercut
      BY <2>1 DEF PlayersUndercut, Event
    <2>2. CASE PlayersBuy
      BY <2>2 DEF PlayersBuy, Event
    <2>3. CASE ListingsLeave
      BY <2>3 DEF ListingsLeave, Event
    <2>4. CASE PutConfig
      BY <2>4 DEF PutConfig, Event
    <2>5. CASE FetchMarketPrices
      BY <2>5, ActiveMinNat DEF FetchMarketPrices
    <2>6. CASE FetchFails
      BY <2>6 DEF FetchFails, Fault
    <2>7. CASE UpdatePrices
      <3>1. NextPrice \in Nat /\ {snap} \in {{c} : c \in Configs}
        BY NextPriceInBand
      <3> QED
        BY <2>7, <3>1 DEF UpdatePrices
    <2>8. CASE UpdateFails
      BY <2>8 DEF UpdateFails, Fault
    <2>9. CASE Relist
      BY <2>9, TargetPriceNat DEF Relist
    <2>10. CASE RelistFails
      BY <2>10 DEF RelistFails, Fault
    <2>11. CASE Restart
      BY <2>11, Typing DEF Restart, Fault
    <2>12. CASE UNCHANGED vars
      BY <2>12 DEF vars
    <2> QED
      BY <2>1, <2>2, <2>3, <2>4, <2>5, <2>6, <2>7, <2>8, <2>9, <2>10, <2>11, <2>12 DEF Next
  <1> QED
    BY <1>1, <1>2, PTL DEF Spec

(* For every catalog, every set of configurations and any undercutting, a  *)
(* price that has left the catalog's stays between half of the floor and   *)
(* the ceiling of the configuration of its last update (updatePrices,      *)
(* adjustPrice).                                                           *)
THEOREM PricesStayInBand == Spec => []PriceBand
  <1>1. Init => PriceBand
    BY DEF Init, PriceBand
  <1>2. TypeOK /\ PriceBand /\ [Next]_vars => PriceBand'
    <2> SUFFICES ASSUME TypeOK, PriceBand, [Next]_vars PROVE PriceBand'
      OBVIOUS
    <2>1. CASE UpdatePrices /\ listed # NoListing
      <3>1. price' = NextPrice /\ item' = item /\ basis' = {snap}
        BY <2>1 DEF UpdatePrices
      <3>2. InBand(NextPrice, snap)
        BY NextPriceInBand
      <3>3. (\A c \in basis : InBand(price, c))' /\ basis' # {}
        BY <3>1, <3>2 DEF InBand, Floor, Ceiling
      <3> QED
        BY <3>3 DEF PriceBand
    <2>2. CASE Restart
      BY <2>2 DEF Restart, PriceBand, ListPrice
    <2>3. CASE UNCHANGED <<item, price, basis>>
      BY <2>3 DEF PriceBand, InBand, Floor, Ceiling, ListPrice
    <2> QED
      <3>1. UpdatePrices \/ Restart \/ UNCHANGED <<item, price, basis>>
        BY DEF Next, PlayersUndercut, PlayersBuy, ListingsLeave, PutConfig,
               FetchMarketPrices, FetchFails, UpdateFails, Relist, RelistFails, vars
      <3>2. UpdatePrices /\ listed = NoListing => UNCHANGED <<item, price, basis>>
        BY DEF UpdatePrices
      <3> QED
        BY <2>1, <2>2, <2>3, <3>1, <3>2
  <1> QED
    BY <1>1, <1>2, TypeCorrect, PTL DEF Spec
-----------------------------------------------------------------------------
(* Rounding keeps the order of prices.                                     *)
LEMMA PercentGrows ==
  ASSUME NEW v \in Nat, NEW w \in Nat, v <= w, NEW pct \in Nat
  PROVE  Percent(v, pct) <= Percent(w, pct)
  <1>1. PICK more \in Nat : w = v + more
    <2>1. w - v \in Nat /\ w = v + (w - v)
      OBVIOUS
    <2> QED
      BY <2>1
  <1>2. v * pct \in Nat /\ more * pct \in Nat /\ w * pct = v * pct + more * pct
    BY <1>1
  <1>3. ASSUME NEW m \in Nat, NEW n \in Nat PROVE RoundDiv(m, 100) <= RoundDiv(m + n, 100)
    BY DEF RoundDiv
  <1> QED
    BY <1>2, <1>3 DEF Percent

LEMMA RoundPriceGrows ==
  ASSUME NEW v \in Nat, NEW w \in Nat, v <= w
  PROVE  RoundPrice(v) <= RoundPrice(w)
  <1>1. /\ v < 1000 => RoundPrice(v) = RoundDiv(v, 10) * 10
        /\ v >= 1000 /\ v < 10000 => RoundPrice(v) = RoundDiv(v, 100) * 100
        /\ v >= 10000 /\ v < 100000 => RoundPrice(v) = RoundDiv(v, 1000) * 1000
        /\ v >= 100000 /\ v < 1000000 => RoundPrice(v) = RoundDiv(v, 10000) * 10000
        /\ v >= 1000000 => RoundPrice(v) = RoundDiv(v, 100000) * 100000
    BY DEF RoundPrice, Step
  <1>2. /\ w < 1000 => RoundPrice(w) = RoundDiv(w, 10) * 10
        /\ w >= 1000 /\ w < 10000 => RoundPrice(w) = RoundDiv(w, 100) * 100
        /\ w >= 10000 /\ w < 100000 => RoundPrice(w) = RoundDiv(w, 1000) * 1000
        /\ w >= 100000 /\ w < 1000000 => RoundPrice(w) = RoundDiv(w, 10000) * 10000
        /\ w >= 1000000 => RoundPrice(w) = RoundDiv(w, 100000) * 100000
    BY DEF RoundPrice, Step
  <1> QED
    BY <1>1, <1>2 DEF RoundDiv

LEMMA GradedGrows ==
  ASSUME NEW c \in ConfigType, NEW low \in Nat, NEW high \in Nat, low <= high
  PROVE  GradedPrice(low, 0, c.gradeMult) <= GradedPrice(high, 0, c.gradeMult)
  <1> DEFINE m == GradePriceMult(0, c.gradeMult)
  <1>1. m \in Nat
    BY DEF GradePriceMult, ConfigType, Grades
  <1> HIDE DEF m
  <1>2. /\ Percent(low, m) \in Nat /\ Percent(high, m) \in Nat
        /\ Percent(low, m) <= Percent(high, m)
    BY <1>1, PercentNat, PercentGrows
  <1>3. RoundPrice(Percent(low, m)) <= RoundPrice(Percent(high, m))
    BY <1>2, RoundPriceGrows
  <1> QED
    BY <1>3 DEF GradedPrice, m

LEMMA LowestBelow ==
  ASSUME TypeOK, PriceBand, CurrentPrice > 0
  PROVE  Lowest \in Nat /\ Lowest <= CurrentPrice
  <1>1. price \in Nat /\ item \in ItemType /\ ListPrice \in Nat
    BY Typing DEF TypeOK
  <1>2. CASE basis = {}
    BY <1>1, <1>2 DEF PriceBand, Lowest, CurrentPrice
  <1>3. CASE basis # {}
    <2>1. PICK c \in Configs : basis = {c}
      BY <1>3 DEF TypeOK
    <2>2. Floor(c) \in Nat /\ Ceiling(c) \in Nat
      BY <1>1, ConfigsTyped, BoundsNat DEF Floor, Ceiling
    <2>3. InBand(price, c)
      BY <1>3, <2>1 DEF PriceBand
    <2>4. Half(c) \in Nat /\ Half(c) <= price
      BY <1>1, <2>2, <2>3 DEF Half, InBand
    <2>5. Lowest = Half(c)
      <3>1. {Half(d) : d \in basis} = {Half(c)}
        BY <2>1
      <3>2. Min({Half(c)}) = Half(c)
        BY <2>4 DEF Min
      <3> QED
        BY <1>3, <3>1, <3>2 DEF Lowest
    <2> QED
      BY <1>1, <2>4, <2>5 DEF CurrentPrice
  <1> QED
    BY <1>2, <1>3

(* However far players undercut it, however prices, failures and           *)
(* configurations change, and whatever the multipliers are, no tick lists  *)
(* an item under half of its floor at the grade's multiplier (ListTick).   *)
THEOREM NeverGivenAway == Spec => ListedNearFloor
  <1>1. TypeOK /\ PriceBand /\ [Next]_vars
        => [Relist /\ CurrentPrice > 0 /\ item.materialCost = 0
            => listed' >= GradedPrice(Lowest, 0, snap.gradeMult)]_vars
    <2> SUFFICES ASSUME TypeOK, PriceBand, Relist, CurrentPrice > 0, item.materialCost = 0
                 PROVE  listed' >= GradedPrice(Lowest, 0, snap.gradeMult)
      OBVIOUS
    <2>1. Lowest \in Nat /\ CurrentPrice \in Nat /\ Lowest <= CurrentPrice /\ snap \in ConfigType
      BY Typing, LowestBelow
    <2>2. listed' = GradedPrice(CurrentPrice, 0, snap.gradeMult)
      BY <2>1 DEF Relist, TargetPrice
    <2>3. 0 \in Grades
      BY DEF Grades
    <2>4. /\ GradedPrice(CurrentPrice, 0, snap.gradeMult) \in Nat
          /\ GradedPrice(Lowest, 0, snap.gradeMult) \in Nat
          /\ GradedPrice(Lowest, 0, snap.gradeMult) <= GradedPrice(CurrentPrice, 0, snap.gradeMult)
      BY <2>1, <2>3, GradedNat, GradedGrows
    <2> QED
      BY <2>2, <2>4
  <1> QED
    BY <1>1, TypeCorrect, PricesStayInBand, PTL DEF Spec, ListedNearFloor
=============================================================================
