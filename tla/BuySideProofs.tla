--------------------------- MODULE BuySideProofs ---------------------------
(***************************************************************************)
(* What the buy side guarantees for every set of listings, every           *)
(* configuration and any number of failures.  A receipt and the debit of   *)
(* the balance come in one transaction, so the books follow from each      *)
(* listing's being paid once: the coins promised are counted as a set.     *)
(***************************************************************************)
EXTENDS BuySide, FiniteSetTheorems, TLAPS

(* The state of one listing: the units of an open listing are accounted    *)
(* for, only a gone listing can have been paid, and a gone one is settled. *)
ListingInv(l) ==
    /\ order[l] = "none" => sold[l] = 0
    /\ order[l] = "open" <=> stack[l] > 0
    /\ order[l] # "gone" => receipts[l] = 0 /\ paid[l] = 0 /\ returned[l] = 0
    /\ order[l] = "open" => stack[l] + sold[l] + returned[l] = offer[l].units
    /\ receipts[l] <= 1
    /\ order[l] = "gone" => Settled(l) >= offer[l].units
    /\ order[l] = "gone" /\ l \notin raced => Settled(l) = offer[l].units

(* A row that waits: not paid yet, and the stack it shows is at least what *)
(* the listing still holds, exactly that if nobody touched the listing.    *)
RowInv(l) ==
    l \in rows =>
        /\ order[l] # "none"
        /\ receipts[l] = 0 /\ paid[l] = 0
        /\ seen[l] <= offer[l].units
        /\ seen[l] + sold[l] + returned[l] >= offer[l].units
        /\ l \notin raced => order[l] = "open" /\ seen[l] = stack[l]

CountInv == pc = "buying" => committed <= purchased + errs

IInv ==
    /\ TypeOK
    /\ \A l \in Listings : ListingInv(l) /\ RowInv(l)
    /\ CountInv

-----------------------------------------------------------------------------
LEMMA ConfigTypes ==
    ASSUME NEW c \in Configs
    PROVE  c.threshold \in Nat /\ c.maxBuys \in Nat
BY ConstantsAssumption

LEMMA OfferTypes ==
    ASSUME TypeOK, NEW l \in Listings
    PROVE  offer[l].units \in Nat \ {0} /\ offer[l].price \in Nat \ {0}
BY ConstantsAssumption DEF TypeOK

LEMMA FaultTypes ==
    ASSUME TypeOK, Fault
    PROVE  faults' \in 0 .. MaxFaults
BY ConstantsAssumption DEF TypeOK, Fault

LEMMA InitInv == Init => IInv
<1> SUFFICES ASSUME Init PROVE IInv
  OBVIOUS
<1>1. TypeOK
  BY ConstantsAssumption, ConfigTypes DEF Init, TypeOK, Nothing
<1>2. \A l \in Listings : ListingInv(l) /\ RowInv(l)
  BY DEF Init, Nothing, ListingInv, RowInv, Settled
<1>3. CountInv
  BY DEF Init, CountInv
<1> QED
  BY <1>1, <1>2, <1>3 DEF IInv

(* The effect of an action on what the invariant reads, for the actions    *)
(* that leave the database and the waiting rows alone.                     *)
LEMMA QuietStep ==
    ASSUME IInv, UNCHANGED dbVars, UNCHANGED raced,
           rows' \subseteq rows, \A l \in rows' : seen'[l] = seen[l]
    PROVE  (\A l \in Listings : ListingInv(l) /\ RowInv(l))'
<1> TAKE l \in Listings
<1> USE DEF IInv, dbVars
<1>1. ListingInv(l)'
  BY DEF ListingInv, Settled
<1>2. RowInv(l)'
  BY DEF RowInv
<1> QED
  BY <1>1, <1>2

(* A player's action on listing k: the others are untouched, and k is      *)
(* raced if its row waits.                                                 *)
LEMMA PlayerStep ==
    ASSUME IInv, NEW k \in Listings,
           PlayerLists(k) \/ PlayerBuys(k) \/ ListingReturned(k)
    PROVE  IInv'
<1> USE DEF IInv
<1>0. offer[k].units \in Nat \ {0} /\ TypeOK
  BY OfferTypes
<1>1. TypeOK'
  BY <1>0 DEF TypeOK, PlayerLists, PlayerBuys, ListingReturned, Touched, tickVars
<1>2. ASSUME NEW l \in Listings
      PROVE  ListingInv(l)' /\ RowInv(l)'
  <2>0. offer[l].units \in Nat /\ ListingInv(l) /\ RowInv(l)
    BY <1>0, OfferTypes
  <2>1. CASE PlayerLists(k)
    BY <1>0, <2>0, <2>1 DEF PlayerLists, TypeOK, ListingInv, RowInv, Settled, tickVars
  <2>2. CASE PlayerBuys(k)
    BY <1>0, <2>0, <2>2 DEF PlayerBuys, TypeOK, ListingInv, RowInv, Settled, Touched, tickVars
  <2>3. CASE ListingReturned(k)
    BY <1>0, <2>0, <2>3 DEF ListingReturned, TypeOK, ListingInv, RowInv, Settled, Touched, tickVars
  <2> QED
    BY <2>1, <2>2, <2>3
<1>3. CountInv'
  BY DEF CountInv, PlayerLists, PlayerBuys, ListingReturned, tickVars
<1> QED
  BY <1>1, <1>2, <1>3

LEMMA StartStep ==
    ASSUME IInv, StartTick
    PROVE  IInv'
<1> USE DEF IInv, StartTick, dbVars
<1>0. rows' \subseteq OpenListings
  BY DEF QueryResults
<1>1. TypeOK'
  <2>1. seen' \in [Listings -> Nat] /\ rows' \subseteq Listings
    BY <1>0 DEF TypeOK, ActualStack, OpenListings
  <2>2. purchased' \in 0 .. snap'.maxBuys /\ snap' \in Configs
    BY ConfigTypes DEF TypeOK
  <2> QED
    BY <2>1, <2>2 DEF TypeOK
<1>2. ASSUME NEW l \in Listings
      PROVE  ListingInv(l)' /\ RowInv(l)'
  <2>1. CASE l \in rows'
    <3>1. order[l] = "open" /\ seen'[l] = stack[l]
      BY <1>0, <2>1 DEF OpenListings, ActualStack
    <3> QED
      BY <3>1, <2>1, OfferTypes DEF ListingInv, RowInv, Settled, TypeOK
  <2>2. CASE l \notin rows'
    BY <2>2 DEF ListingInv, RowInv, Settled
  <2> QED
    BY <2>1, <2>2
<1>3. CountInv'
  BY DEF CountInv
<1> QED
  BY <1>1, <1>2, <1>3

(* The purchase of k: the row is consumed and the receipt pays what it saw. *)
LEMMA SettleStep ==
    ASSUME IInv, NEW k \in Listings, Consume(k), Settle(k)
    PROVE  (\A l \in Listings : ListingInv(l) /\ RowInv(l))'
<1> USE DEF IInv
<1> TAKE l \in Listings
<1>1. ListingInv(l) /\ RowInv(l) /\ offer[l].units \in Nat /\ TypeOK
  BY OfferTypes
<1>2. CASE l = k
  <2>1. order'[k] = "gone" /\ stack'[k] = 0 /\ receipts'[k] = 1 /\ paid'[k] = seen[k]
    BY <1>1, <1>2 DEF Consume, Settle, RowInv, TypeOK, PaidUnits, AfterSale
  <2>2. Settled(k)' = sold[k] + returned[k] + seen[k]
    BY <2>1 DEF Settle, Settled
  <2>3. Settled(k)' >= offer'[k].units
    BY <1>1, <1>2, <2>2 DEF Consume, Settle, RowInv, TypeOK
  <2>4. k \notin raced' => Settled(k)' = offer'[k].units
    BY <1>1, <1>2, <2>2 DEF Consume, Settle, RowInv, ListingInv, TypeOK
  <2>5. k \notin rows'
    BY DEF Consume
  <2> QED
    BY <1>2, <2>1, <2>3, <2>4, <2>5 DEF ListingInv, RowInv
<1>3. CASE l # k
  BY <1>1, <1>3 DEF Consume, Settle, ListingInv, RowInv, Settled, TypeOK, AfterSale
<1> QED
  BY <1>2, <1>3

(* Actions of the buy tick that read a row or end it.                      *)
LEMMA RowStep ==
    ASSUME IInv, NEW k \in Listings,
           SkipRow(k) \/ FailRow(k) \/ BuyRow(k) \/ BuyRowUnacknowledged(k)
    PROVE  IInv'
<1> USE DEF IInv
<1>0. /\ TypeOK /\ Consume(k)
      /\ snap.maxBuys \in Nat /\ offer[k].price \in Nat
  BY ConfigTypes, OfferTypes DEF TypeOK, SkipRow, FailRow, BuyRow, BuyRowUnacknowledged
<1>1. TypeOK'
  <2>1. CASE SkipRow(k)
    BY <1>0, <2>1 DEF TypeOK, Consume, SkipRow, dbVars
  <2>2. CASE FailRow(k)
    BY <1>0, <2>2, FaultTypes DEF TypeOK, Consume, FailRow, dbVars
  <2>3. CASE BuyRow(k) \/ BuyRowUnacknowledged(k)
    <3>1. /\ seen' \in [Listings -> Nat] /\ rows' \subseteq Listings
          /\ faults' \in 0 .. MaxFaults /\ errs' \in Nat
          /\ purchased' \in 0 .. snap.maxBuys /\ committed' \in Nat
      BY <1>0, <2>3, FaultTypes
      DEF TypeOK, Consume, Settle, WithinBudget, BuyRow, BuyRowUnacknowledged
    <3>2. /\ order' \in [Listings -> {"none", "open", "gone"}]
          /\ stack' \in [Listings -> Nat] /\ receipts' \in [Listings -> Nat]
          /\ paid' \in [Listings -> Nat]
      BY <1>0, <2>3
      DEF TypeOK, Settle, AfterSale, PaidUnits, BuyRow, BuyRowUnacknowledged
    <3>3. Cost(k) \in Int
      BY <1>0 DEF Cost, TypeOK
    <3>4. balance' \in Int
      BY <1>0, <2>3, <3>3 DEF TypeOK, Settle, BuyRow, BuyRowUnacknowledged
    <3> QED
      BY <1>0, <2>3, <3>1, <3>2, <3>4
      DEF TypeOK, Consume, Settle, BuyRow, BuyRowUnacknowledged
  <2> QED
    BY <2>1, <2>2, <2>3
<1>2. (\A l \in Listings : ListingInv(l) /\ RowInv(l))'
  <2>1. CASE SkipRow(k) \/ FailRow(k)
    <3>1. rows' \subseteq rows /\ \A l \in rows' : seen'[l] = seen[l]
      BY <1>0 DEF Consume, TypeOK
    <3> QED
      BY <1>0, <2>1, <3>1, QuietStep DEF Consume, SkipRow, FailRow
  <2>2. CASE BuyRow(k) \/ BuyRowUnacknowledged(k)
    BY <1>0, <2>2, SettleStep DEF BuyRow, BuyRowUnacknowledged
  <2> QED
    BY <2>1, <2>2
<1>3. CountInv'
  BY <1>0 DEF CountInv, TypeOK, Consume, Settle, SkipRow, FailRow, BuyRow, BuyRowUnacknowledged
<1> QED
  BY <1>1, <1>2, <1>3

(* Every other action, and stuttering, leaves the database alone.          *)
LEMMA OtherStep ==
    ASSUME IInv,
           \/ PutConfig \/ Reprice \/ QueryFails \/ EndTick \/ StreamBreaks
           \/ Crash \/ Restart \/ UNCHANGED vars
    PROVE  IInv'
<1> USE DEF IInv
<1>1. TypeOK'
  <2>1. CASE PutConfig
    BY <2>1 DEF TypeOK, PutConfig, dbVars, tickVars
  <2>2. CASE Reprice
    BY <2>2 DEF TypeOK, Reprice, dbVars, tickVars
  <2>3. CASE QueryFails
    BY <2>3, FaultTypes DEF TypeOK, QueryFails, dbVars, tickVars
  <2>4. CASE EndTick \/ StreamBreaks
    BY <2>4, FaultTypes DEF TypeOK, EndTick, StreamBreaks, Finish, Nothing, dbVars
  <2>5. CASE Crash
    BY <2>5, FaultTypes DEF TypeOK, Crash, Nothing, dbVars
  <2>6. CASE Restart
    BY <2>6, ConstantsAssumption, ConfigTypes DEF TypeOK, Restart, dbVars
  <2>7. CASE UNCHANGED vars
    BY <2>7 DEF TypeOK, vars, dbVars, tickVars
  <2> QED
    BY <2>1, <2>2, <2>3, <2>4, <2>5, <2>6, <2>7
<1>2. (\A l \in Listings : ListingInv(l) /\ RowInv(l))'
  <2>1. UNCHANGED dbVars /\ UNCHANGED raced
    BY DEF PutConfig, Reprice, QueryFails, EndTick, StreamBreaks, Finish, Crash, Restart,
           vars
  <2>2. rows' \subseteq rows /\ \A l \in rows' : seen'[l] = seen[l]
    BY DEF PutConfig, Reprice, QueryFails, EndTick, StreamBreaks, Finish, Crash, Restart,
           vars, tickVars
  <2> QED
    BY <2>1, <2>2, QuietStep
<1>3. CountInv'
  BY DEF CountInv, PutConfig, Reprice, QueryFails, EndTick, StreamBreaks, Finish, Crash,
         Restart, vars, tickVars
<1> QED
  BY <1>1, <1>2, <1>3

LEMMA StepInv == IInv /\ [Next]_vars => IInv'
BY PlayerStep, StartStep, RowStep, OtherStep DEF Next

LEMMA Inductive == Spec => []IInv
BY InitInv, StepInv, PTL DEF Spec

-----------------------------------------------------------------------------
(* Every variable of the buy side keeps its type; in particular no tick    *)
(* counts more purchases than its snapshot of the configuration allows.    *)
THEOREM TypeCorrect == Spec => []TypeOK
<1>1. IInv => TypeOK
  BY DEF IInv
<1> QED
  BY <1>1, Inductive, PTL

(* No listing is paid for twice, across ticks, lost answers and crashes.   *)
THEOREM PaysOnce == Spec => []PaidAtMostOnce
<1>1. IInv => PaidAtMostOnce
  BY DEF IInv, ListingInv, PaidAtMostOnce
<1> QED
  BY <1>1, Inductive, PTL

(* No seller loses goods without being paid for at least as many units.    *)
THEOREM SellersAreCovered == Spec => []SellerNeverShort
<1>1. IInv => SellerNeverShort
  BY DEF IInv, ListingInv, SellerNeverShort
<1> QED
  BY <1>1, Inductive, PTL

(* Overpayment needs a change between the query and the transaction.       *)
THEOREM OverpaysOnlyRaced == Spec => []PaidExactUnlessRaced
<1>1. IInv => PaidExactUnlessRaced
  BY DEF IInv, ListingInv, PaidExactUnlessRaced
<1> QED
  BY <1>1, Inductive, PTL

(* A tick exceeds maxBuys by no more purchases than it reports errors.     *)
THEOREM OverrunIsReported == Spec => []BudgetAccounted
<1>1. IInv => BudgetAccounted
  BY ConfigTypes DEF IInv, TypeOK, CountInv, BudgetAccounted
<1> QED
  BY <1>1, Inductive, PTL

-----------------------------------------------------------------------------
(* The books.  What is promised is counted coin by coin, so that a sum     *)
(* over the listings is the cardinality of a set.                          *)
BooksInv == IsFiniteSet(Promised) /\ BooksBalance

Coins(l) == {l} \X (1 .. offer[l].price * paid[l])

(* The coins of one listing are as many as its receipts pay.               *)
LEMMA CoinsCounted ==
    ASSUME NEW l, NEW n \in Nat
    PROVE  /\ IsFiniteSet({l} \X (1 .. n))
           /\ Cardinality({l} \X (1 .. n)) = n
<1>1. IsFiniteSet({l}) /\ Cardinality({l}) = 1
  BY FS_Singleton
<1>2. 1 \in Int /\ n \in Int
  OBVIOUS
<1>3. IsFiniteSet(1 .. n) /\ Cardinality(1 .. n) = IF 1 > n THEN 0 ELSE n - 1 + 1
  BY <1>2, FS_Interval
<1>4. Cardinality(1 .. n) = n
  BY <1>3
<1>5. /\ IsFiniteSet({l} \X (1 .. n))
      /\ Cardinality({l} \X (1 .. n)) = Cardinality({l}) * Cardinality(1 .. n)
  BY <1>1, <1>3, FS_Product
<1>6. 1 * n = n
  OBVIOUS
<1> QED
  BY <1>1, <1>4, <1>5, <1>6

LEMMA InitBooks == Init => BooksInv
<1> SUFFICES ASSUME Init PROVE BooksInv
  OBVIOUS
<1>1. \A l \in Listings : 1 .. offer[l].price * paid[l] = {}
  <2> TAKE l \in Listings
  <2>1. offer[l].price \in Nat /\ paid[l] = 0
    BY ConstantsAssumption DEF Init, Nothing
  <2>2. offer[l].price * paid[l] = 0
    BY <2>1
  <2> QED
    BY <2>2
<1>2. Promised = {}
  BY <1>1 DEF Promised
<1>3. IsFiniteSet({}) /\ Cardinality({}) = 0
  BY FS_EmptySet
<1> QED
  BY <1>2, <1>3 DEF Init, BooksInv, BooksBalance

(* Only a purchase touches the books.                                      *)
LEMMA BooksUntouched ==
    ASSUME BooksInv, UNCHANGED <<offer, paid, balance>>
    PROVE  BooksInv'
BY DEF BooksInv, BooksBalance, Promised

(* A purchase promises coins for a listing that had none, as many as it    *)
(* debits: what the row cost is what the receipt says.                     *)
LEMMA SettleBooks ==
    ASSUME IInv, BooksInv, NEW k \in Listings, Consume(k), Settle(k)
    PROVE  BooksInv'
<1>0. /\ TypeOK /\ seen[k] \in Nat /\ offer[k].price \in Nat
      /\ paid[k] = 0 /\ balance \in Int
  BY OfferTypes DEF IInv, RowInv, TypeOK, Consume
<1>1. Cost(k) \in Nat
  BY <1>0 DEF Cost
<1>2. /\ offer' = offer /\ balance' = balance - Cost(k)
      /\ paid' = [paid EXCEPT ![k] = seen[k]]
  <2>1. offer' = offer /\ balance' = balance - Cost(k)
    BY DEF Settle
  <2>2. paid' = [paid EXCEPT ![k] = paid[k] + seen[k]]
    BY DEF Settle, PaidUnits
  <2>3. paid[k] + seen[k] = seen[k]
    BY <1>0
  <2> QED
    BY <2>1, <2>2, <2>3, Zenon
<1>3. \A l \in Listings \ {k} : Coins(l)' = Coins(l)
  BY <1>0, <1>2 DEF Coins, TypeOK
<1>4. Coins(k)' = {k} \X (1 .. Cost(k))
  BY <1>0, <1>2 DEF Coins, Cost, TypeOK
<1>5. Coins(k) = {}
  <2>1. offer[k].price * paid[k] = 0
    BY <1>0
  <2>2. 1 .. offer[k].price * paid[k] = {}
    BY <2>1
  <2> QED
    BY <2>2 DEF Coins
<1>6. /\ Promised = UNION {Coins(l) : l \in Listings}
      /\ Promised' = UNION {Coins(l)' : l \in Listings}
  BY DEF Promised, Coins
<1>7. Promised' = Promised \cup Coins(k)'
  BY <1>3, <1>5, <1>6
<1>8. Promised \cap Coins(k)' = {}
  <2>1. \A l \in Listings : \A c \in Coins(l) : c[1] = l
    BY DEF Coins
  <2>2. \A c \in Coins(k)' : c[1] = k
    BY <1>4
  <2> QED
    BY <1>5, <1>6, <2>1, <2>2
<1>9. IsFiniteSet(Coins(k)') /\ Cardinality(Coins(k)') = Cost(k)
  <2>1. /\ IsFiniteSet({k} \X (1 .. Cost(k)))
        /\ Cardinality({k} \X (1 .. Cost(k))) = Cost(k)
    BY <1>1, CoinsCounted, Zenon
  <2> QED
    BY <1>4, <2>1, Zenon
<1>10. IsFiniteSet(Promised) /\ balance = -Cardinality(Promised)
  BY DEF BooksInv, BooksBalance
<1>11. /\ IsFiniteSet(Promised')
       /\ Cardinality(Promised')
            = Cardinality(Promised) + Cardinality(Coins(k)') - Cardinality(Promised \cap Coins(k)')
  BY <1>7, <1>9, <1>10, FS_Union
<1>12. Cardinality(Promised \cap Coins(k)') = 0 /\ Cardinality(Promised) \in Nat
  BY <1>8, <1>10, FS_EmptySet, FS_CardinalityType
<1>13. balance' = -Cardinality(Promised')
  BY <1>1, <1>2, <1>9, <1>10, <1>11, <1>12
<1> QED
  BY <1>11, <1>13 DEF BooksInv, BooksBalance

LEMMA StepBooks == IInv /\ BooksInv /\ [Next]_vars => BooksInv'
<1> SUFFICES ASSUME IInv, BooksInv, [Next]_vars PROVE BooksInv'
  OBVIOUS
<1>1. ASSUME NEW k \in Listings, BuyRow(k) \/ BuyRowUnacknowledged(k)
      PROVE  BooksInv'
  BY <1>1, SettleBooks DEF BuyRow, BuyRowUnacknowledged
<1>2. CASE \E k \in Listings :
             \/ PlayerLists(k) \/ PlayerBuys(k) \/ ListingReturned(k)
             \/ SkipRow(k) \/ FailRow(k)
  <2>1. UNCHANGED <<offer, paid, balance>>
    BY <1>2 DEF PlayerLists, PlayerBuys, ListingReturned, SkipRow, FailRow, dbVars
  <2> QED
    BY <2>1, BooksUntouched
<1>3. CASE \/ PutConfig \/ Reprice \/ StartTick \/ QueryFails \/ EndTick \/ StreamBreaks
           \/ Crash \/ Restart \/ UNCHANGED vars
  <2>1. UNCHANGED <<offer, paid, balance>>
    BY <1>3 DEF PutConfig, Reprice, StartTick, QueryFails, EndTick, StreamBreaks,
                Finish, Crash, Restart, vars, dbVars
  <2> QED
    BY <2>1, BooksUntouched
<1> QED
  BY <1>1, <1>2, <1>3 DEF Next

(* However ticks, failures, lost answers and crashes interleave, the bot's *)
(* balance has gone down by what its receipts promise the sellers.         *)
THEOREM BooksAlwaysBalance == Spec => []BooksBalance
<1>1. BooksInv => BooksBalance
  BY DEF BooksInv
<1> QED
  BY <1>1, Inductive, InitBooks, StepBooks, PTL DEF Spec

-----------------------------------------------------------------------------
(* The refinement: which step of Settlement an action of the buy side is.  *)
LEMMA PlayersRefine ==
    ASSUME IInv, NEW k \in Listings,
           PlayerLists(k) \/ PlayerBuys(k) \/ ListingReturned(k)
    PROVE  Deal!Next
<1>0. TypeOK /\ ListingInv(k)
  BY DEF IInv
<1> USE <1>0 DEF TypeOK, ListingInv
<1>1. CASE PlayerLists(k)
  <2>1. Deal!List(k)
    BY <1>1 DEF PlayerLists, Deal!List
  <2> QED
    BY <2>1 DEF Deal!Next
<1>2. CASE PlayerBuys(k)
  <2>1. PICK n \in 1 .. stack[k] :
            /\ stack' = [stack EXCEPT ![k] = @ - n]
            /\ order' = [order EXCEPT ![k] = IF n = stack[k] THEN "gone" ELSE "open"]
    BY <1>2 DEF PlayerBuys
  <2>2. stack[k] - n \in 0 .. stack[k] - 1 /\ (stack[k] - n = 0 <=> n = stack[k])
    BY <2>1
  <2>3. Deal!Shrink(k)
    BY <1>2, <2>1, <2>2 DEF PlayerBuys, Deal!Shrink
  <2> QED
    BY <2>3 DEF Deal!Next
<1>3. CASE ListingReturned(k)
  <2>1. 0 \in 0 .. stack[k] - 1
    BY <1>3 DEF ListingReturned
  <2>2. Deal!Shrink(k)
    BY <1>3, <2>1 DEF ListingReturned, Deal!Shrink
  <2> QED
    BY <2>2 DEF Deal!Next
<1> QED
  BY <1>1, <1>2, <1>3

LEMMA PurchaseRefines ==
    ASSUME IInv, NEW k \in Listings, Consume(k), Settle(k)
    PROVE  Deal!Next
<1>0. TypeOK /\ ListingInv(k) /\ RowInv(k) /\ k \in rows /\ offer[k].units \in Nat
  BY OfferTypes DEF IInv, Consume
<1>1. seen[k] \in stack[k] .. offer[k].units
  BY <1>0 DEF TypeOK, ListingInv, RowInv
<1>2. receipts' = [receipts EXCEPT ![k] = 1] /\ paid' = [paid EXCEPT ![k] = seen[k]]
  <2>1. receipts[k] + 1 = 1 /\ paid[k] + seen[k] = seen[k]
    BY <1>0, <1>1 DEF TypeOK, RowInv
  <2>2. /\ receipts' = [receipts EXCEPT ![k] = receipts[k] + 1]
        /\ paid' = [paid EXCEPT ![k] = paid[k] + seen[k]]
    BY DEF Settle, PaidUnits
  <2> QED
    BY <2>1, <2>2, Zenon
<1>3. Deal!BotBuys(k)
  BY <1>0, <1>1, <1>2 DEF RowInv, Settle, AfterSale, Deal!BotBuys
<1> QED
  BY <1>3 DEF Deal!Next

LEMMA StepRefines == IInv /\ [Next]_vars => [Deal!Next]_(Deal!vars)
<1> SUFFICES ASSUME IInv, [Next]_vars PROVE Deal!Next \/ UNCHANGED Deal!vars
  OBVIOUS
<1>1. ASSUME NEW k \in Listings,
             PlayerLists(k) \/ PlayerBuys(k) \/ ListingReturned(k)
      PROVE  Deal!Next
  BY <1>1, PlayersRefine
<1>2. ASSUME NEW k \in Listings, BuyRow(k) \/ BuyRowUnacknowledged(k)
      PROVE  Deal!Next
  BY <1>2, PurchaseRefines DEF BuyRow, BuyRowUnacknowledged
<1>3. ASSUME UNCHANGED dbVars
      PROVE  UNCHANGED Deal!vars
  BY <1>3 DEF dbVars, Deal!vars
<1>4. CASE \E k \in Listings : SkipRow(k) \/ FailRow(k)
  BY <1>3, <1>4 DEF SkipRow, FailRow
<1>5. CASE \/ PutConfig \/ Reprice \/ StartTick \/ QueryFails \/ EndTick \/ StreamBreaks
           \/ Crash \/ Restart \/ UNCHANGED vars
  BY <1>3, <1>5 DEF PutConfig, Reprice, StartTick, QueryFails, EndTick, StreamBreaks,
                    Finish, Crash, Restart, vars
<1> QED
  BY <1>1, <1>2, <1>4, <1>5 DEF Next

(* For the sellers the buy side is Settlement: rows, transactions, lost    *)
(* answers and crashes never show.                                         *)
THEOREM ImplementsSettlement == Spec => SettlesOnce
<1>1. Init => Deal!Init
  <2> SUFFICES ASSUME Init PROVE Deal!Init
    OBVIOUS
  <2>1. \A l \in Listings : offer[l].units \in Nat
    BY ConstantsAssumption DEF Init
  <2> QED
    BY <2>1 DEF Init, Nothing, Deal!Init
<1> QED
  BY <1>1, Inductive, StepRefines, PTL DEF Spec, SettlesOnce, Deal!Spec
=============================================================================
