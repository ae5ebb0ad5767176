-------------------------- MODULE GameClockProofs --------------------------
(***************************************************************************)
(* Proofs about GameClock, for every lifetime, placeholder and bound.      *)
(*                                                                         *)
(* The clock feeds on its own stamps, so ClockNotAhead needs more than the *)
(* epoch: as long as no receipt carries the placeholder, every expiry in   *)
(* the database is at most one lifetime ahead of the true clock, and the   *)
(* epoch, the copy of it in the file and the stamp of the running tick     *)
(* agree with that.                                                        *)
(***************************************************************************)
EXTENDS GameClock, TLAPS

(* An epoch the bot holds or has written does not lie before the true one. *)
Behind(e) == e = 0 \/ e >= Epoch

Bounded(S) == \A e \in S : e <= clock + Life

Calm ==
    /\ Bounded(open) /\ Bounded(done)
    /\ Behind(epoch) /\ Behind(cached)
    /\ stamp = Placeholder \/ stamp <= clock + Life

(* No expiry that can be read, the placeholder included, makes the epoch   *)
(* older than this: the stamps made from it stay within Expiries.          *)
Recent(e) == e = 0 \/ e >= Epoch + 1 + Life - Placeholder

Typed == TypeOK /\ Recent(epoch) /\ Recent(cached)

IInv == Typed /\ (~poisoned => Calm)

(* Every epoch learned is a natural number, and not before the true one    *)
(* when the expiries are bounded.                                          *)
LEMMA LearnedEpoch ==
  ASSUME Typed, NEW ref \in Readable
  PROVE  /\ EpochFrom(ref) \in Nat /\ Recent(EpochFrom(ref))
         /\ Bounded(open) /\ Bounded(done) => EpochFrom(ref) >= Epoch
  BY ConstantsAssumption DEF Typed, TypeOK, Expiries, Recent, Readable, Bounded, EpochFrom, Unix

LEMMA LearnPreserves ==
  ASSUME IInv, NEW keep, Learn(keep)
  PROVE  /\ epoch' \in Nat /\ cached' \in Nat
         /\ Recent(epoch)' /\ Recent(cached)'
         /\ ~poisoned => Behind(epoch)' /\ Behind(cached)'
  <1>1. CASE UNCHANGED <<epoch, cached>>
    BY <1>1 DEF IInv, Typed, TypeOK, Recent, Calm, Behind
  <1>2. CASE ~UNCHANGED <<epoch, cached>>
    <2>1. PICK ref \in Latest : /\ epoch' = EpochFrom(ref)
                                /\ cached' = IF keep THEN epoch' ELSE cached
      BY <1>2 DEF Learn
    <2>2. ref \in Readable
      BY DEF Latest
    <2>3. EpochFrom(ref) \in Nat /\ Recent(EpochFrom(ref)) /\ (~poisoned => EpochFrom(ref) >= Epoch)
      BY <2>2, LearnedEpoch DEF IInv, Calm
    <2> QED
      BY <2>1, <2>3 DEF IInv, Typed, TypeOK, Recent, Calm, Behind
  <1> QED
    BY <1>1, <1>2

LEMMA LearnGameEpochPreserves ==
  ASSUME IInv, LearnGameEpoch
  PROVE  /\ epoch' \in Nat /\ cached' \in Nat /\ faults' \in 0 .. MaxFaults
         /\ Recent(epoch)' /\ Recent(cached)'
         /\ ~poisoned => Behind(epoch)' /\ Behind(cached)'
  <1>1. faults' \in 0 .. MaxFaults
    <2>1. UNCHANGED faults \/ Fault
      BY Zenon DEF LearnGameEpoch
    <2> QED
      BY <2>1, ConstantsAssumption DEF IInv, Typed, TypeOK, Fault
  <1>2. CASE UNCHANGED <<epoch, cached>>
    BY <1>1, <1>2 DEF IInv, Typed, TypeOK, Recent, Calm, Behind
  <1> QED
    BY <1>1, <1>2, LearnPreserves DEF LearnGameEpoch

(* The clock an epoch gives, and the stamp made from it.                   *)
NowOf(c, e) == IF e = 0 THEN 0 ELSE (Epoch + c) - e
StampOf(c, e) == IF NowOf(c, e) > 0 THEN NowOf(c, e) + Life ELSE Placeholder

LEMMA StampOfSane ==
  ASSUME NEW c \in 1 .. MaxClock + 1, NEW e \in Nat, Recent(e)
  PROVE  /\ NowOf(c, e) \in Int /\ StampOf(c, e) \in Expiries
         /\ Behind(e) => /\ NowOf(c, e) <= c
                         /\ StampOf(c, e) = Placeholder \/ StampOf(c, e) <= c + Life
  BY ConstantsAssumption DEF NowOf, StampOf, Behind, Recent, Expiries

LEMMA StampSane ==
  ASSUME Typed
  PROVE  /\ GameNow \in Int /\ OrderExpiry \in Expiries
         /\ Behind(epoch) => /\ GameNow <= clock
                             /\ OrderExpiry = Placeholder \/ OrderExpiry <= clock + Life
  BY StampOfSane DEF Typed, TypeOK, GameNow, Unix, OrderExpiry, NowOf, StampOf

LEMMA Invariance == Spec => []IInv
  <1>1. Init => IInv
    <2> SUFFICES ASSUME Init PROVE IInv
      OBVIOUS
    <2>1. poisoned \in BOOLEAN
      BY DEF Init
    <2>2. Typed
      BY <2>1, ConstantsAssumption DEF Init, Typed, TypeOK, Expiries, Recent
    <2>3. Calm
      BY DEF Init, Calm, Bounded, Behind
    <2> QED
      BY <2>2, <2>3 DEF IInv
  <1>2. IInv /\ [Next]_vars => IInv'
    <2> SUFFICES ASSUME IInv, [Next]_vars PROVE IInv'
      OBVIOUS
    <2> USE ConstantsAssumption DEF IInv, Typed, TypeOK, Expiries, Recent, Calm, Bounded, Behind
    <2>1. CASE TimePasses
      BY <2>1 DEF TimePasses
    <2>2. CASE PlayerLists
      BY <2>2 DEF PlayerLists
    <2>3. CASE OrderLeaves
      BY <2>3 DEF OrderLeaves
    <2>4. CASE Collected
      BY <2>4 DEF Collected
    <2>5. CASE BuyTick
      <3>1. UNCHANGED <<clock, open, done, poisoned>> /\ LearnGameEpoch /\ stamp' = OrderExpiry'
        BY <2>5 DEF BuyTick
      <3>2. /\ epoch' \in Nat /\ cached' \in Nat /\ faults' \in 0 .. MaxFaults
            /\ Recent(epoch') /\ Recent(cached')
            /\ ~poisoned => Behind(epoch)' /\ Behind(cached)'
        BY <3>1, LearnGameEpochPreserves
      <3>3. clock' \in 1 .. MaxClock + 1
        BY <3>1
      <3>4. stamp' = StampOf(clock', epoch')
        BY ONLY <3>1 DEF GameNow, Unix, OrderExpiry, NowOf, StampOf
      <3>5. /\ stamp' \in Expiries
            /\ Behind(epoch') => stamp' = Placeholder \/ stamp' <= clock' + Life
        BY ONLY <3>2, <3>3, <3>4, StampOfSane
      <3> QED
        BY <2>5, <3>1, <3>2, <3>5 DEF BuyTick
    <2>6. CASE Purchase
      BY <2>6 DEF Purchase
    <2>7. CASE EndBuyTick
      BY <2>7 DEF EndBuyTick
    <2>8. CASE ListTick
      <3>1. UNCHANGED <<clock, open, done, stamp, poisoned>> /\ LearnGameEpoch
        BY <2>8 DEF ListTick
      <3> QED
        BY <2>8, <3>1, LearnGameEpochPreserves DEF ListTick
    <2>9. CASE ExpireOrders
      BY <2>9, StampSane DEF ExpireOrders, Overdue
    <2>10. CASE ExpireFails
      BY <2>10, StampSane DEF ExpireFails, Fault
    <2>11. CASE CreateListings
      BY <2>11 DEF CreateListings
    <2>12. CASE Restart
      BY <2>12 DEF Restart, Fault
    <2>13. CASE UNCHANGED vars
      BY <2>13 DEF vars
    <2> QED
      BY <2>1, <2>2, <2>3, <2>4, <2>5, <2>6, <2>7, <2>8, <2>9, <2>10, <2>11, <2>12, <2>13 DEF Next, Bot
  <1> QED
    BY <1>1, <1>2, PTL DEF Spec

(* The variables keep their types: no sequence of lessons learned from the *)
(* bot's own stamps makes an epoch negative or a stamp drift past one      *)
(* placeholder ahead of the clock (learnGameEpoch, gameNow).               *)
THEOREM TypeCorrect == Spec => []TypeOK
  <1>1. IInv => TypeOK
    BY DEF IInv, Typed
  <1> QED
    BY <1>1, Invariance, PTL

(* As long as no receipt carries the placeholder, the clock learned from   *)
(* player orders and from the bot's own receipts is never ahead of the     *)
(* game's (learnGameEpoch, gameNow).                                       *)
THEOREM NeverAhead == Spec => []ClockNotAhead
  <1>1. IInv => ClockNotAhead
    BY StampSane DEF IInv, Calm, ClockNotAhead
  <1> QED
    BY <1>1, Invariance, PTL

(* As long as no receipt carries the placeholder, a list tick completes    *)
(* only orders whose time has come (expireAndPurgeOrders).                 *)
THEOREM ExpiresOnlyOverdue ==
  Spec => [][~poisoned => \A e \in open \ open' : ExpireOrders => e <= clock]_vars
  <1>1. IInv /\ [Next]_vars
          => [~poisoned => \A e \in open \ open' : ExpireOrders => e <= clock]_vars
    <2> SUFFICES ASSUME IInv, ~poisoned, NEW e \in open \ open', ExpireOrders
                 PROVE  e <= clock
      OBVIOUS
    <2>1. e \in open /\ e <= GameNow
      BY DEF ExpireOrders, Overdue
    <2>2. GameNow \in Int /\ GameNow <= clock
      BY StampSane DEF IInv, Calm
    <2> QED
      BY <2>1, <2>2 DEF IInv, Typed, TypeOK, Expiries
  <1> QED
    BY <1>1, Invariance, PTL DEF Spec
=============================================================================
