--------------------------- MODULE ListSideProofs ---------------------------
(***************************************************************************)
(* What the list side guarantees for every catalog, every quota and any    *)
(* number of outside changes.  While nothing disturbs a tick what it has   *)
(* planned and what is listed add up to the quota of each key at each of   *)
(* its statements; a disturbed tick costs one quota of surplus at most.    *)
(***************************************************************************)
EXTENDS ListSide, FiniteSetTheorems, TLAPS

(* Without failures: orders and items go in pairs, and what stale names is *)
(* gone from the orders before its items are deleted.                      *)
PairInv ==
    faults = 0 =>
        /\ orders \subseteq items
        /\ items \ orders \subseteq IF pc = "items" THEN stale ELSE {}
        /\ pc = "items" => orders \cap stale = {}

(* Until the orders are deleted, every listing the plan calls stale that   *)
(* still exists is listed at a price other than the target.                *)
StaleInv ==
    pc = "orders" =>
        \A i \in stale \cap orders : row[i].price # target[row[i].key]

FiniteInv == IsFiniteSet(orders) /\ IsFiniteSet(pending)

IInv == TypeOK /\ FiniteInv /\ PairInv /\ StaleInv

-----------------------------------------------------------------------------
LEMMA RowTypes ==
    ASSUME NEW r \in Rows
    PROVE  /\ r.key \in Keys /\ r.price \in Prices
           /\ r.stack \in 1 .. StackMax[r.key]
           /\ StackMax[r.key] \in Nat \ {0}
           /\ \A n \in 1 .. StackMax[r.key] : [r EXCEPT !.stack = n] \in Rows
BY ConstantsAssumption DEF Rows

LEMMA FreshRowType ==
    ASSUME TypeOK, NEW k \in Keys
    PROVE  FreshRow(k) \in Rows
BY ConstantsAssumption DEF TypeOK, FreshRow, Rows

LEMMA FaultTypes ==
    ASSUME TypeOK
    PROVE  /\ Fails => /\ faults' \in 0 .. MaxFaults /\ faults' # 0
                       /\ calm' \in BOOLEAN
                       /\ events' \in 0 .. MaxEvents
           /\ Happens => /\ events' \in 0 .. MaxEvents /\ calm' \in BOOLEAN
                         /\ faults' = faults
                         /\ faults' \in 0 .. MaxFaults
<1>1. MaxFaults \in Nat /\ MaxEvents \in Nat
  BY ConstantsAssumption
<1>2. /\ faults \in 0 .. MaxFaults /\ events \in 0 .. MaxEvents
  BY DEF TypeOK
<1>3. Fails => /\ faults' \in 0 .. MaxFaults /\ faults' # 0
               /\ events' \in 0 .. MaxEvents
  BY <1>1, <1>2 DEF Fails
<1>4. Happens => /\ events' \in 0 .. MaxEvents
                 /\ faults' = faults /\ faults' \in 0 .. MaxFaults
  BY <1>1, <1>2 DEF Happens
<1>5. (Fails \/ Happens) => calm' \in BOOLEAN
  BY DEF Fails, Happens
<1> QED
  BY <1>3, <1>4, <1>5

LEMMA RemainingType ==
    ASSUME TypeOK, NEW O, NEW J, O \subseteq orders, J \subseteq items
    PROVE  /\ Remaining(O, J) \in [Ids -> Rows \cup {NoRow}]
           /\ \A i \in O \cup J : Remaining(O, J)[i] = row[i] /\ row[i] \in Rows
<1>1. O \cup J \subseteq Ids /\ \A i \in O \cup J : row[i] \in Rows
  BY DEF TypeOK
<1>2. \A i \in Ids : (IF i \in O \cup J THEN row[i] ELSE NoRow) \in Rows \cup {NoRow}
  BY <1>1
<1>3. \A i \in Ids : Remaining(O, J)[i] = IF i \in O \cup J THEN row[i] ELSE NoRow
  BY DEF Remaining
<1> QED
  BY <1>1, <1>2, <1>3 DEF Remaining

LEMMA InitInv == Init => IInv
<1> SUFFICES ASSUME Init PROVE IInv
  OBVIOUS
<1>1. TypeOK
  <2>1. row \in [Ids -> Rows \cup {NoRow}]
    BY DEF Init
  <2>2. 0 \in 0 .. MaxFaults /\ 0 \in 0 .. MaxEvents /\ DefaultQuota \in Quotas
    BY ConstantsAssumption
  <2> QED
    BY <2>1, <2>2 DEF Init, TypeOK
<1>2. PairInv /\ StaleInv
  BY DEF Init, PairInv, StaleInv
<1>3. FiniteInv
  BY FS_EmptySet DEF Init, FiniteInv
<1> QED
  BY <1>1, <1>2, <1>3 DEF IInv

(* Outside changes never add a row, and leave the columns the plan relies  *)
(* on as they are.                                                         *)
LEMMA OutsideStep ==
    ASSUME IInv,
           \/ \E i \in Ids : PlayerBuysPart(i) \/ ListingLeaves(i)
           \/ DeployWipes \/ PutQuota
    PROVE  IInv'
<1> USE DEF IInv
<1>1. CASE \E i \in Ids : PlayerBuysPart(i)
  <2>1. PICK i \in Ids : PlayerBuysPart(i)
    BY <1>1
  <2>2. PICK n \in 1 .. row[i].stack - 1 : row' = [row EXCEPT ![i].stack = @ - n]
    BY <2>1 DEF PlayerBuysPart
  <2>3. row[i] \in Rows
    BY <2>1 DEF PlayerBuysPart, Listed, TypeOK
  <2>4. row[i].stack - n \in 1 .. StackMax[row[i].key]
    BY <2>2, <2>3, RowTypes
  <2>5. row'[i] = [row[i] EXCEPT !.stack = row[i].stack - n] /\ row'[i] \in Rows
    BY <2>2, <2>3, <2>4, RowTypes DEF TypeOK
  <2>6. row'[i].key = row[i].key /\ row'[i].price = row[i].price
    BY <2>3, <2>5 DEF Rows
  <2>7. \A j \in Ids \ {i} : row'[j] = row[j]
    BY <2>2 DEF TypeOK
  <2>8. TypeOK'
    BY <2>1, <2>2, <2>5, <2>7, FaultTypes DEF TypeOK, PlayerBuysPart, planVars
  <2>9. PairInv' /\ StaleInv'
    BY <2>1, <2>6, <2>7, FaultTypes DEF TypeOK, PairInv, StaleInv, PlayerBuysPart, planVars
  <2>10. FiniteInv'
    BY <2>1 DEF FiniteInv, PlayerBuysPart, planVars
  <2> QED
    BY <2>8, <2>9, <2>10
<1>2. CASE (\E i \in Ids : ListingLeaves(i)) \/ DeployWipes
  <2>1. /\ Happens /\ row' = Remaining(orders', items')
        /\ UNCHANGED <<pc, quota, target, planVars, errCount>>
        /\ orders' \subseteq orders /\ items' \subseteq items
    BY <1>2 DEF ListingLeaves, DeployWipes
  <2>2. faults = 0 => /\ orders' \subseteq items'
                      /\ items' \ orders' \subseteq items \ orders
    BY <1>2 DEF ListingLeaves, DeployWipes, PairInv
  <2>3. \A i \in orders' \cup items' : row'[i] = row[i] /\ row[i] \in Rows
    BY <2>1, RemainingType
  <2>4. TypeOK'
    BY <2>1, RemainingType, FaultTypes DEF TypeOK, planVars
  <2>5. PairInv'
    BY <2>1, <2>2, FaultTypes DEF PairInv, planVars
  <2>6. StaleInv'
    BY <2>1, <2>3 DEF StaleInv, planVars
  <2>7. FiniteInv'
    BY <2>1, FS_Subset DEF FiniteInv, planVars
  <2> QED
    BY <2>4, <2>5, <2>6, <2>7
<1>3. CASE PutQuota
  <2>1. TypeOK'
    BY <1>3, ConstantsAssumption DEF TypeOK, PutQuota, planVars, dbVars
  <2>2. PairInv' /\ StaleInv' /\ FiniteInv'
    BY <1>3 DEF PairInv, StaleInv, FiniteInv, PutQuota, planVars, dbVars
  <2> QED
    BY <2>1, <2>2
<1> QED
  BY <1>1, <1>2, <1>3

(* The load and the plan.                                                  *)
LEMMA PlanTypes ==
    ASSUME IInv, NEW L, L \subseteq Listed, Plan(L)
    PROVE  /\ stale' \subseteq Ids /\ topUps' \subseteq Ids
           /\ pending' \subseteq Keys \X (Nat \ {0})
           /\ IsFiniteSet(pending')
           /\ target' \in [Keys -> Prices] /\ snapQuota' \in Quotas
           /\ \A i \in stale' : row[i].price # target'[row[i].key]
<1>1. L \subseteq Ids /\ IsFiniteSet(L) /\ quota \in Nat
  BY FS_Subset, ConstantsAssumption DEF IInv, TypeOK, FiniteInv, Listed
<1>2. ASSUME NEW k \in Keys
      PROVE  Missing(k, L) \subseteq Keys \X (1 .. quota)
  <2> DEFINE valid == {i \in L : row[i].key = k /\ ~Drifted(i)}
  <2>1. IsFiniteSet(valid)
    BY <1>1, FS_Subset
  <2>2. Cardinality(valid) \in Nat
    BY <2>1, FS_CardinalityType
  <2>3. Missing(k, L) = {<<k, n>> : n \in Cardinality(valid) + 1 .. quota}
    BY DEF Missing
  <2> HIDE DEF valid
  <2>4. \A n \in Cardinality(valid) + 1 .. quota : n \in 1 .. quota
    BY <1>1, <2>2
  <2> QED
    BY <2>3, <2>4
<1>3. pending' \subseteq Keys \X (1 .. quota)
  BY <1>2 DEF Plan
<1>4. IsFiniteSet(Keys \X (1 .. quota))
  <2>1. IsFiniteSet(1 .. quota)
    BY <1>1, FS_Interval
  <2>2. IsFiniteSet(Keys)
    BY ConstantsAssumption
  <2> QED
    BY <2>1, <2>2, FS_Product
<1>5. IsFiniteSet(pending')
  BY <1>3, <1>4, FS_Subset
<1>6. Keys \X (1 .. quota) \subseteq Keys \X (Nat \ {0})
  BY <1>1
<1> QED
  BY <1>1, <1>3, <1>5, <1>6 DEF Plan, Drifted, IInv, TypeOK

LEMMA LoadStep ==
    ASSUME IInv, StartTick \/ LoadTruncated \/ LoadFails
    PROVE  IInv'
<1> USE DEF IInv
<1>1. CASE LoadFails
  <2>1. TypeOK'
    BY <1>1, FaultTypes DEF TypeOK, LoadFails, dbVars, planVars
  <2>2. PairInv' /\ StaleInv' /\ FiniteInv'
    BY <1>1, FaultTypes DEF PairInv, StaleInv, FiniteInv, LoadFails, dbVars, planVars
  <2> QED
    BY <2>1, <2>2
<1>2. CASE StartTick \/ LoadTruncated
  <2>1. PICK L : /\ L \subseteq Listed /\ Plan(L)
                 /\ \/ calm' = TRUE /\ UNCHANGED <<faults, events>>
                    \/ Fails
    BY <1>2 DEF StartTick, LoadTruncated
  <2>2. TypeOK'
    <3>1. /\ faults' \in 0 .. MaxFaults /\ events' \in 0 .. MaxEvents
          /\ calm' \in BOOLEAN
      BY <2>1, FaultTypes DEF TypeOK
    <3> QED
      BY <2>1, <3>1, PlanTypes DEF TypeOK, Plan, dbVars
  <2>3. PairInv'
    <3>1. faults' = 0 => faults = 0
      BY <2>1, FaultTypes
    <3> QED
      BY <2>1, <3>1 DEF PairInv, Plan, dbVars
  <2>4. StaleInv'
    BY <2>1, PlanTypes DEF StaleInv, Plan, dbVars
  <2>5. FiniteInv'
    BY <2>1, PlanTypes DEF FiniteInv, Plan, dbVars
  <2> QED
    BY <2>2, <2>3, <2>4, <2>5
<1> QED
  BY <1>1, <1>2

(* The two deletes and the refill, done or failed.                         *)
LEMMA StatementStep ==
    ASSUME IInv,
           \/ PruneOrders \/ PruneItems \/ Refill
           \/ PruneOrdersFails \/ PruneItemsFails \/ RefillFails
    PROVE  IInv'
<1> USE DEF IInv
<1>1. CASE PruneOrders \/ PruneItems
  <2>1. /\ orders' \subseteq orders /\ items' \subseteq items
        /\ row' = Remaining(orders', items')
    BY <1>1 DEF PruneOrders, PruneItems
  <2>2. TypeOK'
    BY <1>1, <2>1, RemainingType
    DEF TypeOK, PruneOrders, PruneItems, StatementDone, planVars, countVars
  <2>3. PairInv'
    BY <1>1 DEF PairInv, PruneOrders, PruneItems, StatementDone, planVars, countVars
  <2>4. StaleInv'
    BY <1>1 DEF StaleInv, PruneOrders, PruneItems, StatementDone
  <2>5. FiniteInv'
    BY <1>1, <2>1, FS_Subset
    DEF FiniteInv, PruneOrders, PruneItems, StatementDone, planVars
  <2> QED
    BY <2>2, <2>3, <2>4, <2>5
<1>2. CASE Refill
  <2>1. \A i \in topUps \cap items :
           row[i] \in Rows /\ [row[i] EXCEPT !.stack = FullStack(i)] \in Rows
    BY RowTypes DEF TypeOK, FullStack
  <2>2. \A i \in Ids : /\ row'[i] = IF i \in topUps \cap items
                                     THEN [row[i] EXCEPT !.stack = FullStack(i)]
                                     ELSE row[i]
                       /\ row'[i] \in Rows \cup {NoRow}
                       /\ row[i] \in Rows => row'[i] \in Rows
    BY <1>2, <2>1 DEF TypeOK, Refill
  <2>3. TypeOK'
    BY <1>2, <2>2 DEF TypeOK, Refill, StatementDone, planVars, countVars
  <2>4. PairInv' /\ StaleInv' /\ FiniteInv'
    BY <1>2 DEF PairInv, StaleInv, FiniteInv, Refill, StatementDone, planVars, countVars
  <2> QED
    BY <2>3, <2>4
<1>3. CASE PruneOrdersFails \/ PruneItemsFails \/ RefillFails
  <2>1. /\ Fails /\ UNCHANGED <<dbVars, quota, target, planVars, errCount>>
        /\ pc' \in {"items", "refill", "insert"}
    BY <1>3 DEF PruneOrdersFails, PruneItemsFails, RefillFails, StatementIgnored
  <2>2. TypeOK'
    BY <2>1, FaultTypes DEF TypeOK, dbVars, planVars
  <2>3. PairInv' /\ StaleInv' /\ FiniteInv'
    BY <2>1, FaultTypes DEF PairInv, StaleInv, FiniteInv, dbVars, planVars
  <2> QED
    BY <2>2, <2>3
<1> QED
  BY <1>1, <1>2, <1>3

(* What an insert of batch B under fresh ids does to the rows.             *)
LEMMA InsertedRows ==
    ASSUME TypeOK, NEW B \in SUBSET pending,
           NEW id \in Injection(B, Ids \ (orders \cup items)),
           InsertAs(B, id)
    PROVE  /\ NewIds(B, id) \subseteq Ids \ (orders \cup items)
           /\ \A p \in B : /\ p[1] \in Keys
                           /\ row'[id[p]] = FreshRow(p[1])
                           /\ row'[id[p]] \in Rows
           /\ \A i \in Ids \ NewIds(B, id) : row'[i] = row[i]
           /\ row' \in [Ids -> Rows \cup {NoRow}]
<1>1. /\ id \in [B -> Ids \ (orders \cup items)]
      /\ \A p, q \in B : id[p] = id[q] => p = q
  BY DEF Injection, IsInjective
<1>2. NewIds(B, id) \subseteq Ids \ (orders \cup items)
  BY <1>1 DEF NewIds
<1>3. ASSUME NEW p \in B
      PROVE  /\ p[1] \in Keys /\ row'[id[p]] = FreshRow(p[1])
             /\ row'[id[p]] \in Rows
  <2>1. p[1] \in Keys
    BY DEF TypeOK
  <2>2. (CHOOSE q \in B : id[q] = id[p]) = p
    BY <1>1
  <2>3. id[p] \in NewIds(B, id) /\ id[p] \in Ids
    BY <1>1 DEF NewIds
  <2>4. row'[id[p]] = FreshRow((CHOOSE q \in B : id[q] = id[p])[1])
    BY <2>3 DEF InsertAs
  <2> QED
    BY <2>1, <2>2, <2>4, FreshRowType
<1>4. \A i \in Ids \ NewIds(B, id) : row'[i] = row[i]
  BY DEF InsertAs
<1>5. \A i \in Ids : row'[i] \in Rows \cup {NoRow}
  BY <1>3, <1>4 DEF TypeOK, NewIds
<1> QED
  BY <1>2, <1>3, <1>4, <1>5 DEF InsertAs

LEMMA NewIdsFinite ==
    ASSUME NEW B, IsFiniteSet(B), NEW S, NEW id \in Injection(B, S)
    PROVE  IsFiniteSet(NewIds(B, id)) /\ Cardinality(NewIds(B, id)) = Cardinality(B)
<1>1. /\ id \in [B -> NewIds(B, id)] /\ IsInjective(id)
      /\ \A i \in NewIds(B, id) : \E p \in B : id[p] = i
  BY DEF Injection, NewIds
<1>2. id \in Surjection(B, NewIds(B, id)) /\ id \in Injection(B, NewIds(B, id))
  BY <1>1 DEF Surjection, Injection
<1> QED
  BY <1>2, FS_Surjection

LEMMA BatchStep ==
    ASSUME IInv, InsertBatch \/ BatchFails
    PROVE  IInv'
<1> USE DEF IInv
<1>1. CASE InsertBatch
  <2>0. PICK B \in SUBSET pending :
           /\ AfterBatch(B) /\ UNCHANGED <<errs, countVars>>
           /\ \E id \in Injection(B, Ids \ (orders \cup items)) : InsertAs(B, id)
    BY <1>1 DEF InsertBatch
  <2>1. PICK id \in Injection(B, Ids \ (orders \cup items)) :
           AfterBatch(B) /\ InsertAs(B, id) /\ UNCHANGED <<errs, countVars>>
    BY <2>0
  <2> DEFINE new == NewIds(B, id)
  <2>2. /\ new \subseteq Ids \ (orders \cup items)
        /\ \A p \in B : p[1] \in Keys /\ row'[id[p]] \in Rows
        /\ \A i \in Ids \ new : row'[i] = row[i]
        /\ row' \in [Ids -> Rows \cup {NoRow}]
    BY <2>1, InsertedRows
  <2>3. \A i \in new : row'[i] \in Rows
    BY <2>2 DEF NewIds
  <2>4. orders' = orders \cup new /\ items' = items \cup new
    BY <2>1 DEF InsertAs
  <2>5. IsFiniteSet(B)
    BY FS_Subset DEF FiniteInv
  <2>6. IsFiniteSet(new)
    BY <2>5, NewIdsFinite
  <2> HIDE DEF new
  <2>7. TypeOK'
    BY <2>1, <2>2, <2>3, <2>4 DEF TypeOK, AfterBatch, countVars
  <2>8. PairInv' /\ StaleInv'
    BY <2>1, <2>4 DEF PairInv, StaleInv, AfterBatch, countVars
  <2>9. FiniteInv'
    BY <2>1, <2>4, <2>6, FS_Union, FS_Subset DEF FiniteInv, AfterBatch
  <2> QED
    BY <2>7, <2>8, <2>9
<1>2. CASE BatchFails
  <2>1. PICK B \in SUBSET pending :
          /\ AfterBatch(B) /\ Fails /\ UNCHANGED dbVars
          /\ errs' \in {errs + Cardinality(B), errs + 1, errs}
    BY <1>2 DEF BatchFails
  <2>2. IsFiniteSet(B) /\ Cardinality(B) \in Nat
    BY FS_Subset, FS_CardinalityType DEF FiniteInv
  <2>3. errs' \in Nat
    BY <2>1, <2>2 DEF TypeOK
  <2>4. TypeOK'
    BY <2>1, <2>3, FaultTypes DEF TypeOK, AfterBatch, dbVars
  <2>5. PairInv' /\ StaleInv'
    BY <2>1, FaultTypes DEF PairInv, StaleInv, AfterBatch, dbVars
  <2>6. FiniteInv'
    BY <2>1, FS_Subset DEF FiniteInv, AfterBatch, dbVars
  <2> QED
    BY <2>4, <2>5, <2>6
<1> QED
  BY <1>1, <1>2

LEMMA ProcessStep ==
    ASSUME IInv, Finish \/ Crash \/ Restart \/ UNCHANGED vars
    PROVE  IInv'
<1> USE DEF IInv
<1>1. CASE Finish
  <2>1. TypeOK'
    BY <1>1 DEF TypeOK, Finish, dbVars, countVars
  <2> QED
    BY <1>1, <2>1 DEF PairInv, StaleInv, FiniteInv, Finish, dbVars, countVars
<1>2. CASE Crash
  <2>1. faults' \in 0 .. MaxFaults /\ faults' # 0
    BY <1>2, ConstantsAssumption DEF TypeOK, Crash
  <2>2. TypeOK'
    BY <1>2, <2>1 DEF TypeOK, Crash, dbVars
  <2>3. PairInv' /\ StaleInv'
    BY <1>2, <2>1 DEF PairInv, StaleInv, Crash, dbVars
  <2>4. FiniteInv'
    BY <1>2, FS_EmptySet DEF FiniteInv, Crash, dbVars
  <2> QED
    BY <2>2, <2>3, <2>4
<1>3. CASE Restart
  <2>1. TypeOK'
    BY <1>3, ConstantsAssumption DEF TypeOK, Restart, dbVars
  <2> QED
    BY <1>3, <2>1 DEF PairInv, StaleInv, FiniteInv, Restart, dbVars
<1>4. CASE UNCHANGED vars
  <2>1. TypeOK'
    BY <1>4 DEF TypeOK, vars, dbVars, planVars, countVars
  <2> QED
    BY <1>4, <2>1 DEF PairInv, StaleInv, FiniteInv, vars, dbVars, planVars, countVars
<1> QED
  BY <1>1, <1>2, <1>3, <1>4

LEMMA StepInv == IInv /\ [Next]_vars => IInv'
BY OutsideStep, LoadStep, StatementStep, BatchStep, ProcessStep DEF Next

LEMMA Inductive == Spec => []IInv
BY InitInv, StepInv, PTL DEF Spec

-----------------------------------------------------------------------------
(* Every variable of the list side keeps its type; in particular every     *)
(* order and every item of the bot has a well-formed row.                  *)
THEOREM TypeCorrect == Spec => []TypeOK
<1>1. IInv => TypeOK
  BY DEF IInv
<1> QED
  BY <1>1, Inductive, PTL

(* As long as nothing fails, no purchase, removal or wipe at any moment of *)
(* a tick leaves an order without its item or an item without its order.   *)
THEOREM FaultFreeRunsLeaveNoOrphans == Spec => []NoOrphansWithoutFaults
<1>1. IInv => NoOrphansWithoutFaults
  BY DEF IInv, PairInv, NoOrphansWithoutFaults
<1> QED
  BY <1>1, Inductive, PTL

(* The bot never deletes one of its orders that is listed at the price the *)
(* running tick wants.                                                     *)
THEOREM PrunesOnlyStale == Spec => OnlyStalePruned
<1>1. IInv /\ [Next]_vars =>
        [PruneOrders => \A i \in orders \ orders' : row[i].price # target[row[i].key]]_vars
  BY DEF IInv, StaleInv, PruneOrders, StatementDone
<1> QED
  BY <1>1, Inductive, PTL DEF Spec, OnlyStalePruned

-----------------------------------------------------------------------------
(* A tick nobody disturbs keeps its promise in every statement: what is    *)
(* listed at the target price and what is owed add up to the quota, and    *)
(* every listing is in order but those a later statement will see to.      *)
Owed(k) == {p \in pending : p[1] = k}
AtTarget(k) == {i \in ListedFor(k) : row[i].price = target[k]}

Priced(i) == row[i].price = target[row[i].key]
Full(i) == row[i].stack = StackMax[row[i].key]
ToRefill(i) == pc \in {"orders", "items", "refill"} /\ i \in topUps
ToPrune(i) == pc = "orders" /\ i \in stale

IdleInv == pc \in {"idle", "down"} => pending = {} /\ stale = {}

RestockInv ==
    calm =>
        /\ pc # "down"
        /\ pc = "items" => orders \cap stale = {}
        /\ \A i \in Listed : ToPrune(i) \/ (Priced(i) /\ (Full(i) \/ ToRefill(i)))
        /\ \A k \in Keys : Cardinality(AtTarget(k)) + Cardinality(Owed(k)) >= snapQuota

LEMMA ListedRows ==
    ASSUME TypeOK, NEW i \in Listed
    PROVE  i \in Ids /\ row[i] \in Rows
BY DEF TypeOK, Listed

LEMMA RestockSetsFinite ==
    ASSUME IInv, NEW k
    PROVE  /\ IsFiniteSet(AtTarget(k)) /\ Cardinality(AtTarget(k)) \in Nat
           /\ IsFiniteSet(Owed(k)) /\ Cardinality(Owed(k)) \in Nat
<1>1. AtTarget(k) \subseteq orders /\ Owed(k) \subseteq pending
  BY DEF AtTarget, Owed, ListedFor, Listed
<1>2. IsFiniteSet(orders) /\ IsFiniteSet(pending)
  BY DEF IInv, FiniteInv
<1> QED
  BY <1>1, <1>2, FS_Subset, FS_CardinalityType

LEMMA DisjointUnion ==
    ASSUME NEW S, NEW T, IsFiniteSet(S), IsFiniteSet(T), S \cap T = {}
    PROVE  /\ IsFiniteSet(S \cup T)
           /\ Cardinality(S \cup T) = Cardinality(S) + Cardinality(T)
<1>1. Cardinality(S \cap T) = 0
  BY FS_EmptySet
<1>2. Cardinality(S) \in Nat /\ Cardinality(T) \in Nat
  BY FS_CardinalityType
<1>3. /\ IsFiniteSet(S \cup T)
      /\ Cardinality(S \cup T) = Cardinality(S) + Cardinality(T) - Cardinality(S \cap T)
  BY FS_Union
<1> QED
  BY <1>1, <1>2, <1>3

(* The numbers n of the listings <<k, n>> still missing are as many as the *)
(* listings.                                                               *)
LEMMA NumberedListings ==
    ASSUME NEW k, NEW a \in Int, NEW b \in Int
    PROVE  /\ IsFiniteSet({<<k, n>> : n \in a .. b})
           /\ Cardinality({<<k, n>> : n \in a .. b}) = IF a > b THEN 0 ELSE b - a + 1
<1> DEFINE S == {<<k, n>> : n \in a .. b}
           f == [n \in a .. b |-> <<k, n>>]
<1>1. f \in Surjection(a .. b, S) /\ f \in Injection(a .. b, S)
  <2>1. f \in [a .. b -> S] /\ \A s \in S : \E n \in a .. b : f[n] = s
    OBVIOUS
  <2>2. \A m, n \in a .. b : f[m] = f[n] => m = n
    OBVIOUS
  <2> QED
    BY <2>1, <2>2 DEF Surjection, Injection, IsInjective
<1>2. IsFiniteSet(a .. b) /\ Cardinality(a .. b) = IF a > b THEN 0 ELSE b - a + 1
  BY FS_Interval
<1> HIDE DEF f, S
<1>3. IsFiniteSet(S) /\ Cardinality(S) = Cardinality(a .. b)
  BY <1>1, <1>2, FS_Surjection
<1> QED
  BY <1>2, <1>3 DEF S

(* What the plan owes a key is what the quota lacks of undrifted listings. *)
LEMMA OwedByPlan ==
    ASSUME IInv, NEW L, L \subseteq Listed, Plan(L), NEW k \in Keys
    PROVE  LET valid == {i \in L : row[i].key = k /\ ~Drifted(i)}
           IN  /\ IsFiniteSet(valid) /\ Cardinality(valid) \in Nat
               /\ IsFiniteSet(Owed(k)')
               /\ Cardinality(Owed(k)') = IF Cardinality(valid) >= quota THEN 0
                                          ELSE quota - Cardinality(valid)
<1> DEFINE valid == {i \in L : row[i].key = k /\ ~Drifted(i)}
<1>1. IsFiniteSet(valid) /\ Cardinality(valid) \in Nat
  <2>1. valid \subseteq orders /\ IsFiniteSet(orders)
    BY DEF IInv, FiniteInv, Listed
  <2> QED
    BY <2>1, FS_Subset, FS_CardinalityType
<1>2. quota \in Nat
  BY ConstantsAssumption DEF IInv, TypeOK
<1>3. Owed(k)' = {<<k, n>> : n \in Cardinality(valid) + 1 .. quota}
  <2>1. pending' = UNION {Missing(j, L) : j \in Keys}
    BY DEF Plan
  <2>2. ASSUME NEW j \in Keys, NEW p \in Missing(j, L)
        PROVE  p[1] = j
    <3>1. \E n : p = <<j, n>>
      BY DEF Missing
    <3> QED
      BY <3>1
  <2>3. Owed(k)' = Missing(k, L)
    BY <2>1, <2>2 DEF Owed
  <2> QED
    BY <2>3 DEF Missing
<1> HIDE DEF valid
<1>4. /\ IsFiniteSet(Owed(k)')
      /\ Cardinality(Owed(k)') = IF Cardinality(valid) + 1 > quota THEN 0
                                 ELSE quota - (Cardinality(valid) + 1) + 1
  <2> DEFINE a == Cardinality(valid) + 1
             S == {<<k, n>> : n \in a .. quota}
  <2>1. a \in Int /\ quota \in Int
    BY <1>1, <1>2
  <2> HIDE DEF a
  <2>2. /\ IsFiniteSet(S)
        /\ Cardinality(S) = IF a > quota THEN 0 ELSE quota - a + 1
    BY <2>1, NumberedListings
  <2>3. Owed(k)' = S
    BY <1>3 DEF a
  <2> QED
    BY <2>2, <2>3 DEF a
<1>5. Cardinality(Owed(k)') = IF Cardinality(valid) >= quota THEN 0
                              ELSE quota - Cardinality(valid)
  BY <1>1, <1>2, <1>4
<1> QED
  BY <1>1, <1>4, <1>5 DEF valid

LEMMA InitRestock == Init => IdleInv /\ RestockInv
BY DEF Init, IdleInv, RestockInv

LEMMA IdleStep ==
    ASSUME IdleInv, [Next]_vars
    PROVE  IdleInv'
<1>1. CASE StartTick \/ LoadTruncated \/ LoadFails
  BY <1>1 DEF IdleInv, StartTick, LoadTruncated, LoadFails, Plan, planVars
<1>2. CASE PruneOrders \/ PruneItems \/ Refill
  BY <1>2 DEF IdleInv, PruneOrders, PruneItems, Refill, StatementDone
<1>3. CASE PruneOrdersFails \/ PruneItemsFails \/ RefillFails
  BY <1>3 DEF IdleInv, PruneOrdersFails, PruneItemsFails, RefillFails, StatementIgnored
<1>4. CASE InsertBatch \/ BatchFails \/ Finish \/ Crash \/ Restart
  BY <1>4 DEF IdleInv, InsertBatch, BatchFails, AfterBatch, Finish, Crash, Restart
<1>5. CASE \/ \E i \in Ids : PlayerBuysPart(i) \/ ListingLeaves(i)
           \/ DeployWipes \/ PutQuota \/ UNCHANGED vars
  BY <1>5 DEF IdleInv, PlayerBuysPart, ListingLeaves, DeployWipes, PutQuota, planVars, vars
<1> QED
  BY <1>1, <1>2, <1>3, <1>4, <1>5 DEF Next

(* The tick is calm only until something fails or interferes.              *)
LEMMA CalmSteps ==
    ASSUME RestockInv, [Next]_vars, calm'
    PROVE  \/ StartTick
           \/ /\ calm
              /\ PutQuota \/ PruneOrders \/ PruneItems \/ Refill
                  \/ InsertBatch \/ Finish \/ UNCHANGED vars
<1>1. ~(Fails \/ Happens)
  BY DEF Fails, Happens
<1>2. ~(LoadTruncated \/ LoadFails \/ BatchFails \/ DeployWipes)
  BY <1>1 DEF LoadTruncated, LoadFails, BatchFails, DeployWipes
<1>3. ~(PruneOrdersFails \/ PruneItemsFails \/ RefillFails)
  BY <1>1 DEF PruneOrdersFails, PruneItemsFails, RefillFails, StatementIgnored
<1>4. ~\E i \in Ids : PlayerBuysPart(i) \/ ListingLeaves(i)
  BY <1>1 DEF PlayerBuysPart, ListingLeaves
<1>5. ~(Crash \/ Restart)
  BY DEF Crash, Restart, RestockInv
<1>6. PutQuota \/ Finish \/ InsertBatch \/ UNCHANGED vars => calm' = calm
  BY DEF PutQuota, Finish, InsertBatch, countVars, vars
<1>7. PruneOrders \/ PruneItems \/ Refill => calm' = calm
  BY DEF PruneOrders, PruneItems, Refill, StatementDone, countVars
<1> QED
  BY <1>2, <1>3, <1>4, <1>5, <1>6, <1>7 DEF Next

(* What a step that keeps the plan must leave of the listings.             *)
LEMMA PromiseKept ==
    ASSUME IInv, IInv', RestockInv, calm,
           UNCHANGED <<pending, snapQuota>>,
           \A k \in Keys : AtTarget(k) \subseteq AtTarget(k)'
    PROVE  \A k \in Keys : Cardinality(AtTarget(k)') + Cardinality(Owed(k)') >= snapQuota'
<1> SUFFICES ASSUME NEW k \in Keys
             PROVE  Cardinality(AtTarget(k)') + Cardinality(Owed(k)') >= snapQuota'
  OBVIOUS
<1>1. Owed(k)' = Owed(k) /\ snapQuota' = snapQuota /\ snapQuota \in Nat
  BY ConstantsAssumption DEF Owed, IInv, TypeOK
<1>2. /\ Cardinality(AtTarget(k)) \in Nat /\ Cardinality(Owed(k)) \in Nat
      /\ Cardinality(AtTarget(k)) + Cardinality(Owed(k)) >= snapQuota
  BY RestockSetsFinite DEF RestockInv
<1>3. IsFiniteSet(AtTarget(k)')
  <2>1. AtTarget(k)' \subseteq orders' /\ IsFiniteSet(orders')
    BY DEF AtTarget, ListedFor, Listed, IInv, FiniteInv
  <2> QED
    BY <2>1, FS_Subset
<1>4. /\ Cardinality(AtTarget(k)) <= Cardinality(AtTarget(k)')
      /\ Cardinality(AtTarget(k)') \in Nat
  BY <1>3, FS_Subset, FS_CardinalityType
<1> QED
  BY <1>1, <1>2, <1>4

(* The plan of a complete load.                                            *)
LEMMA CalmLoad ==
    ASSUME IInv, StartTick
    PROVE  RestockInv'
<1>0. /\ Plan(Listed) /\ pc' = "orders" /\ snapQuota' = quota
      /\ UNCHANGED <<orders, items, row>>
      /\ stale' = {i \in Listed : Drifted(i)}
      /\ topUps' = {i \in Listed : ~Drifted(i) /\ Depleted(i)}
  BY DEF StartTick, Plan, dbVars
<1>1. ASSUME NEW i \in Listed'
      PROVE  ToPrune(i)' \/ (Priced(i)' /\ (Full(i)' \/ ToRefill(i)'))
  <2>1. i \in Listed /\ row'[i] = row[i] /\ row[i] \in Rows
    BY <1>0, ListedRows DEF Listed, IInv
  <2>2. ~Depleted(i) => Full(i)'
    BY <2>1, RowTypes DEF Depleted, Full
  <2> QED
    BY <1>0, <2>1, <2>2 DEF ToPrune, Priced, ToRefill, Drifted
<1>2. ASSUME NEW k \in Keys
      PROVE  Cardinality(AtTarget(k)') + Cardinality(Owed(k)') >= snapQuota'
  <2> DEFINE valid == {i \in Listed : row[i].key = k /\ ~Drifted(i)}
  <2>1. AtTarget(k)' = valid
    BY <1>0 DEF AtTarget, ListedFor, Listed, Drifted
  <2>2. /\ Cardinality(valid) \in Nat
        /\ Cardinality(Owed(k)') = IF Cardinality(valid) >= quota THEN 0
                                   ELSE quota - Cardinality(valid)
    BY <1>0, OwedByPlan
  <2>3. quota \in Nat
    BY ConstantsAssumption DEF IInv, TypeOK
  <2> HIDE DEF valid
  <2> QED
    BY <1>0, <2>1, <2>2, <2>3
<1> QED
  BY <1>0, <1>1, <1>2 DEF RestockInv

(* Deleting what the plan calls stale touches no listing at its target.    *)
LEMMA CalmPrune ==
    ASSUME IInv, IInv', RestockInv, calm, PruneOrders \/ PruneItems
    PROVE  RestockInv'
<1>0. /\ UNCHANGED <<quota, target, planVars>> /\ calm' = calm
      /\ row' = Remaining(orders', items')
      /\ orders' \subseteq orders /\ items' \subseteq items
      /\ orders' \cap stale = {} /\ pc' \in {"items", "refill"}
      /\ pc \in {"orders", "items"}
      /\ Listed' = Listed \ stale
  BY DEF PruneOrders, PruneItems, StatementDone, countVars, RestockInv, Listed
<1>1. \A i \in Listed' : i \in Listed \ stale /\ row'[i] = row[i]
  BY <1>0, RemainingType DEF Listed, IInv
<1>2. \A i \in Listed' : Priced(i)' /\ (Full(i)' \/ ToRefill(i)')
  BY <1>0, <1>1 DEF RestockInv, ToPrune, Priced, Full, ToRefill, planVars
<1>3. ASSUME NEW k \in Keys, NEW i \in AtTarget(k)
      PROVE  i \in AtTarget(k)'
  <2>1. i \in Listed /\ row[i].key = k /\ row[i].price = target[k]
    BY DEF AtTarget, ListedFor
  <2>2. i \notin stale
    BY <1>0, <2>1 DEF IInv, StaleInv, RestockInv, Listed
  <2>3. i \in Listed' /\ row'[i] = row[i]
    BY <1>0, <1>1, <2>1, <2>2
  <2> QED
    BY <1>0, <2>1, <2>3 DEF AtTarget, ListedFor
<1>4. \A k \in Keys : Cardinality(AtTarget(k)') + Cardinality(Owed(k)') >= snapQuota'
  BY <1>0, <1>3, PromiseKept DEF planVars
<1> QED
  BY <1>0, <1>2, <1>4 DEF RestockInv, planVars

(* The refill tops up every listing that is not full.                      *)
LEMMA CalmRefill ==
    ASSUME IInv, IInv', RestockInv, calm, Refill
    PROVE  RestockInv'
<1>0. /\ pc = "refill" /\ pc' = "insert" /\ calm' = calm
      /\ UNCHANGED <<orders, items, quota, target, planVars>>
      /\ Listed' = Listed
  BY DEF Refill, StatementDone, countVars, Listed
<1>1. \A i \in Listed :
         /\ row'[i] = IF i \in topUps THEN [row[i] EXCEPT !.stack = FullStack(i)] ELSE row[i]
         /\ row[i] \in Rows
  BY ListedRows DEF Refill, IInv, Listed
<1>2. ASSUME NEW i \in Listed
      PROVE  /\ row'[i].key = row[i].key /\ row'[i].price = row[i].price
             /\ i \in topUps => row'[i].stack = StackMax[row[i].key]
  <2>1. PICK k \in Keys : row[i] \in [key : {k}, price : Prices, stack : 1 .. StackMax[k]]
    BY <1>1 DEF Rows
  <2>2. row[i] = [key |-> row[i].key, price |-> row[i].price, stack |-> row[i].stack]
    BY <2>1
  <2> QED
    BY <1>1, <2>2 DEF FullStack
<1>3. \A i \in Listed' : Priced(i)' /\ Full(i)'
  BY <1>0, <1>1, <1>2 DEF RestockInv, ToPrune, Priced, Full, ToRefill
<1>4. \A k \in Keys : AtTarget(k) \subseteq AtTarget(k)'
  BY <1>0, <1>2 DEF AtTarget, ListedFor
<1>5. \A k \in Keys : Cardinality(AtTarget(k)') + Cardinality(Owed(k)') >= snapQuota'
  BY <1>0, <1>4, PromiseKept DEF planVars
<1> QED
  BY <1>0, <1>3, <1>5 DEF RestockInv, planVars

(* A committed batch turns what is owed into listings, one for one.        *)
Created(k, B, id) == NewIds({p \in B : p[1] = k}, id)

LEMMA BatchCounts ==
    ASSUME IInv, NEW B \in SUBSET pending,
           NEW id \in Injection(B, Ids \ (orders \cup items)),
           InsertAs(B, id), pending' = pending \ B, NEW k \in Keys
    PROVE  /\ Created(k, B, id) \subseteq Ids \ (orders \cup items)
           /\ Created(k, B, id) \subseteq NewIds(B, id)
           /\ \A i \in Created(k, B, id) : row'[i].key = k
           /\ \A i \in NewIds(B, id) \ Created(k, B, id) : row'[i].key # k
           /\ IsFiniteSet(Created(k, B, id)) /\ Cardinality(Created(k, B, id)) \in Nat
           /\ Cardinality(Owed(k)') = Cardinality(Owed(k)) - Cardinality(Created(k, B, id))
<1> DEFINE part == {p \in B : p[1] = k}
           created == NewIds(part, id)
<1>1. part \subseteq Owed(k) /\ Owed(k)' = Owed(k) \ part /\ part \subseteq B
  BY DEF Owed
<1>2. /\ NewIds(B, id) \subseteq Ids \ (orders \cup items)
      /\ \A p \in B : p[1] \in Keys /\ row'[id[p]] = FreshRow(p[1])
  BY InsertedRows DEF IInv
<1>3. created \subseteq NewIds(B, id)
  BY DEF NewIds
<1>4. ASSUME NEW i \in created
      PROVE  row'[i].key = k
  <2>1. PICK p \in part : i = id[p]
    BY DEF NewIds
  <2>2. row'[i] = [key |-> k, price |-> target[k], stack |-> StackMax[k]]
    BY <1>2, <2>1 DEF FreshRow
  <2> QED
    BY <2>2
<1>5. ASSUME NEW i \in NewIds(B, id) \ created
      PROVE  row'[i].key # k
  <2>1. PICK p \in B : i = id[p] /\ p[1] # k
    BY DEF NewIds
  <2>2. row'[i] = [key |-> p[1], price |-> target[p[1]], stack |-> StackMax[p[1]]]
    BY <1>2, <2>1 DEF FreshRow
  <2> QED
    BY <2>1, <2>2
<1>6. [p \in part |-> id[p]] \in Injection(part, Ids)
  BY DEF Injection, IsInjective
<1>7. created = NewIds(part, [p \in part |-> id[p]])
  BY DEF NewIds
<1> HIDE DEF part, created
<1>8. IsFiniteSet(part) /\ Cardinality(part) \in Nat
  BY <1>1, RestockSetsFinite, FS_Subset, FS_CardinalityType
<1>9. Cardinality(Owed(k)') = Cardinality(Owed(k)) - Cardinality(part)
  <2>1. Owed(k) \cap part = part
    BY <1>1
  <2> QED
    BY <1>1, <2>1, RestockSetsFinite, FS_Difference
<1>10. IsFiniteSet(created) /\ Cardinality(created) = Cardinality(part)
  BY <1>6, <1>7, <1>8, NewIdsFinite
<1> QED
  BY <1>2, <1>3, <1>4, <1>5, <1>8, <1>9, <1>10 DEF created, part, Created

LEMMA CalmBatch ==
    ASSUME IInv, IInv', RestockInv, calm, InsertBatch
    PROVE  RestockInv'
<1>1. PICK B \in SUBSET pending :
         /\ AfterBatch(B) /\ UNCHANGED <<errs, countVars>>
         /\ \E id \in Injection(B, Ids \ (orders \cup items)) : InsertAs(B, id)
  BY DEF InsertBatch
<1>2. PICK id \in Injection(B, Ids \ (orders \cup items)) : InsertAs(B, id)
  BY <1>1
<1> DEFINE new == NewIds(B, id)
<1>3. /\ new \subseteq Ids \ (orders \cup items)
      /\ \A p \in B : p[1] \in Keys /\ row'[id[p]] = FreshRow(p[1])
      /\ \A i \in Ids \ new : row'[i] = row[i]
  BY <1>2, InsertedRows DEF IInv
<1>4. /\ pc = "insert" /\ pc' = "insert" /\ calm' = calm
      /\ UNCHANGED <<target, snapQuota, stale, topUps>>
      /\ pending' = pending \ B
      /\ orders' = orders \cup new /\ items' = items \cup new
  BY <1>1, <1>2 DEF AfterBatch, InsertAs, countVars
<1>5. Listed' = Listed \cup new
  BY <1>4 DEF Listed
<1>6. \A i \in Listed : row'[i] = row[i]
  BY <1>3, ListedRows DEF Listed, IInv
<1>7. \A i \in new : \E p \in B : i = id[p] /\ row'[i] = FreshRow(p[1])
  BY <1>3 DEF NewIds
<1> HIDE DEF new
<1>8. \A i \in Listed' : Priced(i)' /\ Full(i)'
  <2>1. \A i \in Listed : Priced(i)' /\ Full(i)'
    BY <1>4, <1>6 DEF RestockInv, ToPrune, Priced, Full, ToRefill
  <2>2. ASSUME NEW i \in new
        PROVE  Priced(i)' /\ Full(i)'
    <3>1. PICK p \in B : row'[i] = [key |-> p[1], price |-> target[p[1]], stack |-> StackMax[p[1]]]
      BY <1>7 DEF FreshRow
    <3> QED
      BY <1>4, <3>1 DEF Priced, Full
  <2> QED
    BY <1>5, <2>1, <2>2
<1>9. ASSUME NEW k \in Keys
      PROVE  Cardinality(AtTarget(k)') + Cardinality(Owed(k)') >= snapQuota'
  <2> DEFINE created == Created(k, B, id)
  <2>1. /\ created \subseteq Ids \ (orders \cup items) /\ created \subseteq new
        /\ \A i \in created : row'[i] = FreshRow(k)
        /\ IsFiniteSet(created) /\ Cardinality(created) \in Nat
        /\ Cardinality(Owed(k)') = Cardinality(Owed(k)) - Cardinality(created)
    <3>1. \A i \in created : row'[i] = FreshRow(k)
      BY <1>3 DEF NewIds, Created
    <3> HIDE DEF created
    <3>2. /\ created \subseteq Ids \ (orders \cup items) /\ created \subseteq new
          /\ IsFiniteSet(created) /\ Cardinality(created) \in Nat
          /\ Cardinality(Owed(k)') = Cardinality(Owed(k)) - Cardinality(created)
      BY <1>2, <1>4, BatchCounts DEF new, created
    <3> QED
      BY <3>1, <3>2
  <2> HIDE DEF created
  <2>2. created \subseteq AtTarget(k)'
    BY <1>4, <1>5, <2>1 DEF AtTarget, ListedFor, FreshRow
  <2>3. AtTarget(k) \subseteq AtTarget(k)' /\ AtTarget(k) \cap created = {}
    <3>1. AtTarget(k) \subseteq AtTarget(k)'
      BY <1>4, <1>5, <1>6 DEF AtTarget, ListedFor
    <3> QED
      BY <2>1, <3>1 DEF AtTarget, ListedFor, Listed
  <2>6. Cardinality(AtTarget(k) \cup created)
          = Cardinality(AtTarget(k)) + Cardinality(created)
    BY <2>1, <2>3, RestockSetsFinite, DisjointUnion
  <2>7. Cardinality(AtTarget(k) \cup created) <= Cardinality(AtTarget(k)')
    <3>1. AtTarget(k)' \subseteq orders' /\ IsFiniteSet(orders')
      BY DEF AtTarget, ListedFor, Listed, IInv, FiniteInv
    <3>2. IsFiniteSet(AtTarget(k)')
      BY <3>1, FS_Subset
    <3> QED
      BY <2>2, <2>3, <3>2, FS_Subset
  <2>8. Cardinality(AtTarget(k)') \in Nat
    <3>1. AtTarget(k)' \subseteq orders' /\ IsFiniteSet(orders')
      BY DEF AtTarget, ListedFor, Listed, IInv, FiniteInv
    <3> QED
      BY <3>1, FS_Subset, FS_CardinalityType
  <2>9. /\ Cardinality(AtTarget(k)) + Cardinality(Owed(k)) >= snapQuota
        /\ snapQuota' = snapQuota /\ snapQuota \in Nat
    BY <1>4, ConstantsAssumption DEF RestockInv, IInv, TypeOK
  <2>10. Cardinality(AtTarget(k)) \in Nat /\ Cardinality(Owed(k)) \in Nat
    BY RestockSetsFinite
  <2> QED
    BY <2>1, <2>6, <2>7, <2>8, <2>9, <2>10
<1> QED
  BY <1>4, <1>8, <1>9 DEF RestockInv

(* The quota of a running tick is its snapshot's; the last step of a tick  *)
(* only forgets the plan.                                                  *)
LEMMA CalmRest ==
    ASSUME IInv, IInv', RestockInv, calm,
           PutQuota \/ Finish \/ UNCHANGED vars
    PROVE  RestockInv'
<1>1. /\ UNCHANGED <<orders, items, row, target, pending, snapQuota>> /\ calm' = calm
      /\ Listed' = Listed
  BY DEF PutQuota, Finish, vars, dbVars, planVars, countVars, Listed
<1>2. \A k \in Keys : AtTarget(k) \subseteq AtTarget(k)'
  BY <1>1 DEF AtTarget, ListedFor
<1>3. \A k \in Keys : Cardinality(AtTarget(k)') + Cardinality(Owed(k)') >= snapQuota'
  BY <1>1, <1>2, PromiseKept
<1>4. CASE PutQuota \/ UNCHANGED vars
  BY <1>1, <1>3, <1>4
  DEF RestockInv, ToPrune, Priced, Full, ToRefill, PutQuota, vars, planVars
<1>5. CASE Finish
  BY <1>1, <1>3, <1>5 DEF RestockInv, ToPrune, Priced, Full, ToRefill, Finish
<1> QED
  BY <1>4, <1>5

LEMMA RestockStep ==
    ASSUME IInv, IInv', RestockInv, [Next]_vars
    PROVE  RestockInv'
<1>1. CASE ~calm'
  BY <1>1 DEF RestockInv
<1>2. CASE calm'
  BY <1>2, CalmSteps, CalmLoad, CalmPrune, CalmRefill, CalmBatch, CalmRest
<1> QED
  BY <1>1, <1>2

LEMMA RestockInductive == Spec => [](IdleInv /\ RestockInv)
BY Inductive, InitRestock, IdleStep, RestockStep, PTL DEF Spec

(* A tick that met no failure and no interference restocks every key,      *)
(* whatever the failures, crashes and wipes before it left behind.         *)
THEOREM CleanTicksRestock == Spec => []CleanTickRestocks
<1>1. IInv /\ IdleInv /\ RestockInv => CleanTickRestocks
  <2> SUFFICES ASSUME IInv, IdleInv, RestockInv, pc = "idle", calm, NEW k \in Keys
               PROVE  Stocked(k)
    BY DEF CleanTickRestocks
  <2>1. \A i \in Listed : Priced(i) /\ Full(i)
    BY DEF RestockInv, ToPrune, ToRefill
  <2>2. AtTarget(k) = ListedFor(k)
    BY <2>1 DEF AtTarget, ListedFor, Priced
  <2>3. Owed(k) = {}
    BY DEF Owed, IdleInv
  <2>4. Cardinality(ListedFor(k)) >= snapQuota
    <3>1. Cardinality(Owed(k)) = 0 /\ Cardinality(AtTarget(k)) \in Nat
      BY <2>3, FS_EmptySet, RestockSetsFinite
    <3> QED
      BY <2>2, <3>1 DEF RestockInv
  <2> QED
    BY <2>1, <2>4 DEF Stocked, ListedFor, Priced, Full
<1> QED
  BY <1>1, Inductive, RestockInductive, PTL

-----------------------------------------------------------------------------
(* How surplus listings arise.  Staying orders survive the coming delete;  *)
(* an order whose item is gone, or going, is seen by no load and replaced. *)
OrdersFor(k) == {i \in orders : row[i].key = k}
Staying(k) == {i \in OrdersFor(k) : ~ToPrune(i)}
Unlisted(k) == {i \in OrdersFor(k) : i \notin items \/ (pc = "items" /\ i \in stale)}

Largest(q) == q \in Quotas /\ \A p \in Quotas : p <= q

(* One quota, and another for every fault.                                 *)
Cap(q, f) == q * (1 + f)

(* Only a fault makes listings unlisted, and the bot owes a key so few     *)
(* that with the orders that stay they are within the cap.                 *)
SurplusInv(k, q) ==
    /\ Cardinality(OrdersFor(k)) <= Cap(q, faults)
    /\ Cardinality(Owed(k)) <= q
    /\ Cardinality(Staying(k)) + Cardinality(Owed(k)) <= Cap(q, faults)
    /\ Cardinality(Unlisted(k)) + q <= Cap(q, faults)

LEMMA CapTypes ==
    ASSUME NEW q \in Nat, NEW f \in Nat
    PROVE  /\ Cap(q, f) \in Nat /\ q <= Cap(q, f)
           /\ Cap(q, f + 1) = Cap(q, f) + q
<1>1. q * f \in Nat
  OBVIOUS
<1>2. Cap(q, f) = q + q * f
  BY DEF Cap
<1>3. Cap(q, f + 1) = q * (f + 2) /\ q * (f + 2) = q * f + (q + q)
  BY DEF Cap
<1> QED
  BY <1>1, <1>2, <1>3

LEMMA QuotaTypes ==
    ASSUME TypeOK, NEW q, Largest(q)
    PROVE  /\ q \in Nat /\ quota \in Nat /\ quota <= q
           /\ faults \in Nat
BY ConstantsAssumption DEF TypeOK, Largest

LEMMA SurplusSetsFinite ==
    ASSUME IInv, NEW k
    PROVE  \A S \in SUBSET OrdersFor(k) :
              /\ IsFiniteSet(S) /\ Cardinality(S) \in Nat
              /\ Cardinality(S) <= Cardinality(OrdersFor(k))
<1>1. OrdersFor(k) \subseteq orders /\ IsFiniteSet(orders)
  BY DEF OrdersFor, IInv, FiniteInv
<1> QED
  BY <1>1, FS_Subset, FS_CardinalityType

LEMMA InitSurplus ==
    ASSUME Init, NEW k \in Keys, NEW q, Largest(q)
    PROVE  SurplusInv(k, q)
<1>1. /\ OrdersFor(k) = {} /\ Owed(k) = {} /\ Staying(k) = {} /\ Unlisted(k) = {}
      /\ faults = 0
  BY DEF Init, OrdersFor, Owed, Staying, Unlisted
<1>2. q \in Nat /\ q <= Cap(q, 0) /\ Cap(q, 0) \in Nat
  BY ConstantsAssumption, CapTypes DEF Largest
<1> QED
  BY <1>1, <1>2, FS_EmptySet DEF SurplusInv

(* A step that adds no orders and owes no more keeps within the cap.       *)
LEMMA NoMoreOrders ==
    ASSUME IInv, NEW k \in Keys, NEW q, Largest(q), SurplusInv(k, q),
           OrdersFor(k)' \subseteq OrdersFor(k), Owed(k)' \subseteq Owed(k),
           Staying(k)' \subseteq Staying(k), Unlisted(k)' \subseteq Unlisted(k),
           faults' \in {faults, faults + 1}
    PROVE  SurplusInv(k, q)'
<1> DEFINE le(T, S) == Cardinality(T) \in Nat /\ Cardinality(S) \in Nat
                       /\ Cardinality(T) <= Cardinality(S)
<1>1. Staying(k) \subseteq OrdersFor(k) /\ Unlisted(k) \subseteq OrdersFor(k)
  BY DEF Staying, Unlisted
<1>2. /\ IsFiniteSet(OrdersFor(k)) /\ IsFiniteSet(Staying(k)) /\ IsFiniteSet(Unlisted(k))
      /\ IsFiniteSet(Owed(k))
  BY <1>1, SurplusSetsFinite, RestockSetsFinite
<1>3. ASSUME NEW S, NEW T \in SUBSET S, IsFiniteSet(S)
      PROVE  le(T, S)
  BY <1>3, FS_Subset, FS_CardinalityType
<1> HIDE DEF le
<1>4. /\ le(OrdersFor(k)', OrdersFor(k)) /\ le(Owed(k)', Owed(k))
      /\ le(Staying(k)', Staying(k)) /\ le(Unlisted(k)', Unlisted(k))
  BY <1>2, <1>3
<1>5. /\ q \in Nat /\ Cap(q, faults) \in Nat /\ Cap(q, faults') \in Nat
      /\ Cap(q, faults) <= Cap(q, faults')
  <2>1. q \in Nat /\ faults \in Nat
    BY QuotaTypes DEF IInv
  <2>2. Cap(q, faults) \in Nat /\ Cap(q, faults + 1) = Cap(q, faults) + q
    BY <2>1, CapTypes
  <2> QED
    BY <2>1, <2>2
<1> QED
  BY <1>4, <1>5 DEF le, SurplusInv

(* Every fault pays for one more quota.                                    *)
LEMMA FaultPays ==
    ASSUME IInv, NEW k \in Keys, NEW q, Largest(q), SurplusInv(k, q),
           OrdersFor(k)' \subseteq OrdersFor(k),
           Cardinality(Owed(k)') \in 0 .. q,
           faults' = faults + 1
    PROVE  SurplusInv(k, q)'
<1>1. Staying(k)' \subseteq OrdersFor(k)' /\ Unlisted(k)' \subseteq OrdersFor(k)'
  BY DEF Staying, Unlisted
<1>2. ASSUME NEW T \in SUBSET OrdersFor(k)
      PROVE  Cardinality(T) \in Nat /\ Cardinality(T) <= Cardinality(OrdersFor(k))
  BY SurplusSetsFinite
<1>3. /\ q \in Nat /\ Cap(q, faults) \in Nat /\ Cap(q, faults') = Cap(q, faults) + q
  BY QuotaTypes, CapTypes DEF IInv
<1>4. Cardinality(OrdersFor(k)) \in Nat /\ Cardinality(OrdersFor(k)) <= Cap(q, faults)
  BY <1>2 DEF SurplusInv
<1>5. /\ Cardinality(OrdersFor(k)') \in Nat
      /\ Cardinality(OrdersFor(k)') <= Cap(q, faults)
  BY <1>2, <1>3, <1>4
<1>6. /\ Cardinality(Staying(k)') \in Nat
      /\ Cardinality(Staying(k)') <= Cap(q, faults)
  BY <1>1, <1>2, <1>3, <1>4
<1>7. /\ Cardinality(Unlisted(k)') \in Nat
      /\ Cardinality(Unlisted(k)') <= Cap(q, faults)
  BY <1>1, <1>2, <1>3, <1>4
<1> QED
  BY <1>3, <1>5, <1>6, <1>7 DEF SurplusInv

(* Outside changes, statements that delete, and steps of the process.      *)
LEMMA FewerOrders ==
    ASSUME orders' \subseteq orders, UNCHANGED <<pc, stale, pending>>,
           \A i \in orders' : row'[i].key = row[i].key /\ (i \in items => i \in items')
    PROVE  \A k \in Keys : /\ OrdersFor(k)' \subseteq OrdersFor(k)
                           /\ Owed(k)' \subseteq Owed(k)
                           /\ Staying(k)' \subseteq Staying(k)
                           /\ Unlisted(k)' \subseteq Unlisted(k)
BY DEF OrdersFor, Owed, Staying, Unlisted, ToPrune

LEMMA OutsideSurplus ==
    ASSUME IInv, NEW k \in Keys, NEW q, Largest(q), SurplusInv(k, q),
           \/ \E i \in Ids : PlayerBuysPart(i) \/ ListingLeaves(i)
           \/ DeployWipes \/ PutQuota \/ LoadFails
    PROVE  SurplusInv(k, q)'
<1>1. UNCHANGED <<pc, stale, pending>> /\ faults' \in {faults, faults + 1}
  BY DEF PlayerBuysPart, ListingLeaves, DeployWipes, PutQuota, LoadFails, Happens, Fails,
         planVars
<1>2. /\ orders' \subseteq orders
      /\ \A i \in orders' : row'[i].key = row[i].key /\ (i \in items => i \in items')
  <2>1. CASE \E i \in Ids : PlayerBuysPart(i)
    <3>1. PICK i \in Ids : PlayerBuysPart(i)
      BY <2>1
    <3>2. PICK n : row' = [row EXCEPT ![i].stack = @ - n]
      BY <3>1 DEF PlayerBuysPart
    <3>3. row[i] \in Rows
      BY <3>1, ListedRows DEF PlayerBuysPart, IInv
    <3>4. row'[i] = [row[i] EXCEPT !.stack = row[i].stack - n]
      BY <3>2 DEF IInv, TypeOK
    <3>5. row'[i].key = row[i].key /\ \A j \in Ids \ {i} : row'[j] = row[j]
      BY <3>2, <3>3, <3>4 DEF Rows, IInv, TypeOK
    <3> QED
      BY <3>1, <3>5 DEF PlayerBuysPart, IInv, TypeOK
  <2>2. CASE (\E i \in Ids : ListingLeaves(i)) \/ DeployWipes
    <3>1. /\ orders' \subseteq orders /\ items' \subseteq items
          /\ row' = Remaining(orders', items')
          /\ \A i \in orders' : i \in items => i \in items'
      BY <2>2 DEF ListingLeaves, DeployWipes
    <3> QED
      BY <3>1, RemainingType DEF IInv
  <2>3. CASE PutQuota \/ LoadFails
    BY <2>3 DEF PutQuota, LoadFails, dbVars
  <2> QED
    BY <2>1, <2>2, <2>3
<1> QED
  BY <1>1, <1>2, FewerOrders, NoMoreOrders

(* A complete load replaces what is not valid, up to the quota.            *)
LEMMA LoadSurplus ==
    ASSUME IInv, NEW k \in Keys, NEW q, Largest(q), SurplusInv(k, q),
           StartTick \/ LoadTruncated
    PROVE  SurplusInv(k, q)'
<1>1. PICK L : /\ L \subseteq Listed /\ Plan(L)
               /\ \/ L = Listed /\ faults' = faults
                  \/ faults' = faults + 1
  BY DEF StartTick, LoadTruncated, Fails
<1> DEFINE valid == {i \in L : row[i].key = k /\ ~Drifted(i)}
<1>2. /\ IsFiniteSet(valid) /\ Cardinality(valid) \in Nat
      /\ Cardinality(Owed(k)') = IF Cardinality(valid) >= quota THEN 0
                                 ELSE quota - Cardinality(valid)
  BY <1>1, OwedByPlan
<1>3. /\ q \in Nat /\ quota \in Nat /\ quota <= q /\ Cap(q, faults) \in Nat
  BY QuotaTypes, CapTypes DEF IInv
<1>4. /\ pc = "idle" /\ pc' = "orders" /\ UNCHANGED <<orders, items, row>>
      /\ stale' = {i \in L : Drifted(i)}
  BY <1>1 DEF Plan, dbVars
<1>5. OrdersFor(k)' = OrdersFor(k) /\ Unlisted(k)' = Unlisted(k)
  BY <1>4 DEF OrdersFor, Unlisted
<1>6. CASE faults' = faults + 1
  <2> HIDE DEF valid
  <2>1. Cardinality(Owed(k)') \in 0 .. q
    BY <1>2, <1>3
  <2> QED
    BY <1>5, <1>6, <2>1, FaultPays
<1>7. CASE L = Listed /\ faults' = faults
  <2>1. Staying(k)' \subseteq valid \cup Unlisted(k)
    BY <1>4, <1>7 DEF Staying, Unlisted, OrdersFor, ToPrune, Listed
  <2>2. IsFiniteSet(Unlisted(k)) /\ Cardinality(Unlisted(k)) \in Nat
    BY SurplusSetsFinite DEF Unlisted
  <2>3. /\ Cardinality(OrdersFor(k)) \in Nat
        /\ Cardinality(Staying(k)') \in Nat
        /\ Cardinality(Staying(k)') <= Cardinality(OrdersFor(k))
    <3>1. Staying(k)' \subseteq OrdersFor(k)
      BY <1>5 DEF Staying
    <3> QED
      BY <3>1, SurplusSetsFinite
  <2> HIDE DEF valid
  <2>4. Cardinality(Staying(k)') <= Cardinality(valid) + Cardinality(Unlisted(k))
    <3>1. /\ IsFiniteSet(valid \cup Unlisted(k))
          /\ Cardinality(valid \cup Unlisted(k)) =
                Cardinality(valid) + Cardinality(Unlisted(k))
                  - Cardinality(valid \cap Unlisted(k))
      BY <1>2, <2>2, FS_Union
    <3>2. /\ Cardinality(valid \cap Unlisted(k)) \in Nat
      BY <1>2, FS_Intersection, FS_CardinalityType
    <3>3. Cardinality(Staying(k)') <= Cardinality(valid \cup Unlisted(k))
      BY <2>1, <3>1, FS_Subset
    <3> QED
      BY <1>2, <2>2, <2>3, <3>1, <3>2, <3>3
  <2>5. Cardinality(Staying(k)') + Cardinality(Owed(k)') <= Cap(q, faults)
    <3>1. CASE Cardinality(valid) >= quota
      BY <1>2, <1>3, <2>3, <3>1 DEF SurplusInv
    <3>2. CASE ~(Cardinality(valid) >= quota)
      BY <1>2, <1>3, <2>2, <2>3, <2>4, <3>2 DEF SurplusInv
    <3> QED
      BY <3>1, <3>2
  <2>6. Cardinality(Owed(k)') <= q
    BY <1>2, <1>3
  <2> QED
    BY <1>5, <1>7, <2>5, <2>6 DEF SurplusInv
<1> QED
  BY <1>1, <1>6, <1>7

(* Orders survive a failed delete; it is a fault, and it may leave them    *)
(* without items.  An order is never deleted without its item else.        *)
LEMMA StatementSurplus ==
    ASSUME IInv, NEW k \in Keys, NEW q, Largest(q), SurplusInv(k, q),
           \/ PruneOrders \/ PruneItems \/ Refill
           \/ PruneOrdersFails \/ PruneItemsFails \/ RefillFails
    PROVE  SurplusInv(k, q)'
<1>1. CASE PruneOrders \/ PruneItems
  <2>1. /\ UNCHANGED <<stale, pending, faults>>
        /\ orders' \subseteq orders
        /\ row' = Remaining(orders', items') /\ items' \subseteq items
    BY <1>1 DEF PruneOrders, PruneItems, StatementDone, planVars, countVars
  <2>2. \A i \in orders' : row'[i].key = row[i].key
    BY <2>1, RemainingType DEF IInv
  <2>3. OrdersFor(k)' \subseteq OrdersFor(k) /\ Owed(k)' = Owed(k)
    BY <2>1, <2>2 DEF OrdersFor, Owed
  <2>4. CASE PruneOrders
    <3>1. /\ pc = "orders" /\ pc' = "items"
          /\ orders' = orders \ stale /\ items' = items
      BY <2>4 DEF PruneOrders, StatementDone
    <3>2. Staying(k)' \subseteq Staying(k)
      BY <2>3, <3>1 DEF Staying, ToPrune, OrdersFor
    <3>3. Unlisted(k)' \subseteq Unlisted(k)
      BY <2>1, <2>3, <3>1 DEF Unlisted, OrdersFor
    <3> QED
      BY <2>1, <2>3, <3>2, <3>3, NoMoreOrders
  <2>5. CASE PruneItems
    <3>1. /\ pc = "items" /\ pc' = "refill"
          /\ orders' = orders /\ items' = items \ stale
      BY <2>5 DEF PruneItems, StatementDone
    <3>2. Staying(k)' \subseteq Staying(k)
      BY <2>3, <3>1 DEF Staying, ToPrune
    <3>3. Unlisted(k)' \subseteq Unlisted(k)
      BY <2>3, <3>1 DEF Unlisted
    <3> QED
      BY <2>1, <2>3, <3>2, <3>3, NoMoreOrders
  <2> QED
    BY <1>1, <2>4, <2>5
<1>2. CASE Refill
  <2>1. /\ pc = "refill" /\ pc' = "insert"
        /\ UNCHANGED <<orders, items, stale, pending, faults>>
        /\ row' = [i \in Ids |-> IF i \in topUps \cap items
                                 THEN [row[i] EXCEPT !.stack = FullStack(i)]
                                 ELSE row[i]]
    BY <1>2 DEF Refill, StatementDone, planVars, countVars
  <2>2. ASSUME NEW i \in orders
        PROVE  row'[i].key = row[i].key
    <3>1. row[i] \in Rows /\ i \in Ids
      BY DEF IInv, TypeOK
    <3>2. row'[i] = row[i] \/ row'[i] = [row[i] EXCEPT !.stack = FullStack(i)]
      BY <2>1, <3>1
    <3> QED
      BY <3>1, <3>2 DEF Rows
  <2>3. OrdersFor(k)' = OrdersFor(k) /\ Owed(k)' = Owed(k)
    BY <2>1, <2>2 DEF OrdersFor, Owed
  <2>4. Staying(k)' \subseteq Staying(k) /\ Unlisted(k)' \subseteq Unlisted(k)
    BY <2>1, <2>3 DEF Staying, Unlisted, ToPrune
  <2> QED
    BY <2>1, <2>3, <2>4, NoMoreOrders
<1>3. CASE PruneOrdersFails \/ PruneItemsFails \/ RefillFails
  <2>1. /\ UNCHANGED <<orders, row, pending>> /\ faults' = faults + 1
    BY <1>3
    DEF PruneOrdersFails, PruneItemsFails, RefillFails, StatementIgnored, Fails, dbVars, planVars
  <2>2. OrdersFor(k)' = OrdersFor(k) /\ Owed(k)' = Owed(k)
    BY <2>1 DEF OrdersFor, Owed
  <2>3. Cardinality(Owed(k)) \in 0 .. q
    BY RestockSetsFinite, QuotaTypes DEF SurplusInv, IInv
  <2> QED
    BY <2>1, <2>2, <2>3, FaultPays
<1> QED
  BY <1>1, <1>2, <1>3

(* A batch adds as many orders as it takes from what is owed.              *)
LEMMA BatchSurplus ==
    ASSUME IInv, NEW k \in Keys, NEW q, Largest(q), SurplusInv(k, q), InsertBatch
    PROVE  SurplusInv(k, q)'
<1>1. PICK B \in SUBSET pending :
         /\ AfterBatch(B) /\ UNCHANGED <<errs, countVars>>
         /\ \E id \in Injection(B, Ids \ (orders \cup items)) : InsertAs(B, id)
  BY DEF InsertBatch
<1>2. PICK id \in Injection(B, Ids \ (orders \cup items)) : InsertAs(B, id)
  BY <1>1
<1>3. /\ pc = "insert" /\ pc' = "insert" /\ UNCHANGED <<stale, faults>>
      /\ pending' = pending \ B
      /\ orders' = orders \cup NewIds(B, id) /\ items' = items \cup NewIds(B, id)
  BY <1>1, <1>2 DEF AfterBatch, InsertAs, countVars
<1> DEFINE created == Created(k, B, id)
<1>4. /\ created \subseteq Ids \ (orders \cup items) /\ created \subseteq NewIds(B, id)
      /\ \A i \in created : row'[i].key = k
      /\ \A i \in NewIds(B, id) \ created : row'[i].key # k
      /\ IsFiniteSet(created) /\ Cardinality(created) \in Nat
      /\ Cardinality(Owed(k)') = Cardinality(Owed(k)) - Cardinality(created)
  BY <1>2, <1>3, BatchCounts
<1> HIDE DEF created
<1>5. \A i \in orders : row'[i] = row[i]
  <2>1. /\ \A i \in Ids \ NewIds(B, id) : row'[i] = row[i]
        /\ NewIds(B, id) \subseteq Ids \ (orders \cup items)
    BY <1>2, InsertedRows DEF IInv
  <2> QED
    BY <2>1 DEF IInv, TypeOK
<1>6. OrdersFor(k)' = OrdersFor(k) \cup created /\ OrdersFor(k) \cap created = {}
  BY <1>3, <1>4, <1>5 DEF OrdersFor
<1>7. /\ Staying(k)' = OrdersFor(k)' /\ Staying(k) = OrdersFor(k)
  BY <1>3 DEF Staying, ToPrune
<1>8. Unlisted(k)' \subseteq Unlisted(k)
  BY <1>3, <1>4, <1>6 DEF Unlisted
<1>9. /\ Cardinality(OrdersFor(k)') = Cardinality(OrdersFor(k)) + Cardinality(created)
      /\ Cardinality(OrdersFor(k)) \in Nat
  BY <1>4, <1>6, SurplusSetsFinite, DisjointUnion
<1>10. /\ Cardinality(Unlisted(k)') \in Nat /\ Cardinality(Unlisted(k)) \in Nat
       /\ Cardinality(Unlisted(k)') <= Cardinality(Unlisted(k))
  <2>1. IsFiniteSet(Unlisted(k))
    BY SurplusSetsFinite DEF Unlisted
  <2> QED
    BY <1>8, <2>1, FS_Subset, FS_CardinalityType
<1>11. /\ Cardinality(Owed(k)) \in Nat /\ Cardinality(Owed(k)') \in Nat
       /\ q \in Nat /\ Cap(q, faults) \in Nat /\ faults' = faults
  <2>1. Owed(k)' \subseteq Owed(k)
    BY <1>3 DEF Owed
  <2> QED
    BY <1>3, <2>1, RestockSetsFinite, FS_Subset, FS_CardinalityType, QuotaTypes, CapTypes
    DEF IInv
<1> QED
  BY <1>4, <1>7, <1>9, <1>10, <1>11 DEF SurplusInv

LEMMA ProcessSurplus ==
    ASSUME IInv, NEW k \in Keys, NEW q, Largest(q), SurplusInv(k, q),
           BatchFails \/ Finish \/ Crash \/ Restart \/ UNCHANGED vars
    PROVE  SurplusInv(k, q)'
<1>1. UNCHANGED <<orders, items, row>>
  BY DEF BatchFails, Finish, Crash, Restart, vars, dbVars
<1>2. OrdersFor(k)' = OrdersFor(k)
  BY <1>1 DEF OrdersFor
<1>3. CASE Crash
  <2>1. Owed(k)' = {} /\ faults' = faults + 1
    BY <1>3 DEF Crash, Owed
  <2>2. Cardinality(Owed(k)') \in 0 .. q
    BY <2>1, FS_EmptySet, QuotaTypes DEF IInv
  <2> QED
    BY <1>2, <2>1, <2>2, FaultPays
<1>4. CASE BatchFails \/ Finish \/ Restart \/ UNCHANGED vars
  <2>1. pending' \subseteq pending /\ faults' \in {faults, faults + 1}
    BY <1>4 DEF BatchFails, AfterBatch, Fails, Finish, Restart, vars, planVars, countVars
  <2>2. /\ pc = "orders" => pc' = "orders" /\ stale' = stale
        /\ pc' = "items" => pc = "items" /\ stale' = stale
    BY <1>4 DEF BatchFails, AfterBatch, Finish, Restart, vars, planVars
  <2>3. Staying(k)' \subseteq Staying(k) /\ Unlisted(k)' \subseteq Unlisted(k)
    BY <1>1, <1>2, <2>2 DEF Staying, Unlisted, ToPrune
  <2>4. Owed(k)' \subseteq Owed(k)
    BY <2>1 DEF Owed
  <2> QED
    BY <1>2, <2>1, <2>3, <2>4, NoMoreOrders
<1> QED
  BY <1>3, <1>4

LEMMA SurplusStep ==
    ASSUME IInv, NEW k \in Keys, NEW q, Largest(q), SurplusInv(k, q), [Next]_vars
    PROVE  SurplusInv(k, q)'
BY OutsideSurplus, LoadSurplus, StatementSurplus, BatchSurplus, ProcessSurplus DEF Next

(* Whatever fails and whenever the process dies, each fault leaves a key   *)
(* at most one quota of surplus orders.                                    *)
THEOREM SurplusIsBounded == Spec => []SurplusBounded
<1> DEFINE Inv == \A k \in Keys : \A q \in Quotas : Largest(q) => SurplusInv(k, q)
<1>1. Init => Inv
  BY InitSurplus
<1>2. IInv /\ Inv /\ [Next]_vars => Inv'
  <2> SUFFICES ASSUME IInv, Inv, [Next]_vars, NEW k \in Keys, NEW q \in Quotas, Largest(q)
               PROVE  SurplusInv(k, q)'
    BY DEF Largest
  <2> QED
    BY SurplusStep
<1>3. Inv => SurplusBounded
  BY DEF SurplusBounded, SurplusInv, Largest, Cap, OrdersFor
<1> QED
  BY <1>1, <1>2, <1>3, Inductive, PTL DEF Spec
=============================================================================
