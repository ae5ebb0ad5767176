--------------------------- MODULE BootstrapProofs ---------------------------
(***************************************************************************)
(* Proofs about Bootstrap for any number of -report processes, exchanges   *)
(* and faults.  The argument follows the actor: while only one process is  *)
(* in Init at a time there is at most one, so the bot owns what it listed. *)
(* The balance is bounded together with the credits on their way to it:    *)
(* what a process read makes its credit end at the seed amount, and of the *)
(* others' there are no more than starts beside a process in Init.         *)
(* A position counter that was read is past every item of its exchange     *)
(* from then on, so a new item is alone where it is put.                   *)
(***************************************************************************)
EXTENDS Bootstrap, FiniteSetTheorems, TLAPS

Inserting == {p \in Procs : At(p, "insert")}

Owning == {"fund", "seed", "position", "ready"}

(* What most proofs need of the types; TypeCorrect has the rest.           *)
Typed ==
    /\ actors \in Nat /\ balance \in [Ids -> Int]
    /\ pc \in [Procs -> Steps]
    /\ owner \in [Procs -> Int] /\ seen \in [Procs -> Int]
    /\ misreads \in Nat /\ spent \in Nat /\ earned \in Nat
    /\ debt \in Nat /\ overlaps \in Nat

(* Every actor there is or is about to be has its process.                 *)
Counted == actors + Cardinality(Inserting) <= Cardinality(Procs)

Known == \A p \in Procs : pc[p] \in Owning => owner[p] \in Actors

Owners == \A i \in DOMAIN items : i.owner \in Actors

Alone == overlaps = 0 => \A p, q \in Procs : Booting(p) /\ Booting(q) => p = q

OneActor ==
    overlaps = 0 => actors <= 1 /\ \A p \in Procs : At(p, "insert") => actors = 0

Funded ==
    misreads = 0 =>
        /\ At(Pod, "seed") => balance[owner[Pod]] >= seen[Pod]
        /\ At(Pod, "position") => balance[owner[Pod]] >= SeedFloor
        /\ At(Pod, "ready") => balance[owner[Pod]] >= SeedFloor - spent

Calm == ~At(Pod, "ready") => spent = 0

(* What a process read of its balance it knows until it has acted on it.   *)
Fresh == \A p \in Procs : ~At(p, "seed") => seen[p] = 0

IInv ==
    /\ Typed /\ Counted /\ Known /\ Owners /\ Fresh
    /\ Alone /\ OneActor /\ Funded /\ Calm

-----------------------------------------------------------------------------
(* The processes are finitely many.                                        *)
LEMMA ProcsFinite ==
    /\ IsFiniteSet(Procs) /\ Cardinality(Procs) \in Nat
    /\ IsFiniteSet(Inserting) /\ Cardinality(Inserting) \in Nat
  <1>1. Procs = Reports \cup {Pod} BY DEF Procs
  <1>2. IsFiniteSet(Procs) BY <1>1, ConstantsAssumption, FS_AddElement
  <1>3. Inserting \in SUBSET Procs BY DEF Inserting
  <1> QED BY <1>2, <1>3, FS_Subset, FS_CardinalityType

(* There is an id for every actor.                                         *)
LEMMA ActorsHaveIds ==
    ASSUME Typed, Counted
    PROVE  Actors \subseteq Ids
  <1>1. actors <= Cardinality(Procs) BY ProcsFinite DEF Typed, Counted
  <1> QED BY <1>1, ProcsFinite DEF Actors, Ids, Typed

(* Nothing of the invariant is about exchanges, positions or faults.       *)
LEMMA InitHolds == Init => IInv
  <1> SUFFICES ASSUME Init PROVE IInv OBVIOUS
  <1> USE DEF Init, At
  <1>1. Inserting = {} BY DEF Inserting
  <1>2. Cardinality(Inserting) = 0 BY <1>1, FS_EmptySet
  <1>3. Counted BY <1>2, ProcsFinite DEF Counted
  <1>4. Typed BY DEF Typed, Steps
  <1>5. DOMAIN items = {} OBVIOUS
  <1>6. Pod \in Procs BY DEF Procs
  <1>8. Known /\ Owners /\ Fresh /\ Alone /\ OneActor
    BY <1>5 DEF Known, Owning, Owners, Fresh, Alone, Booting, OneActor
  <1>9. Funded /\ Calm BY <1>6, ConstantsAssumption DEF Funded, Calm
  <1> QED BY <1>3, <1>4, <1>8, <1>9 DEF IInv

-----------------------------------------------------------------------------
(* A step that inserts no actor and sends no process to do so.             *)
LEMMA StillCounted ==
    ASSUME Typed, Counted, actors' = actors, Inserting' \subseteq Inserting
    PROVE  Counted'
  <1>1. Inserting' \in SUBSET Inserting OBVIOUS
  <1>2. IsFiniteSet(Inserting') /\ Cardinality(Inserting') <= Cardinality(Inserting)
    BY <1>1, ProcsFinite, FS_Subset
  <1>3. Cardinality(Inserting') \in Nat BY <1>2, FS_CardinalityType
  <1>4. Cardinality(Procs)' = Cardinality(Procs) BY DEF Procs
  <1> QED BY <1>2, <1>3, <1>4, ProcsFinite DEF Typed, Counted

(* The end of a process, whatever it was doing; the rows it may have       *)
(* changed last are left to the cases.                                     *)
LEMMA ExitStep ==
    ASSUME IInv, NEW p \in Procs, Exit(p), UNCHANGED <<misreads, debt, earned, overlaps>>
    PROVE  /\ pc' \in [Procs -> Steps] /\ owner' \in [Procs -> Int]
           /\ seen' \in [Procs -> Int] /\ spent' \in Nat
           /\ Inserting' \subseteq Inserting \ {p}
           /\ \A q \in Procs : q # p => /\ pc'[q] = pc[q] /\ owner'[q] = owner[q]
                                        /\ seen'[q] = seen[q]
           /\ pc'[p] \in {"down", "ended"} /\ seen'[p] = 0
           /\ Alone' /\ Calm' /\ (p # Pod => spent' = spent)
  <1> USE DEF IInv, Typed, Exit, Go, Steps
  <1>1. pc' \in [Procs -> Steps] /\ owner' \in [Procs -> Int] /\ seen' \in [Procs -> Int]
    OBVIOUS
  <1>2. spent' \in Nat /\ (p # Pod => spent' = spent) OBVIOUS
  <1>3. \A q \in Procs : q # p => /\ pc'[q] = pc[q] /\ owner'[q] = owner[q]
                                 /\ seen'[q] = seen[q]
    OBVIOUS
  <1>4. pc'[p] \in {"down", "ended"} /\ seen'[p] = 0 OBVIOUS
  <1>5. Inserting' \subseteq Inserting \ {p} BY <1>3, <1>4 DEF Inserting, At
  <1>6. Alone' BY <1>3, <1>4 DEF Alone, Booting
  <1>7. Calm' BY <1>3, <1>2 DEF Calm, At, Procs
  <1> QED BY <1>1, <1>2, <1>3, <1>4, <1>5, <1>6, <1>7

(* A step of Init from one of its points to another or to the first tick.  *)
LEMMA GoStep ==
    ASSUME IInv, NEW p \in Procs, Booting(p), NEW t \in Steps \ {"down", "ended"}, Go(p, t),
           UNCHANGED <<overlaps, spent>>
    PROVE  /\ pc' \in [Procs -> Steps] /\ pc'[p] = t
           /\ \A q \in Procs : q # p => pc'[q] = pc[q]
           /\ t # "insert" => Inserting' \subseteq Inserting \ {p}
           /\ Alone' /\ Calm'
  <1> USE DEF IInv, Typed, Go, Steps
  <1>1. pc' \in [Procs -> Steps] /\ pc'[p] = t /\ \A q \in Procs : q # p => pc'[q] = pc[q]
    OBVIOUS
  <1>2. t # "insert" => Inserting' \subseteq Inserting \ {p} BY <1>1 DEF Inserting, At
  <1>3. Alone' BY <1>1 DEF Alone, Booting
  <1>4. Calm' BY <1>1 DEF Calm, At, Booting, Procs
  <1> QED BY <1>1, <1>2, <1>3, <1>4

-----------------------------------------------------------------------------
(* A process starts: from then on it is not alone, or nobody else is.      *)
LEMMA StartStep == ASSUME IInv, NEW p \in Procs, Start(p) PROVE IInv'
  <1> USE DEF IInv, Typed, Start, Go, At, Steps, database, players, vars
  <1>1. pc' \in [Procs -> Steps] /\ pc'[p] = "exchange"
        /\ \A q \in Procs : q # p => pc'[q] = pc[q]
    OBVIOUS
  <1>2. Typed' BY <1>1
  <1>3. Counted' BY <1>1, StillCounted DEF Inserting
  <1>4. Known' /\ Owners' /\ Fresh' BY <1>1 DEF Known, Owners, Fresh, Owning, Actors
  <1>5. Alone' BY <1>1 DEF Alone, Booting
  <1>6. OneActor' BY <1>1 DEF OneActor
  <1>7. Funded' /\ Calm' BY <1>1 DEF Funded, Calm, Procs
  <1> QED BY <1>2, <1>3, <1>4, <1>5, <1>6, <1>7

(* The steps that only choose: an exchange, an actor, to insert one.       *)
LEMMA ChooseStep ==
    ASSUME IInv, NEW p \in Procs, DetectExchange(p) \/ DetectFails(p) \/ FindActor(p)
    PROVE  IInv'
  <1> USE DEF IInv, Typed, At, database, players, past
  <1> DEFINE t == IF FindActor(p) THEN "fund" ELSE "actor"
  <1>1. Booting(p) /\ Go(p, t) /\ t \in Steps \ {"down", "ended"} /\ t # "insert" /\ pc[p] # "seed"
        /\ UNCHANGED <<actors, balance, items, seen, spent, earned, misreads, debt, overlaps>>
    BY DEF DetectExchange, DetectFails, FindActor, Booting, Steps, Go
  <1>2. /\ pc' \in [Procs -> Steps] /\ pc'[p] = t /\ Alone' /\ Calm'
        /\ \A q \in Procs : q # p => pc'[q] = pc[q]
        /\ Inserting' \subseteq Inserting
    BY <1>1, GoStep
  <1>3. owner' \in [Procs -> Int] /\ (t = "fund" => owner'[p] \in Actors)
        /\ \A q \in Procs : q # p => owner'[q] = owner[q]
    BY DEF DetectExchange, DetectFails, FindActor, Actors
  <1>4. Typed' BY <1>1, <1>2, <1>3
  <1>5. Counted' BY <1>1, <1>2, StillCounted
  <1>6. Known' /\ Owners' /\ Fresh' BY <1>1, <1>2, <1>3 DEF Known, Owners, Fresh, Owning, Actors
  <1>7. OneActor' BY <1>1, <1>2 DEF OneActor
  <1>8. Funded' BY <1>1, <1>2, <1>3 DEF Funded, Procs
  <1> QED BY <1>2, <1>4, <1>5, <1>6, <1>7, <1>8

LEMMA MissingStep == ASSUME IInv, NEW p \in Procs, ActorMissing(p) PROVE IInv'
  <1> USE DEF IInv, Typed, At, ActorMissing, NoRows, database, players, past
  <1>1. Booting(p) /\ "insert" \in Steps \ {"down", "ended"} BY DEF Booting, Steps
  <1>2. /\ pc' \in [Procs -> Steps] /\ pc'[p] = "insert" /\ Alone' /\ Calm'
        /\ \A q \in Procs : q # p => pc'[q] = pc[q]
    BY <1>1, GoStep
  <1>3. Typed' BY <1>2
  <1>4. Inserting' \in SUBSET Procs BY DEF Inserting, Procs
  <1>5. Cardinality(Inserting') <= Cardinality(Procs) /\ Cardinality(Inserting') \in Nat
    BY <1>4, ProcsFinite, FS_Subset, FS_CardinalityType
  <1>6. Counted' BY <1>5, ProcsFinite DEF Counted, Procs
  <1>7. Known' /\ Owners' /\ Fresh' BY <1>2 DEF Known, Owners, Fresh, Owning, Actors
  <1>8. OneActor' BY <1>2 DEF OneActor
  <1>9. Funded' BY <1>2 DEF Funded, Procs
  <1> QED BY <1>2, <1>3, <1>6, <1>7, <1>8, <1>9

(* One process fewer is about to insert, one actor more is there.          *)
LEMMA OneInserted ==
    ASSUME Typed, Counted, NEW p \in Inserting, actors' = actors + 1,
           Inserting' \subseteq Inserting \ {p}
    PROVE  Counted' /\ actors' \in Nat /\ actors' \in Ids
  <1>1. IsFiniteSet(Inserting \ {p})
        /\ Cardinality(Inserting \ {p}) = Cardinality(Inserting) - 1
    BY ProcsFinite, FS_RemoveElement
  <1>2. Inserting' \in SUBSET (Inserting \ {p}) OBVIOUS
  <1>3. IsFiniteSet(Inserting') /\ Cardinality(Inserting') <= Cardinality(Inserting) - 1
    BY <1>1, <1>2, FS_Subset
  <1>4. Cardinality(Inserting') \in Nat BY <1>3, FS_CardinalityType
  <1>5. Cardinality(Procs)' = Cardinality(Procs) BY DEF Procs
  <1>6. actors' + Cardinality(Inserting') <= Cardinality(Procs)
    BY <1>3, <1>4, ProcsFinite DEF Typed, Counted
  <1> QED BY <1>4, <1>5, <1>6, ProcsFinite DEF Typed, Counted, Ids

LEMMA InsertStep == ASSUME IInv, NEW p \in Procs, InsertActor(p) PROVE IInv'
  <1> USE DEF IInv, Typed, At, InsertActor, players, past
  <1>1. Booting(p) /\ "fund" \in Steps \ {"down", "ended"} BY DEF Booting, Steps
  <1>2. /\ pc' \in [Procs -> Steps] /\ pc'[p] = "fund" /\ Alone' /\ Calm'
        /\ \A q \in Procs : q # p => pc'[q] = pc[q]
        /\ Inserting' \subseteq Inserting \ {p}
    BY <1>1, GoStep
  <1>3. Counted' BY <1>2, OneInserted DEF Inserting
  <1>9. actors' \in Nat /\ owner' \in [Procs -> Int] /\ owner'[p] = actors'
        /\ \A q \in Procs : q # p => owner'[q] = owner[q]
    OBVIOUS
  <1>4. Typed' BY <1>2, <1>9
  <1>5. Known' /\ Owners' /\ Fresh' BY <1>2 DEF Known, Owners, Fresh, Owning, Actors
  <1>6. OneActor' BY <1>1, <1>2 DEF OneActor, Alone, Booting
  <1>7. Funded' BY <1>2 DEF Funded, Procs
  <1> QED BY <1>2, <1>3, <1>4, <1>5, <1>6, <1>7

LEMMA InsertUnacknowledgedStep ==
    ASSUME IInv, NEW p \in Procs, InsertUnacknowledged(p) PROVE IInv'
  <1> USE DEF IInv, Typed, At, InsertUnacknowledged, players, past
  <1>1. /\ pc' \in [Procs -> Steps] /\ owner' \in [Procs -> Int]
        /\ seen' \in [Procs -> Int] /\ spent' \in Nat
        /\ Inserting' \subseteq Inserting \ {p}
        /\ \A q \in Procs : q # p => /\ pc'[q] = pc[q] /\ owner'[q] = owner[q]
                                     /\ seen'[q] = seen[q]
        /\ pc'[p] \in {"down", "ended"} /\ seen'[p] = 0
        /\ Alone' /\ Calm' /\ (p # Pod => spent' = spent)
    BY ExitStep
  <1>2. Counted' BY <1>1, OneInserted DEF Inserting
  <1>3. Typed' BY <1>1
  <1>4. Known' /\ Owners' /\ Fresh' BY <1>1 DEF Known, Owners, Fresh, Owning, Actors
  <1>5. OneActor' BY <1>1 DEF OneActor, Alone, Booting
  <1>6. Funded' BY <1>1 DEF Funded, Procs
  <1> QED BY <1>1, <1>2, <1>3, <1>4, <1>5, <1>6

LEMMA ReadStep == ASSUME IInv, NEW p \in Procs, ReadBalance(p) PROVE IInv'
  <1> USE DEF IInv, Typed, At, ReadBalance, database, players, past
  <1>1. Booting(p) /\ "seed" \in Steps \ {"down", "ended"} BY DEF Booting, Steps
  <1>2. /\ pc' \in [Procs -> Steps] /\ pc'[p] = "seed" /\ Alone' /\ Calm'
        /\ \A q \in Procs : q # p => pc'[q] = pc[q]
        /\ Inserting' \subseteq Inserting
    BY <1>1, GoStep
  <1>3. owner[p] \in Ids BY ActorsHaveIds DEF Known, Owning
  <1>4. seen' \in [Procs -> Int] /\ seen'[p] = balance[owner[p]]
        /\ \A q \in Procs : q # p => seen'[q] = seen[q]
    BY <1>3
  <1>5. Typed' /\ Counted' BY <1>2, <1>4, StillCounted
  <1>6. Known' /\ Owners' /\ Fresh' BY <1>2 DEF Known, Owners, Fresh, Owning, Actors
  <1>7. OneActor' BY <1>2 DEF OneActor
  <1>8. Funded' BY <1>2, <1>3, <1>4 DEF Funded, Procs
  <1> QED BY <1>2, <1>5, <1>6, <1>7, <1>8

LEMMA MisreadStep == ASSUME IInv, NEW p \in Procs, MisreadBalance(p) PROVE IInv'
  <1> USE DEF IInv, Typed, At, MisreadBalance, database, players
  <1>1. Booting(p) /\ "seed" \in Steps \ {"down", "ended"} BY DEF Booting, Steps
  <1>2. /\ pc' \in [Procs -> Steps] /\ pc'[p] = "seed" /\ Alone' /\ Calm'
        /\ \A q \in Procs : q # p => pc'[q] = pc[q]
        /\ Inserting' \subseteq Inserting
    BY <1>1, GoStep
  <1>3. Typed' /\ Counted' BY <1>2, StillCounted
  <1>4. Known' /\ Owners' /\ Fresh' BY <1>2 DEF Known, Owners, Fresh, Owning, Actors
  <1>5. OneActor' BY <1>2 DEF OneActor
  <1>6. Funded' BY DEF Funded
  <1> QED BY <1>2, <1>3, <1>4, <1>5, <1>6

(* The credit, for a balance that was read.                                *)
LEMMA Crediting ==
    ASSUME IInv, NEW p \in Procs, At(p, "seed"), BelowFloor(p), Credited(p)
    PROVE  /\ balance' \in [Ids -> Int]
           /\ \A a \in Ids : balance'[a] >= balance[a]
           /\ misreads = 0 /\ p = Pod => balance'[owner[p]] >= SeedFloor
  <1> USE DEF IInv, Typed, At
  <1>1. owner[p] \in Ids BY ActorsHaveIds DEF Known, Owning
  <1>2. TopUp(p) \in Nat BY ConstantsAssumption DEF TopUp, BelowFloor
  <1>3. /\ balance' \in [Ids -> Int]
        /\ balance'[owner[p]] = balance[owner[p]] + TopUp(p)
        /\ \A a \in Ids : a # owner[p] => balance'[a] = balance[a]
    BY <1>1, <1>2 DEF Credited
  <1>4. \A a \in Ids : balance[a] \in Int OBVIOUS
  <1>5. misreads = 0 /\ p = Pod => balance'[owner[p]] >= SeedFloor
    BY <1>1, <1>3, <1>4, ConstantsAssumption DEF Funded, TopUp
  <1> QED BY <1>1, <1>2, <1>3, <1>4, <1>5

LEMMA SeedStep == ASSUME IInv, NEW p \in Procs, Seed(p) PROVE IInv'
  <1> USE DEF IInv, Typed, At, Seed, players, past
  <1>1. Booting(p) /\ "position" \in Steps \ {"down", "ended"} BY DEF Booting, Steps
  <1>2. /\ pc' \in [Procs -> Steps] /\ pc'[p] = "position" /\ Alone' /\ Calm'
        /\ \A q \in Procs : q # p => pc'[q] = pc[q]
        /\ Inserting' \subseteq Inserting
    BY <1>1, GoStep
  <1>3. owner[p] \in Ids BY ActorsHaveIds DEF Known, Owning
  <1>4. seen' \in [Procs -> Int] /\ seen'[p] = 0
        /\ \A q \in Procs : q # p => seen'[q] = seen[q]
    OBVIOUS
  <1>5. /\ balance' \in [Ids -> Int]
        /\ \A a \in Ids : balance'[a] >= balance[a]
        /\ misreads = 0 /\ p = Pod => balance'[owner[p]] >= SeedFloor
    <2>1. CASE BelowFloor(p) BY <2>1, Crediting
    <2>2. CASE ~BelowFloor(p)
      <3>1. balance' = balance BY <2>2
      <3>2. \A a \in Ids : balance[a] >= balance[a] OBVIOUS
      <3>3. misreads = 0 /\ p = Pod => balance[owner[p]] >= SeedFloor
        BY <2>2, <1>3, ConstantsAssumption DEF Funded, BelowFloor
      <3> QED BY <3>1, <3>2, <3>3
    <2> QED BY <2>1, <2>2
  <1>6. Typed' /\ Counted' BY <1>2, <1>4, <1>5, StillCounted
  <1>7. Known' /\ Owners' /\ Fresh' BY <1>2, <1>4 DEF Known, Owners, Fresh, Owning, Actors
  <1>8. OneActor' BY <1>2 DEF OneActor
  <1>11. \A q \in Procs : pc[q] \in Owning => owner[q] \in Ids
    BY ActorsHaveIds DEF Known
  <1>12. Funded'
    <2>1. CASE p = Pod BY <2>1, <1>2, <1>5 DEF Funded
    <2>2. CASE p # Pod
      BY <2>2, <1>2, <1>4, <1>5, <1>11, ConstantsAssumption DEF Funded, Owning, Procs
    <2> QED BY <2>1, <2>2
  <1> QED BY <1>2, <1>6, <1>7, <1>8, <1>12

LEMMA SeedUnacknowledgedStep ==
    ASSUME IInv, NEW p \in Procs, SeedUnacknowledged(p) PROVE IInv'
  <1> USE DEF IInv, Typed, At, SeedUnacknowledged, players, past
  <1>1. /\ pc' \in [Procs -> Steps] /\ owner' \in [Procs -> Int]
        /\ seen' \in [Procs -> Int] /\ spent' \in Nat
        /\ Inserting' \subseteq Inserting \ {p}
        /\ \A q \in Procs : q # p => /\ pc'[q] = pc[q] /\ owner'[q] = owner[q]
                                     /\ seen'[q] = seen[q]
        /\ pc'[p] \in {"down", "ended"} /\ seen'[p] = 0
        /\ Alone' /\ Calm' /\ (p # Pod => spent' = spent)
    BY ExitStep
  <1>2. /\ balance' \in [Ids -> Int]
        /\ \A a \in Ids : balance'[a] >= balance[a]
    BY Crediting
  <1>3. Typed' /\ Counted' BY <1>1, <1>2, StillCounted
  <1>4. Known' /\ Owners' /\ Fresh' BY <1>1 DEF Known, Owners, Fresh, Owning, Actors
  <1>5. OneActor' BY <1>1 DEF OneActor
  <1>8. \A q \in Procs : pc[q] \in Owning => owner[q] \in Ids
    BY ActorsHaveIds DEF Known
  <1>9. Funded'
    <2>1. CASE p = Pod BY <2>1, <1>1 DEF Funded
    <2>2. CASE p # Pod
      BY <2>2, <1>1, <1>2, <1>8, ConstantsAssumption DEF Funded, Owning, Procs
    <2> QED BY <2>1, <2>2
  <1> QED BY <1>1, <1>3, <1>4, <1>5, <1>9

(* The position counter, read or not, is nothing to the balance.           *)
LEMMA PositionStep ==
    ASSUME IInv, NEW p \in Procs, ReadPosition(p) \/ MisreadPosition(p) PROVE IInv'
  <1> USE DEF IInv, Typed, At, database, players, past
  <1>1. /\ Booting(p) /\ Go(p, "ready") /\ "ready" \in Steps \ {"down", "ended"}
        /\ pc[p] = "position"
        /\ UNCHANGED <<actors, balance, items, owner, seen, spent, earned, misreads, debt, overlaps>>
    BY DEF ReadPosition, MisreadPosition, Booting, Steps
  <1>2. /\ pc' \in [Procs -> Steps] /\ pc'[p] = "ready" /\ Alone' /\ Calm'
        /\ \A q \in Procs : q # p => pc'[q] = pc[q]
        /\ Inserting' \subseteq Inserting
    BY <1>1, GoStep
  <1>3. Typed' /\ Counted' BY <1>1, <1>2, StillCounted
  <1>4. Known' /\ Owners' /\ Fresh'
    BY <1>1, <1>2 DEF Known, Owners, Fresh, Owning, Actors
  <1>5. OneActor' BY <1>1, <1>2 DEF OneActor
  <1>6. p = Pod => spent = 0 BY <1>1 DEF Calm
  <1>7. owner[p] \in Ids BY <1>1, ActorsHaveIds DEF Known, Owning
  <1>8. Funded' BY <1>1, <1>2, <1>6, <1>7, ConstantsAssumption DEF Funded, Procs
  <1> QED BY <1>2, <1>3, <1>4, <1>5, <1>8

LEMMA EndStep == ASSUME IInv, NEW p \in Procs, Dies(p) \/ ReportEnds(p) PROVE IInv'
  <1> USE DEF IInv, Typed, At, database, players, past
  <1>1. Exit(p) /\ UNCHANGED <<actors, balance, items, misreads, debt, earned, overlaps>>
    BY DEF Dies, ReportEnds
  <1>2. /\ pc' \in [Procs -> Steps] /\ owner' \in [Procs -> Int]
        /\ seen' \in [Procs -> Int] /\ spent' \in Nat
        /\ Inserting' \subseteq Inserting
        /\ \A q \in Procs : q # p => /\ pc'[q] = pc[q] /\ owner'[q] = owner[q]
                                     /\ seen'[q] = seen[q]
        /\ pc'[p] \in {"down", "ended"} /\ seen'[p] = 0
        /\ Alone' /\ Calm' /\ (p # Pod => spent' = spent)
    BY <1>1, ExitStep
  <1>3. Typed' /\ Counted' BY <1>1, <1>2, StillCounted
  <1>4. Known' /\ Owners' /\ Fresh'
    BY <1>1, <1>2 DEF Known, Owners, Fresh, Owning, Actors
  <1>5. OneActor' BY <1>1, <1>2 DEF OneActor
  <1>6. Funded'
    <2>1. CASE p = Pod BY <2>1, <1>2 DEF Funded
    <2>2. CASE p # Pod BY <2>2, <1>1, <1>2 DEF Funded, Procs
    <2> QED BY <2>1, <2>2
  <1> QED BY <1>2, <1>3, <1>4, <1>5, <1>6

(* The bot's own items carry the owner it works under.                     *)
LEMMA ListStep == ASSUME IInv, ListItem \/ RollBackItem PROVE IInv'
  <1> USE DEF IInv, Typed, At, database, players, past
  <1>1. /\ pc[Pod] = "ready" /\ Pod \in Procs
        /\ UNCHANGED <<actors, balance, pc, owner, seen, spent, earned, misreads, debt, overlaps>>
    BY DEF ListItem, RollBackItem, Procs
  <1>2. Typed' /\ Counted' BY <1>1, StillCounted DEF Inserting
  <1>3. DOMAIN items' \subseteq
          DOMAIN items \cup {[owner |-> owner[Pod], at |-> exchange[Pod], pos |-> nextPos[Pod]]}
    BY DEF ListItem, RollBackItem, BagAdd
  <1>4. owner[Pod] \in Actors BY <1>1 DEF Known, Owning
  <1>5. Owners' BY <1>1, <1>3, <1>4 DEF Owners, Actors
  <1>6. Known' /\ Fresh' /\ Alone' /\ OneActor'
    BY <1>1 DEF Known, Fresh, Owning, Actors, Alone, Booting, OneActor
  <1>7. Funded' /\ Calm' BY <1>1 DEF Funded, Calm
  <1> QED BY <1>2, <1>5, <1>6, <1>7

(* The debt keeps up with a balance that goes below zero.                  *)
LEMMA DebtStep ==
    ASSUME IInv, Spend
    PROVE  /\ debt' \in Nat /\ debt' >= debt
           /\ debt' + (balance[owner[Pod]] - Price) >= 0
  <1>1. Pod \in Procs /\ owner[Pod] \in Ids
    BY ActorsHaveIds DEF IInv, Known, Owning, Procs, Spend, At
  <1> DEFINE low == Price - balance[owner[Pod]]
  <1>2. debt \in Int /\ debt \in Nat /\ balance[owner[Pod]] \in Int /\ Price \in Int /\ low \in Int
    BY <1>1, ConstantsAssumption DEF IInv, Typed
  <1>3. debt' = Max({debt, low}) BY DEF Spend
  <1> HIDE DEF low
  <1>4. \E x \in {debt, low} : \A y \in {debt, low} : x >= y BY <1>2
  <1>5. debt' \in {debt, low} /\ debt' >= debt /\ debt' >= low BY <1>3, <1>4 DEF Max
  <1> QED BY <1>2, <1>5 DEF low

LEMMA SpendStep == ASSUME IInv, Spend PROVE IInv'
  <1> USE DEF IInv, Typed, At, Spend, players, processes
  <1>1. Pod \in Procs /\ owner[Pod] \in Ids
    BY ActorsHaveIds DEF Known, Owning, Procs
  <1>8. debt' \in Nat BY DebtStep
  <1>2. /\ balance' \in [Ids -> Int] /\ balance'[owner[Pod]] = balance[owner[Pod]] - Price
        /\ spent' = spent + Price /\ spent' \in Nat /\ overlaps' = overlaps
    BY <1>1, ConstantsAssumption
  <1>3. Typed' BY <1>2, <1>8
  <1>4. Counted' BY StillCounted DEF Inserting
  <1>5. Known' /\ Owners' /\ Fresh' BY DEF Known, Owners, Fresh, Owning, Actors
  <1>6. Alone' /\ OneActor' /\ Calm' BY DEF Alone, Booting, OneActor, Calm
  <1>7. Funded' BY <1>1, <1>2, ConstantsAssumption DEF Funded
  <1> QED BY <1>3, <1>4, <1>5, <1>6, <1>7

LEMMA PaidStep == ASSUME IInv, BotIsPaid PROVE IInv'
  <1> USE DEF IInv, Typed, At, players, processes
  <1>1. PICK b \in Actors : balance' = [balance EXCEPT ![b] = @ + 1] BY DEF BotIsPaid
  <1>2. /\ earned' = earned + 1
        /\ UNCHANGED <<actors, items, pc, owner, seen, spent, misreads, debt, overlaps>>
    BY DEF BotIsPaid
  <1>3. b \in Ids BY ActorsHaveIds
  <1>4. /\ balance' \in [Ids -> Int]
        /\ \A a \in Ids : balance'[a] \in {balance[a], balance[a] + 1}
    BY <1>1, <1>3
  <1>5. Typed' BY <1>2, <1>4
  <1>6. Counted' BY <1>2, StillCounted DEF Inserting
  <1>7. Known' /\ Owners' /\ Fresh' BY <1>2 DEF Known, Owners, Fresh, Owning, Actors
  <1>8. Alone' /\ OneActor' /\ Calm' BY <1>2 DEF Alone, Booting, OneActor, Calm
  <1>9. \A p \in Procs : pc[p] \in Owning => owner[p] \in Ids
    BY ActorsHaveIds DEF Known
  <1>10. Funded' BY <1>2, <1>4, <1>9, ConstantsAssumption DEF Funded, Owning, Procs
  <1> QED BY <1>5, <1>6, <1>7, <1>8, <1>10

(* The rest touches nothing of the invariant but takes an item away.       *)
LEMMA IdleStep == ASSUME IInv, ItemLeaves \/ PlayersTrade \/ UNCHANGED vars PROVE IInv'
  <1> USE DEF IInv, Typed, At, database, players, processes, past, vars
  <1>1. UNCHANGED <<actors, balance, pc, owner, seen, spent, earned, misreads, debt, overlaps>>
    BY DEF ItemLeaves, PlayersTrade
  <1>2. DOMAIN items' \subseteq DOMAIN items
    BY DEF ItemLeaves, PlayersTrade, BagRemove
  <1>3. Typed' /\ Counted' BY <1>1, StillCounted DEF Inserting
  <1>4. Known' /\ Owners' /\ Fresh'
    BY <1>1, <1>2 DEF Known, Owners, Fresh, Owning, Actors
  <1>5. Alone' /\ OneActor' BY <1>1 DEF Alone, Booting, OneActor
  <1>6. Funded' /\ Calm' BY <1>1 DEF Funded, Calm
  <1> QED BY <1>3, <1>4, <1>5, <1>6

LEMMA Invariance == Spec => []IInv
  <1>1. ASSUME IInv, [Next]_vars PROVE IInv'
    <2> USE <1>1
    <2>1. ASSUME NEW p \in Procs, Start(p) \/ Boot(p) \/ Dies(p) \/ ReportEnds(p) PROVE IInv'
      <3>1. CASE Start(p) BY <3>1, StartStep
      <3>2. CASE DetectExchange(p) \/ DetectFails(p) \/ FindActor(p) BY <3>2, ChooseStep
      <3>3. CASE ActorMissing(p) BY <3>3, MissingStep
      <3>4. CASE InsertActor(p) BY <3>4, InsertStep
      <3>5. CASE InsertUnacknowledged(p) BY <3>5, InsertUnacknowledgedStep
      <3>6. CASE ReadBalance(p) BY <3>6, ReadStep
      <3>7. CASE MisreadBalance(p) BY <3>7, MisreadStep
      <3>8. CASE Seed(p) BY <3>8, SeedStep
      <3>9. CASE SeedUnacknowledged(p) BY <3>9, SeedUnacknowledgedStep
      <3>10. CASE ReadPosition(p) \/ MisreadPosition(p) BY <3>10, PositionStep
      <3>11. CASE Dies(p) \/ ReportEnds(p) BY <3>11, EndStep
      <3> QED
        BY <2>1, <3>1, <3>2, <3>3, <3>4, <3>5, <3>6, <3>7, <3>8, <3>9, <3>10, <3>11
        DEF Boot
    <2>2. CASE ListItem \/ RollBackItem BY <2>2, ListStep
    <2>3. CASE Spend BY <2>3, SpendStep
    <2>4. CASE BotIsPaid BY <2>4, PaidStep
    <2>5. CASE ItemLeaves \/ PlayersTrade \/ UNCHANGED vars BY <2>5, IdleStep
    <2> QED BY <1>1, <2>1, <2>2, <2>3, <2>4, <2>5 DEF Next
  <1> QED BY InitHolds, <1>1, PTL DEF Spec

-----------------------------------------------------------------------------
(* Whatever of Init failed in earlier lives, the running bot owns all its  *)
(* stock (initBotUser).                                                    *)
THEOREM OwnsItsStock == Spec => []StockIsOwned
  <1>1. IInv => StockIsOwned
    BY DEF IInv, Typed, StockIsOwned, OneActor, Owners, Known, Owning, Actors, At, Procs
  <1> QED BY Invariance, <1>1, PTL

(* With every balance read, the bot starts with the floor or more.         *)
THEOREM StartsFunded == Spec => []FundedWhenReady
  <1>1. IInv => FundedWhenReady BY DEF IInv, Funded, FundedWhenReady, At
  <1> QED BY Invariance, <1>1, PTL
-----------------------------------------------------------------------------
(* The rest of the types, and what the counters of faults are for.         *)
Placed ==
    /\ items \in [DOMAIN items -> Nat \ {0}]
    /\ DOMAIN items \subseteq [owner : Actors, at : Exchanges, pos : 0 .. MaxPos - 1]
    /\ trading \subseteq Exchanges
    /\ playersTop \in [Exchanges -> -1 .. MaxPos - 1]
    /\ exchange \in [Procs -> Exchanges]
    /\ owner \in [Procs -> {0} \cup Actors]
    /\ nextPos \in [Procs -> 0 .. MaxPos]
    /\ faults \in 0 .. MaxFaults /\ miscounts \in Nat /\ misreads + miscounts <= faults
    /\ spent \in 0 .. MaxSpent /\ earned \in 0 .. MaxEarned

(* Where the pod will still list there is one copy fewer than the counters *)
(* that were not read account for.                                         *)
Ahead(x, n) == At(Pod, "ready") /\ x = exchange[Pod] /\ n >= nextPos[Pod]

Stacked == \A x \in Exchanges, n \in 0 .. MaxPos - 1 :
    /\ IsFiniteSet(CopiesAt(x, n))
    /\ Cardinality(CopiesAt(x, n)) <= 1 + miscounts
    /\ Ahead(x, n) => Cardinality(CopiesAt(x, n)) <= miscounts

(* A set of numbers below a bound has a highest one: otherwise the numbers *)
(* above each of them would be at least one and at most all but one, and   *)
(* as many for two of them.                                                *)
LEMMA HighestIsThere ==
    ASSUME NEW n \in Nat, NEW S \in SUBSET (-1 .. n - 1), S # {}
    PROVE  Max(S) \in S /\ \A y \in S : Max(S) >= y
  <1> DEFINE Above(y) == {z \in S : z > y}
             Ranks == 1 .. Cardinality(S) - 1
  <1>1. IsFiniteSet(S) /\ Cardinality(S) \in Nat /\ S \subseteq Int
    <2>1. -1 \in Int /\ n - 1 \in Int OBVIOUS
    <2>2. IsFiniteSet(-1 .. n - 1) BY <2>1, FS_Interval
    <2>3. IsFiniteSet(S) BY <2>2, FS_Subset
    <2> QED BY <2>3, FS_CardinalityType
  <1>2. \A y \in S : /\ IsFiniteSet(Above(y)) /\ Cardinality(Above(y)) \in Nat
                     /\ Cardinality(Above(y)) <= Cardinality(S) - 1
    <2> TAKE y \in S
    <2>1. Above(y) \in SUBSET (S \ {y}) BY <1>1
    <2>2. IsFiniteSet(S \ {y}) /\ Cardinality(S \ {y}) = Cardinality(S) - 1
      BY <1>1, FS_RemoveElement
    <2> HIDE DEF Above
    <2>3. IsFiniteSet(Above(y)) /\ Cardinality(Above(y)) <= Cardinality(S \ {y})
      BY <2>1, <2>2, FS_Subset
    <2> QED BY <2>2, <2>3, FS_CardinalityType
  <1>3. \A x, y \in S : x < y => Cardinality(Above(x)) # Cardinality(Above(y))
    <2> SUFFICES ASSUME NEW x \in S, NEW y \in S, x < y
                 PROVE  Cardinality(Above(x)) # Cardinality(Above(y))
      OBVIOUS
    <2>1. Above(y) \in SUBSET Above(x)
      <3>1. \A z \in S : z > y => z > x BY <1>1
      <3> QED BY <3>1
    <2>4. y \in Above(x) /\ y \notin Above(y) BY <1>1
    <2> HIDE DEF Above
    <2> QED BY <1>2, <2>1, <2>4, FS_Subset
  <1>4. \E x \in S : Above(x) = {}
    <2> SUFFICES ASSUME \A x \in S : Above(x) # {} PROVE FALSE
      OBVIOUS
    <2> DEFINE rank == [x \in S |-> Cardinality(Above(x))]
    <2>1. rank \in [S -> Ranks]
      <3> HIDE DEF Above
      <3>1. \A x \in S : Cardinality(Above(x)) # 0 BY <1>2, FS_EmptySet
      <3> QED BY <1>1, <1>2, <3>1
    <2>2. IsFiniteSet(Ranks) /\ Cardinality(Ranks) < Cardinality(S)
      <3>1. Cardinality(S) # 0 BY <1>1, FS_EmptySet
      <3>2. 1 \in Int /\ Cardinality(S) - 1 \in Int BY <1>1
      <3>3. /\ IsFiniteSet(Ranks)
            /\ Cardinality(Ranks) = IF 1 > Cardinality(S) - 1 THEN 0 ELSE Cardinality(S) - 1 - 1 + 1
        BY <3>2, FS_Interval
      <3> QED BY <1>1, <3>1, <3>3
    <2>3. \E x, y \in S : x # y /\ rank[x] = rank[y]
      <3> HIDE DEF rank, Ranks
      <3> QED BY <1>1, <2>1, <2>2, FS_PigeonHole
    <2>4. PICK x \in S, y \in S : x # y /\ Cardinality(Above(x)) = Cardinality(Above(y))
      BY <2>3
    <2> HIDE DEF Above
    <2> QED BY <1>1, <1>3, <2>4
  <1>5. PICK x \in S : Above(x) = {} BY <1>4
  <1>6. \A y \in S : x >= y BY <1>1, <1>5
  <1> QED BY <1>6 DEF Max

(* A position counter that was read is beyond every item there is.         *)
LEMMA HighestPosition ==
    ASSUME Placed, NEW x \in Exchanges
    PROVE  /\ AfterHighest(x) \in 0 .. MaxPos
           /\ \A i \in DOMAIN items : i.at = x => i.pos < AfterHighest(x)
  <1> DEFINE S == {playersTop[x]} \cup BotPositions(x)
  <1>1. MaxPos \in Nat /\ S \in SUBSET (-1 .. MaxPos - 1) /\ S # {}
    BY ConstantsAssumption DEF Placed, BotPositions
  <1>2. \A i \in DOMAIN items : i.at = x => i.pos \in S BY DEF BotPositions
  <1> HIDE DEF S
  <1>3. Max(S) \in S /\ \A y \in S : Max(S) >= y BY <1>1, HighestIsThere
  <1>4. \A y \in S : y \in -1 .. MaxPos - 1 BY <1>1
  <1>5. Max(S) \in -1 .. MaxPos - 1 /\ \A y \in S : y < Max(S) + 1 BY <1>3, <1>4
  <1>6. AfterHighest(x) = Max(S) + 1 BY DEF AfterHighest, S
  <1>7. Max(S) + 1 \in 0 .. MaxPos BY <1>1, <1>5
  <1>8. \A i \in DOMAIN items : i.at = x => i.pos < Max(S) + 1 BY <1>2, <1>5
  <1> QED BY <1>6, <1>7, <1>8

-----------------------------------------------------------------------------
(* Type correctness.                                                       *)
LEMMA InitPlaced == Init => Placed
  <1> SUFFICES ASSUME Init PROVE Placed OBVIOUS
  <1>1. DOMAIN items = {} /\ items \in [{} -> Nat \ {0}] BY DEF Init
  <1>2. items \in [DOMAIN items -> Nat \ {0}] BY <1>1
  <1>3. DOMAIN items \subseteq [owner : Actors, at : Exchanges, pos : 0 .. MaxPos - 1]
    BY <1>1
  <1>4. /\ exchange \in [Procs -> Exchanges] /\ owner \in [Procs -> {0} \cup Actors]
        /\ nextPos \in [Procs -> 0 .. MaxPos] /\ playersTop \in [Exchanges -> -1 .. MaxPos - 1]
    BY ConstantsAssumption DEF Init
  <1>5. /\ faults \in 0 .. MaxFaults /\ miscounts \in Nat /\ misreads + miscounts <= faults
        /\ spent \in 0 .. MaxSpent /\ earned \in 0 .. MaxEarned
    BY ConstantsAssumption DEF Init
  <1> QED BY <1>2, <1>3, <1>4, <1>5 DEF Init, Placed

LEMMA ExitPlaced ==
    ASSUME IInv, Placed, NEW p \in Procs, Exit(p), faults' \in {faults, faults + 1}, faults' <= MaxFaults,
           actors' >= actors, actors' \in Nat, UNCHANGED <<items, players, past>>
    PROVE  Placed'
  <1>1. Actors \subseteq Actors' BY DEF Actors, IInv, Typed
  <1>2. /\ exchange' \in [Procs -> Exchanges] /\ owner' \in [Procs -> {0} \cup Actors']
        /\ nextPos' \in [Procs -> 0 .. MaxPos] /\ spent' \in 0 .. MaxSpent
    BY <1>1, ConstantsAssumption DEF Exit, Placed
  <1>3. DOMAIN items' \subseteq [owner : Actors', at : Exchanges, pos : 0 .. MaxPos - 1]
    BY <1>1 DEF Placed
  <1>4. faults' \in 0 .. MaxFaults /\ misreads' + miscounts' <= faults'
    BY ConstantsAssumption DEF Placed, past, IInv, Typed
  <1> QED BY <1>2, <1>3, <1>4 DEF Placed, players, past

LEMMA OneMoreActor ==
    ASSUME actors \in Nat, actors' = actors + 1
    PROVE  Actors' = Actors \cup {actors'}
  BY DEF Actors

LEMMA BootPlaced == ASSUME IInv, Placed, NEW p \in Procs, Boot(p) PROVE Placed'
  <1> USE DEF Placed, database, players, past, Fault
  <1>1. CASE DetectExchange(p)
    <2>1. Detectable \subseteq Exchanges BY ConstantsAssumption DEF Detectable
    <2> QED BY <1>1, <2>1 DEF DetectExchange, Actors
  <1>2. CASE DetectFails(p)
    BY <1>2, ConstantsAssumption DEF DetectFails, Actors, IInv, Typed
  <1>3. CASE FindActor(p) BY <1>3 DEF FindActor, Actors
  <1>4. CASE ActorMissing(p) BY <1>4 DEF ActorMissing, Actors
  <1>5. CASE InsertActor(p)
    <2>1. /\ actors \in Nat /\ actors' = actors + 1 /\ owner' = [owner EXCEPT ![p] = actors']
          /\ UNCHANGED <<items, players, exchange, nextPos, past, spent, faults>>
      BY <1>5 DEF InsertActor, IInv, Typed
    <2>2. Actors' = Actors \cup {actors'} BY <2>1, OneMoreActor
    <2>3. owner' \in [Procs -> {0} \cup Actors'] BY <2>1, <2>2
    <2>4. DOMAIN items' \subseteq [owner : Actors', at : Exchanges, pos : 0 .. MaxPos - 1]
      BY <2>1, <2>2
    <2> QED BY <2>1, <2>3, <2>4
  <1>6. CASE InsertUnacknowledged(p)
    BY <1>6, ExitPlaced, ConstantsAssumption DEF InsertUnacknowledged, IInv, Typed
  <1>7. CASE ReadBalance(p) BY <1>7 DEF ReadBalance, Actors
  <1>8. CASE MisreadBalance(p)
    BY <1>8, ConstantsAssumption DEF MisreadBalance, Actors, IInv, Typed
  <1>9. CASE Seed(p) BY <1>9 DEF Seed, Actors
  <1>10. CASE SeedUnacknowledged(p)
    BY <1>10, ExitPlaced, ConstantsAssumption DEF SeedUnacknowledged, IInv, Typed
  <1>11. CASE ReadPosition(p)
    <2>1. AfterHighest(exchange[p]) \in 0 .. MaxPos BY HighestPosition
    <2> QED BY <1>11, <2>1 DEF ReadPosition, Actors
  <1>12. CASE MisreadPosition(p)
    BY <1>12, ConstantsAssumption DEF MisreadPosition, Actors, IInv, Typed
  <1> QED
    BY <1>1, <1>2, <1>3, <1>4, <1>5, <1>6, <1>7, <1>8, <1>9, <1>10, <1>11, <1>12 DEF Boot

Listed == [owner |-> owner[Pod], at |-> exchange[Pod], pos |-> nextPos[Pod]]

(* What the pod lists is a row of the types it should have.                *)
LEMMA ListedRow ==
    ASSUME IInv, Placed, ListItem
    PROVE  /\ Listed \in [owner : Actors, at : Exchanges, pos : 0 .. MaxPos - 1]
           /\ items' = BagAdd(items, Listed) /\ Pod \in Procs
  <1>1. Pod \in Procs /\ At(Pod, "ready") /\ nextPos[Pod] < MaxPos BY DEF ListItem, Procs
  <1>2. owner[Pod] \in Actors BY <1>1 DEF IInv, Known, Owning, At
  <1>3. nextPos[Pod] \in 0 .. MaxPos - 1 BY <1>1, ConstantsAssumption DEF Placed
  <1> QED BY <1>1, <1>2, <1>3 DEF Listed, ListItem, Placed

LEMMA TickPlaced ==
    ASSUME IInv, Placed, ListItem \/ RollBackItem \/ Spend
    PROVE  Placed'
  <1> USE DEF Placed, database, players, past, processes
  <1>1. Pod \in Procs BY DEF Procs
  <1>2. CASE ListItem
    <2>1. nextPos' \in [Procs -> 0 .. MaxPos] BY <1>1, <1>2, ConstantsAssumption DEF ListItem
    <2>2. Listed \in [owner : Actors, at : Exchanges, pos : 0 .. MaxPos - 1]
          /\ items' = BagAdd(items, Listed)
      BY <1>2, ListedRow
    <2>3. items' \in [DOMAIN items \cup {Listed} -> Nat \ {0}]
      <3>1. CASE Listed \in DOMAIN items
        <4>1. \A e \in DOMAIN items : items[e] \in Nat \ {0} OBVIOUS
        <4>2. items' = [e \in DOMAIN items |-> IF e = Listed THEN items[e] + 1 ELSE items[e]]
          BY <2>2, <3>1 DEF BagAdd
        <4>3. DOMAIN items \cup {Listed} = DOMAIN items BY <3>1
        <4> QED BY <4>1, <4>2, <4>3
      <3>2. CASE Listed \notin DOMAIN items BY <2>2, <3>2 DEF BagAdd
      <3> QED BY <3>1, <3>2
    <2>4. UNCHANGED <<actors, trading, playersTop, exchange, owner, faults, misreads,
                      miscounts, spent, earned, overlaps>>
      BY <1>2 DEF ListItem
    <2> QED BY <2>1, <2>2, <2>3, <2>4 DEF Actors
  <1>3. CASE RollBackItem BY <1>1, <1>3, ConstantsAssumption DEF RollBackItem, Actors
  <1>4. CASE Spend BY <1>4, ConstantsAssumption DEF Spend, Actors
  <1> QED BY <1>2, <1>3, <1>4

LEMMA GamePlaced ==
    ASSUME IInv, Placed, ItemLeaves \/ BotIsPaid \/ PlayersTrade
    PROVE  Placed'
  <1> USE DEF Placed, database, players, past, processes
  <1>1. CASE ItemLeaves
    <2>1. PICK i \in DOMAIN items : items' = BagRemove(items, i) BY <1>1 DEF ItemLeaves
    <2>2. items' \in [DOMAIN items' -> Nat \ {0}] /\ DOMAIN items' \subseteq DOMAIN items
      BY <2>1 DEF BagRemove
    <2> QED BY <1>1, <2>2 DEF ItemLeaves, Actors
  <1>2. CASE BotIsPaid BY <1>2, ConstantsAssumption DEF BotIsPaid, Actors
  <1>3. CASE PlayersTrade BY <1>3 DEF PlayersTrade, Actors
  <1> QED BY <1>1, <1>2, <1>3

LEMMA StepPlaced == ASSUME IInv, Placed, [Next]_vars PROVE Placed'
  <1>1. ASSUME NEW p \in Procs, Start(p) PROVE Placed'
    BY <1>1 DEF Start, Placed, Actors, database, players
  <1>2. ASSUME NEW p \in Procs, Dies(p) \/ ReportEnds(p) PROVE Placed'
    BY <1>2, ExitPlaced, ConstantsAssumption
    DEF Dies, ReportEnds, Fault, IInv, Typed, Placed, database, players
  <1>3. CASE UNCHANGED vars
    BY <1>3 DEF vars, Placed, Actors, database, players, processes, past
  <1> QED BY <1>1, <1>2, <1>3, BootPlaced, TickPlaced, GamePlaced DEF Next

(* Ids, balances, rows and positions keep their types, and there is never  *)
(* more than one actor per process, for any number of processes and lives. *)
THEOREM TypeCorrect == Spec => []TypeOK
  <1>1. IInv /\ Placed => TypeOK
    BY ProcsFinite DEF IInv, Typed, Counted, Placed, TypeOK
  <1>2. IInv /\ Placed /\ [Next]_vars => Placed' BY StepPlaced
  <1> QED BY InitPlaced, Invariance, <1>1, <1>2, PTL DEF Spec

-----------------------------------------------------------------------------
(* Of those in Init at the same time all but one were started beside       *)
(* another.                                                                *)
Booters == {p \in Procs : Booting(p)}

Crowd == Cardinality(Booters) <= 1 + overlaps

(* No balance, and none that was read, is further below zero than the debt *)
(* says.                                                                   *)
Deep ==
    /\ \A a \in Ids : balance[a] + debt >= 0
    /\ \A p \in Procs : seen[p] + debt >= 0

(* The credits on their way to an actor, coin by coin.                     *)
Credits(p) == At(p, "seed") /\ BelowFloor(p)

Coins(p) == {p} \X (1 .. TopUp(p))

Coming(a) == UNION {Coins(p) : p \in {q \in Procs : Credits(q) /\ owner[q] = a}}

(* A balance is bounded together with what is coming to it.                *)
Capped == \A a \in Ids : balance[a] + Cardinality(Coming(a)) <= Allowed

Lent == Crowd /\ Deep /\ Capped

(* Products of what only grows, grow.                                      *)
LEMMA Product ==
    ASSUME NEW m \in Nat, NEW n \in Nat, NEW k \in Nat, NEW l \in Nat, m <= k, n <= l
    PROVE  /\ m * n \in Nat /\ k * l \in Nat /\ m * n <= k * l
  <1>1. PICK i \in Nat : k = m + i
    <2>1. k - m \in Nat /\ k = m + (k - m) OBVIOUS
    <2> QED BY <2>1
  <1>2. PICK j \in Nat : l = n + j
    <2>1. l - n \in Nat /\ l = n + (l - n) OBVIOUS
    <2> QED BY <2>1
  <1>3. m * n \in Nat /\ m * j \in Nat /\ i * n \in Nat /\ i * j \in Nat OBVIOUS
  <1>4. (m + i) * (n + j) = m * n + m * j + i * n + i * j OBVIOUS
  <1> QED BY <1>1, <1>2, <1>3, <1>4

(* What is allowed beyond the earnings: for m misread balances, o starts   *)
(* beside another process and a debt of d.                                 *)
Share(m, o, d) == SeedAmount * (1 + m + o) + o * d

LEMMA ShareIs ==
    ASSUME NEW m \in Nat, NEW o \in Nat, NEW d \in Nat
    PROVE  /\ Share(m, o, d) \in Nat
           /\ Share(m, o, d) >= SeedAmount + o * (SeedAmount + d)
           /\ Share(m + 1, o, d) = Share(m, o, d) + SeedAmount
  <1>1. SeedAmount \in Nat BY ConstantsAssumption
  <1>2. \A c \in Nat : /\ c * (1 + m + o) = c + c * m + c * o
                       /\ c * (1 + (m + 1) + o) = c + c * m + c + c * o
                       /\ o * (c + d) = c * o + o * d
                       /\ c * m \in Nat /\ c * o \in Nat /\ o * d \in Nat
    OBVIOUS
  <1>3. /\ SeedAmount * (1 + m + o) = SeedAmount + SeedAmount * m + SeedAmount * o
        /\ SeedAmount * (1 + (m + 1) + o) = SeedAmount + SeedAmount * m + SeedAmount + SeedAmount * o
        /\ o * (SeedAmount + d) = SeedAmount * o + o * d
        /\ SeedAmount * m \in Nat /\ SeedAmount * o \in Nat /\ o * d \in Nat
    BY <1>1, <1>2
  <1> QED BY <1>1, <1>3 DEF Share

LEMMA ShareGrows ==
    ASSUME NEW m \in Nat, NEW o \in Nat, NEW d \in Nat,
           NEW k \in Nat, NEW p \in Nat, NEW e \in Nat, m <= k, o <= p, d <= e
    PROVE  Share(m, o, d) <= Share(k, p, e)
  <1>1. SeedAmount \in Nat /\ SeedAmount <= SeedAmount BY ConstantsAssumption
  <1>2. 1 + m + o \in Nat /\ 1 + k + p \in Nat /\ 1 + m + o <= 1 + k + p OBVIOUS
  <1>3. /\ SeedAmount * (1 + m + o) \in Nat /\ SeedAmount * (1 + k + p) \in Nat
        /\ SeedAmount * (1 + m + o) <= SeedAmount * (1 + k + p)
    BY <1>1, <1>2, Product
  <1>4. o * d \in Nat /\ p * e \in Nat /\ o * d <= p * e BY Product
  <1> QED BY <1>3, <1>4 DEF Share

-----------------------------------------------------------------------------
(* What is coming is finite.                                               *)
LEMMA ComingIs ==
    ASSUME NEW a, NEW u
    PROVE  u \in Coming(a) <=>
             \E p \in Procs : /\ Credits(p) /\ owner[p] = a
                              /\ \E n \in 1 .. TopUp(p) : u = <<p, n>>
  BY DEF Coming, Coins

LEMMA UpTo == ASSUME NEW n \in Nat PROVE IsFiniteSet(1 .. n) /\ Cardinality(1 .. n) = n
  <1>1. 1 \in Int /\ n \in Int OBVIOUS
  <1>2. /\ IsFiniteSet(1 .. n)
        /\ Cardinality(1 .. n) = IF 1 > n THEN 0 ELSE n - 1 + 1
    BY <1>1, FS_Interval
  <1> QED BY <1>2

LEMMA CoinsFinite ==
    ASSUME NEW p, NEW n \in Nat
    PROVE  IsFiniteSet({p} \X (1 .. n)) /\ Cardinality({p} \X (1 .. n)) = n
  <1>1. IsFiniteSet({p}) /\ Cardinality({p}) = 1 BY FS_Singleton
  <1>2. IsFiniteSet(1 .. n) /\ Cardinality(1 .. n) = n BY UpTo
  <1>3. /\ IsFiniteSet({p} \X (1 .. n))
        /\ Cardinality({p} \X (1 .. n)) = Cardinality({p}) * Cardinality(1 .. n)
    BY <1>1, <1>2, FS_Product
  <1> QED BY <1>1, <1>2, <1>3

(* A credit is at most the seed amount and the debt.                       *)
LEMMA CreditIs ==
    ASSUME IInv, Deep, NEW p \in Procs, Credits(p)
    PROVE  TopUp(p) \in Nat /\ TopUp(p) <= SeedAmount + debt /\ owner[p] \in Ids
  <1>1. owner[p] \in Ids BY ActorsHaveIds DEF IInv, Known, Owning, Credits, At
  <1> QED BY <1>1, ConstantsAssumption DEF IInv, Typed, Deep, Credits, BelowFloor, TopUp

(* What comes from some processes.                                         *)
LEMMA ComingFrom ==
    ASSUME IInv, Deep, NEW P \in SUBSET Procs, NEW a,
           \A p \in Procs : Credits(p) /\ owner[p] = a => p \in P
    PROVE  /\ IsFiniteSet(Coming(a)) /\ Cardinality(Coming(a)) \in Nat
           /\ Cardinality(Coming(a)) <= Cardinality(P) * (SeedAmount + debt)
  <1> DEFINE N == 1 .. SeedAmount + debt
  <1>1. SeedAmount + debt \in Nat BY ConstantsAssumption DEF IInv, Typed
  <1>2. IsFiniteSet(N) /\ Cardinality(N) = SeedAmount + debt BY <1>1, UpTo
  <1>3. IsFiniteSet(P) BY ProcsFinite, FS_Subset
  <1>4. Coming(a) \in SUBSET (P \X N)
    <2> SUFFICES ASSUME NEW u \in Coming(a) PROVE u \in P \X N OBVIOUS
    <2>1. PICK p \in Procs : /\ Credits(p) /\ owner[p] = a
                             /\ \E n \in 1 .. TopUp(p) : u = <<p, n>>
      BY ComingIs
    <2>2. PICK n \in 1 .. TopUp(p) : u = <<p, n>> BY <2>1
    <2>3. TopUp(p) \in Nat /\ TopUp(p) <= SeedAmount + debt BY <2>1, CreditIs
    <2>4. n \in N BY <1>1, <2>2, <2>3
    <2>5. p \in P BY <2>1
    <2> QED BY <2>2, <2>4, <2>5
  <1> HIDE DEF N
  <1>5. /\ IsFiniteSet(P \X N)
        /\ Cardinality(P \X N) = Cardinality(P) * Cardinality(N)
    BY <1>2, <1>3, FS_Product
  <1>6. IsFiniteSet(Coming(a)) /\ Cardinality(Coming(a)) <= Cardinality(P \X N)
    BY <1>4, <1>5, FS_Subset
  <1>7. Cardinality(Coming(a)) \in Nat BY <1>6, FS_CardinalityType
  <1>8. Cardinality(P \X N) = Cardinality(P) * (SeedAmount + debt) BY <1>2, <1>5
  <1> QED BY <1>6, <1>7, <1>8

LEMMA ComingFinite ==
    ASSUME IInv, Deep, NEW a
    PROVE  IsFiniteSet(Coming(a)) /\ Cardinality(Coming(a)) \in Nat
  <1>1. Procs \in SUBSET Procs OBVIOUS
  <1> QED BY <1>1, ComingFrom

-----------------------------------------------------------------------------
(* How a step changes what is coming.                                      *)
LEMMA ComingNext ==
    ASSUME NEW a, NEW u
    PROVE  u \in Coming(a)' <=>
             \E p \in Procs : /\ Credits(p)' /\ owner'[p] = a
                              /\ \E n \in 1 .. TopUp(p)' : u = <<p, n>>
  BY DEF Coming, Coins

(* A credit that was on its way before the step and still is.              *)
Kept(p) == Credits(p) /\ owner'[p] = owner[p] /\ TopUp(p)' = TopUp(p)

LEMMA NoneMore ==
    ASSUME IInv, Deep, NEW a, \A p \in Procs : Credits(p)' => Kept(p)
    PROVE  Cardinality(Coming(a)') \in Nat /\ Cardinality(Coming(a)') <= Cardinality(Coming(a))
  <1>1. Coming(a)' \in SUBSET Coming(a)
    <2> SUFFICES ASSUME NEW u \in Coming(a)' PROVE u \in Coming(a) OBVIOUS
    <2>1. PICK p \in Procs : /\ Credits(p)' /\ owner'[p] = a
                             /\ \E n \in 1 .. TopUp(p)' : u = <<p, n>>
      BY ComingNext
    <2> QED BY <2>1, ComingIs DEF Kept
  <1>2. IsFiniteSet(Coming(a)) BY ComingFinite
  <1> QED BY <1>1, <1>2, FS_Subset, FS_CardinalityType

LEMMA OneMore ==
    ASSUME IInv, Deep, NEW a, NEW p \in Procs, NEW n \in Nat, TopUp(p)' = n,
           \A q \in Procs : q # p /\ Credits(q)' => Kept(q)
    PROVE  /\ Cardinality(Coming(a)') \in Nat
           /\ Cardinality(Coming(a)') <= Cardinality(Coming(a)) + n
  <1> DEFINE C == {p} \X (1 .. n)
  <1>1. Coming(a)' \in SUBSET (Coming(a) \cup C)
    <2> SUFFICES ASSUME NEW u \in Coming(a)', u \notin C PROVE u \in Coming(a) OBVIOUS
    <2>1. PICK q \in Procs : /\ Credits(q)' /\ owner'[q] = a
                             /\ \E k \in 1 .. TopUp(q)' : u = <<q, k>>
      BY ComingNext
    <2>2. q # p BY <2>1
    <2> QED BY <2>1, <2>2, ComingIs DEF Kept
  <1>2. IsFiniteSet(C) /\ Cardinality(C) = n BY CoinsFinite
  <1>3. IsFiniteSet(Coming(a)) /\ Cardinality(Coming(a)) \in Nat BY ComingFinite
  <1> HIDE DEF C
  <1>4. /\ IsFiniteSet(Coming(a) \cup C)
        /\ Cardinality(Coming(a) \cup C)
             = Cardinality(Coming(a)) + Cardinality(C) - Cardinality(Coming(a) \cap C)
    BY <1>2, <1>3, FS_Union
  <1>5. Coming(a) \cap C \in SUBSET C OBVIOUS
  <1>6. Cardinality(Coming(a) \cap C) \in Nat BY <1>2, <1>5, FS_Subset, FS_CardinalityType
  <1>7. /\ IsFiniteSet(Coming(a)') /\ Cardinality(Coming(a)') \in Nat
        /\ Cardinality(Coming(a)') <= Cardinality(Coming(a) \cup C)
    BY <1>1, <1>4, FS_Subset, FS_CardinalityType
  <1> QED BY <1>2, <1>3, <1>4, <1>6, <1>7

(* A credit arrives: it is not coming any more.                            *)
LEMMA OneLess ==
    ASSUME IInv, Deep, NEW p \in Procs, Credits(p), ~Credits(p)', NEW a, owner[p] = a,
           \A q \in Procs : Credits(q)' => Kept(q)
    PROVE  /\ Cardinality(Coming(a)') \in Nat
           /\ Cardinality(Coming(a)') <= Cardinality(Coming(a)) - TopUp(p)
  <1> DEFINE C == {p} \X (1 .. TopUp(p))
  <1>1. Coming(a)' \in SUBSET (Coming(a) \ C)
    <2> SUFFICES ASSUME NEW u \in Coming(a)' PROVE u \in Coming(a) /\ u \notin C OBVIOUS
    <2>1. PICK q \in Procs : /\ Credits(q)' /\ owner'[q] = a
                             /\ \E k \in 1 .. TopUp(q)' : u = <<q, k>>
      BY ComingNext
    <2> QED BY <2>1, ComingIs DEF Kept
  <1>2. TopUp(p) \in Nat BY CreditIs
  <1>3. IsFiniteSet(C) /\ Cardinality(C) = TopUp(p) BY <1>2, CoinsFinite
  <1>4. IsFiniteSet(Coming(a)) /\ Cardinality(Coming(a)) \in Nat BY ComingFinite
  <1>5. Coming(a) \cap C = C
    <2> SUFFICES ASSUME NEW u \in C PROVE u \in Coming(a) OBVIOUS
    <2> QED BY ComingIs
  <1> HIDE DEF C
  <1>6. /\ IsFiniteSet(Coming(a) \ C)
        /\ Cardinality(Coming(a) \ C) = Cardinality(Coming(a)) - Cardinality(Coming(a) \cap C)
    BY <1>4, FS_Difference
  <1>7. /\ Cardinality(Coming(a)') \in Nat
        /\ Cardinality(Coming(a)') <= Cardinality(Coming(a) \ C)
    BY <1>1, <1>6, FS_Subset, FS_CardinalityType
  <1> QED BY <1>2, <1>3, <1>4, <1>5, <1>6, <1>7

-----------------------------------------------------------------------------
(* A step after which nothing more is coming keeps the bound.              *)
LEMMA AsideCapped ==
    ASSUME IInv, IInv', Deep, Capped, debt' >= debt, misreads' >= misreads, overlaps' >= overlaps,
           \A a \in Ids : balance'[a] - earned' <= balance[a] - earned,
           \A p \in Procs : Credits(p)' => Kept(p)
    PROVE  Capped'
  <1> SUFFICES ASSUME NEW a \in Ids
               PROVE  balance'[a] + Cardinality(Coming(a)') <= Allowed'
    BY DEF Capped, Ids, Procs
  <1>1. Cardinality(Coming(a)') \in Nat /\ Cardinality(Coming(a)') <= Cardinality(Coming(a))
    BY NoneMore
  <1>2. Cardinality(Coming(a)) \in Nat BY ComingFinite
  <1>3. /\ misreads \in Nat /\ overlaps \in Nat /\ debt \in Nat /\ earned \in Nat
        /\ misreads' \in Nat /\ overlaps' \in Nat /\ debt' \in Nat /\ earned' \in Nat
        /\ balance[a] \in Int /\ balance'[a] \in Int
    BY DEF IInv, Typed, Ids, Procs
  <1>4. Share(misreads, overlaps, debt) <= Share(misreads', overlaps', debt')
        /\ Share(misreads, overlaps, debt) \in Nat /\ Share(misreads', overlaps', debt') \in Nat
    BY <1>3, ShareGrows, ShareIs
  <1>5. Allowed = Share(misreads, overlaps, debt) + earned BY DEF Allowed, Share
  <1>6. Allowed' = Share(misreads', overlaps', debt') + earned' BY DEF Allowed, Share
  <1>7. balance[a] + Cardinality(Coming(a)) <= Share(misreads, overlaps, debt) + earned
    BY <1>5 DEF Capped
  <1>8. balance'[a] + Cardinality(Coming(a)') <= Share(misreads', overlaps', debt') + earned'
    BY <1>1, <1>2, <1>3, <1>4, <1>7
  <1> QED BY <1>6, <1>8

(* A credit that arrives was bounded before.                               *)
LEMMA CreditCapped ==
    ASSUME IInv, IInv', Deep, Capped, NEW p \in Procs, Credits(p), Credited(p), pc'[p] # "seed",
           UNCHANGED <<debt, misreads, overlaps, earned>>,
           \A q \in Procs : q # p => pc'[q] = pc[q] /\ owner'[q] = owner[q] /\ seen'[q] = seen[q]
    PROVE  Capped'
  <1>1. ~Credits(p)' /\ \A q \in Procs : Credits(q)' => Kept(q)
    BY DEF Credits, Kept, At, BelowFloor, TopUp
  <1>2. TopUp(p) \in Nat /\ owner[p] \in Ids BY CreditIs
  <1>3. /\ balance'[owner[p]] = balance[owner[p]] + TopUp(p)
        /\ \A a \in Ids : a # owner[p] => balance'[a] = balance[a]
    BY <1>2 DEF Credited, IInv, Typed
  <1> SUFFICES ASSUME NEW a \in Ids
               PROVE  balance'[a] + Cardinality(Coming(a)') <= Allowed'
    BY DEF Capped, Ids, Procs
  <1>4. Allowed' = Allowed BY DEF Allowed
  <1>5. balance[a] + Cardinality(Coming(a)) <= Allowed BY DEF Capped
  <1>6. balance[a] \in Int /\ Cardinality(Coming(a)) \in Nat /\ Allowed \in Int
    <2>1. Share(misreads, overlaps, debt) \in Nat BY ShareIs DEF IInv, Typed
    <2>2. Allowed = Share(misreads, overlaps, debt) + earned BY DEF Allowed, Share
    <2>3. Allowed \in Int BY <2>1, <2>2 DEF IInv, Typed
    <2> QED BY <2>3, ComingFinite DEF IInv, Typed
  <1>7. CASE owner[p] = a
    <2>1. /\ Cardinality(Coming(a)') \in Nat
          /\ Cardinality(Coming(a)') <= Cardinality(Coming(a)) - TopUp(p)
      BY <1>1, <1>7, OneLess
    <2>2. balance'[a] = balance[a] + TopUp(p) BY <1>3, <1>7
    <2>3. balance'[a] + Cardinality(Coming(a)') <= Allowed BY <1>2, <1>5, <1>6, <2>1, <2>2
    <2> QED BY <1>4, <2>3
  <1>8. CASE owner[p] # a
    <2>1. Cardinality(Coming(a)') \in Nat /\ Cardinality(Coming(a)') <= Cardinality(Coming(a))
      BY <1>1, NoneMore
    <2>2. balance'[a] = balance[a] BY <1>3, <1>8
    <2>3. balance'[a] + Cardinality(Coming(a)') <= Allowed BY <1>5, <1>6, <2>1, <2>2
    <2> QED BY <1>4, <2>3
  <1> QED BY <1>7, <1>8

(* A process that reads a low balance makes up for just what it read, and  *)
(* what the others in Init are about to credit is as much as there are     *)
(* starts beside another process.                                          *)
LEMMA ReadCapped ==
    ASSUME IInv, IInv', Deep, Crowd, Capped, NEW p \in Procs, ReadBalance(p)
    PROVE  Capped'
  <1>1. /\ pc[p] = "fund" /\ pc'[p] = "seed" /\ owner' = owner /\ balance' = balance
        /\ seen'[p] = balance[owner[p]]
        /\ UNCHANGED <<debt, misreads, overlaps, earned>>
        /\ \A q \in Procs : q # p => pc'[q] = pc[q] /\ seen'[q] = seen[q]
    BY DEF ReadBalance, At, Go, IInv, Typed, database, past
  <1>2. \A q \in Procs : q # p /\ Credits(q)' => Kept(q)
    BY <1>1 DEF Credits, Kept, At, BelowFloor, TopUp
  <1>3. owner[p] \in Ids BY <1>1, ActorsHaveIds DEF IInv, Known, Owning
  <1> SUFFICES ASSUME NEW a \in Ids
               PROVE  balance[a] + Cardinality(Coming(a)') <= Allowed
    BY <1>1 DEF Capped, Allowed, Ids, Procs
  <1>4. balance[a] \in Int /\ Cardinality(Coming(a)) \in Nat /\ overlaps \in Nat /\ debt \in Nat
        /\ earned \in Nat /\ misreads \in Nat
    BY ComingFinite DEF IInv, Typed
  <1>5. /\ Allowed = Share(misreads, overlaps, debt) + earned
        /\ Share(misreads, overlaps, debt) \in Nat
        /\ Share(misreads, overlaps, debt) >= SeedAmount + overlaps * (SeedAmount + debt)
    BY <1>4, ShareIs DEF Allowed, Share
  <1>6. CASE owner[p] = a /\ Credits(p)'
    <2>1. TopUp(p)' = SeedAmount - balance[a] BY <1>1, <1>6 DEF TopUp
    <2>2. SeedAmount - balance[a] \in Nat
      BY <1>1, <1>4, <1>6, ConstantsAssumption DEF Credits, BelowFloor
    <2>3. /\ Cardinality(Coming(a)') \in Nat
          /\ Cardinality(Coming(a)') <= Cardinality(Coming(a)) + (SeedAmount - balance[a])
      BY <1>2, <2>1, <2>2, OneMore
    <2>4. Cardinality(Coming(a)) <= overlaps * (SeedAmount + debt)
      <3> DEFINE P == Booters \ {p}
      <3>1. p \in Booters BY <1>1 DEF Booters, Booting
      <3>2. IsFiniteSet(Booters)
        <4>1. Booters \in SUBSET Procs BY DEF Booters
        <4> QED BY <4>1, ProcsFinite, FS_Subset
      <3>3. IsFiniteSet(P) /\ Cardinality(P) = Cardinality(Booters) - 1
        BY <3>1, <3>2, FS_RemoveElement
      <3>4. Cardinality(P) \in Nat /\ Cardinality(P) <= overlaps
        BY <1>4, <3>2, <3>3, FS_CardinalityType DEF Crowd
      <3>5. \A q \in Procs : Credits(q) /\ owner[q] = a => q \in P
        BY <1>1 DEF Credits, At, Booters, Booting
      <3>6. P \in SUBSET Procs BY DEF Booters
      <3> HIDE DEF P
      <3>7. Cardinality(Coming(a)) <= Cardinality(P) * (SeedAmount + debt)
        BY <3>5, <3>6, ComingFrom
      <3>8. SeedAmount + debt \in Nat /\ SeedAmount + debt <= SeedAmount + debt
        BY <1>4, ConstantsAssumption
      <3>9. /\ Cardinality(P) * (SeedAmount + debt) \in Nat
            /\ overlaps * (SeedAmount + debt) \in Nat
            /\ Cardinality(P) * (SeedAmount + debt) <= overlaps * (SeedAmount + debt)
        BY <1>4, <3>4, <3>8, Product
      <3> QED BY <1>4, <3>7, <3>9
    <2>5. overlaps * (SeedAmount + debt) \in Nat
      <3>1. SeedAmount + debt \in Nat BY <1>4, ConstantsAssumption
      <3> QED BY <1>4, <3>1, Product
    <2>6. balance[a] + Cardinality(Coming(a)') <= SeedAmount + overlaps * (SeedAmount + debt)
      BY <1>4, <2>2, <2>3, <2>4, <2>5, ConstantsAssumption
    <2> QED BY <1>4, <1>5, <2>3, <2>5, <2>6, ConstantsAssumption
  <1>7. CASE ~(owner[p] = a /\ Credits(p)')
    <2>1. Coming(a)' \in SUBSET Coming(a)
      <3> SUFFICES ASSUME NEW u \in Coming(a)' PROVE u \in Coming(a) OBVIOUS
      <3>1. PICK q \in Procs : /\ Credits(q)' /\ owner'[q] = a
                               /\ \E n \in 1 .. TopUp(q)' : u = <<q, n>>
        BY ComingNext
      <3>2. q # p BY <1>1, <1>7, <3>1
      <3> QED BY <1>2, <3>1, <3>2, ComingIs DEF Kept
    <2>2. IsFiniteSet(Coming(a)) BY ComingFinite
    <2>3. Cardinality(Coming(a)') \in Nat /\ Cardinality(Coming(a)') <= Cardinality(Coming(a))
      BY <2>1, <2>2, FS_Subset, FS_CardinalityType
    <2>4. balance[a] + Cardinality(Coming(a)) <= Allowed BY DEF Capped
    <2> QED BY <1>4, <1>5, <2>3, <2>4
  <1> QED BY <1>6, <1>7

(* A balance that was not read counts as 0.                                *)
LEMMA MisreadCapped ==
    ASSUME IInv, IInv', Deep, Capped, NEW p \in Procs, MisreadBalance(p)
    PROVE  Capped'
  <1>1. /\ pc[p] = "fund" /\ owner' = owner /\ balance' = balance /\ seen' = seen
        /\ misreads' = misreads + 1 /\ UNCHANGED <<debt, overlaps, earned>>
        /\ \A q \in Procs : q # p => pc'[q] = pc[q]
    BY DEF MisreadBalance, At, Go, IInv, Typed, database
  <1>2. \A q \in Procs : q # p /\ Credits(q)' => Kept(q)
    BY <1>1 DEF Credits, Kept, At, BelowFloor, TopUp
  <1>3. seen[p] = 0 BY <1>1 DEF IInv, Fresh, At
  <1>4. TopUp(p)' = SeedAmount /\ SeedAmount \in Nat
    BY <1>1, <1>3, ConstantsAssumption DEF TopUp
  <1> SUFFICES ASSUME NEW a \in Ids
               PROVE  balance[a] + Cardinality(Coming(a)') <= Allowed'
    BY <1>1 DEF Capped, Ids, Procs
  <1>5. /\ Cardinality(Coming(a)') \in Nat
        /\ Cardinality(Coming(a)') <= Cardinality(Coming(a)) + SeedAmount
    BY <1>2, <1>4, OneMore
  <1>6. balance[a] \in Int /\ Cardinality(Coming(a)) \in Nat /\ overlaps \in Nat /\ debt \in Nat
        /\ earned \in Nat /\ misreads \in Nat
    BY ComingFinite DEF IInv, Typed
  <1>7. /\ Share(misreads, overlaps, debt) \in Nat
        /\ Share(misreads + 1, overlaps, debt) = Share(misreads, overlaps, debt) + SeedAmount
    BY <1>6, ShareIs
  <1>8. Allowed = Share(misreads, overlaps, debt) + earned BY DEF Allowed, Share
  <1>9. Allowed' = Share(misreads + 1, overlaps, debt) + earned BY <1>1 DEF Allowed, Share
  <1>10. balance[a] + Cardinality(Coming(a)) <= Allowed BY DEF Capped
  <1>11. balance[a] + Cardinality(Coming(a)')
           <= (Share(misreads, overlaps, debt) + SeedAmount) + earned
    BY <1>4, <1>5, <1>6, <1>7, <1>8, <1>10
  <1> QED BY <1>7, <1>9, <1>11

-----------------------------------------------------------------------------
(* Every start beside a process in Init is counted.                        *)
LEMMA BootersFinite == IsFiniteSet(Booters) /\ Cardinality(Booters) \in Nat
  <1>1. Booters \in SUBSET Procs BY DEF Booters
  <1> QED BY <1>1, ProcsFinite, FS_Subset, FS_CardinalityType

LEMMA StartCrowd == ASSUME IInv, Crowd, NEW p \in Procs, Start(p) PROVE Crowd'
  <1>1. /\ overlaps \in Nat /\ \A q \in Procs : q # p => pc'[q] = pc[q]
        /\ overlaps' = IF \E q \in Procs : Booting(q) THEN overlaps + 1 ELSE overlaps
    BY DEF Start, Go, IInv, Typed
  <1>2. Booters' \in SUBSET (Booters \cup {p}) BY <1>1 DEF Booters, Booting
  <1>3. /\ IsFiniteSet(Booters \cup {p})
        /\ \/ Cardinality(Booters \cup {p}) = Cardinality(Booters)
           \/ Cardinality(Booters \cup {p}) = Cardinality(Booters) + 1
    BY BootersFinite, FS_AddElement
  <1>4. /\ Cardinality(Booters') \in Nat
        /\ Cardinality(Booters') <= Cardinality(Booters \cup {p})
    BY <1>2, <1>3, FS_Subset, FS_CardinalityType
  <1>5. CASE \E q \in Procs : Booting(q)
    BY <1>1, <1>3, <1>4, <1>5, BootersFinite DEF Crowd
  <1>6. CASE ~\E q \in Procs : Booting(q)
    <2>1. Booters = {} BY <1>6 DEF Booters
    <2>2. Cardinality(Booters) = 0 BY <2>1, FS_EmptySet
    <2> QED BY <1>1, <1>3, <1>4, <1>6, <2>2 DEF Crowd
  <1> QED BY <1>5, <1>6

LEMMA SameCrowd ==
    ASSUME Crowd, overlaps' = overlaps, overlaps \in Nat,
           \A q \in Procs : Booting(q)' => Booting(q)
    PROVE  Crowd'
  <1>1. Booters' \in SUBSET Booters BY DEF Booters
  <1>2. Cardinality(Booters') \in Nat /\ Cardinality(Booters') <= Cardinality(Booters)
    BY <1>1, BootersFinite, FS_Subset, FS_CardinalityType
  <1> QED BY <1>2, BootersFinite DEF Crowd

(* What a step of a process leaves as it is, but for reading or crediting  *)
(* a balance.                                                              *)
LEMMA PlainSteps ==
    ASSUME IInv, NEW p \in Procs,
           \/ Start(p) \/ DetectExchange(p) \/ DetectFails(p) \/ FindActor(p) \/ ActorMissing(p)
           \/ InsertActor(p) \/ InsertUnacknowledged(p) \/ ReadPosition(p) \/ MisreadPosition(p)
           \/ Dies(p) \/ ReportEnds(p)
    PROVE  /\ UNCHANGED <<balance, debt, misreads, earned>>
           /\ overlaps' \in Nat /\ overlaps' >= overlaps
           /\ \A q \in Procs : seen'[q] \in {0, seen[q]}
           /\ \A q \in Procs : pc'[q] = "seed" =>
                 pc[q] = "seed" /\ owner'[q] = owner[q] /\ seen'[q] = seen[q]
           /\ ~Start(p) => overlaps' = overlaps /\ \A q \in Procs : Booting(q)' => Booting(q)
  <1> USE DEF IInv, Typed, At, Go, Booting, database, players, past
  <1>1. CASE Start(p) BY <1>1 DEF Start
  <1>2. CASE DetectExchange(p) BY <1>2 DEF DetectExchange
  <1>3. CASE DetectFails(p) BY <1>3 DEF DetectFails
  <1>4. CASE FindActor(p) BY <1>4 DEF FindActor
  <1>5. CASE ActorMissing(p) BY <1>5 DEF ActorMissing
  <1>6. CASE InsertActor(p) BY <1>6 DEF InsertActor
  <1>7. CASE InsertUnacknowledged(p) BY <1>7 DEF InsertUnacknowledged, Exit
  <1>8. CASE ReadPosition(p) BY <1>8 DEF ReadPosition
  <1>9. CASE MisreadPosition(p) BY <1>9 DEF MisreadPosition
  <1>10. CASE Dies(p) BY <1>10 DEF Dies, Exit
  <1>11. CASE ReportEnds(p) BY <1>11 DEF ReportEnds, Exit
  <1> QED BY <1>1, <1>2, <1>3, <1>4, <1>5, <1>6, <1>7, <1>8, <1>9, <1>10, <1>11

LEMMA PlainLent ==
    ASSUME IInv, IInv', Lent, UNCHANGED <<debt, misreads>>,
           overlaps' >= overlaps, Crowd',
           \A a \in Ids : balance'[a] >= balance[a] /\ balance'[a] - earned' <= balance[a] - earned,
           \A q \in Procs : seen'[q] \in {0, seen[q]},
           \A q \in Procs : pc'[q] = "seed" =>
               pc[q] = "seed" /\ owner'[q] = owner[q] /\ seen'[q] = seen[q]
    PROVE  Lent'
  <1>1. debt \in Nat /\ misreads \in Nat /\ \A a \in Ids : balance[a] \in Int /\ balance'[a] \in Int
    BY DEF IInv, Typed, Ids, Procs
  <1>2. \A q \in Procs : Credits(q)' => Kept(q) BY DEF Credits, Kept, At, BelowFloor, TopUp
  <1>3. Capped' BY <1>1, <1>2, AsideCapped DEF Lent
  <1>4. \A a \in Ids : balance'[a] + debt' >= 0 BY <1>1 DEF Lent, Deep
  <1>5. \A q \in Procs : seen'[q] + debt' >= 0
    BY <1>1 DEF Lent, Deep, IInv, Typed
  <1>6. Deep' BY <1>4, <1>5 DEF Deep, Ids, Procs
  <1> QED BY <1>3, <1>6 DEF Lent

LEMMA ProcessLent ==
    ASSUME IInv, IInv', Lent, NEW p \in Procs,
           Start(p) \/ Boot(p) \/ Dies(p) \/ ReportEnds(p)
    PROVE  Lent'
  <1>1. CASE \/ Start(p) \/ DetectExchange(p) \/ DetectFails(p) \/ FindActor(p) \/ ActorMissing(p)
             \/ InsertActor(p) \/ InsertUnacknowledged(p) \/ ReadPosition(p)
             \/ MisreadPosition(p) \/ Dies(p) \/ ReportEnds(p)
    <2>1. /\ UNCHANGED <<balance, debt, misreads, earned>>
          /\ overlaps' \in Nat /\ overlaps' >= overlaps
          /\ \A q \in Procs : seen'[q] \in {0, seen[q]}
          /\ \A q \in Procs : pc'[q] = "seed" =>
                pc[q] = "seed" /\ owner'[q] = owner[q] /\ seen'[q] = seen[q]
          /\ ~Start(p) => overlaps' = overlaps /\ \A q \in Procs : Booting(q)' => Booting(q)
      BY <1>1, PlainSteps
    <2>2. Crowd' BY <2>1, StartCrowd, SameCrowd DEF Lent
    <2>3. \A a \in Ids : balance'[a] >= balance[a] /\ balance'[a] - earned' <= balance[a] - earned
      BY <2>1 DEF IInv, Typed
    <2> QED BY <2>1, <2>2, <2>3, PlainLent
  <1>2. CASE ReadBalance(p)
    <2>1. /\ Go(p, "seed") /\ At(p, "fund") /\ UNCHANGED <<balance, debt, overlaps, owner>>
          /\ seen' = [seen EXCEPT ![p] = balance[owner[p]]]
      BY <1>2 DEF ReadBalance, database, past
    <2>2. Crowd' BY <2>1, SameCrowd DEF Go, At, Booting, IInv, Typed, Lent
    <2>3. owner[p] \in Ids BY <2>1, ActorsHaveIds DEF IInv, Known, Owning, At
    <2>4. Deep' BY <2>1, <2>3 DEF Deep, Lent, Ids, Procs, IInv, Typed
    <2> QED BY <1>2, <2>2, <2>4, ReadCapped DEF Lent
  <1>3. CASE MisreadBalance(p)
    <2>1. Go(p, "seed") /\ At(p, "fund") /\ UNCHANGED <<balance, debt, overlaps, seen>>
      BY <1>3 DEF MisreadBalance, database
    <2>2. Crowd' BY <2>1, SameCrowd DEF Go, At, Booting, IInv, Typed, Lent
    <2>3. Deep' BY <2>1 DEF Deep, Lent, Ids, Procs
    <2> QED BY <1>3, <2>2, <2>3, MisreadCapped DEF Lent
  <1>4. CASE Seed(p) \/ SeedUnacknowledged(p)
    <2>1. /\ At(p, "seed") /\ pc' \in [Procs -> Steps] /\ pc'[p] # "seed" /\ seen'[p] = 0
          /\ Booting(p)' => Booting(p)
          /\ UNCHANGED <<debt, misreads, overlaps, earned>>
          /\ \A q \in Procs : q # p => pc'[q] = pc[q] /\ owner'[q] = owner[q] /\ seen'[q] = seen[q]
      BY <1>4 DEF Seed, SeedUnacknowledged, Exit, Go, At, Booting, past, IInv, Typed
    <2>2. Crowd' BY <2>1, SameCrowd DEF Booting, IInv, Typed, Lent
    <2>3. CASE Credits(p)
      <3>1. Credited(p) BY <1>4, <2>3 DEF Seed, SeedUnacknowledged, Credits
      <3>2. Capped' BY <2>1, <2>3, <3>1, CreditCapped DEF Lent
      <3>3. \A a \in Ids : balance'[a] >= balance[a]
        BY <2>3, <3>1, Crediting DEF Credits
      <3>4. Deep'
        <4>1. \A q \in Procs : seen'[q] \in {0, seen[q]} BY <2>1
        <4>2. debt \in Nat /\ \A a \in Ids : balance[a] \in Int /\ balance'[a] \in Int
          BY DEF IInv, Typed, Ids, Procs
        <4>3. \A a \in Ids : balance'[a] + debt' >= 0 BY <2>1, <3>3, <4>2 DEF Deep, Lent
        <4>4. \A q \in Procs : seen'[q] + debt' >= 0
          BY <2>1, <4>1, <4>2 DEF Deep, Lent, IInv, Typed
        <4> QED BY <4>3, <4>4 DEF Deep, Ids, Procs
      <3> QED BY <2>2, <3>2, <3>4 DEF Lent
    <2>4. CASE ~Credits(p)
      <3>1. balance' = balance BY <1>4, <2>1, <2>4 DEF Seed, SeedUnacknowledged, Credits
      <3>2. \A a \in Ids : balance'[a] >= balance[a] /\ balance'[a] - earned' <= balance[a] - earned
        BY <2>1, <3>1 DEF IInv, Typed
      <3>3. overlaps' >= overlaps BY <2>1 DEF IInv, Typed
      <3>4. \A q \in Procs : seen'[q] \in {0, seen[q]} BY <2>1
      <3>5. \A q \in Procs : pc'[q] = "seed" =>
               pc[q] = "seed" /\ owner'[q] = owner[q] /\ seen'[q] = seen[q]
        BY <2>1
      <3> QED BY <2>1, <2>2, <3>2, <3>3, <3>4, <3>5, PlainLent
    <2> QED BY <2>3, <2>4
  <1> QED BY <1>1, <1>2, <1>3, <1>4 DEF Boot

LEMMA OthersLent ==
    ASSUME IInv, IInv', Lent,
           \/ ListItem \/ RollBackItem \/ Spend \/ ItemLeaves \/ BotIsPaid \/ PlayersTrade
           \/ UNCHANGED vars
    PROVE  Lent'
  <1> USE DEF database, players, processes, past, vars
  <1>1. /\ pc' = pc /\ owner' = owner /\ seen' = seen /\ misreads' = misreads /\ overlaps' = overlaps
        /\ overlaps' >= overlaps
    BY DEF ListItem, RollBackItem, Spend, ItemLeaves, BotIsPaid, PlayersTrade, IInv, Typed
  <1>2. Crowd' BY <1>1, SameCrowd DEF Booting, IInv, Typed, Lent
  <1>3. \A q \in Procs : Credits(q)' => Kept(q)
    BY <1>1 DEF Credits, Kept, At, BelowFloor, TopUp
  <1>4. CASE Spend
    <2>1. /\ debt' \in Nat /\ debt' >= debt
          /\ debt' + (balance[owner[Pod]] - Price) >= 0
      BY <1>4, DebtStep
    <2>2. owner[Pod] \in Ids
      BY <1>4, ActorsHaveIds DEF Spend, At, IInv, Known, Owning, Procs
    <2>3. /\ balance'[owner[Pod]] = balance[owner[Pod]] - Price /\ earned' = earned
          /\ \A a \in Ids : a # owner[Pod] => balance'[a] = balance[a]
      BY <1>4, <2>2 DEF Spend, IInv, Typed
    <2>4. \A a \in Ids : balance'[a] - earned' <= balance[a] - earned
      BY <2>2, <2>3, ConstantsAssumption DEF IInv, Typed
    <2>5. misreads' >= misreads BY <1>1 DEF IInv, Typed
    <2>6. Capped' BY <1>1, <1>3, <2>1, <2>4, <2>5, AsideCapped DEF Lent
    <2>7. \A a \in Ids : balance'[a] + debt' >= 0
      BY <2>1, <2>2, <2>3 DEF Deep, Lent, IInv, Typed
    <2>8. \A q \in Procs : seen[q] + debt' >= 0 BY <2>1 DEF Deep, Lent, IInv, Typed
    <2>9. Deep' BY <1>1, <2>7, <2>8 DEF Deep, Ids, Procs
    <2> QED BY <1>2, <2>6, <2>9 DEF Lent
  <1>5. CASE BotIsPaid
    <2>1. PICK b \in Actors : balance' = [balance EXCEPT ![b] = @ + 1] BY <1>5 DEF BotIsPaid
    <2>2. earned' = earned + 1 /\ debt' = debt BY <1>5 DEF BotIsPaid
    <2>3. \A a \in Ids : balance'[a] \in {balance[a], balance[a] + 1}
      BY <2>1, ActorsHaveIds DEF IInv, Typed
    <2>4. \A a \in Ids : balance'[a] >= balance[a] /\ balance'[a] - earned' <= balance[a] - earned
      BY <2>2, <2>3 DEF IInv, Typed
    <2> QED BY <1>1, <1>2, <2>2, <2>4, PlainLent
  <1>6. CASE ListItem \/ RollBackItem \/ ItemLeaves \/ PlayersTrade \/ UNCHANGED vars
    <2>1. UNCHANGED <<balance, earned, debt>>
      BY <1>6 DEF ListItem, RollBackItem, ItemLeaves, PlayersTrade
    <2>2. \A a \in Ids : balance'[a] >= balance[a] /\ balance'[a] - earned' <= balance[a] - earned
      BY <2>1 DEF IInv, Typed
    <2> QED BY <1>1, <1>2, <2>1, <2>2, PlainLent
  <1> QED BY <1>4, <1>5, <1>6

LEMMA InitLent == Init => Lent
  <1> SUFFICES ASSUME Init PROVE Lent OBVIOUS
  <1>1. Booters = {} BY DEF Init, Booters, Booting
  <1>2. Crowd BY <1>1, FS_EmptySet DEF Init, Crowd
  <1>3. Deep BY DEF Init, Deep
  <1>4. \A a : Coming(a) = {} BY DEF Init, Coming, Credits, At
  <1>5. \A a : Cardinality(Coming(a)) = 0 BY <1>4, FS_EmptySet
  <1>6. Allowed >= 0 /\ \A a \in Ids : balance[a] = 0
    <2>1. misreads = 0 /\ overlaps = 0 /\ debt = 0 /\ earned = 0 BY DEF Init
    <2>2. Allowed = Share(0, 0, 0) + 0 BY <2>1 DEF Allowed, Share
    <2>3. Share(0, 0, 0) \in Nat BY ShareIs
    <2> QED BY <2>2, <2>3 DEF Init
  <1>7. Capped BY <1>5, <1>6 DEF Capped
  <1> QED BY <1>2, <1>3, <1>7 DEF Lent

(* What Init credits is bounded, with failures, crashes and -report beside *)
(* it (initBotUser, lines 268 to 287): one seed amount, one for every      *)
(* balance whose query failed, and for every start beside a process in     *)
(* Init one and the debt it makes up for.                                  *)
THEOREM SeedsBounded == Spec => []NotOverfunded
  <1>1. ASSUME IInv, Lent PROVE NotOverfunded
    <2> SUFFICES ASSUME NEW a \in Actors PROVE balance[a] <= Allowed BY DEF NotOverfunded
    <2>1. a \in Ids BY <1>1, ActorsHaveIds DEF IInv
    <2>2. balance[a] + Cardinality(Coming(a)) <= Allowed BY <1>1, <2>1 DEF Lent, Capped
    <2>3. balance[a] \in Int /\ Cardinality(Coming(a)) \in Nat
      BY <1>1, <2>1, ComingFinite DEF IInv, Typed, Lent
    <2>4. Allowed \in Int
      <3>1. Share(misreads, overlaps, debt) \in Nat BY <1>1, ShareIs DEF IInv, Typed
      <3>2. Allowed = Share(misreads, overlaps, debt) + earned BY DEF Allowed, Share
      <3> QED BY <1>1, <3>1, <3>2 DEF IInv, Typed
    <2> QED BY <2>2, <2>3, <2>4
  <1>2. IInv /\ IInv' /\ Lent /\ [Next]_vars => Lent'
    BY ProcessLent, OthersLent DEF Next
  <1> QED BY InitLent, Invariance, <1>1, <1>2, PTL DEF Spec

-----------------------------------------------------------------------------
(* Copies at a position.                                                   *)
LEMMA Copies ==
    ASSUME NEW x, NEW n, NEW u
    PROVE  u \in CopiesAt(x, n) <=>
             \E i \in DOMAIN items : i.at = x /\ i.pos = n /\ \E k \in 1 .. items[i] : u = <<i, k>>
  BY DEF CopiesAt

LEMMA CopiesPrimed ==
    ASSUME NEW x, NEW n, NEW u
    PROVE  u \in CopiesAt(x, n)' <=>
             \E i \in DOMAIN items' : i.at = x /\ i.pos = n /\ \E k \in 1 .. items'[i] : u = <<i, k>>
  BY DEF CopiesAt

(* Listing adds at most one copy, and none but at its own position.        *)
LEMMA CopiesGrow ==
    ASSUME IInv, Placed, ListItem, NEW x \in Exchanges, NEW n \in 0 .. MaxPos - 1
    PROVE  \E u : CopiesAt(x, n)' \subseteq CopiesAt(x, n) \cup
                    IF x = exchange[Pod] /\ n = nextPos[Pod] THEN {u} ELSE {}
  <1>1. /\ Listed \in [owner : Actors, at : Exchanges, pos : 0 .. MaxPos - 1]
        /\ items' = BagAdd(items, Listed)
    BY ListedRow
  <1>2. \A i \in DOMAIN items : items[i] \in Nat BY DEF Placed
  <1>3. /\ DOMAIN items' = DOMAIN items \cup {Listed}
        /\ \A i \in DOMAIN items : i # Listed => items'[i] = items[i]
        /\ items'[Listed] = IF Listed \in DOMAIN items THEN items[Listed] + 1 ELSE 1
    <2>1. CASE Listed \in DOMAIN items BY <1>1, <2>1 DEF BagAdd
    <2>2. CASE Listed \notin DOMAIN items BY <1>1, <2>2 DEF BagAdd
    <2> QED BY <2>1, <2>2
  <1>4. Listed.at = exchange[Pod] /\ Listed.pos = nextPos[Pod] BY DEF Listed
  <1>5. ASSUME NEW u \in CopiesAt(x, n)', u \notin CopiesAt(x, n)
        PROVE  u = <<Listed, items'[Listed]>> /\ x = exchange[Pod] /\ n = nextPos[Pod]
    <2>1. PICK i \in DOMAIN items' : i.at = x /\ i.pos = n /\ \E k \in 1 .. items'[i] : u = <<i, k>>
      BY <1>5, CopiesPrimed
    <2>2. PICK k \in 1 .. items'[i] : u = <<i, k>> BY <2>1
    <2>3. ~(i \in DOMAIN items /\ k \in 1 .. items[i]) BY <1>5, <2>1, <2>2, Copies
    <2>4. i = Listed BY <1>3, <2>1, <2>2, <2>3
    <2>5. k = items'[Listed] BY <1>2, <1>3, <2>2, <2>3, <2>4
    <2> QED BY <1>4, <2>1, <2>2, <2>4, <2>5
  <1> QED BY <1>5

LEMMA CopiesShrink ==
    ASSUME Placed, ItemLeaves, NEW x, NEW n
    PROVE  CopiesAt(x, n)' \subseteq CopiesAt(x, n)
  <1>1. PICK j \in DOMAIN items : items' = BagRemove(items, j) BY DEF ItemLeaves
  <1>2. \A i \in DOMAIN items : items[i] \in Nat BY DEF Placed
  <1>3. \A i \in DOMAIN items' : i \in DOMAIN items /\ items'[i] \in Nat /\ items'[i] <= items[i]
    <2>1. CASE items[j] = 1
      <3>1. items' = [e \in DOMAIN items \ {j} |-> items[e]] BY <1>1, <2>1 DEF BagRemove
      <3> QED BY <1>2, <3>1
    <2>2. CASE items[j] # 1
      <3>1. items' = [e \in DOMAIN items |-> IF e = j THEN items[e] - 1 ELSE items[e]]
        BY <1>1, <2>2 DEF BagRemove
      <3>2. \A i \in DOMAIN items : items[i] \in Nat \ {0} BY DEF Placed
      <3> QED BY <3>1, <3>2
    <2> QED BY <2>1, <2>2
  <1>4. ASSUME NEW u \in CopiesAt(x, n)' PROVE u \in CopiesAt(x, n)
    <2>1. PICK i \in DOMAIN items' : i.at = x /\ i.pos = n /\ \E k \in 1 .. items'[i] : u = <<i, k>>
      BY <1>4, CopiesPrimed
    <2>2. PICK k \in 1 .. items'[i] : u = <<i, k>> BY <2>1
    <2>3. i \in DOMAIN items /\ k \in 1 .. items[i] BY <1>2, <1>3, <2>1, <2>2
    <2> QED BY <2>1, <2>2, <2>3, Copies
  <1> QED BY <1>4

(* No copy more, no counter back, and the pod no further behind.           *)
LEMMA StillStacked ==
    ASSUME Placed, Stacked, miscounts' \in Nat, miscounts' >= miscounts,
           \A x \in Exchanges, n \in 0 .. MaxPos - 1 :
              /\ CopiesAt(x, n)' \subseteq CopiesAt(x, n)
              /\ Ahead(x, n)' =>
                    Ahead(x, n) \/ CopiesAt(x, n) = {} \/ miscounts' = miscounts + 1
    PROVE  Stacked'
  <1> SUFFICES ASSUME NEW x \in Exchanges, NEW n \in 0 .. MaxPos - 1
               PROVE  /\ IsFiniteSet(CopiesAt(x, n)')
                      /\ Cardinality(CopiesAt(x, n)') <= 1 + miscounts'
                      /\ Ahead(x, n)' => Cardinality(CopiesAt(x, n)') <= miscounts'
    BY DEF Stacked
  <1>1. /\ IsFiniteSet(CopiesAt(x, n)) /\ Cardinality(CopiesAt(x, n)) <= 1 + miscounts
        /\ Ahead(x, n) => Cardinality(CopiesAt(x, n)) <= miscounts
    BY DEF Stacked
  <1>2. CopiesAt(x, n)' \in SUBSET CopiesAt(x, n) OBVIOUS
  <1>3. /\ IsFiniteSet(CopiesAt(x, n)')
        /\ Cardinality(CopiesAt(x, n)') <= Cardinality(CopiesAt(x, n))
    BY <1>1, <1>2, FS_Subset
  <1>4. Cardinality(CopiesAt(x, n)) \in Nat /\ Cardinality(CopiesAt(x, n)') \in Nat
    BY <1>1, <1>3, FS_CardinalityType
  <1>5. CopiesAt(x, n) = {} => Cardinality(CopiesAt(x, n)) = 0 BY FS_EmptySet
  <1> QED BY <1>1, <1>3, <1>4, <1>5 DEF Placed

(* Whatever leaves items alone and does not bring the pod to its ticks.    *)
LEMMA AsideStacked ==
    ASSUME Placed, Stacked, items' = items, miscounts' \in {miscounts, miscounts + 1},
           At(Pod, "ready")' => /\ At(Pod, "ready") /\ exchange'[Pod] = exchange[Pod]
                                /\ nextPos'[Pod] >= nextPos[Pod]
                                /\ nextPos'[Pod] \in Int
    PROVE  Stacked'
  <1>1. Pod \in Procs /\ miscounts \in Nat /\ nextPos[Pod] \in Int BY DEF Placed, Procs
  <1>2. \A x, n : CopiesAt(x, n)' = CopiesAt(x, n) BY DEF CopiesAt
  <1>3. \A x \in Exchanges, n \in 0 .. MaxPos - 1 : Ahead(x, n)' => Ahead(x, n)
    BY <1>1 DEF Ahead, At
  <1> QED BY <1>1, <1>2, <1>3, StillStacked

LEMMA BootStacked ==
    ASSUME IInv, Placed, Stacked, NEW p \in Procs, Boot(p)
    PROVE  Stacked'
  <1> USE DEF database, players, past
  <1>1. pc \in [Procs -> Steps] /\ nextPos \in [Procs -> Int] /\ exchange \in [Procs -> Exchanges]
        /\ Pod \in Procs /\ miscounts \in Nat
    BY DEF IInv, Typed, Placed, Procs
  <1>2. CASE ReadPosition(p)
    <2>1. items' = items /\ miscounts' = miscounts BY <1>2 DEF ReadPosition
    <2>2. \A x, n : CopiesAt(x, n)' = CopiesAt(x, n) BY <2>1 DEF CopiesAt
    <2>3. ASSUME p = Pod, NEW x \in Exchanges, NEW n \in 0 .. MaxPos - 1, Ahead(x, n)'
          PROVE  CopiesAt(x, n) = {}
      <3>1. x = exchange[Pod] /\ n >= AfterHighest(x)
        BY <1>1, <1>2, <2>3 DEF ReadPosition, Ahead
      <3>2. /\ AfterHighest(x) \in 0 .. MaxPos
            /\ \A i \in DOMAIN items : i.at = x => i.pos < AfterHighest(x)
        BY HighestPosition
      <3>3. \A i \in DOMAIN items : i.at = x => i.pos # n BY <3>1, <3>2 DEF Placed
      <3> QED BY <3>3 DEF CopiesAt
    <2>4. p # Pod => \A x \in Exchanges, n \in 0 .. MaxPos - 1 : Ahead(x, n)' => Ahead(x, n)
      BY <1>1, <1>2 DEF ReadPosition, Ahead, At, Go
    <2> QED BY <1>1, <2>1, <2>2, <2>3, <2>4, StillStacked
  <1>3. CASE MisreadPosition(p)
    <2>1. items' = items /\ miscounts' = miscounts + 1 BY <1>3 DEF MisreadPosition
    <2>2. \A x, n : CopiesAt(x, n)' = CopiesAt(x, n) BY <2>1 DEF CopiesAt
    <2> QED BY <1>1, <2>1, <2>2, StillStacked
  <1>4. CASE ~ReadPosition(p) /\ ~MisreadPosition(p)
    <2>1. /\ items' = items /\ miscounts' = miscounts
          /\ \A q \in Procs : pc'[q] = "ready" =>
                pc[q] = "ready" /\ exchange'[q] = exchange[q] /\ nextPos'[q] = nextPos[q]
      BY <1>1, <1>4 DEF Boot, DetectExchange, DetectFails, FindActor, ActorMissing, InsertActor,
         InsertUnacknowledged, ReadBalance, MisreadBalance, Seed, SeedUnacknowledged, Exit, Go, At
    <2> QED BY <1>1, <2>1, AsideStacked DEF At
  <1> QED BY <1>2, <1>3, <1>4

LEMMA TickStacked ==
    ASSUME IInv, Placed, Stacked, ListItem
    PROVE  Stacked'
  <1> SUFFICES ASSUME NEW x \in Exchanges, NEW n \in 0 .. MaxPos - 1
               PROVE  /\ IsFiniteSet(CopiesAt(x, n)')
                      /\ Cardinality(CopiesAt(x, n)') <= 1 + miscounts'
                      /\ Ahead(x, n)' => Cardinality(CopiesAt(x, n)') <= miscounts'
    BY DEF Stacked
  <1>1. /\ pc' = pc /\ exchange' = exchange /\ miscounts' = miscounts /\ miscounts \in Nat
        /\ At(Pod, "ready") /\ nextPos[Pod] \in Int /\ nextPos'[Pod] = nextPos[Pod] + 1
    BY DEF ListItem, past, Placed, Procs
  <1>2. /\ IsFiniteSet(CopiesAt(x, n)) /\ Cardinality(CopiesAt(x, n)) <= 1 + miscounts
        /\ Ahead(x, n) => Cardinality(CopiesAt(x, n)) <= miscounts
    BY DEF Stacked
  <1>3. Cardinality(CopiesAt(x, n)) \in Nat BY <1>2, FS_CardinalityType
  <1>4. CASE x = exchange[Pod] /\ n = nextPos[Pod]
    <2>1. PICK u : CopiesAt(x, n)' \subseteq CopiesAt(x, n) \cup {u} BY <1>4, CopiesGrow
    <2>2. Cardinality(CopiesAt(x, n)) <= miscounts BY <1>1, <1>2, <1>4 DEF Ahead
    <2>3. /\ IsFiniteSet(CopiesAt(x, n) \cup {u})
          /\ Cardinality(CopiesAt(x, n) \cup {u}) <= 1 + miscounts
      <3>1. /\ IsFiniteSet(CopiesAt(x, n) \cup {u})
            /\ \/ Cardinality(CopiesAt(x, n) \cup {u}) = Cardinality(CopiesAt(x, n))
               \/ Cardinality(CopiesAt(x, n) \cup {u}) = Cardinality(CopiesAt(x, n)) + 1
        BY <1>2, FS_AddElement
      <3> QED BY <1>1, <1>3, <2>2, <3>1
    <2>4. CopiesAt(x, n)' \in SUBSET (CopiesAt(x, n) \cup {u}) BY <2>1
    <2>5. /\ IsFiniteSet(CopiesAt(x, n)')
          /\ Cardinality(CopiesAt(x, n)') <= Cardinality(CopiesAt(x, n) \cup {u})
      BY <2>3, <2>4, FS_Subset
    <2>6. /\ Cardinality(CopiesAt(x, n)') \in Nat
          /\ Cardinality(CopiesAt(x, n) \cup {u}) \in Nat
      BY <2>3, <2>5, FS_CardinalityType
    <2>7. ~Ahead(x, n)' BY <1>1, <1>4 DEF Ahead
    <2> QED BY <1>1, <2>3, <2>5, <2>6, <2>7
  <1>5. CASE ~(x = exchange[Pod] /\ n = nextPos[Pod])
    <2>1. CopiesAt(x, n)' \in SUBSET CopiesAt(x, n) BY <1>5, CopiesGrow
    <2>2. /\ IsFiniteSet(CopiesAt(x, n)')
          /\ Cardinality(CopiesAt(x, n)') <= Cardinality(CopiesAt(x, n))
      BY <1>2, <2>1, FS_Subset
    <2>3. Cardinality(CopiesAt(x, n)') \in Nat BY <2>2, FS_CardinalityType
    <2>4. Ahead(x, n)' => Ahead(x, n) BY <1>1 DEF Ahead, At
    <2> QED BY <1>1, <1>2, <1>3, <2>2, <2>3, <2>4
  <1> QED BY <1>4, <1>5

LEMMA StepStacked == ASSUME IInv, Placed, Stacked, [Next]_vars PROVE Stacked'
  <1> USE DEF database, players, processes, past
  <1>1. /\ pc \in [Procs -> Steps] /\ nextPos \in [Procs -> Int] /\ exchange \in [Procs -> Exchanges]
        /\ Pod \in Procs /\ miscounts \in Nat
    BY DEF IInv, Typed, Placed, Procs
  <1>2. ASSUME NEW p \in Procs, Start(p) \/ Dies(p) \/ ReportEnds(p) PROVE Stacked'
    <2>1. /\ items' = items /\ miscounts' = miscounts
          /\ \A q \in Procs : pc'[q] = "ready" =>
                pc[q] = "ready" /\ exchange'[q] = exchange[q] /\ nextPos'[q] = nextPos[q]
      BY <1>1, <1>2 DEF Start, Dies, ReportEnds, Exit, Go, At
    <2> QED BY <1>1, <2>1, AsideStacked DEF At
  <1>3. CASE RollBackItem \/ Spend \/ BotIsPaid \/ PlayersTrade \/ UNCHANGED vars
    <2>1. /\ items' = items /\ miscounts' = miscounts /\ pc' = pc /\ exchange' = exchange
          /\ nextPos'[Pod] \in {nextPos[Pod], nextPos[Pod] + 1}
      BY <1>1, <1>3 DEF RollBackItem, Spend, BotIsPaid, PlayersTrade, vars
    <2> QED BY <1>1, <2>1, AsideStacked DEF At
  <1>4. CASE ItemLeaves
    <2>1. \A x, n : CopiesAt(x, n)' \subseteq CopiesAt(x, n) BY <1>4, CopiesShrink
    <2>2. UNCHANGED <<pc, exchange, nextPos, miscounts>> BY <1>4 DEF ItemLeaves
    <2>3. \A x, n : Ahead(x, n)' => Ahead(x, n) BY <2>2 DEF Ahead, At
    <2> QED BY <1>1, <2>1, <2>2, <2>3, StillStacked
  <1> QED BY <1>2, <1>3, <1>4, BootStacked, TickStacked DEF Next

(* Every position counter that was not read costs at most one more item at *)
(* any position, over all lives of the pod and whatever runs beside it.    *)
THEOREM PositionsBounded == Spec => []PositionsShared
  <1>1. Init => Stacked
    <2> SUFFICES ASSUME Init PROVE Stacked OBVIOUS
    <2>0. DOMAIN items = {} BY DEF Init
    <2>1. \A x, n : CopiesAt(x, n) = {} BY <2>0 DEF CopiesAt
    <2>2. \A x, n : IsFiniteSet(CopiesAt(x, n)) /\ Cardinality(CopiesAt(x, n)) = 0
      BY <2>1, FS_EmptySet
    <2>3. miscounts = 0 BY DEF Init
    <2> QED BY <2>2, <2>3 DEF Stacked
  <1>2. Placed /\ Stacked => PositionsShared
    BY DEF Placed, Stacked, PositionsShared
  <1>3. IInv /\ Placed /\ Stacked /\ [Next]_vars => Placed' /\ Stacked'
    BY StepPlaced, StepStacked
  <1> QED BY InitPlaced, Invariance, <1>1, <1>2, <1>3, PTL DEF Spec
=============================================================================
