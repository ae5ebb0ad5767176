--------------------------- MODULE ControlApiProofs ---------------------------
(***************************************************************************)
(* Proofs about ControlApi for any number of connections, keys and ticks:  *)
(* only checked values get into the configuration, for its callers it is   *)
(* AtomicConfig, and no status mixes values of distant ticks.              *)
(*                                                                         *)
(* The inductive invariant has three parts: who is where in the lock, what *)
(* each caller asked, and what the copies of Apply and Snapshot hold while *)
(* only some of their keys have been visited.                              *)
(***************************************************************************)
EXTENDS ControlApi, TLAPS

Waiting == {"put", "locking", "applying", "get", "blocked", "reading"}

LockInv ==
    /\ readers = {c \in Callers : At(c, "reading")}
    /\ \A c \in Callers : pc[c] \in {"locking", "applying"} <=> writer = c
    /\ \A c \in Callers : At(c, "applying") => readers = {}
    /\ \A c \in Callers : At(c, "blocked") => writer # Nobody
    /\ \A c \in Callers : At(c, "down") <=> At(Bot, "down")

RequestInv == \A c \in Callers :
    /\ pc[c] \in {"put", "locking", "applying"} => \E p \in Patches : request[c] = <<"put", p>>
    /\ pc[c] \in {"get", "blocked", "reading"} => request[c] = <<"get">>
    /\ pc[c] \notin Waiting => request[c] = <<>>

(* What has been visited of a patch has been accepted and is in the copy.  *)
PatchInv(c) ==
    At(c, "applying") =>
        /\ todo[c] \subseteq DOMAIN Patch(c)
        /\ \A k \in Keys \cap (DOMAIN Patch(c) \ todo[c]) : Accepts(k, Patch(c)[k])
        /\ \A k \in Keys :
              copy[c][k] = IF k \in DOMAIN Patch(c) \ todo[c] THEN Patch(c)[k] ELSE config[k]

SnapshotInv(c) ==
    /\ At(c, "blocked") => todo[c] = Keys
    /\ At(c, "reading") => \A k \in Keys \ todo[c] : copy[c][k] = config[k]

CopyInv == \A c \in Callers : PatchInv(c) /\ SnapshotInv(c)

IInv ==
    /\ TypeOK /\ DOMAIN pc = Callers
    /\ LockInv /\ RequestInv /\ CopyInv

-----------------------------------------------------------------------------
LEMMA CallerFacts ==
    /\ Bot \in Callers /\ Clients \subseteq Callers /\ Operators \subseteq Clients
    /\ Viewers \subseteq Clients /\ Bot \notin Clients /\ Nobody \notin Callers
BY ConstantsAssumption DEF Callers, Clients

LEMMA PatchValues ==
    ASSUME NEW p \in Patches, NEW k \in DOMAIN p
    PROVE  p[k] \in Int /\ p[k] \in Values
<1>1. p[k] \in Values
  BY ConstantsAssumption, Zenon
<1>2. Values \subseteq Int
  BY ConstantsAssumption DEF Malformed
<1> QED
  BY <1>1, <1>2

LEMMA InitInv == Init => IInv
<1> SUFFICES ASSUME Init PROVE IInv
  OBVIOUS
<1>1. TypeOK /\ DOMAIN pc = Callers
  BY CallerFacts, ConstantsAssumption
  DEF Init, TypeOK, Counters, Unset, Unfilled, Malformed, Failed, ClientSteps, BotSteps
<1>2. LockInv
  BY CallerFacts DEF Init, LockInv, At
<1>3. RequestInv /\ CopyInv
  BY DEF Init, RequestInv, CopyInv, PatchInv, SnapshotInv, At, Waiting
<1> QED
  BY <1>1, <1>2, <1>3 DEF IInv

-----------------------------------------------------------------------------
(* Type correctness, one lemma per group of actions.                       *)
LEMMA LockTypes ==
    ASSUME IInv, NEW c \in Callers,
           Announce(c) \/ Lock(c) \/ RLock(c) \/ RUnlock(c)
    PROVE  TypeOK' /\ DOMAIN pc' = Callers
<1> USE CallerFacts DEF IInv, TypeOK, At, Go, configVars, statusVars
<1>1. CASE Announce(c)
  BY <1>1 DEF Announce, ClientSteps, BotSteps
<1>2. CASE Lock(c)
  BY <1>2 DEF Lock, ClientSteps, BotSteps
<1>3. CASE RLock(c)
  BY <1>3 DEF RLock, ClientSteps, BotSteps
<1>4. CASE RUnlock(c)
  <2>1. copy' \in [Callers -> [Keys -> Int]]
    BY <1>4 DEF RUnlock, Done, Unfilled, Malformed
  <2>2. pc' = [pc EXCEPT ![c] = IF c # Bot THEN "answer"
                                ELSE IF kind = "buy" THEN "buying" ELSE "pricing"]
    BY <1>4 DEF RUnlock
  <2>3. readers' \subseteq Callers
    BY <1>4 DEF RUnlock, ReadersWithout
  <2> QED
    BY <1>4, <2>1, <2>2, <2>3 DEF RUnlock, Done, Answer, ClientSteps, BotSteps
<1> QED
  BY <1>1, <1>2, <1>3, <1>4

LEMMA UnlockTypes ==
    ASSUME TypeOK, DOMAIN pc = Callers, NEW c \in Clients, Unlock(c)
    PROVE  /\ DOMAIN pc' = Callers
           /\ \A d \in Clients : pc'[d] \in ClientSteps
           /\ pc'[Bot] \in BotSteps
           /\ writer' \in Callers \cup {Nobody} /\ readers' \subseteq Callers
BY CallerFacts DEF TypeOK, Unlock, Blocked, At, ClientSteps, BotSteps

LEMMA CopyTypes ==
    ASSUME IInv, NEW c \in Callers,
           ApplyKey(c) \/ RejectKey(c) \/ Commit(c) \/ CopyField(c)
    PROVE  TypeOK' /\ DOMAIN pc' = Callers
<1> USE CallerFacts DEF IInv, At
<1>1. CASE ApplyKey(c)
  <2>1. PICK k \in todo[c] : copy' = [copy EXCEPT ![c] = WithKey(c, k)] /\ At(c, "applying")
    BY <1>1 DEF ApplyKey
  <2>2. PICK p \in Patches : request[c] = <<"put", p>>
    BY <2>1 DEF RequestInv
  <2>3. Patch(c) = p /\ k \in DOMAIN p
    BY <2>1, <2>2 DEF Patch, CopyInv, PatchInv
  <2>4. WithKey(c, k) \in [Keys -> Int]
    BY <2>3, PatchValues DEF WithKey, TypeOK
  <2> QED
    BY <1>1, <2>1, <2>4 DEF ApplyKey, TypeOK, configVars, statusVars
<1>2. CASE RejectKey(c) \/ Commit(c)
  <2>1. c \in Clients
    BY <1>2 DEF RejectKey, Commit, TypeOK, BotSteps, Callers
  <2>2. Unlock(c)
    BY <1>2 DEF RejectKey, Commit
  <2>3. config' \in [Keys -> Int] /\ copy' \in [Callers -> [Keys -> Int]]
    BY <1>2 DEF RejectKey, Commit, AfterReject, Done, Unfilled, Malformed, TypeOK
  <2> QED
    BY <1>2, <2>1, <2>2, <2>3, UnlockTypes
    DEF RejectKey, Commit, Answer, Done, TypeOK, statusVars
<1>3. CASE CopyField(c)
  <2>1. PICK k \in todo[c] : copy' = [copy EXCEPT ![c] = [@ EXCEPT ![k] = config[k]]]
    BY <1>3 DEF CopyField
  <2>2. k \in Keys => config[k] \in Int
    BY DEF TypeOK
  <2>3. copy[c] \in [Keys -> Int]
    BY DEF TypeOK
  <2>4. [copy[c] EXCEPT ![k] = config[k]] \in [Keys -> Int]
    BY <2>2, <2>3
  <2>5. copy' \in [Callers -> [Keys -> Int]]
    BY <2>1, <2>4 DEF TypeOK
  <2> QED
    BY <1>3, <2>5 DEF CopyField, TypeOK, configVars, statusVars
<1> QED
  BY <1>1, <1>2, <1>3

(* What no step of the lock's protocol is.                                 *)
Asking(c) ==
    \/ c \in Operators /\ (ReceivePut(c) \/ ReceiveGet(c))
    \/ c = Bot /\ \E k \in {"buy", "list"} : StartTick(k)

Elsewhere ==
    \/ \E c \in Viewers : ReceiveOther(c) \/ Load(c) \/ ReadPrices(c)
    \/ \E c \in Clients : Responded(c)
    \/ BotStep \/ Restart

LEMMA NextCases ==
    Next <=> \/ \E c \in Callers : Asking(c) \/ Handler(c)
             \/ Elsewhere \/ Crash \/ MapRace
BY CallerFacts DEF Next, Asking, Elsewhere

LEMMA AskingTypes ==
    ASSUME IInv, NEW c \in Callers, Asking(c)
    PROVE  TypeOK' /\ DOMAIN pc' = Callers
<1> USE CallerFacts DEF IInv, TypeOK, At, Go, lockVars, Ask
<1>1. CASE c \in Operators /\ (ReceivePut(c) \/ ReceiveGet(c))
  BY <1>1 DEF ReceivePut, ReceiveGet, ClientSteps, statusVars
<1>2. ASSUME NEW k \in {"buy", "list"}, c = Bot, StartTick(k)
      PROVE  TypeOK' /\ DOMAIN pc' = Callers
  BY <1>2 DEF StartTick, BotSteps
<1> QED
  BY <1>1, <1>2 DEF Asking

LEMMA BotStepTypes ==
    ASSUME IInv, BotStep
    PROVE  TypeOK' /\ DOMAIN pc' = Callers
<1> USE CallerFacts DEF IInv, At, Go
<1>1. \E f, t \in BotSteps : BotGoes(f, t)
  BY DEF BotStep, EndBuyTick, WritePrices, LoadFails, StoreList, StoreFirst, StoreSecond,
         Refresh, BotSteps
<1>2. counters' \in [Counters -> Failed .. MaxTicks]
  <2>1. counters["list"] \in Failed .. MaxTicks
    BY DEF TypeOK, Counters
  <2>2. \/ UNCHANGED counters
        \/ \E x \in Counters, v \in Failed .. MaxTicks : counters' = [counters EXCEPT ![x] = v]
    BY <2>1, ConstantsAssumption DEF BotStep, EndBuyTick, WritePrices, LoadFails, StoreList,
       StoreFirst, StoreSecond, Refresh, Store, StoreOrder, Counters, Failed
  <2> QED
    BY <2>2 DEF TypeOK
<1> QED
  BY <1>1, <1>2 DEF BotGoes, TypeOK, lockVars

LEMMA ElsewhereTypes ==
    ASSUME IInv, Elsewhere
    PROVE  TypeOK' /\ DOMAIN pc' = Callers
<1> USE CallerFacts DEF IInv, At, Go
<1>1. CASE BotStep
  BY <1>1, BotStepTypes
<1>2. ASSUME NEW c \in Viewers, ReceiveOther(c) \/ Load(c) \/ ReadPrices(c)
      PROVE  TypeOK' /\ DOMAIN pc' = Callers
  <2>1. CASE Load(c)
    <3>1. PICK x \in Counters : /\ shown' = [shown EXCEPT ![c] = [@ EXCEPT ![x] = counters[x]]]
                                /\ pc' = [pc EXCEPT ![c] = AfterLoad[x]]
      BY <2>1 DEF Load
    <3>2. [shown[c] EXCEPT ![x] = counters[x]] \in [Counters -> Failed .. MaxTicks]
      BY DEF TypeOK
    <3>3. AfterLoad[x] \in ClientSteps
      BY DEF AfterLoad, Counters, ClientSteps
    <3>4. shown' \in [Clients -> [Counters -> Failed .. MaxTicks]]
      BY <3>1, <3>2 DEF TypeOK
    <3> QED
      BY <2>1, <3>1, <3>3, <3>4 DEF Load, TypeOK, configVars, lockVars
  <2> QED
    BY <1>2, <2>1 DEF ReceiveOther, ReadPrices, TypeOK, configVars, lockVars, statusVars,
                      ClientSteps, Counters
<1>3. ASSUME NEW c \in Clients, Responded(c)
      PROVE  TypeOK' /\ DOMAIN pc' = Callers
  BY <1>3, ConstantsAssumption DEF Responded, Unset, Failed, TypeOK, lockVars, ClientSteps
<1>4. CASE Restart
  BY <1>4 DEF Restart, TypeOK, configVars, lockVars, statusVars, ClientSteps, BotSteps
<1> QED
  BY <1>1, <1>2, <1>3, <1>4 DEF Elsewhere

LEMMA DeadInv == ASSUME Die PROVE IInv'
<1>1. TypeOK' /\ DOMAIN pc' = Callers
  BY CallerFacts, ConstantsAssumption
  DEF Die, TypeOK, Counters, Unset, Unfilled, Malformed, Failed, ClientSteps, BotSteps
<1>2. LockInv' /\ RequestInv' /\ CopyInv'
  BY CallerFacts DEF Die, LockInv, RequestInv, CopyInv, PatchInv, SnapshotInv, At, Waiting
<1> QED
  BY <1>1, <1>2 DEF IInv

-----------------------------------------------------------------------------
(* The other conjuncts.  A caller that is not at a step of the lock's      *)
(* protocol, and does not get there, disturbs none of them.                *)
LEMMA ElsewhereInv ==
    ASSUME IInv, Elsewhere
    PROVE  LockInv' /\ RequestInv' /\ CopyInv'
<1>1. /\ UNCHANGED <<lockVars, config, request>>
      /\ \A c \in Callers : pc'[c] = pc[c] \/ (pc[c] \notin Waiting /\ pc'[c] \notin Waiting)
      /\ \A c \in Callers : pc'[c] = "down" <=> pc'[Bot] = "down"
  <2> USE CallerFacts DEF IInv, At, Go, TypeOK, LockInv
  <2>1. CASE BotStep
    <3>1. \E f, t \in BotSteps \ (Waiting \cup {"down"}) : BotGoes(f, t)
      BY <2>1 DEF BotStep, EndBuyTick, WritePrices, LoadFails, StoreList, StoreFirst,
                  StoreSecond, Refresh, BotSteps, Waiting
    <3> QED
      BY <3>1 DEF BotGoes, Waiting
  <2>2. ASSUME NEW c \in Viewers, ReceiveOther(c) \/ Load(c) \/ ReadPrices(c)
        PROVE  <1>1!1 /\ <1>1!2 /\ <1>1!3
    BY <2>2 DEF ReceiveOther, Load, ReadPrices, AfterLoad, Counters, configVars, Waiting
  <2>3. ASSUME NEW c \in Clients, Responded(c)
        PROVE  <1>1!1 /\ <1>1!2 /\ <1>1!3
    BY <2>3 DEF Responded, Waiting
  <2>4. CASE Restart
    <3>1. \A c \in Callers : pc[c] = "down"
      BY <2>4 DEF Restart
    <3> QED
      BY <2>4, <3>1 DEF Restart, configVars, Waiting
  <2> QED
    BY <2>1, <2>2, <2>3, <2>4 DEF Elsewhere
<1>2. UNCHANGED <<writer, readers, todo, copy, config, request>>
  BY <1>1 DEF lockVars
<1>3. \A c \in Callers, step \in Waiting : pc'[c] = step <=> pc[c] = step
  BY <1>1
<1>4. LockInv'
  <2>1. readers' = {c \in Callers : At(c, "reading")'}
    BY <1>2, <1>3 DEF IInv, LockInv, At, Waiting
  <2> QED
    BY <1>1, <1>2, <1>3, <2>1 DEF IInv, LockInv, At, Waiting
<1>5. RequestInv'
  BY <1>1, <1>2, <1>3 DEF IInv, RequestInv, Waiting
<1>6. CopyInv'
  BY <1>2, <1>3 DEF IInv, CopyInv, PatchInv, SnapshotInv, At, Waiting, Patch, Accepts
<1> QED
  BY <1>4, <1>5, <1>6

LEMMA AskingInv ==
    ASSUME IInv, NEW c \in Callers, Asking(c)
    PROVE  LockInv' /\ RequestInv' /\ CopyInv'
<1>1. /\ UNCHANGED <<writer, readers, todo, copy, config>>
      /\ At(c, "idle")
      /\ \/ pc' = [pc EXCEPT ![c] = "get"] /\ request' = [request EXCEPT ![c] = <<"get">>]
         \/ /\ pc' = [pc EXCEPT ![c] = "put"]
            /\ \E p \in Patches : request' = [request EXCEPT ![c] = <<"put", p>>]
  BY DEF Asking, ReceivePut, ReceiveGet, StartTick, Ask, Go, lockVars
<1>2. \A d \in Callers : /\ d # c => pc'[d] = pc[d] /\ request'[d] = request[d]
                         /\ pc[c] = "idle" /\ pc'[c] \in {"get", "put"}
  BY <1>1 DEF IInv, TypeOK, At
<1>3. LockInv'
  <2>1. readers' = {d \in Callers : At(d, "reading")'}
    BY <1>1, <1>2 DEF IInv, LockInv, At
  <2> QED
    BY <1>1, <1>2, <2>1, CallerFacts DEF IInv, LockInv, At
<1>4. RequestInv'
  <2>1. \/ pc'[c] = "get" /\ request'[c] = <<"get">>
        \/ pc'[c] = "put" /\ \E p \in Patches : request'[c] = <<"put", p>>
    BY <1>1 DEF IInv, TypeOK
  <2>2. \A d \in Callers : d # c => pc'[d] = pc[d] /\ request'[d] = request[d]
    BY <1>2
  <2> QED
    BY <2>1, <2>2 DEF IInv, RequestInv, Waiting
<1>5. CopyInv'
  BY <1>1, <1>2 DEF IInv, CopyInv, PatchInv, SnapshotInv, At, Patch, Accepts
<1> QED
  BY <1>3, <1>4, <1>5

(* One caller moves within the lock's protocol and nobody else notices.    *)
Alone(c) ==
    /\ UNCHANGED <<config, request>>
    /\ \A d \in Callers \ {c} : /\ pc'[d] = pc[d]
                                /\ todo'[d] = todo[d] /\ copy'[d] = copy[d]
                                /\ d \in readers' <=> d \in readers

LEMMA AloneInv ==
    ASSUME IInv, NEW c \in Callers, Alone(c), readers' \subseteq Callers,
           PatchInv(c)', SnapshotInv(c)'
    PROVE  CopyInv'
<1> SUFFICES ASSUME NEW d \in Callers, d # c PROVE PatchInv(d)' /\ SnapshotInv(d)'
  BY DEF CopyInv
<1>1. PatchInv(d) /\ SnapshotInv(d)
  BY DEF IInv, CopyInv
<1>2. /\ pc'[d] = pc[d] /\ todo'[d] = todo[d] /\ copy'[d] = copy[d]
      /\ UNCHANGED <<config, request>>
  BY DEF Alone
<1> QED
  BY <1>1, <1>2 DEF PatchInv, SnapshotInv, At, Patch, Accepts

LEMMA LockStepsInv ==
    ASSUME IInv, NEW c \in Callers,
           Announce(c) \/ Lock(c) \/ RLock(c) \/ ApplyKey(c) \/ CopyField(c)
    PROVE  LockInv' /\ RequestInv' /\ CopyInv'
<1> USE CallerFacts DEF IInv, At, Go
<1>1. /\ Alone(c) /\ readers' \subseteq Callers
      /\ pc[c] \in Waiting /\ pc'[c] \in Waiting
      /\ pc[c] \in {"put", "locking", "applying"} <=> pc'[c] \in {"put", "locking", "applying"}
  BY DEF Announce, Lock, RLock, ApplyKey, CopyField, Alone, TypeOK, configVars, Waiting
<1>2. RequestInv'
  <2> SUFFICES ASSUME NEW d \in Callers
               PROVE  /\ pc'[d] \in {"put", "locking", "applying"} =>
                            \E p \in Patches : request'[d] = <<"put", p>>
                      /\ pc'[d] \in {"get", "blocked", "reading"} => request'[d] = <<"get">>
                      /\ pc'[d] \notin Waiting => request'[d] = <<>>
    BY DEF RequestInv
  <2>1. CASE d = c
    BY <1>1, <2>1 DEF RequestInv, Alone, Waiting
  <2>2. CASE d # c
    BY <1>1, <2>2 DEF RequestInv, Alone
  <2> QED
    BY <2>1, <2>2
<1>3. PatchInv(c)' /\ SnapshotInv(c)'
  <2>1. CASE Announce(c)
    BY <2>1 DEF Announce, TypeOK, PatchInv, SnapshotInv
  <2>2. CASE Lock(c)
    <3>1. /\ pc'[c] = "applying" /\ todo'[c] = DOMAIN Patch(c) /\ copy'[c] = config
          /\ UNCHANGED <<config, request>>
      BY <2>2 DEF Lock, TypeOK, configVars
    <3> QED
      BY <3>1 DEF PatchInv, SnapshotInv, Patch
  <2>3. CASE RLock(c)
    <3>1. pc'[c] \in {"reading", "blocked"} /\ todo'[c] = Keys
      BY <2>3 DEF RLock, TypeOK
    <3> QED
      BY <3>1 DEF PatchInv, SnapshotInv
  <2>4. CASE ApplyKey(c)
    <3>1. PICK k \in todo[c] :
            /\ At(c, "applying") /\ (k \in Keys => Accepts(k, Patch(c)[k]))
            /\ copy'[c] = WithKey(c, k) /\ todo'[c] = todo[c] \ {k}
            /\ UNCHANGED <<config, request, pc>>
      BY <2>4 DEF ApplyKey, TypeOK, configVars
    <3>2. k \in DOMAIN Patch(c) /\ Patch(c)' = Patch(c) /\ PatchInv(c)
      BY <3>1 DEF CopyInv, PatchInv, Patch
    <3>3. \A x \in Keys \cap (DOMAIN Patch(c) \ todo'[c]) : Accepts(x, Patch(c)[x])
      BY <3>1, <3>2 DEF PatchInv
    <3>4. \A x \in Keys : copy'[c][x] = IF x \in DOMAIN Patch(c) \ todo'[c]
                                       THEN Patch(c)[x] ELSE config[x]
      BY <3>1, <3>2 DEF PatchInv, WithKey
    <3>5. \A x, v : Accepts(x, v)' = Accepts(x, v)
      BY DEF Accepts
    <3> QED
      BY <3>1, <3>2, <3>3, <3>4 DEF PatchInv, SnapshotInv, Accepts
  <2>5. CASE CopyField(c)
    <3>1. PICK k \in todo[c] :
            /\ At(c, "reading")
            /\ copy'[c] = [copy[c] EXCEPT ![k] = config[k]]
            /\ todo'[c] = todo[c] \ {k}
            /\ UNCHANGED <<config, request, pc>>
      BY <2>5 DEF CopyField, TypeOK, configVars
    <3>2. copy[c] \in [Keys -> Int] /\ SnapshotInv(c)
      BY DEF TypeOK, CopyInv
    <3> QED
      BY <3>1, <3>2 DEF PatchInv, SnapshotInv
  <2> QED
    BY <2>1, <2>2, <2>3, <2>4, <2>5
<1>4. CopyInv'
  BY <1>1, <1>3, AloneInv
<1>5. LockInv'
  <2>1. CASE ApplyKey(c) \/ CopyField(c)
    BY <2>1 DEF ApplyKey, CopyField, LockInv
  <2>2. CASE Announce(c)
    BY <2>2 DEF Announce, LockInv, TypeOK
  <2>3. CASE Lock(c)
    BY <2>3 DEF Lock, LockInv, TypeOK
  <2>4. CASE RLock(c)
    BY <2>4 DEF RLock, ReadersWait, LockInv, TypeOK
  <2> QED
    BY <2>1, <2>2, <2>3, <2>4
<1> QED
  BY <1>2, <1>4, <1>5

LEMMA RUnlockInv ==
    ASSUME IInv, NEW c \in Callers, RUnlock(c)
    PROVE  LockInv' /\ RequestInv' /\ CopyInv'
<1> USE CallerFacts DEF IInv, At
<1>1. /\ pc[c] = "reading" /\ readers' = readers \ {c}
      /\ UNCHANGED <<config, writer>>
      /\ pc'[c] \in {"answer", "buying", "pricing"}
      /\ request'[c] = <<>>
  BY DEF RUnlock, ReadersWithout, Go, Answer, TypeOK
<1>2. \A d \in Callers \ {c} : /\ pc'[d] = pc[d] /\ request'[d] = request[d]
                              /\ todo'[d] = todo[d] /\ copy'[d] = copy[d]
  BY DEF RUnlock, Go, Answer, Done, TypeOK
<1>3. LockInv'
  BY <1>1, <1>2 DEF LockInv
<1>4. RequestInv'
  BY <1>1, <1>2 DEF RequestInv, Waiting
<1>5. CopyInv'
  <2> SUFFICES ASSUME NEW d \in Callers PROVE PatchInv(d)' /\ SnapshotInv(d)'
    BY DEF CopyInv
  <2>1. CASE d = c
    BY <1>1, <2>1 DEF PatchInv, SnapshotInv
  <2>2. CASE d # c
    BY <1>1, <1>2, <2>2 DEF CopyInv, PatchInv, SnapshotInv, Patch, Accepts
  <2> QED
    BY <2>1, <2>2
<1> QED
  BY <1>3, <1>4, <1>5

(* A writer leaves: the blocked readers are let in with all keys to visit, *)
(* and nobody else was in.                                                 *)
LEMMA UnlockInv ==
    ASSUME IInv, NEW c \in Callers, RejectKey(c) \/ Commit(c)
    PROVE  LockInv' /\ RequestInv' /\ CopyInv'
<1> USE CallerFacts DEF IInv, At
<1>1. /\ pc[c] = "applying" /\ writer = c /\ readers = {} /\ Unlock(c)
      /\ request'[c] = <<>>
  BY DEF RejectKey, Commit, Answer, LockInv, TypeOK
<1>2. \A d \in Callers \ {c} : /\ request'[d] = request[d]
                              /\ todo'[d] = todo[d] /\ copy'[d] = copy[d]
  BY DEF RejectKey, Commit, Answer, Done, TypeOK
<1>3. /\ pc'[c] = "answer" /\ writer' = Nobody /\ readers' = Blocked
      /\ \A d \in Callers \ {c} :
            /\ pc[d] = "blocked" => pc'[d] = "reading"
            /\ pc[d] # "blocked" => pc'[d] = pc[d]
            /\ pc[d] \notin {"locking", "applying", "reading"}
  BY <1>1 DEF Unlock, Blocked, LockInv
<1>4. LockInv'
  <2>1. readers' = {d \in Callers : pc'[d] = "reading"}
    BY <1>1, <1>3 DEF Blocked
  <2>2. \A d \in Callers : pc'[d] \notin {"locking", "applying", "blocked"}
    BY <1>1, <1>3
  <2>3. \A d \in Callers : pc'[d] # "down"
    BY <1>1, <1>3 DEF LockInv
  <2> QED
    BY <1>3, <2>1, <2>2, <2>3 DEF LockInv
<1>5. RequestInv'
  BY <1>1, <1>2, <1>3 DEF RequestInv, Waiting
<1>6. CopyInv'
  <2> SUFFICES ASSUME NEW d \in Callers PROVE PatchInv(d)' /\ SnapshotInv(d)'
    BY DEF CopyInv
  <2>1. CASE d = c
    BY <1>3, <2>1 DEF PatchInv, SnapshotInv
  <2>2. CASE d # c
    <3>1. pc'[d] \notin {"applying", "blocked"}
      BY <1>1, <1>3, <2>2
    <3>2. pc'[d] = "reading" => todo'[d] = Keys
      BY <1>2, <1>3, <2>2 DEF CopyInv, SnapshotInv
    <3> QED
      BY <3>1, <3>2 DEF PatchInv, SnapshotInv
  <2> QED
    BY <2>1, <2>2
<1> QED
  BY <1>4, <1>5, <1>6

LEMMA StepInv == IInv /\ [Next]_vars => IInv'
<1> SUFFICES ASSUME IInv, [Next]_vars PROVE IInv'
  OBVIOUS
<1>1. ASSUME NEW c \in Callers, Asking(c) PROVE IInv'
  BY <1>1, AskingTypes, AskingInv DEF IInv
<1>2. ASSUME NEW c \in Callers, Handler(c) PROVE IInv'
  <2>1. TypeOK' /\ DOMAIN pc' = Callers
    BY <1>2, LockTypes, CopyTypes DEF Handler
  <2>2. LockInv' /\ RequestInv' /\ CopyInv'
    BY <1>2, LockStepsInv, RUnlockInv, UnlockInv DEF Handler
  <2> QED
    BY <2>1, <2>2 DEF IInv
<1>3. CASE Elsewhere
  BY <1>3, ElsewhereTypes, ElsewhereInv DEF IInv
<1>4. CASE Crash \/ MapRace
  BY <1>4, DeadInv DEF Crash, MapRace
<1>5. CASE UNCHANGED vars
  BY <1>5 DEF vars, lockVars, configVars, statusVars, IInv, TypeOK, LockInv, RequestInv,
              CopyInv, PatchInv, SnapshotInv, At, Patch, Accepts
<1> QED
  BY <1>1, <1>2, <1>3, <1>4, <1>5, NextCases

(* Everything the conjuncts say of lock, requests and copies, always.      *)
THEOREM Inductive == Spec => []IInv
BY InitInv, StepInv, PTL DEF Spec

(* Values, counters, locks and steps keep their types for any number of    *)
(* connections, whatever keys and values their patches have.               *)
THEOREM TypeCorrect == Spec => []TypeOK
BY Inductive, PTL DEF IInv

-----------------------------------------------------------------------------
LEMMA CommittedIsPatched ==
    ASSUME IInv, NEW c \in Callers, Commit(c)
    PROVE  \E p \in Patches :
              /\ request[c] = <<"put", p>>
              /\ \A k \in DOMAIN p \cap Keys : Accepts(k, p[k])
              /\ config' = [k \in Keys |-> IF k \in DOMAIN p THEN p[k] ELSE config[k]]
<1>1. PICK p \in Patches : request[c] = <<"put", p>>
  BY DEF IInv, RequestInv, Commit, At
<1>2. Patch(c) = p /\ PatchInv(c) /\ At(c, "applying") /\ todo[c] = {} /\ config' = copy[c]
  BY <1>1 DEF IInv, CopyInv, Commit, Patch
<1>3. copy[c] \in [Keys -> Int]
  BY DEF IInv, TypeOK
<1>4. \A k \in Keys : copy[c][k] = IF k \in DOMAIN p THEN p[k] ELSE config[k]
  BY <1>2 DEF PatchInv
<1>5. \A k \in DOMAIN p \cap Keys : Accepts(k, p[k])
  BY <1>2 DEF PatchInv
<1> QED
  BY <1>1, <1>2, <1>3, <1>4, <1>5

LEMMA ConfigSteps ==
    ASSUME IInv, [Next]_vars
    PROVE  \/ UNCHANGED config
           \/ \E c \in Callers : Commit(c)
           \/ config' = Default
<1>1. ASSUME NEW c \in Callers, Handler(c), ~Commit(c) PROVE UNCHANGED config
  BY <1>1 DEF Handler, Announce, Lock, ApplyKey, RejectKey, AfterReject, RLock, CopyField,
              RUnlock, configVars
<1>2. ASSUME NEW c \in Callers, Asking(c) PROVE UNCHANGED config
  BY <1>2 DEF Asking, ReceivePut, ReceiveGet, StartTick
<1>3. ASSUME Elsewhere PROVE UNCHANGED config
  BY <1>3 DEF Elsewhere, ReceiveOther, Load, ReadPrices, Responded, BotStep, EndBuyTick,
              WritePrices, LoadFails, StoreList, StoreFirst, StoreSecond, Refresh, BotGoes,
              Restart, configVars
<1>4. ASSUME Crash \/ MapRace PROVE config' = Default
  BY <1>4 DEF Crash, MapRace, Die
<1>5. ASSUME UNCHANGED vars PROVE UNCHANGED config
  BY <1>5 DEF vars, configVars
<1> QED
  BY <1>1, <1>2, <1>3, <1>4, <1>5, NextCases

(* No order of the keys of a patch, and no interleaving of patches, gets a *)
(* value into the configuration that its check refuses.                    *)
THEOREM OnlyCheckedValues == Spec => []ConfigIsChecked
<1>1. Init => ConfigIsChecked
  BY DEF Init, ConfigIsChecked
<1>2. IInv /\ ConfigIsChecked /\ [Next]_vars => ConfigIsChecked'
  <2> SUFFICES ASSUME IInv, ConfigIsChecked, [Next]_vars PROVE ConfigIsChecked'
    OBVIOUS
  <2>1. ASSUME NEW c \in Callers, Commit(c) PROVE ConfigIsChecked'
    BY <2>1, CommittedIsPatched DEF ConfigIsChecked, Accepts
  <2>2. CASE UNCHANGED config \/ config' = Default
    BY <2>2 DEF ConfigIsChecked
  <2> QED
    BY <2>1, <2>2, ConfigSteps
<1> QED
  BY <1>1, <1>2, Inductive, PTL DEF Spec

-----------------------------------------------------------------------------
(* The refinement.                                                         *)
LEMMA RegisterAsks ==
    ASSUME IInv, NEW c \in Callers, Asking(c)
    PROVE  Register!Next
<1>1. request[c] = <<>>
  BY DEF IInv, RequestInv, Waiting, Asking, ReceivePut, ReceiveGet, StartTick, At
<1>2. \E r \in Register!Requests : Ask(c, r)
  BY DEF Asking, ReceivePut, ReceiveGet, StartTick, Register!Requests
<1>3. UNCHANGED config
  BY DEF Asking, ReceivePut, ReceiveGet, StartTick
<1>4. Register!Ask(c)
  BY <1>1, <1>2, <1>3 DEF Ask, Register!Ask
<1> QED
  BY <1>4 DEF Register!Next

LEMMA RegisterAnswers ==
    ASSUME IInv, NEW c \in Callers, Handler(c)
    PROVE  Register!Next \/ UNCHANGED configVars
<1>1. CASE Commit(c)
  <2>1. PICK p \in Patches :
              /\ request[c] = <<"put", p>>
              /\ \A k \in DOMAIN p \cap Keys : Accepts(k, p[k])
              /\ config' = [k \in Keys |-> IF k \in DOMAIN p THEN p[k] ELSE config[k]]
    BY <1>1, CommittedIsPatched
  <2>2. Register!Acceptable(p)
    BY <2>1, PatchValues DEF Register!Acceptable, Register!Keys, Keys
  <2>3. config' = Register!Patched(p)
    BY <2>1 DEF Register!Patched, Register!Keys, Keys
  <2>4. Register!Answer(c, <<"ok">>)
    BY <1>1 DEF Commit, Answer, Register!Answer
  <2>5. Register!Put(c)
    BY <2>1, <2>2, <2>3, <2>4 DEF Register!Put
  <2> QED
    BY <2>5 DEF Register!Next
<1>2. CASE RejectKey(c)
  <2>1. PICK p \in Patches : request[c] = <<"put", p>>
    BY <1>2 DEF IInv, RequestInv, RejectKey, At
  <2>2. PICK k \in todo[c] \cap Keys : ~Accepts(k, Patch(c)[k])
    BY <1>2 DEF RejectKey
  <2>3. Patch(c) = p /\ k \in DOMAIN p
    BY <1>2, <2>1, <2>2 DEF IInv, CopyInv, PatchInv, RejectKey, Patch
  <2>4. ~Register!Acceptable(p)
    BY <2>2, <2>3 DEF Register!Acceptable, Register!Keys, Keys
  <2>5. UNCHANGED config /\ Register!Answer(c, <<"rejected">>)
    BY <1>2 DEF RejectKey, AfterReject, Answer, Register!Answer
  <2>6. Register!Put(c)
    BY <2>1, <2>4, <2>5 DEF Register!Put
  <2> QED
    BY <2>6 DEF Register!Next
<1>3. CASE RUnlock(c)
  <2>1. copy[c] = config
    <3>1. \A k \in Keys : copy[c][k] = config[k]
      BY <1>3 DEF IInv, CopyInv, SnapshotInv, RUnlock
    <3>2. copy[c] \in [Keys -> Int] /\ config \in [Keys -> Int]
      BY DEF IInv, TypeOK
    <3> QED
      BY <3>1, <3>2
  <2>2. request[c] = <<"get">>
    BY <1>3 DEF IInv, RequestInv, RUnlock, At
  <2>3. UNCHANGED config /\ Register!Answer(c, <<"config", config>>)
    BY <1>3, <2>1 DEF RUnlock, Answer, Register!Answer
  <2>4. Register!Get(c)
    BY <2>2, <2>3 DEF Register!Get
  <2> QED
    BY <2>4 DEF Register!Next
<1>4. CASE Announce(c) \/ Lock(c) \/ ApplyKey(c) \/ RLock(c) \/ CopyField(c)
  BY <1>4 DEF Announce, Lock, ApplyKey, RLock, CopyField
<1> QED
  BY <1>1, <1>2, <1>3, <1>4 DEF Handler

LEMMA RegisterElsewhere ==
    ASSUME IInv, Elsewhere
    PROVE  Register!Next \/ UNCHANGED configVars
<1>1. \/ UNCHANGED configVars
      \/ \E c \in Callers : /\ reply' = [reply EXCEPT ![c] = <<>>]
                           /\ UNCHANGED <<config, request>>
  BY CallerFacts DEF Elsewhere, ReceiveOther, Load, ReadPrices, Responded, BotStep, EndBuyTick,
     WritePrices, LoadFails, StoreList, StoreFirst, StoreSecond, Refresh, BotGoes, Restart,
     configVars
<1> QED
  BY <1>1 DEF Register!Take, Register!Next

(* For every caller, and for any number of callers, the configuration is   *)
(* an atomic register of patches: locks, copies and the order in which     *)
(* keys are visited never show.                                            *)
THEOREM ImplementsAtomicConfig == Spec => ConfigIsAtomic
<1>1. Init => Register!Init
  BY DEF Init, Register!Init
<1>2. IInv /\ [Next]_vars => [Register!Next]_(Register!vars)
  <2> SUFFICES ASSUME IInv, [Next]_vars PROVE Register!Next \/ UNCHANGED configVars
    BY DEF Register!vars, configVars
  <2>1. ASSUME Crash \/ MapRace PROVE Register!Next
    BY <2>1 DEF Crash, MapRace, Die, Register!Restart, Register!Next
  <2>2. CASE UNCHANGED vars
    BY <2>2 DEF vars
  <2> QED
    BY <2>1, <2>2, NextCases, RegisterAsks, RegisterAnswers, RegisterElsewhere
<1> QED
  BY <1>1, <1>2, Inductive, PTL DEF Spec, ConfigIsAtomic, Register!Spec
-----------------------------------------------------------------------------
(* What a viewer is shown.  Between two list ticks all three counters are  *)
(* from the same one; a tick makes last_list_tick, then the balance, then  *)
(* the count its own.                                                      *)
CountFrom ==
    IF pc[Bot] \in {"listed", "refreshed"} THEN counters["list"] - 1 ELSE counters["list"]

BalanceFrom == IF At(Bot, "listed") THEN counters["list"] - 1 ELSE counters["list"]

StoredInv ==
    /\ CountFrom >= 0
    /\ counters["count"] \in {Failed, CountFrom}
    /\ counters["balance"] \in {Failed, BalanceFrom}

(* What has been loaded stays behind what is stored from then on.          *)
LoadedInv(c) ==
    /\ pc[c] \notin {"count", "balance", "answer"} => shown[c] = Unset
    /\ shown[c]["list"] <= counters["list"]
    /\ shown[c]["count"] <= CountFrom
    /\ pc[c] \in {"balance", "answer"} /\ shown[c]["count"] # Failed =>
          shown[c]["count"] >= shown[c]["list"] - 1
    /\ At(c, "answer") /\ shown[c]["balance"] # Failed =>
          shown[c]["balance"] >= shown[c]["count"]

StatusInv == StoredInv /\ \A c \in Clients : LoadedInv(c)

LEMMA StatusFacts ==
    ASSUME IInv
    PROVE  /\ counters["list"] \in Int /\ counters["count"] \in Int /\ counters["balance"] \in Int
           /\ CountFrom \in Int /\ BalanceFrom \in Int /\ CountFrom <= BalanceFrom
           /\ counters["list"] - 1 <= CountFrom /\ CountFrom <= counters["list"]
           /\ \A c \in Clients :
                 /\ shown[c] \in [Counters -> Int]
                 /\ shown[c]["list"] \in Int /\ shown[c]["count"] \in Int
                 /\ shown[c]["balance"] \in Int
<1>1. counters \in [Counters -> Int] /\ shown \in [Clients -> [Counters -> Int]]
  BY ConstantsAssumption DEF IInv, TypeOK, Failed
<1> QED
  BY <1>1 DEF Counters, CountFrom, BalanceFrom, At

(* Nothing is stored or loaded, and nobody begins or ends doing so.        *)
Quiet ==
    /\ UNCHANGED <<counters, shown>>
    /\ \A d \in Callers :
          \/ pc'[d] = pc[d]
          \/ /\ pc[d] \notin {"count", "balance", "answer", "listed", "refreshed"}
             /\ pc'[d] \notin {"count", "balance", "listed", "refreshed"}

LEMMA QuietStatus ==
    ASSUME IInv, StatusInv, Quiet
    PROVE  StatusInv'
<1>1. StoredInv' /\ CountFrom' = CountFrom
  BY CallerFacts DEF StatusInv, StoredInv, Quiet, CountFrom, BalanceFrom, At
<1>2. ASSUME NEW c \in Clients PROVE LoadedInv(c)'
  <2>1. LoadedInv(c) /\ shown'[c] = shown[c] /\ counters' = counters /\ c \in Callers
    BY CallerFacts DEF StatusInv, Quiet
  <2>2. CASE pc'[c] = pc[c]
    BY <1>1, <2>1, <2>2 DEF LoadedInv, At
  <2>3. CASE pc'[c] # pc[c]
    <3>1. shown[c] = Unset /\ pc'[c] \notin {"count", "balance"}
      BY <2>1, <2>3 DEF Quiet, LoadedInv
    <3>2. shown[c]["list"] = 0 /\ shown[c]["count"] = 0 /\ shown[c]["balance"] = 0
      BY <3>1 DEF Unset, Counters
    <3> QED
      BY <1>1, <2>1, <3>1, <3>2 DEF LoadedInv, At
  <2> QED
    BY <2>2, <2>3
<1> QED
  BY <1>1, <1>2 DEF StatusInv

LEMMA HandlerQuiet == ASSUME IInv, NEW c \in Callers, Handler(c) PROVE Quiet
<1> USE CallerFacts DEF IInv, At, Go
<1>1. CASE Announce(c) \/ Lock(c) \/ RLock(c) \/ ApplyKey(c) \/ CopyField(c)
  BY <1>1 DEF Announce, Lock, RLock, ApplyKey, CopyField, Quiet, statusVars
<1>2. CASE RejectKey(c) \/ Commit(c)
  BY <1>2 DEF RejectKey, Commit, Unlock, Blocked, Quiet, statusVars
<1>3. CASE RUnlock(c)
  BY <1>3 DEF RUnlock, Quiet, statusVars
<1> QED
  BY <1>1, <1>2, <1>3 DEF Handler

LEMMA OtherQuiet ==
    ASSUME IInv,
           \/ \E c \in Callers : Asking(c)
           \/ \E c \in Viewers : ReceiveOther(c) \/ ReadPrices(c)
           \/ EndBuyTick \/ WritePrices \/ LoadFails \/ Restart
    PROVE  Quiet
<1> USE CallerFacts DEF IInv, At, Go, Quiet
<1>1. ASSUME NEW c \in Callers, Asking(c) PROVE Quiet
  BY <1>1 DEF Asking, ReceivePut, ReceiveGet, StartTick, statusVars
<1>2. ASSUME NEW c \in Viewers, ReceiveOther(c) \/ ReadPrices(c) PROVE Quiet
  BY <1>2 DEF ReceiveOther, ReadPrices, statusVars
<1>3. CASE EndBuyTick \/ WritePrices \/ LoadFails
  BY <1>3 DEF EndBuyTick, WritePrices, LoadFails, BotGoes
<1>4. CASE Restart
  <2>1. \A d \in Callers : pc[d] = "down"
    BY <1>4 DEF Restart, LockInv
  <2> QED
    BY <1>4, <2>1 DEF Restart, statusVars
<1> QED
  BY <1>1, <1>2, <1>3, <1>4

(* The bot's side: one of its three stores.                                *)
Stores == StoreList \/ StoreFirst \/ StoreSecond

LEMMA StoresStatus ==
    ASSUME IInv, StatusInv, Stores
    PROVE  StatusInv'
<1> USE CallerFacts DEF At, Go
<1>1. /\ counters \in [Counters -> Int] /\ DOMAIN pc = Callers
      /\ shown' = shown /\ \A c \in Clients : pc'[c] = pc[c]
      /\ counters["list"] \in Int /\ Failed \in Int
  BY ConstantsAssumption
  DEF Stores, StoreList, StoreFirst, StoreSecond, Refresh, BotGoes, IInv, TypeOK, Failed, Counters
<1>2. /\ StoredInv' /\ CountFrom <= CountFrom'
      /\ counters["list"] <= counters'["list"] /\ CountFrom' \in Int
      /\ counters'["list"] \in Int
  <2>1. CASE StoreList
    <3>1. /\ counters'["list"] = counters["list"] + 1 /\ pc[Bot] = "listing" /\ pc'[Bot] = "listed"
          /\ counters'["count"] = counters["count"] /\ counters'["balance"] = counters["balance"]
      BY <1>1, <2>1 DEF StoreList, BotGoes, Store, Counters
    <3> QED
      BY <1>1, <3>1 DEF StatusInv, StoredInv, CountFrom, BalanceFrom
  <2>2. CASE StoreFirst
    <3>1. /\ counters'["list"] = counters["list"] /\ pc[Bot] = "listed" /\ pc'[Bot] = "refreshed"
          /\ counters'["count"] = counters["count"]
          /\ counters'["balance"] \in {Failed, counters["list"]}
      BY <1>1, <2>2 DEF StoreFirst, Refresh, BotGoes, Store, StoreOrder, Counters
    <3> QED
      BY <1>1, <3>1 DEF StatusInv, StoredInv, CountFrom, BalanceFrom
  <2>3. CASE StoreSecond
    <3>1. /\ counters'["list"] = counters["list"] /\ pc[Bot] = "refreshed" /\ pc'[Bot] = "idle"
          /\ counters'["balance"] = counters["balance"]
          /\ counters'["count"] \in {Failed, counters["list"]}
      BY <1>1, <2>3 DEF StoreSecond, Refresh, BotGoes, Store, StoreOrder, Counters
    <3> QED
      BY <1>1, <3>1 DEF StatusInv, StoredInv, CountFrom, BalanceFrom
  <2> QED
    BY <2>1, <2>2, <2>3 DEF Stores
<1>3. ASSUME NEW c \in Clients PROVE LoadedInv(c)'
  BY <1>1, <1>2, StatusFacts DEF StatusInv, LoadedInv
<1> QED
  BY <1>2, <1>3 DEF StatusInv

(* The viewer's side: a load, in the order list, count, balance.           *)
LEMMA LoadStatus ==
    ASSUME IInv, StatusInv, NEW c \in Viewers, Load(c)
    PROVE  StatusInv'
<1> USE CallerFacts DEF At, Go
<1>1. PICK x \in Counters :
         /\ pc[c] = x /\ pc' = [pc EXCEPT ![c] = AfterLoad[x]]
         /\ shown' = [shown EXCEPT ![c] = [@ EXCEPT ![x] = counters[x]]]
         /\ UNCHANGED counters
  BY DEF Load
<1>2. /\ c \in Clients /\ pc'[Bot] = pc[Bot] /\ pc'[c] = AfterLoad[x]
      /\ shown'[c] = [shown[c] EXCEPT ![x] = counters[x]]
      /\ \A d \in Clients \ {c} : pc'[d] = pc[d] /\ shown'[d] = shown[d]
  BY <1>1 DEF IInv, TypeOK
<1>3. StoredInv' /\ CountFrom' = CountFrom /\ counters' = counters
  BY <1>1, <1>2 DEF StatusInv, StoredInv, CountFrom, BalanceFrom
<1>4. LoadedInv(c)'
  <2> USE StatusFacts, <1>1, <1>2, <1>3
  <2>1. CASE x = "list"
    <3>1. shown[c] = Unset
      BY <2>1 DEF StatusInv, LoadedInv
    <3>2. /\ pc'[c] = "count" /\ shown'[c]["list"] = counters["list"]
          /\ shown'[c]["count"] = 0
      BY <2>1, <3>1 DEF AfterLoad, Unset, Counters
    <3> QED
      BY <3>2 DEF StatusInv, StoredInv, LoadedInv
  <2>2. CASE x = "count"
    <3>1. /\ pc'[c] = "balance" /\ shown'[c]["list"] = shown[c]["list"]
          /\ shown'[c]["count"] = counters["count"]
      BY <2>2 DEF AfterLoad, Counters
    <3>2. shown[c]["list"] <= counters["list"]
      BY DEF StatusInv, LoadedInv
    <3>3. counters["count"] \in {Failed, CountFrom} /\ CountFrom >= 0
      BY DEF StatusInv, StoredInv
    <3> QED
      BY <3>1, <3>2, <3>3 DEF LoadedInv, Failed
  <2>3. CASE x = "balance"
    <3>1. /\ pc'[c] = "answer" /\ shown'[c]["list"] = shown[c]["list"]
          /\ shown'[c]["count"] = shown[c]["count"]
          /\ shown'[c]["balance"] = counters["balance"]
      BY <2>3 DEF AfterLoad, Counters
    <3>2. LoadedInv(c)
      BY DEF StatusInv
    <3>3. counters["balance"] \in {Failed, BalanceFrom}
      BY DEF StatusInv, StoredInv
    <3> QED
      BY <2>3, <3>1, <3>2, <3>3 DEF LoadedInv
  <2> QED
    BY <2>1, <2>2, <2>3 DEF Counters
<1>5. ASSUME NEW d \in Clients \ {c} PROVE LoadedInv(d)'
  BY <1>2, <1>3 DEF StatusInv, LoadedInv
<1> QED
  BY <1>3, <1>4, <1>5 DEF StatusInv

LEMMA RespondedStatus ==
    ASSUME IInv, StatusInv, NEW c \in Clients, Responded(c)
    PROVE  StatusInv'
<1> USE CallerFacts DEF At, Go
<1>1. /\ pc'[Bot] = pc[Bot] /\ pc'[c] = "idle" /\ counters' = counters
      /\ shown'[c] = Unset
      /\ \A d \in Clients \ {c} : pc'[d] = pc[d] /\ shown'[d] = shown[d]
  BY DEF Responded, IInv, TypeOK
<1>2. StoredInv' /\ CountFrom' = CountFrom
  BY <1>1 DEF StatusInv, StoredInv, CountFrom, BalanceFrom
<1>3. LoadedInv(c)'
  <2>1. shown'[c]["list"] = 0 /\ shown'[c]["count"] = 0
    BY <1>1 DEF Unset, Counters
  <2> QED
    BY <1>1, <1>2, <2>1, StatusFacts DEF StatusInv, StoredInv, LoadedInv
<1>4. ASSUME NEW d \in Clients \ {c} PROVE LoadedInv(d)'
  BY <1>1, <1>2 DEF StatusInv, LoadedInv
<1> QED
  BY <1>2, <1>3, <1>4 DEF StatusInv

LEMMA UnsetStatus ==
    ASSUME counters = Unset, shown = [c \in Clients |-> Unset],
           \A c \in Callers : pc[c] \in {"idle", "down"}
    PROVE  StatusInv
<1>1. StoredInv /\ CountFrom = 0
  BY CallerFacts DEF StoredInv, CountFrom, BalanceFrom, Unset, Counters, At
<1>2. ASSUME NEW c \in Clients PROVE LoadedInv(c)
  BY <1>1, CallerFacts DEF LoadedInv, Unset, Counters, At
<1> QED
  BY <1>1, <1>2 DEF StatusInv

LEMMA DeadStatus == ASSUME Die PROVE StatusInv'
<1>1. counters' = Unset /\ shown' = [c \in Clients |-> Unset] /\ \A c \in Callers : pc'[c] = "down"
  BY DEF Die
<1>2. StoredInv' /\ CountFrom' = 0
  BY <1>1, CallerFacts DEF StoredInv, CountFrom, BalanceFrom, Unset, Counters, At
<1>3. ASSUME NEW c \in Clients PROVE LoadedInv(c)'
  BY <1>1, <1>2, CallerFacts DEF LoadedInv, Unset, Counters, At
<1> QED
  BY <1>2, <1>3 DEF StatusInv

LEMMA StatusStep == IInv /\ StatusInv /\ [Next]_vars => StatusInv'
<1> SUFFICES ASSUME IInv, StatusInv, [Next]_vars PROVE StatusInv'
  OBVIOUS
<1>1. ASSUME NEW c \in Callers, Asking(c) \/ Handler(c) PROVE StatusInv'
  BY <1>1, HandlerQuiet, OtherQuiet, QuietStatus
<1>2. CASE Elsewhere
  <2>1. \/ \E c \in Viewers : ReceiveOther(c) \/ ReadPrices(c)
        \/ EndBuyTick \/ WritePrices \/ LoadFails \/ Restart
        \/ \E c \in Viewers : Load(c)
        \/ \E c \in Clients : Responded(c)
        \/ Stores
    BY <1>2 DEF Elsewhere, BotStep, Stores
  <2> QED
    BY <2>1, OtherQuiet, QuietStatus, LoadStatus, RespondedStatus, StoresStatus
<1>3. CASE Crash \/ MapRace
  BY <1>3, DeadStatus DEF Crash, MapRace
<1>4. CASE UNCHANGED vars
  <2>1. Quiet
    BY <1>4 DEF vars, statusVars, Quiet
  <2> QED
    BY <2>1, QuietStatus
<1> QED
  BY <1>1, <1>2, <1>3, <1>4, NextCases

(* A status is put together from counters that a tick may be storing, but  *)
(* its count is at most one list tick behind its last_list_tick, and its   *)
(* balance not behind its count, for any number of viewers and ticks.      *)
THEOREM StatusesAreRecent == Spec => []StatusIsRecent
<1>1. Init => StatusInv
  BY UnsetStatus DEF Init
<1>2. StatusInv => StatusIsRecent
  BY DEF StatusInv, LoadedInv, StatusIsRecent, At
<1> QED
  BY <1>1, <1>2, StatusStep, Inductive, PTL DEF Spec
=============================================================================
