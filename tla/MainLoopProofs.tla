--------------------------- MODULE MainLoopProofs ---------------------------
(***************************************************************************)
(* What the main loop guarantees for every set of configurations and every *)
(* bound on the length of a tick.  The state that matters is the age of    *)
(* the stamp in the ticker's channel: every bound is one on it, and on the *)
(* time the ticks of one poll have taken.                                  *)
(***************************************************************************)
EXTENDS MainLoop, TLAPS

(* How old the stamps get: one that waits is as old as the ticks that held *)
(* it up, the one of a poll ages with the ticks it starts.                 *)
AgeInv ==
    /\ pc \in {"starting", "tick"} => slot = Empty
    /\ pc = "waiting" => slot <= 2 * MaxTick - 1
    /\ pc = "check" /\ kind = "buy" => slot = Empty /\ age <= 2 * MaxTick - 1
    /\ pc = "check" /\ kind = "list" => slot <= MaxTick - 1 /\ age <= 3 * MaxTick - 1
    /\ pc = "run" /\ kind = "buy" =>
          slot <= spent - 1 /\ age <= 2 * MaxTick - 1 + spent
    /\ pc = "run" /\ kind = "list" =>
          slot <= MaxTick - 1 + spent /\ age <= 3 * MaxTick - 1 + spent

(* The bucket of a kind never holds more than its deadline leaves it and   *)
(* the oldest stamp a tick can start with.                                 *)
Lag == 3 * MaxTick - 1

Running(k) == pc = "run" /\ kind = k

BurstInv(k) ==
    /\ ahead[k] <= MaxInterval + Lag
    /\ pc \in {"starting", "tick"} => ahead[k] = 0
    /\ Ticking /\ ~Running(k) => ahead[k] = 0 \/ ahead[k] <= left[k] + Lag
    /\ Running(k) => ahead[k] = 0 \/ ahead[k] <= snap.interval[k] + Lag - age

(* A poll sees the switch on; only ticks of that poll can be strays.       *)
StrayInv ==
    /\ strays <= 2
    /\ cfg.enabled => strays = 0
    /\ pc = "starting" => strays = 0 /\ kind = "buy"
    /\ pc = "check" /\ kind = "buy" => strays = 0
    /\ pc = "check" /\ kind = "list" => strays <= 1
    /\ pc \in {"tick", "run"} /\ kind = "buy" => strays <= 1

IInv == TypeOK /\ AgeInv /\ (\A k \in Kinds : BurstInv(k)) /\ StrayInv

-----------------------------------------------------------------------------
LEMMA BoundTypes ==
    /\ MaxInterval \in Nat /\ MaxTick \in Nat \ {0} /\ MaxStops \in Nat
    /\ MaxAge \in Nat /\ Horizon \in Nat /\ MaxSince \in Nat /\ Lag \in Nat
    /\ Lag < Horizon
BY ConstantsAssumption DEF MaxAge, Horizon, MaxSince, Lag

LEMMA ZeroTypes ==
    /\ Zero \in [Kinds -> Nat] /\ Zero \in [Kinds -> 0 .. MaxSince]
    /\ Zero \in [Kinds -> 0 .. MaxInterval] /\ Zero \in [Kinds -> -Horizon .. MaxInterval]
BY BoundTypes DEF Zero

LEMMA ConfigTypes ==
    ASSUME NEW c \in Configs
    PROVE  /\ c.interval \in [Kinds -> 0 .. MaxInterval]
           /\ c.interval \in [Kinds -> -Horizon .. MaxInterval]
           /\ c.interval \in [Kinds -> Nat]
<1>1. c.interval \in [Kinds -> 0 .. MaxInterval]
  BY ConstantsAssumption
<1> QED
  BY <1>1, BoundTypes

LEMMA InitInv == Init => IInv
<1> SUFFICES ASSUME Init PROVE IInv
  OBVIOUS
<1> USE ConstantsAssumption, BoundTypes, ZeroTypes DEF Init
<1>1. TypeOK
  BY DEF TypeOK, Kinds, Empty
<1>2. AgeInv /\ StrayInv
  BY DEF AgeInv, StrayInv
<1>3. \A k \in Kinds : BurstInv(k)
  BY DEF BurstInv, Zero, Ticking, Running
<1> QED
  BY <1>1, <1>2, <1>3 DEF IInv

(* The actions before the loop.                                            *)
LEMMA StartupStep ==
    ASSUME IInv, Start \/ FirstTick \/ FirstBuyEnds \/ FirstListEnds
    PROVE  IInv'
<1> USE ConstantsAssumption, BoundTypes DEF IInv
<1>1. CASE Start
  <2>1. TypeOK'
    BY <1>1, ZeroTypes DEF Start, TypeOK, Kinds, Empty
  <2>2. AgeInv' /\ StrayInv'
    BY <1>1 DEF Start, AgeInv, StrayInv
  <2>3. (\A k \in Kinds : BurstInv(k))'
    BY <1>1 DEF Start, BurstInv, Zero, Ticking, Running
  <2> QED
    BY <2>1, <2>2, <2>3
<1>2. CASE FirstTick \/ FirstBuyEnds
  <2>1. /\ \A k \in Kinds : ahead'[k] = 0
        /\ ahead' \in [Kinds -> Nat]
    BY <1>2 DEF FirstTick, FirstBuyEnds, Started, TypeOK, BurstInv, Kinds
  <2>2. /\ pc' = "tick" /\ kind' \in Kinds /\ spent' = 0 /\ slot = Empty
        /\ UNCHANGED <<cfg, snap, left, slot, age, signal, granted, stops>>
    BY <1>2 DEF FirstTick, FirstBuyEnds, Started, Kinds, AgeInv, TypeOK
  <2>3. since' \in [Kinds -> 0 .. MaxSince] /\ strays' \in Nat
    BY <1>2 DEF FirstTick, FirstBuyEnds, Started, TypeOK, Kinds
  <2>4. TypeOK'
    BY <2>1, <2>2, <2>3 DEF TypeOK
  <2>5. AgeInv'
    BY <2>2 DEF AgeInv
  <2>6. StrayInv'
    BY <1>2 DEF FirstTick, FirstBuyEnds, Started, StrayInv, TypeOK
  <2>7. (\A k \in Kinds : BurstInv(k))'
    BY <2>1, <2>2 DEF BurstInv, Ticking, Running
  <2> QED
    BY <2>4, <2>5, <2>6, <2>7
<1>3. CASE FirstListEnds
  <2>1. /\ cfg.interval \in [Kinds -> 0 .. MaxInterval]
        /\ cfg.interval \in [Kinds -> -Horizon .. MaxInterval]
        /\ cfg.interval \in [Kinds -> Nat]
    BY ConfigTypes DEF TypeOK
  <2>2. TypeOK'
    BY <1>3, <2>1 DEF FirstListEnds, TypeOK
  <2>3. AgeInv' /\ StrayInv'
    BY <1>3 DEF FirstListEnds, AgeInv, StrayInv, Empty
  <2>4. (\A k \in Kinds : BurstInv(k))'
    BY <1>3, <2>1 DEF FirstListEnds, BurstInv, Running
  <2> QED
    BY <2>2, <2>3, <2>4
<1> QED
  BY <1>1, <1>2, <1>3

(* Time passes.                                                            *)
LEMMA MinuteStep ==
    ASSUME IInv, Minute
    PROVE  IInv'
<1> USE ConstantsAssumption, BoundTypes DEF IInv
<1>0. /\ UNCHANGED <<pc, kind, cfg, snap, signal, granted, strays, stops>>
      /\ pc \in {"tick", "run", "waiting"}
  BY DEF Minute, Busy
<1>1. spent' \in 0 .. MaxTick
  BY DEF Minute, Busy, TypeOK
<1>2. AgeInv'
  BY <1>0 DEF AgeInv, Minute, Busy, TypeOK, Empty, Ticking
<1>3. TypeOK'
  <2>1. age' \in 0 .. MaxAge /\ slot' \in Empty .. MaxAge
    BY <1>0, <1>1, <1>2 DEF Minute, Busy, TypeOK, AgeInv, MaxAge, Empty, Kinds, Ticking
  <2>2. left' \in [Kinds -> -Horizon .. MaxInterval]
    BY DEF Minute, TypeOK, AtLeast
  <2>3. since' \in [Kinds -> 0 .. MaxSince] /\ ahead' \in [Kinds -> Nat]
    BY DEF Minute, TypeOK, AtLeast, AtMost
  <2> QED
    BY <1>0, <1>1, <2>1, <2>2, <2>3 DEF TypeOK
<1>4. ASSUME NEW k \in Kinds
      PROVE  BurstInv(k)'
  <2>1. /\ ahead[k] \in Nat /\ left[k] \in Int /\ snap.interval[k] \in Int /\ age \in Nat
        /\ BurstInv(k)
    BY ConfigTypes DEF TypeOK
  <2>2. ahead'[k] = 0 \/ ahead'[k] = ahead[k] - 1
    BY <2>1 DEF Minute, AtLeast
  <2>3. ahead'[k] <= MaxInterval + Lag
    BY <2>1, <2>2 DEF BurstInv
  <2>4. pc = "tick" => ahead'[k] = 0
    BY <2>1 DEF BurstInv, Minute, AtLeast
  <2>5. Ticking /\ ~Running(k) => ahead'[k] = 0 \/ ahead'[k] <= left'[k] + Lag
    <3> SUFFICES ASSUME Ticking, ~Running(k), ahead'[k] # 0
                 PROVE  ahead'[k] <= left'[k] + Lag
      OBVIOUS
    <3>1. left'[k] = AtLeast(left[k] - 1, -Horizon)
      BY DEF Minute
    <3>2. left'[k] >= left[k] - 1 /\ left'[k] \in Int
      BY <2>1, <3>1 DEF AtLeast
    <3>3. ahead[k] <= left[k] + Lag /\ ahead'[k] = ahead[k] - 1
      BY <2>1, <2>2 DEF BurstInv, Minute, AtLeast
    <3> QED
      BY <2>1, <3>2, <3>3
  <2>6. Running(k) => ahead'[k] = 0 \/ ahead'[k] <= snap.interval[k] + Lag - age'
    BY <2>1, <2>2 DEF BurstInv, Running, Minute, AtLeast
  <2> QED
    BY <1>0, <2>3, <2>4, <2>5, <2>6 DEF BurstInv, Ticking, Running
<1>5. StrayInv'
  BY <1>0 DEF StrayInv
<1> QED
  BY <1>2, <1>3, <1>4, <1>5

(* A poll takes the waiting stamp.                                         *)
LEMMA PollStep ==
    ASSUME IInv, Poll
    PROVE  IInv'
<1> USE ConstantsAssumption, BoundTypes DEF IInv
<1>1. TypeOK'
  BY DEF Poll, TypeOK, Empty, Kinds, seenVars
<1>2. AgeInv'
  BY DEF Poll, AgeInv, Empty, TypeOK
<1>3. (\A k \in Kinds : BurstInv(k))'
  BY DEF Poll, BurstInv, Ticking, Running, seenVars
<1>4. StrayInv'
  BY DEF Poll, Enabled, StrayInv, seenVars
<1> QED
  BY <1>1, <1>2, <1>3, <1>4

(* A tick starts with a stamp that is not before the deadline, so what the *)
(* bucket held is covered by the age of that stamp.                        *)
LEMMA StartTickStep ==
    ASSUME IInv, StartTick
    PROVE  IInv'
<1> USE ConstantsAssumption, BoundTypes DEF IInv
<1>0. /\ kind \in Kinds /\ pc = "check" /\ pc' = "run" /\ spent' = 0
      /\ UNCHANGED <<kind, cfg, snap, left, slot, age, signal, granted, stops>>
      /\ snap.interval \in [Kinds -> Nat] /\ snap.interval[kind] \in 0 .. MaxInterval
  BY ConfigTypes DEF StartTick, Started, TypeOK
<1>1. TypeOK'
  BY <1>0 DEF StartTick, Started, TypeOK
<1>2. AgeInv'
  BY <1>0 DEF AgeInv, TypeOK, Empty, Kinds
<1>3. ASSUME NEW k \in Kinds
      PROVE  BurstInv(k)'
  <2>1. ahead[k] \in Nat /\ left[k] \in Int /\ age \in 0 .. Lag /\ BurstInv(k)
    BY <1>0 DEF TypeOK, AgeInv, Kinds, Lag
  <2>2. CASE k = kind
    <3>1. ahead'[k] = ahead[k] + snap.interval[k]
      BY <1>0, <2>2 DEF StartTick, Started, TypeOK
    <3>2. left[k] <= -age
      BY <1>0, <2>1, <2>2 DEF StartTick, Due, OnTheMinute
    <3>3. ahead[k] <= Lag - age
      BY <1>0, <2>1, <3>2 DEF BurstInv, Ticking, Running
    <3> QED
      BY <1>0, <2>1, <2>2, <3>1, <3>3 DEF BurstInv, Ticking, Running
  <2>3. CASE k # kind
    <3>1. ahead'[k] = ahead[k]
      BY <1>0, <2>3 DEF StartTick, Started, TypeOK
    <3> QED
      BY <1>0, <2>1, <2>3, <3>1 DEF BurstInv, Ticking, Running
  <2> QED
    BY <2>2, <2>3
<1>4. StrayInv'
  BY <1>0 DEF StartTick, Started, StrayInv, TypeOK, Kinds
<1> QED
  BY <1>1, <1>2, <1>3, <1>4

LEMMA NotDueStep ==
    ASSUME IInv, NotDue
    PROVE  IInv'
<1> USE ConstantsAssumption, BoundTypes DEF IInv
<1>1. TypeOK'
  BY DEF NotDue, AfterCheck, TypeOK, Kinds, seenVars
<1>2. AgeInv'
  BY DEF NotDue, AfterCheck, AgeInv, TypeOK, Empty, Kinds, seenVars
<1>3. (\A k \in Kinds : BurstInv(k))'
  BY DEF NotDue, AfterCheck, BurstInv, Ticking, Running, seenVars
<1>4. StrayInv'
  BY DEF NotDue, AfterCheck, StrayInv, TypeOK, Kinds, seenVars
<1> QED
  BY <1>1, <1>2, <1>3, <1>4

(* The new deadline is the stamp plus the interval the bucket was filled   *)
(* with.                                                                   *)
LEMMA EndTickStep ==
    ASSUME IInv, EndTick
    PROVE  IInv'
<1> USE ConstantsAssumption, BoundTypes DEF IInv
<1>0. /\ kind \in Kinds /\ pc = "run" /\ spent' = 0 /\ age \in Nat
      /\ UNCHANGED <<cfg, snap, slot, age, signal, since, ahead, strays, stops>>
      /\ snap.interval[kind] \in 0 .. MaxInterval
      /\ AfterCheck
  BY ConfigTypes DEF EndTick, TypeOK
<1>1. AtLeast(NextDeadline, -Horizon) \in -Horizon .. MaxInterval
  BY <1>0 DEF NextDeadline, AtLeast
<1>2. TypeOK'
  BY <1>0, <1>1 DEF EndTick, AfterCheck, TypeOK, Kinds
<1>3. AgeInv'
  BY <1>0 DEF AfterCheck, AgeInv, TypeOK, Empty, Kinds
<1>4. ASSUME NEW k \in Kinds
      PROVE  BurstInv(k)'
  <2>1. ahead[k] \in Nat /\ left[k] \in Int /\ BurstInv(k)
    BY DEF TypeOK
  <2>2. CASE k = kind
    <3>1. left'[k] = AtLeast(snap.interval[k] - age, -Horizon)
      BY <2>2 DEF EndTick, NextDeadline, TypeOK
    <3>2. left'[k] >= snap.interval[k] - age /\ left'[k] \in Int
      BY <1>0, <2>2, <3>1 DEF AtLeast
    <3>3. ahead[k] = 0 \/ ahead[k] <= left'[k] + Lag
      BY <1>0, <2>1, <2>2, <3>2 DEF BurstInv, Running
    <3> QED
      BY <1>0, <2>1, <2>2, <3>3 DEF AfterCheck, BurstInv, Ticking, Running
  <2>3. CASE k # kind
    <3>1. left'[k] = left[k]
      BY <2>3 DEF EndTick, TypeOK
    <3> QED
      BY <1>0, <2>1, <2>3, <3>1 DEF AfterCheck, BurstInv, Ticking, Running
  <2> QED
    BY <2>2, <2>3
<1>5. StrayInv'
  BY <1>0 DEF AfterCheck, StrayInv, TypeOK, Kinds
<1> QED
  BY <1>2, <1>3, <1>4, <1>5

(* The operator, signals, the end of the process, and stuttering.          *)
LEMMA OtherStep ==
    ASSUME IInv, PutConfig \/ Signal \/ ShutDown \/ Crash \/ UNCHANGED vars
    PROVE  IInv'
<1> USE ConstantsAssumption, BoundTypes DEF IInv
<1>1. TypeOK'
  BY ZeroTypes DEF PutConfig, Signal, ShutDown, Crash, TypeOK, vars, loopVars, seenVars
<1>2. AgeInv'
  BY DEF PutConfig, Signal, ShutDown, Crash, AgeInv, vars, loopVars, seenVars
<1>3. (\A k \in Kinds : BurstInv(k))'
  BY DEF PutConfig, Signal, ShutDown, Crash, BurstInv, Ticking, Running, vars, loopVars,
         seenVars, ListensForSignal
<1>4. StrayInv'
  BY DEF PutConfig, Signal, ShutDown, Crash, StrayInv, vars, loopVars, seenVars
<1> QED
  BY <1>1, <1>2, <1>3, <1>4

LEMMA StepInv == IInv /\ [Next]_vars => IInv'
BY StartupStep, MinuteStep, PollStep, StartTickStep, NotDueStep, EndTickStep, OtherStep
DEF Next

LEMMA Inductive == Spec => []IInv
BY InitInv, StepInv, PTL DEF Spec

-----------------------------------------------------------------------------
(* Every variable of the main loop keeps its type; in particular no stamp  *)
(* gets older than four ticks, however the polls and ticks are timed.      *)
THEOREM TypeCorrect == Spec => []TypeOK
<1>1. IInv => TypeOK
  BY DEF IInv
<1> QED
  BY <1>1, Inductive, PTL

(* Held-up, disabled and restarted loops never run bursts of ticks.        *)
THEOREM NeverBursts == Spec => []NoBursts
<1>1. IInv => NoBursts
  BY BoundTypes DEF IInv, TypeOK, BurstInv, Lag, NoBursts
<1> QED
  BY <1>1, Inductive, PTL

(* A disabled bot starts at most the two ticks of a poll already taken.    *)
THEOREM DisablingStops == Spec => []StopsWhenDisabled
<1>1. IInv => StopsWhenDisabled
  BY DEF IInv, StrayInv, StopsWhenDisabled
<1> QED
  BY <1>1, Inductive, PTL

-----------------------------------------------------------------------------
(* How late a tick starts.  The wait is counted while the bot is enabled;  *)
(* a stamp a tick held up is as old as that tick.                          *)
Checking(k) == pc = "check" /\ kind = k

PaceInv ==
    /\ ~cfg.enabled => \A k \in Kinds : since[k] = 0
    /\ pc = "starting" => \A k \in Kinds : since[k] = 0
    /\ pc = "tick" /\ kind = "buy" => since["buy"] <= spent
    /\ pc = "tick" /\ kind = "list" => since["buy"] <= MaxTick + spent /\ since["list"] <= spent
    /\ pc = "run" => age >= spent /\ slot >= spent - 1 /\ since[kind] <= spent
    /\ Running("buy") => slot = spent - 1
    /\ Checking("list") => age <= 2 * MaxTick + slot

(* The wait against the deadline, and x minutes the deadline was set late: *)
(* by both first ticks for the first deadline of buying, by one for that   *)
(* of listing, never later on.  A deadline beyond the horizon is any.      *)
Behind(k, x) == left[k] = -Horizon \/ since[k] <= granted[k] - left[k] + x

(* The stamp the next check of the buy deadline uses.                      *)
NextStamp == IF Checking("buy") THEN age ELSE slot

(* A deadline that is not due at a stamp is no further behind than the     *)
(* stamp is old; then the list tick of the poll may run.  Before the first *)
(* deadline has passed, only list ticks have held up stamps.               *)
BuyWait ==
    Ticking /\ ~Running("buy") =>
        \/ /\ Behind("buy", 0)
           /\ since["buy"] <= granted["buy"] + 2 * MaxTick + NextStamp
        \/ /\ Behind("buy", 2 * MaxTick)
           /\ since["buy"] <= granted["buy"] + 3 * MaxTick + NextStamp
           /\ NextStamp <= IF pc = "run" THEN spent - 1
                           ELSE IF Checking("list") THEN Empty ELSE MaxTick - 1

(* The list deadline is checked after the buy tick of the same poll.       *)
ListWait ==
    Ticking /\ ~Running("list") =>
        /\ \/ Behind("list", 0)
           \/ /\ Behind("list", MaxTick)
              /\ pc = "waiting" => slot <= MaxTick - 1
              /\ Checking("buy") => age <= MaxTick - 1
              /\ Running("buy") => age <= MaxTick - 1 + spent
              /\ Checking("list") => age <= MaxTick + slot
        /\ pc = "waiting" => since["list"] <= granted["list"] + 2 * MaxTick + slot
        /\ since["list"] <= granted["list"] + 3 * MaxTick - 1
                            + (IF Running("buy") THEN spent
                               ELSE IF Checking("list") THEN MaxTick ELSE 0)

WaitInv == PaceInv /\ BuyWait /\ ListWait

LEMMA WaitTypes ==
    ASSUME TypeOK
    PROVE  /\ \A k \in Kinds : /\ left[k] \in Int /\ left[k] >= -Horizon
                               /\ since[k] \in Nat /\ granted[k] \in Nat
           /\ slot \in Int /\ slot >= -1 /\ age \in Nat /\ age <= MaxAge
           /\ spent \in Nat /\ spent <= MaxTick
           /\ kind \in Kinds
           /\ MaxTick \in Nat /\ MaxTick >= 1
           /\ Horizon = 4 * MaxTick + 1 /\ MaxAge = 4 * MaxTick
BY BoundTypes DEF TypeOK, Empty, Horizon, MaxAge

LEMMA InitWait == Init => WaitInv
BY DEF Init, WaitInv, PaceInv, BuyWait, ListWait, Zero, Kinds, Ticking, Running, Checking

LEMMA StartupWait ==
    ASSUME IInv, IInv', WaitInv, Start \/ FirstTick \/ FirstBuyEnds \/ FirstListEnds
    PROVE  WaitInv'
<1> USE DEF WaitInv
<1>1. CASE Start
  BY <1>1
  DEF Start, Zero, PaceInv, BuyWait, ListWait, Kinds, Ticking, Running, Checking
<1>2. CASE FirstTick \/ FirstBuyEnds
  <2>1. since \in [Kinds -> Nat] /\ MaxTick \in Nat /\ spent <= MaxTick /\ spent \in Nat
    BY WaitTypes, BoundTypes DEF IInv, TypeOK
  <2>2. PaceInv'
    BY <1>2, <2>1 DEF FirstTick, FirstBuyEnds, Started, PaceInv, Kinds, Running, Checking
  <2> QED
    BY <1>2, <2>2 DEF FirstTick, FirstBuyEnds, BuyWait, ListWait, Ticking
<1>3. CASE FirstListEnds
  <2>1. /\ pc' = "waiting" /\ slot' = Empty
        /\ UNCHANGED <<cfg, since>>
        /\ since["buy"] <= 2 * MaxTick /\ since["list"] <= MaxTick
    BY <1>3, WaitTypes DEF FirstListEnds, PaceInv, IInv, AgeInv, Kinds
  <2>2. \A k \in Kinds : left'[k] = granted'[k] /\ granted'[k] \in Nat /\ since[k] \in Nat
    BY <1>3, WaitTypes, ConfigTypes DEF FirstListEnds, IInv, TypeOK
  <2>3. PaceInv'
    BY <2>1 DEF PaceInv, Running, Checking
  <2>4. BuyWait' /\ ListWait'
    BY <2>1, <2>2, WaitTypes
    DEF IInv, BuyWait, ListWait, Behind, NextStamp, Running, Checking, Kinds, Empty
  <2> QED
    BY <2>3, <2>4
<1> QED
  BY <1>1, <1>2, <1>3

(* A minute brings the deadline nearer and lengthens the wait.             *)
LEMMA MinuteWait ==
    ASSUME IInv, IInv', WaitInv, Minute
    PROVE  WaitInv'
<1> USE DEF WaitInv, Kinds
<1>0. UNCHANGED <<pc, kind, cfg, granted>> /\ pc \in {"tick", "run", "waiting"}
  BY DEF Minute, Busy
<1>1. ASSUME NEW k \in Kinds
      PROVE  /\ since'[k] \in Nat /\ since'[k] <= since[k] + 1
             /\ ~cfg.enabled => since'[k] = 0
  BY WaitTypes, BoundTypes DEF IInv, TypeOK, Minute, AtMost
<1>2. Ticking => /\ slot' = slot + 1
                 /\ \A k \in Kinds : left'[k] = AtLeast(left[k] - 1, -Horizon)
  BY DEF Minute
<1>3. /\ pc \in {"tick", "run"} => spent' = spent + 1
      /\ pc = "run" => age' = age + 1
      /\ pc = "waiting" => slot = Empty /\ age' = age
  BY DEF Minute, Busy
<1>4. ASSUME NEW k \in Kinds, NEW x \in Nat, Ticking, Behind(k, x)
      PROVE  Behind(k, x)'
  <2>1. left'[k] = -Horizon \/ left'[k] = left[k] - 1
    BY <1>2, <1>4 DEF AtLeast
  <2>2. left[k] = -Horizon => left'[k] = -Horizon
    BY <1>2, <1>4, WaitTypes DEF AtLeast, IInv
  <2> QED
    BY <1>0, <1>1, <1>4, <2>1, <2>2, WaitTypes DEF Behind, IInv
<1>5. PaceInv'
  BY <1>0, <1>1, <1>2, <1>3, WaitTypes DEF IInv, PaceInv, Ticking, Running, Checking
<1>6. BuyWait'
  <2> SUFFICES ASSUME Ticking, ~Running("buy") PROVE BuyWait'
    BY <1>0 DEF BuyWait, Ticking, Running
  <2>1. pc' = pc /\ kind' = kind /\ NextStamp = slot /\ NextStamp' = slot + 1
    BY <1>0, <1>2 DEF NextStamp, Checking
  <2>2. /\ Behind("buy", 0) => Behind("buy", 0)'
        /\ Behind("buy", 2 * MaxTick) => Behind("buy", 2 * MaxTick)'
    <3>1. 2 * MaxTick \in Nat
      BY WaitTypes DEF IInv
    <3> QED
      BY <1>4, <3>1
  <2>3. /\ since["buy"] \in Nat /\ since'["buy"] \in Nat /\ granted["buy"] \in Nat
        /\ since'["buy"] <= since["buy"] + 1 /\ granted' = granted
        /\ slot \in Int /\ spent \in Nat /\ MaxTick \in Nat /\ MaxTick >= 1
    BY <1>0, <1>1, WaitTypes DEF IInv
  <2>4. pc = "waiting" \/ (pc = "run" /\ kind = "list" /\ spent' = spent + 1)
    BY <1>0, <1>3, WaitTypes DEF Ticking, Running, IInv
  <2>5. pc = "waiting" => slot = -1
    BY <1>3 DEF Empty
  <2> QED
    BY <2>1, <2>2, <2>3, <2>4, <2>5 DEF BuyWait, Running, Checking
<1>7. ListWait'
  <2> SUFFICES ASSUME Ticking, ~Running("list") PROVE ListWait'
    BY <1>0 DEF ListWait, Ticking, Running
  <2>1. MaxTick \in Nat
    BY WaitTypes DEF IInv
  <2>2. Behind("list", 0) => Behind("list", 0)'
    BY <1>4
  <2>3. Behind("list", MaxTick) => Behind("list", MaxTick)'
    BY <1>4, <2>1
  <2>4. /\ since["list"] \in Nat /\ since'["list"] \in Nat /\ granted["list"] \in Nat
        /\ since'["list"] <= since["list"] + 1 /\ granted' = granted
        /\ slot \in Int /\ spent \in Nat /\ age \in Nat /\ MaxTick >= 1
    BY <1>0, <1>1, WaitTypes DEF IInv
  <2>5. \/ pc = "waiting" /\ slot = -1
        \/ pc = "run" /\ kind = "buy" /\ spent' = spent + 1 /\ age' = age + 1
    BY <1>0, <1>3, WaitTypes DEF Ticking, Running, IInv, Empty
  <2>6. pc' = pc /\ kind' = kind /\ slot' = slot + 1
    BY <1>0, <1>2
  <2> QED
    BY <2>1, <2>2, <2>3, <2>4, <2>5, <2>6 DEF ListWait, Running, Checking
<1> QED
  BY <1>5, <1>6, <1>7

(* The poll hands its stamp to the first check; a bot found disabled has   *)
(* not been waiting.                                                       *)
LEMMA PollWait ==
    ASSUME IInv, IInv', WaitInv, Poll
    PROVE  WaitInv'
<1> USE DEF WaitInv
<1>0. /\ pc = "waiting" /\ age' = slot /\ slot' = Empty
      /\ UNCHANGED <<cfg, left, since, granted, spent>>
  BY DEF Poll, seenVars
<1>1. ASSUME NEW k \in Kinds
      PROVE  /\ since[k] \in Nat /\ granted[k] \in Nat /\ left[k] \in Int
             /\ \A x : Behind(k, x)' <=> Behind(k, x)
  BY <1>0, WaitTypes DEF IInv, Behind
<1>2. slot \in Int /\ MaxTick \in Nat /\ MaxTick >= 1
  BY WaitTypes DEF IInv
<1>3. CASE Enabled(cfg)
  <2>1. pc' = "check" /\ kind' = "buy"
    BY <1>3 DEF Poll
  <2>2. PaceInv'
    BY <1>0, <2>1 DEF PaceInv, Running, Checking
  <2>3. BuyWait'
    BY <1>0, <1>1, <1>2, <2>1 DEF BuyWait, NextStamp, Ticking, Running, Checking, Kinds
  <2>4. ListWait'
    BY <1>0, <1>1, <1>2, <2>1 DEF ListWait, Ticking, Running, Checking, Kinds
  <2> QED
    BY <2>2, <2>3, <2>4
<1>4. CASE ~Enabled(cfg)
  <2>1. pc' = "waiting" /\ kind' = kind /\ \A k \in Kinds : since[k] = 0
    BY <1>0, <1>4 DEF Poll, PaceInv, Enabled
  <2>2. PaceInv'
    BY <1>0, <2>1 DEF PaceInv, Running, Checking
  <2>3. BuyWait'
    BY <1>0, <1>1, <1>2, <2>1
    DEF BuyWait, NextStamp, Ticking, Running, Checking, Kinds, Empty
  <2>4. ListWait'
    BY <1>0, <1>1, <1>2, <2>1 DEF ListWait, Ticking, Running, Checking, Kinds, Empty
  <2> QED
    BY <2>2, <2>3, <2>4
<1> QED
  BY <1>3, <1>4

(* A tick that starts ends the wait of its kind.                           *)
LEMMA StartTickWait ==
    ASSUME IInv, IInv', WaitInv, StartTick
    PROVE  WaitInv'
<1> USE DEF WaitInv
<1>0. /\ pc = "check" /\ pc' = "run" /\ spent' = 0 /\ kind \in Kinds
      /\ UNCHANGED <<kind, cfg, left, slot, age, granted>>
      /\ since' = [since EXCEPT ![kind] = 0] /\ since \in [Kinds -> Nat]
  BY WaitTypes DEF StartTick, Started, IInv, TypeOK
<1>1. since'[kind] = 0 /\ \A k \in Kinds \ {kind} : since'[k] = since[k]
  BY <1>0
<1>2. /\ slot \in Int /\ slot >= -1 /\ age \in Nat /\ MaxTick \in Nat /\ MaxTick >= 1
      /\ Checking("buy") => slot = Empty
  BY <1>0, WaitTypes DEF IInv, AgeInv, Checking
<1>3. PaceInv'
  BY <1>0, <1>1, <1>2 DEF PaceInv, Running, Checking, Kinds, Empty
<1>4. ASSUME NEW k \in Kinds \ {kind}
      PROVE  \A x : Behind(k, x)' <=> Behind(k, x)
  BY <1>0, <1>1 DEF Behind
<1>5. BuyWait'
  <2> SUFFICES ASSUME kind = "list" PROVE BuyWait'
    BY <1>0 DEF BuyWait, Running, Kinds
  <2>1. since["buy"] \in Nat /\ granted["buy"] \in Nat
    BY WaitTypes DEF IInv, Kinds
  <2> QED
    BY <1>0, <1>1, <1>2, <1>4, <2>1
    DEF BuyWait, NextStamp, Ticking, Running, Checking, Kinds, Empty
<1>6. ListWait'
  <2> SUFFICES ASSUME kind = "buy" PROVE ListWait'
    BY <1>0 DEF ListWait, Running, Kinds
  <2>1. since["list"] \in Nat /\ granted["list"] \in Nat
    BY WaitTypes DEF IInv, Kinds
  <2> QED
    BY <1>0, <1>1, <1>2, <1>4, <2>1 DEF ListWait, Ticking, Running, Checking, Kinds
<1> QED
  BY <1>3, <1>5, <1>6

(* A deadline that is not due is at most the stamp's age behind.           *)
LEMMA NotDueWait ==
    ASSUME IInv, IInv', WaitInv, NotDue
    PROVE  WaitInv'
<1> USE DEF WaitInv
<1>0. /\ pc = "check" /\ kind \in Kinds /\ left[kind] >= -age
      /\ UNCHANGED <<cfg, left, slot, age, since, granted, spent>>
      /\ AfterCheck
  BY WaitTypes DEF NotDue, Due, IInv, seenVars
<1>1. ASSUME NEW k \in Kinds
      PROVE  /\ since[k] \in Nat /\ granted[k] \in Nat /\ left[k] \in Int
             /\ \A x : Behind(k, x)' <=> Behind(k, x)
  BY <1>0, WaitTypes DEF IInv, Behind
<1>2. /\ slot \in Int /\ slot >= -1 /\ age \in Nat /\ MaxTick \in Nat /\ MaxTick >= 1
      /\ Horizon = 4 * MaxTick + 1
  BY WaitTypes DEF IInv
<1>3. CASE kind = "buy"
  <2>1. pc' = "check" /\ kind' = "list" /\ slot = -1 /\ age <= 2 * MaxTick - 1
    BY <1>0, <1>3 DEF AfterCheck, IInv, AgeInv, Empty
  <2>2. PaceInv'
    BY <1>0, <1>1, <1>2, <2>1 DEF PaceInv, Running, Checking, Kinds
  <2>3. left["buy"] # -Horizon
    BY <1>0, <1>1, <1>2, <1>3, <2>1
  <2>4. BuyWait'
    <3>1. \A x \in Nat : Behind("buy", x) => since["buy"] <= granted["buy"] + age + x
      BY <1>0, <1>1, <1>2, <1>3, <2>3 DEF Behind
    <3>2. /\ NextStamp = age /\ NextStamp' = -1 /\ Ticking /\ ~Running("buy")
          /\ Checking("list")' /\ 2 * MaxTick \in Nat
      BY <1>0, <1>2, <1>3, <2>1 DEF NextStamp, Checking, Ticking, Running
    <3>3. CASE Behind("buy", 0)
      BY <1>0, <1>1, <1>2, <2>1, <3>1, <3>2, <3>3 DEF BuyWait, Kinds
    <3>4. CASE Behind("buy", 2 * MaxTick) /\ age <= MaxTick - 1
      BY <1>0, <1>1, <1>2, <2>1, <3>1, <3>2, <3>4 DEF BuyWait, Kinds, Empty
    <3> QED
      BY <1>0, <1>3, <3>2, <3>3, <3>4 DEF BuyWait, Checking
  <2>5. ListWait'
    BY <1>0, <1>1, <1>2, <1>3, <2>1 DEF ListWait, Ticking, Running, Checking, Kinds
  <2> QED
    BY <2>2, <2>4, <2>5
<1>4. CASE kind = "list"
  <2>1. /\ pc' = "waiting" /\ kind' = kind /\ slot <= MaxTick - 1
        /\ age <= 3 * MaxTick - 1 /\ age <= 2 * MaxTick + slot
    BY <1>0, <1>4 DEF AfterCheck, IInv, AgeInv, PaceInv, Checking
  <2>2. PaceInv'
    BY <1>0, <1>1, <1>2, <2>1 DEF PaceInv, Running, Checking, Kinds
  <2>3. BuyWait'
    BY <1>0, <1>1, <1>2, <1>4, <2>1
    DEF BuyWait, NextStamp, Ticking, Running, Checking, Kinds, Empty
  <2>4. ListWait'
    <3>1. left["list"] # -Horizon
      BY <1>0, <1>1, <1>2, <1>4, <2>1
    <3>2. \A x \in Nat : Behind("list", x) => since["list"] <= granted["list"] + age + x
      BY <1>0, <1>1, <1>2, <1>4, <3>1 DEF Behind
    <3>3. Ticking /\ ~Running("list") /\ Checking("list") /\ ~Running("buy")
      BY <1>0, <1>4 DEF Checking, Ticking, Running
    <3>4. /\ since["list"] <= granted["list"] + 2 * MaxTick + slot
          /\ since["list"] <= granted["list"] + 3 * MaxTick - 1
      <4>1. CASE Behind("list", 0)
        BY <1>1, <1>2, <2>1, <3>2, <4>1 DEF Kinds
      <4>2. CASE Behind("list", MaxTick) /\ age <= MaxTick + slot
        BY <1>1, <1>2, <2>1, <3>2, <4>2 DEF Kinds
      <4> QED
        BY <3>3, <4>1, <4>2 DEF ListWait
    <3> QED
      BY <1>0, <1>1, <1>2, <2>1, <3>3, <3>4 DEF ListWait, Ticking, Running, Checking, Kinds
  <2> QED
    BY <2>2, <2>3, <2>4
<1> QED
  BY <1>0, <1>3, <1>4 DEF Kinds

(* The new deadline counts from the stamp, which is at least as old as the *)
(* tick: it is not set late.                                               *)
LEMMA EndTickWait ==
    ASSUME IInv, IInv', WaitInv, EndTick
    PROVE  WaitInv'
<1> USE DEF WaitInv
<1>0. /\ pc = "run" /\ kind \in Kinds /\ spent' = 0
      /\ UNCHANGED <<cfg, snap, slot, age, since>>
      /\ AfterCheck
      /\ left' = [left EXCEPT ![kind] = AtLeast(NextDeadline, -Horizon)]
      /\ granted' = [granted EXCEPT ![kind] = snap.interval[kind]]
      /\ DOMAIN left = Kinds /\ DOMAIN granted = Kinds
  BY WaitTypes DEF EndTick, IInv, TypeOK
<1>1. /\ slot \in Int /\ slot >= -1 /\ age \in Nat /\ MaxTick \in Nat /\ MaxTick >= 1
      /\ spent \in Nat /\ spent <= MaxTick
      /\ Horizon = 4 * MaxTick + 1 /\ age <= 4 * MaxTick
      /\ age >= spent /\ slot >= spent - 1 /\ since[kind] <= spent
  BY <1>0, WaitTypes DEF IInv, PaceInv
<1>2. ASSUME NEW k \in Kinds
      PROVE  since[k] \in Nat /\ granted[k] \in Nat /\ left[k] \in Int
  BY WaitTypes DEF IInv
<1>3. granted'[kind] \in Nat /\ left'[kind] = granted'[kind] - age
  <2>1. snap.interval[kind] \in Nat
    BY <1>0, ConfigTypes DEF IInv, TypeOK
  <2>2. snap.interval[kind] - age >= -Horizon
    BY <1>1, <2>1
  <2>3. AtLeast(NextDeadline, -Horizon) = snap.interval[kind] - age
    BY <1>1, <2>1, <2>2 DEF AtLeast, NextDeadline
  <2> QED
    BY <1>0, <2>1, <2>3
<1>4. ASSUME NEW k \in Kinds, k = kind
      PROVE  Behind(k, 0)'
  <2>1. since'[k] <= granted'[k] - left'[k] + 0
    BY <1>0, <1>1, <1>2, <1>3, <1>4
  <2> QED
    BY <2>1 DEF Behind
<1>5. ASSUME NEW k \in Kinds \ {kind}
      PROVE  /\ left'[k] = left[k] /\ granted'[k] = granted[k]
             /\ \A x : Behind(k, x)' <=> Behind(k, x)
  BY <1>0 DEF Behind
<1>6. CASE kind = "buy"
  <2>1. /\ pc' = "check" /\ kind' = "list" /\ slot = spent - 1
        /\ age <= 2 * MaxTick - 1 + spent
    BY <1>0, <1>6 DEF AfterCheck, IInv, AgeInv, PaceInv, Running
  <2>2. PaceInv'
    BY <1>0, <1>1, <2>1 DEF PaceInv, Running, Checking
  <2>3. BuyWait'
    <3>1. NextStamp' = slot /\ Behind("buy", 0)'
      BY <1>0, <1>4, <1>6, <2>1 DEF NextStamp, Checking, Kinds
    <3>2. since'["buy"] <= granted'["buy"] + 2 * MaxTick + NextStamp'
      BY <1>0, <1>1, <1>2, <1>3, <1>6, <3>1
    <3> QED
      BY <3>1, <3>2 DEF BuyWait
  <2>4. ListWait'
    <3>1. Ticking /\ ~Running("list") /\ Running("buy") /\ ~Checking("list")
      BY <1>0, <1>6 DEF Ticking, Running, Checking
    <3> QED
      BY <1>0, <1>1, <1>2, <1>5, <1>6, <2>1, <3>1
      DEF ListWait, Running, Checking, Kinds
  <2> QED
    BY <2>2, <2>3, <2>4
<1>7. CASE kind = "list"
  <2>1. pc' = "waiting" /\ kind' = "list"
    BY <1>0, <1>7 DEF AfterCheck
  <2>2. PaceInv'
    BY <1>0, <2>1 DEF PaceInv, Running, Checking
  <2>3. BuyWait'
    <3>1. Ticking /\ ~Running("buy") /\ NextStamp = slot /\ NextStamp' = slot
      BY <1>0, <1>7, <2>1 DEF Ticking, Running, Checking, NextStamp
    <3> QED
      BY <1>0, <1>1, <1>2, <1>5, <1>7, <2>1, <3>1
      DEF BuyWait, Running, Checking, Kinds
  <2>4. ListWait'
    <3>1. Behind("list", 0)'
      BY <1>4, <1>7 DEF Kinds
    <3> QED
      BY <1>0, <1>1, <1>2, <1>3, <1>7, <2>1, <3>1 DEF ListWait, Running, Checking
  <2> QED
    BY <2>2, <2>3, <2>4
<1> QED
  BY <1>0, <1>6, <1>7 DEF Kinds

(* Disabling the bot ends every wait; nothing else the outside does moves  *)
(* a deadline.                                                             *)
LEMMA OtherWait ==
    ASSUME IInv, IInv', WaitInv, PutConfig \/ Signal \/ ShutDown \/ Crash \/ UNCHANGED vars
    PROVE  WaitInv'
<1> USE DEF WaitInv
<1>1. CASE PutConfig
  <2>1. /\ UNCHANGED loopVars /\ UNCHANGED <<spent, granted>>
        /\ since' = IF cfg'.enabled THEN since ELSE Zero
    BY <1>1 DEF PutConfig
  <2>2. ASSUME NEW k \in Kinds
        PROVE  /\ since[k] \in Nat /\ since'[k] \in Nat /\ since'[k] <= since[k]
               /\ granted[k] \in Nat /\ left[k] \in Int
               /\ ~cfg'.enabled => since'[k] = 0
    BY <2>1, WaitTypes DEF IInv, Zero
  <2>3. ASSUME NEW k \in Kinds, NEW x \in Nat, Behind(k, x)
        PROVE  Behind(k, x)'
    BY <2>1, <2>2, <2>3 DEF Behind, loopVars
  <2>4. /\ slot \in Int /\ slot >= -1 /\ age \in Nat /\ MaxTick \in Nat /\ MaxTick >= 1
        /\ spent \in Nat /\ 2 * MaxTick \in Nat /\ kind \in Kinds
    BY WaitTypes DEF IInv
  <2>5. PaceInv'
    BY <2>1, <2>2, <2>4 DEF PaceInv, loopVars, Running, Checking, Kinds
  <2>6. BuyWait'
    <3>1. /\ Behind("buy", 0) => Behind("buy", 0)'
          /\ Behind("buy", 2 * MaxTick) => Behind("buy", 2 * MaxTick)'
      BY <2>3, <2>4 DEF Kinds
    <3>2. NextStamp' = NextStamp /\ NextStamp \in Int
      BY <2>1, <2>4 DEF NextStamp, Checking, loopVars
    <3> QED
      BY <2>1, <2>2, <2>4, <3>1, <3>2
      DEF BuyWait, Ticking, Running, Checking, loopVars, Kinds
  <2>7. ListWait'
    <3>1. /\ Behind("list", 0) => Behind("list", 0)'
          /\ Behind("list", MaxTick) => Behind("list", MaxTick)'
      BY <2>3, <2>4 DEF Kinds
    <3> QED
      BY <2>1, <2>2, <2>4, <3>1 DEF ListWait, Ticking, Running, Checking, loopVars, Kinds
  <2> QED
    BY <2>5, <2>6, <2>7
<1>2. CASE ShutDown \/ Crash
  <2>1. pc' = "down" /\ UNCHANGED <<cfg, since>>
    BY <1>2 DEF ShutDown, Crash, seenVars
  <2> QED
    BY <2>1 DEF PaceInv, BuyWait, ListWait, Ticking, Running, Checking
<1>3. CASE Signal \/ UNCHANGED vars
  BY <1>3
  DEF Signal, vars, loopVars, seenVars, PaceInv, BuyWait, ListWait, Behind, NextStamp,
      Ticking, Running, Checking
<1> QED
  BY <1>1, <1>2, <1>3

LEMMA WaitStep ==
    ASSUME IInv, IInv', WaitInv, [Next]_vars
    PROVE  WaitInv'
BY StartupWait, MinuteWait, PollWait, StartTickWait, NotDueWait, EndTickWait, OtherWait
DEF Next

(* An enabled bot is never later with a tick than its interval and the     *)
(* time four ticks may take.                                               *)
THEOREM TicksAreNeverLate == Spec => []NeverLate
<1>1. IInv /\ WaitInv => NeverLate
  <2> SUFFICES ASSUME IInv, WaitInv, NEW k \in Kinds, Ticking
               PROVE  since[k] <= granted[k] + MaxAge - 1
    BY DEF NeverLate
  <2>1. /\ since[k] \in Nat /\ granted[k] \in Nat /\ slot \in Int /\ age \in Nat
        /\ spent \in Nat /\ spent <= MaxTick /\ MaxTick \in Nat /\ MaxTick >= 1
        /\ MaxAge = 4 * MaxTick
    BY WaitTypes DEF IInv
  <2>2. CASE Running(k)
    BY <2>1, <2>2 DEF WaitInv, PaceInv, Running
  <2>3. CASE k = "buy" /\ ~Running(k)
    <3>1. NextStamp <= 2 * MaxTick - 1 /\ NextStamp \in Int
      BY <2>1, <2>3 DEF IInv, AgeInv, NextStamp, Checking, Ticking, Running, TypeOK, Kinds
    <3>2. CASE since["buy"] <= granted["buy"] + 2 * MaxTick + NextStamp
      BY <2>1, <2>3, <3>1, <3>2
    <3>3. CASE /\ since["buy"] <= granted["buy"] + 3 * MaxTick + NextStamp
               /\ NextStamp <= MaxTick - 1
      BY <2>1, <2>3, <3>1, <3>3
    <3> QED
      BY <2>1, <2>3, <3>1, <3>2, <3>3 DEF WaitInv, BuyWait, Empty
  <2>4. CASE k = "list" /\ ~Running(k)
    BY <2>1, <2>4 DEF WaitInv, ListWait
  <2> QED
    BY <2>2, <2>3, <2>4 DEF Kinds
<1>2. Spec => []WaitInv
  BY Inductive, InitWait, WaitStep, PTL DEF Spec
<1> QED
  BY <1>1, <1>2, Inductive, PTL
=============================================================================
