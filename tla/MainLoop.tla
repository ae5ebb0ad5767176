------------------------------ MODULE MainLoop ------------------------------
(***************************************************************************)
(* The scheduling of the bot: the loop of main() in src/main.go, with Tick *)
(* and the ends of BuyTick and ListTick of src/exchange.go.                *)
(*                                                                         *)
(* One goroutine runs everything.  A process starts with one tick of each  *)
(* kind; from then on a ticker of one minute wakes the loop, which takes a *)
(* snapshot of the configuration, returns to waiting if the bot is         *)
(* disabled, and otherwise runs the kinds whose deadline lies before the   *)
(* tick's time stamp.  The next deadline is the STAMP plus the interval of *)
(* the snapshot.  While a tick runs the ticker's channel keeps the first   *)
(* stamp it could not deliver and drops the others, so the stamp of a poll *)
(* is as old as the tick that held it up.                                  *)
(*                                                                         *)
(* Time is counted in minutes and kept relative to the present, which      *)
(* makes the model finite: a deadline is the time left until it, a stamp   *)
(* is its age.  A stamp and a deadline of the same minute differ by the    *)
(* jitter of the runtime and may compare either way.                       *)
(***************************************************************************)
EXTENDS Integers

CONSTANTS
    Configs,        \* values of the configuration: enabled and both intervals
    DefaultConfig,  \* the flags and defaults a process starts with
    MaxInterval,    \* bound: the longest interval configured
    MaxTick,        \* bound: minutes a tick of either kind may take
    MaxStops        \* bound: crashes and signals in a behaviour

Kinds == {"buy", "list"}

ASSUME ConstantsAssumption ==
    /\ Configs \subseteq [enabled : BOOLEAN, interval : [Kinds -> 0 .. MaxInterval]]
    /\ DefaultConfig \in Configs
    /\ MaxInterval \in Nat
    /\ MaxTick \in Nat \ {0} /\ MaxStops \in Nat

VARIABLES
    pc,        \* "down", "starting", "tick" (the Tick before the loop), then
               \* "waiting", "check" (a deadline) and "run" (a tick)
    kind,      \* the kind of tick checked or run
    cfg,       \* the live configuration
    snap,      \* the snapshot of the poll
    left,      \* minutes until nextBuy and nextList, negative when overdue
    slot,      \* age of the stamp in the ticker's channel, or Empty
    age,       \* age of the stamp of the poll (`now' in the code)
    signal,    \* "none", or "term" once the context is cancelled
    \* observed, not part of the program
    spent,     \* minutes the running tick has taken
    since,     \* minutes since the last tick of a kind, or since it was enabled
    ahead,     \* intervals of the ticks started, less the time since
    granted,   \* the interval the last deadline of a kind was set with
    strays,    \* ticks started since the operator disabled the bot
    stops      \* crashes and signals so far

loopVars == <<pc, kind, snap, left, slot, age, signal>>
seenVars == <<spent, since, ahead, granted, strays>>
vars     == <<loopVars, cfg, seenVars, stops>>

Empty == -1

Ticking == pc \in {"waiting", "check", "run"}

(* A stamp waits for two ticks at most and is used through two more.       *)
MaxAge == 4 * MaxTick

(* Nothing is compared beyond these bounds, so counting stops there.       *)
Horizon == MaxAge + 1
MaxSince == MaxInterval + 2 * MaxAge + 2

AtMost(n, top) == IF n > top THEN top ELSE n
AtLeast(n, bottom) == IF n < bottom THEN bottom ELSE n

TypeOK ==
    /\ pc \in {"down", "starting", "tick", "waiting", "check", "run"}
    /\ kind \in Kinds
    /\ cfg \in Configs /\ snap \in Configs
    /\ left \in [Kinds -> -Horizon .. MaxInterval]
    /\ slot \in Empty .. MaxAge
    /\ age \in 0 .. MaxAge
    /\ signal \in {"none", "term"}
    /\ spent \in 0 .. MaxTick
    /\ since \in [Kinds -> 0 .. MaxSince]
    /\ ahead \in [Kinds -> Nat]
    /\ granted \in [Kinds -> 0 .. MaxInterval]
    /\ strays \in Nat
    /\ stops \in 0 .. MaxStops

Zero == [k \in Kinds |-> 0]

Init ==
    /\ pc = "down" /\ kind = "buy"
    /\ cfg = DefaultConfig /\ snap = DefaultConfig
    /\ left = Zero /\ slot = Empty /\ age = 0
    /\ signal = "none"
    /\ spent = 0 /\ since = Zero /\ ahead = Zero /\ granted = Zero
    /\ strays = 0 /\ stops = 0

-----------------------------------------------------------------------------
(* The observers.                                                          *)

(* A tick of kind k starts, and the next one is wanted in d minutes.       *)
Started(k, d) ==
    /\ spent' = 0
    /\ since' = [since EXCEPT ![k] = 0]
    /\ ahead' = [ahead EXCEPT ![k] = @ + d]
    /\ strays' = IF cfg.enabled THEN 0 ELSE strays + 1

-----------------------------------------------------------------------------
(* Flags are read and the exchange initialised; the HTTP server is up      *)
(* before the first tick.                                                  *)
Start ==
    /\ pc = "down"
    /\ pc' = "starting" /\ kind' = "buy"
    /\ cfg' = DefaultConfig /\ snap' = DefaultConfig
    /\ left' = Zero /\ slot' = Empty /\ age' = 0 /\ signal' = "none"
    /\ spent' = 0 /\ since' = Zero /\ ahead' = Zero /\ granted' = Zero /\ strays' = 0
    /\ UNCHANGED stops

(* ex.Tick: both kinds, whatever the enabled switch says.                  *)
FirstTick ==
    /\ pc = "starting"
    /\ pc' = "tick"
    /\ Started("buy", 0)
    /\ UNCHANGED <<kind, cfg, snap, left, slot, age, signal, granted, stops>>

FirstBuyEnds ==
    /\ pc = "tick" /\ kind = "buy"
    /\ kind' = "list"
    /\ Started("list", 0)
    /\ UNCHANGED <<pc, cfg, snap, left, slot, age, signal, granted, stops>>

(* The ticker is made after the first tick, the deadlines count from there. *)
FirstListEnds ==
    /\ pc = "tick" /\ kind = "list"
    /\ pc' = "waiting"
    /\ snap' = cfg
    /\ left' = cfg.interval /\ granted' = cfg.interval
    /\ ahead' = cfg.interval
    /\ spent' = 0
    /\ UNCHANGED <<kind, cfg, slot, age, signal, since, strays, stops>>

(* A minute of the ticker.  Polling and comparing take no time; a channel  *)
(* that already holds a stamp drops the new one.                           *)
Busy == pc \in {"tick", "run"} /\ spent < MaxTick

Minute ==
    /\ Busy \/ (pc = "waiting" /\ slot = Empty)
    /\ IF Ticking
       THEN /\ left' = [k \in Kinds |-> AtLeast(left[k] - 1, -Horizon)]
            /\ slot' = slot + 1
       ELSE UNCHANGED <<left, slot>>
    /\ age' = IF pc = "run" THEN age + 1 ELSE age
    /\ spent' = IF Busy THEN spent + 1 ELSE spent
    /\ since' = [k \in Kinds |->
                   IF cfg.enabled THEN AtMost(since[k] + 1, MaxSince) ELSE 0]
    /\ ahead' = [k \in Kinds |-> AtLeast(ahead[k] - 1, 0)]
    /\ UNCHANGED <<pc, kind, cfg, snap, signal, granted, strays, stops>>

(* `case now := <-tick.C': one snapshot for both deadlines.                *)
EnabledAtFirst(c) == DefaultConfig.enabled

Enabled(c) == c.enabled

Poll ==
    /\ pc = "waiting" /\ slot # Empty
    /\ snap' = cfg
    /\ age' = slot /\ slot' = Empty
    /\ IF Enabled(cfg) THEN pc' = "check" /\ kind' = "buy" ELSE UNCHANGED <<pc, kind>>
    /\ UNCHANGED <<cfg, left, signal, seenVars, stops>>

(* now.After(next): the stamp against the deadline, never the clock.       *)
Due(k) == left[k] < -age

OnTheMinute(k) == left[k] = -age

OneKindPerPoll == pc' = "waiting" /\ UNCHANGED kind

AfterCheck ==
    IF kind = "buy" THEN pc' = "check" /\ kind' = "list"
                    ELSE pc' = "waiting" /\ UNCHANGED kind

StartTick ==
    /\ pc = "check"
    /\ Due(kind) \/ OnTheMinute(kind)
    /\ pc' = "run"
    /\ Started(kind, snap.interval[kind])
    /\ UNCHANGED <<kind, cfg, snap, left, slot, age, signal, granted, stops>>

NotDue ==
    /\ pc = "check"
    /\ ~Due(kind)
    /\ AfterCheck
    /\ UNCHANGED <<cfg, snap, left, slot, age, signal, seenVars, stops>>

(* next = now.Add(interval): from the stamp, with the poll's snapshot.     *)
NextForgotten == left[kind]

NextAfterDelay == snap.interval[kind] + age

NextDeadline == snap.interval[kind] - age

EndTick ==
    /\ pc = "run"
    /\ left' = [left EXCEPT ![kind] = AtLeast(NextDeadline, -Horizon)]
    /\ granted' = [granted EXCEPT ![kind] = snap.interval[kind]]
    /\ spent' = 0
    /\ AfterCheck
    /\ UNCHANGED <<cfg, snap, slot, age, signal, since, ahead, strays, stops>>

-----------------------------------------------------------------------------
(* PUT /config, on a goroutine of its own.                                 *)
PutConfig ==
    /\ pc # "down"
    /\ \E c \in Configs \ {cfg} : cfg' = c
    /\ strays' = 0
    /\ since' = IF cfg'.enabled THEN since ELSE Zero
    /\ UNCHANGED <<loopVars, spent, ahead, granted, stops>>

(* SIGTERM cancels the context; select takes either ready case.            *)
Signal ==
    /\ pc # "down" /\ signal = "none"
    /\ stops < MaxStops /\ stops' = stops + 1
    /\ signal' = "term"
    /\ UNCHANGED <<pc, kind, cfg, snap, left, slot, age, seenVars>>

ListensForSignalWhenEnabled == pc = "waiting" /\ snap.enabled

ListensForSignal == pc = "waiting"

ShutDown ==
    /\ ListensForSignal /\ signal = "term"
    /\ pc' = "down"
    /\ UNCHANGED <<kind, cfg, snap, left, slot, age, signal, seenVars, stops>>

Crash ==
    /\ pc # "down"
    /\ stops < MaxStops /\ stops' = stops + 1
    /\ pc' = "down"
    /\ UNCHANGED <<kind, cfg, snap, left, slot, age, signal, seenVars>>

Next ==
    \/ Start \/ FirstTick \/ FirstBuyEnds \/ FirstListEnds
    \/ Minute \/ Poll \/ StartTick \/ NotDue \/ EndTick
    \/ PutConfig \/ Signal \/ ShutDown \/ Crash

Spec == Init /\ [][Next]_vars

(* Time passes, ticks come to an end (BuySide and ListSide show it of      *)
(* theirs) and the pod is restarted.  select picks among ready cases at    *)
(* random, so shutting down is not passed over for ever.                   *)
Fairness ==
    /\ WF_vars(Start) /\ WF_vars(FirstTick)
    /\ WF_vars(FirstBuyEnds) /\ WF_vars(FirstListEnds)
    /\ WF_vars(Minute) /\ WF_vars(Poll)
    /\ WF_vars(StartTick) /\ WF_vars(NotDue) /\ WF_vars(EndTick)
    /\ SF_vars(ShutDown)

FairSpec == Spec /\ Fairness

-----------------------------------------------------------------------------
(* Ticks missed while the loop was held up or disabled are not made up     *)
(* for: over any stretch of time the ticks of a kind take no more than the *)
(* time there was for their intervals, but for the delay of one stamp.     *)
NoBursts == \A k \in Kinds : ahead[k] <= MaxInterval + 3 * MaxTick - 1

(* An enabled bot starts the next tick of a kind within the interval its   *)
(* deadline was set with and the time four ticks may take: the stamp of    *)
(* the poll that set it was held up by two of them, and the same again may *)
(* pass after a stamp on the very minute, which is not after the deadline. *)
(* No later configuration stretches it, as long as the bot stays enabled.  *)
NeverLate ==
    \A k \in Kinds : Ticking => since[k] <= granted[k] + MaxAge - 1

(* After `enabled: false' at most the ticks of one snapshot still start.   *)
StopsWhenDisabled == strays <= 2

(* Whatever the operator did before, a bot that stays enabled keeps        *)
(* running ticks of both kinds.                                            *)
KeepsTicking ==
    \A k \in Kinds : <>[](cfg.enabled) => []<>(pc = "run" /\ kind = k)

(* A signal ends the process, also when it arrives during a tick.          *)
SignalEnds == signal = "term" ~> pc = "down"
=============================================================================
