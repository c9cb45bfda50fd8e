------------------------------ MODULE ExitRules ------------------------------
(***************************************************************************)
(* The rules that end one position, from opening to close: the values      *)
(* frozen at open (adaptiveTrailingStop.ts, exitEngine.ts), the generic    *)
(* exit, the institutional ladder with its moonbag, the TP1 strategy with  *)
(* its volatility window, the stop on the real sale value, the time stop   *)
(* and the emergency exit.  A tick is one step: its interleavings are      *)
(* SellExecution's and PriceWatch's.                                       *)
(*                                                                         *)
(* Prices, amounts and stops are percents of the entry price and of the    *)
(* amount bought; a stop is kept times Scale to stay an integer.           *)
(***************************************************************************)
EXTENDS Integers, Sequences, FiniteSetsExt

CONSTANTS Prices,     \* the prices the token may trade at
          Users,     \* what a position may be opened with
          Vol,       \* the standard deviations a full window may give
          MinSamples,\* MIN_SAMPLES_FOR_STDDEV
          Moves, Faults, Troubles  \* bounds: price moves, failures, other events

\* What autoTrader opens a position with
User == [mode : {"plain", "ladder", "tp1"},
         preset : {"custom", "conservative", "balanced", "aggressive", "meme_coin"},
         liquidity : Nat, top10 : Nat, profit : Nat \cup {-1}, stop : Nat \cup {-1}, trail : Nat \cup {-1},
         moonbag : Nat, timed : BOOLEAN, valued : BOOLEAN, devKnown : BOOLEAN]

ExitAssumption ==
    /\ Users \subseteq User /\ Prices \subseteq Nat \ {0} /\ Vol \subseteq Nat /\ MinSamples \in Nat \ {0}
    /\ Moves \in Nat /\ Faults \in Nat /\ Troubles \in Nat
ASSUME ExitAssumption

VARIABLES user,     \* what the position was opened with
          pos,      \* the Position row
          price, quoted,  \* the market; whether the token can be priced and sold
          bad,      \* what is really wrong with the token
          old,      \* the position is older than the time stop
          samples, vol,   \* PriceVolatilityTracker's window; its last reading
          last,     \* the last tick: what it did, at which price
          peak,     \* observer: the highest price a tick saw
          missed,   \* observer: a tick at a new peak sold a rung, failed to
                    \* sell or was in a backoff
          cause,    \* observer: what was wrong or unread at the emergency exit
          moves, faults, troubles

ruleVars == <<user, pos, price, quoted, bad, old, samples, vol, last, peak, missed, cause,
          moves, faults, troubles>>

Unset == -1
Scale == 20000
Roi(p) == p - 100
Most(a, b) == IF a > b THEN a ELSE b
Least(a, b) == IF a < b THEN a ELSE b
Clamp(n, low, high) == Least(Most(n, low), high)

-----------------------------------------------------------------------------
(* What is frozen at open. *)

BaseTrail == [conservative |-> 8, balanced |-> 15, aggressive |-> 25, meme_coin |-> 30]
BaseStop == [conservative |-> 15, balanced |-> 25, aggressive |-> 35, meme_coin |-> 40]

\* computeAdaptiveTrailingStopPercent
AdaptiveTrail(preset, liquidity, top10) ==
    Clamp(BaseTrail[preset] + (IF liquidity >= 100000 THEN 3 ELSE IF liquidity >= 20000 THEN 0 ELSE -3)
                            + (IF top10 >= 50 THEN -3 ELSE IF top10 >= 30 THEN 0 ELSE 2), 3, 50)

ManualExit(u) == [profit |-> u.profit, stop |-> u.stop, trail |-> u.trail]
PresetExit(u) == [profit |-> Unset, stop |-> BaseStop[u.preset],
                  trail |-> AdaptiveTrail(u.preset, u.liquidity, u.top10)]
DefaultExit == [profit |-> Unset, stop |-> BaseStop["balanced"], trail |-> BaseTrail["balanced"]]

InitialStop == 20      \* EXIT_V2_INITIAL_STOP_LOSS_PERCENT
MaxLoss == 25          \* DEFAULT_MAX_LOSS_PERCENT
LadderStop == 35       \* INSTITUTIONAL_STOP_LOSS_PERCENT

\* autoTrader: whose values the position takes
ChosenExit(u) ==
    IF u.mode = "tp1" THEN [profit |-> Unset, stop |-> InitialStop, trail |-> Unset]
    ELSE IF u.preset # "custom" THEN PresetExit(u) ELSE ManualExit(u)

\* resolveEffectiveStopLossPercent
ClampedStop(stop) == IF stop = Unset \/ stop > MaxLoss THEN MaxLoss ELSE stop

\* openPosition: a position always has an exit
Frozen(u) ==
    LET chosen == ChosenExit(u)
        exit == IF chosen = [profit |-> Unset, stop |-> Unset, trail |-> Unset] THEN DefaultExit ELSE chosen
    IN  [exit EXCEPT !.stop = ClampedStop(@)]

Opened(u) == [open |-> TRUE, mark |-> 100, left |-> 100, rungs |-> {}, trailing |-> FALSE,
              exit |-> Frozen(u), why |-> "open", route |-> "ok"]

-----------------------------------------------------------------------------
(* The rules. *)

\* evaluateExit: the reason to exit at price p, or "hold"; trail10 in tenths
Exit(mark, p, profit, stop, trail10) ==
    LET high == Most(mark, p) IN
    IF profit # Unset /\ Roi(p) >= profit THEN "take_profit"
    ELSE IF stop # Unset /\ Roi(p) <= -stop THEN "stop_loss"
    ELSE IF trail10 # Unset /\ (high - p) * 1000 >= trail10 * high THEN "trailing_stop"
    ELSE "hold"

Tenths(percent) == IF percent = Unset THEN Unset ELSE 10 * percent

\* Mutant of LadderTrail: thirty-five percent below the mark all the way up.
LadderTrailFlat(mark) == IF Roi(mark) < 100 THEN Unset ELSE mark * 13000

\* computeInstitutionalTrailingStopPriceUsd, times Scale
LadderTrail(mark) ==
    LET roi == Roi(mark) IN
    IF roi < 100 THEN Unset
    ELSE IF roi < 300 THEN mark * 13000
    ELSE IF roi < 500 THEN mark * (13000 + 15 * (roi - 300))
    ELSE 100 * Scale + Most(roi * 14000, 380 * Scale)

\* computeVolatilityAdaptiveTrailingPercent, in tenths of a percent
Tp1Trail(reading) ==
    LET ratio10 == IF reading = Unset THEN 10 ELSE Clamp(2 * reading, 5, 20) IN
    Clamp(15 * ratio10, 100, 250)

Tp1Profit == 50
Breakeven == 2         \* EXIT_V2_BREAKEVEN_STOP_LOSS_PERCENT

Rungs == <<[gain |-> 100, sells |-> 10], [gain |-> 300, sells |-> 15], [gain |-> 500, sells |-> 20]>>

OnlyMoonbag == user.moonbag > 0 /\ pos.left <= user.moonbag

\* evaluateNextPartialExit: the first rung not taken yet and reached
Reached(p) == {i \in DOMAIN Rungs : i \notin pos.rungs /\ Roi(p) >= Rungs[i].gain}
NextRung(p) == IF Reached(p) = {} THEN 0 ELSE Min(Reached(p))
RungAmount(i) == Least(Rungs[i].sells, Most(0, pos.left - user.moonbag))

Hold == [do |-> "hold", why |-> "hold"]
Sell(why) == [do |-> "close", why |-> why]
SellIf(why) == IF why = "hold" THEN Hold ELSE Sell(why)

\* checkAndMaybeClose's generic path
PlainRule(p) == SellIf(Exit(pos.mark, p, pos.exit.profit, pos.exit.stop, Tenths(pos.exit.trail)))

\* checkAndMaybeCloseInstitutional
LadderRule(p) ==
    LET rung == NextRung(p)
        stop == Exit(pos.mark, p, Unset, IF OnlyMoonbag THEN Unset ELSE LadderStop, Unset)
        trail == LadderTrail(Most(pos.mark, p))
    IN  IF ~OnlyMoonbag /\ rung > 0 /\ RungAmount(rung) > 0 THEN [do |-> "rung", why |-> "partial"]
        ELSE IF stop # "hold" THEN Sell(stop)
        ELSE IF trail # Unset /\ p * Scale <= trail THEN Sell("trailing_stop") ELSE Hold

\* evaluateTp1TrailingStrategy
Tp1Rule(p, reading) ==
    IF ~pos.trailing
    THEN LET why == Exit(pos.mark, p, Tp1Profit, pos.exit.stop, Unset) IN
         IF why = "take_profit" THEN [do |-> "half", why |-> "tp1"] ELSE SellIf(why)
    ELSE SellIf(Exit(pos.mark, p, Unset, Breakeven, Tp1Trail(reading)))

\* shouldTimeStop
TimeStop(p) == user.timed /\ old /\ ~pos.trailing /\ Roi(p) < 10

\* evaluateRealValueStop, on what the rest would sell for
RealValueStop(value) == ~pos.trailing /\ Roi(value) <= -pos.exit.stop

\* checkAndMaybeClose: the first rule that applies
Decision(p, reading) ==
    IF TimeStop(p) THEN Sell("time_stop")
    ELSE CASE user.mode = "ladder" -> LadderRule(p)
           [] user.mode = "tp1" -> Tp1Rule(p, reading)
           [] OTHER -> PlainRule(p)

-----------------------------------------------------------------------------
Troubled == {"liquidity", "route", "mint", "freeze", "score", "dev"}

\* What the sales that found no route have come to: none failed, a backoff
\* runs, one is over, or the position is given up on (sellUnsellable).
RouteStates == {"ok", "waits", "over", "gone"}

Nothing == [did |-> "nothing", at |-> 100, why |-> "hold"]
NoSamples == [n |-> 0, stale |-> FALSE]

\* Types of the row, the window and the observers.
ExitTypes ==
    /\ user \in Users
    /\ pos \in [open : BOOLEAN, mark : Prices \cup {100}, left : 0 .. 100, rungs : SUBSET DOMAIN Rungs,
                trailing : BOOLEAN, exit : [profit : Nat \cup {Unset}, stop : 0 .. MaxLoss,
                                            trail : Nat \cup {Unset}],
                why : {"open", "take_profit", "stop_loss", "trailing_stop", "time_stop",
                       "emergency", "manual"},
                route : RouteStates]
    /\ price \in Prices \cup {100} /\ quoted \in BOOLEAN /\ bad \subseteq Troubled /\ old \in BOOLEAN
    /\ samples \in [n : 0 .. MinSamples, stale : BOOLEAN] /\ vol \in Vol \cup {Unset}
    /\ last.did \in {"nothing", "held", "sold", "closed", "failed", "waited"}
    /\ peak \in Prices \cup {100} /\ missed \in BOOLEAN /\ cause \subseteq Troubled
    /\ moves \in 0 .. Moves /\ faults \in 0 .. Faults /\ troubles \in 0 .. Troubles

ExitInit ==
    /\ user \in Users /\ pos = Opened(user)
    /\ price = 100 /\ quoted = TRUE /\ bad = {} /\ old = FALSE
    /\ samples = NoSamples /\ vol = Unset /\ last = Nothing
    /\ peak = 100 /\ missed = FALSE /\ cause = {}
    /\ moves = 0 /\ faults = 0 /\ troubles = 0

Around == <<user, price, quoted, bad, old, moves>>

\* recordSample: a sample too old leaves the window
Recorded == IF samples.stale THEN [n |-> 1, stale |-> FALSE]
            ELSE [samples EXCEPT !.n = Least(@ + 1, MinSamples)]

\* getRollingStdDevPercent: unknown while the window is short
Readings(window) == IF window.n >= MinSamples THEN Vol ELSE {Unset}

Seen(p) == peak' = Most(peak, p)

\* No rule applies: the mark is raised.
HoldOn(p) ==
    /\ pos' = [pos EXCEPT !.mark = Most(@, p)] /\ last' = [did |-> "held", at |-> p, why |-> "hold"]
    /\ UNCHANGED missed

\* executePartialSell for a rung: the mark is left as it is.
SellRung(p) ==
    LET rung == NextRung(p) IN
    /\ pos' = [pos EXCEPT !.rungs = @ \cup {rung}, !.left = @ - RungAmount(rung)]
    /\ last' = [did |-> "sold", at |-> p, why |-> "partial"]
    /\ missed' = (missed \/ p > pos.mark)

\* The first half of the TP1 strategy, and its trailing.
SellHalf(p) ==
    /\ pos' = [pos EXCEPT !.left = @ - 50, !.trailing = TRUE, !.mark = Most(@, p), !.exit.stop = Breakeven]
    /\ last' = [did |-> "sold", at |-> p, why |-> "tp1"]
    /\ UNCHANGED missed

CloseFor(why, p) ==
    /\ pos' = [pos EXCEPT !.open = FALSE, !.why = why]
    /\ last' = [did |-> "closed", at |-> p, why |-> why]
    /\ UNCHANGED missed

Apply(decision, p) ==
    CASE decision.do = "hold" -> HoldOn(p)
      [] decision.do = "rung" -> SellRung(p)
      [] decision.do = "half" -> SellHalf(p)
      [] OTHER -> CloseFor(decision.why, p)

\* The monitors read the open positions that were not given up on.
Watched == pos.open /\ pos.route # "gone"

Costs(n) == faults + n <= Faults /\ faults' = faults + n

\* A close that fails: in passing, or for want of a route, which starts a
\* backoff or was the last try of maxPermanentRouteRetries (one or more).
ClosingFails == \E route \in {pos.route, "waits", "gone"} : pos' = [pos EXCEPT !.route = route]

\* A partial sale that fails starts no backoff, but lengthens one.
SaleFails ==
    \E route \in {pos.route, "gone"} \cup (IF pos.route = "over" THEN {"waits"} ELSE {}) :
        pos' = [pos EXCEPT !.route = route]

Failed(p) == last' = [did |-> "failed", at |-> p, why |-> "hold"]

\* A tick at a new peak that does not come to raise the mark.
Overlooks(p) == missed' = (missed \/ p > pos.mark)

\* checkAndMaybeClose in a backoff: no rule is looked at.
Defers(p) ==
    /\ last' = [did |-> "waited", at |-> p, why |-> "hold"]
    /\ Overlooks(p) /\ UNCHANGED pos

\* A rule applies and its sale fails.
RuleFails(decision, p) ==
    /\ decision.do # "hold" /\ Failed(p) /\ Overlooks(p)
    /\ IF decision.do = "close" THEN ClosingFails ELSE SaleFails

\* The window of the TP1 strategy takes the price before any rule, and is
\* dropped with the position; the others have none.
Window(reading, closes) ==
    IF user.mode = "tp1"
    THEN reading \in Readings(Recorded) /\ vol' = reading /\ samples' = IF closes THEN NoSamples ELSE Recorded
    ELSE reading = Unset /\ UNCHANGED <<samples, vol>>

\* checkRealValueStop, before any price.  The sale value is the price less its
\* impact; a quote that fails (a fault) lets the tick go on.
ValueStop(value) == user.valued /\ RealValueStop(value)
Unquoted == IF ValueStop(price) THEN 1 ELSE 0

\* One tick that can price the token: the stop on the real value, or what the
\* rules say with what the window reads, or a wait.
RuleTick ==
    /\ Watched /\ quoted
    /\ \/ /\ \E value \in {price, (9 * price) \div 10} : ValueStop(value)
          /\ CloseFor("stop_loss", price) /\ UNCHANGED <<samples, vol, faults>>
       \/ /\ pos.route # "waits" /\ Costs(Unquoted)
          /\ \E reading \in Vol \cup {Unset} :
                LET decision == Decision(price, reading) IN
                Window(reading, decision.do = "close") /\ Apply(decision, price)
       \/ /\ pos.route = "waits" /\ Costs(Unquoted)
          /\ \E reading \in Vol \cup {Unset} : Window(reading, FALSE)
          /\ Defers(price)
    /\ Seen(price)
    /\ UNCHANGED <<Around, cause, troubles>>

\* A tick whose sale fails: the real-value stop's before the price is read, a
\* rule's after the window has it.
TickFails ==
    /\ Watched /\ quoted
    /\ \/ /\ \E value \in {price, (9 * price) \div 10} : ValueStop(value)
          /\ Costs(1) /\ ClosingFails /\ Failed(price) /\ UNCHANGED <<samples, vol, peak, missed>>
       \/ /\ pos.route # "waits" /\ Costs(Unquoted + 1) /\ Seen(price)
          /\ \E reading \in Vol \cup {Unset} :
                Window(reading, FALSE) /\ RuleFails(Decision(price, reading), price)
    /\ UNCHANGED <<Around, cause, troubles>>

\* computeSellRetryBackoffMs has passed.
BackoffEnds ==
    /\ pos.open /\ pos.route = "waits" /\ pos' = [pos EXCEPT !.route = "over"]
    /\ UNCHANGED <<Around, samples, vol, last, peak, missed, cause, faults, troubles>>

\* What evaluateEmergencyExit takes for bad: a failed read counts as such,
\* save for a holder that was unknown at open.
Reads == {"liquidity", "route", "mint", "dev"}
Taken(unread) ==
    bad \cup unread \cup (IF "mint" \in unread THEN {"freeze"} ELSE {})

\* devWalletAmountRawAtEntry unknown: the holder is not looked at.
Signals(unread) == IF user.devKnown THEN Taken(unread) ELSE Taken(unread) \ {"dev"}

\* EmergencyExitMonitor: sells everything, the moonbag too, in a backoff too;
\* or its sale fails and it tries again at a later tick.
Emergency ==
    /\ Watched
    /\ \E unread \in {{}} \cup {{r} : r \in Reads} :   \* at most one read fails
       LET lost == IF unread = {} THEN 0 ELSE 1 IN
       /\ Signals(unread) # {}
       /\ \/ /\ Costs(lost) /\ cause' = Signals(unread)
             /\ pos' = [pos EXCEPT !.open = FALSE, !.why = "emergency"]
          \/ Costs(lost + 1) /\ ClosingFails /\ UNCHANGED cause
    /\ UNCHANGED <<Around, samples, vol, last, peak, missed, troubles>>

\* What happens around a position that nobody watches any more is left out.
Trouble == troubles < Troubles /\ troubles' = troubles + 1

\* The user sells, unless the position was given up on: nobody tells the
\* volatility window.
ManualClose ==
    /\ Watched /\ Trouble
    /\ pos' = [pos EXCEPT !.open = FALSE, !.why = "manual"]
    /\ UNCHANGED <<Around, samples, vol, last, peak, missed, cause, faults>>

\* The process restarts: the window is gone.
Restarts ==
    /\ Watched /\ Trouble /\ samples' = NoSamples
    /\ UNCHANGED <<Around, pos, vol, last, peak, missed, cause, faults>>

PriceMoves ==
    /\ Watched /\ moves < Moves /\ moves' = moves + 1
    /\ price' \in Prices \ {price}
    /\ UNCHANGED <<user, pos, quoted, bad, old, samples, vol, last, peak, missed, cause, faults, troubles>>

\* No price for a while: the samples get old.
Blackout ==
    /\ Watched /\ Trouble /\ quoted /\ quoted' = FALSE
    /\ samples' = [samples EXCEPT !.stale = samples.n > 0]
    /\ UNCHANGED <<user, pos, price, bad, old, vol, last, peak, missed, cause, moves, faults>>

Back ==
    /\ ~quoted /\ quoted' = TRUE
    /\ UNCHANGED <<user, pos, price, bad, old, samples, vol, last, peak, missed, cause, moves, faults, troubles>>

Turn ==
    /\ Watched /\ Trouble /\ \E t \in Troubled \ bad : bad' = bad \cup {t}
    /\ UNCHANGED <<user, pos, price, quoted, old, samples, vol, last, peak, missed, cause, moves, faults>>

GrowOld ==
    /\ Watched /\ user.timed /\ ~old /\ old' = TRUE   \* nobody else looks at the age
    /\ UNCHANGED <<user, pos, price, quoted, bad, samples, vol, last, peak, missed, cause, moves,
                   faults, troubles>>

ExitNext ==
    \/ RuleTick \/ TickFails \/ BackoffEnds \/ Emergency \/ ManualClose \/ Restarts
    \/ PriceMoves \/ Blackout \/ Back \/ Turn \/ GrowOld

ExitSpec == ExitInit /\ [][ExitNext]_ruleVars

-----------------------------------------------------------------------------
(* Properties. *)

\* exitEngine.ts:148-157: whatever the user chose, an open position is never
\* below the ceiling at a tick whose sale worked.  The institutional stop
\* stands at its own 35 percent when the real-value stop is off, and the
\* moonbag has none.
CeilingHolds ==
    pos.open /\ last.did = "held" /\ (user.mode # "ladder" \/ (user.valued /\ faults = 0)) =>
        Roi(last.at) > -MaxLoss

\* institutionalTrailingStop.ts:24-25: past +500 percent a position that is
\* still held after a tick keeps more than seventy percent of its best
\* recorded profit.
WinnersKeepMost ==
    user.mode = "ladder" /\ pos.open /\ last.did = "held" /\ Roi(pos.mark) >= 500 =>
        10 * Roi(last.at) > 7 * Roi(pos.mark)

\* tp1TrailingStrategy.ts: the second half is never held at a price that
\* gives the first half's profit back.
HalfKeepsProfit ==
    user.mode = "tp1" /\ pos.trailing /\ pos.open /\ last.did = "held" =>
        last.at > 100 /\ 4 * last.at > 3 * pos.mark

\* The stop the rules hold the position to, times Scale.
PriceStop(p) == Scale * (100 - p.exit.stop)
StopOf(p, u, reading) ==
    CASE u.mode = "ladder" ->
            Most(IF u.moonbag > 0 /\ p.left <= u.moonbag THEN 0 ELSE Scale * (100 - LadderStop),
                 LadderTrail(p.mark))
      [] u.mode = "tp1" ->
            Most(PriceStop(p), IF p.trailing THEN p.mark * 20 * (1000 - Tp1Trail(reading)) ELSE 0)
      [] OTHER ->
            Most(PriceStop(p), IF p.exit.trail = Unset THEN 0
                               ELSE p.mark * 200 * (100 - p.exit.trail))

\* institutionalTrailingStop.ts:9-13: the stop only moves upward, save by a
\* new volatility reading or when only the moonbag is left.
StopOnlyRises ==
    [][pos.open /\ pos'.open /\ vol' = vol /\ (pos'.left = pos.left \/ user.mode # "ladder") =>
           StopOf(pos', user, vol') >= StopOf(pos, user, vol)]_ruleVars

\* exitEngine.ts: the mark is the highest price a tick has seen, unless the
\* tick of the peak sold a rung of the ladder, failed to sell or was in a
\* backoff: these leave the mark as it is, and no later tick makes up for it.
PeaksAreKept == pos.open /\ last.did = "held" => missed \/ pos.mark >= peak

\* emergencyExit.ts: with every read answered, an emergency exit has a cause
\* that is there.
EmergencyHasCause == pos.why = "emergency" /\ faults = 0 => cause # {} /\ cause \subseteq bad

\* priceMonitor.ts:398-404: the window of a position a rule has closed is
\* dropped.
WindowIsDropped ==
    last.did = "closed" /\ pos.why \in {"take_profit", "trailing_stop", "time_stop"} => samples.n = 0

\* The promises above, of every tick, sale and close.
DecisionsAreSound ==
    /\ [](/\ ExitTypes /\ CeilingHolds /\ WinnersKeepMost /\ HalfKeepsProfit
          /\ PeaksAreKept /\ EmergencyHasCause /\ WindowIsDropped)
    /\ StopOnlyRises

\* A position that stays far below the ceiling, or whose token is bad, is
\* sold in the end, unless it is given up on for want of a route; a moonbag
\* needs the real-value stop or its trail for it.
LosersAreSold ==
    []<>(Watched => /\ bad \ {"dev"} = {}
                    /\ Roi(price) > -LadderStop \/ (OnlyMoonbag /\ ~user.valued))
=============================================================================
