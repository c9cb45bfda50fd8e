------------------------------ MODULE MCExits ------------------------------
(***************************************************************************)
(* The price monitor's runs on one position, and the rules that decide a   *)
(* position's end.  PriceWatch leaves the rules out and ExitRules the      *)
(* interleavings, and they share no state: a behaviour runs one and leaves *)
(* the other idle.                                                         *)
(***************************************************************************)
EXTENDS PriceWatch, ExitRules

Of(steps, flips, silences, errors, slow, hangs) ==
    [moves |-> steps, flips |-> flips, silences |-> silences, faults |-> errors,
     slow |-> slow, hangs |-> hangs]

Unwatched == Of(0, 0, 0, 0, 0, 0)

\* Prices that move beside wrong ones; outages and restarts; each with a run
\* that outlasts its tick, of an outage that has ended too; a run that hangs.
MCBudgets ==
    {Unwatched, Of(2, 0, 0, 0, 1, 0), Of(1, 0, 1, 2, 0, 0), Of(0, 1, 0, 0, 1, 0), Of(0, 2, 0, 1, 0, 0),
     Of(0, 0, 2, 0, 1, 0), Of(1, 1, 0, 0, 0, 1)}
-----------------------------------------------------------------------------
Base == [mode |-> "plain", preset |-> "custom", liquidity |-> 30000, top10 |-> 35,
         profit |-> Unset, stop |-> Unset, trail |-> Unset, moonbag |-> 0,
         timed |-> FALSE, valued |-> TRUE, devKnown |-> TRUE]

\* Presets for a deep and a thin token, values of the user's own or none, the
\* ladder with and without a moonbag, and the TP1 strategy.
MCUsers ==
    {[Base EXCEPT !.preset = "conservative", !.liquidity = 10000, !.top10 = 60, !.valued = FALSE],
     [Base EXCEPT !.preset = "meme_coin", !.liquidity = 200000, !.top10 = 20, !.valued = FALSE],
     [Base EXCEPT !.profit = 60, !.stop = 40, !.timed = TRUE, !.devKnown = FALSE],
     Base,
     [Base EXCEPT !.mode = "ladder", !.moonbag = 55],
     [Base EXCEPT !.mode = "ladder", !.moonbag = 55, !.valued = FALSE, !.devKnown = FALSE],
     [Base EXCEPT !.mode = "ladder"],
     [Base EXCEPT !.mode = "tp1"]}

MCPrices == {64, 78, 120, 160, 560, 800}
-----------------------------------------------------------------------------
VARIABLE part   \* which of the two runs

MCInit ==
    /\ Init /\ ExitInit
    /\ \/ part = "watch" /\ budget # Unwatched /\ user = Base
       \/ part = "rules" /\ budget = Unwatched

WatchPart == part = "watch" /\ Next /\ UNCHANGED <<part, ruleVars>>

\* Bound: beside a ladder or a TP1 half, one trouble that is read at every
\* opening and one that is not.
RulesPart ==
    /\ part = "rules" /\ ExitNext /\ UNCHANGED <<part, vars>>
    /\ user.mode # "plain" => bad' \subseteq {"liquidity", "dev"}

\* The interval fires, awaits return (or the watchdog ends the wait), time
\* passes, and a feed that has a price is not silent at every tick.
WatchFairness ==
    /\ WF_vars(part = "watch" /\ \E r \in Run : Tick(r)) /\ WF_vars(part = "watch" /\ Elapse)
    /\ WF_vars(part = "watch" /\ RetryIsDue)
    /\ \A r \in Run :
          /\ WF_vars(part = "watch" /\ Step(r))
          /\ WF_vars(part = "watch" /\ At(r, "hung") /\ Watchdog(r))
          /\ SF_vars(part = "watch" /\ Price(r) /\ run'[r].at = "check" /\ budget' = budget)

\* Both monitors tick for as long as the process runs, and an outage of the
\* price sources ends.
RulesFairness ==
    /\ WF_ruleVars(part = "rules" /\ RuleTick) /\ WF_ruleVars(part = "rules" /\ Emergency)
    /\ WF_ruleVars(part = "rules" /\ Back) /\ WF_ruleVars(part = "rules" /\ BackoffEnds)

MCFairSpec ==
    /\ MCInit /\ [][WatchPart \/ RulesPart]_<<part, vars, ruleVars>>
    /\ WatchFairness /\ RulesFairness

\* Ticks go on, a fallen market and a losing or bad position are sold, and a
\* lasting outage is told of.
LossesEnd == TicksGoOn /\ CrashIsSold /\ EmptiedIsClosed /\ OutageIsTold /\ LosersAreSold
=============================================================================
