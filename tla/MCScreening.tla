---------------------------- MODULE MCScreening ----------------------------
(***************************************************************************)
(* The screening of a token, the advisory scores that are computed beside  *)
(* it, and the bookkeeping of the wallets that bought it.  They share no   *)
(* state: a behaviour runs one and leaves the others idle.                 *)
(***************************************************************************)
EXTENDS Screening, WalletTracking

Sound == [mint |-> TRUE, freeze |-> TRUE, black |-> FALSE, pump |-> FALSE, listed |-> TRUE, curve |-> TRUE,
          holders |-> <<60, 50, 40, 30, 20, 10>>, later |-> <<60, 50, 40, 30, 20, 10>>, vault |-> 700,
          liquidity |-> 5000, quoted |-> TRUE, home |-> "PUMPSWAP", route |-> "good", born |-> 0]

For(t, r, f, c) == [token |-> t, rounds |-> r, faults |-> f, changes |-> c]

Unreported == For(Sound, 0, 0, 0)

Bad ==
    {[Sound EXCEPT !.mint = FALSE], [Sound EXCEPT !.freeze = FALSE], [Sound EXCEPT !.black = TRUE],
     [Sound EXCEPT !.pump = TRUE], [Sound EXCEPT !.route = "costly"], [Sound EXCEPT !.liquidity = 300],
     [Sound EXCEPT !.holders = <<20, 11, 11, 11, 11, 8>>],
     [Sound EXCEPT !.holders = <<300, 11, 11, 11, 11>>],
     [Sound EXCEPT !.holders = <<700, 60, 20, 20, 10>>]}

Unlisted == [Sound EXCEPT !.listed = FALSE, !.curve = FALSE]

\* Nobody but a quote knows their liquidity, thin or too deep for it; a pair without a
\* figure; one on a venue nobody knows.
Odd ==
    {[Unlisted EXCEPT !.liquidity = 300], [Unlisted EXCEPT !.liquidity = 3], [Unlisted EXCEPT !.liquidity = 20000],
     [Sound EXCEPT !.quoted = FALSE], [Sound EXCEPT !.home = None]}

\* Many failures of a sound token; a sound or a young one that changes; a bad
\* one of which a read fails.
MCTokens ==
    {Unreported, For(Sound, 1, 3, 0), For(Sound, 2, 1, 0), For(Sound, 2, 0, 1), For(Sound, 1, 1, 1),
     For([Sound EXCEPT !.listed = FALSE, !.holders = <<600, 30, 20>>], 2, 0, 1)}
    \cup {For(t, 1, 1, 0) : t \in Bad \cup Odd}

MCAnswers == {<<60, FALSE>>, <<65, TRUE>>, <<90, TRUE>>}

MCCandidates ==
    {[venue |-> "PUMPFUN", timed |-> TRUE], [venue |-> "PUMPFUN", timed |-> FALSE],
     [venue |-> "PUMPSWAP", timed |-> TRUE]}

MCConfig == [minLiquidity |-> 500, minScore |-> 60, filter |-> FALSE, maxTop10 |-> 60, minHolders |-> 0]
-----------------------------------------------------------------------------
\* --- Signals ------------------------------------------------------------------

Purchase(w, when, confidence, label, funder) ==
    [who |-> w, t |-> when, conf |-> confidence, sybil |-> label, cluster |-> funder]

\* Two confident strangers; the same too far apart; one funder's two wallets; a
\* labelled one; six buys of five wallets; nobody.
SignalBuys ==
    {<<Purchase(1, 0, 80, 0, 0), Purchase(2, 2, 60, 0, 0)>>, <<Purchase(1, 0, 80, 0, 0), Purchase(2, 9, 90, 0, 0), Purchase(1, 5, 80, 0, 0)>>,
     <<Purchase(1, 0, 80, 0, 7), Purchase(2, 1, 80, 0, 7)>>, <<Purchase(1, 3, 70, 20, 0), Purchase(2, 3, 90, 0, 0)>>,
     <<Purchase(1, 0, 0, 0, 0), Purchase(2, 0, 0, 0, 0), Purchase(3, 0, 0, 0, 0), Purchase(4, 0, 0, 0, 0), Purchase(5, 1, 0, 0, 0), Purchase(1, 1, 0, 0, 0)>>,
     <<>>}

Rising == [m5b |-> 12, m5s |-> 4, h1b |-> 60, h1s |-> 40, m5v |-> 20, h1v |-> 120, h1c |-> 40, h24c |-> 60]
Fading == [m5b |-> 0, m5s |-> 0, h1b |-> 5, h1s |-> 9, m5v |-> 0, h1v |-> 30, h1c |-> -20, h24c |-> 10]

SignalOf(n, b, pr, s, m, safe, g, f) ==
    [passes |-> n, buys |-> b, pair |-> pr, smart |-> s, momentum |-> m, safety |-> safe, gate |-> g, faults |-> f]

NoPass == SignalOf(0, <<>>, Rising, FALSE, FALSE, 70, 0, 0)

MCSignals ==
    {NoPass}
    \cup {SignalOf(1, b, Rising, TRUE, TRUE, 70, 0, IF b = <<>> THEN 1 ELSE 0) : b \in SignalBuys}
    \cup {SignalOf(1, b, Fading, TRUE, TRUE, 40, 50, 0) : b \in SignalBuys}
    \cup {SignalOf(2, CHOOSE b \in SignalBuys : Len(b) = 3, Rising, TRUE, FALSE, 70, 0, 1),
          SignalOf(1, CHOOSE b \in SignalBuys : Len(b) = 6, Rising, TRUE, FALSE, 70, 0, 2),
          SignalOf(1, <<>>, Rising, FALSE, TRUE, 95, 0, 2),
          SignalOf(2, <<>>, Rising, FALSE, FALSE, 70, 50, 1)}

VARIABLES scenario, now, pairCache, flight, eval, stash, call, row, signalFaults

signalVars == <<scenario, now, pairCache, flight, eval, stash, call, row, signalFaults>>

T == INSTANCE TokenSignals WITH
       Pass <- {1, 2}, Ttl <- 1, MaxTime <- 2, Window <- 5, Scenarios <- MCSignals,
       cache <- pairCache, faults <- signalFaults

ASSUME T!SignalsAssumption
-----------------------------------------------------------------------------
\* --- Trackers -----------------------------------------------------------------

Of(deals, late, bad, again, isLogged) ==
    [trades |-> deals, timeouts |-> late, faults |-> bad, scans |-> again, log |-> isLogged]

\* Wallets that trade and a pool that may die; a feed that times out; reads that fail; a logged
\* decision and nothing else.
NoTrade == Of(0, 0, 0, 0, FALSE)

MCTrades ==
    {NoTrade, Of(3, 0, 0, 0, FALSE), Of(2, 1, 0, 0, FALSE), Of(2, 0, 1, 0, FALSE), Of(1, 0, 0, 1, FALSE), Of(0, 1, 0, 0, TRUE)}

VARIABLE part   \* which of the three runs

MCInit ==
    /\ ScreeningInit /\ T!Init /\ TrackInit
    /\ \/ part = "screening" /\ rounds > 0 /\ scenario = NoPass /\ budget = NoTrade
       \/ part = "signals" /\ rounds = 0 /\ scenario # NoPass /\ budget = NoTrade
       \/ part = "trackers" /\ rounds = 0 /\ scenario = NoPass /\ budget # NoTrade

ScreeningPart == part = "screening" /\ ScreeningNext /\ UNCHANGED <<part, signalVars, trackVars>>
SignalsPart == part = "signals" /\ T!Next /\ UNCHANGED <<part, svars, trackVars>>
TrackersPart == part = "trackers" /\ TrackNext /\ UNCHANGED <<part, svars, signalVars>>

MCFairSpec ==
    /\ MCInit
    /\ [][ScreeningPart \/ SignalsPart \/ TrackersPart]_<<part, svars, signalVars, trackVars>>
    /\ ScreeningFairness /\ T!Fairness /\ TrackingFairness

\* What the screening's figures and the shadow scores say is what they were computed from.
ScoresAreSound == VerdictsAreSound /\ T!SignalsAreSound

\* Every evaluation, call, entry and logged decision comes to its end.
ScreeningEnds == <>[](EvaluationsEnded /\ T!CallsEnded /\ EntriesEnded /\ RowsAreFinished)
=============================================================================
