------------------------------ MODULE TokenSignals ------------------------------
(***************************************************************************)
(* The advisory scores of a token that passed its checks: worker.ts starts *)
(* smartMoneyMomentumEvaluator.ts without awaiting it, stashes the promise *)
(* by mint, and processAiCall takes it, scores the token meanwhile and     *)
(* waits a bounded time for it; opportunityScore.ts combines the scores    *)
(* and shadowModeEvaluator.ts logs a verdict.  The wallet and the market   *)
(* signals come from smartWalletTracker.ts, earlyMomentumDetector.ts and   *)
(* the cached client of dexscreener.ts.  One mint, which may pass twice.   *)
(***************************************************************************)
EXTENDS Integers, Sequences, FiniteSets, SequencesExt

CONSTANTS Pass,       \* times the mint passes, numbered; each starts an evaluation and a call
          Ttl,        \* cacheTtlMs, in clock units
          MaxTime,    \* bound on the clock
          Window,     \* CLUSTER_BUY_WINDOW_MS, in the units of the buys
          Scenarios   \* [passes, buys, pair, smart, momentum, safety, gate, faults]

SignalsAssumption == {Ttl, MaxTime, Window} \subseteq Nat /\ Pass \subseteq Nat \ {0}

VARIABLES scenario,
          now, cache, flight,   \* DexScreenerClient's maps for the mint's key
          eval,     \* each pass's evaluation
          stash,    \* smartMoneyMomentumPromises' entry for the mint
          call,     \* each pass's processAiCall
          row,      \* each pass's ShadowModeDecisionLog row
          faults

vars == <<scenario, now, cache, flight, eval, stash, call, row, faults>>

None == 0
Unknown == -1      \* undefined; every score is at least 0
Least(a, b) == IF a < b THEN a ELSE b
Most(a, b) == IF a < b THEN b ELSE a
Clamp(x) == Most(0, Least(1000, x))

\* Math.round of a quotient
Round(num, den) == (2 * num + den) \div (2 * den)
Sum(s) == FoldSeq(LAMBDA x, total : x + total, 0, s)
Wallets(buys) == {buys[i].who : i \in DOMAIN buys}
Count(buys, w) == Cardinality({i \in DOMAIN buys : buys[i].who = w})
-----------------------------------------------------------------------------
(* smartWalletTracker.ts: a buy is [who, t, conf, sybil, cluster].          *)

\* applySybilDiscount, in hundredths
Discounted(b) == IF b.sybil > 0 THEN b.conf * (100 - b.sybil) ELSE b.conf * 100

Key(b) == IF b.cluster # None THEN <<"cluster", b.cluster>> ELSE <<"wallet", b.who>>

Qualifying(buys) == {i \in DOMAIN buys : Discounted(buys[i]) >= 6000}

KeysFrom(buys, i) ==
    {Key(buys[j]) : j \in {j \in Qualifying(buys) : buys[j].t \in buys[i].t .. buys[i].t + Window}}

\* detectClusterBuy: the most keys in a window that opens at a buy
Independent(buys) ==
    LET sizes == {Cardinality(KeysFrom(buys, i)) : i \in Qualifying(buys)} \cup {0}
    IN CHOOSE n \in sizes : \A k \in sizes : k <= n

\* computeSmartMoneyScore
SmartMoney(buys) ==
    LET conf == [i \in DOMAIN buys |-> Discounted(buys[i])]
        best == CHOOSE c \in {conf[i] : i \in DOMAIN conf} : \A i \in DOMAIN conf : conf[i] <= c
        bonus == IF Independent(buys) >= 2 THEN Least(20, 7 * Independent(buys)) ELSE 0
    IN IF buys = <<>> THEN Unknown
       ELSE Least(100, Round(6 * best * Len(buys) + 2 * Sum(conf) + 1000 * bonus * Len(buys), 1000 * Len(buys)))
-----------------------------------------------------------------------------
(* earlyMomentumDetector.ts: a pair is [m5b, m5s, h1b, h1s, m5v, h1v, h1c,  *)
(* h24c]; the events it is given are all buys and carry no amount.         *)

\* detectWashTradingPattern: round trips and like sizes need sells and amounts;
\* what is left is three wallets with more than 60 % of five wallets' events.
Suspicion(buys) ==
    LET top == CHOOSE s \in {s \in SUBSET Wallets(buys) : Cardinality(s) = Least(3, Cardinality(Wallets(buys)))} :
                  \A w \in s, v \in Wallets(buys) \ s : Count(buys, w) >= Count(buys, v)
        held == Cardinality({i \in DOMAIN buys : buys[i].who \in top})
    IN IF Cardinality(Wallets(buys)) >= 5 /\ 10 * held > 6 * Len(buys) THEN 30 ELSE 0

Part(known, weight, num, den) == [known |-> known, weight |-> weight, credit |-> IF known THEN Clamp((1000 * num) \div den) ELSE 0]

\* deriveMomentumMetricsFromPair and the weights of computeEarlyMomentumScore;
\* liquidity and holder growth and smart-money inflow are never supplied.
Parts(pair, counted, buys) ==
    LET m5 == pair.m5b + pair.m5s
        h1 == pair.h1b + pair.h1s
        short == m5 > 0
    IN << Part(short \/ h1 > 0, 15, IF short THEN pair.m5b ELSE pair.h1b,
               2 * Most(1, IF short THEN pair.m5s ELSE pair.h1s)),
          Part(h1 > 0, 10, 12 * m5 - h1, h1),
          Part(pair.h1v > 0, 15, 12 * pair.m5v - pair.h1v, pair.h1v),
          Part(TRUE, 10, 24 * pair.h1c - pair.h24c, 1200),
          Part(counted, 15, Cardinality(Wallets(buys)), 20) >>

NoPair == [m5b |-> 0, m5s |-> 0, h1b |-> 0, h1s |-> 0, m5v |-> 0, h1v |-> 0, h1c |-> 0, h24c |-> 0]

\* The caps, in thousandths
WashCap(buys) == IF Suspicion(buys) >= 70 THEN 20000 ELSE IF Suspicion(buys) >= 40 THEN 50000 ELSE 100000

RepeatCap(buys) ==
    LET repeated == IF buys = <<>> THEN 0 ELSE (100000 * (Len(buys) - Cardinality(Wallets(buys)))) \div Len(buys)
    IN IF repeated > 50000 THEN 150000 - repeated ELSE 100000

\* computeEarlyMomentumScore: an average over the parts that are known.  paired
\* and counted say whether there is a pair and a wallet evaluation.
Momentum(pair, paired, counted, buys) ==
    LET parts == SelectSeq(IF paired THEN Parts(pair, counted, buys) ELSE SubSeq(Parts(NoPair, counted, buys), 5, 5),
                           LAMBDA p : p.known)
        weight == Sum([i \in DOMAIN parts |-> parts[i].weight])
        raw == IF weight = 0 THEN 0
               ELSE (100 * Sum([i \in DOMAIN parts |-> parts[i].weight * parts[i].credit])) \div weight
    IN Round(Least(raw, Least(WashCap(buys), RepeatCap(buys))), 1000)
-----------------------------------------------------------------------------
(* opportunityScore.ts, with weights safety and ai 50, momentum and wallet *)
(* 25 each once an operator turns them on.                                 *)
Weight == [safety |-> 50, ai |-> 50, momentum |-> 25, wallet |-> 25]

\* calculateOpportunityScore, rounded down: no whole bar tells it apart.
Opportunity(scores) ==
    LET known == {k \in DOMAIN scores : scores[k] # Unknown}
    IN MapThenSumSet(LAMBDA k : Weight[k] * scores[k], known)
         \div MapThenSumSet(LAMBDA k : Weight[k], known)

\* decideShadowVerdict
Verdict(ai, score) ==
    IF ai >= 70 /\ score >= 70 THEN "BUY" ELSE IF ai >= 60 /\ score >= 60 THEN "WATCH" ELSE "SKIP"
-----------------------------------------------------------------------------
NoEval == [at |-> "none", wallet |-> "none", pair |-> "none", asked |-> 0, seen |-> -1,
           smart |-> Unknown, momentum |-> Unknown]
NoCall == [at |-> "none", of |-> None, waited |-> FALSE, ai |-> Unknown, got |-> None, lost |-> FALSE]
NoRow == [at |-> 0, verdict |-> "none", smart |-> Unknown, momentum |-> Unknown, ai |-> Unknown, score |-> 0]

\* Types of the client's maps, the evaluations, the calls and the rows.
TypeOK ==
    /\ now \in 0 .. MaxTime /\ cache \in -1 .. now /\ flight \in 0 .. Cardinality(Pass) + 1
    /\ \A p \in Pass : /\ eval[p].at \in {"none", "running", "settled"}
                       /\ eval[p].wallet \in {"none", "pending", "given", "failed", "late"}
                       /\ eval[p].pair \in {"none", "pending", "given", "empty"}
                       /\ eval[p].smart \in -1 .. 100 /\ eval[p].momentum \in -1 .. 100
                       /\ call[p].at \in {"none", "queued", "scoring", "awaiting", "logging", "done"}
                       /\ call[p].got \in Pass \cup {None} /\ row[p].score \in 0 .. 100
    /\ stash \in Pass \cup {None} /\ faults \in 0 .. scenario.faults

Init ==
    /\ scenario \in Scenarios
    /\ now = 0 /\ cache = -1 /\ flight = 0
    /\ eval = [p \in Pass |-> NoEval] /\ call = [p \in Pass |-> NoCall] /\ row = [p \in Pass |-> NoRow]
    /\ stash = None /\ faults = 0

Fault == faults < scenario.faults /\ faults' = faults + 1
Enabled == scenario.smart \/ scenario.momentum

\* runCached serves an entry younger than the TTL.
Fresh == cache >= 0 /\ now - cache < Ttl

\* The mint passes: the evaluation is started and stashed, the call queued.
Passes(p) ==
    /\ call[p].at = "none" /\ p <= scenario.passes /\ \A q \in Pass : call[q].at = "none" => p <= q
    /\ call' = [call EXCEPT ![p].at = "queued"]
    /\ IF Enabled
       THEN /\ eval' = [eval EXCEPT ![p].at = "running", ![p].asked = now,
                                    ![p].wallet = IF scenario.smart THEN "pending" ELSE "late",
                                    ![p].pair = IF ~ scenario.momentum THEN "empty"
                                                ELSE IF Fresh THEN "given" ELSE "pending",
                                    ![p].seen = IF scenario.momentum /\ Fresh THEN cache ELSE -1]
            /\ stash' = p
            /\ flight' = IF eval'[p].pair = "pending" /\ flight = 0 THEN 1 ELSE flight
       ELSE UNCHANGED <<eval, stash, flight>>
    /\ UNCHANGED <<scenario, now, cache, row, faults>>

\* evaluateForToken answers: with the buys, or after a failure with none, which
\* is an evaluation all the same.
WalletAnswers(p) ==
    /\ eval[p].wallet = "pending"
    /\ \/ eval' = [eval EXCEPT ![p].wallet = "given"] /\ UNCHANGED faults
       \/ eval' = [eval EXCEPT ![p].wallet = "failed"] /\ Fault
    /\ UNCHANGED <<scenario, now, cache, flight, stash, call, row>>

\* EVALUATION_TIMEOUT_MS on either call
CallTimesOut(p) ==
    /\ \/ eval[p].wallet = "pending" /\ eval' = [eval EXCEPT ![p].wallet = "late"]
       \/ eval[p].pair = "pending" /\ eval' = [eval EXCEPT ![p].pair = "empty"]
    /\ Fault
    /\ UNCHANGED <<scenario, now, cache, flight, stash, call, row>>

\* Another caller of the shared client asks for the mint.
OtherAsks ==
    /\ flight = 0 /\ ~ Fresh /\ Enabled
    /\ flight' = 1
    /\ UNCHANGED <<scenario, now, cache, eval, stash, call, row, faults>>

\* runCached: the one fetch in flight settles for everyone who waits for it; an
\* answer is cached, a timeout counts as no pair and a failure is thrown.
FetchSettles ==
    /\ flight = 1 /\ flight' = 0
    /\ \/ cache' = now /\ UNCHANGED faults
          /\ eval' = [p \in Pass |-> IF eval[p].pair = "pending"
                                     THEN [eval[p] EXCEPT !.pair = "given", !.seen = now] ELSE eval[p]]
       \/ Fault /\ UNCHANGED cache
          /\ eval' = [p \in Pass |-> IF eval[p].pair = "pending" THEN [eval[p] EXCEPT !.pair = "empty"] ELSE eval[p]]
    /\ UNCHANGED <<scenario, now, stash, call, row>>

Buys(p) == IF eval[p].wallet = "given" THEN scenario.buys ELSE <<>>
MomentumOf(p, buys) == Momentum(scenario.pair, eval[p].pair = "given", eval[p].wallet \in {"given", "failed"}, buys)

\* Both calls have settled: evaluateSmartMoneyAndMomentum's result.
Settle(p) ==
    /\ eval[p].at = "running" /\ "pending" \notin {eval[p].wallet, eval[p].pair}
    /\ eval' = [eval EXCEPT ![p].at = "settled", ![p].smart = SmartMoney(Buys(p)),
                            ![p].momentum = IF scenario.momentum THEN MomentumOf(p, Buys(p)) ELSE Unknown]
    /\ UNCHANGED <<scenario, now, cache, flight, stash, call, row, faults>>
-----------------------------------------------------------------------------
\* processAiCall: the promise is taken whatever becomes of the call.
Take(p) ==
    /\ call[p].at = "queued"
    /\ call' = [call EXCEPT ![p].at = "scoring", ![p].of = stash, ![p].lost = (stash # p)]
    /\ stash' = None
    /\ UNCHANGED <<scenario, now, cache, flight, eval, row, faults>>

\* SMART_MONEY_MOMENTUM_WAIT_MS, counted from the take
WaitElapses(p) ==
    /\ call[p].at \in {"scoring", "awaiting"} /\ call[p].of # None /\ ~ call[p].waited
    /\ eval[call[p].of].at # "settled"
    /\ call' = [call EXCEPT ![p].waited = TRUE]
    /\ UNCHANGED <<scenario, now, cache, flight, eval, stash, row, faults>>

\* scoreToken: a score, or none for want of a provider; a Telegram candidate
\* below its own bar goes no further.
AiScores(p, ai) ==
    /\ call[p].at = "scoring"
    /\ call' = [call EXCEPT ![p].ai = ai,
                            ![p].at = IF Least(scenario.safety, IF ai = Unknown THEN scenario.safety ELSE ai) < scenario.gate
                                      THEN "done" ELSE "awaiting"]
    /\ UNCHANGED <<scenario, now, cache, flight, eval, stash, row, faults>>

Combines(p, ready) ==
    /\ call[p].at = "awaiting" /\ ready
    /\ call' = [call EXCEPT ![p].at = "logging", ![p].got = IF call[p].waited THEN None ELSE call[p].of]
    /\ UNCHANGED <<scenario, now, cache, flight, eval, stash, row, faults>>

Settled(p) == IF call[p].of = None THEN TRUE ELSE eval[call[p].of].at = "settled"

\* recordOpportunityScoreAndNotify, once the race is decided
Combine(p) == Combines(p, (Settled(p) \/ call[p].waited) = TRUE)

Scores(p) ==
    [safety |-> scenario.safety, ai |-> call[p].ai,
     momentum |-> IF call[p].got = None THEN Unknown ELSE eval[call[p].got].momentum,
     wallet |-> IF call[p].got = None THEN Unknown ELSE eval[call[p].got].smart]

\* recordShadowDecision: one row, or none when the insert fails.
LogShadow(p) ==
    /\ call[p].at = "logging" /\ call' = [call EXCEPT ![p].at = "done"]
    /\ LET s == Scores(p)
       IN \/ UNCHANGED faults
             /\ row' = [row EXCEPT ![p] = [at |-> 1, verdict |-> Verdict(s.ai, Opportunity(s)), smart |-> s.wallet,
                                           momentum |-> s.momentum, ai |-> s.ai, score |-> Opportunity(s)]]
          \/ Fault /\ UNCHANGED row
    /\ UNCHANGED <<scenario, now, cache, flight, eval, stash>>

\* Only the pair's cache reads the clock.
Ticks == /\ now < MaxTime /\ scenario.momentum /\ now' = now + 1
         /\ UNCHANGED <<scenario, cache, flight, eval, stash, call, row, faults>>

EvalStep(p) == WalletAnswers(p) \/ CallTimesOut(p) \/ Settle(p)
CallStep(p) == Take(p) \/ WaitElapses(p) \/ (\E ai \in {Unknown, 40, 90} : AiScores(p, ai)) \/ Combine(p) \/ LogShadow(p)

Next ==
    \/ \E p \in Pass : Passes(p)
    \/ OtherAsks \/ FetchSettles \/ Ticks
    \/ \E p \in Pass : EvalStep(p)
    \/ \E p \in Pass : CallStep(p)

Spec == Init /\ [][Next]_vars

\* The queue's workers and its timers go on; nothing is assumed of the wallet
\* evaluation or of the fetch.
Fairness == WF_vars(\E p \in Pass : CallStep(p))
-----------------------------------------------------------------------------
\* A cluster buy is two confident buyers with different keys within the window;
\* no number of one funder's labelled wallets is.
ClusterIsIndependent ==
    \A p \in Pass : eval[p].at = "settled" /\ eval[p].wallet = "given" =>
        (Independent(scenario.buys) >= 2 <=>
            \E i, j \in Qualifying(scenario.buys) :
                /\ Key(scenario.buys[i]) # Key(scenario.buys[j])
                /\ scenario.buys[j].t - scenario.buys[i].t \in 0 .. Window)

\* One more buy by a wallet already seen never raises the momentum score.
RepeatNeverHelps ==
    \A p \in Pass : eval[p].at = "settled" /\ scenario.momentum /\ eval[p].wallet = "given" =>
        \A i \in DOMAIN scenario.buys :
            MomentumOf(p, Append(scenario.buys, scenario.buys[i])) <= eval[p].momentum

\* What is unknown neither lifts nor lowers: the logged score lies between the
\* lowest and the highest of the scores that were known.
UnknownIsNotZero ==
    \A p \in Pass : row[p].at = 1 =>
        LET known == {s \in {scenario.safety, row[p].ai, row[p].smart, row[p].momentum} : s # Unknown}
        IN (\E s \in known : s <= row[p].score) /\ (\E s \in known : s >= row[p].score)

\* A wallet score goes missing from a row only for a cause: the engine is off,
\* a failure or timeout, a wait that elapsed, or another pass of the mint.
MissingNeedsCause ==
    \A p \in Pass : row[p].at = 1 /\ row[p].smart = Unknown =>
        \/ ~ scenario.smart \/ scenario.buys = <<>> \/ faults > 0 \/ call[p].waited \/ call[p].lost

\* An evaluation left in the map has a call in the queue that will take it.
StashIsDrained == stash # None => \E p \in Pass : call[p].at = "queued"

\* A pair used by an evaluation was answered at most the client's TTL before the
\* evaluation asked.
PairIsRecent == \A p \in Pass : eval[p].seen >= 0 => eval[p].asked - eval[p].seen < Ttl \/ eval[p].seen >= eval[p].asked

\* The signals say what they were computed from, and where they are missing.
SignalsAreSound ==
    /\ TypeOK /\ ClusterIsIndependent /\ RepeatNeverHelps /\ UnknownIsNotZero
    /\ MissingNeedsCause /\ StashIsDrained /\ PairIsRecent

\* Every call that is queued ends, however long the evaluation hangs.
CallsEnded == \A p \in Pass : call[p].at \in {"none", "done"}
=============================================================================
