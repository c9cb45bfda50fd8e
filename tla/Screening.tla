------------------------------ MODULE Screening ------------------------------
(***************************************************************************)
(* What stands between a detected token and a buy: the reads of the risk   *)
(* analyzer (mint, holders, pair, liquidity) with their failures, its      *)
(* result cache, the critical security gate with the pump.fun grace, the   *)
(* sellability probe, the retry of rejections for missing data, the votes  *)
(* of the two models and the size the risk tier allows.  The token changes *)
(* meanwhile.  One mint, candidates of it one after the other.             *)
(***************************************************************************)
EXTENDS Naturals, Sequences, FiniteSets, FiniteSetsExt, Functions

CONSTANTS
    Scenarios,          \* the tokens a behaviour may be about, with how often it is reported,
                        \* how many reads and calls may fail and how often it may change
    Candidates,         \* the sources that may report it
    Voters,             \* of "openrouter", "ollama": the providers configured
    MaxAttempts,        \* CANDIDATE_RETRY_MAX_ATTEMPTS
    MinConfidence,      \* CONSENSUS_MIN_WEIGHTED_CONFIDENCE
    Config,             \* a SnipeConfig: minLiquidity, minScore, filter
    Grace,              \* PUMPFUN_GRACE_PERIOD_MS, in ticks
    Depth,              \* the liquidity at which a quote of half a SOL moves the price by 1 %
    TTL,                \* RISK_RESULT_TTL_MS in clock ticks of one retry interval
    Answers,            \* what a model may answer: <<score, whether it says BUY>>
    MaxClock            \* bound of the clock

None == "none"
Supply == 1000
Venues == {"PUMPFUN", "PUMPSWAP"}
Tokens == [mint : BOOLEAN, freeze : BOOLEAN, black : BOOLEAN, pump : BOOLEAN, listed : BOOLEAN,
           curve : BOOLEAN, holders : Seq(1..Supply), later : Seq(1..Supply), vault : 1..Supply,
           liquidity : Nat, quoted : BOOLEAN, home : Venues \cup {None},
           route : {None, "good", "costly"}, born : Nat]

ASSUME ScreeningAssumption ==
    /\ Voters \subseteq {"openrouter", "ollama"}
    /\ {MaxAttempts, MinConfidence, Grace, Depth} \subseteq Nat /\ TTL \in Nat \ {0}
    /\ \A s \in Scenarios : s.token \in Tokens /\ {s.rounds, s.faults, s.changes} \subseteq Nat
    /\ \A c \in Candidates : c.venue \in Venues /\ c.timed \in BOOLEAN

VARIABLES
    token,      \* the token as the chain and the indexers have it
    clock,
    cache,      \* RiskAnalyzer.resultCache, per venue
    at,         \* where the evaluation is
    cand,       \* the candidate under evaluation, with its attempt
    flags,      \* the RiskFlags of this evaluation
    probe,      \* the forward quote, asked beside the analysis, and reverse attempts
    votes,      \* per voter: calls made and the answer
    outcome,    \* of the last evaluation: the reasons, the size bought
    stats,      \* securityGateStats, and the rejections that were final
    rounds, faults, changes     \* how many reports, failures and changes may still come

svars == <<token, clock, cache, at, cand, flags, probe, votes, outcome, stats, rounds, faults, changes>>

Reads == {"mint", "holders", "pair", "pool", "curve", "quote", "blacklist", "forward"}

(***************************************************************************)
(* The heuristics.  A balance is in thousandths of the supply.             *)
(***************************************************************************)
Total(h, S) == FoldFunctionOnSet(+, 0, h, S)

Top10(h) == (Total(h, {i \in DOMAIN h : i <= 10}) * 100) \div Supply

\* The window of holders within 3 % of the balance at i, which sorts first.
WindowAt(h, i) == {j \in i..Len(h) : ((h[i] - h[j]) * 10000) \div h[i] <= 300}

\* Mutant of HeaviestFirst: the window of the largest holder.
FirstWindow(h) == WindowAt(h, 1)

\* The window with the most supply, the first of equals: one whale is one.
HeaviestFirst(h) ==
    WindowAt(h, CHOOSE i \in DOMAIN h :
        \A j \in DOMAIN h : \/ Total(h, WindowAt(h, i)) > Total(h, WindowAt(h, j))
                            \/ Total(h, WindowAt(h, i)) = Total(h, WindowAt(h, j)) /\ i <= j)

Suspicious(h, w) == Cardinality(w) >= 4 /\ Total(h, w) * 100 >= 3 * Supply

Clustered(h) == h # <<>> /\ Suspicious(h, HeaviestFirst(h))

BundleIn(h) == \E i \in DOMAIN h : Suspicious(h, WindowAt(h, i))

SourceOrder == <<"dexscreener", "native_dex", "pumpfun_bonding_curve", "jupiter_estimate">>

PairKnown(failed) == token.listed /\ "pair" \notin failed

\* A pair may be listed without its liquidity.
FigureKnown(failed) == PairKnown(failed) /\ token.quoted
PoolKnown(failed) == cand.venue # "PUMPFUN" /\ "pool" \notin failed
CurveKnown(failed) == token.curve /\ "curve" \notin failed

\* A token that is refused anyway is not worth a quote, and an impact of 1 % or
\* less counts as none.
QuoteKnown(failed, doomed) ==
    ~doomed /\ token.route # None /\ "quote" \notin failed /\ token.liquidity < Depth

Known(source, failed, doomed) ==
    CASE source = "dexscreener"           -> FigureKnown(failed)
      [] source = "native_dex"            -> PoolKnown(failed)
      [] source = "pumpfun_bonding_curve" -> CurveKnown(failed)
      [] OTHER                            -> QuoteKnown(failed, doomed)

\* The impact of a quote is a fraction and is taken for a percentage: the
\* estimate is a hundred times the liquidity.
Shown(source) == IF source = "jupiter_estimate" THEN 100 * token.liquidity ELSE token.liquidity

ResolveLiquidity(failed, doomed) ==
    LET known == {i \in DOMAIN SourceOrder : Known(SourceOrder[i], failed, doomed)}
    IN  IF known = {} THEN [usd |-> 0, source |-> "unavailable"]
        ELSE [usd |-> Shown(SourceOrder[Min(known)]), source |-> SourceOrder[Min(known)]]

\* Known only when the indexer answered: an unknown age is no age.
AgeOf(f) == IF f.born = {} THEN 0 ELSE clock - Max(f.born)

Tier(f) ==
    LET base == IF AgeOf(f) < 1 THEN 1 ELSE IF AgeOf(f) < 3 THEN 2 ELSE 3
    IN  IF ~f.pump THEN base ELSE IF base = 3 THEN 2 ELSE 1

RuleScore(f) ==
    LET lost == (IF f.mint THEN 0 ELSE 35) + (IF f.freeze THEN 0 ELSE 15)
                + (IF f.liquidity > 0 THEN 0 ELSE 20)
                + (IF f.top10 > 50 THEN 20 ELSE IF f.top10 > 30 THEN 10 ELSE 0)
                + (IF f.liquidity < 1000 THEN 15 ELSE 0) + (IF f.honeypot THEN 20 ELSE 0)
    IN  IF lost > 100 THEN 0 ELSE 100 - lost

\* The Smart Entry Filter of a config that opted in.
EntryAllowed(f) ==
    Config.filter => /\ f.source # "unavailable"
                     /\ f.source = "jupiter_estimate" => f.liquidity >= 2000
                     /\ f.mint /\ f.freeze /\ f.liquidity > 0 /\ ~f.honeypot
                     /\ f.top10 <= Config.maxTop10 /\ f.count >= Config.minHolders

(***************************************************************************)
(* The gate.  Missing data blocks like bad data, under a reason of its own *)
(* that the pipeline retries; one confirmed reason makes it final.         *)
(***************************************************************************)
GraceActive == cand.venue = "PUMPFUN" /\ cand.timed /\ clock - cand.detected < Grace

Retryable == {"mint_unknown", "honeypot_unknown", "holder_data_unknown", "check_failed",
              "dexscreener_validation_failed", "sellability_check_failed"}

MintReasons(f) ==
    IF f.mint /\ f.freeze THEN {}
    ELSE IF "mint" \in f.failed THEN {"mint_unknown"} ELSE {"authority_not_revoked"}

HoneypotReasons(f) ==
    IF ~f.honeypot THEN {}
    ELSE IF f.liquidity >= 500 /\ f.failed \cap {"mint", "holders"} # {} THEN {"honeypot_unknown"}
         ELSE {"honeypot_suspected"}

HolderReasons(f) ==
    LET dense == f.top10 >= 90
        few   == ~GraceActive /\ f.count < 5
    IN  IF ~dense /\ ~few THEN {}
        ELSE IF f.failed \cap {"mint", "holders"} # {} THEN {"holder_data_unknown"}
             ELSE {"holders_critical"}

SourceReasons(f) ==
    IF f.source \in (IF GraceActive THEN {"dexscreener", "native_dex", "pumpfun_bonding_curve", "jupiter_estimate"}
                                    ELSE {"dexscreener", "native_dex"})
    THEN {} ELSE {"dexscreener_validation_failed"}

GateReasons(f) ==
    MintReasons(f) \cup HoneypotReasons(f) \cup HolderReasons(f) \cup SourceReasons(f)
    \cup (IF f.liquidity > 0 THEN {} ELSE {"lp_not_locked_or_burned"})
    \cup (IF f.clustered THEN {"bundled_wallet_cluster_detected"} ELSE {})

\* Mutant of BlacklistReasons: a failed lookup is a clear one.
BlacklistOpen == IF probe.lookup = "listed" THEN {"blacklisted"} ELSE {}

BlacklistReasons ==
    IF probe.lookup = "failed" THEN {"check_failed"}
    ELSE IF probe.lookup = "listed" THEN {"blacklisted"} ELSE {}

(***************************************************************************)
(* An evaluation                                                           *)
(***************************************************************************)
NoFlags == [mint |-> FALSE, freeze |-> FALSE, top10 |-> 100, count |-> 0, holders |-> <<>>,
            clustered |-> FALSE, liquidity |-> 0, source |-> "unavailable", honeypot |-> TRUE,
            pump |-> FALSE, born |-> {}, failed |-> {}, readAt |-> 0, change |-> 0]
NoProbe == [lookup |-> "clear", forward |-> None, reverse |-> 0]
NoOutcome == [is |-> None, reasons |-> {}, size |-> 0]
NoStats == [scanned |-> 0, passed |-> 0, blocked |-> 0, retries |-> 0, pending |-> 0, wins |-> 0, final |-> 0]
Silent == [v \in Voters |-> [calls |-> 0, is |-> None, score |-> 0, buy |-> FALSE]]
NoCand == [venue |-> None, timed |-> FALSE, detected |-> 0, attempt |-> 0, due |-> 0]

ScreeningInit ==
    /\ \E s \in Scenarios :
           token = s.token /\ faults = s.faults /\ changes = s.changes /\ rounds = s.rounds
    /\ clock = 3
    /\ cache = [v \in Venues |-> NoFlags]
    /\ at = "idle"
    /\ cand = NoCand /\ flags = NoFlags /\ probe = NoProbe /\ votes = Silent /\ outcome = NoOutcome /\ stats = NoStats

Finish(is, reasons, size) ==
    /\ outcome' = [is |-> is, reasons |-> reasons, size |-> size]
    /\ at' = "idle"

\* A rejection: another attempt later when nothing is confirmed bad, for a
\* candidate of the on-chain sources.
Reject(reasons) ==
    IF reasons \subseteq Retryable /\ cand.attempt < MaxAttempts /\ cand.timed
    THEN /\ at' = "waiting"
         /\ cand' = [cand EXCEPT !.attempt = @ + 1, !.due = clock + 1]
         /\ stats' = [stats EXCEPT !.blocked = @ + 1, !.retries = @ + 1, !.pending = @ + 1]
         /\ UNCHANGED outcome
    ELSE /\ Finish("rejected", reasons, 0)
         /\ stats' = [stats EXCEPT !.blocked = @ + 1, !.final = @ + 1]
         /\ UNCHANGED cand

Report(c) ==
    /\ at = "idle" /\ rounds > 0
    /\ rounds' = rounds - 1
    /\ cand' = [venue |-> c.venue, timed |-> c.timed, detected |-> clock, attempt |-> 0, due |-> 0]
    /\ at' = IF c.timed THEN "start" ELSE "precheck"
    /\ outcome' = NoOutcome /\ flags' = NoFlags /\ probe' = NoProbe /\ votes' = Silent
    /\ UNCHANGED <<stats, token, clock, cache, faults, changes>>

\* A mention in a channel passes a liquidity check before it costs anything; the
\* check says where the token trades.  A pair on a venue nobody knows is refused,
\* one that could not be read leaves the bonding curve.
Precheck ==
    /\ at = "precheck"
    /\ \E F \in SUBSET {"pair", "curve"} :
           LET venue == IF FigureKnown(F) THEN token.home
                        ELSE IF CurveKnown(F) THEN "PUMPFUN" ELSE None
           IN  /\ Cardinality(F) <= faults
               /\ faults' = faults - Cardinality(F)
               /\ IF venue # None /\ token.liquidity > 0
                  THEN at' = "start" /\ cand' = [cand EXCEPT !.venue = venue] /\ UNCHANGED outcome
                  ELSE Finish("ignored", {}, 0) /\ UNCHANGED cand
    /\ UNCHANGED <<stats, token, clock, cache, flags, probe, votes, rounds, changes>>

Fresh(f) == f.readAt > 0 /\ f.readAt + TTL > clock

\* The lookups and the forward quote run beside the analysis.
Begin(F) ==
    /\ probe' = [lookup  |-> IF "blacklist" \in F THEN "failed" ELSE IF token.black THEN "listed" ELSE "clear",
                 forward |-> IF "forward" \in F THEN "failed" ELSE IF token.route = None THEN None ELSE "ok",
                 reverse |-> 0]
    /\ votes' = Silent
    /\ stats' = IF cand.attempt > 0 THEN [stats EXCEPT !.pending = @ - 1]
                ELSE IF cand.timed THEN [stats EXCEPT !.scanned = @ + 1] ELSE stats

Pass == stats' = [stats EXCEPT !.passed = @ + 1, !.wins = @ + IF cand.attempt > 0 THEN 1 ELSE 0]

\* What the mint account says, or the assumption of the worst.
MintInfo(F) == IF "mint" \in F THEN [mint |-> FALSE, freeze |-> FALSE]
               ELSE [mint |-> token.mint, freeze |-> token.freeze]

\* analyze answers from its cache whatever it had stored, failed reads included.
StartCached(F) ==
    /\ at = "start" /\ Fresh(cache[cand.venue]) /\ F \subseteq {"blacklist", "forward"}
    /\ flags' = cache[cand.venue]
    /\ Begin(F)
    /\ faults' = faults - Cardinality(F)
    /\ at' = "gate"
    /\ UNCHANGED <<token, clock, cache, cand, outcome, rounds, changes>>

Start(F) ==
    /\ at = "start" /\ ~Fresh(cache[cand.venue])
    /\ Begin(F)
    /\ faults' = faults - Cardinality(F)
    /\ flags' = [NoFlags EXCEPT !.failed = F, !.change = changes,
                     !.mint = MintInfo(F).mint, !.freeze = MintInfo(F).freeze]
    /\ at' = "holders"
    /\ UNCHANGED <<token, clock, cache, cand, outcome, rounds, changes>>

\* With no supply to compare with, the holders are not read at all.
Concentration(f, seen) ==
    IF f.failed \cap {"mint", "holders"} # {} THEN [f EXCEPT !.top10 = 100]
    ELSE [f EXCEPT !.top10 = Top10(seen), !.count = Len(seen), !.holders = seen,
                   !.clustered = Clustered(seen)]

\* getVaultAddresses failed and was answered with no address.
VaultUnread == cand.venue # "PUMPFUN" /\ "pool" \in flags.failed

\* The pool's vault counts as a holder when its address could not be read.
HoldersSeen == IF VaultUnread THEN <<token.vault>> \o token.holders ELSE token.holders

ReadHolders ==
    /\ at = "holders"
    /\ LET pair == PairKnown(flags.failed)
       IN  flags' = [Concentration(flags, HoldersSeen) EXCEPT !.pump = pair /\ token.pump,
                         !.born = IF pair THEN {token.born} ELSE {}]
    /\ at' = "liquidity"
    /\ UNCHANGED <<stats, token, clock, cache, cand, probe, votes, outcome, rounds, faults, changes>>

ReadLiquidity ==
    /\ at = "liquidity"
    /\ LET found == ResolveLiquidity(flags.failed, ~flags.mint \/ flags.top10 > 70)
           all   == [flags EXCEPT !.liquidity = found.usd, !.source = found.source, !.readAt = clock,
                        !.honeypot = ~flags.mint \/ flags.top10 > 70 \/ found.usd < 500]
       IN  flags' = all /\ cache' = [cache EXCEPT ![cand.venue] = all]
    /\ at' = "gate"
    /\ UNCHANGED <<stats, token, clock, cand, probe, votes, outcome, rounds, faults, changes>>

Gate ==
    /\ at = "gate"
    /\ LET reasons == GateReasons(flags) \cup BlacklistReasons
       IN  IF reasons # {} THEN Reject(reasons)
           ELSE IF probe.forward = "failed" THEN Reject({"sellability_check_failed"})
           ELSE IF probe.forward = None THEN Reject({"no_sell_route"})
           ELSE at' = "sell" /\ UNCHANGED <<cand, outcome, stats>>
    /\ UNCHANGED <<token, clock, cache, flags, probe, votes, rounds, faults, changes>>

Sell ==
    /\ at = "sell"
    /\ CASE token.route = None     -> Reject({"no_sell_route"})
         [] token.route = "costly" -> Reject({"exit_price_impact_too_high"})
         [] OTHER                  -> at' = "ask" /\ Pass /\ UNCHANGED <<cand, outcome>>
    /\ UNCHANGED <<token, clock, cache, flags, probe, votes, rounds, faults, changes>>

\* Three transient failures of the reverse quote leave it unknown.
SellFails ==
    /\ at = "sell" /\ faults > 0
    /\ faults' = faults - 1
    /\ probe' = [probe EXCEPT !.reverse = @ + 1]
    /\ IF probe.reverse + 1 = 3 THEN Reject({"sellability_check_failed"})
       ELSE UNCHANGED <<at, cand, outcome, stats>>
    /\ UNCHANGED <<token, clock, cache, flags, votes, rounds, changes>>

Critical(f) == ~f.mint \/ ~f.freeze \/ f.liquidity = 0 \/ f.honeypot

\* No answer may be a BUY over a critical flag, whatever the model said.
Answer(v, score, buy) ==
    /\ at = "ask" /\ votes[v].is = None
    /\ votes' = [votes EXCEPT ![v] =
                    [calls |-> @.calls + 1, is |-> "vote",
                     score |-> IF Critical(flags) THEN 0 ELSE score, buy |-> buy /\ ~Critical(flags)]]
    /\ UNCHANGED <<stats, token, clock, cache, at, cand, flags, probe, outcome, rounds, faults, changes>>

Patience(v) == IF v = "openrouter" THEN 2 ELSE 1

\* A failed call is repeated once for OpenRouter, if worth it; then it has no vote.
NoAnswer(v, transient) ==
    /\ at = "ask" /\ votes[v].is = None /\ faults > 0
    /\ faults' = faults - 1
    /\ votes' = [votes EXCEPT ![v].calls = @ + 1,
                               ![v].is = IF transient /\ votes[v].calls + 1 < Patience(v)
                                         THEN None ELSE "failed"]
    /\ UNCHANGED <<stats, token, clock, cache, at, cand, flags, probe, outcome, rounds, changes>>

Voting == {v \in Voters : votes[v].is = "vote"}
ScoreSum == MapThenSumSet(LAMBDA v : votes[v].score, Voting)
Buyers == {v \in Voting : votes[v].buy}
AiScore == Min({votes[v].score : v \in Voting})

Consensus ==
    /\ Voting # {}
    /\ Cardinality(Buyers) >= IF Cardinality(Voting) < 2 THEN Cardinality(Voting) ELSE 2
    /\ ScoreSum >= MinConfidence * Cardinality(Voting)

Wanted ==
    /\ flags.liquidity >= Config.minLiquidity
    /\ RuleScore(flags) >= Config.minScore /\ AiScore >= Config.minScore
    /\ EntryAllowed(flags)

\* Mutant of Decide: a model that failed is waited for.
DecideTogether ==
    /\ at = "ask" /\ \A v \in Voters : votes[v].is = "vote"
    /\ IF Consensus /\ Wanted
       THEN Finish("bought", {}, IF Tier(flags) = 3 THEN 4 ELSE Tier(flags))
       ELSE Finish("skipped", {}, 0)
    /\ UNCHANGED <<stats, token, clock, cache, cand, flags, probe, votes, rounds, faults, changes>>

\* The size is that of the tier, in quarters: 1, 2 or all 4 of the configured amount.
Decide ==
    /\ at = "ask" /\ \A v \in Voters : votes[v].is # None
    /\ IF Consensus /\ Wanted
       THEN Finish("bought", {}, IF Tier(flags) = 3 THEN 4 ELSE Tier(flags))
       ELSE Finish("skipped", {}, 0)
    /\ UNCHANGED <<stats, token, clock, cache, cand, flags, probe, votes, rounds, faults, changes>>

Wake ==
    /\ at = "waiting" /\ clock >= cand.due
    /\ at' = "start"
    /\ UNCHANGED <<stats, token, clock, cache, cand, flags, probe, votes, outcome, rounds, faults, changes>>

(***************************************************************************)
(* The token                                                               *)
(***************************************************************************)
Becomes(t) ==
    /\ changes > 0 /\ t # token
    /\ token' = t /\ changes' = changes - 1
    /\ UNCHANGED <<stats, clock, cache, at, cand, flags, probe, votes, outcome, rounds, faults>>

Drain == Becomes([token EXCEPT !.liquidity = 0, !.route = None])
List == ~token.listed /\ Becomes([token EXCEPT !.listed = TRUE, !.born = clock])
Spread == Becomes([token EXCEPT !.holders = token.later])

\* The reads take no time the pipeline counts in; waiting and asking do.
Tick ==
    /\ \/ at = "ask" /\ clock < MaxClock
       \/ at = "idle" /\ rounds > 0 /\ clock < MaxClock   \* with no more reports time does not matter
       \/ at = "waiting" /\ clock < cand.due + 1
    /\ clock' = clock + 1
    /\ UNCHANGED <<stats, token, cache, at, cand, flags, probe, votes, outcome, rounds, faults, changes>>

Failures == {F \in SUBSET Reads : Cardinality(F) <= faults}

Evaluate ==
    \/ at = "start" /\ \E F \in Failures : StartCached(F) \/ Start(F)
    \/ Precheck \/ ReadHolders \/ ReadLiquidity \/ Gate \/ Sell \/ SellFails \/ Decide \/ Wake
    \/ at = "ask" /\ \E v \in Voters :
                         \/ \E a \in Answers : Answer(v, a[1], a[2])
                         \/ \E transient \in BOOLEAN : NoAnswer(v, transient)

ScreeningNext == Evaluate \/ Drain \/ List \/ Spread \/ Tick \/ \E c \in Candidates : Report(c)

ScreeningSpec == ScreeningInit /\ [][ScreeningNext]_svars

\* Promises settle and timers fire.
ScreeningFairness == WF_svars(Evaluate) /\ WF_svars(Tick)

(***************************************************************************)
(* Properties                                                              *)
(***************************************************************************)
Bought == outcome.is = "bought"
Confirmed == outcome.reasons \ Retryable

\* The variables keep their types: flags are of one shape wherever they are kept.
ScreeningTypeOK ==
    /\ token \in Tokens
    /\ at \in {"idle", "precheck", "start", "holders", "liquidity", "gate", "sell", "ask", "waiting"}
    /\ {flags} \cup Range(cache) \subseteq
           [mint : BOOLEAN, freeze : BOOLEAN, top10 : 0..200, count : Nat, holders : Seq(1..Supply),
            clustered : BOOLEAN, liquidity : Nat, source : Range(SourceOrder) \cup {"unavailable"},
            honeypot : BOOLEAN, pump : BOOLEAN, born : SUBSET Nat, failed : SUBSET Reads,
            readAt : Nat, change : Nat]
    /\ cand.attempt <= MaxAttempts /\ probe.reverse <= 3
    /\ \A v \in Voters : votes[v].calls <= Patience(v)
    /\ \A k \in DOMAIN stats : stats[k] \in Nat

\* Nothing is bought over a read that failed: authorities, holders, the
\* blacklist and the way out were all answered, now or within the cache's life.
UnknownIsNeverBought ==
    Bought => /\ flags.failed \cap {"mint", "holders"} = {}
              /\ probe.lookup = "clear" /\ probe.forward = "ok" /\ probe.reverse < 3

\* A bought token is sound unless it changed after it was first read.  Its
\* liquidity is at least the 500 the gate asks for, except when a quote was the
\* only source: then the floor is a hundredth of it, because riskAnalyzer.ts:177
\* divides by 100 what sellabilityCheck.ts:120 says is a fraction already.
SoundUnlessChanged ==
    Bought /\ changes = flags.change =>
        /\ token.mint /\ token.freeze /\ ~token.black /\ token.route = "good"
        /\ token.liquidity >= IF flags.source = "jupiter_estimate" THEN 5 ELSE 500

\* Its ten largest holders have at most 70 % of it.
SpreadUnlessChanged == Bought /\ changes = flags.change => Top10(token.holders) <= 70

\* A bundle that passes hides behind fewer than four wallets of one balance
\* that hold at least as much.
BundleNeedsAWhale ==
    Bought /\ BundleIn(flags.holders) =>
        \E i \in DOMAIN flags.holders :
            LET w == WindowAt(flags.holders, i)
            IN  /\ Cardinality(w) < 4
                /\ \A j \in DOMAIN flags.holders :
                       Suspicious(flags.holders, WindowAt(flags.holders, j)) =>
                           Total(flags.holders, w) >= Total(flags.holders, WindowAt(flags.holders, j))

\* Every model that answered said BUY, and at least one did.
NoBuyAgainstTheModels == Bought => Voting # {} /\ Buyers = Voting

\* The whole amount is spent only on a token whose age and price were read and
\* were neither young nor pumped.
FullSizeNeedsAge ==
    Bought /\ outcome.size = 4 =>
        /\ "pair" \notin flags.failed
        /\ changes = flags.change => token.listed /\ ~token.pump /\ token.born + 3 <= clock

\* A token is called bad for good wrongly only when some read had failed or no
\* source knew its liquidity, which the analyzer takes for none.
AccusationsNeedAFailure ==
    outcome.is = "rejected" /\ Confirmed # {} /\ flags.failed = {} /\ changes = flags.change =>
        \/ ~token.mint \/ ~token.freeze \/ token.black \/ token.route # "good" \/ flags.source = "unavailable"
        \/ token.liquidity < 500 \/ Top10(token.holders) > 70 \/ Len(token.holders) < 5
        \/ BundleIn(token.holders)

\* No verdict rests on reads older than the cache keeps them.
StaleFlagsAreNotUsed == at = "sell" => flags.readAt + TTL > clock

\* The gate's counters add up: every candidate scanned on chain passed, was
\* rejected for good or is under way, and the gauge shows who waits.  `blocked`
\* counts the rejections that are retried too (candidatePipeline.ts:329-334),
\* although securityGateStats.ts:25 has it count the permanent ones only.
StatsAddUp ==
    /\ stats.pending = IF at = "waiting" \/ (at = "start" /\ cand.attempt > 0) THEN 1 ELSE 0
    /\ stats.blocked = stats.final + stats.retries
    /\ stats.scanned <= stats.passed + stats.final
                        + (IF at \in {"idle", "ask", "precheck"} THEN 0 ELSE 1)
    /\ stats.wins <= stats.retries

\* Only what was read, found sound and wanted by every model is bought.
BuysAreCleared ==
    /\ UnknownIsNeverBought /\ SoundUnlessChanged /\ NoBuyAgainstTheModels
    /\ StaleFlagsAreNotUsed /\ StatsAddUp

\* The heuristics judge what they see for what it is.
VerdictsAreSound ==
    /\ ScreeningTypeOK /\ SpreadUnlessChanged /\ BundleNeedsAWhale
    /\ FullSizeNeedsAge /\ AccusationsNeedAFailure

\* Every evaluation ends: retries, quote attempts and model calls are bounded.
EvaluationsEnded == at = "idle"
=============================================================================
