---------------------------- MODULE WalletTracking ----------------------------
(***************************************************************************)
(* The shadow-mode bookkeeping: trading/smartWalletTracker.ts, which       *)
(* records the buys of one token's wallets, finds their exits and keeps a  *)
(* score per wallet, networkTradeScanner.ts, which calls it, and           *)
(* shadowModePriceSampler.ts, whose ticks resolve the open entries and     *)
(* fill the sampled prices of a logged decision.  The sampler's timer has  *)
(* no busy flag: its ticks overlap.                                        *)
(***************************************************************************)
EXTENDS Integers, Sequences, FiniteSets

CONSTANTS Wallet, Sampler,
          Lookback,   \* RECENT_BUY_LOOKBACK_LIMIT, RECENT_SELL_LOOKBACK_LIMIT
          Offsets,    \* how many of PRICE_SAMPLE_OFFSETS
          TrackScenarios  \* bounds: [trades, timeouts, faults, scans, log]

TrackingAssumption ==
    /\ Lookback \in Nat \ {0} /\ Offsets \in Nat \ {0}
    /\ TrackScenarios \subseteq [trades : Nat, timeouts : Nat, faults : Nat, scans : Nat, log : BOOLEAN]
ASSUME TrackingAssumption

VARIABLES txs,        \* the token's transactions, oldest first
          holds,      \* [Wallet -> units it holds]
          pooled,     \* the pool still has liquidity
          entries,    \* SmartWalletTokenEntry by the signature of the buy
          aged,       \* entries past WALLET_ENTRY_EVALUATION_WINDOW_MS
          unread, read,  \* [Wallet -> recomputes not begun; counts read, not written]
          score,      \* [Wallet -> sampleSize]
          claimed,    \* the scan key of the token in redis
          ticks,      \* [Sampler -> where the sampler's tick is]
          log, logTicks, passed,  \* the logged decision, its samplers, offsets passed
          budget, overlapped, raced,
          causes      \* what may make a token look dead: "died", "timeout"

trackVars == <<txs, holds, pooled, entries, aged, unread, read, score, claimed, ticks,
               log, logTicks, passed, budget, overlapped, raced, causes>>

NoSig == 0
MaxTrades == 4
Sig == 1 .. MaxTrades

Absent == [status |-> "none", exit |-> NoSig, rug |-> FALSE]
Open == [status |-> "OPEN", exit |-> NoSig, rug |-> FALSE]
IdleSampler == [at |-> "idle", todo |-> {}, row |-> NoSig, expired |-> {}, sell |-> NoSig, rug |-> FALSE]
IdleLog == [at |-> "idle", due |-> {}, rug |-> FALSE, priced |-> FALSE]
Unsampled == [at |-> [o \in 1 .. Offsets |-> NoSig], done |-> FALSE, rug |-> FALSE]

OnChain(sig) == sig \in DOMAIN txs
Resolved(row) == row.status \notin {"none", "OPEN"}
\* The rows the sampler reads
OpenRows == {sig \in Sig : entries[sig].status = "OPEN"}

OfWallet(w) == {sig \in Sig : OnChain(sig) /\ txs[sig].who = w /\ Resolved(entries[sig])}

\* Types of the rows, the samplers and the counters.
TrackTypes ==
    /\ \A i \in DOMAIN txs : txs[i] \in [who : Wallet, side : {"buy", "exit", "part"}, sol : BOOLEAN]
    /\ holds \in [Wallet -> 0 .. MaxTrades] /\ pooled \in BOOLEAN /\ aged \subseteq Sig
    /\ entries \in [Sig -> [status : {"none", "OPEN", "EXITED", "EXPIRED", "RUG_FLAGGED"},
                            exit : Sig \cup {NoSig}, rug : BOOLEAN]]
    /\ unread \in [Wallet -> 0 .. 2] /\ read \in [Wallet -> SUBSET (0 .. MaxTrades)]
    /\ score \in [Wallet -> 0 .. MaxTrades] /\ claimed \in BOOLEAN
    /\ ticks \in [Sampler -> [at : {"idle", "row", "exit", "pair", "mark"}, todo : SUBSET Sig,
                           row : Sig \cup {NoSig}, expired : SUBSET Sig, sell : Sig \cup {NoSig}, rug : BOOLEAN]]
    /\ log.at \in [1 .. Offsets -> 0 .. Offsets] /\ passed \in 0 .. Offsets
    /\ overlapped \in BOOLEAN /\ raced \in BOOLEAN /\ causes \subseteq {"died", "timeout"}

TrackInit ==
    /\ txs = <<>> /\ holds = [w \in Wallet |-> 0] /\ pooled = TRUE
    /\ entries = [s \in Sig |-> Absent] /\ aged = {}
    /\ unread = [w \in Wallet |-> 0] /\ read = [w \in Wallet |-> {}]
    /\ score = [w \in Wallet |-> 0] /\ claimed = FALSE
    /\ ticks = [t \in Sampler |-> IdleSampler]
    /\ log = Unsampled /\ logTicks = [t \in Sampler |-> IdleLog] /\ passed = 0
    /\ budget \in TrackScenarios
    /\ overlapped = FALSE /\ raced = FALSE /\ causes = {}

Uses(what) == budget[what] > 0 /\ budget' = [budget EXCEPT ![what] = @ - 1]

Chain == <<txs, holds, pooled>>
Log == <<log, logTicks, passed>>
Scores == <<unread, read, score>>
Sampling == <<ticks, overlapped>>

-----------------------------------------------------------------------------
(* The token on the chain: trades, of which the death of the pool is one. *)

Trade(w, side, sol) ==
    /\ Len(txs) < MaxTrades /\ Uses("trades")
    /\ txs' = Append(txs, [who |-> w, side |-> side, sol |-> sol])
    /\ UNCHANGED <<pooled, entries, aged, Scores, claimed, Sampling, Log, raced, causes>>

Buy(w) == Trade(w, "buy", TRUE) /\ holds' = [holds EXCEPT ![w] = @ + 1]

\* A sale of all it holds, paid in SOL or (another currency, another account)
\* not; or of a part.
SellAll(w) ==
    /\ holds[w] > 0 /\ holds' = [holds EXCEPT ![w] = 0]
    /\ \E sol \in BOOLEAN : Trade(w, "exit", sol)
SellPart(w) == holds[w] > 1 /\ holds' = [holds EXCEPT ![w] = @ - 1] /\ Trade(w, "part", TRUE)

Rugged ==
    /\ pooled /\ Uses("trades") /\ pooled' = FALSE /\ causes' = causes \cup {"died"}
    /\ UNCHANGED <<txs, holds, entries, aged, Scores, claimed, Sampling, Log, raced>>

Ages(sig) ==
    /\ entries[sig].status # "none" /\ sig \notin aged /\ aged' = aged \cup {sig}
    /\ \A s \in OpenRows : s < sig => s \in aged
    /\ UNCHANGED <<Chain, causes, entries, Scores, claimed, Sampling, Log, budget, raced>>

-----------------------------------------------------------------------------
(* SmartWalletTrackerService. *)

\* getSignaturesForAddress: the newest few
Recent == {i \in DOMAIN txs : i > Len(txs) - Lookback}

\* extractBuyerFromTransaction, extractSellFromTransaction, computeExitPnl
Buys == {i \in Recent : txs[i].side = "buy"}
Exits(sig) == {i \in Recent : /\ i > sig /\ txs[i].who = txs[sig].who
                              /\ txs[i].side = "exit"}

\* The fire-and-forget recomputes of the wallets
Recompute(ws) ==
    /\ \A w \in ws : unread[w] < 2
    /\ unread' = [w \in Wallet |-> IF w \in ws THEN unread[w] + 1 ELSE unread[w]]
    /\ raced' = (raced \/ \E w \in ws : unread[w] > 0 \/ read[w] # {})

\* evaluateForToken: an entry per recent buy that has none
EvaluateForToken ==
    /\ Buys # {}
    /\ \/ UNCHANGED budget /\ entries' = [s \in Sig |-> IF s \in Buys /\ entries[s] = Absent THEN Open
                                                       ELSE entries[s]]
       \/ \E lost \in Buys :   \* recordTokenEntry's swallowed failure
          /\ Uses("faults")
          /\ entries' = [s \in Sig |-> IF s \in Buys \ {lost} /\ entries[s] = Absent THEN Open
                                       ELSE entries[s]]
    /\ Recompute({txs[i].who : i \in Buys})

\* networkTradeScanner's tick, which claims the token first
Scan ==
    /\ ~claimed /\ claimed' = TRUE /\ EvaluateForToken
    /\ UNCHANGED <<Chain, causes, aged, read, score, Sampling, Log>>

ClaimExpires ==
    /\ claimed /\ Uses("scans") /\ claimed' = FALSE
    /\ UNCHANGED <<Chain, causes, entries, aged, Scores, Sampling, Log, raced>>

\* recomputeWalletConfidence: reads the entries, and writes later
ReadEntries(w) ==
    /\ unread[w] > 0
    /\ unread' = [unread EXCEPT ![w] = @ - 1]
    /\ read' = [read EXCEPT ![w] = @ \cup {Cardinality(OfWallet(w))}]
    /\ UNCHANGED <<Chain, causes, entries, aged, score, claimed, Sampling, Log, budget, raced>>

WriteScore(w) ==
    /\ \E n \in read[w] :
       /\ read' = [read EXCEPT ![w] = @ \ {n}] /\ score' = [score EXCEPT ![w] = n]
    /\ UNCHANGED <<Chain, causes, entries, aged, unread, claimed, Sampling, Log, budget, raced>>

-----------------------------------------------------------------------------
(* ShadowModePriceSampler.sampleWalletEntries. *)

Set(t, tick) == ticks' = [ticks EXCEPT ![t] = tick]
World == <<Chain, aged, claimed, Log>>
Frame == <<World, causes>>

\* The next row of the tick, or its end
NextRow(t) == LET rest == ticks[t].todo \ {ticks[t].row} IN
              IF rest = {} THEN IdleSampler
              ELSE [ticks[t] EXCEPT !.at = "row", !.todo = rest, !.sell = NoSig, !.rug = FALSE,
                                    !.row = CHOOSE s \in rest : \A o \in rest : s <= o]

SampleBegins(t) ==
    /\ ticks[t].at = "idle" /\ OpenRows # {}
    /\ Set(t, [IdleSampler EXCEPT !.at = "row", !.todo = OpenRows, !.expired = aged \cap OpenRows,
                               !.row = CHOOSE s \in OpenRows : \A o \in OpenRows : s <= o])
    /\ overlapped' = (overlapped \/ \E u \in Sampler \ {t} : ticks[u].at # "idle")
    /\ UNCHANGED <<Frame, entries, Scores, budget, raced>>

\* Mutant of Look: an exit counts without its SOL amount.
LookAnyExit(t) ==
    /\ ticks[t].at = "row"
    /\ IF Exits(ticks[t].row) # {}
       THEN Set(t, [ticks[t] EXCEPT !.at = "exit", !.sell = CHOOSE i \in Exits(ticks[t].row) : TRUE])
       ELSE Set(t, [ticks[t] EXCEPT !.at = "pair"])
    /\ UNCHANGED <<Frame, entries, Scores, overlapped, budget, raced>>

\* checkAndRecordExit: the newest exit counts, if its SOL amount is known; a
\* failed read finds none.
LookForExit(t) ==
    /\ ticks[t].at = "row"
    /\ LET found == Exits(ticks[t].row)
           newest == CHOOSE i \in found : \A j \in found : j <= i
           counts == IF found = {} THEN FALSE ELSE txs[newest].sol
       IN  \/ /\ Set(t, [ticks[t] EXCEPT !.at = IF counts THEN "exit" ELSE "pair",
                                         !.sell = IF counts THEN newest ELSE NoSig])
              /\ UNCHANGED budget
           \/ found # {} /\ Uses("faults") /\ Set(t, [ticks[t] EXCEPT !.at = "pair"])
    /\ UNCHANGED <<Frame, entries, Scores, overlapped, raced>>

\* checkAndRecordExit's write, after the SOL price
RecordExit(t) ==
    /\ ticks[t].at = "exit"
    /\ entries' = [entries EXCEPT ![ticks[t].row] = [@ EXCEPT !.status = "EXITED", !.exit = ticks[t].sell]]
    /\ Recompute({txs[ticks[t].row].who})
    /\ Set(t, NextRow(t))
    /\ UNCHANGED <<Frame, read, score, overlapped, budget>>

\* getBestSolanaPair: a timeout reads as no pair at all, and no pair as a
\* rug; an error skips the row.
Pair(t) ==
    /\ ticks[t].at = "pair"
    /\ \/ /\ Set(t, [ticks[t] EXCEPT !.at = "mark", !.rug = ~pooled]) /\ UNCHANGED <<budget, causes>>
       \/ /\ Uses("timeouts") /\ causes' = causes \cup {"timeout"}
          /\ Set(t, [ticks[t] EXCEPT !.at = "mark", !.rug = TRUE])
       \/ Uses("faults") /\ Set(t, NextRow(t)) /\ UNCHANGED causes
    /\ UNCHANGED <<World, entries, Scores, overlapped, raced>>

\* The status a mark gives
Marked(t) == IF ticks[t].rug THEN "RUG_FLAGGED"
             ELSE IF ticks[t].row \in ticks[t].expired THEN "EXPIRED" ELSE "OPEN"

\* The fallback's write: whatever the row has become since
Mark(t) ==
    /\ ticks[t].at = "mark"
    /\ LET row == ticks[t].row
       IN  entries' = [entries EXCEPT ![row].status = Marked(t), ![row].rug = @ \/ ticks[t].rug]
    /\ Set(t, NextRow(t))
    /\ UNCHANGED <<Frame, Scores, overlapped, budget, raced>>

-----------------------------------------------------------------------------
(* ShadowModePriceSampler.sampleShadowLogs, for one logged decision. *)

Rest == <<Chain, entries, aged, Scores, claimed, ticks, raced, causes>>

Passes ==
    /\ budget.log /\ passed < Offsets /\ passed' = passed + 1
    /\ UNCHANGED <<Rest, overlapped, log, logTicks, budget>>

\* computeDueOffsets
Due == {o \in 1 .. Offsets : o <= passed /\ log.at[o] = NoSig}

LogBegin(t) ==
    /\ logTicks[t].at = "idle" /\ ~log.done /\ Due # {}
    /\ \/ /\ logTicks' = [logTicks EXCEPT ![t] = [at |-> "write", due |-> Due, rug |-> FALSE, priced |-> TRUE]]
          /\ UNCHANGED budget
       \/ /\ Uses("timeouts")
          /\ logTicks' = [logTicks EXCEPT ![t] = [at |-> "write", due |-> Due, rug |-> TRUE, priced |-> FALSE]]
    /\ overlapped' = (overlapped \/ \E u \in Sampler \ {t} : logTicks[u].at # "idle")
    /\ UNCHANGED <<Rest, log, passed>>

\* One update with every due offset, without a price when there is none; the
\* last offset ends the row either way.
LogWrite(t) ==
    /\ logTicks[t].at = "write"
    /\ log' = [at |-> [o \in 1 .. Offsets |->
                          IF o \in logTicks[t].due THEN (IF logTicks[t].priced THEN passed ELSE NoSig)
                          ELSE log.at[o]],
               done |-> log.done \/ Offsets \in logTicks[t].due,
               rug |-> log.rug \/ logTicks[t].rug]
    /\ logTicks' = [logTicks EXCEPT ![t] = IdleLog]
    /\ UNCHANGED <<Rest, overlapped, passed, budget>>

-----------------------------------------------------------------------------
SamplerStep(t) == LookForExit(t) \/ RecordExit(t) \/ Pair(t) \/ Mark(t)

TrackNext ==
    \/ \E w \in Wallet : Buy(w) \/ SellAll(w) \/ SellPart(w) \/ ReadEntries(w) \/ WriteScore(w)
    \/ \E s \in Sig : Ages(s)
    \/ Rugged \/ Scan \/ ClaimExpires \/ Passes
    \/ \E t \in Sampler : SampleBegins(t) \/ SamplerStep(t) \/ LogBegin(t) \/ LogWrite(t)

TrackSpec == TrackInit /\ [][TrackNext]_trackVars

\* Timers fire for as long as the process runs, promises settle, time passes;
\* of overlapping ticks and recomputes some one goes on.
TrackingFairness ==
    /\ WF_trackVars(\E s \in Sig : Ages(s)) /\ WF_trackVars(Passes)
    /\ WF_trackVars(\E w \in Wallet : ReadEntries(w) \/ WriteScore(w))
    /\ WF_trackVars(\E t \in Sampler : SampleBegins(t) \/ SamplerStep(t))
    /\ WF_trackVars(\E t \in Sampler : LogBegin(t) \/ LogWrite(t))

-----------------------------------------------------------------------------
(* Properties. *)

\* smartWalletTracker.ts:571-580: an entry is EXITED only on a full sale of
\* its wallet, later than the entry, whose SOL amount is known.
ExitIsReal ==
    \A s \in Sig : entries[s].status = "EXITED" =>
        LET e == entries[s].exit IN
        OnChain(e) /\ e > s /\ txs[e].who = txs[s].who /\ txs[e].side = "exit" /\ txs[e].sol

\* A resolved entry stays what it is, unless two ticks of the sampler ran at
\* the same time.
ResolvedStays ==
    [][\A s \in Sig : Resolved(entries[s]) /\ entries'[s].status # entries[s].status => overlapped]_trackVars

\* shadowModePriceSampler.ts:42-45: nothing is called a rug while the pool has
\* liquidity, unless a price request timed out.
RugNeedsACause ==
    \A s \in Sig : entries[s].status = "RUG_FLAGGED" => causes # {}

\* A wallet whose recomputes are done counts its exits, and no more than its
\* resolved entries; two recomputes at once may leave the older count.
ScoreIsHonest ==
    \A w \in Wallet :
        unread[w] = 0 /\ read[w] = {} /\ ~raced /\ ~overlapped =>
            /\ score[w] <= Cardinality(OfWallet(w))
            /\ score[w] >= Cardinality({s \in OfWallet(w) : entries[s].status = "EXITED"})

\* shadowModePriceSampler.ts:47-53: an entry does not stay OPEN forever.
EntriesEnded == OpenRows = {}

\* A price is never taken for an offset that has not passed.
NeverEarly == \A o \in 1 .. Offsets : log.at[o] # NoSig => log.at[o] >= o

\* A sampled price is not replaced, unless two ticks had it due at once.
PriceStays ==
    [][\A o \in 1 .. Offsets :
           log.at[o] # NoSig /\ log'.at[o] # log.at[o] => overlapped]_trackVars

\* Every logged decision is sampled to its end.
RowsAreFinished == budget.log => log.done

\* Entries, scores and samples record what happened, whichever ticks overlap.
TrackingIsSound ==
    /\ [](TrackTypes /\ ExitIsReal /\ RugNeedsACause /\ ScoreIsHonest /\ NeverEarly)
    /\ ResolvedStays /\ PriceStays

=============================================================================
