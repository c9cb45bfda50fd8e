--------------------------- MODULE Reconciliation ---------------------------
(***************************************************************************)
(* scripts/reconcilePnl.ts: the profit of each closed position is computed *)
(* again from its confirmed trades, and the fee and the rewards charged on *)
(* it from that.  It runs beside the API, which closes positions and       *)
(* charges fees meanwhile, and may be run more than once.  A history is    *)
(* one wallet's; amounts are whole units, rates parts of Whole.            *)
(***************************************************************************)
EXTENDS Integers, Sequences, FiniteSets, SequencesExt

CONSTANTS Token, Paper,  \* the tokens, and those that start with SIMTEST
          Decimals,      \* REAL_DECIMALS, of the tokens that were verified
          Run,           \* times the script is started
          History        \* bounds: [positions, trades, wrong, costs, fee, percents, faults]

ReconciliationAssumption ==
    /\ Paper \subseteq Token /\ DOMAIN Decimals \subseteq Token /\ Run \subseteq Nat
    /\ \A t \in DOMAIN Decimals : Decimals[t] \in Nat

VARIABLES history,
          decimals,   \* Token.decimals
          closed,     \* positions CLOSED so far
          pnl,        \* Position.realizedPnlUsd, Missing for none
          fees,       \* performance_fee_ledger and its referral_rewards, by position
          log,        \* pnl_reconciliation_log
          job,        \* the script's runs
          faults,
          late        \* positions whose fee was charged too late for the run that corrected them

books == <<decimals, pnl, fees, log>>
reconciliationVars == <<history, decimals, closed, pnl, fees, log, job, faults, late>>

Missing == -9999
Positions == DOMAIN history.positions
Trades == history.trades
Place(p) == history.positions[p]
Default == 2

NoFee == [gross |-> Missing, net |-> Missing, fee |-> Missing, share |-> Missing, rewards |-> <<>>]
NoJob == [at |-> "idle", executes |-> FALSE, todo |-> {}, read |-> <<>>, tokens |-> {}, fixes |-> <<>>,
          fees |-> <<>>, rewards |-> <<>>, before |-> {}]
-----------------------------------------------------------------------------
\* processProfitableClose's row: the pool is what the user does not keep, and a
\* referrer's percent is of the net profit.
Charged(gross) ==
    LET net == gross - history.costs
        fee == (net * history.fee) \div 10
    IN [gross |-> gross, net |-> net, fee |-> fee, share |-> net - fee,
        rewards |-> [i \in DOMAIN history.percents |-> (net * history.percents[i]) \div 10]]

\* The script's: the reward is a part of the fee.
Recharged(gross, row) ==
    LET net == gross - history.costs
        fee == (net * history.fee) \div 10
    IN [gross |-> gross, net |-> net, fee |-> fee, share |-> net - fee, rewards |-> row.rewards]

Rewarded(fee) == [i \in DOMAIN history.percents |-> (fee * history.percents[i]) \div 10]

\* What closePosition stored: the profit at the decimals it believed, or none.
Stored(p) == IF p \in DOMAIN history.wrong THEN history.wrong[p] ELSE Missing
-----------------------------------------------------------------------------
\* matchTrades: the newest BUY up to the position's creation, however old, and
\* the SELLs until it closed.
Buys(p) == {t \in Trades : t.side = "BUY" /\ t.token = Place(p).token /\ t.at <= Place(p).opened}

BuyTradeFirst(p) == CHOOSE t \in Buys(p) : \A u \in Buys(p) : t.at <= u.at

BuyTrade(p) == CHOOSE t \in Buys(p) : \A u \in Buys(p) : u.at <= t.at

SellTrades(p) ==
    {t \in Trades : /\ t.side = "SELL" /\ t.token = Place(p).token
                    /\ t.at >= Place(p).opened /\ t.at <= Place(p).closed}

\* A sale's worth in USD, from its price and the real decimals.
Priced(sells) == {t \in sells : t.price # Missing /\ t.sol > 0}
Worth(t) == (t.price * t.amount) \div 10 ^ Decimals[t.token]

\* realPnlSol at the price the sales imply together.
Recomputed(buy, sells) ==
    LET sold == MapThenSumSet(LAMBDA t : t.sol, sells)
        usd == MapThenSumSet(Worth, Priced(sells))
        weight == MapThenSumSet(LAMBDA t : t.sol, Priced(sells))
    IN ((sold - buy.sol) * usd) \div weight

Resolved(p) ==
    /\ Place(p).token \notin Paper /\ Place(p).token \in DOMAIN Decimals
    /\ Buys(p) # {} /\ SellTrades(p) # {} /\ Priced(SellTrades(p)) # {}
-----------------------------------------------------------------------------
\* Types, of the books and of the runs.
TypeOK ==
    /\ decimals \in [Token -> Nat] /\ closed \subseteq Positions /\ late \subseteq closed
    /\ \A p \in Positions : pnl[p] \in Int /\ fees[p].net \in Int /\ (fees[p].net # Missing => p \in closed)
    /\ faults \in 0 .. history.faults
    /\ \A r \in Run : /\ job[r].at \in {"idle", "match", "fees", "rewards", "write", "done", "failed"}
                      /\ job[r].todo \subseteq closed /\ DOMAIN job[r].fixes \subseteq closed

Init ==
    /\ history \in History
    /\ decimals = [t \in Token |-> Default]
    /\ closed = {} /\ log = <<>> /\ late = {} /\ faults = 0
    /\ pnl = [p \in Positions |-> Missing]
    /\ fees = [p \in Positions |-> NoFee]
    /\ job = [r \in Run |-> NoJob]

\* The API closes a position, and charges its fee when it gets to it.
ClosePosition(p) ==
    /\ p \notin closed /\ \A q \in Positions : q < p => q \in closed
    /\ closed' = closed \cup {p} /\ pnl' = [pnl EXCEPT ![p] = Stored(p)]
    /\ UNCHANGED <<history, decimals, fees, log, job, faults, late>>

\* The handler of the close works from the profit in its event.
Charge(p) ==
    /\ p \in closed /\ fees[p] = NoFee /\ Stored(p) > history.costs
    /\ fees' = [fees EXCEPT ![p] = Charged(Stored(p))]
    /\ late' = IF pnl[p] # Stored(p) \/ \E r \in Run : /\ job[r].at \in {"rewards", "write"} /\ job[r].executes
                                                      /\ p \in DOMAIN job[r].fixes
               THEN late \cup {p} ELSE late
    /\ UNCHANGED <<history, decimals, closed, pnl, log, job, faults>>
-----------------------------------------------------------------------------
Logged(table) == {log[i].id : i \in {j \in DOMAIN log : log[j].table = table}}
Goes(r, to) == job' = [job EXCEPT ![r].at = to]

\* The closed positions, with their profit and their tokens' decimals.
Start(r) ==
    /\ job[r].at = "idle" /\ closed # {} /\ \A q \in Run : q < r => job[q].at # "idle"
    /\ \E executes \in BOOLEAN :
          job' = [job EXCEPT ![r] =
                    [NoJob EXCEPT !.at = "match", !.executes = executes, !.todo = closed,
                                  !.read = [p \in closed |-> [pnl |-> pnl[p], decimals |-> decimals[Place(p).token]]],
                                  !.before = Logged("positions")]]
    /\ UNCHANGED <<history, decimals, closed, pnl, fees, log, faults, late>>

\* One position: its token's decimals are wrong whether or not its trades can
\* be matched; its profit is corrected if they can and it differs.
Examine(r) ==
    /\ job[r].at = "match" /\ job[r].todo # {}
    /\ LET p == CHOOSE q \in job[r].todo : \A s \in job[r].todo : q <= s
           token == Place(p).token
           known == token \notin Paper /\ token \in DOMAIN Decimals
           value == Recomputed(BuyTrade(p), SellTrades(p))
       IN job' = [job EXCEPT
                    ![r].todo = @ \ {p},
                    ![r].tokens = IF known /\ job[r].read[p].decimals # Decimals[token] THEN @ \cup {token} ELSE @,
                    ![r].fixes = IF Resolved(p) /\ job[r].read[p].pnl # value THEN (p :> value) @@ @ ELSE @]
    /\ UNCHANGED <<history, decimals, closed, pnl, fees, log, faults, late>>

Examined(r) ==
    /\ job[r].at = "match" /\ job[r].todo = {} /\ Goes(r, "fees")
    /\ UNCHANGED <<history, decimals, closed, pnl, fees, log, faults, late>>

\* The fee rows there are of the positions to be corrected
ReadFees(r) ==
    /\ job[r].at = "fees"
    /\ LET rows == {p \in DOMAIN job[r].fixes : fees[p] # NoFee}
       IN job' = [job EXCEPT ![r].at = "rewards",
                             ![r].fees = [p \in rows |-> [old |-> fees[p], new |-> Recharged(job[r].fixes[p], fees[p])]]]
    /\ UNCHANGED <<history, decimals, closed, pnl, fees, log, faults, late>>

\* and the rewards of those rows.
ReadRewards(r) ==
    /\ job[r].at = "rewards"
    /\ job' = [job EXCEPT ![r].at = "write",
                          ![r].rewards = [p \in DOMAIN job[r].fees |-> Rewarded(job[r].fees[p].new.fee)]]
    /\ UNCHANGED <<history, decimals, closed, pnl, fees, log, faults, late>>

Entry(table, id, field, old, new) ==
    [table |-> table, id |-> id, field |-> field, old |-> old, new |-> new]

Listed(entries) == FoldSet(LAMBDA e, list : Append(list, e), <<>>, entries)
FeeFields == {"gross", "net", "fee", "share"}

\* auditRows: every field of every correction
Entries(r) ==
    LET j == job[r]
        tokens == {Entry("tokens", t, "decimals", Default, Decimals[t]) : t \in j.tokens}
        fixes == {Entry("positions", p, "pnl", j.read[p].pnl, j.fixes[p]) : p \in DOMAIN j.fixes}
        charged == {Entry("fees", p, f, j.fees[p].old[f], j.fees[p].new[f]) : p \in DOMAIN j.fees, f \in FeeFields}
        paid == {Entry("rewards", p, "usd", j.fees[p].old.rewards, j.rewards[p]) : p \in DOMAIN j.rewards}
    IN Listed(tokens) \o Listed(fixes) \o Listed(charged) \o Listed(paid)

\* One transaction: the log, the tokens, the positions, the fees, the rewards.
Write(r) ==
    /\ job[r].at = "write" /\ Goes(r, "done")
    /\ IF job[r].executes
       THEN /\ log' = log \o Entries(r)
            /\ decimals' = [t \in Token |-> IF t \in job[r].tokens THEN Decimals[t] ELSE decimals[t]]
            /\ pnl' = [p \in Positions |-> IF p \in DOMAIN job[r].fixes THEN job[r].fixes[p] ELSE pnl[p]]
            /\ fees' = [p \in Positions |-> IF p \in DOMAIN job[r].fees
                                            THEN [job[r].fees[p].new EXCEPT !.rewards = job[r].rewards[p]]
                                            ELSE fees[p]]
       ELSE UNCHANGED books
    /\ UNCHANGED <<history, closed, faults, late>>

\* A query fails, or the transaction does and is rolled back.
Abort(r) ==
    /\ job[r].at \in {"match", "fees", "rewards", "write"} /\ faults < history.faults
    /\ faults' = faults + 1 /\ Goes(r, "failed")
    /\ UNCHANGED <<history, decimals, closed, pnl, fees, log, late>>

ScriptNext == \E r \in Run : Start(r) \/ Examine(r) \/ Examined(r) \/ ReadFees(r) \/ ReadRewards(r) \/ Write(r) \/ Abort(r)
Next == ScriptNext \/ \E p \in Positions : ClosePosition(p) \/ Charge(p)
-----------------------------------------------------------------------------
Keys == {<<log[i].table, log[i].id, log[i].field>> : i \in DOMAIN log}
Of(k) == SelectSeq(log, LAMBDA e : <<e.table, e.id, e.field>> = k)

Original(k) ==
    CASE k[1] = "tokens" -> Default
      [] k[1] = "positions" -> Stored(k[2])
      [] k[1] = "fees" -> Charged(Stored(k[2]))[k[3]]
      [] k[1] = "rewards" -> Charged(Stored(k[2])).rewards

Current(k) ==
    CASE k[1] = "tokens" -> decimals[k[2]]
      [] k[1] = "positions" -> pnl[k[2]]
      [] k[1] = "fees" -> fees[k[2]][k[3]]
      [] k[1] = "rewards" -> fees[k[2]].rewards

\* The log tells everything: the oldest entry of a field has the value the API
\* wrote, the newest the value there is, and a field without one was not touched,
\* whatever failed and however runs overlap.
LogTellsAll ==
    /\ \A k \in Keys : Of(k)[1].old = Original(k) /\ Of(k)[Len(Of(k))].new = Current(k)
    /\ \A t \in Token : t \notin Logged("tokens") => decimals[t] = Default
    /\ \A p \in closed : p \notin Logged("positions") => pnl[p] = Stored(p)
    /\ \A p \in closed : p \notin Logged("fees") => fees[p] \in {NoFee, Charged(Stored(p))}

\* A corrected profit is what the position's own trades come to, though the
\* wallet traded the token before and after.
PnlIsReal ==
    \A p \in closed : p \in Logged("positions") =>
        \E buy \in Trades : /\ buy.of = p /\ buy.side = "BUY"
                            /\ pnl[p] = Recomputed(buy, {t \in Trades : t.of = p /\ t.side = "SELL"})

\* A fee is of the profit that is stored and is divided exactly, unless it was
\* charged after the run had read the fees: that one no later run corrects.
FeesFollow ==
    \A p \in closed : fees[p] # NoFee =>
        /\ fees[p].fee + fees[p].share = fees[p].net /\ fees[p].net = fees[p].gross - history.costs
        /\ p \notin late => fees[p].gross = pnl[p]

\* What a run has corrected no later run finds wrong.
CorrectedOnce == \A r \in Run : DOMAIN job[r].fixes \cap job[r].before = {}

\* scripts/reconcilePnl.ts as a whole
ReconciliationIsSound == TypeOK /\ LogTellsAll /\ PnlIsReal /\ FeesFollow /\ CorrectedOnce
=============================================================================
