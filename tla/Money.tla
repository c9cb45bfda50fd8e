------------------------------- MODULE Money -------------------------------
(***************************************************************************)
(* The money side of the API process: fee payouts, plan purchases and the  *)
(* balance ledger, which spend from and look at the same wallets.          *)
(***************************************************************************)
EXTENDS Payout, PlanPurchase

CONSTANTS Workloads   \* what a behaviour may ask for: events, purchases, refreshes, ...

ASSUME WorkloadAssumption ==
    \A l \in Workloads :
        l \in [events : SUBSET Handler, requests : SUBSET Request, refreshes : SUBSET Refresh,
               polls : BOOLEAN, moves : Nat, deposits : Nat, rows : Nat, sol : Nat]

VARIABLES load,      \* this behaviour's workload, counted down
          crowd      \* observer: wallets two spenders drew on at once

vars == <<payoutVars, faults, planVars, ledgerVars, chainVars, load, crowd>>

\* Spenders that hold a balance check they have not yet acted upon.
Spenders(w) ==
    {<<"tx", i>> : i \in {j \in DOMAIN txs : txs[j].from = w /\ txs[j].state \in {"signed", "pending"}}}
    \cup {<<"h", h>> : h \in {g \in Handler : pc[g] = "blockhash" /\ owner[Mine(g)] = w}}
    \cup {<<"q", q>> : q \in {g \in Request : ppc[g] = "blockhash" /\ pop[g].wallet = w}}

Crowded(w) == Cardinality(Spenders(w)) > 1

TypeOK ==
    /\ PayoutTypeOK /\ PlanTypeOK /\ LedgerTypeOK
    /\ sol \in [Wallet -> Nat] /\ txs \in Seq(TxRecord) /\ crowd \in SUBSET Wallet

Init ==
    /\ load \in Workloads
    /\ sol = [w \in Wallet |-> load.sol] /\ txs = << >>
    /\ PayoutInit /\ PlanInit /\ LedgerInit
    /\ crowd = {}

Crowd == crowd' = crowd \cup {w \in Wallet : Crowded(w)'}

PayoutAction ==
    /\ PayoutNext /\ \A h \in Handler : pc[h] = pc'[h] \/ h \in load.events
    /\ UNCHANGED <<planVars, ledgerVars, load>>
    /\ Crowd

PlanAction ==
    /\ PlanNext /\ \A q \in Request : ppc[q] = ppc'[q] \/ q \in load.requests
    /\ (today' # today => load.requests # {})
    /\ UNCHANGED <<payoutVars, faults, ledgerVars, load>>
    /\ Crowd

PlanFault ==
    /\ faults < MaxFaults /\ faults' = faults + 1
    /\ \E q \in Request : RequestFails(q)
    /\ UNCHANGED <<payoutVars, ledgerVars, load>>
    /\ Crowd

LedgerAction ==
    /\ \/ load.polls /\ MonitorStep /\ UNCHANGED load
       \/ /\ \E r \in load.refreshes : (\E w \in Wallet : RefreshRow(r, w)) \/ RefreshStep(r)
          /\ UNCHANGED load
       \/ /\ \E x \in owed : ReadWithdrawal(x) \/ RecordWithdrawal(x)
          /\ UNCHANGED load
       \/ /\ load.rows > 0 /\ load' = [load EXCEPT !.rows = @ - 1]
          /\ \E w \in Wallet : AddWallet(w) \/ DeleteWallet(w) \/ RestoreWallet(w)
       \/ /\ load.deposits > 0 /\ load' = [load EXCEPT !.deposits = @ - 1]
          /\ \E w \in Wallet : Deposit(w, 1)
    /\ UNCHANGED <<payoutVars, faults, planVars, crowd>>

LedgerFault ==
    /\ faults < MaxFaults /\ faults' = faults + 1
    /\ BatchFails \/ \E r \in Refresher : RefreshFails(r)
    /\ UNCHANGED <<payoutVars, planVars, load, crowd>>

Withdraw ==
    /\ load.moves > 0 /\ load' = [load EXCEPT !.moves = @ - 1]
    /\ \E w \in Wallet : MoveOut(w, 1) /\ crowd' = crowd \cup {w}
    /\ UNCHANGED <<payoutVars, faults, planVars>>

\* The network decides a transfer, known or not to whoever sent it.
ChainAction ==
    /\ \E i \in DOMAIN txs : Land(i) \/ Die(i)
    /\ UNCHANGED <<payoutVars, faults, planVars, ledgerVars, load, crowd>>

\* The process restarts: every call in progress is gone, the tables are not.
\* A transfer handed to the network may still land.
Restart ==
    /\ faults < MaxFaults /\ faults' = faults + 1
    /\ pc' = [h \in Handler |-> IF pc[h] = "idle" THEN "idle" ELSE "done"]
    /\ ppc' = [q \in Request |-> IF ppc[q] = "idle" THEN "idle" ELSE "ended"]
    /\ inFlight' = FALSE /\ todo' = {}
    /\ bpc' = [r \in Refresher |-> IF r = "monitor" \/ bpc[r] = "idle" THEN "idle" ELSE "done"]
    /\ txs' = [i \in DOMAIN txs |->
                 IF txs[i].state = "signed" THEN [txs[i] EXCEPT !.state = "dead"] ELSE txs[i]]
    /\ UNCHANGED <<owner, paper, ledger, attempt, op, user, subs, pop, today, row, known, credited,
                   fetched, bop, owed, observers, sol, load, crowd>>

Next ==
    \/ PayoutAction \/ PlanAction \/ PlanFault \/ LedgerAction \/ LedgerFault \/ Withdraw
    \/ ChainAction \/ Restart

Spec == Init /\ [][Next]_vars

\* The event loop runs every call on; an RPC or database call comes back; the
\* poll's timer fires; the network settles a transfer it was handed.
Fairness ==
    /\ \A h \in Handler : WF_vars(HandlerStep(h) /\ PayoutAction)
    /\ \A q \in Request : WF_vars(RequestStep(q) /\ PlanAction)
    /\ WF_vars(MonitorStep /\ LedgerAction)
    /\ \A r \in Refresh : WF_vars(RefreshStep(r) /\ LedgerAction)
    /\ WF_vars(LedgerAction /\ owed' # owed)
    /\ WF_vars(ChainAction)

FairSpec == Spec /\ Fairness
-----------------------------------------------------------------------------
\* payoutExecutor.ts, schema.prisma's PayoutAttempt: however often a close is
\* reported, and whatever fails or restarts in between, its payout is signed,
\* and so can leave the wallet, at most once.
PaidOnce == \A p \in Position : Cardinality(For(<<"payout", p>>)) <= 1

\* The same comment's reason for recording the signature first: a payout handed
\* to the network is always the one its attempt row names, past PENDING.
PayoutIsTraceable ==
    \A p \in Position : \A i \in For(<<"payout", p>>) :
        txs[i].state \in {"pending", "landed"} =>
            attempt[p].tx = i /\ attempt[p].status \in {"SUBMITTED", "CONFIRMED", "FAILED"}

\* registerFeeSystem.ts: OWNER_FEE and REFERRAL_CREDIT say money moved; for a
\* real position they do so only of a transfer that landed and is CONFIRMED.
ChargedHasLanded ==
    \A p \in Position \ paper : ledger[p] = "charged" =>
        attempt[p].status = "CONFIRMED" /\ txs[attempt[p].tx].state = "landed"

\* The converse is only as good as the attempt row: a ledger without charges
\* stands beside a landed payout only when the row says FAILED, the status that
\* asks for a look at the chain, or when the close was reported twice and the
\* other call, finding no SOL price, wrote the ledger first.
UnchargedLandedSaysFailed ==
    \A p \in Position : ledger[p] = "plain" =>
        \A i \in For(<<"payout", p>>) :
            txs[i].state \in {"pending", "landed"} =>
                \/ attempt[p].status = "FAILED"
                \/ Cardinality({h \in Handler : Mine(h) = p}) > 1

\* Each balance check keeps MIN_WALLET_RESERVE_SOL in the wallet; only two
\* spenders between check and landing at once can break into it.
ReserveNeedsCrowd ==
    \A w \in Wallet : sol[w] < Reserve /\ load.sol >= Reserve => w \in crowd

\* planPurchase.ts: one package is never paid twice at a time, so a landed
\* payment no subscription records belongs to a request that was cut short.
PaymentsRecorded ==
    \A i \in For(<<"plan", 0>>) :
        txs[i].state = "landed" /\ (\A s \in subs : s.tx # i) =>
            faults > 0 \/ \E q \in Request : pop[q].tx = i /\ ppc[q] \in {"confirm", "record"}

\* plans.ts: a renewal extends.  Two subscriptions of one plan never cover the
\* same day, unless another plan was bought in between.
NoDayPaidTwice ==
    \A s, t \in subs :
        s # t /\ s.plan = t.plan /\ (\A u \in subs : u.plan = s.plan) =>
            s.expires <= t.starts \/ t.expires <= s.starts

\* balanceLedger.ts: the DEPOSITs recorded are covered by what came in, unless
\* known was written from a balance older than itself.
CreditsAreReal ==
    \A w \in Wallet : credited[w] > inflow[w] => w \in stale

\* What payoutExecutor.ts decided is final: no later call touches a row that is
\* confirmed, failed or skipped, nor the ledger row of a position.
DecisionsAreFinal ==
    [][\A p \in Position :
         /\ attempt[p].status \in Terminal => attempt'[p] = attempt[p]
         /\ ledger[p] # "none" => ledger'[p] = ledger[p]]_vars

\* A close whose handler meets neither an error nor a restart is processed to the
\* end, its attempt row not left behind in PENDING or SUBMITTED; and DepositMonitor
\* catches up: the balance shown for an active wallet ends as the chain's, whatever
\* refreshes and withdrawals raced before.
MoneySettles ==
    <>[](/\ \A p \in Position : attempt[p].status \in {"PENDING", "SUBMITTED"} => faults > 0
         /\ load.polls => \A w \in Wallet : row[w] = "active" => known[w] = sol[w])

\* payoutExecutor.ts, registerFeeSystem.ts: types; a payout is signed once, its
\* attempt row tells what became of it, and the fee ledger agrees with both.
PayoutsAreSound ==
    TypeOK /\ PaidOnce /\ PayoutIsTraceable /\ ChargedHasLanded /\ UnchargedLandedSaysFailed

\* planPurchase.ts, balanceLedger.ts: reserve, subscriptions and deposits are what
\* the chain did, but for the races named.
BalancesAreSound == ReserveNeedsCrowd /\ PaymentsRecorded /\ NoDayPaidTwice /\ CreditsAreReal
=============================================================================
