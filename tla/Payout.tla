------------------------------- MODULE Payout -------------------------------
(***************************************************************************)
(* What follows a profitable close: registerFeeSystem.ts's subscriber runs *)
(* processProfitableClose, which calls payoutExecutor.ts's                 *)
(* executeReferralAndPlatformPayout and then writes the fee ledger.  One   *)
(* handler per event; a position's event may be delivered more than once.  *)
(* Each action is a stretch between two awaits.                            *)
(***************************************************************************)
EXTENDS BalanceLedger, FiniteSets

CONSTANTS Position,    \* closed positions, numbered
          Handler,     \* events delivered
          Pool,        \* the fee pool of a close, in SOL units
          Rewards,     \* what the referral levels may come to
          MaxFaults    \* bound on rejected calls and restarts

ASSUME PoolAssumption == Pool \in Nat /\ Rewards \subseteq Nat /\ Position \subseteq Nat \ {0}
ASSUME FaultAssumption == MaxFaults \in Nat

VARIABLES
    owner,      \* the wallet of each position
    paper,      \* positions of paper trading
    ledger,     \* PerformanceFeeLedger: each position's row, and if it was charged
    attempt,    \* PayoutAttempt: each position's row, unique on positionId
    pc, op,     \* each handler's place and locals
    faults

payoutVars == <<owner, paper, ledger, attempt, pc, op>>

Terminal == {"CONFIRMED", "FAILED", "SKIPPED"}
Status   == {"none", "PENDING", "SUBMITTED"} \cup Terminal
PC == {"idle", "already", "calculate", "price", "create", "balance", "skip", "blockhash",
       "send", "confirm", "failed", "confirmed", "write", "done"}

OpType == [position : Position \cup {0}, total : Nat, tx : Nat, paid : BOOLEAN]

NoHandler == [position |-> 0, total |-> 0, tx |-> 0, paid |-> FALSE]

PayoutTypeOK ==
    /\ owner \in [Position -> Wallet] /\ paper \in SUBSET Position
    /\ ledger \in [Position -> {"none", "plain", "charged"}]
    /\ attempt \in [Position -> [status : Status, tx : Nat]]
    /\ pc \in [Handler -> PC] /\ op \in [Handler -> OpType]
    /\ \A h \in Handler : pc[h] # "idle" => op[h].position \in Position
    /\ \A p \in Position : attempt[p].tx <= Len(txs) + 1
    /\ faults \in 0 .. MaxFaults

PayoutInit ==
    /\ owner \in [Position -> Wallet] /\ paper \in SUBSET Position
    /\ ledger = [p \in Position |-> "none"]
    /\ attempt = [p \in Position |-> [status |-> "none", tx |-> 0]]
    /\ pc = [h \in Handler |-> "idle"] /\ op = [h \in Handler |-> NoHandler]
    /\ faults = 0

At(h, from, to) == pc[h] = from /\ pc' = [pc EXCEPT ![h] = to]

Mine(h) == op[h].position
-----------------------------------------------------------------------------
\* The subscriber: a CLOSED event with a positive realizedPnlUsd.
Start(h, p) ==
    /\ At(h, "idle", "already")
    /\ op' = [op EXCEPT ![h].position = p]
    /\ UNCHANGED <<owner, paper, ledger, attempt, faults, chainVars>>

\* performanceFeeLedger.findUnique: a row means the close was processed.
FindLedger(h) ==
    /\ \/ At(h, "already", "calculate") /\ ledger[Mine(h)] = "none"
       \/ At(h, "already", "done") /\ ledger[Mine(h)] # "none"
    /\ UNCHANGED <<owner, paper, ledger, attempt, op, faults, chainVars>>

\* Not eligible, or no net profit once the matched trades are counted.
NoFee(h) ==
    /\ At(h, "calculate", "done")
    /\ UNCHANGED <<owner, paper, ledger, attempt, op, faults, chainVars>>

\* The pool and the levels' rewards.  The pool itself, not what the rewards
\* leave of it, is passed on as platformShareUsd.
Calculate(h) ==
    /\ At(h, "calculate", IF Mine(h) \in paper THEN "write" ELSE "price")
    /\ \E r \in Rewards : op' = [op EXCEPT ![h].total = Pool + r,
                                           ![h].paid = Mine(h) \in paper]
    /\ UNCHANGED <<owner, paper, ledger, attempt, faults, chainVars>>

\* Nothing to pay, or no SOL price: no attempt row, the ledger is written.
NoPayout(h) ==
    /\ At(h, "price", "write")
    /\ UNCHANGED <<owner, paper, ledger, attempt, op, faults, chainVars>>

Priced(h) ==
    /\ At(h, "price", "create") /\ op[h].total > 0
    /\ UNCHANGED <<owner, paper, ledger, attempt, op, faults, chainVars>>

\* Mutant of CreateAttempt: no unique constraint on the position.
CreateAlways(h) ==
    /\ At(h, "create", "balance")
    /\ attempt' = [attempt EXCEPT ![Mine(h)].status = "PENDING"]
    /\ UNCHANGED <<owner, paper, ledger, op, faults, chainVars>>

\* payoutAttempt.create; on the unique constraint the row found is another
\* call's, and decidePayoutAction defers to it whatever its status or age.
CreateAttempt(h) ==
    /\ At(h, "create", "balance") /\ attempt[Mine(h)].status = "none"
    /\ attempt' = [attempt EXCEPT ![Mine(h)].status = "PENDING"]
    /\ UNCHANGED <<owner, paper, ledger, op, faults, chainVars>>

Defer(h) ==
    /\ At(h, "create", "done") /\ attempt[Mine(h)].status # "none"
    /\ UNCHANGED <<owner, paper, ledger, attempt, op, faults, chainVars>>

\* getBalance, evaluatePayoutBalanceSufficiency and the unsealed key.
ReadBalance(h) ==
    /\ \/ At(h, "balance", "skip") /\ ~ Affords(sol[owner[Mine(h)]], op[h].total)
       \/ /\ At(h, "balance", "blockhash") \/ At(h, "balance", "failed")
          /\ Affords(sol[owner[Mine(h)]], op[h].total)
    /\ UNCHANGED <<owner, paper, ledger, attempt, op, faults, chainVars>>

\* Mutant of Skip: the attempt row is left as it was.
SkipSilently(h) ==
    /\ At(h, "skip", "write")
    /\ UNCHANGED <<owner, paper, ledger, attempt, op, faults, chainVars>>

Skip(h) ==
    /\ At(h, "skip", "write")
    /\ attempt' = [attempt EXCEPT ![Mine(h)].status = "SKIPPED"]
    /\ UNCHANGED <<owner, paper, ledger, op, faults, chainVars>>

\* The transaction is signed and its signature recorded, before any send.
Submit(h) ==
    /\ At(h, "blockhash", "send")
    /\ Sign(owner[Mine(h)], op[h].total, <<"payout", Mine(h)>>)
    /\ attempt' = [attempt EXCEPT ![Mine(h)] = [status |-> "SUBMITTED", tx |-> Len(txs) + 1]]
    /\ op' = [op EXCEPT ![h].tx = Len(txs) + 1]
    /\ UNCHANGED <<owner, paper, ledger, faults, sol>>

Send(h) ==
    /\ At(h, "send", "confirm")
    /\ Broadcast(op[h].tx)
    /\ UNCHANGED <<owner, paper, ledger, attempt, op, faults, sol>>

\* broadcastTransaction comes back: landed, or reverted or expired.
Outcome(h) ==
    /\ \/ At(h, "confirm", "confirmed") /\ txs[op[h].tx].state = "landed"
       \/ At(h, "confirm", "failed") /\ txs[op[h].tx].state = "dead"
    /\ UNCHANGED <<owner, paper, ledger, attempt, op, faults, chainVars>>

\* broadcastTransaction throws without knowing: nothing was sent, or the
\* transfer is still on its way, or it has landed.
Unknown(h) ==
    /\ faults < MaxFaults /\ faults' = faults + 1
    /\ \/ At(h, "send", "failed") /\ Drop(op[h].tx)
       \/ At(h, "send", "failed") /\ Broadcast(op[h].tx)
       \/ At(h, "confirm", "failed") /\ UNCHANGED txs
    /\ UNCHANGED <<owner, paper, ledger, attempt, op, sol>>

MarkFailed(h) ==
    /\ At(h, "failed", "write")
    /\ attempt' = [attempt EXCEPT ![Mine(h)].status = "FAILED"]
    /\ UNCHANGED <<owner, paper, ledger, op, faults, chainVars>>

MarkConfirmed(h) ==
    /\ At(h, "confirmed", "write")
    /\ attempt' = [attempt EXCEPT ![Mine(h)].status = "CONFIRMED"]
    /\ op' = [op EXCEPT ![h].paid = TRUE]
    /\ UNCHANGED <<owner, paper, ledger, faults, chainVars>>

\* The transaction of the ledger row, PROFIT_CREDIT, and OWNER_FEE with the
\* REFERRAL_CREDITs when money moved; P2002 ends a concurrent duplicate.
WriteLedger(h) ==
    /\ At(h, "write", "done")
    /\ ledger' = IF ledger[Mine(h)] = "none"
                 THEN [ledger EXCEPT ![Mine(h)] = IF op[h].paid THEN "charged" ELSE "plain"]
                 ELSE ledger
    /\ UNCHANGED <<owner, paper, attempt, op, faults, chainVars>>

\* A query or RPC call outside broadcastTransaction rejects: the subscriber
\* logs it, and nothing is undone.
Reject(h) ==
    /\ faults < MaxFaults /\ faults' = faults + 1
    /\ pc[h] \notin {"idle", "send", "confirm", "done"}
    /\ pc' = [pc EXCEPT ![h] = "done"]
    /\ UNCHANGED <<owner, paper, ledger, attempt, op, chainVars>>

HandlerStep(h) ==
    \/ FindLedger(h) \/ NoFee(h) \/ Calculate(h) \/ NoPayout(h) \/ Priced(h)
    \/ CreateAttempt(h) \/ Defer(h) \/ ReadBalance(h) \/ Skip(h) \/ Submit(h) \/ Send(h)
    \/ Outcome(h) \/ MarkFailed(h) \/ MarkConfirmed(h) \/ WriteLedger(h)

PayoutNext ==
    \E h \in Handler :
        \/ \E p \in Position : Start(h, p)
        \/ HandlerStep(h)
        \/ Unknown(h)
        \/ Reject(h)
=============================================================================
