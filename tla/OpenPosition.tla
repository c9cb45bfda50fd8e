----------------------------- MODULE OpenPosition -----------------------------
(***************************************************************************)
(* The buy side of apps/api/src/trading for one user: runs of              *)
(* AutoTrader.evaluateAndMaybeBuy and CopyTradingService.mirror, which     *)
(* call PositionManager.openPosition for one wallet after the other, with  *)
(* safety.ts's checkBeforeOpen, the swap, its verification and the rows.   *)
(*                                                                         *)
(* One Node process: each action is a stretch between two awaits.  A swap  *)
(* costs one unit of SOL; the sell side is the single action Sell.         *)
(***************************************************************************)
EXTENDS Integers, Sequences, FiniteSets

CONSTANTS Launch,     \* runs of evaluateAndMaybeBuy
          Mirror,     \* runs of mirror
          Wallet,     \* the user's active wallets, one config each
          Token,
          PlanMax,    \* maxOpenPositions of the user's plan, over all wallets
          Setups,     \* deployments: SOL per wallet, maxOpenPositions per wallet
          Reserve,    \* minWalletReserveSol
          MaxRuns,    \* bound on runs
          MaxFaults   \* bound on failures, losses and crashes

Buyer == Launch \cup Mirror
Key   == Wallet \X Token

ASSUME LimitAssumption == PlanMax \in Nat /\ Reserve \in Nat
ASSUME SetupAssumption ==
    \A s \in Setups : s[1] \in Nat /\ Reserve <= s[1] /\ s[2] \in Nat
ASSUME BoundAssumption == MaxRuns \in Nat /\ MaxFaults \in Nat
ASSUME BuyerAssumption == Launch \cap Mirror = {} /\ "none" \notin Wallet \cup Token

VARIABLES
    openLocks,   \* PositionManager.openLocks
    unverified,  \* unverifiedSwapLocks, its wallet:token keys
    pc, op,      \* each run's place and locals
    txs,         \* swaps broadcast, each with the rows that name it
    sol,         \* each wallet's SOL balance
    maxOpen,     \* maxOpenPositions of the safety config
    runs, faults,
    crashed      \* observer: the process has been restarted

procVars == <<openLocks, unverified, pc, op>>
envVars  == <<txs, sol, maxOpen, runs, faults, crashed>>
vars     == <<procVars, envVars>>

\* Places at which a run is inside openPosition.
Inside == {"gates", "count", "dup", "balance", "build", "confirm", "failed", "verify",
           "lost", "write", "alone", "alert", "notify"}
PC     == Inside \cup {"idle", "configs", "plan", "enter"}

\* Places at which a run follows up the swap it sent.
Following == {"confirm", "failed", "lost", "verify", "write", "alone"}

Idle == [wallet |-> "none", token |-> "none", todo |-> {}, tx |-> 0,
         rival |-> FALSE, planned |-> FALSE]

OpType == [wallet : Wallet \cup {"none"}, token : Token \cup {"none"}, todo : SUBSET Wallet,
           tx : Nat, rival : BOOLEAN, planned : BOOLEAN]

TxType == [key : Key, state : {"pending", "landed", "dead"},
           row : {"none", "open", "closed"}, trade : {"none", "failed", "confirmed"},
           rival : BOOLEAN, planned : BOOLEAN]

KeyOf(b) == <<op[b].wallet, op[b].token>>

TypeOK ==
    /\ openLocks \in SUBSET Key /\ unverified \in SUBSET Key
    /\ pc \in [Buyer -> PC] /\ op \in [Buyer -> OpType]
    /\ \A b \in Buyer : pc[b] \in Inside => KeyOf(b) \in Key /\ op[b].tx <= Len(txs)
    /\ txs \in Seq(TxType) /\ sol \in [Wallet -> Nat] /\ maxOpen \in Nat
    /\ runs \in 0..MaxRuns /\ faults \in 0..MaxFaults /\ crashed \in BOOLEAN

Init ==
    /\ openLocks = {} /\ unverified = {}
    /\ pc = [b \in Buyer |-> "idle"] /\ op = [b \in Buyer |-> Idle]
    /\ txs = <<>>
    /\ \E s \in Setups : sol = [w \in Wallet |-> s[1]] /\ maxOpen = s[2]
    /\ runs = 0 /\ faults = 0 /\ crashed = FALSE
-----------------------------------------------------------------------------
Goto(b, place) == pc' = [pc EXCEPT ![b] = place]

Fault == faults < MaxFaults /\ faults' = faults + 1

Swaps(state) == {i \in DOMAIN txs : txs[i].state = state}

OpenRows == {i \in DOMAIN txs : txs[i].row = "open"}
OpenIn(w) == {i \in OpenRows : txs[i].key[1] = w}
OpenFor(k) == {i \in OpenRows : txs[i].key = k}

\* Other runs at one of these places, for the same wallet.
RivalAt(b, places) ==
    \E c \in Buyer \ {b} : pc[c] \in places /\ op[c].wallet = op[b].wallet

\* Mutant of Return: the lock is not released when the call throws.
ReturnLocked(b) ==
    /\ pc' = [pc EXCEPT ![b] = "configs"]
    /\ op' = [op EXCEPT ![b].todo = @ \ {op[b].wallet}, ![b].tx = 0, ![b].rival = FALSE,
                        ![b].planned = FALSE]
    /\ openLocks' = IF op[b].tx = 0 THEN openLocks ELSE openLocks \ {KeyOf(b)}

\* openPosition returns or throws: its finally frees the key and the loop over
\* the configs goes on.
Return(b) ==
    /\ pc' = [pc EXCEPT ![b] = "configs"]
    /\ op' = [op EXCEPT ![b].todo = @ \ {op[b].wallet}, ![b].tx = 0, ![b].rival = FALSE,
                        ![b].planned = FALSE]
    /\ openLocks' = openLocks \ {KeyOf(b)}
-----------------------------------------------------------------------------
\* --- The runs --------------------------------------------------------------

\* A launch, or a tracked wallet's buy, is evaluated for these wallets.
Begin(b) ==
    /\ pc[b] = "idle" /\ runs < MaxRuns
    /\ runs' = runs + 1
    /\ \E t \in Token, ws \in SUBSET Wallet :
         op' = [op EXCEPT ![b].token = t, ![b].todo = ws]
    /\ Goto(b, "configs")
    /\ UNCHANGED <<openLocks, unverified, txs, sol, faults, crashed, maxOpen>>

\* The next config passes the token's gates (liquidity, score, entry filter), or
\* the loop is over.  mirror has no gates and no plan.
NextConfig(b) ==
    /\ pc[b] = "configs" /\ op[b].todo # {}
    /\ \E w \in op[b].todo :
         \/ /\ op' = [op EXCEPT ![b].wallet = w]
            /\ Goto(b, IF b \in Launch THEN "plan" ELSE "enter")
         \/ op' = [op EXCEPT ![b].todo = @ \ {w}] /\ UNCHANGED pc
    /\ UNCHANGED <<openLocks, unverified, envVars>>

EndRun(b) ==
    /\ pc[b] = "configs" /\ op[b].todo = {}
    /\ Goto(b, "idle")
    /\ op' = [op EXCEPT ![b] = Idle]
    /\ UNCHANGED <<openLocks, unverified, envVars>>

\* planBlocksAutoBuy for a plan that allows auto-buys.
PlanBlocks(open) == open >= PlanMax

\* The user's plan: OPEN positions over all wallets.  A run that had no other
\* launch past this check is planned.
CheckPlan(b) ==
    /\ pc[b] = "plan"
    /\ IF PlanBlocks(Cardinality(OpenRows))
         THEN /\ Goto(b, "configs")
              /\ op' = [op EXCEPT ![b].todo = @ \ {op[b].wallet}]
         ELSE /\ Goto(b, "enter")
              /\ op' = [op EXCEPT ![b].planned =
                   \A c \in Launch \ {b} : pc[c] \notin Inside \cup {"enter"}]
    /\ UNCHANGED <<openLocks, unverified, envVars>>

\* The plan cannot be read: no limits.
PlanUnknown(b) ==
    /\ pc[b] = "plan" /\ Fault
    /\ Goto(b, "enter")
    /\ UNCHANGED <<openLocks, unverified, op, txs, sol, runs, crashed, maxOpen>>
-----------------------------------------------------------------------------
\* --- openPosition: locks and checks ----------------------------------------

\* The call starts, unless the key is blocked: then it throws, with no lock of
\* its own to free.
EnterUnless(b, blocked) ==
    /\ pc[b] = "enter"
    /\ IF blocked
         THEN /\ Goto(b, "configs")
              /\ op' = [op EXCEPT ![b].todo = @ \ {op[b].wallet}, ![b].planned = FALSE]
              /\ UNCHANGED openLocks
         ELSE /\ openLocks' = openLocks \cup {KeyOf(b)}
              /\ Goto(b, "gates") /\ UNCHANGED op
    /\ UNCHANGED <<unverified, envVars>>

\* Mutants of Enter: one of the two locks is not asked.
EnterUnlocked(b) == EnterUnless(b, KeyOf(b) \in unverified)

EnterUnverified(b) == EnterUnless(b, KeyOf(b) \in openLocks)

\* openPosition and the start of openPositionLocked, await-free: another call
\* has the key, or an unverified buy blocks it.
Enter(b) == EnterUnless(b, KeyOf(b) \in openLocks \cup unverified)

\* Kill switch, scanner pause, per-trade limit, daily loss; later the price
\* impact probe.  A check that cannot be read fails closed.
Refuse(b) ==
    /\ pc[b] \in {"gates", "build"}
    /\ Return(b)
    /\ UNCHANGED <<unverified, envVars>>

PassGates(b) ==
    /\ pc[b] = "gates"
    /\ Goto(b, "count")
    /\ UNCHANGED <<openLocks, unverified, op, envVars>>

\* Mutant of evaluateMaxOpenPositions: one too many.
MaxOpenLate(open) == open <= maxOpen

evaluateMaxOpenPositions(open) == open < maxOpen

CountOpen(b) ==
    /\ pc[b] = "count"
    /\ IF evaluateMaxOpenPositions(Cardinality(OpenIn(op[b].wallet)))
         THEN /\ Goto(b, "dup") /\ UNCHANGED openLocks
              /\ op' = [op EXCEPT ![b].rival =
                          RivalAt(b, Inside \ {"gates", "count", "notify"})]
         ELSE Return(b)
    /\ UNCHANGED <<unverified, envVars>>

evaluateDuplicateOpenPosition(k) == OpenFor(k) = {}

CheckDuplicate(b) ==
    /\ pc[b] = "dup"
    /\ IF evaluateDuplicateOpenPosition(KeyOf(b))
         THEN Goto(b, "balance") /\ UNCHANGED <<openLocks, op>>
         ELSE Return(b)
    /\ UNCHANGED <<unverified, envVars>>

evaluateWalletBalance(balance) == balance >= 1 + Reserve

PendingIn(w) == \E i \in Swaps("pending") : txs[i].key[1] = w

CheckBalance(b) ==
    /\ pc[b] = "balance"
    /\ IF evaluateWalletBalance(sol[op[b].wallet])
         THEN /\ Goto(b, "build") /\ UNCHANGED openLocks
              /\ op' = [op EXCEPT ![b].rival = @ \/ PendingIn(op[b].wallet)
                                                \/ RivalAt(b, {"build"})]
         ELSE Return(b)
    /\ UNCHANGED <<unverified, envVars>>

\* A check's query fails: openPosition throws before anything was sent.
CheckError(b) ==
    /\ pc[b] \in {"gates", "count", "dup", "balance"} /\ Fault
    /\ Return(b)
    /\ UNCHANGED <<unverified, txs, sol, runs, crashed, maxOpen>>
-----------------------------------------------------------------------------
\* --- openPosition: the swap --------------------------------------------------

\* sendSwap built the transaction and broadcasts it; no second broadcast.
Broadcast(b) ==
    /\ pc[b] = "build"
    /\ txs' = Append(txs, [key |-> KeyOf(b), state |-> "pending", row |-> "none",
                           trade |-> "none", rival |-> op[b].rival,
                           planned |-> op[b].planned])
    /\ op' = [op EXCEPT ![b].tx = Len(txs) + 1]
    /\ Goto(b, "confirm")
    /\ UNCHANGED <<openLocks, unverified, sol, runs, faults, crashed, maxOpen>>

\* Quotes, build attempts and the fallback executor are used up.
BuildFails(b) ==
    /\ pc[b] = "build" /\ Fault
    /\ Goto(b, "failed")
    /\ UNCHANGED <<openLocks, unverified, op, txs, sol, runs, crashed, maxOpen>>

\* The confirmation throws: the swap reverted or expired, or nobody knows.
SwapThrows(b) ==
    /\ pc[b] = "confirm"
    /\ \/ txs[op[b].tx].state = "dead" /\ UNCHANGED faults
       \/ Fault
    /\ Goto(b, "failed")
    /\ UNCHANGED <<openLocks, unverified, op, txs, sol, runs, crashed, maxOpen>>

SetTrade(i, status) == txs' = [txs EXCEPT ![i].trade = status]

\* recordFailedTrade, which swallows its own error.  Only a verification
\* failure is alerted: notifyError is awaited.
RecordFailed(b) ==
    /\ pc[b] \in {"failed", "lost"}
    /\ \/ /\ UNCHANGED faults
          /\ IF op[b].tx = 0 THEN UNCHANGED txs ELSE SetTrade(op[b].tx, "failed")
       \/ Fault /\ UNCHANGED txs
    /\ IF pc[b] = "lost"
         THEN Goto(b, "alert") /\ UNCHANGED <<op, openLocks>>
         ELSE Return(b)
    /\ UNCHANGED <<unverified, sol, runs, crashed, maxOpen>>

\* The signature is back: lock the key, then ask what was received.
Confirmed(b) ==
    /\ pc[b] = "confirm" /\ txs[op[b].tx].state = "landed"
    /\ unverified' = unverified \cup {KeyOf(b)}
    /\ Goto(b, "verify")
    /\ UNCHANGED <<openLocks, op, envVars>>

Verified(b) ==
    /\ pc[b] = "verify"
    /\ unverified' = unverified \ {KeyOf(b)}
    /\ Goto(b, "write")
    /\ UNCHANGED <<openLocks, op, envVars>>

\* getActualTokenDelta fails three times.
VerifyFails(b) ==
    /\ pc[b] = "verify" /\ Fault
    /\ Goto(b, "lost")
    /\ UNCHANGED <<openLocks, unverified, op, txs, sol, runs, crashed, maxOpen>>
-----------------------------------------------------------------------------
\* --- openPosition: the rows --------------------------------------------------

SetRows(i) == txs' = [txs EXCEPT ![i].row = "open", ![i].trade = "confirmed"]

\* Entry price, dev wallet and exit fallback are resolved, then Trade and
\* Position are created in one transaction; the partial unique index allows
\* one OPEN position per wallet and token.
WriteRows(b) ==
    /\ pc[b] = "write" /\ OpenFor(KeyOf(b)) = {}
    /\ SetRows(op[b].tx)
    /\ Goto(b, "notify")
    /\ UNCHANGED <<openLocks, unverified, op, sol, runs, faults, crashed, maxOpen>>

\* The transaction is refused, or fails, or commits and its answer is lost.
WriteFails(b) ==
    /\ pc[b] = "write"
    /\ \/ OpenFor(KeyOf(b)) # {} /\ UNCHANGED <<txs, faults>>
       \/ Fault /\ UNCHANGED txs
       \/ Fault /\ OpenFor(KeyOf(b)) = {} /\ SetRows(op[b].tx)
    /\ Goto(b, "alone")
    /\ UNCHANGED <<openLocks, unverified, op, sol, runs, crashed, maxOpen>>

\* The trade alone; its signature is unique, so it fails if the transaction had
\* committed after all.
RecordAlone(b) ==
    /\ pc[b] = "alone"
    /\ \/ /\ txs[op[b].tx].trade = "none"
          /\ SetTrade(op[b].tx, "confirmed")
          /\ Goto(b, "alert") /\ UNCHANGED <<openLocks, op, faults>>
       \/ /\ (txs[op[b].tx].trade # "none" /\ UNCHANGED faults) \/ Fault
          /\ Return(b) /\ UNCHANGED txs
    /\ UNCHANGED <<unverified, sol, runs, crashed, maxOpen>>

\* notifyError, or the notifications of a success: sent or not, the call is over.
Notify(b) ==
    /\ pc[b] \in {"alert", "notify"}
    /\ Return(b)
    /\ UNCHANGED <<unverified, envVars>>
-----------------------------------------------------------------------------
\* --- Surroundings --------------------------------------------------------------

Land(i) ==
    /\ txs[i].state = "pending"
    /\ sol[txs[i].key[1]] >= 1
    /\ txs' = [txs EXCEPT ![i].state = "landed"]
    /\ sol' = [sol EXCEPT ![txs[i].key[1]] = @ - 1]
    /\ UNCHANGED <<procVars, runs, faults, crashed, maxOpen>>

\* A swap that cannot be paid for, or is unlucky, reverts or expires.
Drop(i) ==
    /\ txs[i].state = "pending"
    /\ IF sol[txs[i].key[1]] >= 1 THEN Fault ELSE UNCHANGED faults
    /\ txs' = [txs EXCEPT ![i].state = "dead"]
    /\ UNCHANGED <<procVars, sol, runs, crashed, maxOpen>>

\* The sell side closes a position and the proceeds arrive.
Sell(i) ==
    /\ txs[i].row = "open"
    /\ txs' = [txs EXCEPT ![i].row = "closed"]
    /\ sol' = [sol EXCEPT ![txs[i].key[1]] = @ + 1]
    /\ UNCHANGED <<procVars, runs, faults, crashed, maxOpen>>

\* isLockActive drops a lock older than RECONCILIATION_LOCK_TTL_MS.
LockLapses(k) ==
    /\ k \in unverified
    /\ unverified' = unverified \ {k}
    /\ UNCHANGED <<openLocks, pc, op, envVars>>

Crash ==
    /\ Fault
    /\ crashed' = TRUE
    /\ openLocks' = {} /\ unverified' = {}
    /\ pc' = [b \in Buyer |-> "idle"] /\ op' = [b \in Buyer |-> Idle]
    /\ UNCHANGED <<txs, sol, runs, maxOpen>>

\* The await-bounded steps of a call, errors apart.
Step(b) ==
    \/ NextConfig(b) \/ EndRun(b) \/ CheckPlan(b) \/ Enter(b) \/ PassGates(b)
    \/ CountOpen(b) \/ CheckDuplicate(b) \/ CheckBalance(b) \/ Broadcast(b)
    \/ SwapThrows(b) \/ RecordFailed(b) \/ Confirmed(b) \/ Verified(b) \/ WriteRows(b)
    \/ WriteFails(b) \/ RecordAlone(b) \/ Notify(b)

Failure(b) == PlanUnknown(b) \/ Refuse(b) \/ CheckError(b) \/ BuildFails(b) \/ VerifyFails(b)

ChainStep == \E i \in DOMAIN txs : Land(i) \/ Drop(i)

Next ==
    \/ \E b \in Buyer : Begin(b) \/ Step(b) \/ Failure(b)
    \/ ChainStep \/ Crash
    \/ \E i \in DOMAIN txs : Sell(i)
    \/ \E k \in Key : LockLapses(k)

Spec == Init /\ [][Next]_vars

\* Promises settle, the chain settles every swap, time passes.
Fairness ==
    /\ \A b \in Buyer : WF_vars(Step(b))
    /\ WF_vars(ChainStep)
    /\ \A k \in Key : WF_vars(LockLapses(k))

FairSpec == Spec /\ Fairness
-----------------------------------------------------------------------------
\* --- Properties ----------------------------------------------------------------

InHand(i) == \E b \in Buyer : pc[b] \in Following /\ op[b].tx = i

Settled(i) == txs[i].state # "dead" /\ txs[i].row # "closed"

\* A wallet never holds two buys of one token that the program knows of: a
\* second one needs a first that no call follows and no position records.
OneBuyTracked ==
    \A i, j \in DOMAIN txs :
      /\ txs[i].key = txs[j].key
      /\ Settled(i) /\ (InHand(i) \/ txs[i].row = "open")
      /\ Settled(j) /\ (InHand(j) \/ txs[j].row = "open")
      => i = j

\* While a landed buy is unverified no further buy of the token goes out from
\* the wallet, by any run.
NoBuyWhileUnverified ==
    [][\A i \in DOMAIN txs' \ DOMAIN txs : txs'[i].key \notin unverified]_vars

\* maxOpenPositions is exceeded only by buys that overlapped in the wallet: each
\* counted the open rows while another had passed its own count.
LimitNeedsRival ==
    \A w \in Wallet :
      Cardinality(OpenIn(w)) > maxOpen => \E i \in OpenIn(w) : txs[i].rival

\* The plan's limit is exceeded only by overlapping launches, by a mirrored buy,
\* or when the plan could not be read.
PlanLimitNeedsRival ==
    Cardinality(OpenRows) > PlanMax => \E i \in OpenRows : ~txs[i].planned

\* The reserve is touched only when the balance was read while another swap of
\* the wallet was on its way.
ReserveNeedsRival ==
    \A w \in Wallet :
      sol[w] < Reserve =>
        \E i \in Swaps("landed") : txs[i].key[1] = w /\ txs[i].rival /\ txs[i].row # "closed"

\* A position has its CONFIRMED trade and its swap landed: rows are written
\* together and only after the swap.
RowHasTrade ==
    \A i \in DOMAIN txs :
      txs[i].row # "none" => txs[i].state = "landed" /\ txs[i].trade = "confirmed"

\* One failure loses no landed buy from the books: a call that fails after the
\* swap leaves at least a trade row, unless the process itself stopped.
LandedIsRecorded ==
    \A i \in Swaps("landed") :
      txs[i].trade = "none" /\ ~InHand(i) => crashed \/ faults >= 2

\* The books of the buy side: types, one buy per wallet and token, positions only
\* of landed and recorded swaps, no landed swap unrecorded by one failure.
BuysAreSound == TypeOK /\ OneBuyTracked /\ RowHasTrade /\ LandedIsRecorded

\* safety.ts's three limits (positions per wallet, positions of the plan, the SOL
\* reserve) give way only to buys that overlapped.
LimitsNeedRivals == LimitNeedsRival /\ PlanLimitNeedsRival /\ ReserveNeedsRival

NothingLocked == openLocks \cup unverified = {}

=============================================================================
