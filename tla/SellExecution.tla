---------------------------- MODULE SellExecution ----------------------------
(***************************************************************************)
(* The sell side of apps/api/src/trading/positionManager.ts for one live   *)
(* position: closePosition and executePartialSell with their locked        *)
(* bodies, sendSwapWithBroadcastRetry, the verification that follows, the  *)
(* failure bookkeeping, and the callers that decide to sell                *)
(* (PriceMonitor through checkAndMaybeClose, EmergencyExitMonitor, the     *)
(* sell routes).                                                           *)
(*                                                                         *)
(* Everything runs in one Node process on one PositionManager, so code     *)
(* between two awaits is atomic and each action below is such a stretch.   *)
(* The process may crash between any two; database and chain survive it.   *)
(* positionCloseLock is used through what ClaimLease promises.             *)
(*                                                                         *)
(* Amounts are small naturals.  The wallet may hold Other tokens of the    *)
(* same mint that do not belong to the position.                           *)
(***************************************************************************)
EXTENDS Integers, Sequences, FiniteSets

CONSTANTS PriceTick,      \* processPosition calls (two may overlap: watchdog)
          EmergencyTick,  \* EmergencyExitMonitor's tick
          UserCall,       \* sell and partial-sell requests
          ExitMode,       \* "plain", "ladder" (institutional) or "tp1"
          DirectStop,     \* realValueStopEnabled / hard loss ceiling
          Amount,         \* tokens bought
          Other,          \* further tokens of the mint in the wallet
          TierAmount,     \* what one ladder tier, or TP1, asks to sell
          Tiers,          \* number of ladder tiers
          Moonbag,        \* moonbagReserveAmountToken
          MaxTries,       \* SELL_BROADCAST_RETRY_MAX_ATTEMPTS
          MaxPermanent,   \* maxPermanentRouteRetries
          MaxFaults,      \* bound on failures, losses and crashes
          MaxRequests     \* bound on user requests

ASSUME AmountAssumption ==
    /\ Amount \in Nat \ {0} /\ Other \in Nat /\ TierAmount \in Nat /\ Moonbag \in Nat
    /\ Tiers \in Nat
ASSUME BoundAssumption ==
    /\ MaxTries \in Nat \ {0} /\ MaxPermanent \in Nat \ {0}
    /\ MaxFaults \in Nat /\ MaxRequests \in Nat
ASSUME ModeAssumption == ExitMode \in {"plain", "ladder", "tp1"} /\ DirectStop \in BOOLEAN

Task == PriceTick \cup EmergencyTick \cup UserCall

ASSUME CallerAssumption ==
    /\ PriceTick \cap (EmergencyTick \cup UserCall) = {}
    /\ EmergencyTick \cap UserCall = {}
    /\ {"none", "orphan", "stale"} \cap Task = {}

VARIABLES
    \* The Position row and the rows beside it.
    status,      \* OPEN or CLOSED
    remaining,   \* remainingAmountToken ?? amountToken
    unsellable,  \* sellUnsellable
    noRoute,     \* noRouteSellFailureCount
    failAge,     \* lastSellFailureAt: "never", within the backoff, or past it
    trailing,    \* trailingActivatedAt is set
    exits,       \* positionPartialExit rows [tier, tx]
    trades,      \* transactions with a CONFIRMED SELL trade
    \* The chain.
    balance,     \* the wallet's balance of the mint
    txs,         \* swaps broadcast, in order
    \* The process and the lock.
    claim,       \* positionCloseLock: a task, "orphan", "stale" or "none"
    unverified,  \* unverifiedSwapLocks has the position
    pc, op,      \* each task's place and locals
    \* The surroundings.
    breached,    \* an exit rule fires on every price tick from now on
    faults, requests,
    exitLogs     \* results for which an emergencyExitLog was written

dbVars    == <<status, remaining, unsellable, noRoute, failAge, trailing, exits, trades>>
chainVars == <<balance, txs>>
envVars   == <<breached, faults, requests>>
vars      == <<dbVars, chainVars, claim, unverified, pc, op, envVars, exitLogs>>

\* Places at which the position is in PositionCloseLock's in-process Set.
InSet == {"claim", "read", "balance", "empty", "send", "confirm", "recheck", "failed",
          "noRoute", "mark", "verify", "trade", "exitRow", "reduce", "close"}
PC    == InSet \cup {"idle", "tick", "decide", "call", "release", "activate", "log"}

\* Places at which a task follows up the swap it sent.
Following == {"confirm", "verify", "trade", "exitRow", "reduce", "close"}

\* Failure classes of classifySellFailure, as far as callers tell them apart:
\* route_unavailable; blockhash_expired, rpc_timeout, jupiter_failure; others.
Category == {"route", "retry", "other"}

Bigger(x, y)  == IF x > y THEN x ELSE y
Smaller(x, y) == IF x < y THEN x ELSE y

Idle == [kind |-> "none", tier |-> 0, want |-> 0, base |-> 0, trailed |-> FALSE, amt |-> 0,
         tx |-> 0, tries |-> 0, cat |-> "other", result |-> "none"]

OpType == [kind : {"none", "close", "partial"}, tier : Int, want : Nat, base : 0..Amount,
           trailed : BOOLEAN, amt : Nat, tx : Nat, tries : 0..MaxTries, cat : Category,
           result : {"none", "closed", "sold", "noop", "threw"}]

TxType == [kind : {"close", "partial"}, tier : Int, amt : Nat, base : 0..Amount,
           state : {"pending", "landed", "dead"}, booked : BOOLEAN]

RowTypeOK ==
    /\ status \in {"OPEN", "CLOSED"} /\ remaining \in 0..Amount
    /\ unsellable \in BOOLEAN /\ noRoute \in Nat
    /\ failAge \in {"never", "recent", "past"} /\ trailing \in BOOLEAN

ChainTypeOK ==
    /\ balance \in 0..(Amount + Other) /\ txs \in Seq(TxType)
    /\ exits \in SUBSET [tier : Int, tx : 1..Len(txs)]
    /\ trades \in SUBSET (1..Len(txs))

CallTypeOK ==
    /\ claim \in Task \cup {"none", "orphan", "stale"} /\ unverified \in BOOLEAN
    /\ pc \in [Task -> PC] /\ op \in [Task -> OpType]

EnvTypeOK ==
    /\ breached \in BOOLEAN /\ faults \in 0..MaxFaults /\ requests \in 0..MaxRequests
    /\ exitLogs \in SUBSET {"closed", "noop"}

TypeOK == RowTypeOK /\ ChainTypeOK /\ CallTypeOK /\ EnvTypeOK

Init ==
    /\ status = "OPEN" /\ remaining = Amount /\ unsellable = FALSE /\ noRoute = 0
    /\ failAge = "never" /\ trailing = FALSE /\ exits = {} /\ trades = {}
    /\ balance = Amount + Other /\ txs = <<>>
    /\ claim = "none" /\ unverified = FALSE
    /\ pc = [t \in Task |-> "idle"] /\ op = [t \in Task |-> Idle]
    /\ breached = FALSE /\ faults = 0 /\ requests = 0
    /\ exitLogs = {}
-----------------------------------------------------------------------------
Goto(t, place) == pc' = [pc EXCEPT ![t] = place]

\* The locked body is over: next comes lock.release().
Leave(t, result) ==
    /\ pc' = [pc EXCEPT ![t] = "release"]
    /\ op' = [op EXCEPT ![t].result = result]

Finish(t) ==
    /\ pc' = [pc EXCEPT ![t] = "idle"]
    /\ op' = [op EXCEPT ![t] = Idle]

Fault == faults < MaxFaults /\ faults' = faults + 1

\* lock.acquire's in-process Set: filled from Enter to the start of release.
Busy == \E t \in Task : pc[t] \in InSet

Taken(tier) == \E e \in exits : e.tier = tier
-----------------------------------------------------------------------------
\* --- Deciding to sell -----------------------------------------------------

\* The row as a caller first reads it: PriceMonitor and EmergencyExitMonitor
\* list OPEN, sellable positions, the routes load an OPEN one.
Read(t) ==
    /\ pc[t] = "idle"
    /\ status = "OPEN"
    /\ t \notin UserCall => ~unsellable
    /\ t \in UserCall => requests < MaxRequests
    /\ requests' = IF t \in UserCall THEN requests + 1 ELSE requests
    /\ op' = [op EXCEPT ![t].base = remaining]
    /\ Goto(t, IF t \in PriceTick THEN "tick" ELSE "decide")
    /\ UNCHANGED <<dbVars, chainVars, claim, unverified, breached, faults, exitLogs>>

\* checkAndMaybeClose reads the row again; a position that is closed,
\* unsellable or inside its no-route backoff is left alone.
TickMaySell ==
    /\ status = "OPEN" /\ ~unsellable
    /\ ~(noRoute > 0 /\ failAge = "recent")

TickRead(t) ==
    /\ pc[t] = "tick"
    /\ IF TickMaySell
         THEN /\ Goto(t, "decide")
              /\ op' = [op EXCEPT ![t].base = remaining, ![t].trailed = trailing]
         ELSE Finish(t)
    /\ UNCHANGED <<dbVars, chainVars, claim, unverified, envVars, exitLogs>>

\* No exit rule fires: nothing is sold.
Decline(t) ==
    /\ pc[t] = "decide"
    /\ t \in PriceTick => ~breached
    /\ Finish(t)
    /\ UNCHANGED <<dbVars, chainVars, claim, unverified, envVars, exitLogs>>

\* Mutant of Enter: only closePosition asks for the reconciliation lock, as
\* before the fix of 2026-07-14.
EnterPartialUnchecked(t, kind, tier, want) ==
    /\ IF (unverified /\ kind = "close") \/ Busy
         THEN Finish(t)
         ELSE /\ Goto(t, "claim")
              /\ op' = [op EXCEPT ![t].kind = kind, ![t].tier = tier, ![t].want = want]
    /\ UNCHANGED <<dbVars, chainVars, claim, unverified, envVars, exitLogs>>

\* The first, await-free stretch of closePosition and executePartialSell: the
\* reconciliation lock, then the in-process Set; a refused call throws or
\* returns sold: false.
Enter(t, kind, tier, want) ==
    /\ IF unverified \/ Busy
         THEN Finish(t)
         ELSE /\ Goto(t, "claim")
              /\ op' = [op EXCEPT ![t].kind = kind, ![t].tier = tier, ![t].want = want]
    /\ UNCHANGED <<dbVars, chainVars, claim, unverified, envVars, exitLogs>>

closePosition(t) == Enter(t, "close", 0, 0)

executePartialSell(t, tier, want) == Enter(t, "partial", tier, want)

\* A full exit: an exit rule of the tick, an emergency, a sell request.
DecideClose(t) == pc[t] = "decide" /\ closePosition(t)

\* processPosition closes before checkAndMaybeClose when the wallet is empty
\* or a direct stop fires; no gate of checkAndMaybeClose applies.
DirectClose(t) ==
    /\ pc[t] = "tick"
    /\ DirectStop \/ (balance = 0 /\ op[t].base > 0)
    /\ closePosition(t)

\* The exit rows are read; the call goes out when the answer is back, and the
\* rows may have changed by then.
Choose(t, tier, want) ==
    /\ Goto(t, "call")
    /\ op' = [op EXCEPT ![t].tier = tier, ![t].want = want]
    /\ UNCHANGED <<dbVars, chainVars, claim, unverified, envVars, exitLogs>>

CallPartial(t) == pc[t] = "call" /\ executePartialSell(t, op[t].tier, op[t].want)

\* evaluateNextPartialExit: the lowest open tier (tiers ascend in gain), clamped
\* to the moonbag of the row read before.
LadderAmount(base) ==
    Smaller(TierAmount, Bigger(0, base - Moonbag))

DecideLadder(t) ==
    /\ pc[t] = "decide" /\ t \in PriceTick /\ ExitMode = "ladder" /\ ~breached
    /\ \E tier \in 0..(Tiers - 1) :
         /\ ~Taken(tier) /\ \A lower \in 0..(tier - 1) : Taken(lower)
         /\ LadderAmount(op[t].base) > 0
         /\ Choose(t, tier, LadderAmount(op[t].base))

\* TP1 asks for a fraction of the original amount, whatever remains.
DecideTp1(t) ==
    /\ pc[t] = "decide" /\ t \in PriceTick /\ ExitMode = "tp1" /\ ~breached
    /\ ~op[t].trailed
    /\ executePartialSell(t, 0, TierAmount)

\* The partial-sell route: a percentage of the row read before, under a
\* negative index.
ManualTier == -(Cardinality({e \in exits : e.tier < 0}) + 1)

DecideManual(t) ==
    /\ pc[t] = "decide" /\ t \in UserCall
    /\ \E want \in 1..op[t].base : Choose(t, ManualTier, want)
-----------------------------------------------------------------------------
\* --- The lock --------------------------------------------------------------

\* lock.acquire's claim, as ClaimLease grants it: free, or overdue.
Claim(t) ==
    /\ pc[t] = "claim"
    /\ IF claim \in {"none", "stale"}
         THEN claim' = t /\ Goto(t, "read") /\ UNCHANGED op
         ELSE Finish(t) /\ UNCHANGED claim
    /\ UNCHANGED <<dbVars, chainVars, unverified, envVars, exitLogs>>

\* acquire throws on a database error; its INSERT may have taken effect.
ClaimError(t) ==
    /\ pc[t] = "claim" /\ Fault
    /\ claim' \in {claim} \cup (IF claim = "none" THEN {"orphan"} ELSE {})
    /\ Finish(t)
    /\ UNCHANGED <<dbVars, chainVars, unverified, breached, requests, exitLogs>>

\* Mutant of After: TP1's caller does not look at the result of the sale.
AfterAny(t) ==
    IF t \in EmergencyTick /\ op[t].result \in {"closed", "noop"} THEN "log"
    ELSE IF op[t].kind = "partial" /\ t \in PriceTick /\ ExitMode = "tp1" THEN "activate"
    ELSE "idle"

\* lock.release(): the Set entry is gone, now the row goes (or its deletion
\* fails and the row stays).  The caller then goes on with the result.
After(t) ==
    IF t \in EmergencyTick /\ op[t].result \in {"closed", "noop"} THEN "log"
    ELSE IF op[t].result = "sold" /\ t \in PriceTick /\ ExitMode = "tp1" THEN "activate"
    ELSE "idle"

ReleaseRow(t) ==
    /\ pc[t] = "release"
    /\ \/ claim' = (IF claim = t THEN "none" ELSE claim) /\ UNCHANGED faults
       \/ Fault /\ claim' = (IF claim = t THEN "orphan" ELSE claim)
    /\ IF After(t) = "idle" THEN Finish(t) ELSE Goto(t, After(t)) /\ UNCHANGED op
    /\ UNCHANGED <<dbVars, chainVars, unverified, breached, requests, exitLogs>>

\* STALE_LOCK_TTL_MS passes for a claim nobody will release.
ClaimLapses ==
    /\ claim = "orphan" /\ claim' = "stale"
    /\ UNCHANGED <<dbVars, chainVars, unverified, pc, op, envVars, exitLogs>>
-----------------------------------------------------------------------------
\* --- The locked body: checks and amount -------------------------------------

\* The row is read again under the lock; stop ends the call there.
BodyStart(t, stop, want, base) ==
    /\ pc[t] = "read"
    /\ IF stop
         THEN Leave(t, "noop")
         ELSE /\ Goto(t, "balance")
              /\ op' = [op EXCEPT ![t].base = base,
                          ![t].want = IF op[t].kind = "close" THEN want ELSE op[t].want]
    /\ UNCHANGED <<dbVars, chainVars, claim, unverified, envVars, exitLogs>>

TierDone(t) == op[t].kind = "partial" /\ Taken(op[t].tier)

\* Mutants of ReadLocked: one check forgotten, or the caller's older row kept.
ReadLockedAnyStatus(t) == BodyStart(t, unsellable \/ TierDone(t), remaining, remaining)

ReadLockedRouteless(t) == BodyStart(t, status # "OPEN" \/ TierDone(t), remaining, remaining)

ReadLockedAnyTier(t) == BodyStart(t, status # "OPEN" \/ unsellable, remaining, remaining)

ReadLockedStale(t) ==
    BodyStart(t, status # "OPEN" \/ unsellable \/ TierDone(t), remaining, op[t].base)

\* A close that lost the race, an unsellable position and a tier already taken
\* end here.
ReadLocked(t) ==
    BodyStart(t, status # "OPEN" \/ unsellable \/ TierDone(t), remaining, remaining)

\* getRealTokenBalance caps the amount.  Nothing to sell: a close reconciles,
\* a partial sell is skipped.
ReadBalance(t) ==
    /\ pc[t] = "balance"
    /\ LET amt == Smaller(op[t].want, balance) IN
         IF amt > 0
           THEN Goto(t, "send") /\ op' = [op EXCEPT ![t].amt = amt, ![t].tries = 1]
           ELSE IF op[t].kind = "close" THEN Goto(t, "empty") /\ UNCHANGED op
                                        ELSE Leave(t, "noop")
    /\ UNCHANGED <<dbVars, chainVars, claim, unverified, envVars, exitLogs>>

\* Zero-balance reconciliation: CLOSED, no PnL, no sale.
CloseEmpty(t) ==
    /\ pc[t] = "empty"
    /\ status' = "CLOSED"
    /\ Leave(t, "closed")
    /\ UNCHANGED <<remaining, unsellable, noRoute, failAge, trailing, exits, trades,
                   chainVars, claim, unverified, envVars, exitLogs>>

\* A database or RPC error at an await of the locked body that no catch
\* handles: the call throws, the lock is released.
BodyError(t) ==
    /\ pc[t] \in {"read", "balance", "empty", "failed", "noRoute", "mark", "trade", "exitRow",
                  "reduce", "close"}
    /\ Fault
    /\ Leave(t, "threw")
    /\ UNCHANGED <<dbVars, chainVars, claim, unverified, breached, requests, exitLogs>>
-----------------------------------------------------------------------------
\* --- sendSwapWithBroadcastRetry ---------------------------------------------

\* broadcastTransaction: one signed swap reaches the network.
Broadcast(t) ==
    /\ pc[t] = "send"
    /\ txs' = Append(txs, [kind |-> op[t].kind, tier |-> op[t].tier, amt |-> op[t].amt,
                           base |-> op[t].base, state |-> "pending", booked |-> FALSE])
    /\ op' = [op EXCEPT ![t].tx = Len(txs) + 1]
    /\ Goto(t, "confirm")
    /\ UNCHANGED <<dbVars, balance, claim, unverified, envVars, exitLogs>>

\* The catch of the retry loop: a retryable class rechecks the balance and
\* goes again while tries are left, any other throws.
Caught(t, cat) ==
    /\ op' = [op EXCEPT ![t].cat = cat]
    /\ Goto(t, IF cat = "retry" /\ op[t].tries < MaxTries THEN "recheck" ELSE "failed")
    /\ UNCHANGED <<dbVars, chainVars, claim, unverified, breached, requests, exitLogs>>

\* Quote, build or simulation fails for good before anything is broadcast.
PrepareFails(t) ==
    /\ pc[t] = "send" /\ Fault
    /\ \E cat \in Category : Caught(t, cat)

\* The network error, or timeout, that hides whether the swap landed.
OutcomeUnknown(t) ==
    /\ pc[t] = "confirm" /\ Fault
    /\ \E cat \in {"retry", "other"} : Caught(t, cat)

\* The swap is known not to execute: reverted on-chain, or its blockhash
\* expired.
KnownDead(t) ==
    /\ pc[t] = "confirm" /\ txs[op[t].tx].state = "dead"
    /\ \E cat \in {"retry", "other"} : Caught(t, cat)
    /\ UNCHANGED faults

Retry(t) ==
    /\ pc' = [pc EXCEPT ![t] = "send"]
    /\ op' = [op EXCEPT ![t].tries = @ + 1]

\* The duplicate guard: a balance that dropped below the amount aborts.
Recheck(t) ==
    /\ pc[t] = "recheck"
    /\ IF balance < op[t].amt THEN Goto(t, "failed") /\ UNCHANGED op
                              ELSE Retry(t)
    /\ UNCHANGED <<dbVars, chainVars, claim, unverified, envVars, exitLogs>>

\* The recheck itself fails and is taken for "still there".
RecheckFails(t) ==
    /\ pc[t] = "recheck" /\ Fault
    /\ Retry(t)
    /\ UNCHANGED <<dbVars, chainVars, claim, unverified, breached, requests, exitLogs>>

\* The catch of the locked body.  A close counts the failure and dates it; a
\* partial sell does neither.
Failed(t) ==
    /\ pc[t] = "failed"
    /\ failAge' = IF op[t].kind = "close" THEN "recent" ELSE failAge
    /\ IF op[t].cat = "route" THEN Goto(t, "noRoute") /\ UNCHANGED op
                              ELSE Leave(t, "threw")
    /\ UNCHANGED <<status, remaining, unsellable, noRoute, trailing, exits, trades,
                   chainVars, claim, unverified, envVars, exitLogs>>

\* recordPermanentSellFailure, first write.  A longer backoff may start.
CountNoRoute(t) ==
    /\ pc[t] = "noRoute"
    /\ noRoute' = noRoute + 1
    /\ failAge' \in IF failAge = "past" THEN {"past", "recent"} ELSE {failAge}
    /\ IF ~unsellable /\ noRoute' >= MaxPermanent THEN Goto(t, "mark") /\ UNCHANGED op
                                   ELSE Leave(t, "threw")
    /\ UNCHANGED <<status, remaining, unsellable, trailing, exits, trades,
                   chainVars, claim, unverified, envVars, exitLogs>>

\* recordPermanentSellFailure, second write.
MarkUnsellable(t) ==
    /\ pc[t] = "mark"
    /\ unsellable' = TRUE
    /\ Leave(t, "threw")
    /\ UNCHANGED <<status, remaining, noRoute, failAge, trailing, exits, trades,
                   chainVars, claim, unverified, envVars, exitLogs>>

\* The backoff of computeSellRetryBackoffMs has passed.
BackoffPasses ==
    /\ failAge = "recent" /\ failAge' = "past"
    /\ UNCHANGED <<status, remaining, unsellable, noRoute, trailing, exits, trades,
                   chainVars, claim, unverified, pc, op, envVars, exitLogs>>
-----------------------------------------------------------------------------
\* --- Verification and record ------------------------------------------------

\* sendSwap returns the signature.  closePositionLocked sets the
\* reconciliation lock before it verifies; executePartialSellLocked does not.
Confirmed(t) ==
    /\ pc[t] = "confirm" /\ txs[op[t].tx].state = "landed"
    /\ unverified' = (unverified \/ op[t].kind = "close")
    /\ Goto(t, "verify")
    /\ UNCHANGED <<dbVars, chainVars, claim, op, envVars, exitLogs>>

\* getActualSolDelta answers, after up to three attempts.
Verified(t) ==
    /\ pc[t] = "verify"
    /\ unverified' = (unverified /\ op[t].kind # "close")
    /\ Goto(t, "trade")
    /\ UNCHANGED <<dbVars, chainVars, claim, op, envVars, exitLogs>>

\* It never answers: FAILED trade, throw.  The reconciliation lock of a close
\* stays.
VerifyFails(t) ==
    /\ pc[t] = "verify" /\ Fault
    /\ Leave(t, "threw")
    /\ UNCHANGED <<dbVars, chainVars, claim, unverified, breached, requests, exitLogs>>

\* Mutant of LockLapses: the lock of before 2026-07-12, kept until a restart.
LockStays == unverified /\ UNCHANGED vars

\* isLockActive drops a reconciliation lock after RECONCILIATION_LOCK_TTL_MS.
LockLapses ==
    /\ unverified /\ unverified' = FALSE
    /\ UNCHANGED <<dbVars, chainVars, claim, pc, op, envVars, exitLogs>>

\* trade.create, CONFIRMED.
RecordTrade(t) ==
    /\ pc[t] = "trade"
    /\ trades' = trades \cup {op[t].tx}
    /\ Goto(t, IF op[t].kind = "close" THEN "close" ELSE "exitRow")
    /\ UNCHANGED <<status, remaining, unsellable, noRoute, failAge, trailing, exits,
                   chainVars, claim, unverified, op, envVars, exitLogs>>

\* positionPartialExit.create.
RecordExit(t) ==
    /\ pc[t] = "exitRow"
    /\ exits' = exits \cup {[tier |-> op[t].tier, tx |-> op[t].tx]}
    /\ Goto(t, "reduce")
    /\ UNCHANGED <<status, remaining, unsellable, noRoute, failAge, trailing, trades,
                   chainVars, claim, unverified, op, envVars, exitLogs>>

\* The swap's effect is now in the position row.
Book(t) == txs' = [txs EXCEPT ![op[t].tx].booked = TRUE]

\* position.update after a partial sell, from the row read under the lock.
Reduce(t) ==
    /\ pc[t] = "reduce"
    /\ remaining' = Bigger(0, op[t].base - op[t].amt)
    /\ Book(t)
    /\ Leave(t, "sold")
    /\ UNCHANGED <<status, unsellable, noRoute, failAge, trailing, exits, trades, balance,
                   claim, unverified, envVars, exitLogs>>

\* position.update after a close.  The notifications that follow read their
\* recipients from the database, and no catch is around them; one is around the
\* share card after them.
Close(t) ==
    /\ pc[t] = "close"
    /\ status' = "CLOSED"
    /\ Book(t)
    /\ \/ Leave(t, "closed") /\ UNCHANGED faults
       \/ Leave(t, "threw") /\ Fault
    /\ UNCHANGED <<remaining, unsellable, noRoute, failAge, trailing, exits, trades, balance,
                   claim, unverified, breached, requests, exitLogs>>

\* checkAndMaybeCloseTp1Trailing after a sold TP1: stop to breakeven, trailing on.
ActivateTrailing(t) ==
    /\ pc[t] = "activate"
    /\ trailing' = TRUE
    /\ Finish(t)
    /\ UNCHANGED <<status, remaining, unsellable, noRoute, failAge, exits, trades,
                   chainVars, claim, unverified, envVars, exitLogs>>

\* The caller's own write fails.
CallerError(t) ==
    /\ pc[t] \in {"activate", "log"} /\ Fault
    /\ Finish(t)
    /\ UNCHANGED <<dbVars, chainVars, claim, unverified, breached, requests, exitLogs>>

\* EmergencyExitMonitor writes its log and notifies.
WriteExitLog(t) ==
    /\ pc[t] = "log"
    /\ exitLogs' = exitLogs \cup {op[t].result}
    /\ Finish(t)
    /\ UNCHANGED <<dbVars, chainVars, claim, unverified, envVars>>
-----------------------------------------------------------------------------
\* --- Chain and surroundings -------------------------------------------------

SetState(i, s) == txs' = [txs EXCEPT ![i].state = s]

Land(i) ==
    /\ txs[i].state = "pending" /\ balance >= txs[i].amt
    /\ SetState(i, "landed")
    /\ balance' = balance - txs[i].amt
    /\ UNCHANGED <<dbVars, claim, unverified, pc, op, envVars, exitLogs>>

\* A swap reverts or its blockhash expires; always so when the balance is gone.
Drop(i) ==
    /\ txs[i].state = "pending"
    /\ SetState(i, "dead")
    /\ IF balance >= txs[i].amt THEN Fault ELSE UNCHANGED faults
    /\ UNCHANGED <<dbVars, balance, claim, unverified, pc, op, breached, requests, exitLogs>>

\* The price falls through the stop for good.
Breach ==
    /\ ~breached /\ breached' = TRUE
    /\ UNCHANGED <<dbVars, chainVars, claim, unverified, pc, op, faults, requests, exitLogs>>

\* The process crashes and restarts: its memory is gone.  The claim may by
\* then be old enough to be stale.
Crash ==
    /\ Fault
    /\ pc' = [t \in Task |-> "idle"]
    /\ op' = [t \in Task |-> Idle]
    /\ unverified' = FALSE
    /\ claim' \in IF claim \in Task THEN {"orphan", "stale"} ELSE {claim}
    /\ UNCHANGED <<dbVars, chainVars, breached, requests, exitLogs>>

\* What a call does once it has decided.
Body(t) ==
    \/ Claim(t) \/ ReadLocked(t) \/ ReadBalance(t) \/ CloseEmpty(t)
    \/ Broadcast(t) \/ KnownDead(t) \/ Recheck(t)
    \/ Failed(t) \/ CountNoRoute(t) \/ MarkUnsellable(t)
    \/ Confirmed(t) \/ Verified(t) \/ RecordTrade(t) \/ RecordExit(t) \/ Reduce(t) \/ Close(t)
    \/ ReleaseRow(t) \/ ActivateTrailing(t) \/ WriteExitLog(t)

Decide(t) ==
    \/ TickRead(t) \/ DirectClose(t) \/ Decline(t)
    \/ DecideClose(t) \/ DecideLadder(t) \/ DecideTp1(t) \/ DecideManual(t) \/ CallPartial(t)

Failure(t) ==
    ClaimError(t) \/ BodyError(t) \/ PrepareFails(t) \/ OutcomeUnknown(t) \/ RecheckFails(t)
        \/ VerifyFails(t) \/ CallerError(t)

ChainStep == \E i \in 1..Len(txs) : Land(i) \/ Drop(i)
TimePasses == ClaimLapses \/ LockLapses \/ BackoffPasses

Next ==
    \/ \E t \in Task : Read(t) \/ Decide(t) \/ Body(t) \/ Failure(t)
    \/ ChainStep \/ TimePasses \/ Breach \/ Crash

Spec == Init /\ [][Next]_vars

\* Started calls run on, the price timer keeps firing, the chain settles every
\* swap, and every time to live passes.
Fairness ==
    /\ \A t \in Task : WF_vars(Body(t)) /\ WF_vars(Decide(t))
    /\ \A t \in PriceTick : WF_vars(Read(t))
    /\ WF_vars(ChainStep)
    /\ WF_vars(ClaimLapses) /\ WF_vars(LockLapses) /\ WF_vars(BackoffPasses)

FairSpec == Spec /\ Fairness
-----------------------------------------------------------------------------
\* --- Properties ---------------------------------------------------------------

NothingSent == Len(txs') = Len(txs)

\* While a confirmed close waits for its verification, or could not be verified
\* and its reconciliation lock is in force, no caller gets another swap out.
NoSellWhileUnverified == [][unverified => NothingSent]_vars

\* A position once CLOSED stays closed with the amount it closed with, and none
\* of the calls decided while it was open sends another swap.
ClosedIsFinal == [][status = "CLOSED" => status' = "CLOSED" /\ remaining' = remaining
                                          /\ NothingSent]_vars

\* A position given up for lack of a route is never sold again, by no caller,
\* those already past the gate of checkAndMaybeClose included.
UnsellableNotSold == [][unsellable => NothingSent]_vars

\* A ladder tier, TP1, or one manual index is recorded as sold at most once,
\* though no unique index of the table says so.
TierOnce == \A e, f \in exits : e.tier = f.tier => e = f

Landed == {i \in 1..Len(txs) : txs[i].state = "landed"}

InHand(i) == \E t \in Task : pc[t] \in Following /\ op[t].tx = i

\* A swap landed that no call followed up, or one sold more than was left of
\* the position when its call began.
Gap == \E i \in Landed : (~txs[i].booked /\ ~InHand(i)) \/ txs[i].amt > txs[i].base

\* The wallet never loses more than the position's tokens: those that are not
\* the position's stay, unless there is such a gap.
OversellNeedsGap == balance < Other => Gap

\* A crash or error between the writes leaves a prefix of them: a reduced or
\* closed row has its trade, an exit row has its trade, a trade has its swap.
RecordsInOrder ==
    /\ trades \subseteq Landed
    /\ \A e \in exits : e.tx \in trades
    /\ \A i \in 1..Len(txs) : txs[i].booked =>
         /\ i \in trades
         /\ txs[i].kind = "partial" => \E e \in exits : e.tx = i

\* Partial sales that reach the row in a step.
NowBooked == {i \in 1..Len(txs) : txs[i].kind = "partial" /\ ~txs[i].booked /\ txs'[i].booked}

\* Every recorded partial sale lowers what the row says remains by its amount,
\* and nothing else changes it: no update is lost to a row read too early.
RemainingIsWhatIsLeft ==
    [][/\ NowBooked = {} => remaining' = remaining
       /\ \A i \in NowBooked : txs[i].amt <= remaining => remaining' = remaining - txs[i].amt]_vars

\* The sales of a position and its books agree.
SaleRecords == [](TypeOK /\ OversellNeedsGap /\ RecordsInOrder) /\ RemainingIsWhatIsLeft

\* Trailing is on only when the row has TP1's sale.
TrailingAfterSale ==
    trailing => \E i \in 1..Len(txs) :
        txs[i].booked /\ txs[i].kind = "partial" /\ txs[i].tier = 0

\* An exit rule that keeps firing ends in a CLOSED position, or in one given up
\* as unsellable: no lock, backoff or crash stops it for good.
BreachedIsSold == breached ~> status = "CLOSED" \/ unsellable
-----------------------------------------------------------------------------
\* --- What comments and documents say ------------------------------------------

\* unverifiedSwapLocks guards any swap that landed and could not be verified
\* against a second one, a partial sell too.
PartialVerifyFailureLocks ==
    [][\A t \in Task : pc[t] = "verify" /\ pc'[t] = "release" /\ op[t].kind = "partial"
         => unverified']_vars
=============================================================================
