# TLA+ models of the trading engine

Models, model-checking configurations and machine-checked proofs for this
repository (a Solana trading bot in TypeScript). Paths below are relative to
`src/apps/api/src` unless they name another part. The comment at the head of each
module says what it models; `PROJECT.json` lists components, runs, hazards,
theorems and, under `map`, the source lines of every definition.

## The system

The API server, the scanners and all monitor loops run in ONE Node process
(`ecosystem.config.cjs`: fork mode, one instance, restarted after a crash). A
stretch of code between two `await`s is therefore atomic; anything can happen at an
`await`, and the process may stop there. PostgreSQL (through Prisma) and the chain
survive a crash; the fields of the singletons do not. The Telegram bot and the
marketing engine are processes of their own over the same database.

| Component | State | Operations | Modelled in |
|---|---|---|---|
| Position close lock (`trading/positionCloseLock.ts`) | in-process Set; `positionCloseClaim` rows | acquire (INSERT, stale reclaim), release | `PositionCloseLock`, `ClaimLease` |
| PositionManager, sell side (`trading/positionManager.ts`), price and emergency ticks, failure classifier | `unverifiedSwapLocks`; rows of Position, Trade, PositionPartialExit | closePosition, executePartialSell, retry loop, verification, checkAndMaybeClose | `SellExecution` |
| PositionManager, buy side (`positionManager.ts`, `safety.ts`, `autoTrader.ts`, `copyTrading.ts`) | `openLocks`, `unverifiedSwapLocks`, one-open index | evaluateAndMaybeBuy, mirror, openPosition | `OpenPosition` |
| Sell routes (`routes/positions.ts`) | rows of Position and PositionPartialExit | sell, partial, close all, edit limits, admin close | `ManualSells`, `SellExecution` |
| Swaps (`positionManager.ts`'s sendSwap, `solana/dex/`, `jupiter.ts`, `broadcast.ts`, `fastSend.ts`, `jito.ts`) | none | quote, build, simulate, send, confirm, fall back | `SwapRouting` |
| Price monitor (`trading/priceMonitor.ts`) | timer, outlier and alert state | tick, watchdog, high-water mark | `PriceWatch` |
| Exit engines, trailing and time stops, emergency rules | values frozen at open | thresholds to decisions | `ExitRules` |
| Fees and payouts (`business/registerFeeSystem.ts`, `payoutExecutor.ts`, `packages/shared/src/fee.ts`) | PayoutAttempt and fee ledger rows, in-flight map | split, send, record | `ProfitSplit`, `Payout` |
| Correction of booked profits (`apps/api/scripts/reconcilePnl.ts`) | PnL, fees, rewards, its log | read, match, correct in one transaction | `Reconciliation` |
| Plan purchase (`business/planPurchase.ts`) | subscription rows | pay, record | `PlanPurchase` |
| Wallet balances (`routes/wallets.ts`, `wallet/depositMonitor.ts`, `packages/shared/src/wallet/balanceLedger.ts`) | ledger, known balance | poll, refresh, withdraw | `BalanceLedger` |
| RPC failover (`solana/resilientConnection.ts`) | cooldown per provider, reads in flight | run with failover | `RpcFailover` |
| Queue and governor (`lib/priorityQueue.ts`, `detection/scannerConcurrencyGovernor.ts`) | two FIFO lists, slots | enqueue, pump, set concurrency | `ScannerLoad` |
| Launch feed (`solana/pumpfun.ts`, `detection/fallbackLaunchDiscovery.ts`, `scannerHealth.ts`) | subscription, watermark, health, pause flag | reconnect, scan, reconcile | `LaunchFeed`, `ScannerHealth` |
| Pool monitors (`solana/dex/`, `solana/monitorWatchdog.ts`, `detection/sourceHealthMonitor.ts`) | one subscription per DEX | subscribe, restart, page | `PoolMonitors` |
| Detection pipeline (`worker.ts`, `detection/candidatePipeline.ts`, `migrationMonitor.ts`) | Token rows, AI queue, scheduler, momentum stash | an event to an evaluation | `CandidatePipeline` |
| Risk and signals (`detection/riskAnalyzer.ts`, `trading/criticalSecurityGate.ts`, `packages/ai`) | result cache | reads, gates, vote, advisory scores | `Screening`, `TokenSignals` |
| Trackers (`trading/smartWalletTracker.ts`, `shadowModePriceSampler.ts`) | entries, scores, logged decisions | record, resolve, sample | `WalletTracking` |
| Marketing engine (`apps/marketing-engine`) | broadcast queues, feeds, plan of posts | post, enqueue, deliver | `Broadcasts`, `MarketingFeeds`, `MarketingPosts` |
| Telegram bot, Mini App requests (`apps/telegram-bot`) | sessions, rows of users and configs | updates, screens, API calls | `BotChats` |
| Notifications, reporters, event bus, open screens (`apps/telegram-bot/src/notifications.ts`, `notify/`, `lib/eventBus.ts`, the pages' live-event hooks) | sends under way, warned users, members told of, the gate's window, what a screen shows | send, poll, summarise, publish, fetch | `Notices` |
| Latency traces (`lib/latencyTracker.ts`) | traces under way, the newest that ended | start, mark, finish, report | `LatencyTraces` |
| Dashboard and Mini App pages, metrics | none of their own | rendering, observability | not modelled |

### What is hard here

* **Many callers, one position.** A price tick (and a second one, when the watchdog
  gave the first one up but could not stop it), the emergency tick and several HTTP
  requests decide to sell from rows read at different times.
* **A swap is not a call that succeeds or fails.** It may be pending, landed or dead
  when the confirmation throws, and the retry loop has to guess. Payouts and plan
  payments have the same trouble.
* **Several writes without a transaction** follow a landed transfer: trade, exit row,
  position and trailing stop; payout attempt and fee ledger; subscription and plan;
  broadcast and its recipients' rows.
* **Locks with different lifetimes**: a Set that dies with the process, a row that
  survives it and goes stale after five minutes, reconciliation locks in memory that
  lapse after their own TTL.
* **Reads that go stale**: limits checked before an await, balances that become the
  ledger's base, cached risk results, a cached pause flag.
* **Best-effort sources**: silent subscriptions, duplicated and missed launches,
  providers on cooldown, prices that are wrong for a moment.

## Modules

State and actions carry the source's names. An action is the stretch of a handler
between two awaits, its guard the early returns before it. `Crash` or `Restart`
actions reset what lives in the process and leave rows and chain alone. An error of a
database or RPC call is an action (or an alternative of one) drawn from a budget.

**PositionCloseLock** refines **ClaimLease**. `Enter` is the synchronous start of
`acquire` (Set check, token). `Create`, `FindGone`/`FindYoung`/`FindStale`, `Reclaim`,
`Recreate` are the statements of `tryClaim`; its recursion goes back to `Create`.
`Release` is the part of `release` before its await, `DeleteOwn` the conditional
delete. `AcquireError` and `ReleaseError` are the catches: the statement may have
taken effect although its answer was lost. Time is one Boolean per claim, young or
past `STALE_LOCK_TTL_MS` (`Expire`). Two processes are modelled although one is
deployed: the claim row exists for them, and a crashed process and its successor are
such a pair.

**SellExecution** is the sell side for one live position. `Read`, `TickRead` are the
row reads of the callers; what they read stays in the call's locals (`op`), because
the calls use it after further awaits. `DecideClose`, `DecideLadder`, `DecideTp1`,
`DecideManual`, `DirectClose` choose what to sell. `Enter` is the await-free start of
both sell operations; `Claim`, `ReleaseRow` and `ClaimLapses` use the lock as
`ClaimLease` promises it. `Broadcast`, `Caught`, `Recheck`, `Retry` are the retry
loop, `Confirmed`, `Verified`, `VerifyFails` the verification, `RecordTrade`,
`RecordExit`, `Reduce`, `Close` the writes. `Land`, `Drop` and `OutcomeUnknown` are
the chain and the lost confirmation. Once a close is verified the code drops its
reconciliation lock, so an error while the trade or the CLOSED row is written leaves
a landed sale that nothing guards: `OversellNeedsGap` names that gap (and the partial
sale that cannot be verified, and the lost confirmation) as the only way the wallet
can lose more than the position's tokens.

**OpenPosition** is the buy side for one user: scanner launches and mirrored trades
run wallet by wallet through the limits of `safety.ts`, the locks, the swap, its
verification and the rows. Here the sell side is one action and a swap costs one
unit. **SwapRouting** opens up the single step that sends a swap: Jupiter first, the
token's own DEX as a fallback, and the plain, bundled and sprayed ways of sending,
while other traders move the pool.

**LatencyTraces** follows the attempts of both sides for what they report: a stage is
marked once, whatever is retried, and a trace is kept when its attempt finishes.

**Payout**, **PlanPurchase** and **BalanceLedger** (with the chain they use) are
composed in **Money**: they spend from and look at the same wallets, so a payout may
take what a purchase counted on and a poll may credit a deposit it read before a
withdrawal. **ProfitSplit** is the division that precedes a payout,
**Reconciliation** the script that computes booked profits again from the trades and
corrects fees and rewards in one transaction, while the API closes and charges.
**ManualSells** has the sell routes for several positions and users: what each request
checked and computed before the lock is used after it, on positions that sell, are one
failure from being given up on (`FindsNoRoute`), or are (`GivenUp`).

**RpcFailover** is part of **ScannerLoad**: the queue's items read through the
connection, whose cooldowns move the queue's limit. **LaunchFeed**, the subscription
and the fallback scan, is part of **ScannerHealth**: two sources, one health state,
one pause flag. **CandidatePipeline** follows the events of a mint to AutoTrader;
**Screening** the reads, the cache, the gate, the probe and the vote on one token
that changes meanwhile, whose liquidity each source shows in its own way (`Known`,
`Shown`); **TokenSignals** and **WalletTracking** the advisory side.

**PriceWatch** has the interleavings of the monitor and leaves the rules out: the price
source answers, has nothing or throws (`Feeds`), the liquidity that speaks for a price
is whatever that price's own pair says (`Collapses`), the wallet may be emptied, and
closes may fail until the position is given up on (`Routes`). **ExitRules** has the
rules, one tick a step, from the values frozen at open; its sales fail, back off and are
given up on in the same way (`TickFails`, `Defers`, `Emergency`).
**Broadcasts** is the shape three marketing queues share; **MarketingFeeds** the
timed monitors; **MarketingPosts** the daily written posts; **BotChats** the updates
and flows of the Telegram bot next to what the Mini App writes; **Notices** what is
sent to whom, and how an open screen learns of a change.

The `MC*` modules hold the instances. Some check several parts that share no state in
one run: a variable `part` is chosen in the initial state, the behaviour runs that
part and leaves the others idle, and no fair action is enabled in an idle part. Such
a run's state graph is the disjoint union of the parts' graphs.

## Runs

| Run | What it asks | Instance |
|---|---|---|
| `lock` | two young holders never meet; a young claim ends by its owner; an orphan is recovered; the lock implements `ClaimLease` | three callers in two processes, four tokens, two faults; 239 216 states |
| `sell` | no sale while one is unverified, after CLOSED, after given up; a firing stop ends in a sale | price tick, emergency tick, one request, amount 2 beside one foreign token, two faults; 601 086 |
| `ladder` | a tier sells once; amounts, order of the rows, lost updates | two price ticks, one request, two tiers, moonbag 1, amount 3 beside two foreign tokens, one fault; 1 288 458 |
| `tp1` | trailing only after TP1's sale | two price ticks, two faults; 312 004 |
| `buys` | one tracked buy per wallet and token, rows of landed swaps, none lost to one failure; limits give way only to overlapping buys; no buy while one is unverified; a swap call executes once within its limits; latency traces tell what happened; locks end | two launches and a mirrored trade, one wallet, two tokens, two runs each, two faults, three set-ups; five venue and sending combinations; up to three attempts, two traces kept; 976 913 |
| `money` | a payout is signed once and its rows tell the truth; decisions are final; reserve, subscriptions and deposits; exact division, corrections and manual sales; everything settles | one wallet, two positions, two handlers, two requests, two refreshes, two faults, seven workloads; splits over four users; two runs of the script over up to two positions; up to three manual requests, nine scenes, given up after two failures; 334 830 |
| `detection` | one subscription, pause in an outage, nothing below the watermark missed, each pool reported once; feeds recover | two providers, up to three launches, scan cap 2; two DEXes at a time, eight pool scenarios; 136 532 |
| `candidates` | evaluated once per migration, nothing bad, no buy into a dump; the queue's order and slots; the connection's sharing and back-off; work ends | three mints (one bad), three events, three providers, three calls, three items; 113 640 |
| `screening` | bought only what was read, found sound and wanted; verdicts; advisory scores and records; it ends | tokens of `MCTokens`, one a behaviour, clock to 6 with TTL 3 and grace 2, one retry, two models; liquidity 3 to 20 000, a quote tells up to 15 000; 598 918 |
| `exits` | no sale on a price nobody but its own pair spoke for; stale writes and repeated alerts only by overlap; the rules' decisions; crashed, losing and emptied positions end, outages are told of | two overlapping runs, three price levels, seven budgets; eight openings, six prices; 504 730 |
| `marketing` | completed broadcasts are drained, only blockers dropped, feeds post once; nobody's rows or consent touched by another; notices told once; messages end | two items, two recipients, batch and chunk 1, two attempts; three persons; ten occasions of up to three notices, milestones 2 and 4; 635 495 |
| `doc_partial_verify` | what a comment promises and the code does not do (see Findings) | one price tick, one fault |

The bounds are constants or fields of the scenarios: `MaxFaults` (failed statement,
lost confirmation, reverted swap, crash), `MaxRequests`, `MaxTries`
(`SELL_BROADCAST_RETRY_MAX_ATTEMPTS`), `MaxPermanent` (`maxPermanentRouteRetries`),
`MaxRuns`, `MaxLaunches`, `MaxPosts`, `MaxClock`, and the budgets named where a
scenario is built. They reach the cases the properties are about: two calls with stale
reads and a third that interferes; a sale that lands behind a lost confirmation, is
retried and lands again; foreign tokens, so that an oversell is possible; a cache
entry that outlives a change of the token; a scan cut by its cap; a recipient on the
last attempt when the process stops; a token that only a quote speaks for; a position
emptied or given up on between a decision and its sale; each set-up of `buys` makes
one limit the scarce one. A property that needs a rival, an overlap or a fault to be
excused is violated within these bounds by a small change of the code (`mutants`).

`CHECK_DEADLOCK FALSE` is in every configuration but `lock`: a CLOSED position with no
call left, or a drained queue, really stops. `ladder` and `tp1` treat price ticks as
symmetric: no action and no property of theirs tells them apart.

### Fairness

Assumed, and why: the continuations of a started call run (promises settle; RPC calls
and the price watchdog have timeouts); interval timers keep firing; the chain settles
every transfer (it lands or its blockhash expires); TTLs, cooldowns and back-offs
pass. Strong fairness is used in three places, each of which says that an outage of
the outside world ends: the price sources answer some time (`MCExits`), the feed's
watchdog and the fallback timer find a moment between other timers
(`ScannerHealth`), a migration poll finds the venue (`CandidatePipeline`). Nothing is
assumed of errors, crashes, users or administrators, and the liveness properties hold
for finitely many faults: with endless failures no code could sell.

## Proofs

TLAPS checks these for every value of the constants that satisfies the named
assumptions (`AmountAssumption`, `CallerAssumption`, `SetupAssumption`, ...: positive
amounts and TTLs, bounds that are numbers, disjoint sets of callers, marks such as
`"none"` that are no wallet or mint). TLC evaluates every one of these assumptions,
and the inductive invariants of the larger proofs were model-checked before they were
proved.

| Module | Theorems | Inductive invariant |
|---|---|---|
| `PositionCloseLock_proofs` | `TypeCorrect`, `ProcessExclusion`, `YoungHolder`, `Exclusion`, `ClaimEndsByOwner`, `Implementation` (refines `ClaimLease`) | tokens are distinct; a caller between entry and release is in its process's Set and alone there; who has not inserted owns no row; the row a reclaimer saw was stale; a young holder owns the row |
| `SellExecution_proofs` | `TypeCorrect`, `TierSoldOnce`, `UnverifiedHoldsSells`, `UnsellableStays`, `ClosedForGood` | one call is in the locked body (`Alone`); an unverified sale's call is the close that verifies it (`VerifiesOnly`); after CLOSED or unsellable no call is past its checks (`NotPastChecks`); a partial sale past them sells an open tier (`SellsOpenTier`) |
| `SellExecution_proofs`, the books | `BooksKept`, `RecordsAgree` (`SaleRecords`), `TrailingHasSale` | what the call in the body knows of `remaining`, of its swap and of its rows (`Hands`, `ClosedOnce`, `Accounts`, `Tp1Inv`); without a gap at most one swap is outstanding, and the wallet holds the foreign tokens, what remains and that swap |
| `OpenPosition_proofs` | `BooksKept`, `BuysSound`, `UnverifiedHoldsBuys`, `LimitsHold` | one run per key holds the lock and its place says what it owns (`Exclusive`, `KeyHeld`); an unrecorded landed swap took two faults or a crash; without a rival, a run past the count has left room (`CountInv`, `PlanInv`, `ReserveInv`) |
| `OpenPosition_proofs`, the swap | `SwapsExecuteSoundly` (`ExecutionIsSound`, the part of `SwapsAreSound` that is about one call) | each call has one transaction at most, and the running call's is the last (`CallsAre`); a transaction keeps the limits it was built with, whatever the chain makes of it, and its reserves were the pool's unless it moved between the two reads (`Lawful`); an error that reaches the fallback is Jupiter's (`CallIs`) |
| `Money_proofs` | `MoneyKept`, `PayoutsSound`, `DecisionsFinal`, `BalancesSound` | of a position's handlers one may sign (`OnePayer`), and attempt row, ledger and transfer agree (`RowTells`, `LedgerTells`); one request at a time buys, and payments and subscriptions agree (`OneBuyer`, `PaymentTells`, `SubsTell`); what `known` lags behind is inflow not yet credited, for wallets without a stale write (`CreditInv`); a spender's estimate still holds unless a crowd drew on the wallet |
| `Candidates_proofs`, the pipeline | `PipelineKept`, `CandidatesSound` (`CandidatesAreSound`) | where bad, migrated and dumped events can be (`Clean`); evaluations made and live events of a mint come to one more than its migrations, unless two overlapped before the row, and without a row no live event is past it (`Once`) |
| `Candidates_proofs`, queue and connection | `ItemsHandledOnce` (`HandledOnce`), `ConnectionSound` (`ConnectionIsSound`) | an item is in one list or one slot, each list in the order of arrival (`Lined`), no slot is free while something waits; a read under way is the one its key is shared under, and who waits for it asked for that key; a provider is tried only off cooldown, or as the last one |
| `Detection_proofs`, the feed | `FeedSound` (`FeedIsSound`), `NoLaunchSkipped` (`WatermarkCovers`) | one subscription, and whose teardown is awaited; the pause that health set is known to it; what a scan read lies between the watermark and where the scan began, and the watermark moves over what was reported only |
| `Detection_proofs`, screening | `ScreeningKept`, `BuysCleared` (`BuysAreCleared`) | whatever a read, the cache or a candidate carries of the token, its liquidity as the named source shows it, still holds unless the token changed after it was read, and a failed read left the worst value (`Honest`); who is past the gate, the probe or the vote satisfied it (`Probed`, `Admitted`, `Sellable`); counters with the candidate under way add up (`Counted`) |
| `Detection_proofs`, the pools | `PoolsSound` (`PoolsAreSound`) | while nothing stops it, all a DEX has is the subscription on record, which is also the one a restart removes; a stop that met no restart meets no later one (`MonitorSound`); a source is paged only if it is marked, and at most once (`AlertsSound`); what is handed on names its launch and that launch's token (`HandedSound`) |
| `Detection_proofs`, the trackers | `TrackingSound` (`TrackingIsSound`) | an exited entry names a sale of its wallet that ends it, and so does a tick that found one (`RowsSound`, `TicksSound`); until two ticks run at once, the rows a tick has left are open and the offsets it has due are unsampled (`OneTick`, `OneLogTick`); every count read, and a score with none outstanding, lies between the wallet's exits and its resolved rows unless something raced (`CountsFit`) |
| `Marketing_proofs` | `DeliveriesKept`, `DeliveriesSound` (`DeliveriesAreSound`), `PostsSound` (`PostsAreSound`) | a row past PENDING was settled by a send, a completed broadcast that was not completed early has no row left, what the worker holds of its batch is still PENDING; a post's slot was claimed before it was sent and its category is not that of the last one |
| `Marketing_proofs`, the chats | `ChatsSound` (`ChatsAreSound`) | the update under way is the last one taken up, and was counted once unless the bot restarted (`ChatState`, `TakenUpOnce`); a handler past its checks still has what they found, unless the write that overtook it is noted: the agreement to the fee (`ConsentHeld`), the room under the cap (`CapHeld`), the fit of a setting (`BudgetHeld`), the missing reward (`RewardHeld`); no button of a chat that leaves the flow is younger than the flow, but for one whose handler has not come to leave it (`FlowsAreNew`); the seed phrase nobody was told is in the handler's hand (`SeedsHeld`) |
| `PriceWatch_proofs` | `WatchKept`, `WatchSound` (`WatchIsSound`) | the tick waits for one run at most (`Ticks`); a run that met no other is alone, and the row still says what it read (`Alone`, `UpToDate`); a row without an alert has told nothing (`Remembered`); while the market stands still and no outlier was accepted for its own pair's liquidity or its age, the mark, the reads and the prices decided on are the entry's (`Still`) |
| `PriceWatch_proofs`, the rules | `DecisionsSound` (`DecisionsAreSound`) | a mark is never below the entry, TP1 trails only past its first half and then stops at break-even, and unless a tick missed it the mark is the peak (`RowSound`); a tick that closed or an emergency leaves the position closed, only TP1 fills a window (`EndSound`); a tick that held passed its rule's stop (`Promised`). For the action property: the ladder's trail does not fall where its pieces meet (`LadderTrailRises`) |

The argument has the same shape each time: the properties speak of rows and
transfers, but what a step will do depends on where the calls are and what they read
before, so the invariant says what a call at each place still knows. Each step of
`Next` that can disturb it gets a lemma; an error or a crash only ends calls, which the
invariant must survive as well. For the lock this explains why a late `release` is
harmless (its conditional delete names a token no longer in the table). The sell side
uses the lock through `ClaimLease`'s promise, which `Implementation` justifies; its
theorems are for one process, as deployed, because `Alone` comes from the Set.

What the proofs corrected in the models: a withdrawal made by hand has to age with
the *first* of those outstanding (`BalanceLedger`); the mark for "no mint" must not be
one; the cache needs a positive TTL; a read that overlaps a change of the token
counts from the end of the read; and an alert sent after its outage has ended does not
count as telling of the next (`PriceWatch`'s `told`; a budget of the run now gets
there). That a candidate is never SOL was true of the scenarios only: a PumpSwap pool
whose base is SOL makes it one (`CandidateIsTheToken`, `PumpReversed`). And a button does
not always end the flow of its chat: at a first contact that the Mini App registers
meanwhile, the unguarded create throws before the flow is left (`BotChats`' excuse
`create`).

Of the safety properties without a theorem, two are beyond the prover:
`BooksAreSound` (sums over trades, recursion up the tree of referrers) and
`ScoresAreSound` (the heaviest window of a sequence, weighted sums) rest on induction
over data. Liveness stays with TLC too, as it needs fairness and ENABLED:
`OrphanRecovered`, `BreachedIsSold`, `BuysEnd`, `MoneySettles`, `FeedsRecover`,
`WorkEnds`, `ScreeningEnds`, `LossesEnd`, `MessagesEnd`. Two are model-checked as a
whole and not proved: `MessagesAreSound` and `SwapsAreSound`. Of the first,
`ChatsAreSound` is a theorem; the counts of the broadcasts are folds. Of the
latter, `ExecutionIsSound` is a theorem; the rest is not: `NothingStranded` adds up what
the buys left wrapped, the latency report is computed with sorted sequences, and
`RefusedForCause` needs a slippage that covers the program's fee, which the amounts of
the run have and arbitrary ones do not.

## Findings and observations

One disagreement has a run of its own: the reconciliation lock is said to guard every
landed swap that could not be verified, and a partial sale never sets it
(`doc_partial_verify`).

Seen while modelling; the models do what the code does:

* *Sell side.* A sale whose confirmation timed out is retried although it may have
  landed (`positionManager.ts:590`, `:641`). The count of "consecutive" no-route
  failures is never reset (`:524`), a partial sale's failure writes the count and not
  the date (`:1464`, `:1977`). A close that lost the race is logged as an emergency
  exit (`emergencyExitMonitor.ts:153`). A crash between TP1's sale and the activation
  of trailing leaves it off for good (`positionManager.ts:1750`).
* *Exit rules.* An emergency or stop sells the moonbag too
  (`positionManager.ts:1631`). Without the real-value stop the institutional stop is
  looser than the hard ceiling. A tick raises the high-water mark only when it has
  nothing to sell: a peak seen by a tick that sells a rung, whose sale fails or that
  waits in a backoff (`positionManager.ts:1470-1490`, `:1558-1564`) is never recorded,
  and the stops that trail from the mark stand too low from then on (`missed` in
  `ExitRules`). A position given up on for want of a route has no stop and no
  emergency exit any more (`emergencyExitMonitor.ts:69-86`), so `LosersAreSold`,
  `CrashIsSold` and `EmptiedIsClosed` except it. A failed safety read counts as a bad
  one.
* *Sell routes.* A request for a position given up on sells nothing, and close-all
  lists it as "Already handled by another in-flight operation" although nothing else
  runs (`routes/positions.ts:130-142`, `positionManager.ts:1890`, `:2221`). Two
  partial sales that overlap choose the same index; the loser is told so, although a
  comment says never "already taken" (`routes/positions.ts:329`). On paper, where no
  wallet limits them, they may book more than was bought.
* *Swaps.* When every sender of the fast path throws, one of them may have sent the
  bytes all the same (`fastSend.ts:66` takes it that nothing was sent). A PumpSwap
  sale accepts a zero minimum; the two vault reads may straddle a trade; the Raydium
  executor is not wired; a non-retryable Jupiter error of any kind leads to the native
  route.
* *Money.* An attempt left "for a later retry" is never retried
  (`payoutExecutor.ts:89`). Refreshes that overlap can record a deposit twice
  (`balanceLedger.ts:24` says never), because each writes the known balance from what
  it read before. The newest BUY that scopes a profit is not scoped to the position
  (`registerFeeSystem.ts:200`); a plan's lower fee scales the referral down too; two
  first accesses may seed two settings rows. The script that corrects profits computes
  a referrer's reward as a percent of the fee, the live division as a percent of the
  net profit; it corrects rewards already paid out; and a fee charged after it read
  the fees is never corrected (`late`).
* *Latency.* A paper position sold with live trading on gets a trace, although only
  real sells should (`positionManager.ts:2162`). A mirrored buy that is refused before
  its first mark leaves no record, so the success rate omits it; an attempt that
  throws past its finish stays among the traces under way for ever.
* *Detection.* Skipped failovers consume the escalation; a removal that never settles
  leaves the feed `switching`. A recovery with automatic resume clears a manual pause
  too (`scannerHealth.ts:200`; the check of its reason is in `clearStaleAutoPause`
  only), and overlapping ticks may leave an outage without a pause. After a failed
  `stop()` the watchdog says it restarts, and the monitor, still subscribed, does not
  (`monitorWatchdog.ts:99`). Redelivered events may be evaluated again
  (`worker.ts:1775`); several void promises have no catch (`worker.ts:1360`, `:1447`).
  PumpSwap's token is the pool's base whatever it is, the other venues' the side that
  is not SOL, so a PumpSwap pool created with SOL as its base makes SOL the candidate.
* *Screening.* The retry of a failed read may be answered by the cache that holds its
  failure (`worker.ts:1313`, `riskAnalyzer.ts:224`). Jupiter's price impact is a
  fraction (`sellabilityCheck.ts:120`) and the analyzer divides it by 100 once more
  (`riskAnalyzer.ts:177`): where only a quote tells the liquidity, a token passes the
  floor of 500 with 5, and `SoundUnlessChanged` promises no more for it. No known
  liquidity is taken for none, and such a token is called a suspected honeypot for
  good (`AccusationsNeedAFailure`). The gate's `blocked` is said to count the
  candidates rejected for good (`securityGateStats.ts:25-31`); it counts those that
  will be retried too (`candidatePipeline.ts:329-334`), which is what `StatsAddUp`
  states. Sybil fields are never written; two passes of a mint overwrite one stash.
* *Price monitor.* `forced` acceptance needs ten minutes since the first rejection
  only, not a price that stayed. The liquidity drop that is called a third independent
  source (`exitEngine.ts:107-119`) is read from the best DexScreener pair, where the
  suspect price came from, within the cache's 2.5 s (`dexscreener.ts:51-59`): a wrong
  thin pair corroborates itself and the position is sold on its price, so
  `NoPhantomSale` holds only where nothing was accepted that way (`trusted`). A
  DexScreener request that is refused (429, 5xx) throws (`dexscreener.ts:95`), which
  ends the position's tick (`priceMonitor.ts:408`) before the fallback price and the
  outage's clock: such an outage is never told of, and `OutageIsTold` is about the
  other ones.
* *Trackers.* The sampler takes a batch of open rows in no order
  (`shadowModePriceSampler.ts:93`, `:130`), so a row may wait for ever behind others.
* *Marketing and bot.* A broadcast's row is written before its recipients' rows, so
  the worker may complete it in between and a stop loses the rest
  (`broadcastQueue.ts:46`; `early` in `Broadcasts`). A showcase trade that cannot be
  posted keeps its place among those a tick takes. The ecosystem feed marks a message
  seen before it is posted. Users are said to accept a new fee before auto-trading
  again (`admin/commands.ts:219`, `admin/settingsPanel.ts:221`), but `/resumeall`,
  `POST /snipes` and a referral reward activate without asking. A redelivered tap buys
  again. A comment has every button press exit the pending flow (`ui/router.ts:432`);
  the cards' and the QR code's return before that (`:418-427`), so the next text still
  answers the old flow (`Leaving`).
* *Notices.* Every call to Telegram is said to be bounded (`notifications.ts:466`),
  but the referral reward's is not, and two handlers await it
  (`notifications.ts:856`). A send given up after the timeout may still arrive and is
  counted as failed. A window of the security gate with retries only is reset without
  a summary, and one whose summary fails to send is lost. New members whose message
  fails are never told of; a row that cannot be written makes them told twice. The
  recipients of a launch's two notices are read one after the other: a configuration
  switched on in between gets the second without the first (`LaunchComesFirst`). The
  Mini App does not fetch again what was published while its socket was down.

## Not modelled

Paper trades (none of the chain's hazards) but for manual sales, the wording of
realized PnL, pre-signed transactions, captions and cards, parsing of RPC, HTTP and
log messages, encoding of instructions, authentication, pages of the dashboard and the
Mini App, counters and the performance monitor. A tick of the showcase takes every
unposted trade where the code takes a few of the oldest. Prices, amounts and rates are
small whole units. `PROJECT.json` says for each component what is left out.

## What could come next

1. Theorems for parts of what is only model-checked: the marks of `LatencyTraces` and
   the deliveries of `Notices`, apart from their counts and reports.
2. A wider `ExitRules` instance, with positions opened at a preset of every name.
