----------------------------- MODULE PriceWatch -----------------------------
(***************************************************************************)
(* trading/priceMonitor.ts for one open position: the ticks and their      *)
(* watchdog, the price and its fallback, the outlier filter, the high      *)
(* water mark and the monitoring state with its alerts.  A run that the    *)
(* watchdog gives up on keeps going beside the next tick's run, each on    *)
(* the row as it was read when its tick began.                             *)
(*                                                                         *)
(* Prices are levels a factor of twenty apart: one level is a plausible    *)
(* move between two reads, more is an outlier.  Times are ages of three    *)
(* sizes: under ten minutes, over, and over a day.                         *)
(***************************************************************************)
EXTENDS Integers, FiniteSets

CONSTANTS Run,           \* runs of processPosition that may overlap
          Level, Entry,  \* price levels; the entry price
          Trail,         \* levels below the mark at which the trailing stop fires
          MaxRejected,   \* OUTLIER_RECONCILE_AFTER_CONSECUTIVE_REJECTIONS
          Budgets        \* how often, per behaviour, what the world does happens

Budget == [moves : Nat, flips : Nat, silences : Nat, faults : Nat, slow : Nat, hangs : Nat]

ASSUME PriceAssumption ==
    /\ Level \subseteq Nat \ {0} /\ Entry \in Level /\ Trail \in Nat \ {0}
    /\ MaxRejected \in Nat \ {0} /\ Budgets \subseteq Budget

VARIABLES row,        \* the Position row
          run,        \* [Run -> its place, the row it read, its price]
          ticking,
          detached,   \* runs the watchdog gave up on
          outlier,    \* outlierState: count and the age of the first rejection
          market,     \* the level the token really trades at
          feed,       \* what the price source answers, see Feeds
          emptied,    \* the tokens have left the wallet
          budget,     \* bound: what is left of the behaviour's budget
          moved,      \* observer: the market has left the entry level
          trusted,    \* observer: an outlier was accepted on its own pair's liquidity
                      \* or after ten minutes, and nothing else agreed
          told        \* observer: the age of this outage's last alert, or None

vars == <<row, run, ticking, detached, outlier, market, feed, emptied, budget, moved, trusted, told>>

None == -1
Age == 0 .. 2
Older(age) == IF age = None THEN None ELSE IF age = 2 THEN 2 ELSE age + 1

State == {"NORMAL", "PRICE_UNAVAILABLE", "NO_SELL_ROUTE", "MANUAL_REVIEW"}
\* The sell route's failures: none to wait for, a backoff (of at most half an
\* hour), or one too many, which makes the position sellUnsellable for good.
Routes == {"ok", "waits", "gone"}
Row == [open : BOOLEAN, hwm : Level, state : State, since : Age \cup {None},
        alerted : Age \cup {None}, alertedState : State, route : Routes]

\* DexScreener has a pair and Jupiter a route; neither has; or DexScreener
\* refuses to answer (429, 5xx), which its client throws, whatever Jupiter does.
Feeds == {"priced", "none", "failing"}

Places == {"idle", "balance", "value", "price", "missing", "classify", "alert", "notify",
           "check", "hard", "reject", "probe", "decide", "raise", "hung"}

Fresh == [open |-> TRUE, hwm |-> Entry, state |-> "NORMAL", since |-> None,
          alerted |-> None, alertedState |-> "NORMAL", route |-> "ok"]
\* shared: another run was there at some time of this one (an observer)
Idle == [at |-> "idle", read |-> Fresh, price |-> Entry, collapsed |-> FALSE, forced |-> FALSE, shared |-> FALSE]

\* Types of the row, the runs and the observers.
TypeOK ==
    /\ row \in Row
    /\ run \in [Run -> [at : Places, read : Row, price : Level, collapsed : BOOLEAN,
                        forced : BOOLEAN, shared : BOOLEAN]]
    /\ ticking \in BOOLEAN /\ detached \subseteq Run
    /\ outlier \in [count : 0 .. MaxRejected, age : Age]
    /\ market \in Level /\ feed \in Feeds /\ emptied \in BOOLEAN /\ budget \in Budget
    /\ moved \in BOOLEAN /\ trusted \in BOOLEAN /\ told \in Age \cup {None}

Init ==
    /\ row = Fresh /\ run = [r \in Run |-> Idle]
    /\ ticking = FALSE /\ detached = {} /\ outlier = [count |-> 0, age |-> 0]
    /\ market = Entry /\ feed = "priced" /\ emptied = FALSE /\ budget \in Budgets
    /\ moved = FALSE /\ trusted = FALSE /\ told = None

Running(r) == run[r].at # "idle"
At(r, place) == run[r].at = place
Go(r, place) == run' = [run EXCEPT ![r].at = place]

\* isPlausiblePriceUpdate against the mark
Plausible(reference, price) == price - reference \in -1 .. 1

\* evaluateExit: the stop-loss or the trailing stop
Exits(mark, price) == price < Entry \/ mark - price >= Trail

NoOutlier == [count |-> 0, age |-> 0]
World == <<market, feed, emptied, moved>>

\* One of the budget is spent.
Spend(what) == budget[what] > 0 /\ budget' = [budget EXCEPT ![what] = @ - 1]

\* A run of processPosition returns: the tick ends with it, unless the
\* watchdog had ended it before.
Return(r) ==
    /\ run' = [run EXCEPT ![r] = Idle]
    /\ detached' = detached \ {r}
    /\ ticking' = IF r \in detached THEN ticking ELSE FALSE

\* PositionManager.closePosition, which SellExecution is about: it sells, or
\* closes a position whose wallet is empty; one given up on it leaves alone.
Close(r) ==
    /\ Return(r) /\ UNCHANGED budget
    /\ row' = IF row.route = "gone" THEN row ELSE [row EXCEPT !.open = FALSE]

\* It throws and leaves the position open; a sale that found no route starts a
\* backoff or was the last of maxPermanentRouteRetries.
CloseFails(r) ==
    /\ row.open /\ row.route # "gone" /\ Spend("faults") /\ Return(r)
    /\ \E route \in Routes :
          /\ route \in (IF emptied THEN {row.route} ELSE {row.route, "waits", "gone"})
          /\ row' = [row EXCEPT !.route = route]

\* tick: one at a time; the rows are read first, without the given up.
Tick(r) ==
    /\ ~ticking /\ row.open /\ row.route # "gone" /\ ~Running(r)
    /\ ticking' = TRUE
    /\ run' = [s \in Run |->
                   IF s = r THEN [Idle EXCEPT !.at = "balance", !.read = [row EXCEPT !.route = "ok"],
                                              !.shared = (detached # {})]
                   ELSE [run[s] EXCEPT !.shared = Running(s)]]
    /\ UNCHANGED <<row, detached, outlier, World, budget, trusted, told>>

\* processPositionWithWatchdog
Watchdog(r) ==
    /\ Running(r) /\ r \notin detached
    /\ IF At(r, "hung") THEN UNCHANGED budget ELSE Spend("slow")
    /\ detached' = detached \cup {r} /\ ticking' = FALSE
    /\ UNCHANGED <<row, run, outlier, World, trusted, told>>

\* A call the run waits for never answers.
Hang(r) ==
    /\ run[r].at \in {"price", "probe", "notify"} /\ Spend("hangs") /\ Go(r, "hung")
    /\ UNCHANGED <<row, ticking, detached, outlier, World, trusted, told>>

\* What a rule's sale does to the streak of rejections: it ends when the call
\* returns, sold or given up, and stays when it throws.
Closing(r) ==
    \/ Close(r) /\ outlier' = NoOutlier
    \/ CloseFails(r) /\ UNCHANGED outlier

\* reconcileIfWalletEmpty: a wallet that holds nothing closes the position; a
\* read that fails says nothing.
Balance(r) ==
    /\ At(r, "balance")
    /\ \/ /\ Go(r, "value") /\ UNCHANGED <<row, ticking, detached, outlier>>
          /\ IF emptied THEN Spend("faults") ELSE UNCHANGED budget
       \/ emptied /\ Closing(r)
    /\ UNCHANGED <<World, trusted, told>>

\* Jupiter has a route, or may have.
Quotes == feed # "none"

\* checkRealValueStop, on what the remaining tokens would really sell for.
Value(r) ==
    /\ At(r, "value")
    /\ \/ Go(r, "price") /\ UNCHANGED <<row, ticking, detached, outlier, budget>>
       \/ Quotes /\ market < Entry /\ Closing(r)
    /\ UNCHANGED <<World, trusted, told>>

\* clearMonitoringStateIfNeeded, on the row as the run read it
Clear(r) ==
    IF run[r].read.state = "NORMAL" THEN UNCHANGED <<row, told>>
    ELSE /\ row' = [row EXCEPT !.state = "NORMAL", !.since = None, !.alerted = None,
                               !.alertedState = "NORMAL"]
         /\ told' = None

Priced(r, price) ==
    /\ run' = [run EXCEPT ![r].at = "check", ![r].price = price,
                          ![r].read = [Fresh EXCEPT !.hwm = run[r].read.hwm]]
    /\ Clear(r)

\* getBestSolanaPair answers with the price, a wrong one or none; or it throws,
\* and processPosition's catch ends the run: no fallback, no outage recorded.
Price(r) ==
    /\ At(r, "price")
    /\ \/ /\ feed = "priced" /\ Priced(r, market) /\ UNCHANGED <<ticking, detached, budget>>
       \/ /\ Spend("faults") /\ UNCHANGED <<ticking, detached>>
          /\ \E phantom \in Level : ~Plausible(market, phantom) /\ Priced(r, phantom)
       \/ /\ Go(r, "missing") /\ UNCHANGED <<row, ticking, detached, told>>
          /\ IF feed = "none" THEN UNCHANGED budget ELSE Spend("silences")
       \/ /\ Return(r) /\ UNCHANGED <<row, told>>
          /\ IF feed = "failing" THEN UNCHANGED budget ELSE Spend("faults")
    /\ UNCHANGED <<outlier, World, trusted>>

\* handleMissingPrice: the reverse quote stands in for the price.
Missing(r) ==
    /\ At(r, "missing")
    /\ \/ Quotes /\ Priced(r, market)
       \/ Go(r, "classify") /\ UNCHANGED <<row, told>>
    /\ UNCHANGED <<ticking, detached, outlier, World, budget, trusted>>

\* The age of the outage, and the state it leads to.
Elapsed(read) == IF read.state = "NORMAL" \/ read.since = None THEN 0 ELSE read.since
Effective(read, found) ==
    IF found = "NO_SELL_ROUTE" /\ Elapsed(read) = 2 THEN "MANUAL_REVIEW" ELSE found

\* classifyMissingSellRoute and the first write of recordMonitoringIssue
Classify(r) ==
    /\ At(r, "classify")
    /\ \E found \in {"PRICE_UNAVAILABLE", "NO_SELL_ROUTE"} :
           LET read == run[r].read
               now == Effective(read, found)
           IN /\ row' = IF read.state # now \/ read.since = None
                        THEN [row EXCEPT !.state = now, !.since = Elapsed(read)] ELSE row
              /\ run' = [run EXCEPT ![r].at = "alert",
                                    ![r].read = [read EXCEPT !.state = now, !.since = Elapsed(read)]]
    /\ UNCHANGED <<ticking, detached, outlier, World, budget, trusted, told>>

\* An outage of ten minutes is told of once, and again when it changes or a
\* day has passed.
Due(read) ==
    /\ read.since >= 1
    /\ read.alerted = None \/ read.alertedState # read.state \/ read.alerted = 2

\* The second write of recordMonitoringIssue
Alert(r) ==
    /\ At(r, "alert")
    /\ IF Due(run[r].read)
       THEN /\ row' = [row EXCEPT !.alerted = 0, !.alertedState = run[r].read.state]
            /\ Go(r, "notify") /\ UNCHANGED <<ticking, detached>>
       ELSE Return(r) /\ UNCHANGED row
    /\ UNCHANGED <<outlier, World, budget, trusted, told>>

\* notifyError reaches the owner: of this outage, or of one that has ended
\* since, which leaves this one untold.
Notify(r) ==
    /\ At(r, "notify") /\ Return(r)
    /\ told' = IF row.alerted = None THEN told ELSE 0
    /\ UNCHANGED <<row, outlier, World, budget, trusted>>

\* Mutant of Check: any price is believed.
CheckNothing(r) ==
    /\ At(r, "check") /\ Go(r, "decide") /\ outlier' = NoOutlier
    /\ UNCHANGED <<row, ticking, detached, World, budget, trusted, told>>

\* probeLiquidityCollapse: the liquidity of DexScreener's best pair, which is
\* where the price came from, may be low whatever the market does.
Collapses == BOOLEAN

\* The outlier filter, on the mark the run read
Check(r) ==
    /\ At(r, "check")
    /\ \E collapsed \in Collapses :
           LET price == run[r].price
               next == IF Plausible(run[r].read.hwm, price) THEN "decide"
                       ELSE IF price < Entry THEN "hard" ELSE "reject"
           IN /\ run' = [run EXCEPT ![r].at = next, ![r].collapsed = (collapsed /\ next # "decide")]
              /\ outlier' = IF next = "decide" THEN NoOutlier ELSE outlier
    /\ UNCHANGED <<row, ticking, detached, World, budget, trusted, told>>

\* probeJupiterReversePrice and probeNativeDexPrice may answer only while the
\* venues can be read; one that answers knows the market.
Answers == {FALSE, Quotes}

\* reconcilePriceOutlier: a second source's price, or the pair's own liquidity
Agreed(r, answered) == answered /\ run[r].price = market
Corroborated(r, answered) == run[r].collapsed \/ Agreed(r, answered)

\* The hard loss ceiling does not wait for more rejections.
Hard(r) ==
    /\ At(r, "hard")
    /\ \E answered \in Answers :
           IF Corroborated(r, answered)
           THEN /\ Close(r) \/ CloseFails(r)
                /\ outlier' = NoOutlier /\ trusted' = (trusted \/ ~Agreed(r, answered))
           ELSE Go(r, "reject") /\ UNCHANGED <<row, ticking, detached, outlier, budget, trusted>>
    /\ UNCHANGED <<World, told>>

\* Mutant of Reject: the streak is not kept.
RejectForgets(r) ==
    /\ At(r, "reject") /\ Return(r)
    /\ UNCHANGED <<row, outlier, World, budget, trusted, told>>

\* handleOutlierRejection up to its probes
Reject(r) ==
    /\ At(r, "reject")
    /\ LET count == IF outlier.count = MaxRejected THEN MaxRejected ELSE outlier.count + 1
           age == IF outlier.count = 0 THEN 0 ELSE outlier.age
       IN /\ outlier' = [count |-> count, age |-> age]
          /\ IF count = MaxRejected \/ age >= 1
             THEN /\ run' = [run EXCEPT ![r].at = "probe", ![r].forced = (age >= 1)]
                  /\ UNCHANGED <<ticking, detached>>
             ELSE Return(r)
    /\ UNCHANGED <<row, World, budget, trusted, told>>

\* handleOutlierRejection after them
Probe(r) ==
    /\ At(r, "probe")
    /\ \E answered \in Answers :
           IF Corroborated(r, answered) \/ run[r].forced
           THEN /\ Go(r, "decide") /\ outlier' = NoOutlier
                /\ trusted' = (trusted \/ ~Agreed(r, answered)) /\ UNCHANGED <<ticking, detached>>
           ELSE Return(r) /\ UNCHANGED <<outlier, trusted>>
    /\ UNCHANGED <<row, World, budget, told>>

\* checkAndMaybeClose reads the row anew: a closed one, one given up on and
\* one in its backoff are left alone.
Decide(r) ==
    /\ At(r, "decide")
    /\ LET price == run[r].price IN
       IF ~row.open \/ row.route # "ok" THEN Return(r) /\ UNCHANGED <<row, budget>>
       ELSE IF Exits(IF price > row.hwm THEN price ELSE row.hwm, price) THEN Close(r) \/ CloseFails(r)
       ELSE /\ run' = [run EXCEPT ![r].at = "raise", ![r].read = [Fresh EXCEPT !.hwm = row.hwm]]
            /\ UNCHANGED <<row, ticking, detached, budget>>
    /\ UNCHANGED <<outlier, World, trusted, told>>

\* The mark is written as it was computed from that read.
Raise(r) ==
    /\ At(r, "raise") /\ Return(r)
    /\ row' = [row EXCEPT !.hwm = IF run[r].price > run[r].read.hwm THEN run[r].price
                                  ELSE run[r].read.hwm]
    /\ UNCHANGED <<outlier, World, budget, trusted, told>>

\* Time passes for everything that remembers when it was.
Elapse ==
    /\ row' = [row EXCEPT !.since = Older(@), !.alerted = Older(@)]
    /\ run' = [r \in Run |-> [run[r] EXCEPT !.read.since = Older(@), !.read.alerted = Older(@)]]
    /\ outlier' = IF outlier.count = 0 THEN outlier ELSE [outlier EXCEPT !.age = Older(@)]
    /\ told' = Older(told)
    /\ UNCHANGED <<ticking, detached, World, budget, trusted>>

\* A sale that found no route may be tried again.
RetryIsDue ==
    /\ row.route = "waits" /\ row' = [row EXCEPT !.route = "ok"]
    /\ UNCHANGED <<run, ticking, detached, outlier, World, budget, trusted, told>>

\* The token's price moves; its sources go or come back; its tokens leave the
\* wallet by another way than this program.
Move ==
    /\ \/ /\ Spend("moves") /\ moved' = TRUE /\ UNCHANGED <<feed, emptied>>
          /\ market' \in Level \ {market}
       \/ Spend("flips") /\ feed' \in Feeds \ {feed} /\ UNCHANGED <<market, emptied, moved>>
       \/ ~emptied /\ Spend("moves") /\ emptied' = TRUE /\ UNCHANGED <<market, feed, moved>>
    /\ UNCHANGED <<row, run, ticking, detached, outlier, trusted, told>>

\* The process stops and starts.
Restart ==
    /\ Spend("faults")
    /\ run' = [r \in Run |-> Idle] /\ ticking' = FALSE /\ detached' = {} /\ outlier' = NoOutlier
    /\ UNCHANGED <<row, World, trusted, told>>

Step(r) ==
    \/ Balance(r) \/ Value(r) \/ Price(r) \/ Missing(r) \/ Classify(r) \/ Alert(r) \/ Notify(r)
    \/ Check(r) \/ Hard(r) \/ Reject(r) \/ Probe(r) \/ Decide(r) \/ Raise(r)

Next == (\E r \in Run : Tick(r) \/ Step(r) \/ Watchdog(r) \/ Hang(r)) \/ Elapse \/ RetryIsDue \/ Move \/ Restart

Spec == Init /\ [][Next]_vars

\* The mark only falls, and an outage's clock only starts again, through a
\* write of a run that overlaps another (the watchdog's doc comment calls
\* that overlap safe).
StaleWritesNeedOverlap ==
    [][(\/ row'.hwm < row.hwm
        \/ row.state # "NORMAL" /\ row'.state # "NORMAL" /\ row'.since < row.since)
       => \E r \in Run : run[r].shared /\ run'[r] # run[r]]_vars

\* A position whose tokens are there and whose market never moved is not sold
\* on a wrong price, unless that price was still there after ten minutes of
\* rejections, or the pair it came from was thin enough to speak for itself:
\* exitEngine.ts:107-119 takes that liquidity for an independent source.
NoPhantomSale == ~row.open => moved \/ trusted \/ emptied

\* An outage's alerts in one state are a day apart, overlaps aside.
AlertsAreSpaced ==
    [][\A r \in Run : At(r, "alert") /\ run'[r].at = "notify" /\ ~run[r].shared
           => \/ told \in {None, 2}
              \/ /\ run[r].read.alerted # None
                 /\ run[r].read.alertedState # run[r].read.state \/ run[r].read.alerted = 2]_vars

\* What a run of the monitor promises, whatever overlaps it: the types, no
\* sale on a phantom price, and the two rules on stale writes and alerts.
WatchIsSound == [](TypeOK /\ NoPhantomSale) /\ StaleWritesNeedOverlap /\ AlertsAreSpaced

\* One run that never returns does not stop the ticks.
TicksGoOn == []<>~ticking

\* A market that has fallen below the entry for good is sold, however far it
\* fell at once and whatever the probes answer; unless its prices are refused
\* or there are none, or the position was given up for want of a route.
CrashIsSold == []<>(market >= Entry \/ feed # "priced" \/ ~row.open \/ row.route = "gone")

\* A position whose tokens are gone does not stay open, priced or not.
EmptiedIsClosed == []<>(~emptied \/ ~row.open \/ row.route = "gone")

\* A token without a pair or a route is told of when that lasts, even when a
\* stop swallows the message; an outage whose requests fail never is.
OutageIsTold == []<>(feed # "none" \/ ~row.open \/ row.route = "gone" \/ told # None)
=============================================================================
