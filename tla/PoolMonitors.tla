------------------------------ MODULE PoolMonitors ------------------------------
(***************************************************************************)
(* Launches on the DEXes themselves: one onLogs monitor per DEX             *)
(* (solana/dex/*.ts) behind a watchdog (monitorWatchdog.ts), the source-    *)
(* health alerts (sourceHealthMonitor.ts), and what the worker does with a   *)
(* pool creation: registry.ts's resolveNewPool, then a migration check or    *)
(* the candidate pipeline.  Time passes in checks; a feed that works brings  *)
(* traffic all the time, one that stalled or dropped brings nothing.         *)
(***************************************************************************)
EXTENDS Integers, Sequences, FiniteSets

CONSTANTS Dexes,
          Sources,      \* those the alerts look at, in order
          Idle, Quiet, \* checks without traffic: the watchdog's, the alert's
          PoolScenarios \* [on, launches, drops, stalls, faults, quits, born]

Watched == {Sources[i] : i \in DOMAIN Sources}

\* What a DEX logs: the instruction, the transaction's writable accounts in
\* order, and the pool's two mints.
Creation == [dex : Dexes, name : STRING, accounts : Seq({"other", "config", "pool"}), sides : STRING \X STRING]
PoolPlan == [on : SUBSET Dexes, launches : SUBSET Creation, drops : Nat, stalls : Nat, faults : Nat,
             quits : Nat, born : Nat]

\* The enabled DEXes; a pool is of two mints.
MonitorsAssumption ==
    /\ Dexes \subseteq {"PUMPSWAP", "RAYDIUM", "ORCA", "METEORA"} /\ Sources \in Seq(Dexes)
    /\ Idle \in Nat \ {0} /\ Quiet \in Nat \ {0} /\ PoolScenarios \subseteq PoolPlan
    /\ \A s \in PoolScenarios : \A l \in s.launches : l.sides[1] # l.sides[2]
ASSUME MonitorsAssumption

VARIABLES plan,      \* the scenario, with what is left of it
          sub,       \* a monitor's subscriptionId: its number, 0 for undefined
          alive,     \* the subscriptions the node has
          stalled,   \* feeds that bring nothing though subscribed, until they are subscribed anew
          made,      \* subscriptions made so far
          idle,      \* checks since the watchdog heard something
          restart,   \* checkAlive: the subscription it removes
          quit,      \* the shutdown's stop, and whether it met a restart
          seen,      \* checks since the source's last activity
          alerted, pages,   \* the alerted set; alerts since the last activity
          check,     \* the running checks: sources looked at, alert being sent
          items,     \* the launch events and how far each is
          tokens,     \* the token rows
          handed,    \* what the pipeline and the migration check got
          dropped       \* events that ended in nothing, and why

poolVars == <<plan, sub, alive, stalled, made, idle, restart, quit, seen, alerted, pages, check, items, tokens, handed, dropped>>
feed == <<alive, stalled>>
watch == <<sub, made, restart, quit>>
health == <<alerted, pages, check>>
events == <<items, tokens, handed, dropped>>

Launches == UNION {s.launches : s \in PoolScenarios}
Mints == {"sol"} \cup UNION {{l.sides[1], l.sides[2]} : l \in Launches}
Checks == {1, 2}
Running == \A d \in Dexes : quit[d].at = "no"
Hears(d) == alive[d] # {} /\ d \notin stalled
Spend(what) == plan[what] > 0 /\ plan' = [plan EXCEPT ![what] = @ - 1]

\* Types of the watchdogs, the alerts, the events and the rows.
PoolsTypeOK ==
    /\ \A d \in Dexes : sub[d] \in 0 .. made[d] /\ alive[d] \subseteq 1 .. made[d] /\ stalled \subseteq Dexes
    /\ idle \in [Dexes -> 0 .. Idle] /\ seen \in [Watched -> 0 .. Quiet + 1]
    /\ \A d \in Dexes : restart[d].at \in {"no", "removing", "hung"} /\ quit[d].at \in {"no", "removing", "done"}
    /\ alerted \subseteq Watched /\ pages \in [Watched -> Nat]
    /\ check \in [Checks -> [done : 0 .. Len(Sources), sending : BOOLEAN]]
    /\ \A e \in items : e.at \in {"queued", "checking", "handing"}
    /\ tokens \in [Mints -> {"none", "PUMPFUN", "other"}]

PoolsInit ==
    /\ plan \in PoolScenarios
    /\ made = [d \in Dexes |-> IF d \in plan.on THEN 1 ELSE 0]
    /\ sub = made /\ alive = [d \in Dexes |-> 1 .. made[d]] /\ stalled = {}
    /\ idle = [d \in Dexes |-> 0] /\ restart = [d \in Dexes |-> [at |-> "no", id |-> 0]]
    /\ quit = [d \in Dexes |-> [at |-> "no", id |-> 0, raced |-> FALSE]]
    /\ seen = [d \in Watched |-> 0] /\ alerted = {} /\ pages = [d \in Watched |-> 0]
    /\ check = [k \in Checks |-> [done |-> 0, sending |-> FALSE]]
    /\ items = {} /\ handed = {} /\ dropped = {} /\ tokens = [m \in Mints |-> "none"]

-----------------------------------------------------------------------------
(* The node's side of a subscription, and the clock. *)

\* The websocket drops, and says nothing.
Drop(d) ==
    /\ alive[d] # {} /\ Spend("drops") /\ alive' = [alive EXCEPT ![d] = {}]
    /\ UNCHANGED <<stalled, watch, idle, seen, health, events>>
Stall(d) ==
    /\ alive[d] # {} /\ Spend("stalls") /\ stalled' = stalled \cup {d}
    /\ UNCHANGED <<alive, watch, idle, seen, health, events>>
Resume(d) ==
    /\ stalled' = stalled \ {d} /\ d \in stalled
    /\ UNCHANGED <<plan, alive, watch, idle, seen, health, events>>

\* onRawActivity, which both the watchdog and recordActivity hear
Heard(d) ==
    /\ idle' = [idle EXCEPT ![d] = 0]
    /\ alerted' = alerted \ {d}
    /\ seen' = [x \in Watched |-> IF x = d THEN 0 ELSE seen[x]]
    /\ pages' = [x \in Watched |-> IF x = d THEN 0 ELSE pages[x]]

Traffic(d) ==
    /\ Hears(d) /\ (idle[d] > 0 \/ (d \in Watched /\ seen[d] > 0)) /\ Heard(d)
    /\ UNCHANGED <<plan, feed, watch, check, events>>

\* A feed that works is not quiet for as long as a check.
TimePasses ==
    /\ plan.on # {} /\ \A d \in Dexes : Hears(d) => idle[d] = 0
    /\ (\E d \in plan.on : idle[d] < Idle) \/ \E d \in Watched : seen[d] <= Quiet
    /\ idle' = [d \in Dexes |-> IF d \in plan.on /\ idle[d] < Idle THEN idle[d] + 1 ELSE idle[d]]
    /\ seen' = [d \in Watched |-> IF seen[d] <= Quiet THEN seen[d] + 1 ELSE seen[d]]
    /\ UNCHANGED <<plan, feed, watch, health, events>>

-----------------------------------------------------------------------------
(* MonitorWatchdog over a monitor. *)

\* checkAlive, up to the removal it waits for
CheckAlive(d) ==
    /\ quit[d].at = "no" /\ restart[d].at = "no" /\ idle[d] = Idle
    /\ restart' = [restart EXCEPT ![d] = [at |-> "removing", id |-> sub[d]]]
    /\ UNCHANGED <<plan, feed, sub, made, idle, quit, seen, health, events>>

Subscribes(d, old) ==
    /\ made' = [made EXCEPT ![d] = @ + 1] /\ sub' = [sub EXCEPT ![d] = made[d] + 1]
    /\ alive' = [alive EXCEPT ![d] = (@ \ old) \cup {made[d] + 1}] /\ stalled' = stalled \ {d}

\* The removal returned: subscriptionId is cleared and start subscribes.
Restarted(d) ==
    /\ restart[d].at = "removing" /\ restart' = [restart EXCEPT ![d].at = "no"]
    /\ Subscribes(d, {restart[d].id}) /\ idle' = [idle EXCEPT ![d] = 0]
    /\ UNCHANGED <<plan, quit, seen, health, events>>

\* It failed: the subscription is still on record, and start does nothing.  Or
\* it never returns, and `restarting` stays set.
RestartFails(d) ==
    /\ restart[d].at = "removing" /\ Spend("faults")
    /\ \/ restart' = [restart EXCEPT ![d].at = "no"] /\ idle' = [idle EXCEPT ![d] = 0]
       \/ restart' = [restart EXCEPT ![d].at = "hung"] /\ UNCHANGED idle
    /\ UNCHANGED <<feed, sub, made, quit, seen, health, events>>

\* stopAll: the timers are cleared and every monitor's stop starts its removal.
StopAll ==
    /\ Running /\ Spend("quits")
    /\ quit' = [d \in Dexes |-> [at |-> IF d \in plan.on THEN "removing" ELSE "done", id |-> sub[d],
                                raced |-> restart[d].at # "no"]]
    /\ UNCHANGED <<feed, sub, made, restart, idle, seen, health, events>>

Stopped(d) ==
    /\ quit[d].at = "removing" /\ quit' = [quit EXCEPT ![d].at = "done"] /\ sub' = [sub EXCEPT ![d] = 0]
    /\ alive' = [alive EXCEPT ![d] = @ \ {quit[d].id}]
    /\ UNCHANGED <<plan, stalled, made, restart, idle, seen, health, events>>

-----------------------------------------------------------------------------
(* SourceHealthMonitor.check: runs that overlap while an alert is sent. *)

\* Mutant of Look: the alerted set is not written.
LookUnmarked(k) ==
    /\ ~check[k].sending /\ (check[k].done > 0 \/ (Running /\ \E d \in Watched : seen[d] > Quiet))
    /\ LET d == Sources[check[k].done + 1]
           alert == seen[d] > Quiet /\ d \notin alerted
       IN  /\ pages' = IF alert THEN [pages EXCEPT ![d] = @ + 1] ELSE pages
           /\ check' = [check EXCEPT ![k] = [done |-> (@.done + 1) % Len(Sources), sending |-> alert]]
    /\ UNCHANGED <<plan, feed, watch, idle, seen, alerted, events>>

\* One source of a run: marked, then the alert is awaited.
Look(k) ==
    /\ ~check[k].sending /\ (check[k].done > 0 \/ (Running /\ \E d \in Watched : seen[d] > Quiet))
    /\ LET d == Sources[check[k].done + 1]
           alert == seen[d] > Quiet /\ d \notin alerted
       IN  /\ alerted' = IF alert THEN alerted \cup {d} ELSE alerted
           /\ pages' = IF alert THEN [pages EXCEPT ![d] = @ + 1] ELSE pages
           /\ check' = [check EXCEPT ![k] = [done |-> (@.done + 1) % Len(Sources), sending |-> alert]]
    /\ UNCHANGED <<plan, feed, watch, idle, seen, events>>

\* notifyError swallows its own failures.
Sent(k) ==
    /\ check[k].sending /\ check' = [check EXCEPT ![k].sending = FALSE]
    /\ UNCHANGED <<plan, feed, watch, idle, seen, alerted, pages, events>>

-----------------------------------------------------------------------------
(* Pool creations. *)

\* The instruction names each monitor takes for a pool creation
PumpSwapCreation == {"CreatePool", "Deposit", "InitializePool"}
RaydiumCreation == {"Initialize", "InitializeWithPermission"}
OrcaCreation == {"InitializePool", "InitializePoolV2"}
MeteoraCreation == {"InitializeLbPair", "InitializeCustomizablePermissionlessLbPair", "InitializePermissionLbPair"}
IsCreation(l) ==
    l.name \in CASE l.dex = "PUMPSWAP" -> PumpSwapCreation [] l.dex = "RAYDIUM" -> RaydiumCreation
                 [] l.dex = "ORCA" -> OrcaCreation [] OTHER -> MeteoraCreation

\* Something happens on a DEX; every subscription that works hears of it.
Logged(l) ==
    /\ l \in plan.launches /\ plan' = [plan EXCEPT !.launches = @ \ {l}]
    /\ IF Hears(l.dex) /\ IsCreation(l) THEN items' = items \cup {[of |-> l, at |-> "queued", known |-> "none"]}
       ELSE UNCHANGED items
    /\ IF Hears(l.dex) THEN Heard(l.dex) ELSE UNCHANGED <<idle, seen, alerted, pages>>
    /\ UNCHANGED <<feed, watch, check, tokens, handed, dropped>>

\* The token of a pool: PumpSwap's is the base, the others' the side that is
\* not SOL.
PumpSwapBase(sides) == sides[1]

RaydiumBase(sides) == IF sides[1] = "sol" THEN sides[2] ELSE sides[1]

OrcaBase(sides) == IF sides[1] = "sol" THEN sides[2] ELSE sides[1]
MeteoraBase(sides) == IF sides[1] = "sol" THEN sides[2] ELSE sides[1]
Base(l) ==
    CASE l.dex = "PUMPSWAP" -> PumpSwapBase(l.sides) [] l.dex = "RAYDIUM" -> RaydiumBase(l.sides)
      [] l.dex = "ORCA" -> OrcaBase(l.sides) [] OTHER -> MeteoraBase(l.sides)

\* resolveNewPool: some account of the program decodes as a pool
Resolves(l) == \E i \in DOMAIN l.accounts : l.accounts[i] = "pool"

Advances(e, at) == items' = (items \ {e}) \cup {[e EXCEPT !.at = at]}
Ends(e, why) == items' = items \ {e} /\ dropped' = dropped \cup {[of |-> e.of, why |-> why]}

\* The transaction, the accounts or the pool's vaults cannot be read: dropped.
Resolve(e) ==
    /\ e.at = "queued"
    /\ \/ /\ IF Resolves(e.of) THEN Advances(e, "checking") /\ UNCHANGED dropped ELSE Ends(e, "unresolved")
          /\ UNCHANGED plan
       \/ Spend("faults") /\ Ends(e, "fault")
    /\ UNCHANGED <<feed, watch, idle, seen, health, tokens, handed>>

ReadToken(e) ==
    /\ e.at = "checking"
    /\ items' = (items \ {e}) \cup {[e EXCEPT !.at = "handing", !.known = tokens[Base(e.of)]]}
    /\ UNCHANGED <<plan, feed, watch, idle, seen, health, tokens, handed, dropped>>

To(e, where) == handed' = handed \cup {[of |-> e.of, mint |-> Base(e.of), to |-> where]}

\* processDiscoveryItem: a known pump.fun token has migrated, a new one is a
\* candidate, whose row the pipeline writes.
Hand(e) ==
    /\ e.at = "handing" /\ items' = items \ {e}
    /\ CASE e.known = "PUMPFUN" -> To(e, "migration") /\ UNCHANGED tokens
         [] e.known = "other" -> UNCHANGED <<handed, tokens>>
         [] OTHER -> To(e, "pipeline") /\ tokens' = [tokens EXCEPT ![Base(e.of)] = IF @ = "none" THEN "other" ELSE @]
    /\ UNCHANGED <<plan, feed, watch, idle, seen, health, dropped>>

\* pump.fun's own feed writes the row of a token it sees first.
PumpFunLaunch(m) ==
    /\ tokens[m] = "none" /\ m # "sol" /\ Spend("born") /\ tokens' = [tokens EXCEPT ![m] = "PUMPFUN"]
    /\ UNCHANGED <<feed, watch, idle, seen, health, items, handed, dropped>>

-----------------------------------------------------------------------------
Process(e) == Resolve(e) \/ ReadToken(e) \/ Hand(e)
Settled(d) == Restarted(d) \/ Stopped(d)

PoolsNext ==
    \/ TimePasses \/ StopAll
    \/ \E d \in Dexes : Drop(d) \/ Stall(d) \/ Resume(d) \/ Traffic(d) \/ CheckAlive(d) \/ RestartFails(d) \/ Settled(d)
    \/ \E k \in Checks : Look(k) \/ Sent(k)
    \/ \E l \in plan.launches : Logged(l)
    \/ \E e \in items : Process(e)
    \/ \E m \in Mints : PumpFunLaunch(m)

PoolsSpec == PoolsInit /\ [][PoolsNext]_poolVars

\* Timers fire, requests are answered or time out, working feeds bring traffic.
PoolsFairness ==
    /\ WF_poolVars(TimePasses)
    /\ \A d \in Dexes : WF_poolVars(Traffic(d)) /\ WF_poolVars(CheckAlive(d)) /\ WF_poolVars(Settled(d))
    /\ \A k \in Checks : WF_poolVars(Look(k)) /\ WF_poolVars(Sent(k))
    /\ WF_poolVars(\E e \in items : Process(e))

-----------------------------------------------------------------------------
(* Properties. *)

\* A restart replaces a subscription, also one that is only stalled: two would
\* deliver every launch twice.
OneSubscriptionEach == Running => \A d \in Dexes : Cardinality(alive[d]) <= 1

\* A stop that met no restart leaves nothing subscribed.
QuitIsClean == \A d \in Dexes : quit[d].at = "done" /\ ~quit[d].raced => alive[d] = {} /\ sub[d] = 0

\* sourceHealthMonitor.ts:10-13: a silence is paged once, however many checks
\* see it and overlap while the page is sent.
PagedOnce == \A d \in Watched : pages[d] <= 1

\* A dropped subscription is back in the end, whatever single removals fail;
\* only a removal that never returns keeps it away.
FeedReturns == []<>(~Running \/ \A d \in plan.on : alive[d] # {} \/ restart[d].at = "hung")

\* Every silence is paged, also when other sources are silent too.
SilenceIsPaged == \A d \in Watched : []<>(~Running \/ seen[d] <= Quiet \/ pages[d] > 0)

\* What is handed on is the pool's token; it is SOL only if a pool on PumpSwap
\* has SOL as its base.
CandidateIsTheToken ==
    \A h \in handed : h.mint = "sol" => h.of.dex = "PUMPSWAP" /\ h.of.sides[1] = "sol"

\* An event that a monitor passed on comes to nothing only for a failed read.
LossHasCause == \A x \in dropped : x.why = "unresolved" => \A i \in DOMAIN x.of.accounts : x.of.accounts[i] # "pool"

\* Two pools of one new token make two candidates only if they were looked up
\* at the same time.
CandidateOnce ==
    [][\A h \in handed' \ handed :
           h.to = "pipeline" /\ (\E g \in handed : g.mint = h.mint /\ g.to = "pipeline") =>
               \E e \in items \ items' : e.of = h.of /\ e.known = "none"]_poolVars

\* A pool of a pump.fun token is its migration, and is never ignored.
MigrationIsTold ==
    [][\A e \in items \ items' : e.at = "handing" /\ e.known = "PUMPFUN" =>
           [of |-> e.of, mint |-> Base(e.of), to |-> "migration"] \in handed']_poolVars

\* Every event is worked off.
EventsEnd == []<>(items = {})

\* dex/*.ts, monitorWatchdog.ts, sourceHealthMonitor.ts, registry.ts: types; one
\* subscription per DEX, a clean stop, one page per silence; and of every pool
\* its token, once, to the right reader.
PoolsAreSound ==
    /\ [](PoolsTypeOK /\ OneSubscriptionEach /\ QuitIsClean /\ PagedOnce /\ CandidateIsTheToken /\ LossHasCause)
    /\ CandidateOnce /\ MigrationIsTold
=============================================================================
