---------------------------- MODULE ScannerHealth ----------------------------
(***************************************************************************)
(* detection/scannerHealth.ts over the feed and the fallback scan: the     *)
(* state the coordinator derives from the two, the reconciliation after an *)
(* outage and the pause of auto-buys.  A tick awaits Redis before it moves *)
(* the state, so two ticks may overlap; an administrator writes the same   *)
(* flag (routes/admin.ts).                                                 *)
(***************************************************************************)
EXTENDS LaunchFeed

CONSTANT FeedScenarios    \* configurations, and how much of each part runs

ASSUME FeedScenarioAssumption ==
    FeedScenarios \subseteq [providers : Provider, flips : Nat, sticky : BOOLEAN, timers : BOOLEAN, slow : BOOLEAN,
                            launches : 0 .. MaxLaunches, faults : Nat, admin : Nat, autoResume : BOOLEAN]

VARIABLES state,        \* of the coordinator
          reconciled,   \* reconciliationDone
          applying,     \* ticks that await Redis: what each has still to do
          paused,       \* the pause flag: "no", "auto" or "manual"
          adminActs,    \* bound: writes of the flag by an administrator
          autoResume,   \* SCANNER_AUTO_BUY_AUTO_RESUME_ENABLED
          excused,      \* observer: why an outage may go without its pause
          gap,          \* observer: launches there were when RECOVERING began
          scenario

healthVars == <<state, reconciled, applying, paused, adminActs, autoResume, excused, gap, scenario>>
vars == <<feedVars, scanVars, healthVars>>

ScannerState == {"HEALTHY", "DEGRADED", "RECOVERING", "UNHEALTHY"}
Writes == {"pause", "clear", "stale", "clearStale"}

\* Types of all three parts.
TypeOK ==
    /\ FeedTypeOK /\ ScanTypeOK
    /\ state \in ScannerState /\ applying \subseteq Writes
    /\ paused \in {"no", "auto", "manual"} /\ adminActs \in Nat
    /\ {reconciled, autoResume, excused} \subseteq BOOLEAN
    /\ gap \in 0 .. chain

Init ==
    /\ scenario \in FeedScenarios
    /\ count = scenario.providers /\ sticky = scenario.sticky /\ timers = scenario.timers
    /\ slow = scenario.slow /\ flips = scenario.flips
    /\ launches = scenario.launches /\ scanFaults = scenario.faults
    /\ adminActs = scenario.admin /\ autoResume = scenario.autoResume
    /\ FeedInit /\ ScanInit
    /\ state = "HEALTHY" /\ reconciled = FALSE /\ applying = {}
    /\ paused \in IF autoResume THEN {"no", "auto"} ELSE {"no"}    \* of before a restart
    /\ excused = FALSE /\ gap = 0

\* What the two sources say, before the reconciliation is looked at.
Derived ==
    IF Healthy THEN IF state = "HEALTHY" THEN "HEALTHY" ELSE "RECOVERING"
    ELSE IF reachable THEN "DEGRADED" ELSE "UNHEALTHY"

\* applyState: the state moves at once unless Redis is written first; the
\* tick that finds HEALTHY unchanged looks for a stale pause.
Apply(next) ==
    LET write == IF next = state
                 THEN IF next = "HEALTHY" /\ autoResume THEN {"stale"} ELSE {}
                 ELSE IF next = "UNHEALTHY" THEN {"pause"}
                 ELSE IF next = "HEALTHY" /\ autoResume THEN {"clear"} ELSE {}
    IN /\ write \cap applying = {}     \* bound: one tick at each write
       /\ applying' = applying \cup write
       /\ state' = IF write \subseteq {"stale"} THEN next ELSE state
       /\ fallbackMode' = (next # "HEALTHY")

\* The feed is healthy again.  Entering RECOVERING starts a reconciliation;
\* with a scan in flight that returns at once, and counts as done.
TickRecovering ==
    /\ Derived = "RECOVERING"
    /\ \/ /\ state # "RECOVERING" /\ scanning = "no" /\ gap' = chain
          /\ reconciled' = FALSE
          /\ scanning' = "reconciliation" /\ head' = IF chain > watermark THEN chain ELSE 0
          /\ todo' = {n \in watermark + 1 .. chain : chain - n < ScanCap}
          /\ Apply("RECOVERING")
       \/ /\ state # "RECOVERING" /\ scanning # "no" /\ gap' = chain
          /\ reconciled' = TRUE
          /\ UNCHANGED <<scanning, head, todo>> /\ Apply("RECOVERING")
       \/ /\ state = "RECOVERING" /\ reconciled
          /\ UNCHANGED <<scanning, head, todo, reconciled, gap>> /\ Apply("HEALTHY")
       \/ /\ state = "RECOVERING" /\ ~reconciled
          /\ UNCHANGED <<scanning, head, todo, reconciled>>
          /\ \/ Apply("RECOVERING") /\ UNCHANGED gap
             \/ Apply("HEALTHY") /\ gap' = 0           \* recoveringCeilingMs
    /\ UNCHANGED <<chain, launches, known, lost, watermark, fallbackUp, scanFaults, reachable>>

TickOther ==
    /\ Derived # "RECOVERING" /\ Apply(Derived)
    /\ UNCHANGED <<chain, launches, known, lost, watermark, head, scanning, todo,
                   fallbackUp, scanFaults, reachable, reconciled, gap>>

HealthTick ==
    /\ TickRecovering \/ TickOther
    /\ UNCHANGED <<feedVars, paused, adminActs, autoResume, excused, scenario>>

\* setScannerAutoBuyPauseState(true); a failure is logged and the state
\* moves all the same.
WritePause(ok) ==
    /\ "pause" \in applying
    /\ applying' = applying \ {"pause"} /\ state' = "UNHEALTHY"
    /\ paused' = IF ok THEN "auto" ELSE paused
    /\ excused' = (~ok /\ paused = "no")
    /\ UNCHANGED <<feedVars, scanVars, reconciled, adminActs, autoResume, gap, scenario>>

\* A clear that overlaps a tick which has the outage to record.
Crossed == "pause" \in applying \/ state = "UNHEALTHY"

\* The transition to HEALTHY with automatic resume.
WriteClear(ok) ==
    /\ "clear" \in applying
    /\ applying' = applying \ {"clear"} /\ state' = "HEALTHY"
    /\ paused' = IF ok THEN "no" ELSE paused
    /\ excused' = (excused \/ Crossed)
    /\ UNCHANGED <<feedVars, scanVars, reconciled, adminActs, autoResume, gap, scenario>>

\* clearStaleAutoPause: the flag and its reason are read, then cleared.
ReadStale ==
    /\ "stale" \in applying
    /\ applying' = (applying \ {"stale"}) \cup IF paused = "auto" THEN {"clearStale"} ELSE {}
    /\ UNCHANGED <<feedVars, scanVars, state, reconciled, paused, adminActs, autoResume,
                   excused, gap, scenario>>

WriteClearStale ==
    /\ "clearStale" \in applying
    /\ applying' = applying \ {"clearStale"}
    /\ paused' = "no"
    /\ excused' = (excused \/ Crossed)
    /\ UNCHANGED <<feedVars, scanVars, state, reconciled, adminActs, autoResume, gap, scenario>>

\* PUT /admin/trading/auto-buy
AdminSets(on) ==
    /\ adminActs > 0 /\ adminActs' = adminActs - 1
    /\ paused' = IF on THEN "no" ELSE "manual"
    /\ excused' = (excused \/ on)
    /\ UNCHANGED <<feedVars, scanVars, state, reconciled, applying, autoResume, gap, scenario>>

\* The scan's own steps; a reconciliation that ends, however it ends,
\* resolves the coordinator's promise.
ScanStep ==
    /\ \/ IdleTick \/ FallbackTimer \/ AbortScan \/ FinishScan
       \/ \E parsed \in BOOLEAN : ParseNext(parsed)
    /\ scenario.launches > 0
    /\ reconciled' = (reconciled \/ (scanning = "reconciliation" /\ scanning' = "no"))
    /\ UNCHANGED <<feedVars, state, applying, paused, adminActs, autoResume, excused, gap, scenario>>

\* A reconciliation, the feed's own steps and the world.
FeedStep == FeedNext /\ UNCHANGED <<scanVars, healthVars>>
Launched == (Create(Flowing) \/ FallbackFault) /\ UNCHANGED <<feedVars, healthVars>>
Coordinate ==
    /\ scenario.launches > 0
    /\ HealthTick \/ ReadStale \/ WriteClearStale \/ (\E ok \in BOOLEAN : WritePause(ok) \/ WriteClear(ok))

Next ==
    \/ FeedStep \/ ScanStep \/ Launched \/ Coordinate
    \/ \E on \in BOOLEAN : AdminSets(on)

Spec == Init /\ [][Next]_vars

Feed(act) == act /\ UNCHANGED <<scanVars, healthVars>>

\* Timers fire; a provider answers the removal of a subscription, and one
\* that serves a subscription delivers; calls return and Redis answers.  The
\* watchdog's interval is longer than a reconnect takes.
Fairness ==
    /\ WF_vars(Feed(\E removed \in BOOLEAN : Resubscribed(removed)))
    /\ SF_vars(Feed(Watchdog)) /\ WF_vars(Feed(Verify))
    /\ WF_vars(Feed(Silence)) /\ WF_vars(Feed(RecordValidCreate))
    /\ \A p \in Provider : WF_vars(Feed(RawEvent(p))) /\ WF_vars(Feed(CooldownLapses(p)))
    /\ WF_vars(HealthTick /\ scenario.launches > 0)
    /\ WF_vars(IdleTick /\ ScanStep) /\ SF_vars(FallbackTimer /\ ScanStep)
    /\ WF_vars((AbortScan \/ FinishScan \/ ParseNext(TRUE)) /\ ScanStep)
    /\ WF_vars(ReadStale) /\ WF_vars(WriteClearStale)
    /\ WF_vars(\E ok \in BOOLEAN : WritePause(ok))
    /\ WF_vars(\E ok \in BOOLEAN : WriteClear(ok))

FairSpec == Spec /\ Fairness

\* Whatever the timers, their reconnects and the throws do, an ok provider is
\* subscribed again and again: no failure leaves the monitor deaf (pumpfun.ts),
\* provided that a removal answers within an interval of the watchdog.
FeedRecovers == ~slow => []<>(Flowing \/ \A p \in 1 .. count : status[p] # "ok")

\* The feed does not stay healthy while nothing comes from it.
HealthIsHonest == []<>(Healthy => Flowing)

\* Two timers never leave two subscriptions behind, provided that removing
\* one works.
OneSubscription == ~sticky => Cardinality(open) <= 1

\* No scan passes over a launch it never parsed, not even one that failed.
WatermarkCovers == \A n \in 1 .. watermark : Covered(n)

\* An outage that lasts is covered by the fallback: every launch is found
\* while the feed is not healthy and the fallback's calls succeed.
OutageIsCovered ==
    []<>(state = "HEALTHY" \/ ~fallbackUp \/ \A n \in 1 .. chain : Covered(n))

\* A total outage has auto-buys paused, unless the write failed, an
\* administrator resumed them or a tick of before the outage cleared the flag.
UnhealthyIsPaused == state = "UNHEALTHY" => paused # "no" \/ excused

\* A total outage that lasts is recognised.
OutageIsNoticed == []<>(Healthy \/ fallbackUp \/ state = "UNHEALTHY")

\* A recovery ends, whatever becomes of its reconciliation.
RecoversToHealthy == []<>(state = "HEALTHY" \/ ~Healthy)

\* With automatic resume, an automatic pause does not outlive the outage,
\* nor a restart.
AutoPauseEnds == []<>(~autoResume \/ paused # "auto" \/ ~Healthy)

\* pumpfun.ts, scannerHealth.ts: types; one subscription at a time; no total outage
\* with auto-buys going on, but for the reasons noted.
FeedIsSound == TypeOK /\ OneSubscription /\ UnhealthyIsPaused
=============================================================================
