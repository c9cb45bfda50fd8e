----------------------------- MODULE LaunchFeed -----------------------------
(***************************************************************************)
(* solana/pumpfun.ts: one log subscription, kept alive over an ordered     *)
(* list of websocket providers.  A reconnect awaits the removal of the old *)
(* subscription; every timer of the monitor may fire in that gap.          *)
(* Delivery is best effort: a provider may go silent, drop the creates     *)
(* only, or throw on subscribing.  Time is what has lapsed: whether raw    *)
(* logs or creates have been silent beyond the threshold, and which        *)
(* providers are still on cooldown.                                        *)
(* detection/fallbackLaunchDiscovery.ts: launches found by listing the     *)
(* program's signatures down to a watermark and parsing them oldest first. *)
(* Launches are numbered in the order of their signatures; a scan holds    *)
(* what it listed across one await per signature, and fails as a whole.    *)
(***************************************************************************)
EXTENDS Naturals, FiniteSets

CONSTANT MaxProviders

ASSUME ProvidersAssumption == MaxProviders \in Nat \ {0}

VARIABLES count,         \* providers configured; the first is the primary
          status,        \* what each provider does to this subscription
          flips,         \* bound: changes of status still to come
          active,        \* activeProviderIndex
          subscribed,    \* subscriptionId # undefined
          open,          \* the providers that still push logs to this process
          switching,     \* the reconnect in flight, or NoSwitch
          cooldown,      \* providers with cooldownUntil ahead
          rawSilent,     \* no raw log within launchSilenceThresholdMs
          createSilent,  \* no valid create within it
          escalate,      \* pendingCreateSilenceEscalation
          verifying,     \* the provider the verification timer is about, or 0
          fresh,         \* a raw log came after that timer was set
          sticky,        \* the removal of a subscription may fail
          slow,          \* a removal may outlast an interval of the watchdog
          timers         \* the monitor's timers run; in their absence nothing reconnects

feedVars == <<count, status, flips, active, subscribed, open, switching,
              cooldown, rawSilent, createSilent, escalate, verifying, fresh, sticky, slow, timers>>

Provider == 1 .. MaxProviders
Status == {"ok", "dropsCreates", "silent", "throws"}
NoSwitch == [target |-> 0, verify |-> FALSE]

FeedTypeOK ==
    /\ count \in Provider /\ status \in [Provider -> Status] /\ flips \in Nat
    /\ active \in 1 .. count /\ subscribed \in BOOLEAN /\ open \subseteq 1 .. count
    /\ switching \in [target : 0 .. count, verify : BOOLEAN]
    /\ cooldown \subseteq 1 .. count
    /\ {rawSilent, createSilent, escalate, fresh, sticky, slow, timers} \subseteq BOOLEAN
    /\ verifying \in 0 .. count

Delivers(p) == p \in open /\ status[p] \in {"ok", "dropsCreates"}
Flowing == \E p \in open : status[p] = "ok"

\* getHealth's activeProviderHealthy
Healthy == subscribed /\ switching = NoSwitch /\ ~rawSilent /\ ~createSilent

\* The next provider off cooldown, round robin; else the one whose cooldown
\* ends first, which may be any.
NextProvider(cooling) ==
    LET At(k) == ((active + k - 1) % count) + 1
        ready == {k \in 1 .. count : At(k) \notin cooling}
    IN IF ready = {} THEN 1 .. count
       ELSE {At(k) : k \in {k \in ready : \A j \in ready : k <= j}}

\* subscribe, then the verification a failover asks for.  A throw inside a
\* reconnect does not fail over: the reconnect itself is still in flight.
Subscribe(p, verify, cooling, timer) ==
    /\ active' = p
    /\ subscribed' = (status[p] # "throws")
    /\ cooldown' = IF status[p] = "throws" THEN cooling \cup {p} ELSE cooling
    /\ verifying' = IF verify THEN p ELSE timer
    /\ fresh' = (fresh /\ ~verify)

\* Mutant of ChangeProvider: a reconnect in flight is not looked at.
ChangeProviderOverlapping(p, verify, cooling, timer) ==
    \/ /\ subscribed
       /\ subscribed' = FALSE /\ switching' = [target |-> p, verify |-> verify]
       /\ cooldown' = cooling /\ verifying' = timer
       /\ UNCHANGED <<active, open, fresh>>
    \/ /\ ~subscribed
       /\ Subscribe(p, verify, cooling, timer)
       /\ open' = IF status[p] # "throws" THEN open \cup {p} ELSE open
       /\ UNCHANGED switching

\* changeProvider up to its first await; without an old subscription it
\* runs to its end at once.
ChangeProvider(p, verify, cooling, timer) ==
    \/ /\ switching # NoSwitch
       /\ cooldown' = cooling
       /\ verifying' = timer
       /\ UNCHANGED <<active, subscribed, open, switching, fresh>>
    \/ /\ switching = NoSwitch /\ subscribed
       /\ subscribed' = FALSE /\ switching' = [target |-> p, verify |-> verify]
       /\ cooldown' = cooling /\ verifying' = timer
       /\ UNCHANGED <<active, open, fresh>>
    \/ /\ switching = NoSwitch /\ ~subscribed
       /\ Subscribe(p, verify, cooling, timer)
       /\ open' = IF status[p] # "throws" THEN open \cup {p} ELSE open
       /\ UNCHANGED switching

Failover(cooling, timer) ==
    \E p \in NextProvider(cooling) : ChangeProvider(p, TRUE, cooling, timer)

\* The old subscription is gone, or its removal failed and it stays.
Resubscribed(removed) ==
    /\ switching # NoSwitch /\ (removed \/ sticky)
    /\ Subscribe(switching.target, switching.verify, cooldown, verifying)
    /\ open' = (IF removed THEN open \ {active} ELSE open)
                 \cup IF subscribed' THEN {active'} ELSE {}
    /\ switching' = NoSwitch
    /\ UNCHANGED <<count, sticky, slow, timers, status, flips, rawSilent, createSilent, escalate>>

\* Mutant of Watchdog: create silence only ever resubscribes to the provider.
WatchdogNoEscalation ==
    /\ timers /\ (switching = NoSwitch \/ slow)
    /\ rawSilent \/ createSilent
    /\ IF rawSilent THEN escalate' = FALSE /\ Failover(cooldown \cup {active}, verifying)
       ELSE escalate' = TRUE /\ ChangeProvider(active, FALSE, cooldown, verifying)
    /\ UNCHANGED <<count, sticky, slow, timers, status, flips, rawSilent, createSilent>>

\* checkWatchdog: raw silence fails over; create silence gets the provider
\* one more subscription, and fails over if that did not help.
Watchdog ==
    /\ timers /\ (switching = NoSwitch \/ slow)
    /\ rawSilent \/ createSilent
    /\ IF rawSilent \/ escalate
       THEN escalate' = FALSE /\ Failover(cooldown \cup {active}, verifying)
       ELSE escalate' = TRUE /\ ChangeProvider(active, FALSE, cooldown, verifying)
    /\ UNCHANGED <<count, sticky, slow, timers, status, flips, rawSilent, createSilent>>

\* checkPrimaryRecovery
PrimaryProbe ==
    /\ timers /\ count > 1 /\ active # 1 /\ 1 \notin cooldown
    /\ ChangeProvider(1, TRUE, cooldown, verifying)
    /\ UNCHANGED <<count, sticky, slow, timers, status, flips, rawSilent, createSilent, escalate>>

\* The periodic timer and forceResubscribe
Periodic ==
    /\ timers
    /\ ChangeProvider(active, FALSE, cooldown, verifying)
    /\ UNCHANGED <<count, sticky, slow, timers, status, flips, rawSilent, createSilent, escalate>>

\* The verification timer.  It leaves a provider alone that is no longer
\* active, and it does nothing while a reconnect is in flight.
Verify ==
    /\ verifying # 0
    /\ IF active # verifying \/ switching # NoSwitch
       THEN verifying' = 0 /\ UNCHANGED <<active, subscribed, open, switching, cooldown, fresh>>
       ELSE IF fresh
       THEN /\ verifying' = 0 /\ cooldown' = cooldown \ {active}
            /\ UNCHANGED <<active, subscribed, open, switching, fresh>>
       ELSE Failover(cooldown \cup {active}, 0)
    /\ UNCHANGED <<count, sticky, slow, timers, status, flips, rawSilent, createSilent, escalate>>

\* A raw log arrives, whichever subscription carries it.
RawEvent(p) ==
    /\ Delivers(p) /\ (rawSilent \/ (verifying # 0 /\ ~fresh))
    /\ rawSilent' = FALSE /\ fresh' = (verifying # 0)
    /\ UNCHANGED <<count, sticky, slow, timers, status, flips, active, subscribed, open, switching,
                   cooldown, createSilent, escalate, verifying>>

\* A log that turns out to be a genuine create.
RecordValidCreate ==
    /\ Flowing /\ (createSilent \/ escalate)
    /\ createSilent' = FALSE /\ escalate' = FALSE
    /\ rawSilent' = FALSE /\ fresh' = (verifying # 0)
    /\ UNCHANGED <<count, sticky, slow, timers, status, flips, active, subscribed, open, switching, cooldown, verifying>>

\* The threshold passes with nothing received.
Silence ==
    /\ \/ rawSilent' = TRUE /\ createSilent' = TRUE /\ ~rawSilent
          /\ \A p \in open : ~Delivers(p)
       \/ createSilent' = TRUE /\ ~createSilent /\ ~Flowing /\ UNCHANGED rawSilent
    /\ UNCHANGED <<count, sticky, slow, timers, status, flips, active, subscribed, open, switching,
                   cooldown, escalate, verifying, fresh>>

CooldownLapses(p) ==
    /\ p \in cooldown /\ cooldown' = cooldown \ {p}
    /\ UNCHANGED <<count, sticky, slow, timers, status, flips, active, subscribed, open, switching,
                   rawSilent, createSilent, escalate, verifying, fresh>>

\* A provider changes what it does to the subscription; a dead socket
\* carries nothing until a new subscription.
Flip(p, s) ==
    /\ flips > 0 /\ p <= count /\ s # status[p] /\ (timers \/ s \in {"ok", "silent"})
    /\ status' = [status EXCEPT ![p] = s] /\ flips' = flips - 1
    /\ UNCHANGED <<count, sticky, slow, timers, active, subscribed, open, switching, cooldown,
                   rawSilent, createSilent, escalate, verifying, fresh>>

\* The constructor and start.  A throw there fails over at once.
FeedInit ==
    /\ active = 1 /\ switching = NoSwitch /\ cooldown = {}
    /\ subscribed = TRUE /\ open = {1} /\ status = [p \in Provider |-> "ok"]
    /\ rawSilent = FALSE /\ createSilent = FALSE /\ escalate = FALSE /\ verifying = 0 /\ fresh = FALSE

FeedNext ==
    \/ \E removed \in BOOLEAN : Resubscribed(removed)
    \/ Watchdog \/ PrimaryProbe \/ Periodic \/ Verify \/ RecordValidCreate \/ Silence
    \/ \E p \in Provider : RawEvent(p) \/ CooldownLapses(p)
    \/ \E p \in Provider, s \in Status : Flip(p, s)
-----------------------------------------------------------------------------
CONSTANTS MaxLaunches,   \* bound on the launches of a behaviour
          ScanCap        \* maxSignaturesPerScan, or the lookback floor

ASSUME ScanAssumption == MaxLaunches \in Nat /\ ScanCap \in Nat \ {0}

VARIABLES chain,       \* launches so far
          launches,    \* launches of this behaviour
          known,       \* launches that have reached the candidate pipeline
          lost,        \* observer: never to be found: unparsed, or below a scan's cap
          watermark,   \* launches up to here are not listed again; 0 is none yet
          head,        \* the newest launch the scan in flight listed, if any
          scanning,    \* the scan's kind, or "no"
          todo,        \* what it still has to parse
          fallbackUp,  \* whether the RPC calls of this path succeed
          scanFaults,      \* bound: changes of fallbackUp still to come
          reachable,   \* the last call of this path succeeded
          fallbackMode \* the active timer is set

scanVars == <<chain, launches, known, lost, watermark, head, scanning, todo,
              fallbackUp, scanFaults, reachable, fallbackMode>>

Launch == 1 .. MaxLaunches

ScanTypeOK ==
    /\ {chain, launches, watermark, head} \subseteq 0 .. MaxLaunches
    /\ known \subseteq 1 .. chain /\ lost \subseteq 1 .. chain /\ todo \subseteq 1 .. head
    /\ scanning \in {"no", "fallback", "reconciliation"}
    /\ {fallbackUp, reachable, fallbackMode} \subseteq BOOLEAN /\ scanFaults \in Nat

ScanInit ==
    /\ chain = 0 /\ known = {} /\ lost = {} /\ watermark = 0 /\ head = 0
    /\ scanning = "no" /\ todo = {} /\ fallbackUp = TRUE /\ reachable = FALSE /\ fallbackMode = FALSE

OldestOf(S) == CHOOSE n \in S : \A m \in S : n <= m

\* idleTick: proves the path works, and sets the first watermark.
IdleTick ==
    /\ reachable' = fallbackUp
    /\ watermark' = IF fallbackUp /\ watermark = 0 THEN chain ELSE watermark
    /\ lost' = IF watermark = 0 THEN lost \cup (1 .. watermark' \ known) ELSE lost
    /\ UNCHANGED <<chain, launches, known, head, scanning, todo, fallbackUp, scanFaults, fallbackMode>>

\* activeScan up to the end of its listing: the newest ScanCap signatures
\* above the watermark.
BeginScan(kind) ==
    /\ scanning = "no"
    /\ scanning' = kind /\ head' = IF chain > watermark THEN chain ELSE 0
    /\ todo' = {n \in watermark + 1 .. chain : chain - n < ScanCap}
    /\ UNCHANGED <<chain, launches, known, lost, watermark, fallbackUp, scanFaults,
                   reachable, fallbackMode>>

\* The active timer; a scan in flight makes it return at once.
FallbackTimer == fallbackMode /\ BeginScan("fallback")

\* One signature: its transaction is null and it is passed over, its mint is
\* known, or the candidate goes through the pipeline.
ParseNext(parsed) ==
    /\ scanning # "no" /\ fallbackUp /\ todo # {}
    /\ LET n == OldestOf(todo) IN
       /\ todo' = todo \ {n}
       /\ known' = IF parsed THEN known \cup {n} ELSE known
       /\ lost' = IF parsed \/ n \in known THEN lost ELSE lost \cup {n}
    /\ UNCHANGED <<chain, launches, watermark, head, scanning, fallbackUp, scanFaults,
                   reachable, fallbackMode>>

\* Mutant of AbortScan: the watermark moves although the scan failed.
AbortScanMoved ==
    /\ scanning # "no" /\ ~fallbackUp
    /\ scanning' = "no" /\ todo' = {} /\ head' = 0 /\ reachable' = FALSE
    /\ watermark' = IF head # 0 THEN head ELSE watermark
    /\ UNCHANGED <<chain, launches, known, lost, fallbackUp, scanFaults, fallbackMode>>

\* A call of the scan throws: the watermark stays where it was.
AbortScan ==
    /\ scanning # "no" /\ ~fallbackUp
    /\ scanning' = "no" /\ todo' = {} /\ head' = 0 /\ reachable' = FALSE
    /\ UNCHANGED <<chain, launches, known, lost, watermark, fallbackUp, scanFaults, fallbackMode>>

\* The scan completes: the watermark becomes the newest it listed.
FinishScan ==
    /\ scanning # "no" /\ todo = {} /\ fallbackUp
    /\ watermark' = IF head # 0 THEN head ELSE watermark
    /\ lost' = lost \cup {n \in 1 .. head : head - n >= ScanCap /\ n \notin known}
    /\ scanning' = "no" /\ head' = 0 /\ reachable' = TRUE
    /\ UNCHANGED <<chain, launches, known, todo, fallbackUp, scanFaults, fallbackMode>>

\* A token is launched, and the feed delivers it or not.
Create(delivered) ==
    /\ chain < launches /\ chain' = chain + 1
    /\ known' = IF delivered THEN known \cup {chain'} ELSE known
    /\ UNCHANGED <<launches, lost, watermark, head, scanning, todo, fallbackUp, scanFaults,
                   reachable, fallbackMode>>

FallbackFault ==
    /\ scanFaults > 0 /\ scanFaults' = scanFaults - 1 /\ fallbackUp' = ~fallbackUp
    /\ UNCHANGED <<chain, launches, known, lost, watermark, head, scanning, todo,
                   reachable, fallbackMode>>

\* Launches a completed scan has passed, or never will.
Covered(n) == n \in known \cup lost
=============================================================================
