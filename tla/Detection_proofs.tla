-------------------------- MODULE Detection_proofs --------------------------
(***************************************************************************)
(* What ScannerHealth.tla promises for every number of providers, every    *)
(* cap of a scan and every configuration: one subscription at a time, no   *)
(* launch passed over, no outage without its pause.  And what              *)
(* Screening.tla promises for every token, config and set of models: what  *)
(* is bought was read, found sound and wanted by every model that          *)
(* answered, and the gate's counters add up.  And what PoolMonitors.tla    *)
(* promises for every set of DEXes, sources and scenarios, and             *)
(* WalletTracking.tla for every set of wallets and of overlapping ticks.   *)
(***************************************************************************)
EXTENDS ScannerHealth, Screening, PoolMonitors, WalletTracking, FiniteSetTheorems, WellFoundedInduction, TLAPS

\* --- The feed ---------------------------------------------------------------

\* Unless a removal may fail, only the active provider is subscribed to, and
\* none at all between a failed subscription and the next.
OneSource ==
    ~sticky => open \subseteq {active} /\ (switching = NoSwitch /\ ~subscribed => open = {})

FeedInv ==
    /\ FeedTypeOK
    /\ switching = NoSwitch \/ switching.target \in 1 .. count
    /\ OneSource

LEMMA FeedTypes ==
    ASSUME FeedInv
    PROVE  /\ count \in Nat /\ count >= 1 /\ count <= MaxProviders /\ count \in Provider
           /\ status \in [Provider -> Status] /\ flips \in Nat
           /\ active \in 1 .. count /\ subscribed \in BOOLEAN /\ open \subseteq 1 .. count
           /\ switching \in [target : 0 .. count, verify : BOOLEAN]
           /\ cooldown \subseteq 1 .. count /\ verifying \in 0 .. count
           /\ rawSilent \in BOOLEAN /\ createSilent \in BOOLEAN /\ escalate \in BOOLEAN /\ fresh \in BOOLEAN
           /\ sticky \in BOOLEAN /\ slow \in BOOLEAN /\ timers \in BOOLEAN
           /\ switching = NoSwitch \/ switching.target \in 1 .. count
           /\ OneSource
<1>1. count \in 1 .. MaxProviders /\ MaxProviders \in Nat
  BY ProvidersAssumption DEF FeedInv, FeedTypeOK, Provider
<1> QED
  BY <1>1 DEF FeedInv, FeedTypeOK

\* What a step has to show of the feed's variables that it sets.
LEMMA FeedTypesAfter ==
    ASSUME FeedInv, UNCHANGED <<count, sticky, slow, timers>>,
           status' \in [Provider -> Status], flips' \in Nat,
           active' \in 1 .. count, subscribed' \in BOOLEAN, open' \subseteq 1 .. count,
           switching' = NoSwitch \/ switching' \in [target : 1 .. count, verify : BOOLEAN],
           cooldown' \subseteq 1 .. count, verifying' \in 0 .. count,
           rawSilent' \in BOOLEAN, createSilent' \in BOOLEAN, escalate' \in BOOLEAN, fresh' \in BOOLEAN,
           OneSource'
    PROVE  FeedInv'
<1>1. count' = count /\ sticky' = sticky /\ slow' = slow /\ timers' = timers
  OBVIOUS
<1>2. count \in Provider /\ count \in Nat /\ sticky \in BOOLEAN /\ slow \in BOOLEAN /\ timers \in BOOLEAN
  BY FeedTypes
<1>3. switching' \in [target : 0 .. count, verify : BOOLEAN]
  <2>1. CASE switching' = NoSwitch
    BY <1>2, <2>1 DEF NoSwitch
  <2>2. CASE switching' \in [target : 1 .. count, verify : BOOLEAN]
    BY <1>2, <2>2
  <2> QED
    BY <2>1, <2>2
<1>4. switching' = NoSwitch \/ switching'.target \in 1 .. count
  OBVIOUS
<1>5. FeedTypeOK'
  BY <1>1, <1>2, <1>3 DEF FeedTypeOK
<1> QED
  BY <1>1, <1>4, <1>5 DEF FeedInv

LEMMA NextProviderExists ==
    ASSUME FeedInv, NEW cooling
    PROVE  NextProvider(cooling) \subseteq 1 .. count
<1>1. count \in Nat /\ count >= 1 /\ active \in 1 .. count
  BY FeedTypes
<1>2. ASSUME NEW k \in 1 .. count PROVE ((active + k - 1) % count) + 1 \in 1 .. count
  <2>1. PICK m \in Nat : m = active + k - 1
    BY <1>1, <1>2
  <2>2. m % count \in 0 .. count - 1
    BY <1>1, <2>1
  <2> QED
    BY <1>1, <2>1, <2>2
<1> QED
  BY <1>1, <1>2 DEF NextProvider

\* A provider is changed to: the reconnect in flight, the removal of the old
\* subscription or the subscription at once.
LEMMA ChangeKeeps ==
    ASSUME FeedInv, NEW p \in 1 .. count, NEW verify \in BOOLEAN, NEW cooling \in SUBSET (1 .. count),
           NEW timer \in 0 .. count, ChangeProvider(p, verify, cooling, timer)
    PROVE  /\ active' \in 1 .. count /\ subscribed' \in BOOLEAN /\ open' \subseteq 1 .. count
           /\ switching' = NoSwitch \/ switching' \in [target : 1 .. count, verify : BOOLEAN]
           /\ cooldown' \subseteq 1 .. count /\ verifying' \in 0 .. count /\ fresh' \in BOOLEAN
           /\ sticky' = sticky => OneSource'
<1>1. /\ active \in 1 .. count /\ subscribed \in BOOLEAN /\ open \subseteq 1 .. count /\ count \in Nat /\ fresh \in BOOLEAN
      /\ switching \in [target : 0 .. count, verify : BOOLEAN] /\ sticky \in BOOLEAN
      /\ switching = NoSwitch \/ switching.target \in 1 .. count
      /\ OneSource
  BY FeedTypes
<1>2. CASE switching # NoSwitch
  <2>1. cooldown' = cooling /\ verifying' = timer /\ UNCHANGED <<active, subscribed, open, switching, fresh>>
    BY <1>2 DEF ChangeProvider
  <2>2. switching \in [target : 1 .. count, verify : BOOLEAN]
    BY <1>1, <1>2
  <2> QED
    BY <1>1, <2>1, <2>2 DEF OneSource
<1>3. CASE switching = NoSwitch /\ subscribed
  <2>1. /\ subscribed' = FALSE /\ switching' = [target |-> p, verify |-> verify]
        /\ cooldown' = cooling /\ verifying' = timer /\ UNCHANGED <<active, open, fresh>>
    BY <1>3 DEF ChangeProvider
  <2>2. switching' # NoSwitch
    <3>1. switching'.target = p /\ NoSwitch.target = 0 /\ p # 0
      BY <1>1, <2>1 DEF NoSwitch
    <3> QED
      BY <3>1
  <2> QED
    BY <1>1, <2>1, <2>2 DEF OneSource
<1>4. CASE switching = NoSwitch /\ ~subscribed
  <2>1. /\ Subscribe(p, verify, cooling, timer) /\ switching' = switching
        /\ open' = IF status[p] # "throws" THEN open \cup {p} ELSE open
    BY <1>4 DEF ChangeProvider
  <2>2. /\ active' = p /\ subscribed' = (status[p] # "throws")
        /\ cooldown' = IF status[p] = "throws" THEN cooling \cup {p} ELSE cooling
        /\ verifying' = IF verify THEN p ELSE timer
        /\ fresh' = (fresh /\ ~verify)
    BY <2>1 DEF Subscribe
  <2>3. ASSUME sticky' = sticky PROVE OneSource'
    <3>1. CASE status[p] = "throws"
      BY <1>1, <1>4, <2>1, <2>2, <2>3, <3>1 DEF OneSource
    <3>2. CASE status[p] # "throws"
      <4>1. subscribed' /\ open' = open \cup {p} /\ active' = p
        BY <2>1, <2>2, <3>2
      <4>2. ~sticky => open' = {active'}
        BY <1>1, <1>4, <4>1 DEF OneSource
      <4> QED
        BY <2>3, <4>1, <4>2 DEF OneSource
    <3> QED
      BY <3>1, <3>2
  <2>4. cooldown' \subseteq 1 .. count /\ open' \subseteq 1 .. count /\ verifying' \in 0 .. count /\ active' \in 1 .. count
    BY <1>1, <2>1, <2>2
  <2> QED
    BY <1>4, <2>1, <2>2, <2>3, <2>4
<1> QED
  BY <1>1, <1>2, <1>3, <1>4

LEMMA FailoverKeeps ==
    ASSUME FeedInv, NEW cooling \in SUBSET (1 .. count), NEW timer \in 0 .. count, Failover(cooling, timer)
    PROVE  /\ active' \in 1 .. count /\ subscribed' \in BOOLEAN /\ open' \subseteq 1 .. count
           /\ switching' = NoSwitch \/ switching' \in [target : 1 .. count, verify : BOOLEAN]
           /\ cooldown' \subseteq 1 .. count /\ verifying' \in 0 .. count /\ fresh' \in BOOLEAN
           /\ sticky' = sticky => OneSource'
<1>1. PICK p \in NextProvider(cooling) : ChangeProvider(p, TRUE, cooling, timer)
  BY DEF Failover
<1>2. p \in 1 .. count
  BY NextProviderExists
<1> QED
  BY <1>1, <1>2, ChangeKeeps

LEMMA FeedStepKeeps == ASSUME FeedInv, FeedNext PROVE FeedInv'
<1>1. /\ count \in Nat /\ count >= 1 /\ count <= MaxProviders
      /\ status \in [Provider -> Status] /\ flips \in Nat
      /\ active \in 1 .. count /\ subscribed \in BOOLEAN /\ open \subseteq 1 .. count
      /\ switching \in [target : 0 .. count, verify : BOOLEAN]
      /\ cooldown \subseteq 1 .. count /\ verifying \in 0 .. count
      /\ rawSilent \in BOOLEAN /\ createSilent \in BOOLEAN /\ escalate \in BOOLEAN /\ fresh \in BOOLEAN
      /\ switching = NoSwitch \/ switching.target \in 1 .. count
      /\ OneSource
  BY FeedTypes
<1>2. switching = NoSwitch \/ switching \in [target : 1 .. count, verify : BOOLEAN]
  BY <1>1
<1>3. ASSUME NEW removed \in BOOLEAN, Resubscribed(removed) PROVE FeedInv'
  <2>1. /\ switching # NoSwitch /\ (removed \/ sticky) /\ switching' = NoSwitch
        /\ UNCHANGED <<count, sticky, slow, timers, status, flips, rawSilent, createSilent, escalate>>
    BY <1>3 DEF Resubscribed
  <2>2. PICK p \in 1 .. count : p = switching.target
    BY <1>1, <2>1
  <2>3. /\ active' = p /\ subscribed' = (status[p] # "throws")
        /\ cooldown' = IF status[p] = "throws" THEN cooldown \cup {p} ELSE cooldown
        /\ verifying' = IF switching.verify THEN p ELSE verifying
        /\ fresh' = (fresh /\ ~switching.verify)
    BY <1>3, <2>2 DEF Resubscribed, Subscribe
  <2>4. open' = (IF removed THEN open \ {active} ELSE open) \cup IF subscribed' THEN {p} ELSE {}
    BY <1>3, <2>3 DEF Resubscribed
  <2>5. OneSource'
    BY <1>1, <2>1, <2>3, <2>4 DEF OneSource
  <2>6. cooldown' \subseteq 1 .. count /\ open' \subseteq 1 .. count /\ verifying' \in 0 .. count
    BY <1>1, <2>3, <2>4
  <2>7. active' \in 1 .. count /\ subscribed' \in BOOLEAN /\ fresh' \in BOOLEAN
    BY <2>3
  <2> QED
    BY <1>1, <2>1, <2>5, <2>6, <2>7, FeedTypesAfter
<1>4. ASSUME Watchdog PROVE FeedInv'
  <2>1. UNCHANGED <<count, sticky, slow, timers, status, flips, rawSilent, createSilent>> /\ escalate' \in BOOLEAN
    BY <1>4 DEF Watchdog
  <2>2. \/ Failover(cooldown \cup {active}, verifying)
        \/ ChangeProvider(active, FALSE, cooldown, verifying)
    BY <1>4 DEF Watchdog
  <2>3. cooldown \cup {active} \in SUBSET (1 .. count) /\ cooldown \in SUBSET (1 .. count)
    BY <1>1
  <2>4. /\ active' \in 1 .. count /\ subscribed' \in BOOLEAN /\ open' \subseteq 1 .. count
        /\ switching' = NoSwitch \/ switching' \in [target : 1 .. count, verify : BOOLEAN]
        /\ cooldown' \subseteq 1 .. count /\ verifying' \in 0 .. count /\ fresh' \in BOOLEAN
        /\ sticky' = sticky => OneSource'
    BY <1>1, <2>2, <2>3, ChangeKeeps, FailoverKeeps
  <2> QED
    BY <1>1, <2>1, <2>4, FeedTypesAfter
<1>5. ASSUME PrimaryProbe \/ Periodic PROVE FeedInv'
  <2>1. UNCHANGED <<count, sticky, slow, timers, status, flips, rawSilent, createSilent, escalate>>
    BY <1>5 DEF PrimaryProbe, Periodic
  <2>2. ChangeProvider(1, TRUE, cooldown, verifying) \/ ChangeProvider(active, FALSE, cooldown, verifying)
    BY <1>5 DEF PrimaryProbe, Periodic
  <2>3. cooldown \in SUBSET (1 .. count) /\ 1 \in 1 .. count
    BY <1>1
  <2>4. /\ active' \in 1 .. count /\ subscribed' \in BOOLEAN /\ open' \subseteq 1 .. count
        /\ switching' = NoSwitch \/ switching' \in [target : 1 .. count, verify : BOOLEAN]
        /\ cooldown' \subseteq 1 .. count /\ verifying' \in 0 .. count /\ fresh' \in BOOLEAN
        /\ sticky' = sticky => OneSource'
    BY <1>1, <2>2, <2>3, ChangeKeeps
  <2> QED
    BY <1>1, <2>1, <2>4, FeedTypesAfter
<1>6. ASSUME Verify PROVE FeedInv'
  <2>1. UNCHANGED <<count, sticky, slow, timers, status, flips, rawSilent, createSilent, escalate>>
    BY <1>6 DEF Verify
  <2>2. CASE Failover(cooldown \cup {active}, 0)
    <3>1. cooldown \cup {active} \in SUBSET (1 .. count) /\ 0 \in 0 .. count
      BY <1>1
    <3>2. /\ active' \in 1 .. count /\ subscribed' \in BOOLEAN /\ open' \subseteq 1 .. count
          /\ switching' = NoSwitch \/ switching' \in [target : 1 .. count, verify : BOOLEAN]
          /\ cooldown' \subseteq 1 .. count /\ verifying' \in 0 .. count /\ fresh' \in BOOLEAN
          /\ sticky' = sticky => OneSource'
      BY <2>2, <3>1, FailoverKeeps
    <3> QED
      BY <1>1, <2>1, <3>2, FeedTypesAfter
  <2>3. CASE UNCHANGED <<active, subscribed, open, switching, fresh>> /\ verifying' = 0 /\ cooldown' \subseteq cooldown
    <3>1. OneSource' /\ cooldown' \subseteq 1 .. count /\ verifying' \in 0 .. count
      BY <1>1, <2>1, <2>3 DEF OneSource
    <3> QED
      BY <1>1, <1>2, <2>1, <2>3, <3>1, FeedTypesAfter
  <2> QED
    BY <1>6, <2>2, <2>3 DEF Verify
<1>7. ASSUME UNCHANGED <<count, sticky, slow, timers, active, subscribed, open, switching>>,
             status' \in [Provider -> Status], flips' \in Nat, cooldown' \subseteq cooldown, verifying' = verifying,
             rawSilent' \in BOOLEAN, createSilent' \in BOOLEAN, escalate' \in BOOLEAN, fresh' \in BOOLEAN
      PROVE  FeedInv'
  <2>1. OneSource' /\ cooldown' \subseteq 1 .. count
    BY <1>1, <1>7 DEF OneSource
  <2> QED
    BY <1>1, <1>2, <1>7, <2>1, FeedTypesAfter
<1>8. ASSUME NEW p \in Provider, RawEvent(p) PROVE FeedInv'
  BY <1>1, <1>7, <1>8 DEF RawEvent
<1>9. ASSUME RecordValidCreate PROVE FeedInv'
  BY <1>1, <1>7, <1>9 DEF RecordValidCreate
<1>10. ASSUME Silence PROVE FeedInv'
  BY <1>1, <1>7, <1>10 DEF Silence
<1>11. ASSUME NEW p \in Provider, CooldownLapses(p) PROVE FeedInv'
  BY <1>1, <1>7, <1>11 DEF CooldownLapses
<1>12. ASSUME NEW p \in Provider, NEW s \in Status, Flip(p, s) PROVE FeedInv'
  <2>1. flips' \in Nat /\ status' \in [Provider -> Status]
    BY <1>1, <1>12 DEF Flip
  <2> QED
    BY <1>1, <1>7, <1>12, <2>1 DEF Flip
<1> QED
  BY <1>3, <1>4, <1>5, <1>6, <1>8, <1>9, <1>10, <1>11, <1>12 DEF FeedNext

\* --- The fallback scan ------------------------------------------------------

\* What a scan has listed it has found, still has to parse or is past its cap.
ScanCovers == \A n \in 1 .. head : Covered(n) \/ n \in todo \/ head - n >= ScanCap

ScanInv == ScanTypeOK /\ chain <= launches /\ head <= chain /\ watermark <= chain /\ ScanCovers /\ WatermarkCovers

LEMMA ScanTypes ==
    ASSUME ScanInv
    PROVE  /\ chain \in Nat /\ launches \in Nat /\ watermark \in Nat /\ head \in Nat /\ ScanCap \in Nat
           /\ chain <= launches /\ launches <= MaxLaunches /\ head <= chain /\ watermark <= chain
           /\ chain \in 0 .. MaxLaunches /\ launches \in 0 .. MaxLaunches /\ MaxLaunches \in Nat
           /\ known \subseteq 1 .. chain /\ lost \subseteq 1 .. chain /\ todo \subseteq 1 .. head
           /\ scanning \in {"no", "fallback", "reconciliation"}
           /\ fallbackUp \in BOOLEAN /\ reachable \in BOOLEAN /\ fallbackMode \in BOOLEAN /\ scanFaults \in Nat
           /\ ScanCovers /\ WatermarkCovers
<1>1. MaxLaunches \in Nat /\ ScanCap \in Nat
  BY ScanAssumption
<1>2. /\ chain \in 0 .. MaxLaunches /\ launches \in 0 .. MaxLaunches
      /\ watermark \in 0 .. MaxLaunches /\ head \in 0 .. MaxLaunches
  BY DEF ScanInv, ScanTypeOK
<1>3. chain \in Nat /\ launches \in Nat /\ watermark \in Nat /\ head \in Nat /\ launches <= MaxLaunches
  BY <1>1, <1>2
<1> QED
  BY <1>1, <1>2, <1>3 DEF ScanInv, ScanTypeOK

\* What a step has to show of the scan's variables.
LEMMA ScanTypesAfter ==
    ASSUME MaxLaunches \in Nat, launches' \in 0 .. MaxLaunches, chain' \in Nat, watermark' \in Nat, head' \in Nat,
           chain' <= launches', head' <= chain', watermark' <= chain',
           known' \subseteq 1 .. chain', lost' \subseteq 1 .. chain', todo' \subseteq 1 .. head',
           scanning' \in {"no", "fallback", "reconciliation"},
           fallbackUp' \in BOOLEAN, reachable' \in BOOLEAN, fallbackMode' \in BOOLEAN, scanFaults' \in Nat,
           ScanCovers', WatermarkCovers'
    PROVE  ScanInv'
<1>1. /\ chain' \in 0 .. MaxLaunches /\ launches' \in 0 .. MaxLaunches
      /\ watermark' \in 0 .. MaxLaunches /\ head' \in 0 .. MaxLaunches
  OBVIOUS
<1> QED
  BY <1>1 DEF ScanInv, ScanTypeOK

\* A scan of either kind begins.
LEMMA BeginKeeps ==
    ASSUME ScanInv, scanning' \in {"fallback", "reconciliation"},
           head' = IF chain > watermark THEN chain ELSE 0,
           todo' = {n \in watermark + 1 .. chain : chain - n < ScanCap},
           UNCHANGED <<chain, launches, known, lost, watermark, fallbackUp, scanFaults, reachable>>,
           fallbackMode' \in BOOLEAN
    PROVE  ScanInv'
<1>1. /\ chain \in Nat /\ launches \in 0 .. MaxLaunches /\ watermark \in Nat /\ ScanCap \in Nat /\ MaxLaunches \in Nat
      /\ chain <= launches /\ watermark <= chain
      /\ known \subseteq 1 .. chain /\ lost \subseteq 1 .. chain
      /\ fallbackUp \in BOOLEAN /\ reachable \in BOOLEAN /\ scanFaults \in Nat
      /\ WatermarkCovers
  BY ScanTypes
<1>2. head' \in Nat /\ head' <= chain' /\ todo' \subseteq 1 .. head'
  BY <1>1
<1>3. ASSUME NEW n \in 1 .. head' PROVE Covered(n)' \/ n \in todo' \/ head' - n >= ScanCap
  <2>1. head' = chain /\ chain > watermark /\ n \in 1 .. chain
    BY <1>1, <1>3
  <2>2. CASE n <= watermark
    BY <1>1, <2>1, <2>2 DEF WatermarkCovers, Covered
  <2>3. CASE n > watermark
    BY <1>1, <2>1, <2>3
  <2> QED
    BY <1>1, <2>1, <2>2, <2>3
<1>4. ScanCovers'
  BY <1>3 DEF ScanCovers
<1>5. WatermarkCovers'
  BY <1>1 DEF WatermarkCovers, Covered
<1> QED
  BY <1>1, <1>2, <1>4, <1>5, ScanTypesAfter

LEMMA OldestExists ==
    ASSUME NEW S, S \subseteq Nat, S # {}
    PROVE  \E x \in S : \A y \in S : x <= y
<1> DEFINE R == {p \in Nat \X Nat : p[1] < p[2]}
<1>1. OpToRel(<, Nat) = R
  BY DEF OpToRel
<1>2. IsWellFoundedOn(R, Nat)
  BY <1>1, NatLessThanWellFounded
<1>3. PICK x \in S : \A y \in S : ~ (<<y, x>> \in R)
  BY <1>2, WFMin
<1>4. ASSUME NEW y \in S PROVE x <= y
  <2>1. <<y, x>> \in Nat \X Nat /\ x \in Nat /\ y \in Nat
    OBVIOUS
  <2>2. ~ (<<y, x>>[1] < <<y, x>>[2])
    BY <1>3, <2>1, Zenon
  <2> QED
    BY <2>1, <2>2
<1> QED
  BY <1>4

LEMMA ScanStepKeeps ==
    ASSUME ScanInv, IdleTick \/ FallbackTimer \/ AbortScan \/ FinishScan \/ (\E parsed \in BOOLEAN : ParseNext(parsed))
    PROVE  ScanInv' /\ chain' = chain
<1>1. /\ chain \in Nat /\ launches \in 0 .. MaxLaunches /\ watermark \in Nat /\ head \in Nat /\ ScanCap \in Nat
      /\ MaxLaunches \in Nat
      /\ chain <= launches /\ head <= chain /\ watermark <= chain
      /\ known \subseteq 1 .. chain /\ lost \subseteq 1 .. chain /\ todo \subseteq 1 .. head
      /\ scanning \in {"no", "fallback", "reconciliation"}
      /\ fallbackUp \in BOOLEAN /\ reachable \in BOOLEAN /\ fallbackMode \in BOOLEAN /\ scanFaults \in Nat
      /\ ScanCovers /\ WatermarkCovers
  BY ScanTypes
<1>2. CASE IdleTick
  <2>1. /\ reachable' = fallbackUp
        /\ watermark' = IF fallbackUp /\ watermark = 0 THEN chain ELSE watermark
        /\ lost' = IF watermark = 0 THEN lost \cup (1 .. watermark' \ known) ELSE lost
        /\ UNCHANGED <<chain, launches, known, head, scanning, todo, fallbackUp, scanFaults, fallbackMode>>
    BY <1>2 DEF IdleTick
  <2>2. watermark' \in Nat /\ watermark' <= chain /\ lost' \subseteq 1 .. chain /\ lost \subseteq lost'
    BY <1>1, <2>1
  <2>3. ScanCovers'
    BY <1>1, <2>1, <2>2 DEF ScanCovers, Covered
  <2>4. WatermarkCovers'
    BY <1>1, <2>1, <2>2 DEF WatermarkCovers, Covered
  <2> QED
    BY <1>1, <2>1, <2>2, <2>3, <2>4, ScanTypesAfter
<1>3. CASE FallbackTimer
  BY <1>1, <1>3, BeginKeeps DEF FallbackTimer, BeginScan
<1>4. CASE AbortScan
  <2>1. /\ scanning' = "no" /\ todo' = {} /\ head' = 0 /\ reachable' = FALSE
        /\ UNCHANGED <<chain, launches, known, lost, watermark, fallbackUp, scanFaults, fallbackMode>>
    BY <1>4 DEF AbortScan
  <2>2. ScanCovers' /\ WatermarkCovers' /\ todo' \subseteq 1 .. head'
    BY <1>1, <2>1 DEF ScanCovers, WatermarkCovers, Covered
  <2>3. head' \in Nat /\ head' <= chain' /\ watermark' \in Nat /\ watermark' <= chain' /\ chain' <= launches'
    BY <1>1, <2>1
  <2> QED
    BY <1>1, <2>1, <2>2, <2>3, ScanTypesAfter
<1>5. CASE FinishScan
  <2>1. /\ todo = {} /\ head' = 0 /\ watermark' = IF head # 0 THEN head ELSE watermark
        /\ lost' = lost \cup {n \in 1 .. head : head - n >= ScanCap /\ n \notin known}
        /\ scanning' = "no" /\ reachable' = TRUE
        /\ UNCHANGED <<chain, launches, known, todo, fallbackUp, scanFaults, fallbackMode>>
    BY <1>5 DEF FinishScan
  <2>2. lost' \subseteq 1 .. chain
    <3>1. 1 .. head \subseteq 1 .. chain
      BY <1>1
    <3> QED
      BY <1>1, <2>1, <3>1
  <2>5. todo' \subseteq 1 .. head' /\ watermark' \in Nat /\ watermark' <= chain
    BY <1>1, <2>1
  <2>3. ScanCovers'
    BY <2>1 DEF ScanCovers
  <2>4. WatermarkCovers'
    BY <1>1, <2>1 DEF WatermarkCovers, ScanCovers, Covered
  <2> QED
    BY <1>1, <2>1, <2>2, <2>3, <2>4, <2>5, ScanTypesAfter
<1>6. ASSUME NEW parsed \in BOOLEAN, ParseNext(parsed) PROVE ScanInv' /\ chain' = chain
  <2>1. PICK n : /\ n = OldestOf(todo) /\ todo' = todo \ {n}
                 /\ known' = IF parsed THEN known \cup {n} ELSE known
                 /\ lost' = IF parsed \/ n \in known THEN lost ELSE lost \cup {n}
                 /\ UNCHANGED <<chain, launches, watermark, head, scanning, fallbackUp, scanFaults, reachable, fallbackMode>>
                 /\ todo # {}
    BY <1>6 DEF ParseNext
  <2>2. n \in todo
    <3>1. todo \in SUBSET Nat
      BY <1>1
    <3>2. \E x \in todo : \A y \in todo : x <= y
      BY <2>1, <3>1, OldestExists
    <3> QED
      BY <2>1, <3>2 DEF OldestOf
  <2>8. n \in 1 .. chain
    BY <1>1, <2>2
  <2>3. known' \subseteq 1 .. chain /\ lost' \subseteq 1 .. chain /\ todo' \subseteq 1 .. head'
    BY <1>1, <2>1, <2>8
  <2>4. \A m : Covered(m) => Covered(m)'
    BY <2>1 DEF Covered
  <2>5. Covered(n)'
    BY <2>1 DEF Covered
  <2>6. ScanCovers'
    BY <1>1, <2>1, <2>4, <2>5 DEF ScanCovers
  <2>7. WatermarkCovers'
    BY <1>1, <2>1, <2>4 DEF WatermarkCovers
  <2> QED
    BY <1>1, <2>1, <2>3, <2>6, <2>7, <2>8, ScanTypesAfter
<1>7. FallbackTimer => chain' = chain
  BY DEF FallbackTimer, BeginScan
<1>8. IdleTick \/ AbortScan \/ FinishScan => chain' = chain
  BY DEF IdleTick, AbortScan, FinishScan
<1> QED
  BY <1>2, <1>3, <1>4, <1>5, <1>6, <1>7, <1>8

LEMMA WorldKeeps ==
    ASSUME ScanInv, FallbackFault \/ (\E delivered \in BOOLEAN : Create(delivered))
    PROVE  ScanInv' /\ chain' >= chain
<1>1. /\ chain \in Nat /\ launches \in 0 .. MaxLaunches /\ watermark \in Nat /\ head \in Nat /\ ScanCap \in Nat
      /\ MaxLaunches \in Nat
      /\ chain <= launches /\ head <= chain /\ watermark <= chain
      /\ known \subseteq 1 .. chain /\ lost \subseteq 1 .. chain /\ todo \subseteq 1 .. head
      /\ scanning \in {"no", "fallback", "reconciliation"}
      /\ fallbackUp \in BOOLEAN /\ reachable \in BOOLEAN /\ fallbackMode \in BOOLEAN /\ scanFaults \in Nat
      /\ ScanCovers /\ WatermarkCovers
  BY ScanTypes
<1>2. CASE FallbackFault
  <2>1. ScanCovers' /\ WatermarkCovers' /\ scanFaults' \in Nat /\ fallbackUp' \in BOOLEAN
    BY <1>1, <1>2 DEF FallbackFault, ScanCovers, WatermarkCovers, Covered
  <2> QED
    BY <1>1, <1>2, <2>1, ScanTypesAfter DEF FallbackFault
<1>3. ASSUME NEW delivered \in BOOLEAN, Create(delivered) PROVE ScanInv' /\ chain' >= chain
  <2>1. /\ chain < launches /\ chain' = chain + 1 /\ known' = IF delivered THEN known \cup {chain'} ELSE known
        /\ UNCHANGED <<launches, lost, watermark, head, scanning, todo, fallbackUp, scanFaults, reachable, fallbackMode>>
    BY <1>3 DEF Create
  <2>2. launches \in Nat
    BY <1>1
  <2>3. /\ chain' \in Nat /\ chain' <= launches /\ head' <= chain' /\ watermark' <= chain'
        /\ known' \subseteq 1 .. chain' /\ lost' \subseteq 1 .. chain'
    BY <1>1, <2>1, <2>2
  <2>4. ScanCovers' /\ WatermarkCovers'
    BY <1>1, <2>1 DEF ScanCovers, WatermarkCovers, Covered
  <2> QED
    BY <1>1, <2>1, <2>3, <2>4, ScanTypesAfter
<1> QED
  BY <1>1, <1>2, <1>3 DEF FallbackFault

-----------------------------------------------------------------------------
\* --- The coordinator --------------------------------------------------------

CoordinatorTypes ==
    /\ state \in ScannerState /\ applying \subseteq Writes
    /\ paused \in {"no", "auto", "manual"} /\ adminActs \in Nat
    /\ reconciled \in BOOLEAN /\ autoResume \in BOOLEAN /\ excused \in BOOLEAN
    /\ gap \in 0 .. chain

CoordinatorInv == CoordinatorTypes /\ UnhealthyIsPaused

ScannerHealthInv == FeedInv /\ ScanInv /\ CoordinatorInv

LEMMA ScannerHealthBegins == ASSUME Init PROVE ScannerHealthInv
<1>1. PICK s \in FeedScenarios :
          /\ count = s.providers /\ sticky = s.sticky /\ timers = s.timers
          /\ slow = s.slow /\ flips = s.flips
          /\ launches = s.launches /\ scanFaults = s.faults
          /\ adminActs = s.admin /\ autoResume = s.autoResume
  BY DEF Init
<1>2. /\ count \in Provider /\ sticky \in BOOLEAN /\ timers \in BOOLEAN /\ slow \in BOOLEAN /\ flips \in Nat
      /\ launches \in 0 .. MaxLaunches /\ scanFaults \in Nat /\ adminActs \in Nat /\ autoResume \in BOOLEAN
  BY <1>1, FeedScenarioAssumption
<1>3. FeedInv
  <2>1. /\ active = 1 /\ switching = NoSwitch /\ cooldown = {}
        /\ subscribed = TRUE /\ open = {1} /\ status = [p \in Provider |-> "ok"]
        /\ rawSilent = FALSE /\ createSilent = FALSE /\ escalate = FALSE /\ verifying = 0 /\ fresh = FALSE
    BY DEF Init, FeedInit
  <2>2. count \in Nat /\ count >= 1
    BY <1>2, ProvidersAssumption DEF Provider
  <2>3. switching \in [target : 0 .. count, verify : BOOLEAN]
    BY <2>1, <2>2 DEF NoSwitch
  <2>4. status \in [Provider -> Status]
    BY <2>1 DEF Status
  <2>6. active \in 1 .. count /\ open \subseteq 1 .. count /\ cooldown \subseteq 1 .. count /\ verifying \in 0 .. count
    BY <2>1, <2>2
  <2>7. {rawSilent, createSilent, escalate, fresh, sticky, slow, timers} \subseteq BOOLEAN /\ subscribed \in BOOLEAN
    BY <1>2, <2>1
  <2>5. FeedTypeOK
    BY <1>2, <2>3, <2>4, <2>6, <2>7 DEF FeedTypeOK
  <2> QED
    BY <2>1, <2>5 DEF FeedInv, OneSource
<1>4. ScanInv
  <2>1. /\ chain = 0 /\ known = {} /\ lost = {} /\ watermark = 0 /\ head = 0
        /\ scanning = "no" /\ todo = {} /\ fallbackUp = TRUE /\ reachable = FALSE /\ fallbackMode = FALSE
    BY DEF Init, ScanInit
  <2>2. MaxLaunches \in Nat
    BY ScanAssumption
  <2>5. {chain, launches, watermark, head} \subseteq 0 .. MaxLaunches
    BY <1>2, <2>1, <2>2
  <2>6. {fallbackUp, reachable, fallbackMode} \subseteq BOOLEAN
    BY <2>1
  <2>3. ScanTypeOK
    BY <1>2, <2>1, <2>5, <2>6 DEF ScanTypeOK
  <2>4. ScanCovers /\ WatermarkCovers
    BY <2>1 DEF ScanCovers, WatermarkCovers
  <2> QED
    BY <1>2, <2>1, <2>2, <2>3, <2>4 DEF ScanInv
<1>5. /\ state = "HEALTHY" /\ reconciled = FALSE /\ applying = {}
      /\ paused \in IF autoResume THEN {"no", "auto"} ELSE {"no"}
      /\ excused = FALSE /\ gap = 0 /\ chain = 0
  BY DEF Init, ScanInit
<1>6. CoordinatorInv
  <2>1. paused \in {"no", "auto", "manual"} /\ gap \in 0 .. chain
    BY <1>5
  <2> QED
    BY <1>2, <1>5, <2>1 DEF CoordinatorInv, CoordinatorTypes, UnhealthyIsPaused, ScannerState
<1> QED
  BY <1>3, <1>4, <1>6 DEF ScannerHealthInv

\* A tick moves the state at once, but to UNHEALTHY only from there.
LEMMA ApplyKeeps ==
    ASSUME CoordinatorInv, NEW next \in ScannerState, Apply(next), UNCHANGED <<paused, adminActs, autoResume, excused>>
    PROVE  /\ state' \in ScannerState /\ applying' \subseteq Writes /\ fallbackMode' \in BOOLEAN
           /\ UnhealthyIsPaused'
<1>1. state \in ScannerState /\ applying \subseteq Writes /\ UnhealthyIsPaused
  BY DEF CoordinatorInv, CoordinatorTypes
<1> DEFINE write == IF next = state
                    THEN IF next = "HEALTHY" /\ autoResume THEN {"stale"} ELSE {}
                    ELSE IF next = "UNHEALTHY" THEN {"pause"}
                    ELSE IF next = "HEALTHY" /\ autoResume THEN {"clear"} ELSE {}
<1>2. /\ applying' = applying \cup write /\ state' = IF write \subseteq {"stale"} THEN next ELSE state
      /\ fallbackMode' = (next # "HEALTHY")
  BY DEF Apply
<1>3. write \subseteq Writes
  BY DEF Writes
<1>4. state' = "UNHEALTHY" => state = "UNHEALTHY"
  <2>1. CASE next = state
    BY <1>2, <2>1
  <2>2. CASE next # state /\ next = "UNHEALTHY"
    <3>1. write = {"pause"}
      BY <2>2
    <3> QED
      BY <1>2, <3>1
  <2>3. CASE next # "UNHEALTHY"
    BY <1>2, <2>3
  <2> QED
    BY <2>1, <2>2, <2>3
<1>5. UnhealthyIsPaused'
  BY <1>1, <1>4 DEF UnhealthyIsPaused
<1> QED
  BY <1>1, <1>2, <1>3, <1>5

LEMMA HealthTickKeeps == ASSUME ScannerHealthInv, HealthTick PROVE ScannerHealthInv'
<1>1. /\ FeedInv /\ ScanInv /\ CoordinatorInv
      /\ UNCHANGED <<feedVars, paused, adminActs, autoResume, excused, scenario>>
  BY DEF ScannerHealthInv, HealthTick
<1>2. FeedInv'
  BY <1>1 DEF feedVars, FeedInv, FeedTypeOK, OneSource
<1>3. /\ state \in ScannerState /\ applying \subseteq Writes
      /\ paused \in {"no", "auto", "manual"} /\ adminActs \in Nat
      /\ reconciled \in BOOLEAN /\ autoResume \in BOOLEAN /\ excused \in BOOLEAN
      /\ gap \in 0 .. chain /\ chain \in Nat
  BY <1>1, ScanTypes DEF CoordinatorInv, CoordinatorTypes
<1>4. Derived \in ScannerState /\ "HEALTHY" \in ScannerState /\ "RECOVERING" \in ScannerState
  BY DEF Derived, ScannerState
<1>5. PICK next \in ScannerState : Apply(next)
  BY <1>4 DEF HealthTick, TickRecovering, TickOther
<1>6. /\ state' \in ScannerState /\ applying' \subseteq Writes /\ fallbackMode' \in BOOLEAN /\ UnhealthyIsPaused'
  BY <1>1, <1>5, ApplyKeeps
<1>7. ASSUME scanning' = "reconciliation", head' = IF chain > watermark THEN chain ELSE 0,
             todo' = {n \in watermark + 1 .. chain : chain - n < ScanCap},
             UNCHANGED <<chain, launches, known, lost, watermark, fallbackUp, scanFaults, reachable>>
      PROVE  ScanInv'
  BY <1>1, <1>6, <1>7, BeginKeeps
<1>8. ASSUME UNCHANGED <<chain, launches, known, lost, watermark, head, scanning, todo, fallbackUp, scanFaults, reachable>>
      PROVE  ScanInv'
  <2>1. ScanTypeOK' /\ ScanCovers' /\ WatermarkCovers'
    BY <1>1, <1>6, <1>8 DEF ScanInv, ScanTypeOK, ScanCovers, WatermarkCovers, Covered
  <2> QED
    BY <1>1, <1>8, <2>1 DEF ScanInv
<1>9. ScanInv'
  <2>1. CASE TickOther
    BY <1>8, <2>1 DEF TickOther
  <2>2. CASE TickRecovering
    <3>1. UNCHANGED <<chain, launches, known, lost, watermark, fallbackUp, scanFaults, reachable>>
      BY <2>2 DEF TickRecovering
    <3>2. \/ UNCHANGED <<scanning, head, todo>>
          \/ /\ scanning' = "reconciliation" /\ head' = IF chain > watermark THEN chain ELSE 0
             /\ todo' = {n \in watermark + 1 .. chain : chain - n < ScanCap}
      BY <2>2 DEF TickRecovering
    <3> QED
      BY <1>7, <1>8, <3>1, <3>2
  <2> QED
    BY <2>1, <2>2 DEF HealthTick
<1>10. reconciled' \in BOOLEAN /\ gap' \in 0 .. chain /\ chain' = chain
  <2>1. 0 \in 0 .. chain /\ chain \in 0 .. chain
    BY <1>3
  <2>2. CASE TickOther
    BY <1>3, <2>2 DEF TickOther
  <2>3. CASE TickRecovering
    BY <1>3, <2>1, <2>3 DEF TickRecovering
  <2> QED
    BY <2>2, <2>3 DEF HealthTick
<1>11. CoordinatorTypes'
  BY <1>1, <1>3, <1>6, <1>10 DEF CoordinatorTypes
<1> QED
  BY <1>2, <1>6, <1>9, <1>11 DEF ScannerHealthInv, CoordinatorInv

\* The inductive step.
LEMMA ScannerHealthKept == ASSUME ScannerHealthInv, [Next]_vars PROVE ScannerHealthInv'
<1>1. FeedInv /\ ScanInv /\ CoordinatorInv
  BY DEF ScannerHealthInv
<1>2. /\ state \in ScannerState /\ applying \subseteq Writes
      /\ paused \in {"no", "auto", "manual"} /\ adminActs \in Nat
      /\ reconciled \in BOOLEAN /\ autoResume \in BOOLEAN /\ excused \in BOOLEAN
      /\ gap \in 0 .. chain /\ chain \in Nat
      /\ UnhealthyIsPaused
  BY <1>1, ScanTypes DEF CoordinatorInv, CoordinatorTypes
<1>3. UNCHANGED feedVars => FeedInv'
  BY <1>1 DEF feedVars, FeedInv, FeedTypeOK, OneSource
<1>4. UNCHANGED scanVars => ScanInv' /\ chain' = chain
  <2>1. ASSUME UNCHANGED scanVars PROVE ScanTypeOK' /\ ScanCovers' /\ WatermarkCovers'
    BY <1>1, <2>1 DEF scanVars, ScanInv, ScanTypeOK, ScanCovers, WatermarkCovers, Covered
  <2> QED
    BY <1>1, <2>1 DEF scanVars, ScanInv
<1>5. ASSUME UNCHANGED <<state, applying, paused, adminActs, autoResume, excused, gap>>,
             reconciled' \in BOOLEAN, chain' \in Nat, chain' >= chain
      PROVE  CoordinatorInv'
  <2>1. gap' \in 0 .. chain'
    BY <1>2, <1>5
  <2> QED
    BY <1>2, <1>5, <2>1 DEF CoordinatorInv, CoordinatorTypes, UnhealthyIsPaused
<1>6. CASE FeedStep
  <2>1. FeedInv'
    BY <1>1, <1>6, FeedStepKeeps DEF FeedStep
  <2>2. ScanInv' /\ chain' = chain
    BY <1>4, <1>6 DEF FeedStep
  <2>3. CoordinatorInv'
    BY <1>2, <1>5, <1>6, <2>2 DEF FeedStep, healthVars
  <2> QED
    BY <2>1, <2>2, <2>3 DEF ScannerHealthInv
<1>7. CASE ScanStep
  <2>1. ScanInv' /\ chain' = chain
    BY <1>1, <1>7, ScanStepKeeps DEF ScanStep
  <2>2. FeedInv'
    BY <1>3, <1>7 DEF ScanStep
  <2>3. reconciled' \in BOOLEAN
    BY <1>7 DEF ScanStep
  <2>4. CoordinatorInv'
    BY <1>2, <1>5, <1>7, <2>1, <2>3 DEF ScanStep
  <2> QED
    BY <2>1, <2>2, <2>4 DEF ScannerHealthInv
<1>8. CASE Launched
  <2>1. Flowing \in BOOLEAN
    BY DEF Flowing
  <2>2. ScanInv' /\ chain' >= chain
    BY <1>1, <1>8, <2>1, WorldKeeps DEF Launched
  <2>3. chain' \in Nat
    BY <2>2, ScanAssumption DEF ScanInv, ScanTypeOK
  <2>4. FeedInv'
    BY <1>3, <1>8 DEF Launched
  <2>5. CoordinatorInv'
    BY <1>2, <1>5, <1>8, <2>2, <2>3 DEF Launched, healthVars
  <2> QED
    BY <2>2, <2>4, <2>5 DEF ScannerHealthInv
<1>9. CASE HealthTick
  BY <1>9, HealthTickKeeps
<1>10. ASSUME NEW ok \in BOOLEAN, WritePause(ok) PROVE ScannerHealthInv'
  <2>1. /\ applying' = applying \ {"pause"} /\ state' = "UNHEALTHY"
        /\ paused' = IF ok THEN "auto" ELSE paused
        /\ excused' = (~ok /\ paused = "no")
        /\ UNCHANGED <<feedVars, scanVars, reconciled, adminActs, autoResume, gap, scenario>>
    BY <1>10 DEF WritePause
  <2>2. CoordinatorTypes'
    BY <1>2, <1>4, <2>1 DEF CoordinatorTypes, ScannerState
  <2>3. UnhealthyIsPaused'
    BY <2>1 DEF UnhealthyIsPaused
  <2> QED
    BY <1>3, <1>4, <2>1, <2>2, <2>3 DEF ScannerHealthInv, CoordinatorInv
<1>11. ASSUME NEW ok \in BOOLEAN, WriteClear(ok) PROVE ScannerHealthInv'
  <2>1. /\ applying' = applying \ {"clear"} /\ state' = "HEALTHY"
        /\ paused' = IF ok THEN "no" ELSE paused
        /\ excused' = (excused \/ Crossed)
        /\ UNCHANGED <<feedVars, scanVars, reconciled, adminActs, autoResume, gap, scenario>>
    BY <1>11 DEF WriteClear
  <2>2. CoordinatorTypes' /\ UnhealthyIsPaused'
    BY <1>2, <1>4, <2>1 DEF CoordinatorTypes, ScannerState, UnhealthyIsPaused
  <2> QED
    BY <1>3, <1>4, <2>1, <2>2 DEF ScannerHealthInv, CoordinatorInv
<1>12. CASE ReadStale
  <2>1. /\ applying' = (applying \ {"stale"}) \cup IF paused = "auto" THEN {"clearStale"} ELSE {}
        /\ UNCHANGED <<feedVars, scanVars, state, reconciled, paused, adminActs, autoResume, excused, gap, scenario>>
    BY <1>12 DEF ReadStale
  <2>2. applying' \subseteq Writes
    BY <1>2, <2>1 DEF Writes
  <2>3. CoordinatorTypes' /\ UnhealthyIsPaused'
    BY <1>2, <1>4, <2>1, <2>2 DEF CoordinatorTypes, UnhealthyIsPaused
  <2> QED
    BY <1>3, <1>4, <2>1, <2>3 DEF ScannerHealthInv, CoordinatorInv
<1>13. CASE WriteClearStale
  <2>1. /\ applying' = applying \ {"clearStale"} /\ paused' = "no"
        /\ excused' = (excused \/ Crossed)
        /\ UNCHANGED <<feedVars, scanVars, state, reconciled, adminActs, autoResume, gap, scenario>>
    BY <1>13 DEF WriteClearStale
  <2>2. CoordinatorTypes'
    BY <1>2, <1>4, <2>1 DEF CoordinatorTypes
  <2>3. UnhealthyIsPaused'
    BY <2>1 DEF UnhealthyIsPaused, Crossed
  <2> QED
    BY <1>3, <1>4, <2>1, <2>2, <2>3 DEF ScannerHealthInv, CoordinatorInv
<1>14. ASSUME NEW on \in BOOLEAN, AdminSets(on) PROVE ScannerHealthInv'
  <2>1. /\ adminActs > 0 /\ adminActs' = adminActs - 1
        /\ paused' = IF on THEN "no" ELSE "manual"
        /\ excused' = (excused \/ on)
        /\ UNCHANGED <<feedVars, scanVars, state, reconciled, applying, autoResume, gap, scenario>>
    BY <1>14 DEF AdminSets
  <2>2. adminActs' \in Nat
    BY <1>2, <2>1
  <2>3. CoordinatorTypes' /\ UnhealthyIsPaused'
    BY <1>2, <1>4, <2>1, <2>2 DEF CoordinatorTypes, UnhealthyIsPaused
  <2> QED
    BY <1>3, <1>4, <2>1, <2>3 DEF ScannerHealthInv, CoordinatorInv
<1>15. CASE UNCHANGED vars
  <2>1. UNCHANGED <<feedVars, scanVars, healthVars>>
    BY <1>15 DEF vars
  <2>2. ScanInv' /\ chain' = chain /\ FeedInv'
    BY <1>3, <1>4, <2>1
  <2>3. CoordinatorInv'
    BY <1>2, <1>5, <2>1, <2>2 DEF healthVars
  <2> QED
    BY <2>2, <2>3 DEF ScannerHealthInv
<1> QED
  BY <1>6, <1>7, <1>8, <1>9, <1>10, <1>11, <1>12, <1>13, <1>14, <1>15 DEF Next, Coordinate

LEMMA ScannerHealthSays == ASSUME ScannerHealthInv PROVE FeedIsSound /\ WatermarkCovers
<1>1. FeedInv /\ ScanInv /\ CoordinatorInv
  BY DEF ScannerHealthInv
<1>2. OneSubscription
  <2>1. ASSUME ~sticky PROVE Cardinality(open) <= 1
    <3>1. open \subseteq {active}
      BY <1>1, <2>1 DEF FeedInv, OneSource
    <3>2. open = {} \/ open = {active}
      BY <3>1
    <3>3. Cardinality({}) = 0 /\ Cardinality({active}) = 1
      BY FS_EmptySet, FS_Singleton, Zenon
    <3> QED
      BY <3>2, <3>3
  <2> QED
    BY <2>1 DEF OneSubscription
<1>3. TypeOK
  BY <1>1 DEF FeedInv, ScanInv, CoordinatorInv, CoordinatorTypes, TypeOK
<1> QED
  BY <1>1, <1>2, <1>3 DEF FeedIsSound, ScanInv, CoordinatorInv

\* However the timers, their reconnects and the providers' failures interleave, there
\* is one subscription at a time, and no total outage leaves auto-buys going, but for
\* the reasons noted (pumpfun.ts, scannerHealth.ts).
THEOREM FeedSound == Spec => []FeedIsSound
<1>1. Spec => []ScannerHealthInv
  BY ScannerHealthBegins, ScannerHealthKept, PTL DEF Spec
<1> QED
  BY <1>1, ScannerHealthSays, PTL

\* No scan, failed or complete, moves the watermark past a launch that was neither
\* parsed nor given up (fallbackLaunchDiscovery.ts).
THEOREM NoLaunchSkipped == Spec => []WatermarkCovers
<1>1. Spec => []ScannerHealthInv
  BY ScannerHealthBegins, ScannerHealthKept, PTL DEF Spec
<1> QED
  BY <1>1, ScannerHealthSays, PTL

-----------------------------------------------------------------------------
\* --- The screening ----------------------------------------------------------

\* A record of flags: the fields the gate decides by have their types, the
\* others are whatever was read.
FlagsOK(f) ==
    f \in [mint : BOOLEAN, freeze : BOOLEAN, liquidity : Nat, honeypot : BOOLEAN, readAt : Nat, change : Nat,
           failed : SUBSET Reads, top10 : {f.top10}, count : {f.count}, holders : {f.holders},
           clustered : {f.clustered}, source : {f.source}, pump : {f.pump}, born : {f.born}]

StatsType == [scanned : Nat, passed : Nat, blocked : Nat, retries : Nat, pending : Nat, wins : Nat, final : Nat]
CandType == [venue : Venues \cup {None}, timed : BOOLEAN, detected : Nat, attempt : Nat, due : Nat]
ProbeType == [lookup : {"clear", "listed", "failed"}, forward : {None, "ok", "failed"}, reverse : Nat]

ScreeningTypes ==
    /\ token \in Tokens /\ clock \in Nat /\ changes \in Nat
    /\ cand \in CandType
    /\ at # "idle" => cand.venue \in Venues
    /\ FlagsOK(flags) /\ DOMAIN cache = Venues /\ \A v \in Venues : FlagsOK(cache[v])
    /\ probe \in ProbeType
    /\ stats \in StatsType

\* What flags say of the token is so, unless the token has changed, and of its
\* liquidity what their source shows; a failed read left the worst.
Honest(f) ==
    /\ changes <= f.change \/ f.liquidity = 0
    /\ f.mint => token.mint
    /\ f.freeze => token.freeze
    /\ changes = f.change => f.liquidity \in {0, Shown(f.source)}
    /\ ~f.honeypot => f.liquidity >= 500
    /\ "mint" \in f.failed => ~f.mint
    /\ f.failed \cap {"mint", "holders"} # {} => f.top10 = 100

Judging == {"holders", "liquidity", "gate", "sell", "ask"}

\* What the lookups and the quotes say, from the first read to the verdict.
Probed ==
    at \in Judging \/ Bought => probe.reverse < 3 /\ (probe.lookup = "clear" => ~token.black)

\* The gate has let it pass.
Admitted ==
    at \in {"sell", "ask"} \/ Bought =>
        /\ flags.mint /\ flags.freeze /\ ~flags.honeypot
        /\ flags.failed \cap {"mint", "holders"} = {}
        /\ probe.lookup = "clear" /\ probe.forward = "ok"

\* And the sellability check.
Sellable ==
    at = "ask" \/ Bought => (changes = flags.change => token.route = "good")

\* Changes since the first read show, and the gate judges what is not too old.
FlagsAreFresh ==
    /\ at \in {"holders", "liquidity"} => changes <= flags.change
    /\ at \in {"gate", "sell"} => flags.readAt + TTL > clock

\* The counters, with the candidate under way.
Counted ==
    /\ at = "precheck" => cand.attempt = 0
    /\ at = "waiting" => cand.attempt > 0
    /\ stats.pending = IF at = "waiting" \/ (at = "start" /\ cand.attempt > 0) THEN 1 ELSE 0
    /\ stats.blocked = stats.final + stats.retries
    /\ stats.scanned <= stats.passed + stats.final
                        + (IF at \in {"idle", "ask", "precheck"} \/ (at = "start" /\ cand.attempt = 0) THEN 0 ELSE 1)
    /\ stats.wins + (IF at \notin {"idle", "ask", "precheck"} /\ cand.attempt > 0 THEN 1 ELSE 0) <= stats.retries

ScreeningInv ==
    /\ ScreeningTypes /\ (Bought => at = "idle")
    /\ Honest(flags) /\ \A v \in Venues : Honest(cache[v])
    /\ Probed /\ Admitted /\ Sellable /\ FlagsAreFresh /\ Counted /\ NoBuyAgainstTheModels
-----------------------------------------------------------------------------
USE ScreeningAssumption DEF StatsType, CandType, ProbeType

\* What nobody is told about yet leaves the verdict alone.
LEMMA NotBought ==
  ASSUME outcome'.is # "bought"
  PROVE  ~Bought' /\ NoBuyAgainstTheModels'
BY DEF Bought, NoBuyAgainstTheModels

\* A model answers or fails.
LEMMA AskStep ==
  ASSUME ScreeningInv, at = "ask",
         UNCHANGED <<stats, token, clock, cache, at, cand, flags, probe, outcome, rounds, changes>>
  PROVE  ScreeningInv'
<1>1. ~Bought
  BY DEF ScreeningInv
<1>2. ~Bought' /\ NoBuyAgainstTheModels'
  BY <1>1 DEF Bought, NoBuyAgainstTheModels
<1>3. ScreeningTypes'
  BY DEF ScreeningInv, ScreeningTypes, FlagsOK
<1>4. Honest(flags)' /\ \A v \in Venues : Honest(cache[v])'
  BY DEF ScreeningInv, Honest, Shown
<1>5. Probed' /\ Admitted' /\ Sellable' /\ FlagsAreFresh' /\ Counted'
  BY <1>1, <1>2 DEF ScreeningInv, Probed, Admitted, Sellable, FlagsAreFresh, Counted
<1> QED
  BY <1>2, <1>3, <1>4, <1>5 DEF ScreeningInv

\* The token changes; what was read of it is no longer said of it as it is.
LEMMA TokenStep ==
  ASSUME ScreeningInv, NEW t \in Tokens, Becomes(t),
         t.mint = token.mint, t.freeze = token.freeze, t.black = token.black
  PROVE  ScreeningInv'
<1>1. /\ token' = t /\ changes' = changes - 1 /\ changes' \in Nat /\ changes \in Nat
      /\ UNCHANGED <<stats, clock, cache, at, cand, flags, probe, votes, outcome>>
  BY DEF Becomes, ScreeningInv, ScreeningTypes
<1>2. ScreeningTypes'
  BY <1>1 DEF ScreeningInv, ScreeningTypes, FlagsOK
<1>3. ASSUME NEW f, FlagsOK(f), Honest(f)
      PROVE  /\ changes' <= f.change \/ f.liquidity = 0
             /\ f.mint => token'.mint
             /\ f.freeze => token'.freeze
             /\ changes' # f.change \/ f.liquidity = 0
  BY <1>1, <1>3 DEF FlagsOK, Honest, Shown
<1>4. Honest(flags)' /\ \A v \in Venues : Honest(cache[v])'
  <2>1. Honest(flags)'
    <3>1. FlagsOK(flags) /\ Honest(flags)
      BY DEF ScreeningInv, ScreeningTypes
    <3> QED
      BY <1>1, <1>3, <3>1 DEF Honest
  <2>2. ASSUME NEW v \in Venues PROVE Honest(cache[v])'
    <3>1. FlagsOK(cache[v]) /\ Honest(cache[v])
      BY DEF ScreeningInv, ScreeningTypes
    <3> QED
      BY <1>1, <1>3, <3>1 DEF Honest
  <2> QED
    BY <2>1, <2>2
<1>5. Sellable'
  <2> SUFFICES ASSUME at = "ask" \/ Bought, changes' = flags.change PROVE FALSE
    BY <1>1 DEF Sellable, Bought
  <2>1. flags.liquidity >= 500 /\ flags.liquidity \in Nat /\ flags.change \in Nat
    BY DEF ScreeningInv, ScreeningTypes, FlagsOK, Admitted, Honest
  <2>2. changes <= flags.change
    BY <2>1 DEF ScreeningInv, Honest, Shown
  <2> QED
    BY <1>1, <2>1, <2>2
<1>6. Probed' /\ Admitted' /\ FlagsAreFresh' /\ Counted' /\ (Bought' => at' = "idle") /\ NoBuyAgainstTheModels'
  <2>1. FlagsAreFresh'
    BY <1>1 DEF ScreeningInv, ScreeningTypes, FlagsOK, FlagsAreFresh
  <2> QED
    BY <1>1, <2>1 DEF ScreeningInv, Probed, Admitted, Counted, Bought, NoBuyAgainstTheModels, Buyers, Voting
<1> QED
  BY <1>2, <1>4, <1>5, <1>6 DEF ScreeningInv

\* Time passes while nothing is read or decided.
LEMMA TickStep ==
  ASSUME ScreeningInv, Tick
  PROVE  ScreeningInv'
<1>1. /\ clock' = clock + 1 /\ clock' \in Nat /\ at \in {"ask", "idle", "waiting"}
      /\ UNCHANGED <<stats, token, cache, at, cand, flags, probe, votes, outcome, changes>>
  BY DEF Tick, ScreeningInv, ScreeningTypes
<1>2. ScreeningTypes'
  BY <1>1 DEF ScreeningInv, ScreeningTypes, FlagsOK
<1>3. Honest(flags)' /\ \A v \in Venues : Honest(cache[v])'
  BY <1>1 DEF ScreeningInv, Honest, Shown
<1>4. Probed' /\ Admitted' /\ Sellable' /\ FlagsAreFresh' /\ Counted' /\ (Bought' => at' = "idle")
      /\ NoBuyAgainstTheModels'
  BY <1>1 DEF ScreeningInv, Probed, Admitted, Sellable, FlagsAreFresh, Counted, Bought,
              NoBuyAgainstTheModels, Buyers, Voting
<1> QED
  BY <1>2, <1>3, <1>4 DEF ScreeningInv

\* No flags say nothing.
LEMMA NoFlagsOK ==
  ASSUME ScreeningTypes
  PROVE  FlagsOK(NoFlags) /\ Honest(NoFlags)
BY DEF NoFlags, FlagsOK, Honest, ScreeningTypes

\* A report begins, passes its first look, or is taken up again.
LEMMA ReportStep ==
  ASSUME ScreeningInv, NEW c \in Candidates, Report(c)
  PROVE  ScreeningInv'
<1>1. /\ at = "idle" /\ at' \in {"start", "precheck"} /\ cand'.attempt = 0
      /\ flags' = NoFlags /\ probe' = NoProbe /\ outcome'.is = None
      /\ UNCHANGED <<stats, token, clock, cache, changes>>
  BY DEF Report, NoOutcome
<1>2. ~Bought' /\ NoBuyAgainstTheModels'
  BY <1>1, NotBought DEF None
<1>3. ScreeningTypes'
  <2>1. cand' \in CandType
        /\ cand'.venue \in Venues
    BY DEF Report, ScreeningInv, ScreeningTypes
  <2>2. FlagsOK(flags)'
    BY <1>1, NoFlagsOK DEF ScreeningInv, FlagsOK
  <2>3. probe' \in ProbeType
    BY <1>1 DEF NoProbe
  <2>4. DOMAIN cache' = Venues /\ \A v \in Venues : FlagsOK(cache[v])'
    BY <1>1 DEF ScreeningInv, ScreeningTypes, FlagsOK
  <2> QED
    BY <1>1, <2>1, <2>2, <2>3, <2>4 DEF ScreeningInv, ScreeningTypes
<1>4. Honest(flags)' /\ \A v \in Venues : Honest(cache[v])'
  BY <1>1, NoFlagsOK DEF ScreeningInv, Honest, Shown
<1>5. Probed' /\ Admitted' /\ Sellable' /\ FlagsAreFresh'
  BY <1>1, <1>2 DEF Probed, Judging, Admitted, Sellable, FlagsAreFresh
<1>6. Counted'
  BY <1>1 DEF ScreeningInv, ScreeningTypes, Counted
<1> QED
  BY <1>2, <1>3, <1>4, <1>5, <1>6 DEF ScreeningInv

LEMMA BeginningStep ==
  ASSUME ScreeningInv, Precheck \/ Wake
  PROVE  ScreeningInv'
<1>1. /\ UNCHANGED <<stats, token, clock, cache, flags, probe, changes>>
      /\ \/ at = "precheck" /\ at' \in {"start", "idle"}
         \/ at = "waiting" /\ at' = "start"
      /\ outcome' = outcome \/ outcome'.is = "ignored"
  BY DEF Precheck, Wake, Finish
<1>2. cand' \in CandType /\ cand'.venue \in Venues /\ cand'.attempt = cand.attempt /\ cand.attempt \in Nat
  <2>1. cand \in CandType /\ cand.venue \in Venues /\ token.home \in Venues \cup {None}
    BY <1>1 DEF ScreeningInv, ScreeningTypes, Tokens
  <2>2. CASE \E venue \in Venues : cand' = [cand EXCEPT !.venue = venue]
    BY <2>1, <2>2
  <2>3. CASE cand' = cand
    BY <2>1, <2>3
  <2>4. CASE Precheck
    <3>1. PICK F : LET venue == IF FigureKnown(F) THEN token.home
                                ELSE IF CurveKnown(F) THEN "PUMPFUN" ELSE None
                   IN  cand' = cand \/ (venue # None /\ cand' = [cand EXCEPT !.venue = venue])
      BY <2>4 DEF Precheck
    <3> QED
      BY <2>1, <2>2, <2>3, <3>1 DEF Venues
  <2> QED
    BY <2>3, <2>4 DEF Wake
<1>3. ~Bought' /\ NoBuyAgainstTheModels'
  <2>1. outcome'.is # "bought"
    BY <1>1 DEF ScreeningInv, Bought
  <2> QED
    BY <2>1, NotBought
<1>4. ScreeningTypes'
  <2>1. FlagsOK(flags)' /\ DOMAIN cache' = Venues /\ \A v \in Venues : FlagsOK(cache[v])'
    BY <1>1 DEF ScreeningInv, ScreeningTypes, FlagsOK
  <2> QED
    BY <1>1, <1>2, <2>1 DEF ScreeningInv, ScreeningTypes
<1>5. Honest(flags)' /\ \A v \in Venues : Honest(cache[v])'
  BY <1>1 DEF ScreeningInv, Honest, Shown
<1>6. Probed' /\ Admitted' /\ Sellable' /\ FlagsAreFresh'
  BY <1>1, <1>3 DEF Probed, Judging, Admitted, Sellable, FlagsAreFresh
<1>7. Counted'
  BY <1>1, <1>2 DEF ScreeningInv, ScreeningTypes, Counted
<1> QED
  BY <1>3, <1>4, <1>5, <1>6, <1>7 DEF ScreeningInv

\* What Begin answers.
LEMMA BeginFacts ==
  ASSUME ScreeningTypes, NEW F \in SUBSET Reads, Begin(F)
  PROVE  /\ probe' \in ProbeType
         /\ probe'.reverse = 0 /\ (probe'.lookup = "clear" => ~token.black)
<1> QED
  BY DEF Begin, ScreeningTypes, Tokens

\* And what it counts: a retry leaves those who wait, a first look is a scan.
LEMMA BeginCounts ==
  ASSUME ScreeningTypes, Counted, at = "start", at' \in {"holders", "gate"}, UNCHANGED cand, NEW F, Begin(F)
  PROVE  /\ stats' \in StatsType
         /\ Counted'
<1>1. cand.attempt \in Nat
      /\ stats \in StatsType
  BY DEF ScreeningTypes
<1>2. CASE cand.attempt > 0
  <2>1. stats' = [stats EXCEPT !.pending = 0] /\ stats.pending = 1
    BY <1>1, <1>2 DEF Begin, Counted
  <2>2. /\ stats' \in StatsType
        /\ stats'.pending = 0 /\ stats'.scanned = stats.scanned /\ stats'.passed = stats.passed
        /\ stats'.final = stats.final /\ stats'.blocked = stats.blocked /\ stats'.retries = stats.retries
        /\ stats'.wins = stats.wins
    BY <1>1, <2>1
  <2> QED
    BY <1>1, <1>2, <2>2 DEF Counted
<1>3. CASE ~(cand.attempt > 0) /\ cand.timed
  <2>1. stats' = [stats EXCEPT !.scanned = stats.scanned + 1] /\ cand.attempt = 0
    BY <1>1, <1>3 DEF Begin
  <2>2. /\ stats' \in StatsType
        /\ stats'.pending = stats.pending /\ stats'.scanned = stats.scanned + 1 /\ stats'.passed = stats.passed
        /\ stats'.final = stats.final /\ stats'.blocked = stats.blocked /\ stats'.retries = stats.retries
        /\ stats'.wins = stats.wins
    BY <1>1, <2>1
  <2> QED
    BY <1>1, <1>3, <2>1, <2>2 DEF Counted
<1>4. CASE ~(cand.attempt > 0) /\ ~cand.timed
  <2>1. stats' = stats /\ cand.attempt = 0
    BY <1>1, <1>4 DEF Begin
  <2> QED
    BY <1>1, <1>4, <2>1 DEF Counted
<1> QED
  BY <1>2, <1>3, <1>4

\* The reads begin, or the cache answers.
LEMMA StartStep ==
  ASSUME ScreeningInv, NEW F \in SUBSET Reads, StartCached(F) \/ Start(F)
  PROVE  ScreeningInv'
<1>1. /\ at = "start" /\ Begin(F) /\ at' \in {"holders", "gate"} /\ cand.venue \in Venues
      /\ UNCHANGED <<token, clock, cache, cand, outcome, changes>>
      /\ \/ at' = "gate" /\ flags' = cache[cand.venue] /\ Fresh(cache[cand.venue])
         \/ /\ at' = "holders"
            /\ flags' = [NoFlags EXCEPT !.failed = F, !.change = changes,
                                        !.mint = MintInfo(F).mint, !.freeze = MintInfo(F).freeze]
  BY DEF StartCached, Start, ScreeningInv, ScreeningTypes
<1>2. ~Bought /\ ~Bought' /\ NoBuyAgainstTheModels'
  BY <1>1 DEF ScreeningInv, Bought, NoBuyAgainstTheModels
<1>3. FlagsOK(flags)' /\ Honest(flags)' /\ FlagsAreFresh'
  <2>1. CASE at' = "gate"
    <3>1. PICK f : f = cache[cand.venue]
      OBVIOUS
    <3>2. FlagsOK(f) /\ Honest(f) /\ Fresh(f)
      BY <1>1, <2>1, <3>1 DEF ScreeningInv, ScreeningTypes
    <3>3. flags' = f
      BY <1>1, <2>1, <3>1
    <3> QED
      BY <1>1, <2>1, <3>2, <3>3 DEF FlagsOK, Honest, Shown, Fresh, FlagsAreFresh
  <2>2. CASE at' = "holders"
    <3>1. PICK mi, fr : mi = MintInfo(F).mint /\ fr = MintInfo(F).freeze
      OBVIOUS
    <3>2. /\ mi \in BOOLEAN /\ fr \in BOOLEAN /\ (mi => token.mint) /\ (fr => token.freeze)
          /\ ("mint" \in F => ~mi)
      BY <3>1 DEF MintInfo, ScreeningInv, ScreeningTypes, Tokens
    <3>3. PICK nf : nf = NoFlags
      OBVIOUS
    <3>5. FlagsOK(nf) /\ nf.top10 = 100 /\ nf.liquidity = 0 /\ nf.honeypot
      BY <3>3, NoFlagsOK DEF NoFlags, ScreeningInv
    <3>6. flags' = [nf EXCEPT !.failed = F, !.change = changes, !.mint = mi, !.freeze = fr]
      BY <1>1, <2>2, <3>1, <3>3
    <3>4. changes \in Nat /\ token' = token /\ changes' = changes
      BY <1>1 DEF ScreeningInv, ScreeningTypes
    <3>7. /\ FlagsOK(flags') /\ flags'.mint = mi /\ flags'.freeze = fr /\ flags'.liquidity = 0
          /\ flags'.honeypot /\ flags'.change = changes /\ flags'.failed = F /\ flags'.top10 = 100
      BY <3>2, <3>4, <3>5, <3>6, ZenonT(30) DEF FlagsOK
    <3> QED
      BY <2>2, <3>2, <3>4, <3>7 DEF FlagsOK, Honest, Shown, FlagsAreFresh
  <2> QED
    BY <1>1, <2>1, <2>2
<1>4. probe' \in ProbeType
      /\ probe'.reverse = 0 /\ (probe'.lookup = "clear" => ~token.black)
  BY <1>1, BeginFacts DEF ScreeningInv
<1>5. stats' \in StatsType
      /\ Counted'
  BY <1>1, BeginCounts DEF ScreeningInv
<1>6. ScreeningTypes'
  <2>1. DOMAIN cache' = Venues /\ \A v \in Venues : FlagsOK(cache[v])'
    BY <1>1 DEF ScreeningInv, ScreeningTypes, FlagsOK
  <2> QED
    BY <1>1, <1>3, <1>4, <1>5, <2>1 DEF ScreeningInv, ScreeningTypes
<1>7. \A v \in Venues : Honest(cache[v])'
  BY <1>1 DEF ScreeningInv, Honest, Shown
<1>8. Probed' /\ Admitted' /\ Sellable'
  BY <1>1, <1>2, <1>4 DEF Probed, Judging, Admitted, Sellable
<1> QED
  BY <1>2, <1>3, <1>5, <1>6, <1>7, <1>8 DEF ScreeningInv

\* The holders are read, or taken for the worst.
LEMMA HoldersStep ==
  ASSUME ScreeningInv, ReadHolders
  PROVE  ScreeningInv'
<1>1. /\ at = "holders" /\ at' = "liquidity" /\ FlagsOK(flags) /\ Honest(flags)
      /\ UNCHANGED <<stats, token, clock, cache, cand, probe, votes, outcome, changes>>
  BY DEF ReadHolders, ScreeningInv, ScreeningTypes
<1>2. ~Bought /\ ~Bought' /\ NoBuyAgainstTheModels'
  BY <1>1 DEF ScreeningInv, Bought, NoBuyAgainstTheModels
<1>3. PICK top, many, shares, cl, pu, bo :
        /\ flags' = [flags EXCEPT !.top10 = top, !.count = many, !.holders = shares, !.clustered = cl,
                                  !.pump = pu, !.born = bo]
        /\ flags.failed \cap {"mint", "holders"} # {} => top = 100
  <2>1. PICK pu, bo : flags' = [Concentration(flags, HoldersSeen) EXCEPT !.pump = pu, !.born = bo]
    BY DEF ReadHolders
  <2>2. CASE flags.failed \cap {"mint", "holders"} # {}
    <3>1. Concentration(flags, HoldersSeen) = [flags EXCEPT !.top10 = 100]
      BY <2>2 DEF Concentration
    <3>2. flags' = [flags EXCEPT !.top10 = 100, !.count = flags.count, !.holders = flags.holders,
                                 !.clustered = flags.clustered, !.pump = pu, !.born = bo]
      BY <1>1, <2>1, <3>1, ZenonT(30) DEF FlagsOK
    <3> QED
      BY <3>2, ZenonT(30)
  <2>3. CASE flags.failed \cap {"mint", "holders"} = {}
    <3>1. PICK top, many, shares, cl :
            Concentration(flags, HoldersSeen) =
              [flags EXCEPT !.top10 = top, !.count = many, !.holders = shares, !.clustered = cl]
      BY <2>3 DEF Concentration
    <3>2. flags' = [flags EXCEPT !.top10 = top, !.count = many, !.holders = shares,
                                 !.clustered = cl, !.pump = pu, !.born = bo]
      BY <1>1, <2>1, <3>1 DEF FlagsOK
    <3> QED
      BY <2>3, <3>2
  <2> QED
    BY <2>2, <2>3
<1>4. /\ FlagsOK(flags') /\ flags'.mint = flags.mint /\ flags'.freeze = flags.freeze
      /\ flags'.liquidity = flags.liquidity /\ flags'.source = flags.source /\ flags'.honeypot = flags.honeypot
      /\ flags'.change = flags.change /\ flags'.failed = flags.failed /\ flags'.top10 = top
  BY <1>1, <1>3 DEF FlagsOK
<1>5. FlagsOK(flags)' /\ Honest(flags)'
  BY <1>1, <1>3, <1>4 DEF FlagsOK, Honest, Shown
<1>6. ScreeningTypes'
  <2>1. DOMAIN cache' = Venues /\ \A v \in Venues : FlagsOK(cache[v])'
    BY <1>1 DEF ScreeningInv, ScreeningTypes, FlagsOK
  <2> QED
    BY <1>1, <1>5, <2>1 DEF ScreeningInv, ScreeningTypes
<1>7. \A v \in Venues : Honest(cache[v])'
  BY <1>1 DEF ScreeningInv, Honest, Shown
<1>8. Probed' /\ Admitted' /\ Sellable' /\ FlagsAreFresh' /\ Counted'
  BY <1>1, <1>2, <1>4 DEF ScreeningInv, Probed, Judging, Admitted, Sellable, FlagsAreFresh, Counted
<1> QED
  BY <1>2, <1>5, <1>6, <1>7, <1>8 DEF ScreeningInv

\* A source that answers says what it shows of the token's own liquidity.
LEMMA LiquidityFound ==
  ASSUME NEW failed, NEW doomed, token.liquidity \in Nat
  PROVE  LET found == ResolveLiquidity(failed, doomed)
         IN  found.usd \in Nat /\ found.usd \in {0, Shown(found.source)}
<1>1. \A source : Shown(source) \in Nat
  BY DEF Shown
<1> QED
  BY <1>1 DEF ResolveLiquidity

\* The last read completes the flags and stores them.
LEMMA LiquidityStep ==
  ASSUME ScreeningInv, ReadLiquidity
  PROVE  ScreeningInv'
<1>1. /\ at = "liquidity" /\ at' = "gate" /\ FlagsOK(flags) /\ Honest(flags) /\ cand.venue \in Venues
      /\ UNCHANGED <<stats, token, clock, cand, probe, votes, outcome, changes>>
      /\ clock \in Nat /\ token.liquidity \in Nat
  BY DEF ReadLiquidity, ScreeningInv, ScreeningTypes, Tokens
<1>2. ~Bought /\ ~Bought' /\ NoBuyAgainstTheModels'
  BY <1>1 DEF ScreeningInv, Bought, NoBuyAgainstTheModels
<1>3. PICK usd, src, hp, all :
        /\ usd \in Nat /\ usd \in {0, Shown(src)} /\ hp \in BOOLEAN /\ (~hp => ~(usd < 500))
        /\ all = [flags EXCEPT !.liquidity = usd, !.source = src, !.readAt = clock, !.honeypot = hp]
        /\ flags' = all /\ cache' = [cache EXCEPT ![cand.venue] = all]
  <2>1. PICK found : found = ResolveLiquidity(flags.failed, ~flags.mint \/ flags.top10 > 70)
    OBVIOUS
  <2>2. found.usd \in Nat /\ found.usd \in {0, Shown(found.source)}
    BY <1>1, <2>1, LiquidityFound
  <2>3. PICK hp \in BOOLEAN : hp = (~flags.mint \/ flags.top10 > 70 \/ found.usd < 500)
    OBVIOUS
  <2>4. ~hp => ~(found.usd < 500)
    BY <2>3
  <2>5. PICK all : /\ all = [flags EXCEPT !.liquidity = found.usd, !.source = found.source, !.readAt = clock,
                              !.honeypot = ~flags.mint \/ flags.top10 > 70 \/ found.usd < 500]
                   /\ flags' = all /\ cache' = [cache EXCEPT ![cand.venue] = all]
    BY <2>1, ZenonT(30) DEF ReadLiquidity
  <2>6. all = [flags EXCEPT !.liquidity = found.usd, !.source = found.source, !.readAt = clock, !.honeypot = hp]
    BY <2>3, <2>5
  <2> QED
    BY <2>2, <2>3, <2>4, <2>5, <2>6
<1>4. /\ FlagsOK(all) /\ all.mint = flags.mint /\ all.freeze = flags.freeze
      /\ all.liquidity = usd /\ all.source = src /\ all.honeypot = hp /\ all.readAt = clock
      /\ all.change = flags.change /\ all.failed = flags.failed /\ all.top10 = flags.top10
  <2>1. usd \in Nat
    BY <1>1, <1>3
  <2>2. CASE hp = TRUE
    BY <1>1, <1>3, <2>1, <2>2 DEF FlagsOK
  <2>3. CASE hp = FALSE
    BY <1>1, <1>3, <2>1, <2>3 DEF FlagsOK
  <2> QED
    BY <1>3, <2>2, <2>3
<1>5. usd \in Nat /\ (~hp => usd >= 500) /\ changes <= flags.change
  BY <1>1, <1>3 DEF ScreeningInv, FlagsAreFresh
<1>6. FlagsOK(flags)' /\ Honest(flags)'
  BY <1>1, <1>3, <1>4, <1>5 DEF FlagsOK, Honest, Shown
<1>7. \A v \in Venues : FlagsOK(cache[v])' /\ Honest(cache[v])'
  <2>1. ASSUME NEW v \in Venues, v # cand.venue PROVE cache'[v] = cache[v] /\ FlagsOK(cache[v]) /\ Honest(cache[v])
    BY <1>3, <2>1 DEF ScreeningInv, ScreeningTypes
  <2>2. cache'[cand.venue] = flags'
    BY <1>1, <1>3 DEF ScreeningInv, ScreeningTypes
  <2> QED
    BY <1>1, <1>6, <2>1, <2>2 DEF FlagsOK, Honest, Shown
<1>8. ScreeningTypes'
  <2>1. DOMAIN cache' = Venues
    BY <1>3 DEF ScreeningInv, ScreeningTypes
  <2> QED
    BY <1>1, <1>6, <1>7, <2>1 DEF ScreeningInv, ScreeningTypes
<1>9. Probed' /\ Admitted' /\ Sellable' /\ FlagsAreFresh' /\ Counted'
  BY <1>1, <1>2, <1>3, <1>4 DEF ScreeningInv, Probed, Judging, Admitted, Sellable, FlagsAreFresh, Counted
<1> QED
  BY <1>2, <1>6, <1>7, <1>8, <1>9 DEF ScreeningInv

\* A rejection counts, and ends the evaluation or has it wait.
LEMMA RejectStep ==
  ASSUME ScreeningInv, NEW reasons, Reject(reasons), at \in {"gate", "sell"},
         UNCHANGED <<token, clock, cache, flags, votes, changes>>,
         probe' \in ProbeType
  PROVE  ScreeningInv'
<1>1. /\ cand \in CandType
      /\ cand.venue \in Venues /\ clock \in Nat /\ at # "idle"
      /\ stats \in StatsType
      /\ ~Bought
  BY DEF ScreeningInv, ScreeningTypes
<1>2. FlagsOK(flags)' /\ DOMAIN cache' = Venues /\ \A v \in Venues : FlagsOK(cache[v])'
  BY DEF ScreeningInv, ScreeningTypes, FlagsOK
<1>3. Honest(flags)' /\ \A v \in Venues : Honest(cache[v])'
  BY DEF ScreeningInv, Honest, Shown
<1>4. CASE /\ at' = "waiting" /\ UNCHANGED outcome
           /\ cand' = [cand EXCEPT !.attempt = @ + 1, !.due = clock + 1]
           /\ stats' = [stats EXCEPT !.blocked = @ + 1, !.retries = @ + 1, !.pending = @ + 1]
  <2>1. ~Bought' /\ NoBuyAgainstTheModels'
    BY <1>1, <1>4 DEF Bought, NoBuyAgainstTheModels
  <2>2. /\ cand' \in CandType
        /\ cand'.venue \in Venues /\ cand'.attempt = cand.attempt + 1 /\ cand.attempt \in Nat
    <3>1. PICK a \in Nat, d \in Nat : a = cand.attempt + 1 /\ d = clock + 1
      BY <1>1
    <3>2. cand' = [cand EXCEPT !.attempt = a, !.due = d]
      BY <1>4, <3>1
    <3> QED
      BY <1>1, <3>1, <3>2
  <2>3. /\ stats' \in StatsType
        /\ stats'.pending = stats.pending + 1 /\ stats'.scanned = stats.scanned /\ stats'.passed = stats.passed
        /\ stats'.final = stats.final /\ stats'.blocked = stats.blocked + 1 /\ stats'.retries = stats.retries + 1
        /\ stats'.wins = stats.wins
    <3>1. PICK b \in Nat, r \in Nat, p \in Nat :
            b = stats.blocked + 1 /\ r = stats.retries + 1 /\ p = stats.pending + 1
      BY <1>1
    <3>2. stats' = [stats EXCEPT !.blocked = b, !.retries = r, !.pending = p]
      BY <1>4, <3>1
    <3> QED
      BY <1>1, <3>1, <3>2
  <2>4. Counted'
    BY <1>1, <1>4, <2>2, <2>3 DEF ScreeningInv, Counted
  <2>5. Probed' /\ Admitted' /\ Sellable' /\ FlagsAreFresh'
    BY <1>4, <2>1 DEF Probed, Judging, Admitted, Sellable, FlagsAreFresh
  <2>6. ScreeningTypes'
    BY <1>2, <2>2, <2>3 DEF ScreeningInv, ScreeningTypes
  <2> QED
    BY <1>3, <2>1, <2>4, <2>5, <2>6 DEF ScreeningInv
<1>5. CASE /\ at' = "idle" /\ outcome'.is = "rejected" /\ UNCHANGED cand
           /\ stats' = [stats EXCEPT !.blocked = @ + 1, !.final = @ + 1]
  <2>1. ~Bought' /\ NoBuyAgainstTheModels'
    BY <1>5, NotBought
  <2>3. /\ stats' \in StatsType
        /\ stats'.pending = stats.pending /\ stats'.scanned = stats.scanned /\ stats'.passed = stats.passed
        /\ stats'.final = stats.final + 1 /\ stats'.blocked = stats.blocked + 1 /\ stats'.retries = stats.retries
        /\ stats'.wins = stats.wins
    <3>1. PICK b \in Nat, n \in Nat : b = stats.blocked + 1 /\ n = stats.final + 1
      BY <1>1
    <3>2. stats' = [stats EXCEPT !.blocked = b, !.final = n]
      BY <1>5, <3>1
    <3> QED
      BY <1>1, <3>1, <3>2
  <2>4. Counted'
    BY <1>1, <1>5, <2>3 DEF ScreeningInv, Counted
  <2>5. Probed' /\ Admitted' /\ Sellable' /\ FlagsAreFresh'
    BY <1>5, <2>1 DEF Probed, Judging, Admitted, Sellable, FlagsAreFresh
  <2>6. ScreeningTypes'
    BY <1>1, <1>2, <1>5, <2>3 DEF ScreeningInv, ScreeningTypes
  <2> QED
    BY <1>3, <2>1, <2>4, <2>5, <2>6 DEF ScreeningInv
<1> QED
  BY <1>4, <1>5 DEF Reject, Finish

\* A gate that names no reason has seen good flags of reads that all answered.
LEMMA GatePasses ==
  ASSUME ScreeningTypes, Honest(flags), GateReasons(flags) \cup BlacklistReasons = {}
  PROVE  /\ flags.mint /\ flags.freeze /\ ~flags.honeypot
         /\ flags.failed \cap {"mint", "holders"} = {} /\ probe.lookup = "clear"
<1>1. FlagsOK(flags)
  BY DEF ScreeningTypes
<1>2. flags.mint /\ flags.freeze
  BY <1>1 DEF GateReasons, MintReasons, FlagsOK
<1>3. ~flags.honeypot
  BY <1>1 DEF GateReasons, HoneypotReasons, FlagsOK
<1>4. flags.failed \cap {"mint", "holders"} = {}
  <2>1. HolderReasons(flags) = {}
    BY DEF GateReasons
  <2>2. ~(flags.top10 >= 90)
    BY <2>1 DEF HolderReasons
  <2> QED
    BY <2>2 DEF Honest
<1>5. probe.lookup = "clear"
  <2>1. probe.lookup \in {"clear", "listed", "failed"}
    BY DEF ScreeningTypes
  <2> QED
    BY <2>1 DEF BlacklistReasons
<1> QED
  BY <1>2, <1>3, <1>4, <1>5

\* The gate rejects or lets through.
LEMMA GateStep ==
  ASSUME ScreeningInv, Gate
  PROVE  ScreeningInv'
<1>1. at = "gate" /\ UNCHANGED <<token, clock, cache, flags, probe, votes, changes>> /\ ~Bought
  BY DEF Gate, ScreeningInv
<1>2. CASE \E reasons : Reject(reasons)
  <2>1. probe' \in ProbeType
    BY <1>1 DEF ScreeningInv, ScreeningTypes
  <2> QED
    BY <1>1, <1>2, <2>1, RejectStep
<1>3. CASE /\ GateReasons(flags) \cup BlacklistReasons = {} /\ probe.forward \notin {"failed", None}
           /\ at' = "sell" /\ UNCHANGED <<cand, outcome, stats>>
  <2>1. ~Bought' /\ NoBuyAgainstTheModels'
    BY <1>1, <1>3 DEF Bought, NoBuyAgainstTheModels
  <2>2. ScreeningTypes'
    BY <1>1, <1>3 DEF ScreeningInv, ScreeningTypes, FlagsOK
  <2>3. Honest(flags)' /\ \A v \in Venues : Honest(cache[v])'
    BY <1>1 DEF ScreeningInv, Honest, Shown
  <2>4. probe.forward = "ok"
    BY <1>3 DEF ScreeningInv, ScreeningTypes
  <2>5. Admitted'
    BY <1>1, <1>3, <2>4, GatePasses DEF ScreeningInv, Admitted
  <2>6. Probed' /\ Sellable' /\ FlagsAreFresh' /\ Counted'
    BY <1>1, <1>3, <2>1 DEF ScreeningInv, Probed, Judging, Sellable, FlagsAreFresh, Counted
  <2> QED
    BY <2>1, <2>2, <2>3, <2>5, <2>6 DEF ScreeningInv
<1> QED
  BY <1>2, <1>3 DEF Gate

\* The way out is tried, asked about again, or given up.
LEMMA SellStep ==
  ASSUME ScreeningInv, Sell \/ SellFails
  PROVE  ScreeningInv'
<1>1. at = "sell" /\ UNCHANGED <<token, clock, cache, flags, votes, changes>> /\ ~Bought
  BY DEF Sell, SellFails, ScreeningInv
<1>2. probe' \in ProbeType
      /\ probe'.lookup = probe.lookup /\ probe'.forward = probe.forward
  BY DEF Sell, SellFails, ScreeningInv, ScreeningTypes
<1>3. CASE \E reasons : Reject(reasons)
  BY <1>1, <1>2, <1>3, RejectStep
<1>4. CASE /\ probe'.reverse = probe.reverse + 1 /\ probe.reverse + 1 # 3
           /\ UNCHANGED <<at, cand, outcome, stats>>
  <2>1. ~Bought' /\ NoBuyAgainstTheModels'
    BY <1>1, <1>4 DEF Bought, NoBuyAgainstTheModels
  <2>2. ScreeningTypes'
    BY <1>1, <1>2, <1>4 DEF ScreeningInv, ScreeningTypes, FlagsOK
  <2>3. Honest(flags)' /\ \A v \in Venues : Honest(cache[v])'
    BY <1>1 DEF ScreeningInv, Honest, Shown
  <2>4. Probed'
    BY <1>1, <1>2, <1>4 DEF ScreeningInv, ScreeningTypes, Probed, Judging
  <2>5. Admitted' /\ Sellable' /\ FlagsAreFresh' /\ Counted'
    BY <1>1, <1>2, <1>4, <2>1 DEF ScreeningInv, Admitted, Sellable, FlagsAreFresh, Counted
  <2> QED
    BY <2>1, <2>2, <2>3, <2>4, <2>5 DEF ScreeningInv
<1>5. CASE /\ token.route \notin {None, "costly"} /\ at' = "ask" /\ Pass /\ UNCHANGED <<cand, outcome, probe>>
  <2>1. ~Bought' /\ NoBuyAgainstTheModels'
    BY <1>1, <1>5 DEF Bought, NoBuyAgainstTheModels
  <2>2. cand.attempt \in Nat
        /\ stats \in StatsType
    BY DEF ScreeningInv, ScreeningTypes
  <2>3. PICK won \in {0, 1} : /\ won = IF cand.attempt > 0 THEN 1 ELSE 0
                              /\ stats' = [stats EXCEPT !.passed = @ + 1, !.wins = @ + won]
    BY <1>5 DEF Pass
  <2>4. /\ stats' \in StatsType
        /\ stats'.pending = stats.pending /\ stats'.scanned = stats.scanned /\ stats'.passed = stats.passed + 1
        /\ stats'.final = stats.final /\ stats'.blocked = stats.blocked /\ stats'.retries = stats.retries
        /\ stats'.wins = stats.wins + won
    <3>1. PICK p \in Nat, w \in Nat : p = stats.passed + 1 /\ w = stats.wins + won
      BY <2>2, <2>3
    <3>2. stats' = [stats EXCEPT !.passed = p, !.wins = w]
      BY <2>3, <3>1
    <3> QED
      BY <2>2, <3>1, <3>2
  <2>5. Counted'
    BY <1>1, <1>5, <2>2, <2>3, <2>4 DEF ScreeningInv, Counted
  <2>6. ScreeningTypes'
    BY <1>1, <1>5, <2>4 DEF ScreeningInv, ScreeningTypes, FlagsOK
  <2>7. Honest(flags)' /\ \A v \in Venues : Honest(cache[v])'
    BY <1>1 DEF ScreeningInv, Honest, Shown
  <2>8. token.route = "good"
    BY <1>5 DEF ScreeningInv, ScreeningTypes, Tokens
  <2>9. Probed' /\ Admitted' /\ Sellable' /\ FlagsAreFresh'
    BY <1>1, <1>5, <2>1, <2>8 DEF ScreeningInv, Probed, Judging, Admitted, Sellable, FlagsAreFresh
  <2> QED
    BY <2>1, <2>5, <2>6, <2>7, <2>9 DEF ScreeningInv
<1> QED
  <2>1. CASE Sell
    BY <1>3, <1>5, <2>1 DEF Sell
  <2>2. CASE SellFails
    <3>1. probe'.reverse = probe.reverse + 1
      BY <2>2 DEF SellFails, ScreeningInv, ScreeningTypes
    <3> QED
      BY <1>3, <1>4, <2>2, <3>1 DEF SellFails
  <2> QED
    BY <2>1, <2>2

\* Of two voters at most, two buyers are everybody.
LEMMA ConsensusIsUnanimous ==
  ASSUME Consensus
  PROVE  Voting # {} /\ Buyers = Voting
<1>1. PICK V, B : V = Voting /\ B = Buyers
  OBVIOUS
<1>2. B \subseteq V /\ V \subseteq {"openrouter", "ollama"} /\ V # {}
  BY <1>1 DEF Buyers, Voting, Consensus
<1>3. IsFiniteSet({"openrouter"}) /\ Cardinality({"openrouter"}) = 1
  BY FS_Singleton
<1>4. IsFiniteSet({"openrouter", "ollama"}) /\ Cardinality({"openrouter", "ollama"}) = 2
  <2>1. {"openrouter"} \cup {"ollama"} = {"openrouter", "ollama"} /\ "ollama" \notin {"openrouter"}
    OBVIOUS
  <2>2. Cardinality({"openrouter"} \cup {"ollama"}) = Cardinality({"openrouter"}) + 1
        /\ IsFiniteSet({"openrouter"} \cup {"ollama"})
    BY <1>3, <2>1, FS_AddElement
  <2> QED
    BY <1>3, <2>1, <2>2
<1>5. IsFiniteSet(V) /\ Cardinality(V) \in Nat /\ Cardinality(V) <= 2
  BY <1>2, <1>4, FS_Subset, FS_CardinalityType
<1>6. IsFiniteSet(B) /\ Cardinality(B) \in Nat /\ Cardinality(B) <= Cardinality(V)
      /\ (Cardinality(B) = Cardinality(V) => B = V)
  BY <1>2, <1>5, FS_Subset, FS_CardinalityType
<1>7. Cardinality(B) >= Cardinality(V)
  BY <1>1, <1>5, <1>6 DEF Consensus
<1> QED
  BY <1>1, <1>2, <1>5, <1>6, <1>7

\* The models have spoken.
LEMMA DecideStep ==
  ASSUME ScreeningInv, Decide
  PROVE  ScreeningInv'
<1>1. /\ at = "ask" /\ at' = "idle" /\ (outcome'.is = "bought" => Consensus)
      /\ UNCHANGED <<stats, token, clock, cache, cand, flags, probe, votes, changes>>
  BY DEF Decide, Finish
<1>2. Voting' = Voting /\ Buyers' = Buyers
  BY <1>1 DEF Voting, Buyers
<1>3. NoBuyAgainstTheModels'
  BY <1>1, <1>2, ConsensusIsUnanimous DEF NoBuyAgainstTheModels, Bought
<1>4. ScreeningTypes'
  BY <1>1 DEF ScreeningInv, ScreeningTypes, FlagsOK
<1>5. Honest(flags)' /\ \A v \in Venues : Honest(cache[v])'
  BY <1>1 DEF ScreeningInv, Honest, Shown
<1>6. Probed' /\ Admitted' /\ Sellable' /\ FlagsAreFresh' /\ Counted'
  BY <1>1 DEF ScreeningInv, Probed, Judging, Admitted, Sellable, FlagsAreFresh, Counted
<1> QED
  BY <1>1, <1>3, <1>4, <1>5, <1>6 DEF ScreeningInv

\* Every step of the screening preserves the invariant.
LEMMA ScreeningNextStep ==
  ASSUME ScreeningInv, [ScreeningNext]_svars
  PROVE  ScreeningInv'
<1>1. CASE Evaluate
  <2>1. CASE at = "start" /\ \E F \in Failures : StartCached(F) \/ Start(F)
    BY <2>1, StartStep DEF Failures
  <2>2. CASE at = "ask" /\ \E v \in Voters : (\E a \in Answers : Answer(v, a[1], a[2]))
                                            \/ (\E transient \in BOOLEAN : NoAnswer(v, transient))
    BY <2>2, AskStep DEF Answer, NoAnswer
  <2> QED
    BY <1>1, <2>1, <2>2, BeginningStep, HoldersStep, LiquidityStep, GateStep, SellStep, DecideStep DEF Evaluate
<1>2. CASE Drain \/ List \/ Spread
  <2>1. token \in Tokens /\ clock \in Nat
    BY DEF ScreeningInv, ScreeningTypes
  <2>2. CASE Drain
    <3>1. PICK t : t = [token EXCEPT !.liquidity = 0, !.route = None]
      OBVIOUS
    <3>2. t \in Tokens /\ t.mint = token.mint /\ t.freeze = token.freeze /\ t.black = token.black
      BY <2>1, <3>1 DEF Tokens
    <3> QED
      BY <2>2, <3>1, <3>2, TokenStep DEF Drain
  <2>3. CASE List
    <3>1. PICK t : t = [token EXCEPT !.listed = TRUE, !.born = clock]
      OBVIOUS
    <3>2. t \in Tokens /\ t.mint = token.mint /\ t.freeze = token.freeze /\ t.black = token.black
      BY <2>1, <3>1 DEF Tokens
    <3> QED
      BY <2>3, <3>1, <3>2, TokenStep DEF List
  <2>4. CASE Spread
    <3>1. PICK t : t = [token EXCEPT !.holders = token.later]
      OBVIOUS
    <3>2. t \in Tokens /\ t.mint = token.mint /\ t.freeze = token.freeze /\ t.black = token.black
      BY <2>1, <3>1 DEF Tokens
    <3> QED
      BY <2>4, <3>1, <3>2, TokenStep DEF Spread
  <2> QED
    BY <1>2, <2>2, <2>3, <2>4
<1>3. CASE UNCHANGED svars
  <2>1. UNCHANGED <<token, clock, cache, at, cand, flags, probe, votes, outcome, stats, changes>>
    BY <1>3 DEF svars
  <2>2. ScreeningTypes'
    BY <2>1 DEF ScreeningInv, ScreeningTypes, FlagsOK
  <2>3. Honest(flags)' /\ \A v \in Venues : Honest(cache[v])'
    BY <2>1 DEF ScreeningInv, Honest, Shown
  <2>4. Probed' /\ Admitted' /\ Sellable' /\ FlagsAreFresh' /\ Counted' /\ (Bought' => at' = "idle")
        /\ NoBuyAgainstTheModels'
    BY <2>1 DEF ScreeningInv, Probed, Admitted, Sellable, FlagsAreFresh, Counted, Bought,
                NoBuyAgainstTheModels, Buyers, Voting
  <2> QED
    BY <2>2, <2>3, <2>4 DEF ScreeningInv
<1> QED
  BY <1>1, <1>2, <1>3, TickStep, ReportStep DEF ScreeningNext

\* Nothing has been reported yet.
LEMMA ScreeningInitInv ==
  ASSUME ScreeningInit
  PROVE  ScreeningInv
<1>1. PICK s \in Scenarios : token = s.token /\ changes = s.changes
  BY DEF ScreeningInit
<1>2. token \in Tokens /\ changes \in Nat /\ clock = 3 /\ at = "idle"
  BY <1>1 DEF ScreeningInit
<1>3. cand \in CandType
  BY DEF ScreeningInit, NoCand
<1>4. probe \in ProbeType
  BY DEF ScreeningInit, NoProbe
<1>5. stats \in StatsType
      /\ Counted
  BY <1>2 DEF ScreeningInit, NoStats, Counted
<1>6. ~Bought
  BY DEF ScreeningInit, NoOutcome, Bought, None
<1>7. FlagsOK(NoFlags) /\ Honest(NoFlags)
  BY <1>2 DEF NoFlags, FlagsOK, Honest
<1>8. flags = NoFlags /\ DOMAIN cache = Venues /\ \A v \in Venues : cache[v] = NoFlags
  BY DEF ScreeningInit
<1>9. ScreeningTypes /\ Honest(flags) /\ \A v \in Venues : Honest(cache[v])
  BY <1>2, <1>3, <1>4, <1>5, <1>7, <1>8 DEF ScreeningTypes
<1>10. Probed /\ Admitted /\ Sellable /\ FlagsAreFresh /\ NoBuyAgainstTheModels
  BY <1>2, <1>6 DEF Probed, Judging, Admitted, Sellable, FlagsAreFresh, NoBuyAgainstTheModels
<1> QED
  BY <1>5, <1>6, <1>9, <1>10 DEF ScreeningInv

\* The invariant holds of every behaviour of the screening, for every token,
\* config, set of candidates and bound.
THEOREM ScreeningKept == ScreeningSpec => []ScreeningInv
<1>1. ScreeningInit => ScreeningInv
  BY ScreeningInitInv
<1>2. ScreeningInv /\ [ScreeningNext]_svars => ScreeningInv'
  BY ScreeningNextStep
<1> QED
  BY <1>1, <1>2, PTL DEF ScreeningSpec

\* What is bought was read without a failure, is as sound as it was read unless
\* it changed, was wanted by every model that answered and judged by flags the
\* cache may still give out; the gate's counters add up (riskAnalyzer.ts,
\* candidatePipeline.ts, aiAnalyzer.ts).
THEOREM BuysCleared == ScreeningSpec => []BuysAreCleared
<1>1. ASSUME ScreeningInv PROVE BuysAreCleared
  <2>1. UnknownIsNeverBought
    BY <1>1 DEF ScreeningInv, Probed, Admitted, UnknownIsNeverBought
  <2>2. SoundUnlessChanged
    <3> SUFFICES ASSUME Bought, changes = flags.change
                 PROVE  /\ token.mint /\ token.freeze /\ ~token.black
                        /\ token.route = "good"
                        /\ token.liquidity >= IF flags.source = "jupiter_estimate" THEN 5 ELSE 500
      BY DEF SoundUnlessChanged
    <3>1. /\ flags.liquidity >= 500 /\ flags.liquidity \in {0, Shown(flags.source)}
          /\ token.liquidity \in Nat
      BY <1>1 DEF ScreeningInv, ScreeningTypes, Tokens, Admitted, Honest
    <3>2. token.mint /\ token.freeze /\ ~token.black /\ token.route = "good"
      BY <1>1 DEF ScreeningInv, Admitted, Honest, Probed, Sellable
    <3> QED
      BY <3>1, <3>2 DEF Shown
  <2>3. NoBuyAgainstTheModels /\ StaleFlagsAreNotUsed
    BY <1>1 DEF ScreeningInv, FlagsAreFresh, StaleFlagsAreNotUsed
  <2>4. StatsAddUp
    <3>1. /\ cand.attempt \in Nat
          /\ stats \in StatsType
      BY <1>1 DEF ScreeningInv, ScreeningTypes
    <3>2. Counted
      BY <1>1 DEF ScreeningInv
    <3> QED
      BY <3>1, <3>2 DEF Counted, StatsAddUp
  <2> QED
    BY <2>1, <2>2, <2>3, <2>4 DEF BuysAreCleared
<1> QED
  BY <1>1, ScreeningKept, PTL

HIDE ScreeningAssumption DEF StatsType, CandType, ProbeType

\* --- The pool monitors -------------------------------------------------------

\* What is left of a scenario: which DEXes are watched does not change.
PoolPlanLeft ==
    [on : SUBSET Dexes, launches : SUBSET Launches, drops : Nat, stalls : Nat, faults : Nat,
     quits : Nat, born : Nat]

PoolEvent == [of : Launches, at : {"queued", "checking", "handing"}, known : {"none", "PUMPFUN", "other"}]

PoolTypes ==
    /\ plan \in PoolPlanLeft
    /\ sub \in [Dexes -> Nat] /\ made \in [Dexes -> Nat] /\ alive \in [Dexes -> SUBSET Nat]
    /\ stalled \subseteq Dexes /\ idle \in [Dexes -> 0 .. Idle]
    /\ restart \in [Dexes -> [at : {"no", "removing", "hung"}, id : Nat]]
    /\ quit \in [Dexes -> [at : {"no", "removing", "done"}, id : Nat, raced : BOOLEAN]]
    /\ seen \in [Watched -> 0 .. Quiet + 1] /\ alerted \subseteq Watched /\ pages \in [Watched -> Nat]
    /\ check \in [Checks -> [done : 0 .. Len(Sources), sending : BOOLEAN]]
    /\ items \subseteq PoolEvent
    /\ tokens \in [Mints -> {"none", "PUMPFUN", "other"}]

\* One monitor: all the node has is what is on record, or what a restart or the
\* stop is removing; a DEX that is not enabled has nothing.
MonitorSound(d) ==
    /\ sub[d] <= made[d] /\ alive[d] \subseteq 1 .. made[d]
    /\ d \notin plan.on => made[d] = 0 /\ idle[d] = 0 /\ restart[d].at = "no"
    /\ quit[d].at = "no" =>
         /\ alive[d] \subseteq {sub[d]}
         /\ restart[d].at = "removing" => restart[d].id = sub[d]
    /\ quit[d].at = "removing" /\ ~quit[d].raced => restart[d].at = "no" /\ alive[d] \subseteq {quit[d].id}
    /\ quit[d].at = "done" /\ ~quit[d].raced => restart[d].at = "no" /\ alive[d] = {} /\ sub[d] = 0

MonitorsSound == \A d \in Dexes : MonitorSound(d)

\* A source was paged at most once, and only if it is marked; a run that looks
\* at sources has one left.
AlertsSound ==
    /\ \A d \in Watched : pages[d] <= 1 /\ (d \notin alerted => pages[d] = 0)
    /\ \A k \in Checks : check[k].done = 0 \/ check[k].done < Len(Sources)

HandedSound == \A h \in handed : h.of \in Launches /\ h.mint = Base(h.of)

PoolsInv == PoolTypes /\ MonitorsSound /\ AlertsSound /\ HandedSound /\ LossHasCause

\* A part of the scenario is used up, the rest of it stands.
LEMMA PoolSpent ==
  ASSUME plan \in PoolPlanLeft, NEW what \in {"drops", "stalls", "faults", "quits", "born"}, Spend(what)
  PROVE  plan' \in PoolPlanLeft /\ plan'.on = plan.on /\ plan'.launches = plan.launches
<1>1. CASE what = "drops"
  BY <1>1 DEF PoolPlanLeft, Spend
<1>2. CASE what = "stalls"
  BY <1>2 DEF PoolPlanLeft, Spend
<1>3. CASE what = "faults"
  BY <1>3 DEF PoolPlanLeft, Spend
<1>4. CASE what = "quits"
  BY <1>4 DEF PoolPlanLeft, Spend
<1>5. CASE what = "born"
  BY <1>5 DEF PoolPlanLeft, Spend
<1> QED
  BY <1>1, <1>2, <1>3, <1>4, <1>5

\* A launch is one a DEX logs: its two mints are known, and differ.
LEMMA LaunchIsACreation ==
  ASSUME NEW l \in Launches
  PROVE  /\ l \in Creation /\ l.dex \in Dexes /\ l.sides[1] # l.sides[2]
         /\ l.sides[1] \in Mints /\ l.sides[2] \in Mints /\ Base(l) \in {l.sides[1], l.sides[2]}
<1>1. PICK s \in PoolScenarios : l \in s.launches
  BY DEF Launches
<1>2. s \in PoolPlan /\ l.sides[1] # l.sides[2]
  BY <1>1, MonitorsAssumption DEF MonitorsAssumption
<1>3. l \in Creation /\ l.dex \in Dexes
  BY <1>1, <1>2 DEF PoolPlan, Creation
<1>4. Base(l) \in {l.sides[1], l.sides[2]}
  BY DEF Base, PumpSwapBase, RaydiumBase, OrcaBase, MeteoraBase
<1> QED
  BY <1>2, <1>3, <1>4 DEF Mints

\* Unless it is PumpSwap's, the token of a pool is not SOL.
LEMMA BaseIsTheToken ==
  ASSUME NEW l \in Launches, Base(l) = "sol"
  PROVE  l.dex = "PUMPSWAP" /\ l.sides[1] = "sol"
<1>1. l.sides[1] # l.sides[2]
  BY LaunchIsACreation
<1> QED
  BY <1>1 DEF Base, PumpSwapBase, RaydiumBase, OrcaBase, MeteoraBase

LEMMA WatchedDexes == Watched \subseteq Dexes /\ \A i \in 1 .. Len(Sources) : Sources[i] \in Watched
BY MonitorsAssumption DEF MonitorsAssumption, Watched

LEMMA PoolsBegin == ASSUME PoolsInit PROVE PoolsInv
<1>1. plan \in PoolScenarios /\ plan \in PoolPlan
  BY MonitorsAssumption DEF PoolsInit, MonitorsAssumption
<1>2. plan \in PoolPlanLeft
  BY <1>1 DEF PoolPlan, PoolPlanLeft, Launches
<1>3. Idle \in Nat /\ Quiet \in Nat /\ Len(Sources) \in Nat
  BY MonitorsAssumption DEF MonitorsAssumption
<1>4. \A d \in Dexes : made[d] \in 0 .. 1 /\ (d \notin plan.on => made[d] = 0)
  BY DEF PoolsInit
<1>5. PoolTypes
  <2>1. /\ sub \in [Dexes -> Nat] /\ made \in [Dexes -> Nat] /\ alive \in [Dexes -> SUBSET Nat]
        /\ stalled \subseteq Dexes /\ idle \in [Dexes -> 0 .. Idle]
    BY <1>3 DEF PoolsInit
  <2>2. /\ restart \in [Dexes -> [at : {"no", "removing", "hung"}, id : Nat]]
        /\ quit \in [Dexes -> [at : {"no", "removing", "done"}, id : Nat, raced : BOOLEAN]]
    BY DEF PoolsInit
  <2>3. /\ seen \in [Watched -> 0 .. Quiet + 1] /\ alerted \subseteq Watched /\ pages \in [Watched -> Nat]
        /\ check \in [Checks -> [done : 0 .. Len(Sources), sending : BOOLEAN]]
    BY <1>3 DEF PoolsInit
  <2> QED
    BY <1>2, <2>1, <2>2, <2>3 DEF PoolsInit, PoolTypes
<1>6. ASSUME NEW d \in Dexes PROVE MonitorSound(d)
  <2>1. /\ alive[d] = 1 .. made[d] /\ sub[d] = made[d] /\ quit[d].at = "no" /\ restart[d].at = "no" /\ idle[d] = 0
    BY DEF PoolsInit
  <2>2. made[d] \in 0 .. 1 => 1 .. made[d] \subseteq {made[d]}
    OBVIOUS
  <2> QED
    BY <1>4, <2>1, <2>2 DEF MonitorSound
<1>7. AlertsSound
  BY DEF PoolsInit, AlertsSound
<1>8. HandedSound /\ LossHasCause
  BY DEF PoolsInit, HandedSound, LossHasCause
<1> QED
  BY <1>5, <1>6, <1>7, <1>8 DEF PoolsInv, MonitorsSound

\* Steps that leave a part alone keep it.
LEMMA PoolEventsStand ==
  ASSUME PoolsInv, UNCHANGED events
  PROVE  items' \subseteq PoolEvent /\ tokens' \in [Mints -> {"none", "PUMPFUN", "other"}] /\ HandedSound' /\ LossHasCause'
BY DEF PoolsInv, PoolTypes, events, HandedSound, LossHasCause

AlertTypes ==
    /\ seen \in [Watched -> 0 .. Quiet + 1] /\ alerted \subseteq Watched /\ pages \in [Watched -> Nat]
    /\ check \in [Checks -> [done : 0 .. Len(Sources), sending : BOOLEAN]]

LEMMA AlertsStand ==
  ASSUME PoolsInv, UNCHANGED <<seen, health>>
  PROVE  AlertTypes' /\ AlertsSound'
BY DEF PoolsInv, PoolTypes, AlertTypes, AlertsSound, health

WatchTypes ==
    /\ sub \in [Dexes -> Nat] /\ made \in [Dexes -> Nat] /\ alive \in [Dexes -> SUBSET Nat]
    /\ stalled \subseteq Dexes /\ idle \in [Dexes -> 0 .. Idle]
    /\ restart \in [Dexes -> [at : {"no", "removing", "hung"}, id : Nat]]
    /\ quit \in [Dexes -> [at : {"no", "removing", "done"}, id : Nat, raced : BOOLEAN]]

\* Monitors that lose subscriptions, or wait longer on a DEX that is enabled.
LEMMA MonitorsStand ==
  ASSUME PoolsInv, UNCHANGED watch, plan'.on = plan.on, stalled' \subseteq Dexes,
         alive' \in [Dexes -> SUBSET Nat], idle' \in [Dexes -> 0 .. Idle],
         \A d \in Dexes : alive'[d] \subseteq alive[d] /\ (d \in plan.on \/ idle'[d] \in {0, idle[d]})
  PROVE  WatchTypes' /\ MonitorsSound'
<1>1. WatchTypes'
  BY DEF PoolsInv, PoolTypes, WatchTypes, watch
<1>2. ASSUME NEW d \in Dexes PROVE MonitorSound(d)'
  <2>1. MonitorSound(d) /\ alive'[d] \subseteq alive[d] /\ (d \in plan.on \/ idle'[d] \in {0, idle[d]})
    BY DEF PoolsInv, MonitorsSound
  <2> QED
    BY <2>1 DEF MonitorSound, watch
<1> QED
  BY <1>1, <1>2 DEF MonitorsSound

LEMMA PoolsHold ==
  ASSUME plan' \in PoolPlanLeft, WatchTypes', MonitorsSound', AlertTypes', AlertsSound',
         items' \subseteq PoolEvent, tokens' \in [Mints -> {"none", "PUMPFUN", "other"}], HandedSound', LossHasCause'
  PROVE  PoolsInv'
BY DEF PoolsInv, PoolTypes, WatchTypes, AlertTypes

LEMMA PoolTypesAre ==
  ASSUME PoolsInv
  PROVE  /\ plan \in PoolPlanLeft /\ plan.on \subseteq Dexes /\ plan.launches \subseteq Launches
         /\ WatchTypes /\ AlertTypes /\ items \subseteq PoolEvent
         /\ tokens \in [Mints -> {"none", "PUMPFUN", "other"}]
         /\ Idle \in Nat \ {0} /\ Quiet \in Nat \ {0} /\ Len(Sources) \in Nat
<1>1. plan \in PoolPlanLeft /\ plan.on \subseteq Dexes /\ plan.launches \subseteq Launches
  BY DEF PoolsInv, PoolTypes, PoolPlanLeft
<1>2. WatchTypes
  BY DEF PoolsInv, PoolTypes, WatchTypes
<1>3. AlertTypes /\ items \subseteq PoolEvent /\ tokens \in [Mints -> {"none", "PUMPFUN", "other"}]
  BY DEF PoolsInv, PoolTypes, AlertTypes
<1>4. Idle \in Nat \ {0} /\ Quiet \in Nat \ {0} /\ Len(Sources) \in Nat
  BY MonitorsAssumption DEF MonitorsAssumption
<1> QED
  BY <1>1, <1>2, <1>3, <1>4

\* Traffic ends a silence: the page for it is spent.
LEMMA HeardKeeps ==
  ASSUME PoolsInv, NEW d \in Dexes, Heard(d), UNCHANGED check
  PROVE  /\ AlertTypes' /\ AlertsSound'
         /\ idle' \in [Dexes -> 0 .. Idle] /\ \A x \in Dexes : idle'[x] \in {0, idle[x]}
<1>1. AlertTypes /\ WatchTypes /\ Idle \in Nat /\ Quiet \in Nat
  BY PoolTypesAre
<1>2. AlertTypes'
  BY <1>1 DEF AlertTypes, Heard
<1>3. AlertsSound'
  BY <1>1 DEF PoolsInv, AlertsSound, AlertTypes, Heard
<1>4. idle' \in [Dexes -> 0 .. Idle] /\ \A x \in Dexes : idle'[x] \in {0, idle[x]}
  BY <1>1 DEF WatchTypes, Heard
<1> QED
  BY <1>2, <1>3, <1>4

LEMMA NodeKeeps ==
  ASSUME PoolsInv, NEW d \in Dexes, Drop(d) \/ Stall(d) \/ Resume(d) \/ Traffic(d)
  PROVE  PoolsInv'
<1>1. /\ plan \in PoolPlanLeft /\ WatchTypes
  BY PoolTypesAre
<1>2. CASE Drop(d)
  <2>1. plan' \in PoolPlanLeft /\ plan'.on = plan.on
    BY <1>1, <1>2, PoolSpent DEF Drop
  <2>2. alive' \in [Dexes -> SUBSET Nat] /\ \A x \in Dexes : alive'[x] \subseteq alive[x]
    BY <1>1, <1>2 DEF Drop, WatchTypes
  <2>3. WatchTypes' /\ MonitorsSound'
    BY <1>1, <1>2, <2>1, <2>2, MonitorsStand DEF Drop, WatchTypes
  <2> QED
    BY <1>2, <2>1, <2>3, AlertsStand, PoolEventsStand, PoolsHold DEF Drop
<1>3. CASE Stall(d)
  <2>1. plan' \in PoolPlanLeft /\ plan'.on = plan.on
    BY <1>1, <1>3, PoolSpent DEF Stall
  <2>2. WatchTypes' /\ MonitorsSound'
    BY <1>1, <1>3, <2>1, MonitorsStand DEF Stall, WatchTypes
  <2> QED
    BY <1>3, <2>1, <2>2, AlertsStand, PoolEventsStand, PoolsHold DEF Stall
<1>4. CASE Resume(d)
  <2>1. WatchTypes' /\ MonitorsSound'
    BY <1>1, <1>4, MonitorsStand DEF Resume, WatchTypes
  <2> QED
    BY <1>1, <1>4, <2>1, AlertsStand, PoolEventsStand, PoolsHold DEF Resume
<1>5. CASE Traffic(d)
  <2>1. /\ AlertTypes' /\ AlertsSound'
        /\ idle' \in [Dexes -> 0 .. Idle] /\ \A x \in Dexes : idle'[x] \in {0, idle[x]}
    BY <1>5, HeardKeeps DEF Traffic
  <2>2. WatchTypes' /\ MonitorsSound'
    BY <1>1, <1>5, <2>1, MonitorsStand DEF Traffic, WatchTypes, feed
  <2> QED
    BY <1>1, <1>5, <2>1, <2>2, PoolEventsStand, PoolsHold DEF Traffic
<1> QED
  BY <1>2, <1>3, <1>4, <1>5

LEMMA TimeKeeps == ASSUME PoolsInv, TimePasses PROVE PoolsInv'
<1>1. /\ plan \in PoolPlanLeft /\ WatchTypes /\ AlertTypes /\ Idle \in Nat /\ Quiet \in Nat
  BY PoolTypesAre
<1>2. idle' \in [Dexes -> 0 .. Idle] /\ \A d \in Dexes : d \in plan.on \/ idle'[d] = idle[d]
  <2>1. ASSUME NEW d \in Dexes PROVE idle'[d] \in 0 .. Idle /\ (d \in plan.on \/ idle'[d] = idle[d])
    BY <1>1 DEF TimePasses, WatchTypes
  <2> QED
    BY <2>1 DEF TimePasses
<1>3. WatchTypes' /\ MonitorsSound'
  BY <1>1, <1>2, MonitorsStand DEF TimePasses, WatchTypes, feed
<1>4. AlertTypes'
  <2>1. ASSUME NEW d \in Watched PROVE seen'[d] \in 0 .. Quiet + 1
    BY <1>1 DEF TimePasses, AlertTypes
  <2> QED
    BY <1>1, <2>1 DEF TimePasses, AlertTypes, health
<1>5. AlertsSound'
  BY DEF PoolsInv, TimePasses, AlertsSound, health
<1> QED
  BY <1>1, <1>3, <1>4, <1>5, PoolEventsStand, PoolsHold DEF TimePasses

\* What a step of a monitor's watchdog or stop changes: the others stand.
LEMMA OtherMonitorsStand ==
  ASSUME PoolsInv, NEW d \in Dexes, UNCHANGED plan,
         \A x \in Dexes \ {d} :
           /\ sub'[x] = sub[x] /\ made'[x] = made[x] /\ alive'[x] = alive[x] /\ idle'[x] = idle[x]
           /\ restart'[x] = restart[x] /\ quit'[x] = quit[x],
         MonitorSound(d)'
  PROVE  MonitorsSound'
<1>1. ASSUME NEW x \in Dexes, x # d PROVE MonitorSound(x)'
  BY <1>1 DEF PoolsInv, MonitorsSound, MonitorSound
<1> QED
  BY <1>1 DEF MonitorsSound

LEMMA WatchdogKeeps ==
  ASSUME PoolsInv, NEW d \in Dexes, CheckAlive(d) \/ Restarted(d) \/ RestartFails(d)
  PROVE  PoolsInv'
<1>1. /\ plan \in PoolPlanLeft /\ WatchTypes /\ AlertTypes /\ Idle \in Nat \ {0} /\ MonitorSound(d)
  BY PoolTypesAre DEF PoolsInv, MonitorsSound
<1>2. /\ sub[d] \in Nat /\ made[d] \in Nat /\ alive[d] \subseteq Nat
      /\ restart[d] \in [at : {"no", "removing", "hung"}, id : Nat]
  BY <1>1 DEF WatchTypes
<1>3. CASE CheckAlive(d)
  <2>1. WatchTypes'
    BY <1>1, <1>3 DEF CheckAlive, WatchTypes, feed
  <2>2. restart'[d].at = "removing" /\ restart'[d].id = sub[d]
    BY <1>1, <1>3 DEF CheckAlive, WatchTypes
  <2>3. d \in plan.on
    BY <1>1, <1>3 DEF CheckAlive, MonitorSound
  <2>4. MonitorSound(d)'
    BY <1>1, <1>3, <2>2, <2>3 DEF CheckAlive, MonitorSound, feed
  <2>5. MonitorsSound'
    BY <1>1, <1>3, <2>4, OtherMonitorsStand DEF CheckAlive, WatchTypes, feed
  <2> QED
    BY <1>1, <1>3, <2>1, <2>5, AlertsStand, PoolEventsStand, PoolsHold DEF CheckAlive
<1>4. CASE Restarted(d)
  <2>1. WatchTypes'
    BY <1>1, <1>2, <1>4 DEF Restarted, Subscribes, WatchTypes
  <2>2. /\ made'[d] = made[d] + 1 /\ sub'[d] = made[d] + 1 /\ idle'[d] = 0 /\ restart'[d].at = "no"
        /\ alive'[d] = (alive[d] \ {restart[d].id}) \cup {made[d] + 1}
        /\ quit'[d] = quit[d] /\ plan' = plan /\ restart[d].at = "removing"
    BY <1>1, <1>4 DEF Restarted, Subscribes, WatchTypes
  <2>3. MonitorSound(d)'
    <3>1. alive'[d] \subseteq 1 .. made'[d] /\ sub'[d] <= made'[d]
      BY <1>1, <1>2, <2>2 DEF MonitorSound
    <3>2. d \in plan.on
      BY <1>1, <2>2 DEF MonitorSound
    <3>3. quit[d].at = "no" => alive'[d] \subseteq {sub'[d]}
      BY <1>1, <2>2 DEF MonitorSound
    <3>4. quit[d].at \in {"removing", "done"} => quit[d].raced
      BY <1>1, <2>2 DEF MonitorSound, WatchTypes
    <3> QED
      BY <2>2, <3>1, <3>2, <3>3, <3>4 DEF MonitorSound
  <2>4. MonitorsSound'
    BY <1>1, <1>4, <2>3, OtherMonitorsStand DEF Restarted, Subscribes, WatchTypes
  <2> QED
    BY <1>1, <1>4, <2>1, <2>4, AlertsStand, PoolEventsStand, PoolsHold DEF Restarted
<1>5. CASE RestartFails(d)
  <2>1. plan' \in PoolPlanLeft /\ plan'.on = plan.on
    BY <1>1, <1>5, PoolSpent DEF RestartFails
  <2>2. PICK to \in {"no", "hung"} : restart' = [restart EXCEPT ![d].at = to]
    BY <1>5 DEF RestartFails
  <2>3. idle' \in [Dexes -> 0 .. Idle] /\ \A x \in Dexes : idle'[x] \in {0, idle[x]}
    BY <1>1, <1>5 DEF RestartFails, WatchTypes
  <2>4. WatchTypes'
    BY <1>1, <1>2, <1>5, <2>2, <2>3 DEF RestartFails, WatchTypes, feed
  <2>5. ASSUME NEW x \in Dexes PROVE MonitorSound(x)'
    <3>1. MonitorSound(x) /\ idle'[x] \in {0, idle[x]}
      BY <2>3 DEF PoolsInv, MonitorsSound
    <3>2. /\ restart'[x].at = restart[x].at \/ (x = d /\ restart[x].at = "removing" /\ restart'[x].at # "removing")
          /\ restart'[x].id = restart[x].id
      BY <1>1, <1>5, <2>2 DEF RestartFails, WatchTypes
    <3> QED
      BY <1>5, <2>1, <3>1, <3>2 DEF RestartFails, MonitorSound, feed
  <2> QED
    BY <1>1, <1>5, <2>1, <2>4, <2>5, AlertsStand, PoolEventsStand, PoolsHold DEF RestartFails, MonitorsSound
<1> QED
  BY <1>3, <1>4, <1>5

LEMMA StopKeeps ==
  ASSUME PoolsInv, StopAll \/ \E d \in Dexes : Stopped(d)
  PROVE  PoolsInv'
<1>1. /\ plan \in PoolPlanLeft /\ WatchTypes /\ AlertTypes /\ Idle \in Nat \ {0}
  BY PoolTypesAre
<1>2. CASE StopAll
  <2>1. plan' \in PoolPlanLeft /\ plan'.on = plan.on
    BY <1>1, <1>2, PoolSpent DEF StopAll
  <2>2. WatchTypes'
    BY <1>1, <1>2 DEF StopAll, WatchTypes, feed
  <2>3. ASSUME NEW d \in Dexes PROVE MonitorSound(d)'
    <3>1. MonitorSound(d) /\ quit[d].at = "no" /\ alive[d] \subseteq 1 .. made[d] /\ alive[d] \subseteq {sub[d]}
      BY <1>2 DEF StopAll, Running, PoolsInv, MonitorsSound, MonitorSound
    <3>2. quit'[d] = [at |-> IF d \in plan.on THEN "removing" ELSE "done", id |-> sub[d],
                      raced |-> restart[d].at # "no"]
      BY <1>2 DEF StopAll
    <3>3. CASE d \in plan.on
      BY <1>2, <2>1, <3>1, <3>2, <3>3 DEF StopAll, MonitorSound, feed
    <3>4. CASE d \notin plan.on
      <4>1. made[d] = 0 /\ alive[d] = {} /\ sub[d] = 0 /\ restart[d].at = "no"
        BY <1>1, <3>1, <3>4 DEF MonitorSound, WatchTypes
      <4> QED
        BY <1>2, <2>1, <3>1, <3>2, <3>4, <4>1 DEF StopAll, MonitorSound, feed
    <3> QED
      BY <3>3, <3>4
  <2> QED
    BY <1>1, <1>2, <2>1, <2>2, <2>3, AlertsStand, PoolEventsStand, PoolsHold DEF StopAll, MonitorsSound
<1>3. ASSUME NEW d \in Dexes, Stopped(d) PROVE PoolsInv'
  <2>1. WatchTypes'
    <3>1. PICK Q : Q = [at : {"no", "removing", "done"}, id : Nat, raced : BOOLEAN]
      OBVIOUS
    <3>2. quit \in [Dexes -> Q] /\ [quit[d] EXCEPT !.at = "done"] \in Q
      BY <1>1, <3>1 DEF WatchTypes
    <3>3. quit' = [quit EXCEPT ![d] = [quit[d] EXCEPT !.at = "done"]]
      BY <1>3 DEF Stopped
    <3>4. quit' \in [Dexes -> Q]
      BY <3>2, <3>3
    <3>5. sub' \in [Dexes -> Nat] /\ alive' \in [Dexes -> SUBSET Nat]
      BY <1>1, <1>3 DEF Stopped, WatchTypes
    <3> QED
      BY <1>1, <1>3, <3>1, <3>4, <3>5 DEF Stopped, WatchTypes
  <2>2. /\ quit[d].at = "removing" /\ quit'[d] = [quit[d] EXCEPT !.at = "done"] /\ sub'[d] = 0
        /\ alive'[d] = alive[d] \ {quit[d].id} /\ MonitorSound(d)
        /\ quit[d] \in [at : {"no", "removing", "done"}, id : Nat, raced : BOOLEAN]
    BY <1>1, <1>3 DEF Stopped, WatchTypes, PoolsInv, MonitorsSound
  <2>3. made[d] \in Nat /\ quit'[d].at = "done" /\ quit'[d].raced = quit[d].raced
    BY <1>1, <2>2 DEF WatchTypes
  <2>4. MonitorSound(d)'
    BY <1>3, <2>2, <2>3 DEF Stopped, MonitorSound
  <2>5. MonitorsSound'
    BY <1>1, <1>3, <2>4, OtherMonitorsStand DEF Stopped, WatchTypes
  <2> QED
    BY <1>1, <1>3, <2>1, <2>5, AlertsStand, PoolEventsStand, PoolsHold DEF Stopped
<1> QED
  BY <1>2, <1>3

LEMMA CheckKeeps ==
  ASSUME PoolsInv, NEW k \in Checks, Look(k) \/ Sent(k)
  PROVE  PoolsInv'
<1>1. /\ plan \in PoolPlanLeft /\ WatchTypes /\ AlertTypes /\ Quiet \in Nat /\ Len(Sources) \in Nat
  BY PoolTypesAre
<1>2. check[k] \in [done : 0 .. Len(Sources), sending : BOOLEAN]
  BY <1>1 DEF AlertTypes
<1>3. CASE Look(k)
  <2> DEFINE d == Sources[check[k].done + 1]
             alert == seen[d] > Quiet /\ d \notin alerted
             next == (check[k].done + 1) % Len(Sources)
  <2>1. check[k].done < Len(Sources)
    <3>1. CASE check[k].done > 0
      BY <1>2, <3>1 DEF PoolsInv, AlertsSound
    <3>2. CASE check[k].done = 0
      <4>1. Watched # {}
        BY <1>2, <1>3, <3>2 DEF Look
      <4> QED
        BY <1>1, <3>2, <4>1, MonitorsAssumption DEF Watched, MonitorsAssumption
    <3> QED
      BY <1>2, <3>1, <3>2
  <2>2. d \in Watched
    BY <1>1, <1>2, <2>1, WatchedDexes
  <2>3. next \in 0 .. Len(Sources) - 1
    BY <1>1, <1>2, <2>1
  <2>4. /\ alerted' = IF alert THEN alerted \cup {d} ELSE alerted
        /\ pages' = IF alert THEN [pages EXCEPT ![d] = @ + 1] ELSE pages
        /\ check' = [check EXCEPT ![k] = [done |-> next, sending |-> alert]]
        /\ UNCHANGED <<plan, feed, watch, idle, seen, events>>
    BY <1>3 DEF Look
  <2> HIDE DEF d, alert, next
  <2>5. AlertTypes'
    <3>1. check' \in [Checks -> [done : 0 .. Len(Sources), sending : BOOLEAN]]
      <4>1. next \in 0 .. Len(Sources) /\ alert \in BOOLEAN
        BY <1>1, <2>3 DEF alert
      <4> QED
        BY <1>1, <2>4, <4>1 DEF AlertTypes
    <3> QED
      BY <1>1, <2>2, <2>4, <3>1 DEF AlertTypes
  <2>6. AlertsSound'
    <3>1. ASSUME NEW x \in Watched PROVE pages'[x] <= 1 /\ (x \notin alerted' => pages'[x] = 0)
      BY <1>1, <2>2, <2>4 DEF PoolsInv, AlertsSound, AlertTypes, alert
    <3>2. ASSUME NEW j \in Checks PROVE check'[j].done = 0 \/ check'[j].done < Len(Sources)
      BY <1>1, <2>3, <2>4 DEF PoolsInv, AlertsSound, AlertTypes
    <3> QED
      BY <3>1, <3>2 DEF AlertsSound
  <2>7. WatchTypes' /\ MonitorsSound'
    BY <1>1, <2>4, MonitorsStand DEF WatchTypes, feed
  <2> QED
    BY <1>1, <2>4, <2>5, <2>6, <2>7, PoolEventsStand, PoolsHold
<1>4. CASE Sent(k)
  <2>1. AlertTypes' /\ AlertsSound'
    BY <1>1, <1>2, <1>4 DEF Sent, PoolsInv, AlertTypes, AlertsSound
  <2>2. WatchTypes' /\ MonitorsSound'
    BY <1>1, <1>4, MonitorsStand DEF Sent, WatchTypes, feed
  <2> QED
    BY <1>1, <1>4, <2>1, <2>2, PoolEventsStand, PoolsHold DEF Sent
<1> QED
  BY <1>3, <1>4

LEMMA LoggedKeeps ==
  ASSUME PoolsInv, NEW l \in plan.launches, Logged(l)
  PROVE  PoolsInv'
<1>1. /\ plan \in PoolPlanLeft /\ WatchTypes /\ AlertTypes /\ items \subseteq PoolEvent /\ l \in Launches
      /\ tokens \in [Mints -> {"none", "PUMPFUN", "other"}]
  BY PoolTypesAre
<1>2. plan' \in PoolPlanLeft /\ plan'.on = plan.on
  BY <1>1 DEF Logged, PoolPlanLeft
<1>3. l.dex \in Dexes
  BY <1>1, LaunchIsACreation
<1>4. /\ AlertTypes' /\ AlertsSound'
      /\ idle' \in [Dexes -> 0 .. Idle] /\ \A x \in Dexes : idle'[x] \in {0, idle[x]}
  <2>1. CASE Hears(l.dex)
    BY <1>3, <2>1, HeardKeeps DEF Logged
  <2>2. CASE ~Hears(l.dex)
    BY <1>1, <2>2, AlertsStand DEF Logged, WatchTypes, health
  <2> QED
    BY <2>1, <2>2
<1>5. WatchTypes' /\ MonitorsSound'
  BY <1>1, <1>2, <1>4, MonitorsStand DEF Logged, WatchTypes, feed
<1>6. items' \subseteq PoolEvent
  <2>1. [of |-> l, at |-> "queued", known |-> "none"] \in PoolEvent
    BY <1>1 DEF PoolEvent
  <2> QED
    BY <1>1, <2>1 DEF Logged
<1>7. HandedSound' /\ LossHasCause'
  BY DEF PoolsInv, HandedSound, LossHasCause, Logged
<1> QED
  BY <1>1, <1>2, <1>4, <1>5, <1>6, <1>7, PoolsHold DEF Logged

\* A step of an event leaves the monitors and the alerts alone.
LEMMA EventKeeps ==
  ASSUME PoolsInv, UNCHANGED <<feed, watch, idle, seen, health>>,
         plan' \in PoolPlanLeft, plan'.on = plan.on,
         items' \subseteq PoolEvent, tokens' \in [Mints -> {"none", "PUMPFUN", "other"}],
         HandedSound', LossHasCause'
  PROVE  PoolsInv'
<1>1. WatchTypes
  BY PoolTypesAre
<1>2. WatchTypes' /\ MonitorsSound'
  BY <1>1, MonitorsStand DEF WatchTypes, feed
<1> QED
  BY <1>2, AlertsStand, PoolsHold

LEMMA ProcessKeeps ==
  ASSUME PoolsInv, NEW e \in items, Process(e)
  PROVE  PoolsInv'
<1>1. /\ plan \in PoolPlanLeft /\ items \subseteq PoolEvent /\ tokens \in [Mints -> {"none", "PUMPFUN", "other"}]
      /\ HandedSound /\ LossHasCause
  BY PoolTypesAre DEF PoolsInv
<1>2. e \in PoolEvent /\ e.of \in Launches
  BY <1>1 DEF PoolEvent
<1>3. Base(e.of) \in Mints
  BY <1>2, LaunchIsACreation
<1>4. CASE Resolve(e)
  <2>1. plan' \in PoolPlanLeft /\ plan'.on = plan.on
    BY <1>1, <1>4, PoolSpent DEF Resolve
  <2>2. items' \subseteq PoolEvent
    <3>1. [e EXCEPT !.at = "checking"] \in PoolEvent
      BY <1>2 DEF PoolEvent
    <3> QED
      BY <1>1, <1>4, <3>1 DEF Resolve, Advances, Ends
  <2>3. LossHasCause'
    <3>1. \/ dropped' = dropped
          \/ dropped' = dropped \cup {[of |-> e.of, why |-> "unresolved"]} /\ ~Resolves(e.of)
          \/ dropped' = dropped \cup {[of |-> e.of, why |-> "fault"]}
      BY <1>4 DEF Resolve, Ends
    <3> QED
      BY <1>1, <3>1 DEF LossHasCause, Resolves
  <2>4. HandedSound'
    BY <1>1, <1>4 DEF Resolve, HandedSound
  <2> QED
    BY <1>1, <1>4, <2>1, <2>2, <2>3, <2>4, EventKeeps DEF Resolve
<1>5. CASE ReadToken(e)
  <2>1. items' \subseteq PoolEvent
    <3>1. [e EXCEPT !.at = "handing", !.known = tokens[Base(e.of)]] \in PoolEvent
      BY <1>1, <1>2, <1>3 DEF PoolEvent
    <3> QED
      BY <1>1, <1>5, <3>1 DEF ReadToken
  <2>2. HandedSound' /\ LossHasCause'
    BY <1>1, <1>5 DEF ReadToken, HandedSound, LossHasCause
  <2> QED
    BY <1>1, <1>5, <2>1, <2>2, EventKeeps DEF ReadToken
<1>6. CASE Hand(e)
  <2>1. items' \subseteq PoolEvent
    BY <1>1, <1>6 DEF Hand
  <2>2. /\ handed' = handed \/ \E where \in {"migration", "pipeline"} : To(e, where)
        /\ \/ tokens' = tokens
           \/ tokens' = [tokens EXCEPT ![Base(e.of)] = IF @ = "none" THEN "other" ELSE @]
    BY <1>6 DEF Hand
  <2>3. tokens' \in [Mints -> {"none", "PUMPFUN", "other"}]
    BY <1>1, <1>3, <2>2
  <2>4. HandedSound'
    BY <1>1, <1>2, <2>2 DEF HandedSound, To
  <2>5. LossHasCause'
    BY <1>1, <1>6 DEF Hand, LossHasCause
  <2> QED
    BY <1>1, <1>6, <2>1, <2>3, <2>4, <2>5, EventKeeps DEF Hand
<1> QED
  BY <1>4, <1>5, <1>6 DEF Process

LEMMA BirthKeeps ==
  ASSUME PoolsInv, NEW m \in Mints, PumpFunLaunch(m)
  PROVE  PoolsInv'
<1>1. /\ plan \in PoolPlanLeft /\ items \subseteq PoolEvent /\ tokens \in [Mints -> {"none", "PUMPFUN", "other"}]
  BY PoolTypesAre
<1>2. plan' \in PoolPlanLeft /\ plan'.on = plan.on
  BY <1>1, PoolSpent DEF PumpFunLaunch
<1>3. tokens' \in [Mints -> {"none", "PUMPFUN", "other"}]
  BY <1>1 DEF PumpFunLaunch
<1>4. HandedSound' /\ LossHasCause'
  BY DEF PoolsInv, PumpFunLaunch, HandedSound, LossHasCause
<1> QED
  BY <1>1, <1>2, <1>3, <1>4, EventKeeps DEF PumpFunLaunch

LEMMA PoolsKept == ASSUME PoolsInv, [PoolsNext]_poolVars PROVE PoolsInv'
<1>1. ASSUME UNCHANGED poolVars PROVE PoolsInv'
  <2>1. /\ plan \in PoolPlanLeft /\ items \subseteq PoolEvent
        /\ tokens \in [Mints -> {"none", "PUMPFUN", "other"}]
    BY PoolTypesAre
  <2> QED
    BY <1>1, <2>1, EventKeeps, PoolEventsStand DEF poolVars, feed, watch, health, events
<1> QED
  BY <1>1, TimeKeeps, StopKeeps, NodeKeeps, WatchdogKeeps, CheckKeeps, LoggedKeeps, ProcessKeeps, BirthKeeps
  DEF PoolsNext, Settled

LEMMA PoolsSay ==
  ASSUME PoolsInv
  PROVE  PoolsTypeOK /\ OneSubscriptionEach /\ QuitIsClean /\ PagedOnce /\ CandidateIsTheToken /\ LossHasCause
<1>1. /\ WatchTypes /\ AlertTypes /\ items \subseteq PoolEvent
      /\ tokens \in [Mints -> {"none", "PUMPFUN", "other"}]
  BY PoolTypesAre
<1>2. PoolsTypeOK
  <2>1. \A d \in Dexes : sub[d] \in 0 .. made[d] /\ alive[d] \subseteq 1 .. made[d]
    BY <1>1 DEF PoolsInv, MonitorsSound, MonitorSound, WatchTypes
  <2>2. \A d \in Dexes : restart[d].at \in {"no", "removing", "hung"} /\ quit[d].at \in {"no", "removing", "done"}
    BY <1>1 DEF WatchTypes
  <2>3. \A e \in items : e.at \in {"queued", "checking", "handing"}
    BY <1>1 DEF PoolEvent
  <2> QED
    BY <1>1, <2>1, <2>2, <2>3 DEF PoolsTypeOK, WatchTypes, AlertTypes
<1>3. OneSubscriptionEach
  <2> SUFFICES ASSUME Running, NEW d \in Dexes PROVE Cardinality(alive[d]) <= 1
    BY DEF OneSubscriptionEach
  <2>1. alive[d] \subseteq {sub[d]}
    BY DEF Running, PoolsInv, MonitorsSound, MonitorSound
  <2>2. alive[d] = {} \/ alive[d] = {sub[d]}
    BY <2>1
  <2>3. CASE alive[d] = {}
    <3>1. Cardinality(alive[d]) = 0
      BY <2>3, FS_EmptySet
    <3> QED
      BY <3>1
  <2>4. CASE alive[d] = {sub[d]}
    <3>1. Cardinality(alive[d]) = 1
      BY <2>4, FS_Singleton
    <3> QED
      BY <3>1
  <2> QED
    BY <2>2, <2>3, <2>4
<1>4. QuitIsClean
  BY DEF QuitIsClean, PoolsInv, MonitorsSound, MonitorSound
<1>5. PagedOnce
  BY DEF PagedOnce, PoolsInv, AlertsSound
<1>6. CandidateIsTheToken
  BY BaseIsTheToken DEF CandidateIsTheToken, PoolsInv, HandedSound
<1> QED
  BY <1>2, <1>3, <1>4, <1>5, <1>6 DEF PoolsInv

\* Only a step that hands an event on adds to what was handed on or takes an
\* event that is being handed on.
LEMMA OnlyHandHands ==
  ASSUME PoolsInv, [PoolsNext]_poolVars, handed' # handed \/ \E e \in items \ items' : e.at = "handing"
  PROVE  \E e \in items : Hand(e)
<1> SUFFICES ASSUME ~\E e \in items : Hand(e)
             PROVE  handed' = handed /\ \A e \in items \ items' : e.at # "handing"
  OBVIOUS
<1>1. ASSUME NEW e \in items, Resolve(e) \/ ReadToken(e)
      PROVE  handed' = handed /\ \A x \in items \ items' : x.at # "handing"
  BY <1>1 DEF Resolve, ReadToken, Advances, Ends
<1>2. ASSUME NEW l \in plan.launches, Logged(l)
      PROVE  handed' = handed /\ \A x \in items \ items' : x.at # "handing"
  BY <1>2 DEF Logged
<1>3. ASSUME NEW m \in Mints, PumpFunLaunch(m)
      PROVE  handed' = handed /\ items' = items
  BY <1>3 DEF PumpFunLaunch
<1>4. ASSUME NEW k \in Checks, Look(k) \/ Sent(k)
      PROVE  handed' = handed /\ items' = items
  BY <1>4 DEF Look, Sent, events
<1>5. ASSUME NEW d \in Dexes,
             Drop(d) \/ Stall(d) \/ Resume(d) \/ Traffic(d) \/ CheckAlive(d) \/ RestartFails(d) \/ Settled(d)
      PROVE  handed' = handed /\ items' = items
  BY <1>5 DEF Drop, Stall, Resume, Traffic, CheckAlive, RestartFails, Settled, Restarted, Stopped, events
<1>6. ASSUME TimePasses \/ StopAll \/ UNCHANGED poolVars
      PROVE  handed' = handed /\ items' = items
  BY <1>6 DEF TimePasses, StopAll, events, poolVars
<1> QED
  BY <1>1, <1>2, <1>3, <1>4, <1>5, <1>6 DEF PoolsNext, Process

\* A second candidate of a mint comes of an event that was looked up before the
\* first one's row was written.
LEMMA CandidateStep ==
  ASSUME PoolsInv, [PoolsNext]_poolVars, NEW h \in handed' \ handed, h.to = "pipeline"
  PROVE  \E e \in items \ items' : e.of = h.of /\ e.known = "none"
<1>1. PICK e \in items : Hand(e)
  BY OnlyHandHands
<1>2. e.known \in {"none", "PUMPFUN", "other"}
  BY PoolTypesAre DEF PoolEvent
<1>3. /\ items' = items \ {e} /\ h.of = e.of
      /\ e.known # "PUMPFUN" /\ e.known # "other"
  BY <1>1 DEF Hand, To
<1> QED
  BY <1>2, <1>3

LEMMA MigrationStep ==
  ASSUME PoolsInv, [PoolsNext]_poolVars, NEW e \in items \ items', e.at = "handing", e.known = "PUMPFUN"
  PROVE  [of |-> e.of, mint |-> Base(e.of), to |-> "migration"] \in handed'
<1>1. PICK x \in items : Hand(x)
  BY OnlyHandHands
<1>2. x = e
  BY <1>1 DEF Hand
<1> QED
  BY <1>1, <1>2 DEF Hand, To

\* One subscription per DEX, a stop that leaves none, one page per silence; and
\* of every pool its token, once and to the right reader (dex/*.ts,
\* monitorWatchdog.ts, sourceHealthMonitor.ts, registry.ts).
THEOREM PoolsSound == PoolsSpec => PoolsAreSound
<1>1. PoolsInit => PoolsInv
  BY PoolsBegin
<1>2. PoolsInv /\ [PoolsNext]_poolVars => PoolsInv'
  BY PoolsKept
<1>3. PoolsInv => PoolsTypeOK /\ OneSubscriptionEach /\ QuitIsClean /\ PagedOnce /\ CandidateIsTheToken /\ LossHasCause
  BY PoolsSay
<1>4. PoolsInv /\ [PoolsNext]_poolVars =>
        \A h \in handed' \ handed :
           h.to = "pipeline" /\ (\E g \in handed : g.mint = h.mint /\ g.to = "pipeline") =>
               \E e \in items \ items' : e.of = h.of /\ e.known = "none"
  BY CandidateStep
<1>5. PoolsInv /\ [PoolsNext]_poolVars =>
        \A e \in items \ items' : e.at = "handing" /\ e.known = "PUMPFUN" =>
           [of |-> e.of, mint |-> Base(e.of), to |-> "migration"] \in handed'
  BY MigrationStep
<1> QED
  BY <1>1, <1>2, <1>3, <1>4, <1>5, PTL DEF PoolsSpec, PoolsAreSound, CandidateOnce, MigrationIsTold

\* --- The trackers -------------------------------------------------------------

OnChainTrade == [who : Wallet, side : {"buy", "exit", "part"}, sol : BOOLEAN]
EntryRow == [status : {"none", "OPEN", "EXITED", "EXPIRED", "RUG_FLAGGED"}, exit : Sig \cup {NoSig}, rug : BOOLEAN]
SamplerTick == [at : {"idle", "row", "exit", "pair", "mark"}, todo : SUBSET Sig,
                row : Sig \cup {NoSig}, expired : SUBSET Sig, sell : Sig \cup {NoSig}, rug : BOOLEAN]

TrackState ==
    /\ txs \in Seq(OnChainTrade) /\ Len(txs) <= MaxTrades
    /\ holds \in [Wallet -> Nat] /\ (\A w \in Wallet : holds[w] <= Len(txs))
    /\ pooled \in BOOLEAN /\ aged \subseteq Sig /\ claimed \in BOOLEAN
    /\ entries \in [Sig -> EntryRow]
    /\ unread \in [Wallet -> 0 .. 2] /\ read \in [Wallet -> SUBSET (0 .. MaxTrades)]
    /\ score \in [Wallet -> 0 .. MaxTrades]
    /\ ticks \in [Sampler -> SamplerTick]
    /\ log \in [at : [1 .. Offsets -> 0 .. Offsets], done : BOOLEAN, rug : BOOLEAN] /\ passed \in 0 .. Offsets
    /\ logTicks \in [Sampler -> [at : {"idle", "write"}, due : SUBSET (1 .. Offsets), rug : BOOLEAN, priced : BOOLEAN]]
    /\ budget \in [trades : Nat, timeouts : Nat, faults : Nat, scans : Nat, log : BOOLEAN]
    /\ overlapped \in BOOLEAN /\ raced \in BOOLEAN /\ causes \subseteq {"died", "timeout"}

\* Sale e ends the entry of buy s.
SaleEnds(e, s) == /\ e \in DOMAIN txs /\ s \in DOMAIN txs /\ e > s /\ txs[e].who = txs[s].who
              /\ txs[e].side = "exit" /\ txs[e].sol

\* An entry is of a buy on the chain, and an exited one of a sale that ends it.
RowsSound ==
    \A s \in Sig : /\ entries[s].status # "none" => s \in DOMAIN txs
                   /\ entries[s].status = "EXITED" => SaleEnds(entries[s].exit, s)

\* A tick is at one of the rows it read, with the sale it found.
TickSound(t) ==
    /\ ticks[t].at # "idle" => ticks[t].row \in ticks[t].todo
    /\ \A s \in ticks[t].todo : entries[s].status # "none"
    /\ ticks[t].at = "exit" => SaleEnds(ticks[t].sell, ticks[t].row)
TicksSound == \A t \in Sampler : TickSound(t)

\* Nothing looks dead without a cause.
DeadForCause ==
    causes = {} => /\ pooled
                   /\ \A t \in Sampler : ~ ticks[t].rug
                   /\ \A s \in Sig : entries[s].status # "RUG_FLAGGED"

\* Until two ticks run at once, the rows a tick read are as it read them.
OneTick ==
    ~ overlapped =>
        /\ \A t, u \in Sampler : ticks[t].at # "idle" /\ ticks[u].at # "idle" => t = u
        /\ \A t \in Sampler : ticks[t].at # "idle" => ticks[t].todo \subseteq OpenRows

OneLogTick ==
    ~ overlapped =>
        /\ \A t, u \in Sampler : logTicks[t].at # "idle" /\ logTicks[u].at # "idle" => t = u
        /\ \A t \in Sampler, o \in 1 .. Offsets :
              logTicks[t].at # "idle" /\ o \in logTicks[t].due => log.at[o] = NoSig

\* What is due has passed, and what was sampled was due.
DueHasPassed ==
    /\ \A t \in Sampler, o \in 1 .. Offsets : o \in logTicks[t].due => o <= passed
    /\ NeverEarly

\* A count was taken when the exits were those of now and the resolved rows no more.
ExitedOf(w) == {s \in OfWallet(w) : entries[s].status = "EXITED"}
Fits(w, n) == Cardinality(ExitedOf(w)) <= n /\ n <= Cardinality(OfWallet(w))
CountsFit ==
    ~ raced /\ ~ overlapped =>
        \A w \in Wallet : /\ \A n \in read[w] : Fits(w, n)
                          /\ unread[w] = 0 /\ read[w] = {} => Fits(w, score[w])

TrackInv == TrackState /\ RowsSound /\ TicksSound /\ DeadForCause /\ OneTick /\ OneLogTick /\ DueHasPassed /\ CountsFit

LEMMA TrackFacts ==
  ASSUME TrackState
  PROVE  /\ Lookback \in Nat \ {0} /\ Offsets \in Nat \ {0}
         /\ DOMAIN txs = 1 .. Len(txs) /\ Len(txs) \in Nat /\ DOMAIN txs \subseteq Sig /\ Sig = 1 .. 4
         /\ \A i \in DOMAIN txs : /\ txs[i] \in OnChainTrade /\ txs[i].who \in Wallet
                                  /\ txs[i].side \in {"buy", "exit", "part"} /\ txs[i].sol \in BOOLEAN
         /\ \A s \in Sig : /\ entries[s] \in EntryRow /\ entries[s].exit \in Sig \cup {NoSig} /\ entries[s].rug \in BOOLEAN
                           /\ entries[s].status \in {"none", "OPEN", "EXITED", "EXPIRED", "RUG_FLAGGED"}
         /\ \A t \in Sampler : /\ ticks[t] \in SamplerTick /\ ticks[t].at \in {"idle", "row", "exit", "pair", "mark"}
                               /\ ticks[t].todo \subseteq Sig /\ ticks[t].row \in Sig \cup {NoSig}
                               /\ ticks[t].expired \subseteq Sig /\ ticks[t].sell \in Sig \cup {NoSig}
                               /\ ticks[t].rug \in BOOLEAN
<1>1. Lookback \in Nat \ {0} /\ Offsets \in Nat \ {0}
  BY TrackingAssumption DEF TrackingAssumption
<1>2. Sig = 1 .. 4
  BY DEF Sig, MaxTrades
<1>3. DOMAIN txs = 1 .. Len(txs) /\ Len(txs) \in Nat /\ DOMAIN txs \subseteq Sig
  BY <1>2 DEF TrackState, MaxTrades
<1>4. \A i \in DOMAIN txs : txs[i] \in OnChainTrade
  BY <1>3 DEF TrackState
<1>5. \A i \in DOMAIN txs : /\ txs[i].who \in Wallet /\ txs[i].side \in {"buy", "exit", "part"} /\ txs[i].sol \in BOOLEAN
  BY <1>4 DEF OnChainTrade
<1>6. \A s \in Sig : /\ entries[s] \in EntryRow /\ entries[s].exit \in Sig \cup {NoSig} /\ entries[s].rug \in BOOLEAN
                     /\ entries[s].status \in {"none", "OPEN", "EXITED", "EXPIRED", "RUG_FLAGGED"}
  BY DEF TrackState, EntryRow
<1>7. \A t \in Sampler : ticks[t] \in SamplerTick
  BY DEF TrackState
<1>8. \A t \in Sampler : /\ ticks[t].at \in {"idle", "row", "exit", "pair", "mark"}
                         /\ ticks[t].todo \subseteq Sig /\ ticks[t].row \in Sig \cup {NoSig}
                         /\ ticks[t].expired \subseteq Sig /\ ticks[t].sell \in Sig \cup {NoSig}
                         /\ ticks[t].rug \in BOOLEAN
  BY <1>7 DEF SamplerTick
<1> QED
  BY <1>1, <1>2, <1>3, <1>4, <1>5, <1>6, <1>7, <1>8

LEMMA SomeFirst ==
  ASSUME NEW S \in SUBSET Sig, S # {}
  PROVE  (CHOOSE s \in S : \A o \in S : s <= o) \in S
<1>1. \E s \in S : \A o \in S : s <= o
  <2>1. S \subseteq {1, 2, 3, 4}
    BY DEF Sig, MaxTrades
  <2>2. CASE 1 \in S
    BY <2>1, <2>2
  <2>3. CASE 1 \notin S /\ 2 \in S
    BY <2>1, <2>3
  <2>4. CASE 1 \notin S /\ 2 \notin S /\ 3 \in S
    BY <2>1, <2>4
  <2>5. CASE 1 \notin S /\ 2 \notin S /\ 3 \notin S
    <3>1. S = {4}
      BY <2>1, <2>5
    <3> QED
      BY <3>1
  <2> QED
    BY <2>2, <2>3, <2>4, <2>5
<1> QED
  BY <1>1

LEMMA SomeLast ==
  ASSUME NEW S \in SUBSET Sig, S # {}
  PROVE  (CHOOSE s \in S : \A o \in S : o <= s) \in S
<1>1. \E s \in S : \A o \in S : o <= s
  <2>1. S \subseteq {1, 2, 3, 4}
    BY DEF Sig, MaxTrades
  <2>2. CASE 4 \in S
    BY <2>1, <2>2
  <2>3. CASE 4 \notin S /\ 3 \in S
    BY <2>1, <2>3
  <2>4. CASE 4 \notin S /\ 3 \notin S /\ 2 \in S
    BY <2>1, <2>4
  <2>5. CASE 4 \notin S /\ 3 \notin S /\ 2 \notin S
    <3>1. S = {1}
      BY <2>1, <2>5
    <3> QED
      BY <3>1
  <2> QED
    BY <2>2, <2>3, <2>4, <2>5
<1> QED
  BY <1>1

\* The exited rows are among the resolved ones, and both can be counted.
LEMMA CountsAre ==
  ASSUME NEW w
  PROVE  /\ Cardinality(OfWallet(w)) \in 0 .. MaxTrades /\ Cardinality(ExitedOf(w)) \in Nat
         /\ Fits(w, Cardinality(OfWallet(w)))
<1>1. IsFiniteSet(Sig) /\ Cardinality(Sig) = MaxTrades
  <2>1. MaxTrades \in Int /\ 1 \in Int /\ ~ 1 > MaxTrades /\ MaxTrades - 1 + 1 = MaxTrades
    BY DEF MaxTrades
  <2>2. IsFiniteSet(1 .. MaxTrades) /\ Cardinality(1 .. MaxTrades) = IF 1 > MaxTrades THEN 0 ELSE MaxTrades - 1 + 1
    BY <2>1, FS_Interval
  <2> QED
    BY <2>1, <2>2 DEF Sig
<1>2. OfWallet(w) \subseteq Sig /\ ExitedOf(w) \subseteq OfWallet(w)
  BY DEF OfWallet, ExitedOf
<1>3. IsFiniteSet(OfWallet(w)) /\ Cardinality(OfWallet(w)) <= MaxTrades
  BY <1>1, <1>2, FS_Subset
<1>4. IsFiniteSet(ExitedOf(w)) /\ Cardinality(ExitedOf(w)) <= Cardinality(OfWallet(w))
  BY <1>2, <1>3, FS_Subset
<1>5. Cardinality(OfWallet(w)) \in Nat /\ Cardinality(ExitedOf(w)) \in Nat
  BY <1>3, <1>4, FS_CardinalityType
<1> QED
  BY <1>3, <1>4, <1>5 DEF Fits, MaxTrades

\* The same rows on the same transactions give the same counts.
LEMMA SameCounts ==
  ASSUME UNCHANGED <<txs, entries>>, CountsFit, raced => raced', overlapped => overlapped',
         UNCHANGED <<unread, read, score>>
  PROVE  CountsFit'
<1>1. ASSUME NEW w PROVE OfWallet(w)' = OfWallet(w) /\ ExitedOf(w)' = ExitedOf(w)
  BY DEF OfWallet, ExitedOf, OnChain
<1>2. ASSUME NEW w, NEW n, Fits(w, n) PROVE Fits(w, n)'
  BY <1>1, <1>2 DEF Fits
<1> QED
  BY <1>2 DEF CountsFit

LEMMA SameRows == ASSUME UNCHANGED <<txs, entries>>, RowsSound PROVE RowsSound'
BY DEF RowsSound, SaleEnds

LEMMA SameTicks ==
  ASSUME UNCHANGED <<txs, entries, ticks>>, overlapped => overlapped', TicksSound, OneTick
  PROVE  TicksSound' /\ OneTick'
BY DEF TicksSound, TickSound, OneTick, SaleEnds, OpenRows

LEMMA SameLog ==
  ASSUME UNCHANGED <<log, logTicks, passed>>, overlapped => overlapped', OneLogTick, DueHasPassed
  PROVE  OneLogTick' /\ DueHasPassed'
BY DEF OneLogTick, DueHasPassed, NeverEarly

LEMMA SetIs ==
  ASSUME TrackState, NEW t \in Sampler, NEW tick \in SamplerTick, Set(t, tick)
  PROVE  /\ ticks' \in [Sampler -> SamplerTick] /\ ticks'[t] = tick
         /\ \A u \in Sampler : u # t => ticks'[u] = ticks[u]
BY DEF TrackState, Set

\* The next row of a tick is one of those it has left.
LEMMA NextRowIs ==
  ASSUME TrackState, NEW t \in Sampler
  PROVE  /\ NextRow(t) \in SamplerTick /\ ~ NextRow(t).rug /\ NextRow(t).at \in {"idle", "row"}
         /\ NextRow(t).todo \subseteq ticks[t].todo \ {ticks[t].row}
         /\ NextRow(t).at # "idle" => NextRow(t).row \in NextRow(t).todo
<1> DEFINE rest == ticks[t].todo \ {ticks[t].row}
           first == CHOOSE s \in rest : \A o \in rest : s <= o
<1>1. ticks[t] \in SamplerTick /\ rest \in SUBSET Sig
  BY TrackFacts
<1>2. CASE rest = {}
  BY <1>2 DEF NextRow, IdleSampler, SamplerTick
<1>3. CASE rest # {}
  <2>1. first \in rest
    BY <1>1, <1>3, SomeFirst
  <2>2. NextRow(t) = [ticks[t] EXCEPT !.at = "row", !.todo = rest, !.sell = NoSig, !.rug = FALSE, !.row = first]
    BY <1>3 DEF NextRow
  <2> HIDE DEF first, rest
  <2>3. /\ NextRow(t) \in SamplerTick /\ ~ NextRow(t).rug /\ NextRow(t).at = "row"
        /\ NextRow(t).todo = rest /\ NextRow(t).row = first
    BY <1>1, <2>1, <2>2 DEF SamplerTick
  <2> QED
    BY <2>1, <2>3 DEF rest
<1> QED
  BY <1>2, <1>3

\* What a tick that moves has to keep.
LEMMA TickMoves ==
  ASSUME TrackState, TicksSound, NEW t \in Sampler, NEW tick \in SamplerTick, Set(t, tick), UNCHANGED txs,
         \A s \in Sig : entries[s].status # "none" => entries'[s].status # "none",
         tick.at # "idle" => tick.row \in tick.todo,
         \A s \in tick.todo : entries'[s].status # "none",
         tick.at = "exit" => SaleEnds(tick.sell, tick.row)
  PROVE  TicksSound'
<1>1. /\ ticks'[t] = tick /\ \A u \in Sampler : u # t => ticks'[u] = ticks[u]
  BY SetIs
<1>2. \A e, s : SaleEnds(e, s) => SaleEnds(e, s)'
  BY DEF SaleEnds
<1>3. TickSound(t)'
  BY <1>1, <1>2 DEF TickSound
<1>4. ASSUME NEW u \in Sampler, u # t PROVE TickSound(u)'
  <2>1. ticks'[u] = ticks[u] /\ TickSound(u) /\ ticks[u].todo \subseteq Sig
    BY <1>1, <1>4, TrackFacts DEF TicksSound
  <2> QED
    BY <1>2, <2>1 DEF TickSound
<1> QED
  BY <1>3, <1>4 DEF TicksSound

Bounds == [trades : Nat, timeouts : Nat, faults : Nat, scans : Nat, log : BOOLEAN]

LEMMA UsesIs ==
  ASSUME budget \in Bounds, NEW what \in {"trades", "timeouts", "faults", "scans"}, Uses(what)
  PROVE  budget' \in Bounds
<1>1. budget[what] \in Nat /\ budget[what] > 0
  BY DEF Bounds, Uses
<1> DEFINE less == budget[what] - 1
<1>2. less \in Nat /\ budget' = [budget EXCEPT ![what] = less]
  BY <1>1 DEF Uses
<1> HIDE DEF less
<1> QED
  BY <1>2 DEF Bounds

\* What the chain's trades and the passing of time leave alone.
LEMMA TradeKeeps ==
  ASSUME TrackInv, NEW w \in Wallet, NEW side \in {"buy", "exit", "part"}, NEW sol \in BOOLEAN,
         Trade(w, side, sol), holds' \in [Wallet -> Nat], \A v \in Wallet : holds'[v] <= Len(txs) + 1
  PROVE  TrackInv'
<1> DEFINE trade == [who |-> w, side |-> side, sol |-> sol]
<1>1. /\ txs' = Append(txs, trade) /\ trade \in OnChainTrade /\ Len(txs) < MaxTrades /\ txs \in Seq(OnChainTrade)
      /\ UNCHANGED <<pooled, entries, aged, unread, read, score, claimed, ticks, overlapped, log, logTicks, passed, raced, causes>>
  BY DEF TrackInv, TrackState, Trade, Scores, Sampling, Log, OnChainTrade
<1> HIDE DEF trade
<1>2. /\ txs' \in Seq(OnChainTrade) /\ Len(txs') = Len(txs) + 1 /\ Len(txs) \in Nat
      /\ \A i \in DOMAIN txs : i \in DOMAIN txs' /\ txs'[i] = txs[i]
      /\ \A i \in DOMAIN txs' : i \in DOMAIN txs \/ i = Len(txs) + 1
  BY <1>1
<1>3. budget' \in Bounds
  BY UsesIs DEF TrackInv, TrackState, Trade, Bounds
<1>4. TrackState'
  BY <1>1, <1>2, <1>3 DEF TrackInv, TrackState, MaxTrades, Bounds, NeverEarly
<1>5. \A e, s : SaleEnds(e, s) => SaleEnds(e, s)'
  BY <1>1, <1>2 DEF SaleEnds
<1>6. RowsSound'
  BY <1>1, <1>2, <1>5 DEF TrackInv, RowsSound
<1>7. TicksSound' /\ OneTick'
  BY <1>1, <1>5 DEF TrackInv, TicksSound, TickSound, OneTick, OpenRows
<1>8. DeadForCause'
  BY <1>1 DEF TrackInv, DeadForCause
<1>9. OneLogTick' /\ DueHasPassed'
  BY <1>1, SameLog DEF TrackInv
<1>10. CountsFit'
  <2>1. ASSUME NEW v PROVE OfWallet(v)' = OfWallet(v)
    <3>1. \A s \in Sig : entries[s].status # "none" => s \in DOMAIN txs
      BY DEF TrackInv, RowsSound
    <3> QED
      BY <1>1, <1>2, <3>1 DEF OfWallet, OnChain, Resolved
  <2>2. ASSUME NEW v PROVE ExitedOf(v)' = ExitedOf(v)
    BY <1>1, <2>1 DEF ExitedOf
  <2>3. ASSUME NEW v, NEW n, Fits(v, n) PROVE Fits(v, n)'
    BY <2>1, <2>2, <2>3 DEF Fits
  <2> QED
    BY <1>1, <2>3 DEF TrackInv, CountsFit
<1> QED
  BY <1>4, <1>6, <1>7, <1>8, <1>9, <1>10 DEF TrackInv

LEMMA MarketKeeps ==
  ASSUME TrackInv, NEW w \in Wallet, Buy(w) \/ SellAll(w) \/ SellPart(w)
  PROVE  TrackInv'
<1>1. holds \in [Wallet -> Nat] /\ (\A v \in Wallet : holds[v] <= Len(txs)) /\ Len(txs) \in Nat
  BY TrackFacts DEF TrackInv, TrackState
<1>2. CASE Buy(w)
  <2> DEFINE h == holds[w] + 1
  <2>1. h \in Nat /\ h <= Len(txs) + 1
    BY <1>1, <1>2 DEF Buy
  <2>2. holds' = [holds EXCEPT ![w] = h] /\ Trade(w, "buy", TRUE)
    BY <1>2 DEF Buy
  <2> HIDE DEF h
  <2>3. holds' \in [Wallet -> Nat] /\ (\A v \in Wallet : holds'[v] <= Len(txs) + 1)
    BY <1>1, <2>1, <2>2
  <2> QED
    BY <2>2, <2>3, TradeKeeps
<1>3. CASE SellAll(w)
  <2>1. PICK sol \in BOOLEAN : Trade(w, "exit", sol)
    BY <1>3 DEF SellAll
  <2>2. holds' \in [Wallet -> Nat] /\ (\A v \in Wallet : holds'[v] <= Len(txs) + 1)
    BY <1>1, <1>3 DEF SellAll
  <2> QED
    BY <2>1, <2>2, TradeKeeps
<1>4. CASE SellPart(w)
  <2> DEFINE h == holds[w] - 1
  <2>1. h \in Nat /\ h <= Len(txs) + 1
    BY <1>1, <1>4 DEF SellPart
  <2>2. holds' = [holds EXCEPT ![w] = h] /\ Trade(w, "part", TRUE)
    BY <1>4 DEF SellPart
  <2> HIDE DEF h
  <2>3. holds' \in [Wallet -> Nat] /\ (\A v \in Wallet : holds'[v] <= Len(txs) + 1)
    BY <1>1, <2>1, <2>2
  <2> QED
    BY <2>2, <2>3, TradeKeeps
<1> QED
  BY <1>2, <1>3, <1>4

LEMMA TrackTimeKeeps ==
  ASSUME TrackInv, Rugged \/ (\E s \in Sig : Ages(s)) \/ ClaimExpires \/ Passes
  PROVE  TrackInv'
<1>1. /\ UNCHANGED <<txs, holds, entries, unread, read, score, ticks, overlapped, log, logTicks, raced>>
      /\ causes \subseteq causes' /\ pooled' \in BOOLEAN /\ (pooled' # pooled => causes' # {})
      /\ causes' \subseteq {"died", "timeout"} /\ aged' \subseteq Sig /\ claimed' \in BOOLEAN
  BY DEF TrackInv, TrackState, Rugged, Ages, ClaimExpires, Passes, Chain, Log, Scores, Sampling, Rest
<1>2. budget' \in Bounds
  <2>1. budget' = budget \/ Uses("trades") \/ Uses("scans")
    BY DEF Rugged, Ages, ClaimExpires, Passes, Uses
  <2> QED
    BY <2>1, UsesIs DEF TrackInv, TrackState, Bounds
<1>3. passed' \in 0 .. Offsets /\ passed' >= passed
  <2>1. passed' = passed \/ (passed < Offsets /\ passed' = passed + 1)
    BY DEF Rugged, Ages, ClaimExpires, Passes, Log
  <2> QED
    BY <2>1, TrackFacts DEF TrackInv, TrackState
<1>4. TrackState'
  BY <1>1, <1>2, <1>3 DEF TrackInv, TrackState, Bounds
<1>5. RowsSound' /\ TicksSound' /\ OneTick' /\ CountsFit'
  BY <1>1, SameRows, SameTicks, SameCounts DEF TrackInv
<1>6. DeadForCause'
  BY <1>1 DEF TrackInv, DeadForCause
<1>7. OneLogTick'
  BY <1>1 DEF TrackInv, OneLogTick
<1>8. DueHasPassed'
  <2>1. passed \in Nat /\ passed' \in Nat /\ passed' >= passed
    BY <1>3 DEF TrackInv, TrackState
  <2> QED
    BY <1>1, <2>1, TrackFacts DEF TrackInv, DueHasPassed, NeverEarly
<1> QED
  BY <1>4, <1>5, <1>6, <1>7, <1>8 DEF TrackInv

\* recomputeWalletConfidence's read and its write.
LEMMA RecomputeKeeps ==
  ASSUME TrackInv, NEW w \in Wallet, ReadEntries(w) \/ WriteScore(w)
  PROVE  TrackInv'
<1>1. UNCHANGED <<txs, holds, pooled, causes, entries, aged, claimed, ticks, overlapped, log, logTicks, passed, budget, raced>>
  BY DEF ReadEntries, WriteScore, Chain, Sampling, Log
<1>2. RowsSound' /\ TicksSound' /\ OneTick' /\ OneLogTick' /\ DueHasPassed' /\ DeadForCause'
  BY <1>1, SameRows, SameTicks, SameLog DEF TrackInv, DeadForCause
<1>3. \A v : OfWallet(v)' = OfWallet(v) /\ ExitedOf(v)' = ExitedOf(v)
  BY <1>1 DEF OfWallet, ExitedOf, OnChain
<1>4. \A v, n : Fits(v, n)' <=> Fits(v, n)
  BY <1>3 DEF Fits
<1>5. unread \in [Wallet -> 0 .. 2] /\ read \in [Wallet -> SUBSET (0 .. MaxTrades)] /\ score \in [Wallet -> 0 .. MaxTrades]
  BY DEF TrackInv, TrackState
<1>6. CASE ReadEntries(w)
  <2> DEFINE n == Cardinality(OfWallet(w))
  <2>1. n \in 0 .. MaxTrades /\ Fits(w, n)
    BY CountsAre
  <2>2. /\ unread' = [unread EXCEPT ![w] = @ - 1] /\ unread[w] > 0 /\ read' = [read EXCEPT ![w] = @ \cup {n}]
        /\ score' = score
    BY <1>6 DEF ReadEntries
  <2> HIDE DEF n
  <2>3. unread' \in [Wallet -> 0 .. 2] /\ read' \in [Wallet -> SUBSET (0 .. MaxTrades)]
    BY <1>5, <2>1, <2>2
  <2>4. TrackState'
    BY <1>1, <2>2, <2>3 DEF TrackInv, TrackState
  <2>5. CountsFit'
    BY <1>1, <1>4, <1>5, <2>1, <2>2 DEF TrackInv, CountsFit
  <2> QED
    BY <1>2, <2>4, <2>5 DEF TrackInv
<1>7. CASE WriteScore(w)
  <2>1. PICK n \in read[w] : read' = [read EXCEPT ![w] = @ \ {n}] /\ score' = [score EXCEPT ![w] = n]
    BY <1>7 DEF WriteScore
  <2>2. unread' = unread
    BY <1>7 DEF WriteScore
  <2>3. read' \in [Wallet -> SUBSET (0 .. MaxTrades)] /\ score' \in [Wallet -> 0 .. MaxTrades]
    BY <1>5, <2>1
  <2>4. TrackState'
    BY <1>1, <2>2, <2>3 DEF TrackInv, TrackState
  <2>5. CountsFit'
    BY <1>1, <1>4, <1>5, <2>1, <2>2 DEF TrackInv, CountsFit
  <2> QED
    BY <1>2, <2>4, <2>5 DEF TrackInv
<1> QED
  BY <1>6, <1>7

\* evaluateForToken: entries open for buys that had none, and their wallets' counts are due.
LEMMA ScanKeeps == ASSUME TrackInv, Scan PROVE TrackInv'
<1> USE DEF Recent
<1> DEFINE buyers == {txs[i].who : i \in Buys}
<1>1. /\ UNCHANGED <<txs, holds, pooled, causes, aged, read, score, ticks, overlapped, log, logTicks, passed>>
      /\ claimed' = TRUE
  BY DEF Scan, Chain, Sampling, Log
<1>2. /\ unread' = [v \in Wallet |-> IF v \in buyers THEN unread[v] + 1 ELSE unread[v]]
      /\ \A v \in buyers : unread[v] < 2
      /\ raced' = (raced \/ \E v \in buyers : unread[v] > 0 \/ read[v] # {})
  BY DEF Scan, EvaluateForToken, Recompute
<1> DEFINE OpenedFor(b) == entries' = [s \in Sig |-> IF s \in b /\ entries[s] = Absent THEN Open ELSE entries[s]]
<1>3. PICK begun \in SUBSET Buys : OpenedFor(begun) /\ (budget' = budget \/ Uses("faults"))
  <2>1. \/ budget' = budget /\ OpenedFor(Buys)
        \/ \E skipped \in Buys : Uses("faults") /\ OpenedFor(Buys \ {skipped})
    BY DEF Scan, EvaluateForToken
  <2> HIDE DEF OpenedFor
  <2>2. Buys \in SUBSET Buys /\ \A skipped : Buys \ {skipped} \in SUBSET Buys
    OBVIOUS
  <2> QED
    BY <2>1, <2>2
<1> HIDE DEF buyers
<1>4. budget' \in Bounds
  BY <1>3, UsesIs DEF TrackInv, TrackState, Bounds
<1>5. /\ entries' \in [Sig -> EntryRow]
      /\ \A s \in Sig : \/ entries'[s] = entries[s]
                        \/ entries[s].status = "none" /\ entries'[s].status = "OPEN" /\ s \in DOMAIN txs
  <2>1. Absent.status = "none" /\ Open.status = "OPEN" /\ Open \in EntryRow
    BY DEF Absent, Open, EntryRow
  <2>2. begun \subseteq DOMAIN txs /\ (\A s \in Sig : entries[s] \in EntryRow)
    BY <1>3, TrackFacts DEF Buys, TrackInv
  <2> QED
    BY <1>3, <2>1, <2>2
<1>6. unread' \in [Wallet -> 0 .. 2]
  BY <1>2 DEF TrackInv, TrackState
<1>7. raced' \in BOOLEAN
  BY <1>2 DEF TrackInv, TrackState
<1>8. TrackState'
  BY <1>1, <1>4, <1>5, <1>6, <1>7 DEF TrackInv, TrackState, Bounds
<1>9. RowsSound'
  BY <1>1, <1>5 DEF TrackInv, RowsSound, SaleEnds
<1>10. TicksSound'
  <2>1. \A t \in Sampler : ticks[t].todo \subseteq Sig
    BY TrackFacts DEF TrackInv
  <2> QED
    BY <1>1, <1>5, <2>1 DEF TrackInv, TicksSound, TickSound, SaleEnds
<1>11. DeadForCause'
  BY <1>1, <1>5 DEF TrackInv, DeadForCause
<1>12. OneTick'
  BY <1>1, <1>5 DEF TrackInv, OneTick, OpenRows
<1>13. OneLogTick' /\ DueHasPassed'
  BY <1>1, SameLog DEF TrackInv
<1>14. CountsFit'
  <2>1. \A v : OfWallet(v)' = OfWallet(v) /\ ExitedOf(v)' = ExitedOf(v)
    <3>1. \A v : OfWallet(v)' = OfWallet(v)
      BY <1>1, <1>5 DEF OfWallet, OnChain, Resolved
    <3>2. \A v : OfWallet(v) \subseteq Sig
      BY DEF OfWallet
    <3> QED
      BY <1>5, <3>1, <3>2 DEF ExitedOf
  <2>2. \A v, n : Fits(v, n)' <=> Fits(v, n)
    BY <2>1 DEF Fits
  <2>3. \A v \in Wallet : unread[v] \in 0 .. 2 /\ (unread'[v] = 0 => unread[v] = 0)
    BY <1>2 DEF TrackInv, TrackState
  <2>4. raced => raced'
    BY <1>2
  <2> QED
    BY <1>1, <2>2, <2>3, <2>4 DEF TrackInv, CountsFit
<1> QED
  BY <1>8, <1>9, <1>10, <1>11, <1>12, <1>13, <1>14 DEF TrackInv

\* A sampler's step leaves the wallets and the log alone.
LEMMA SamplerFrame ==
  ASSUME TrackInv, UNCHANGED <<txs, holds, pooled, aged, claimed, log, logTicks, passed>>, overlapped => overlapped',
         overlapped' \in BOOLEAN, raced' \in BOOLEAN, budget' \in Bounds,
         causes \subseteq causes', causes' \subseteq {"died", "timeout"},
         entries' \in [Sig -> EntryRow], unread' \in [Wallet -> 0 .. 2], UNCHANGED <<read, score>>,
         ticks' \in [Sampler -> SamplerTick]
  PROVE  TrackState' /\ OneLogTick' /\ DueHasPassed'
<1>1. TrackState'
  BY DEF TrackInv, TrackState, Bounds
<1>2. OneLogTick' /\ DueHasPassed'
  BY SameLog DEF TrackInv
<1> QED
  BY <1>1, <1>2

LEMMA SampleKeeps == ASSUME TrackInv, NEW t \in Sampler, SampleBegins(t) PROVE TrackInv'
<1> DEFINE first == CHOOSE s \in OpenRows : \A o \in OpenRows : s <= o
           tick == [IdleSampler EXCEPT !.at = "row", !.todo = OpenRows, !.expired = aged \cap OpenRows, !.row = first]
<1>1. OpenRows \in SUBSET Sig /\ OpenRows # {} /\ aged \subseteq Sig
  BY DEF SampleBegins, OpenRows, TrackInv, TrackState
<1>2. first \in OpenRows
  BY <1>1, SomeFirst
<1>3. /\ Set(t, tick) /\ ticks[t].at = "idle"
      /\ overlapped' = (overlapped \/ \E u \in Sampler \ {t} : ticks[u].at # "idle")
      /\ UNCHANGED <<txs, holds, pooled, aged, claimed, log, logTicks, passed, causes, entries,
                     unread, read, score, budget, raced>>
  BY DEF SampleBegins, Frame, World, Chain, Log, Scores
<1> HIDE DEF first
<1>4. tick \in SamplerTick /\ tick.at = "row" /\ tick.row = first /\ tick.todo = OpenRows /\ tick.rug = FALSE
  BY <1>1, <1>2 DEF SamplerTick, IdleSampler
<1> HIDE DEF tick
<1>5. /\ ticks' \in [Sampler -> SamplerTick] /\ ticks'[t] = tick
      /\ \A u \in Sampler : u # t => ticks'[u] = ticks[u]
  BY <1>3, <1>4, SetIs DEF TrackInv
<1>6. overlapped \in BOOLEAN /\ raced \in BOOLEAN /\ budget \in Bounds /\ unread \in [Wallet -> 0 .. 2]
      /\ causes \subseteq {"died", "timeout"} /\ entries \in [Sig -> EntryRow]
  BY DEF TrackInv, TrackState, Bounds
<1>7. TrackState' /\ OneLogTick' /\ DueHasPassed'
  BY <1>3, <1>5, <1>6, SamplerFrame
<1>8. RowsSound' /\ CountsFit'
  BY <1>3, SameRows, SameCounts DEF TrackInv
<1>9. TicksSound'
  <2>1. \A s \in tick.todo : entries'[s].status # "none"
    BY <1>3, <1>4 DEF OpenRows
  <2> QED
    BY <1>2, <1>3, <1>4, <2>1, TickMoves DEF TrackInv
<1>10. DeadForCause'
  BY <1>3, <1>4, <1>5 DEF TrackInv, DeadForCause
<1>11. OneTick'
  <2>1. OpenRows' = OpenRows
    BY <1>3 DEF OpenRows
  <2>2. ~ overlapped' => ~ overlapped /\ \A u \in Sampler : u # t => ticks'[u].at = "idle"
    BY <1>3, <1>5
  <2> QED
    BY <1>4, <1>5, <2>1, <2>2 DEF OneTick
<1> QED
  BY <1>7, <1>8, <1>9, <1>10, <1>11 DEF TrackInv

\* What a step of a tick at a row knows.
LEMMA AtRow ==
  ASSUME TrackInv, NEW t \in Sampler, ticks[t].at # "idle"
  PROVE  /\ ticks[t].row \in ticks[t].todo /\ ticks[t].row \in DOMAIN txs /\ ticks[t].row \in Sig
         /\ entries[ticks[t].row].status # "none"
         /\ ~ overlapped => /\ entries[ticks[t].row].status = "OPEN" /\ ticks[t].todo \subseteq OpenRows
                            /\ \A u \in Sampler : u # t => ticks[u].at = "idle"
<1>1. TickSound(t) /\ ticks[t].todo \subseteq Sig /\ DOMAIN txs \subseteq Sig
  BY TrackFacts DEF TrackInv, TicksSound
<1>2. ticks[t].row \in ticks[t].todo /\ ticks[t].row \in Sig /\ entries[ticks[t].row].status # "none"
  BY <1>1 DEF TickSound
<1>3. ticks[t].row \in DOMAIN txs
  BY <1>2 DEF TrackInv, RowsSound
<1>4. ~ overlapped => ticks[t].todo \subseteq OpenRows /\ \A u \in Sampler : u # t => ticks[u].at = "idle"
  BY DEF TrackInv, OneTick
<1> QED
  BY <1>2, <1>3, <1>4 DEF OpenRows

\* A step of a tick that goes on at its row, or to the next, and writes no row.
LEMMA TickGoesOn ==
  ASSUME TrackInv, NEW t \in Sampler, NEW tick \in SamplerTick, Set(t, tick), ticks[t].at # "idle",
         UNCHANGED <<txs, holds, pooled, aged, claimed, log, logTicks, passed, entries, unread, read, score,
                     overlapped, raced>>,
         budget' \in Bounds, causes \subseteq causes', causes' \subseteq {"died", "timeout"},
         tick.todo \subseteq ticks[t].todo, tick.at # "idle" => tick.row \in tick.todo,
         tick.at = "exit" => SaleEnds(tick.sell, tick.row),
         tick.rug => causes' # {}
  PROVE  TrackInv'
<1>1. /\ ticks' \in [Sampler -> SamplerTick] /\ ticks'[t] = tick
      /\ \A u \in Sampler : u # t => ticks'[u] = ticks[u]
  BY SetIs DEF TrackInv
<1>2. overlapped \in BOOLEAN /\ raced \in BOOLEAN /\ unread \in [Wallet -> 0 .. 2] /\ entries \in [Sig -> EntryRow]
  BY DEF TrackInv, TrackState
<1>3. TrackState' /\ OneLogTick' /\ DueHasPassed'
  BY <1>1, <1>2, SamplerFrame
<1>4. RowsSound' /\ CountsFit'
  BY SameRows, SameCounts DEF TrackInv
<1>5. TicksSound'
  <2>1. \A s \in tick.todo : entries'[s].status # "none"
    BY DEF TrackInv, TicksSound, TickSound
  <2> QED
    BY <2>1, TickMoves DEF TrackInv
<1>6. DeadForCause'
  BY <1>1 DEF TrackInv, DeadForCause
<1>7. OneTick'
  <2>1. OpenRows' = OpenRows
    BY DEF OpenRows
  <2>2. ~ overlapped => ticks[t].todo \subseteq OpenRows /\ \A u \in Sampler : u # t => ticks[u].at = "idle"
    BY AtRow
  <2> QED
    BY <1>1, <2>1, <2>2 DEF OneTick
<1> QED
  BY <1>3, <1>4, <1>5, <1>6, <1>7 DEF TrackInv

LEMMA LookKeeps == ASSUME TrackInv, NEW t \in Sampler, LookForExit(t) PROVE TrackInv'
<1> DEFINE found == Exits(ticks[t].row)
           newest == CHOOSE i \in found : \A j \in found : j <= i
           counts == IF found = {} THEN FALSE ELSE txs[newest].sol
           looked == [ticks[t] EXCEPT !.at = IF counts THEN "exit" ELSE "pair", !.sell = IF counts THEN newest ELSE NoSig]
           missed == [ticks[t] EXCEPT !.at = "pair"]
<1>1. /\ ticks[t].at = "row" /\ ((Set(t, looked) /\ budget' = budget) \/ (Uses("faults") /\ Set(t, missed)))
      /\ UNCHANGED <<txs, holds, pooled, aged, claimed, log, logTicks, passed, causes, entries, unread, read, score,
                     overlapped, raced>>
  <2>1. ticks[t].at = "row" /\ UNCHANGED <<Frame, entries, Scores, overlapped, raced>>
    BY DEF LookForExit
  <2>2. (Set(t, looked) /\ UNCHANGED budget) \/ (found # {} /\ Uses("faults") /\ Set(t, missed))
    BY Zenon DEF LookForExit
  <2> QED
    BY <2>1, <2>2 DEF Frame, World, Chain, Log, Scores
<1>2. ticks[t] \in SamplerTick /\ ticks[t].row \in ticks[t].todo /\ ticks[t].row \in DOMAIN txs
      /\ causes \subseteq {"died", "timeout"} /\ budget \in Bounds
      /\ (ticks[t].rug => causes # {})
  BY <1>1, AtRow, TrackFacts DEF TrackInv, TrackState, Bounds, DeadForCause
<1>3. budget' \in Bounds
  BY <1>1, <1>2, UsesIs
<1>4. counts => newest \in Sig /\ SaleEnds(newest, ticks[t].row)
  <2>1. found \in SUBSET Sig
    BY TrackFacts DEF Exits, Recent, TrackInv
  <2>2. found # {} => newest \in found
    BY <2>1, SomeLast
  <2> HIDE DEF newest
  <2> QED
    BY <1>2, <2>1, <2>2 DEF Exits, Recent, SaleEnds
<1> HIDE DEF newest, counts
<1>5. /\ looked \in SamplerTick /\ looked.todo = ticks[t].todo /\ looked.row = ticks[t].row /\ looked.rug = ticks[t].rug
      /\ looked.at \in {"exit", "pair"} /\ (looked.at = "exit" => counts /\ looked.sell = newest)
  BY <1>2, <1>4 DEF SamplerTick
<1>6. /\ missed \in SamplerTick /\ missed.todo = ticks[t].todo /\ missed.row = ticks[t].row /\ missed.rug = ticks[t].rug
      /\ missed.at = "pair"
  BY <1>2 DEF SamplerTick
<1>7. CASE Set(t, looked)
  <2> HIDE DEF looked
  <2> QED
    BY <1>1, <1>2, <1>3, <1>4, <1>5, <1>7, TickGoesOn
<1>8. CASE Set(t, missed)
  <2> HIDE DEF missed
  <2> QED
    BY <1>1, <1>2, <1>3, <1>6, <1>8, TickGoesOn
<1> QED
  BY <1>1, <1>7, <1>8

LEMMA PairKeeps == ASSUME TrackInv, NEW t \in Sampler, Pair(t) PROVE TrackInv'
<1> DEFINE answered == [ticks[t] EXCEPT !.at = "mark", !.rug = ~ pooled]
           late == [ticks[t] EXCEPT !.at = "mark", !.rug = TRUE]
<1>1. /\ ticks[t].at = "pair"
      /\ UNCHANGED <<txs, holds, pooled, aged, claimed, log, logTicks, passed, entries, unread, read, score,
                     overlapped, raced>>
      /\ \/ Set(t, answered) /\ budget' = budget /\ causes' = causes
         \/ Uses("timeouts") /\ causes' = causes \cup {"timeout"} /\ Set(t, late)
         \/ Uses("faults") /\ Set(t, NextRow(t)) /\ causes' = causes
  BY DEF Pair, World, Chain, Log, Scores
<1>2. /\ ticks[t] \in SamplerTick /\ ticks[t].row \in ticks[t].todo /\ pooled \in BOOLEAN
      /\ causes \subseteq {"died", "timeout"} /\ budget \in Bounds
      /\ (~ pooled => causes # {})
  BY <1>1, AtRow, TrackFacts DEF TrackInv, TrackState, Bounds, DeadForCause
<1>3. budget' \in Bounds /\ causes \subseteq causes' /\ causes' \subseteq {"died", "timeout"}
  BY <1>1, <1>2, UsesIs
<1>4. /\ answered \in SamplerTick /\ answered.todo = ticks[t].todo /\ answered.row = ticks[t].row
      /\ answered.rug = ~ pooled /\ answered.at = "mark"
  BY <1>2 DEF SamplerTick
<1>5. /\ late \in SamplerTick /\ late.todo = ticks[t].todo /\ late.row = ticks[t].row /\ late.at = "mark"
  BY <1>2 DEF SamplerTick
<1>6. CASE Set(t, answered) /\ causes' = causes
  <2> HIDE DEF answered
  <2> QED
    BY <1>1, <1>2, <1>3, <1>4, <1>6, TickGoesOn
<1>7. CASE Set(t, late) /\ causes' = causes \cup {"timeout"}
  <2> HIDE DEF late
  <2> QED
    BY <1>1, <1>2, <1>3, <1>5, <1>7, TickGoesOn
<1>8. CASE Set(t, NextRow(t)) /\ causes' = causes
  <2>1. /\ NextRow(t) \in SamplerTick /\ ~ NextRow(t).rug /\ NextRow(t).at \in {"idle", "row"}
        /\ NextRow(t).todo \subseteq ticks[t].todo
        /\ NextRow(t).at # "idle" => NextRow(t).row \in NextRow(t).todo
    BY NextRowIs DEF TrackInv
  <2> QED
    BY <1>1, <1>3, <1>8, <2>1, TickGoesOn
<1> QED
  BY <1>1, <1>6, <1>7, <1>8

\* A write of the row a tick is at, which goes on to the next.
LEMMA RowWritten ==
  ASSUME TrackInv, NEW t \in Sampler, ticks[t].at # "idle", NEW now \in EntryRow, now.status # "none",
         now.status = "EXITED" => SaleEnds(now.exit, ticks[t].row),
         now.status = "RUG_FLAGGED" => causes # {},
         entries' = [entries EXCEPT ![ticks[t].row] = now], Set(t, NextRow(t)),
         UNCHANGED <<txs, holds, pooled, aged, claimed, log, logTicks, passed, causes, read, score, overlapped, budget>>,
         unread' \in [Wallet -> 0 .. 2], raced' \in BOOLEAN
  PROVE  /\ TrackState' /\ RowsSound' /\ TicksSound' /\ DeadForCause' /\ OneTick' /\ OneLogTick' /\ DueHasPassed'
<1>1. /\ ticks' \in [Sampler -> SamplerTick] /\ ticks'[t] = NextRow(t)
      /\ \A u \in Sampler : u # t => ticks'[u] = ticks[u]
      /\ NextRow(t) \in SamplerTick /\ ~ NextRow(t).rug /\ NextRow(t).at \in {"idle", "row"}
      /\ NextRow(t).todo \subseteq ticks[t].todo \ {ticks[t].row}
      /\ NextRow(t).at # "idle" => NextRow(t).row \in NextRow(t).todo
  BY NextRowIs, SetIs DEF TrackInv
<1>2. /\ ticks[t].row \in Sig /\ ticks[t].row \in DOMAIN txs
      /\ ~ overlapped => ticks[t].todo \subseteq OpenRows /\ \A u \in Sampler : u # t => ticks[u].at = "idle"
  BY AtRow
<1>3. /\ entries' \in [Sig -> EntryRow] /\ entries'[ticks[t].row] = now
      /\ \A s \in Sig : s # ticks[t].row => entries'[s] = entries[s]
  BY <1>2 DEF TrackInv, TrackState
<1>4. overlapped \in BOOLEAN /\ budget \in Bounds /\ causes \subseteq {"died", "timeout"}
  BY DEF TrackInv, TrackState, Bounds
<1>5. TrackState' /\ OneLogTick' /\ DueHasPassed'
  BY <1>1, <1>3, <1>4, SamplerFrame
<1>6. RowsSound'
  BY <1>2, <1>3 DEF TrackInv, RowsSound, SaleEnds
<1>7. TicksSound'
  <2>1. \A s \in Sig : entries[s].status # "none" => entries'[s].status # "none"
    BY <1>3
  <2>2. \A s \in NextRow(t).todo : entries'[s].status # "none"
    <3>1. ticks[t].todo \subseteq Sig /\ \A s \in ticks[t].todo : entries[s].status # "none"
      BY TrackFacts DEF TrackInv, TicksSound, TickSound
    <3> QED
      BY <1>1, <2>1, <3>1
  <2> QED
    BY <1>1, <2>1, <2>2, TickMoves DEF TrackInv
<1>8. DeadForCause'
  BY <1>1, <1>3 DEF TrackInv, DeadForCause
<1>9. OneTick'
  <2>1. ~ overlapped => NextRow(t).todo \subseteq OpenRows'
    BY <1>1, <1>2, <1>3 DEF OpenRows
  <2> QED
    BY <1>1, <1>2, <2>1 DEF OneTick
<1> QED
  BY <1>5, <1>6, <1>7, <1>8, <1>9

\* checkAndRecordExit's write: the wallet's count is due, and raced if one was under way.
LEMMA RecordKeeps == ASSUME TrackInv, NEW t \in Sampler, RecordExit(t) PROVE TrackInv'
<1> DEFINE r == ticks[t].row
           now == [entries[r] EXCEPT !.status = "EXITED", !.exit = ticks[t].sell]
           who == txs[r].who
<1>1. /\ ticks[t].at = "exit" /\ Set(t, NextRow(t)) /\ entries' = [entries EXCEPT ![r] = now]
      /\ UNCHANGED <<txs, holds, pooled, aged, claimed, log, logTicks, passed, causes, read, score, overlapped, budget>>
  BY DEF RecordExit, Frame, World, Chain, Log
<1>2. /\ unread[who] < 2
      /\ unread' = [v \in Wallet |-> IF v = who THEN unread[v] + 1 ELSE unread[v]]
      /\ raced' = (raced \/ unread[who] > 0 \/ read[who] # {})
  BY DEF RecordExit, Recompute
<1>3. /\ r \in Sig /\ r \in DOMAIN txs /\ who \in Wallet /\ entries[r] \in EntryRow
      /\ SaleEnds(ticks[t].sell, r) /\ ticks[t].sell \in Sig /\ TrackState
  BY <1>1, AtRow, TrackFacts DEF TrackInv, TicksSound, TickSound, SaleEnds
<1>4. now \in EntryRow /\ now.status = "EXITED" /\ now.exit = ticks[t].sell
  BY <1>3 DEF EntryRow
<1> HIDE DEF now
<1>5. unread' \in [Wallet -> 0 .. 2]
  BY <1>2, <1>3 DEF TrackState
<1>6. raced' \in BOOLEAN
  BY <1>2, <1>3 DEF TrackState
<1>7. TrackState' /\ RowsSound' /\ TicksSound' /\ DeadForCause' /\ OneTick' /\ OneLogTick' /\ DueHasPassed'
  BY <1>1, <1>3, <1>4, <1>5, <1>6, RowWritten
<1>8. CountsFit'
  <2>1. ASSUME NEW v \in Wallet, v # who PROVE OfWallet(v)' = OfWallet(v) /\ ExitedOf(v)' = ExitedOf(v)
    <3>1. \A s \in Sig : OnChain(s) /\ txs[s].who = v => s # r
      BY <2>1
    <3>2. \A s \in Sig : s # r => entries'[s] = entries[s]
      BY <1>1, <1>3 DEF TrackState
    <3>3. OfWallet(v)' = OfWallet(v)
      BY <1>1, <3>1, <3>2 DEF OfWallet, OnChain, Resolved
    <3>4. \A s \in OfWallet(v) : entries'[s] = entries[s]
      BY <3>1, <3>2 DEF OfWallet
    <3> QED
      BY <3>3, <3>4 DEF ExitedOf
  <2>2. ASSUME NEW v \in Wallet, v # who, NEW n, Fits(v, n) PROVE Fits(v, n)'
    BY <2>1, <2>2 DEF Fits
  <2>3. unread'[who] # 0 /\ (~ raced' => ~ raced /\ read[who] = {})
    <3>1. unread[who] \in 0 .. 2 /\ who \in Wallet
      BY <1>3 DEF TrackState
    <3>2. unread'[who] = unread[who] + 1
      BY <1>2, <3>1
    <3>3. unread[who] \in Nat /\ unread[who] + 1 # 0
      BY <3>1
    <3>4. ~ raced' => ~ raced /\ read[who] = {}
      BY <1>2
    <3> QED
      BY <3>2, <3>3, <3>4
  <2>4. \A v \in Wallet : v # who => unread'[v] = unread[v]
    BY <1>2
  <2> QED
    BY <1>1, <2>2, <2>3, <2>4 DEF TrackInv, CountsFit
<1> QED
  BY <1>7, <1>8 DEF TrackInv

\* The fallback's write: while ticks do not overlap it makes of an open row no exited one.
LEMMA MarkKeeps == ASSUME TrackInv, NEW t \in Sampler, Mark(t) PROVE TrackInv'
<1> DEFINE r == ticks[t].row
           now == [entries[r] EXCEPT !.status = Marked(t), !.rug = entries[r].rug \/ ticks[t].rug]
<1>1. /\ ticks[t].at = "mark" /\ Set(t, NextRow(t)) /\ entries' = [entries EXCEPT ![r] = now]
      /\ UNCHANGED <<txs, holds, pooled, aged, claimed, log, logTicks, passed, causes, unread, read, score,
                     overlapped, budget, raced>>
  <2>1. /\ ticks[t].at = "mark" /\ Set(t, NextRow(t)) /\ UNCHANGED <<Frame, Scores, overlapped, budget, raced>>
        /\ entries' = [entries EXCEPT ![r].status = Marked(t), ![r].rug = @ \/ ticks[t].rug]
    BY DEF Mark
  <2>2. r \in Sig /\ entries[r] \in EntryRow /\ entries \in [Sig -> EntryRow]
    BY <2>1, AtRow, TrackFacts DEF TrackInv, TrackState
  <2>3. [entries EXCEPT ![r].status = Marked(t), ![r].rug = @ \/ ticks[t].rug] = [entries EXCEPT ![r] = now]
    BY <2>2 DEF EntryRow
  <2> QED
    BY <2>1, <2>3 DEF Frame, World, Chain, Log, Scores
<1>2. r \in Sig /\ r \in DOMAIN txs /\ entries[r] \in EntryRow /\ entries[r].rug \in BOOLEAN /\ ticks[t].rug \in BOOLEAN
  BY <1>1, AtRow, TrackFacts DEF TrackInv
<1>3. /\ Marked(t) \in {"RUG_FLAGGED", "EXPIRED", "OPEN"}
      /\ Marked(t) = "RUG_FLAGGED" => ticks[t].rug
  BY DEF Marked
<1>4. now \in EntryRow /\ now.status = Marked(t)
  BY <1>2, <1>3 DEF EntryRow
<1> HIDE DEF now
<1>5. unread' \in [Wallet -> 0 .. 2] /\ raced' \in BOOLEAN
  BY <1>1 DEF TrackInv, TrackState
<1>6. now.status = "RUG_FLAGGED" => causes # {}
  BY <1>3, <1>4 DEF TrackInv, DeadForCause
<1>7. TrackState' /\ RowsSound' /\ TicksSound' /\ DeadForCause' /\ OneTick' /\ OneLogTick' /\ DueHasPassed'
  BY <1>1, <1>3, <1>4, <1>5, <1>6, RowWritten
<1>8. CountsFit'
  <2> SUFFICES ASSUME ~ raced, ~ overlapped PROVE CountsFit'
    BY <1>1 DEF CountsFit
  <2>1. /\ entries[r].status = "OPEN" /\ entries'[r].status \in {"RUG_FLAGGED", "EXPIRED", "OPEN"}
        /\ \A s \in Sig : s # r => entries'[s] = entries[s]
    BY <1>1, <1>2, <1>3, <1>4, AtRow DEF TrackInv, TrackState
  <2>2. ASSUME NEW v PROVE OfWallet(v) \subseteq OfWallet(v)' /\ ExitedOf(v)' = ExitedOf(v)
    <3>1. OfWallet(v) \subseteq OfWallet(v)'
      BY <1>1, <2>1 DEF OfWallet, OnChain, Resolved
    <3>2. \A s \in OfWallet(v)' : s \in OfWallet(v) \/ s = r
      BY <1>1, <2>1 DEF OfWallet, OnChain, Resolved
    <3>3. \A s \in OfWallet(v)' : s \in Sig
      BY DEF OfWallet
    <3> QED
      BY <2>1, <3>1, <3>2, <3>3 DEF ExitedOf
  <2>3. ASSUME NEW v, NEW n \in 0 .. MaxTrades, Fits(v, n) PROVE Fits(v, n)'
    <3>1. Sig' = Sig
      BY DEF Sig
    <3>2. IsFiniteSet(OfWallet(v)')
      <4>0. MaxTrades \in Int /\ 1 \in Int
        BY DEF MaxTrades
      <4>1. IsFiniteSet(1 .. MaxTrades)
        BY <4>0, FS_Interval
      <4> QED
        BY <4>1, FS_Subset DEF OfWallet, Sig
    <3>3. Cardinality(OfWallet(v)) <= Cardinality(OfWallet(v)')
      BY <2>2, <3>2, FS_Subset
    <3>4. Cardinality(OfWallet(v)) \in Nat /\ Cardinality(OfWallet(v)') \in Nat
      BY <2>2, <3>2, FS_Subset, FS_CardinalityType
    <3> QED
      BY <2>2, <2>3, <3>3, <3>4 DEF Fits, MaxTrades
  <2>4. \A v \in Wallet : score[v] \in 0 .. MaxTrades /\ read[v] \subseteq 0 .. MaxTrades
    BY DEF TrackInv, TrackState
  <2> QED
    BY <1>1, <2>3, <2>4 DEF TrackInv, CountsFit
<1> QED
  BY <1>7, <1>8 DEF TrackInv

LogTick == [at : {"idle", "write"}, due : SUBSET (1 .. Offsets), rug : BOOLEAN, priced : BOOLEAN]

LEMMA LogBeginKeeps == ASSUME TrackInv, NEW t \in Sampler, LogBegin(t) PROVE TrackInv'
<1>1. PICK begun \in LogTick :
         begun.at = "write" /\ begun.due = Due /\ logTicks' = [logTicks EXCEPT ![t] = begun]
  <2> DEFINE priced == [at |-> "write", due |-> Due, rug |-> FALSE, priced |-> TRUE]
             unpriced == [at |-> "write", due |-> Due, rug |-> TRUE, priced |-> FALSE]
  <2>1. priced \in LogTick /\ unpriced \in LogTick
    BY DEF LogTick, Due
  <2> QED
    BY <2>1 DEF LogBegin
<1>2. /\ UNCHANGED <<txs, holds, pooled, entries, aged, unread, read, score, claimed, ticks, raced, causes, log, passed>>
      /\ overlapped' = (overlapped \/ \E u \in Sampler \ {t} : logTicks[u].at # "idle")
  BY DEF LogBegin, Rest, Chain, Scores
<1>3. budget' \in Bounds
  <2>1. budget' = budget \/ Uses("timeouts")
    BY DEF LogBegin
  <2> QED
    BY <2>1, UsesIs DEF TrackInv, TrackState, Bounds
<1>4. overlapped' \in BOOLEAN /\ (overlapped => overlapped')
  BY <1>2 DEF TrackInv, TrackState
<1>5. /\ logTicks' \in [Sampler -> LogTick] /\ logTicks'[t] = begun
      /\ \A u \in Sampler : u # t => logTicks'[u] = logTicks[u]
  BY <1>1 DEF TrackInv, TrackState, LogTick
<1>6. TrackState'
  BY <1>2, <1>3, <1>4, <1>5 DEF TrackInv, TrackState, LogTick, Bounds
<1>7. RowsSound' /\ TicksSound' /\ OneTick' /\ CountsFit'
  BY <1>2, <1>4, SameRows, SameTicks, SameCounts DEF TrackInv
<1>8. DeadForCause'
  BY <1>2 DEF TrackInv, DeadForCause
<1>9. OneLogTick'
  <2>1. ~ overlapped' => ~ overlapped /\ \A u \in Sampler : u # t => logTicks'[u].at = "idle"
    BY <1>2, <1>5
  <2>2. \A o \in Due : log.at[o] = NoSig
    BY DEF Due
  <2> QED
    BY <1>1, <1>2, <1>5, <2>1, <2>2 DEF OneLogTick
<1>10. DueHasPassed'
  BY <1>1, <1>2, <1>5 DEF TrackInv, DueHasPassed, NeverEarly, Due
<1> QED
  BY <1>6, <1>7, <1>8, <1>9, <1>10 DEF TrackInv

LEMMA LogWriteKeeps == ASSUME TrackInv, NEW t \in Sampler, LogWrite(t) PROVE TrackInv'
<1> DEFINE price == IF logTicks[t].priced THEN passed ELSE NoSig
           sampled == [o \in 1 .. Offsets |-> IF o \in logTicks[t].due THEN price ELSE log.at[o]]
<1>1. /\ UNCHANGED <<txs, holds, pooled, entries, aged, unread, read, score, claimed, ticks, raced, causes,
                     overlapped, passed, budget>>
      /\ logTicks[t].at = "write" /\ logTicks' = [logTicks EXCEPT ![t] = IdleLog]
      /\ log' = [at |-> sampled, done |-> log.done \/ Offsets \in logTicks[t].due, rug |-> log.rug \/ logTicks[t].rug]
  BY DEF LogWrite, Rest, Chain, Scores
<1>2. /\ passed \in 0 .. Offsets /\ Offsets \in Nat \ {0} /\ log.at \in [1 .. Offsets -> 0 .. Offsets]
      /\ log.done \in BOOLEAN /\ log.rug \in BOOLEAN /\ logTicks[t].rug \in BOOLEAN /\ logTicks \in [Sampler -> LogTick]
      /\ TrackState
  BY TrackFacts DEF TrackInv, TrackState, LogTick
<1>3. price \in 0 .. Offsets /\ (price # NoSig => price = passed)
  BY <1>2 DEF NoSig
<1> HIDE DEF price
<1>4. sampled \in [1 .. Offsets -> 0 .. Offsets]
  BY <1>2, <1>3
<1>5. \A o \in 1 .. Offsets : sampled[o] = IF o \in logTicks[t].due THEN price ELSE log.at[o]
  OBVIOUS
<1> HIDE DEF sampled
<1>6. log' \in [at : [1 .. Offsets -> 0 .. Offsets], done : BOOLEAN, rug : BOOLEAN] /\ log'.at = sampled
  BY <1>1, <1>2, <1>4
<1>7. /\ logTicks' \in [Sampler -> LogTick] /\ logTicks'[t] = IdleLog /\ IdleLog.at = "idle" /\ IdleLog.due = {}
      /\ \A u \in Sampler : u # t => logTicks'[u] = logTicks[u]
  <2>1. IdleLog \in LogTick /\ IdleLog.at = "idle" /\ IdleLog.due = {}
    BY DEF IdleLog, LogTick
  <2> QED
    BY <1>1, <1>2, <2>1
<1>8. TrackState'
  BY <1>1, <1>2, <1>6, <1>7 DEF TrackState, LogTick
<1>9. RowsSound' /\ TicksSound' /\ OneTick' /\ CountsFit'
  BY <1>1, SameRows, SameTicks, SameCounts DEF TrackInv
<1>10. DeadForCause'
  BY <1>1 DEF TrackInv, DeadForCause
<1>11. OneLogTick'
  <2>1. ~ overlapped => \A u \in Sampler : logTicks'[u].at = "idle"
    BY <1>1, <1>7 DEF TrackInv, OneLogTick
  <2> QED
    BY <1>1, <2>1 DEF OneLogTick
<1>12. DueHasPassed'
  <2>1. \A u \in Sampler, o \in 1 .. Offsets : o \in logTicks'[u].due => o \in logTicks[u].due
    BY <1>7
  <2>2. \A o \in 1 .. Offsets : o \in logTicks[t].due => o <= passed
    BY DEF TrackInv, DueHasPassed
  <2>3. NeverEarly'
    BY <1>1, <1>2, <1>3, <1>5, <1>6, <2>2 DEF TrackInv, DueHasPassed, NeverEarly
  <2> QED
    BY <1>1, <2>1, <2>3 DEF TrackInv, DueHasPassed
<1> QED
  BY <1>8, <1>9, <1>10, <1>11, <1>12 DEF TrackInv

LEMMA TrackBegins == ASSUME TrackInit PROVE TrackInv
<1>1. Lookback \in Nat \ {0} /\ Offsets \in Nat \ {0} /\ TrackScenarios \subseteq Bounds
  BY TrackingAssumption DEF TrackingAssumption, Bounds
<1>2. TrackState
  <2>1. txs \in Seq(OnChainTrade) /\ Len(txs) = 0 /\ holds \in [Wallet -> Nat] /\ \A w \in Wallet : holds[w] = 0
    BY DEF TrackInit
  <2>2. entries \in [Sig -> EntryRow] /\ aged \subseteq Sig /\ ticks \in [Sampler -> SamplerTick]
    BY DEF TrackInit, Absent, EntryRow, IdleSampler, SamplerTick
  <2>3. /\ unread \in [Wallet -> 0 .. 2] /\ read \in [Wallet -> SUBSET (0 .. MaxTrades)]
        /\ score \in [Wallet -> 0 .. MaxTrades]
    BY DEF TrackInit, MaxTrades
  <2>4. log \in [at : [1 .. Offsets -> 0 .. Offsets], done : BOOLEAN, rug : BOOLEAN] /\ passed \in 0 .. Offsets
    BY <1>1 DEF TrackInit, Unsampled, NoSig
  <2>5. logTicks \in [Sampler -> LogTick]
    BY DEF TrackInit, IdleLog, LogTick
  <2>6. budget \in Bounds /\ overlapped \in BOOLEAN /\ raced \in BOOLEAN /\ causes \subseteq {"died", "timeout"}
        /\ pooled \in BOOLEAN /\ claimed \in BOOLEAN
    BY <1>1 DEF TrackInit
  <2> QED
    BY <2>1, <2>2, <2>3, <2>4, <2>5, <2>6 DEF TrackState, MaxTrades, LogTick, Bounds
<1>3. \A s \in Sig : entries[s].status = "none"
  BY DEF TrackInit, Absent
<1>4. \A t \in Sampler : /\ ticks[t].at = "idle" /\ ticks[t].todo = {} /\ ~ ticks[t].rug
                         /\ logTicks[t].at = "idle" /\ logTicks[t].due = {}
  BY DEF TrackInit, IdleSampler, IdleLog
<1>5. RowsSound /\ TicksSound /\ DeadForCause /\ OneTick /\ OneLogTick
  <2>1. pooled
    BY DEF TrackInit
  <2> QED
    BY <1>3, <1>4, <2>1 DEF RowsSound, TicksSound, TickSound, DeadForCause, OneTick, OneLogTick
<1>6. DueHasPassed
  <2>1. \A o \in 1 .. Offsets : log.at[o] = NoSig
    BY DEF TrackInit, Unsampled
  <2> QED
    BY <1>4, <2>1 DEF DueHasPassed, NeverEarly
<1>7. CountsFit
  <2>1. ASSUME NEW w \in Wallet PROVE OfWallet(w) = {} /\ ExitedOf(w) = {}
    BY <1>3 DEF OfWallet, ExitedOf, Resolved
  <2>2. ASSUME NEW w \in Wallet PROVE Fits(w, 0)
    <3>1. Cardinality({}) = 0
      BY FS_EmptySet
    <3>2. Cardinality(OfWallet(w)) = 0 /\ Cardinality(ExitedOf(w)) = 0
      BY <2>1, <3>1
    <3> QED
      BY <3>2 DEF Fits
  <2>3. \A w \in Wallet : read[w] = {} /\ score[w] = 0
    BY DEF TrackInit
  <2> QED
    BY <2>2, <2>3 DEF CountsFit
<1> QED
  BY <1>2, <1>5, <1>6, <1>7 DEF TrackInv

LEMMA TrackKept == ASSUME TrackInv, [TrackNext]_trackVars PROVE TrackInv'
<1>1. CASE \E w \in Wallet : Buy(w) \/ SellAll(w) \/ SellPart(w)
  BY <1>1, MarketKeeps
<1>2. CASE \E w \in Wallet : ReadEntries(w) \/ WriteScore(w)
  BY <1>2, RecomputeKeeps
<1>3. CASE Rugged \/ (\E s \in Sig : Ages(s)) \/ ClaimExpires \/ Passes
  BY <1>3, TrackTimeKeeps
<1>4. CASE Scan
  BY <1>4, ScanKeeps
<1>5. CASE \E t \in Sampler : SampleBegins(t)
  BY <1>5, SampleKeeps
<1>6. CASE \E t \in Sampler : SamplerStep(t)
  BY <1>6, LookKeeps, RecordKeeps, PairKeeps, MarkKeeps DEF SamplerStep
<1>7. CASE \E t \in Sampler : LogBegin(t) \/ LogWrite(t)
  BY <1>7, LogBeginKeeps, LogWriteKeeps
<1>8. CASE UNCHANGED trackVars
  <2>1. UNCHANGED <<txs, holds, pooled, entries, aged, unread, read, score, claimed, ticks,
                    log, logTicks, passed, budget, overlapped, raced, causes>>
    BY <1>8 DEF trackVars
  <2>2. TrackState' /\ DeadForCause'
    BY <2>1 DEF TrackInv, TrackState, DeadForCause
  <2>3. RowsSound' /\ TicksSound' /\ OneTick' /\ OneLogTick' /\ DueHasPassed' /\ CountsFit'
    BY <2>1, SameRows, SameTicks, SameLog, SameCounts DEF TrackInv
  <2> QED
    BY <2>2, <2>3 DEF TrackInv
<1> QED
  BY <1>1, <1>2, <1>3, <1>4, <1>5, <1>6, <1>7, <1>8 DEF TrackNext

\* What the invariant says of rows, scores and samples.
LEMMA TrackPromises ==
  ASSUME TrackInv
  PROVE  TrackTypes /\ ExitIsReal /\ RugNeedsACause /\ ScoreIsHonest /\ NeverEarly
<1>1. TrackTypes
  <2>1. holds \in [Wallet -> 0 .. MaxTrades]
    <3>1. /\ holds \in [Wallet -> Nat] /\ Len(txs) \in Nat /\ Len(txs) <= MaxTrades
          /\ \A w \in Wallet : holds[w] <= Len(txs)
      BY TrackFacts DEF TrackInv, TrackState
    <3> QED
      BY <3>1 DEF MaxTrades
  <2>2. \A i \in DOMAIN txs : txs[i] \in OnChainTrade
    BY TrackFacts DEF TrackInv
  <2> QED
    BY <2>1, <2>2 DEF TrackTypes, TrackInv, TrackState, OnChainTrade, EntryRow, SamplerTick
<1>2. ExitIsReal
  BY DEF ExitIsReal, TrackInv, RowsSound, SaleEnds, OnChain
<1>3. RugNeedsACause
  BY DEF RugNeedsACause, TrackInv, DeadForCause
<1>4. ScoreIsHonest
  BY DEF ScoreIsHonest, TrackInv, CountsFit, Fits, ExitedOf
<1> QED
  BY <1>1, <1>2, <1>3, <1>4 DEF TrackInv, DueHasPassed

\* A step that changes a resolved row or a sampled price had a tick beside it.
LEMMA RowsStay ==
  ASSUME TrackInv, [TrackNext]_trackVars, NEW s \in Sig, Resolved(entries[s]), entries'[s].status # entries[s].status
  PROVE  overlapped
<1>1. entries' # entries
  OBVIOUS
<1>2. PICK t \in Sampler : RecordExit(t) \/ Mark(t)
  <2>1. CASE Scan
    <3>1. entries[s] # Absent
      BY DEF Resolved, Absent
    <3>2. entries'[s] = entries[s]
      BY <2>1, <3>1 DEF Scan, EvaluateForToken
    <3> QED
      BY <3>2
  <2>2. ~ Scan => \E t \in Sampler : RecordExit(t) \/ Mark(t)
    BY <1>1 DEF TrackNext, trackVars, SamplerStep, Buy, SellAll, SellPart, Trade, Rugged, Ages, ClaimExpires, ReadEntries,
                WriteScore, SampleBegins, LookForExit, Pair, Passes, LogBegin, LogWrite, Rest, Frame
  <2> QED
    BY <2>1, <2>2
<1>3. ticks[t].at # "idle" /\ entries \in [Sig -> EntryRow]
  BY <1>2 DEF RecordExit, Mark, TrackInv, TrackState
<1>4. ticks[t].row \in Sig /\ (~ overlapped => entries[ticks[t].row].status = "OPEN")
  BY <1>3, AtRow
<1>5. s = ticks[t].row
  BY <1>2, <1>3, <1>4 DEF RecordExit, Mark
<1> QED
  BY <1>4, <1>5 DEF Resolved

LEMMA PricesStay ==
  ASSUME TrackInv, [TrackNext]_trackVars, NEW o \in 1 .. Offsets, log.at[o] # NoSig, log'.at[o] # log.at[o]
  PROVE  overlapped
<1>1. log' # log
  OBVIOUS
<1>2. PICK t \in Sampler : LogWrite(t)
  BY <1>1 DEF TrackNext, trackVars, SamplerStep, Buy, SellAll, SellPart, Trade, Rugged, Ages, Scan, ClaimExpires, ReadEntries,
              WriteScore, SampleBegins, LookForExit, RecordExit, Mark, Pair, Passes, LogBegin, Frame, World, Log
<1>3. logTicks[t].at # "idle" /\ (o \notin logTicks[t].due => log'.at[o] = log.at[o])
  BY <1>2 DEF LogWrite
<1> QED
  BY <1>3 DEF TrackInv, OneLogTick

\* smartWalletTracker.ts, shadowModePriceSampler.ts: an entry is exited only on a real
\* sale, flagged only for a cause, and counted for its wallet; no sample is taken early;
\* and what is resolved or sampled stays unless two ticks ran at once.  For every set of
\* wallets and samplers, every lookback and number of offsets.
THEOREM TrackingSound == TrackSpec => TrackingIsSound
<1>1. TrackInit => TrackInv
  BY TrackBegins
<1>2. TrackInv /\ [TrackNext]_trackVars => TrackInv'
  BY TrackKept
<1>3. TrackInv => TrackTypes /\ ExitIsReal /\ RugNeedsACause /\ ScoreIsHonest /\ NeverEarly
  BY TrackPromises
<1>4. TrackInv /\ [TrackNext]_trackVars
        => [\A s \in Sig : Resolved(entries[s]) /\ entries'[s].status # entries[s].status => overlapped]_trackVars
  BY RowsStay
<1>5. TrackInv /\ [TrackNext]_trackVars
        => [\A o \in 1 .. Offsets : log.at[o] # NoSig /\ log'.at[o] # log.at[o] => overlapped]_trackVars
  BY PricesStay
<1> QED
  BY <1>1, <1>2, <1>3, <1>4, <1>5, PTL DEF TrackSpec, TrackingIsSound, ResolvedStays, PriceStays

=============================================================================
