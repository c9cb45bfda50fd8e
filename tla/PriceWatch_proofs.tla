------------------------- MODULE PriceWatch_proofs -------------------------
(***************************************************************************)
(* What PriceWatch.tla promises for every set of runs and levels and every *)
(* budget: no sale on a price that was never the market's, unless trusted;  *)
(* marks and clocks set back, and alerts repeated, only where runs overlap. *)
(* And what ExitRules.tla promises for every price, opening, deviation and *)
(* window.                                                                 *)
(***************************************************************************)
EXTENDS PriceWatch, ExitRules, TLAPS

RunRecord == [at : Places, read : Row, price : Level, collapsed : BOOLEAN,
              forced : BOOLEAN, shared : BOOLEAN]

\* The tick waits for one run at most: the one the watchdog has not given up.
Ticks ==
    /\ \A r \in detached : Running(r)
    /\ \A r \in Run : Running(r) /\ r \notin detached => ticking
    /\ \A r, s \in Run : Running(r) /\ Running(s) /\ r \notin detached /\ s \notin detached => r = s

\* A run that met no other is the only one there is.
Alone == \A r, s \in Run : Running(r) /\ ~run[r].shared /\ Running(s) => r = s

\* What it read of the row is what the row says, until it has no more use of it.
Reading == {"balance", "value", "price", "missing", "classify", "alert"}
SameOutage(read) ==
    /\ read.state = row.state /\ read.since = row.since
    /\ read.alerted = row.alerted /\ read.alertedState = row.alertedState
UpToDate(r) ==
    ~run[r].shared => /\ run[r].at \in Reading => SameOutage(run[r].read)
                      /\ At(r, "raise") => run[r].read.hwm = row.hwm

\* An outage the owner was told of is one the row remembers telling of.
Remembered == row.alerted = None => told = None

\* While the market has not moved nothing speaks for another price than the
\* entry's but its own pair's liquidity, and nothing is decided on one unless
\* that, or its age, was trusted.
Entered(r) ==
    /\ run[r].read.hwm = Entry
    /\ run[r].at = "check" => run[r].price = Entry \/ ~Plausible(Entry, run[r].price)
    /\ run[r].at \in {"decide", "raise"} => run[r].price = Entry
Still ==
    ~moved =>
        /\ market = Entry
        /\ ~trusted /\ ~emptied => row.open /\ row.hwm = Entry /\ \A r \in Run : Entered(r)

Low(r) == At(r, "hard") => run[r].price < Entry

WatchInv ==
    /\ TypeOK /\ Ticks /\ Alone /\ Remembered /\ Still
    /\ \A r \in Run : UpToDate(r) /\ Low(r)
-----------------------------------------------------------------------------
\* --- What a step is ---------------------------------------------------------------

\* A step of a run leaves the others alone; it goes on or returns.
Busy(r) ==
    /\ \A s \in Run \ {r} : run'[s] = run[s]
    /\ run'[r].at # "idle" /\ run'[r].shared = run[r].shared
    /\ UNCHANGED <<ticking, detached>>

LEMMA IdleType == Idle \in RunRecord /\ Fresh \in Row
BY PriceAssumption DEF Idle, Fresh, RunRecord, Places, Row, State, Routes, Age, None

LEMMA SpendType ==
    ASSUME budget \in Budget,
           NEW what \in {"moves", "flips", "silences", "faults", "slow", "hangs"}, Spend(what)
    PROVE  budget' \in Budget
BY DEF Budget, Spend

LEMMA PricedShape ==
    ASSUME TypeOK, NEW r \in Run, NEW level, Priced(r, level)
    PROVE  /\ \A s \in Run \ {r} : run'[s] = run[s]
           /\ run'[r] = [run[r] EXCEPT !.at = "check", !.price = level,
                                       !.read = [Fresh EXCEPT !.hwm = run[r].read.hwm]]
BY DEF TypeOK, Priced

\* Every step of a run is of one that runs, and of no other.
LEMMA StepShape ==
    ASSUME TypeOK, NEW r \in Run, Step(r)
    PROVE  Running(r) /\ (Busy(r) \/ Return(r))
<1> USE DEF Running, At, Go, Busy
<1>0. run \in [Run -> RunRecord]
  BY DEF TypeOK, RunRecord
<1>1. CASE Balance(r)
  BY <1>0, <1>1 DEF Balance, Closing, Close, CloseFails, RunRecord
<1>2. CASE Value(r)
  BY <1>0, <1>2 DEF Value, Closing, Close, CloseFails, RunRecord
<1>a. ASSUME NEW level, Priced(r, level), UNCHANGED <<ticking, detached>> PROVE Busy(r)
  <2>1. run[r] \in RunRecord
    BY <1>0
  <2> QED
    BY <1>a, <2>1, PricedShape DEF RunRecord
<1>b. ASSUME NEW p \in Places \ {"idle"}, Go(r, p), UNCHANGED <<ticking, detached>> PROVE Busy(r)
  BY <1>0, <1>b DEF RunRecord
<1>3. CASE Price(r)
  <2>1. At(r, "price")
    BY <1>3 DEF Price
  <2>2. \/ UNCHANGED <<ticking, detached>> /\ ((\E level : Priced(r, level)) \/ Go(r, "missing"))
        \/ Return(r)
    BY <1>3 DEF Price
  <2> QED
    BY <2>1, <2>2, <1>a, <1>b DEF Places
<1>4. CASE Missing(r)
  <2>1. At(r, "missing") /\ UNCHANGED <<ticking, detached>>
    BY <1>4 DEF Missing
  <2>2. (\E level : Priced(r, level)) \/ Go(r, "classify")
    BY <1>4 DEF Missing
  <2> QED
    BY <2>1, <2>2, <1>a, <1>b DEF Places
<1>5. CASE Classify(r)
  BY <1>0, <1>5 DEF Classify, RunRecord
<1>6. CASE Alert(r)
  BY <1>0, <1>6 DEF Alert, RunRecord
<1>7. CASE Notify(r)
  BY <1>7 DEF Notify
<1>8. CASE Check(r)
  BY <1>0, <1>8 DEF Check, Collapses, RunRecord
<1>9. CASE Hard(r)
  BY <1>0, <1>9 DEF Hard, Answers, Close, CloseFails, RunRecord
<1>10. CASE Reject(r)
  BY <1>0, <1>10 DEF Reject, RunRecord
<1>11. CASE Probe(r)
  BY <1>0, <1>11 DEF Probe, Answers, RunRecord
<1>12. CASE Decide(r)
  BY <1>0, <1>12 DEF Decide, Close, CloseFails, RunRecord
<1>13. CASE Raise(r)
  BY <1>13 DEF Raise
<1> QED
  BY <1>1, <1>2, <1>3, <1>4, <1>5, <1>6, <1>7, <1>8, <1>9, <1>10, <1>11, <1>12, <1>13 DEF Step

LEMMA ReturnShape ==
    ASSUME TypeOK, NEW r \in Run, Return(r)
    PROVE  run'[r] = Idle /\ \A s \in Run \ {r} : run'[s] = run[s]
BY DEF TypeOK, Return

\* Time only ages what a run has read.
LEMMA ElapseShape ==
    ASSUME TypeOK, Elapse, NEW r \in Run
    PROVE  /\ run'[r].at = run[r].at /\ run'[r].shared = run[r].shared
           /\ run'[r].price = run[r].price /\ run'[r].collapsed = run[r].collapsed
           /\ run'[r].read.hwm = run[r].read.hwm /\ run'[r].read.state = run[r].read.state
           /\ run'[r].read.alertedState = run[r].read.alertedState
           /\ run'[r].read.since = Older(run[r].read.since)
           /\ run'[r].read.alerted = Older(run[r].read.alerted)
<1> DEFINE read == run[r].read
           aged == [read EXCEPT !.since = Older(@), !.alerted = Older(@)]
<1>1. run[r] \in RunRecord /\ read \in Row
  BY DEF TypeOK, RunRecord
<1>2. run'[r] = [run[r] EXCEPT !.read = aged]
  BY <1>1 DEF Elapse, RunRecord
<1>3. /\ aged.hwm = read.hwm /\ aged.state = read.state /\ aged.alertedState = read.alertedState
      /\ aged.since = Older(read.since) /\ aged.alerted = Older(read.alerted)
  <2> HIDE DEF read
  <2> QED
    BY <1>1 DEF Row
<1> HIDE DEF aged
<1>4. /\ run'[r].at = run[r].at /\ run'[r].shared = run[r].shared /\ run'[r].read = aged
      /\ run'[r].price = run[r].price /\ run'[r].collapsed = run[r].collapsed
  BY <1>1, <1>2 DEF RunRecord
<1> QED
  BY <1>3, <1>4

\* --- Types -----------------------------------------------------------------------

LEMMA InitTypes == Init => TypeOK
<1> SUFFICES ASSUME Init PROVE TypeOK
  OBVIOUS
<1>1. row \in Row /\ run \in [Run -> RunRecord]
  BY IdleType DEF Init
<1>2. outlier \in [count : 0 .. MaxRejected, age : Age] /\ market \in Level /\ budget \in Budget
  BY PriceAssumption DEF Init, Age
<1> QED
  BY <1>1, <1>2 DEF Init, TypeOK, RunRecord, Feeds, None

\* A run's record keeps its type, whatever a step puts into it.
LEMMA ReturnType ==
    ASSUME TypeOK, NEW r \in Run, Return(r)
    PROVE  run' \in [Run -> RunRecord] /\ ticking' \in BOOLEAN /\ detached' \subseteq Run
BY IdleType DEF TypeOK, Return, RunRecord

LEMMA GoType ==
    ASSUME TypeOK, NEW r \in Run, NEW p \in Places, Go(r, p)
    PROVE  run' \in [Run -> RunRecord]
BY DEF TypeOK, Go, RunRecord

LEMMA CloseType ==
    ASSUME TypeOK, NEW r \in Run, Close(r)
    PROVE  /\ run' \in [Run -> RunRecord] /\ ticking' \in BOOLEAN /\ detached' \subseteq Run
           /\ row' \in Row /\ budget' \in Budget
<1>1. budget' \in Budget
  BY DEF Close, TypeOK
<1>2. row' \in Row
  BY DEF Close, TypeOK, Row
<1> QED
  BY ReturnType, <1>1, <1>2 DEF Close

LEMMA CloseFailsType ==
    ASSUME TypeOK, NEW r \in Run, CloseFails(r)
    PROVE  /\ run' \in [Run -> RunRecord] /\ ticking' \in BOOLEAN /\ detached' \subseteq Run
           /\ row' \in Row /\ budget' \in Budget
<1>1. budget' \in Budget
  BY SpendType DEF CloseFails, TypeOK
<1>2. PICK route \in Routes : row' = [row EXCEPT !.route = route]
  BY DEF CloseFails
<1>3. row' \in Row
  BY <1>2 DEF TypeOK, Row
<1> QED
  BY ReturnType, <1>1, <1>3 DEF CloseFails

LEMMA PricedType ==
    ASSUME TypeOK, NEW r \in Run, NEW level \in Level, Priced(r, level)
    PROVE  run' \in [Run -> RunRecord] /\ row' \in Row /\ told' \in Age \cup {None}
<1>1. run[r] \in RunRecord /\ run[r].read.hwm \in Level
  BY DEF TypeOK, RunRecord, Row
<1>2. [Fresh EXCEPT !.hwm = run[r].read.hwm] \in Row
  BY <1>1, IdleType DEF Row
<1>3. run' \in [Run -> RunRecord]
  BY <1>1, <1>2 DEF TypeOK, Priced, RunRecord, Places
<1>4. row \in Row /\ told \in Age \cup {None}
  BY DEF TypeOK
<1>5. CASE UNCHANGED <<row, told>>
  BY <1>3, <1>4, <1>5
<1>6. CASE /\ row' = [row EXCEPT !.state = "NORMAL", !.since = None, !.alerted = None,
                                 !.alertedState = "NORMAL"]
           /\ told' = None
  <2>1. row' \in Row
    BY <1>4, <1>6 DEF Row, State
  <2> QED
    BY <1>3, <1>6, <2>1
<1> QED
  BY <1>5, <1>6 DEF Priced, Clear

LEMMA TypeStep ==
    ASSUME TypeOK, [Next]_vars
    PROVE  TypeOK'
<1> USE PriceAssumption DEF World
<1>0. /\ row \in Row /\ run \in [Run -> RunRecord] /\ ticking \in BOOLEAN /\ detached \subseteq Run
      /\ outlier \in [count : 0 .. MaxRejected, age : Age] /\ market \in Level /\ feed \in Feeds
      /\ emptied \in BOOLEAN /\ budget \in Budget /\ moved \in BOOLEAN /\ trusted \in BOOLEAN /\ told \in Age \cup {None}
  BY DEF TypeOK, RunRecord
<1>n. NoOutlier \in [count : 0 .. MaxRejected, age : Age]
  BY DEF NoOutlier, Age
<1>p. ASSUME NEW r \in Run PROVE run[r] \in RunRecord
  BY <1>0
<1> SUFFICES /\ row' \in Row /\ run' \in [Run -> RunRecord] /\ ticking' \in BOOLEAN /\ detached' \subseteq Run
             /\ outlier' \in [count : 0 .. MaxRejected, age : Age] /\ market' \in Level /\ feed' \in Feeds
             /\ emptied' \in BOOLEAN /\ budget' \in Budget /\ moved' \in BOOLEAN /\ trusted' \in BOOLEAN /\ told' \in Age \cup {None}
  BY DEF TypeOK, RunRecord
<1>1. CASE \E r \in Run : Tick(r)
  <2> PICK r \in Run : Tick(r)
    BY <1>1
  <2>0. [row EXCEPT !.route = "ok"] \in Row
    BY <1>0 DEF Row, Routes
  <2>1. [Idle EXCEPT !.at = "balance", !.read = [row EXCEPT !.route = "ok"], !.shared = (detached # {})] \in RunRecord
    BY <1>0, <2>0, IdleType DEF RunRecord, Places
  <2>2. \A s \in Run : [run[s] EXCEPT !.shared = Running(s)] \in RunRecord
    <3>1. ASSUME NEW s \in Run, NEW t \in BOOLEAN PROVE [run[s] EXCEPT !.shared = t] \in RunRecord
      BY <1>p DEF RunRecord
    <3> QED
      BY <3>1 DEF Running
  <2> QED
    BY <1>0, <2>1, <2>2 DEF Tick
<1>2. CASE \E r \in Run : Watchdog(r)
  <2> PICK r \in Run : Watchdog(r)
    BY <1>2
  <2>1. budget' \in Budget
    BY <1>0, SpendType DEF Watchdog
  <2> QED
    BY <1>0, <2>1 DEF Watchdog
<1>3. CASE \E r \in Run : Hang(r)
  <2> PICK r \in Run : Hang(r)
    BY <1>3
  <2>1. budget' \in Budget
    BY <1>0, SpendType DEF Hang
  <2>2. run' \in [Run -> RunRecord]
    BY GoType DEF Hang, Places
  <2> QED
    BY <1>0, <2>1, <2>2 DEF Hang
<1>4. ASSUME NEW r \in Run, Balance(r) PROVE TypeOK'
  <2>1. CASE Go(r, "value") /\ UNCHANGED <<row, ticking, detached, outlier>>
    <3>1. run' \in [Run -> RunRecord]
      BY <2>1, GoType DEF Places
    <3>2. budget' \in Budget
      BY <1>0, <1>4, SpendType DEF Balance, Closing, Close, CloseFails
    <3> QED
      BY <1>0, <1>4, <2>1, <3>1, <3>2 DEF Balance, TypeOK, RunRecord
  <2>2. CASE Closing(r)
    BY <1>0, <1>4, <1>n, <2>2, CloseType, CloseFailsType DEF Closing, Balance, TypeOK, RunRecord
  <2> QED
    BY <1>4, <2>1, <2>2 DEF Balance
<1>5. ASSUME NEW r \in Run, Value(r) PROVE TypeOK'
  <2>1. CASE Go(r, "price") /\ UNCHANGED <<row, ticking, detached, outlier, budget>>
    <3>1. run' \in [Run -> RunRecord]
      BY <2>1, GoType DEF Places
    <3> QED
      BY <1>0, <1>5, <2>1, <3>1 DEF Value, TypeOK, RunRecord
  <2>2. CASE Closing(r)
    BY <1>0, <1>5, <1>n, <2>2, CloseType, CloseFailsType DEF Closing, Value, TypeOK, RunRecord
  <2> QED
    BY <1>5, <2>1, <2>2 DEF Value
<1>6. ASSUME NEW r \in Run, Price(r) PROVE TypeOK'
  <2>1. budget' \in Budget
    BY <1>0, <1>6, SpendType DEF Price
  <2>2. /\ run' \in [Run -> RunRecord] /\ row' \in Row /\ told' \in Age \cup {None}
        /\ ticking' \in BOOLEAN /\ detached' \subseteq Run
    <3>1. CASE (\E level \in Level : Priced(r, level)) /\ UNCHANGED <<ticking, detached>>
      BY <1>0, <3>1, PricedType
    <3>2. CASE Go(r, "missing") /\ UNCHANGED <<row, told, ticking, detached>>
      BY <1>0, <3>2, GoType DEF Places
    <3>3. CASE Return(r) /\ UNCHANGED <<row, told>>
      BY <1>0, <3>3, ReturnType
    <3> QED
      BY <1>0, <1>6, <3>1, <3>2, <3>3 DEF Price
  <2> QED
    BY <1>0, <1>6, <2>1, <2>2 DEF Price, TypeOK, RunRecord
<1>7. ASSUME NEW r \in Run, Missing(r) PROVE TypeOK'
  <2>2. run' \in [Run -> RunRecord] /\ row' \in Row /\ told' \in Age \cup {None}
    <3>1. CASE Priced(r, market)
      BY <1>0, <3>1, PricedType
    <3>2. CASE Go(r, "classify") /\ UNCHANGED <<row, told>>
      BY <1>0, <3>2, GoType DEF Places
    <3> QED
      BY <1>7, <3>1, <3>2 DEF Missing
  <2> QED
    BY <1>0, <1>7, <2>2 DEF Missing, TypeOK, RunRecord
<1>8. ASSUME NEW r \in Run, Classify(r) PROVE TypeOK'
  <2>1. PICK found \in {"PRICE_UNAVAILABLE", "NO_SELL_ROUTE"} :
           LET read == run[r].read
               now == Effective(read, found)
           IN /\ row' = IF read.state # now \/ read.since = None
                        THEN [row EXCEPT !.state = now, !.since = Elapsed(read)] ELSE row
              /\ run' = [run EXCEPT ![r].at = "alert",
                                    ![r].read = [read EXCEPT !.state = now, !.since = Elapsed(read)]]
    BY <1>8 DEF Classify
  <2> DEFINE read == run[r].read
             now == Effective(read, found)
  <2>2. read \in Row /\ run[r] \in RunRecord
    BY <1>0 DEF RunRecord
  <2>3. now \in State /\ Elapsed(read) \in Age
    BY <2>2 DEF Effective, State, Elapsed, Row, Age, None
  <2>4. [read EXCEPT !.state = now, !.since = Elapsed(read)] \in Row
    BY <2>2, <2>3 DEF Row
  <2>5. [row EXCEPT !.state = now, !.since = Elapsed(read)] \in Row
    BY <1>0, <2>3 DEF Row
  <2> HIDE DEF read, now
  <2>6. row' \in Row
    BY <1>0, <2>1, <2>5 DEF read, now
  <2>7. run' \in [Run -> RunRecord]
    BY <1>0, <2>1, <2>2, <2>4 DEF RunRecord, Places, read, now
  <2> QED
    BY <1>0, <1>8, <2>6, <2>7 DEF Classify, TypeOK, RunRecord
<1>9. ASSUME NEW r \in Run, Alert(r) PROVE TypeOK'
  <2>1. CASE Due(run[r].read)
    <3>1. run' \in [Run -> RunRecord]
      BY <1>9, <2>1, GoType DEF Alert, Places
    <3>2. row' = [row EXCEPT !.alerted = 0, !.alertedState = run[r].read.state]
      BY <1>9, <2>1 DEF Alert
    <3>3. run[r].read.state \in State
      BY <1>0 DEF RunRecord, Row
    <3>z. 0 \in Age
      BY DEF Age
    <3>4. row' \in Row
      BY <1>0, <3>2, <3>3, <3>z DEF Row
    <3> QED
      BY <1>0, <1>9, <2>1, <3>1, <3>4 DEF Alert, TypeOK, RunRecord
  <2>2. CASE ~Due(run[r].read)
    BY <1>0, <1>9, <2>2, ReturnType DEF Alert, TypeOK, RunRecord
  <2> QED
    BY <2>1, <2>2
<1>10. ASSUME NEW r \in Run, Notify(r) PROVE TypeOK'
  BY <1>0, <1>10, ReturnType DEF Notify, TypeOK, RunRecord, Age
<1>11. ASSUME NEW r \in Run, Check(r) PROVE TypeOK'
  <2>1. PICK collapsed \in BOOLEAN, next \in {"decide", "hard", "reject"} :
           run' = [run EXCEPT ![r].at = next, ![r].collapsed = collapsed]
    BY <1>0, <1>11 DEF Check, Collapses
  <2>p. run[r] \in RunRecord
    BY <1>0
  <2>2. run' \in [Run -> RunRecord]
    BY <1>0, <2>1, <2>p DEF RunRecord, Places
  <2>3. outlier' \in [count : 0 .. MaxRejected, age : Age]
    BY <1>0, <1>11, <1>n DEF Check, Collapses
  <2> QED
    BY <1>0, <1>11, <2>2, <2>3 DEF Check, Collapses, TypeOK, RunRecord
<1>12. ASSUME NEW r \in Run, Hard(r) PROVE TypeOK'
  <2>t. trusted' \in BOOLEAN
    BY <1>0, <1>12 DEF Hard, Answers
  <2>1. CASE (Close(r) \/ CloseFails(r)) /\ outlier' = NoOutlier
    BY <1>0, <1>12, <1>n, <2>1, <2>t, CloseType, CloseFailsType DEF Hard, Answers, TypeOK, RunRecord
  <2>2. CASE Go(r, "reject") /\ UNCHANGED <<row, ticking, detached, outlier, budget>>
    <3>1. run' \in [Run -> RunRecord]
      BY <2>2, GoType DEF Places
    <3> QED
      BY <1>0, <1>12, <2>2, <2>t, <3>1 DEF Hard, Answers, TypeOK, RunRecord
  <2> QED
    BY <1>12, <2>1, <2>2 DEF Hard, Answers
<1>13. ASSUME NEW r \in Run, Reject(r) PROVE TypeOK'
  <2> DEFINE count == IF outlier.count = MaxRejected THEN MaxRejected ELSE outlier.count + 1
             age == IF outlier.count = 0 THEN 0 ELSE outlier.age
  <2>1. count \in 0 .. MaxRejected /\ age \in Age
    BY <1>0 DEF Age
  <2>2. outlier' = [count |-> count, age |-> age]
    BY <1>13 DEF Reject
  <2>3. CASE run' = [run EXCEPT ![r].at = "probe", ![r].forced = (age >= 1)] /\ UNCHANGED <<ticking, detached>>
    <3>p. run[r] \in RunRecord /\ (age >= 1) \in BOOLEAN
      BY <1>0
    <3> HIDE DEF age
    <3>1. run' \in [Run -> RunRecord]
      BY <1>0, <2>3, <3>p DEF RunRecord, Places
    <3> QED
      BY <1>0, <1>13, <2>1, <2>2, <2>3, <3>1 DEF Reject, TypeOK, RunRecord
  <2>4. CASE Return(r)
    BY <1>0, <1>13, <2>1, <2>2, <2>4, ReturnType DEF Reject, TypeOK, RunRecord
  <2> QED
    BY <1>13, <2>3, <2>4 DEF Reject
<1>14. ASSUME NEW r \in Run, Probe(r) PROVE TypeOK'
  <2>1. CASE Go(r, "decide") /\ outlier' = NoOutlier /\ trusted' \in BOOLEAN /\ UNCHANGED <<ticking, detached>>
    <3>1. run' \in [Run -> RunRecord]
      BY <2>1, GoType DEF Places
    <3> QED
      BY <1>0, <1>14, <1>n, <2>1, <3>1 DEF Probe, Answers, TypeOK, RunRecord
  <2>2. CASE Return(r) /\ UNCHANGED <<outlier, trusted>>
    BY <1>0, <1>14, <2>2, ReturnType DEF Probe, Answers, TypeOK, RunRecord
  <2> QED
    BY <1>0, <1>14, <2>1, <2>2 DEF Probe, Answers
<1>15. ASSUME NEW r \in Run, Decide(r) PROVE TypeOK'
  <2>1. CASE Return(r) /\ UNCHANGED <<row, budget>>
    BY <1>0, <1>15, <2>1, ReturnType DEF Decide, TypeOK, RunRecord
  <2>2. CASE Close(r) \/ CloseFails(r)
    BY <1>0, <1>15, <2>2, CloseType, CloseFailsType DEF Decide, TypeOK, RunRecord
  <2>3. CASE /\ run' = [run EXCEPT ![r].at = "raise", ![r].read = [Fresh EXCEPT !.hwm = row.hwm]]
             /\ UNCHANGED <<row, ticking, detached, budget>>
    <3>1. [Fresh EXCEPT !.hwm = row.hwm] \in Row
      BY <1>0, IdleType DEF Row
    <3>p. run[r] \in RunRecord
      BY <1>0
    <3>2. run' \in [Run -> RunRecord]
      BY <1>0, <2>3, <3>1, <3>p DEF RunRecord, Places
    <3> QED
      BY <1>0, <1>15, <2>3, <3>2 DEF Decide, TypeOK, RunRecord
  <2> QED
    BY <1>15, <2>1, <2>2, <2>3 DEF Decide
<1>16. ASSUME NEW r \in Run, Raise(r) PROVE TypeOK'
  <2>1. PICK level \in Level : row' = [row EXCEPT !.hwm = level]
    BY <1>0, <1>16 DEF Raise, RunRecord, Row
  <2>2. row' \in Row
    BY <1>0, <2>1 DEF Row
  <2> QED
    BY <1>0, <1>16, <2>2, ReturnType DEF Raise, TypeOK, RunRecord
<1>17. CASE Elapse
  <2>1. ASSUME NEW a \in Age \cup {None} PROVE Older(a) \in Age \cup {None}
    BY DEF Older, Age, None
  <2>2. row' \in Row
    BY <1>0, <1>17, <2>1 DEF Elapse, Row
  <2>3. \A r \in Run : [run[r] EXCEPT !.read.since = Older(@), !.read.alerted = Older(@)] \in RunRecord
    <3> SUFFICES ASSUME NEW r \in Run
                 PROVE  [run[r] EXCEPT !.read.since = Older(@), !.read.alerted = Older(@)] \in RunRecord
      OBVIOUS
    <3>1. run[r] \in RunRecord /\ run[r].read \in Row
      BY <1>0 DEF RunRecord
    <3>2. Older(run[r].read.since) \in Age \cup {None} /\ Older(run[r].read.alerted) \in Age \cup {None}
      BY <2>1, <3>1 DEF Row
    <3>3. [run[r].read EXCEPT !.since = Older(@), !.alerted = Older(@)] \in Row
      BY <3>1, <3>2 DEF Row
    <3>4. [run[r] EXCEPT !.read.since = Older(@), !.read.alerted = Older(@)]
            = [run[r] EXCEPT !.read = [run[r].read EXCEPT !.since = Older(@), !.alerted = Older(@)]]
      BY <3>1 DEF RunRecord, Row
    <3> QED
      BY <3>1, <3>3, <3>4 DEF RunRecord
  <2>4. run' \in [Run -> RunRecord]
    BY <1>17, <2>3 DEF Elapse
  <2>5. told' \in Age \cup {None}
    BY <1>0, <1>17, <2>1 DEF Elapse
  <2>6. \A a \in Age : Older(a) \in Age
    BY DEF Older, Age, None
  <2>7. outlier' \in [count : 0 .. MaxRejected, age : Age]
    BY <1>0, <1>17, <2>6 DEF Elapse
  <2> QED
    BY <1>0, <1>17, <2>2, <2>4, <2>5, <2>7 DEF Elapse
<1>18. CASE Move
  <2>1. budget' \in Budget
    BY <1>0, <1>18, SpendType DEF Move
  <2> QED
    BY <1>0, <1>18, <2>1 DEF Move
<1>r. CASE RetryIsDue
  <2>1. row' \in Row
    BY <1>0, <1>r DEF RetryIsDue, Row, Routes
  <2> QED
    BY <1>0, <1>r, <2>1 DEF RetryIsDue
<1>19. CASE Restart
  <2>1. budget' \in Budget
    BY <1>0, <1>19, SpendType DEF Restart
  <2> QED
    BY <1>0, <1>19, <1>n, <2>1, IdleType DEF Restart
<1>20. CASE UNCHANGED vars
  BY <1>0, <1>20 DEF vars
<1>21. CASE \E r \in Run : Step(r)
  BY <1>21, <1>4, <1>5, <1>6, <1>7, <1>8, <1>9, <1>10, <1>11, <1>12, <1>13, <1>14, <1>15, <1>16
     DEF Step, TypeOK, RunRecord
<1> QED
  BY <1>1, <1>2, <1>3, <1>17, <1>18, <1>19, <1>20, <1>21, <1>r DEF Next

\* --- Who runs ---------------------------------------------------------------------

\* A tick starts only when the run before it is over or given up, and knows of
\* those given up; the runs it joins hear of it.
LEMMA TickShape ==
    ASSUME TypeOK, NEW r \in Run, Tick(r)
    PROVE  /\ run'[r] = [Idle EXCEPT !.at = "balance", !.read = [row EXCEPT !.route = "ok"],
                                   !.shared = (detached # {})]
           /\ \A s \in Run \ {r} :
                 run'[s] = [run[s] EXCEPT !.shared = Running(s)] /\ run'[s].at = run[s].at
                 /\ (~run'[s].shared => ~Running(s))
<1>1. /\ run'[r] = [Idle EXCEPT !.at = "balance", !.read = [row EXCEPT !.route = "ok"],
                                   !.shared = (detached # {})]
      /\ \A s \in Run \ {r} : run'[s] = [run[s] EXCEPT !.shared = Running(s)]
  BY DEF TypeOK, Tick
<1>2. ASSUME NEW s \in Run \ {r} PROVE run'[s].at = run[s].at /\ (~run'[s].shared => ~Running(s))
  <2>1. run[s] \in RunRecord
    BY DEF TypeOK, RunRecord
  <2>2. run'[s].at = run[s].at /\ run'[s].shared = Running(s)
    BY <1>1, <2>1 DEF RunRecord
  <2> QED
    BY <2>2
<1> QED
  BY <1>1, <1>2

LEMMA TicksStep ==
    ASSUME TypeOK, Ticks, Alone, [Next]_vars
    PROVE  Ticks' /\ Alone'
<1>0. run \in [Run -> RunRecord] /\ detached \subseteq Run
  BY DEF TypeOK, RunRecord
<1>p. \A r \in Run : run[r] \in RunRecord
  BY <1>0
<1>1. ASSUME NEW r \in Run, Tick(r) PROVE Ticks' /\ Alone'
  <2>1. /\ ~ticking /\ ~Running(r) /\ ticking' = TRUE /\ detached' = detached
    BY <1>1 DEF Tick
  <2>2. run'[r].at = "balance" /\ run'[r].shared = (detached # {})
    BY <1>1, TickShape DEF Idle
  <2>3. \A s \in Run \ {r} : run'[s].at = run[s].at /\ (~run'[s].shared => ~Running(s))
    BY <1>1, TickShape
  <2>4. \A s \in Run : Running(s) => s \in detached
    BY <2>1 DEF Ticks
  <2>5. Ticks'
    BY <1>0, <2>1, <2>2, <2>3, <2>4 DEF Ticks, Running
  <2>6. Alone'
    BY <2>1, <2>2, <2>3, <2>4 DEF Alone, Running
  <2> QED
    BY <2>5, <2>6
<1>2. ASSUME NEW r \in Run, Step(r) PROVE Ticks' /\ Alone'
  <2>1. Running(r)
    BY <1>2, StepShape
  <2>2. CASE Busy(r)
    BY <1>0, <2>1, <2>2 DEF Busy, Ticks, Alone, Running
  <2>3. CASE Return(r)
    <3>1. run'[r].at = "idle" /\ \A s \in Run \ {r} : run'[s] = run[s]
      BY <2>3, ReturnShape DEF Idle
    <3>2. detached' = detached \ {r} /\ ticking' = (IF r \in detached THEN ticking ELSE FALSE)
      BY <2>3 DEF Return
    <3>3. Alone'
      BY <3>1 DEF Alone, Running
    <3>4. Ticks'
      BY <1>0, <2>1, <3>1, <3>2 DEF Ticks, Running
    <3> QED
      BY <3>3, <3>4
  <2> QED
    BY <1>2, <2>2, <2>3, StepShape
<1>3. ASSUME NEW r \in Run, Watchdog(r) PROVE Ticks' /\ Alone'
  <2>1. Running(r) /\ r \notin detached /\ detached' = detached \cup {r} /\ ticking' = FALSE /\ run' = run
    BY <1>3 DEF Watchdog
  <2> QED
    BY <1>0, <2>1 DEF Ticks, Alone, Running
<1>4. ASSUME NEW r \in Run, Hang(r) PROVE Ticks' /\ Alone'
  <2>1. Running(r) /\ Busy(r)
    BY <1>0, <1>p, <1>4 DEF Hang, Go, Busy, Running, RunRecord
  <2> QED
    BY <1>0, <2>1 DEF Busy, Ticks, Alone, Running
<1>5. CASE Elapse
  <2>1. \A r \in Run : run'[r].at = run[r].at /\ run'[r].shared = run[r].shared
    BY <1>p, <1>5 DEF Elapse, RunRecord
  <2>2. ticking' = ticking /\ detached' = detached
    BY <1>5 DEF Elapse
  <2> QED
    BY <1>0, <2>1, <2>2 DEF Ticks, Alone, Running
<1>6. CASE Restart
  <2>1. \A r \in Run : run'[r].at = "idle"
    BY <1>6 DEF Restart, Idle
  <2> QED
    BY <1>6, <2>1 DEF Restart, Ticks, Alone, Running
<1>7. CASE Move \/ RetryIsDue
  BY <1>7 DEF Move, RetryIsDue, Ticks, Alone, Running
<1>8. CASE UNCHANGED vars
  BY <1>8 DEF vars, Ticks, Alone, Running
<1> QED
  BY <1>1, <1>2, <1>3, <1>4, <1>5, <1>6, <1>7, <1>8 DEF Next

\* --- What a run knows -----------------------------------------------------------

\* While a run that met no other is at work, every other one rests.
LEMMA OthersRest ==
    ASSUME Alone, NEW r \in Run, Running(r), NEW s \in Run \ {r}
    PROVE  run[s].shared \/ ~Running(s)
BY DEF Alone

LEMMA UpToDateStep ==
    ASSUME TypeOK, Ticks, Alone, \A r \in Run : UpToDate(r), [Next]_vars
    PROVE  \A r \in Run : UpToDate(r)'
<1>0. row \in Row /\ run \in [Run -> RunRecord] /\ detached \subseteq Run
  BY DEF TypeOK, RunRecord
<1>p. \A r \in Run : run[r] \in RunRecord
  BY <1>0
<1>1. ASSUME NEW r \in Run, Tick(r) PROVE \A s \in Run : UpToDate(s)'
  <2>1. row' = row
    BY <1>1 DEF Tick
  <2>2. run'[r].read = [row EXCEPT !.route = "ok"] /\ run'[r].at = "balance"
    BY <1>1, TickShape DEF Idle
  <2>3. \A s \in Run \ {r} : run'[s].at = run[s].at /\ (~run'[s].shared => ~Running(s))
    BY <1>1, TickShape
  <2>4. UpToDate(r)'
    BY <1>0, <2>1, <2>2 DEF UpToDate, SameOutage, At, Row
  <2>5. ASSUME NEW s \in Run \ {r} PROVE UpToDate(s)'
    BY <2>3 DEF UpToDate, At, Running, Reading
  <2> QED
    BY <2>4, <2>5
<1>2. ASSUME NEW r \in Run, Step(r) PROVE \A s \in Run : UpToDate(s)'
  <2>1. Running(r)
    BY <1>2, StepShape
  <2>2. ASSUME NEW s \in Run \ {r} PROVE UpToDate(s)'
    <3>1. run'[s] = run[s]
      BY <1>2, StepShape, ReturnShape DEF Busy
    <3> QED
      BY <2>1, <3>1, OthersRest DEF UpToDate, At, Running, Reading
  <2> SUFFICES UpToDate(r)'
    BY <2>2
  <2>3. CASE Return(r)
    BY <2>3, ReturnShape DEF UpToDate, At, Idle, Reading
  <2>4. run[r] \in RunRecord
    BY <1>0
  <2>5. ASSUME Go(r, "value") \/ Go(r, "price"), run[r].at \in Reading, row' = row PROVE UpToDate(r)'
    BY <1>0, <2>4, <2>5 DEF Go, UpToDate, SameOutage, At, RunRecord, Reading
  <2>6. CASE Balance(r)
    BY <2>3, <2>5, <2>6 DEF Balance, Closing, Close, CloseFails, At, Reading
  <2>7. CASE Value(r)
    BY <2>3, <2>5, <2>7 DEF Value, Closing, Close, CloseFails, At, Reading
  <2>8. ASSUME NEW level, Priced(r, level) PROVE UpToDate(r)'
    <3>1. run'[r].at = "check"
      BY <2>4, <2>8, PricedShape DEF RunRecord
    <3> QED
      BY <3>1 DEF UpToDate, At, Reading
  <2>9. ASSUME Go(r, "missing") \/ Go(r, "classify"), run[r].at \in Reading, row' = row PROVE UpToDate(r)'
    BY <1>0, <2>4, <2>9 DEF Go, UpToDate, SameOutage, At, RunRecord, Reading
  <2>10. CASE Price(r)
    BY <2>3, <2>8, <2>9, <2>10 DEF Price, At, Reading
  <2>11. CASE Missing(r)
    BY <2>8, <2>9, <2>11 DEF Missing, At, Reading
  <2>12. CASE Classify(r)
    <3> DEFINE read == run[r].read
    <3>1. PICK found \in {"PRICE_UNAVAILABLE", "NO_SELL_ROUTE"} :
             LET now == Effective(read, found)
             IN /\ row' = IF read.state # now \/ read.since = None
                          THEN [row EXCEPT !.state = now, !.since = Elapsed(read)] ELSE row
                /\ run' = [run EXCEPT ![r].at = "alert",
                                      ![r].read = [read EXCEPT !.state = now, !.since = Elapsed(read)]]
      BY <2>12 DEF Classify
    <3> DEFINE now == Effective(read, found)
    <3>2. now # "NORMAL"
      BY DEF Effective
    <3>3. read \in Row
      BY <2>4 DEF RunRecord
    <3>4. run'[r] = [run[r] EXCEPT !.at = "alert", !.read = [read EXCEPT !.state = now, !.since = Elapsed(read)]]
      BY <1>0, <2>4, <3>1 DEF RunRecord
    <3> HIDE DEF now
    <3>5. /\ run'[r].at = "alert" /\ run'[r].shared = run[r].shared
          /\ run'[r].read.state = now /\ run'[r].read.since = Elapsed(read)
          /\ run'[r].read.alerted = read.alerted /\ run'[r].read.alertedState = read.alertedState
      <4>1. [read EXCEPT !.state = now, !.since = Elapsed(read)].state = now
        BY <3>3 DEF Row
      <4>2. [read EXCEPT !.state = now, !.since = Elapsed(read)].since = Elapsed(read)
        BY <3>3 DEF Row
      <4>3. /\ [read EXCEPT !.state = now, !.since = Elapsed(read)].alerted = read.alerted
            /\ [read EXCEPT !.state = now, !.since = Elapsed(read)].alertedState = read.alertedState
        BY <3>3 DEF Row
      <4>4. /\ run'[r].at = "alert" /\ run'[r].shared = run[r].shared
            /\ run'[r].read = [read EXCEPT !.state = now, !.since = Elapsed(read)]
        BY <2>4, <3>4 DEF RunRecord
      <4> QED
        BY <4>1, <4>2, <4>3, <4>4
    <3>6. CASE read.state # now \/ read.since = None
      <4>1. row' = [row EXCEPT !.state = now, !.since = Elapsed(read)]
        BY <3>1, <3>6 DEF now
      <4>2. /\ row'.state = now /\ row'.since = Elapsed(read)
            /\ row'.alerted = row.alerted /\ row'.alertedState = row.alertedState
        BY <1>0, <4>1 DEF Row
      <4> QED
        BY <2>12, <3>5, <4>2 DEF UpToDate, SameOutage, At, Classify, Reading
    <3>7. CASE ~(read.state # now \/ read.since = None)
      <4>1. row' = row
        BY <3>1, <3>7 DEF now
      <4>2. Elapsed(read) = read.since /\ read.state = now
        BY <3>2, <3>7 DEF Elapsed
      <4> QED
        BY <2>12, <3>5, <4>1, <4>2 DEF UpToDate, SameOutage, At, Classify, Reading
    <3> QED
      BY <3>6, <3>7
  <2>13. ASSUME run'[r].at \notin Reading \cup {"raise"} PROVE UpToDate(r)'
    BY <2>13 DEF UpToDate, At
  <2>14. CASE Alert(r)
    BY <1>0, <2>3, <2>4, <2>13, <2>14 DEF Alert, Go, RunRecord, Reading
  <2>15. CASE Notify(r)
    BY <2>3, <2>15 DEF Notify
  <2>16. CASE Check(r)
    <3>1. run'[r].at \in {"decide", "hard", "reject"}
      BY <1>0, <2>4, <2>16 DEF Check, Collapses, RunRecord
    <3> QED
      BY <2>13, <3>1 DEF Reading
  <2>17. CASE Hard(r)
    BY <1>0, <2>3, <2>4, <2>13, <2>17 DEF Hard, Answers, Close, CloseFails, Go, RunRecord, Reading
  <2>18. CASE Reject(r)
    <3>1. Return(r) \/ run'[r].at = "probe"
      BY <1>0, <2>4, <2>18 DEF Reject, RunRecord
    <3> QED
      BY <2>3, <2>13, <3>1 DEF Reading
  <2>19. CASE Probe(r)
    <3>1. Return(r) \/ Go(r, "decide")
      BY <2>19 DEF Probe, Answers
    <3> QED
      BY <1>0, <2>3, <2>4, <2>13, <3>1 DEF Go, RunRecord, Reading
  <2>20. CASE Decide(r)
    <3>1. CASE /\ run' = [run EXCEPT ![r].at = "raise", ![r].read = [Fresh EXCEPT !.hwm = row.hwm]]
               /\ row' = row
      <4>1. run'[r].at = "raise" /\ run'[r].read = [Fresh EXCEPT !.hwm = row.hwm]
        BY <1>0, <2>4, <3>1 DEF RunRecord
      <4>2. run'[r].read.hwm = row.hwm
        BY <4>1 DEF Fresh
      <4> QED
        BY <3>1, <4>1, <4>2 DEF UpToDate, At, Reading
    <3> QED
      BY <2>3, <2>20, <3>1 DEF Decide, Close, CloseFails
  <2>21. CASE Raise(r)
    BY <2>3, <2>21 DEF Raise
  <2> QED
    BY <1>2, <2>6, <2>7, <2>10, <2>11, <2>12, <2>14, <2>15, <2>16, <2>17, <2>18, <2>19, <2>20, <2>21 DEF Step
<1>3. ASSUME NEW r \in Run, Watchdog(r) PROVE \A s \in Run : UpToDate(s)'
  BY <1>3 DEF Watchdog, UpToDate, SameOutage, At
<1>4. ASSUME NEW r \in Run, Hang(r) PROVE \A s \in Run : UpToDate(s)'
  <2>1. row' = row /\ \A s \in Run : run'[s] = run[s] \/ run'[s].at = "hung"
    BY <1>0, <1>p, <1>4 DEF Hang, Go, RunRecord
  <2> QED
    BY <2>1 DEF UpToDate, SameOutage, At, Reading
<1>5. CASE Elapse
  <2> SUFFICES ASSUME NEW r \in Run PROVE UpToDate(r)'
    OBVIOUS
  <2>2. row' = [row EXCEPT !.since = Older(@), !.alerted = Older(@)]
    BY <1>5 DEF Elapse
  <2>5. /\ row'.state = row.state /\ row'.alertedState = row.alertedState /\ row'.hwm = row.hwm
        /\ row'.since = Older(row.since) /\ row'.alerted = Older(row.alerted)
    BY <1>0, <2>2 DEF Row
  <2> QED
    BY <1>5, <2>5, ElapseShape DEF UpToDate, SameOutage, At
<1>6. CASE Restart
  BY <1>6 DEF Restart, Idle, UpToDate, At, Reading
<1>7. CASE Move
  BY <1>7 DEF Move, UpToDate, SameOutage, At
<1>9. CASE RetryIsDue
  <2>1. /\ row'.state = row.state /\ row'.alertedState = row.alertedState /\ row'.hwm = row.hwm
        /\ row'.since = row.since /\ row'.alerted = row.alerted /\ run' = run
    BY <1>0, <1>9 DEF RetryIsDue, Row
  <2> QED
    BY <2>1 DEF UpToDate, SameOutage, At
<1>8. CASE UNCHANGED vars
  BY <1>8 DEF vars, UpToDate, SameOutage, At
<1> QED
  BY <1>1, <1>2, <1>3, <1>4, <1>5, <1>6, <1>7, <1>8, <1>9 DEF Next

\* --- What the owner was told ------------------------------------------------------

LEMMA RememberedStep ==
    ASSUME TypeOK, Remembered, [Next]_vars
    PROVE  Remembered'
<1>0. row \in Row
  BY DEF TypeOK
<1>1. CASE UNCHANGED <<row, told>>
  BY <1>1 DEF Remembered
<1>2. ASSUME NEW r \in Run, Close(r) \/ CloseFails(r), told' = told PROVE Remembered'
  <2>1. row'.alerted = row.alerted
    BY <1>0, <1>2 DEF Close, CloseFails, Row
  <2> QED
    BY <1>2, <2>1 DEF Remembered
<1>3. ASSUME NEW r, NEW level, Priced(r, level) PROVE Remembered'
  <2>1. UNCHANGED <<row, told>> \/ told' = None
    BY <1>3 DEF Priced, Clear
  <2> QED
    BY <1>1, <2>1 DEF Remembered
<1>4. ASSUME NEW r \in Run, Step(r) PROVE Remembered'
  <2>1. CASE Value(r)
    BY <1>1, <1>2, <2>1 DEF Value, Closing
  <2>2. CASE Price(r)
    BY <1>1, <1>3, <2>2 DEF Price
  <2>3. CASE Missing(r)
    BY <1>1, <1>3, <2>3 DEF Missing
  <2>4. CASE Classify(r)
    <3>1. row' = row \/ \E now, age : row' = [row EXCEPT !.state = now, !.since = age]
      BY <2>4 DEF Classify
    <3>2. row'.alerted = row.alerted
      BY <1>0, <3>1 DEF Row
    <3> QED
      BY <2>4, <3>2 DEF Classify, Remembered
  <2>5. CASE Alert(r)
    <3>1. CASE Due(run[r].read)
      <4>1. row' = [row EXCEPT !.alerted = 0, !.alertedState = run[r].read.state]
        BY <2>5, <3>1 DEF Alert
      <4>2. row'.alerted = 0
        BY <1>0, <4>1 DEF Row
      <4> QED
        BY <4>2 DEF Remembered, None
    <3>2. CASE ~Due(run[r].read)
      BY <1>1, <2>5, <3>2 DEF Alert
    <3> QED
      BY <3>1, <3>2
  <2>6. CASE Notify(r)
    BY <2>6 DEF Notify, Remembered
  <2>7. CASE Hard(r)
    BY <1>1, <1>2, <2>7 DEF Hard, Answers
  <2>8. CASE Decide(r)
    BY <1>1, <1>2, <2>8 DEF Decide
  <2>9. CASE Raise(r)
    <3>1. \E level : row' = [row EXCEPT !.hwm = level]
      BY <2>9 DEF Raise
    <3>2. row'.alerted = row.alerted
      BY <1>0, <3>1 DEF Row
    <3> QED
      BY <2>9, <3>2 DEF Raise, Remembered
  <2>10. CASE Check(r) \/ Reject(r) \/ Probe(r)
    BY <1>1, <2>10 DEF Check, Collapses, Reject, Probe, Answers
  <2>11. CASE Balance(r)
    BY <1>1, <1>2, <2>11 DEF Balance, Closing
  <2> QED
    BY <1>4, <2>1, <2>2, <2>3, <2>4, <2>5, <2>6, <2>7, <2>8, <2>9, <2>10, <2>11 DEF Step
<1>5. CASE Elapse
  <2>1. row'.alerted = Older(row.alerted) /\ told' = Older(told)
    BY <1>0, <1>5 DEF Elapse, Row
  <2>2. row.alerted \in Age \cup {None}
    BY <1>0 DEF Row
  <2> QED
    BY <2>1, <2>2 DEF Remembered, Older, Age, None
<1>6. CASE \E r \in Run : Tick(r) \/ Watchdog(r) \/ Hang(r)
  BY <1>1, <1>6 DEF Tick, Watchdog, Hang
<1>7. CASE Move \/ Restart \/ UNCHANGED vars
  BY <1>1, <1>7 DEF Move, Restart, vars
<1>8. CASE RetryIsDue
  <2>1. row'.alerted = row.alerted /\ told' = told
    BY <1>0, <1>8 DEF RetryIsDue, Row
  <2> QED
    BY <2>1 DEF Remembered
<1> QED
  BY <1>4, <1>5, <1>6, <1>7, <1>8 DEF Next

\* --- What is decided on -----------------------------------------------------------

LEMMA StillStep ==
    ASSUME TypeOK, Still, \A r \in Run : Low(r), [Next]_vars
    PROVE  Still' /\ \A r \in Run : Low(r)'
<1> USE PriceAssumption
<1>0. row \in Row /\ run \in [Run -> RunRecord] /\ market \in Level
  BY DEF TypeOK, RunRecord
<1>p. \A r \in Run : run[r] \in RunRecord /\ run[r].read \in Row /\ run[r].price \in Level
  BY <1>0 DEF RunRecord
<1>1. ASSUME NEW r \in Run, Step(r) PROVE Still' /\ \A s \in Run : Low(s)'
  <2> DEFINE Kept == /\ run'[r].at = "hard" => run'[r].price < Entry
                     /\ ~moved /\ ~trusted' /\ ~emptied =>
                           ~trusted /\ row'.open /\ row'.hwm = Entry /\ Entered(r)'
  <2>1. market' = market /\ moved' = moved /\ emptied' = emptied /\ \A s \in Run \ {r} : run'[s] = run[s]
    <3>1. UNCHANGED World
      BY <1>1 DEF Step, Balance, Value, Price, Missing, Classify, Alert, Notify, Check, Collapses, Hard,
                  Answers, Reject, Probe, Decide, Raise
    <3> QED
      BY <1>1, <3>1, StepShape, ReturnShape DEF Busy, World
  <2>2. SUFFICES Kept
    <3>1. ASSUME NEW s \in Run \ {r}, ~moved, ~emptied, ~trusted PROVE Entered(s)'
      BY <2>1, <3>1 DEF Still, Entered
    <3>2. Still'
      BY <2>1, <3>1 DEF Still
    <3> QED
      BY <2>1, <3>2 DEF Low, At
  <2>3. run[r] \in RunRecord /\ run[r].read \in Row /\ run[r].price \in Level
    BY <1>p
  <2>4. ~moved => /\ market = Entry
                  /\ ~trusted /\ ~emptied => row.open /\ row.hwm = Entry /\ Entered(r)
    BY DEF Still
  <2>5. ASSUME Return(r), ~moved /\ ~trusted' /\ ~emptied => ~trusted /\ row'.open /\ row'.hwm = Entry PROVE Kept
    BY <2>5, ReturnShape DEF Idle, Fresh, Entered
  <2>6. ASSUME NEW p \in Places \ {"check", "decide", "raise", "hard"}, Go(r, p), row' = row, trusted' = trusted
        PROVE  Kept
    <3>1. /\ run'[r].at = p /\ run'[r].read = run[r].read
      BY <1>0, <2>3, <2>6 DEF Go, RunRecord
    <3> QED
      BY <2>4, <2>6, <3>1 DEF Entered
  <2>7. ASSUME NEW level \in Level, Priced(r, level), trusted' = trusted,
               ~moved => level = Entry \/ ~Plausible(Entry, level)
        PROVE  Kept
    <3>1. /\ run'[r].at = "check" /\ run'[r].price = level
          /\ run'[r].read = [Fresh EXCEPT !.hwm = run[r].read.hwm]
      <4>1. run'[r] = [run[r] EXCEPT !.at = "check", !.price = level,
                                     !.read = [Fresh EXCEPT !.hwm = run[r].read.hwm]]
        BY <2>7, PricedShape
      <4> DEFINE fresh == [Fresh EXCEPT !.hwm = run[r].read.hwm]
      <4>2. run'[r] = [run[r] EXCEPT !.at = "check", !.price = level, !.read = fresh]
        BY <4>1
      <4> HIDE DEF fresh
      <4>3. run'[r].at = "check" /\ run'[r].price = level /\ run'[r].read = fresh
        BY <2>3, <4>2 DEF RunRecord
      <4>4. run'[r].collapsed = run[r].collapsed
        BY <2>3, <4>2 DEF RunRecord
      <4> QED
        BY <4>3, <4>4 DEF fresh
    <3>2. run'[r].read.hwm = run[r].read.hwm
      BY <3>1 DEF Fresh
    <3>3. row'.open = row.open /\ row'.hwm = row.hwm
      BY <1>0, <2>7 DEF Priced, Clear, Row
    <3> QED
      BY <2>4, <2>7, <3>1, <3>2, <3>3 DEF Entered
  <2>f. ASSUME CloseFails(r), trusted' = trusted PROVE Kept
    <3>1. row'.open = row.open /\ row'.hwm = row.hwm /\ row.open
      BY <1>0, <2>f DEF CloseFails, Row
    <3> QED
      BY <2>4, <2>5, <2>f, <3>1 DEF CloseFails
  <2>8. CASE Balance(r)
    BY <2>5, <2>6, <2>8, <2>f DEF Balance, Closing, Close, Places
  <2>9. CASE Value(r)
    BY <1>0, <2>4, <2>5, <2>6, <2>9, <2>f DEF Value, Closing, Close, Places
  <2>10. CASE Price(r)
    <3>1. CASE Priced(r, market)
      BY <1>0, <2>4, <2>7, <2>10, <3>1 DEF Price
    <3>2. CASE \E phantom \in Level : ~Plausible(market, phantom) /\ Priced(r, phantom)
      BY <2>4, <2>7, <2>10, <3>2 DEF Price
    <3>3. CASE Go(r, "missing") /\ UNCHANGED <<row, told>>
      BY <2>6, <2>10, <3>3 DEF Price, Places
    <3>4. CASE Return(r) /\ UNCHANGED <<row, told>>
      BY <2>4, <2>5, <2>10, <3>4 DEF Price
    <3> QED
      BY <2>10, <3>1, <3>2, <3>3, <3>4 DEF Price
  <2>11. CASE Missing(r)
    <3>1. CASE Priced(r, market)
      BY <1>0, <2>4, <2>7, <2>11, <3>1 DEF Missing
    <3>2. CASE Go(r, "classify") /\ UNCHANGED <<row, told>>
      BY <2>6, <2>11, <3>2 DEF Missing, Places
    <3> QED
      BY <2>11, <3>1, <3>2 DEF Missing
  <2>12. CASE Classify(r)
    <3>1. PICK now, age : /\ row' = row \/ row' = [row EXCEPT !.state = now, !.since = age]
                          /\ run' = [run EXCEPT ![r].at = "alert",
                                                ![r].read = [run[r].read EXCEPT !.state = now, !.since = age]]
      BY <2>12 DEF Classify
    <3>2. row'.open = row.open /\ row'.hwm = row.hwm
      BY <1>0, <3>1 DEF Row
    <3>3. run'[r] = [run[r] EXCEPT !.at = "alert", !.read = [run[r].read EXCEPT !.state = now, !.since = age]]
      BY <1>0, <3>1
    <3>4. /\ run'[r].at = "alert"
          /\ run'[r].read = [run[r].read EXCEPT !.state = now, !.since = age]
      BY <2>3, <3>3 DEF RunRecord
    <3>5. [run[r].read EXCEPT !.state = now, !.since = age].hwm = run[r].read.hwm
      BY <2>3 DEF Row
    <3>6. trusted' = trusted
      BY <2>12 DEF Classify
    <3> QED
      BY <2>4, <3>2, <3>4, <3>5, <3>6 DEF Entered
  <2>13. CASE Alert(r)
    <3>1. CASE Due(run[r].read)
      <4>1. row' = [row EXCEPT !.alerted = 0, !.alertedState = run[r].read.state] /\ Go(r, "notify")
            /\ trusted' = trusted
        BY <2>13, <3>1 DEF Alert
      <4>2. row'.open = row.open /\ row'.hwm = row.hwm
        BY <1>0, <4>1 DEF Row
      <4>3. run'[r].at = "notify" /\ run'[r].read = run[r].read
        BY <1>0, <2>3, <4>1 DEF Go, RunRecord
      <4> QED
        BY <2>4, <4>1, <4>2, <4>3 DEF Entered
    <3>2. CASE ~Due(run[r].read)
      BY <2>4, <2>5, <2>13, <3>2 DEF Alert
    <3> QED
      BY <3>1, <3>2
  <2>14. CASE Notify(r)
    BY <2>4, <2>5, <2>14 DEF Notify
  <2>15. CASE Check(r)
    <3>1. PICK collapsed \in BOOLEAN, next \in {"decide", "hard", "reject"} :
             /\ run' = [run EXCEPT ![r].at = next, ![r].collapsed = collapsed]
             /\ next = "decide" => Plausible(run[r].read.hwm, run[r].price)
             /\ next = "hard" => run[r].price < Entry
      BY <2>15 DEF Check, Collapses
    <3>2. run'[r] = [run[r] EXCEPT !.at = next, !.collapsed = collapsed]
      BY <1>0, <3>1
    <3>3. run'[r].at = next /\ run'[r].read = run[r].read /\ run'[r].price = run[r].price
      BY <2>3, <3>2 DEF RunRecord
    <3>5. At(r, "check") /\ UNCHANGED <<row, trusted>>
      BY <2>15 DEF Check, Collapses
    <3> QED
      BY <2>4, <3>1, <3>3, <3>5 DEF Entered, At
  <2>16. CASE Hard(r)
    <3>1. run[r].price < Entry
      BY <2>16 DEF Hard, Answers, Low, At
    <3>2. CASE Go(r, "reject") /\ UNCHANGED <<row, trusted>>
      BY <2>6, <2>16, <3>2 DEF Places
    <3>3. CASE /\ Close(r) \/ CloseFails(r)
               /\ \E answered \in Answers : trusted' = (trusted \/ ~Agreed(r, answered))
      <4>1. PICK answered \in Answers : trusted' = (trusted \/ ~Agreed(r, answered))
        BY <3>3
      <4>2. ~moved => run[r].price # market
        <5>1. run[r].price # Entry
          <6>1. run[r].price \in Nat /\ Entry \in Nat
            BY <2>3, PriceAssumption
          <6> QED
            BY <3>1, <6>1
        <5> QED
          BY <2>4, <5>1
      <4>3. ~moved => ~Agreed(r, answered)
        BY <4>2 DEF Agreed
      <4>4. ~moved => trusted'
        BY <4>1, <4>3
      <4> QED
        BY <2>5, <3>3, <4>4 DEF Close, CloseFails
    <3> QED
      BY <2>16, <3>2, <3>3 DEF Hard
  <2>17. CASE Reject(r)
    <3>1. CASE \E f : run' = [run EXCEPT ![r].at = "probe", ![r].forced = f]
      <4>1. PICK f : run' = [run EXCEPT ![r].at = "probe", ![r].forced = f]
        BY <3>1
      <4>2. run'[r] = [run[r] EXCEPT !.at = "probe", !.forced = f]
        BY <1>0, <4>1
      <4>3. run'[r].at = "probe" /\ run'[r].read = run[r].read
        BY <2>3, <4>2 DEF RunRecord
      <4> QED
        BY <2>4, <2>17, <4>3 DEF Reject, Entered
    <3>2. CASE Return(r)
      BY <2>4, <2>5, <2>17, <3>2 DEF Reject
    <3> QED
      BY <2>17, <3>1, <3>2 DEF Reject
  <2>18. CASE Probe(r)
    <3>1. CASE Return(r) /\ trusted' = trusted
      BY <2>4, <2>5, <2>18, <3>1 DEF Probe, Answers
    <3>2. CASE /\ Go(r, "decide")
               /\ \E answered \in Answers : trusted' = (trusted \/ ~Agreed(r, answered))
      <4>1. /\ run'[r].at = "decide"
            /\ run'[r].read = run[r].read /\ run'[r].price = run[r].price
        BY <1>0, <2>3, <3>2 DEF Go, RunRecord
      <4>2. ~moved /\ ~trusted' => ~trusted /\ run[r].price = Entry
        BY <2>4, <3>2 DEF Agreed
      <4>3. row' = row
        BY <2>18 DEF Probe, Answers
      <4> QED
        BY <2>4, <4>1, <4>2, <4>3 DEF Entered
    <3> QED
      BY <2>18, <3>1, <3>2 DEF Probe, Answers
  <2>19. CASE Decide(r)
    <3>1. At(r, "decide") /\ trusted' = trusted
      BY <2>19 DEF Decide
    <3>2. ~moved /\ ~trusted /\ ~emptied => ~Exits(IF run[r].price > row.hwm THEN run[r].price ELSE row.hwm, run[r].price)
      <4>1. ~moved /\ ~trusted /\ ~emptied => run[r].price = Entry /\ row.hwm = Entry
        BY <2>4, <3>1 DEF Entered, At
      <4>2. ~Exits(Entry, Entry)
        BY PriceAssumption DEF Exits
      <4> QED
        BY <4>1, <4>2
    <3>3. CASE Return(r) /\ row' = row
      BY <2>4, <2>5, <3>1, <3>3
    <3>4. CASE Close(r) /\ Exits(IF run[r].price > row.hwm THEN run[r].price ELSE row.hwm, run[r].price)
      BY <2>5, <3>1, <3>2, <3>4 DEF Close
    <3>5. CASE run' = [run EXCEPT ![r].at = "raise", ![r].read = [Fresh EXCEPT !.hwm = row.hwm]] /\ row' = row
      <4>1. run'[r] = [run[r] EXCEPT !.at = "raise", !.read = [Fresh EXCEPT !.hwm = row.hwm]]
        BY <1>0, <3>5
      <4>2. /\ run'[r].at = "raise" /\ run'[r].price = run[r].price
            /\ run'[r].read = [Fresh EXCEPT !.hwm = row.hwm]
        BY <2>3, <4>1 DEF RunRecord
      <4>3. run'[r].read.hwm = row.hwm
        BY <4>2 DEF Fresh
      <4> QED
        BY <2>4, <3>1, <3>5, <4>2, <4>3 DEF Entered, At
    <3>6. CASE CloseFails(r)
      BY <2>f, <3>1, <3>6
    <3> QED
      BY <2>19, <3>3, <3>4, <3>5, <3>6 DEF Decide
  <2>20. CASE Raise(r)
    <3>1. /\ At(r, "raise") /\ Return(r) /\ trusted' = trusted
          /\ row' = [row EXCEPT !.hwm = IF run[r].price > run[r].read.hwm THEN run[r].price ELSE run[r].read.hwm]
      BY <2>20 DEF Raise
    <3>2. /\ row'.open = row.open
          /\ row'.hwm = IF run[r].price > run[r].read.hwm THEN run[r].price ELSE run[r].read.hwm
      BY <1>0, <3>1 DEF Row
    <3>3. ~moved /\ ~trusted /\ ~emptied => row'.hwm = Entry
      BY <2>4, <3>1, <3>2 DEF Entered, At
    <3> QED
      BY <2>4, <2>5, <3>1, <3>2, <3>3
  <2> HIDE DEF Kept
  <2> QED
    BY <1>1, <2>8, <2>9, <2>10, <2>11, <2>12, <2>13, <2>14, <2>15, <2>16, <2>17, <2>18, <2>19, <2>20 DEF Step
<1>2. ASSUME NEW r \in Run, Tick(r) PROVE Still' /\ \A s \in Run : Low(s)'
  <2>1. run'[r].at = "balance" /\ run'[r].read.hwm = row.hwm
    <3> DEFINE start == [row EXCEPT !.route = "ok"]
               started == [Idle EXCEPT !.at = "balance", !.read = start, !.shared = (detached # {})]
    <3>1. start.hwm = row.hwm
      BY <1>0 DEF Row
    <3> HIDE DEF start
    <3>2. started.at = "balance" /\ started.read = start
      BY DEF Idle
    <3>3. run'[r] = started
      BY <1>2, TickShape DEF start
    <3> HIDE DEF started
    <3> QED
      BY <3>1, <3>2, <3>3
  <2>2. ASSUME NEW s \in Run \ {r}
        PROVE  /\ run'[s].at = run[s].at /\ run'[s].read = run[s].read
               /\ run'[s].price = run[s].price
    <3>1. run[s] \in RunRecord
      BY <1>0
    <3>2. run'[s] = [run[s] EXCEPT !.shared = Running(s)]
      BY <1>2, TickShape
    <3> QED
      BY <3>1, <3>2 DEF RunRecord
  <2>3. UNCHANGED <<row, market, moved, emptied, trusted>>
    BY <1>2 DEF Tick, World
  <2>4. Still'
    BY <2>1, <2>2, <2>3 DEF Still, Entered
  <2> QED
    BY <2>1, <2>2, <2>4 DEF Low, At
<1>3. ASSUME NEW r \in Run, Watchdog(r) PROVE Still' /\ \A s \in Run : Low(s)'
  BY <1>3 DEF Watchdog, World, Still, Entered, Low, At
<1>4. ASSUME NEW r \in Run, Hang(r) PROVE Still' /\ \A s \in Run : Low(s)'
  <2>1. /\ \A s \in Run \ {r} : run'[s] = run[s]
        /\ run'[r].at = "hung" /\ run'[r].read = run[r].read
    <3>1. run[r] \in RunRecord /\ run' = [run EXCEPT ![r].at = "hung"]
      BY <1>0, <1>4 DEF Hang, Go
    <3> QED
      BY <1>0, <3>1 DEF RunRecord
  <2>2. UNCHANGED <<row, market, moved, emptied, trusted>>
    BY <1>4 DEF Hang, World
  <2>3. Still'
    BY <2>1, <2>2 DEF Still, Entered
  <2> QED
    BY <2>1, <2>3 DEF Low, At
<1>5. CASE Elapse
  <2>1. ASSUME NEW r \in Run
        PROVE  /\ run'[r].at = run[r].at /\ run'[r].price = run[r].price
               /\ run'[r].read.hwm = run[r].read.hwm
    BY <1>5, ElapseShape
  <2>2. row'.open = row.open /\ row'.hwm = row.hwm
    BY <1>0, <1>5 DEF Elapse, Row
  <2>3. UNCHANGED <<market, moved, emptied, trusted>>
    BY <1>5 DEF Elapse, World
  <2>4. Still'
    BY <2>1, <2>2, <2>3 DEF Still, Entered
  <2> QED
    BY <2>1, <2>4 DEF Low, At
<1>6. CASE Restart
  BY <1>6 DEF Restart, World, Idle, Fresh, Still, Entered, Low, At
<1>7. CASE Move
  BY <1>7 DEF Move, Still, Entered, Low, At
<1>9. CASE RetryIsDue
  <2>1. row'.open = row.open /\ row'.hwm = row.hwm /\ UNCHANGED <<run, market, moved, emptied, trusted>>
    BY <1>0, <1>9 DEF RetryIsDue, World, Row
  <2> QED
    BY <2>1 DEF Still, Entered, Low, At
<1>8. CASE UNCHANGED vars
  BY <1>8 DEF vars, Still, Entered, Low, At
<1> QED
  BY <1>1, <1>2, <1>3, <1>4, <1>5, <1>6, <1>7, <1>8, <1>9 DEF Next
-----------------------------------------------------------------------------
\* The run that is at work knows the row, who runs, what was told and what the
\* market's price is worth: whatever the runs, the levels and the budget.
THEOREM WatchKept == Spec => []WatchInv
<1>1. Init => WatchInv
  <2> SUFFICES ASSUME Init PROVE WatchInv
    OBVIOUS
  <2>1. \A r \in Run : run[r] = Idle
    BY DEF Init
  <2>2. Ticks /\ Alone
    BY <2>1 DEF Init, Ticks, Alone, Running, Idle
  <2>3. Remembered
    BY DEF Init, Remembered
  <2>4. Still
    BY <2>1 DEF Init, Still, Entered, Idle, Fresh
  <2>5. \A r \in Run : UpToDate(r) /\ Low(r)
    BY <2>1 DEF UpToDate, Low, At, Idle, Reading
  <2> QED
    BY <2>2, <2>3, <2>4, <2>5, InitTypes DEF WatchInv
<1>2. WatchInv /\ [Next]_vars => WatchInv'
  BY TypeStep, TicksStep, UpToDateStep, RememberedStep, StillStep DEF WatchInv
<1> QED
  BY <1>1, <1>2, PTL DEF Spec

\* A row that has been sold has its reason.
LEMMA SaleHasReason == WatchInv => TypeOK /\ NoPhantomSale
BY DEF WatchInv, Still, NoPhantomSale

\* Only one write lowers the mark and only one sets the clock of an outage: each
\* by a run whose read is old, which takes another run beside it.
LEMMA StaleWriteStep ==
    ASSUME WatchInv, [Next]_vars,
           \/ row'.hwm < row.hwm
           \/ row.state # "NORMAL" /\ row'.state # "NORMAL" /\ row'.since < row.since
    PROVE  \E r \in Run : run[r].shared /\ run'[r] # run[r]
<1>0. row \in Row /\ run \in [Run -> RunRecord]
  BY DEF WatchInv, TypeOK, RunRecord
<1>l. \A level \in Level : level \in Int
  BY PriceAssumption
<1>a. row.hwm \in Int /\ row.since \in Int
  <2>1. row.hwm \in Level /\ row.since \in Age \cup {None}
    BY <1>0 DEF Row
  <2>2. row.hwm \in Int
    BY <2>1, <1>l
  <2>3. row.since \in Int
    BY <2>1 DEF Age, None
  <2> QED
    BY <2>2, <2>3
<1>1. row' # row
  BY <1>a
<1>2. ASSUME row'.hwm = row.hwm, row'.since = row.since PROVE FALSE
  BY <1>a, <1>2
<1>3. ASSUME NEW r \in Run, Close(r) \/ CloseFails(r) PROVE FALSE
  BY <1>0, <1>1, <1>2, <1>3 DEF Close, CloseFails, Row
<1>4. ASSUME NEW r, NEW level, Priced(r, level) PROVE FALSE
  <2>1. row' = [row EXCEPT !.state = "NORMAL", !.since = None, !.alerted = None, !.alertedState = "NORMAL"]
    BY <1>1, <1>4 DEF Priced, Clear
  <2>2. row'.state = "NORMAL" /\ row'.hwm = row.hwm
    BY <1>0, <2>1 DEF Row
  <2> QED
    BY <1>a, <2>2
<1>5. CASE Elapse
  <2>1. row' = [row EXCEPT !.since = Older(@), !.alerted = Older(@)]
    BY <1>5 DEF Elapse
  <2>2. row'.hwm = row.hwm /\ row'.since = Older(row.since)
    BY <1>0, <2>1 DEF Row
  <2>3. row.since \in Age \cup {None}
    BY <1>0 DEF Row
  <2>4. row'.since >= row.since
    BY <2>2, <2>3 DEF Older, Age, None
  <2> QED
    BY <1>a, <2>2, <2>3, <2>4 DEF Older, Age, None
<1>6. ASSUME NEW r \in Run, Step(r) PROVE run[r].shared /\ run'[r] # run[r]
  <2>1. Running(r) /\ UpToDate(r) /\ run[r] \in RunRecord
    BY <1>0, <1>6, StepShape DEF WatchInv
  <2>2. CASE Classify(r)
    <3>1. PICK found \in {"PRICE_UNAVAILABLE", "NO_SELL_ROUTE"} :
             LET read == run[r].read
                 now == Effective(read, found)
             IN /\ row' = IF read.state # now \/ read.since = None
                          THEN [row EXCEPT !.state = now, !.since = Elapsed(read)] ELSE row
                /\ run' = [run EXCEPT ![r].at = "alert",
                                      ![r].read = [read EXCEPT !.state = now, !.since = Elapsed(read)]]
      BY <2>2 DEF Classify
    <3>2. row' = [row EXCEPT !.state = Effective(run[r].read, found), !.since = Elapsed(run[r].read)]
      BY <1>1, <3>1
    <3>3. row'.hwm = row.hwm /\ row'.since = Elapsed(run[r].read)
      BY <1>0, <3>2 DEF Row
    <3>4. row.state # "NORMAL" /\ Elapsed(run[r].read) < row.since
      BY <1>a, <3>3
    <3>5. ~run[r].shared => run[r].read.state = row.state /\ run[r].read.since = row.since
      BY <2>1, <2>2 DEF UpToDate, Classify, At, Reading, SameOutage
    <3>6. row.since \in Age \cup {None}
      BY <1>0 DEF Row
    <3>7. run[r].shared
      BY <3>4, <3>5, <3>6 DEF Elapsed, Age, None
    <3>8. run'[r].at = "alert" /\ run[r].at = "classify"
      BY <1>0, <2>1, <2>2, <3>1 DEF Classify, At, RunRecord
    <3> QED
      BY <3>7, <3>8
  <2>3. CASE Raise(r)
    <3>1. /\ At(r, "raise") /\ Return(r)
          /\ row' = [row EXCEPT !.hwm = IF run[r].price > run[r].read.hwm THEN run[r].price ELSE run[r].read.hwm]
      BY <2>3 DEF Raise
    <3>2. /\ row'.hwm = IF run[r].price > run[r].read.hwm THEN run[r].price ELSE run[r].read.hwm
          /\ row'.since = row.since
      BY <1>0, <3>1 DEF Row
    <3>3. run[r].price \in Int /\ run[r].read.hwm \in Int
      <4>1. run[r].price \in Level /\ run[r].read \in Row
        BY <2>1 DEF RunRecord
      <4>2. run[r].read.hwm \in Level
        BY <4>1 DEF Row
      <4> QED
        BY <4>1, <4>2, <1>l
    <3>4. ~run[r].shared => run[r].read.hwm = row.hwm
      BY <2>1, <3>1 DEF UpToDate
    <3>5. run[r].shared
      BY <1>a, <3>2, <3>3, <3>4
    <3>6. run'[r].at = "idle"
      BY <3>1, ReturnShape DEF Idle, WatchInv
    <3> QED
      BY <3>1, <3>5, <3>6 DEF At
  <2>4. CASE Alert(r)
    <3>1. row' = [row EXCEPT !.alerted = 0, !.alertedState = run[r].read.state]
      BY <1>1, <2>4 DEF Alert
    <3>2. row'.hwm = row.hwm /\ row'.since = row.since
      BY <1>0, <3>1 DEF Row
    <3> QED
      BY <1>2, <3>2
  <2>5. CASE Value(r) \/ Price(r) \/ Missing(r)
    BY <1>1, <1>3, <1>4, <2>5 DEF Value, Closing, Price, Missing
  <2>6. CASE Hard(r) \/ Decide(r)
    BY <1>1, <1>3, <2>6 DEF Hard, Answers, Decide
  <2>7. CASE Notify(r) \/ Check(r) \/ Reject(r) \/ Probe(r)
    BY <1>1, <2>7 DEF Notify, Check, Collapses, Reject, Probe, Answers
  <2>8. CASE Balance(r)
    BY <1>1, <1>3, <2>8 DEF Balance, Closing
  <2> QED
    BY <1>6, <2>2, <2>3, <2>4, <2>5, <2>6, <2>7, <2>8 DEF Step
<1>7. CASE \E r \in Run : Tick(r) \/ Watchdog(r) \/ Hang(r)
  BY <1>1, <1>7 DEF Tick, Watchdog, Hang
<1>8. CASE Move \/ Restart \/ UNCHANGED vars
  BY <1>1, <1>8 DEF Move, Restart, vars
<1>9. CASE RetryIsDue
  BY <1>0, <1>2, <1>9 DEF RetryIsDue, Row
<1> QED
  BY <1>5, <1>6, <1>7, <1>8, <1>9 DEF Next

\* A run that met no other and finds no alert on the row is the first to tell
\* of this outage.
LEMMA AlertStep ==
    ASSUME WatchInv, [Next]_vars, NEW r \in Run,
           At(r, "alert"), run'[r].at = "notify", ~run[r].shared
    PROVE  \/ told \in {None, 2}
           \/ /\ run[r].read.alerted # None
              /\ run[r].read.alertedState # run[r].read.state \/ run[r].read.alerted = 2
<1>0. run \in [Run -> RunRecord]
  BY DEF WatchInv, TypeOK, RunRecord
<1>1. run'[r] # run[r] /\ run'[r].at # "idle" /\ run'[r].at # "hung"
  BY DEF At
<1>2. Alert(r)
  <2>1. ASSUME NEW s \in Run, Step(s) PROVE s = r
    <3>1. CASE Busy(s)
      BY <1>1, <3>1 DEF Busy
    <3>2. CASE Return(s)
      <4>1. \A t \in Run \ {s} : run'[t] = run[t]
        BY <3>2, ReturnShape DEF WatchInv
      <4> QED
        BY <1>1, <4>1
    <3> QED
      BY <2>1, <3>1, <3>2, StepShape DEF WatchInv
  <2>2. CASE \E s \in Run : Step(s)
    <3>1. Step(r)
      BY <2>1, <2>2
    <3>2. ~(Balance(r) \/ Value(r) \/ Price(r) \/ Missing(r) \/ Classify(r))
      BY DEF Balance, Value, Price, Missing, Classify, At
    <3>3. ~(Notify(r) \/ Check(r) \/ Hard(r) \/ Reject(r) \/ Probe(r) \/ Decide(r) \/ Raise(r))
      BY DEF Notify, Check, Collapses, Hard, Answers, Reject, Probe, Decide, Raise, At
    <3> QED
      BY <3>1, <3>2, <3>3 DEF Step
  <2>3. ASSUME NEW s \in Run, Tick(s) PROVE FALSE
    <3>1. s # r
      BY <2>3 DEF Tick, Running, At
    <3> QED
      BY <2>3, <3>1, TickShape DEF WatchInv, At
  <2>4. ASSUME NEW s \in Run, Hang(s) PROVE FALSE
    <3>1. run'[r] = run[r] \/ run'[r].at = "hung"
      BY <1>0, <2>4 DEF Hang, Go, RunRecord
    <3> QED
      BY <1>1, <3>1
  <2>5. ASSUME NEW s \in Run, Watchdog(s) PROVE FALSE
    BY <1>1, <2>5 DEF Watchdog
  <2>6. CASE Elapse
    <3>1. run'[r] = [run[r] EXCEPT !.read.since = Older(@), !.read.alerted = Older(@)]
      BY <2>6 DEF Elapse
    <3>2. run[r] \in RunRecord
      BY <1>0
    <3>3. run'[r].at = run[r].at
      BY <3>1, <3>2 DEF RunRecord
    <3> QED
      BY <3>3 DEF At
  <2>7. CASE Move \/ RetryIsDue \/ UNCHANGED vars
    BY <1>1, <2>7 DEF Move, RetryIsDue, vars
  <2>8. CASE Restart
    BY <1>1, <2>8 DEF Restart, Idle
  <2> QED
    BY <2>2, <2>3, <2>4, <2>5, <2>6, <2>7, <2>8 DEF Next
<1>3. Due(run[r].read)
  <2>1. ASSUME ~Due(run[r].read) PROVE FALSE
    <3>1. Return(r)
      BY <1>2, <2>1 DEF Alert
    <3> QED
      BY <1>1, <3>1, ReturnShape DEF Idle, WatchInv
  <2> QED
    BY <2>1
<1>4. run[r].read.alerted = row.alerted
  BY DEF WatchInv, UpToDate, SameOutage, At, Reading
<1> QED
  BY <1>3, <1>4 DEF Due, WatchInv, Remembered

\* PriceWatch keeps what it promises: no sale on a phantom price, marks and
\* clocks set back by overlaps only, an outage's alerts in one state apart.
THEOREM WatchSound == Spec => WatchIsSound
<1>1. Spec => [](TypeOK /\ NoPhantomSale)
  BY WatchKept, SaleHasReason, PTL
<1>2. WatchInv /\ [Next]_vars =>
        [(\/ row'.hwm < row.hwm
          \/ row.state # "NORMAL" /\ row'.state # "NORMAL" /\ row'.since < row.since)
         => \E r \in Run : run[r].shared /\ run'[r] # run[r]]_vars
  BY StaleWriteStep
<1>3. Spec => StaleWritesNeedOverlap
  BY <1>2, WatchKept, PTL DEF Spec, StaleWritesNeedOverlap
<1>4. WatchInv /\ [Next]_vars =>
        [\A r \in Run : At(r, "alert") /\ run'[r].at = "notify" /\ ~run[r].shared
           => \/ told \in {None, 2}
              \/ /\ run[r].read.alerted # None
                 /\ run[r].read.alertedState # run[r].read.state \/ run[r].read.alerted = 2]_vars
  BY AlertStep
<1>5. Spec => AlertsAreSpaced
  BY <1>4, WatchKept, PTL DEF Spec, AlertsAreSpaced
<1> QED
  BY <1>1, <1>3, <1>5, PTL DEF WatchIsSound

\* --- The rules of exit --------------------------------------------------------

Market == Prices \cup {100}
ExitReasons == {"take_profit", "stop_loss", "trailing_stop", "time_stop"}

\* What a position carries: the TP1 strategy's stop is the initial one until the
\* first half is sold at a profit, and break-even from then on.
RowSound ==
    /\ pos.mark >= 100
    /\ pos.trailing => user.mode = "tp1" /\ pos.mark >= 150
    /\ user.mode = "tp1" => pos.exit.stop = (IF pos.trailing THEN Breakeven ELSE InitialStop)
    /\ user.mode = "tp1" /\ ~pos.trailing => pos.left = 100
    /\ pos.open => missed \/ pos.mark >= peak

\* Only a tick's rules close a position and say so; only TP1 fills the window.
EndSound ==
    /\ last.at \in Market
    /\ last.did = "closed" \/ pos.why = "emergency" => ~pos.open
    /\ user.mode # "tp1" => samples.n = 0

Promised == CeilingHolds /\ WinnersKeepMost /\ HalfKeepsProfit /\ EmergencyHasCause /\ WindowIsDropped

ExitInv == ExitTypes /\ RowSound /\ EndSound /\ Promised

LEMMA ExitFacts ==
  ASSUME ExitTypes
  PROVE  /\ user \in User /\ pos.open \in BOOLEAN /\ pos.mark \in Market /\ pos.mark \in Nat /\ pos.left \in 0 .. 100
         /\ pos.rungs \in SUBSET DOMAIN Rungs /\ pos.trailing \in BOOLEAN
         /\ pos.exit \in [profit : Nat \cup {Unset}, stop : 0 .. MaxLoss, trail : Nat \cup {Unset}]
         /\ pos.exit.stop \in 0 .. 25
         /\ pos.why \in {"open", "take_profit", "stop_loss", "trailing_stop", "time_stop", "emergency", "manual"}
         /\ price \in Market /\ peak \in Market /\ peak \in Nat
         /\ \A p \in Market : p \in Nat /\ p > 0
         /\ user.moonbag \in Nat /\ MinSamples \in Nat \ {0} /\ Faults \in Nat /\ Troubles \in Nat /\ Moves \in Nat
         /\ faults \in Nat /\ Vol \subseteq Nat
<1>1. /\ Users \subseteq User /\ Prices \subseteq Nat \ {0} /\ MinSamples \in Nat \ {0}
      /\ Moves \in Nat /\ Faults \in Nat /\ Troubles \in Nat /\ Vol \subseteq Nat
  BY ExitAssumption DEF ExitAssumption
<1>2. user \in User /\ user.moonbag \in Nat
  BY <1>1 DEF ExitTypes, User
<1>3. \A p \in Market : p \in Nat /\ p > 0
  BY <1>1 DEF Market
<1>4. /\ pos.open \in BOOLEAN /\ pos.mark \in Market /\ pos.left \in 0 .. 100
      /\ pos.rungs \in SUBSET DOMAIN Rungs /\ pos.trailing \in BOOLEAN
      /\ pos.exit \in [profit : Nat \cup {Unset}, stop : 0 .. MaxLoss, trail : Nat \cup {Unset}]
      /\ pos.why \in {"open", "take_profit", "stop_loss", "trailing_stop", "time_stop", "emergency", "manual"}
  BY DEF ExitTypes, Market
<1>5. pos.exit.stop \in 0 .. 25
  BY <1>4 DEF MaxLoss
<1>6. price \in Market /\ peak \in Market /\ faults \in Nat
  BY <1>1 DEF ExitTypes, Market
<1> QED
  BY <1>1, <1>2, <1>3, <1>4, <1>5, <1>6

LEMMA MostIs == ASSUME NEW a \in Int, NEW b \in Int
                PROVE  Most(a, b) \in {a, b} /\ Most(a, b) >= a /\ Most(a, b) >= b
BY DEF Most

\* The TP1 trail is ten to twenty-five percent, whatever the window reads.
LEMMA Tp1TrailIs == ASSUME NEW reading \in Vol \cup {Unset} PROVE Tp1Trail(reading) \in 100 .. 250
<1>1. reading \in Int
  BY ExitAssumption DEF ExitAssumption, Unset
<1>2. \A ratio \in 5 .. 20 : Clamp(15 * ratio, 100, 250) \in 100 .. 250
  BY DEF Clamp, Least, Most
<1>3. Clamp(2 * reading, 5, 20) \in 5 .. 20
  BY <1>1 DEF Clamp, Least, Most
<1>4. (IF reading = Unset THEN 10 ELSE Clamp(2 * reading, 5, 20)) \in 5 .. 20
  BY <1>3
<1> QED
  BY <1>2, <1>4 DEF Tp1Trail

LEMMA RungsAre == DOMAIN Rungs = 1 .. 3
BY DEF Rungs

LEMMA NextRungIs ==
  ASSUME NEW p \in Int
  PROVE  NextRung(p) = 0 \/ (NextRung(p) \in DOMAIN Rungs /\ NextRung(p) \notin pos.rungs)
<1>1. CASE Reached(p) = {}
  BY <1>1 DEF NextRung
<1>2. CASE Reached(p) # {}
  <2>1. Reached(p) \subseteq 1 .. 3
    BY RungsAre DEF Reached
  <2>2. \E x \in Reached(p) : \A y \in Reached(p) : x <= y
    <3>1. CASE 1 \in Reached(p)
      BY <2>1, <3>1
    <3>2. CASE 1 \notin Reached(p) /\ 2 \in Reached(p)
      BY <2>1, <3>2
    <3>3. CASE 1 \notin Reached(p) /\ 2 \notin Reached(p)
      BY <1>2, <2>1, <3>3
    <3> QED
      BY <3>1, <3>2, <3>3
  <2>3. Min(Reached(p)) \in Reached(p)
    BY <2>2 DEF Min
  <2> QED
    BY <1>2, <2>3 DEF NextRung, Reached
<1> QED
  BY <1>1, <1>2

\* A rung sells no more than there is above the moonbag.
LEMMA RungAmountIs ==
  ASSUME ExitTypes, NEW i \in DOMAIN Rungs
  PROVE  RungAmount(i) \in 0 .. pos.left
<1>1. Rungs[i].sells \in {10, 15, 20}
  BY RungsAre DEF Rungs
<1> QED
  BY <1>1, ExitFacts DEF RungAmount, Least, Most

\* --- What a decision says ---

\* Three ways to hold, and what each leaves out.
LEMMA ExitIs ==
  ASSUME NEW mark, NEW p, NEW profit, NEW stop, NEW trail10
  PROVE  /\ Exit(mark, p, profit, stop, trail10) \in {"take_profit", "stop_loss", "trailing_stop", "hold"}
         /\ Exit(mark, p, profit, stop, trail10) = "take_profit" => Roi(p) >= profit
         /\ Exit(mark, p, profit, stop, trail10) = "hold" =>
              /\ stop # Unset => ~(Roi(p) <= -stop)
              /\ trail10 # Unset => ~((Most(mark, p) - p) * 1000 >= trail10 * Most(mark, p))
BY DEF Exit

LEMMA DecisionIs ==
  ASSUME NEW p, NEW reading
  PROVE  \/ TimeStop(p) /\ Decision(p, reading) = Sell("time_stop")
         \/ user.mode = "ladder" /\ Decision(p, reading) = LadderRule(p)
         \/ user.mode = "tp1" /\ Decision(p, reading) = Tp1Rule(p, reading)
         \/ user.mode # "ladder" /\ user.mode # "tp1" /\ Decision(p, reading) = PlainRule(p)
<1>1. CASE TimeStop(p)
  BY <1>1 DEF Decision
<1>2. CASE ~TimeStop(p) /\ user.mode = "ladder"
  BY <1>2 DEF Decision
<1>3. CASE ~TimeStop(p) /\ user.mode = "tp1"
  BY <1>3 DEF Decision
<1>4. CASE ~TimeStop(p) /\ user.mode # "ladder" /\ user.mode # "tp1"
  BY <1>4 DEF Decision
<1> QED
  BY <1>1, <1>2, <1>3, <1>4

LEMMA SellIfIs ==
  ASSUME NEW why
  PROVE  /\ SellIf(why).do \in {"hold", "close"} /\ (SellIf(why).do = "hold" <=> why = "hold")
         /\ SellIf(why).do = "close" => SellIf(why).why = why
BY DEF SellIf, Hold, Sell

\* The plain rule holds only above the position's own stop.
LEMMA PlainRuleIs ==
  ASSUME ExitTypes, NEW p \in Market
  PROVE  /\ PlainRule(p).do \in {"hold", "close"}
         /\ PlainRule(p).do = "close" => PlainRule(p).why \in ExitReasons
         /\ PlainRule(p).do = "hold" => Roi(p) > -pos.exit.stop
<1> DEFINE why == Exit(pos.mark, p, pos.exit.profit, pos.exit.stop, Tenths(pos.exit.trail))
<1>1. /\ pos.mark \in Nat /\ p \in Nat /\ pos.exit.profit \in Int /\ pos.exit.stop \in Int
      /\ Tenths(pos.exit.trail) \in Int /\ pos.exit.stop # Unset
  BY ExitFacts DEF Tenths, Unset
<1>2. /\ why \in {"take_profit", "stop_loss", "trailing_stop", "hold"}
      /\ why = "hold" => ~(Roi(p) <= -pos.exit.stop)
  BY <1>1, ExitIs
<1>3. PlainRule(p) = SellIf(why)
  BY DEF PlainRule
<1>4. Roi(p) \in Int /\ pos.exit.stop \in Int
  BY <1>1 DEF Roi
<1> HIDE DEF why
<1> QED
  BY <1>2, <1>3, <1>4, SellIfIs DEF ExitReasons

\* Until its first half is sold the TP1 strategy holds above its stop, and
\* sells the half at a profit of fifty percent; from then on it holds above
\* break-even and within the trail.
LEMMA Tp1RuleIs ==
  ASSUME ExitTypes, NEW p \in Market, NEW reading \in Vol \cup {Unset}
  PROVE  /\ Tp1Rule(p, reading).do \in {"hold", "half", "close"}
         /\ Tp1Rule(p, reading).do = "close" => Tp1Rule(p, reading).why \in ExitReasons
         /\ Tp1Rule(p, reading).do = "half" => ~pos.trailing /\ p >= 150
         /\ Tp1Rule(p, reading).do = "hold" => Roi(p) > -pos.exit.stop \/ Roi(p) > -Breakeven
         /\ Tp1Rule(p, reading).do = "hold" /\ pos.trailing => 4 * p > 3 * Most(pos.mark, p)
<1>1. /\ pos.mark \in Nat /\ p \in Nat /\ p > 0 /\ pos.exit.stop \in Int /\ pos.exit.stop # Unset
      /\ Tp1Trail(reading) \in 100 .. 250 /\ Unset \in Int
  BY ExitFacts, Tp1TrailIs DEF Unset
<1>2. CASE ~pos.trailing
  <2> DEFINE why == Exit(pos.mark, p, Tp1Profit, pos.exit.stop, Unset)
  <2>1. /\ why \in {"take_profit", "stop_loss", "trailing_stop", "hold"}
        /\ why = "hold" => ~(Roi(p) <= -pos.exit.stop)
        /\ why = "take_profit" => Roi(p) >= 50
    BY <1>1, ExitIs DEF Tp1Profit
  <2>2. Tp1Rule(p, reading) = IF why = "take_profit" THEN [do |-> "half", why |-> "tp1"] ELSE SellIf(why)
    BY <1>2 DEF Tp1Rule
  <2> HIDE DEF why
  <2>3. CASE why = "take_profit"
    BY <1>1, <1>2, <2>1, <2>2, <2>3 DEF Roi
  <2>4. CASE why # "take_profit"
    BY <1>1, <1>2, <2>1, <2>2, <2>4, SellIfIs DEF ExitReasons, Roi
  <2> QED
    BY <2>3, <2>4
<1>3. CASE pos.trailing
  <2> DEFINE why == Exit(pos.mark, p, Unset, Breakeven, Tp1Trail(reading))
             high == Most(pos.mark, p)
  <2>1. /\ why \in {"take_profit", "stop_loss", "trailing_stop", "hold"}
        /\ why = "hold" => /\ ~(Roi(p) <= -Breakeven)
                          /\ ~((high - p) * 1000 >= Tp1Trail(reading) * high)
    <3>1. Breakeven # Unset /\ Tp1Trail(reading) # Unset
      BY <1>1 DEF Breakeven, Unset
    <3> QED
      BY <3>1, ExitIs
  <2>2. Tp1Rule(p, reading) = SellIf(why)
    BY <1>3 DEF Tp1Rule
  <2>3. high \in Nat
    BY <1>1, MostIs
  <2> HIDE DEF why, high
  <2>4. why = "hold" => 4 * p > 3 * high
    <3>1. Tp1Trail(reading) * high <= 250 * high
      BY <1>1, <2>3
    <3>2. Tp1Trail(reading) * high \in Int
      BY <1>1, <2>3
    <3> QED
      BY <1>1, <2>1, <2>3, <3>1, <3>2
  <2>5. why = "hold" <=> Tp1Rule(p, reading).do = "hold"
    BY <2>2, SellIfIs
  <2> QED
    BY <1>1, <1>3, <2>1, <2>2, <2>4, <2>5, SellIfIs DEF ExitReasons, high, Roi, Breakeven
<1> QED
  BY <1>2, <1>3

\* The ladder sells a rung with something to sell, or holds above its trail.
LEMMA LadderRuleIs ==
  ASSUME ExitTypes, NEW p \in Market
  PROVE  /\ LadderRule(p).do \in {"hold", "rung", "close"}
         /\ LadderRule(p).do = "close" => LadderRule(p).why \in ExitReasons
         /\ LadderRule(p).do = "rung" => NextRung(p) > 0 /\ RungAmount(NextRung(p)) > 0
         /\ LadderRule(p).do = "hold" /\ Roi(Most(pos.mark, p)) >= 500 =>
              10 * Roi(p) > 7 * Roi(Most(pos.mark, p))
<1> DEFINE high == Most(pos.mark, p)
           rung == NextRung(p)
           stop == Exit(pos.mark, p, Unset, IF OnlyMoonbag THEN Unset ELSE LadderStop, Unset)
           trail == LadderTrail(high)
<1>1. pos.mark \in Nat /\ p \in Nat /\ high \in Nat
  BY ExitFacts, MostIs
<1>2. stop \in {"take_profit", "stop_loss", "trailing_stop", "hold"}
  BY ExitIs
<1>3. LadderRule(p) =
        IF ~OnlyMoonbag /\ rung > 0 /\ RungAmount(rung) > 0 THEN [do |-> "rung", why |-> "partial"]
        ELSE IF stop # "hold" THEN Sell(stop)
        ELSE IF trail # Unset /\ p * Scale <= trail THEN Sell("trailing_stop") ELSE Hold
  BY DEF LadderRule
<1>4. Roi(high) >= 500 => trail # Unset /\ trail >= 100 * Scale + 14000 * Roi(high)
  BY <1>1 DEF LadderTrail, Roi, Scale, Most, Unset
<1> HIDE DEF high, rung, stop, trail
<1>5. LadderRule(p).do = "hold" => trail = Unset \/ ~(p * Scale <= trail)
  BY <1>3 DEF Sell, Hold
<1>6. LadderRule(p).do = "hold" /\ Roi(high) >= 500 => 10 * Roi(p) > 7 * Roi(high)
  <2> SUFFICES ASSUME LadderRule(p).do = "hold", Roi(high) >= 500 PROVE 10 * Roi(p) > 7 * Roi(high)
    OBVIOUS
  <2>1. ~(p * 20000 <= trail) /\ trail >= 2000000 + 14000 * Roi(high)
    BY <1>4, <1>5 DEF Scale
  <2>2. trail \in Int
    BY <1>1 DEF trail, LadderTrail, Roi, Scale, Most, Unset
  <2> QED
    BY <1>1, <2>1, <2>2 DEF Roi
<1>7. /\ LadderRule(p).do \in {"hold", "rung", "close"}
      /\ LadderRule(p).do = "close" => LadderRule(p).why \in ExitReasons
      /\ LadderRule(p).do = "rung" => rung > 0 /\ RungAmount(rung) > 0
  BY <1>2, <1>3 DEF Sell, Hold, ExitReasons
<1> QED
  BY <1>6, <1>7 DEF high, rung

\* --- What a tick does ---

\* What a decision can be, and what it means for the position it is made on.
LEMMA DecisionSays ==
  ASSUME ExitInv, NEW p \in Market, NEW reading \in Vol \cup {Unset}
  PROVE  LET d == Decision(p, reading) IN
         /\ d.do \in {"hold", "rung", "half", "close"}
         /\ d.do = "close" => d.why \in ExitReasons
         /\ d.do = "half" => user.mode = "tp1" /\ ~pos.trailing /\ p >= 150
         /\ d.do = "rung" => user.mode = "ladder" /\ NextRung(p) > 0 /\ RungAmount(NextRung(p)) > 0
         /\ d.do = "hold" =>
              /\ user.mode # "ladder" => Roi(p) > -MaxLoss
              /\ user.mode = "ladder" /\ Roi(Most(pos.mark, p)) >= 500 => 10 * Roi(p) > 7 * Roi(Most(pos.mark, p))
              /\ user.mode = "tp1" /\ pos.trailing => 4 * p > 3 * Most(pos.mark, p)
<1> DEFINE d == Decision(p, reading)
<1>1. ExitTypes /\ pos.exit.stop \in 0 .. 25 /\ p \in Nat
  BY ExitFacts DEF ExitInv
<1>2. CASE d = Sell("time_stop")
  BY <1>2 DEF Sell, ExitReasons
<1>3. CASE user.mode = "ladder" /\ d = LadderRule(p)
  <2> HIDE DEF d
  <2> QED
    BY <1>1, <1>3, LadderRuleIs DEF d
<1>4. CASE user.mode = "tp1" /\ d = Tp1Rule(p, reading)
  <2>1. Roi(p) > -pos.exit.stop \/ Roi(p) > -Breakeven => Roi(p) > -MaxLoss
    BY <1>1 DEF Roi, Breakeven, MaxLoss
  <2> HIDE DEF d
  <2> QED
    BY <1>1, <1>4, <2>1, Tp1RuleIs DEF d
<1>5. CASE user.mode # "ladder" /\ user.mode # "tp1" /\ d = PlainRule(p)
  <2>1. Roi(p) > -pos.exit.stop => Roi(p) > -MaxLoss
    BY <1>1 DEF Roi, MaxLoss
  <2> HIDE DEF d
  <2> QED
    BY <1>1, <1>5, <2>1, PlainRuleIs DEF d
<1> QED
  BY <1>2, <1>3, <1>4, <1>5, DecisionIs

\* A sale that closes, for a reason of the rules.
LEMMA CloseKeeps ==
  ASSUME ExitInv, NEW why \in ExitReasons, CloseFor(why, price), Seen(price), UNCHANGED <<user, cause>>,
         samples' \in [n : 0 .. MinSamples, stale : BOOLEAN],
         why # "stop_loss" \/ user.mode # "tp1" => samples'.n = 0,
         UNCHANGED <<Around, troubles>>, vol' \in Vol \cup {Unset}, faults' \in 0 .. Faults
  PROVE  ExitInv'
<1>1. ExitTypes /\ RowSound /\ EndSound
  BY DEF ExitInv
<1>2. /\ pos' = [pos EXCEPT !.open = FALSE, !.why = why] /\ last' = [did |-> "closed", at |-> price, why |-> why]
      /\ missed' = missed /\ peak' = Most(peak, price)
  BY DEF CloseFor, Seen
<1>3. peak' \in Market
  BY <1>1, <1>2, ExitFacts, MostIs
<1>4. pos' \in [open : BOOLEAN, mark : Prices \cup {100}, left : 0 .. 100, rungs : SUBSET DOMAIN Rungs,
                trailing : BOOLEAN, exit : [profit : Nat \cup {Unset}, stop : 0 .. MaxLoss,
                                            trail : Nat \cup {Unset}],
                why : {"open", "take_profit", "stop_loss", "trailing_stop", "time_stop",
                       "emergency", "manual"},
                 route : RouteStates]
  BY <1>1, <1>2 DEF ExitTypes, ExitReasons
<1>5. /\ ~pos'.open /\ pos'.why = why /\ pos'.mark = pos.mark /\ pos'.trailing = pos.trailing
      /\ pos'.exit = pos.exit /\ pos'.left = pos.left
  BY <1>1, <1>2 DEF ExitTypes
<1>6. ExitTypes'
  BY <1>1, <1>2, <1>3, <1>4 DEF ExitTypes, Around, Market
<1>7. RowSound' /\ EndSound'
  BY <1>1, <1>2, <1>5, ExitFacts DEF RowSound, EndSound
<1>8. Promised'
  BY <1>2, <1>5 DEF Promised, CeilingHolds, WinnersKeepMost, HalfKeepsProfit, EmergencyHasCause, WindowIsDropped,
                     ExitReasons
<1> QED
  BY <1>6, <1>7, <1>8 DEF ExitInv

\* A tick that holds raises the mark, and holds only where the promises allow.
LEMMA HoldKeeps ==
  ASSUME ExitInv, pos.open, HoldOn(price), Seen(price),
         user.mode # "ladder" => Roi(price) > -MaxLoss,
         user.mode = "ladder" /\ user.valued /\ faults' = 0 => Roi(price) > -MaxLoss,
         user.mode = "ladder" /\ Roi(Most(pos.mark, price)) >= 500 =>
           10 * Roi(price) > 7 * Roi(Most(pos.mark, price)),
         user.mode = "tp1" /\ pos.trailing => 4 * price > 3 * Most(pos.mark, price),
         samples' \in [n : 0 .. MinSamples, stale : BOOLEAN], user.mode # "tp1" => samples'.n = 0,
         UNCHANGED <<Around, cause, troubles>>, vol' \in Vol \cup {Unset}, faults' \in 0 .. Faults
  PROVE  ExitInv'
<1>1. ExitTypes /\ RowSound /\ EndSound
  BY DEF ExitInv
<1>2. /\ pos' = [pos EXCEPT !.mark = Most(@, price)] /\ last' = [did |-> "held", at |-> price, why |-> "hold"]
      /\ missed' = missed /\ peak' = Most(peak, price) /\ user' = user
  BY DEF HoldOn, Seen, Around
<1>3. peak' \in Market /\ Most(pos.mark, price) \in Market /\ Most(pos.mark, price) >= pos.mark
      /\ Most(pos.mark, price) \in Nat
  BY <1>1, <1>2, ExitFacts, MostIs
<1>4. pos' \in [open : BOOLEAN, mark : Prices \cup {100}, left : 0 .. 100, rungs : SUBSET DOMAIN Rungs,
                trailing : BOOLEAN, exit : [profit : Nat \cup {Unset}, stop : 0 .. MaxLoss,
                                            trail : Nat \cup {Unset}],
                why : {"open", "take_profit", "stop_loss", "trailing_stop", "time_stop",
                       "emergency", "manual"},
                 route : RouteStates]
  BY <1>1, <1>2, <1>3 DEF ExitTypes, Market
<1>5. /\ pos'.open /\ pos'.why = pos.why /\ pos'.mark = Most(pos.mark, price) /\ pos'.trailing = pos.trailing
      /\ pos'.exit = pos.exit /\ pos'.left = pos.left
  BY <1>1, <1>2 DEF ExitTypes
<1>6. ExitTypes'
  BY <1>1, <1>2, <1>3, <1>4 DEF ExitTypes, Around, Market
<1>7. RowSound'
  <2>1. missed \/ Most(pos.mark, price) >= Most(peak, price)
    BY <1>1, ExitFacts DEF RowSound, Most
  <2>2. pos.mark \in Nat
    BY <1>1, ExitFacts
  <2> QED
    BY <1>1, <1>2, <1>3, <1>5, <2>1, <2>2 DEF RowSound
<1>8. EndSound'
  BY <1>1, <1>2, <1>5, ExitFacts DEF EndSound
<1>9. Promised'
  <2>1. CeilingHolds' /\ WinnersKeepMost'
    BY <1>2, <1>5 DEF CeilingHolds, WinnersKeepMost
  <2>2. HalfKeepsProfit'
    <3>1. pos.trailing => pos.mark >= 150
      BY <1>1 DEF RowSound
    <3> QED
      BY <1>1, <1>2, <1>3, <1>5, <3>1, ExitFacts DEF HalfKeepsProfit
  <2>3. EmergencyHasCause' /\ WindowIsDropped'
    BY <1>1, <1>2, <1>5 DEF EndSound, EmergencyHasCause, WindowIsDropped
  <2> QED
    BY <2>1, <2>2, <2>3 DEF Promised
<1> QED
  BY <1>6, <1>7, <1>8, <1>9 DEF ExitInv

\* A part is sold: a rung of the ladder, or the first half of the TP1 strategy.
LEMMA SaleKeeps ==
  ASSUME ExitInv, pos.open, Seen(price),
         \/ SellRung(price) /\ user.mode = "ladder" /\ NextRung(price) > 0
         \/ SellHalf(price) /\ user.mode = "tp1" /\ ~pos.trailing /\ price >= 150,
         samples' \in [n : 0 .. MinSamples, stale : BOOLEAN], user.mode # "tp1" => samples'.n = 0,
         UNCHANGED <<Around, cause, troubles>>, vol' \in Vol \cup {Unset}, faults' \in 0 .. Faults
  PROVE  ExitInv'
<1>1. ExitTypes /\ RowSound /\ EndSound
  BY DEF ExitInv
<1>2. /\ last'.did = "sold" /\ last'.at = price /\ peak' = Most(peak, price) /\ user' = user
  BY DEF SellRung, SellHalf, Seen, Around
<1>3. peak' \in Market /\ Most(pos.mark, price) \in Market /\ Most(pos.mark, price) >= pos.mark
      /\ Most(pos.mark, price) >= price /\ Most(pos.mark, price) \in Nat
  BY <1>1, <1>2, ExitFacts, MostIs
<1>4. CASE SellRung(price) /\ user.mode = "ladder" /\ NextRung(price) > 0
  <2> DEFINE rung == NextRung(price)
  <2>1. rung \in DOMAIN Rungs /\ RungAmount(rung) \in 0 .. pos.left
    BY <1>1, <1>4, NextRungIs, RungAmountIs, ExitFacts
  <2>2. /\ pos' = [pos EXCEPT !.rungs = @ \cup {rung}, !.left = @ - RungAmount(rung)]
        /\ missed' = (missed \/ price > pos.mark)
    BY <1>4 DEF SellRung
  <2> HIDE DEF rung
  <2> DEFINE taken == pos.rungs \cup {rung}
             rest == pos.left - RungAmount(rung)
  <2>3. taken \in SUBSET DOMAIN Rungs /\ rest \in 0 .. 100 /\ pos' = [pos EXCEPT !.rungs = taken, !.left = rest]
    <3>1. taken \in SUBSET DOMAIN Rungs
      BY <1>1, <2>1, ExitFacts
    <3>2. rest \in 0 .. 100
      BY <1>1, <2>1, ExitFacts
    <3>3. pos' = [pos EXCEPT !.rungs = taken, !.left = rest]
      BY <1>1, <2>2 DEF ExitTypes
    <3> QED
      BY <3>1, <3>2, <3>3
  <2> HIDE DEF taken, rest
  <2>4. pos' \in [open : BOOLEAN, mark : Prices \cup {100}, left : 0 .. 100, rungs : SUBSET DOMAIN Rungs,
                  trailing : BOOLEAN, exit : [profit : Nat \cup {Unset}, stop : 0 .. MaxLoss,
                                              trail : Nat \cup {Unset}],
                  why : {"open", "take_profit", "stop_loss", "trailing_stop", "time_stop",
                         "emergency", "manual"},
                   route : RouteStates]
    BY <1>1, <2>3 DEF ExitTypes
  <2>5. /\ pos'.open /\ pos'.why = pos.why /\ pos'.mark = pos.mark /\ pos'.trailing = pos.trailing
        /\ pos'.exit = pos.exit
    BY <1>1, <2>3 DEF ExitTypes
  <2>6. missed' \in BOOLEAN
    BY <2>2
  <2>7. ExitTypes'
    BY <1>1, <1>2, <1>3, <2>4, <2>6 DEF ExitTypes, Around, Market
  <2>8. missed' \/ pos.mark >= Most(peak, price)
    <3>1. missed \/ pos.mark >= peak
      BY <1>1 DEF RowSound
    <3>2. Most(peak, price) \in {peak, price}
      BY DEF Most
    <3>3. pos.mark \in Nat /\ peak \in Nat /\ price \in Nat
      BY <1>1, ExitFacts
    <3>4. CASE missed \/ price > pos.mark
      BY <2>2, <3>4, Zenon
    <3>5. CASE ~missed /\ ~(price > pos.mark)
      BY <3>1, <3>2, <3>3, <3>5
    <3> QED
      BY <3>4, <3>5
  <2>9. RowSound' /\ EndSound'
    BY <1>1, <1>2, <1>4, <2>5, <2>8, ExitFacts DEF RowSound, EndSound
  <2>10. Promised'
    BY <1>1, <1>2, <2>5 DEF EndSound, Promised, CeilingHolds, WinnersKeepMost, HalfKeepsProfit, EmergencyHasCause,
                            WindowIsDropped
  <2> QED
    BY <2>7, <2>9, <2>10 DEF ExitInv
<1>5. CASE SellHalf(price) /\ user.mode = "tp1" /\ ~pos.trailing /\ price >= 150
  <2>1. pos' = [pos EXCEPT !.left = @ - 50, !.trailing = TRUE, !.mark = Most(@, price), !.exit.stop = Breakeven]
        /\ missed' = missed
    BY <1>5 DEF SellHalf
  <2>2. pos.left = 100
    BY <1>1, <1>5 DEF RowSound
  <2>3. [pos.exit EXCEPT !.stop = Breakeven] \in [profit : Nat \cup {Unset}, stop : 0 .. MaxLoss,
                                                 trail : Nat \cup {Unset}]
    BY <1>1, ExitFacts DEF Breakeven, MaxLoss
  <2>4. pos' = [pos EXCEPT !.left = 50, !.trailing = TRUE, !.mark = Most(pos.mark, price),
                           !.exit = [pos.exit EXCEPT !.stop = Breakeven]]
    BY <1>1, <2>1, <2>2 DEF ExitTypes
  <2>5. pos' \in [open : BOOLEAN, mark : Prices \cup {100}, left : 0 .. 100, rungs : SUBSET DOMAIN Rungs,
                  trailing : BOOLEAN, exit : [profit : Nat \cup {Unset}, stop : 0 .. MaxLoss,
                                              trail : Nat \cup {Unset}],
                  why : {"open", "take_profit", "stop_loss", "trailing_stop", "time_stop",
                         "emergency", "manual"},
                   route : RouteStates]
    <3> DEFINE high == Most(pos.mark, price)
               exit == [pos.exit EXCEPT !.stop = Breakeven]
    <3>1. /\ high \in Prices \cup {100} /\ 50 \in 0 .. 100
          /\ exit \in [profit : Nat \cup {Unset}, stop : 0 .. MaxLoss, trail : Nat \cup {Unset}]
          /\ pos' = [pos EXCEPT !.left = 50, !.trailing = TRUE, !.mark = high, !.exit = exit]
      BY <1>3, <2>3, <2>4 DEF Market
    <3> HIDE DEF high, exit
    <3> QED
      BY <1>1, <3>1 DEF ExitTypes
  <2>6. /\ pos'.open /\ pos'.why = pos.why /\ pos'.mark = Most(pos.mark, price) /\ pos'.trailing
        /\ pos'.exit.stop = Breakeven
    BY <1>1, <2>3, <2>4, ExitFacts DEF ExitTypes
  <2>7. ExitTypes'
    BY <1>1, <1>2, <1>3, <2>1, <2>5 DEF ExitTypes, Around, Market
  <2>8. missed \/ Most(pos.mark, price) >= Most(peak, price)
    BY <1>1, ExitFacts DEF RowSound, Most
  <2>9. Most(pos.mark, price) >= 150
    BY <1>1, <1>3, <1>5, ExitFacts
  <2>10. RowSound'
    BY <1>2, <1>3, <1>5, <2>1, <2>6, <2>8, <2>9 DEF RowSound
  <2>11. EndSound'
    BY <1>1, <1>2, <1>5, <2>6, ExitFacts DEF EndSound
  <2>12. Promised'
    BY <1>1, <1>2, <2>6 DEF EndSound, Promised, CeilingHolds, WinnersKeepMost, HalfKeepsProfit, EmergencyHasCause,
                            WindowIsDropped
  <2> QED
    BY <2>7, <2>10, <2>11, <2>12 DEF ExitInv
<1> QED
  BY <1>4, <1>5

\* The window takes a sample, or is dropped.
LEMMA WindowIs ==
  ASSUME ExitTypes
  PROVE  /\ samples \in [n : 0 .. MinSamples, stale : BOOLEAN]
         /\ Recorded \in [n : 0 .. MinSamples, stale : BOOLEAN]
         /\ NoSamples \in [n : 0 .. MinSamples, stale : BOOLEAN] /\ NoSamples.n = 0
<1>1. samples \in [n : 0 .. MinSamples, stale : BOOLEAN] /\ MinSamples \in Nat \ {0}
  BY ExitFacts DEF ExitTypes
<1>2. Least(samples.n + 1, MinSamples) \in 0 .. MinSamples
  BY <1>1 DEF Least
<1>3. [samples EXCEPT !.n = Least(@ + 1, MinSamples)] \in [n : 0 .. MinSamples, stale : BOOLEAN]
  BY <1>1, <1>2
<1>4. [n |-> 1, stale |-> FALSE] \in [n : 0 .. MinSamples, stale : BOOLEAN]
  BY <1>1
<1> QED
  BY <1>1, <1>3, <1>4 DEF Recorded, NoSamples

\* What follows a decision: the four ways a tick can end.
LEMMA ApplyKeeps ==
  ASSUME ExitInv, pos.open, NEW reading \in Vol \cup {Unset}, Apply(Decision(price, reading), price), Seen(price),
         user.mode = "ladder" /\ user.valued /\ faults' = 0 => Roi(price) > -MaxLoss,
         samples' \in [n : 0 .. MinSamples, stale : BOOLEAN], user.mode # "tp1" => samples'.n = 0,
         Decision(price, reading).do = "close" => samples'.n = 0,
         UNCHANGED <<Around, cause, troubles>>, vol' \in Vol \cup {Unset}, faults' \in 0 .. Faults
  PROVE  ExitInv'
<1> DEFINE d == Decision(price, reading)
<1>1. price \in Market /\ UNCHANGED <<user, cause>>
  BY ExitFacts DEF ExitInv, Around
<1>2. /\ d.do \in {"hold", "rung", "half", "close"}
      /\ d.do = "close" => d.why \in ExitReasons
      /\ d.do = "half" => user.mode = "tp1" /\ ~pos.trailing /\ price >= 150
      /\ d.do = "rung" => user.mode = "ladder" /\ NextRung(price) > 0
      /\ d.do = "hold" =>
           /\ user.mode # "ladder" => Roi(price) > -MaxLoss
           /\ user.mode = "ladder" /\ Roi(Most(pos.mark, price)) >= 500 =>
                10 * Roi(price) > 7 * Roi(Most(pos.mark, price))
           /\ user.mode = "tp1" /\ pos.trailing => 4 * price > 3 * Most(pos.mark, price)
  BY <1>1, DecisionSays
<1>3. d.do = "close" => samples'.n = 0
  OBVIOUS
<1>4. Apply(d, price)
  OBVIOUS
<1> HIDE DEF d
<1>5. CASE d.do = "hold"
  <2>1. HoldOn(price)
    BY <1>4, <1>5 DEF Apply
  <2> QED
    BY <1>2, <1>5, <2>1, HoldKeeps
<1>6. CASE d.do = "rung"
  <2>1. SellRung(price)
    BY <1>4, <1>6 DEF Apply
  <2> QED
    BY <1>2, <1>6, <2>1, SaleKeeps
<1>7. CASE d.do = "half"
  <2>1. SellHalf(price)
    BY <1>4, <1>7 DEF Apply
  <2> QED
    BY <1>2, <1>7, <2>1, SaleKeeps
<1>8. CASE d.do = "close"
  <2>1. CloseFor(d.why, price)
    BY <1>4, <1>8 DEF Apply
  <2> QED
    BY <1>1, <1>2, <1>3, <1>8, <2>1, CloseKeeps
<1> QED
  BY <1>2, <1>5, <1>6, <1>7, <1>8

\* Or keeps its sample, when no rule closes.
LEMMA WindowKeeps ==
  ASSUME ExitTypes, EndSound, NEW reading \in Vol \cup {Unset}, NEW closes \in BOOLEAN, Window(reading, closes)
  PROVE  /\ samples' \in [n : 0 .. MinSamples, stale : BOOLEAN] /\ vol' \in Vol \cup {Unset}
         /\ user.mode # "tp1" => samples'.n = 0 /\ UNCHANGED samples
         /\ closes => samples'.n = 0
<1>1. vol \in Vol \cup {Unset} /\ (user.mode # "tp1" => samples.n = 0)
  BY DEF ExitTypes, EndSound
<1>2. CASE user.mode = "tp1"
  BY <1>2, WindowIs DEF Window
<1>3. CASE user.mode # "tp1"
  BY <1>1, <1>3, WindowIs DEF Window
<1> QED
  BY <1>2, <1>3

\* A tick that decides on the price, whatever the window reads.
LEMMA RulesKeep ==
  ASSUME ExitInv, pos.open, NEW reading \in Vol \cup {Unset}, Seen(price), faults' \in 0 .. Faults,
         Window(reading, Decision(price, reading).do = "close"), Apply(Decision(price, reading), price),
         user.mode = "ladder" /\ user.valued /\ faults' = 0 => Roi(price) > -MaxLoss,
         UNCHANGED <<Around, cause, troubles>>
  PROVE  ExitInv'
<1> DEFINE closes == Decision(price, reading).do = "close"
<1>1. ExitTypes /\ EndSound /\ closes \in BOOLEAN /\ Window(reading, closes)
  BY DEF ExitInv
<1>2. /\ samples' \in [n : 0 .. MinSamples, stale : BOOLEAN] /\ vol' \in Vol \cup {Unset}
      /\ user.mode # "tp1" => samples'.n = 0
      /\ closes => samples'.n = 0
  <2> HIDE DEF closes
  <2> QED
    BY <1>1, WindowKeeps
<1> QED
  BY <1>2, ApplyKeeps

\* With every quote answered, a price at the ceiling sells by its real value.
LEMMA QuotedHolds ==
  ASSUME ExitTypes, RowSound, user.mode = "ladder", user.valued, Costs(Unquoted), faults' = 0
  PROVE  Roi(price) > -MaxLoss
<1>1. ~ValueStop(price)
  <2>1. faults \in Nat
    BY ExitFacts
  <2> QED
    BY <2>1 DEF Costs, Unquoted
<1>2. ~pos.trailing
  BY DEF RowSound
<1>3. ~(Roi(price) <= -pos.exit.stop)
  BY <1>1, <1>2 DEF ValueStop, RealValueStop
<1>4. pos.exit.stop \in 0 .. 25 /\ price \in Nat
  BY ExitFacts
<1> QED
  BY <1>3, <1>4 DEF Roi, MaxLoss

\* Steps that leave the position, or only have a sale of it fail or wait: what
\* they overlook is noted.
LEMMA OutsideKeeps ==
  ASSUME ExitInv, UNCHANGED <<user, cause>>,
         pos' = pos \/ \E route \in RouteStates : pos' = [pos EXCEPT !.route = route],
         last' = last \/ (last'.did \in {"failed", "waited"} /\ last'.at = price),
         missed' \in BOOLEAN, peak' \in Market, pos.open => missed' \/ pos.mark >= peak',
         price' \in Market, quoted' \in BOOLEAN, old' \in BOOLEAN, bad \subseteq bad', bad' \subseteq Troubled,
         samples' \in [n : 0 .. MinSamples, stale : BOOLEAN], user.mode # "tp1" => samples'.n = 0,
         last'.did = "closed" => samples'.n \in {0, samples.n}, vol' \in Vol \cup {Unset},
         faults' \in faults .. Faults, moves' \in 0 .. Moves, troubles' \in 0 .. Troubles
  PROVE  ExitInv'
<1>1. ExitTypes /\ RowSound /\ EndSound /\ Promised /\ faults \in Nat
  BY ExitFacts DEF ExitInv
<1>2. faults' \in 0 .. Faults /\ (faults' = 0 => faults = 0)
  BY <1>1, ExitFacts
<1>3. last'.did \in {"nothing", "held", "sold", "closed", "failed", "waited"} /\ last'.at \in Market
      /\ (last' = last \/ last'.did \in {"failed", "waited"})
  BY <1>1, ExitFacts DEF ExitTypes, EndSound
<1>p. /\ pos'.open = pos.open /\ pos'.why = pos.why /\ pos'.mark = pos.mark /\ pos'.trailing = pos.trailing
      /\ pos'.exit = pos.exit /\ pos'.left = pos.left
  BY <1>1 DEF ExitTypes
<1>t. pos' \in [open : BOOLEAN, mark : Prices \cup {100}, left : 0 .. 100, rungs : SUBSET DOMAIN Rungs,
                trailing : BOOLEAN, exit : [profit : Nat \cup {Unset}, stop : 0 .. MaxLoss,
                                            trail : Nat \cup {Unset}],
                why : {"open", "take_profit", "stop_loss", "trailing_stop", "time_stop",
                       "emergency", "manual"},
                route : RouteStates]
  BY <1>1 DEF ExitTypes
<1>4. ExitTypes'
  BY <1>1, <1>2, <1>3, <1>t DEF ExitTypes, Market
<1>5. RowSound' /\ EndSound'
  BY <1>1, <1>3, <1>p DEF RowSound, EndSound
<1>6. Promised'
  <2>1. CeilingHolds' /\ WinnersKeepMost' /\ HalfKeepsProfit'
    BY <1>1, <1>2, <1>3, <1>p DEF Promised, CeilingHolds, WinnersKeepMost, HalfKeepsProfit
  <2>2. EmergencyHasCause' /\ WindowIsDropped'
    BY <1>1, <1>2, <1>3, <1>p DEF Promised, EmergencyHasCause, WindowIsDropped
  <2> QED
    BY <2>1, <2>2 DEF Promised
<1> QED
  BY <1>4, <1>5, <1>6 DEF ExitInv

\* A sale that fails touches the route only.
LEMMA FailureIs ==
  ASSUME ExitTypes, ClosingFails \/ SaleFails
  PROVE  \E route \in RouteStates : pos' = [pos EXCEPT !.route = route]
<1>1. pos.route \in RouteStates
  BY DEF ExitTypes
<1> QED
  BY <1>1 DEF ClosingFails, SaleFails, RouteStates

\* A peak that a tick overlooks is noted as missed.
LEMMA OverlookIs ==
  ASSUME ExitTypes, RowSound, Overlooks(price), Seen(price)
  PROVE  missed' \in BOOLEAN /\ peak' \in Market /\ (pos.open => missed' \/ pos.mark >= peak')
<1>1. /\ pos.mark \in Nat /\ peak \in Nat /\ price \in Nat /\ price \in Market /\ peak \in Market
      /\ (pos.open => missed \/ pos.mark >= peak)
  BY ExitFacts DEF RowSound
<1>2. peak' \in {peak, price}
  BY DEF Seen, Most
<1>3. missed' = (missed \/ price > pos.mark)
  BY DEF Overlooks
<1>4. CASE missed \/ price > pos.mark
  BY <1>1, <1>2, <1>3, <1>4, Zenon
<1>5. CASE ~missed /\ ~(price > pos.mark)
  <2>1. missed' = FALSE
    BY <1>3, <1>5, Zenon
  <2>2. pos.open => pos.mark >= peak'
    BY <1>1, <1>2, <1>5
  <2> QED
    BY <1>1, <1>2, <2>1, <2>2
<1> QED
  BY <1>4, <1>5

\* A tick that ends in a failure or a wait.
LEMMA WaitKeeps ==
  ASSUME ExitInv, UNCHANGED <<Around, cause, troubles>>,
         pos' = pos \/ \E route \in RouteStates : pos' = [pos EXCEPT !.route = route],
         last'.did \in {"failed", "waited"}, last'.at = price,
         missed' \in BOOLEAN, peak' \in Market, pos.open => missed' \/ pos.mark >= peak',
         samples' \in [n : 0 .. MinSamples, stale : BOOLEAN],
         user.mode # "tp1" => samples'.n = 0 /\ UNCHANGED samples,
         vol' \in Vol \cup {Unset}, faults' \in faults .. Faults
  PROVE  ExitInv'
<1>1. /\ price \in Market /\ quoted \in BOOLEAN /\ old \in BOOLEAN /\ bad \subseteq Troubled
      /\ moves \in 0 .. Moves /\ troubles \in 0 .. Troubles
      /\ UNCHANGED <<user, cause, price, quoted, bad, old, moves, troubles>>
  BY ExitFacts DEF ExitInv, ExitTypes, Around
<1> QED
  BY <1>1, OutsideKeeps

LEMMA RuleTickKeeps == ASSUME ExitInv, RuleTick PROVE ExitInv'
<1>1. /\ ExitTypes /\ RowSound /\ EndSound /\ pos.open /\ Seen(price) /\ UNCHANGED <<Around, cause, troubles>>
      /\ faults \in 0 .. Faults /\ faults \in Nat /\ Faults \in Nat /\ vol \in Vol \cup {Unset}
  BY ExitFacts DEF ExitInv, RuleTick, Watched, ExitTypes
<1>u. Unquoted \in {0, 1}
  BY DEF Unquoted
<1>f. Costs(Unquoted) => faults' \in 0 .. Faults /\ faults' \in faults .. Faults
  BY <1>1, <1>u DEF Costs
<1>2. CASE CloseFor("stop_loss", price) /\ UNCHANGED <<samples, vol, faults>>
  <2>1. user' = user /\ cause' = cause
    BY <1>1 DEF Around
  <2> QED
    BY <1>1, <1>2, <2>1, WindowIs, CloseKeeps DEF EndSound, ExitReasons
<1>3. CASE /\ Costs(Unquoted)
           /\ \E reading \in Vol \cup {Unset} :
                LET decision == Decision(price, reading) IN
                Window(reading, decision.do = "close") /\ Apply(decision, price)
  <2>1. PICK reading \in Vol \cup {Unset} :
          Window(reading, Decision(price, reading).do = "close") /\ Apply(Decision(price, reading), price)
    BY <1>3
  <2>2. user.mode = "ladder" /\ user.valued /\ faults' = 0 => Roi(price) > -MaxLoss
    BY <1>1, <1>3, QuotedHolds
  <2> QED
    BY <1>1, <1>3, <1>f, <2>1, <2>2, RulesKeep
<1>4. CASE /\ Costs(Unquoted) /\ Defers(price)
           /\ \E reading \in Vol \cup {Unset} : Window(reading, FALSE)
  <2>1. PICK reading \in Vol \cup {Unset} : Window(reading, FALSE)
    BY <1>4
  <2>2. /\ samples' \in [n : 0 .. MinSamples, stale : BOOLEAN] /\ vol' \in Vol \cup {Unset}
        /\ user.mode # "tp1" => samples'.n = 0 /\ UNCHANGED samples
    BY <1>1, <2>1, WindowKeeps
  <2>3. last' = [did |-> "waited", at |-> price, why |-> "hold"] /\ Overlooks(price) /\ pos' = pos
    BY <1>4 DEF Defers
  <2>4. last'.did = "waited" /\ last'.at = price
    BY <2>3
  <2>5. missed' \in BOOLEAN /\ peak' \in Market /\ (pos.open => missed' \/ pos.mark >= peak')
    BY <1>1, <2>3, OverlookIs
  <2> QED
    BY <1>1, <1>4, <1>f, <2>2, <2>3, <2>4, <2>5, WaitKeeps
<1> QED
  BY <1>2, <1>3, <1>4 DEF RuleTick

LEMMA TickFailsKeeps == ASSUME ExitInv, TickFails PROVE ExitInv'
<1>1. /\ ExitTypes /\ RowSound /\ EndSound /\ pos.open /\ UNCHANGED <<Around, cause, troubles>>
      /\ faults \in 0 .. Faults /\ faults \in Nat /\ Faults \in Nat /\ vol \in Vol \cup {Unset}
  BY ExitFacts DEF ExitInv, TickFails, Watched, ExitTypes
<1>2. ASSUME Failed(price) PROVE last'.did = "failed" /\ last'.at = price
  BY <1>2 DEF Failed
<1>3. CASE Costs(1) /\ ClosingFails /\ Failed(price) /\ UNCHANGED <<samples, vol, peak, missed>>
  <2>1. faults' \in faults .. Faults
    BY <1>1, <1>3 DEF Costs
  <2>2. missed \in BOOLEAN /\ peak \in Market /\ (pos.open => missed \/ pos.mark >= peak)
    BY <1>1, ExitFacts DEF ExitTypes, RowSound
  <2> QED
    BY <1>1, <1>2, <1>3, <2>1, <2>2, WindowIs, FailureIs, WaitKeeps DEF EndSound
<1>4. CASE /\ Costs(Unquoted + 1) /\ Seen(price)
           /\ \E reading \in Vol \cup {Unset} :
                 Window(reading, FALSE) /\ RuleFails(Decision(price, reading), price)
  <2>1. PICK reading \in Vol \cup {Unset} : Window(reading, FALSE) /\ RuleFails(Decision(price, reading), price)
    BY <1>4
  <2>2. /\ samples' \in [n : 0 .. MinSamples, stale : BOOLEAN] /\ vol' \in Vol \cup {Unset}
        /\ user.mode # "tp1" => samples'.n = 0 /\ UNCHANGED samples
    BY <1>1, <2>1, WindowKeeps
  <2>3. Failed(price) /\ Overlooks(price) /\ (ClosingFails \/ SaleFails)
    BY <2>1 DEF RuleFails
  <2>4. missed' \in BOOLEAN /\ peak' \in Market /\ (pos.open => missed' \/ pos.mark >= peak')
    BY <1>1, <1>4, <2>3, OverlookIs
  <2>5. faults' \in faults .. Faults
    BY <1>1, <1>4 DEF Costs, Unquoted
  <2> QED
    BY <1>1, <1>2, <2>2, <2>3, <2>4, <2>5, FailureIs, WaitKeeps
<1> QED
  BY <1>3, <1>4 DEF TickFails

\* The position is closed by somebody else than the rules.
LEMMA OtherCloseKeeps ==
  ASSUME ExitInv, pos.open, NEW why \in {"emergency", "manual"}, pos' = [pos EXCEPT !.open = FALSE, !.why = why],
         UNCHANGED <<user, price, quoted, bad, old, samples, vol, last, peak, missed, moves>>,
         cause' \subseteq Troubled, why = "emergency" /\ faults' = 0 => cause' # {} /\ cause' \subseteq bad,
         faults' \in 0 .. Faults, troubles' \in 0 .. Troubles
  PROVE  ExitInv'
<1>1. ExitTypes /\ RowSound /\ EndSound
  BY DEF ExitInv
<1>2. pos' \in [open : BOOLEAN, mark : Prices \cup {100}, left : 0 .. 100, rungs : SUBSET DOMAIN Rungs,
                trailing : BOOLEAN, exit : [profit : Nat \cup {Unset}, stop : 0 .. MaxLoss,
                                            trail : Nat \cup {Unset}],
                why : {"open", "take_profit", "stop_loss", "trailing_stop", "time_stop",
                       "emergency", "manual"},
                 route : RouteStates]
  BY <1>1 DEF ExitTypes
<1>3. /\ ~pos'.open /\ pos'.why = why /\ pos'.mark = pos.mark /\ pos'.trailing = pos.trailing
      /\ pos'.exit = pos.exit /\ pos'.left = pos.left
  BY <1>1 DEF ExitTypes
<1>4. ExitTypes'
  BY <1>1, <1>2 DEF ExitTypes
<1>5. RowSound' /\ EndSound'
  BY <1>1, <1>3 DEF RowSound, EndSound
<1>6. Promised'
  BY <1>1, <1>3 DEF Promised, CeilingHolds, WinnersKeepMost, HalfKeepsProfit, EmergencyHasCause, WindowIsDropped
<1> QED
  BY <1>4, <1>5, <1>6 DEF ExitInv

LEMMA ExitKept == ASSUME ExitInv, [ExitNext]_ruleVars PROVE ExitInv'
<1>1. /\ price \in Market /\ quoted \in BOOLEAN /\ old \in BOOLEAN /\ bad \subseteq Troubled
      /\ samples \in [n : 0 .. MinSamples, stale : BOOLEAN] /\ faults \in faults .. Faults
      /\ faults \in 0 .. Faults /\ moves \in 0 .. Moves /\ troubles \in 0 .. Troubles
      /\ cause \subseteq Troubled /\ Faults \in Nat /\ Moves \in Nat /\ Troubles \in Nat
      /\ NoSamples \in [n : 0 .. MinSamples, stale : BOOLEAN] /\ NoSamples.n = 0
  BY ExitFacts, WindowIs DEF ExitInv, ExitTypes
<1>2. Trouble => troubles' \in 0 .. Troubles
  BY <1>1 DEF Trouble
<1>3. CASE RuleTick
  BY <1>3, RuleTickKeeps
<1>4. CASE TickFails
  BY <1>4, TickFailsKeeps
<1>w. /\ missed \in BOOLEAN /\ peak \in Market /\ (pos.open => missed \/ pos.mark >= peak)
      /\ vol \in Vol \cup {Unset} /\ (user.mode # "tp1" => samples.n = 0)
  BY ExitFacts DEF ExitInv, ExitTypes, RowSound, EndSound
<1>5. CASE Emergency
  <2>1. PICK unread \in {{}} \cup {{r} : r \in Reads} :
          LET lost == IF unread = {} THEN 0 ELSE 1 IN
          /\ Signals(unread) # {}
          /\ \/ /\ Costs(lost) /\ cause' = Signals(unread)
                /\ pos' = [pos EXCEPT !.open = FALSE, !.why = "emergency"]
             \/ Costs(lost + 1) /\ ClosingFails /\ UNCHANGED cause
    BY <1>5 DEF Emergency
  <2> DEFINE lost == IF unread = {} THEN 0 ELSE 1
  <2>2. Signals(unread) \subseteq Troubled
    BY <1>1, <2>1 DEF Signals, Taken, Reads, Troubled
  <2>4. unread = {} => Signals(unread) \subseteq bad
    BY DEF Signals, Taken
  <2>5. CASE /\ Costs(lost) /\ cause' = Signals(unread)
             /\ pos' = [pos EXCEPT !.open = FALSE, !.why = "emergency"]
    <3>1. faults' \in 0 .. Faults /\ (faults' = 0 => unread = {})
      BY <1>1, <2>5 DEF Costs
    <3> QED
      BY <1>1, <1>5, <2>1, <2>2, <2>4, <2>5, <3>1, OtherCloseKeeps DEF Emergency, Watched, Around
  <2>6. CASE Costs(lost + 1) /\ ClosingFails /\ UNCHANGED cause
    <3>1. faults' \in faults .. Faults
      BY <1>1, <2>6 DEF Costs
    <3>2. \E route \in RouteStates : pos' = [pos EXCEPT !.route = route]
      BY <2>6, FailureIs DEF ExitInv
    <3> QED
      BY <1>1, <1>5, <1>w, <2>6, <3>1, <3>2, OutsideKeeps DEF Emergency, Around
  <2> QED
    BY <2>1, <2>5, <2>6
<1>b. CASE BackoffEnds
  <2>1. "over" \in RouteStates
    BY DEF RouteStates
  <2> QED
    BY <1>1, <1>b, <1>w, <2>1, OutsideKeeps DEF BackoffEnds, Around
<1>6. CASE ManualClose
  BY <1>1, <1>2, <1>6, OtherCloseKeeps DEF ManualClose, Watched, Around
<1>7. CASE Restarts
  BY <1>1, <1>2, <1>7, <1>w, OutsideKeeps DEF Restarts, Around
<1>8. CASE PriceMoves
  <2>1. moves' \in 0 .. Moves /\ price' \in Market
    BY <1>1, <1>8 DEF PriceMoves, Market
  <2> QED
    BY <1>1, <1>8, <2>1, <1>w, OutsideKeeps DEF PriceMoves
<1>9. CASE Blackout
  <2>1. samples' \in [n : 0 .. MinSamples, stale : BOOLEAN] /\ samples'.n = samples.n
    <3>1. samples' = [samples EXCEPT !.stale = samples.n > 0]
      BY <1>9 DEF Blackout
    <3>2. (samples.n > 0) \in BOOLEAN
      BY <1>1
    <3> DEFINE aged == samples.n > 0
    <3> HIDE DEF aged
    <3>3. samples' = [samples EXCEPT !.stale = aged] /\ aged \in BOOLEAN
      BY <3>1, <3>2 DEF aged
    <3> QED
      BY <1>1, <3>3
  <2> QED
    BY <1>1, <1>2, <1>9, <2>1, <1>w, OutsideKeeps DEF Blackout
<1>10. CASE Back
  BY <1>1, <1>10, <1>w, OutsideKeeps DEF Back
<1>11. CASE Turn
  <2>1. bad \subseteq bad' /\ bad' \subseteq Troubled
    BY <1>1, <1>11 DEF Turn
  <2> QED
    BY <1>1, <1>2, <1>11, <2>1, <1>w, OutsideKeeps DEF Turn
<1>12. CASE GrowOld
  BY <1>1, <1>12, <1>w, OutsideKeeps DEF GrowOld
<1>13. CASE UNCHANGED ruleVars
  BY <1>1, <1>13, <1>w, OutsideKeeps DEF ruleVars
<1> QED
  BY <1>3, <1>4, <1>5, <1>b, <1>6, <1>7, <1>8, <1>9, <1>10, <1>11, <1>12, <1>13 DEF ExitNext

\* --- Opening ---

LEMMA FrozenIs ==
  ASSUME NEW u \in User
  PROVE  /\ Frozen(u) \in [profit : Nat \cup {Unset}, stop : 0 .. MaxLoss, trail : Nat \cup {Unset}]
         /\ u.mode = "tp1" => Frozen(u).stop = InitialStop
<1>1. \A stop \in Nat \cup {Unset} : ClampedStop(stop) \in 0 .. MaxLoss
  BY DEF ClampedStop, MaxLoss, Unset
<1>2. AdaptiveTrail(u.preset, u.liquidity, u.top10) \in Nat \/ u.preset = "custom"
  <2> SUFFICES ASSUME u.preset # "custom" PROVE AdaptiveTrail(u.preset, u.liquidity, u.top10) \in Nat
    OBVIOUS
  <2>1. BaseTrail[u.preset] \in Nat
    BY DEF User, BaseTrail
  <2>2. \A n \in Int : Clamp(n, 3, 50) \in Nat
    BY DEF Clamp, Least, Most
  <2> DEFINE more == IF u.liquidity >= 100000 THEN 3 ELSE IF u.liquidity >= 20000 THEN 0 ELSE -3
             less == IF u.top10 >= 50 THEN -3 ELSE IF u.top10 >= 30 THEN 0 ELSE 2
  <2>3. more \in Int /\ less \in Int
    OBVIOUS
  <2>4. AdaptiveTrail(u.preset, u.liquidity, u.top10) = Clamp(BaseTrail[u.preset] + more + less, 3, 50)
    BY DEF AdaptiveTrail
  <2> HIDE DEF more, less
  <2>5. BaseTrail[u.preset] + more + less \in Int
    BY <2>1, <2>3
  <2> QED
    BY <2>2, <2>4, <2>5
<1>3. u.preset # "custom" => BaseStop[u.preset] \in Nat
  BY DEF User, BaseStop
<1> DEFINE Wanted == [profit : Nat \cup {Unset}, stop : Nat \cup {Unset}, trail : Nat \cup {Unset}]
<1>4. ChosenExit(u) \in Wanted
  <2>1. [profit |-> Unset, stop |-> InitialStop, trail |-> Unset] \in Wanted
    BY DEF InitialStop
  <2>2. u.preset # "custom" => PresetExit(u) \in Wanted
    BY <1>2, <1>3 DEF PresetExit
  <2>3. ManualExit(u) \in Wanted
    BY DEF ManualExit, User, Unset
  <2> QED
    BY <2>1, <2>2, <2>3 DEF ChosenExit
<1>5. DefaultExit \in Wanted
  BY DEF DefaultExit, BaseStop, BaseTrail
<1> DEFINE exit == IF ChosenExit(u) = [profit |-> Unset, stop |-> Unset, trail |-> Unset] THEN DefaultExit
                   ELSE ChosenExit(u)
<1>6. exit \in Wanted /\ Frozen(u) = [exit EXCEPT !.stop = ClampedStop(@)]
  BY <1>4, <1>5 DEF Frozen
<1>7. u.mode = "tp1" => exit.stop = InitialStop
  BY DEF ChosenExit, InitialStop, Unset
<1> HIDE DEF exit
<1>8. Frozen(u) = [exit EXCEPT !.stop = ClampedStop(exit.stop)] /\ ClampedStop(exit.stop) \in 0 .. MaxLoss
  BY <1>1, <1>6
<1>9. Frozen(u).stop = ClampedStop(exit.stop)
  BY <1>6, <1>8
<1> QED
  BY <1>6, <1>7, <1>8, <1>9 DEF ClampedStop, InitialStop, MaxLoss, Unset

LEMMA ExitBegins == ASSUME ExitInit PROVE ExitInv
<1>1. /\ user \in Users /\ user \in User /\ MinSamples \in Nat \ {0} /\ Moves \in Nat /\ Faults \in Nat /\ Troubles \in Nat
  BY ExitAssumption DEF ExitInit, ExitAssumption
<1>2. /\ Frozen(user) \in [profit : Nat \cup {Unset}, stop : 0 .. MaxLoss, trail : Nat \cup {Unset}]
      /\ user.mode = "tp1" => Frozen(user).stop = InitialStop
  BY <1>1, FrozenIs
<1>3. pos = [open |-> TRUE, mark |-> 100, left |-> 100, rungs |-> {}, trailing |-> FALSE,
             exit |-> Frozen(user), why |-> "open", route |-> "ok"]
  BY DEF ExitInit, Opened
<1>4. NoSamples \in [n : 0 .. MinSamples, stale : BOOLEAN] /\ NoSamples.n = 0
  BY <1>1 DEF NoSamples
<1>5. ExitTypes
  <2>0. "ok" \in RouteStates
    BY DEF RouteStates
  <2>1. pos \in [open : BOOLEAN, mark : Prices \cup {100}, left : 0 .. 100, rungs : SUBSET DOMAIN Rungs,
                 trailing : BOOLEAN, exit : [profit : Nat \cup {Unset}, stop : 0 .. MaxLoss,
                                             trail : Nat \cup {Unset}],
                 why : {"open", "take_profit", "stop_loss", "trailing_stop", "time_stop",
                        "emergency", "manual"},
                  route : RouteStates]
    BY <1>2, <1>3, <2>0
  <2>2. /\ price = 100 /\ quoted \in BOOLEAN /\ bad \subseteq Troubled /\ old \in BOOLEAN
        /\ samples \in [n : 0 .. MinSamples, stale : BOOLEAN] /\ vol = Unset
        /\ last.did = "nothing" /\ peak = 100 /\ missed \in BOOLEAN /\ cause = {}
        /\ moves = 0 /\ faults = 0 /\ troubles = 0
    BY <1>4 DEF ExitInit, Nothing
  <2> QED
    BY <1>1, <2>1, <2>2 DEF ExitTypes
<1>6. RowSound /\ EndSound
  BY <1>2, <1>3, <1>4 DEF ExitInit, RowSound, EndSound, Market, Nothing
<1>7. Promised
  BY <1>3 DEF ExitInit, Promised, CeilingHolds, WinnersKeepMost, HalfKeepsProfit, EmergencyHasCause,
              WindowIsDropped, Nothing
<1> QED
  BY <1>5, <1>6, <1>7 DEF ExitInv

\* --- The stop only rises ---

LEMMA Product ==
  ASSUME NEW a \in Nat, NEW b \in Nat, NEW x \in Nat, NEW y \in Nat, a <= b, x <= y
  PROVE  a * x <= b * y /\ a * x \in Nat /\ b * y \in Nat
<1>1. b = a + (b - a) /\ y = x + (y - x) /\ b - a \in Nat /\ y - x \in Nat
  OBVIOUS
<1>2. b * y = a * x + a * (y - x) + (b - a) * x + (b - a) * (y - x)
  BY <1>1
<1>3. \A m, n \in Nat : m * n \in Nat
  OBVIOUS
<1>4. a * (y - x) \in Nat /\ (b - a) * x \in Nat /\ (b - a) * (y - x) \in Nat /\ a * x \in Nat /\ b * y \in Nat
  BY <1>1, <1>3
<1> QED
  BY <1>2, <1>4

LEMMA MostRises ==
  ASSUME NEW a \in Int, NEW b \in Int, NEW x \in Int, NEW y \in Int, a <= b, x <= y
  PROVE  Most(a, x) <= Most(b, y)
BY DEF Most

\* The ladder's trail: flat in percent up to +300, tighter up to +500, and from
\* there on a share of the profit; where two pieces meet it does not fall.
LEMMA LadderTrailRises ==
  ASSUME NEW a \in Nat, NEW b \in Nat, a <= b
  PROVE  LadderTrail(a) <= LadderTrail(b) /\ LadderTrail(a) \in Int /\ LadderTrail(b) \in Int
<1> DEFINE Tight(m) == m * (13000 + 15 * (m - 400))
<1>1. \A m \in Nat : /\ m < 200 => LadderTrail(m) = -1
                     /\ m >= 200 /\ m < 400 => LadderTrail(m) = m * 13000
                     /\ m >= 400 /\ m < 600 => LadderTrail(m) = Tight(m)
                     /\ m >= 600 => LadderTrail(m) = 2000000 + Most((m - 100) * 14000, 7600000)
  <2> SUFFICES ASSUME NEW m \in Nat
               PROVE  /\ m < 200 => LadderTrail(m) = -1
                      /\ m >= 200 /\ m < 400 => LadderTrail(m) = m * 13000
                      /\ m >= 400 /\ m < 600 => LadderTrail(m) = Tight(m)
                      /\ m >= 600 => LadderTrail(m) = 2000000 + Most((m - 100) * 14000, 7600000)
    BY SMTT(20)
  <2>1. CASE m < 200
    BY <2>1, SMTT(20) DEF LadderTrail, Roi, Unset
  <2>2. CASE m >= 200 /\ m < 400
    BY <2>2, SMTT(20) DEF LadderTrail, Roi
  <2>3. CASE m >= 400 /\ m < 600
    <3>1. m - 100 - 300 = m - 400
      BY SMTT(20)
    <3> QED
      BY <2>3, <3>1, SMTT(20) DEF LadderTrail, Roi
  <2>4. CASE m >= 600
    BY <2>4, SMTT(20) DEF LadderTrail, Roi, Scale
  <2> QED
    BY <2>1, <2>2, <2>3, <2>4, SMTT(20)
<1>2. \A m \in Nat : m >= 400 /\ m < 600 => Tight(m) \in Nat /\ 5200000 <= Tight(m) /\ Tight(m) <= 9600000
  <2> SUFFICES ASSUME NEW m \in Nat, m >= 400, m < 600 PROVE Tight(m) \in Nat /\ 5200000 <= Tight(m) /\ Tight(m) <= 9600000
    BY SMTT(20)
  <2>1. /\ 13000 + 15 * (m - 400) \in Nat
        /\ 13000 <= 13000 + 15 * (m - 400) /\ 13000 + 15 * (m - 400) <= 16000
    BY SMTT(20)
  <2>2. 400 * 13000 <= Tight(m) /\ Tight(m) \in Nat
    BY <2>1, Product, SMTT(20)
  <2>3. Tight(m) <= 600 * 16000
    BY <2>1, Product, SMTT(20)
  <2> QED
    BY <2>2, <2>3, SMTT(20)
<1>3. \A m \in Nat : m >= 600 => LadderTrail(m) \in Int /\ LadderTrail(m) >= 9600000
  BY <1>1, SMTT(20) DEF Most
<1>4. CASE a >= 400 /\ b < 600
  <2>1. Tight(a) <= Tight(b)
    <3>1. 13000 + 15 * (a - 400) \in Nat /\ 13000 + 15 * (b - 400) \in Nat
      BY <1>4, SMTT(20)
    <3>2. 13000 + 15 * (a - 400) <= 13000 + 15 * (b - 400)
      BY SMTT(20)
    <3> QED
      BY <3>1, <3>2, Product, SMTT(20)
  <2> HIDE DEF Tight
  <2> QED
    BY <1>1, <1>2, <1>4, <2>1, SMTT(20)
<1>5. CASE a < 400 /\ b >= 400 /\ b < 600
  <2> HIDE DEF Tight
  <2> QED
    BY <1>1, <1>2, <1>5, SMTT(20)
<1>6. CASE b < 400
  BY <1>1, <1>6, SMTT(20)
<1>7. CASE b >= 600 /\ a < 600
  <2> HIDE DEF Tight
  <2>1. LadderTrail(a) \in Int /\ LadderTrail(a) <= 9600000
    BY <1>1, <1>2, <1>7, SMTT(20)
  <2> QED
    BY <1>3, <1>7, <2>1, SMTT(20)
<1>8. CASE a >= 600
  BY <1>1, <1>8, SMTT(20) DEF Most
<1> QED
  BY <1>4, <1>5, <1>6, <1>7, <1>8, SMTT(20)

\* What a step can do to a position that stays open.
LEMMA OpenStep ==
  ASSUME ExitInv, [ExitNext]_ruleVars, pos.open, pos'.open
  PROVE  \/ pos' = pos \/ \E route \in RouteStates : pos' = [pos EXCEPT !.route = route]
         \/ HoldOn(price)
         \/ SellRung(price) /\ user.mode = "ladder" /\ NextRung(price) > 0 /\ RungAmount(NextRung(price)) > 0
         \/ SellHalf(price) /\ user.mode = "tp1" /\ ~pos.trailing /\ price >= 150
<1>1. CASE RuleTick
  <2>1. ExitTypes /\ price \in Market /\ pos.open \in BOOLEAN
    BY ExitFacts DEF ExitInv
  <2>2. ASSUME NEW why, CloseFor(why, price) PROVE FALSE
    BY <2>1, <2>2 DEF CloseFor, ExitTypes
  <2> SUFFICES ASSUME ~Defers(price)
               PROVE  \/ HoldOn(price)
                      \/ /\ SellRung(price) /\ user.mode = "ladder" /\ NextRung(price) > 0
                         /\ RungAmount(NextRung(price)) > 0
                      \/ SellHalf(price) /\ user.mode = "tp1" /\ ~pos.trailing /\ price >= 150
    BY DEF Defers
  <2>3. PICK reading \in Vol \cup {Unset} : Apply(Decision(price, reading), price)
    BY <1>1, <2>2 DEF RuleTick
  <2> DEFINE d == Decision(price, reading)
  <2>4. /\ d.do \in {"hold", "rung", "half", "close"}
        /\ d.do = "half" => user.mode = "tp1" /\ ~pos.trailing /\ price >= 150
        /\ d.do = "rung" => user.mode = "ladder" /\ NextRung(price) > 0 /\ RungAmount(NextRung(price)) > 0
    BY <2>1, DecisionSays
  <2>5. Apply(d, price)
    BY <2>3
  <2> HIDE DEF d
  <2>6. CASE d.do = "hold"
    BY <2>5, <2>6 DEF Apply
  <2>7. CASE d.do = "rung"
    BY <2>4, <2>5, <2>7 DEF Apply
  <2>8. CASE d.do = "half"
    BY <2>4, <2>5, <2>8 DEF Apply
  <2>9. CASE d.do = "close"
    <3>1. CloseFor(d.why, price)
      BY <2>5, <2>9 DEF Apply
    <3> QED
      BY <2>2, <3>1
  <2> QED
    BY <2>4, <2>6, <2>7, <2>8, <2>9
<1>2. CASE Restarts \/ PriceMoves \/ Blackout \/ Back \/ Turn \/ GrowOld \/ UNCHANGED ruleVars
  BY <1>2 DEF Restarts, PriceMoves, Blackout, Back, Turn, GrowOld, ruleVars
<1>3. CASE Emergency \/ ManualClose
  <2>1. (\E why : pos' = [pos EXCEPT !.open = FALSE, !.why = why]) \/ ClosingFails
    BY <1>3 DEF Emergency, ManualClose
  <2> QED
    BY <2>1, FailureIs DEF ExitInv, ExitTypes
<1>4. CASE TickFails
  <2>1. ClosingFails \/ SaleFails
    BY <1>4 DEF TickFails, RuleFails
  <2> QED
    BY <2>1, FailureIs DEF ExitInv
<1>5. CASE BackoffEnds
  BY <1>5 DEF BackoffEnds, RouteStates
<1> QED
  BY <1>1, <1>2, <1>3, <1>4, <1>5 DEF ExitNext

LEMMA StopOfIs ==
  ASSUME NEW p, NEW u, NEW reading
  PROVE  /\ u.mode = "ladder" =>
              StopOf(p, u, reading) =
                Most(IF u.moonbag > 0 /\ p.left <= u.moonbag THEN 0 ELSE Scale * (100 - LadderStop),
                     LadderTrail(p.mark))
         /\ u.mode = "tp1" =>
              StopOf(p, u, reading) =
                Most(PriceStop(p), IF p.trailing THEN p.mark * 20 * (1000 - Tp1Trail(reading)) ELSE 0)
         /\ u.mode # "ladder" /\ u.mode # "tp1" =>
              StopOf(p, u, reading) =
                Most(PriceStop(p), IF p.exit.trail = Unset THEN 0 ELSE p.mark * 200 * (100 - p.exit.trail))
<1>1. CASE u.mode = "ladder"
  BY <1>1 DEF StopOf
<1>2. CASE u.mode = "tp1"
  BY <1>2 DEF StopOf
<1>3. CASE u.mode # "ladder" /\ u.mode # "tp1"
  BY <1>3 DEF StopOf
<1> QED
  BY <1>1, <1>2, <1>3

LEMMA StopRises ==
  ASSUME ExitInv, [ExitNext]_ruleVars, pos.open, pos'.open, vol' = vol, pos'.left = pos.left \/ user.mode # "ladder"
  PROVE  StopOf(pos', user, vol') >= StopOf(pos, user, vol)
<1> DEFINE x == pos.mark
           y == pos'.mark
<1>1. /\ ExitTypes /\ RowSound /\ x \in Nat /\ price \in Nat /\ vol \in Vol \cup {Unset}
      /\ pos.exit.stop \in 0 .. 25 /\ pos.exit.trail \in Nat \cup {Unset} /\ pos.trailing \in BOOLEAN
      /\ user.moonbag \in Nat /\ pos.left \in 0 .. 100
  <2>1. ExitTypes /\ RowSound
    BY DEF ExitInv
  <2> QED
    BY <2>1, ExitFacts DEF ExitTypes
<1>2. Tp1Trail(vol) \in 100 .. 250
  BY <1>1, Tp1TrailIs
<1>3. PriceStop(pos) \in Nat /\ PriceStop(pos) >= 1500000
  BY <1>1, SMTT(20) DEF PriceStop, Scale
<1>4. CASE pos' = pos \/ (\E route \in RouteStates : pos' = [pos EXCEPT !.route = route]) \/ HoldOn(price)
  <2>1. /\ y \in Nat /\ x <= y /\ pos'.left = pos.left /\ pos'.exit = pos.exit /\ pos'.trailing = pos.trailing
    <3>1. CASE pos' = pos
      BY <1>1, <3>1
    <3>2. CASE HoldOn(price)
      <4>1. pos' = [pos EXCEPT !.mark = Most(pos.mark, price)]
        BY <1>1, <3>2 DEF HoldOn, ExitTypes
      <4>2. pos'.mark = Most(pos.mark, price) /\ pos'.left = pos.left /\ pos'.exit = pos.exit
            /\ pos'.trailing = pos.trailing
        BY <1>1, <4>1 DEF ExitTypes
      <4> QED
        BY <1>1, <4>2, MostIs
    <3>3. CASE \E route \in RouteStates : pos' = [pos EXCEPT !.route = route]
      BY <1>1, <3>3 DEF ExitTypes
    <3> QED
      BY <1>4, <3>1, <3>2, <3>3
  <2> HIDE DEF x, y
  <2>2. PriceStop(pos') = PriceStop(pos)
    BY <2>1 DEF PriceStop
  <2>3. CASE user.mode = "ladder"
    <3> DEFINE floor == IF user.moonbag > 0 /\ pos.left <= user.moonbag THEN 0 ELSE Scale * (100 - LadderStop)
    <3>1. LadderTrail(x) <= LadderTrail(y) /\ LadderTrail(x) \in Int /\ LadderTrail(y) \in Int
      BY <1>1, <2>1, LadderTrailRises
    <3>2. floor \in Int
      BY DEF Scale, LadderStop
    <3>3. StopOf(pos, user, vol) = Most(floor, LadderTrail(x))
      BY <2>3, StopOfIs DEF x
    <3>4. StopOf(pos', user, vol') = Most(floor, LadderTrail(y))
      BY <2>1, <2>3, StopOfIs DEF y
    <3> HIDE DEF floor
    <3> QED
      BY <3>1, <3>2, <3>3, <3>4 DEF Most
  <2>4. CASE user.mode = "tp1"
    <3> DEFINE trail == 1000 - Tp1Trail(vol)
               a == IF pos.trailing THEN x * 20 * trail ELSE 0
               b == IF pos.trailing THEN y * 20 * trail ELSE 0
    <3>1. trail \in Nat
      BY <1>2
    <3> HIDE DEF trail
    <3>2. x * 20 \in Nat /\ y * 20 \in Nat /\ x * 20 <= y * 20 /\ trail <= trail
      BY <1>1, <2>1, <3>1
    <3>3. x * 20 * trail <= y * 20 * trail /\ x * 20 * trail \in Nat /\ y * 20 * trail \in Nat
      BY <3>1, <3>2, Product
    <3>4. a \in Nat /\ b \in Nat /\ a <= b
      BY <3>3
    <3>5. StopOf(pos, user, vol) = Most(PriceStop(pos), a)
      BY <2>4, StopOfIs DEF x, trail
    <3>6. StopOf(pos', user, vol') = Most(PriceStop(pos), b)
      BY <2>1, <2>2, <2>4, StopOfIs DEF y, trail
    <3> HIDE DEF a, b
    <3> QED
      BY <1>3, <3>4, <3>5, <3>6, SMT DEF Most
  <2>5. CASE user.mode # "ladder" /\ user.mode # "tp1"
    <3> DEFINE rest == 100 - pos.exit.trail
               a == IF pos.exit.trail = Unset THEN 0 ELSE x * 200 * rest
               b == IF pos.exit.trail = Unset THEN 0 ELSE y * 200 * rest
    <3>1. StopOf(pos, user, vol) = Most(PriceStop(pos), a)
      BY <2>5, StopOfIs DEF x
    <3>2. StopOf(pos', user, vol') = Most(PriceStop(pos), b)
      BY <2>1, <2>2, <2>5, StopOfIs DEF y
    <3>3. CASE pos.exit.trail = Unset
      BY <1>3, <3>1, <3>2, <3>3, SMT DEF Most
    <3>4. CASE pos.exit.trail # Unset /\ pos.exit.trail <= 100
      <4>1. rest \in Nat
        BY <1>1, <3>4
      <4> HIDE DEF rest
      <4>2. x * 200 \in Nat /\ y * 200 \in Nat /\ x * 200 <= y * 200 /\ rest <= rest
        BY <1>1, <2>1, <4>1
      <4>3. x * 200 * rest <= y * 200 * rest /\ x * 200 * rest \in Nat /\ y * 200 * rest \in Nat
        BY <4>1, <4>2, Product
      <4>4. a \in Nat /\ b \in Nat /\ a <= b
        BY <4>3
      <4> HIDE DEF a, b
      <4> QED
        BY <1>3, <3>1, <3>2, <4>4, SMT DEF Most
    <3>5. CASE pos.exit.trail # Unset /\ ~(pos.exit.trail <= 100)
      <4>1. pos.exit.trail - 100 \in Nat /\ rest = -(pos.exit.trail - 100)
        BY <1>1, <3>5
      <4> DEFINE over == pos.exit.trail - 100
      <4> HIDE DEF over
      <4>2. x * 200 * over \in Nat /\ y * 200 * over \in Nat
        BY <1>1, <2>1, <4>1 DEF over
      <4>3. x * 200 * rest = -(x * 200 * over) /\ y * 200 * rest = -(y * 200 * over)
        BY <1>1, <2>1, <4>1 DEF over
      <4>4. a <= 0 /\ b <= 0 /\ a \in Int /\ b \in Int
        BY <3>5, <4>2, <4>3
      <4> HIDE DEF a, b
      <4>5. Most(PriceStop(pos), a) = PriceStop(pos) /\ Most(PriceStop(pos), b) = PriceStop(pos)
        BY <1>3, <4>4, SMT DEF Most
      <4> QED
        BY <1>3, <3>1, <3>2, <4>5, SMT
    <3> QED
      BY <3>3, <3>4, <3>5
  <2> QED
    BY <2>3, <2>4, <2>5
<1>5. CASE SellRung(price) /\ user.mode = "ladder" /\ NextRung(price) > 0 /\ RungAmount(NextRung(price)) > 0
  <2> DEFINE amount == RungAmount(NextRung(price))
  <2>1. pos'.left = pos.left - amount
    BY <1>1, <1>5 DEF SellRung, ExitTypes
  <2>2. NextRung(price) \in DOMAIN Rungs
    BY <1>1, <1>5, NextRungIs
  <2>3. amount \in 0 .. pos.left /\ amount > 0
    BY <1>1, <1>5, <2>2, RungAmountIs
  <2> HIDE DEF amount
  <2> QED
    BY <1>1, <1>5, <2>1, <2>3
<1>6. CASE SellHalf(price) /\ user.mode = "tp1" /\ ~pos.trailing /\ price >= 150
  <2>1. StopOf(pos, user, vol) = Most(PriceStop(pos), 0)
    BY <1>6, StopOfIs
  <2>2. PriceStop(pos) = 1600000
    BY <1>1, <1>6, SMTT(20) DEF RowSound, PriceStop, Scale, InitialStop
  <2>3. pos'.exit.stop = Breakeven /\ pos'.trailing /\ pos'.mark = Most(pos.mark, price)
    BY <1>1, <1>6 DEF SellHalf, ExitTypes
  <2>4. PriceStop(pos') = 1960000
    BY <2>3, SMTT(20) DEF PriceStop, Scale, Breakeven
  <2> DEFINE b == pos'.mark * 20 * (1000 - Tp1Trail(vol))
  <2>5. b \in Int
    <3>1. pos'.mark \in Nat
      BY <1>1, <2>3, MostIs
    <3> QED
      BY <1>2, <3>1
  <2>6. StopOf(pos', user, vol') = Most(PriceStop(pos'), b)
    BY <1>6, <2>3, StopOfIs
  <2> HIDE DEF b
  <2> QED
    BY <2>1, <2>2, <2>4, <2>5, <2>6, SMT DEF Most
<1> QED
  BY <1>4, <1>5, <1>6, OpenStep

\* What the rules promise of one position, for every price, user, deviation and
\* window: the ceiling holds at every tick whose sale worked, winners keep what
\* the ladder and the TP1 strategy say, no peak is lost but to a
\* rung, a failed sale or a backoff, an
\* emergency exit has its cause and the stop only rises (exitEngine.ts,
\* institutionalTrailingStop.ts, tp1TrailingStrategy.ts, emergencyExit.ts).
THEOREM DecisionsSound == ExitSpec => DecisionsAreSound
<1>1. ExitInit => ExitInv
  BY ExitBegins
<1>2. ExitInv /\ [ExitNext]_ruleVars => ExitInv'
  BY ExitKept
<1>3. ExitInv => /\ ExitTypes /\ CeilingHolds /\ WinnersKeepMost /\ HalfKeepsProfit
                 /\ PeaksAreKept /\ EmergencyHasCause /\ WindowIsDropped
  BY DEF ExitInv, Promised, RowSound, PeaksAreKept
<1>4. ExitInv /\ [ExitNext]_ruleVars =>
        (pos.open /\ pos'.open /\ vol' = vol /\ (pos'.left = pos.left \/ user.mode # "ladder") =>
           StopOf(pos', user, vol') >= StopOf(pos, user, vol))
  BY StopRises
<1> QED
  BY <1>1, <1>2, <1>3, <1>4, PTL DEF ExitSpec, DecisionsAreSound, StopOnlyRises
=============================================================================
