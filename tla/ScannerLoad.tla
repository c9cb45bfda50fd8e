---------------------------- MODULE ScannerLoad -----------------------------
(***************************************************************************)
(* lib/priorityQueue.ts: two FIFO lists and a number of worker slots that  *)
(* may change while items run; the governor of those slots; and the        *)
(* failover they depend upon: each item's handler reads its transaction    *)
(* through the shared connection, failures put the primary provider on     *)
(* cooldown, and the governor takes slots away for as long as that lasts.  *)
(***************************************************************************)
EXTENDS RpcFailover

CONSTANTS Item,
          MaxConcurrency, MinConcurrency,   \* SCANNER_CONCURRENCY_MAX and _MIN
          StepUp                            \* the governor's additive step

ASSUME BoundsAssumption ==
    /\ Item \subseteq Nat \ {0}
    /\ MaxConcurrency \in Nat /\ MinConcurrency \in 1 .. MaxConcurrency /\ StepUp \in Nat

VARIABLES fast, normal,   \* the waiting items of the FAST_PATH and NORMAL tiers
          running,        \* items with a slot
          slots,          \* concurrency
          governed,       \* the governor's currentConcurrency
          served,         \* observer: items in the order they were started
          tierOf,         \* the tier each item is enqueued in
          came            \* observer: how many items came, in numeric order

queueVars == <<fast, normal, running, slots, governed, served, tierOf, came>>

Tier == {"FAST_PATH", "NORMAL"}

ElementsOf(s) == {s[i] : i \in DOMAIN s}

Waiting == fast \o normal

QueueTypeOK ==
    /\ fast \in Seq(Item) /\ normal \in Seq(Item) /\ running \subseteq Item
    /\ slots \in 1 .. MaxConcurrency /\ governed \in MinConcurrency .. MaxConcurrency
    /\ served \in Seq(Item) /\ tierOf \in [Item -> Tier] /\ came \in Nat

QueueInit ==
    /\ fast = << >> /\ normal = << >> /\ running = {} /\ served = << >>
    /\ tierOf \in [Item -> Tier] /\ came = 0
    /\ slots \in 1 .. MaxConcurrency
    /\ governed = IF slots < MinConcurrency THEN MinConcurrency ELSE slots

AtMost(n, s) == IF n < Len(s) THEN n ELSE Len(s)
Free(n, busy) == IF n > Cardinality(busy) THEN n - Cardinality(busy) ELSE 0

\* Mutant of Pump: a started item stays in its list.
PumpCopy(f, n, busy, limit) ==
    LET k == AtMost(Free(limit, busy), f)
    IN /\ fast' = f /\ normal' = n
       /\ running' = busy \cup ElementsOf(SubSeq(f, 1, k))
       /\ served' = served \o SubSeq(f, 1, k)

\* pump: start from the fast tier, then the normal one, while slots are free.
Pump(f, n, busy, limit) ==
    LET k == AtMost(Free(limit, busy), f)
        m == AtMost(Free(limit, busy) - k, n)
        start == SubSeq(f, 1, k) \o SubSeq(n, 1, m)
    IN /\ fast' = SubSeq(f, k + 1, Len(f)) /\ normal' = SubSeq(n, m + 1, Len(n))
       /\ running' = busy \cup ElementsOf(start)
       /\ served' = served \o start

Enqueue(i) ==
    /\ i = came + 1 /\ came' = i
    /\ IF tierOf[i] = "FAST_PATH"
       THEN Pump(Append(fast, i), normal, running, slots)
       ELSE Pump(fast, Append(normal, i), running, slots)
    /\ UNCHANGED <<slots, governed, tierOf>>

\* The handler settled.
Finish(i) ==
    /\ i \in running
    /\ Pump(fast, normal, running \ {i}, slots)
    /\ UNCHANGED <<slots, governed, tierOf, came>>

\* computeNextConcurrency.
Clamp(n) == IF n < MinConcurrency THEN MinConcurrency
            ELSE IF n > MaxConcurrency THEN MaxConcurrency ELSE n

NextConcurrency(pressure) ==
    LET waiting == Len(Waiting)
        active  == Cardinality(running)
        half    == governed \div 2
    IN IF pressure THEN Clamp(half)
       ELSE IF waiting > active THEN Clamp(governed + StepUp)
       ELSE IF waiting = 0 /\ active <= (IF half > 1 THEN half ELSE 1)
       THEN Clamp(governed - 1)
       ELSE Clamp(governed)

-----------------------------------------------------------------------------
\* No slot is free while an item waits: nothing else would start it.
NoIdleSlot == Cardinality(running) < slots => Waiting = << >>

\* The governor's tick and setConcurrency; pressure is the primary provider's
\* cooldown or the event loop's lag.
Govern(pressure) ==
    /\ governed' = NextConcurrency(pressure) /\ slots' = governed'
    /\ Pump(fast, normal, running, slots')
    /\ UNCHANGED <<tierOf, came>>

\* An item that came waits once or was started once: none is lost.
Accounted ==
    /\ \A i, j \in DOMAIN Waiting : i # j => Waiting[i] # Waiting[j]
    /\ \A i, j \in DOMAIN served : i # j => served[i] # served[j]
    /\ \A i \in Item : i <= came => (i \in ElementsOf(served)) # (i \in ElementsOf(Waiting))

\* Within a tier items start in the order they came.
FifoPerTier ==
    \A a, b \in ElementsOf(served) \cup ElementsOf(Waiting) :
        tierOf[a] = tierOf[b] /\ a < b /\ b \in ElementsOf(served)
        => \E m, n \in DOMAIN served : m < n /\ served[m] = a /\ served[n] = b

\* A queued item waits once, starts once, in the order of its tier, and as soon
\* as a slot is free.
HandledOnce == NoIdleSlot /\ Accounted /\ FifoPerTier
-----------------------------------------------------------------------------
CONSTANTS Lead,        \* primaryProviderLabel: the first endpoint
          Workloads    \* items and calls of a behaviour, and who may fail in it

\* An item's handler makes a request.
ASSUME LeadAssumption == Lead \in Provider /\ Item \subseteq Call
ASSUME WorkloadAssumption ==
    \A l \in Workloads :
        /\ l.items \cap l.calls = {}
        /\ l \in [items : SUBSET Item, calls : SUBSET Call,
                                shaky : SUBSET Provider, slots : 1 .. MaxConcurrency,
               asks : Nat]

VARIABLE load

vars == <<rpcVars, queueVars, load>>

TypeOK == RpcTypeOK /\ QueueTypeOK

Init ==
    /\ load \in Workloads /\ shaky = load.shaky /\ slots = load.slots
    /\ RpcInit /\ QueueInit

Pressure == Lead \in cooling

Arrive == (\E i \in load.items : Enqueue(i)) /\ UNCHANGED <<rpcVars, load>>

\* Pressure, or an event loop that lags.
Tick == (Govern(Pressure) \/ Govern(TRUE)) /\ load.items # {} /\ UNCHANGED <<rpcVars, load>>

Request(i) == i \in running /\ At(i, "idle") /\ Ask(i) /\ UNCHANGED <<queueVars, load>>

\* Calls outside the queue share the providers and the cache.
Other(c) == c \in load.calls /\ rpc[c].asks < load.asks /\ Ask(c) /\ UNCHANGED <<queueVars, load>>

Work(c) == Progress(c) /\ UNCHANGED <<queueVars, load>>

Conclude(i) == ~At(i, "idle") /\ rpc[i].at \in Ended /\ Finish(i) /\ UNCHANGED <<rpcVars, load>>

Next ==
    \/ Arrive \/ Tick
    \/ \E i \in Item : Request(i) \/ Conclude(i)
    \/ \E c \in Call : Other(c) \/ Work(c)
    \/ Elapse /\ UNCHANGED <<queueVars, load>>

Spec == Init /\ [][Next]_vars

\* A timer fires, a sleep ends and a handler's continuation runs; a shaky
\* provider need not answer.
Prompt(c) ==
    /\ TimeOut(c) \/ Retry(c) \/ (Succeed(c) /\ Target(c) \notin shaky)
    /\ UNCHANGED <<queueVars, load>>

Fairness ==
    /\ \A c \in Call : WF_vars(Prompt(c))
    /\ \A i \in Item : WF_vars(Request(i)) /\ WF_vars(Conclude(i))
    /\ WF_vars(Govern(Pressure) /\ load.items # {} /\ UNCHANGED <<rpcVars, load>>)

-----------------------------------------------------------------------------
\* The fallback tier is asked only by a call that failed on every primary.
FallbackIsLast ==
    \A c \in Call, p \in Fallback : tries[c][p] > 0 => \A q \in Primary : tries[c][q] > 0

\* Within one call no provider is asked a third time, nor again once it said
\* "too many requests".
NoHammering ==
    [][\A c \in Call, p \in Provider :
          tries'[c][p] > tries[c][p] /\ rpc'[c].asks = rpc[c].asks
          => tries[c][p] < 2 /\ p \notin refused[c]]_vars

\* Identical reads never run side by side, and what is registered in flight is
\* running: a key left behind would hang every later read of it.
OneLeaderPerKey ==
    /\ \A c, d \in flying : KeyOf[c] = KeyOf[d] => c = d
    /\ \A c \in flying : Running(c)
    /\ \A c \in Call : At(c, "joined") => Leader(KeyOf[c]) # {}

\* Every call ends, silent providers or not.
CallsEnded == \A c \in Call : rpc[c].at \in Ended

\* Every item that came is handled, whatever the governor does with the slots.
ItemsHandled == \A i \in Item : i \notin running /\ i \notin ElementsOf(Waiting)

\* While the primary provider stays on cooldown the governor goes to the floor.
BacksOff == <>[](Pressure /\ load.items # {}) => <>[](slots = MinConcurrency)

\* A backlog never grows the queue's limit while the primary cools down.
NoGrowthUnderPressure == [][Pressure /\ slots' > slots => slots < MinConcurrency]_vars

\* Calls share reads, spare the fallback tier and hammer no provider.
ConnectionIsSound ==
    [](TypeOK /\ FallbackIsLast /\ OneLeaderPerKey) /\ NoHammering /\ NoGrowthUnderPressure
=============================================================================
