---------------------------- MODULE RpcFailover ----------------------------
(***************************************************************************)
(* solana/resilientConnection.ts: every request goes to the providers in   *)
(* tier order, healthy ones first, with one retry on the spot, a cooldown  *)
(* for a provider that failed, and a shared request for identical reads.   *)
(* Latencies and the rotation are any order among equals; a cooldown's     *)
(* length is left out, so it may lapse at any time.                        *)
(***************************************************************************)
EXTENDS Naturals, Sequences, FiniteSets

CONSTANTS Provider, Fallback,   \* the endpoints, and those of the fallback tier
          Call, Key, KeyOf,     \* requests, and what the cacheable ones ask for
          Cacheable,            \* requests whose method is in CACHEABLE_METHODS
          MaxAsks               \* bound on the times a request is made

ASSUME ProviderAssumption == IsFiniteSet(Provider) /\ Fallback \subseteq Provider
ASSUME CallAssumption == KeyOf \in [Call -> Key] /\ Cacheable \subseteq Call /\ MaxAsks \in Nat

VARIABLES
    shaky,      \* providers that may fail to answer in this behaviour
    cooling,    \* providers whose cooldownUntil lies ahead
    memo,       \* cache: keys with a value younger than cacheTtlMs
    flying,     \* inFlight: the requests leading a shared read
    rpc,        \* each request's place, candidate order and position in it
    tries,      \* observer: attempts of a request at each provider
    refused     \* observer: providers that rate-limited the request

rpcVars == <<shaky, cooling, memo, flying, rpc, tries, refused>>

Primary == Provider \ Fallback
Answer  == {"value", "null"}
Place   == {"idle", "first", "sleep", "second", "joined", "value", "null", "error"}
Ended   == {"idle", "value", "null", "error"}

\* orderedProviders: primary tier first, then by health within a tier.
Rank(p) == (IF p \in Fallback THEN 2 ELSE 0) + (IF p \in cooling THEN 1 ELSE 0)

Orderings ==
    {s \in [1 .. Cardinality(Provider) -> Provider] :
        \A i, j \in DOMAIN s : i # j => s[i] # s[j]}

Orders == {s \in Orderings : \A i, j \in DOMAIN s : i < j => Rank(s[i]) <= Rank(s[j])}

Blank == [at |-> "idle", order |-> << >>, pos |-> 0, asks |-> 0]

RpcTypeOK ==
    /\ shaky \subseteq Provider
    /\ cooling \subseteq Provider /\ memo \subseteq Key /\ flying \subseteq Call
    /\ rpc \in [Call -> [at : Place, order : Seq(Provider), pos : 0 .. Cardinality(Provider),
                         asks : 0 .. MaxAsks]]
    /\ tries \in [Call -> [Provider -> 0 .. 2]] /\ refused \in [Call -> SUBSET Provider]

RpcInit ==
    /\ shaky \in SUBSET Provider /\ cooling = {} /\ memo = {} /\ flying = {}
    /\ rpc = [c \in Call |-> Blank]
    /\ tries = [c \in Call |-> [p \in Provider |-> 0]]
    /\ refused = [c \in Call |-> {}]

At(c, place) == rpc[c].at = place
Target(c)    == rpc[c].order[rpc[c].pos]
HasMore(c)   == rpc[c].pos < Len(rpc[c].order)
Running(c)   == rpc[c].at \in {"first", "sleep", "second"}

Leader(k) == {d \in flying : KeyOf[d] = k}

\* callProvider: the attempt is counted and its timer started.
CountTry(c, p) == tries' = [tries EXCEPT ![c][p] = @ + 1]
-----------------------------------------------------------------------------
\* runWithFailover up to its first attempt; a cacheable one registers itself.
Launch(c) ==
    /\ \E s \in Orders :
          /\ rpc' = [rpc EXCEPT ![c] = [at |-> "first", order |-> s, pos |-> 1, asks |-> @.asks + 1]]
          /\ tries' = [tries EXCEPT ![c] = [p \in Provider |-> IF p = s[1] THEN 1 ELSE 0]]
    /\ refused' = [refused EXCEPT ![c] = {}]
    /\ flying' = IF c \in Cacheable THEN flying \cup {c} ELSE flying
    /\ UNCHANGED <<shaky, cooling, memo>>

\* The proxy: a fresh cached value, a request in flight, or a new one.
Ask(c) ==
    /\ rpc[c].at \in Ended /\ rpc[c].asks < MaxAsks
    /\ \/ /\ c \in Cacheable /\ KeyOf[c] \in memo
          /\ rpc' = [rpc EXCEPT ![c].at = "value", ![c].asks = @ + 1]
          /\ UNCHANGED <<shaky, cooling, memo, flying, tries, refused>>
       \/ /\ c \in Cacheable /\ KeyOf[c] \notin memo /\ Leader(KeyOf[c]) # {}
          /\ rpc' = [rpc EXCEPT ![c].at = "joined", ![c].asks = @ + 1]
          /\ UNCHANGED <<shaky, cooling, memo, flying, tries, refused>>
       \/ /\ c \in Cacheable => KeyOf[c] \notin memo /\ Leader(KeyOf[c]) = {}
          /\ Launch(c)

\* The shared promise settles: all who joined it are served.
Served(c) ==
    {c} \cup {d \in Call : c \in Cacheable /\ At(d, "joined") /\ KeyOf[d] = KeyOf[c]}

Serve(c, result) ==
    /\ rpc' = [d \in Call |-> IF d \in Served(c)
                              THEN [Blank EXCEPT !.at = result, !.asks = rpc[d].asks] ELSE rpc[d]]
    /\ memo' = IF c \in Cacheable /\ result = "value" THEN memo \cup {KeyOf[c]} ELSE memo
    /\ tries' = [tries EXCEPT ![c] = [p \in Provider |-> 0]]
    /\ refused' = [refused EXCEPT ![c] = {}]

\* Mutant of Settle: the key is freed on success only.
SettleKept(c, result) ==
    /\ Serve(c, result)
    /\ flying' = IF result = "error" THEN flying ELSE flying \ {c}

\* Never a null into the cache; the key is freed whatever the outcome.
Settle(c, result) == Serve(c, result) /\ flying' = flying \ {c}

\* A result arrives: clearCooldown, whatever others have met meanwhile.
Succeed(c) ==
    /\ rpc[c].at \in {"first", "second"}
    /\ \E a \in Answer : Settle(c, a)
    /\ cooling' = cooling \ {Target(c)}
    /\ UNCHANGED shaky

\* An error no retry can help is thrown at once, the cooldowns left alone.
FailForGood(c) ==
    /\ rpc[c].at \in {"first", "second"}
    /\ Settle(c, "error")
    /\ UNCHANGED <<shaky, cooling>>

\* failAndCooldown, then the next candidate, or the last error is thrown.
Rotate(c, saidNo) ==
    /\ cooling' = cooling \cup {Target(c)}
    /\ \/ /\ HasMore(c)
          /\ rpc' = [rpc EXCEPT ![c].at = "first", ![c].pos = @ + 1]
          /\ CountTry(c, rpc[c].order[rpc[c].pos + 1])
          /\ refused' = [refused EXCEPT ![c] = @ \cup saidNo]
          /\ UNCHANGED <<memo, flying>>
       \/ ~HasMore(c) /\ Settle(c, "error")
    /\ UNCHANGED shaky

\* A rate limit: on to the next provider at once.
RateLimited(c) ==
    /\ rpc[c].at \in {"first", "second"} /\ Target(c) \in shaky
    /\ Rotate(c, {Target(c)})

\* A retryable error: retryDelayMs of sleep, and on the second one rotation.
FailOnce(c) ==
    /\ At(c, "first") /\ Target(c) \in shaky
    /\ rpc' = [rpc EXCEPT ![c].at = "sleep"]
    /\ UNCHANGED <<shaky, cooling, memo, flying, tries, refused>>

FailTwice(c) == At(c, "second") /\ Target(c) \in shaky /\ Rotate(c, {})

\* Mutant of TimeOut: no upper bound on the first attempt.
TimeOutSecond(c) == FailTwice(c)

\* withCallTimeout: silence counts as a retryable error.
TimeOut(c) == FailOnce(c) \/ FailTwice(c)

Retry(c) ==
    /\ At(c, "sleep")
    /\ rpc' = [rpc EXCEPT ![c].at = "second"] /\ CountTry(c, Target(c))
    /\ UNCHANGED <<shaky, cooling, memo, flying, refused>>

CooldownLapses(p) ==
    /\ p \in cooling /\ cooling' = cooling \ {p}
    /\ UNCHANGED <<shaky, memo, flying, rpc, tries, refused>>

CacheLapses(k) ==
    /\ k \in memo /\ memo' = memo \ {k}
    /\ UNCHANGED <<shaky, cooling, flying, rpc, tries, refused>>

Progress(c) == Succeed(c) \/ FailForGood(c) \/ RateLimited(c) \/ TimeOut(c) \/ Retry(c)

Elapse == (\E p \in Provider : CooldownLapses(p)) \/ (\E k \in Key : CacheLapses(k))
=============================================================================
