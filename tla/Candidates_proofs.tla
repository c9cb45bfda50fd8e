--------------------------- MODULE Candidates_proofs ---------------------------
(***************************************************************************)
(* What the discovery side promises for every set of mints, events, items, *)
(* requests and providers and for every bound.  ScannerLoad.tla: an item   *)
(* that came is handled once and in its order, requests share their reads  *)
(* and spare the providers.  CandidatePipeline.tla: nothing bad is         *)
(* evaluated, a mint is evaluated once and once more for each migration,   *)
(* and what is kept in memory is of use to somebody.                       *)
(***************************************************************************)
EXTENDS CandidatePipeline, ScannerLoad, FiniteSetTheorems, SequenceTheorems, TLAPS

\* The items of a tier, in the order they came.
Line(s, tier) ==
    /\ \A i \in DOMAIN s : tierOf[s[i]] = tier
    /\ \A i, j \in DOMAIN s : i < j => s[i] < s[j]

\* What was started of a tier came before what waits in it.
Behind(s, started) ==
    \A m \in DOMAIN started, i \in DOMAIN s : tierOf[started[m]] = tierOf[s[i]] => started[m] < s[i]

InOrder(started) ==
    \A m, n \in DOMAIN started : m < n /\ tierOf[started[m]] = tierOf[started[n]] => started[m] < started[n]

\* The two lists with the items still waiting, beside those that were started.
Lines(f, n, started) ==
    Line(f, "FAST_PATH") /\ Line(n, "NORMAL") /\ Behind(f, started) /\ Behind(n, started)

QueueInv ==
    /\ QueueTypeOK /\ Lines(fast, normal, served) /\ InOrder(served)
    /\ IsFiniteSet(running) /\ running \subseteq ElementsOf(served)
    /\ ElementsOf(fast) \cup ElementsOf(normal) \cup ElementsOf(served) = 1 .. came
    /\ NoIdleSlot
    /\ governed = IF slots < MinConcurrency THEN MinConcurrency ELSE slots

\* Every provider once, those of the fallback tier last.
Spares(s) == \A i, j \in DOMAIN s : i < j /\ s[i] \in Fallback => s[j] \in Fallback

\* The tries of a request that runs are those of the providers up to the one it
\* is at, in its order; what refused it lies behind it.
Tried(c) ==
    IF Running(c)
    THEN LET s == rpc[c].order  n == rpc[c].pos IN
         /\ s \in Orderings /\ Spares(s) /\ n \in DOMAIN s
         /\ \A j \in DOMAIN s : /\ j < n => tries[c][s[j]] > 0
                                /\ j = n => tries[c][s[j]] = IF At(c, "second") THEN 2 ELSE 1
                                /\ j > n => tries[c][s[j]] = 0
         /\ \A p \in refused[c] : \E j \in DOMAIN s : j < n /\ s[j] = p
    ELSE \A p \in Provider : tries[c][p] = 0

CallInv ==
    /\ RpcTypeOK /\ \A c \in Call : Tried(c)
    /\ flying \subseteq Cacheable /\ \A c \in Call : At(c, "joined") => c \in Cacheable
    /\ OneLeaderPerKey

-----------------------------------------------------------------------------
\* --- The queue --------------------------------------------------------------

LEMMA Taken ==
    ASSUME NEW S, NEW s \in Seq(S), NEW k \in 0 .. Len(s)
    PROVE  LET head == SubSeq(s, 1, k)
               rest == SubSeq(s, k + 1, Len(s))
           IN /\ head \in Seq(S) /\ rest \in Seq(S)
              /\ DOMAIN s = 1 .. Len(s) /\ DOMAIN head = 1 .. k /\ DOMAIN rest = 1 .. Len(s) - k
              /\ Len(head) = k /\ Len(rest) = Len(s) - k
              /\ \A i \in 1 .. k : head[i] = s[i]
              /\ \A i \in 1 .. Len(s) - k : rest[i] = s[k + i]
              /\ ElementsOf(s) = ElementsOf(head) \cup ElementsOf(rest)
<1> DEFINE head == SubSeq(s, 1, k)
           rest == SubSeq(s, k + 1, Len(s))
<1>1. Len(s) \in Nat /\ DOMAIN s = 1 .. Len(s) /\ \A i \in 1 .. Len(s) : s[i] \in S
  BY LenProperties, ElementOfSeq
<1>2. head \in Seq(S) /\ Len(head) = k /\ \A i \in 1 .. k : head[i] = s[i]
  BY <1>1, SubSeqProperties
<1>3. rest \in Seq(S) /\ Len(rest) = Len(s) - k /\ \A i \in 1 .. Len(s) - k : rest[i] = s[k + i]
  <2>1. k + 1 \in Int /\ Len(s) \in Int /\ \A i \in k + 1 .. Len(s) : s[i] \in S
    BY <1>1
  <2>2. /\ rest \in Seq(S) /\ Len(rest) = IF k + 1 <= Len(s) THEN Len(s) - (k + 1) + 1 ELSE 0
        /\ \A i \in 1 .. Len(s) - (k + 1) + 1 : rest[i] = s[k + 1 + i - 1]
    BY <2>1, SubSeqProperties
  <2>3. Len(s) - (k + 1) + 1 = Len(s) - k
    BY <1>1
  <2>4. ASSUME NEW i \in 1 .. Len(s) - k PROVE rest[i] = s[k + i]
    <3>1. i \in 1 .. Len(s) - (k + 1) + 1 /\ k + 1 + i - 1 = k + i
      BY <1>1
    <3>2. rest[i] = s[k + 1 + i - 1]
      BY <2>2, <3>1
    <3> QED
      BY <3>1, <3>2
  <2>5. Len(rest) = Len(s) - k
    <3> HIDE DEF rest
    <3>1. Len(s) \in Nat /\ Len(rest) = IF k + 1 <= Len(s) THEN Len(s) - (k + 1) + 1 ELSE 0
      BY <1>1, <2>2
    <3>2. PICK n \in Nat : n = Len(s)
      BY <3>1
    <3>3. Len(rest) = IF k + 1 <= n THEN n - (k + 1) + 1 ELSE 0
      BY <3>1, <3>2
    <3> QED
      BY <3>2, <3>3
  <2> QED
    BY <2>2, <2>4, <2>5
<1>4. DOMAIN head = 1 .. k /\ DOMAIN rest = 1 .. Len(s) - k
  BY <1>2, <1>3, LenProperties
<1> HIDE DEF head, rest
<1>5. ElementsOf(s) = ElementsOf(head) \cup ElementsOf(rest)
  <2>1. ASSUME NEW i \in 1 .. Len(s) PROVE s[i] \in ElementsOf(head) \cup ElementsOf(rest)
    <3>1. CASE i <= k
      BY <1>1, <1>2, <1>4, <3>1 DEF ElementsOf
    <3>2. CASE i > k
      <4>1. i - k \in 1 .. Len(s) - k /\ k + (i - k) = i
        BY <1>1, <3>2
      <4> QED
        BY <1>3, <1>4, <4>1 DEF ElementsOf
    <3> QED
      BY <1>1, <3>1, <3>2
  <2>2. \A i \in 1 .. k : head[i] \in ElementsOf(s)
    BY <1>1, <1>2 DEF ElementsOf
  <2>3. ASSUME NEW i \in 1 .. Len(s) - k PROVE rest[i] \in ElementsOf(s)
    <3>1. k + i \in 1 .. Len(s)
      BY <1>1
    <3> QED
      BY <1>1, <1>3, <3>1 DEF ElementsOf
  <2> QED
    BY <1>1, <1>4, <2>1, <2>2, <2>3 DEF ElementsOf
<1> QED
  BY <1>1, <1>2, <1>3, <1>4, <1>5 DEF head, rest

\* A sequence without repetition has as many elements as places.
LEMMA CountedOnce ==
    ASSUME NEW S, NEW s \in Seq(S), \A i, j \in DOMAIN s : i # j => s[i] # s[j]
    PROVE  IsFiniteSet(ElementsOf(s)) /\ Cardinality(ElementsOf(s)) = Len(s)
<1>1. Len(s) \in Nat /\ s \in [1 .. Len(s) -> S] /\ DOMAIN s = 1 .. Len(s)
  BY LenProperties
<1>2. IsFiniteSet(1 .. Len(s)) /\ Cardinality(1 .. Len(s)) = Len(s)
  BY <1>1, FS_Interval
<1>3. s \in [1 .. Len(s) -> ElementsOf(s)]
  BY <1>1 DEF ElementsOf
<1>4. s \in Bijection(1 .. Len(s), ElementsOf(s))
  BY <1>1, <1>3 DEF Bijection, Injection, Surjection, IsInjective, ElementsOf
<1> QED
  BY <1>2, <1>4, FS_Bijection DEF ExistsBijection

LEMMA ConcatElements ==
    ASSUME NEW S, NEW s \in Seq(S), NEW t \in Seq(S)
    PROVE  /\ s \o t \in Seq(S) /\ Len(s \o t) = Len(s) + Len(t) /\ DOMAIN (s \o t) = 1 .. Len(s) + Len(t)
           /\ DOMAIN s = 1 .. Len(s) /\ DOMAIN t = 1 .. Len(t) /\ Len(s) \in Nat /\ Len(t) \in Nat
           /\ \A i \in 1 .. Len(s) : (s \o t)[i] = s[i]
           /\ \A i \in 1 .. Len(t) : (s \o t)[Len(s) + i] = t[i]
           /\ ElementsOf(s \o t) = ElementsOf(s) \cup ElementsOf(t)
<1>1. /\ Len(s) \in Nat /\ Len(t) \in Nat /\ DOMAIN s = 1 .. Len(s) /\ DOMAIN t = 1 .. Len(t)
  BY LenProperties
<1>2. /\ s \o t \in Seq(S) /\ Len(s \o t) = Len(s) + Len(t)
      /\ \A i \in 1 .. Len(s) + Len(t) : (s \o t)[i] = IF i <= Len(s) THEN s[i] ELSE t[i - Len(s)]
  BY ConcatProperties
<1>3. DOMAIN (s \o t) = 1 .. Len(s) + Len(t)
  BY <1>2, LenProperties
<1>4. \A i \in 1 .. Len(s) : (s \o t)[i] = s[i]
  BY <1>1, <1>2
<1>5. ASSUME NEW i \in 1 .. Len(t) PROVE (s \o t)[Len(s) + i] = t[i]
  <2>1. Len(s) + i \in 1 .. Len(s) + Len(t) /\ ~ (Len(s) + i <= Len(s)) /\ Len(s) + i - Len(s) = i
    BY <1>1
  <2> QED
    BY <1>2, <2>1
<1>6. ElementsOf(s \o t) = ElementsOf(s) \cup ElementsOf(t)
  <2>1. ASSUME NEW i \in 1 .. Len(s) + Len(t) PROVE (s \o t)[i] \in ElementsOf(s) \cup ElementsOf(t)
    <3>1. CASE i <= Len(s)
      BY <1>1, <1>2, <3>1 DEF ElementsOf
    <3>2. CASE ~ (i <= Len(s))
      <4>1. i - Len(s) \in 1 .. Len(t)
        BY <1>1, <3>2
      <4> QED
        BY <1>1, <1>2, <3>2, <4>1 DEF ElementsOf
    <3> QED
      BY <3>1, <3>2
  <2>2. ASSUME NEW i \in 1 .. Len(s) PROVE s[i] \in ElementsOf(s \o t)
    <3>1. i \in 1 .. Len(s) + Len(t)
      BY <1>1
    <3> QED
      BY <1>3, <1>4, <3>1 DEF ElementsOf
  <2>3. ASSUME NEW i \in 1 .. Len(t) PROVE t[i] \in ElementsOf(s \o t)
    <3>1. Len(s) + i \in 1 .. Len(s) + Len(t)
      BY <1>1
    <3> QED
      BY <1>3, <1>5, <3>1 DEF ElementsOf
  <2> QED
    BY <1>1, <1>3, <2>1, <2>2, <2>3 DEF ElementsOf
<1> QED
  BY <1>1, <1>2, <1>3, <1>4, <1>5, <1>6

\* What Pump does with two lists of waiting items, whatever slots there are: the
\* first of each move to the end of those started, and nothing waits beside a
\* slot that is free.
LEMMA PumpKeeps ==
    ASSUME NEW f \in Seq(Item), NEW n \in Seq(Item), NEW busy, IsFiniteSet(busy), NEW limit \in Nat,
           served \in Seq(Item), busy \subseteq ElementsOf(served), UNCHANGED tierOf,
           Lines(f, n, served), InOrder(served), Pump(f, n, busy, limit)
    PROVE  /\ fast' \in Seq(Item) /\ normal' \in Seq(Item) /\ served' \in Seq(Item)
           /\ Lines(fast, normal, served)' /\ InOrder(served)'
           /\ IsFiniteSet(running') /\ running' \subseteq ElementsOf(served')
           /\ ElementsOf(fast') \cup ElementsOf(normal') \cup ElementsOf(served')
              = ElementsOf(f) \cup ElementsOf(n) \cup ElementsOf(served)
           /\ Cardinality(running') < limit => fast' = << >> /\ normal' = << >>
<1> DEFINE free == Free(limit, busy)
<1>1. Cardinality(busy) \in Nat /\ free \in Nat /\ Len(f) \in Nat /\ Len(n) \in Nat
  BY FS_CardinalityType, LenProperties DEF Free
<1>2. PICK k \in 0 .. Len(f), m \in 0 .. Len(n) :
         /\ k = AtMost(free, f) /\ m = AtMost(free - k, n)
  <2>1. AtMost(free, f) \in 0 .. Len(f) /\ AtMost(free, f) <= free
    BY <1>1 DEF AtMost
  <2>2. AtMost(free - AtMost(free, f), n) \in 0 .. Len(n)
    BY <1>1, <2>1 DEF AtMost
  <2> QED
    BY <2>1, <2>2
<1> DEFINE a == SubSeq(f, 1, k)
           b == SubSeq(n, 1, m)
           start == a \o b
<1>3. /\ fast' = SubSeq(f, k + 1, Len(f)) /\ normal' = SubSeq(n, m + 1, Len(n))
      /\ running' = busy \cup ElementsOf(start) /\ served' = served \o start
  BY <1>2 DEF Pump
<1>4. /\ a \in Seq(Item) /\ Len(a) = k /\ DOMAIN f = 1 .. Len(f) /\ \A i \in 1 .. k : a[i] = f[i]
      /\ fast' \in Seq(Item) /\ Len(fast') = Len(f) - k /\ DOMAIN fast' = 1 .. Len(f) - k
      /\ \A i \in 1 .. Len(f) - k : fast'[i] = f[k + i]
      /\ ElementsOf(f) = ElementsOf(a) \cup ElementsOf(fast')
  BY <1>3, Taken
<1>5. /\ b \in Seq(Item) /\ Len(b) = m /\ DOMAIN n = 1 .. Len(n) /\ \A i \in 1 .. m : b[i] = n[i]
      /\ normal' \in Seq(Item) /\ Len(normal') = Len(n) - m /\ DOMAIN normal' = 1 .. Len(n) - m
      /\ \A i \in 1 .. Len(n) - m : normal'[i] = n[m + i]
      /\ ElementsOf(n) = ElementsOf(b) \cup ElementsOf(normal')
  BY <1>3, Taken
<1> HIDE DEF a, b, free
<1>6. /\ start \in Seq(Item) /\ Len(start) = k + m /\ DOMAIN start = 1 .. k + m
      /\ \A i \in 1 .. k : start[i] = f[i]
      /\ \A i \in 1 .. m : start[k + i] = n[i]
      /\ ElementsOf(start) = ElementsOf(a) \cup ElementsOf(b)
  <2>1. /\ start \in Seq(Item) /\ Len(start) = Len(a) + Len(b) /\ DOMAIN start = 1 .. Len(a) + Len(b)
        /\ \A i \in 1 .. Len(a) : start[i] = a[i]
        /\ \A i \in 1 .. Len(b) : start[Len(a) + i] = b[i]
        /\ ElementsOf(start) = ElementsOf(a) \cup ElementsOf(b)
    <3>1. a \in Seq(Item) /\ b \in Seq(Item)
      BY <1>4, <1>5
    <3> QED
      BY <3>1, ConcatElements
  <2> HIDE DEF start
  <2>2. /\ start \in Seq(Item) /\ Len(start) = k + m /\ DOMAIN start = 1 .. k + m
        /\ \A i \in 1 .. k : start[i] = a[i]
        /\ \A i \in 1 .. m : start[k + i] = b[i]
        /\ ElementsOf(start) = ElementsOf(a) \cup ElementsOf(b)
    BY <1>4, <1>5, <2>1
  <2> QED
    BY <1>4, <1>5, <2>2
<1> HIDE DEF start
<1> DEFINE L == Len(served)
<1>7. /\ L \in Nat /\ DOMAIN served = 1 .. L
      /\ served' \in Seq(Item) /\ DOMAIN served' = 1 .. L + (k + m)
      /\ \A i \in 1 .. L : served'[i] = served[i]
      /\ \A i \in 1 .. k + m : served'[L + i] = start[i]
      /\ ElementsOf(served') = ElementsOf(served) \cup ElementsOf(start)
  <2>1. /\ served \o start \in Seq(Item) /\ Len(served \o start) = L + Len(start)
        /\ DOMAIN (served \o start) = 1 .. L + Len(start) /\ L \in Nat /\ DOMAIN served = 1 .. L
        /\ \A i \in 1 .. L : (served \o start)[i] = served[i]
        /\ \A i \in 1 .. Len(start) : (served \o start)[L + i] = start[i]
        /\ ElementsOf(served \o start) = ElementsOf(served) \cup ElementsOf(start)
    <3>1. start \in Seq(Item)
      BY <1>6
    <3> QED
      BY <3>1, ConcatElements
  <2> HIDE DEF L
  <2> QED
    BY <1>3, <1>6, <2>1
<1> HIDE DEF L
\* Where a started item comes from.
<1>8. ASSUME NEW x \in DOMAIN served'
      PROVE  \/ x \in 1 .. L /\ served'[x] = served[x]
             \/ \E i \in 1 .. k : x = L + i /\ served'[x] = f[i]
             \/ \E i \in 1 .. m : x = L + k + i /\ served'[x] = n[i]
  <2>1. CASE x <= L
    BY <1>7, <2>1
  <2>2. CASE x > L /\ x <= L + k
    <3>1. x - L \in 1 .. k /\ x - L \in 1 .. k + m /\ x = L + (x - L)
      BY <1>7, <2>2
    <3> QED
      BY <1>6, <1>7, <3>1
  <2>3. CASE x > L + k
    <3>1. PICK i \in 1 .. m : i = x - L - k
      BY <1>7, <2>3
    <3>2. k + i \in 1 .. k + m /\ x = L + (k + i) /\ x = L + k + i
      BY <1>7, <3>1, SMTT(30)
    <3>3. served'[L + (k + i)] = start[k + i] /\ start[k + i] = n[i]
      BY <1>6, <1>7, <3>2
    <3> QED
      BY <3>2, <3>3
  <2> QED
    BY <1>7, <2>1, <2>2, <2>3
<1>9. /\ \A i \in 1 .. Len(f) : tierOf[f[i]] = "FAST_PATH" /\ f[i] \in Nat
      /\ \A i \in 1 .. Len(n) : tierOf[n[i]] = "NORMAL" /\ n[i] \in Nat
      /\ \A i, j \in 1 .. Len(f) : i < j => f[i] < f[j]
      /\ \A i, j \in 1 .. Len(n) : i < j => n[i] < n[j]
      /\ \A x \in 1 .. L, i \in 1 .. Len(f) : tierOf[served[x]] = "FAST_PATH" => served[x] < f[i]
      /\ \A x \in 1 .. L, i \in 1 .. Len(n) : tierOf[served[x]] = "NORMAL" => served[x] < n[i]
      /\ \A x \in 1 .. L : served[x] \in Nat
      /\ \A x, y \in 1 .. L : x < y /\ tierOf[served[x]] = tierOf[served[y]] => served[x] < served[y]
  <2>1. (\A i \in 1 .. Len(f) : f[i] \in Item) /\ (\A i \in 1 .. Len(n) : n[i] \in Item)
        /\ (\A x \in 1 .. L : served[x] \in Item)
    BY ElementOfSeq DEF L
  <2>2. /\ \A i \in 1 .. Len(f) : tierOf[f[i]] = "FAST_PATH"
        /\ \A i \in 1 .. Len(n) : tierOf[n[i]] = "NORMAL"
    BY <1>4, <1>5 DEF Lines, Line
  <2>3. /\ \A i, j \in 1 .. Len(f) : i < j => f[i] < f[j]
        /\ \A i, j \in 1 .. Len(n) : i < j => n[i] < n[j]
    BY <1>4, <1>5 DEF Lines, Line
  <2>4. /\ \A x \in 1 .. L, i \in 1 .. Len(f) : tierOf[served[x]] = tierOf[f[i]] => served[x] < f[i]
        /\ \A x \in 1 .. L, i \in 1 .. Len(n) : tierOf[served[x]] = tierOf[n[i]] => served[x] < n[i]
    BY <1>4, <1>5, <1>7 DEF Lines, Behind
  <2>5. \A x, y \in 1 .. L : x < y /\ tierOf[served[x]] = tierOf[served[y]] => served[x] < served[y]
    BY <1>7 DEF InOrder
  <2>6. \A x \in Item : x \in Nat
    BY BoundsAssumption
  <2> QED
    BY <2>1, <2>2, <2>3, <2>4, <2>5, <2>6
<1>10. InOrder(served)'
  <2> SUFFICES ASSUME NEW x \in DOMAIN served', NEW y \in DOMAIN served', x < y,
                      tierOf[served'[x]] = tierOf[served'[y]]
               PROVE  served'[x] < served'[y]
    BY DEF InOrder
  <2>1. CASE y \in 1 .. L /\ served'[y] = served[y]
    BY <1>7, <1>8, <1>9, <2>1
  <2>2. ASSUME NEW i \in 1 .. k, y = L + i, served'[y] = f[i] PROVE served'[x] < served'[y]
    <3>1. i \in 1 .. Len(f) /\ tierOf[served'[x]] = "FAST_PATH"
      BY <1>9, <2>2
    <3>2. CASE x \in 1 .. L /\ served'[x] = served[x]
      BY <1>9, <2>2, <3>1, <3>2
    <3>3. ASSUME NEW j \in 1 .. k, x = L + j, served'[x] = f[j] PROVE served'[x] < served'[y]
      <4>1. j < i /\ j \in 1 .. Len(f)
        BY <1>7, <2>2, <3>3, SMTT(30)
      <4> QED
        BY <1>9, <2>2, <3>1, <3>3, <4>1
    <3>4. ASSUME NEW j \in 1 .. m, x = L + k + j PROVE FALSE
      BY <1>7, <2>2, <3>4
    <3> QED
      BY <1>8, <3>2, <3>3, <3>4
  <2>3. ASSUME NEW i \in 1 .. m, y = L + k + i, served'[y] = n[i] PROVE served'[x] < served'[y]
    <3>1. i \in 1 .. Len(n) /\ tierOf[served'[x]] = "NORMAL"
      BY <1>9, <2>3
    <3>2. CASE x \in 1 .. L /\ served'[x] = served[x]
      BY <1>9, <2>3, <3>1, <3>2
    <3>3. ASSUME NEW j \in 1 .. k, x = L + j, served'[x] = f[j] PROVE FALSE
      <4>1. j \in 1 .. Len(f)
        OBVIOUS
      <4> QED
        BY <1>9, <3>1, <3>3, <4>1
    <3>4. ASSUME NEW j \in 1 .. m, x = L + k + j, served'[x] = n[j] PROVE served'[x] < served'[y]
      <4>1. j < i /\ j \in 1 .. Len(n)
        BY <1>7, <2>3, <3>4, SMTT(30)
      <4> QED
        BY <1>9, <2>3, <3>1, <3>4, <4>1
    <3> QED
      BY <1>8, <3>2, <3>3, <3>4
  <2> QED
    BY <1>8, <2>1, <2>2, <2>3
<1>11. Lines(fast, normal, served)'
  <2>1. Line(fast, "FAST_PATH")' /\ Line(normal, "NORMAL")'
    <3>1. ASSUME NEW i \in 1 .. Len(f) - k PROVE k + i \in 1 .. Len(f) /\ fast'[i] = f[k + i]
      BY <1>1, <1>4
    <3>2. ASSUME NEW i \in 1 .. Len(n) - m PROVE m + i \in 1 .. Len(n) /\ normal'[i] = n[m + i]
      BY <1>1, <1>5
    <3>3. \A i, j \in Int : i < j => k + i < k + j /\ m + i < m + j
      OBVIOUS
    <3>4. /\ \A i, j \in 1 .. Len(f) - k : i < j => fast'[i] < fast'[j]
          /\ \A i, j \in 1 .. Len(n) - m : i < j => normal'[i] < normal'[j]
      BY <1>9, <3>1, <3>2, <3>3
    <3>5. /\ \A i \in 1 .. Len(f) - k : tierOf'[fast'[i]] = "FAST_PATH"
          /\ \A i \in 1 .. Len(n) - m : tierOf'[normal'[i]] = "NORMAL"
      <4>1. tierOf' = tierOf
        OBVIOUS
      <4>2. ASSUME NEW i \in 1 .. Len(f) - k PROVE tierOf[fast'[i]] = "FAST_PATH"
        <5>1. PICK j \in 1 .. Len(f) : fast'[i] = f[j]
          BY <3>1
        <5> QED
          BY <1>9, <5>1
      <4>3. ASSUME NEW i \in 1 .. Len(n) - m PROVE tierOf[normal'[i]] = "NORMAL"
        <5>1. PICK j \in 1 .. Len(n) : normal'[i] = n[j]
          BY <3>2
        <5> QED
          BY <1>9, <5>1
      <4> QED
        BY <4>1, <4>2, <4>3
    <3> QED
      BY <1>4, <1>5, <3>4, <3>5 DEF Line
  <2>2. Behind(fast, served)'
    <3> SUFFICES ASSUME NEW x \in DOMAIN served', NEW i \in 1 .. Len(f) - k,
                        tierOf[served'[x]] = tierOf[fast'[i]]
                 PROVE  served'[x] < fast'[i]
      BY <1>4 DEF Behind
    <3>1. k + i \in 1 .. Len(f) /\ fast'[i] = f[k + i] /\ tierOf[served'[x]] = "FAST_PATH"
      BY <1>1, <1>4, <1>9
    <3>2. CASE x \in 1 .. L /\ served'[x] = served[x]
      BY <1>9, <3>1, <3>2
    <3>3. ASSUME NEW j \in 1 .. k, served'[x] = f[j] PROVE served'[x] < fast'[i]
      <4>1. j \in 1 .. Len(f) /\ j < k + i
        BY <1>1
      <4> QED
        BY <1>9, <3>1, <3>3, <4>1
    <3>4. ASSUME NEW j \in 1 .. m, served'[x] = n[j] PROVE FALSE
      <4>1. j \in 1 .. Len(n)
        BY <1>1
      <4> QED
        BY <1>9, <3>1, <3>4, <4>1
    <3> QED
      BY <1>8, <3>2, <3>3, <3>4
  <2>3. Behind(normal, served)'
    <3> SUFFICES ASSUME NEW x \in DOMAIN served', NEW i \in 1 .. Len(n) - m,
                        tierOf[served'[x]] = tierOf[normal'[i]]
                 PROVE  served'[x] < normal'[i]
      BY <1>5 DEF Behind
    <3>1. m + i \in 1 .. Len(n) /\ normal'[i] = n[m + i] /\ tierOf[served'[x]] = "NORMAL"
      BY <1>1, <1>5, <1>9
    <3>2. CASE x \in 1 .. L /\ served'[x] = served[x]
      BY <1>9, <3>1, <3>2, SMTT(30)
    <3>3. ASSUME NEW j \in 1 .. k, served'[x] = f[j] PROVE FALSE
      <4>1. j \in 1 .. Len(f)
        BY <1>1
      <4> QED
        BY <1>9, <3>1, <3>3, <4>1
    <3>4. ASSUME NEW j \in 1 .. m, served'[x] = n[j] PROVE served'[x] < normal'[i]
      <4>1. j \in 1 .. Len(n) /\ j < m + i
        BY <1>1
      <4> QED
        BY <1>9, <3>1, <3>4, <4>1
    <3> QED
      BY <1>8, <3>2, <3>3, <3>4
  <2> QED
    BY <2>1, <2>2, <2>3 DEF Lines
\* Nothing is started twice.
<1>16. ASSUME NEW x \in DOMAIN served', NEW y \in DOMAIN served', x < y PROVE served'[x] # served'[y]
  <2>1. served'[x] \in Item /\ served'[y] \in Item
    <3>1. DOMAIN served' = 1 .. Len(served')
      BY <1>7, LenProperties
    <3> QED
      BY <1>7, <3>1, ElementOfSeq
  <2>2. served'[x] \in Nat /\ served'[y] \in Nat
    BY <2>1, BoundsAssumption
  <2> QED
    BY <1>10, <1>16, <2>2 DEF InOrder
<1>12. IsFiniteSet(ElementsOf(start)) /\ Cardinality(ElementsOf(start)) = k + m
  <2>1. ASSUME NEW i \in 1 .. k + m, NEW j \in 1 .. k + m, i < j PROVE start[i] # start[j]
    <3>1. PICK x \in DOMAIN served', y \in DOMAIN served' : x = L + i /\ y = L + j /\ x < y
      BY <1>7, <2>1
    <3> QED
      BY <1>7, <1>16, <3>1
  <2>2. \A i, j \in DOMAIN start : i # j => start[i] # start[j]
    BY <1>6, <2>1
  <2> QED
    BY <1>6, <2>2, CountedOnce
<1>13. busy \cap ElementsOf(start) = {}
  <2>1. ASSUME NEW x \in DOMAIN served, NEW i \in 1 .. k + m PROVE served[x] # start[i]
    <3>1. x \in 1 .. L /\ x \in DOMAIN served'
      BY <1>7
    <3>2. PICK y \in DOMAIN served' : y = L + i /\ x < y
      BY <1>7, <3>1
    <3> QED
      BY <1>7, <1>16, <3>1, <3>2
  <2> QED
    BY <1>6, <2>1 DEF ElementsOf
<1>14. IsFiniteSet(running') /\ Cardinality(running') = Cardinality(busy) + (k + m)
  <2>1. /\ IsFiniteSet(busy \cup ElementsOf(start))
        /\ Cardinality(busy \cup ElementsOf(start))
           = Cardinality(busy) + Cardinality(ElementsOf(start)) - Cardinality(busy \cap ElementsOf(start))
    BY <1>12, FS_Union
  <2>2. Cardinality(busy \cap ElementsOf(start)) = 0
    BY <1>13, FS_EmptySet
  <2> QED
    BY <1>1, <1>3, <1>12, <2>1, <2>2
<1>15. ASSUME Cardinality(running') < limit PROVE fast' = << >> /\ normal' = << >>
  <2>1. k + m < free
    BY <1>1, <1>14, <1>15 DEF free, Free
  <2>2. k = Len(f) /\ m = Len(n)
    <3>1. k = IF free < Len(f) THEN free ELSE Len(f)
      BY <1>2 DEF AtMost
    <3>2. m = IF free - k < Len(n) THEN free - k ELSE Len(n)
      BY <1>2 DEF AtMost
    <3>3. k \in Nat /\ m \in Nat
      BY <1>1
    <3>4. PICK p \in Nat, q \in Nat, r \in Nat : p = Len(f) /\ q = Len(n) /\ r = free
      BY <1>1
    <3>5. k = IF r < p THEN r ELSE p
      BY <3>1, <3>4
    <3>6. m = IF r - k < q THEN r - k ELSE q
      BY <3>2, <3>4
    <3>7. k + m < r
      BY <2>1, <3>4
    <3>8. k = p /\ m = q
      BY <3>3, <3>5, <3>6, <3>7
    <3> QED
      BY <3>4, <3>8
  <2>3. Len(fast') = 0 /\ Len(normal') = 0
    BY <1>1, <1>4, <1>5, <2>2
  <2> QED
    BY <1>4, <1>5, <2>3, EmptySeq
<1> QED
  BY <1>3, <1>4, <1>5, <1>6, <1>7, <1>10, <1>11, <1>14, <1>15

LEMMA Pumped ==
    ASSUME QueueInv, NEW f \in Seq(Item), NEW n \in Seq(Item), NEW busy \in SUBSET running,
           NEW limit \in 1 .. MaxConcurrency, UNCHANGED tierOf, Lines(f, n, served),
           Pump(f, n, busy, limit), slots' = limit, came' \in Nat,
           governed' = IF limit < MinConcurrency THEN MinConcurrency ELSE limit,
           ElementsOf(f) \cup ElementsOf(n) \cup ElementsOf(served) = 1 .. came'
    PROVE  QueueInv'
<1>1. /\ served \in Seq(Item) /\ tierOf \in [Item -> Tier] /\ InOrder(served)
      /\ IsFiniteSet(running) /\ running \subseteq ElementsOf(served)
  BY DEF QueueInv, QueueTypeOK
<1>2. limit \in Nat /\ MinConcurrency \in 1 .. MaxConcurrency /\ MaxConcurrency \in Nat
  BY BoundsAssumption
<1>3. IsFiniteSet(busy) /\ busy \subseteq ElementsOf(served)
  BY <1>1, FS_Subset
<1>4. /\ fast' \in Seq(Item) /\ normal' \in Seq(Item) /\ served' \in Seq(Item)
      /\ Lines(fast, normal, served)' /\ InOrder(served)'
      /\ IsFiniteSet(running') /\ running' \subseteq ElementsOf(served')
      /\ ElementsOf(fast') \cup ElementsOf(normal') \cup ElementsOf(served') = 1 .. came'
      /\ Cardinality(running') < limit => fast' = << >> /\ normal' = << >>
  BY <1>1, <1>2, <1>3, PumpKeeps
<1>5. ElementsOf(served') \subseteq Item
  BY <1>4, LenProperties, ElementOfSeq DEF ElementsOf
<1>6. QueueTypeOK'
  BY <1>1, <1>2, <1>4, <1>5 DEF QueueTypeOK
<1>7. NoIdleSlot'
  <2>1. << >> \o << >> = << >>
    BY EmptySeq, ConcatEmptySeq
  <2> QED
    BY <1>4, <2>1 DEF NoIdleSlot, Waiting
<1> QED
  BY <1>4, <1>6, <1>7 DEF QueueInv, ElementsOf

\* An item that comes is the youngest of its tier.
LEMMA Younger ==
    ASSUME NEW s \in Seq(Item), NEW i \in Item, NEW tier, Line(s, tier), tierOf[i] = tier,
           \A j \in DOMAIN s : s[j] < i,
           NEW started \in Seq(Item), Behind(s, started), \A m \in DOMAIN started : started[m] < i
    PROVE  /\ Append(s, i) \in Seq(Item) /\ Line(Append(s, i), tier) /\ Behind(Append(s, i), started)
           /\ ElementsOf(Append(s, i)) = ElementsOf(s) \cup {i}
<1>1. Len(s) \in Nat /\ DOMAIN s = 1 .. Len(s)
  BY LenProperties
<1>2. /\ Append(s, i) \in Seq(Item) /\ Len(Append(s, i)) = Len(s) + 1
      /\ \A j \in 1 .. Len(s) : Append(s, i)[j] = s[j]
      /\ Append(s, i)[Len(s) + 1] = i
  BY AppendProperties
<1>3. DOMAIN Append(s, i) = 1 .. Len(s) + 1
  BY <1>2, LenProperties
<1>4. \A j \in 1 .. Len(s) + 1 : j \in 1 .. Len(s) \/ j = Len(s) + 1
  BY <1>1
<1>5. Line(Append(s, i), tier)
  <2>1. \A j \in 1 .. Len(s) + 1 : tierOf[Append(s, i)[j]] = tier
    BY <1>1, <1>2, <1>4 DEF Line
  <2>2. ASSUME NEW j \in 1 .. Len(s) + 1, NEW k \in 1 .. Len(s) + 1, j < k
        PROVE  Append(s, i)[j] < Append(s, i)[k]
    <3>1. j \in 1 .. Len(s)
      BY <1>1, <2>2
    <3>2. CASE k \in 1 .. Len(s)
      BY <1>1, <1>2, <2>2, <3>1, <3>2 DEF Line
    <3>3. CASE k = Len(s) + 1
      BY <1>1, <1>2, <3>1, <3>3
    <3> QED
      BY <1>4, <3>2, <3>3
  <2> QED
    BY <1>3, <2>1, <2>2 DEF Line
<1>6. Behind(Append(s, i), started)
  BY <1>1, <1>2, <1>3, <1>4 DEF Behind
<1>7. ElementsOf(Append(s, i)) = ElementsOf(s) \cup {i}
  <2>1. Len(s) + 1 \in 1 .. Len(s) + 1 /\ \A j \in 1 .. Len(s) : j \in 1 .. Len(s) + 1
    BY <1>1
  <2> QED
    BY <1>1, <1>2, <1>3, <1>4, <2>1 DEF ElementsOf
<1> QED
  BY <1>2, <1>5, <1>6, <1>7

LEMMA EnqueueKeeps ==
    ASSUME QueueInv, NEW i \in Item, Enqueue(i)
    PROVE  QueueInv'
<1>1. /\ fast \in Seq(Item) /\ normal \in Seq(Item) /\ served \in Seq(Item) /\ running \subseteq Item
      /\ slots \in 1 .. MaxConcurrency /\ tierOf \in [Item -> Tier] /\ came \in Nat
      /\ governed = IF slots < MinConcurrency THEN MinConcurrency ELSE slots
      /\ Line(fast, "FAST_PATH") /\ Line(normal, "NORMAL") /\ Behind(fast, served) /\ Behind(normal, served)
      /\ ElementsOf(fast) \cup ElementsOf(normal) \cup ElementsOf(served) = 1 .. came
  BY DEF QueueInv, QueueTypeOK, Lines
<1>2. i = came + 1 /\ came' = i /\ UNCHANGED <<slots, governed, tierOf>> /\ i \in Nat
  BY <1>1 DEF Enqueue
<1>3. \A x \in ElementsOf(fast) \cup ElementsOf(normal) \cup ElementsOf(served) : x < i
  BY <1>1, <1>2
<1>4. /\ \A j \in DOMAIN fast : fast[j] < i
      /\ \A j \in DOMAIN normal : normal[j] < i
      /\ \A j \in DOMAIN served : served[j] < i
  BY <1>3 DEF ElementsOf
<1>5. 1 .. came' = (1 .. came) \cup {i}
  BY <1>1, <1>2
<1>6. tierOf[i] \in {"FAST_PATH", "NORMAL"}
  BY <1>1 DEF Tier
<1>7. CASE tierOf[i] = "FAST_PATH"
  <2>1. /\ Append(fast, i) \in Seq(Item) /\ Line(Append(fast, i), "FAST_PATH")
        /\ Behind(Append(fast, i), served) /\ ElementsOf(Append(fast, i)) = ElementsOf(fast) \cup {i}
    BY <1>1, <1>4, <1>7, Younger
  <2>2. Lines(Append(fast, i), normal, served) /\ Pump(Append(fast, i), normal, running, slots)
    BY <1>1, <1>7, <2>1 DEF Lines, Enqueue
  <2> QED
    BY <1>1, <1>2, <1>5, <2>1, <2>2, Pumped
<1>8. CASE tierOf[i] = "NORMAL"
  <2>1. /\ Append(normal, i) \in Seq(Item) /\ Line(Append(normal, i), "NORMAL")
        /\ Behind(Append(normal, i), served) /\ ElementsOf(Append(normal, i)) = ElementsOf(normal) \cup {i}
    BY <1>1, <1>4, <1>8, Younger
  <2>2. Lines(fast, Append(normal, i), served) /\ Pump(fast, Append(normal, i), running, slots)
    BY <1>1, <1>8, <2>1 DEF Lines, Enqueue
  <2> QED
    BY <1>1, <1>2, <1>5, <2>1, <2>2, Pumped
<1> QED
  BY <1>6, <1>7, <1>8

LEMMA FinishKeeps ==
    ASSUME QueueInv, NEW i \in Item, Finish(i)
    PROVE  QueueInv'
<1>1. /\ fast \in Seq(Item) /\ normal \in Seq(Item) /\ Lines(fast, normal, served)
      /\ slots \in 1 .. MaxConcurrency /\ came \in Nat
      /\ governed = IF slots < MinConcurrency THEN MinConcurrency ELSE slots
      /\ ElementsOf(fast) \cup ElementsOf(normal) \cup ElementsOf(served) = 1 .. came
  BY DEF QueueInv, QueueTypeOK
<1>2. UNCHANGED <<slots, governed, tierOf, came>> /\ Pump(fast, normal, running \ {i}, slots)
  BY DEF Finish
<1> QED
  BY <1>1, <1>2, Pumped

\* Under pressure the governor never takes more than it has.
LEMMA GovernKeeps ==
    ASSUME QueueInv, NEW pressure \in BOOLEAN, Govern(pressure)
    PROVE  QueueInv' /\ (pressure /\ slots' > slots => slots < MinConcurrency)
<1>1. /\ fast \in Seq(Item) /\ normal \in Seq(Item) /\ Lines(fast, normal, served)
      /\ slots \in 1 .. MaxConcurrency /\ governed \in MinConcurrency .. MaxConcurrency /\ came \in Nat
      /\ governed = IF slots < MinConcurrency THEN MinConcurrency ELSE slots
      /\ ElementsOf(fast) \cup ElementsOf(normal) \cup ElementsOf(served) = 1 .. came
  BY DEF QueueInv, QueueTypeOK
<1>2. MinConcurrency \in 1 .. MaxConcurrency /\ MaxConcurrency \in Nat /\ StepUp \in Nat
  BY BoundsAssumption
<1>3. \A z \in Int : Clamp(z) \in MinConcurrency .. MaxConcurrency
  BY <1>2 DEF Clamp
<1>4. governed \in Nat /\ governed \div 2 \in Int /\ governed \div 2 <= governed
  BY <1>1, <1>2
<1>5. slots' \in MinConcurrency .. MaxConcurrency /\ governed' = slots' /\ UNCHANGED <<tierOf, came>>
  <2>1. NextConcurrency(pressure) \in MinConcurrency .. MaxConcurrency
    <3>1. /\ Clamp(governed \div 2) \in MinConcurrency .. MaxConcurrency
          /\ Clamp(governed + StepUp) \in MinConcurrency .. MaxConcurrency
          /\ Clamp(governed - 1) \in MinConcurrency .. MaxConcurrency
          /\ Clamp(governed) \in MinConcurrency .. MaxConcurrency
      BY <1>2, <1>3, <1>4
    <3> HIDE DEF Clamp
    <3> QED
      BY <3>1, Zenon DEF NextConcurrency
  <2> QED
    BY <2>1 DEF Govern
<1>6. QueueInv'
  <2>1. slots' \in 1 .. MaxConcurrency /\ governed' = IF slots' < MinConcurrency THEN MinConcurrency ELSE slots'
    BY <1>2, <1>5
  <2>2. Pump(fast, normal, running, slots')
    BY DEF Govern
  <2> QED
    BY <1>1, <1>5, <2>1, <2>2, Pumped
<1>7. ASSUME pressure, ~ (slots < MinConcurrency) PROVE ~ (slots' > slots)
  <2>1. slots' = Clamp(governed \div 2)
    BY <1>7 DEF Govern, NextConcurrency
  <2> QED
    BY <1>1, <1>2, <1>4, <1>7, <2>1 DEF Clamp
<1> QED
  BY <1>6, <1>7

LEMMA QueueBegins ==
    ASSUME QueueInit PROVE QueueInv
<1>1. MinConcurrency \in 1 .. MaxConcurrency /\ MaxConcurrency \in Nat
  BY BoundsAssumption
<1>2. << >> \in Seq(Item) /\ DOMAIN << >> = {} /\ << >> \o << >> = << >>
  BY EmptySeq, ConcatEmptySeq
<1>3. QueueTypeOK
  BY <1>1, <1>2 DEF QueueInit, QueueTypeOK
<1>4. ElementsOf(<< >>) = {} /\ 1 .. 0 = {}
  BY <1>2 DEF ElementsOf
<1> QED
  BY <1>2, <1>3, <1>4, FS_EmptySet
     DEF QueueInit, QueueInv, Lines, Line, Behind, InOrder, NoIdleSlot, Waiting

\* What the invariant says of the items that came.
LEMMA QueueHandles ==
    ASSUME QueueInv PROVE HandledOnce
<1>1. /\ fast \in Seq(Item) /\ normal \in Seq(Item) /\ served \in Seq(Item)
      /\ Line(fast, "FAST_PATH") /\ Line(normal, "NORMAL") /\ Behind(fast, served) /\ Behind(normal, served)
      /\ InOrder(served) /\ came \in Nat
      /\ ElementsOf(fast) \cup ElementsOf(normal) \cup ElementsOf(served) = 1 .. came
  BY DEF QueueInv, QueueTypeOK, Lines
<1>2. /\ Waiting \in Seq(Item) /\ DOMAIN Waiting = 1 .. Len(fast) + Len(normal)
      /\ Len(fast) \in Nat /\ Len(normal) \in Nat /\ DOMAIN fast = 1 .. Len(fast) /\ DOMAIN normal = 1 .. Len(normal)
      /\ \A i \in 1 .. Len(fast) : Waiting[i] = fast[i]
      /\ \A i \in 1 .. Len(normal) : Waiting[Len(fast) + i] = normal[i]
      /\ ElementsOf(Waiting) = ElementsOf(fast) \cup ElementsOf(normal)
  BY <1>1, ConcatElements DEF Waiting
<1> HIDE DEF Waiting
<1>3. \A x \in Item : x \in Nat /\ x >= 1
  BY BoundsAssumption
<1>4. /\ \A i \in DOMAIN fast : fast[i] \in Nat
      /\ \A i \in DOMAIN normal : normal[i] \in Nat
      /\ \A i \in DOMAIN served : served[i] \in Nat
  BY <1>1, <1>3, LenProperties, ElementOfSeq
<1>5. ASSUME NEW i \in DOMAIN Waiting, NEW j \in DOMAIN Waiting, i < j PROVE Waiting[i] # Waiting[j]
  <2>1. CASE j <= Len(fast)
    <3>1. i \in DOMAIN fast /\ j \in DOMAIN fast /\ Waiting[i] = fast[i] /\ Waiting[j] = fast[j]
      BY <1>2, <1>5, <2>1
    <3> QED
      BY <1>1, <1>4, <1>5, <3>1 DEF Line
  <2>2. CASE i > Len(fast)
    <3>1. PICK x \in DOMAIN normal, y \in DOMAIN normal : i = Len(fast) + x /\ j = Len(fast) + y /\ x < y
      <4>1. i - Len(fast) \in 1 .. Len(normal) /\ j - Len(fast) \in 1 .. Len(normal)
        BY <1>2, <1>5, <2>2
      <4>2. PICK x \in DOMAIN normal, y \in DOMAIN normal : x = i - Len(fast) /\ y = j - Len(fast)
        BY <1>2, <4>1
      <4>3. i \in Nat /\ j \in Nat
        BY <1>2, <1>5
      <4>4. i = Len(fast) + x /\ j = Len(fast) + y /\ x < y
        BY <1>2, <1>5, <4>2, <4>3
      <4> QED
        BY <4>4
    <3>2. Waiting[i] = normal[x] /\ Waiting[j] = normal[y]
      BY <1>2, <3>1
    <3> QED
      BY <1>1, <1>4, <3>1, <3>2 DEF Line
  <2>3. CASE i <= Len(fast) /\ j > Len(fast)
    <3>1. i \in DOMAIN fast /\ Waiting[i] = fast[i]
      BY <1>2, <2>3
    <3>2. PICK y \in DOMAIN normal : j = Len(fast) + y
      <4>1. j - Len(fast) \in 1 .. Len(normal)
        BY <1>2, <2>3
      <4> QED
        BY <1>2, <4>1
    <3>3. Waiting[j] = normal[y]
      BY <1>2, <3>2
    <3> QED
      BY <1>1, <3>1, <3>3 DEF Line
  <2> QED
    BY <1>2, <2>1, <2>2, <2>3
<1>6. ASSUME NEW m \in DOMAIN served, NEW n \in DOMAIN served, m < n PROVE served[m] # served[n]
  BY <1>1, <1>4, <1>6 DEF InOrder
<1>7. ASSUME NEW m \in DOMAIN served, NEW x \in ElementsOf(Waiting), tierOf[served[m]] = tierOf[x]
      PROVE  served[m] < x
  BY <1>1, <1>2, <1>7, ZenonT(30) DEF Behind, ElementsOf
<1>8. ElementsOf(served) \cap ElementsOf(Waiting) = {}
  BY <1>4, <1>7 DEF ElementsOf
<1>9. DOMAIN served = 1 .. Len(served) /\ Len(served) \in Nat
  BY <1>1, LenProperties
<1>10. Accounted
  <2>1. \A i, j \in DOMAIN Waiting : i # j => Waiting[i] # Waiting[j]
    <3>1. \A i, j \in DOMAIN Waiting : i # j => i < j \/ j < i
      BY <1>2
    <3> QED
      BY <1>5, <3>1
  <2>2. \A i, j \in DOMAIN served : i # j => served[i] # served[j]
    <3>1. \A i, j \in DOMAIN served : i # j => i < j \/ j < i
      BY <1>9
    <3> QED
      BY <1>6, <3>1
  <2>3. ASSUME NEW x \in Item, x <= came PROVE (x \in ElementsOf(served)) # (x \in ElementsOf(Waiting))
    <3>1. x \in 1 .. came
      BY <1>1, <1>3, <2>3
    <3>2. x \in ElementsOf(served) \cup ElementsOf(Waiting)
      BY <1>1, <1>2, <3>1
    <3> QED
      BY <1>8, <3>2
  <2> QED
    BY <2>1, <2>2, <2>3 DEF Accounted
<1>11. FifoPerTier
  <2> SUFFICES ASSUME NEW a \in ElementsOf(served) \cup ElementsOf(Waiting), NEW b \in ElementsOf(served),
                      tierOf[a] = tierOf[b], a < b
               PROVE  \E m, n \in DOMAIN served : m < n /\ served[m] = a /\ served[n] = b
    BY DEF FifoPerTier
  <2>1. PICK n \in DOMAIN served : served[n] = b
    BY DEF ElementsOf
  <2>2. a \in 1 .. came /\ b \in 1 .. came
    BY <1>1, <1>2
  <2>3. a \notin ElementsOf(Waiting)
    BY <1>7, <2>1, <2>2
  <2>4. PICK m \in DOMAIN served : served[m] = a
    BY <2>3 DEF ElementsOf
  <2>5. m < n
    <3>1. ~ (n < m)
      BY <1>1, <2>1, <2>2, <2>4 DEF InOrder
    <3>2. m # n
      BY <2>1, <2>2, <2>4
    <3> QED
      BY <1>9, <3>1, <3>2
  <2> QED
    BY <2>1, <2>4, <2>5
<1> QED
  BY <1>10, <1>11 DEF HandledOnce, QueueInv

-----------------------------------------------------------------------------
\* --- The requests -----------------------------------------------------------

CallType == [at : Place, order : Seq(Provider), pos : 0 .. Cardinality(Provider), asks : 0 .. MaxAsks]

\* An order of all providers has each of them.
LEMMA OrdersAll ==
    ASSUME NEW s \in Orderings
    PROVE  /\ s \in Seq(Provider) /\ DOMAIN s = 1 .. Cardinality(Provider) /\ Len(s) = Cardinality(Provider)
           /\ Cardinality(Provider) \in Nat /\ Cardinality(Provider) >= 1
           /\ \A p \in Provider : \E i \in DOMAIN s : s[i] = p
<1> DEFINE N == Cardinality(Provider)
<1>1. N \in Nat /\ IsFiniteSet(Provider)
  BY ProviderAssumption, FS_CardinalityType
<1>2. N >= 1
  BY <1>1, LeadAssumption, FS_EmptySet
<1>3. s \in [1 .. N -> Provider] /\ \A i, j \in 1 .. N : i # j => s[i] # s[j]
  BY DEF Orderings
<1>4. s \in Injection(1 .. N, Provider)
  BY <1>3 DEF Injection, IsInjective
<1>5. Cardinality(1 .. N) = N
  BY <1>1, FS_Interval
<1>6. s \in Surjection(1 .. N, Provider)
  BY <1>1, <1>4, <1>5, FS_Injection
<1>7. \A p \in Provider : \E i \in 1 .. N : s[i] = p
  BY <1>6 DEF Surjection
<1>8. s \in Seq(Provider) /\ Len(s) = N
  BY <1>1, <1>3
<1> QED
  BY <1>1, <1>2, <1>3, <1>7, <1>8

\* Whatever cools down, the fallback tier is asked after the others.
LEMMA OrdersSpare ==
    ASSUME NEW s \in Orders PROVE s \in Orderings /\ Spares(s)
<1>1. s \in Orderings /\ \A i, j \in DOMAIN s : i < j => Rank(s[i]) <= Rank(s[j])
  BY DEF Orders
<1>2. \A p \in Provider : Rank(p) \in Nat /\ (p \in Fallback <=> Rank(p) >= 2)
  BY DEF Rank
<1>3. \A i \in DOMAIN s : s[i] \in Provider
  BY <1>1, OrdersAll, ElementOfSeq
<1> QED
  BY <1>1, <1>2, <1>3 DEF Spares

LEMMA CallTypes ==
    ASSUME CallInv
    PROVE  /\ rpc \in [Call -> CallType] /\ \A c \in Call : rpc[c] \in CallType
           /\ tries \in [Call -> [Provider -> 0 .. 2]] /\ refused \in [Call -> SUBSET Provider]
           /\ cooling \subseteq Provider /\ memo \subseteq Key /\ flying \subseteq Call /\ flying \subseteq Cacheable
           /\ shaky \subseteq Provider /\ MaxAsks \in Nat /\ KeyOf \in [Call -> Key]
           /\ Cacheable \subseteq Call
  BY CallAssumption DEF CallInv, RpcTypeOK, CallType

\* Where a request that runs is, in its order.
LEMMA RunningAt ==
    ASSUME CallInv, NEW c \in Call, Running(c)
    PROVE  LET s == rpc[c].order  n == rpc[c].pos IN
           /\ s \in Orderings /\ Spares(s) /\ DOMAIN s = 1 .. Cardinality(Provider)
           /\ Len(s) = Cardinality(Provider) /\ n \in DOMAIN s /\ n \in Nat
           /\ \A j \in DOMAIN s : s[j] \in Provider
           /\ \A i, j \in DOMAIN s : i # j => s[i] # s[j]
           /\ \A p \in Provider : \E i \in DOMAIN s : s[i] = p
           /\ \A j \in DOMAIN s : /\ j < n => tries[c][s[j]] > 0
                                  /\ j = n => tries[c][s[j]] = IF At(c, "second") THEN 2 ELSE 1
                                  /\ j > n => tries[c][s[j]] = 0
           /\ \A p \in refused[c] : \E j \in DOMAIN s : j < n /\ s[j] = p
<1>1. Tried(c)
  BY DEF CallInv
<1>2. /\ rpc[c].order \in Orderings /\ Spares(rpc[c].order) /\ rpc[c].pos \in DOMAIN rpc[c].order
      /\ \A j \in DOMAIN rpc[c].order :
            /\ j < rpc[c].pos => tries[c][rpc[c].order[j]] > 0
            /\ j = rpc[c].pos => tries[c][rpc[c].order[j]] = IF At(c, "second") THEN 2 ELSE 1
            /\ j > rpc[c].pos => tries[c][rpc[c].order[j]] = 0
      /\ \A p \in refused[c] : \E j \in DOMAIN rpc[c].order : j < rpc[c].pos /\ rpc[c].order[j] = p
  BY <1>1 DEF Tried
<1>3. /\ rpc[c].order \in Seq(Provider) /\ DOMAIN rpc[c].order = 1 .. Cardinality(Provider)
      /\ Len(rpc[c].order) = Cardinality(Provider)
      /\ \A p \in Provider : \E i \in DOMAIN rpc[c].order : rpc[c].order[i] = p
  BY <1>2, OrdersAll
<1>4. \A i, j \in DOMAIN rpc[c].order : i # j => rpc[c].order[i] # rpc[c].order[j]
  BY <1>2, <1>3 DEF Orderings
<1> QED
  BY <1>2, <1>3, <1>4, ElementOfSeq

\* A provider of the fallback tier has been tried after all the others.
LEMMA FallbackTried ==
    ASSUME CallInv PROVE FallbackIsLast
<1> SUFFICES ASSUME NEW c \in Call, NEW p \in Fallback, tries[c][p] > 0, NEW q \in Primary
             PROVE  tries[c][q] > 0
  BY DEF FallbackIsLast
<1>1. p \in Provider /\ q \in Provider /\ q \notin Fallback
  BY ProviderAssumption DEF Primary
<1>2. Running(c)
  BY <1>1 DEF CallInv, Tried
<1> DEFINE s == rpc[c].order
           n == rpc[c].pos
<1>3. /\ Spares(s) /\ n \in DOMAIN s /\ DOMAIN s \subseteq Nat
      /\ \A r \in Provider : \E i \in DOMAIN s : s[i] = r
      /\ \A j \in DOMAIN s : /\ j < n => tries[c][s[j]] > 0
                             /\ j = n => tries[c][s[j]] = IF At(c, "second") THEN 2 ELSE 1
                             /\ j > n => tries[c][s[j]] = 0
  BY <1>2, RunningAt
<1> HIDE DEF s, n
<1>4. PICK i \in DOMAIN s : s[i] = p
  BY <1>1, <1>3
<1>5. PICK j \in DOMAIN s : s[j] = q
  BY <1>1, <1>3
<1>6. ~ (i > n)
  BY <1>3, <1>4
<1>7. ~ (i < j) /\ i # j
  BY <1>1, <1>3, <1>4, <1>5 DEF Spares
<1>8. j < n
  BY <1>3, <1>6, <1>7
<1> QED
  BY <1>3, <1>5, <1>8

\* A step that no provider is asked too often in.
Gentle ==
    \A c \in Call, p \in Provider :
        tries'[c][p] > tries[c][p] /\ rpc'[c].asks = rpc[c].asks
        => tries[c][p] < 2 /\ p \notin refused[c]

LEMMA TriedKept ==
    ASSUME CallInv, NEW d \in Call, rpc'[d] = rpc[d], tries'[d] = tries[d], refused'[d] = refused[d]
    PROVE  Tried(d)'
<1>1. Tried(d)
  BY DEF CallInv
<1> QED
  BY <1>1 DEF Tried, Running, At

\* Reads in flight are still led when no leader stops and who joins finds one.
LEMMA LedKept ==
    ASSUME CallInv, UNCHANGED flying,
           \A d \in Call : Running(d) => Running(d)',
           \A d \in Call : At(d, "joined")' => At(d, "joined") \/ (d \in Cacheable /\ Leader(KeyOf[d]) # {})
    PROVE  OneLeaderPerKey' /\ \A d \in Call : At(d, "joined")' => d \in Cacheable
<1>1. flying \subseteq Call
  BY CallTypes
<1> QED
  BY <1>1 DEF CallInv, OneLeaderPerKey, Leader

\* A request that does not run has tried nobody.
LEMMA EndedUntried ==
    ASSUME CallInv, NEW c \in Call, ~ Running(c)
    PROVE  \A p \in Provider : tries[c][p] = 0
  BY DEF CallInv, Tried

\* A read answered from the cache or by one that is in flight.
LEMMA AskShares ==
    ASSUME CallInv, NEW c \in Call, NEW place \in {"value", "joined"},
           rpc[c].at \in Ended, rpc[c].asks < MaxAsks, c \in Cacheable,
           place = "joined" => Leader(KeyOf[c]) # {},
           rpc' = [rpc EXCEPT ![c].at = place, ![c].asks = @ + 1],
           UNCHANGED <<shaky, cooling, memo, flying, tries, refused>>
    PROVE  CallInv' /\ Gentle
<1>1. /\ rpc \in [Call -> CallType] /\ rpc[c] \in CallType /\ MaxAsks \in Nat
      /\ tries \in [Call -> [Provider -> 0 .. 2]]
  BY CallTypes
<1>2. PICK r : r = [rpc[c] EXCEPT !.at = place, !.asks = @ + 1]
  OBVIOUS
<1>3. r \in CallType /\ r.at = place
  <2>1. rpc[c].asks \in 0 .. MaxAsks /\ rpc[c].asks + 1 \in 0 .. MaxAsks
    BY <1>1 DEF CallType
  <2>2. place \in Place
    BY DEF Place
  <2> QED
    BY <1>1, <1>2, <2>1, <2>2 DEF CallType
<1>4. rpc' = [rpc EXCEPT ![c] = r]
  BY <1>1, <1>2 DEF CallType
<1>5. rpc' \in [Call -> CallType] /\ rpc'[c].at = place /\ \A d \in Call \ {c} : rpc'[d] = rpc[d]
  BY <1>1, <1>3, <1>4
<1>6. ~ Running(c) /\ ~ Running(c)'
  BY <1>5 DEF Running, Ended
<1>7. \A d \in Call : Tried(d)'
  <2>1. Tried(c)'
    BY <1>6, EndedUntried DEF Tried
  <2> QED
    BY <1>5, <2>1, TriedKept
<1>8. OneLeaderPerKey' /\ \A d \in Call : At(d, "joined")' => d \in Cacheable
  <2>1. \A d \in Call : Running(d) => Running(d)'
    BY <1>5, <1>6 DEF Running
  <2>2. \A d \in Call : At(d, "joined")' => At(d, "joined") \/ (d \in Cacheable /\ Leader(KeyOf[d]) # {})
    BY <1>5 DEF At
  <2> QED
    BY <2>1, <2>2, LedKept
<1>9. RpcTypeOK'
  BY <1>5 DEF CallInv, RpcTypeOK, CallType
<1>10. Gentle
  BY <1>1 DEF Gentle
<1> QED
  BY <1>7, <1>8, <1>9, <1>10 DEF CallInv

\* A request that goes to the providers itself.
LEMMA LaunchSound ==
    ASSUME CallInv, NEW c \in Call, rpc[c].at \in Ended, rpc[c].asks < MaxAsks,
           c \in Cacheable => Leader(KeyOf[c]) = {}, Launch(c)
    PROVE  CallInv' /\ Gentle
<1>1. /\ rpc \in [Call -> CallType] /\ rpc[c] \in CallType /\ MaxAsks \in Nat
      /\ tries \in [Call -> [Provider -> 0 .. 2]] /\ refused \in [Call -> SUBSET Provider]
      /\ flying \subseteq Call /\ flying \subseteq Cacheable
  BY CallTypes
<1>2. PICK s \in Orders :
        /\ rpc' = [rpc EXCEPT ![c] = [at |-> "first", order |-> s, pos |-> 1, asks |-> @.asks + 1]]
        /\ tries' = [tries EXCEPT ![c] = [p \in Provider |-> IF p = s[1] THEN 1 ELSE 0]]
  BY DEF Launch
<1>3. /\ s \in Orderings /\ Spares(s) /\ s \in Seq(Provider) /\ DOMAIN s = 1 .. Cardinality(Provider)
      /\ Cardinality(Provider) \in Nat /\ Cardinality(Provider) >= 1
  BY OrdersSpare, OrdersAll
<1>4. PICK asks \in 0 .. MaxAsks : asks = rpc[c].asks + 1
  BY <1>1 DEF CallType
<1>5. [at |-> "first", order |-> s, pos |-> 1, asks |-> asks] \in CallType
  BY <1>3 DEF CallType, Place
<1>6. /\ rpc' \in [Call -> CallType] /\ \A d \in Call \ {c} : rpc'[d] = rpc[d]
      /\ rpc'[c].at = "first" /\ rpc'[c].order = s /\ rpc'[c].pos = 1 /\ rpc'[c].asks = rpc[c].asks + 1
  BY <1>1, <1>2, <1>4, <1>5
<1>7. /\ tries' \in [Call -> [Provider -> 0 .. 2]] /\ \A d \in Call \ {c} : tries'[d] = tries[d]
      /\ \A p \in Provider : tries'[c][p] = IF p = s[1] THEN 1 ELSE 0
  BY <1>1, <1>2
<1>8. /\ refused' \in [Call -> SUBSET Provider] /\ refused'[c] = {}
      /\ \A d \in Call \ {c} : refused'[d] = refused[d]
  BY <1>1 DEF Launch
<1>9. Tried(c)'
  <2>1. Running(c)' /\ ~ At(c, "second")' /\ 1 \in DOMAIN s
    BY <1>3, <1>6 DEF Running, At
  <2>2. \A i, j \in DOMAIN s : i # j => s[i] # s[j]
    BY <1>3 DEF Orderings
  <2>3. \A j \in DOMAIN s : s[j] \in Provider /\ j \in Nat /\ ~ (j < 1)
    BY <1>3, ElementOfSeq
  <2>4. \A j \in DOMAIN s : tries'[c][s[j]] = IF j = 1 THEN 1 ELSE 0
    BY <1>7, <2>1, <2>2, <2>3
  <2> QED
    BY <1>3, <1>6, <1>8, <2>1, <2>3, <2>4 DEF Tried
<1>10. \A d \in Call : Tried(d)'
  BY <1>6, <1>7, <1>8, <1>9, TriedKept
<1>11. ~ Running(c) /\ Running(c)'
  BY <1>6 DEF Running, Ended
<1>12. c \notin flying
  BY <1>11 DEF CallInv, OneLeaderPerKey
<1>13. flying' = IF c \in Cacheable THEN flying \cup {c} ELSE flying
  BY DEF Launch
<1>14. OneLeaderPerKey'
  <2>1. \A d, e \in flying' : KeyOf[d] = KeyOf[e] => d = e
    <3>1. \A d, e \in flying : KeyOf[d] = KeyOf[e] => d = e
      BY DEF CallInv, OneLeaderPerKey
    <3>2. c \in Cacheable => \A d \in flying : KeyOf[d] # KeyOf[c]
      BY DEF Leader
    <3> QED
      BY <1>13, <3>1, <3>2
  <2>2. \A d \in flying' : Running(d)'
    BY <1>1, <1>6, <1>11, <1>13 DEF CallInv, OneLeaderPerKey, Running
  <2>3. ASSUME NEW d \in Call, At(d, "joined")' PROVE Leader(KeyOf[d])' # {}
    <3>1. At(d, "joined") /\ d # c
      BY <1>6, <2>3 DEF At
    <3>2. Leader(KeyOf[d]) # {}
      BY <3>1 DEF CallInv, OneLeaderPerKey
    <3> QED
      BY <1>13, <3>2 DEF Leader
  <2> QED
    BY <2>1, <2>2, <2>3 DEF OneLeaderPerKey
<1>15. \A d \in Call : At(d, "joined")' => d \in Cacheable
  BY <1>6 DEF CallInv, At
<1>16. RpcTypeOK'
  BY <1>1, <1>6, <1>7, <1>8, <1>13 DEF CallInv, RpcTypeOK, CallType, Launch
<1>17. Gentle
  <2>1. rpc'[c].asks # rpc[c].asks
    BY <1>1, <1>6 DEF CallType
  <2>2. \A d \in Call \ {c}, p \in Provider : ~ (tries'[d][p] > tries[d][p])
    BY <1>1, <1>7
  <2> QED
    BY <2>1, <2>2 DEF Gentle
<1> QED
  BY <1>1, <1>10, <1>13, <1>14, <1>15, <1>16, <1>17 DEF CallInv

LEMMA AskSound ==
    ASSUME CallInv, NEW c \in Call, Ask(c) PROVE CallInv' /\ Gentle
  BY AskShares, LaunchSound DEF Ask

\* A request ends, and with it those that joined it.
LEMMA SettleSound ==
    ASSUME CallInv, NEW c \in Call, Running(c), NEW result \in {"value", "null", "error"},
           Settle(c, result), UNCHANGED shaky, cooling' \subseteq Provider
    PROVE  CallInv' /\ Gentle
<1>1. /\ rpc \in [Call -> CallType] /\ MaxAsks \in Nat
      /\ tries \in [Call -> [Provider -> 0 .. 2]] /\ refused \in [Call -> SUBSET Provider]
      /\ flying \subseteq Call /\ flying \subseteq Cacheable /\ memo \subseteq Key /\ KeyOf \in [Call -> Key]
  BY CallTypes
<1>2. /\ rpc' = [d \in Call |-> IF d \in Served(c)
                              THEN [Blank EXCEPT !.at = result, !.asks = rpc[d].asks] ELSE rpc[d]]
      /\ tries' = [tries EXCEPT ![c] = [p \in Provider |-> 0]]
      /\ refused' = [refused EXCEPT ![c] = {}]
      /\ flying' = flying \ {c} /\ memo' \subseteq Key
  BY <1>1 DEF Settle, Serve
<1>3. \A d \in Served(c) : d \in Call /\ (d = c \/ (At(d, "joined") /\ ~ Running(d)))
  BY DEF Served, Running, At
<1>4. ASSUME NEW d \in Call
      PROVE  /\ rpc'[d] \in CallType
             /\ d \in Served(c) => rpc'[d].at = result
             /\ d \notin Served(c) => rpc'[d] = rpc[d]
  <2>1. CASE d \in Served(c)
    <3>1. PICK asks \in 0 .. MaxAsks : asks = rpc[d].asks
      BY <1>1 DEF CallType
    <3>2. rpc'[d] = [at |-> result, order |-> << >>, pos |-> 0, asks |-> asks]
      BY <1>2, <2>1, <3>1 DEF Blank
    <3>3. << >> \in Seq(Provider) /\ 0 \in 0 .. Cardinality(Provider)
      BY EmptySeq, FS_CardinalityType, ProviderAssumption
    <3> QED
      BY <2>1, <3>2, <3>3 DEF CallType, Place
  <2>2. CASE d \notin Served(c)
    BY <1>1, <1>2, <2>2
  <2> QED
    BY <2>1, <2>2
<1>5. rpc' \in [Call -> CallType]
  BY <1>2, <1>4
<1>6. /\ tries' \in [Call -> [Provider -> 0 .. 2]] /\ \A d \in Call \ {c} : tries'[d] = tries[d]
      /\ \A p \in Provider : tries'[c][p] = 0
      /\ refused' \in [Call -> SUBSET Provider] /\ \A d \in Call \ {c} : refused'[d] = refused[d]
  <2>1. PICK z : z = [p \in Provider |-> 0]
    OBVIOUS
  <2>2. z \in [Provider -> 0 .. 2] /\ \A p \in Provider : z[p] = 0
    BY <2>1
  <2> QED
    BY <1>1, <1>2, <2>1, <2>2
<1>7. ASSUME NEW d \in Call PROVE Tried(d)'
  <2>1. CASE d \in Served(c)
    <3>1. ~ Running(d)'
      BY <1>4, <2>1 DEF Running
    <3>2. \A p \in Provider : tries'[d][p] = 0
      BY <1>3, <1>6, <2>1, EndedUntried
    <3> QED
      BY <3>1, <3>2 DEF Tried
  <2>2. CASE d \notin Served(c)
    <3>1. d # c
      BY <2>2 DEF Served
    <3> QED
      BY <1>4, <1>6, <2>2, <3>1, TriedKept
  <2> QED
    BY <2>1, <2>2
<1>8. OneLeaderPerKey'
  <2>1. \A d, e \in flying' : KeyOf[d] = KeyOf[e] => d = e
    BY <1>2 DEF CallInv, OneLeaderPerKey
  <2>2. ASSUME NEW d \in flying' PROVE Running(d)'
    <3>1. Running(d) /\ d # c /\ d \in Call
      BY <1>1, <1>2 DEF CallInv, OneLeaderPerKey
    <3>2. rpc'[d] = rpc[d]
      BY <1>3, <1>4, <3>1
    <3> QED
      BY <3>1, <3>2 DEF Running
  <2>3. ASSUME NEW d \in Call, At(d, "joined")' PROVE Leader(KeyOf[d])' # {}
    <3>1. d \notin Served(c) /\ At(d, "joined")
      BY <1>4, <2>3 DEF At
    <3>2. PICK e \in flying : KeyOf[e] = KeyOf[d]
      BY <3>1 DEF CallInv, OneLeaderPerKey, Leader
    <3>3. e # c
      BY <1>1, <3>1, <3>2 DEF Served
    <3> QED
      BY <1>2, <3>2, <3>3 DEF Leader
  <2> QED
    BY <2>1, <2>2, <2>3 DEF OneLeaderPerKey
<1>9. \A d \in Call : At(d, "joined")' => d \in Cacheable
  BY <1>4 DEF CallInv, At
<1>10. RpcTypeOK'
  BY <1>1, <1>2, <1>5, <1>6 DEF CallInv, RpcTypeOK, CallType
<1>11. Gentle
  BY <1>1, <1>6, SMTT(30) DEF Gentle
<1> QED
  BY <1>1, <1>2, <1>7, <1>8, <1>9, <1>10, <1>11 DEF CallInv

\* What a request has tried at its n-th provider, none of it too often.
TriedUpTo(c, at, n, t, no) ==
    LET s == rpc[c].order IN
    /\ \A j \in DOMAIN s : /\ j < n => t[s[j]] > 0
                           /\ j = n => t[s[j]] = IF at = "second" THEN 2 ELSE 1
                           /\ j > n => t[s[j]] = 0
    /\ \A p \in no : \E j \in DOMAIN s : j < n /\ s[j] = p
    /\ \A p \in Provider : t[p] > tries[c][p] => tries[c][p] < 2 /\ p \notin refused[c]

\* A request goes on: its place among its providers, and what it has tried.
LEMMA GoesOn ==
    ASSUME CallInv, NEW c \in Call, Running(c),
           NEW at \in {"first", "sleep", "second"}, NEW n \in 1 .. Cardinality(Provider),
           rpc' = [rpc EXCEPT ![c].at = at, ![c].pos = n],
           NEW t \in [Provider -> 0 .. 2], tries' = [tries EXCEPT ![c] = t],
           NEW no \in SUBSET Provider, refused' = [refused EXCEPT ![c] = no],
           TriedUpTo(c, at, n, t, no),
           UNCHANGED <<shaky, memo, flying>>, cooling' \subseteq Provider
    PROVE  CallInv' /\ Gentle
<1>1. /\ rpc \in [Call -> CallType] /\ rpc[c] \in CallType /\ MaxAsks \in Nat
      /\ tries \in [Call -> [Provider -> 0 .. 2]] /\ refused \in [Call -> SUBSET Provider]
  BY CallTypes
<1>2. PICK r : r = [rpc[c] EXCEPT !.at = at, !.pos = n]
  OBVIOUS
<1>3. r \in CallType /\ r.at = at /\ r.pos = n /\ r.order = rpc[c].order
  <2>1. n \in 0 .. Cardinality(Provider) /\ at \in Place
    BY FS_CardinalityType, ProviderAssumption DEF Place
  <2> QED
    BY <1>1, <1>2, <2>1 DEF CallType
<1>4. rpc' = [rpc EXCEPT ![c] = r]
  BY <1>1, <1>2 DEF CallType
<1>5. /\ rpc' \in [Call -> CallType] /\ \A d \in Call \ {c} : rpc'[d] = rpc[d]
      /\ rpc'[c].at = at /\ rpc'[c].pos = n /\ rpc'[c].order = rpc[c].order
  <2>1. rpc' \in [Call -> CallType] /\ rpc'[c] = r /\ \A d \in Call \ {c} : rpc'[d] = rpc[d]
    BY <1>1, <1>3, <1>4, ZenonT(30)
  <2> QED
    BY <1>3, <2>1
<1>6. /\ tries' \in [Call -> [Provider -> 0 .. 2]] /\ tries'[c] = t /\ \A d \in Call \ {c} : tries'[d] = tries[d]
      /\ refused' \in [Call -> SUBSET Provider] /\ refused'[c] = no
      /\ \A d \in Call \ {c} : refused'[d] = refused[d]
  BY <1>1
<1>7. Running(c)'
  BY <1>5 DEF Running
<1>8. Tried(c)'
  <2>1. /\ rpc[c].order \in Orderings /\ Spares(rpc[c].order) /\ n \in DOMAIN rpc[c].order
    BY RunningAt
  <2> QED
    BY <1>5, <1>6, <1>7, <2>1 DEF Tried, At, TriedUpTo
<1>9. \A d \in Call : Tried(d)'
  BY <1>5, <1>6, <1>8, TriedKept
<1>10. OneLeaderPerKey' /\ \A d \in Call : At(d, "joined")' => d \in Cacheable
  <2>1. \A d \in Call : Running(d) => Running(d)'
    BY <1>5, <1>7 DEF Running
  <2>2. \A d \in Call : At(d, "joined")' => At(d, "joined")
    BY <1>5 DEF At
  <2> QED
    BY <2>1, <2>2, LedKept
<1>11. RpcTypeOK'
  BY <1>5, <1>6 DEF CallInv, RpcTypeOK, CallType
<1>12. Gentle
  <2>1. \A d \in Call \ {c}, p \in Provider : ~ (tries'[d][p] > tries[d][p])
    BY <1>1, <1>6
  <2> QED
    BY <1>6, <2>1 DEF Gentle, TriedUpTo
<1> QED
  BY <1>9, <1>10, <1>11, <1>12 DEF CallInv

LEMMA RotateSound ==
    ASSUME CallInv, NEW c \in Call, Running(c), NEW saidNo \in SUBSET {Target(c)}, Rotate(c, saidNo)
    PROVE  CallInv' /\ Gentle
<1> DEFINE s == rpc[c].order
           n == rpc[c].pos
<1>1. /\ DOMAIN s = 1 .. Cardinality(Provider) /\ Len(s) = Cardinality(Provider) /\ n \in DOMAIN s /\ n \in Nat
      /\ \A j \in DOMAIN s : s[j] \in Provider
      /\ \A i, j \in DOMAIN s : i # j => s[i] # s[j]
      /\ \A p \in refused[c] : \E j \in DOMAIN s : j < n /\ s[j] = p
  BY RunningAt
<1>2. \A j \in DOMAIN s : /\ j < n => tries[c][s[j]] > 0
                          /\ j = n => tries[c][s[j]] = IF At(c, "second") THEN 2 ELSE 1
                          /\ j > n => tries[c][s[j]] = 0
  BY RunningAt
<1>3. /\ rpc \in [Call -> CallType] /\ rpc[c] \in CallType /\ tries \in [Call -> [Provider -> 0 .. 2]]
      /\ refused \in [Call -> SUBSET Provider] /\ cooling \subseteq Provider
      /\ Cardinality(Provider) \in Nat
  BY CallTypes, FS_CardinalityType, ProviderAssumption
<1>4. cooling' \subseteq Provider /\ UNCHANGED shaky /\ Target(c) \in Provider /\ Target(c) = s[n]
  BY <1>1, <1>3 DEF Rotate, Target
<1>5. CASE ~ HasMore(c) /\ Settle(c, "error")
  BY <1>4, <1>5, SettleSound
<1>6. CASE /\ HasMore(c)
           /\ rpc' = [rpc EXCEPT ![c].at = "first", ![c].pos = @ + 1]
           /\ CountTry(c, rpc[c].order[rpc[c].pos + 1])
           /\ refused' = [refused EXCEPT ![c] = @ \cup saidNo]
           /\ UNCHANGED <<memo, flying>>
  <2>1. PICK m \in 1 .. Cardinality(Provider) : m = n + 1
    BY <1>1, <1>3, <1>6 DEF HasMore
  <2>2. rpc' = [rpc EXCEPT ![c].at = "first", ![c].pos = m]
    BY <1>3, <1>6, <2>1 DEF CallType
  <2>3. m \in DOMAIN s /\ s[m] \in Provider /\ tries[c][s[m]] = 0 /\ n # m
    BY <1>1, <1>2, <2>1
  <2>4. PICK t : t = [tries[c] EXCEPT ![s[m]] = @ + 1]
    OBVIOUS
  <2>5. /\ t \in [Provider -> 0 .. 2] /\ t[s[m]] = 1
        /\ \A p \in Provider \ {s[m]} : t[p] = tries[c][p]
    BY <1>3, <2>3, <2>4
  <2>6. tries' = [tries EXCEPT ![c] = t]
    BY <1>3, <1>6, <2>1, <2>4 DEF CountTry
  <2>7. PICK no \in SUBSET Provider : no = refused[c] \cup saidNo /\ refused' = [refused EXCEPT ![c] = no]
    BY <1>3, <1>4, <1>6
  <2>8. ASSUME NEW j \in DOMAIN s
        PROVE  /\ j < m => t[s[j]] > 0
               /\ j = m => t[s[j]] = IF "first" = "second" THEN 2 ELSE 1
               /\ j > m => t[s[j]] = 0
    <3>1. j # m => t[s[j]] = tries[c][s[j]]
      BY <1>1, <2>3, <2>5
    <3>2. (j < m <=> j < n \/ j = n) /\ (j > m => j > n) /\ j \in Nat
      BY <1>1, <2>1
    <3>3. j = n => tries[c][s[j]] > 0
      BY <1>2
    <3> QED
      BY <1>2, <2>3, <2>5, <3>1, <3>2, <3>3
  <2>9. \A p \in no : \E j \in DOMAIN s : j < m /\ s[j] = p
    <3>1. ASSUME NEW p \in refused[c] PROVE \E j \in DOMAIN s : j < m /\ s[j] = p
      <4>1. PICK j \in DOMAIN s : j < n /\ s[j] = p
        BY <1>1
      <4> QED
        BY <1>1, <2>1, <4>1
    <3>2. ASSUME NEW p \in saidNo PROVE \E j \in DOMAIN s : j < m /\ s[j] = p
      <4>1. p = s[n] /\ n < m
        BY <1>1, <1>4, <2>1
      <4> QED
        BY <1>1, <4>1
    <3> QED
      BY <2>7, <3>1, <3>2
  <2>10. \A p \in Provider : t[p] > tries[c][p] => tries[c][p] < 2 /\ p \notin refused[c]
    <3>1. ASSUME NEW p \in Provider, t[p] > tries[c][p] PROVE p = s[m]
      BY <1>3, <2>5, <3>1
    <3>2. s[m] \notin refused[c]
      BY <1>1, <2>1, <2>3
    <3> QED
      BY <2>3, <3>1, <3>2
  <2>13. TriedUpTo(c, "first", m, t, no)
    BY <2>8, <2>9, <2>10 DEF TriedUpTo
  <2> HIDE DEF s, n
  <2>11. "first" \in {"first", "sleep", "second"}
    OBVIOUS
  <2>12. UNCHANGED <<shaky, memo, flying>>
    BY <1>4, <1>6
  <2> QED
    BY <1>4, <2>2, <2>5, <2>6, <2>7, <2>11, <2>12, <2>13, GoesOn
<1> QED
  BY <1>5, <1>6 DEF Rotate

LEMMA FailOnceSound ==
    ASSUME CallInv, NEW c \in Call, FailOnce(c)
    PROVE  CallInv' /\ Gentle
<1>1. Running(c) /\ At(c, "first")
  BY DEF FailOnce, At, Running
<1>2. /\ rpc \in [Call -> CallType] /\ rpc[c] \in CallType /\ tries \in [Call -> [Provider -> 0 .. 2]]
      /\ refused \in [Call -> SUBSET Provider] /\ cooling \subseteq Provider
  BY CallTypes
<1>3. rpc[c].pos \in 1 .. Cardinality(Provider)
  BY <1>1, RunningAt
<1>4. rpc' = [rpc EXCEPT ![c].at = "sleep", ![c].pos = rpc[c].pos]
  BY <1>2 DEF FailOnce, CallType
<1>5. /\ tries[c] \in [Provider -> 0 .. 2] /\ tries' = [tries EXCEPT ![c] = tries[c]]
      /\ refused[c] \in SUBSET Provider /\ refused' = [refused EXCEPT ![c] = refused[c]]
  BY <1>2 DEF FailOnce
<1>6. \A j \in DOMAIN rpc[c].order :
          /\ j < rpc[c].pos => tries[c][rpc[c].order[j]] > 0
          /\ j = rpc[c].pos => tries[c][rpc[c].order[j]] = IF "sleep" = "second" THEN 2 ELSE 1
          /\ j > rpc[c].pos => tries[c][rpc[c].order[j]] = 0
  BY <1>1, RunningAt DEF At
<1>7. \A p \in refused[c] : \E j \in DOMAIN rpc[c].order : j < rpc[c].pos /\ rpc[c].order[j] = p
  BY <1>1, RunningAt
<1>8. \A p \in Provider : ~ (tries[c][p] > tries[c][p])
  BY <1>2
<1>9. UNCHANGED <<shaky, memo, flying>> /\ cooling' \subseteq Provider
  BY <1>2 DEF FailOnce
<1>10. TriedUpTo(c, "sleep", rpc[c].pos, tries[c], refused[c])
  BY <1>6, <1>7, <1>8 DEF TriedUpTo
<1> QED
  BY <1>1, <1>3, <1>4, <1>5, <1>9, <1>10, GoesOn

LEMMA RetrySound ==
    ASSUME CallInv, NEW c \in Call, Retry(c)
    PROVE  CallInv' /\ Gentle
<1> DEFINE s == rpc[c].order
           n == rpc[c].pos
<1>1. Running(c) /\ ~ At(c, "second")
  BY DEF Retry, At, Running
<1>2. /\ rpc \in [Call -> CallType] /\ rpc[c] \in CallType /\ tries \in [Call -> [Provider -> 0 .. 2]]
      /\ refused \in [Call -> SUBSET Provider] /\ cooling \subseteq Provider
  BY CallTypes
<1>3. /\ DOMAIN s = 1 .. Cardinality(Provider) /\ n \in DOMAIN s /\ n \in Nat
      /\ \A j \in DOMAIN s : s[j] \in Provider
      /\ \A i, j \in DOMAIN s : i # j => s[i] # s[j]
      /\ \A j \in DOMAIN s : /\ j < n => tries[c][s[j]] > 0
                             /\ j = n => tries[c][s[j]] = IF At(c, "second") THEN 2 ELSE 1
                             /\ j > n => tries[c][s[j]] = 0
      /\ \A p \in refused[c] : \E j \in DOMAIN s : j < n /\ s[j] = p
  BY <1>1, RunningAt
<1>4. rpc' = [rpc EXCEPT ![c].at = "second", ![c].pos = n]
  BY <1>2 DEF Retry, CallType
<1>5. tries[c][s[n]] = 1 /\ s[n] \in Provider
  BY <1>1, <1>3
<1>6. PICK t : t = [tries[c] EXCEPT ![s[n]] = @ + 1]
  OBVIOUS
<1>7. /\ t \in [Provider -> 0 .. 2] /\ t[s[n]] = 2
      /\ \A p \in Provider \ {s[n]} : t[p] = tries[c][p]
  BY <1>2, <1>5, <1>6
<1>8. /\ tries' = [tries EXCEPT ![c] = t]
      /\ refused[c] \in SUBSET Provider /\ refused' = [refused EXCEPT ![c] = refused[c]]
  BY <1>2, <1>6 DEF Retry, CountTry, Target
<1>9. ASSUME NEW j \in DOMAIN s
      PROVE  /\ j < n => t[s[j]] > 0
             /\ j = n => t[s[j]] = IF "second" = "second" THEN 2 ELSE 1
             /\ j > n => t[s[j]] = 0
  <2>1. j # n => t[s[j]] = tries[c][s[j]]
    BY <1>3, <1>7
  <2>2. (j < n => j # n) /\ (j > n => j # n)
    BY <1>3
  <2> QED
    BY <1>3, <1>7, <2>1, <2>2
<1>10. \A p \in Provider : t[p] > tries[c][p] => tries[c][p] < 2 /\ p \notin refused[c]
  <2>1. ASSUME NEW p \in Provider, t[p] > tries[c][p] PROVE p = s[n]
    BY <1>2, <1>7, <2>1
  <2>2. s[n] \notin refused[c]
    BY <1>3
  <2> QED
    BY <1>5, <2>1, <2>2
<1>11. UNCHANGED <<shaky, memo, flying>> /\ cooling' \subseteq Provider
  BY <1>2 DEF Retry
<1>12. n \in 1 .. Cardinality(Provider)
  BY <1>3
<1>13. \A p \in refused[c] : \E j \in DOMAIN s : j < n /\ s[j] = p
  BY <1>3
<1>14. TriedUpTo(c, "second", n, t, refused[c])
  BY <1>9, <1>10, <1>13 DEF TriedUpTo
<1> HIDE DEF s, n
<1> QED
  BY <1>1, <1>4, <1>7, <1>8, <1>11, <1>12, <1>14, GoesOn

LEMMA ProgressSound ==
    ASSUME CallInv, NEW c \in Call, Progress(c)
    PROVE  CallInv' /\ Gentle
<1>1. /\ rpc \in [Call -> CallType] /\ cooling \subseteq Provider
  BY CallTypes
<1>2. CASE Succeed(c)
  <2>1. Running(c) /\ cooling' \subseteq Provider /\ UNCHANGED shaky
    BY <1>1, <1>2 DEF Succeed, Running
  <2>2. PICK a \in {"value", "null"} : Settle(c, a)
    BY <1>2 DEF Succeed, Answer
  <2> QED
    BY <2>1, <2>2, SettleSound
<1>3. CASE FailForGood(c)
  BY <1>1, <1>3, SettleSound DEF FailForGood, Running
<1>4. CASE RateLimited(c)
  BY <1>4, RotateSound DEF RateLimited, Running
<1>5. CASE TimeOut(c)
  <2>1. CASE FailOnce(c)
    BY <2>1, FailOnceSound
  <2>2. CASE FailTwice(c)
    BY <2>2, RotateSound DEF FailTwice, Running, At
  <2> QED
    BY <1>5, <2>1, <2>2 DEF TimeOut
<1>6. CASE Retry(c)
  BY <1>6, RetrySound
<1> QED
  BY <1>2, <1>3, <1>4, <1>5, <1>6 DEF Progress

\* Nothing of the requests changes, but for cooldowns and cached values.
LEMMA CallsKept ==
    ASSUME CallInv, UNCHANGED <<shaky, flying, rpc, tries, refused>>, cooling' \subseteq Provider, memo' \subseteq Key
    PROVE  CallInv' /\ Gentle
<1>1. \A d \in Call : Tried(d)'
  BY TriedKept
<1>2. OneLeaderPerKey' /\ \A d \in Call : At(d, "joined")' => d \in Cacheable
  BY LedKept DEF Running, At
<1>3. RpcTypeOK'
  BY DEF CallInv, RpcTypeOK
<1>4. Gentle
  BY CallTypes DEF Gentle
<1> QED
  BY <1>1, <1>2, <1>3, <1>4 DEF CallInv

LEMMA CallsBegin ==
    ASSUME RpcInit PROVE CallInv
<1>1. Blank \in CallType
  BY EmptySeq, FS_CardinalityType, ProviderAssumption, CallAssumption DEF Blank, CallType, Place
<1>2. rpc \in [Call -> CallType] /\ \A c \in Call : rpc[c].at = "idle"
  BY <1>1 DEF RpcInit, Blank
<1>3. \A c \in Call, p \in Provider : tries[c][p] = 0
  BY DEF RpcInit
<1>4. RpcTypeOK
  BY <1>2 DEF RpcInit, RpcTypeOK, CallType
<1>5. \A c \in Call : Tried(c)
  BY <1>2, <1>3 DEF Tried, Running
<1> QED
  BY <1>2, <1>4, <1>5 DEF CallInv, OneLeaderPerKey, RpcInit, At

-----------------------------------------------------------------------------
\* --- The queue over the connection ------------------------------------------

ScannerInv == CallInv /\ QueueInv /\ load \in Workloads

LEMMA ScannerBegins ==
    ASSUME Init PROVE ScannerInv
<1>1. RpcInit /\ QueueInit /\ load \in Workloads
  BY DEF Init
<1> QED
  BY <1>1, CallsBegin, QueueBegins DEF ScannerInv

\* The queue, the requests and the governor keep their promises in every step.
LEMMA ScannerStep ==
    ASSUME ScannerInv, [Next]_vars
    PROVE  ScannerInv' /\ Gentle /\ (Pressure /\ slots' > slots => slots < MinConcurrency)
<1> USE DEF ScannerInv
<1>1. slots \in Nat /\ tries \in [Call -> [Provider -> 0 .. 2]] /\ cooling \subseteq Provider /\ memo \subseteq Key
  BY CallTypes, BoundsAssumption DEF QueueInv, QueueTypeOK
<1>2. ASSUME UNCHANGED queueVars PROVE QueueInv' /\ ~ (slots' > slots)
  <2>1. /\ fast' = fast /\ normal' = normal /\ running' = running /\ slots' = slots
        /\ governed' = governed /\ served' = served /\ tierOf' = tierOf /\ came' = came
    BY <1>2 DEF queueVars
  <2>2. QueueTypeOK'
    BY <2>1 DEF QueueInv, QueueTypeOK
  <2>3. Lines(fast, normal, served)' /\ InOrder(served)'
    BY <2>1 DEF QueueInv, Lines, Line, Behind, InOrder
  <2>4. (running \subseteq ElementsOf(served))' /\ (ElementsOf(fast) \cup ElementsOf(normal) \cup ElementsOf(served) = 1 .. came)'
    BY <2>1 DEF QueueInv, ElementsOf
  <2>5. NoIdleSlot'
    BY <2>1 DEF QueueInv, NoIdleSlot, Waiting
  <2>6. IsFiniteSet(running)' /\ (governed = IF slots < MinConcurrency THEN MinConcurrency ELSE slots)'
    BY <2>1 DEF QueueInv
  <2>7. QueueInv'
    BY <2>2, <2>3, <2>4, <2>5, <2>6 DEF QueueInv
  <2> QED
    BY <1>1, <2>1, <2>7
<1>3. ASSUME UNCHANGED rpcVars PROVE CallInv' /\ Gentle
  BY <1>1, <1>3, CallsKept DEF rpcVars
<1>4. CASE Arrive
  <2>1. PICK i \in load.items : Enqueue(i)
    BY <1>4 DEF Arrive
  <2>2. i \in Item
    BY <2>1, WorkloadAssumption
  <2> QED
    BY <1>1, <1>3, <1>4, <2>1, <2>2, EnqueueKeeps DEF Arrive, Enqueue
<1>5. CASE Tick
  <2>1. Pressure \in BOOLEAN
    BY DEF Pressure
  <2>2. QueueInv' /\ (Pressure /\ slots' > slots => slots < MinConcurrency)
    BY <1>5, <2>1, GovernKeeps DEF Tick
  <2> QED
    BY <1>3, <1>5, <2>2 DEF Tick
<1>6. ASSUME NEW i \in Item, Request(i) PROVE ScannerInv' /\ Gentle /\ ~ (slots' > slots)
  <2>1. i \in Call
    BY LeadAssumption
  <2> QED
    BY <1>2, <1>6, <2>1, AskSound DEF Request
<1>7. ASSUME NEW i \in Item, Conclude(i) PROVE ScannerInv' /\ Gentle /\ ~ (slots' > slots)
  BY <1>1, <1>3, <1>7, FinishKeeps DEF Conclude, Finish
<1>8. ASSUME NEW c \in Call, Other(c) \/ Work(c) PROVE ScannerInv' /\ Gentle /\ ~ (slots' > slots)
  BY <1>2, <1>8, AskSound, ProgressSound DEF Other, Work
<1>9. CASE Elapse /\ UNCHANGED <<queueVars, load>>
  <2>1. UNCHANGED <<shaky, flying, rpc, tries, refused>> /\ cooling' \subseteq Provider /\ memo' \subseteq Key
    BY <1>1, <1>9 DEF Elapse, CooldownLapses, CacheLapses
  <2> QED
    BY <1>2, <1>9, <2>1, CallsKept
<1>10. CASE UNCHANGED vars
  BY <1>2, <1>3, <1>10 DEF vars
<1> QED
  BY <1>4, <1>5, <1>6, <1>7, <1>8, <1>9, <1>10 DEF Next

\* A scanned item waits once, is started once, in the order of its tier and as
\* soon as a slot is free, for every number of items and slots.
THEOREM ItemsHandledOnce == Spec => []HandledOnce
<1>1. Init => ScannerInv
  BY ScannerBegins
<1>2. ScannerInv /\ [Next]_vars => ScannerInv'
  BY ScannerStep
<1>3. ScannerInv => HandledOnce
  BY QueueHandles DEF ScannerInv
<1> QED
  BY <1>1, <1>2, <1>3, PTL DEF Spec

\* Whatever fails, and in whatever order the providers stand: reads are shared,
\* the fallback tier is last, nobody is asked a third time or again after a
\* refusal, and no slot is added while the first provider cools down.
THEOREM ConnectionSound == Spec => ConnectionIsSound
<1>1. Init => ScannerInv
  BY ScannerBegins
<1>2. ScannerInv /\ [Next]_vars => ScannerInv'
  BY ScannerStep
<1>3. ScannerInv => TypeOK /\ FallbackIsLast /\ OneLeaderPerKey
  BY FallbackTried DEF ScannerInv, TypeOK, CallInv, QueueInv
<1>4. ScannerInv /\ [Next]_vars => [\A c \in Call, p \in Provider :
          tries'[c][p] > tries[c][p] /\ rpc'[c].asks = rpc[c].asks
          => tries[c][p] < 2 /\ p \notin refused[c]]_vars
  BY ScannerStep DEF Gentle
<1>5. ScannerInv /\ [Next]_vars => [Pressure /\ slots' > slots => slots < MinConcurrency]_vars
  BY ScannerStep
<1> QED
  BY <1>1, <1>2, <1>3, <1>4, <1>5, PTL DEF Spec, ConnectionIsSound, NoHammering, NoGrowthUnderPressure

-----------------------------------------------------------------------------
\* --- The candidates ----------------------------------------------------------

\* Where a task is before the dedupe has let it in, before its row is written,
\* and after.
Entering  == {"idle", "fetch", "lookup"}
Unwritten == {"screen", "analyse", "retry", "accept", "reject"}
Written   == {"rejected", "queued", "scoring", "scored", "snapshot", "waiting", "recheck", "evaluate"}

\* Tasks of a mint that may yet come to AutoTrader.
Live(m) == {t \in Task : MintOf(t) = m /\ task[t].at \in Unwritten \cup Written}

Clean(t) ==
    /\ task[t].at \in Entering \ {"idle"} => KindOf(t) # "migrated"
    /\ MintOf(t) \in Bad => task[t].at \in Entering \cup (Unwritten \ {"accept"}) \cup {"rejected", "done"}
    /\ task[t].at \notin {"waiting", "recheck", "evaluate", "done"} => ~task[t].dumped
    /\ task[t].at = "evaluate" /\ task[t].dumped => task[t].blind

\* A mint that no two tasks entered at once has had one evaluation, or has one
\* under way, and one more for each migration.
Once(m) ==
    /\ IsFiniteSet(Live(m)) /\ evaluated[m] + Cardinality(Live(m)) <= 1 + migrations[m]
    /\ row[m] = "none" =>
         evaluated[m] = 0 /\ migrations[m] = 0 /\ \A t \in Live(m) : t \in Unrecorded(m)

PipelineInv ==
    /\ PipelineTypeOK /\ IsFiniteSet(pending) /\ events \in Events
    /\ \A t \in Task : Clean(t)
    /\ \A m \in Mint : m \in hints \/ polling = m => row[m] # "none"
    /\ \A m \in Mint \ overlapped : Once(m)
    /\ NothingBadIsBought /\ NoOrphanEvaluation
-----------------------------------------------------------------------------
USE CandidateAssumption

TaskType == [at : Places, attempt : 0 .. MaxAttempts, blind : BOOLEAN, dumped : BOOLEAN]

\* A step of a task, or of what happens to it; not the end of the process.
Moves(t) == Step(t) \/ Dump(t) \/ (Throws(t) /\ ~Stop)

\* The other tasks and what a task cannot touch stay.
Others(t) ==
    /\ task' \in [Task -> TaskType] /\ \A u \in Task \ {t} : task'[u] = task[u]
    /\ UNCHANGED <<events, migrations, polling, complete, crashes>>

Rows == <<row, evaluated, overlapped, momentum, hints>>

\* Before the dedupe, and past it with no row found.
Arrives(t) ==
    /\ task[t].at \in Entering /\ task'[t].dumped = task[t].dumped /\ UNCHANGED <<pending, row, evaluated, momentum>>
    /\ hints' \subseteq hints \cup {MintOf(t)}
    /\ \A m \in hints' : m \in hints \/ row[m] = "PUMPFUN"
    /\ \/ task'[t].at \in {"fetch", "lookup"} /\ overlapped' = overlapped
          /\ (task[t].at = "idle" => KindOf(t) # "migrated")
       \/ task'[t].at = "done" /\ overlapped' = overlapped
       \/ /\ task[t].at = "lookup" /\ task'[t].at \in {"screen", "analyse"} /\ row[MintOf(t)] = "none"
          /\ overlapped' = IF Unrecorded(MintOf(t)) # {} THEN overlapped \cup {MintOf(t)} ELSE overlapped

\* Between the dedupe and the row.
Judges(t) ==
    /\ task[t].at \in Unwritten /\ task'[t].at \in Unwritten \cup {"done"} /\ UNCHANGED <<pending, Rows>>
    /\ task'[t].dumped = task[t].dumped
    /\ task'[t].at = "accept" => MintOf(t) \notin Bad

\* The row is written.
Records(t) ==
    /\ UNCHANGED <<pending, evaluated, overlapped, hints>> /\ task'[t].dumped = task[t].dumped
    /\ row' \in [Mint -> {"none", "PUMPFUN", "AMM"}]
    /\ \A m \in Mint : (row[m] # "none" => row'[m] # "none") /\ (m # MintOf(t) => row'[m] = row[m])
    /\ row'[MintOf(t)] # "none"
    /\ \/ task[t].at = "accept" /\ task'[t].at = "queued" /\ momentum' = momentum \cup {MintOf(t)}
       \/ task[t].at = "reject" /\ task'[t].at = "rejected" /\ momentum' = momentum

\* Towards AutoTrader.
Follows(t) ==
    /\ task[t].at \in Written /\ UNCHANGED <<row, overlapped, hints>>
    /\ IsFiniteSet(pending) => IsFiniteSet(pending')
    /\ pending' \subseteq Mint /\ Cardinality(pending') <= MaxPending
    /\ task'[t].at \in (Written \cup {"done"}) \ {"queued", "rejected"}
    /\ task[t].at = "rejected" => task'[t].at = "done"
    /\ \/ momentum' = momentum /\ task[t].at # "queued"
       \/ momentum' = momentum \ {MintOf(t)}
    /\ \/ evaluated' = evaluated
       \/ /\ task[t].at = "evaluate" /\ task'[t].at = "done"
          /\ evaluated' = [evaluated EXCEPT ![MintOf(t)] = @ + 1]
    /\ \/ task'[t].dumped = task[t].dumped
       \/ task'[t].at = "waiting"
    /\ task'[t].at = "evaluate" /\ task'[t].dumped =>
         task[t].at = "recheck" /\ task[t].dumped /\ task'[t].blind
    /\ task'[t].at \in {"scoring", "scored", "snapshot"} => task[t].at \in {"queued", "scoring", "scored"}

\* A task's steps are these.
LEMMA Table ==
  ASSUME PipelineTypeOK, IsFiniteSet(pending), events \in Events, NEW t \in Task, Moves(t), Clean(t)
  PROVE  /\ Others(t)
         /\ Arrives(t) \/ Judges(t) \/ Records(t) \/ Follows(t)
<1>1. /\ task \in [Task -> TaskType] /\ task[t] \in TaskType /\ MintOf(t) \in Mint
      /\ row \in [Mint -> {"none", "PUMPFUN", "AMM"}] /\ pending \subseteq Mint
      /\ Cardinality(pending) <= MaxPending
  BY DEF PipelineTypeOK, TaskType, MintOf
<1>a. ASSUME NEW to \in Places, Go(t, to), UNCHANGED <<events, migrations, polling, complete, crashes>>
      PROVE  /\ Others(t) /\ task'[t].at = to /\ task'[t].dumped = task[t].dumped
             /\ task'[t].blind = task[t].blind
  BY <1>1, <1>a DEF Go, Others, TaskType
<1>0. {"fetch", "lookup", "screen", "analyse", "retry", "reject", "accept",
       "rejected", "queued", "scoring", "scored", "snapshot", "waiting", "recheck",
       "evaluate", "done"} \subseteq Places
  BY DEF Places
<1>2. CASE Receive(t)
  <2>1. PICK to \in {"fetch", "lookup", "done"} : Go(t, to)
    BY <1>2 DEF Receive
  <2>2. Others(t) /\ task'[t].at = to /\ task'[t].dumped = task[t].dumped
    BY <1>0, <1>2, <1>a, <2>1 DEF Receive, Observe, Curves
  <2> QED
    BY <1>2, <2>2 DEF Receive, Arrives, Is, Entering, Memory, Curves, Observe
<1>3. CASE Fetch(t)
  <2>1. PICK to \in {"lookup", "done"} : Go(t, to)
    BY <1>3 DEF Fetch
  <2>2. Others(t) /\ task'[t].at = to /\ task'[t].dumped = task[t].dumped
    BY <1>0, <1>3, <1>a, <2>1 DEF Fetch, Observe, Curves
  <2> QED
    BY <1>3, <2>2 DEF Fetch, Arrives, Is, Entering, Memory, Curves, Observe
<1>4. CASE Lookup(t)
  <2>1. PICK to \in {"done", "analyse", "screen"} : Go(t, to) /\ (to # "done" <=> row[MintOf(t)] = "none")
    BY <1>4 DEF Lookup
  <2>2. Others(t) /\ task'[t].at = to /\ task'[t].dumped = task[t].dumped
    BY <1>0, <1>4, <1>a, <2>1 DEF Lookup
  <2>3. hints' \subseteq hints \cup {MintOf(t)} /\ \A m \in hints' : m \in hints \/ row[m] = "PUMPFUN"
    BY <1>4 DEF Lookup
  <2> QED
    BY <1>4, <2>1, <2>2, <2>3 DEF Lookup, Arrives, Is, Entering
<1>5. CASE Screen(t)
  <2>1. PICK to \in {"analyse", "done"} : Go(t, to)
    BY <1>5 DEF Screen
  <2>2. Others(t) /\ task'[t].at = to /\ task'[t].dumped = task[t].dumped
    BY <1>0, <1>5, <1>a, <2>1 DEF Screen, Observe, Curves
  <2> QED
    BY <1>5, <2>1, <2>2 DEF Screen, Judges, Is, Unwritten, Rows, Memory, Curves, Observe
<1>6. CASE RetryNow(t)
  <2>2. Others(t) /\ task'[t].at = "analyse" /\ task'[t].dumped = task[t].dumped
    BY <1>0, <1>6, <1>a DEF RetryNow, Observe, Curves
  <2> QED
    BY <1>6, <2>2 DEF RetryNow, Judges, Is, Unwritten, Rows, Memory, Curves, Observe
<1>7. CASE \E outcome \in {"pass", "transient", "threw", "final"} : Analyse(t, outcome)
  <2>1. PICK outcome \in {"pass", "transient", "threw", "final"} : Analyse(t, outcome)
    BY <1>7
  <2>2. /\ Others(t) /\ task'[t].at \in {"accept", "retry", "reject", "done"}
        /\ task'[t].dumped = task[t].dumped
        /\ task'[t].at = "accept" => MintOf(t) \notin Bad
    <3>1. CASE OnChain(t)
      <4> DEFINE next == IF outcome = "pass" THEN "accept" ELSE Failed(t, outcome)
      <4>1. PICK n : n = next
        OBVIOUS
      <4>2. n \in {"accept", "retry", "reject", "done"} /\ (n = "accept" => outcome = "pass")
            /\ (n = "retry" => task[t].attempt < MaxAttempts)
        BY <4>1 DEF Failed
      <4>3. task' = [task EXCEPT ![t].at = n, ![t].attempt = IF n = "retry" THEN @ + 1 ELSE @]
        BY <2>1, <3>1, <4>1 DEF Analyse
      <4>4. task[t].attempt \in 0..MaxAttempts /\ (n = "retry" => task[t].attempt + 1 \in 0..MaxAttempts)
        BY <1>1, <4>2 DEF TaskType
      <4>5. PICK x \in TaskType : /\ x.at = n /\ x.dumped = task[t].dumped
                                  /\ task' = [task EXCEPT ![t] = x]
        <5>1. [task[t] EXCEPT !.at = n, !.attempt = IF n = "retry" THEN @ + 1 ELSE @] \in TaskType
          BY <1>0, <1>1, <4>2, <4>4 DEF TaskType
        <5> QED
          BY <1>1, <4>3, <5>1 DEF TaskType
      <4>6. task'[t] = x /\ task' \in [Task -> TaskType] /\ \A u \in Task \ {t} : task'[u] = task[u]
        BY <1>1, <4>5
      <4>7. outcome = "pass" => MintOf(t) \notin Bad
        BY <2>1 DEF Analyse
      <4> QED
        BY <2>1, <4>2, <4>5, <4>6, <4>7 DEF Others, Analyse, Observe, Curves
    <3>2. CASE ~OnChain(t)
      <4>1. PICK to \in {"accept", "done"} : Go(t, to) /\ (to = "accept" => MintOf(t) \notin Bad)
        BY <2>1, <3>2 DEF Analyse
      <4> QED
        BY <1>0, <1>a, <2>1, <4>1 DEF Analyse, Observe, Curves
    <3> QED
      BY <3>1, <3>2
  <2> QED
    BY <2>1, <2>2 DEF Analyse, Judges, Is, Unwritten, Rows, Memory, Curves, Observe
<1>8. CASE Upsert(t)
  <2>1. PICK to \in {"queued", "rejected"} : Go(t, to) /\ (to = "queued" <=> Is(t, "accept"))
    BY <1>8 DEF Upsert
  <2>2. Others(t) /\ task'[t].at = to /\ task'[t].dumped = task[t].dumped
    BY <1>0, <1>8, <1>a, <2>1 DEF Upsert, Observe, Curves
  <2>3. PICK n \in {"none", "PUMPFUN", "AMM"} : n # "none" /\ row' = [row EXCEPT ![MintOf(t)] = n]
    BY <1>1, <1>8 DEF Upsert
  <2> QED
    BY <1>1, <1>8, <2>1, <2>2, <2>3 DEF Upsert, Records, Is, Curves, Observe
<1>9. CASE RecordRejected(t) \/ TakeCall(t) \/ Score(t) \/ Decide(t) \/ ConfirmFires(t) \/ Recheck(t) \/ Evaluate(t)
  <2>1. PICK to \in {"done", "scoring", "scored", "snapshot", "evaluate", "recheck"} : Go(t, to)
    BY <1>9 DEF RecordRejected, TakeCall, Score, Decide, ConfirmFires, Recheck, Evaluate
  <2>2. /\ Others(t) /\ task'[t].at = to /\ task'[t].dumped = task[t].dumped
        /\ task'[t].blind = task[t].blind
    BY <1>0, <1>9, <1>a, <2>1 DEF RecordRejected, TakeCall, Score, Decide, ConfirmFires, Recheck, Evaluate,
                             Observe, Curves
  <2>3. PICK S : S = {MintOf(t)}
    OBVIOUS
  <2>4. IsFiniteSet(pending \ S) /\ Cardinality(pending \ S) <= Cardinality(pending)
        /\ Cardinality(pending \ S) \in Nat /\ Cardinality(pending) \in Nat
    BY FS_Subset, FS_CardinalityType
  <2>5. IsFiniteSet(pending') /\ pending' \subseteq Mint /\ Cardinality(pending') <= MaxPending
    <3>1. CASE pending' = pending
      BY <1>1, <3>1
    <3>2. CASE pending' = pending \ S
      BY <1>1, <2>4, <3>2
    <3> QED
      BY <1>9, <2>3, <3>1, <3>2 DEF RecordRejected, TakeCall, Score, Decide, ConfirmFires, Recheck, Evaluate, Memory
  <2>6. UNCHANGED <<row, overlapped, hints>>
    BY <1>9 DEF RecordRejected, TakeCall, Score, Decide, ConfirmFires, Recheck, Evaluate, Observe, Curves
  <2>7. task[t].dumped => task[t].at \in {"waiting", "recheck", "evaluate", "done"}
    BY DEF Clean
  <2>8. CASE RecordRejected(t)
    BY <2>2, <2>5, <2>6, <2>7, <2>8 DEF RecordRejected, Follows, Is, Written, Memory, Observe, Go, Others, TaskType
  <2>9. CASE TakeCall(t)
    BY <2>2, <2>5, <2>6, <2>7, <2>9 DEF TakeCall, Follows, Is, Written, Observe, Go, Others, TaskType
  <2>10. CASE Score(t)
    BY <2>2, <2>5, <2>6, <2>7, <2>10 DEF Score, Follows, Is, Written, Observe, Go, Others, TaskType
  <2>11. CASE Decide(t)
    BY <2>2, <2>5, <2>6, <2>7, <2>11 DEF Decide, Follows, Is, Written, Memory, Observe, Go, Others, TaskType
  <2>12. CASE ConfirmFires(t)
    BY <2>2, <2>5, <2>6, <2>7, <2>12 DEF ConfirmFires, Follows, Is, Written, Observe, Go, Others, TaskType
  <2>13. CASE Recheck(t)
    BY <2>2, <2>5, <2>6, <2>7, <2>13 DEF Recheck, Follows, Is, Written, Memory, Observe, Go, Others, TaskType
  <2>14. CASE Evaluate(t)
    BY <2>2, <2>5, <2>6, <2>7, <2>14 DEF Evaluate, Follows, Is, Written, Memory, Observe, Go, Others, TaskType
  <2> QED
    BY <1>9, <2>2, <2>8, <2>9, <2>10, <2>11, <2>12, <2>13, <2>14
<1>10. CASE \E missing \in BOOLEAN : Schedule(t, missing)
  <2>1. PICK missing \in BOOLEAN : Schedule(t, missing)
    BY <1>10
  <2>2. UNCHANGED <<row, overlapped, hints, momentum, evaluated>> /\ task[t].at = "snapshot" /\ ~task[t].dumped
    BY <2>1 DEF Schedule, Observe, Curves, Is, Clean
  <2>3. CASE MintOf(t) \in pending \/ Cardinality(pending) >= MaxPending
    <3>1. Others(t) /\ task'[t].at = "done" /\ pending' = pending /\ task'[t].dumped = task[t].dumped
      BY <1>0, <1>a, <2>1, <2>3 DEF Schedule, Observe, Curves
    <3> QED
      BY <1>1, <2>2, <3>1 DEF Follows, Written
  <2>4. CASE ~(MintOf(t) \in pending \/ Cardinality(pending) >= MaxPending)
    <3>1. PICK x \in TaskType : x.at = "waiting" /\ x.dumped = task[t].dumped
                                /\ task' = [task EXCEPT ![t] = x]
      <4>1. [task[t] EXCEPT !.at = "waiting", !.blind = missing] \in TaskType
        BY <1>0, <1>1 DEF TaskType
      <4>2. task' = [task EXCEPT ![t] = [task[t] EXCEPT !.at = "waiting", !.blind = missing]]
        BY <1>1, <2>1, <2>4 DEF Schedule
      <4> QED
        BY <1>1, <4>1, <4>2 DEF TaskType
    <3>2. task'[t] = x /\ task' \in [Task -> TaskType] /\ \A u \in Task \ {t} : task'[u] = task[u]
      BY <1>1, <3>1
    <3>3. Others(t)
      BY <2>1, <3>2 DEF Others, Schedule, Observe, Curves
    <3>4. pending' = pending \cup {MintOf(t)}
      BY <2>1, <2>4 DEF Schedule
    <3>5. IsFiniteSet(pending') /\ pending' \subseteq Mint /\ Cardinality(pending') <= MaxPending
      <4>1. PICK m \in Mint : m = MintOf(t)
        BY <1>1
      <4>2. PICK c \in Nat : c = Cardinality(pending)
        BY FS_CardinalityType
      <4>3. m \notin pending /\ c < MaxPending
        BY <2>4, <4>1, <4>2
      <4>4. IsFiniteSet(pending \cup {m}) /\ Cardinality(pending \cup {m}) = c + 1
        BY <4>2, <4>3, FS_AddElement
      <4> QED
        BY <1>1, <3>4, <4>1, <4>2, <4>3, <4>4
    <3> QED
      BY <2>2, <3>1, <3>2, <3>3, <3>5 DEF Follows, Written
  <2> QED
    BY <2>3, <2>4
<1>11. CASE Dump(t)
  <2>1. PICK x \in TaskType : x.at = "waiting" /\ task' = [task EXCEPT ![t] = x]
    <3>1. [task[t] EXCEPT !.dumped = TRUE] \in TaskType /\ task[t].at = "waiting"
      BY <1>1, <1>11 DEF TaskType, Dump, Is
    <3> QED
      BY <1>1, <1>11, <3>1 DEF TaskType, Dump
  <2>2. task'[t] = x /\ task' \in [Task -> TaskType] /\ \A u \in Task \ {t} : task'[u] = task[u]
    BY <1>1, <2>1
  <2>3. Others(t) /\ UNCHANGED <<pending, Rows>> /\ task[t].at = "waiting"
    BY <1>11, <2>2 DEF Others, Dump, Observe, Curves, Memory, Is, Rows
  <2> QED
    BY <1>1, <2>1, <2>2, <2>3 DEF Follows, Written, Rows
<1>12. CASE Throws(t) /\ ~Stop
  <2>1. /\ task[t].at \in {"accept", "reject", "rejected", "scoring", "scored", "recheck"}
        /\ Go(t, "done") /\ UNCHANGED <<row, Memory, Curves>> /\ Observe
    BY <1>12 DEF Throws
  <2>2. Others(t) /\ task'[t].at = "done" /\ task'[t].dumped = task[t].dumped
    BY <1>0, <1>a, <2>1 DEF Observe, Curves
  <2>3. CASE task[t].at \in {"accept", "reject"}
    BY <2>1, <2>2, <2>3 DEF Judges, Unwritten, Rows, Memory, Observe, Curves
  <2>4. CASE task[t].at \notin {"accept", "reject"}
    BY <1>1, <2>1, <2>2, <2>4 DEF Follows, Written, Memory, Observe, Curves
  <2> QED
    BY <2>2, <2>3, <2>4
<1> QED
  BY <1>2, <1>3, <1>4, <1>5, <1>6, <1>7, <1>8, <1>9, <1>10, <1>11, <1>12 DEF Moves, Step

\* Nothing becomes bad, or acts on a fall it saw.
LEMMA CleanStep ==
  ASSUME PipelineInv, NEW t \in Task, Moves(t)
  PROVE  PipelineTypeOK' /\ IsFiniteSet(pending') /\ \A u \in Task : Clean(u)'
<1>0. /\ Others(t) /\ (Arrives(t) \/ Judges(t) \/ Records(t) \/ Follows(t))
      /\ PipelineTypeOK /\ IsFiniteSet(pending) /\ Clean(t)
  BY Table DEF PipelineInv
<1>1. \A u \in Task : MintOf(u) \in Mint /\ MintOf(u)' = MintOf(u) /\ KindOf(u)' = KindOf(u)
  BY <1>0 DEF PipelineInv, MintOf, KindOf, Others
<1>2. ASSUME NEW u \in Task PROVE Clean(u)'
  <2>1. CASE u # t
    <3>1. task'[u] = task[u] /\ Clean(u)
      BY <1>0, <2>1 DEF Others, PipelineInv
    <3> QED
      BY <1>1, <3>1 DEF Clean
  <2>2. CASE u = t
    <3>1. CASE Arrives(t)
      BY <1>0, <1>1, <2>2, <3>1 DEF Clean, Arrives, Entering, Unwritten
    <3>2. CASE Judges(t)
      BY <1>0, <1>1, <2>2, <3>2 DEF Clean, Judges, Entering, Unwritten
    <3>3. CASE Records(t)
      BY <1>0, <1>1, <2>2, <3>3 DEF Clean, Records, Entering, Unwritten
    <3>4. CASE Follows(t)
      BY <1>0, <1>1, <2>2, <3>4 DEF Clean, Follows, Entering, Unwritten, Written
    <3> QED
      BY <1>0, <3>1, <3>2, <3>3, <3>4
  <2> QED
    BY <2>1, <2>2
<1>3. IsFiniteSet(pending') /\ pending' \subseteq Mint /\ Cardinality(pending') <= MaxPending
  BY <1>0 DEF Arrives, Judges, Records, Follows, PipelineTypeOK
<1>4. row' \in [Mint -> {"none", "PUMPFUN", "AMM"}] /\ evaluated' \in [Mint -> Nat]
  BY <1>0, <1>1 DEF Arrives, Judges, Records, Follows, PipelineTypeOK, Rows
<1>5. {momentum', hints', overlapped'} \subseteq SUBSET Mint
  <2>1. momentum \subseteq Mint /\ hints \subseteq Mint /\ overlapped \subseteq Mint
    BY <1>0 DEF PipelineTypeOK
  <2>2. hints' \subseteq Mint
    BY <1>0, <1>1, <2>1 DEF Arrives, Judges, Records, Follows, Rows
  <2>3. momentum' \subseteq Mint
    BY <1>0, <1>1, <2>1 DEF Arrives, Judges, Records, Follows, Rows
  <2>4. overlapped' \subseteq Mint
    BY <1>0, <1>1, <2>1 DEF Arrives, Judges, Records, Follows, Rows
  <2> QED
    BY <2>2, <2>3, <2>4
<1>6. recent' \in SUBSET Mint
  BY <1>0, <1>1 DEF Moves, Step, Receive, Fetch, Lookup, Screen, Analyse, RetryNow, Upsert, RecordRejected,
     TakeCall, Score, Decide, Schedule, ConfirmFires, Recheck, Evaluate, Dump, Throws, Memory, PipelineTypeOK
<1>7. task' \in [Task -> TaskType] /\ UNCHANGED <<events, migrations, polling, complete, crashes>>
  BY <1>0 DEF Others
<1> QED
  BY <1>0, <1>2, <1>3, <1>4, <1>5, <1>6, <1>7 DEF PipelineTypeOK, TaskType

\* Who is under way, after a step of one task.
LEMMA LiveStep ==
  ASSUME NEW t \in Task, Others(t), NEW m
  PROVE  /\ MintOf(t)' = MintOf(t)
         /\ Live(m)' \ {t} = Live(m) \ {t}
         /\ m # MintOf(t) => Live(m)' = Live(m) /\ t \notin Live(m)
         /\ t \in Live(m)' => MintOf(t) = m /\ task'[t].at \in Unwritten \cup Written
         /\ t \in Live(m) => MintOf(t) = m /\ task[t].at \in Unwritten \cup Written
         /\ MintOf(t) = m /\ task[t].at \in Unwritten \cup Written => t \in Live(m)
BY DEF Live, Others, MintOf

\* One evaluation, but for migrations.
LEMMA OnceStep ==
  ASSUME PipelineInv, NEW t \in Task, Moves(t), NEW m \in Mint, m \notin overlapped'
  PROVE  Once(m)'
<1>0. /\ Others(t) /\ (Arrives(t) \/ Judges(t) \/ Records(t) \/ Follows(t))
      /\ PipelineTypeOK /\ IsFiniteSet(pending) /\ Clean(t) /\ migrations' = migrations
      /\ migrations[m] \in Nat /\ evaluated[m] \in Nat
  BY Table DEF PipelineInv, Others, PipelineTypeOK
<1>1. m \notin overlapped /\ Once(m)
  BY <1>0 DEF Arrives, Judges, Records, Follows, Rows, PipelineInv
<1>2. \A u \in Task : MintOf(u)' = MintOf(u) /\ KindOf(u)' = KindOf(u)
  BY <1>0 DEF MintOf, KindOf, Others
<1>a. ASSUME Live(m)' \subseteq Live(m), evaluated'[m] = evaluated[m],
             row'[m] = "none" => row[m] = "none",
             row'[m] = "none" /\ t \in Live(m)' => task'[t].at \in Unwritten
      PROVE  Once(m)'
  <2>1. IsFiniteSet(Live(m)')
    BY <1>1, <1>a, FS_Subset DEF Once
  <2>2. PICK a \in Nat, b \in Nat : a = Cardinality(Live(m)) /\ b = Cardinality(Live(m)')
    BY <1>1, <2>1, FS_CardinalityType DEF Once
  <2>3. b <= a
    BY <1>1, <1>a, <2>2, FS_Subset DEF Once
  <2>4. evaluated'[m] + b <= 1 + migrations'[m]
    BY <1>0, <1>1, <1>a, <2>2, <2>3 DEF Once
  <2>5. ASSUME row'[m] = "none", NEW u \in Live(m)' PROVE u \in Unrecorded(m)'
    <3>1. u \in Unrecorded(m) /\ u \in Task
      BY <1>1, <1>a, <2>5 DEF Once, Live
    <3>2. CASE u = t
      BY <1>2, <1>a, <2>5, <3>1, <3>2 DEF Unrecorded, Unwritten
    <3>3. CASE u # t
      BY <1>0, <1>2, <3>1, <3>3 DEF Unrecorded, Others
    <3> QED
      BY <3>2, <3>3
  <2> QED
    BY <1>0, <1>1, <1>a, <2>1, <2>2, <2>4, <2>5 DEF Once
<1>3. CASE m # MintOf(t)
  <2>1. Live(m)' = Live(m) /\ t \notin Live(m)
    BY <1>0, <1>3, LiveStep
  <2>2. evaluated'[m] = evaluated[m] /\ row'[m] = row[m]
    BY <1>0, <1>3 DEF Arrives, Judges, Records, Follows, Rows, PipelineTypeOK
  <2> QED
    BY <1>a, <2>1, <2>2
<1>4. CASE m = MintOf(t)
  <2>0. /\ Live(m)' \ {t} = Live(m) \ {t}
        /\ t \in Live(m)' => task'[t].at \in Unwritten \cup Written
        /\ t \in Live(m) => task[t].at \in Unwritten \cup Written
        /\ task[t].at \in Unwritten \cup Written => t \in Live(m)
    BY <1>0, <1>4, LiveStep
  <2>1. CASE Arrives(t) /\ task'[t].at \in {"fetch", "lookup", "done"}
    <3>1. t \notin Live(m)'
      BY <2>0, <2>1 DEF Unwritten, Written
    <3> QED
      BY <1>a, <2>0, <2>1, <3>1 DEF Arrives
  <2>2. CASE Arrives(t) /\ task'[t].at \notin {"fetch", "lookup", "done"}
    <3>1. task[t].at = "lookup" /\ task'[t].at \in {"screen", "analyse"} /\ row[m] = "none"
          /\ KindOf(t) # "migrated" /\ Unrecorded(m) = {} /\ row' = row /\ evaluated' = evaluated
      BY <1>0, <1>4, <2>2 DEF Arrives, Clean, Entering
    <3>2. Live(m) = {}
      BY <1>1, <3>1 DEF Once
    <3>3. Live(m)' \subseteq {t}
      BY <2>0, <3>2
    <3>4. IsFiniteSet({t}) /\ Cardinality({t}) = 1
      BY FS_Singleton
    <3>5. IsFiniteSet(Live(m)') /\ Cardinality(Live(m)') <= 1
      BY <3>3, <3>4, FS_Subset
    <3>6. PICK b \in Nat : b = Cardinality(Live(m)')
      BY <3>5, FS_CardinalityType
    <3>7. evaluated'[m] = 0 /\ migrations'[m] = 0
      BY <1>0, <1>1, <3>1 DEF Once
    <3>8. t \in Unrecorded(m)'
      BY <1>2, <1>4, <3>1 DEF Unrecorded
    <3> QED
      BY <3>3, <3>5, <3>6, <3>7, <3>8 DEF Once
  <2>3. CASE Judges(t)
    <3>1. evaluated'[m] = evaluated[m] /\ row'[m] = row[m] /\ t \in Live(m)
      BY <2>0, <2>3 DEF Judges, Rows
    <3>2. t \in Live(m)' => task'[t].at \in Unwritten
      BY <2>0, <2>3 DEF Judges, Unwritten, Written
    <3> QED
      BY <1>a, <2>0, <3>1, <3>2
  <2>4. CASE Records(t)
    <3>1. row'[m] # "none" /\ evaluated'[m] = evaluated[m] /\ t \in Live(m)
      BY <1>4, <2>0, <2>4 DEF Records, Unwritten
    <3> QED
      BY <1>a, <2>0, <3>1
  <2>5. CASE Follows(t)
    <3>0. t \in Live(m) /\ row' = row /\ t \notin Unrecorded(m)
      BY <1>4, <2>0, <2>5 DEF Follows, Unrecorded, Written
    <3>1. row[m] # "none"
      BY <1>1, <3>0 DEF Once
    <3>2. CASE evaluated' = evaluated
      BY <1>a, <2>0, <3>0, <3>1, <3>2
    <3>3. CASE task'[t].at = "done" /\ evaluated' = [evaluated EXCEPT ![m] = @ + 1]
      <4>1. evaluated'[m] = evaluated[m] + 1
        BY <1>0, <3>3 DEF PipelineTypeOK
      <4>2. t \notin Live(m)'
        BY <2>0, <3>3 DEF Unwritten, Written
      <4>3. Live(m)' = Live(m) \ {t}
        BY <2>0, <4>2
      <4>4. PICK L : L = Live(m)
        OBVIOUS
      <4>5. IsFiniteSet(L \ {t}) /\ Cardinality(L \ {t}) = Cardinality(L) - 1 /\ Cardinality(L) \in Nat
        BY <1>1, <3>0, <4>4, FS_RemoveElement, FS_CardinalityType DEF Once
      <4>6. IsFiniteSet(Live(m)') /\ Cardinality(Live(m)') = Cardinality(Live(m)) - 1
            /\ Cardinality(Live(m)) \in Nat
        BY <4>3, <4>4, <4>5
      <4>7. evaluated'[m] + Cardinality(Live(m)') <= 1 + migrations'[m]
        BY <1>0, <1>1, <4>1, <4>6 DEF Once
      <4> QED
        BY <3>0, <3>1, <4>6, <4>7 DEF Once
    <3> QED
      BY <1>4, <2>5, <3>2, <3>3 DEF Follows
  <2> QED
    BY <1>0, <2>1, <2>2, <2>3, <2>4, <2>5
<1> QED
  BY <1>3, <1>4

\* A task's step preserves the whole invariant.
LEMMA TaskStep ==
  ASSUME PipelineInv, NEW t \in Task, Moves(t)
  PROVE  PipelineInv'
<1>0. /\ Others(t) /\ (Arrives(t) \/ Judges(t) \/ Records(t) \/ Follows(t))
      /\ PipelineTypeOK /\ Clean(t)
  BY Table DEF PipelineInv
<1>1. \A u \in Task : MintOf(u) \in Mint /\ MintOf(u)' = MintOf(u)
  BY <1>0 DEF PipelineInv, MintOf, Others
<1>2. ASSUME NEW m \in Mint, m \in hints' \/ polling' = m PROVE row'[m] # "none"
  BY <1>0, <1>2 DEF Arrives, Judges, Records, Follows, Rows, Others, PipelineInv
<1>3. NothingBadIsBought'
  <2>1. task[t].at = "evaluate" => MintOf(t) \notin Bad
    BY <1>0 DEF Clean, Entering, Unwritten
  <2>2. ASSUME NEW m \in Bad PROVE evaluated'[m] = 0
    <3>1. m \in Mint /\ evaluated[m] = 0
      BY DEF PipelineInv, NothingBadIsBought
    <3> QED
      BY <1>0, <2>1, <3>1 DEF Arrives, Judges, Records, Follows, Rows, PipelineTypeOK
  <2> QED
    BY <2>2 DEF NothingBadIsBought
<1>4. NoOrphanEvaluation'
  <2> SUFFICES ASSUME NEW m \in momentum' PROVE \E u \in Task : MintOf(u)' = m /\ task'[u].at = "queued"
    BY DEF NoOrphanEvaluation, Is
  <2>1. CASE m \in momentum
    <3>1. PICK u \in Task : MintOf(u) = m /\ task[u].at = "queued"
      BY <2>1 DEF PipelineInv, NoOrphanEvaluation, Is
    <3>2. CASE u # t
      BY <1>0, <1>1, <3>1, <3>2 DEF Others
    <3>3. CASE u = t
      BY <1>0, <1>1, <3>1, <3>3 DEF Arrives, Judges, Records, Follows, Entering, Unwritten
    <3> QED
      BY <3>2, <3>3
  <2>2. CASE m \notin momentum
    BY <1>0, <1>1, <2>2 DEF Arrives, Judges, Records, Follows, Rows
  <2> QED
    BY <2>1, <2>2
<1>5. \A m \in Mint \ overlapped' : Once(m)'
  BY OnceStep
<1>6. PipelineTypeOK' /\ IsFiniteSet(pending') /\ \A u \in Task : Clean(u)'
  BY CleanStep
<1>7. events' \in Events
  BY <1>0 DEF Others, PipelineInv
<1> QED
  BY <1>2, <1>3, <1>4, <1>5, <1>6, <1>7 DEF PipelineInv

\* The process stops: who has begun is done, what was in memory is gone.
LEMMA StopStep ==
  ASSUME PipelineInv, Stop, crashes' \in Nat
  PROVE  PipelineInv'
<1>1. PipelineTypeOK /\ task \in [Task -> TaskType]
  BY DEF PipelineInv, PipelineTypeOK, TaskType
<1>2. [Fresh EXCEPT !.at = "done"] \in TaskType /\ [Fresh EXCEPT !.at = "done"].at = "done"
  <2>1. 0 \in 0 .. MaxAttempts /\ "idle" \in Places /\ "done" \in Places
    BY DEF Places
  <2>2. PICK fresh \in TaskType : fresh = Fresh
    BY <2>1 DEF Fresh, TaskType
  <2>3. [fresh EXCEPT !.at = "done"] \in TaskType /\ [fresh EXCEPT !.at = "done"].at = "done"
    BY <2>1, <2>2 DEF TaskType
  <2> QED
    BY <2>2, <2>3
<1>3. \A u \in Task : /\ task'[u] \in TaskType /\ MintOf(u)' = MintOf(u) /\ KindOf(u)' = KindOf(u)
                      /\ (task'[u] = task[u] /\ task[u].at = "idle") \/ task'[u].at = "done"
  BY <1>1, <1>2 DEF Stop, Is, MintOf, KindOf
<1>4. task' \in [Task -> TaskType]
  BY <1>3 DEF Stop
<1>5. \A u \in Task : Clean(u)'
  BY <1>3 DEF PipelineInv, Clean, Entering, Unwritten
<1>6. \A m : Live(m)' = {}
  BY <1>3 DEF Live, Unwritten, Written
<1>7. IsFiniteSet({}) /\ Cardinality({}) = 0
  BY FS_EmptySet
<1>8. ASSUME NEW m \in Mint \ overlapped' PROVE Once(m)'
  <2>1. Once(m) /\ evaluated[m] \in Nat /\ migrations[m] \in Nat
    BY <1>1 DEF PipelineInv, Stop, PipelineTypeOK
  <2>2. evaluated[m] <= 1 + migrations[m]
    <3>1. PICK a \in Nat : a = Cardinality(Live(m))
      BY <2>1, FS_CardinalityType DEF Once
    <3> QED
      BY <2>1, <3>1 DEF Once
  <2>3. PICK none : none = Live(m)'
    OBVIOUS
  <2>4. none = {} /\ IsFiniteSet(none) /\ Cardinality(none) = 0
    BY <1>6, <1>7, <2>3
  <2>5. evaluated'[m] + Cardinality(none) <= 1 + migrations'[m]
    BY <2>1, <2>2, <2>4 DEF Stop
  <2>6. row'[m] = "none" => evaluated'[m] = 0 /\ migrations'[m] = 0
    BY <2>1 DEF Once, Stop
  <2> QED
    BY <2>3, <2>4, <2>5, <2>6 DEF Once
<1>9. PipelineTypeOK' /\ IsFiniteSet(pending')
  BY <1>1, <1>4, <1>7 DEF PipelineTypeOK, TaskType, Stop
<1>10. \A m \in Mint : m \notin hints' /\ polling' # m
  BY DEF Stop
<1>11. NothingBadIsBought' /\ NoOrphanEvaluation' /\ events' \in Events
  BY DEF PipelineInv, NothingBadIsBought, NoOrphanEvaluation, Stop
<1> QED
  BY <1>5, <1>8, <1>9, <1>10, <1>11 DEF PipelineInv

\* The tasks stay where they are, and nobody reaches AutoTrader.
LEMMA WorldStep ==
  ASSUME PipelineInv, UNCHANGED <<task, pending, momentum, evaluated, migrations, overlapped, events>>,
         crashes' \in Nat, recent' \in SUBSET Mint, complete' \in SUBSET Mint, hints' \in SUBSET Mint,
         polling' \in Mint \cup {"none"}, row' = row,
         \A m \in Mint : m \in hints' \/ polling' = m => row[m] # "none"
  PROVE  PipelineInv'
<1>1. \A m : Live(m)' = Live(m) /\ Unrecorded(m)' = Unrecorded(m)
  BY DEF Live, Unrecorded, MintOf, KindOf
<1>2. \A m \in Mint : Once(m) => Once(m)'
  BY <1>1 DEF Once
<1>3. \A u \in Task : Clean(u) => Clean(u)'
  BY DEF Clean, MintOf, KindOf
<1>4. PipelineTypeOK'
  BY DEF PipelineInv, PipelineTypeOK
<1>5. NothingBadIsBought' /\ NoOrphanEvaluation'
  BY DEF PipelineInv, NothingBadIsBought, NoOrphanEvaluation, MintOf, Is
<1> QED
  BY <1>2, <1>3, <1>4, <1>5 DEF PipelineInv

\* A migration is one round more.
LEMMA MigrateStep ==
  ASSUME PipelineInv, NEW m \in Mint, row[m] # "none", Migrate(m), polling' \in {polling, "none"}, hints' \subseteq hints,
         UNCHANGED <<Memory, complete, evaluated, overlapped, crashes, events>>
  PROVE  PipelineInv'
<1>1. /\ PipelineTypeOK /\ task \in [Task -> TaskType] /\ migrations[m] \in Nat /\ IsFiniteSet(pending)
      /\ row \in [Mint -> {"none", "PUMPFUN", "AMM"}] /\ migrations \in [Mint -> Nat]
  BY DEF PipelineInv, PipelineTypeOK, TaskType
<1>2. /\ row' = [row EXCEPT ![m] = "AMM"] /\ migrations' = [migrations EXCEPT ![m] = migrations[m] + 1]
      /\ migrations' \in [Mint -> Nat] /\ migrations'[m] = migrations[m] + 1
      /\ \A n \in Mint \ {m} : migrations'[n] = migrations[n] /\ row'[n] = row[n]
      /\ row' \in [Mint -> {"none", "PUMPFUN", "AMM"}] /\ row'[m] = "AMM"
  BY <1>1 DEF Migrate
<1>3. \A u \in Task : MintOf(u)' = MintOf(u) /\ KindOf(u)' = KindOf(u)
  BY DEF MintOf, KindOf
<1>4. /\ task' \in [Task -> TaskType]
      /\ \/ task' = task
         \/ \E t \in Task : /\ KindOf(t) = "migrated" /\ MintOf(t) = m /\ task[t].at = "idle"
                            /\ task'[t].at = "analyse" /\ task'[t].dumped = task[t].dumped
                            /\ \A u \in Task \ {t} : task'[u] = task[u]
  <2>1. CASE task' = task
    BY <1>1, <2>1
  <2>2. CASE \E t \in Task : KindOf(t) = "migrated" /\ MintOf(t) = m /\ Is(t, "idle") /\ Go(t, "analyse")
    <3>1. PICK t \in Task : KindOf(t) = "migrated" /\ MintOf(t) = m /\ Is(t, "idle") /\ Go(t, "analyse")
      BY <2>2
    <3>2. "analyse" \in Places
      BY DEF Places
    <3>3. task' \in [Task -> TaskType] /\ task'[t].at = "analyse" /\ task'[t].dumped = task[t].dumped
          /\ \A u \in Task \ {t} : task'[u] = task[u]
      BY <1>1, <3>1, <3>2 DEF Go, TaskType
    <3> QED
      BY <3>1, <3>3 DEF Is
  <2> QED
    BY <2>1, <2>2 DEF Migrate
<1>5. \A u \in Task : Clean(u)'
  <2>1. ASSUME NEW u \in Task PROVE Clean(u)'
    <3>1. CASE task'[u] = task[u]
      BY <1>3, <3>1 DEF PipelineInv, Clean
    <3>2. CASE task[u].at = "idle" /\ task'[u].at = "analyse" /\ task'[u].dumped = task[u].dumped
      BY <1>3, <3>2 DEF PipelineInv, Clean, Entering, Unwritten
    <3> QED
      BY <1>4, <3>1, <3>2
  <2> QED
    BY <2>1
<1>6. ASSUME NEW n \in Mint \ overlapped' PROVE Once(n)'
  <2>1. Once(n) /\ IsFiniteSet(Live(n)) /\ evaluated[n] \in Nat
    BY DEF PipelineInv, PipelineTypeOK, Once
  <2>2. PICK a \in Nat : a = Cardinality(Live(n))
    BY <2>1, FS_CardinalityType
  <2>3. CASE Live(n)' = Live(n) /\ n # m
    <3>1. \A u \in Live(n) : task'[u] = task[u]
      BY <1>4, <2>3 DEF Live, Unwritten, Written
    <3>2. \A u \in Live(n) : u \in Unrecorded(n) => u \in Unrecorded(n)'
      BY <1>3, <3>1 DEF Unrecorded
    <3> QED
      BY <1>2, <2>1, <2>3, <3>2 DEF Once
  <2>4. CASE Live(n)' = Live(n) /\ n = m
    <3>1. evaluated'[n] + Cardinality(Live(n)') <= 1 + migrations'[n]
      BY <1>1, <1>2, <2>1, <2>2, <2>4 DEF Once
    <3> QED
      BY <1>2, <2>1, <2>4, <3>1 DEF Once
  <2>5. CASE n = m /\ \E t \in Task : Live(n)' = Live(n) \cup {t}
    <3>1. PICK t \in Task : Live(n)' = Live(n) \cup {t}
      BY <2>5
    <3>2. PICK L : L = Live(n)
      OBVIOUS
    <3>3. IsFiniteSet(L \cup {t}) /\ Cardinality(L \cup {t}) \in {a, a + 1}
      BY <2>1, <2>2, <3>2, FS_AddElement
    <3>5. PICK b \in {a, a + 1} : b = Cardinality(Live(n)')
      BY <3>1, <3>2, <3>3
    <3>6. evaluated[n] + a <= 1 + migrations[m] /\ evaluated'[n] = evaluated[n]
      BY <2>1, <2>2, <2>5 DEF Once
    <3>4. evaluated'[n] + b <= 1 + migrations'[n]
      BY <1>1, <1>2, <2>1, <2>2, <2>5, <3>5, <3>6
    <3> QED
      BY <1>2, <2>5, <3>1, <3>2, <3>3, <3>4, <3>5 DEF Once
  <2>6. Live(n)' = Live(n) \/ (n = m /\ \E t \in Task : Live(n)' = Live(n) \cup {t})
    <3>1. CASE task' = task
      BY <1>3, <3>1 DEF Live
    <3>2. CASE task' # task
      <4>1. PICK t \in Task : /\ MintOf(t) = m /\ task[t].at = "idle" /\ task'[t].at = "analyse"
                              /\ \A u \in Task \ {t} : task'[u] = task[u]
        BY <1>4, <3>2
      <4>2. CASE n = m
        BY <1>3, <4>1, <4>2 DEF Live, Unwritten
      <4>3. CASE n # m
        BY <1>3, <4>1, <4>3 DEF Live, Unwritten
      <4> QED
        BY <4>2, <4>3
    <3> QED
      BY <3>1, <3>2
  <2> QED
    BY <2>3, <2>4, <2>5, <2>6
<1>7. PipelineTypeOK' /\ IsFiniteSet(pending')
  BY <1>1, <1>2, <1>4 DEF PipelineTypeOK, TaskType, Memory
<1>8. NothingBadIsBought' /\ events' \in Events
  BY DEF PipelineInv, NothingBadIsBought
<1>9. NoOrphanEvaluation'
  <2>1. \A u \in Task : task[u].at = "queued" => task'[u] = task[u]
    BY <1>4
  <2> QED
    BY <1>3, <2>1 DEF PipelineInv, NoOrphanEvaluation, Is, Memory
<1>10. \A n \in Mint : n \in hints' \/ polling' = n => row'[n] # "none"
  BY <1>2 DEF PipelineInv
<1> QED
  BY <1>5, <1>6, <1>7, <1>8, <1>9, <1>10 DEF PipelineInv

\* Every step of the pipeline preserves the invariant.
LEMMA PipelineNextStep ==
  ASSUME PipelineInv, [PipelineNext]_pipelineVars
  PROVE  PipelineInv'
<1>1. /\ PipelineTypeOK /\ crashes \in Nat /\ recent \subseteq Mint /\ complete \subseteq Mint /\ hints \subseteq Mint
      /\ polling \in Mint \cup {"none"} /\ "none" \notin Mint
      /\ \A m \in Mint : m \in hints \/ polling = m => row[m] # "none"
  BY DEF PipelineInv, PipelineTypeOK
<1>2. CASE \E t \in Task : Step(t) \/ Throws(t) \/ Dump(t)
  <2>1. PICK t \in Task : Step(t) \/ Throws(t) \/ Dump(t)
    BY <1>2
  <2>2. CASE Moves(t)
    BY <2>2, TaskStep
  <2>3. CASE Throws(t) /\ Stop
    <3>1. crashes' \in Nat
      BY <1>1, <2>3 DEF Throws, Observe
    <3> QED
      BY <2>3, <3>1, StopStep
  <2> QED
    BY <2>1, <2>2, <2>3 DEF Moves
<1>3. CASE \E m \in Mint : Migration(m) \/ Hint(m) \/ Graduate(m) \/ Forget(m)
  <2>1. PICK m \in Mint : Migration(m) \/ Hint(m) \/ Graduate(m) \/ Forget(m)
    BY <1>3
  <2>2. CASE Poll(m) \/ Hint(m) \/ Graduate(m) \/ Forget(m)
    <3>1. /\ UNCHANGED <<task, row, pending, momentum, evaluated, migrations, overlapped, crashes, events>>
          /\ recent' \subseteq recent /\ complete' \subseteq complete \cup {m} /\ hints' \subseteq hints \cup {m}
          /\ polling' \in {polling, m}
          /\ m \in hints' \/ polling' = m => row[m] # "none"
      BY <1>1, <2>2 DEF Poll, Hint, Graduate, Forget, Memory, Curves, Observe
    <3>2. \A n \in Mint : n \in hints' \/ polling' = n => row[n] # "none"
      BY <1>1, <3>1
    <3>3. crashes' \in Nat /\ recent' \in SUBSET Mint /\ complete' \in SUBSET Mint /\ hints' \in SUBSET Mint
          /\ polling' \in Mint \cup {"none"}
      BY <1>1, <3>1
    <3> QED
      BY <3>1, <3>2, <3>3, WorldStep
  <2>3. CASE FinishPoll(m) \/ FinishHint(m)
    <3>1. /\ UNCHANGED <<Memory, complete, evaluated, overlapped, crashes, events>>
          /\ polling' \in {polling, "none"} /\ hints' \subseteq hints /\ row[m] # "none"
          /\ Migrate(m) \/ UNCHANGED <<row, migrations, task>>
      BY <1>1, <2>3 DEF FinishPoll, FinishHint, Memory
    <3>2. CASE Migrate(m)
      BY <3>1, <3>2, MigrateStep
    <3>3. CASE UNCHANGED <<row, migrations, task>>
      <4>1. \A n \in Mint : n \in hints' \/ polling' = n => row[n] # "none"
        BY <1>1, <3>1
      <4>2. crashes' \in Nat /\ recent' \in SUBSET Mint /\ complete' \in SUBSET Mint /\ hints' \in SUBSET Mint
            /\ polling' \in Mint \cup {"none"}
        BY <1>1, <3>1 DEF Memory
      <4> QED
        BY <3>1, <3>3, <4>1, <4>2, WorldStep DEF Memory
    <3> QED
      BY <3>1, <3>2, <3>3
  <2> QED
    BY <2>1, <2>2, <2>3 DEF Migration
<1>4. CASE Restart
  <2>1. crashes' \in Nat
    BY <1>1, <1>4 DEF Restart
  <2> QED
    BY <1>4, <2>1, StopStep DEF Restart
<1>5. CASE UNCHANGED pipelineVars
  BY <1>1, <1>5, WorldStep DEF pipelineVars
<1> QED
  BY <1>2, <1>3, <1>4, <1>5 DEF PipelineNext

\* Nothing has arrived yet.
LEMMA PipelineInitInv ==
  ASSUME PipelineInit
  PROVE  PipelineInv
<1>1. Fresh \in TaskType
  <2>1. 0 \in 0 .. MaxAttempts /\ "idle" \in Places
    BY DEF Places
  <2> QED
    BY <2>1 DEF Fresh, TaskType
<1>2. task \in [Task -> TaskType] /\ \A t \in Task : task[t].at = "idle" /\ ~task[t].dumped
  BY <1>1 DEF PipelineInit, Fresh
<1>3. IsFiniteSet({}) /\ Cardinality({}) = 0
  BY FS_EmptySet
<1>4. PipelineTypeOK /\ IsFiniteSet(pending)
  BY <1>2, <1>3 DEF PipelineInit, PipelineTypeOK, TaskType
<1>5. ASSUME NEW m \in Mint PROVE Once(m)
  <2>1. PICK none : none = Live(m)
    OBVIOUS
  <2>2. none = {}
    BY <1>2, <2>1 DEF Live, Unwritten, Written
  <2>3. evaluated[m] = 0 /\ migrations[m] = 0 /\ evaluated[m] + 0 <= 1 + migrations[m]
    BY DEF PipelineInit
  <2> QED
    BY <1>3, <2>1, <2>2, <2>3 DEF Once
<1>6. \A t \in Task : Clean(t)
  BY <1>2 DEF Clean, Entering
<1> QED
  BY <1>4, <1>5, <1>6 DEF PipelineInit, PipelineInv, NothingBadIsBought, NoOrphanEvaluation

\* The invariant holds of every behaviour of worker.ts's pipeline, for every
\* set of mints, events and tasks and every bound.
THEOREM PipelineKept == PipelineSpec => []PipelineInv
<1>1. PipelineInit => PipelineInv
  BY PipelineInitInv
<1>2. PipelineInv /\ [PipelineNext]_pipelineVars => PipelineInv'
  BY PipelineNextStep
<1> QED
  BY <1>1, <1>2, PTL DEF PipelineSpec

\* What the pipeline lets through to AutoTrader, how often, and what it keeps
\* of it, is sound: no mint the mandatory checks fail is evaluated, a mint is
\* evaluated once and once more for each migration unless two events of it
\* were past the dedupe together, nothing with a first price is evaluated
\* after a fall, and a momentum promise has a call that will read it.
THEOREM CandidatesSound == PipelineSpec => []CandidatesAreSound
<1>1. ASSUME PipelineInv PROVE CandidatesAreSound
  <2>1. PipelineTypeOK /\ NothingBadIsBought /\ NoOrphanEvaluation
    BY <1>1 DEF PipelineInv
  <2>2. EvaluatedOnce
    <3> SUFFICES ASSUME NEW m \in Mint, m \notin overlapped PROVE ~(evaluated[m] > 1 + migrations[m])
      BY DEF EvaluatedOnce
    <3>1. Once(m) /\ evaluated[m] \in Nat /\ migrations[m] \in Nat
      BY <1>1, <2>1 DEF PipelineInv, PipelineTypeOK
    <3>2. PICK a \in Nat : a = Cardinality(Live(m))
      BY <3>1, FS_CardinalityType DEF Once
    <3> QED
      BY <3>1, <3>2 DEF Once
  <2>3. NoBuyIntoDump
    BY <1>1 DEF PipelineInv, Clean, NoBuyIntoDump, Is
  <2> QED
    BY <2>1, <2>2, <2>3 DEF CandidatesAreSound
<1> QED
  BY <1>1, PipelineKept, PTL
=============================================================================
