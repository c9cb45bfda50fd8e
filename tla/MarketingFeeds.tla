--------------------------- MODULE MarketingFeeds ---------------------------
(***************************************************************************)
(* apps/marketing-engine: the monitors that post on a timer what the       *)
(* scanner and the traders left in the database.  The activity feed and    *)
(* the network feed post one event after a random delay, up to a cap a     *)
(* day; the ecosystem feed posts up to a few events a tick; the showcase   *)
(* sums up each day.  One of them runs in a behaviour, or none (the        *)
(* written posts, MarketingPosts).  Hours are left out: a window of 24     *)
(* hours is today and yesterday, and a week is a day.                      *)
(***************************************************************************)
EXTENDS Integers, FiniteSets, FiniteSetsExt

CONSTANTS Row,       \* tokens, wallet entries, exits or positions, as they appear
          Mention,   \* mints named in a Telegram channel, as they are
          Info,      \* [Row -> the feed's types it belongs to, and its figures]
          Limit,     \* CANDIDATE_FETCH_LIMIT
          Window,    \* rows read for a pool: in the code four times the limit
          Burst,     \* maxPostsPerTick of the ecosystem feed
          MaxDay,    \* bound: the last day of all
          Scenario   \* the feed, its cap, how many days, failures and stops

FeedAssumption ==
    /\ Row \subseteq Nat \ {0} /\ Mention \subseteq Nat \ {0} /\ Row \cap Mention = {}
    /\ IsFiniteSet(Row) /\ IsFiniteSet(Mention)
    /\ {Limit, Window, Burst, MaxDay} \subseteq Nat \ {0}
    /\ Scenario \subseteq [feed : {"activity", "ecosystem", "network", "summary", "posts"}, cap : Nat,
                           days : 1 .. MaxDay, failures : Nat, stops : Nat]

VARIABLES scenario,
          day,       \* the UTC day
          rows,      \* rows in the database
          born,      \* [Row -> the day it appeared]
          said,      \* mentions so far
          heard,     \* lastSeenMessageId: mentions read
          monitor,   \* its place, and the locals of its tick
          due,       \* nextPostDueAt: unset, waiting or due
          today,     \* postsTodayKey and postsToday
          last,      \* lastPostedType
          featured,  \* recentlyFeaturedWallets
          posted,    \* ActivityFeedPost and TradeShowcaseDailySummary
          ticked,    \* a tick has begun today
          spent,     \* failures and stops so far
          sent       \* observer: what the channel has seen

vars == <<scenario, day, rows, born, said, heard, monitor, due, today, last, featured, posted,
          ticked, spent, sent>>
world == <<scenario, day, rows, born, said>>

Feed == scenario.feed
Types ==
    CASE Feed = "activity"  -> {"opportunity", "market", "trending", "whale", "security", "weekly"}
      [] Feed = "ecosystem" -> {"trending", "volume", "gem", "smart", "winner"}
      [] Feed = "network"   -> {"trade"}
      [] Feed = "summary"   -> {"day"}
      [] Feed = "posts"     -> {}

\* A marker: what was posted as what, with the day where the day is part of
\* its key.
Marker(type, id, d) == [type |-> type, id |-> id, day |-> d]
IsMarker(x) == x.type \in Types /\ x.id \in {0} \cup Row \cup Mention /\ x.day \in 0 .. MaxDay

\* Types of the database, the memory and the observer; a day's count stays
\* within the cap, and a marker's copies within what failed.
TypeOK ==
    /\ scenario \in Scenario /\ day \in 1 .. MaxDay /\ heard \subseteq said
    /\ rows \subseteq Row /\ born \in [Row -> 0 .. MaxDay] /\ said \subseteq Mention
    /\ monitor.at \in {"idle", "pick", "post", "mark"} /\ monitor.day \in 0 .. MaxDay
    /\ monitor.left \in 0 .. Burst /\ (monitor.at \in {"post", "mark"} => IsMarker(monitor.what))
    /\ due \in {"unset", "waiting", "due"} /\ last \in {"none"} \cup Types
    /\ today.key \in 0 .. MaxDay /\ today.count \in 0 .. scenario.cap
    /\ featured \subseteq {Info[r].wallet : r \in Row}
    /\ \A x \in posted : IsMarker(x)
    /\ ticked \in BOOLEAN
    /\ spent \in [failed : 0 .. scenario.failures, stopped : 0 .. scenario.stops]
    /\ \A x \in sent.seen : IsMarker(x)

Idle == [at |-> "idle", day |-> 0, left |-> 0, what |-> Marker("none", 0, 0), sole |-> TRUE, hot |-> {}]
Unsent == [seen |-> {}, extra |-> 0, date |-> 0, onDate |-> 0, type |-> "none", repeats |-> 0,
           wallets |-> {}, crowded |-> 0, worse |-> FALSE]

Init ==
    /\ scenario \in Scenario /\ day = 1 /\ rows = {} /\ born = [r \in Row |-> 0]
    /\ said = {} /\ heard = {} /\ monitor = Idle /\ due = "unset"
    /\ today = [key |-> 0, count |-> 0] /\ last = "none" /\ featured = {} /\ posted = {}
    /\ ticked = FALSE /\ spent = [failed |-> 0, stopped |-> 0] /\ sent = Unsent

Failure == spent.failed < scenario.failures /\ spent' = [spent EXCEPT !.failed = @ + 1]
-----------------------------------------------------------------------------
\* The pools the posts are taken from.

Oldest(S, n) == {r \in S : Cardinality({q \in S : q < r}) < n}
Newest(S, n) == {r \in S : Cardinality({q \in S : q > r}) < n}
Of(type) == {r \in rows : type \in Info[r].types}
Since(S, d) == {r \in S : born[r] >= d}
Unposted(type, S, d) == {r \in S : Marker(type, r, d) \notin posted}

\* A window of rows is read, and what was posted taken out of that.
OldestFirst(type) == Oldest(Unposted(type, Oldest(Of(type), Window), 0), Limit)

NewestFirst(type, since, key) ==
    Newest(Unposted(type, Newest(Since(Of(type), since), Window), key), Limit)
Best(type) ==
    LET better(r) == {q \in Of(type) : Info[q].roi > Info[r].roi}
        top == {r \in Of(type) : Cardinality(better(r)) < Window}
    IN Unposted(type, top, 0)

\* The activity feed: what each type offers on day d, its live bar apart.
ActivityPool(type, d) ==
    CASE type \in {"opportunity", "whale", "security"} ->
             {Marker(type, r, 0) : r \in OldestFirst(type)}
      [] type \in {"market", "trending"} ->
             {Marker(type, r, d) : r \in NewestFirst(type, d - 1, d)}
      [] type = "weekly" -> {Marker(type, 0, d - 1)} \ (posted \cup {Marker(type, 0, 0)})

\* The ecosystem feed's, without the mints its channels named.
EcosystemPool(type, d) ==
    CASE type \in {"trending", "volume"} -> {Marker(type, r, d) : r \in NewestFirst(type, d - 1, d)}
      [] type = "gem" -> {Marker(type, r, d) : r \in NewestFirst(type, d - 2, d)}
      [] type = "smart" -> {Marker(type, r, 0) : r \in NewestFirst(type, 0, 0)}
      [] type = "winner" -> {Marker(type, r, 0) : r \in Best(type)}

\* The place of a candidate in its pool, which mentions follow.
Rank(x) ==
    CASE x.type \in {"opportunity", "whale", "security"} -> x.id
      [] x.type = "winner" -> 0 - Info[x.id].roi
      [] OTHER -> IF x.id \in Mention THEN x.id ELSE 0 - x.id
Heads(offer) == {x \in offer : \A y \in offer : Rank(x) <= Rank(y)}

Gated == {"trending", "volume"}
Pool(type, d) == IF Feed = "activity" THEN ActivityPool(type, d) ELSE EcosystemPool(type, d)

\* pickNextFeedType: any type with a backlog, the last one only if alone.
NextTypes(waiting) == IF waiting \ {last} # {} THEN waiting \ {last} ELSE waiting

\* The network feed: completed trades of wallets worth showing.
Trades == Newest(Of("trade"), Limit)
Quality(r) == Info[r].sound
Rested(S) == {r \in S : Info[r].wallet \notin featured}

EligibleTrades == Rested({r \in Unposted("trade", Trades, 0) : Quality(r)})

Tier(r, hot) ==
    IF r \in hot THEN 1 ELSE IF Info[r].smart THEN 2 ELSE IF Info[r].whale THEN 3 ELSE 4

\* compareNetworkTradeCandidatesByPriority
Better(q, r, hot) ==
    \/ Tier(q, hot) < Tier(r, hot)
    \/ Tier(q, hot) = Tier(r, hot) /\ Info[q].roi > Info[r].roi
-----------------------------------------------------------------------------
\* A tick ends; the paced feeds set their next delay.
Ends ==
    /\ monitor' = Idle /\ ticked' = (ticked \/ monitor.day = day)
    /\ due' = IF Feed \in {"activity", "network"} THEN "waiting" ELSE due
Goes == UNCHANGED <<due, ticked>>

\* A tick of the two paced feeds: the first after a start only sets a delay.
Begin ==
    /\ monitor.at = "idle" /\ Feed \in {"activity", "network"}
    /\ \/ due = "unset" /\ due' = "waiting" /\ ticked' = TRUE /\ UNCHANGED <<monitor, today>>
       \/ /\ due = "due"
          /\ LET count == IF today.key = day THEN today.count ELSE 0 IN
             /\ today' = [key |-> day, count |-> count]
             /\ IF count >= scenario.cap
                THEN due' = "waiting" /\ ticked' = TRUE /\ UNCHANGED monitor
                ELSE monitor' = [Idle EXCEPT !.at = "pick", !.day = day, !.left = 1] /\ Goes
    /\ UNCHANGED <<world, heard, last, featured, posted, spent, sent>>

\* A tick of the ecosystem feed, and of the showcase's summary.
BeginAtOnce ==
    /\ monitor.at = "idle" /\ Feed \in {"ecosystem", "summary"}
    /\ monitor' = [Idle EXCEPT !.at = "pick", !.day = day, !.left = Burst]
    /\ UNCHANGED <<world, ticked, heard, due, today, last, featured, posted, spent, sent>>

\* What is posted next: marker x, the only type with a backlog or not.
Chosen(x, sole, hot) ==
    monitor' = [monitor EXCEPT !.at = "post", !.what = x, !.sole = sole, !.hot = hot]

\* postOneRealEvent: the live bar leaves out some candidates of the trending
\* type.
PickEvent ==
    /\ Feed = "activity" /\ monitor.at = "pick"
    /\ \E cold \in SUBSET Pool("trending", monitor.day) :
          LET offer(t) == Pool(t, monitor.day) \ cold
              waiting == {t \in Types : offer(t) # {}}
          IN \/ waiting = {} /\ Ends
             \/ \E t \in NextTypes(waiting) :
                   /\ \E x \in Heads(offer(t)) : Chosen(x, waiting = {t}, {})
                   /\ Goes
    /\ UNCHANGED <<world, heard, today, last, featured, posted, spent, sent>>

\* postOneEvent: mints named since the last look are offered this once, if
\* they pass the checks.
PickEcosystem ==
    /\ Feed = "ecosystem" /\ monitor.at = "pick" /\ heard' = said
    /\ \E cold \in SUBSET UNION {Pool(t, monitor.day) : t \in Gated}, good \in SUBSET (said \ heard) :
          LET found == {x \in {Marker("trending", m, monitor.day) : m \in good} : x \notin posted}
              offer(t) == (Pool(t, monitor.day) \cup IF t = "trending" THEN found ELSE {}) \ cold
              waiting == {t \in Types : offer(t) # {}}
          IN \/ waiting = {} /\ Ends
             \/ \E t \in NextTypes(waiting) :
                   /\ \E x \in Heads(offer(t)) : Chosen(x, waiting = {t}, {})
                   /\ Goes
    /\ UNCHANGED <<world, today, last, featured, posted, spent, sent>>

\* postBestCandidate: the best of what is eligible, by today's figures.
PickTrade ==
    /\ Feed = "network" /\ monitor.at = "pick"
    /\ \E hot \in SUBSET EligibleTrades :
          \/ EligibleTrades = {} /\ Ends
          \/ \E r \in EligibleTrades :
                /\ \A q \in EligibleTrades : ~ Better(q, r, hot)
                /\ Chosen(Marker("trade", r, 0), TRUE, hot) /\ Goes
    /\ UNCHANGED <<world, heard, today, last, featured, posted, spent, sent>>

\* postDailySummaryIfDue: yesterday, if it has none.
PickSummary ==
    /\ Feed = "summary" /\ monitor.at = "pick"
    /\ IF day = 1 \/ Marker("day", 0, day - 1) \in posted THEN Ends
       ELSE Chosen(Marker("day", 0, day - 1), TRUE, {}) /\ Goes
    /\ UNCHANGED <<world, heard, today, last, featured, posted, spent, sent>>

Wallet(x) == Info[x.id].wallet
Paced == Feed \in {"activity", "network"}
\* What a post adds to the channel.
Seen(x) ==
    [sent EXCEPT
        !.seen = @ \cup {x}, !.extra = @ + (IF x \in sent.seen THEN 1 ELSE 0),
        !.date = IF Paced THEN monitor.day ELSE @,
        !.onDate = IF ~Paced THEN @ ELSE IF sent.date = monitor.day THEN @ + 1 ELSE 1,
        !.type = x.type,
        !.repeats = @ + (IF sent.type = x.type /\ ~monitor.sole THEN 1 ELSE 0),
        !.crowded = @ + (IF Feed = "network" /\ Wallet(x) \in sent.wallets THEN 1 ELSE 0),
        !.wallets = IF Feed = "network" THEN @ \cup {Wallet(x)} ELSE @,
        !.worse = @ \/ /\ Feed = "network"
                       /\ \E r \in Rested(Trades) :
                             /\ Quality(r) /\ Marker("trade", r, 0) \notin posted
                             /\ born[r] < monitor.day /\ Tier(r, monitor.hot) < Tier(x.id, monitor.hot)]

\* A post that fails leaves its event unposted for a later tick.
Post ==
    /\ monitor.at = "post"
    /\ \/ /\ monitor' = [monitor EXCEPT !.at = "mark"] /\ sent' = Seen(monitor.what)
          /\ UNCHANGED spent /\ Goes
       \/ Failure /\ Ends /\ UNCHANGED sent
    /\ UNCHANGED <<world, heard, today, last, featured, posted>>

\* The event is marked; the feed counts it and goes on, or ends its tick.
Mark ==
    /\ monitor.at = "mark"
    /\ \/ /\ posted' = posted \cup {monitor.what}
          /\ last' = IF Feed \in {"activity", "ecosystem"} THEN monitor.what.type ELSE last
          /\ featured' = IF Feed = "network" THEN featured \cup {Wallet(monitor.what)} ELSE featured
          /\ today' = IF Feed \in {"activity", "network"} THEN [today EXCEPT !.count = @ + 1] ELSE today
          /\ IF Feed = "ecosystem" /\ monitor.left > 1
             THEN monitor' = [Idle EXCEPT !.at = "pick", !.day = day, !.left = monitor.left - 1] /\ Goes
             ELSE Ends
          /\ UNCHANGED spent
       \/ Failure /\ Ends /\ UNCHANGED <<posted, last, featured, today>>
    /\ UNCHANGED <<world, heard, sent>>
-----------------------------------------------------------------------------
\* The random delay has passed.
DelayPasses ==
    /\ due = "waiting" /\ due' = "due"
    /\ UNCHANGED <<world, ticked, heard, monitor, today, last, featured, posted, spent, sent>>

\* DUPLICATE_WALLET_COOLDOWN_MS has passed for a wallet.
CooldownPasses ==
    /\ \E w \in featured \cup sent.wallets :
          featured' = featured \ {w} /\ sent' = [sent EXCEPT !.wallets = @ \ {w}]
    /\ UNCHANGED <<world, ticked, heard, monitor, due, today, last, posted, spent>>

\* The scanner and the traders write a row; a channel names a mint.
Appear ==
    /\ Feed # "summary" /\ rows # Row
    /\ LET r == Min(Row \ rows) IN rows' = rows \cup {r} /\ born' = [born EXCEPT ![r] = day]
    /\ UNCHANGED <<scenario, day, said, ticked, heard, monitor, due, today, last, featured, posted, spent, sent>>

Say ==
    /\ Feed = "ecosystem" /\ said # Mention /\ said' = said \cup {Min(Mention \ said)}
    /\ UNCHANGED <<scenario, day, rows, born, ticked, heard, monitor, due, today, last, featured, posted,
                   spent, sent>>

\* Midnight; a day is long enough for a tick.
NewDay ==
    /\ day < scenario.days /\ ticked /\ day' = day + 1 /\ ticked' = FALSE
    /\ UNCHANGED <<scenario, rows, born, said, heard, monitor, due, today, last, featured, posted, spent, sent>>

\* The process stops and starts: what it kept in memory is gone.
Restart ==
    /\ spent.stopped < scenario.stops /\ spent' = [spent EXCEPT !.stopped = @ + 1]
    /\ monitor' = Idle /\ due' = "unset" /\ today' = [key |-> 0, count |-> 0]
    /\ last' = "none" /\ featured' = {} /\ heard' = {}
    /\ UNCHANGED <<world, ticked, posted, sent>>

Pick == PickEvent \/ PickEcosystem \/ PickTrade \/ PickSummary
Monitor == Begin \/ BeginAtOnce \/ Pick \/ Post \/ Mark

Next == Monitor \/ DelayPasses \/ CooldownPasses \/ Appear \/ Say \/ NewDay \/ Restart

Spec == Init /\ [][Next]_vars

\* Timers fire, calls return and delays pass.
Fairness == WF_vars(Monitor \/ DelayPasses)
-----------------------------------------------------------------------------
Faults == spent.failed + spent.stopped

\* An event goes out again only after a marker failed or the process stopped.
RepostsNeedFaults == sent.extra <= Faults

\* A day has no more posts than the cap, but for those a failed marker left
\* uncounted and a new cap for each restart.
DayIsCapped == Paced => sent.onDate <= scenario.cap * (1 + spent.stopped) + spent.failed

\* A type follows itself on the channel while another waits only after a fault.
VarietyKept == sent.repeats <= Faults

\* A wallet is shown again within its cooldown only after a fault.
WalletsRest == sent.crowded <= Faults

\* No trade goes out before one of a better tier that was there.
BestTierFirst == ~sent.worse

\* A day is summed up once it is over, and before the next one is, but for
\* what failed.
DaysAreSummed ==
    Feed = "summary" =>
        /\ \A x \in sent.seen : x.day < day
        /\ Cardinality({d \in 1 .. day - 2 : Marker("day", 0, d) \notin sent.seen}) <= Faults

\* The promises above, of every post of a feed.
FeedsAreSound ==
    /\ TypeOK /\ RepostsNeedFaults /\ DayIsCapped /\ VarietyKept
    /\ WalletsRest /\ BestTierFirst /\ DaysAreSummed

Capped == Paced /\ today.key = day /\ today.count >= scenario.cap
Backlog == {t \in Types \ Gated : Pool(t, day) # {}}

\* What a feed's ungated pools offer is posted, cap permitting.
BacklogIsPosted == Feed \notin {"activity", "ecosystem"} \/ Capped \/ Backlog = {}

=============================================================================
