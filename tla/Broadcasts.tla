----------------------------- MODULE Broadcasts -----------------------------
(***************************************************************************)
(* apps/marketing-engine: a post goes to the channel, is put in a durable  *)
(* queue with a row per recipient, and a worker on its own timer sends the *)
(* rows.  Three queues have this shape: the showcase of closed trades, the *)
(* feed of other wallets' trades, and an administrator's announcements,    *)
(* which no channel sees.  One of them runs in a behaviour.                *)
(***************************************************************************)
EXTENDS Integers, Sequences, FiniteSets, FiniteSetsExt

CONSTANTS Item,         \* trades or announcements, oldest first
          User,         \* with a telegramId, in the order of their rows
          Batch,        \* BATCH_SIZE
          Chunk,        \* CHUNK_SIZE
          MaxAttempts,  \* MAX_TRANSIENT_ATTEMPTS
          MaxPosts,     \* bound: channel posts and copies are counted up to it
          Scenario      \* the queue, who blocked the bot, how many failures

ASSUME BroadcastAssumption ==
    /\ Item \subseteq Nat /\ Item # {} /\ User \subseteq Nat /\ IsFiniteSet(Item) /\ IsFiniteSet(User)
    /\ {Batch, Chunk, MaxAttempts, MaxPosts} \subseteq Nat \ {0}
    /\ Scenario \subseteq [kind : {"showcase", "network", "admin"}, blocked : SUBSET User,
                           failures : Nat]

VARIABLES scenario,
          poster,    \* the monitor, or the operator's script: its place and locals
          channel,   \* [Item -> channel posts]
          marked,    \* items whose dedup marker is written
          cast,      \* [Item -> the broadcast's row]
          order,     \* broadcasts by createdAt
          row,       \* [Item -> [User -> the delivery's row]]
          worker,    \* its place and locals
          active,    \* users with telegramActive
          copies,    \* [Item -> [User -> messages they got]]
          spent,     \* failures and stops so far
          early      \* observer: completed before all its rows were there

vars == <<scenario, poster, channel, marked, cast, order, row, worker, active, copies, spent, early>>

Kind == scenario.kind
Open == {"PENDING", "IN_PROGRESS"}
Completed == {"COMPLETED", "COMPLETED_WITH_FAILURES"}

\* Types of the rows, the two processes and the observers.
TypeOK ==
    /\ scenario \in Scenario /\ marked \subseteq Item /\ active \subseteq User /\ early \subseteq Item
    /\ poster \in [at : {"idle", "next", "post", "enqueue", "rows", "mark"},
                   item : Item, todo : SUBSET Item, recipients : SUBSET User]
    /\ channel \in [Item -> 0 .. MaxPosts] /\ copies \in [Item -> [User -> 0 .. MaxPosts]]
    /\ cast \in [Item -> [status : {"none"} \cup Open \cup Completed, total : 0 .. Cardinality(User),
                          sent : Nat, permanent : Nat, temp : Nat, photo : BOOLEAN]]
    /\ order \in Seq(Item)
    /\ row \in [Item -> [User -> [status : {"none", "PENDING", "SENT", "FAILED_PERMANENT", "FAILED_TEMP"},
                                  attempts : 0 .. MaxAttempts, resting : BOOLEAN]]]
    /\ worker \in [at : {"idle", "select", "send", "photo", "sent", "count", "transient",
                         "permanent", "deactivate", "tally", "finish"},
                   item : Item, batch : SUBSET User, photo : BOOLEAN]
    /\ spent \in 0 .. scenario.failures

NoCast == [status |-> "none", total |-> 0, sent |-> 0, permanent |-> 0, temp |-> 0, photo |-> FALSE]
NoRow == [status |-> "none", attempts |-> 0, resting |-> FALSE]
PosterIdle == [at |-> "idle", item |-> Min(Item), todo |-> {}, recipients |-> {}]
WorkerIdle == [at |-> "idle", item |-> Min(Item), batch |-> {}, photo |-> FALSE]

Init ==
    /\ scenario \in Scenario
    /\ poster = PosterIdle /\ channel = [i \in Item |-> 0] /\ marked = {}
    /\ cast = [i \in Item |-> NoCast] /\ order = <<>>
    /\ row = [i \in Item |-> [u \in User |-> NoRow]]
    /\ worker = WorkerIdle /\ active = User /\ copies = [i \in Item |-> [u \in User |-> 0]]
    /\ spent = 0 /\ early = {}

\* A call to Telegram or the database fails.
Failure == spent < scenario.failures /\ spent' = spent + 1
Works == spent' = spent

Capped(n) == IF n < MaxPosts THEN n + 1 ELSE MaxPosts
First(S, n) == {u \in S : Cardinality({v \in S : v < u}) < n}
Rows(i) == {u \in User : row[i][u].status # "none"}
Having(i, statuses) == {u \in User : row[i][u].status \in statuses}
-----------------------------------------------------------------------------
PosterGoes(to) == poster' = [poster EXCEPT !.at = to]

\* What a tick of the monitor takes: every unposted trade, the best one, or
\* the announcement an operator gives.
Due ==
    CASE Kind = "showcase" -> {Item \ marked}
      [] Kind = "network"  -> {{i} : i \in Item \ marked}
      [] Kind = "admin"    -> {{i} : i \in {j \in Item : cast[j] = NoCast}}

Fetch ==
    /\ poster.at = "idle"
    /\ \E due \in Due : due # {} /\ poster' = [poster EXCEPT !.at = "next", !.todo = due]
    /\ UNCHANGED <<scenario, channel, marked, cast, order, row, worker, active, copies, spent, early>>

NextItem ==
    /\ poster.at = "next"
    /\ IF poster.todo = {} THEN poster' = PosterIdle
       ELSE poster' = [poster EXCEPT !.at = IF Kind = "admin" THEN "enqueue" ELSE "post",
                                     !.item = Min(poster.todo), !.todo = @ \ {Min(@)}]
    /\ UNCHANGED <<scenario, channel, marked, cast, order, row, worker, active, copies, spent, early>>

Post ==
    /\ poster.at = "post"
    /\ \/ /\ Works /\ PosterGoes("enqueue")
          /\ channel' = [channel EXCEPT ![poster.item] = Capped(@)]
       \/ Failure /\ PosterGoes("next") /\ UNCHANGED channel
    /\ UNCHANGED <<scenario, marked, cast, order, row, worker, active, copies, early>>

\* The showcase's loop catches and goes on, the trade unmarked; the feed
\* swallows the error and marks; the operator's script dies.
EnqueueFails == PosterGoes(IF Kind = "network" THEN "mark" ELSE "next")

\* The broadcast's row, one per trade, for who is active now.
EnqueueRow ==
    /\ poster.at = "enqueue"
    /\ IF cast[poster.item] # NoCast
       THEN Works /\ EnqueueFails /\ UNCHANGED <<cast, order>>
       ELSE \/ /\ Works /\ poster' = [poster EXCEPT !.at = "rows", !.recipients = active]
               /\ cast' = [cast EXCEPT ![poster.item] =
                              [NoCast EXCEPT !.status = "PENDING", !.total = Cardinality(active),
                                             !.photo = (Kind # "showcase")]]
               /\ order' = Append(order, poster.item)
            \/ Failure /\ EnqueueFails /\ UNCHANGED <<cast, order>>
    /\ UNCHANGED <<scenario, channel, marked, row, worker, active, copies, early>>

\* createMany, a chunk of recipients at a time
EnqueueRows ==
    /\ poster.at = "rows"
    /\ IF poster.recipients = {}
       THEN Works /\ PosterGoes(IF Kind = "admin" THEN "next" ELSE "mark") /\ UNCHANGED row
       ELSE LET chunk == First(poster.recipients, Chunk) IN
            \/ /\ Works /\ poster' = [poster EXCEPT !.recipients = @ \ chunk]
               /\ row' = [row EXCEPT ![poster.item] =
                             [u \in User |-> IF u \in chunk THEN [NoRow EXCEPT !.status = "PENDING"]
                                             ELSE @[u]]]
            \/ Failure /\ EnqueueFails /\ UNCHANGED row
    /\ UNCHANGED <<scenario, channel, marked, cast, order, worker, active, copies, early>>

Mark ==
    /\ poster.at = "mark" /\ PosterGoes("next")
    /\ \/ Works /\ marked' = marked \cup {poster.item}
       \/ Failure /\ UNCHANGED marked
    /\ UNCHANGED <<scenario, channel, cast, order, row, worker, active, copies, early>>
-----------------------------------------------------------------------------
WorkerGoes(to) == worker' = [worker EXCEPT !.at = to]
\* The tick's catch: the broadcast stays as it is for a later tick.
TickFails == worker' = WorkerIdle
RowBecomes(u, r) == row' = [row EXCEPT ![worker.item][u] = r]
CastBecomes(c) == cast' = [cast EXCEPT ![worker.item] = c]
Now == Min(worker.batch)
\* On to the next row of the batch, and after the last to another look.
Onward ==
    worker' = [worker EXCEPT !.batch = @ \ {Now}, !.at = IF worker.batch = {Now} THEN "select" ELSE "send"]

\* The oldest broadcast that is not complete.
Take ==
    /\ worker.at = "idle"
    /\ \E n \in DOMAIN order :
          /\ cast[order[n]].status \in Open
          /\ \A k \in 1 .. n - 1 : cast[order[k]].status \notin Open
          /\ worker' = [WorkerIdle EXCEPT !.at = "select", !.item = order[n], !.photo = cast[order[n]].photo]
          /\ cast' = [cast EXCEPT ![order[n]].status = "IN_PROGRESS"]
    /\ UNCHANGED <<scenario, poster, channel, marked, order, row, active, copies, spent, early>>

\* Mutant of Select: a batch is taken whether or not a row is in it.
SelectRested ==
    /\ worker.at = "select"
    /\ worker' = [worker EXCEPT !.at = IF Having(worker.item, {"PENDING"}) = {} THEN "finish" ELSE "select"]
    /\ UNCHANGED <<scenario, poster, channel, marked, cast, order, row, active, copies, spent, early>>

\* Of the first hundred pending rows, a batch of those not in their backoff.
Select ==
    /\ worker.at = "select"
    /\ LET candidates == First(Having(worker.item, {"PENDING"}), 4 * Batch)
           eligible == First({u \in candidates : ~ row[worker.item][u].resting}, Batch)
       IN worker' = IF eligible = {} THEN [worker EXCEPT !.at = "finish"]
                    ELSE [worker EXCEPT !.at = "send", !.batch = eligible]
    /\ UNCHANGED <<scenario, poster, channel, marked, cast, order, row, active, copies, spent, early>>

\* Mutant of Send: any failure is taken for a block.
SendMisread ==
    /\ worker.at = "send"
    /\ \/ /\ Now \notin scenario.blocked /\ Works
          /\ copies' = [copies EXCEPT ![worker.item][Now] = Capped(@)]
          /\ WorkerGoes(IF worker.photo THEN "sent" ELSE "photo")
       \/ Now \in scenario.blocked /\ Works /\ WorkerGoes("permanent") /\ UNCHANGED copies
       \/ Failure /\ WorkerGoes("permanent") /\ UNCHANGED copies
    /\ UNCHANGED <<scenario, poster, channel, marked, cast, order, row, active, early>>

\* classifyTelegramError tells a block from everything else.
Send ==
    /\ worker.at = "send"
    /\ \/ /\ Now \notin scenario.blocked /\ Works
          /\ copies' = [copies EXCEPT ![worker.item][Now] = Capped(@)]
          /\ WorkerGoes(IF worker.photo THEN "sent" ELSE "photo")
       \/ Now \in scenario.blocked /\ Works /\ WorkerGoes("permanent") /\ UNCHANGED copies
       \/ Failure /\ WorkerGoes("transient") /\ UNCHANGED copies
    /\ UNCHANGED <<scenario, poster, channel, marked, cast, order, row, active, early>>

\* The showcase keeps the first upload's file_id; a text has none.
SavePhoto ==
    /\ worker.at = "photo"
    /\ \/ Works /\ WorkerGoes("sent") /\ UNCHANGED cast
       \/ /\ Works /\ worker' = [worker EXCEPT !.at = "sent", !.photo = TRUE]
          /\ CastBecomes([cast[worker.item] EXCEPT !.photo = TRUE])
       \/ Failure /\ worker' = [worker EXCEPT !.at = "transient", !.photo = TRUE] /\ UNCHANGED cast
    /\ UNCHANGED <<scenario, poster, channel, marked, order, row, active, copies, early>>

MarkSent ==
    /\ worker.at = "sent"
    /\ \/ Works /\ WorkerGoes("count") /\ RowBecomes(Now, [row[worker.item][Now] EXCEPT !.status = "SENT"])
       \/ Failure /\ WorkerGoes("transient") /\ UNCHANGED row
    /\ UNCHANGED <<scenario, poster, channel, marked, cast, order, active, copies, early>>

\* A count that fails ends in the same catch as a send that fails.
CountSent ==
    /\ worker.at = "count"
    /\ \/ Works /\ Onward /\ CastBecomes([cast[worker.item] EXCEPT !.sent = @ + 1])
       \/ Failure /\ WorkerGoes("transient") /\ UNCHANGED cast
    /\ UNCHANGED <<scenario, poster, channel, marked, order, row, active, copies, early>>

\* Another try after a backoff, up to the last attempt.
Transient ==
    /\ worker.at = "transient"
    /\ \/ LET attempts == row[worker.item][Now].attempts + 1
              terminal == attempts >= MaxAttempts
          IN /\ Works
             /\ RowBecomes(Now, [status |-> IF terminal THEN "FAILED_TEMP" ELSE "PENDING",
                                 attempts |-> attempts, resting |-> ~terminal])
             /\ IF terminal THEN WorkerGoes("tally") ELSE Onward
       \/ Failure /\ TickFails /\ UNCHANGED row
    /\ UNCHANGED <<scenario, poster, channel, marked, cast, order, active, copies, early>>

Permanent ==
    /\ worker.at = "permanent"
    /\ \/ /\ Works /\ WorkerGoes("deactivate")
          /\ RowBecomes(Now, [row[worker.item][Now] EXCEPT !.status = "FAILED_PERMANENT"])
       \/ Failure /\ TickFails /\ UNCHANGED row
    /\ UNCHANGED <<scenario, poster, channel, marked, cast, order, active, copies, early>>

Deactivate ==
    /\ worker.at = "deactivate"
    /\ \/ Works /\ WorkerGoes("tally") /\ active' = active \ {Now}
       \/ Failure /\ TickFails /\ UNCHANGED active
    /\ UNCHANGED <<scenario, poster, channel, marked, cast, order, row, copies, early>>

\* failedPermanentCount or failedTempCount
Tally ==
    /\ worker.at = "tally"
    /\ \/ /\ Works /\ Onward
          /\ CastBecomes(IF row[worker.item][Now].status = "FAILED_TEMP"
                         THEN [cast[worker.item] EXCEPT !.temp = @ + 1]
                         ELSE [cast[worker.item] EXCEPT !.permanent = @ + 1])
       \/ Failure /\ TickFails /\ UNCHANGED cast
    /\ UNCHANGED <<scenario, poster, channel, marked, order, row, active, copies, early>>

\* Rows in their backoff leave the broadcast open for a later tick.
Finish ==
    /\ worker.at = "finish" /\ TickFails
    /\ \/ Works /\ Having(worker.item, {"PENDING"}) # {} /\ UNCHANGED <<cast, early>>
       \/ /\ Works /\ Having(worker.item, {"PENDING"}) = {}
          /\ CastBecomes([cast[worker.item] EXCEPT !.status =
                 IF Having(worker.item, {"FAILED_PERMANENT", "FAILED_TEMP"}) = {} THEN "COMPLETED"
                 ELSE "COMPLETED_WITH_FAILURES"])
          /\ early' = IF Cardinality(Rows(worker.item)) < cast[worker.item].total
                      THEN early \cup {worker.item} ELSE early
       \/ Failure /\ UNCHANGED <<cast, early>>
    /\ UNCHANGED <<scenario, poster, channel, marked, order, row, active, copies>>

\* computeBroadcastRetryBackoffMs has passed.
Rested(i, u) ==
    /\ row[i][u].resting /\ row' = [row EXCEPT ![i][u].resting = FALSE]
    /\ UNCHANGED <<scenario, poster, channel, marked, cast, order, worker, active, copies, spent, early>>

\* The process stops and starts.
Restart ==
    /\ Failure /\ poster' = PosterIdle /\ worker' = WorkerIdle
    /\ UNCHANGED <<scenario, channel, marked, cast, order, row, active, copies, early>>

\* The three posters: the showcase's and the feed's post to the channel first.
ShowcasePoster == Kind = "showcase" /\ (Fetch \/ NextItem \/ Post \/ EnqueueRow \/ EnqueueRows \/ Mark)
NetworkPoster == Kind = "network" /\ (Fetch \/ NextItem \/ Post \/ EnqueueRow \/ EnqueueRows \/ Mark)
AdminPoster == Kind = "admin" /\ (Fetch \/ NextItem \/ EnqueueRow \/ EnqueueRows)

\* The steps of the three workers, which are copies of each other but for
\* the photo of the showcase.
Worker ==
    \/ Take \/ Select \/ Send \/ MarkSent \/ CountSent \/ Transient
    \/ Permanent \/ Deactivate \/ Tally \/ Finish
ShowcaseWorker == Kind = "showcase" /\ (Worker \/ SavePhoto)
NetworkWorker == Kind = "network" /\ Worker
AdminWorker == Kind = "admin" /\ Worker

PosterStep == ShowcasePoster \/ NetworkPoster \/ AdminPoster
WorkerStep == ShowcaseWorker \/ NetworkWorker \/ AdminWorker

Next == PosterStep \/ WorkerStep \/ (\E i \in Item, u \in User : Rested(i, u)) \/ Restart

Spec == Init /\ [][Next]_vars

-----------------------------------------------------------------------------
\* A recipient is sent a message again only after a failure or a stop, and
\* each accounts for one copy at most.
ExtraCopies == {c \in Item \X User \X (2 .. MaxPosts) : copies[c[1]][c[2]] >= c[3]}
CopiesNeedFailures == Cardinality(ExtraCopies) <= spent

\* sentCount never says more than the rows do, and less only by what failed
\* between a row and its count.
SentCountIsHonest ==
    \A i \in Item :
        LET sent == Cardinality(Having(i, {"SENT"})) IN
        /\ cast[i].sent <= sent
        /\ sent <= cast[i].sent + spent + (IF worker.at = "count" THEN 1 ELSE 0)

\* A broadcast that is complete has no row left to send, unless it was
\* completed while its rows were still being written.
CompletedIsDrained ==
    \A i \in Item \ early : cast[i].status \in Completed => Having(i, {"PENDING"}) = {}

\* Only a user who blocked the bot is dropped from later broadcasts.
OnlyTheBlockedAreDropped == User \ active \subseteq scenario.blocked

\* The feed of other wallets' trades posts again only after a failure.
FeedPostsOnce ==
    Kind = "network" => \A i \in Item : channel[i] <= 1 + spent

\* The four promises above, of the rows alone: the types, what is complete,
\* who is dropped and how often the feed posts.
DeliveriesAreSound == TypeOK /\ CompletedIsDrained /\ OnlyTheBlockedAreDropped /\ FeedPostsOnce

\* Copies and counts are what was sent, but for what failed.
CountsAreSound == CopiesNeedFailures /\ SentCountIsHonest

\* Every broadcast begun is complete, and every trade the network feed has
\* queued is marked as posted.
QueuesAreDone ==
    \A i \in Item : /\ cast[i].status \notin Open
                    /\ cast[i] = NoCast \/ i \in marked \/ Kind # "network"
=============================================================================
