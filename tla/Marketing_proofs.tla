-------------------------- MODULE Marketing_proofs ---------------------------
(***************************************************************************)
(* What Broadcasts.tla promises of the deliveries' rows, for every set of  *)
(* items, recipients and scenarios, every batch, chunk and number of       *)
(* attempts: what is complete has no row left to send, only who blocked    *)
(* the bot is dropped, and the feed posts once but for what failed.  Then  *)
(* what MarketingPosts.tla promises of the posts, for every set of texts   *)
(* and categories, every number of slots, tries and failures: no text is   *)
(* shown twice, and a category or a subject comes back only by a fault.    *)
(* Then what BotChats.tla promises of the trading bot's chats, for every   *)
(* set of people and chats, every cap and every run of updates.            *)
(***************************************************************************)
EXTENDS Broadcasts, MarketingPosts, BotChats, FiniteSetTheorems, SequenceTheorems, WellFoundedInduction, TLAPS

\* Where the poster has an item in its hand, and the worker a row.
Carrying == {"post", "enqueue", "rows", "mark"}
Busy == {"send", "photo", "sent", "count", "transient", "permanent", "deactivate", "tally"}

\* The broadcast's row counts the recipients, whose rows are there or still to
\* be written; one that is complete too soon is noted.
Counted ==
    /\ \A i \in Item : cast[i].status = "none" => Rows(i) = {}
    /\ poster.at = "rows" =>
         /\ cast[poster.item].status # "none"
         /\ Rows(poster.item) \cap poster.recipients = {}
         /\ cast[poster.item].total = Cardinality(Rows(poster.item) \cup poster.recipients)
         /\ cast[poster.item].status \in Completed /\ poster.item \notin early => poster.recipients = {}

\* The worker is at a broadcast in progress, at rows that are there and have an
\* attempt left but for the one it has just given up.
AtWork ==
    /\ worker.at # "idle" => cast[worker.item].status = "IN_PROGRESS"
    /\ worker.at \in Busy =>
         /\ worker.batch # {}
         /\ \A u \in worker.batch :
                /\ row[worker.item][u].status # "none"
                /\ (worker.at = "tally" /\ u = Now) \/ row[worker.item][u].attempts < MaxAttempts
    /\ worker.at \in {"permanent", "deactivate"} => Now \in scenario.blocked
    /\ \A i \in Item, u \in User : row[i][u].status = "PENDING" => row[i][u].attempts < MaxAttempts

\* What the feed has posted and not marked is in the poster's hand, or a
\* failure has been counted for it.
FeedInv ==
    Kind = "network" =>
        /\ \A i \in Item : channel[i] <= 1 + spent
        /\ \A i \in Item \ marked : channel[i] <= spent \/ (poster.at \in Carrying \ {"post"} /\ poster.item = i)
        /\ poster.todo \cap marked = {}
        /\ poster.at \in Carrying => poster.item \notin poster.todo
        /\ poster.at = "post" => poster.item \notin marked

DeliveryInv ==
    TypeOK /\ CompletedIsDrained /\ OnlyTheBlockedAreDropped /\ Counted /\ AtWork /\ FeedInv
-----------------------------------------------------------------------------
Places == {"idle", "next", "post", "enqueue", "rows", "mark"}
PosterType == [at : Places, item : Item, todo : SUBSET Item, recipients : SUBSET User]
WorkerPlaces == {"idle", "select", "send", "photo", "sent", "count", "transient", "permanent",
                 "deactivate", "tally", "finish"}
WorkerType == [at : WorkerPlaces, item : Item, batch : SUBSET User, photo : BOOLEAN]
CastType == [status : {"none"} \cup Open \cup Completed, total : 0 .. Cardinality(User),
             sent : Nat, permanent : Nat, temp : Nat, photo : BOOLEAN]
RowType == [status : {"none", "PENDING", "SENT", "FAILED_PERMANENT", "FAILED_TEMP"},
            attempts : 0 .. MaxAttempts, resting : BOOLEAN]

\* The types by name, which is what the steps below use.
LEMMA Types ==
    ASSUME TypeOK
    PROVE  /\ scenario \in Scenario /\ poster \in PosterType /\ worker \in WorkerType
           /\ row \in [Item -> [User -> RowType]] /\ order \in Seq(Item)
           /\ cast \in [Item -> CastType] /\ \A i \in Item : cast[i] \in CastType
           /\ \A i \in Item, u \in User : row[i][u] \in RowType
           /\ spent \in Nat /\ scenario.failures \in Nat /\ scenario.blocked \subseteq User
           /\ Kind \in {"showcase", "network", "admin"}
           /\ channel \in [Item -> 0 .. MaxPosts] /\ MaxPosts \in Nat /\ MaxAttempts \in Nat /\ MaxAttempts > 0
           /\ copies \in [Item -> [User -> 0 .. MaxPosts]]
           /\ marked \subseteq Item /\ active \subseteq User /\ early \subseteq Item
           /\ spent \in 0 .. scenario.failures
<1>1. scenario \in Scenario /\ scenario.failures \in Nat /\ scenario.blocked \subseteq User
  BY BroadcastAssumption DEF TypeOK
<1>2. spent \in 0 .. scenario.failures /\ spent \in Nat
  BY <1>1 DEF TypeOK
<1>3. poster \in PosterType
  BY DEF TypeOK, PosterType, Places
<1>4. worker \in WorkerType
  BY DEF TypeOK, WorkerType, WorkerPlaces
<1>5. row \in [Item -> [User -> RowType]] /\ \A i \in Item, u \in User : row[i][u] \in RowType
  BY DEF TypeOK, RowType
<1>6. cast \in [Item -> CastType] /\ \A i \in Item : cast[i] \in CastType
  BY DEF TypeOK, CastType
<1>7. /\ channel \in [Item -> 0 .. MaxPosts] /\ copies \in [Item -> [User -> 0 .. MaxPosts]]
      /\ marked \subseteq Item /\ active \subseteq User /\ early \subseteq Item /\ order \in Seq(Item)
  BY DEF TypeOK
<1>8. Kind \in {"showcase", "network", "admin"} /\ MaxPosts \in Nat /\ MaxAttempts \in Nat /\ MaxAttempts > 0
  <2>1. Kind \in {"showcase", "network", "admin"}
    BY <1>1, BroadcastAssumption DEF Kind
  <2>2. {MaxPosts, MaxAttempts} \subseteq Nat \ {0}
    BY BroadcastAssumption
  <2> QED
    BY <2>1, <2>2
<1> QED
  BY <1>1, <1>2, <1>3, <1>4, <1>5, <1>6, <1>7, <1>8

\* What each of the variables that a step may change has to be after it.
LEMMA TypesAfter ==
    ASSUME TypeOK, UNCHANGED scenario, spent' \in 0 .. scenario.failures,
           poster' \in PosterType, worker' \in WorkerType, row' \in [Item -> [User -> RowType]],
           order' \in Seq(Item), cast' \in [Item -> CastType],
           channel' \in [Item -> 0 .. MaxPosts], copies' \in [Item -> [User -> 0 .. MaxPosts]],
           marked' \subseteq Item, active' \subseteq User, early' \subseteq Item
    PROVE  TypeOK'
  BY DEF TypeOK, PosterType, Places, WorkerType, WorkerPlaces, CastType, RowType

\* A set of numbers that is not empty has its least element.
LEMMA MinIn ==
    ASSUME NEW S, S \subseteq Nat, S # {}
    PROVE  Min(S) \in S
<1> DEFINE R == {p \in Nat \X Nat : p[1] < p[2]}
<1>1. OpToRel(<, Nat) = R
  BY DEF OpToRel
<1>2. IsWellFoundedOn(R, Nat)
  BY <1>1, NatLessThanWellFounded
<1>3. PICK x \in S : \A y \in S : ~ (<<y, x>> \in R)
  BY <1>2, WFMin
<1>4. ASSUME NEW y \in S PROVE x <= y
  <2>1. <<y, x>> \in Nat \X Nat /\ x \in Nat /\ y \in Nat
    OBVIOUS
  <2>2. ~ (<<y, x>>[1] < <<y, x>>[2])
    BY <1>3, <2>1, Zenon
  <2> QED
    BY <2>1, <2>2
<1> QED
  BY <1>4 DEF Min

\* The row the worker is at is one of its batch.
LEMMA NowIsThere ==
    ASSUME TypeOK, AtWork, worker.at \in Busy
    PROVE  /\ Now \in worker.batch /\ Now \in User /\ worker.item \in Item
           /\ row[worker.item][Now] \in RowType /\ cast[worker.item] \in CastType
           /\ row[worker.item][Now].status # "none" /\ cast[worker.item].status = "IN_PROGRESS"
           /\ worker.at # "tally" => row[worker.item][Now].attempts < MaxAttempts
<1>1. worker \in WorkerType /\ worker.batch \subseteq Nat /\ worker.batch # {}
  BY Types, BroadcastAssumption DEF AtWork, WorkerType
<1>2. Now \in worker.batch
  BY <1>1, MinIn DEF Now
<1> QED
  BY <1>1, <1>2, Types DEF AtWork, Busy, WorkerType

\* A set of recipients is counted within the bound of its broadcast's row.
LEMMA Recipients ==
    ASSUME NEW S, S \subseteq User
    PROVE  IsFiniteSet(S) /\ Cardinality(S) \in 0 .. Cardinality(User)
<1>1. IsFiniteSet(S) /\ Cardinality(S) <= Cardinality(User)
  BY FS_Subset, BroadcastAssumption
<1> QED
  BY <1>1, FS_CardinalityType, BroadcastAssumption

\* A failure counts one more, and anything else none.
LEMMA Spends ==
    ASSUME TypeOK, Failure \/ Works, UNCHANGED scenario
    PROVE  spent' \in 0 .. scenario'.failures /\ spent' \in Nat /\ spent' >= spent
  BY Types DEF Failure, Works
-----------------------------------------------------------------------------
\* --- What a step leaves alone stays true ------------------------------------

LEMMA FeedKept ==
    ASSUME TypeOK, FeedInv, UNCHANGED <<scenario, poster, channel, marked>>, spent' \in Nat, spent' >= spent
    PROVE  FeedInv'
  BY Types DEF FeedInv, Kind

\* No row comes or goes, and the poster stays where it is.
LEMMA CountedKept ==
    ASSUME TypeOK, Counted, UNCHANGED poster, early \subseteq early',
           \A i \in Item : Rows(i)' = Rows(i),
           \A i \in Item : /\ cast'[i].total = cast[i].total
                           /\ cast'[i].status = "none" => cast[i].status = "none"
                           /\ cast'[i].status \in Completed => cast[i].status \in Completed,
           \A i \in Item : cast[i].status # "none" => cast'[i].status # "none"
    PROVE  Counted'
<1>1. poster.item \in Item
  BY Types DEF PosterType
<1> QED
  BY <1>1 DEF Counted

\* A step of the poster that is not at its rows afterwards.
LEMMA CountedAway ==
    ASSUME Counted, UNCHANGED <<row, cast>>, poster'.at # "rows"
    PROVE  Counted'
  BY DEF Counted, Rows

\* The poster's steps but the one that writes rows.
LEMMA WorkKept ==
    ASSUME TypeOK, AtWork, UNCHANGED <<scenario, worker, row>>,
           \A i \in Item : cast[i].status # "none" => cast'[i] = cast[i]
    PROVE  AtWork'
<1>1. worker.item \in Item
  BY Types DEF WorkerType
<1> QED
  BY <1>1 DEF AtWork, Now, Busy

LEMMA DrainedKept ==
    ASSUME CompletedIsDrained, UNCHANGED <<row, early>>,
           \A i \in Item : cast'[i].status \in Completed => cast[i].status \in Completed
    PROVE  CompletedIsDrained'
  BY DEF CompletedIsDrained, Having
-----------------------------------------------------------------------------
\* --- The poster -------------------------------------------------------------

LEMMA FetchStep ==
    ASSUME DeliveryInv, Fetch PROVE DeliveryInv'
<1> USE DEF DeliveryInv
<1>1. poster \in PosterType /\ Kind \in {"showcase", "network", "admin"}
  BY Types
<1>2. PICK due \in SUBSET Item : /\ poster' = [poster EXCEPT !.at = "next", !.todo = due]
                                 /\ Kind = "network" => due \cap marked = {}
  <2>1. PICK due \in Due : poster' = [poster EXCEPT !.at = "next", !.todo = due]
    BY DEF Fetch
  <2>2. CASE Kind = "showcase"
    BY <2>1, <2>2 DEF Due
  <2>3. CASE Kind = "network"
    BY <2>1, <2>3 DEF Due
  <2>4. CASE Kind = "admin"
    BY <2>1, <2>4 DEF Due
  <2> QED
    BY <1>1, <2>2, <2>3, <2>4
<1>3. poster' \in PosterType /\ poster'.at = "next" /\ poster'.todo = due
  BY <1>1, <1>2 DEF PosterType, Places
<1>4. TypeOK'
  BY <1>3, Types, TypesAfter DEF Fetch
<1>5. Counted'
  BY <1>3, CountedAway DEF Fetch
<1>6. FeedInv'
  BY <1>2, <1>3 DEF Fetch, FeedInv, Kind, Carrying
<1> QED
  BY <1>4, <1>5, <1>6, WorkKept, DrainedKept DEF Fetch, OnlyTheBlockedAreDropped

LEMMA NextItemStep ==
    ASSUME DeliveryInv, NextItem PROVE DeliveryInv'
<1> USE DEF DeliveryInv
<1>1. poster \in PosterType /\ poster.todo \subseteq Item
  BY Types DEF PosterType
<1>2. Min(Item) \in Item /\ (poster.todo # {} => Min(poster.todo) \in poster.todo)
  BY <1>1, MinIn, BroadcastAssumption
<1>3. /\ poster' \in PosterType /\ poster'.todo \subseteq poster.todo
      /\ poster'.at \in {"idle", "enqueue", "post"}
      /\ poster'.at # "idle" => poster'.item \in poster.todo \ poster'.todo
  <2>1. CASE poster.todo = {}
    BY <1>2, <2>1 DEF NextItem, PosterIdle, PosterType, Places
  <2>2. CASE poster.todo # {}
    <3>1. PICK at \in {"enqueue", "post"} :
             poster' = [poster EXCEPT !.at = at, !.item = Min(poster.todo), !.todo = @ \ {Min(@)}]
      BY <2>2 DEF NextItem
    <3> QED
      BY <1>1, <1>2, <2>2, <3>1 DEF PosterType, Places
  <2> QED
    BY <2>1, <2>2
<1>4. TypeOK'
  BY <1>3, Types, TypesAfter DEF NextItem
<1>5. Counted'
  BY <1>3, CountedAway DEF NextItem
<1>6. FeedInv'
  BY <1>3 DEF NextItem, FeedInv, Kind, Carrying
<1> QED
  BY <1>4, <1>5, <1>6, WorkKept, DrainedKept DEF NextItem, OnlyTheBlockedAreDropped

LEMMA PostStep ==
    ASSUME DeliveryInv, Post PROVE DeliveryInv'
<1> USE DEF DeliveryInv
<1>1. spent' \in 0 .. scenario.failures /\ spent' \in Nat /\ spent' >= spent
  BY Spends DEF Post
<1>2. /\ poster \in PosterType /\ poster.item \in Item /\ channel \in [Item -> 0 .. MaxPosts]
      /\ MaxPosts \in Nat /\ spent \in Nat
  BY Types DEF PosterType
<1>3. /\ poster' \in PosterType /\ poster'.todo = poster.todo /\ poster'.item = poster.item
      /\ poster'.at = "enqueue" \/ (poster'.at = "next" /\ UNCHANGED channel)
      /\ channel' \in [Item -> 0 .. MaxPosts]
      /\ \A i \in Item \ {poster.item} : channel'[i] = channel[i]
      /\ channel'[poster.item] <= channel[poster.item] + 1
  BY <1>2 DEF Post, PosterGoes, Capped, PosterType, Places
<1>4. TypeOK'
  BY <1>1, <1>3, Types, TypesAfter DEF Post
<1>5. Counted'
  BY <1>3, CountedAway DEF Post
<1>6. FeedInv'
  <2> SUFFICES ASSUME Kind = "network" PROVE FeedInv'
    BY DEF FeedInv, Kind, Post
  <2>1. poster.item \notin marked /\ poster.item \notin poster.todo /\ poster.todo \cap marked = {}
    BY DEF FeedInv, Post, Carrying
  <2>2. \A i \in Item : channel[i] \in Nat /\ channel'[i] \in Nat
    BY <1>2, <1>3
  <2>3. channel[poster.item] <= spent /\ \A i \in Item \ marked : channel[i] <= spent
    BY <1>2, <2>1 DEF FeedInv, Post, Carrying
  <2>4. \A i \in Item : channel'[i] <= 1 + spent'
    BY <1>1, <1>2, <1>3, <2>2, <2>3 DEF FeedInv
  <2>5. \A i \in Item \ marked : channel'[i] <= spent' \/ (poster'.at = "enqueue" /\ poster'.item = i)
    BY <1>1, <1>2, <1>3, <2>2, <2>3 DEF FeedInv
  <2> QED
    BY <1>3, <2>1, <2>4, <2>5 DEF Post, FeedInv, Carrying
<1> QED
  BY <1>4, <1>5, <1>6, WorkKept, DrainedKept DEF Post, OnlyTheBlockedAreDropped

LEMMA EnqueueRowStep ==
    ASSUME DeliveryInv, EnqueueRow PROVE DeliveryInv'
<1> USE DEF DeliveryInv
<1>1. spent' \in 0 .. scenario.failures /\ spent' \in Nat /\ spent' >= spent
  BY Spends DEF EnqueueRow
<1>2. /\ poster \in PosterType /\ poster.item \in Item /\ poster.at = "enqueue"
      /\ cast \in [Item -> CastType]
      /\ active \subseteq User /\ spent \in Nat /\ order \in Seq(Item)
  BY Types DEF PosterType, EnqueueRow
<1>3. CASE poster'.at # "rows"
  <2>1. /\ poster' \in PosterType /\ poster'.todo = poster.todo /\ poster'.item = poster.item
        /\ poster'.at \in {"next", "mark"} /\ (Kind = "network" => poster'.at = "mark")
        /\ UNCHANGED <<cast, order>>
    <3>1. PICK at \in {"next", "mark", "rows"} :
             /\ \/ poster' = [poster EXCEPT !.at = at] /\ at # "rows" /\ UNCHANGED <<cast, order>>
                \/ poster' = [poster EXCEPT !.at = "rows", !.recipients = active]
             /\ Kind = "network" => at = "mark"
      BY DEF EnqueueRow, EnqueueFails, PosterGoes
    <3> QED
      BY <1>2, <1>3, <3>1 DEF PosterType, Places
  <2>2. TypeOK'
    BY <1>1, <2>1, Types, TypesAfter DEF EnqueueRow
  <2>3. Counted'
    BY <1>3, <2>1, CountedAway DEF EnqueueRow
  <2>4. FeedInv'
    BY <1>1, <1>2, <2>1, Types DEF EnqueueRow, FeedInv, Kind, Carrying
  <2> QED
    BY <2>1, <2>2, <2>3, <2>4, WorkKept, DrainedKept DEF EnqueueRow, OnlyTheBlockedAreDropped
<1>4. CASE poster'.at = "rows"
  <2>1. PICK photo \in BOOLEAN :
        /\ cast[poster.item] = NoCast
        /\ poster' = [poster EXCEPT !.at = "rows", !.recipients = active]
        /\ cast' = [cast EXCEPT ![poster.item] =
                       [NoCast EXCEPT !.status = "PENDING", !.total = Cardinality(active), !.photo = photo]]
        /\ order' = Append(order, poster.item)
    <3>1. (Kind # "showcase") \in BOOLEAN
      OBVIOUS
    <3> QED
      BY <1>2, <1>4, <3>1 DEF EnqueueRow, EnqueueFails, PosterGoes, PosterType
  <2>2. Cardinality(active) \in 0 .. Cardinality(User)
    BY <1>2, Recipients
  <2>3. poster' \in PosterType /\ poster'.item = poster.item /\ poster'.recipients = active /\ poster'.todo = poster.todo
    BY <1>2, <2>1 DEF PosterType, Places
  <2>4. order' \in Seq(Item)
    BY <1>2, <2>1
  <2>5. /\ cast' \in [Item -> CastType]
        /\ cast'[poster.item].status = "PENDING" /\ cast'[poster.item].total = Cardinality(active)
        /\ \A i \in Item \ {poster.item} : cast'[i] = cast[i]
    BY <1>2, <2>1, <2>2 DEF NoCast, CastType, Open
  <2>6. cast[poster.item].status = "none"
    BY <2>1 DEF NoCast
  <2>7. TypeOK'
    BY <1>1, <2>3, <2>4, <2>5, Types, TypesAfter DEF EnqueueRow
  <2>8. Rows(poster.item) = {} /\ \A i \in Item : Rows(i)' = Rows(i)
    BY <1>2, <2>6 DEF Counted, EnqueueRow, Rows
  <2>9. Counted'
    BY <1>2, <1>4, <2>3, <2>5, <2>6, <2>8 DEF Counted, Completed
  <2>10. FeedInv'
    BY <1>1, <1>2, <1>4, <2>3, Types DEF EnqueueRow, FeedInv, Kind, Carrying
  <2>11. \A i \in Item : /\ cast[i].status # "none" => cast'[i] = cast[i]
                         /\ cast'[i].status \in Completed => cast[i].status \in Completed
    BY <2>5, <2>6 DEF Completed
  <2> QED
    BY <2>7, <2>9, <2>10, <2>11, WorkKept, DrainedKept DEF EnqueueRow, OnlyTheBlockedAreDropped
<1> QED
  BY <1>3, <1>4

LEMMA EnqueueRowsStep ==
    ASSUME DeliveryInv, EnqueueRows PROVE DeliveryInv'
<1> USE DEF DeliveryInv
<1>1. spent' \in 0 .. scenario.failures /\ spent' \in Nat /\ spent' >= spent
  BY Spends DEF EnqueueRows
<1>2. /\ poster \in PosterType /\ poster.item \in Item /\ poster.recipients \subseteq User
      /\ poster.at = "rows" /\ row \in [Item -> [User -> RowType]] /\ MaxAttempts \in Nat /\ MaxAttempts > 0
      /\ spent \in Nat
  BY Types DEF PosterType, EnqueueRows
\* It goes on, or writes the rows of a chunk.
<1>3. CASE UNCHANGED row /\ \E at \in {"next", "mark"} :
             poster' = [poster EXCEPT !.at = at] /\ (Kind = "network" => at = "mark")
  <2>1. /\ poster' \in PosterType /\ poster'.todo = poster.todo /\ poster'.item = poster.item
        /\ poster'.at \in {"next", "mark"} /\ (Kind = "network" => poster'.at = "mark")
    BY <1>2, <1>3 DEF PosterType, Places
  <2>2. TypeOK'
    BY <1>1, <1>3, <2>1, Types, TypesAfter DEF EnqueueRows
  <2>3. Counted'
    BY <1>3, <2>1, CountedAway DEF EnqueueRows
  <2>4. FeedInv'
    BY <1>1, <1>2, <2>1, Types DEF EnqueueRows, FeedInv, Kind, Carrying
  <2> QED
    BY <1>3, <2>2, <2>3, <2>4, WorkKept, DrainedKept DEF EnqueueRows, OnlyTheBlockedAreDropped
<1>4. ASSUME NEW chunk \in SUBSET poster.recipients, poster.recipients # {},
             poster' = [poster EXCEPT !.recipients = @ \ chunk],
             row' = [row EXCEPT ![poster.item] =
                        [u \in User |-> IF u \in chunk THEN [NoRow EXCEPT !.status = "PENDING"] ELSE @[u]]]
      PROVE DeliveryInv'
  <2>1. /\ poster' \in PosterType /\ poster'.todo = poster.todo /\ poster'.item = poster.item
        /\ poster'.at = "rows" /\ poster'.recipients = poster.recipients \ chunk
    BY <1>2, <1>4 DEF PosterType, Places
  <2>2. PICK new \in RowType : new.status = "PENDING" /\ new.attempts = 0 /\ new = [NoRow EXCEPT !.status = "PENDING"]
    <3>1. NoRow \in RowType /\ NoRow.attempts = 0
      BY <1>2 DEF RowType, NoRow
    <3> QED
      BY <3>1 DEF RowType
  <2>3. /\ row' \in [Item -> [User -> RowType]]
        /\ \A i \in Item, u \in User :
              IF i = poster.item /\ u \in chunk THEN row'[i][u] = new ELSE row'[i][u] = row[i][u]
    BY <1>2, <1>4, <2>2
  <2>4. TypeOK'
    BY <1>1, <2>1, <2>3, Types, TypesAfter DEF EnqueueRows
  <2>5. /\ Rows(poster.item)' = Rows(poster.item) \cup chunk
        /\ \A i \in Item \ {poster.item} : Rows(i)' = Rows(i)
    <3>1. new.status # "none" /\ poster.item \in Item /\ chunk \subseteq User
      BY <1>2, <1>4, <2>2
    <3>2. \A i \in Item \ {poster.item}, u \in User : row'[i][u] = row[i][u]
      BY <2>3
    <3>3. \A u \in User : row'[poster.item][u] = (IF u \in chunk THEN new ELSE row[poster.item][u])
      BY <2>3, <3>1
    <3>4. Rows(poster.item)' = {u \in User : row'[poster.item][u].status # "none"}
      BY <2>1 DEF Rows
    <3>5. Rows(poster.item)' = Rows(poster.item) \cup chunk
      BY <3>1, <3>3, <3>4 DEF Rows
    <3> QED
      BY <3>2, <3>5 DEF Rows
  <2>6. Counted'
    <3>1. Rows(poster.item)' \cup poster'.recipients = Rows(poster.item) \cup poster.recipients
      BY <2>1, <2>5
    <3>2. Rows(poster.item)' \cap poster'.recipients = {}
      BY <1>2, <2>1, <2>5 DEF Counted
    <3>3. cast[poster.item].status # "none"
      BY <1>2 DEF Counted
    <3>4. \A i \in Item : cast'[i].status = "none" => Rows(i)' = {}
      BY <2>5, <3>3 DEF Counted, EnqueueRows
    <3> QED
      BY <1>2, <2>1, <3>1, <3>2, <3>3, <3>4 DEF Counted, EnqueueRows
  <2>7. FeedInv'
    BY <1>1, <1>2, <2>1, Types, SMTT(30) DEF EnqueueRows, FeedInv, Kind, Carrying
  <2>8. AtWork'
    <3>1. worker \in WorkerType /\ worker.item \in Item /\ worker.batch \subseteq User
      BY Types DEF WorkerType
    <3>2. ASSUME NEW i \in Item, NEW u \in User
          PROVE
            /\ row[i][u].status # "none" => row'[i][u].status # "none"
            /\ row[i][u].attempts < MaxAttempts => row'[i][u].attempts < MaxAttempts
            /\ row'[i][u].status = "PENDING" =>
                 row[i][u].status = "PENDING" \/ row'[i][u].attempts < MaxAttempts
      <4>1. CASE i = poster.item /\ u \in chunk
        BY <1>2, <2>2, <2>3, <4>1
      <4>2. CASE ~ (i = poster.item /\ u \in chunk)
        BY <2>3, <4>2
      <4> QED
        BY <4>1, <4>2
    <3> QED
      BY <3>1, <3>2 DEF AtWork, EnqueueRows, Now
  <2>9. CompletedIsDrained'
    <3>1. ASSUME cast[poster.item].status \in Completed, poster.item \notin early PROVE FALSE
      BY <1>2, <1>4, <3>1 DEF Counted
    <3>2. \A i \in Item \ {poster.item} : Having(i, {"PENDING"})' = Having(i, {"PENDING"})
      BY <2>3 DEF Having
    <3> QED
      BY <3>1, <3>2 DEF EnqueueRows, CompletedIsDrained
  <2> QED
    BY <2>4, <2>6, <2>7, <2>8, <2>9 DEF EnqueueRows, OnlyTheBlockedAreDropped
<1> QED
  <2>1. First(poster.recipients, Chunk) \subseteq poster.recipients
    BY DEF First
  <2> QED
    BY <1>3, <1>4, <2>1 DEF EnqueueRows, EnqueueFails, PosterGoes

LEMMA MarkStep ==
    ASSUME DeliveryInv, Mark PROVE DeliveryInv'
<1> USE DEF DeliveryInv
<1>1. /\ spent' \in 0 .. scenario.failures /\ spent' \in Nat /\ spent' >= spent
      /\ Failure => spent' = spent + 1
  BY Spends DEF Mark, Failure
<1>2. /\ poster \in PosterType /\ poster.item \in Item /\ poster.at = "mark" /\ spent \in Nat
      /\ marked \subseteq Item /\ channel \in [Item -> 0 .. MaxPosts] /\ MaxPosts \in Nat
  BY Types DEF PosterType, Mark
<1>3. /\ poster' \in PosterType /\ poster'.todo = poster.todo /\ poster'.item = poster.item
      /\ poster'.at = "next"
  BY <1>2 DEF Mark, PosterGoes, PosterType, Places
<1>4. marked' = marked \cup {poster.item} \/ (marked' = marked /\ Failure)
  BY DEF Mark
<1>5. TypeOK'
  BY <1>1, <1>2, <1>3, <1>4, Types, TypesAfter DEF Mark
<1>6. Counted'
  BY <1>3, CountedAway DEF Mark
<1>7. FeedInv'
  <2> SUFFICES ASSUME Kind = "network" PROVE FeedInv'
    BY DEF FeedInv, Kind, Mark
  <2>1. \A i \in Item : channel[i] \in Nat
    BY <1>2
  <2>2. \A i \in Item \ marked' : channel'[i] <= spent'
    BY <1>1, <1>2, <1>4, <2>1 DEF FeedInv, Mark
  <2> QED
    BY <1>1, <1>2, <1>3, <1>4, <2>1, <2>2 DEF Mark, FeedInv, Carrying
<1> QED
  BY <1>5, <1>6, <1>7, WorkKept, DrainedKept DEF Mark, OnlyTheBlockedAreDropped

-----------------------------------------------------------------------------
\* --- The worker -------------------------------------------------------------

\* Rows are neither made nor lost; one that is to be sent again has an attempt
\* left and belongs to a broadcast that is not complete.
RowsFine ==
    /\ row' \in [Item -> [User -> RowType]]
    /\ \A i \in Item, u \in User :
          /\ row'[i][u].status = "none" <=> row[i][u].status = "none"
          /\ row'[i][u].status = "PENDING" =>
               /\ row'[i][u].attempts < MaxAttempts
               /\ row[i][u].status = "PENDING" \/ cast[i].status \notin Completed

\* No broadcast begins or is completed.
CastsFine ==
    /\ cast' \in [Item -> CastType]
    /\ \A i \in Item : /\ cast'[i].total = cast[i].total
                       /\ cast'[i].status = "none" <=> cast[i].status = "none"
                       /\ cast'[i].status \in Completed <=> cast[i].status \in Completed

\* A step of the worker that completes nothing keeps the invariant.
LEMMA WorkerKeeps ==
    ASSUME DeliveryInv, UNCHANGED <<scenario, poster, channel, marked, order, early>>,
           spent' \in 0 .. scenario.failures, spent' \in Nat, spent' >= spent,
           worker' \in WorkerType, RowsFine, CastsFine, AtWork',
           copies' \in [Item -> [User -> 0 .. MaxPosts]],
           active' \subseteq User, User \ active' \subseteq scenario.blocked
    PROVE  DeliveryInv'
<1> USE DEF DeliveryInv
<1>1. TypeOK'
  BY Types, TypesAfter DEF RowsFine, CastsFine
<1>2. \A i \in Item : Rows(i)' = Rows(i)
  BY DEF Rows, RowsFine
<1>3. Counted'
  BY <1>2, CountedKept DEF CastsFine
<1>4. CompletedIsDrained'
  BY DEF CompletedIsDrained, Having, RowsFine, CastsFine
<1> QED
  BY <1>1, <1>3, <1>4, FeedKept DEF OnlyTheBlockedAreDropped

\* The rows and the broadcasts as they are.
LEMMA SameRows ==
    ASSUME TypeOK, AtWork, UNCHANGED row
    PROVE  RowsFine
  BY Types DEF RowsFine, AtWork

LEMMA SameCasts ==
    ASSUME TypeOK, UNCHANGED cast
    PROVE  CastsFine
  BY Types DEF CastsFine

\* The worker writes the row it is at.
LEMMA RowSet ==
    ASSUME TypeOK, AtWork, worker.at \in Busy, NEW r \in RowType, RowBecomes(Now, r),
           r.status # "none", r.status = "PENDING" => r.attempts < MaxAttempts
    PROVE  /\ RowsFine /\ row'[worker.item][Now] = r
           /\ \A u \in User : u # Now => row'[worker.item][u] = row[worker.item][u]
<1>1. /\ row \in [Item -> [User -> RowType]] /\ Now \in User /\ worker.item \in Item
      /\ row[worker.item][Now].status # "none" /\ cast[worker.item].status = "IN_PROGRESS"
  BY NowIsThere, Types
<1>2. row' = [row EXCEPT ![worker.item][Now] = r]
  BY DEF RowBecomes
<1>3. ASSUME NEW i \in Item, NEW u \in User
      PROVE  row'[i][u] = IF i = worker.item /\ u = Now THEN r ELSE row[i][u]
  BY <1>1, <1>2
<1>4. row' \in [Item -> [User -> RowType]]
  BY <1>1, <1>2
<1>5. ASSUME NEW i \in Item, NEW u \in User
      PROVE  /\ row'[i][u].status = "none" <=> row[i][u].status = "none"
             /\ row'[i][u].status = "PENDING" =>
                  /\ row'[i][u].attempts < MaxAttempts
                  /\ row[i][u].status = "PENDING" \/ cast[i].status \notin Completed
  <2>1. CASE i = worker.item /\ u = Now
    BY <1>1, <1>3, <2>1 DEF Completed
  <2>2. CASE ~ (i = worker.item /\ u = Now)
    BY <1>3, <2>2 DEF AtWork
  <2> QED
    BY <2>1, <2>2
<1> QED
  BY <1>1, <1>3, <1>4, <1>5 DEF RowsFine

\* The worker writes the counts of its broadcast.
LEMMA CastSet ==
    ASSUME TypeOK, AtWork, worker.at \in Busy, NEW c \in CastType, CastBecomes(c),
           c.status = cast[worker.item].status, c.total = cast[worker.item].total
    PROVE  CastsFine /\ cast'[worker.item].status = "IN_PROGRESS"
<1>1. cast \in [Item -> CastType] /\ worker.item \in Item /\ cast[worker.item].status = "IN_PROGRESS"
  BY NowIsThere, Types
<1>2. cast' = [cast EXCEPT ![worker.item] = c]
  BY DEF CastBecomes
<1> QED
  BY <1>1, <1>2 DEF CastsFine

\* The worker goes on with the row it is at.
LEMMA SameRow ==
    ASSUME TypeOK, AtWork, worker.at \in Busy, UNCHANGED scenario, RowsFine,
           worker' \in WorkerType, worker'.at \in Busy,
           worker'.item = worker.item, worker'.batch = worker.batch,
           \A u \in User : u # Now => row'[worker.item][u] = row[worker.item][u],
           worker'.at = "tally" \/ row'[worker.item][Now].attempts < MaxAttempts,
           worker'.at \in {"permanent", "deactivate"} => Now \in scenario.blocked,
           cast'[worker.item].status = "IN_PROGRESS"
    PROVE  AtWork'
<1>1. /\ worker.batch \subseteq User /\ worker.batch # {} /\ Now' = Now /\ Now \in User
      /\ worker.item \in Item
  BY Types, NowIsThere DEF AtWork, WorkerType, Now
<1>2. \A u \in worker.batch : row[worker.item][u].status # "none" /\ (u # Now => row[worker.item][u].attempts < MaxAttempts)
  BY DEF AtWork
<1> QED
  BY <1>1, <1>2 DEF AtWork, RowsFine

\* The worker is done with the row it is at.
LEMMA NextRow ==
    ASSUME TypeOK, AtWork, worker.at \in Busy, UNCHANGED scenario, RowsFine, Onward,
           \A u \in User : u # Now => row'[worker.item][u] = row[worker.item][u],
           cast'[worker.item].status = "IN_PROGRESS"
    PROVE  worker' \in WorkerType /\ AtWork'
<1>1. /\ worker \in WorkerType /\ worker.batch \subseteq User /\ Now \in worker.batch /\ worker.item \in Item
  BY Types, NowIsThere DEF WorkerType
<1>2. PICK at \in {"select", "send"} :
        /\ worker' = [worker EXCEPT !.batch = @ \ {Now}, !.at = at]
        /\ worker.batch = {Now} <=> at = "select"
  BY DEF Onward
<1>3. /\ worker' \in WorkerType /\ worker'.item = worker.item /\ worker'.batch = worker.batch \ {Now}
      /\ worker'.at = at
  BY <1>1, <1>2 DEF WorkerType, WorkerPlaces
<1>4. \A u \in worker.batch \ {Now} : row[worker.item][u].status # "none" /\ row[worker.item][u].attempts < MaxAttempts
  BY DEF AtWork
<1> QED
  BY <1>1, <1>2, <1>3, <1>4 DEF AtWork, RowsFine, Busy

\* The tick ends, its work undone or finished.
LEMMA TickEnds ==
    ASSUME TypeOK, AtWork, UNCHANGED scenario, RowsFine, worker' = WorkerIdle
    PROVE  worker' \in WorkerType /\ AtWork'
<1>1. Min(Item) \in Item
  BY MinIn, BroadcastAssumption
<1> QED
  BY <1>1 DEF WorkerIdle, WorkerType, WorkerPlaces, AtWork, Busy, RowsFine

LEMMA TakeStep ==
    ASSUME DeliveryInv, Take PROVE DeliveryInv'
<1> USE DEF DeliveryInv
<1>1. order \in Seq(Item) /\ cast \in [Item -> CastType] /\ worker \in WorkerType /\ spent \in 0 .. scenario.failures
  BY Types
<1>2. PICK i \in Item : /\ cast[i].status \in Open
                        /\ worker' = [WorkerIdle EXCEPT !.at = "select", !.item = i, !.photo = cast[i].photo]
                        /\ cast' = [cast EXCEPT ![i].status = "IN_PROGRESS"]
  <2>1. PICK n \in DOMAIN order :
           /\ cast[order[n]].status \in Open
           /\ worker' = [WorkerIdle EXCEPT !.at = "select", !.item = order[n], !.photo = cast[order[n]].photo]
           /\ cast' = [cast EXCEPT ![order[n]].status = "IN_PROGRESS"]
    BY DEF Take
  <2>2. order[n] \in Item
    BY <1>1, <2>1
  <2> QED
    BY <2>1, <2>2
<1>3. worker' \in WorkerType /\ worker'.at = "select" /\ worker'.item = i
  BY <1>1, <1>2 DEF WorkerIdle, WorkerType, WorkerPlaces, CastType
<1>4. CastsFine /\ cast'[i].status = "IN_PROGRESS"
  BY <1>1, <1>2 DEF CastsFine, CastType, Open, Completed
<1>5. RowsFine
  BY SameRows DEF Take
<1>6. AtWork'
  BY <1>3, <1>4, <1>5 DEF AtWork, Busy, RowsFine
<1> QED
  BY <1>1, <1>3, <1>4, <1>5, <1>6, WorkerKeeps, Types DEF Take, OnlyTheBlockedAreDropped

LEMMA SelectStep ==
    ASSUME DeliveryInv, Select PROVE DeliveryInv'
<1> USE DEF DeliveryInv
<1>1. /\ worker \in WorkerType /\ worker.item \in Item /\ spent \in 0 .. scenario.failures
      /\ cast[worker.item].status = "IN_PROGRESS"
  BY Types DEF WorkerType, Select, AtWork
<1>2. RowsFine /\ CastsFine
  BY SameRows, SameCasts DEF Select
<1>3. \/ worker' = [worker EXCEPT !.at = "finish"]
      \/ \E eligible \in SUBSET Having(worker.item, {"PENDING"}) :
            eligible # {} /\ worker' = [worker EXCEPT !.at = "send", !.batch = eligible]
  BY DEF Select, First
<1>4. CASE worker' = [worker EXCEPT !.at = "finish"]
  <2>1. worker' \in WorkerType /\ worker'.at = "finish" /\ worker'.item = worker.item
    BY <1>1, <1>4 DEF WorkerType, WorkerPlaces
  <2>2. AtWork'
    BY <1>1, <1>2, <2>1 DEF Select, AtWork, Busy
  <2> QED
    BY <1>1, <1>2, <2>1, <2>2, WorkerKeeps, Types DEF Select, OnlyTheBlockedAreDropped
<1>5. ASSUME NEW eligible \in SUBSET Having(worker.item, {"PENDING"}), eligible # {},
             worker' = [worker EXCEPT !.at = "send", !.batch = eligible]
      PROVE DeliveryInv'
  <2>1. eligible \subseteq User /\ \A u \in eligible : row[worker.item][u].status = "PENDING"
    BY DEF Having
  <2>2. /\ worker' \in WorkerType /\ worker'.at = "send" /\ worker'.item = worker.item
        /\ worker'.batch = eligible
    BY <1>1, <1>5, <2>1 DEF WorkerType, WorkerPlaces
  <2>3. AtWork'
    BY <1>1, <1>2, <1>5, <2>1, <2>2 DEF Select, AtWork, Busy
  <2> QED
    BY <1>1, <1>2, <2>2, <2>3, WorkerKeeps, Types DEF Select, OnlyTheBlockedAreDropped
<1> QED
  BY <1>3, <1>4, <1>5

\* A step that moves the worker on to another place of the same row.
LEMMA Goes ==
    ASSUME TypeOK, AtWork, worker.at \in Busy, NEW at \in Busy, NEW photo \in BOOLEAN,
           WorkerGoes(at) \/ worker' = [worker EXCEPT !.at = at, !.photo = photo]
    PROVE  /\ worker' \in WorkerType /\ worker'.at = at
           /\ worker'.item = worker.item /\ worker'.batch = worker.batch
<1>1. worker \in WorkerType
  BY Types
<1>2. at \in WorkerPlaces
  BY DEF Busy, WorkerPlaces
<1> QED
  BY <1>1, <1>2 DEF WorkerGoes, WorkerType

LEMMA SendStep ==
    ASSUME DeliveryInv, Send PROVE DeliveryInv'
<1> USE DEF DeliveryInv
<1>1. spent' \in 0 .. scenario.failures /\ spent' \in Nat /\ spent' >= spent
  BY Spends DEF Send
<1>2. /\ worker.at \in Busy /\ worker.item \in Item /\ Now \in User
      /\ cast[worker.item].status = "IN_PROGRESS" /\ row[worker.item][Now].attempts < MaxAttempts
  BY NowIsThere DEF Send, Busy
<1>3. RowsFine /\ CastsFine
  BY SameRows, SameCasts DEF Send
<1>4. PICK at \in {"sent", "photo", "permanent", "transient"} :
         WorkerGoes(at) /\ (at = "permanent" => Now \in scenario.blocked)
  BY DEF Send
<1>5. at \in Busy
  BY DEF Busy
<1>6. worker' \in WorkerType /\ worker'.at = at /\ worker'.item = worker.item /\ worker'.batch = worker.batch
  BY <1>2, <1>4, <1>5, Goes
<1>7. AtWork'
  BY <1>2, <1>3, <1>4, <1>5, <1>6, SameRow DEF Send
<1>8. copies' \in [Item -> [User -> 0 .. MaxPosts]]
  <2>1. copies \in [Item -> [User -> 0 .. MaxPosts]] /\ MaxPosts \in Nat
    BY Types
  <2>2. copies' = copies \/ copies' = [copies EXCEPT ![worker.item][Now] = Capped(@)]
    BY DEF Send
  <2>3. \A n \in 0 .. MaxPosts : Capped(n) \in 0 .. MaxPosts
    BY <2>1 DEF Capped
  <2>4. copies[worker.item] \in [User -> 0 .. MaxPosts] /\ copies[worker.item][Now] \in 0 .. MaxPosts
    BY <1>2, <2>1
  <2>5. CASE copies' = copies
    BY <2>1, <2>5
  <2>6. CASE copies' = [copies EXCEPT ![worker.item][Now] = Capped(@)]
    <3>1. PICK n \in 0 .. MaxPosts : n = Capped(copies[worker.item][Now])
      BY <2>3, <2>4
    <3>2. [copies[worker.item] EXCEPT ![Now] = n] \in [User -> 0 .. MaxPosts]
      BY <2>4
    <3>3. copies' = [copies EXCEPT ![worker.item] = [copies[worker.item] EXCEPT ![Now] = n]]
      BY <2>6, <3>1
    <3> QED
      BY <2>1, <3>2, <3>3
  <2> QED
    BY <2>2, <2>5, <2>6
<1> QED
  BY <1>1, <1>3, <1>6, <1>7, <1>8, WorkerKeeps, Types DEF Send, OnlyTheBlockedAreDropped

LEMMA SavePhotoStep ==
    ASSUME DeliveryInv, SavePhoto PROVE DeliveryInv'
<1> USE DEF DeliveryInv
<1>1. spent' \in 0 .. scenario.failures /\ spent' \in Nat /\ spent' >= spent
  BY Spends DEF SavePhoto
<1>2. /\ worker.at \in Busy /\ worker.item \in Item /\ cast[worker.item] \in CastType
      /\ cast[worker.item].status = "IN_PROGRESS" /\ row[worker.item][Now].attempts < MaxAttempts
  BY NowIsThere DEF SavePhoto, Busy
<1>3. RowsFine
  BY SameRows DEF SavePhoto
<1>4. PICK at \in {"sent", "transient"} :
         WorkerGoes(at) \/ worker' = [worker EXCEPT !.at = at, !.photo = TRUE]
  BY DEF SavePhoto
<1>5. at \in Busy
  BY DEF Busy
<1>6. worker' \in WorkerType /\ worker'.at = at /\ worker'.item = worker.item /\ worker'.batch = worker.batch
  BY <1>2, <1>4, <1>5, Goes
<1>7. CastsFine /\ cast'[worker.item].status = "IN_PROGRESS"
  <2>1. CASE UNCHANGED cast
    BY <1>2, <2>1, SameCasts
  <2>2. CASE CastBecomes([cast[worker.item] EXCEPT !.photo = TRUE])
    <3>1. PICK c : c = [cast[worker.item] EXCEPT !.photo = TRUE]
      OBVIOUS
    <3>2. c \in CastType /\ c.status = cast[worker.item].status /\ c.total = cast[worker.item].total
      BY <1>2, <3>1 DEF CastType
    <3> QED
      BY <1>2, <2>2, <3>1, <3>2, CastSet
  <2> QED
    BY <2>1, <2>2 DEF SavePhoto
<1>8. AtWork'
  BY <1>2, <1>3, <1>4, <1>5, <1>6, <1>7, SameRow DEF SavePhoto
<1> QED
  BY <1>1, <1>3, <1>6, <1>7, <1>8, WorkerKeeps, Types DEF SavePhoto, OnlyTheBlockedAreDropped

LEMMA MarkSentStep ==
    ASSUME DeliveryInv, MarkSent PROVE DeliveryInv'
<1> USE DEF DeliveryInv
<1>1. spent' \in 0 .. scenario.failures /\ spent' \in Nat /\ spent' >= spent
  BY Spends DEF MarkSent
<1>2. /\ worker.at \in Busy /\ worker.item \in Item /\ Now \in User /\ row[worker.item][Now] \in RowType
      /\ cast[worker.item].status = "IN_PROGRESS" /\ row[worker.item][Now].attempts < MaxAttempts
  BY NowIsThere DEF MarkSent, Busy
<1>3. CastsFine
  BY SameCasts DEF MarkSent
<1>4. PICK at \in {"count", "transient"} : WorkerGoes(at)
  BY DEF MarkSent
<1>5. at \in Busy
  BY DEF Busy
<1>6. worker' \in WorkerType /\ worker'.at = at /\ worker'.item = worker.item /\ worker'.batch = worker.batch
  BY <1>2, <1>4, <1>5, Goes
<1>7. /\ RowsFine /\ row'[worker.item][Now].attempts < MaxAttempts
      /\ \A u \in User : u # Now => row'[worker.item][u] = row[worker.item][u]
  <2>1. CASE UNCHANGED row
    BY <1>2, <2>1, SameRows
  <2>2. CASE RowBecomes(Now, [row[worker.item][Now] EXCEPT !.status = "SENT"])
    <3>1. PICK r : r = [row[worker.item][Now] EXCEPT !.status = "SENT"]
      OBVIOUS
    <3>2. r \in RowType /\ r.status = "SENT" /\ r.attempts = row[worker.item][Now].attempts
      BY <1>2, <3>1 DEF RowType
    <3> QED
      BY <1>2, <2>2, <3>1, <3>2, RowSet
  <2> QED
    BY <2>1, <2>2 DEF MarkSent
<1>8. AtWork'
  BY <1>2, <1>3, <1>4, <1>5, <1>6, <1>7, SameRow DEF MarkSent
<1> QED
  BY <1>1, <1>3, <1>6, <1>7, <1>8, WorkerKeeps, Types DEF MarkSent, OnlyTheBlockedAreDropped

LEMMA CountSentStep ==
    ASSUME DeliveryInv, CountSent PROVE DeliveryInv'
<1> USE DEF DeliveryInv
<1>1. spent' \in 0 .. scenario.failures /\ spent' \in Nat /\ spent' >= spent
  BY Spends DEF CountSent
<1>2. /\ worker.at \in Busy /\ worker.item \in Item /\ Now \in User /\ cast[worker.item] \in CastType
      /\ cast[worker.item].status = "IN_PROGRESS" /\ row[worker.item][Now].attempts < MaxAttempts
  BY NowIsThere DEF CountSent, Busy
<1>3. RowsFine
  BY SameRows DEF CountSent
<1>4. CASE Onward /\ CastBecomes([cast[worker.item] EXCEPT !.sent = @ + 1])
  <2>1. PICK c : c = [cast[worker.item] EXCEPT !.sent = @ + 1]
    OBVIOUS
  <2>2. c \in CastType /\ c.status = cast[worker.item].status /\ c.total = cast[worker.item].total
    BY <1>2, <2>1 DEF CastType
  <2>3. CastsFine /\ cast'[worker.item].status = "IN_PROGRESS"
    BY <1>2, <1>4, <2>1, <2>2, CastSet
  <2>4. worker' \in WorkerType /\ AtWork'
    BY <1>2, <1>3, <1>4, <2>3, NextRow DEF CountSent
  <2> QED
    BY <1>1, <1>3, <2>3, <2>4, WorkerKeeps, Types DEF CountSent, OnlyTheBlockedAreDropped
<1>5. CASE WorkerGoes("transient") /\ UNCHANGED cast
  <2>1. "transient" \in Busy
    BY DEF Busy
  <2>2. /\ worker' \in WorkerType /\ worker'.at = "transient"
        /\ worker'.item = worker.item /\ worker'.batch = worker.batch
    BY <1>2, <1>5, <2>1, Goes
  <2>3. CastsFine
    BY <1>5, SameCasts
  <2>4. AtWork'
    BY <1>2, <1>3, <1>5, <2>1, <2>2, SameRow DEF CountSent
  <2> QED
    BY <1>1, <1>3, <2>2, <2>3, <2>4, WorkerKeeps, Types DEF CountSent, OnlyTheBlockedAreDropped
<1> QED
  BY <1>4, <1>5 DEF CountSent

LEMMA TransientStep ==
    ASSUME DeliveryInv, Transient PROVE DeliveryInv'
<1> USE DEF DeliveryInv
<1>1. spent' \in 0 .. scenario.failures /\ spent' \in Nat /\ spent' >= spent
  BY Spends DEF Transient
<1>2. /\ worker.at \in Busy /\ worker.item \in Item /\ Now \in User /\ row[worker.item][Now] \in RowType
      /\ cast[worker.item].status = "IN_PROGRESS" /\ row[worker.item][Now].attempts < MaxAttempts
  BY NowIsThere DEF Transient, Busy
<1>3. CastsFine /\ cast'[worker.item].status = "IN_PROGRESS"
  BY <1>2, SameCasts DEF Transient
<1>4. CASE TickFails /\ UNCHANGED row
  <2>1. RowsFine
    BY <1>4, SameRows
  <2>2. worker' \in WorkerType /\ AtWork'
    BY <1>4, <2>1, TickEnds DEF Transient, TickFails
  <2> QED
    BY <1>1, <1>3, <2>1, <2>2, WorkerKeeps, Types DEF Transient, OnlyTheBlockedAreDropped
<1>5. ASSUME NEW terminal \in BOOLEAN, NEW attempts, attempts = row[worker.item][Now].attempts + 1,
             terminal <=> attempts >= MaxAttempts,
             RowBecomes(Now, [status |-> IF terminal THEN "FAILED_TEMP" ELSE "PENDING",
                              attempts |-> attempts, resting |-> ~terminal]),
             IF terminal THEN WorkerGoes("tally") ELSE Onward
      PROVE DeliveryInv'
  <2>1. attempts \in 0 .. MaxAttempts /\ (~terminal => attempts < MaxAttempts)
    BY <1>2, <1>5, Types DEF RowType
  <2>2. PICK r \in RowType : /\ RowBecomes(Now, r) /\ r.status \in {"FAILED_TEMP", "PENDING"}
                             /\ r.status = "PENDING" => r.attempts < MaxAttempts
    <3>1. CASE terminal
      <4>1. RowBecomes(Now, [status |-> "FAILED_TEMP", attempts |-> attempts, resting |-> FALSE])
        BY <1>5, <3>1
      <4>2. [status |-> "FAILED_TEMP", attempts |-> attempts, resting |-> FALSE] \in RowType
        BY <2>1 DEF RowType
      <4> QED
        BY <4>1, <4>2
    <3>2. CASE ~terminal
      <4>1. RowBecomes(Now, [status |-> "PENDING", attempts |-> attempts, resting |-> TRUE])
        BY <1>5, <3>2
      <4>2. [status |-> "PENDING", attempts |-> attempts, resting |-> TRUE] \in RowType
        BY <2>1 DEF RowType
      <4> QED
        BY <2>1, <3>2, <4>1, <4>2
    <3> QED
      BY <3>1, <3>2
  <2>3. RowsFine /\ \A u \in User : u # Now => row'[worker.item][u] = row[worker.item][u]
    BY <1>2, <2>2, RowSet
  <2>4. worker' \in WorkerType /\ AtWork'
    <3>1. CASE terminal
      <4>1. "tally" \in Busy
        BY DEF Busy
      <4>2. /\ worker' \in WorkerType /\ worker'.at = "tally"
            /\ worker'.item = worker.item /\ worker'.batch = worker.batch
        BY <1>2, <1>5, <3>1, <4>1, Goes
      <4> QED
        BY <1>2, <1>3, <2>3, <4>1, <4>2, SameRow DEF Transient
    <3>2. CASE ~terminal
      BY <1>2, <1>3, <1>5, <2>3, <3>2, NextRow DEF Transient
    <3> QED
      BY <3>1, <3>2
  <2> QED
    BY <1>1, <1>3, <2>3, <2>4, WorkerKeeps, Types DEF Transient, OnlyTheBlockedAreDropped
<1> QED
  <2>1. (row[worker.item][Now].attempts + 1 >= MaxAttempts) \in BOOLEAN
    OBVIOUS
  <2> QED
    BY <1>4, <1>5, <2>1 DEF Transient

LEMMA PermanentStep ==
    ASSUME DeliveryInv, Permanent PROVE DeliveryInv'
<1> USE DEF DeliveryInv
<1>1. spent' \in 0 .. scenario.failures /\ spent' \in Nat /\ spent' >= spent
  BY Spends DEF Permanent
<1>2. /\ worker.at \in Busy /\ worker.item \in Item /\ Now \in User /\ row[worker.item][Now] \in RowType
      /\ cast[worker.item].status = "IN_PROGRESS" /\ row[worker.item][Now].attempts < MaxAttempts
      /\ Now \in scenario.blocked
  BY NowIsThere DEF Permanent, Busy, AtWork
<1>3. CastsFine /\ cast'[worker.item].status = "IN_PROGRESS"
  BY <1>2, SameCasts DEF Permanent
<1>4. CASE TickFails /\ UNCHANGED row
  <2>1. RowsFine
    BY <1>4, SameRows
  <2>2. worker' \in WorkerType /\ AtWork'
    BY <1>4, <2>1, TickEnds DEF Permanent, TickFails
  <2> QED
    BY <1>1, <1>3, <2>1, <2>2, WorkerKeeps, Types DEF Permanent, OnlyTheBlockedAreDropped
<1>5. CASE WorkerGoes("deactivate") /\ RowBecomes(Now, [row[worker.item][Now] EXCEPT !.status = "FAILED_PERMANENT"])
  <2>1. PICK r : r = [row[worker.item][Now] EXCEPT !.status = "FAILED_PERMANENT"]
    OBVIOUS
  <2>2. r \in RowType /\ r.status = "FAILED_PERMANENT" /\ r.attempts = row[worker.item][Now].attempts
    BY <1>2, <2>1 DEF RowType
  <2>3. /\ RowsFine /\ row'[worker.item][Now] = r
        /\ \A u \in User : u # Now => row'[worker.item][u] = row[worker.item][u]
    BY <1>2, <1>5, <2>1, <2>2, RowSet
  <2>4. "deactivate" \in Busy
    BY DEF Busy
  <2>5. /\ worker' \in WorkerType /\ worker'.at = "deactivate"
        /\ worker'.item = worker.item /\ worker'.batch = worker.batch
    BY <1>2, <1>5, <2>4, Goes
  <2>6. AtWork'
    BY <1>2, <1>3, <2>2, <2>3, <2>4, <2>5, SameRow DEF Permanent
  <2> QED
    BY <1>1, <1>3, <2>3, <2>5, <2>6, WorkerKeeps, Types DEF Permanent, OnlyTheBlockedAreDropped
<1> QED
  BY <1>4, <1>5 DEF Permanent

LEMMA DeactivateStep ==
    ASSUME DeliveryInv, Deactivate PROVE DeliveryInv'
<1> USE DEF DeliveryInv
<1>1. spent' \in 0 .. scenario.failures /\ spent' \in Nat /\ spent' >= spent
  BY Spends DEF Deactivate
<1>2. /\ worker.at \in Busy /\ worker.item \in Item /\ Now \in User
      /\ cast[worker.item].status = "IN_PROGRESS" /\ row[worker.item][Now].attempts < MaxAttempts
      /\ Now \in scenario.blocked
  BY NowIsThere DEF Deactivate, Busy, AtWork
<1>3. RowsFine /\ CastsFine /\ cast'[worker.item].status = "IN_PROGRESS"
  BY <1>2, SameRows, SameCasts DEF Deactivate
<1>4. active' \subseteq User /\ User \ active' \subseteq scenario.blocked
  BY <1>2, Types DEF Deactivate, OnlyTheBlockedAreDropped
<1>5. worker' \in WorkerType /\ AtWork'
  <2>1. CASE TickFails
    BY <1>3, <2>1, TickEnds DEF Deactivate, TickFails
  <2>2. CASE WorkerGoes("tally")
    <3>1. "tally" \in Busy
      BY DEF Busy
    <3>2. /\ worker' \in WorkerType /\ worker'.at = "tally"
          /\ worker'.item = worker.item /\ worker'.batch = worker.batch
      BY <1>2, <2>2, <3>1, Goes
    <3> QED
      BY <1>2, <1>3, <3>1, <3>2, SameRow DEF Deactivate
  <2> QED
    BY <2>1, <2>2 DEF Deactivate
<1> QED
  BY <1>1, <1>3, <1>4, <1>5, WorkerKeeps, Types DEF Deactivate

LEMMA TallyStep ==
    ASSUME DeliveryInv, Tally PROVE DeliveryInv'
<1> USE DEF DeliveryInv
<1>1. spent' \in 0 .. scenario.failures /\ spent' \in Nat /\ spent' >= spent
  BY Spends DEF Tally
<1>2. /\ worker.at \in Busy /\ worker.item \in Item /\ Now \in User /\ cast[worker.item] \in CastType
      /\ cast[worker.item].status = "IN_PROGRESS"
  BY NowIsThere DEF Tally, Busy
<1>3. RowsFine
  BY SameRows DEF Tally
<1>4. CASE TickFails /\ UNCHANGED cast
  <2>1. CastsFine
    BY <1>4, SameCasts
  <2>2. worker' \in WorkerType /\ AtWork'
    BY <1>3, <1>4, TickEnds DEF Tally, TickFails
  <2> QED
    BY <1>1, <1>3, <2>1, <2>2, WorkerKeeps, Types DEF Tally, OnlyTheBlockedAreDropped
<1>5. ASSUME Onward, NEW c \in CastType, CastBecomes(c),
             c.status = cast[worker.item].status, c.total = cast[worker.item].total
      PROVE DeliveryInv'
  <2>1. CastsFine /\ cast'[worker.item].status = "IN_PROGRESS"
    BY <1>2, <1>5, CastSet
  <2>2. worker' \in WorkerType /\ AtWork'
    BY <1>2, <1>3, <1>5, <2>1, NextRow DEF Tally
  <2> QED
    BY <1>1, <1>3, <2>1, <2>2, WorkerKeeps, Types DEF Tally, OnlyTheBlockedAreDropped
<1>6. \A c \in {[cast[worker.item] EXCEPT !.temp = @ + 1], [cast[worker.item] EXCEPT !.permanent = @ + 1]} :
         c \in CastType /\ c.status = cast[worker.item].status /\ c.total = cast[worker.item].total
  BY <1>2 DEF CastType
<1> QED
  BY <1>4, <1>5, <1>6 DEF Tally

\* The broadcast is complete once all of its rows are sent or given up.
LEMMA FinishStep ==
    ASSUME DeliveryInv, Finish PROVE DeliveryInv'
<1> USE DEF DeliveryInv
<1>1. spent' \in 0 .. scenario.failures /\ spent' \in Nat /\ spent' >= spent
  BY Spends DEF Finish
<1>2. /\ worker.item \in Item /\ cast \in [Item -> CastType] /\ early \subseteq Item
      /\ cast[worker.item].status = "IN_PROGRESS"
  BY Types DEF WorkerType, Finish, AtWork
<1>3. RowsFine
  BY SameRows DEF Finish
<1>4. worker' \in WorkerType /\ AtWork'
  BY <1>3, TickEnds DEF Finish, TickFails
<1>5. CASE UNCHANGED <<cast, early>>
  BY <1>1, <1>3, <1>4, <1>5, SameCasts, WorkerKeeps, Types DEF Finish, OnlyTheBlockedAreDropped
<1>6. ASSUME NEW status \in Completed, Having(worker.item, {"PENDING"}) = {},
             CastBecomes([cast[worker.item] EXCEPT !.status = status]),
             early' = IF Cardinality(Rows(worker.item)) < cast[worker.item].total
                      THEN early \cup {worker.item} ELSE early
      PROVE DeliveryInv'
  <2>1. /\ cast' \in [Item -> CastType] /\ cast'[worker.item].status = status
        /\ cast'[worker.item].total = cast[worker.item].total
        /\ \A i \in Item \ {worker.item} : cast'[i] = cast[i]
    BY <1>2, <1>6 DEF CastBecomes, CastType
  <2>2. early' \subseteq Item /\ early \subseteq early'
    BY <1>2, <1>6
  <2>3. TypeOK'
    BY <1>1, <1>4, <2>1, <2>2, Types, TypesAfter DEF Finish
  <2>4. CompletedIsDrained'
    BY <1>6, <2>1, <2>2 DEF CompletedIsDrained, Having, Finish
  <2>5. Counted'
    <3>1. \A i \in Item : Rows(i)' = Rows(i)
      BY DEF Rows, Finish
    <3>2. \A i \in Item : cast'[i].total = cast[i].total /\ (cast'[i].status = "none" => cast[i].status = "none")
                            /\ (cast[i].status # "none" => cast'[i].status # "none")
      BY <1>2, <2>1 DEF Completed
    <3>3. ASSUME poster.at = "rows", poster.item = worker.item, poster.item \notin early'
          PROVE poster.recipients = {}
      <4> DEFINE R == Rows(worker.item)
                 A == Rows(worker.item) \cup poster.recipients
      <4>1. poster.recipients \subseteq User /\ A \subseteq User /\ R \subseteq A
        BY Types DEF PosterType, Rows
      <4>2. /\ IsFiniteSet(A) /\ Cardinality(A) \in Nat /\ Cardinality(R) \in Nat
            /\ Cardinality(R) <= Cardinality(A) /\ (Cardinality(R) = Cardinality(A) => R = A)
        <5>1. IsFiniteSet(A) /\ IsFiniteSet(R)
          BY <4>1, Recipients, FS_Subset
        <5> HIDE DEF R, A
        <5> QED
          BY <4>1, <5>1, FS_Subset, FS_CardinalityType
      <4>3. cast[worker.item].total = Cardinality(A) /\ R \cap poster.recipients = {}
        BY <3>3 DEF Counted
      <4>4. ~ (Cardinality(R) < Cardinality(A))
        BY <1>2, <1>6, <3>3, <4>3
      <4>5. R = A
        <5> HIDE DEF R, A
        <5> QED
          BY <4>2, <4>4
      <4> QED
        BY <4>3, <4>5
    <3>4. ASSUME poster.at = "rows", poster.item # worker.item, poster.item \notin early',
                 cast'[poster.item].status \in Completed
          PROVE poster.recipients = {}
      BY <2>1, <2>2, <3>4, Types DEF Counted, PosterType
    <3>5. poster.item \in Item
      BY Types DEF PosterType
    <3> QED
      BY <3>1, <3>2, <3>3, <3>4, <3>5 DEF Counted, Finish
  <2>6. FeedInv'
    BY <1>1, FeedKept DEF Finish
  <2> QED
    BY <1>4, <2>3, <2>4, <2>5, <2>6 DEF Finish, OnlyTheBlockedAreDropped
<1> QED
  BY <1>5, <1>6 DEF Finish, Completed

-----------------------------------------------------------------------------
\* --- Time and stops ---------------------------------------------------------

LEMMA RestedStep ==
    ASSUME DeliveryInv, NEW i \in Item, NEW u \in User, Rested(i, u) PROVE DeliveryInv'
<1> USE DEF DeliveryInv
<1>1. row \in [Item -> [User -> RowType]] /\ row[i][u] \in RowType /\ worker \in WorkerType
      /\ spent \in 0 .. scenario.failures
  BY Types
<1>2. PICK r : r = [row[i][u] EXCEPT !.resting = FALSE]
  OBVIOUS
<1>3. r \in RowType /\ r.status = row[i][u].status /\ r.attempts = row[i][u].attempts
  BY <1>1, <1>2 DEF RowType
<1>4. row' = [row EXCEPT ![i][u] = r]
  BY <1>1, <1>2 DEF Rested, RowType
<1>5. row' \in [Item -> [User -> RowType]]
  BY <1>1, <1>3, <1>4
<1>6. ASSUME NEW j \in Item, NEW v \in User
      PROVE  row'[j][v].status = row[j][v].status /\ row'[j][v].attempts = row[j][v].attempts
  BY <1>1, <1>3, <1>4
<1>7. RowsFine
  BY <1>5, <1>6 DEF RowsFine, AtWork
<1>8. CastsFine
  BY SameCasts DEF Rested
<1>9. AtWork'
  <2>1. worker.item \in Item /\ worker.batch \subseteq User
    BY <1>1 DEF WorkerType
  <2> QED
    BY <1>6, <2>1 DEF AtWork, Rested, Now
<1> QED
  BY <1>1, <1>7, <1>8, <1>9, WorkerKeeps, Types DEF Rested, OnlyTheBlockedAreDropped

LEMMA RestartStep ==
    ASSUME DeliveryInv, Restart PROVE DeliveryInv'
<1> USE DEF DeliveryInv
<1>1. /\ spent' \in 0 .. scenario.failures /\ spent' \in Nat /\ spent' = spent + 1 /\ spent \in Nat
  BY Types DEF Restart, Failure
<1>2. Min(Item) \in Item
  BY MinIn, BroadcastAssumption
<1>3. poster' \in PosterType /\ poster'.at = "idle" /\ poster'.todo = {}
  BY <1>2 DEF Restart, PosterIdle, PosterType, Places
<1>4. RowsFine
  BY SameRows DEF Restart
<1>5. worker' \in WorkerType /\ AtWork'
  BY <1>4, TickEnds DEF Restart
<1>6. TypeOK'
  BY <1>1, <1>3, <1>5, Types, TypesAfter DEF Restart
<1>7. Counted'
  BY <1>3, CountedAway DEF Restart
<1>8. CompletedIsDrained'
  BY DrainedKept DEF Restart
<1>9. FeedInv'
  <2>1. \A i \in Item : channel[i] \in Nat
    BY Types
  <2> QED
    BY <1>1, <1>3, <2>1 DEF Restart, FeedInv, Kind, Carrying
<1> QED
  BY <1>5, <1>6, <1>7, <1>8, <1>9 DEF Restart, OnlyTheBlockedAreDropped

LEMMA DeliveriesBegin ==
    ASSUME Init PROVE DeliveryInv
<1>1. /\ Min(Item) \in Item /\ IsFiniteSet(User) /\ MaxPosts \in Nat /\ MaxAttempts \in Nat
      /\ scenario \in Scenario /\ scenario.failures \in Nat
  BY MinIn, BroadcastAssumption DEF Init
<1>2. Cardinality(User) \in Nat
  BY <1>1, FS_CardinalityType
<1>3. NoCast \in CastType /\ NoRow \in RowType /\ PosterIdle \in PosterType /\ WorkerIdle \in WorkerType
  BY <1>1, <1>2 DEF NoCast, CastType, NoRow, RowType, PosterIdle, PosterType, Places,
     WorkerIdle, WorkerType, WorkerPlaces
<1>4. TypeOK
  <2>1. /\ poster \in PosterType /\ worker \in WorkerType /\ cast \in [Item -> CastType]
        /\ row \in [Item -> [User -> RowType]] /\ order \in Seq(Item)
        /\ channel \in [Item -> 0 .. MaxPosts] /\ copies \in [Item -> [User -> 0 .. MaxPosts]]
    BY <1>1, <1>3 DEF Init
  <2> QED
    BY <1>1, <2>1 DEF Init, TypeOK, PosterType, Places, WorkerType, WorkerPlaces, CastType, RowType
<1>5. CompletedIsDrained /\ OnlyTheBlockedAreDropped
  BY DEF Init, CompletedIsDrained, OnlyTheBlockedAreDropped, NoCast, Completed
<1>6. Counted
  BY DEF Init, Counted, Rows, NoRow, PosterIdle
<1>7. AtWork
  BY DEF Init, AtWork, WorkerIdle, Busy, NoRow
<1>8. FeedInv
  BY DEF Init, FeedInv, PosterIdle, Carrying
<1> QED
  BY <1>4, <1>5, <1>6, <1>7, <1>8 DEF DeliveryInv

\* Every step of the poster, of the worker and of time keeps the invariant.
LEMMA DeliveriesStep ==
    ASSUME DeliveryInv, [Next]_vars PROVE DeliveryInv'
<1>1. CASE PosterStep
  BY <1>1, FetchStep, NextItemStep, PostStep, EnqueueRowStep, EnqueueRowsStep, MarkStep
     DEF PosterStep, ShowcasePoster, NetworkPoster, AdminPoster
<1>2. CASE WorkerStep
  BY <1>2, TakeStep, SelectStep, SendStep, SavePhotoStep, MarkSentStep, CountSentStep, TransientStep,
     PermanentStep, DeactivateStep, TallyStep, FinishStep
     DEF WorkerStep, ShowcaseWorker, NetworkWorker, AdminWorker, Worker
<1>3. CASE \E i \in Item, u \in User : Rested(i, u)
  BY <1>3, RestedStep
<1>4. CASE Restart
  BY <1>4, RestartStep
<1>5. CASE UNCHANGED vars
  <2> USE DEF DeliveryInv
  <2>1. TypeOK'
    BY <1>5, Types, TypesAfter DEF vars
  <2>2. CompletedIsDrained' /\ OnlyTheBlockedAreDropped'
    BY <1>5 DEF vars, CompletedIsDrained, OnlyTheBlockedAreDropped, Having
  <2>3. Counted'
    BY <1>5 DEF vars, Counted, Rows
  <2>4. AtWork'
    BY <1>5 DEF vars, AtWork, Now
  <2>5. FeedInv'
    BY <1>5 DEF vars, FeedInv, Kind
  <2> QED
    BY <2>1, <2>2, <2>3, <2>4, <2>5
<1> QED
  BY <1>1, <1>2, <1>3, <1>4, <1>5 DEF Next

\* The promises and the strengthening that makes them inductive hold in every
\* state of the three queues, whatever fails.
THEOREM DeliveriesKept == Spec => []DeliveryInv
<1>1. Init => DeliveryInv
  BY DeliveriesBegin
<1>2. DeliveryInv /\ [Next]_vars => DeliveryInv'
  BY DeliveriesStep
<1> QED
  BY <1>1, <1>2, PTL DEF Spec

\* A complete broadcast has no row left to send unless it was completed while
\* its rows were still being written, only a user who blocked the bot is taken
\* off the list, and the feed posts a trade once but for what failed.
THEOREM DeliveriesSound == Spec => []DeliveriesAreSound
<1>1. DeliveryInv => DeliveriesAreSound
  BY DEF DeliveryInv, DeliveriesAreSound, FeedInv, FeedPostsOnce
<1> QED
  BY <1>1, DeliveriesKept, PTL
-----------------------------------------------------------------------------
\* The posts: where a run is, and what the rows and the channel hold.
RunPlaces == {"idle", "write", "record", "send", "mark"}
RunType == [at : RunPlaces, category : Category \cup {"none"}, text : Wording \cup {0}, tries : 0 .. MaxTries - 1]
DraftType == [category : Category, text : Wording, published : BOOLEAN]
ShownType == [category : Category, text : Wording]

\* What was written is of one row, and what was shown has one.
RowsApart == \A m, n \in DOMAIN drafts : m # n => drafts[m].text # drafts[n].text
ShownWritten == \A n \in DOMAIN shown : \E k \in DOMAIN drafts : drafts[k].text = shown[n].text

\* The run in the middle of a post: what it holds is new, its row is the last.
Choosing == run.at \in {"write", "record", "send"} => run.category \in Category \ LastCategory
Holding ==
    /\ run.at = "record" => run.text \in Wording /\ ~Refused(run.text)
    /\ run.at \in {"send", "mark"} =>
           /\ Len(drafts) > 0
           /\ drafts[Len(drafts)] = [category |-> run.category, text |-> run.text, published |-> FALSE]
    /\ run.at = "send" => \A n \in DOMAIN shown : shown[n].text # run.text
    /\ run.at = "mark" => Len(shown) > 0 /\ shown[Len(shown)] = [category |-> run.category, text |-> run.text]

\* The last post shown may not be the last one known as published.
Twins == {n \in DOMAIN shown : n > 1 /\ shown[n].category = shown[n - 1].category}
Loose == shown # <<>> /\ run.at # "mark" /\ LastCategory # {shown[Len(shown)].category}
Alternating == Cardinality(Twins) + (IF Loose THEN 1 ELSE 0) <= faults

\* A post of the day: shown, under way or still to come.
DayIsPlanned ==
    plans.posts + slots + (IF run.at \in {"write", "record", "send"} THEN 1 ELSE 0) <= MaxSlots * plans.plans

PostsInv ==
    /\ PostsTypeOK /\ plans.plans <= 1 + faults
    /\ RowsApart /\ ShownWritten /\ NoTextTwice /\ Choosing /\ Holding
    /\ Alternating /\ NearRepeatsNeedFaults /\ DayIsPlanned

Apart ==
    \A n \in DOMAIN drafts, m \in Published :
        m < n /\ {drafts[m].text, drafts[n].text} \in Akin => Cardinality({k \in Published : m < k /\ k < n}) >= Recall
Unnoted == DOMAIN drafts \ Published
Underway == run.at \in {"write", "record", "send"}
-----------------------------------------------------------------------------
LEMMA PostTypes ==
    ASSUME PostsInv
    PROVE  /\ slots \in 0 .. MaxSlots /\ slots \in Nat /\ nights \in 0 .. MaxNights /\ faults \in 0 .. PostFaults /\ faults \in Nat
           /\ run \in RunType /\ drafts \in Seq(DraftType) /\ shown \in Seq(ShownType)
           /\ plans \in [plans : 1 .. 1 + PostFaults, posts : Nat] /\ plans.plans \in Nat /\ plans.posts \in Nat
           /\ plans.plans <= 1 + faults
           /\ MaxSlots \in Nat /\ MinSlots \in Nat /\ PostFaults \in Nat /\ MaxTries \in Nat /\ MaxTries > 0
           /\ Len(drafts) \in Nat /\ DOMAIN drafts = 1 .. Len(drafts) /\ (\A n \in DOMAIN drafts : drafts[n] \in DraftType)
           /\ Len(shown) \in Nat /\ DOMAIN shown = 1 .. Len(shown) /\ (\A n \in DOMAIN shown : shown[n] \in ShownType)
           /\ RowsApart /\ ShownWritten /\ NoTextTwice /\ Choosing /\ Holding /\ Alternating /\ Apart /\ DayIsPlanned
           /\ Cardinality(Unnoted) <= faults + (IF run.at \in {"send", "mark"} THEN 1 ELSE 0)
<1>1. PostsTypeOK /\ MaxSlots \in Nat /\ MinSlots \in Nat /\ PostFaults \in Nat /\ MaxTries \in Nat /\ MaxTries > 0
  BY PostsAssumption DEF PostsInv
<1>2. run \in RunType /\ drafts \in Seq(DraftType) /\ shown \in Seq(ShownType)
  BY <1>1 DEF PostsTypeOK, RunType, RunPlaces, DraftType, ShownType
<1>3. /\ Len(drafts) \in Nat /\ DOMAIN drafts = 1 .. Len(drafts) /\ (\A n \in DOMAIN drafts : drafts[n] \in DraftType)
      /\ Len(shown) \in Nat /\ DOMAIN shown = 1 .. Len(shown) /\ (\A n \in DOMAIN shown : shown[n] \in ShownType)
  BY <1>2, LenProperties, ElementOfSeq
<1>4. Apart /\ Cardinality(Unnoted) <= faults + (IF run.at \in {"send", "mark"} THEN 1 ELSE 0)
  BY DEF PostsInv, NearRepeatsNeedFaults, Apart, Unnoted
<1>5. /\ slots \in 0 .. MaxSlots /\ nights \in 0 .. MaxNights /\ faults \in 0 .. PostFaults
      /\ plans \in [plans : 1 .. 1 + PostFaults, posts : Nat]
  BY <1>1 DEF PostsTypeOK
<1>6. slots \in Nat /\ faults \in Nat /\ plans.plans \in Nat /\ plans.posts \in Nat
  BY <1>1, <1>5
<1> QED
  BY <1>1, <1>2, <1>3, <1>4, <1>5, <1>6 DEF PostsInv

LEMMA PostTypesAfter ==
    ASSUME slots' \in 0 .. MaxSlots, nights' \in 0 .. MaxNights, faults' \in 0 .. PostFaults, run' \in RunType,
           drafts' \in Seq(DraftType), shown' \in Seq(ShownType), plans' \in [plans : 1 .. 1 + PostFaults, posts : Nat]
    PROVE  PostsTypeOK'
  BY DEF PostsTypeOK, RunType, RunPlaces, DraftType, ShownType

LEMMA IndexSets ==
    ASSUME NEW n \in Nat, NEW S, S \subseteq 1 .. n
    PROVE  IsFiniteSet(S) /\ Cardinality(S) \in Nat
<1>1. IsFiniteSet(1 .. n)
  BY FS_Interval
<1>2. IsFiniteSet(S)
  BY <1>1, FS_Subset
<1> QED
  BY <1>2, FS_CardinalityType

LEMMA OneMore ==
    ASSUME NEW S, IsFiniteSet(S), NEW x
    PROVE  IsFiniteSet(S \cup {x}) /\ Cardinality(S \cup {x}) <= Cardinality(S) + 1
<1>1. PICK n \in Nat : n = Cardinality(S)
  BY FS_CardinalityType
<1>2. IsFiniteSet(S \cup {x}) /\ Cardinality(S \cup {x}) = IF x \in S THEN n ELSE n + 1
  BY <1>1, FS_AddElement, Zenon
<1> QED
  BY <1>1, <1>2

\* There is one last category.
LEMMA OneLast == ASSUME PostsInv, NEW c \in LastCategory, NEW d \in LastCategory PROVE c = d
<1>1. Published \subseteq Nat
  BY PostTypes DEF Published
<1>2. PICK m \in Published : drafts[m].category = c /\ \A j \in Published : j <= m
  BY DEF LastCategory
<1>3. PICK n \in Published : drafts[n].category = d /\ \A j \in Published : j <= n
  BY DEF LastCategory
<1>4. m <= n /\ n <= m /\ m \in Nat /\ n \in Nat
  BY <1>1, <1>2, <1>3
<1>5. m = n
  BY <1>4
<1> QED
  BY <1>2, <1>3, <1>5

\* What depends on the rows alone stays while they do.
LEMMA RowsStay ==
    ASSUME PostsInv, drafts' = drafts
    PROVE  /\ Published' = Published /\ LastCategory' = LastCategory /\ Unnoted' = Unnoted /\ RowsApart' /\ Apart'
           /\ \A t : Refused(t)' = Refused(t)
<1>1. Published' = Published
  BY DEF Published
<1>2. LastCategory' = LastCategory /\ Unnoted' = Unnoted
  BY <1>1 DEF LastCategory, Unnoted
<1>3. RowsApart' /\ Apart'
  BY <1>1, PostTypes DEF RowsApart, Apart
<1>4. Recent' = Recent
  BY <1>1 DEF Recent
<1>5. \A t : Refused(t)' = Refused(t)
  BY <1>4 DEF Refused
<1> QED
  BY <1>1, <1>2, <1>3, <1>5

LEMMA ShownStay ==
    ASSUME PostsInv, shown' = shown, DOMAIN drafts \subseteq DOMAIN drafts',
           \A k \in DOMAIN drafts : drafts'[k].text = drafts[k].text
    PROVE  ShownWritten' /\ NoTextTwice' /\ Twins' = Twins
<1>1. ShownWritten' /\ NoTextTwice'
  BY PostTypes, SMTT(30) DEF ShownWritten, NoTextTwice
<1>2. Twins' = Twins
  BY DEF Twins
<1> QED
  BY <1>1, <1>2

LEMMA PostsBegin == ASSUME PostsInit PROVE PostsInv
<1>1. /\ slots \in 0 .. MaxSlots /\ nights = 0 /\ run = NoRun /\ drafts = <<>> /\ shown = <<>>
      /\ faults = 0 /\ plans = [plans |-> 1, posts |-> 0]
  BY DEF PostsInit
<1>2. MaxSlots \in Nat /\ MaxNights \in Nat /\ PostFaults \in Nat /\ MaxTries \in Nat
  BY PostsAssumption
<1>3. run \in [at : {"idle", "write", "record", "send", "mark"}, category : Category \cup {"none"},
               text : Wording \cup {0}, tries : 0 .. MaxTries - 1]
  BY <1>1, <1>2, PostsAssumption DEF NoRun
<1>4. plans \in [plans : 1 .. 1 + PostFaults, posts : Nat]
  BY <1>1, <1>2
<1>5. PostsTypeOK
  <2>1. drafts \in Seq([category : Category, text : Wording, published : BOOLEAN]) /\ shown \in Seq([category : Category, text : Wording])
    BY <1>1
  <2>2. nights \in 0 .. MaxNights /\ faults \in 0 .. PostFaults
    BY <1>1, <1>2
  <2> QED
    BY <1>1, <1>3, <1>4, <2>1, <2>2 DEF PostsTypeOK
<1>6. run.at = "idle"
  BY <1>1 DEF NoRun
<1>7. DOMAIN drafts = {} /\ DOMAIN shown = {}
  BY <1>1
<1>8. Twins = {} /\ Published = {} /\ ~Loose
  BY <1>1, <1>7 DEF Twins, Published, Loose
<1>9. Cardinality({}) = 0
  BY FS_EmptySet
<1>10. Alternating /\ NearRepeatsNeedFaults
  BY <1>1, <1>6, <1>7, <1>8, <1>9 DEF Alternating, NearRepeatsNeedFaults
<1>11. DayIsPlanned
  <2>1. plans.posts = 0 /\ plans.plans = 1
    BY <1>1
  <2>2. MaxSlots * 1 = MaxSlots
    BY <1>2
  <2> QED
    BY <1>1, <1>2, <1>6, <2>1, <2>2 DEF DayIsPlanned
<1>12. RowsApart /\ ShownWritten /\ NoTextTwice /\ Choosing /\ Holding
  BY <1>6, <1>7 DEF RowsApart, ShownWritten, NoTextTwice, Choosing, Holding
<1>13. plans.plans <= 1 + faults
  BY <1>1
<1> QED
  BY <1>5, <1>10, <1>11, <1>12, <1>13 DEF PostsInv

\* A fault ends the run, whatever it was at; the process may plan anew.
LEMMA FaultKeeps ==
    ASSUME PostsInv, Fault, RunEnds, drafts' = drafts, shown' = shown, nights' = nights,
           \/ slots' = slots /\ plans' = plans
           \/ slots' \in 0 .. MaxSlots /\ plans' = [plans EXCEPT !.plans = @ + 1]
    PROVE  PostsInv'
<1>1. /\ slots \in 0 .. MaxSlots /\ slots \in Nat /\ nights \in 0 .. MaxNights /\ faults \in Nat
      /\ run \in RunType /\ drafts \in Seq(DraftType) /\ shown \in Seq(ShownType)
      /\ plans \in [plans : 1 .. 1 + PostFaults, posts : Nat] /\ plans.plans \in Nat /\ plans.posts \in Nat
      /\ plans.plans <= 1 + faults /\ MaxSlots \in Nat /\ PostFaults \in Nat /\ MaxTries \in Nat /\ MaxTries > 0
      /\ Len(drafts) \in Nat /\ DOMAIN drafts = 1 .. Len(drafts) /\ Len(shown) \in Nat /\ DOMAIN shown = 1 .. Len(shown)
      /\ Alternating /\ DayIsPlanned
      /\ Cardinality(Unnoted) <= faults + (IF run.at \in {"send", "mark"} THEN 1 ELSE 0)
  BY PostTypes
<1>2. faults < PostFaults /\ faults' = faults + 1 /\ run' = NoRun
  BY DEF Fault, RunEnds
<1>3. run'.at = "idle" /\ run' \in RunType
  BY <1>1, <1>2 DEF NoRun, RunType, RunPlaces
<1>4. /\ slots' \in 0 .. MaxSlots /\ slots' \in Nat /\ plans' \in [plans : 1 .. 1 + PostFaults, posts : Nat]
      /\ plans'.plans \in {plans.plans, plans.plans + 1} /\ plans'.posts = plans.posts
      /\ plans'.plans = plans.plans => slots' = slots
  BY <1>1, <1>2, SMTT(30)
<1>5. PostsTypeOK' /\ plans'.plans <= 1 + faults'
  BY <1>1, <1>2, <1>3, <1>4, PostTypesAfter, SMTT(30)
<1>6. /\ Published' = Published /\ LastCategory' = LastCategory /\ Unnoted' = Unnoted /\ RowsApart' /\ Apart'
      /\ ShownWritten' /\ NoTextTwice' /\ Twins' = Twins
  BY RowsStay, ShownStay
<1>7. Choosing' /\ Holding'
  BY <1>3 DEF Choosing, Holding
<1>8. Alternating'
  <2>1. Cardinality(Twins) \in Nat
    BY <1>1, IndexSets DEF Twins
  <2>2. Cardinality(Twins) <= faults
    BY <1>1, <2>1 DEF Alternating
  <2> QED
    BY <1>1, <1>2, <1>6, <2>1, <2>2 DEF Alternating
<1>9. NearRepeatsNeedFaults'
  <2>1. Cardinality(Unnoted) \in Nat
    BY <1>1, IndexSets DEF Unnoted
  <2>2. Cardinality(Unnoted') <= faults'
    BY <1>1, <1>2, <1>6, <2>1
  <2>3. faults' \in Nat
    BY <1>1, <1>2
  <2> QED
    BY <1>3, <1>6, <2>2, <2>3 DEF NearRepeatsNeedFaults, Apart, Unnoted
<1>10. DayIsPlanned'
  <2>1. plans.posts + slots <= MaxSlots * plans.plans
    BY <1>1 DEF DayIsPlanned
  <2>2. MaxSlots * (plans.plans + 1) = MaxSlots * plans.plans + MaxSlots /\ MaxSlots * plans.plans \in Nat
    BY <1>1
  <2>3. plans'.posts + slots' <= MaxSlots * plans'.plans
    <3>1. CASE plans'.plans = plans.plans
      <4>1. slots' = slots /\ plans'.posts = plans.posts
        BY <1>4, <3>1
      <4> QED
        BY <2>1, <3>1, <4>1
    <3>2. CASE plans'.plans = plans.plans + 1
      <4>1. PICK all \in Nat : all = MaxSlots * plans.plans
        BY <2>2
      <4>2. MaxSlots * plans'.plans = all + MaxSlots /\ plans.posts + slots <= all
        BY <2>1, <2>2, <3>2, <4>1
      <4>3. slots' <= MaxSlots
        BY <1>1, <1>4
      <4>4. plans.posts <= all
        BY <1>1, <4>1, <4>2
      <4>5. plans.posts + slots' <= all + MaxSlots
        BY <1>1, <1>4, <4>1, <4>3, <4>4, SMTT(30)
      <4> QED
        BY <1>4, <4>2, <4>5
    <3> QED
      BY <1>4, <3>1, <3>2
  <2>4. plans'.posts + slots' + 0 = plans'.posts + slots'
    BY <1>1, <1>4
  <2> QED
    BY <1>3, <2>3, <2>4 DEF DayIsPlanned
<1> QED
  BY <1>5, <1>6, <1>7, <1>8, <1>9, <1>10 DEF PostsInv

\* A drawn time has come: the category is not the last one's.
LEMMA SlotKeeps == ASSUME PostsInv, Slot PROVE PostsInv'
<1>1. PICK c \in Categories : run' = [NoRun EXCEPT !.at = "write", !.category = c]
  BY DEF Slot
<1>2. /\ run.at = "idle" /\ slots > 0 /\ slots' = slots - 1 /\ UNCHANGED <<nights, drafts, shown, faults, plans>>
  BY DEF Slot
<1>3. /\ slots \in 0 .. MaxSlots /\ slots \in Nat /\ nights \in 0 .. MaxNights /\ faults \in 0 .. PostFaults
      /\ run \in RunType /\ drafts \in Seq(DraftType) /\ shown \in Seq(ShownType)
      /\ plans \in [plans : 1 .. 1 + PostFaults, posts : Nat] /\ plans.plans \in Nat /\ plans.posts \in Nat
      /\ plans.plans <= 1 + faults /\ MaxSlots \in Nat /\ MaxTries \in Nat /\ MaxTries > 0
      /\ Alternating /\ DayIsPlanned
      /\ Cardinality(Unnoted) <= faults + (IF run.at \in {"send", "mark"} THEN 1 ELSE 0)
  BY PostTypes
<1>4. c \in Category /\ c \notin LastCategory
  <2>1. CASE Category \ LastCategory # {}
    BY <1>1, <2>1 DEF Categories
  <2>2. CASE Category \ LastCategory = {}
    <3>1. c \in Category /\ Category # {c}
      BY <1>1, <2>2, PostsAssumption DEF Categories
    <3>2. PICK d \in Category : d # c
      BY <3>1
    <3> QED
      BY <2>2, <3>1, <3>2, OneLast
  <2> QED
    BY <2>1, <2>2
<1>5. /\ run'.at = "write" /\ run'.category = c /\ run' \in RunType
  <2>1. run' = [at |-> "write", category |-> c, text |-> 0, tries |-> 0]
    BY <1>1 DEF NoRun
  <2>2. 0 \in 0 .. MaxTries - 1
    BY <1>3
  <2> QED
    BY <1>4, <2>1, <2>2 DEF RunType, RunPlaces
<1>6. slots' \in 0 .. MaxSlots
  BY <1>2, <1>3
<1>7. PostsTypeOK' /\ (plans.plans <= 1 + faults)'
  BY <1>2, <1>3, <1>5, <1>6, PostTypesAfter
<1>8. /\ Published' = Published /\ LastCategory' = LastCategory /\ Unnoted' = Unnoted /\ RowsApart' /\ Apart'
      /\ ShownWritten' /\ NoTextTwice' /\ Twins' = Twins
  BY <1>2, RowsStay, ShownStay
<1>9. Choosing' /\ Holding'
  BY <1>4, <1>5, <1>8 DEF Choosing, Holding
<1>10. Alternating'
  <2>1. Loose' = Loose
    BY <1>2, <1>5, <1>8 DEF Loose
  <2> QED
    BY <1>2, <1>3, <1>8, <2>1 DEF Alternating
<1>11. NearRepeatsNeedFaults'
  <2>1. Cardinality(Unnoted') <= faults'
    BY <1>2, <1>3, <1>8
  <2>2. faults' \in Nat
    BY <1>2, <1>3
  <2> QED
    BY <1>5, <1>8, <2>1, <2>2 DEF NearRepeatsNeedFaults, Apart, Unnoted
<1>12. DayIsPlanned'
  <2>1. PICK all : all = MaxSlots * plans.plans /\ MaxSlots * plans'.plans = all
    BY <1>2
  <2>2. plans.posts + slots <= all
    BY <1>2, <1>3, <2>1 DEF DayIsPlanned
  <2>3. plans'.posts + slots' + 1 = plans.posts + slots
    BY <1>2, <1>3
  <2> QED
    BY <1>5, <2>1, <2>2, <2>3 DEF DayIsPlanned
<1> QED
  BY <1>7, <1>8, <1>9, <1>10, <1>11, <1>12 DEF PostsInv

\* The model's answer costs a try, is taken, or the call fails.
LEMMA WriteKeeps == ASSUME PostsInv, Write PROVE PostsInv'
<1>1. run.at = "write" /\ UNCHANGED <<slots, nights, drafts, shown, plans>>
  BY DEF Write
<1>2. /\ slots \in 0 .. MaxSlots /\ nights \in 0 .. MaxNights /\ faults \in 0 .. PostFaults /\ faults \in Nat
      /\ run \in RunType /\ drafts \in Seq(DraftType) /\ shown \in Seq(ShownType)
      /\ plans \in [plans : 1 .. 1 + PostFaults, posts : Nat] /\ plans.plans \in Nat /\ plans.posts \in Nat /\ slots \in Nat
      /\ plans.plans <= 1 + faults /\ MaxTries \in Nat /\ MaxTries > 0
      /\ Choosing /\ Holding /\ Alternating /\ DayIsPlanned
      /\ Cardinality(Unnoted) <= faults + (IF run.at \in {"send", "mark"} THEN 1 ELSE 0)
  BY PostTypes
<1>3. CASE Fault /\ RunEnds
  BY <1>1, <1>3, FaultKeeps
<1>4. ASSUME faults' = faults, run' \in RunType, run'.at \in {"idle", "write", "record"},
             run'.at # "idle" => run'.category = run.category,
             run'.at = "record" => run'.text \in Wording /\ ~Refused(run'.text)
      PROVE  PostsInv'
  <2>1. PostsTypeOK' /\ (plans.plans <= 1 + faults)'
    BY <1>1, <1>2, <1>4, PostTypesAfter
  <2>2. /\ Published' = Published /\ LastCategory' = LastCategory /\ Unnoted' = Unnoted /\ RowsApart' /\ Apart'
        /\ ShownWritten' /\ NoTextTwice' /\ Twins' = Twins
    BY <1>1, RowsStay, ShownStay
  <2>3. Choosing'
    BY <1>1, <1>2, <1>4, <2>2 DEF Choosing
  <2>4. \A t : Refused(t)' = Refused(t)
    BY <1>1, RowsStay
  <2>5. Holding'
    BY <1>4, <2>4 DEF Holding
  <2>6. Alternating'
    <3>1. Loose' = Loose
      BY <1>1, <1>4, <2>2 DEF Loose
    <3> QED
      BY <1>2, <1>4, <2>2, <3>1 DEF Alternating
  <2>7. NearRepeatsNeedFaults'
    <3>1. Cardinality(Unnoted') <= faults' /\ faults' \in Nat
      BY <1>1, <1>2, <1>4, <2>2
    <3> QED
      BY <1>4, <2>2, <3>1 DEF NearRepeatsNeedFaults, Apart, Unnoted
  <2>8. DayIsPlanned'
    <3>1. PICK all : all = MaxSlots * plans.plans /\ MaxSlots * plans'.plans = all
      BY <1>1
    <3>2. plans.posts + slots + 1 <= all
      BY <1>1, <1>2, <3>1 DEF DayIsPlanned
    <3>3. plans.posts + slots + 0 <= all
      <4>1. CASE all \in Int
        BY <1>2, <3>2, <4>1
      <4>2. all \in Int
        BY <1>2, <3>1, PostsAssumption
      <4> QED
        BY <4>1, <4>2
    <3> QED
      BY <1>1, <1>4, <3>1, <3>2, <3>3 DEF DayIsPlanned
  <2> QED
    BY <2>1, <2>2, <2>3, <2>5, <2>6, <2>7, <2>8 DEF PostsInv
<1>5. CASE run' = (IF run.tries + 1 = MaxTries THEN NoRun ELSE [run EXCEPT !.tries = @ + 1]) /\ faults' = faults
  <2>1. run.tries \in 0 .. MaxTries - 1
    BY <1>2 DEF RunType
  <2>2. CASE run' = NoRun
    <3>1. run' \in RunType /\ run'.at = "idle"
      BY <1>2, <2>2 DEF NoRun, RunType, RunPlaces
    <3> QED
      BY <1>4, <1>5, <3>1
  <2>3. CASE run' = [run EXCEPT !.tries = @ + 1] /\ run.tries + 1 # MaxTries
    <3>4. PICK n \in Nat : n = run.tries /\ n <= MaxTries - 1 /\ n + 1 # MaxTries
      BY <1>2, <2>1, <2>3
    <3>5. n + 1 \in 0 .. MaxTries - 1
      BY <1>2, <3>4, SMTT(30)
    <3>1. run.tries + 1 \in 0 .. MaxTries - 1
      BY <3>4, <3>5
    <3>2. run' \in RunType
      BY <1>2, <2>3, <3>1 DEF RunType
    <3>3. run'.at = "write" /\ run'.category = run.category
      BY <1>1, <1>2, <2>3 DEF RunType
    <3> QED
      BY <1>4, <1>5, <3>2, <3>3
  <2> QED
    BY <1>5, <2>2, <2>3
<1>6. ASSUME NEW t \in Wording, ~Refused(t), run' = [run EXCEPT !.at = "record", !.text = t], faults' = faults
      PROVE  PostsInv'
  <2>1. run' \in RunType /\ run'.at = "record" /\ run'.category = run.category /\ run'.text = t
    BY <1>2, <1>6 DEF RunType, RunPlaces
  <2> QED
    BY <1>4, <1>6, <2>1
<1> QED
  BY <1>3, <1>5, <1>6 DEF Write

\* The row is written, of a text that no row has and that is near none of lately.
LEMMA RecordKeeps == ASSUME PostsInv, Record PROVE PostsInv'
<1>1. run.at = "record" /\ UNCHANGED <<slots, nights, shown, plans>>
  BY DEF Record
<1>2. /\ slots \in 0 .. MaxSlots /\ nights \in 0 .. MaxNights /\ faults \in 0 .. PostFaults /\ faults \in Nat
      /\ run \in RunType /\ drafts \in Seq(DraftType) /\ shown \in Seq(ShownType)
      /\ plans \in [plans : 1 .. 1 + PostFaults, posts : Nat] /\ plans.plans <= 1 + faults
      /\ Len(drafts) \in Nat /\ DOMAIN drafts = 1 .. Len(drafts)
      /\ RowsApart /\ ShownWritten /\ NoTextTwice /\ Choosing /\ Holding /\ Alternating /\ Apart /\ DayIsPlanned
      /\ Cardinality(Unnoted) <= faults + (IF run.at \in {"send", "mark"} THEN 1 ELSE 0)
  BY PostTypes
<1>3. CASE Fault /\ RunEnds /\ drafts' = drafts
  BY <1>1, <1>3, FaultKeeps
<1>4. ASSUME drafts' = Append(drafts, [category |-> run.category, text |-> run.text, published |-> FALSE]),
             run' = [run EXCEPT !.at = "send"], faults' = faults
      PROVE  PostsInv'
  <2>1. PICK d \in DraftType : d = [category |-> run.category, text |-> run.text, published |-> FALSE]
    BY <1>1, <1>2 DEF Choosing, Holding, DraftType
  <2>2. /\ drafts' \in Seq(DraftType) /\ Len(drafts') = Len(drafts) + 1
        /\ \A n \in 1 .. Len(drafts) : drafts'[n] = drafts[n]
        /\ drafts'[Len(drafts) + 1] = d
    BY <1>2, <1>4, <2>1, AppendProperties
  <2>3. DOMAIN drafts' = 1 .. Len(drafts) + 1 /\ DOMAIN drafts \subseteq DOMAIN drafts'
    BY <1>2, <2>2, LenProperties
  <2>4. run' \in RunType /\ run'.at = "send" /\ run'.category = run.category /\ run'.text = run.text
    BY <1>2, <1>4 DEF RunType, RunPlaces
  <2>5. PostsTypeOK' /\ (plans.plans <= 1 + faults)'
    BY <1>1, <1>2, <1>4, <2>2, <2>4, PostTypesAfter
  <2>6. Published' = Published
    <3>1. ~ d.published
      BY <2>1
    <3>2. \A n \in DOMAIN drafts' : n = Len(drafts) + 1 \/ n \in DOMAIN drafts
      BY <1>2, <2>3
    <3> QED
      BY <1>2, <2>2, <2>3, <3>1, <3>2 DEF Published
  <2>7. LastCategory' = LastCategory
    BY <1>2, <2>2, <2>6 DEF LastCategory, Published
  <2>8. /\ ShownWritten' /\ NoTextTwice' /\ Twins' = Twins
    BY <1>1, <1>2, <2>2, <2>3, ShownStay
  <2>9. \A n \in DOMAIN drafts : drafts[n].text # run.text
    BY <1>1, <1>2 DEF Holding, Refused
  <2>10. RowsApart'
    <3>1. \A n \in DOMAIN drafts' : n = Len(drafts) + 1 \/ n \in DOMAIN drafts
      BY <1>2, <2>3
    <3>2. d.text = run.text
      BY <2>1
    <3> QED
      BY <1>2, <2>2, <2>9, <3>1, <3>2 DEF RowsApart
  <2>11. Choosing'
    BY <1>1, <1>2, <2>4, <2>7 DEF Choosing
  <2>12. Holding'
    <3>1. Len(drafts') > 0 /\ drafts'[Len(drafts')] = [category |-> run'.category, text |-> run'.text, published |-> FALSE]
      BY <1>2, <2>1, <2>2, <2>4
    <3>2. \A n \in DOMAIN shown' : shown'[n].text # run'.text
      BY <1>1, <1>2, <2>4, <2>9 DEF ShownWritten
    <3> QED
      BY <2>4, <3>1, <3>2 DEF Holding
  <2>13. Alternating'
    <3>1. Loose' = Loose
      BY <1>1, <2>4, <2>7 DEF Loose
    <3> QED
      BY <1>2, <1>4, <2>8, <3>1 DEF Alternating
  <2>14. Apart'
    <3> SUFFICES ASSUME NEW n \in DOMAIN drafts', NEW m \in Published, m < n, {drafts'[m].text, drafts'[n].text} \in Akin
                 PROVE  Cardinality({k \in Published : m < k /\ k < n}) >= Recall
      BY <2>6 DEF Apart
    <3>1. m \in DOMAIN drafts /\ drafts'[m] = drafts[m] /\ m \in Nat
      BY <1>2, <2>2 DEF Published
    <3>2. CASE n \in DOMAIN drafts
      <4>1. drafts'[n] = drafts[n]
        BY <1>2, <2>2, <3>2
      <4> QED
        BY <1>2, <3>1, <3>2, <4>1 DEF Apart
    <3>3. CASE n = Len(drafts) + 1
      <4>1. {run.text, drafts[m].text} \in Akin
        <5>1. drafts'[n].text = run.text
          BY <2>1, <2>2, <3>3
        <5>2. {drafts'[m].text, drafts'[n].text} = {run.text, drafts[m].text}
          BY <3>1, <5>1
        <5> QED
          BY <5>2
      <4>2. m \notin Recent
        BY <1>1, <1>2, <4>1 DEF Holding, Refused
      <4>3. ~ (Cardinality({k \in Published : k > m}) < Recall)
        BY <4>2 DEF Recent
      <4>4. {k \in Published : m < k /\ k < n} = {k \in Published : k > m}
        BY <1>2, <3>1, <3>3 DEF Published
      <4>5. Cardinality({k \in Published : k > m}) \in Nat /\ Recall \in Nat
        BY <1>2, IndexSets, PostsAssumption DEF Published
      <4> QED
        BY <4>3, <4>4, <4>5
    <3> QED
      BY <1>2, <2>3, <3>2, <3>3
  <2>15. Cardinality(Unnoted') <= faults + 1
    <3>1. Unnoted' = Unnoted \cup {Len(drafts) + 1}
      BY <1>2, <2>3, <2>6 DEF Unnoted, Published
    <3>2. IsFiniteSet(Unnoted) /\ Cardinality(Unnoted) \in Nat
      BY <1>2, IndexSets DEF Unnoted
    <3>3. Cardinality(Unnoted') <= Cardinality(Unnoted) + 1
      BY <3>1, <3>2, OneMore
    <3>4. Cardinality(Unnoted) <= faults
      BY <1>1, <1>2
    <3>5. Cardinality(Unnoted') \in Nat
      BY <3>1, <3>2, FS_AddElement, FS_CardinalityType
    <3> QED
      BY <1>2, <3>2, <3>3, <3>4, <3>5
  <2>16. NearRepeatsNeedFaults'
    BY <1>2, <1>4, <2>4, <2>14, <2>15 DEF NearRepeatsNeedFaults, Apart, Unnoted
  <2>17. DayIsPlanned'
    BY <1>1, <1>2, <2>4 DEF DayIsPlanned
  <2> QED
    BY <2>5, <2>8, <2>10, <2>11, <2>12, <2>13, <2>16, <2>17 DEF PostsInv
<1> QED
  BY <1>3, <1>4 DEF Record

\* The channel has it, whether or not the call says so.
LEMMA SendKeeps == ASSUME PostsInv, SendPost PROVE PostsInv'
<1>1. run.at = "send" /\ UNCHANGED <<slots, nights, drafts>>
  BY DEF SendPost
<1>2. /\ slots \in 0 .. MaxSlots /\ slots \in Nat /\ nights \in 0 .. MaxNights /\ faults \in 0 .. PostFaults /\ faults \in Nat
      /\ run \in RunType /\ drafts \in Seq(DraftType) /\ shown \in Seq(ShownType) /\ PostFaults \in Nat
      /\ plans \in [plans : 1 .. 1 + PostFaults, posts : Nat] /\ plans.plans <= 1 + faults /\ plans.plans \in Nat /\ plans.posts \in Nat
      /\ Len(drafts) \in Nat /\ DOMAIN drafts = 1 .. Len(drafts)
      /\ Len(shown) \in Nat /\ DOMAIN shown = 1 .. Len(shown) /\ MaxTries \in Nat /\ MaxTries > 0
      /\ RowsApart /\ ShownWritten /\ NoTextTwice /\ Choosing /\ Holding /\ Alternating /\ Apart /\ DayIsPlanned
      /\ Cardinality(Unnoted) <= faults + (IF run.at \in {"send", "mark"} THEN 1 ELSE 0)
  BY PostTypes
<1>3. CASE Fault /\ RunEnds /\ UNCHANGED <<shown, plans>>
  BY <1>1, <1>3, FaultKeeps
<1>4. ASSUME shown' = Append(shown, [category |-> run.category, text |-> run.text]),
             plans' = [plans EXCEPT !.posts = @ + 1],
             \/ run' = [run EXCEPT !.at = "mark"] /\ faults' = faults
             \/ Fault /\ RunEnds
      PROVE  PostsInv'
  <2>1. PICK p \in ShownType : p = [category |-> run.category, text |-> run.text]
    <3>1. run.category \in Category /\ run.text \in Wording
      <4>1. drafts[Len(drafts)] \in DraftType /\ drafts[Len(drafts)].text = run.text /\ drafts[Len(drafts)].category = run.category
        BY <1>1, <1>2, ElementOfSeq DEF Holding
      <4> QED
        BY <4>1 DEF DraftType
    <3> QED
      BY <3>1 DEF ShownType
  <2>2. /\ shown' \in Seq(ShownType) /\ Len(shown') = Len(shown) + 1
        /\ \A n \in 1 .. Len(shown) : shown'[n] = shown[n]
        /\ shown'[Len(shown) + 1] = p
    BY <1>2, <1>4, <2>1, AppendProperties
  <2>3. DOMAIN shown' = 1 .. Len(shown) + 1 /\ \A n \in DOMAIN shown' : n = Len(shown) + 1 \/ n \in DOMAIN shown
    BY <1>2, <2>2, LenProperties
  <2>4. /\ plans' \in [plans : 1 .. 1 + PostFaults, posts : Nat] /\ plans'.plans = plans.plans /\ plans'.posts = plans.posts + 1
    <3>1. plans.posts + 1 \in Nat
      BY <1>2
    <3>2. plans' = [plans |-> plans.plans, posts |-> plans.posts + 1]
      BY <1>2, <1>4
    <3> QED
      BY <1>2, <3>1, <3>2
  <2>5. \/ run'.at = "mark" /\ run'.category = run.category /\ run'.text = run.text /\ faults' = faults /\ run' \in RunType
        \/ run'.at = "idle" /\ faults' = faults + 1 /\ faults < PostFaults /\ run' \in RunType
    <3>1. CASE run' = [run EXCEPT !.at = "mark"] /\ faults' = faults
      <4>1. run'.at = "mark" /\ run'.category = run.category /\ run'.text = run.text /\ run' \in RunType
        BY <1>2, <3>1 DEF RunType, RunPlaces
      <4> QED
        BY <3>1, <4>1
    <3>2. CASE Fault /\ RunEnds
      <4>1. run' = [at |-> "idle", category |-> "none", text |-> 0, tries |-> 0] /\ 0 \in 0 .. MaxTries - 1
        BY <1>2, <3>2 DEF RunEnds, NoRun
      <4>2. run' \in RunType /\ run'.at = "idle"
        BY <4>1 DEF RunType, RunPlaces
      <4> QED
        BY <3>2, <4>2 DEF Fault
    <3> QED
      BY <1>4, <3>1, <3>2
  <2>6. faults' \in 0 .. PostFaults /\ faults' \in Nat /\ faults' >= faults /\ run' \in RunType
    BY <1>2, <2>5
  <2>7. PostsTypeOK'
    BY <1>1, <1>2, <2>2, <2>4, <2>6, PostTypesAfter
  <2>8. plans'.plans <= 1 + faults'
    BY <1>2, <2>4, <2>6
  <2>9. /\ Published' = Published /\ LastCategory' = LastCategory /\ Unnoted' = Unnoted /\ RowsApart' /\ Apart'
    BY <1>1, RowsStay
  <2>10. p.text = run.text /\ p.category = run.category
    BY <2>1
  <2>11. ShownWritten'
    <3>1. Len(drafts) \in DOMAIN drafts /\ drafts[Len(drafts)].text = p.text
      BY <1>1, <1>2, <2>10 DEF Holding
    <3> QED
      BY <1>1, <1>2, <2>2, <2>3, <3>1 DEF ShownWritten
  <2>12. NoTextTwice'
    <3>1. \A n \in DOMAIN shown : shown[n].text # p.text
      BY <1>1, <1>2, <2>10 DEF Holding
    <3> QED
      BY <1>2, <2>2, <2>3, <3>1 DEF NoTextTwice
  <2>13. Choosing'
    BY <2>5 DEF Choosing
  <2>14. Holding'
    <3>1. CASE run'.at = "mark"
      <4>1. Len(shown') > 0 /\ shown'[Len(shown')] = [category |-> run'.category, text |-> run'.text]
        BY <1>2, <2>1, <2>2, <2>5, <3>1
      <4>2. Len(drafts') > 0 /\ drafts'[Len(drafts')] = [category |-> run'.category, text |-> run'.text, published |-> FALSE]
        BY <1>1, <1>2, <2>5, <3>1 DEF Holding
      <4> QED
        BY <3>1, <4>1, <4>2 DEF Holding
    <3>2. CASE run'.at = "idle"
      BY <3>2 DEF Holding
    <3> QED
      BY <2>5, <3>1, <3>2
  <2>15. Cardinality(Twins') \in Nat /\ Cardinality(Twins') <= faults
    <3>1. Twins \subseteq 1 .. Len(shown) /\ Twins' \subseteq 1 .. Len(shown) + 1
      BY <1>2, <2>3 DEF Twins
    <3>2. IsFiniteSet(Twins) /\ Cardinality(Twins) \in Nat /\ Cardinality(Twins') \in Nat
      <4>1. Len(shown) + 1 \in Nat
        BY <1>2
      <4> QED
        BY <1>2, <3>1, <4>1, IndexSets
    <3>3. Twins' \subseteq Twins \cup {Len(shown) + 1}
      <4> SUFFICES ASSUME NEW n \in Twins', n # Len(shown) + 1 PROVE n \in Twins
        OBVIOUS
      <4>1. n \in DOMAIN shown /\ n > 1 /\ shown'[n].category = shown'[n - 1].category
        BY <2>3 DEF Twins
      <4>2. n - 1 \in DOMAIN shown
        BY <1>2, <4>1
      <4>3. shown'[n] = shown[n] /\ shown'[n - 1] = shown[n - 1]
        BY <1>2, <2>2, <4>1, <4>2
      <4> QED
        BY <4>1, <4>3 DEF Twins
    <3>4. CASE Loose
      <4>1. Cardinality(Twins) + 1 <= faults
        BY <1>2, <3>4 DEF Alternating
      <4>2. IsFiniteSet(Twins \cup {Len(shown) + 1}) /\ Cardinality(Twins \cup {Len(shown) + 1}) <= Cardinality(Twins) + 1
        BY <3>2, OneMore
      <4>3. Cardinality(Twins') <= Cardinality(Twins \cup {Len(shown) + 1}) /\ Cardinality(Twins \cup {Len(shown) + 1}) \in Nat
        BY <3>3, <4>2, FS_Subset, FS_CardinalityType
      <4> QED
        BY <1>2, <3>2, <4>1, <4>2, <4>3
    <3>5. CASE ~Loose
      <4>1. Len(shown) + 1 \notin Twins'
        <5>1. CASE shown = <<>>
          <6>1. Len(shown) = 0
            BY <5>1
          <6> QED
            BY <6>1 DEF Twins
        <5>2. CASE shown # <<>>
          <6>1. LastCategory = {shown[Len(shown)].category}
            BY <1>1, <3>5, <5>2 DEF Loose
          <6>2. run.category # shown[Len(shown)].category
            BY <1>1, <1>2, <6>1 DEF Choosing
          <6>3. Len(shown) > 0
            BY <1>2, <5>2, EmptySeq
          <6>4. shown'[Len(shown)] = shown[Len(shown)] /\ shown'[Len(shown) + 1].category = run.category
            BY <1>2, <2>2, <2>10, <6>3
          <6>5. (Len(shown) + 1) - 1 = Len(shown)
            BY <1>2
          <6> QED
            BY <6>2, <6>4, <6>5 DEF Twins
        <5> QED
          BY <5>1, <5>2
      <4>2. Twins' \subseteq Twins
        BY <3>3, <4>1
      <4>3. Cardinality(Twins') <= Cardinality(Twins)
        BY <3>2, <4>2, FS_Subset
      <4>4. Cardinality(Twins) <= faults
        BY <1>2, <3>2, <3>5 DEF Alternating
      <4> QED
        BY <1>2, <3>2, <4>3, <4>4
    <3> QED
      BY <3>2, <3>4, <3>5
  <2>16. Alternating'
    <3>1. CASE run'.at = "mark"
      <4>1. ~Loose'
        BY <3>1 DEF Loose
      <4> QED
        BY <1>2, <2>6, <2>15, <4>1 DEF Alternating
    <3>2. CASE faults' = faults + 1
      BY <1>2, <2>6, <2>15, <3>2 DEF Alternating
    <3> QED
      BY <2>5, <3>1, <3>2
  <2>17. NearRepeatsNeedFaults'
    <3>1. Cardinality(Unnoted') <= faults + 1
      BY <1>1, <1>2, <2>9
    <3>2. Cardinality(Unnoted') <= faults' + (IF run'.at \in {"send", "mark"} THEN 1 ELSE 0)
      BY <1>2, <2>5, <3>1
    <3> QED
      BY <2>9, <3>2 DEF NearRepeatsNeedFaults, Apart, Unnoted
  <2>18. DayIsPlanned'
    <3>1. PICK all : all = MaxSlots * plans.plans /\ MaxSlots * plans'.plans = all
      BY <2>4
    <3>2. plans.posts + slots + 1 <= all
      BY <1>1, <1>2, <3>1 DEF DayIsPlanned
    <3>3. plans'.posts + slots' + 0 = plans.posts + slots + 1
      BY <1>1, <1>2, <2>4
    <3>4. run'.at \notin {"write", "record", "send"}
      BY <2>5
    <3> QED
      BY <3>1, <3>2, <3>3, <3>4 DEF DayIsPlanned
  <2> QED
    BY <2>7, <2>8, <2>9, <2>11, <2>12, <2>13, <2>14, <2>16, <2>17, <2>18 DEF PostsInv
<1> QED
  BY <1>1, <1>3, <1>4 DEF SendPost

\* A row with another published is the same row but for it.
LEMMA FieldChanged == ASSUME NEW r, NEW c, NEW t, NEW p, NEW q, r = [category |-> c, text |-> t, published |-> p]
                      PROVE  [r EXCEPT !.published = q] = [category |-> c, text |-> t, published |-> q]
OBVIOUS

\* The row says published: it is the last one now, and so is its category.
LEMMA MarkKeeps == ASSUME PostsInv, MarkPublished PROVE PostsInv'
<1>1. run.at = "mark" /\ RunEnds /\ UNCHANGED <<slots, nights, shown, plans>>
  BY DEF MarkPublished
<1>2. /\ slots \in 0 .. MaxSlots /\ slots \in Nat /\ nights \in 0 .. MaxNights /\ faults \in 0 .. PostFaults /\ faults \in Nat
      /\ run \in RunType /\ drafts \in Seq(DraftType) /\ shown \in Seq(ShownType) /\ PostFaults \in Nat
      /\ plans \in [plans : 1 .. 1 + PostFaults, posts : Nat] /\ plans.plans <= 1 + faults /\ plans.plans \in Nat /\ plans.posts \in Nat
      /\ Len(drafts) \in Nat /\ DOMAIN drafts = 1 .. Len(drafts)
      /\ Len(shown) \in Nat /\ DOMAIN shown = 1 .. Len(shown) /\ MaxTries \in Nat /\ MaxTries > 0
      /\ RowsApart /\ ShownWritten /\ NoTextTwice /\ Choosing /\ Holding /\ Alternating /\ Apart /\ DayIsPlanned
      /\ Cardinality(Unnoted) <= faults + (IF run.at \in {"send", "mark"} THEN 1 ELSE 0)
  BY PostTypes
<1>3. CASE Fault /\ drafts' = drafts
  BY <1>1, <1>3, FaultKeeps
<1>4. ASSUME drafts' = [drafts EXCEPT ![Len(drafts)].published = TRUE], faults' = faults PROVE PostsInv'
  <2>1. PICK n \in DOMAIN drafts : n = Len(drafts)
    BY <1>1, <1>2 DEF Holding
  <2>2. /\ drafts[n] = [category |-> run.category, text |-> run.text, published |-> FALSE]
        /\ Len(shown) > 0 /\ shown[Len(shown)] = [category |-> run.category, text |-> run.text]
        /\ drafts[n] \in DraftType
    BY <1>1, <1>2, <2>1, ElementOfSeq DEF Holding
  <2>3. run.category \in Category /\ run.text \in Wording
    <3>1. drafts[n].category = run.category /\ drafts[n].text = run.text
      BY <2>2
    <3>2. drafts[n].category \in Category /\ drafts[n].text \in Wording
      BY <2>2 DEF DraftType
    <3> QED
      BY <3>1, <3>2
  <2>21. PICK d \in DraftType : d = [category |-> run.category, text |-> run.text, published |-> TRUE]
    BY <2>3 DEF DraftType
  <2>4. drafts' = [drafts EXCEPT ![n] = d]
    <3>1. drafts[n] = [category |-> run.category, text |-> run.text, published |-> FALSE]
      BY <2>2
    <3>4. \A c, t, p, q : drafts[n] = [category |-> c, text |-> t, published |-> p] =>
                            [drafts[n] EXCEPT !.published = q] = [category |-> c, text |-> t, published |-> q]
      BY FieldChanged
    <3>5. \A q : [drafts[n] EXCEPT !.published = q] = [category |-> run.category, text |-> run.text, published |-> q]
      BY <3>1, <3>4
    <3>3. [drafts[n] EXCEPT !.published = TRUE] = d
      BY <2>21, <3>5
    <3>2. drafts' = [drafts EXCEPT ![n] = [drafts[n] EXCEPT !.published = TRUE]]
      BY <1>4, <2>1
    <3> QED
      BY <3>3, <3>2
  <2>5. /\ drafts' \in Seq(DraftType) /\ DOMAIN drafts' = DOMAIN drafts /\ Len(drafts') = Len(drafts)
        /\ drafts'[n] = d /\ \A k \in DOMAIN drafts : k # n => drafts'[k] = drafts[k]
    <3>1. drafts' \in Seq(DraftType) /\ Len(drafts') = Len(drafts)
      BY <1>2, <2>1, <2>4, ExceptSeq
    <3> QED
      BY <1>2, <2>1, <2>4, <3>1, LenProperties
  <2>6. run'.at = "idle" /\ run' \in RunType
    <3>1. run' = [at |-> "idle", category |-> "none", text |-> 0, tries |-> 0] /\ 0 \in 0 .. MaxTries - 1
      BY <1>1, <1>2 DEF RunEnds, NoRun
    <3> QED
      BY <3>1 DEF RunType, RunPlaces
  <2>7. PostsTypeOK' /\ (plans.plans <= 1 + faults)'
    BY <1>1, <1>2, <1>4, <2>5, <2>6, PostTypesAfter
  <2>8. d.text = drafts[n].text /\ d.category = shown[Len(shown)].category /\ d.published
    BY <2>2, <2>21
  <2>9. \A k \in DOMAIN drafts : drafts'[k].text = drafts[k].text
    BY <2>5, <2>8
  <2>10. ShownWritten' /\ NoTextTwice' /\ Twins' = Twins
    BY <1>1, <2>5, <2>9, ShownStay
  <2>11. RowsApart'
    BY <1>2, <2>5, <2>9 DEF RowsApart
  <2>12. Choosing' /\ Holding'
    BY <2>6 DEF Choosing, Holding
  <2>13. Published' = Published \cup {n}
    BY <2>1, <2>5, <2>8 DEF Published
  <2>14. \A k \in Published' : k <= n /\ k \in Nat
    BY <1>2, <2>1, <2>5 DEF Published
  <2>15. LastCategory' = {d.category}
    <3>1. {k \in Published' : \A j \in Published' : j <= k} = {n}
      <4>1. ASSUME NEW k \in Published', \A j \in Published' : j <= k PROVE k = n
        <5>1. n <= k /\ k <= n /\ k \in Nat /\ n \in Nat
          BY <2>13, <2>14, <4>1
        <5> QED
          BY <5>1
      <4> QED
        BY <2>13, <2>14, <4>1
    <3> QED
      BY <2>5, <3>1 DEF LastCategory
  <2>16. Alternating'
    <3>1. ~Loose'
      BY <1>1, <2>8, <2>15 DEF Loose
    <3>2. Cardinality(Twins) \in Nat
      BY <1>2, IndexSets DEF Twins
    <3>3. ~Loose
      BY <1>1 DEF Loose
    <3> QED
      BY <1>2, <1>4, <2>10, <3>1, <3>2, <3>3 DEF Alternating
  <2>17. Cardinality(Unnoted') <= faults
    <3>1. Unnoted' = Unnoted \ {n}
      BY <2>5, <2>13 DEF Unnoted
    <3>2. n \in Unnoted
      BY <2>1, <2>2 DEF Unnoted, Published
    <3>3. IsFiniteSet(Unnoted) /\ Cardinality(Unnoted) \in Nat
      BY <1>2, IndexSets DEF Unnoted
    <3>4. Cardinality(Unnoted \ {n}) = Cardinality(Unnoted) - 1
      BY <3>2, <3>3, FS_RemoveElement, Zenon
    <3>5. Cardinality(Unnoted) <= faults + 1
      BY <1>1, <1>2
    <3> QED
      BY <1>2, <3>1, <3>3, <3>4, <3>5
  <2>18. Apart'
    <3> SUFFICES ASSUME NEW i \in DOMAIN drafts', NEW m \in Published', m < i, {drafts'[m].text, drafts'[i].text} \in Akin
                 PROVE  Cardinality({k \in Published' : m < k /\ k < i}) >= Recall
      BY DEF Apart
    <3>1. i \in Nat /\ n \in Nat /\ i <= n /\ m \in Nat
      BY <1>2, <2>1, <2>5, <2>14
    <3>2. m # n /\ m \in Published
      BY <2>13, <3>1
    <3>3. {drafts[m].text, drafts[i].text} \in Akin
      <4>1. drafts'[m].text = drafts[m].text /\ drafts'[i].text = drafts[i].text
        BY <2>5, <2>9, <3>2 DEF Published
      <4> QED
        BY <4>1
    <3>4. {k \in Published' : m < k /\ k < i} = {k \in Published : m < k /\ k < i}
      BY <2>13, <3>1
    <3> QED
      BY <1>2, <2>5, <3>2, <3>3, <3>4 DEF Apart
  <2>19. NearRepeatsNeedFaults'
    <3>1. Cardinality(Unnoted') <= faults' + (IF run'.at \in {"send", "mark"} THEN 1 ELSE 0)
      BY <1>2, <1>4, <2>6, <2>17
    <3> QED
      BY <2>18, <3>1 DEF NearRepeatsNeedFaults, Apart, Unnoted
  <2>20. DayIsPlanned'
    BY <1>1, <1>2, <2>6 DEF DayIsPlanned
  <2> QED
    BY <2>7, <2>10, <2>11, <2>12, <2>16, <2>19, <2>20 DEF PostsInv
<1> QED
  BY <1>1, <1>3, <1>4 DEF MarkPublished

\* A new day.
LEMMA MidnightKeeps == ASSUME PostsInv, Midnight PROVE PostsInv'
<1>1. /\ nights < MaxNights /\ nights' = nights + 1 /\ run.at = "idle"
      /\ slots' \in MinSlots .. MaxSlots /\ plans' = [plans |-> 1, posts |-> 0]
      /\ UNCHANGED <<run, drafts, shown, faults>>
  BY DEF Midnight, Plan
<1>2. /\ nights \in 0 .. MaxNights /\ faults \in 0 .. PostFaults /\ faults \in Nat
      /\ run \in RunType /\ drafts \in Seq(DraftType) /\ shown \in Seq(ShownType) /\ PostFaults \in Nat
      /\ MaxSlots \in Nat /\ MinSlots \in Nat
      /\ Choosing /\ Holding /\ Alternating /\ DayIsPlanned
      /\ Cardinality(Unnoted) <= faults + (IF run.at \in {"send", "mark"} THEN 1 ELSE 0)
  BY PostTypes
<1>3. /\ slots' \in 0 .. MaxSlots /\ slots' \in Nat /\ nights' \in 0 .. MaxNights
      /\ plans' \in [plans : 1 .. 1 + PostFaults, posts : Nat] /\ plans'.plans = 1 /\ plans'.posts = 0
  <2>1. MaxNights \in Nat
    BY PostsAssumption
  <2>2. 1 \in 1 .. 1 + PostFaults /\ 0 \in Nat
    BY <1>2
  <2>3. slots' \in 0 .. MaxSlots /\ slots' \in Nat /\ nights' \in 0 .. MaxNights
    BY <1>1, <1>2, <2>1
  <2> QED
    BY <1>1, <2>2, <2>3
<1>4. PostsTypeOK' /\ (plans.plans <= 1 + faults)'
  BY <1>1, <1>2, <1>3, PostTypesAfter
<1>5. /\ Published' = Published /\ LastCategory' = LastCategory /\ Unnoted' = Unnoted /\ RowsApart' /\ Apart'
      /\ ShownWritten' /\ NoTextTwice' /\ Twins' = Twins
  BY <1>1, RowsStay, ShownStay
<1>6. Choosing' /\ Holding'
  BY <1>1 DEF Choosing, Holding
<1>7. Alternating'
  <2>1. Loose' = Loose
    BY <1>1, <1>5 DEF Loose
  <2> QED
    BY <1>1, <1>2, <1>5, <2>1 DEF Alternating
<1>8. NearRepeatsNeedFaults'
  BY <1>1, <1>2, <1>5 DEF NearRepeatsNeedFaults, Apart, Unnoted
<1>9. DayIsPlanned'
  <2>1. MaxSlots * plans'.plans = MaxSlots
    BY <1>2, <1>3
  <2>2. plans'.posts + slots' + 0 <= MaxSlots
    <3>1. PICK n \in 0 .. MaxSlots : n = slots'
      BY <1>3
    <3>2. MaxSlots \in Nat
      BY <1>2
    <3>3. 0 + n + 0 <= MaxSlots
      BY <3>2
    <3> QED
      BY <1>3, <3>1, <3>3
  <2>3. run'.at \notin {"write", "record", "send"}
    BY <1>1
  <2> QED
    BY <2>1, <2>2, <2>3 DEF DayIsPlanned
<1> QED
  BY <1>4, <1>5, <1>6, <1>7, <1>8, <1>9 DEF PostsInv

LEMMA PostsKept == ASSUME PostsInv, [PostsNext]_postVars PROVE PostsInv'
<1>1. CASE StopAndStart
  <2>1. /\ Fault /\ RunEnds /\ slots' \in 0 .. MaxSlots /\ plans' = [plans EXCEPT !.plans = @ + 1]
        /\ UNCHANGED <<nights, drafts, shown>>
    BY <1>1 DEF StopAndStart, Plan
  <2> QED
    BY <2>1, FaultKeeps
<1>2. CASE UNCHANGED postVars
  <2>1. UNCHANGED <<slots, nights, run, drafts, shown, faults, plans>>
    BY <1>2 DEF postVars
  <2>2. /\ Published' = Published /\ LastCategory' = LastCategory /\ Unnoted' = Unnoted /\ RowsApart' /\ Apart'
        /\ ShownWritten' /\ NoTextTwice' /\ Twins' = Twins /\ \A t : Refused(t)' = Refused(t)
    BY <2>1, RowsStay, ShownStay
  <2>3. PostsTypeOK' /\ (plans.plans <= 1 + faults)' /\ DayIsPlanned'
    BY <2>1 DEF PostsInv, PostsTypeOK, DayIsPlanned
  <2>4. Choosing' /\ Holding'
    BY <2>1, <2>2 DEF PostsInv, Choosing, Holding
  <2>5. Loose' = Loose
    BY <2>1, <2>2 DEF Loose
  <2>6. Alternating'
    BY <2>1, <2>2, <2>5 DEF PostsInv, Alternating
  <2>7. NearRepeatsNeedFaults'
    BY <2>1, <2>2 DEF PostsInv, NearRepeatsNeedFaults, Apart, Unnoted
  <2> QED
    BY <2>2, <2>3, <2>4, <2>6, <2>7 DEF PostsInv
<1> QED
  BY <1>1, <1>2, SlotKeeps, WriteKeeps, RecordKeeps, SendKeeps, MarkKeeps, MidnightKeeps DEF PostsNext

LEMMA PostsSay == ASSUME PostsInv PROVE PostsAreSound
<1>1. CategoriesAlternate
  <2>1. Cardinality(Twins) \in Nat /\ Alternating /\ faults \in Nat
    BY PostTypes, IndexSets DEF Twins
  <2>2. Cardinality(Twins) <= faults
    BY <2>1 DEF Alternating
  <2> QED
    BY <2>2 DEF CategoriesAlternate, Twins
<1>2. DayHasItsPosts
  <2>1. plans.posts \in Nat /\ slots \in Nat /\ DayIsPlanned /\ MaxSlots \in Nat /\ plans.plans \in Nat
    BY PostTypes
  <2>2. PICK all \in Nat : all = MaxSlots * plans.plans
    BY <2>1
  <2>3. plans.posts + slots + (IF run.at \in {"write", "record", "send"} THEN 1 ELSE 0) <= all
    BY <2>1, <2>2 DEF DayIsPlanned
  <2>4. plans.posts <= all
    BY <2>1, <2>2, <2>3
  <2> QED
    BY <2>2, <2>4 DEF DayHasItsPosts
<1> QED
  BY <1>1, <1>2 DEF PostsInv, PostsAreSound

\* Whatever calls fail and however often the process starts anew: no text is shown twice,
\* posts of one category in a row and notes of publication that are missing are at most as
\* many as the faults, near repeats lie Recall posts apart, and a day's posts are what its
\* plans allow (runner.ts, generator.ts, categories.ts, scheduler.ts).
THEOREM PostsSound == PostsSpec => []PostsAreSound
<1>1. PostsInit => PostsInv
  BY PostsBegin
<1>2. PostsInv /\ [PostsNext]_postVars => PostsInv'
  BY PostsKept
<1>3. PostsInv => PostsAreSound
  BY PostsSay
<1> QED
  BY <1>1, <1>2, <1>3, PTL DEF PostsSpec
-----------------------------------------------------------------------------
\* The values the state of BotChats takes.
Steps == {"user", "create", "count", "grant", "flow", "tap", "agree", "room", "add", "on", "seed", "call",
          "waiting", "command", "fee", "level"}
UpdateType == [k : STRING, who : Person, c : Chat, x : STRING, n : Nat, id : Nat]
HandlingType == [at : Steps, u : UpdateType, mine : NoFee .. MaxFee, saw : Nat]
FlowType == [at : {"edit", "tp", "import", "backup", "restore", "restorepw"}, of : Nat, by : Nat]
ConfigType == [id : Nat, owner : Person, active : BOOLEAN, v : Nat]
WebOpType == [k : {"snipe", "delete", "fee", "level", "register"}, who : Person, n : Nat]
WebType == [at : {"write", "count", "grant"}, op : WebOpType]
ScenarioType == [taps : SUBSET UpdateType, sends : Nat, faults : Nat, restarts : Nat, expiries : Nat,
                 web : SUBSET WebOpType, members : SUBSET Person]

\* What ChatsAssumption says of an update people may send, and of a Mini App's request.
Sensible(u) ==
    /\ u.k = "close" => u.n \in budget.members
    /\ u.k = "admedit" => u.x \in {"fee", "level", "treasury"}
    /\ u.x \in {"number", "setfee", "setlevel"} => u.n \in 0 .. MaxFee
    /\ u.x = "start" => u.k = "cmd"
SensibleOp(op) == op.k \in {"fee", "level"} => op.n \in 0 .. MaxFee

\* The types, and the update under way is the last the bot took up.
ChatState ==
    /\ budget \in ScenarioType /\ (\A t \in budget.taps : Sensible(t)) /\ (\A op \in budget.web : SensibleOp(op))
    /\ inbox \in Seq(UpdateType) /\ Len(inbox) <= MaxUpdates
    /\ \A i \in 1 .. Len(inbox) : inbox[i].id = i /\ Sensible(inbox[i])
    /\ confirmed \in Nat /\ fetched \in Nat /\ next \in Nat
    /\ confirmed <= fetched /\ fetched <= Len(inbox) /\ confirmed < next /\ next <= fetched + 1
    /\ cur = Idle \/ (cur \in HandlingType /\ next > 1 /\ cur.u = inbox[next - 1])
    /\ web = Idle \/ (web \in WebType /\ SensibleOp(web.op))
    /\ pend \in [Chat -> {Idle} \cup FlowType]
    /\ panel \in [Chat -> {"none", "fee", "level", "treasury"}] /\ planEdit \in [Chat -> BOOLEAN]
    /\ runs \in [1 .. MaxUpdates -> Nat]
    /\ excuses \subseteq {"config", "fee", "reward", "consent", "create", "fault", "restart"}

\* The rows of the people.
RowState ==
    /\ accounts \subseteq Person /\ agreed \in [Person -> NoFee .. MaxFee] /\ referred \subseteq Person
    /\ configs \subseteq ConfigType /\ IsFiniteSet(configs) /\ made \in Nat
    /\ \A c \in configs : c.id \in 1 .. made
    /\ wallets \in [Key -> [owner : Person \cup {None}, active : BOOLEAN]]
    /\ positions \in [budget.members -> [owner : Person, open : BOOLEAN, tp : Nat]]

\* An update is taken up once, and its request goes out once, until a restart.
TakenUpOnce ==
    /\ requests \subseteq [id : Nat, run : Nat, k : STRING, n : Nat, who : Person]
    /\ bought \subseteq [id : Nat, run : Nat]
    /\ "restart" \notin excuses =>
         /\ \A i \in 1 .. MaxUpdates : runs[i] = IF i < next THEN 1 ELSE 0
         /\ \A r \in requests : r.run = 1
         /\ \A b \in bought : b.run = 1

\* What people were told is closed is closed; a close is of a position there is.
ClosesAreTrue ==
    /\ \A r \in requests : r.k = "close" => r.n \in budget.members
    /\ \A t \in told : t.what = "closed" => t.n \in budget.members /\ ~positions[t.n].open

\* A flow is younger than the buttons of its chat that leave one, but for the one whose
\* handler has not come to leave the flow yet.
FlowsAreNew ==
    {"fault", "create"} \cap excuses = {} =>
        \A c \in Chat : pend[c] # Idle =>
            \A i \in pend[c].by + 1 .. next - 1 :
                inbox[i].c = c /\ inbox[i].k \in Leaving => i = next - 1 /\ cur.at \in {"user", "create"}

\* The handler holds the sender's agreement, and past its checks the sender
\* is an admin who agreed to the fee in force.
ConsentHeld ==
    /\ cur # Idle => cur.mine \in {NoFee, agreed[Who]}
    /\ cur.at = "agree" => cur.saw \in 0 .. MaxFee
    /\ cur.at \in {"room", "add", "on"} =>
         Who \in Admin /\ cur.mine # NoFee /\ (cur.mine = fee \/ "consent" \in excuses)
    /\ cur.at \in {"command", "fee", "level"} => Who \in Admin

\* A setting that was checked still fits, unless another was written.
CheckedFits(what, n) == "fee" \in excuses \/ ((what = "fee" => level <= n) /\ (what = "level" => n <= fee))
BudgetHeld ==
    /\ {fee, level, price} \subseteq 0 .. MaxFee
    /\ BudgetNeedsRival
    /\ cur.at \in {"fee", "level"} => cur.u.n \in 0 .. MaxFee /\ CheckedFits(cur.at, cur.u.n)
    /\ WebWrites({"fee", "level"}) => CheckedFits(web.op.k, web.op.n)

\* The reward is on record, or on its way to it once.
RewardHeld ==
    /\ rewards \in 0 .. 2
    /\ rewards > 1 => "reward" \in excuses
    /\ cur.at = "grant" /\ web.at = "grant" => rewards = 0
    /\ cur.at = "grant" \/ web.at = "grant" => rewards = 0 \/ (rewards = 1 /\ "reward" \in excuses)
    /\ (cur.at \notin {"count", "grant"} /\ web.at \notin {"count", "grant"} /\ Cardinality(referred) >= RewardAt)
         => rewards > 0 \/ "fault" \in excuses

\* The cap, and the room a creation was promised.
CapExcused(p) == "config" \in excuses \/ (p = Referrer /\ rewards > 0)
CapHeld ==
    /\ \A p \in Person : Cardinality(Own(p)) <= MaxConfigs \/ CapExcused(p)
    /\ cur.at = "add" => HasRoom(Who) \/ CapExcused(Who)
    /\ WebWrites({"snipe"}) => HasRoom(web.op.who) \/ CapExcused(web.op.who)

\* The seed phrase nobody was told is in the handler's hand.
SeedsHeld ==
    /\ seeds \in [made : SUBSET Key, told : SUBSET Key] /\ seeds.told \subseteq seeds.made
    /\ cur.at = "seed" => cur.saw \in seeds.made
    /\ "fault" \notin excuses => seeds.made \ seeds.told \subseteq (IF cur.at = "seed" THEN {cur.saw} ELSE {})

ChatInv == ChatState /\ RowState /\ TakenUpOnce /\ ClosesAreTrue /\ FlowsAreNew /\ ConsentHeld /\ BudgetHeld
           /\ RewardHeld /\ CapHeld /\ SeedsHeld

\* The update under way, and the chat and the person it is from.
LEMMA UnderWay ==
    ASSUME ChatState, cur # Idle
    PROVE  /\ cur \in HandlingType /\ cur.u \in UpdateType /\ cur.u = inbox[next - 1]
           /\ next - 1 \in 1 .. Len(inbox) /\ cur.u.id = next - 1 /\ next - 1 \in 1 .. MaxUpdates
           /\ Who \in Person /\ Here \in Chat /\ cur.u.n \in Nat /\ Sensible(cur.u)
  <1>1. /\ cur \in HandlingType /\ cur.u = inbox[next - 1] /\ next - 1 \in 1 .. Len(inbox)
        /\ Len(inbox) <= MaxUpdates
    BY DEF ChatState
  <1>2. cur.u \in UpdateType /\ cur.u.id = next - 1 /\ Sensible(cur.u)
    BY <1>1 DEF ChatState, HandlingType
  <1>3. next - 1 \in 1 .. MaxUpdates
    BY <1>1 DEF MaxUpdates, ChatState
  <1>. QED  BY <1>1, <1>2, <1>3 DEF UpdateType, Who, Here

\* A handler's step is of an update under way.
LEMMA HandlersAct == Handle => cur # Idle
  <1>1. (ReadUser \/ CreateUser \/ CountReferrals \/ Grant \/ Agree \/ Room) => cur # Idle
    BY DEF ReadUser, CreateUser, CountReferrals, Grant, Agree, Room, At, Idle
  <1>2. (Add \/ SwitchOn \/ SendSeedPhrase \/ SetPlatformFee \/ SetReferralLevel) => cur # Idle
    BY DEF Add, SwitchOn, SendSeedPhrase, SetPlatformFee, SetReferralLevel, Excuse, SetActive, At, Idle
  <1>5. (Look \/ AcceptFeePolicy \/ QuickStart \/ Resume \/ Pause \/ DeleteConfig \/ ApplyTrailingStopPreset \/ Prompt) => cur # Idle
    BY DEF Look, AcceptFeePolicy, QuickStart, Resume, Pause, DeleteConfig, ApplyTrailingStopPreset, Prompt, SetActive, Tap, At, Idle
  <1>6. (CreateWallet \/ DeactivateWallet \/ ClosePosition \/ CloseAll \/ PlanPurchase) => cur # Idle
    BY DEF CreateWallet, DeactivateWallet, ClosePosition, CloseAll, PlanPurchase, Tap, At, Idle
  <1>3. (ApplySettingsEdit \/ ApplyTakeProfit \/ ApplyImportWallet \/ ApplyBackup \/ RestoreFile \/ ApplyRestore) => cur # Idle
    BY DEF ApplySettingsEdit, ApplyTakeProfit, ApplyImportWallet, ApplyBackup, RestoreFile, ApplyRestore, Flowing, At, Idle
  <1>4. (PlanEdit \/ SetTreasuryWallet \/ CheckFee \/ CheckLevel \/ SwitchAll) => cur # Idle
    BY DEF PlanEdit, SetTreasuryWallet, CheckFee, CheckLevel, CheckSetting, SwitchAll, Edits, Commanded, At, Idle
  <1>. QED  BY <1>1, <1>2, <1>3, <1>4, <1>5, <1>6 DEF Handle

\* What a handler leaves to others: the poll, the Mini App's request, the
\* purchases; and it goes on with its update or is done.
HandlerLeaves ==
    /\ UNCHANGED <<budget, Telegram, runs, web, bought>>
    /\ cur # Idle /\ (cur' = Idle \/ (cur' \in HandlingType /\ cur'.u = cur.u))
    /\ excuses \subseteq excuses' /\ excuses' \subseteq excuses \cup {"config", "reward", "create", "fee"}

LEMMA HandlerFrame ==
    ASSUME ChatInv, Handle
    PROVE  HandlerLeaves
  <1>. cur # Idle
    BY HandlersAct
  <1>0. /\ cur \in HandlingType /\ Who \in Person /\ agreed[Who] \in NoFee .. MaxFee /\ fee \in Nat
        /\ cur.u = cur.u
    BY UnderWay DEF ChatInv, RowState, BudgetHeld, MaxFee
  <1>1. CASE ReadUser
    BY <1>0, <1>1 DEF ReadUser, HandlerLeaves, Calls, Elsewhere, Telegram, Goto, HandlingType, Steps, Screen
  <1>2. CASE CreateUser
    BY <1>0, <1>2 DEF CreateUser, HandlerLeaves, Calls, Elsewhere, Telegram, Goto, Done, HandlingType, Steps, Screen
  <1>3. CASE CountReferrals \/ Grant
    BY <1>0, <1>3 DEF CountReferrals, Grant, HandlerLeaves, Calls, Elsewhere, Telegram, Goto, Done, HandlingType, Steps, Excuse
  <1>4. CASE Look \/ AcceptFeePolicy \/ Agree \/ QuickStart \/ Room \/ Resume
    BY <1>0, <1>4 DEF Look, AcceptFeePolicy, Agree, QuickStart, Room, Resume, Quiet, Nothing, Calls, Telegram, Goto, Done,
       HandlingType, Steps, HandlerLeaves
  <1>5. CASE Add \/ SwitchOn \/ Pause \/ DeleteConfig \/ ApplyTrailingStopPreset \/ Prompt
    BY <1>0, <1>5 DEF Add, SwitchOn, Pause, DeleteConfig, ApplyTrailingStopPreset, Prompt, Quiet, OtherRows, Calls, Telegram,
       Done, HandlerLeaves, Excuse
  <1>6. CASE CreateWallet
    <2>. Key \subseteq Nat
      BY DEF Key
    <2>. QED  BY <1>0, <1>6 DEF CreateWallet, ShowSeed, Quiet, Calls, Telegram, OtherThanWallets, HandlingType, Steps, HandlerLeaves
  <1>7. CASE SendSeedPhrase \/ DeactivateWallet
    BY <1>0, <1>7 DEF SendSeedPhrase, DeactivateWallet, Quiet, Calls, Telegram, Done, OtherThanWallets, HandlerLeaves
  <1>8. CASE ApplySettingsEdit \/ ApplyTakeProfit \/ ApplyImportWallet \/ ApplyBackup \/ RestoreFile \/ ApplyRestore
    BY <1>0, <1>8 DEF ApplySettingsEdit, ApplyTakeProfit, ApplyImportWallet, ApplyBackup, RestoreFile, ApplyRestore, FlowQuiet,
       Calls, Telegram, Done, HandlerLeaves
  <1>9. CASE ClosePosition \/ CloseAll \/ PlanPurchase
    BY <1>0, <1>9 DEF ClosePosition, CloseAll, PlanPurchase, CallQuiet, Quiet, Ask, Goto, Calls, Telegram, Done, HandlerLeaves,
       HandlingType, Steps
  <1>10. CASE PlanEdit \/ SetTreasuryWallet \/ SetPlatformFee \/ SetReferralLevel \/ SwitchAll
    BY <1>0, <1>10 DEF PlanEdit, SetTreasuryWallet, SetPlatformFee, SetReferralLevel, SwitchAll, AdminQuiet, Calls, Telegram, Done,
       Excuse, HandlerLeaves
  <1>11. CASE CheckFee \/ CheckLevel
    BY <1>0, <1>11 DEF CheckFee, CheckLevel, CheckSetting, AdminQuiet, Calls, Telegram, Done, Goto, HandlingType, Steps, HandlerLeaves
  <1>. QED
    BY <1>1, <1>2, <1>3, <1>4, <1>5, <1>6, <1>7, <1>8, <1>9, <1>10, <1>11 DEF Handle

\* Spending a bound leaves the updates, the requests and the members.
LEMMA Spent ==
    ASSUME ChatState, NEW what \in {"sends", "faults", "restarts", "expiries"}, Spend(what)
    PROVE  /\ budget' \in ScenarioType
           /\ budget'.taps = budget.taps /\ budget'.web = budget.web /\ budget'.members = budget.members
  <1>1. budget \in ScenarioType /\ budget' = [budget EXCEPT ![what] = budget[what] - 1] /\ budget[what] > 0
    BY DEF Spend, ChatState
  <1>2. CASE what = "sends"
    BY <1>1, <1>2 DEF ScenarioType
  <1>3. CASE what = "faults"
    BY <1>1, <1>3 DEF ScenarioType
  <1>4. CASE what = "restarts"
    BY <1>1, <1>4 DEF ScenarioType
  <1>5. CASE what = "expiries"
    BY <1>1, <1>5 DEF ScenarioType
  <1>. QED  BY <1>2, <1>3, <1>4, <1>5

\* The flows and the panels a handler leaves.
LEMMA HandlerMemory ==
    ASSUME ChatInv, Handle
    PROVE  /\ pend' \in [Chat -> {Idle} \cup FlowType]
           /\ panel' \in [Chat -> {"none", "fee", "level", "treasury"}] /\ planEdit' \in [Chat -> BOOLEAN]
  <1>0. /\ cur \in HandlingType /\ cur.u \in UpdateType /\ Who \in Person /\ Here \in Chat /\ cur.u.n \in Nat /\ cur.u.c = Here
        /\ cur.u.id \in Nat
    BY HandlersAct, UnderWay DEF ChatInv, UpdateType, Here
  <1>1. /\ pend \in [Chat -> {Idle} \cup FlowType]
        /\ panel \in [Chat -> {"none", "fee", "level", "treasury"}] /\ planEdit \in [Chat -> BOOLEAN]
    BY DEF ChatInv, ChatState
  <1>2. CASE ReadUser \/ CreateUser
    BY <1>0, <1>1, <1>2 DEF ReadUser, CreateUser, ExitsFlow, Elsewhere, Telegram, Calls
  <1>3. CASE CountReferrals \/ Grant
    BY <1>1, <1>3 DEF CountReferrals, Grant, Elsewhere, Telegram, Calls
  <1>4. CASE Look \/ AcceptFeePolicy \/ Agree \/ QuickStart \/ Room \/ Resume
    BY <1>1, <1>4 DEF Look, AcceptFeePolicy, Agree, QuickStart, Room, Resume, Quiet, Nothing, Calls, Telegram
  <1>5. CASE Add \/ SwitchOn \/ Pause \/ DeleteConfig \/ ApplyTrailingStopPreset
    BY <1>1, <1>5 DEF Add, SwitchOn, Pause, DeleteConfig, ApplyTrailingStopPreset, Quiet, OtherRows, Calls, Telegram, Excuse, SetActive
  <1>6. CASE Prompt
    <2>1. [at |-> cur.u.k, of |-> cur.u.n, by |-> cur.u.id] \in FlowType
      BY <1>0, <1>6 DEF Prompt, Tap, FlowType
    <2>. QED  BY <1>0, <1>1, <1>6, <2>1 DEF Prompt, Quiet, Telegram, Calls
  <1>7. CASE CreateWallet \/ SendSeedPhrase \/ DeactivateWallet
    BY <1>1, <1>7 DEF CreateWallet, SendSeedPhrase, DeactivateWallet, Quiet, Calls, Telegram, OtherThanWallets
  <1>8. CASE ApplySettingsEdit \/ ApplyTakeProfit \/ ApplyImportWallet \/ ApplyBackup \/ ApplyRestore
    BY <1>0, <1>1, <1>8 DEF ApplySettingsEdit, ApplyTakeProfit, ApplyImportWallet, ApplyBackup, ApplyRestore, FlowQuiet,
       Calls, Telegram, RefusedText, Ends
  <1>9. CASE RestoreFile
    <2>1. pend[Here] \in FlowType
      BY <1>0, <1>1, <1>9 DEF RestoreFile, Flowing, Idle
    <2>2. [pend[Here] EXCEPT !.at = "restorepw", !.of = cur.u.n] \in FlowType
      BY <1>0, <2>1 DEF FlowType
    <2>3. pend' = [pend EXCEPT ![Here] = [pend[Here] EXCEPT !.at = "restorepw", !.of = cur.u.n]] \/ pend' = pend
      BY <1>0, <1>1, <2>1, <1>9 DEF RestoreFile, FlowType
    <2>. QED  BY <1>0, <1>1, <1>9, <2>2, <2>3 DEF RestoreFile, FlowQuiet, Telegram, Calls
  <1>10. CASE ClosePosition \/ CloseAll \/ PlanPurchase
    BY <1>1, <1>10 DEF ClosePosition, CloseAll, PlanPurchase, CallQuiet, Quiet, Calls, Telegram
  <1>11. CASE PlanEdit \/ SetTreasuryWallet \/ CheckFee \/ CheckLevel \/ SetPlatformFee \/ SetReferralLevel \/ SwitchAll
    BY <1>0, <1>1, <1>11 DEF PlanEdit, SetTreasuryWallet, CheckFee, CheckLevel, CheckSetting, SetPlatformFee, SetReferralLevel,
       SwitchAll, AdminQuiet, PanelDone, Calls, Telegram, Excuse, SetActive
  <1>. QED
    BY <1>2, <1>3, <1>4, <1>5, <1>6, <1>7, <1>8, <1>9, <1>10, <1>11 DEF Handle

\* The step of every kind: of the poll, of a handler, of the API, of the Mini App.
LEMMA ChatStateKept ==
    ASSUME ChatInv, ChatsNext
    PROVE  ChatState'
  <1>. USE DEF ChatInv
  <1>1. CASE SendUpdate
    <2>1. PICK tap \in budget.taps : inbox' = Append(inbox, [tap EXCEPT !.id = Len(inbox) + 1])
      BY <1>1 DEF SendUpdate
    <2>. DEFINE new == [tap EXCEPT !.id = Len(inbox) + 1]
    <2>2. /\ tap \in UpdateType /\ Sensible(tap) /\ inbox \in Seq(UpdateType) /\ Len(inbox) \in Nat
          /\ \A i \in 1 .. Len(inbox) : inbox[i].id = i /\ Sensible(inbox[i])
      BY LenProperties DEF ChatState, ScenarioType
    <2>3. new \in UpdateType /\ Sensible(new) /\ new.id = Len(inbox) + 1
      BY <2>2 DEF UpdateType, Sensible
    <2>4. /\ budget' \in ScenarioType
          /\ budget'.taps = budget.taps /\ budget'.web = budget.web /\ budget'.members = budget.members
      BY <1>1, Spent DEF SendUpdate
    <2>. HIDE DEF new
    <2>5. /\ inbox' \in Seq(UpdateType) /\ Len(inbox') = Len(inbox) + 1 /\ inbox'[Len(inbox) + 1] = new
          /\ \A i \in 1 .. Len(inbox) : inbox'[i] = inbox[i]
      BY <2>1, <2>2, <2>3, AppendProperties DEF new
    <2>6. \A i \in 1 .. Len(inbox') : inbox'[i].id = i /\ Sensible(inbox'[i])
      <3>. TAKE i \in 1 .. Len(inbox')
      <3>1. i \in 1 .. Len(inbox) \/ i = Len(inbox) + 1
        BY <2>2, <2>5
      <3>. QED  BY <3>1, <2>2, <2>3, <2>5
    <2>7. Len(inbox') <= MaxUpdates
      BY <1>1, <2>2, <2>5 DEF SendUpdate, MaxUpdates
    <2>9. cur' = cur /\ next' = next /\ confirmed' = confirmed /\ fetched' = fetched /\ web' = web /\ pend' = pend
          /\ panel' = panel /\ planEdit' = planEdit /\ runs' = runs /\ excuses' = excuses
      BY <1>1 DEF SendUpdate, Memory
    <2>10. next > 1 => inbox'[next - 1] = inbox[next - 1]
      BY <2>2, <2>5 DEF ChatState
    <2>. QED  BY <2>2, <2>4, <2>5, <2>6, <2>7, <2>9, <2>10 DEF ChatState, Sensible, SensibleOp
  <1>2. CASE FetchBatch
    BY <1>2 DEF FetchBatch, ChatState, Memory, Sensible, SensibleOp, Idle
  <1>3. CASE Begin
    <2>1. /\ next \in 1 .. Len(inbox) /\ next' = next + 1 /\ next <= fetched /\ inbox[next] \in UpdateType
          /\ inbox[next].id = next /\ next \in 1 .. MaxUpdates /\ Sensible(inbox[next]) /\ cur.at = "idle"
      <3>1. next' = next + 1 /\ next <= fetched /\ cur.at = "idle"
        BY <1>3 DEF Begin
      <3>2. /\ inbox \in Seq(UpdateType) /\ Len(inbox) <= MaxUpdates /\ Len(inbox) \in Nat /\ fetched <= Len(inbox)
            /\ next \in Nat /\ fetched \in Nat /\ confirmed \in Nat /\ confirmed < next
            /\ \A i \in 1 .. Len(inbox) : inbox[i].id = i /\ Sensible(inbox[i])
        BY LenProperties DEF ChatState
      <3>3. next \in 1 .. Len(inbox) /\ next \in 1 .. MaxUpdates
        BY <3>1, <3>2 DEF MaxUpdates
      <3>. QED  BY <3>1, <3>2, <3>3
    <2>2. /\ cur' = Idle \/ (cur' \in HandlingType /\ cur'.u = inbox[next])
          /\ pend' \in [Chat -> {Idle} \cup FlowType]
          /\ panel' \in [Chat -> {"none", "fee", "level", "treasury"}] /\ planEdit' \in [Chat -> BOOLEAN]
      <3>. DEFINE u == inbox[next]
      <3>1. AdminButton(u) \/ AdminText(u) \/ Command(u) \/ UiText(u) \/ UiButton(u)
        BY <1>3 DEF Begin
      <3>2. u \in UpdateType /\ u.c \in Chat /\ Sensible(u)
        BY <2>1 DEF UpdateType
      <3>3. /\ pend \in [Chat -> {Idle} \cup FlowType]
            /\ panel \in [Chat -> {"none", "fee", "level", "treasury"}] /\ planEdit \in [Chat -> BOOLEAN]
        BY DEF ChatState
      <3>. SUFFICES (cur' = Idle \/ (cur' \in HandlingType /\ cur'.u = u))
                    /\ pend' \in [Chat -> {Idle} \cup FlowType]
                    /\ panel' \in [Chat -> {"none", "fee", "level", "treasury"}] /\ planEdit' \in [Chat -> BOOLEAN]
        OBVIOUS
      <3>. HIDE DEF u
      <3>4. \A at \in Steps : To(at, u) => cur' \in HandlingType /\ cur'.u = u
        <4>. SUFFICES ASSUME NEW at \in Steps, To(at, u)
                      PROVE  cur' \in HandlingType /\ cur'.u = u
          OBVIOUS
        <4>1. cur' = [at |-> at, u |-> u, mine |-> NoFee, saw |-> 0] /\ NoFee \in NoFee .. MaxFee
          BY DEF To, NoFee, MaxFee
        <4>. QED  BY <4>1, <3>2 DEF HandlingType
      <3>10. \A at \in {"user", "command"} : To(at, u) => cur' \in HandlingType /\ cur'.u = u
        BY <3>4 DEF Steps
      <3>5. CASE AdminButton(u)
        BY <3>2, <3>3, <3>5 DEF AdminButton, Sensible
      <3>6. CASE AdminText(u)
        BY <3>2, <3>3, <3>10, <3>6 DEF AdminText, Memory
      <3>7. CASE Command(u)
        BY <3>2, <3>3, <3>10, <3>7 DEF Command, EndsEdits
      <3>8. CASE UiText(u) \/ UiButton(u)
        BY <3>2, <3>3, <3>10, <3>8 DEF UiText, UiButton, Memory
      <3>. QED  BY <3>1, <3>5, <3>6, <3>7, <3>8
    <2>3. runs' \in [1 .. MaxUpdates -> Nat]
      BY <1>3, <2>1 DEF Begin, ChatState
    <2>. QED  BY <1>3, <2>1, <2>2, <2>3 DEF Begin, ChatState, Sensible, SensibleOp
  <1>4. CASE Handle
    <2>1. /\ UNCHANGED <<budget, inbox, confirmed, fetched, next, runs, web>>
          /\ cur # Idle /\ (cur' = Idle \/ (cur' \in HandlingType /\ cur'.u = cur.u))
          /\ excuses' \subseteq {"config", "fee", "reward", "consent", "create", "fault", "restart"}
      BY <1>4, HandlerFrame DEF HandlerLeaves, Telegram, ChatState
    <2>2. cur' = Idle \/ (cur' \in HandlingType /\ next' > 1 /\ cur'.u = inbox'[next' - 1])
      BY <2>1 DEF ChatState
    <2>. QED  BY <1>4, <2>1, <2>2, HandlerMemory DEF ChatState, Sensible, SensibleOp
  <1>5. CASE Timeout
    BY <1>5 DEF Timeout, TimesOut, CallQuiet, Quiet, Done, Telegram, ChatState, Sensible, SensibleOp
  <1>6. CASE BotRestarts
    <2>1. /\ budget' \in ScenarioType
          /\ budget'.taps = budget.taps /\ budget'.web = budget.web /\ budget'.members = budget.members
      BY <1>6, Spent DEF BotRestarts
    <2>2. /\ pend' \in [Chat -> {Idle} \cup FlowType]
          /\ panel' \in [Chat -> {"none", "fee", "level", "treasury"}] /\ planEdit' \in [Chat -> BOOLEAN]
      BY <1>6 DEF BotRestarts
    <2>. QED  BY <1>6, <2>1, <2>2 DEF BotRestarts, ChatState, Sensible, SensibleOp
  <1>7. CASE Fail
    <2>1. /\ budget' \in ScenarioType
          /\ budget'.taps = budget.taps /\ budget'.web = budget.web /\ budget'.members = budget.members
      BY <1>7, Spent DEF Fail
    <2>. QED  BY <1>7, <2>1 DEF Fail, Telegram, Memory, ChatState, Sensible, SensibleOp
  <1>8. ASSUME NEW c \in Chat, Expire(c)
        PROVE  ChatState'
    <2>1. /\ budget' \in ScenarioType
          /\ budget'.taps = budget.taps /\ budget'.web = budget.web /\ budget'.members = budget.members
      BY <1>8, Spent DEF Expire
    <2>. QED  BY <1>8, <2>1 DEF Expire, Telegram, ChatState, Sensible, SensibleOp
  <1>9. CASE ApiServe
    <2>1. PICK r \in requests : \E a \in Answers(r) : Serve(r, a)
      BY <1>9 DEF ApiServe
    <2>2. /\ UNCHANGED <<budget, Telegram, pend, panel, planEdit, runs, web, excuses>>
          /\ cur' = cur \/ cur' = Idle
      BY <2>1 DEF Serve, Quiet, Done
    <2>. QED  BY <2>2 DEF Telegram, ChatState, Sensible, SensibleOp
  <1>10. CASE WebRead
    <2>1. PICK op \in budget.web : WebBegin(op)
      BY <1>10 DEF WebRead
    <2>2. /\ op \in WebOpType /\ SensibleOp(op) /\ budget' \in ScenarioType /\ budget'.taps = budget.taps
          /\ budget'.web \subseteq budget.web /\ budget'.members = budget.members
      BY <2>1 DEF WebBegin, ChatState, ScenarioType
    <2>3. web' = Idle \/ (web' \in WebType /\ web'.op = op)
      BY <2>1, <2>2 DEF WebBegin, WebType
    <2>. QED  BY <2>1, <2>2, <2>3 DEF WebBegin, Bot, Telegram, Memory, ChatState, Sensible, SensibleOp
  <1>11. CASE WebSnipe \/ WebDelete \/ WebSetting
    <2>1. excuses' \subseteq {"config", "fee", "reward", "consent", "create", "fault", "restart"}
      BY <1>11 DEF WebSnipe, WebDelete, WebSetting, Excuse, ChatState
    <2>. QED  BY <1>11, <2>1 DEF WebSnipe, WebDelete, WebSetting, Bot, Telegram, Memory, ChatState, Sensible, SensibleOp
  <1>12. CASE WebRegister \/ WebCount
    <2>1. web' = Idle \/ (web' \in WebType /\ web'.op = web.op)
      BY <1>12 DEF WebRegister, WebWrites, WebCount, ChatState, WebType, Idle
    <2>2. web # Idle
      BY <1>12 DEF WebRegister, WebWrites, WebCount, Idle
    <2>. QED  BY <1>12, <2>1, <2>2 DEF WebRegister, WebCount, Bot, Telegram, Memory, ChatState, Sensible, SensibleOp
  <1>13. CASE WebGrant
    <2>1. excuses' \subseteq {"config", "fee", "reward", "consent", "create", "fault", "restart"}
      BY <1>13 DEF WebGrant, Excuse, ChatState
    <2>. QED  BY <1>13, <2>1 DEF WebGrant, Bot, Telegram, Memory, ChatState, Sensible, SensibleOp
  <1>. QED
    BY <1>1, <1>2, <1>3, <1>4, <1>5, <1>6, <1>7, <1>8, <1>9, <1>10, <1>11, <1>12, <1>13 DEF ChatsNext, MiniApp

\* Who writes what: every other step leaves it alone.
ConfigWriters == Grant \/ Add \/ SwitchOn \/ Pause \/ DeleteConfig \/ ApplyTrailingStopPreset \/ ApplySettingsEdit \/ SwitchAll
                 \/ WebSnipe \/ WebDelete \/ WebGrant
UserWriters == CreateUser \/ Agree \/ WebRegister
WalletWriters == CreateWallet \/ DeactivateWallet \/ ApplyImportWallet \/ ApplyRestore
SettingWriters == PlanEdit \/ SetTreasuryWallet \/ SetPlatformFee \/ SetReferralLevel \/ WebSetting
FlowWriters == ReadUser \/ CreateUser \/ Prompt \/ ApplySettingsEdit \/ ApplyTakeProfit \/ ApplyImportWallet \/ ApplyBackup
               \/ RestoreFile \/ ApplyRestore \/ BotRestarts
WhoWrites ==
    /\ UNCHANGED <<configs, made>> \/ ConfigWriters
    /\ UNCHANGED Users \/ UserWriters
    /\ UNCHANGED wallets \/ WalletWriters
    /\ UNCHANGED positions \/ ApplyTakeProfit \/ ApiServe
    /\ UNCHANGED Settings \/ SettingWriters
    /\ UNCHANGED rewards \/ Grant \/ WebGrant
    /\ UNCHANGED seeds \/ CreateWallet \/ SendSeedPhrase
    /\ UNCHANGED told \/ ClosePosition \/ ApiServe \/ Timeout
    /\ UNCHANGED requests \/ ClosePosition \/ CloseAll \/ PlanPurchase \/ ApiServe
    /\ UNCHANGED bought \/ ApiServe
    /\ UNCHANGED pend \/ FlowWriters

LEMMA WritersAreFew == ChatsNext => WhoWrites
  <1>. SUFFICES ASSUME ChatsNext PROVE WhoWrites
    OBVIOUS
  <1>. USE DEF WhoWrites
  <1>1. CASE SendUpdate \/ FetchBatch \/ Begin
    BY <1>1 DEF SendUpdate, FetchBatch, Begin, ChatRows, Users, Settings, Calls, Memory, Spend, AdminButton, AdminText, Command,
       UiText, UiButton, EndsEdits
  <1>2. CASE BotRestarts \/ Fail
    BY <1>2 DEF BotRestarts, Fail, FlowWriters, ChatRows, Users, Settings, Calls, Memory
  <1>3. ASSUME NEW c \in Chat, Expire(c)
        PROVE  WhoWrites
    BY <1>3 DEF Expire, ChatRows, Users, Settings, Calls
  <1>4. CASE ReadUser \/ CreateUser
    BY <1>4 DEF ReadUser, CreateUser, UserWriters, FlowWriters, ChatRows, Users, Elsewhere, Settings, Calls
  <1>5. CASE CountReferrals \/ Grant
    BY <1>5 DEF CountReferrals, Grant, ConfigWriters, ChatRows, Users, Elsewhere, Settings, Calls
  <1>6. CASE Look \/ AcceptFeePolicy \/ QuickStart \/ Room \/ Resume
    BY <1>6 DEF Look, AcceptFeePolicy, QuickStart, Room, Resume, Nothing, ChatRows, Users, Settings, Calls
  <1>7. CASE Agree
    BY <1>7 DEF Agree, UserWriters, Settings, Calls
  <1>8. CASE Add \/ SwitchOn \/ Pause \/ DeleteConfig \/ ApplyTrailingStopPreset
    BY <1>8 DEF Add, SwitchOn, Pause, DeleteConfig, ApplyTrailingStopPreset, ConfigWriters, OtherRows, Users, Settings, Calls
  <1>9. CASE Prompt
    BY <1>9 DEF Prompt, FlowWriters, ChatRows, Users, Settings, Calls
  <1>10. CASE CreateWallet \/ SendSeedPhrase \/ DeactivateWallet
    BY <1>10 DEF CreateWallet, SendSeedPhrase, DeactivateWallet, WalletWriters, OtherThanWallets, ChatRows, Users, Settings, Calls
  <1>11. CASE ApplySettingsEdit \/ ApplyTakeProfit \/ ApplyImportWallet
    BY <1>11 DEF ApplySettingsEdit, ApplyTakeProfit, ApplyImportWallet, ConfigWriters, WalletWriters, FlowWriters, FlowQuiet,
       RefusedText, OnlyWallets, ChatRows, Users, Settings, Calls
  <1>12. CASE ApplyBackup \/ RestoreFile \/ ApplyRestore
    BY <1>12 DEF ApplyBackup, RestoreFile, ApplyRestore, WalletWriters, FlowWriters, FlowQuiet, RefusedText, OnlyWallets, ChatRows,
       Users, Settings, Calls
  <1>13. CASE ClosePosition \/ CloseAll \/ PlanPurchase \/ Timeout
    BY <1>13 DEF ClosePosition, CloseAll, PlanPurchase, Timeout, TimesOut, CallQuiet, Ask, ChatRows, Users, Settings
  <1>14. CASE PlanEdit \/ SetTreasuryWallet \/ SetPlatformFee \/ SetReferralLevel
    BY <1>14 DEF PlanEdit, SetTreasuryWallet, SetPlatformFee, SetReferralLevel, SettingWriters, AdminQuiet, Users, Settings, Calls
  <1>15. CASE CheckFee \/ CheckLevel \/ SwitchAll
    BY <1>15 DEF CheckFee, CheckLevel, CheckSetting, SwitchAll, ConfigWriters, AdminQuiet, Users, Settings, Calls
  <1>16. CASE ApiServe
    BY <1>16 DEF ApiServe, Serve, Users, Settings
  <1>17. CASE WebRead \/ WebCount
    BY <1>17 DEF WebRead, WebBegin, WebCount, Bot, Memory, ChatRows, Users, Settings, Calls
  <1>18. CASE WebSnipe \/ WebDelete \/ WebGrant
    BY <1>18 DEF WebSnipe, WebDelete, WebGrant, ConfigWriters, Bot, Memory, Users, Settings, Calls
  <1>19. CASE WebSetting \/ WebRegister
    BY <1>19 DEF WebSetting, WebRegister, SettingWriters, UserWriters, Bot, Memory, Users, Settings, Calls
  <1>. QED
    BY <1>1, <1>2, <1>3, <1>4, <1>5, <1>6, <1>7, <1>8, <1>9, <1>10, <1>11, <1>12, <1>13, <1>14, <1>15, <1>16, <1>17, <1>18, <1>19
       DEF ChatsNext, Handle, MiniApp

\* The configs after a step, and how many each person has.
ConfigsTyped == configs \subseteq ConfigType /\ IsFiniteSet(configs) /\ made \in Nat /\ (\A c \in configs : c.id \in 1 .. made)
NoRowMore(p) == Cardinality(Own(p)') <= Cardinality(Own(p))
OneRowMore(p) == Cardinality(Own(p)') <= Cardinality(Own(p)) + 1

LEMMA OwnIsFinite ==
    ASSUME ConfigsTyped, NEW p
    PROVE  IsFiniteSet(Own(p)) /\ Cardinality(Own(p)) \in Nat
  <1>1. Own(p) \in SUBSET configs
    BY DEF Own
  <1>2. IsFiniteSet(Own(p))
    BY <1>1, FS_Subset DEF ConfigsTyped
  <1>. QED  BY <1>2, FS_CardinalityType

\* Rows that are rewritten keep their owner, and nobody has more of them.
LEMMA RowsRewritten ==
    ASSUME ConfigsTyped, made' = made, NEW f \in [configs -> ConfigType],
           \A c \in configs : f[c].id = c.id /\ f[c].owner = c.owner,
           configs' = {f[c] : c \in configs}
    PROVE  ConfigsTyped' /\ \A p \in Person : NoRowMore(p)
  <1>1. f \in Surjection(configs, configs')
    BY DEF Surjection
  <1>2. IsFiniteSet(configs')
    BY <1>1, FS_Surjection DEF ConfigsTyped
  <1>3. ASSUME NEW p \in Person
        PROVE  NoRowMore(p)
    <2>. DEFINE g == [c \in Own(p) |-> f[c]]
    <2>1. g \in Surjection(Own(p), Own(p)')
      <3>1. g \in [Own(p) -> Own(p)']
        BY DEF Own
      <3>2. \A d \in Own(p)' : \E c \in Own(p) : g[c] = d
        BY DEF Own
      <3>. QED  BY <3>1, <3>2 DEF Surjection
    <2>. HIDE DEF g
    <2>2. IsFiniteSet(Own(p))
      BY OwnIsFinite
    <2>. QED  BY <2>1, <2>2, FS_Surjection DEF NoRowMore
  <1>. QED  BY <1>2, <1>3 DEF ConfigsTyped

\* Rows that go leave nobody with more.
LEMMA RowsGone ==
    ASSUME ConfigsTyped, made' = made, configs' \subseteq configs
    PROVE  ConfigsTyped' /\ \A p \in Person : NoRowMore(p)
  <1>1. IsFiniteSet(configs')
    BY FS_Subset DEF ConfigsTyped
  <1>2. ASSUME NEW p \in Person
        PROVE  NoRowMore(p)
    <2>1. IsFiniteSet(Own(p)) /\ Own(p)' \in SUBSET Own(p)
      BY OwnIsFinite DEF Own
    <2>. QED  BY <2>1, FS_Subset DEF NoRowMore
  <1>. QED  BY <1>1, <1>2 DEF ConfigsTyped

LEMMA AtMostOneMore ==
    ASSUME NEW S, IsFiniteSet(S), NEW x
    PROVE  Cardinality(S \cup {x}) <= Cardinality(S) + 1
  <1>1. Cardinality(S) \in Nat
    BY FS_CardinalityType
  <1>2. Cardinality(S \cup {x}) = IF x \in S THEN Cardinality(S) ELSE Cardinality(S) + 1
    BY FS_AddElement
  <1>. QED  BY <1>1, <1>2

\* A new row is one more for its owner alone.
LEMMA RowAdded ==
    ASSUME ConfigsTyped, NEW q \in Person, made' = made + 1,
           configs' = configs \cup {[id |-> made + 1, owner |-> q, active |-> TRUE, v |-> 0]}
    PROVE  ConfigsTyped' /\ OneRowMore(q) /\ \A p \in Person \ {q} : NoRowMore(p)
  <1>. DEFINE new == [id |-> made + 1, owner |-> q, active |-> TRUE, v |-> 0]
  <1>1. new \in ConfigType /\ new.id = made + 1 /\ new.owner = q /\ made + 1 \in Nat /\ made \in Nat
    BY DEF ConfigType, ConfigsTyped
  <1>. HIDE DEF new
  <1>2. configs' = configs \cup {new}
    BY DEF new
  <1>3. IsFiniteSet(configs')
    BY <1>2, FS_AddElement DEF ConfigsTyped
  <1>4. ConfigsTyped'
    BY <1>1, <1>2, <1>3 DEF ConfigsTyped
  <1>5. OneRowMore(q)
    <2>1. Own(q)' = Own(q) \cup {new}
      BY <1>1, <1>2 DEF Own
    <2>2. IsFiniteSet(Own(q)) /\ Cardinality(Own(q)) \in Nat
      BY OwnIsFinite
    <2>3. Cardinality(Own(q) \cup {new}) <= Cardinality(Own(q)) + 1
      BY <2>2, AtMostOneMore
    <2>. QED  BY <2>1, <2>3 DEF OneRowMore
  <1>6. ASSUME NEW p \in Person \ {q}
        PROVE  NoRowMore(p)
    <2>1. Own(p)' = Own(p) /\ Cardinality(Own(p)) \in Nat
      BY <1>1, <1>2, OwnIsFinite DEF Own
    <2>. QED  BY <2>1 DEF NoRowMore
  <1>. QED  BY <1>4, <1>5, <1>6

LEMMA ActiveSet ==
    ASSUME ConfigsTyped, made' = made, NEW rows \in SUBSET configs, NEW on \in BOOLEAN, SetActive(rows, on)
    PROVE  ConfigsTyped' /\ \A p \in Person : NoRowMore(p)
  <1>. DEFINE f == [c \in configs |-> IF c \in rows THEN [c EXCEPT !.active = on] ELSE c]
  <1>1. /\ f \in [configs -> ConfigType] /\ \A c \in configs : f[c].id = c.id /\ f[c].owner = c.owner
    BY DEF ConfigsTyped, ConfigType
  <1>2. configs' = {f[c] : c \in configs}
    BY DEF SetActive
  <1>. HIDE DEF f
  <1>. QED  BY <1>1, <1>2, RowsRewritten

LEMMA ValueSet ==
    ASSUME ConfigsTyped, made' = made, NEW rows \in SUBSET configs, NEW n \in Nat,
           configs' = (configs \ rows) \cup {[c EXCEPT !.v = n] : c \in rows}
    PROVE  ConfigsTyped' /\ \A p \in Person : NoRowMore(p)
  <1>. DEFINE f == [c \in configs |-> IF c \in rows THEN [c EXCEPT !.v = n] ELSE c]
  <1>1. /\ f \in [configs -> ConfigType] /\ \A c \in configs : f[c].id = c.id /\ f[c].owner = c.owner
    BY DEF ConfigsTyped, ConfigType
  <1>2. configs' = {f[c] : c \in configs}
    OBVIOUS
  <1>. HIDE DEF f
  <1>. QED  BY <1>1, <1>2, RowsRewritten

\* What becomes of the configs: only a creation or a reward adds one.
Created(p) == (Add /\ p = Who) \/ (WebSnipe /\ p = web.op.who) \/ ((Grant \/ WebGrant) /\ p = Referrer)
ConfigsStep == ConfigsTyped' /\ \A p \in Person : NoRowMore(p) \/ (OneRowMore(p) /\ Created(p))

LEMMA ConfigsKept ==
    ASSUME ChatInv, ChatsNext
    PROVE  ConfigsStep
  <1>0. ConfigsTyped /\ Referrer \in Person
    BY ChatsAssumption DEF ChatInv, RowState, ConfigsTyped, ChatsAssumption
  <1>. SUFFICES ASSUME ~UNCHANGED <<configs, made>>
                PROVE  ConfigsStep
    <2>1. UNCHANGED <<configs, made>> => \A p \in Person : NoRowMore(p)
      BY <1>0, RowsGone
    <2>. QED  BY <1>0, <2>1 DEF ConfigsStep, ConfigsTyped
  <1>1. CASE Grant \/ WebGrant
    <2>1. Granted
      BY <1>1 DEF Grant, WebGrant
    <2>2. ConfigsTyped' /\ OneRowMore(Referrer) /\ \A p \in Person \ {Referrer} : NoRowMore(p)
      BY <1>0, <2>1, RowAdded DEF Granted
    <2>. QED  BY <1>1, <2>2 DEF ConfigsStep, Created
  <1>2. CASE Add
    <2>1. Who \in Person /\ AddConfig(Who)
      BY <1>2, UnderWay DEF ChatInv, Add, At, Idle
    <2>2. ConfigsTyped' /\ OneRowMore(Who) /\ \A p \in Person \ {Who} : NoRowMore(p)
      BY <1>0, <2>1, RowAdded DEF AddConfig
    <2>. QED  BY <1>2, <2>2 DEF ConfigsStep, Created
  <1>3. CASE WebSnipe
    <2>1. web.op.who \in Person /\ AddConfig(web.op.who)
      BY <1>3 DEF WebSnipe, WebWrites, ChatInv, ChatState, WebType, WebOpType, Idle
    <2>2. ConfigsTyped' /\ OneRowMore(web.op.who) /\ \A p \in Person \ {web.op.who} : NoRowMore(p)
      BY <1>0, <2>1, RowAdded DEF AddConfig
    <2>. QED  BY <1>3, <2>2 DEF ConfigsStep, Created
  <1>4. CASE SwitchOn
    <2>. DEFINE rows == IF cur.u.k = "resumeall" THEN Own(Who) ELSE Owned(cur.u.n)
    <2>1. rows \in SUBSET configs /\ SetActive(rows, TRUE) /\ made' = made
      BY <1>4 DEF SwitchOn, Own, Owned, OtherRows
    <2>. HIDE DEF rows
    <2>. QED  BY <1>0, <2>1, ActiveSet DEF ConfigsStep
  <1>5. CASE Pause
    <2>. DEFINE rows == IF cur.u.k = "pauseall" THEN Own(Who) ELSE Owned(cur.u.n)
    <2>1. rows \in SUBSET configs /\ SetActive(rows, FALSE) /\ made' = made
      BY <1>5 DEF Pause, Own, Owned, OtherRows
    <2>. HIDE DEF rows
    <2>. QED  BY <1>0, <2>1, ActiveSet DEF ConfigsStep
  <1>6. CASE SwitchAll
    <2>1. SetActive(configs, cur.u.x = "resumeall") /\ made' = made /\ (cur.u.x = "resumeall") \in BOOLEAN
      BY <1>6 DEF SwitchAll, AdminQuiet
    <2>. DEFINE on == cur.u.x = "resumeall"
    <2>2. SetActive(configs, on) /\ on \in BOOLEAN
      BY <2>1
    <2>. HIDE DEF on
    <2>. QED  BY <1>0, <2>1, <2>2, ActiveSet DEF ConfigsStep
  <1>7. CASE DeleteConfig \/ WebDelete
    <2>1. configs' \subseteq configs /\ made' = made
      BY <1>7 DEF DeleteConfig, WebDelete, OtherRows
    <2>. QED  BY <1>0, <2>1, RowsGone DEF ConfigsStep
  <1>8. CASE ApplyTrailingStopPreset
    <2>1. Owned(cur.u.n) \in SUBSET configs /\ made' = made
      BY <1>8 DEF ApplyTrailingStopPreset, OtherRows, Owned
    <2>2. configs' = (configs \ Owned(cur.u.n)) \cup {[c EXCEPT !.v = 9] : c \in Owned(cur.u.n)}
      BY <1>8 DEF ApplyTrailingStopPreset
    <2>. QED  BY <1>0, <2>1, <2>2, ValueSet DEF ConfigsStep
  <1>9. CASE ApplySettingsEdit
    <2>. DEFINE rows == Editable(pend[Here].of)
    <2>1. rows \in SUBSET configs /\ made' = made /\ configs' = (configs \ rows) \cup {[c EXCEPT !.v = cur.u.id] : c \in rows}
      BY <1>9 DEF ApplySettingsEdit, Editable, RefusedText, ChatRows
    <2>2. cur.u.id \in Nat
      BY <1>9, UnderWay DEF ChatInv, ApplySettingsEdit, Flowing, At, Idle
    <2>. HIDE DEF rows
    <2>. QED  BY <1>0, <2>1, <2>2, ValueSet DEF ConfigsStep
  <1>. QED
    BY <1>1, <1>2, <1>3, <1>4, <1>5, <1>6, <1>7, <1>8, <1>9, WritersAreFew DEF WhoWrites, ConfigWriters

\* Who holds positions does not change.
LEMMA MembersStay ==
    ASSUME ChatInv, ChatsNext
    PROVE  budget'.members = budget.members
  <1>. USE DEF ChatInv
  <1>1. CASE SendUpdate \/ BotRestarts \/ Fail \/ \E c \in Chat : Expire(c)
    BY <1>1, Spent DEF SendUpdate, BotRestarts, Fail, Expire
  <1>2. CASE Handle
    BY <1>2, HandlerFrame DEF HandlerLeaves
  <1>3. CASE FetchBatch \/ Begin \/ Timeout \/ ApiServe
    BY <1>3 DEF FetchBatch, Begin, Timeout, CallQuiet, ApiServe, Serve
  <1>4. CASE WebRead
    BY <1>4 DEF WebRead, WebBegin, ChatState, ScenarioType
  <1>5. CASE WebSnipe \/ WebDelete \/ WebSetting \/ WebRegister \/ WebCount \/ WebGrant
    BY <1>5 DEF WebSnipe, WebDelete, WebSetting, WebRegister, WebCount, WebGrant
  <1>. QED  BY <1>1, <1>2, <1>3, <1>4, <1>5 DEF ChatsNext, MiniApp

LEMMA RowStateKept ==
    ASSUME ChatInv, ChatsNext
    PROVE  RowState'
  <1>1. ConfigsTyped'
    BY ConfigsKept DEF ConfigsStep
  <1>2. accounts' \subseteq Person /\ agreed' \in [Person -> NoFee .. MaxFee] /\ referred' \subseteq Person
    <2>1. accounts \subseteq Person /\ agreed \in [Person -> NoFee .. MaxFee] /\ referred \subseteq Person
      BY DEF ChatInv, RowState
    <2>2. CASE UNCHANGED Users
      BY <2>1, <2>2 DEF Users
    <2>3. CASE CreateUser
      <3>1. Who \in Person
        BY <2>3, UnderWay DEF ChatInv, CreateUser, At, Idle
      <3>. QED  BY <2>1, <2>3, <3>1 DEF CreateUser, Users
    <2>4. CASE Agree
      <3>1. Who \in Person /\ cur.saw \in NoFee .. MaxFee
        BY <2>4, UnderWay DEF ChatInv, Agree, At, Idle, ConsentHeld, NoFee, MaxFee
      <3>. QED  BY <2>1, <2>4, <3>1 DEF Agree
    <2>5. CASE WebRegister
      <3>1. web.op.who \in Person
        BY <2>5 DEF WebRegister, WebWrites, ChatInv, ChatState, WebType, WebOpType, Idle
      <3>. QED  BY <2>1, <2>5, <3>1 DEF WebRegister
    <2>. QED  BY <2>2, <2>3, <2>4, <2>5, WritersAreFew DEF WhoWrites, UserWriters
  <1>3. wallets' \in [Key -> [owner : Person \cup {None}, active : BOOLEAN]]
    <2>1. wallets \in [Key -> [owner : Person \cup {None}, active : BOOLEAN]]
      BY DEF ChatInv, RowState
    <2>2. CASE UNCHANGED wallets
      BY <2>1, <2>2
    <2>3. CASE CreateWallet \/ ApplyImportWallet \/ ApplyRestore
      <3>1. Who \in Person
        BY <2>3, UnderWay DEF ChatInv, CreateWallet, ApplyImportWallet, ApplyRestore, Flowing, Tap, At, Idle
      <3>2. NewRow(Who) \in [owner : Person \cup {None}, active : BOOLEAN]
        BY <3>1 DEF NewRow
      <3>. QED  BY <2>1, <2>3, <3>2 DEF CreateWallet, ApplyImportWallet, ApplyRestore, RefusedText, ChatRows
    <2>4. CASE DeactivateWallet
      <3>1. wallets' = [wallets EXCEPT ![cur.u.n].active = wallets[cur.u.n].active /\ wallets[cur.u.n].owner # Who]
        BY <2>4 DEF DeactivateWallet
      <3>2. (wallets[cur.u.n].active /\ wallets[cur.u.n].owner # Who) \in BOOLEAN
        OBVIOUS
      <3>. DEFINE on == wallets[cur.u.n].active /\ wallets[cur.u.n].owner # Who
      <3>3. wallets' = [wallets EXCEPT ![cur.u.n].active = on] /\ on \in BOOLEAN
        BY <3>1, <3>2
      <3>. HIDE DEF on
      <3>. QED  BY <2>1, <3>3
    <2>. QED  BY <2>2, <2>3, <2>4, WritersAreFew DEF WhoWrites, WalletWriters
  <1>4. positions' \in [budget'.members -> [owner : Person, open : BOOLEAN, tp : Nat]]
    <2>1. positions \in [budget.members -> [owner : Person, open : BOOLEAN, tp : Nat]]
      BY DEF ChatInv, RowState
    <2>2. budget'.members = budget.members
      BY MembersStay
    <2>3. CASE UNCHANGED positions
      BY <2>1, <2>2, <2>3
    <2>4. CASE ApplyTakeProfit
      <3>1. cur.u.id \in Nat
        BY <2>4, UnderWay DEF ChatInv, ApplyTakeProfit, Flowing, At, Idle
      <3>. QED  BY <2>1, <2>2, <2>4, <3>1 DEF ApplyTakeProfit, RefusedText, ChatRows
    <2>5. CASE ApiServe
      <3>1. PICK r \in requests : \E a \in Answers(r) : Serve(r, a)
        BY <2>5 DEF ApiServe
      <3>2. PICK a \in Answers(r) : Serve(r, a)
        BY <3>1
      <3>3. positions' = [n \in DOMAIN positions |-> [positions[n] EXCEPT !.open = positions[n].open /\ n \notin a.close]]
        BY <3>2 DEF Serve
      <3>. QED  BY <2>1, <2>2, <3>3
    <2>. QED  BY <2>3, <2>4, <2>5, WritersAreFew DEF WhoWrites
  <1>. QED  BY <1>1, <1>2, <1>3, <1>4 DEF RowState, ConfigsTyped

\* The excuses are kept.
LEMMA ExcusesGrow ==
    ASSUME ChatInv, ChatsNext
    PROVE  excuses \subseteq excuses'
  <1>1. CASE SendUpdate \/ FetchBatch \/ Begin \/ BotRestarts \/ Fail \/ \E c \in Chat : Expire(c)
    BY <1>1 DEF SendUpdate, FetchBatch, Begin, BotRestarts, Fail, Expire
  <1>2. CASE Handle
    BY <1>2, HandlerFrame DEF HandlerLeaves
  <1>3. CASE Timeout \/ ApiServe
    BY <1>3 DEF Timeout, CallQuiet, ApiServe, Serve
  <1>4. CASE WebRead \/ WebDelete \/ WebRegister \/ WebCount
    BY <1>4 DEF WebRead, WebBegin, WebDelete, WebRegister, WebCount
  <1>5. CASE WebSnipe \/ WebSetting \/ WebGrant
    BY <1>5 DEF WebSnipe, WebSetting, WebGrant, Excuse
  <1>. QED  BY <1>1, <1>2, <1>3, <1>4, <1>5 DEF ChatsNext, MiniApp

\* Which step takes the update under way where.
Arrives ==
    \/ Begin /\ cur'.at \in {"user", "command"}
    \/ ReadUser /\ cur'.at \in {"create", "flow", "tap"}
    \/ CreateUser /\ cur'.at \in {"count", "flow", "tap"}
    \/ CountReferrals /\ cur'.at = "grant"
    \/ AcceptFeePolicy /\ cur'.at = "agree"
    \/ QuickStart /\ cur'.at = "room"
    \/ Room /\ cur'.at = "add"
    \/ Resume /\ cur'.at = "on"
    \/ CreateWallet /\ cur'.at = "seed"
    \/ (ClosePosition \/ CloseAll \/ PlanPurchase) /\ cur'.at = "waiting"
    \/ CheckFee /\ cur'.at = "fee"
    \/ CheckLevel /\ cur'.at = "level"

LEMMA Arrivals ==
    ASSUME ChatInv, ChatsNext, cur' # cur, cur' # Idle
    PROVE  Arrives
  <1>. USE DEF Arrives
  <1>0. cur # Idle => cur \in HandlingType
    BY DEF ChatInv, ChatState
  <1>1. CASE SendUpdate \/ FetchBatch \/ BotRestarts \/ Fail \/ \E c \in Chat : Expire(c)
    BY <1>1 DEF SendUpdate, FetchBatch, BotRestarts, Fail, Expire
  <1>2. CASE Begin
    <2>. DEFINE u == inbox[next]
    <2>1. AdminButton(u) \/ AdminText(u) \/ Command(u) \/ UiText(u) \/ UiButton(u)
      BY <1>2 DEF Begin
    <2>. HIDE DEF u
    <2>2. cur' = Idle \/ To("user", u) \/ To("command", u)
      BY <2>1 DEF AdminButton, AdminText, Command, UiText, UiButton
    <2>. QED  BY <1>2, <2>2 DEF To
  <1>3. CASE Timeout \/ ApiServe
    BY <1>3 DEF Timeout, TimesOut, ApiServe, Serve, Done
  <1>4. CASE MiniApp
    BY <1>4 DEF MiniApp, WebRead, WebBegin, WebSnipe, WebDelete, WebSetting, WebRegister, WebCount, WebGrant, Bot, Excuse
  <1>5. CASE Handle
    <2>. cur \in HandlingType
      BY <1>0, <1>5, HandlersAct
    <2>1. CASE ReadUser \/ CreateUser
      BY <2>1 DEF ReadUser, CreateUser, Goto, Done, Screen, HandlingType
    <2>2. CASE CountReferrals \/ AcceptFeePolicy \/ QuickStart \/ Room \/ Resume
      BY <2>2 DEF CountReferrals, AcceptFeePolicy, QuickStart, Room, Resume, Goto, Done, HandlingType
    <2>3. CASE CreateWallet
      BY <2>3 DEF CreateWallet, ShowSeed, HandlingType
    <2>4. CASE ClosePosition \/ CloseAll \/ PlanPurchase
      BY <2>4 DEF ClosePosition, CloseAll, PlanPurchase, Ask, Goto, Done, HandlingType
    <2>5. CASE CheckFee \/ CheckLevel
      BY <2>5 DEF CheckFee, CheckLevel, CheckSetting, Goto, Done, HandlingType
    <2>6. CASE Grant \/ Look \/ Agree \/ Add \/ SwitchOn \/ Pause \/ DeleteConfig \/ ApplyTrailingStopPreset \/ Prompt
      BY <2>6 DEF Grant, Look, Agree, Add, SwitchOn, Pause, DeleteConfig, ApplyTrailingStopPreset, Prompt, Done, Excuse, SetActive
    <2>7. CASE SendSeedPhrase \/ DeactivateWallet \/ ApplySettingsEdit \/ ApplyTakeProfit \/ ApplyImportWallet \/ ApplyBackup
               \/ RestoreFile \/ ApplyRestore
      BY <2>7 DEF SendSeedPhrase, DeactivateWallet, ApplySettingsEdit, ApplyTakeProfit, ApplyImportWallet, ApplyBackup, RestoreFile,
         ApplyRestore, Done
    <2>8. CASE PlanEdit \/ SetTreasuryWallet \/ SetPlatformFee \/ SetReferralLevel \/ SwitchAll
      BY <2>8 DEF PlanEdit, SetTreasuryWallet, SetPlatformFee, SetReferralLevel, SwitchAll, Done, Excuse, SetActive
    <2>. QED  BY <1>5, <2>1, <2>2, <2>3, <2>4, <2>5, <2>6, <2>7, <2>8 DEF Handle
  <1>. QED  BY <1>1, <1>2, <1>3, <1>4, <1>5 DEF ChatsNext

\* Which step takes the Mini App's request where.
WebArrives ==
    \/ \E op \in budget.web : WebBegin(op) /\ Passes(op) /\ web' = [at |-> "write", op |-> op]
    \/ WebRegister /\ web' = [web EXCEPT !.at = "count"]
    \/ WebCount /\ web' = [web EXCEPT !.at = "grant"]

LEMMA WebArrivals ==
    ASSUME ChatInv, ChatsNext, web' # web, web' # Idle
    PROVE  WebArrives
  <1>. USE DEF WebArrives
  <1>1. CASE SendUpdate \/ FetchBatch \/ Begin \/ BotRestarts \/ Fail \/ \E c \in Chat : Expire(c)
    BY <1>1 DEF SendUpdate, FetchBatch, Begin, BotRestarts, Fail, Expire
  <1>2. CASE Handle
    BY <1>2, HandlerFrame DEF HandlerLeaves
  <1>3. CASE Timeout \/ ApiServe
    BY <1>3 DEF Timeout, CallQuiet, ApiServe, Serve, Quiet
  <1>4. CASE WebRead
    BY <1>4 DEF WebRead, WebBegin
  <1>5. CASE WebSnipe \/ WebDelete \/ WebSetting \/ WebGrant
    BY <1>5 DEF WebSnipe, WebDelete, WebSetting, WebGrant
  <1>6. CASE WebRegister \/ WebCount
    BY <1>6 DEF WebRegister, WebCount
  <1>. QED  BY <1>1, <1>2, <1>3, <1>4, <1>5, <1>6 DEF ChatsNext, MiniApp

\* A write of the Mini App begins with what its read let through.
LEMMA WebWritesBegin ==
    ASSUME ChatInv, ChatsNext, web' # web, web'.at = "write"
    PROVE  \E op \in budget.web : WebBegin(op) /\ Passes(op) /\ web' = [at |-> "write", op |-> op]
  <1>1. web' # Idle
    BY DEF Idle
  <1>2. ~(WebRegister /\ web' = [web EXCEPT !.at = "count"])
    BY DEF WebRegister, WebWrites, ChatInv, ChatState, WebType, Idle
  <1>3. ~(WebCount /\ web' = [web EXCEPT !.at = "grant"])
    BY DEF WebCount, ChatInv, ChatState, WebType, Idle
  <1>. QED  BY <1>1, <1>2, <1>3, WebArrivals DEF WebArrives

LEMMA OwnStaysFinite ==
    ASSUME ConfigsTyped', NEW p
    PROVE  Cardinality(Own(p)') \in Nat
  <1>1. Own(p)' \in SUBSET configs'
    BY DEF Own
  <1>2. IsFiniteSet(Own(p)')
    BY <1>1, FS_Subset DEF ConfigsTyped
  <1>. QED  BY <1>2, FS_CardinalityType

LEMMA CapKept ==
    ASSUME ChatInv, ChatsNext
    PROVE  CapHeld'
  <1>0. /\ MaxConfigs \in Nat /\ Referrer \in Person /\ ConfigsTyped /\ rewards \in Nat
        /\ excuses \subseteq excuses' /\ (cur # Idle => Who \in Person) /\ (web # Idle => web.op.who \in Person)
    <2>1. MaxConfigs \in Nat /\ Referrer \in Person
      BY ChatsAssumption DEF ChatsAssumption
    <2>2. ConfigsTyped /\ rewards \in Nat
      BY DEF ChatInv, RowState, RewardHeld, ConfigsTyped
    <2>3. (cur # Idle => Who \in Person) /\ (web # Idle => web.op.who \in Person)
      BY UnderWay DEF ChatInv, ChatState, WebType, WebOpType
    <2>. QED  BY <2>1, <2>2, <2>3, ExcusesGrow
  <1>1. rewards' \in Nat /\ (rewards > 0 => rewards' > 0) /\ (Grant \/ WebGrant => rewards' > 0)
    BY <1>0, WritersAreFew DEF WhoWrites, Grant, WebGrant, Granted
  <1>2. \A p \in Person : Cardinality(Own(p)) \in Nat /\ Cardinality(Own(p)') \in Nat
    BY <1>0, OwnIsFinite, ConfigsKept, OwnStaysFinite DEF ConfigsStep
  <1>3. \A p \in Person : CapExcused(p) => CapExcused(p)'
    BY <1>0, <1>1 DEF CapExcused
  <1>4. \A p \in Person : NoRowMore(p) \/ (OneRowMore(p) /\ Created(p))
    BY ConfigsKept DEF ConfigsStep
  <1>5. ASSUME NEW p \in Person
        PROVE  Cardinality(Own(p)') <= MaxConfigs \/ CapExcused(p)'
    <2>1. Cardinality(Own(p)) <= MaxConfigs \/ CapExcused(p)
      BY DEF ChatInv, CapHeld
    <2>2. CASE NoRowMore(p)
      BY <1>0, <1>2, <1>3, <2>1, <2>2 DEF NoRowMore
    <2>3. CASE OneRowMore(p) /\ (Grant \/ WebGrant) /\ p = Referrer
      BY <1>1, <2>3 DEF CapExcused
    <2>4. CASE OneRowMore(p) /\ Add /\ p = Who
      <3>1. HasRoom(p) \/ CapExcused(p)
        BY <2>4 DEF Add, At, ChatInv, CapHeld
      <3>. QED  BY <1>0, <1>2, <1>3, <2>4, <3>1 DEF HasRoom, OneRowMore
    <2>5. CASE OneRowMore(p) /\ WebSnipe /\ p = web.op.who
      <3>1. HasRoom(p) \/ CapExcused(p)
        BY <2>5 DEF WebSnipe, ChatInv, CapHeld
      <3>. QED  BY <1>0, <1>2, <1>3, <2>5, <3>1 DEF HasRoom, OneRowMore
    <2>. QED  BY <1>4, <2>2, <2>3, <2>4, <2>5 DEF Created
  <1>6. ASSUME NEW p \in Person, HasRoom(p) \/ CapExcused(p), ~Created(p)
        PROVE  Cardinality(Own(p)') < MaxConfigs \/ CapExcused(p)'
    <2>1. NoRowMore(p)
      BY <1>4, <1>6
    <2>. QED  BY <1>0, <1>2, <1>3, <1>6, <2>1 DEF NoRowMore, HasRoom
  <1>7. ASSUME cur'.at = "add"
        PROVE  HasRoom(Who)' \/ CapExcused(Who)'
    <2>1. CASE cur' # cur
      <3>1. Room /\ cur' # Idle
        BY <1>7, <2>1, Arrivals DEF Arrives, Idle
      <3>2. HasRoom(Who) /\ Who' = Who /\ configs' = configs /\ cur # Idle
        BY <1>7, <3>1, HandlersAct, HandlerFrame DEF Room, Goto, Done, Idle, Nothing, ChatRows, HandlerLeaves, Who, Handle
      <3>. QED  BY <3>2 DEF HasRoom, Own
    <2>2. CASE cur' = cur
      <3>1. Who \in Person /\ (HasRoom(Who) \/ CapExcused(Who)) /\ Who' = Who
        BY <1>0, <1>7, <2>2 DEF ChatInv, CapHeld, Idle, Who
      <3>2. CASE ~Created(Who)
        <4>1. Cardinality(Own(Who)') < MaxConfigs \/ CapExcused(Who)'
          BY <1>6, <3>1, <3>2
        <4>. QED  BY <2>2, <3>1, <4>1 DEF HasRoom, Own, CapExcused
      <3>3. CASE Created(Who)
        <4>1. ~Add /\ ~Grant
          BY <1>7, <2>2 DEF Add, Grant, Done, At, Idle
        <4>2. WebGrant /\ Who = Referrer => CapExcused(Who)'
          BY <1>1, <3>1 DEF CapExcused
        <4>3. WebSnipe /\ Who = web.op.who => CapExcused(Who)'
          BY <1>7, <2>2 DEF WebSnipe, Excuse, At, CapExcused
        <4>. QED  BY <3>3, <4>1, <4>2, <4>3 DEF Created
      <3>. QED  BY <3>2, <3>3
    <2>. QED  BY <2>1, <2>2
  <1>8. ASSUME WebWrites({"snipe"})'
        PROVE  HasRoom(web.op.who)' \/ CapExcused(web.op.who)'
    <2>0. web'.at = "write" /\ web'.op.k = "snipe" /\ web' # Idle
      BY <1>8 DEF WebWrites, Idle
    <2>. PICK p \in Person : p = web'.op.who
      BY <2>0, ChatStateKept DEF ChatState, WebType, WebOpType
    <2>1. CASE web' # web
      <3>1. PICK op \in budget.web : WebBegin(op) /\ Passes(op) /\ web' = [at |-> "write", op |-> op]
        BY <2>0, <2>1, WebWritesBegin
      <3>2. Cardinality(Own(op.who)) < MaxConfigs /\ configs' = configs /\ p = op.who
        <4>1. op.k = "snipe" /\ p = op.who /\ configs' = configs
          BY <2>0, <3>1 DEF WebBegin, ChatRows
        <4>. QED  BY <3>1, <4>1 DEF Passes
      <3>. QED  BY <3>2 DEF HasRoom, Own
    <2>2. CASE web' = web
      <3>1. p \in Person /\ (HasRoom(p) \/ CapExcused(p)) /\ p = web.op.who
        BY <1>0, <1>8, <2>0, <2>2 DEF ChatInv, CapHeld, WebWrites
      <3>2. CASE ~Created(p)
        <4>1. Cardinality(Own(p)') < MaxConfigs \/ CapExcused(p)'
          BY <1>6, <3>1, <3>2
        <4>. QED  BY <2>2, <3>1, <4>1 DEF HasRoom, Own, CapExcused
      <3>3. CASE Created(p)
        <4>1. ~WebSnipe /\ ~WebGrant
          BY <2>0, <2>2 DEF WebSnipe, WebGrant, WebWrites, Idle
        <4>2. Grant /\ p = Referrer => CapExcused(p)'
          BY <1>1 DEF CapExcused
        <4>3. Add => "config" \in excuses'
          BY <2>0, <2>2 DEF Add, Excuse
        <4>. QED  BY <2>2, <3>1, <3>3, <4>1, <4>2, <4>3 DEF Created, CapExcused
      <3>. QED  BY <3>2, <3>3
    <2>. QED  BY <2>1, <2>2
  <1>. QED  BY <1>5, <1>7, <1>8 DEF CapHeld

\* Who takes an update on from the account, the count of the referrals,
\* the reward and the seed phrase.
LEMMA LeavesEntry ==
    ASSUME ChatInv, ChatsNext, cur.at \in {"user", "create", "count", "grant", "seed"}, cur' # cur
    PROVE  \/ ReadUser /\ cur.at = "user"
           \/ CreateUser /\ cur.at = "create"
           \/ CountReferrals /\ cur.at = "count"
           \/ Grant /\ cur.at = "grant"
           \/ SendSeedPhrase /\ cur.at = "seed"
           \/ Fail \/ BotRestarts
  <1>1. CASE SendUpdate \/ FetchBatch \/ Begin \/ \E c \in Chat : Expire(c)
    BY <1>1 DEF SendUpdate, FetchBatch, Begin, Expire
  <1>2. CASE Timeout \/ ApiServe
    BY <1>2 DEF Timeout, TimesOut, ApiServe, Serve, AwaitedBy, At
  <1>3. CASE MiniApp
    BY <1>3 DEF MiniApp, WebRead, WebBegin, WebSnipe, WebDelete, WebSetting, WebRegister, WebCount, WebGrant, Bot, Excuse
  <1>4. CASE Handle
    <2>1. ~(Look \/ AcceptFeePolicy \/ Agree \/ QuickStart \/ Room \/ Add \/ Resume \/ SwitchOn)
      BY DEF Look, AcceptFeePolicy, Agree, QuickStart, Room, Add, Resume, SwitchOn, Tap, At, Excuse, SetActive
    <2>2. ~(Pause \/ DeleteConfig \/ ApplyTrailingStopPreset \/ Prompt \/ CreateWallet \/ DeactivateWallet)
      BY DEF Pause, DeleteConfig, ApplyTrailingStopPreset, Prompt, CreateWallet, DeactivateWallet, Tap, At, SetActive
    <2>3. ~(ApplySettingsEdit \/ ApplyTakeProfit \/ ApplyImportWallet \/ ApplyBackup \/ RestoreFile \/ ApplyRestore)
      BY DEF ApplySettingsEdit, ApplyTakeProfit, ApplyImportWallet, ApplyBackup, RestoreFile, ApplyRestore, Flowing, At
    <2>4. ~(ClosePosition \/ CloseAll \/ PlanPurchase)
      BY DEF ClosePosition, CloseAll, PlanPurchase, Tap, At
    <2>5. ~(PlanEdit \/ SetTreasuryWallet \/ CheckFee \/ CheckLevel \/ SetPlatformFee \/ SetReferralLevel \/ SwitchAll)
      BY DEF PlanEdit, SetTreasuryWallet, CheckFee, CheckLevel, CheckSetting, SetPlatformFee, SetReferralLevel, SwitchAll, Edits,
         Commanded, At, Excuse, SetActive
    <2>. QED  BY <1>4, <2>1, <2>2, <2>3, <2>4, <2>5 DEF Handle, ReadUser, CreateUser, CountReferrals, Grant, SendSeedPhrase, At
  <1>. QED  BY <1>1, <1>2, <1>3, <1>4 DEF ChatsNext

\* The same of the Mini App's request.
LEMMA WebLeavesReward ==
    ASSUME ChatInv, ChatsNext, web.at \in {"count", "grant"}, web' # web
    PROVE  (WebCount /\ web.at = "count") \/ (WebGrant /\ web.at = "grant")
  <1>1. CASE SendUpdate \/ FetchBatch \/ Begin \/ BotRestarts \/ Fail \/ \E c \in Chat : Expire(c)
    BY <1>1 DEF SendUpdate, FetchBatch, Begin, BotRestarts, Fail, Expire
  <1>2. CASE Handle
    BY <1>2, HandlerFrame DEF HandlerLeaves
  <1>3. CASE Timeout \/ ApiServe
    BY <1>3 DEF Timeout, CallQuiet, ApiServe, Serve, Quiet
  <1>4. CASE WebRead \/ WebSnipe \/ WebDelete \/ WebSetting \/ WebRegister
    BY <1>4 DEF WebRead, WebBegin, WebSnipe, WebDelete, WebSetting, WebRegister, WebWrites
  <1>. QED  BY <1>1, <1>2, <1>3, <1>4 DEF ChatsNext, MiniApp, WebCount, WebGrant

LEMMA RewardKept ==
    ASSUME ChatInv, ChatsNext
    PROVE  RewardHeld'
  <1>0. RewardHeld /\ excuses \subseteq excuses' /\ rewards \in 0 .. 2
    BY ExcusesGrow DEF ChatInv, RewardHeld
  <1>1. rewards' = rewards \/ ((Grant \/ WebGrant) /\ rewards' = rewards + 1)
    BY WritersAreFew DEF WhoWrites, Grant, WebGrant, Granted
  <1>2. Grant => cur.at = "grant" /\ cur' = Idle /\ (web.at = "grant" => "reward" \in excuses')
    BY DEF Grant, At, Done, Excuse
  <1>3. WebGrant => web.at = "grant" /\ web' = Idle /\ cur' = cur /\ (cur.at = "grant" => "reward" \in excuses')
    BY DEF WebGrant, Excuse, At, Bot
  <1>4. cur'.at = "grant" => cur' = cur \/ (rewards = 0 /\ rewards' = 0)
    <2>. SUFFICES ASSUME cur'.at = "grant", cur' # cur PROVE rewards = 0 /\ rewards' = 0
      OBVIOUS
    <2>1. CountReferrals
      BY Arrivals DEF Arrives, Idle
    <2>2. Crossed /\ rewards' = rewards
      BY <2>1 DEF CountReferrals, Done, Idle, ChatRows
    <2>. QED  BY <2>2 DEF Crossed
  <1>5. web'.at = "grant" => web' = web \/ (rewards = 0 /\ rewards' = 0)
    <2>. SUFFICES ASSUME web'.at = "grant", web' # web PROVE rewards = 0 /\ rewards' = 0
      OBVIOUS
    <2>1. WebCount
      <3>1. WebRegister => web'.at # "grant"
        BY DEF WebRegister, WebWrites, ChatInv, ChatState, WebType, Idle
      <3>. QED  BY <3>1, WebArrivals DEF WebArrives, Idle
    <2>2. Crossed /\ rewards' = rewards
      BY <2>1 DEF WebCount, Idle, ChatRows
    <2>. QED  BY <2>2 DEF Crossed
  <1>6. rewards' \in 0 .. 2 /\ (rewards' > 1 => "reward" \in excuses')
    BY <1>0, <1>1, <1>2, <1>3 DEF RewardHeld
  <1>7. cur'.at = "grant" /\ web'.at = "grant" => rewards' = 0
    BY <1>0, <1>1, <1>2, <1>3, <1>4, <1>5 DEF RewardHeld, Idle
  <1>8. cur'.at = "grant" \/ web'.at = "grant" => rewards' = 0 \/ (rewards' = 1 /\ "reward" \in excuses')
    BY <1>0, <1>1, <1>2, <1>3, <1>4, <1>5 DEF RewardHeld, Idle
  <1>9. ASSUME cur'.at \notin {"count", "grant"}, web'.at \notin {"count", "grant"}, Cardinality(referred') >= RewardAt
        PROVE  rewards' > 0 \/ "fault" \in excuses'
    <2>1. rewards > 0 => rewards' > 0
      BY <1>0, <1>1
    <2>2. Grant \/ WebGrant => rewards' > 0
      BY <1>0 DEF Grant, WebGrant, Granted
    <2>3. referred' = referred
      <3>1. ~(CreateUser /\ referred' # referred)
        BY <1>9 DEF CreateUser, Goto, Users, ChatInv, ChatState, HandlingType, At, Idle
      <3>2. ~(WebRegister /\ referred' # referred)
        BY <1>9 DEF WebRegister, ChatInv, ChatState, WebType, WebWrites, Idle
      <3>. QED  BY <3>1, <3>2, WritersAreFew DEF WhoWrites, UserWriters, Users, Agree
    <2>4. CASE cur.at \in {"count", "grant"}
      <3>1. cur' # cur
        BY <1>9, <2>4
      <3>2. CASE CountReferrals /\ cur.at = "count"
        <4>1. ~Crossed
          BY <1>9, <3>2 DEF CountReferrals, Goto, ChatInv, ChatState, HandlingType, Idle
        <4>. QED  BY <1>0, <1>9, <2>1, <2>3, <4>1 DEF Crossed
      <3>3. CASE Fail \/ BotRestarts
        BY <3>3 DEF Fail, BotRestarts
      <3>. QED  BY <2>2, <2>4, <3>1, <3>2, <3>3, LeavesEntry DEF ReadUser, CreateUser, SendSeedPhrase, At
    <2>5. CASE web.at \in {"count", "grant"}
      <3>1. web' # web
        BY <1>9, <2>5
      <3>2. CASE WebCount /\ web.at = "count"
        <4>1. ~Crossed
          BY <1>9, <3>2 DEF WebCount, ChatInv, ChatState, WebType, Idle
        <4>. QED  BY <1>0, <1>9, <2>1, <2>3, <4>1 DEF Crossed
      <3>. QED  BY <2>2, <2>5, <3>1, <3>2, WebLeavesReward
    <2>6. CASE cur.at \notin {"count", "grant"} /\ web.at \notin {"count", "grant"}
      BY <1>0, <1>9, <2>1, <2>3, <2>6 DEF RewardHeld
    <2>. QED  BY <2>4, <2>5, <2>6
  <1>. QED  BY <1>6, <1>7, <1>8, <1>9 DEF RewardHeld

\* Only taking up an update counts it, and only a restart goes back.
LEMMA TakesUp == ASSUME ChatInv, ChatsNext PROVE UNCHANGED <<runs, next>> \/ Begin \/ BotRestarts
  <1>1. CASE SendUpdate \/ FetchBatch \/ Fail \/ \E c \in Chat : Expire(c)
    BY <1>1 DEF SendUpdate, FetchBatch, Fail, Expire, Telegram
  <1>2. CASE Handle
    BY <1>2, HandlerFrame DEF HandlerLeaves, Telegram
  <1>3. CASE Timeout \/ ApiServe
    BY <1>3 DEF Timeout, CallQuiet, ApiServe, Serve, Quiet, Telegram
  <1>4. CASE MiniApp
    BY <1>4 DEF MiniApp, WebRead, WebBegin, WebSnipe, WebDelete, WebSetting, WebRegister, WebCount, WebGrant, Bot, Telegram, Excuse
  <1>. QED  BY <1>1, <1>2, <1>3, <1>4 DEF ChatsNext

LEMMA TakenUpOnceKept ==
    ASSUME ChatInv, ChatsNext
    PROVE  TakenUpOnce'
  <1>0. /\ requests \subseteq [id : Nat, run : Nat, k : STRING, n : Nat, who : Person] /\ bought \subseteq [id : Nat, run : Nat]
        /\ runs \in [1 .. MaxUpdates -> Nat] /\ next \in Nat /\ MaxUpdates \in Nat
        /\ "restart" \notin excuses' => "restart" \notin excuses
        /\ "restart" \notin excuses => /\ \A i \in 1 .. MaxUpdates : runs[i] = IF i < next THEN 1 ELSE 0
                                       /\ \A r \in requests : r.run = 1
                                       /\ \A b \in bought : b.run = 1
    BY ExcusesGrow DEF ChatInv, ChatState, TakenUpOnce, MaxUpdates
  <1>1. "restart" \notin excuses' => \A i \in 1 .. MaxUpdates : runs'[i] = IF i < next' THEN 1 ELSE 0
    <2>1. CASE UNCHANGED <<runs, next>>
      BY <1>0, <2>1
    <2>2. CASE Begin
      <3>1. next \in 1 .. MaxUpdates /\ inbox[next].id = next
        BY <2>2 DEF Begin, ChatInv, ChatState, MaxUpdates
      <3>2. runs' = [runs EXCEPT ![next] = runs[next] + 1] /\ next' = next + 1
        BY <2>2, <3>1 DEF Begin
      <3>. QED  BY <1>0, <3>1, <3>2
    <2>3. CASE BotRestarts
      BY <2>3 DEF BotRestarts
    <2>. QED  BY <2>1, <2>2, <2>3, TakesUp
  <1>2. /\ requests' \subseteq [id : Nat, run : Nat, k : STRING, n : Nat, who : Person]
        /\ "restart" \notin excuses' => \A r \in requests' : r.run = 1
    <2>1. CASE UNCHANGED requests
      BY <1>0, <2>1
    <2>2. CASE ClosePosition \/ CloseAll \/ PlanPurchase
      <3>1. requests' = requests \/ requests' = requests \cup {Request}
        BY <2>2 DEF ClosePosition, CloseAll, PlanPurchase, Ask
      <3>2. /\ cur.u \in UpdateType /\ cur.u.id = next - 1 /\ next - 1 \in 1 .. MaxUpdates /\ Who \in Person
        BY <2>2, UnderWay, HandlersAct DEF ChatInv, Handle
      <3>3. Request \in [id : Nat, run : Nat, k : STRING, n : Nat, who : Person] /\ Request.run = runs[next - 1]
        BY <1>0, <3>2 DEF Request, UpdateType
      <3>. QED  BY <1>0, <3>1, <3>2, <3>3
    <2>3. CASE ApiServe
      BY <1>0, <2>3 DEF ApiServe, Serve
    <2>. QED  BY <2>1, <2>2, <2>3, WritersAreFew DEF WhoWrites
  <1>3. /\ bought' \subseteq [id : Nat, run : Nat]
        /\ "restart" \notin excuses' => \A b \in bought' : b.run = 1
    <2>1. CASE UNCHANGED bought
      BY <1>0, <2>1
    <2>2. CASE ApiServe
      <3>1. PICK r \in requests : \E a \in Answers(r) : Serve(r, a)
        BY <2>2 DEF ApiServe
      <3>2. bought' = bought \/ bought' = bought \cup {[id |-> r.id, run |-> r.run]}
        BY <3>1 DEF Serve
      <3>. QED  BY <1>0, <3>1, <3>2
    <2>. QED  BY <2>1, <2>2, WritersAreFew DEF WhoWrites
  <1>. QED  BY <1>1, <1>2, <1>3 DEF TakenUpOnce

\* A position that is closed stays closed.
LEMMA ClosedStaysClosed ==
    ASSUME ChatInv, ChatsNext, NEW n \in budget.members, ~positions[n].open
    PROVE  ~positions'[n].open
  <1>0. positions \in [budget.members -> [owner : Person, open : BOOLEAN, tp : Nat]]
    BY DEF ChatInv, RowState
  <1>1. CASE UNCHANGED positions
    BY <1>1
  <1>2. CASE ApplyTakeProfit
    BY <1>0, <1>2 DEF ApplyTakeProfit, RefusedText, ChatRows
  <1>3. CASE ApiServe
    BY <1>0, <1>3 DEF ApiServe, Serve
  <1>. QED  BY <1>1, <1>2, <1>3, WritersAreFew DEF WhoWrites

LEMMA ClosesKept ==
    ASSUME ChatInv, ChatsNext
    PROVE  ClosesAreTrue'
  <1>0. /\ budget'.members = budget.members /\ \A r \in requests : r.k = "close" => r.n \in budget.members
        /\ \A t \in told : t.what = "closed" => t.n \in budget.members /\ ~positions[t.n].open
    BY MembersStay DEF ChatInv, ClosesAreTrue
  <1>1. ASSUME NEW r \in requests', r.k = "close"
        PROVE  r.n \in budget'.members
    <2>1. CASE UNCHANGED requests \/ ApiServe
      BY <1>0, <1>1, <2>1 DEF ApiServe, Serve
    <2>2. CASE ClosePosition \/ CloseAll \/ PlanPurchase
      <3>1. requests' = requests \/ requests' = requests \cup {Request}
        BY <2>2 DEF ClosePosition, CloseAll, PlanPurchase, Ask
      <3>2. cur.u.k = "close" => cur.u.n \in budget.members
        BY <2>2, UnderWay, HandlersAct DEF ChatInv, Handle, Sensible
      <3>. QED  BY <1>0, <1>1, <3>1, <3>2 DEF Request
    <2>. QED  BY <2>1, <2>2, WritersAreFew DEF WhoWrites
  <1>2. ASSUME NEW t \in told', t.what = "closed"
        PROVE  t.n \in budget'.members /\ ~positions'[t.n].open
    <2>1. CASE t \in told
      BY <1>0, <1>2, <2>1, ClosedStaysClosed
    <2>2. CASE t \notin told
      <3>1. ClosePosition \/ Timeout => t \in told
        BY <1>2 DEF ClosePosition, Ask, Tell, Timeout, TimesOut
      <3>2. ApiServe
        BY <1>2, <2>2, <3>1, WritersAreFew DEF WhoWrites
      <3>3. PICK r \in requests : \E a \in Answers(r) : Serve(r, a)
        BY <3>2 DEF ApiServe
      <3>4. PICK a \in Answers(r) : Serve(r, a)
        BY <3>3
      <3>5. AwaitedBy(r) /\ t = [id |-> cur.u.id, n |-> cur.u.n, what |-> Says(r.k, a)]
        BY <1>2, <2>2, <3>4 DEF Serve, Tell
      <3>6. Says(r.k, a) = "closed" /\ t.n = r.n
        BY <1>2, <3>5 DEF AwaitedBy, Request
      <3>7. a.ok /\ (a.signed \/ a.closed) /\ r.k \notin {"buy", "closeall"}
        BY <3>6 DEF Says
      <3>8. r.k = "close" /\ a.close = {r.n}
        BY <3>4, <3>7 DEF Answers
      <3>9. r.n \in budget.members
        BY <1>0, <3>8
      <3>10. positions' = [n \in DOMAIN positions |-> [positions[n] EXCEPT !.open = positions[n].open /\ n \notin a.close]]
        BY <3>4 DEF Serve
      <3>11. positions \in [budget.members -> [owner : Person, open : BOOLEAN, tp : Nat]]
        BY DEF ChatInv, RowState
      <3>. QED  BY <1>0, <3>6, <3>8, <3>9, <3>10, <3>11
    <2>. QED  BY <2>1, <2>2
  <1>. QED  BY <1>1, <1>2 DEF ClosesAreTrue

\* What people sent stays sent.
LEMMA InboxGrows ==
    ASSUME ChatInv, ChatsNext
    PROVE  \A i \in 1 .. Len(inbox) : inbox'[i] = inbox[i]
  <1>1. CASE SendUpdate
    <2>1. PICK tap \in budget.taps : inbox' = Append(inbox, [tap EXCEPT !.id = Len(inbox) + 1])
      BY <1>1 DEF SendUpdate
    <2>. DEFINE new == [tap EXCEPT !.id = Len(inbox) + 1]
    <2>2. inbox \in Seq(UpdateType) /\ Len(inbox) \in Nat /\ tap \in UpdateType
      BY LenProperties DEF ChatInv, ChatState, ScenarioType
    <2>3. new \in UpdateType
      BY <2>2 DEF UpdateType
    <2>. HIDE DEF new
    <2>. QED  BY <2>1, <2>2, <2>3, AppendProperties DEF new
  <1>2. CASE FetchBatch \/ Begin \/ BotRestarts \/ Fail \/ \E c \in Chat : Expire(c)
    BY <1>2 DEF FetchBatch, Begin, BotRestarts, Fail, Expire, Telegram
  <1>3. CASE Handle
    BY <1>3, HandlerFrame DEF HandlerLeaves, Telegram
  <1>4. CASE Timeout \/ ApiServe
    BY <1>4 DEF Timeout, CallQuiet, ApiServe, Serve, Quiet, Telegram
  <1>5. CASE MiniApp
    BY <1>5 DEF MiniApp, WebRead, WebBegin, WebSnipe, WebDelete, WebSetting, WebRegister, WebCount, WebGrant, Bot, Telegram, Excuse
  <1>. QED  BY <1>1, <1>2, <1>3, <1>4, <1>5 DEF ChatsNext

\* A flow is opened by the button being handled, or goes on with its age.
LEMMA FlowsAge ==
    ASSUME ChatInv, ChatsNext, NEW c \in Chat, pend'[c] # Idle
    PROVE  \/ pend[c] # Idle /\ pend'[c].by = pend[c].by
           \/ pend'[c].by = next - 1 /\ next' = next
  <1>0. pend \in [Chat -> {Idle} \cup FlowType]
    BY DEF ChatInv, ChatState
  <1>1. CASE UNCHANGED pend
    BY <1>1
  <1>2. CASE ReadUser \/ CreateUser
    BY <1>0, <1>2 DEF ReadUser, CreateUser, ExitsFlow
  <1>3. CASE Prompt
    <2>1. cur.u.id = next - 1 /\ next' = next
      BY <1>3, UnderWay, HandlersAct, HandlerFrame DEF ChatInv, Handle, HandlerLeaves, Telegram
    <2>. QED  BY <1>0, <1>3, <2>1 DEF Prompt
  <1>4. CASE ApplySettingsEdit \/ ApplyTakeProfit \/ ApplyImportWallet \/ ApplyBackup \/ ApplyRestore
    BY <1>0, <1>4 DEF ApplySettingsEdit, ApplyTakeProfit, ApplyImportWallet, ApplyBackup, ApplyRestore, Ends, RefusedText
  <1>5. CASE RestoreFile
    <2>1. pend[Here] \in FlowType /\ Here \in Chat
      BY <1>0, <1>5, UnderWay, HandlersAct DEF RestoreFile, Flowing, Idle, ChatInv, Handle
    <2>2. pend' = [pend EXCEPT ![Here] = [pend[Here] EXCEPT !.at = "restorepw", !.of = cur.u.n]] \/ pend' = pend
      BY <1>0, <1>5, <2>1 DEF RestoreFile, FlowType
    <2>3. [pend[Here] EXCEPT !.at = "restorepw", !.of = cur.u.n].by = pend[Here].by /\ pend[Here] # Idle
      BY <2>1, <1>5 DEF FlowType, Idle, RestoreFile, Flowing
    <2>. QED  BY <1>0, <2>1, <2>2, <2>3
  <1>6. CASE BotRestarts
    BY <1>6 DEF BotRestarts
  <1>. QED  BY <1>1, <1>2, <1>3, <1>4, <1>5, <1>6, WritersAreFew DEF WhoWrites, FlowWriters

LEMMA FlowsKept ==
    ASSUME ChatInv, ChatsNext
    PROVE  FlowsAreNew'
  <1>. SUFFICES ASSUME {"fault", "create"} \cap excuses' = {}, NEW c \in Chat, pend'[c] # Idle,
                       NEW i \in pend'[c].by + 1 .. next' - 1, inbox'[i].c = c, inbox'[i].k \in Leaving
                PROVE  i = next' - 1 /\ cur'.at \in {"user", "create"}
    BY DEF FlowsAreNew
  <1>0. /\ {"fault", "create"} \cap excuses = {} /\ pend \in [Chat -> {Idle} \cup FlowType] /\ Len(inbox) \in Nat
        /\ next \in Nat /\ next > 0 /\ next - 1 <= Len(inbox)
        /\ \A d \in Chat : pend[d] # Idle => pend[d].by \in Nat
    BY ExcusesGrow, LenProperties DEF ChatInv, ChatState, FlowType
  <1>1. ~BotRestarts /\ ~Fail
    BY DEF BotRestarts, Fail
  <1>2. pend[c] # Idle /\ pend'[c].by = pend[c].by
    BY <1>0, FlowsAge
  <1>3. CASE Begin
    <2>1. next' = next + 1 /\ next <= Len(inbox) /\ cur.at = "idle"
      BY <1>3 DEF Begin, ChatInv, ChatState
    <2>2. i \in 1 .. Len(inbox) /\ inbox'[i] = inbox[i]
      BY <1>0, <1>2, <2>1, InboxGrows
    <2>3. ~(i <= next - 1)
      BY <1>0, <1>2, <2>1, <2>2 DEF ChatInv, FlowsAreNew
    <2>4. i = next
      BY <1>0, <1>2, <2>1, <2>2, <2>3
    <2>. DEFINE u == inbox[next]
    <2>5. AdminButton(u) \/ AdminText(u) \/ Command(u) \/ UiText(u) \/ UiButton(u)
      BY <1>3 DEF Begin
    <2>6. u.k \in Leaving
      BY <2>2, <2>4
    <2>. HIDE DEF u
    <2>7. UiButton(u)
      BY <2>5, <2>6 DEF AdminButton, AdminText, Command, UiText, Text, Slash, Leaving, Buttons
    <2>. QED  BY <2>1, <2>4, <2>7 DEF UiButton, To
  <1>4. CASE UNCHANGED <<runs, next>>
    <2>1. i \in 1 .. Len(inbox) /\ inbox'[i] = inbox[i] /\ i \in pend[c].by + 1 .. next - 1
      BY <1>0, <1>2, <1>4, InboxGrows
    <2>2. i = next - 1 /\ cur.at \in {"user", "create"}
      BY <1>0, <1>2, <2>1 DEF ChatInv, FlowsAreNew
    <2>3. cur.u = inbox[i] /\ cur \in HandlingType /\ Here = c /\ cur.u.k \in Leaving
      BY <2>1, <2>2, UnderWay DEF ChatInv, Idle, Here
    <2>4. cur' = cur \/ cur'.at = "create"
      <3>. SUFFICES ASSUME cur' # cur PROVE cur'.at = "create"
        OBVIOUS
      <3>1. CASE ReadUser
        BY <1>0, <1>2, <2>3, <3>1 DEF ReadUser, ExitsFlow, Goto, HandlingType, Here
      <3>2. CASE CreateUser
        <4>1. ~(cur.u.x = "start")
          BY <2>2, <2>3, UnderWay DEF Sensible, Leaving, Buttons, ChatInv, Idle
        <4>2. "create" \in excuses' \/ ExitsFlow(cur.u)
          BY <3>2, <4>1 DEF CreateUser
        <4>. QED  BY <1>0, <2>3, <4>2 DEF ExitsFlow, Here
      <3>. QED  BY <1>1, <2>2, <3>1, <3>2, LeavesEntry DEF CountReferrals, Grant, SendSeedPhrase, At
    <2>. QED  BY <1>4, <2>2, <2>4
  <1>. QED  BY <1>1, <1>3, <1>4, TakesUp

\* An update is carried on with what its handler holds; the account read at
\* the start is all that changes it.
LEMMA CarriedOn ==
    ASSUME ChatInv, ChatsNext, cur' # cur, cur' # Idle
    PROVE  \/ Begin /\ cur'.mine = NoFee
           \/ ReadUser /\ cur'.u = cur.u /\ cur'.mine \in {cur.mine, agreed[Who]} /\ cur # Idle
           \/ ~Begin /\ cur'.u = cur.u /\ cur'.mine = cur.mine /\ cur # Idle
  <1>1. Arrives /\ (cur # Idle => cur \in HandlingType)
    BY Arrivals DEF ChatInv, ChatState
  <1>2. CASE Begin
    <2>. DEFINE u == inbox[next]
    <2>1. AdminButton(u) \/ AdminText(u) \/ Command(u) \/ UiText(u) \/ UiButton(u)
      BY <1>2 DEF Begin
    <2>. HIDE DEF u
    <2>2. To("user", u) \/ To("command", u)
      BY <2>1 DEF AdminButton, AdminText, Command, UiText, UiButton
    <2>. QED  BY <1>2, <2>2 DEF To
  <1>3. CASE ReadUser
    <2>1. cur # Idle
      BY <1>3 DEF ReadUser, At, Idle
    <2>. QED  BY <1>1, <1>3, <2>1 DEF ReadUser, Goto, HandlingType
  <1>4. CASE ~Begin /\ ~ReadUser
    <2>1. cur \in HandlingType /\ cur # Idle
      BY <1>1, <1>4, HandlersAct DEF Arrives, Handle
    <2>. QED
      BY <1>1, <1>4, <2>1 DEF Arrives, CreateUser, CountReferrals, AcceptFeePolicy, QuickStart, Room, Resume, CreateWallet, ShowSeed,
         ClosePosition, CloseAll, PlanPurchase, Ask, CheckFee, CheckLevel, CheckSetting, Goto, Done, HandlingType
  <1>. QED  BY <1>2, <1>3, <1>4

LEMMA ConsentKept ==
    ASSUME ChatInv, ChatsNext
    PROVE  ConsentHeld'
  <1>0. ConsentHeld /\ excuses \subseteq excuses' /\ fee \in 0 .. MaxFee
    BY ExcusesGrow DEF ChatInv, BudgetHeld
  <1>1. agreed' = agreed \/ (Agree /\ cur' = Idle)
    BY WritersAreFew DEF WhoWrites, UserWriters, Users, CreateUser, WebRegister, Agree, Done
  <1>2. UNCHANGED Settings \/ cur' # cur \/ WebSetting
    <2>1. PlanEdit \/ SetTreasuryWallet \/ SetPlatformFee \/ SetReferralLevel => cur' # cur
      BY HandlersAct DEF Handle, PlanEdit, SetTreasuryWallet, SetPlatformFee, SetReferralLevel, Done, Excuse
    <2>. QED  BY <2>1, WritersAreFew DEF WhoWrites, SettingWriters
  <1>3. ASSUME cur' # Idle
        PROVE  cur'.mine \in {NoFee, agreed'[cur'.u.who]}
    <2>1. agreed' = agreed
      BY <1>1, <1>3
    <2>2. CASE cur' = cur
      BY <1>0, <1>3, <2>1, <2>2 DEF ConsentHeld, Who
    <2>. QED  BY <1>0, <1>3, <2>1, <2>2, CarriedOn DEF ConsentHeld, Who
  <1>4. ASSUME cur'.at = "agree"
        PROVE  cur'.saw \in 0 .. MaxFee
    <2>1. CASE cur' = cur
      BY <1>0, <1>4, <2>1 DEF ConsentHeld
    <2>2. CASE cur' # cur
      <3>1. AcceptFeePolicy /\ cur # Idle
        BY <1>4, <2>2, Arrivals, HandlersAct DEF Arrives, Idle, Handle
      <3>. QED  BY <1>0, <3>1 DEF AcceptFeePolicy, ChatInv, ChatState, HandlingType
    <2>. QED  BY <2>1, <2>2
  <1>5. ASSUME cur'.at \in {"room", "add", "on"}
        PROVE  cur'.u.who \in Admin /\ cur'.mine # NoFee /\ (cur'.mine = fee' \/ "consent" \in excuses')
    <2>1. CASE cur' = cur
      <3>1. Who \in Admin /\ cur.mine # NoFee /\ (cur.mine = fee \/ "consent" \in excuses)
        BY <1>0, <1>5, <2>1 DEF ConsentHeld
      <3>2. WebSetting => "consent" \in excuses'
        BY <1>5, <2>1 DEF WebSetting
      <3>. QED  BY <1>0, <1>2, <2>1, <3>1, <3>2 DEF Settings, Who
    <2>2. CASE cur' # cur
      <3>1. QuickStart \/ Room \/ Resume
        BY <1>5, <2>2, Arrivals DEF Arrives, Idle
      <3>2. cur'.u = cur.u /\ cur'.mine = cur.mine /\ fee' = fee
        BY <1>5, <2>2, <3>1, CarriedOn DEF Idle, QuickStart, Room, Resume, Nothing, ChatRows, Settings, Begin, ReadUser, At, Tap
      <3>3. Who \in Admin /\ cur.mine # NoFee /\ (cur.mine = fee \/ "consent" \in excuses)
        <4>1. CASE QuickStart \/ Resume
          BY <1>5, <4>1 DEF QuickStart, Resume, ResumeAllowed, Allowed, Done, Idle
        <4>2. CASE Room
          BY <1>0, <4>2 DEF Room, At, ConsentHeld
        <4>. QED  BY <3>1, <4>1, <4>2
      <3>. QED  BY <1>0, <3>2, <3>3 DEF Who
    <2>. QED  BY <2>1, <2>2
  <1>6. ASSUME cur'.at \in {"command", "fee", "level"}
        PROVE  cur'.u.who \in Admin
    <2>1. CASE cur' = cur
      BY <1>0, <1>6, <2>1 DEF ConsentHeld, Who
    <2>2. CASE cur' # cur
      <3>1. Begin \/ CheckFee \/ CheckLevel
        BY <1>6, <2>2, Arrivals DEF Arrives, Idle
      <3>2. CASE Begin
        <4>. DEFINE u == inbox[next]
        <4>1. AdminButton(u) \/ AdminText(u) \/ Command(u) \/ UiText(u) \/ UiButton(u)
          BY <3>2 DEF Begin
        <4>. HIDE DEF u
        <4>2. cur'.at # "user"
          BY <1>6
        <4>3. To("command", u) /\ u.who \in Admin
          BY <1>6, <4>1, <4>2 DEF AdminButton, AdminText, Command, UiText, UiButton, To, Idle
        <4>. QED  BY <4>3 DEF To
      <3>3. CASE CheckFee \/ CheckLevel
        <4>1. cur.at = "command"
          BY <3>3 DEF CheckFee, CheckLevel, CheckSetting, Edits, Commanded, At
        <4>2. cur'.u = cur.u
          BY <1>6, <2>2, <4>1, CarriedOn DEF Idle, Begin
        <4>. QED  BY <1>0, <4>1, <4>2 DEF ConsentHeld, Who
      <3>. QED  BY <3>1, <3>2, <3>3
    <2>. QED  BY <2>1, <2>2
  <1>. QED  BY <1>3, <1>4, <1>5, <1>6 DEF ConsentHeld, Who

\* A setting is written by an admin's step, which is then done, or by the Mini App.
LEMMA SettingsChange ==
    ASSUME ChatInv, ChatsNext
    PROVE  \/ UNCHANGED Settings
           \/ PlanEdit /\ UNCHANGED <<fee, level, web>> /\ cur' = Idle /\ Who \in Admin
              /\ price' \in 0 .. MaxFee
           \/ SetTreasuryWallet /\ UNCHANGED <<fee, level, price, web>> /\ cur' = Idle /\ Who \in Admin
           \/ SetPlatformFee /\ UNCHANGED <<level, price, web>> /\ cur' = Idle /\ Who \in Admin
              /\ cur.at = "fee" /\ fee' = cur.u.n
           \/ SetReferralLevel /\ UNCHANGED <<fee, price, web>> /\ cur' = Idle /\ Who \in Admin
              /\ cur.at = "level" /\ level' = cur.u.n
           \/ WebSetting /\ UNCHANGED <<cur, price>> /\ web # Idle /\ web' = Idle
  <1>0. ConsentHeld /\ {fee, level, price} \subseteq 0 .. MaxFee
    BY DEF ChatInv, BudgetHeld
  <1>1. CASE PlanEdit
    <2>1. cur.at = "command" /\ cur' = Idle /\ UNCHANGED <<fee, level, web>> /\ (cur.u.x = "number" \/ price' = price)
          /\ (cur.u.x = "number" => price' = cur.u.n)
      BY <1>1 DEF PlanEdit, Edits, At, Done, AdminQuiet
    <2>2. cur.u.x = "number" => cur.u.n \in 0 .. MaxFee
      BY <2>1, UnderWay DEF Sensible, ChatInv, Idle
    <2>3. Who \in Admin
      BY <1>0, <2>1 DEF ConsentHeld
    <2>. QED  BY <1>0, <1>1, <2>1, <2>2, <2>3
  <1>2. CASE SetTreasuryWallet
    <2>1. cur.at = "command" /\ cur' = Idle /\ UNCHANGED <<fee, level, price, web>>
      BY <1>2 DEF SetTreasuryWallet, Edits, At, Done, AdminQuiet
    <2>. QED  BY <1>0, <1>2, <2>1 DEF ConsentHeld
  <1>3. CASE SetPlatformFee
    <2>1. cur.at = "fee" /\ cur' = Idle /\ UNCHANGED <<level, price, web>> /\ fee' = cur.u.n
      BY <1>3 DEF SetPlatformFee, At, Done, AdminQuiet, Excuse
    <2>. QED  BY <1>0, <1>3, <2>1 DEF ConsentHeld
  <1>4. CASE SetReferralLevel
    <2>1. cur.at = "level" /\ cur' = Idle /\ UNCHANGED <<fee, price, web>> /\ level' = cur.u.n
      BY <1>4 DEF SetReferralLevel, At, Done, AdminQuiet, Excuse
    <2>. QED  BY <1>0, <1>4, <2>1 DEF ConsentHeld
  <1>5. CASE WebSetting
    BY <1>5 DEF WebSetting, WebWrites, Bot, Idle
  <1>. QED  BY <1>1, <1>2, <1>3, <1>4, <1>5, WritersAreFew DEF WhoWrites, SettingWriters

LEMMA BudgetKept ==
    ASSUME ChatInv, ChatsNext
    PROVE  BudgetHeld'
  <1>. USE DEF CheckedFits, FitsBudget
  <1>0. /\ BudgetHeld /\ ("fee" \in excuses => "fee" \in excuses')
        /\ fee \in 0 .. MaxFee /\ level \in 0 .. MaxFee /\ price \in 0 .. MaxFee /\ MaxFee \in Nat
        /\ level <= fee \/ "fee" \in excuses
    BY ExcusesGrow DEF ChatInv, BudgetHeld, BudgetNeedsRival, MaxFee
  <1>1. WebSetting => /\ web.op \in WebOpType /\ web.op.n \in 0 .. MaxFee /\ web.op.k \in {"fee", "level"}
                      /\ CheckedFits(web.op.k, web.op.n)
                      /\ (fee' = web.op.n /\ level' = level /\ web.op.k = "fee")
                         \/ (level' = web.op.n /\ fee' = fee /\ web.op.k = "level")
                      /\ cur.at \in {"fee", "level"} => "fee" \in excuses'
    <2>. SUFFICES ASSUME WebSetting
                  PROVE  /\ web.op \in WebOpType /\ web.op.n \in 0 .. MaxFee /\ web.op.k \in {"fee", "level"}
                         /\ CheckedFits(web.op.k, web.op.n)
                         /\ (fee' = web.op.n /\ level' = level /\ web.op.k = "fee")
                            \/ (level' = web.op.n /\ fee' = fee /\ web.op.k = "level")
                         /\ cur.at \in {"fee", "level"} => "fee" \in excuses'
      OBVIOUS
    <2>1. WebWrites({"fee", "level"}) /\ web # Idle /\ web.op.k \in {"fee", "level"}
      BY DEF WebSetting, WebWrites, Idle
    <2>2. web.op \in WebOpType /\ web.op.n \in 0 .. MaxFee
      BY <2>1 DEF ChatInv, ChatState, WebType, SensibleOp
    <2>3. CheckedFits(web.op.k, web.op.n)
      BY <1>0, <2>1 DEF BudgetHeld, WebWrites
    <2>4. /\ (fee' = web.op.n /\ level' = level /\ web.op.k = "fee")
             \/ (level' = web.op.n /\ fee' = fee /\ web.op.k = "level")
          /\ cur.at \in {"fee", "level"} => "fee" \in excuses'
      BY <2>1 DEF WebSetting
    <2>. QED  BY <2>1, <2>2, <2>3, <2>4
  <1>2. cur.at \in {"fee", "level"} => cur.u.n \in 0 .. MaxFee /\ CheckedFits(cur.at, cur.u.n)
    BY <1>0 DEF BudgetHeld, WebWrites
  <1>3. SetPlatformFee \/ SetReferralLevel => (WebWrites({"fee", "level"}) => "fee" \in excuses')
    BY DEF SetPlatformFee, SetReferralLevel, Excuse
  <1>4. {fee', level', price'} \subseteq 0 .. MaxFee
    BY <1>0, <1>1, <1>2, SettingsChange DEF Settings
  <1>5. level' <= fee' \/ "fee" \in excuses'
    BY <1>0, <1>1, <1>2, SettingsChange DEF Settings
  <1>6. ASSUME cur'.at \in {"fee", "level"}
        PROVE  cur'.u.n \in 0 .. MaxFee /\ ("fee" \in excuses' \/ ((cur'.at = "fee" => level' <= cur'.u.n) /\ (cur'.at = "level" => cur'.u.n <= fee')))
    <2>1. CASE cur' = cur
      <3>1. cur' # Idle
        BY <1>6 DEF Idle
      <3>2. (fee' = fee /\ level' = level) \/ "fee" \in excuses'
        BY <1>1, <1>6, <2>1, <3>1, SettingsChange DEF Settings
      <3>. QED  BY <1>0, <1>2, <1>6, <2>1, <3>2
    <2>2. CASE cur' # cur
      <3>0. cur' # Idle
        BY <1>6 DEF Idle
      <3>1. (CheckFee /\ cur'.at = "fee") \/ (CheckLevel /\ cur'.at = "level")
        BY <1>6, <2>2, <3>0, Arrivals DEF Arrives
      <3>2. cur.at = "command" /\ fee' = fee /\ level' = level
        BY <3>1 DEF CheckFee, CheckLevel, CheckSetting, Edits, Commanded, At, Settings
      <3>3. cur'.u = cur.u
        BY <2>2, <3>0, <3>2, CarriedOn DEF Idle, Begin
      <3>4. FitsBudget(cur'.at, cur.u.n) /\ cur.u.x \in {"number", "setfee", "setlevel"}
        BY <3>0, <3>1 DEF CheckFee, CheckLevel, CheckSetting, Edits, Commanded, Slash, Done
      <3>5. cur.u.n \in 0 .. MaxFee
        BY <3>2, <3>4, UnderWay DEF Sensible, ChatInv, Idle
      <3>. QED  BY <3>2, <3>3, <3>4, <3>5
    <2>. QED  BY <2>1, <2>2
  <1>7. ASSUME WebWrites({"fee", "level"})'
        PROVE  "fee" \in excuses' \/ ((web'.op.k = "fee" => level' <= web'.op.n) /\ (web'.op.k = "level" => web'.op.n <= fee'))
    <2>0. web'.at = "write" /\ web'.op.k \in {"fee", "level"} /\ web' # Idle
      BY <1>7 DEF WebWrites, Idle
    <2>1. CASE web' = web
      <3>1. WebWrites({"fee", "level"}) /\ CheckedFits(web.op.k, web.op.n)
        BY <1>0, <2>0, <2>1 DEF WebWrites, BudgetHeld
      <3>2. (fee' = fee /\ level' = level) \/ "fee" \in excuses'
        BY <1>3, <2>0, <2>1, <3>1, SettingsChange DEF Settings
      <3>. QED  BY <1>0, <2>1, <3>1, <3>2
    <2>2. CASE web' # web
      <3>1. PICK op \in budget.web : WebBegin(op) /\ Passes(op) /\ web' = [at |-> "write", op |-> op]
        BY <2>0, <2>2, WebWritesBegin
      <3>2. op.k \in {"fee", "level"} /\ web'.op = op /\ fee' = fee /\ level' = level
        BY <2>0, <3>1 DEF WebBegin, ChatRows, Settings
      <3>3. FitsBudget(op.k, op.n)
        BY <3>1, <3>2 DEF Passes
      <3>. QED  BY <3>2, <3>3
    <2>. QED  BY <2>1, <2>2
  <1>. QED  BY <1>4, <1>5, <1>6, <1>7 DEF BudgetHeld, BudgetNeedsRival

LEMMA SeedsKept ==
    ASSUME ChatInv, ChatsNext
    PROVE  SeedsHeld'
  <1>0. /\ seeds \in [made : SUBSET Key, told : SUBSET Key] /\ seeds.told \subseteq seeds.made
        /\ cur.at = "seed" => cur.saw \in seeds.made
        /\ "fault" \notin excuses => seeds.made \ seeds.told \subseteq (IF cur.at = "seed" THEN {cur.saw} ELSE {})
        /\ "fault" \in excuses => "fault" \in excuses'
    BY ExcusesGrow DEF ChatInv, SeedsHeld
  <1>1. CASE CreateWallet
    <2>1. cur \in HandlingType /\ cur.at = "tap"
      BY <1>1, UnderWay, HandlersAct DEF ChatInv, Handle, CreateWallet, Tap, At
    <2>2. PICK k \in Key : seeds' = [seeds EXCEPT !.made = seeds.made \cup {k}] /\ ShowSeed(k)
      BY <1>1 DEF CreateWallet
    <2>3. cur'.at = "seed" /\ cur'.saw = k
      BY <2>1, <2>2 DEF ShowSeed, HandlingType
    <2>4. seeds'.made = seeds.made \cup {k} /\ seeds'.told = seeds.told /\ seeds' \in [made : SUBSET Key, told : SUBSET Key]
      BY <1>0, <2>2
    <2>. QED  BY <1>0, <2>1, <2>3, <2>4 DEF SeedsHeld
  <1>2. CASE SendSeedPhrase
    <2>1. cur.at = "seed" /\ cur' = Idle /\ seeds' = [seeds EXCEPT !.told = seeds.told \cup {cur.saw}]
      BY <1>2 DEF SendSeedPhrase, At, Done
    <2>2. seeds'.made = seeds.made /\ seeds'.told = seeds.told \cup {cur.saw} /\ seeds' \in [made : SUBSET Key, told : SUBSET Key]
      BY <1>0, <2>1
    <2>3. cur'.at = "idle"
      BY <2>1 DEF Idle
    <2>. QED  BY <1>0, <2>1, <2>2, <2>3 DEF SeedsHeld
  <1>3. CASE UNCHANGED seeds /\ ~CreateWallet /\ ~SendSeedPhrase
    <2>1. CASE cur' = cur
      BY <1>0, <1>3, <2>1 DEF SeedsHeld
    <2>2. CASE cur' # cur
      <3>1. cur'.at # "seed"
        BY <1>3, <2>2, Arrivals DEF Arrives, Idle
      <3>2. cur.at = "seed" => "fault" \in excuses'
        BY <1>3, <2>2, LeavesEntry DEF Fail, BotRestarts, ReadUser, CreateUser, CountReferrals, Grant, At
      <3>. QED  BY <1>0, <1>3, <3>1, <3>2 DEF SeedsHeld
    <2>. QED  BY <2>1, <2>2
  <1>. QED  BY <1>1, <1>2, <1>3, WritersAreFew DEF WhoWrites

LEMMA ChatStart == ASSUME ChatsInit PROVE ChatInv
  <1>0. /\ budget \in Scenarios /\ budget \in ScenarioType /\ IsFiniteSet(Person) /\ Person = 1 .. Cardinality(Person)
        /\ Referrer \in Person /\ MaxConfigs \in Nat \ {0} /\ RewardAt \in Nat \ {0} /\ budget.members \subseteq Person
    <2>1. /\ budget \in Scenarios /\ IsFiniteSet(Person) /\ Person = 1 .. Cardinality(Person) /\ Referrer \in Person
          /\ MaxConfigs \in Nat \ {0} /\ RewardAt \in Nat \ {0}
      BY ChatsAssumption DEF ChatsInit, ChatsAssumption
    <2>2. budget \in [taps : SUBSET [k : STRING, who : Person, c : Chat, x : STRING, n : Nat, id : {0}],
                      sends : Nat, faults : Nat, restarts : Nat, expiries : Nat,
                      web : SUBSET [k : {"snipe", "delete", "fee", "level", "register"}, who : Person, n : Nat],
                      members : SUBSET Person]
      BY <2>1, ChatsAssumption DEF ChatsAssumption
    <2>3. budget.taps \subseteq UpdateType
      BY <2>2 DEF UpdateType
    <2>. QED  BY <2>1, <2>2, <2>3 DEF ScenarioType, WebOpType
  <1>1. (\A t \in budget.taps : Sensible(t)) /\ (\A op \in budget.web : SensibleOp(op))
    BY <1>0, ChatsAssumption DEF ChatsAssumption, Sensible, SensibleOp
  <1>2. ChatState
    <2>1. inbox \in Seq(UpdateType) /\ Len(inbox) = 0 /\ cur = Idle /\ web = Idle /\ confirmed = 0 /\ fetched = 0 /\ next = 1
          /\ excuses = {}
      BY DEF ChatsInit
    <2>2. /\ pend \in [Chat -> {Idle} \cup FlowType] /\ planEdit \in [Chat -> BOOLEAN]
          /\ panel \in [Chat -> {"none", "fee", "level", "treasury"}] /\ runs \in [1 .. MaxUpdates -> Nat]
      BY DEF ChatsInit
    <2>. QED  BY <1>0, <1>1, <2>1, <2>2 DEF ChatState, MaxUpdates
  <1>3. ConfigsTyped /\ \A p \in Person : Cardinality(Own(p)) <= 1
    <2>. DEFINE firstRow == [p \in budget.members |-> [id |-> p, owner |-> p, active |-> FALSE, v |-> 0]]
    <2>0. made = Cardinality(Person) /\ made \in Nat /\ \A p \in Person : p \in 1 .. made /\ p \in Nat
      BY <1>0, FS_CardinalityType DEF ChatsInit
    <2>1. /\ configs = {firstRow[p] : p \in budget.members}
          /\ \A p \in budget.members : firstRow[p].owner = p /\ firstRow[p].id = p /\ firstRow[p] \in ConfigType
      BY <1>0, <2>0 DEF ChatsInit, ConfigType
    <2>2. firstRow \in Surjection(budget.members, configs)
      BY <2>1 DEF Surjection
    <2>. HIDE DEF firstRow
    <2>3. IsFiniteSet(configs)
      BY <1>0, <2>2, FS_Subset, FS_Surjection
    <2>5. ConfigsTyped
      BY <1>0, <2>0, <2>1, <2>3 DEF ConfigsTyped
    <2>6. ASSUME NEW p \in Person
          PROVE  Cardinality(Own(p)) <= 1
      <3>1. Own(p) \in SUBSET {firstRow[p]}
        BY <2>1 DEF Own
      <3>2. IsFiniteSet({firstRow[p]}) /\ Cardinality({firstRow[p]}) = 1
        BY FS_Singleton
      <3>. QED  BY <3>1, <3>2, FS_Subset
    <2>. QED  BY <2>5, <2>6
  <1>4. RowState
    BY <1>0, <1>3 DEF ChatsInit, RowState, ConfigsTyped, NoWallet, NoFee, MaxFee, None
  <1>5. TakenUpOnce
    BY DEF ChatsInit, TakenUpOnce, MaxUpdates
  <1>6. ClosesAreTrue /\ FlowsAreNew
    BY DEF ChatsInit, ClosesAreTrue, FlowsAreNew
  <1>7. ConsentHeld
    BY DEF ChatsInit, ConsentHeld, Idle
  <1>8. BudgetHeld
    BY DEF ChatsInit, BudgetHeld, BudgetNeedsRival, WebWrites, Idle, MaxFee
  <1>9. RewardHeld
    <2>1. Cardinality(referred) = 0
      BY FS_EmptySet DEF ChatsInit
    <2>. QED  BY <1>0, <2>1 DEF ChatsInit, RewardHeld, Idle
  <1>10. CapHeld
    <2>1. \A p \in Person : Cardinality(Own(p)) <= MaxConfigs
      BY <1>0, <1>3, OwnIsFinite
    <2>. QED  BY <2>1 DEF ChatsInit, CapHeld, WebWrites, Idle
  <1>11. SeedsHeld
    BY DEF ChatsInit, SeedsHeld, Idle
  <1>. QED  BY <1>2, <1>4, <1>5, <1>6, <1>7, <1>8, <1>9, <1>10, <1>11 DEF ChatInv

LEMMA ChatStep == ASSUME ChatInv, [ChatsNext]_chatVars PROVE ChatInv'
  <1>1. CASE ChatsNext
    BY <1>1, ChatStateKept, RowStateKept, TakenUpOnceKept, ClosesKept, FlowsKept, ConsentKept, BudgetKept, RewardKept, CapKept,
       SeedsKept DEF ChatInv
  <1>2. CASE UNCHANGED chatVars
    <2>. USE <1>2 DEF chatVars
    <2>1. ChatState' /\ RowState'
      BY DEF ChatInv, ChatState, RowState, Sensible, SensibleOp
    <2>2. TakenUpOnce' /\ ClosesAreTrue' /\ FlowsAreNew'
      BY DEF ChatInv, TakenUpOnce, ClosesAreTrue, FlowsAreNew
    <2>3. ConsentHeld' /\ BudgetHeld'
      BY DEF ChatInv, ConsentHeld, BudgetHeld, BudgetNeedsRival, CheckedFits, WebWrites, Who
    <2>4. RewardHeld' /\ CapHeld' /\ SeedsHeld'
      BY DEF ChatInv, RewardHeld, CapHeld, CapExcused, HasRoom, Own, WebWrites, SeedsHeld, Who
    <2>. QED  BY <2>1, <2>2, <2>3, <2>4 DEF ChatInv
  <1>. QED  BY <1>1, <1>2

\* What the invariant says of the state.
ChatPromises ==
    /\ ChatTypes /\ CapNeedsRival /\ BudgetNeedsRival /\ RewardedOnce /\ OneTapOnePurchase
    /\ SaidClosedIsClosed /\ ButtonsEndFlows /\ SeedLostNeedsFault

LEMMA ChatInvPromises == ASSUME ChatInv PROVE ChatPromises
  <1>. USE DEF ChatInv
  <1>1. ChatTypes
    <2>1. /\ confirmed <= fetched /\ fetched <= Len(inbox) /\ next \in confirmed + 1 .. fetched + 1
          /\ cur.at \in {"idle", "user", "create", "count", "grant", "flow", "tap", "agree", "room", "add", "on",
                         "seed", "call", "waiting", "command", "fee", "level"}
          /\ panel \in [Chat -> {"none", "fee", "level", "treasury"}] /\ planEdit \in [Chat -> BOOLEAN]
          /\ excuses \subseteq {"config", "fee", "reward", "consent", "create", "fault", "restart"}
      BY DEF ChatState, HandlingType, Steps, Idle
    <2>2. \A c \in Chat : pend[c] = Idle \/ pend[c].at \in {"edit", "tp", "import", "backup", "restore", "restorepw"}
      BY DEF ChatState, FlowType
    <2>3. /\ accounts \subseteq Person /\ agreed \in [Person -> NoFee .. MaxFee]
          /\ \A c \in configs : c.id \in 1 .. made /\ c.owner \in Person /\ c.active \in BOOLEAN
          /\ wallets \in [Key -> [owner : Person \cup {None}, active : BOOLEAN]]
      BY DEF RowState, ConfigType
    <2>4. seeds.told \subseteq seeds.made /\ {fee, level, price} \subseteq 0 .. MaxFee /\ rewards \in 0 .. 2
      BY DEF SeedsHeld, BudgetHeld, RewardHeld
    <2>. QED  BY <2>1, <2>2, <2>3, <2>4 DEF ChatTypes
  <1>2. CapNeedsRival
    <2>. SUFFICES ASSUME NEW p \in Person, Cardinality(Own(p)) > MaxConfigs
                  PROVE  CapExcused(p)
      BY DEF CapNeedsRival, CapExcused
    <2>1. Cardinality(Own(p)) \in Nat /\ MaxConfigs \in Nat
      BY OwnIsFinite, ChatsAssumption DEF RowState, ConfigsTyped, ChatsAssumption
    <2>. QED  BY <2>1 DEF CapHeld
  <1>3. BudgetNeedsRival
    BY DEF BudgetHeld
  <1>4. RewardedOnce
    BY DEF RewardHeld, RewardedOnce
  <1>5. OneTapOnePurchase
    <2>. SUFFICES ASSUME NEW b \in bought, NEW other \in bought, b.id = other.id, "restart" \notin excuses
                  PROVE  b = other
      BY DEF OneTapOnePurchase
    <2>. QED  BY DEF TakenUpOnce
  <1>6. SaidClosedIsClosed
    BY DEF ClosesAreTrue, SaidClosedIsClosed
  <1>7. ButtonsEndFlows
    BY DEF FlowsAreNew, ButtonsEndFlows
  <1>8. SeedLostNeedsFault
    BY DEF SeedsHeld, SeedLostNeedsFault, At
  <1>. QED  BY <1>1, <1>2, <1>3, <1>4, <1>5, <1>6, <1>7, <1>8 DEF ChatPromises

\* A row of the configs that changes under a button or a text is its sender's.
LEMMA OwnConfigsOnly ==
    ASSUME ChatInv, ChatsNext, cur.at \in {"tap", "flow", "on", "add"}, cur' # cur,
           NEW c \in (configs \ configs') \cup (configs' \ configs)
    PROVE  c.owner = Who
  <1>0. configs \subseteq ConfigType
    BY DEF ChatInv, RowState
  <1>1. ConfigWriters
    BY WritersAreFew DEF WhoWrites
  <1>2. ~(Grant \/ SwitchAll \/ WebSnipe \/ WebDelete \/ WebGrant)
    BY DEF Grant, SwitchAll, WebSnipe, WebDelete, WebGrant, Commanded, At, Bot, Excuse, SetActive
  <1>3. CASE Add
    BY <1>3 DEF Add, AddConfig
  <1>4. CASE SwitchOn \/ Pause
    <2>. DEFINE on == ~Pause
                rows == IF cur.u.k = (IF Pause THEN "pauseall" ELSE "resumeall") THEN Own(Who) ELSE Owned(cur.u.n)
    <2>1. rows \in SUBSET configs /\ on \in BOOLEAN /\ \A d \in rows : d.owner = Who
      BY DEF Own, Owned
    <2>3. SetActive(rows, on)
      <3>1. CASE Pause
        BY <3>1 DEF Pause
      <3>2. CASE SwitchOn /\ ~Pause
        BY <3>2 DEF SwitchOn
      <3>. QED  BY <1>4, <3>1, <3>2
    <2>. HIDE DEF rows, on
    <2>2. \A d \in rows : [d EXCEPT !.active = on].owner = Who
      BY <1>0, <2>1 DEF ConfigType
    <2>. QED  BY <2>1, <2>2, <2>3 DEF SetActive
  <1>5. CASE DeleteConfig
    BY <1>5 DEF DeleteConfig, Owned
  <1>6. CASE ApplyTrailingStopPreset
    <2>1. \A d \in Owned(cur.u.n) : d.owner = Who /\ [d EXCEPT !.v = 9].owner = Who
      BY <1>0 DEF Owned, ConfigType
    <2>2. configs' = (configs \ Owned(cur.u.n)) \cup {[d EXCEPT !.v = 9] : d \in Owned(cur.u.n)}
      BY <1>6 DEF ApplyTrailingStopPreset
    <2>. QED  BY <2>1, <2>2
  <1>7. CASE ApplySettingsEdit
    <2>1. \A d \in Editable(pend[Here].of) : d.owner = Who /\ [d EXCEPT !.v = cur.u.id].owner = Who
      BY <1>0 DEF Editable, ConfigType
    <2>2. \/ configs' = configs
          \/ configs' = (configs \ Editable(pend[Here].of)) \cup {[d EXCEPT !.v = cur.u.id] : d \in Editable(pend[Here].of)}
      BY <1>7 DEF ApplySettingsEdit, RefusedText, ChatRows
    <2>. DEFINE rows == Editable(pend[Here].of)
                edited == {[d EXCEPT !.v = cur.u.id] : d \in rows}
    <2>3. \A d \in edited : d.owner = Who
      BY <2>1
    <2>4. configs' = configs \/ configs' = (configs \ rows) \cup edited
      BY <2>2
    <2>5. \A d \in rows : d.owner = Who
      BY <2>1
    <2>. HIDE DEF rows, edited
    <2>. QED  BY <2>3, <2>4, <2>5
  <1>. QED  BY <1>1, <1>2, <1>3, <1>4, <1>5, <1>6, <1>7 DEF ConfigWriters

\* So are a wallet and a position; a wallet may also be nobody's yet.
LEMMA OwnWalletsOnly ==
    ASSUME ChatInv, ChatsNext, cur.at \in {"tap", "flow", "on", "add"}, cur' # cur,
           NEW k \in Key, wallets'[k] # wallets[k]
    PROVE  wallets[k].owner \in {None, Who} /\ wallets'[k].owner = Who
  <1>0. wallets \in [Key -> [owner : Person \cup {None}, active : BOOLEAN]]
    BY DEF ChatInv, RowState
  <1>1. WalletWriters
    BY WritersAreFew DEF WhoWrites
  <1>2. CASE CreateWallet \/ ApplyImportWallet \/ ApplyRestore
    BY <1>0, <1>2 DEF CreateWallet, ApplyImportWallet, ApplyRestore, Restorable, RefusedText, ChatRows, NewRow, NoWallet
  <1>3. CASE DeactivateWallet
    <2>. DEFINE on == wallets[cur.u.n].active /\ wallets[cur.u.n].owner # Who
    <2>1. wallets' = [wallets EXCEPT ![cur.u.n].active = on]
      BY <1>3 DEF DeactivateWallet
    <2>2. cur.u.n = k /\ wallets'[k].active = on /\ wallets'[k] = [wallets[k] EXCEPT !.active = on]
      <3>. HIDE DEF on
      <3>. QED  BY <1>0, <2>1
    <2>3. wallets'[k].owner = wallets[k].owner
      <3>. HIDE DEF on
      <3>. QED  BY <1>0, <2>2
    <2>4. wallets[k].owner = Who
      <3>. SUFFICES ASSUME wallets[k].owner # Who PROVE FALSE
        OBVIOUS
      <3>1. on = wallets[k].active
        BY <1>0, <2>2
      <3>. QED  BY <1>0, <2>2, <3>1
    <2>. QED  BY <2>3, <2>4
  <1>. QED  BY <1>1, <1>2, <1>3 DEF WalletWriters

LEMMA OwnPositionsOnly ==
    ASSUME ChatInv, ChatsNext, cur.at \in {"tap", "flow", "on", "add"}, cur' # cur,
           NEW n \in DOMAIN positions, positions'[n] # positions[n]
    PROVE  positions[n].owner = Who
  <1>0. positions \in [budget.members -> [owner : Person, open : BOOLEAN, tp : Nat]]
    BY DEF ChatInv, RowState
  <1>1. ~ApiServe
    BY DEF ApiServe, Serve, AwaitedBy, At
  <1>2. ApplyTakeProfit
    BY <1>1, WritersAreFew DEF WhoWrites
  <1>. QED  BY <1>0, <1>2 DEF ApplyTakeProfit, RefusedText, ChatRows

\* For every set of people, chats, admins and scenarios, every cap, and every
\* threshold of referrals: whatever is sent, tapped, restarted, or requested by
\* the Mini App meanwhile, people's rows are only touched by themselves, trading is
\* switched on only by consent, settings by admins, caps and budgets hold but for
\* the races noted, a tap buys once, what is told closed is closed, a button ends
\* the flow of its chat, and no seed phrase is lost but by a fault.
THEOREM ChatsSound == ChatsSpec => ChatsAreSound
  <1>1. ChatsInit => ChatInv
    BY ChatStart
  <1>2. ChatInv /\ [ChatsNext]_chatVars => ChatInv'
    BY ChatStep
  <1>3. ChatInv => ChatPromises
    BY ChatInvPromises
  <1>4. ChatInv /\ [ChatsNext]_chatVars =>
          [(cur.at \in {"tap", "flow", "on", "add"} /\ cur' # cur) =>
             /\ \A c \in (configs \ configs') \cup (configs' \ configs) : c.owner = Who
             /\ \A k \in Key : wallets'[k] # wallets[k] => wallets[k].owner \in {None, Who} /\ wallets'[k].owner = Who
             /\ \A n \in DOMAIN positions : positions'[n] # positions[n] => positions[n].owner = Who]_chatVars
    BY OwnConfigsOnly, OwnWalletsOnly, OwnPositionsOnly DEF chatVars
  <1>5. ChatInv /\ [ChatsNext]_chatVars =>
          [(cur.at \in {"on", "add"} /\ cur' # cur /\ (\E c \in configs' \ configs : c.active)) =>
             Who \in Admin /\ (agreed[Who] = fee \/ "consent" \in excuses)]_chatVars
    BY DEF ChatInv, ConsentHeld, Idle
  <1>6. ChatInv /\ [ChatsNext]_chatVars =>
          [(Settings' # Settings /\ UNCHANGED web) => Who \in Admin]_chatVars
    BY SettingsChange
  <1>. QED  BY <1>1, <1>2, <1>3, <1>4, <1>5, <1>6, PTL
            DEF ChatsSpec, ChatsAreSound, OwnRowsOnly, EnabledByConsent, PanelIsAdmins, ChatPromises
=============================================================================
