---------------------------- MODULE MCMarketing ----------------------------
(***************************************************************************)
(* The marketing engine's broadcasts, its feeds and its written posts, the *)
(* chats of the trading bot and the API's notices.  They share no state: a *)
(* behaviour runs one and leaves the others idle.                          *)
(***************************************************************************)
EXTENDS Broadcasts, MarketingPosts, BotChats

Of(kind, blocked, failures) == [kind |-> kind, blocked |-> blocked, failures |-> failures]

Unsent == Of("admin", {}, 0)

\* Each queue, with a recipient who blocked the bot, and with failures enough
\* for a row's last attempt.
MCScenario ==
    {Unsent, Of("showcase", {1}, 1), Of("network", {1}, 1),
     Of("admin", {1}, 1), Of("admin", {}, 2)}
-----------------------------------------------------------------------------
\* --- Feeds and posts ------------------------------------------------------------

In(types, wallet, sound, smart, whale, roi) ==
    [types |-> types, wallet |-> wallet, sound |-> sound, smart |-> smart, whale |-> whale, roi |-> roi]

\* A token of every kind, two wallets, a good one and a better one.
MCInfo ==
    <<In({"opportunity", "trending", "winner", "trade"}, 1, TRUE, FALSE, FALSE, 3),
      In({"opportunity", "market", "gem", "trade"}, 2, TRUE, TRUE, FALSE, 1),
      In({"opportunity", "whale", "smart", "trade"}, 1, TRUE, FALSE, TRUE, 2)>>

For(feed, cap, days, failures, stops) ==
    [feed |-> feed, cap |-> cap, days |-> days, failures |-> failures, stops |-> stops]

Unfed == For("posts", 0, 1, 0, 0)

MCFeeds ==
    {Unfed, For("activity", 2, 2, 1, 0), For("activity", 1, 2, 0, 1), For("activity", 9, 1, 0, 0),
     For("ecosystem", 0, 1, 1, 0), For("ecosystem", 0, 1, 0, 1), For("ecosystem", 0, 2, 0, 0),
     For("network", 2, 2, 1, 0), For("network", 1, 2, 0, 1), For("summary", 0, 3, 1, 1)}

VARIABLES feedScenario, day, rows, born, said, heard, monitor, due, today, last, featured, posted,
          ticked, feedSpent, sent

feedVars == <<feedScenario, day, rows, born, said, heard, monitor, due, today, last, featured, posted,
              ticked, feedSpent, sent>>

F == INSTANCE MarketingFeeds WITH
       Row <- 1 .. 3, Mention <- {9}, Info <- MCInfo, Limit <- 2, Window <- 2, Burst <- 2, MaxDay <- 3,
       Scenario <- MCFeeds, scenario <- feedScenario, spent <- feedSpent

ASSUME F!FeedAssumption

\* Two texts of three are too near each other.
MCAkin == {{1, 2}}
-----------------------------------------------------------------------------
\* --- Chats ----------------------------------------------------------------------

Private == <<"chat1", "chat2", "chat3">>
Update(k, who, chat, x, n) == [k |-> k, who |-> who, c |-> chat, x |-> x, n |-> n, id |-> 0]
Press(k, who, n) == Update(k, who, Private[who], "none", n)    \* a button in a private chat
WebOp(k, who, n) == [k |-> k, who |-> who, n |-> n]  \* a request of the Mini App

ChatOf(taps, sends, failing, restarts, expiries, apps, members) ==
    [taps |-> taps, sends |-> sends, faults |-> failing, restarts |-> restarts, expiries |-> expiries, web |-> apps,
     members |-> members]

Group(k, who, x, n) == Update(k, who, "group", x, n)

Silent == ChatOf({}, 0, 0, 0, 0, {}, {1, 2})

MCChats ==
    {Silent,
     \* consent, configs, and a fee that changes
     ChatOf({Press("accept", 1, 0), Press("quickstart", 1, 0), Press("resumeall", 1, 0), Update("cmd", 1, "chat1", "setfee", 3)}, 3, 0, 0, 0, {WebOp("snipe", 1, 0)}, {1, 2}),
     ChatOf({Press("accept", 2, 0), Press("resume", 2, 2), Press("accept", 1, 0), Press("resume", 1, 1), Press("resume", 1, 2)}, 3, 0, 0, 0, {WebOp("fee", 1, 3)}, {1, 2}),
     ChatOf({Press("pause", 1, 1), Press("pauseall", 1, 0), Press("delete", 1, 1), Press("delete", 1, 2), Press("preset", 1, 1), Update("cmd", 1, "chat1", "resumeall", 0), Update("cmd", 1, "chat1", "pauseall", 0)},
          3, 0, 0, 0, {WebOp("delete", 1, 1)}, {1, 2}),
     \* flows in a chat that two people share
     ChatOf({Group("edit", 1, "none", 1), Group("tp", 1, "none", 1), Group("text", 1, "number", 0), Group("text", 2, "number", 0), Group("screen", 2, "none", 0)},
          4, 0, 0, 0, {}, {1, 2}),
     ChatOf({Group("backup", 1, "none", 1), Group("text", 1, "label", 0), Group("text", 2, "password", 0), Group("cmd", 1, "cancel", 0), Group("pause", 1, "none", 1)},
          4, 0, 0, 0, {}, {1, 2}),
     ChatOf({Group("edit", 1, "none", 1), Group("card", 2, "none", 0), Group("text", 1, "number", 0)}, 4, 0, 0, 0, {}, {1, 2}),
     ChatOf({Group("restore", 1, "none", 0), Group("document", 1, "backup", 1), Group("text", 1, "password", 0), Group("text", 2, "password", 0), Group("deactivate", 1, "none", 1)},
          4, 0, 0, 0, {}, {1, 2}),
     ChatOf({Press("create", 1, 0), Press("import", 1, 0), Update("text", 1, "chat1", "key", 2), Update("text", 1, "chat1", "key", 1)}, 4, 1, 0, 0, {}, {1}),
     \* the admin panel
     ChatOf({Group("admedit", 1, "fee", 0), Group("admplan", 1, "none", 0), Group("admedit", 2, "fee", 0), Group("text", 1, "number", 0), Group("text", 1, "key", 0), Group("text", 2, "number", 3), Group("cmd", 1, "cancel", 0)},
          3, 0, 0, 1, {}, {1, 2}),
     ChatOf({Group("admedit", 1, "level", 0), Group("admedit", 1, "treasury", 0), Group("text", 1, "number", 2), Group("text", 1, "key", 1), Update("cmd", 1, "chat1", "setfee", 1),
           Update("cmd", 2, "chat2", "setfee", 3), Update("cmd", 1, "chat1", "setlevel", 2)},
          2, 0, 0, 0, {WebOp("fee", 1, 1), WebOp("level", 1, 2)}, {1, 2}),
     \* the API
     ChatOf({Press("close", 1, 1), Press("close", 2, 1), Press("closeall", 1, 0)}, 2, 0, 1, 0, {}, {1, 2}),
     ChatOf({Press("buy", 1, 0)}, 2, 0, 1, 0, {}, {1, 2}),
     \* people who come by a referral link
     ChatOf({Update("cmd", 2, "chat2", "start", 1), Update("cmd", 3, "chat3", "start", 0), Press("screen", 2, 0)}, 2, 1, 0, 0, {WebOp("register", 2, 1), WebOp("register", 3, 1)}, {1})}
-----------------------------------------------------------------------------
\* --- Notices --------------------------------------------------------------------

Note(kind, who, after, token) == [kind |-> kind, who |-> who, after |-> after, token |-> token]
Good == [flaws |-> {}, score |-> 90]
Fair == [flaws |-> {}, score |-> 60]
Unsafe == [flaws |-> {"honeypot"}, score |-> 90]

\* Two people, the first of whom is the owner too.
On(notices, now, most, toggles, counts, changes, page, failures) ==
    [chats |-> <<"x", "y">>, owners |-> {"x"}, notices |-> notices, members |-> [now |-> now, most |-> most],
     toggles |-> toggles, gate |-> counts, changes |-> changes, screen |-> page, faults |-> failures]
Alone(now, most, counts, changes, page, failures) == On(<<>>, now, most, 0, counts, changes, page, failures)
Say(notices, toggles, failures) == On(notices, 0, 0, toggles, 0, 0, "none", failures)

Untold == Alone(0, 0, 0, 0, "none", 0)

MCOccasions ==
    {Untold,
     Say(<<Note("launch", 1, 0, Good), Note("high", 1, 1, Good)>>, 1, 2),
     Say(<<Note("launch", 1, 0, Unsafe), Note("launch", 1, 0, Fair), Note("high", 1, 2, Fair)>>, 0, 1),
     Say(<<Note("announce", 1, 0, Good)>>, 2, 4),
     Say(<<Note("warning", 1, 0, Good), Note("warning", 1, 0, Good), Note("owner", 1, 0, Good)>>, 0, 1),
     Say(<<Note("card", 1, 0, Good), Note("report", 2, 0, Good), Note("reward", 2, 0, Good)>>, 0, 1),
     Alone(1, 5, 0, 0, "none", 2), Alone(3, 5, 0, 0, "none", 1), Alone(0, 0, 2, 0, "none", 1),
     Alone(0, 0, 0, 2, "dashboard", 1), Alone(0, 0, 0, 3, "miniapp", 1)}

VARIABLES occasion, live, place, sends, arrived, adrift, cache, warned, members, jobs, gate, screen, mishaps

noticeVars == <<occasion, live, place, sends, arrived, adrift, cache, warned, members, jobs, gate, screen, mishaps>>

N == INSTANCE Notices WITH
       Milestones <- {2, 4}, MinScore <- 50, HighScore <- 85, MaxEvents <- 2, Occasion <- MCOccasions,
       inbox <- arrived, faults <- mishaps

ASSUME N!NoticeAssumption
-----------------------------------------------------------------------------
VARIABLE part   \* which of the five runs

MCInit ==
    /\ Init /\ F!Init /\ PostsInit /\ ChatsInit /\ N!Init
    /\ \/ part = "broadcasts" /\ scenario # Unsent /\ feedScenario = Unfed /\ slots = 0 /\ budget = Silent /\ occasion = Untold
       \/ part = "feeds" /\ scenario = Unsent /\ feedScenario # Unfed /\ slots = 0 /\ budget = Silent /\ occasion = Untold
       \/ part = "posts" /\ scenario = Unsent /\ feedScenario = Unfed /\ budget = Silent /\ occasion = Untold
       \/ part = "chats" /\ scenario = Unsent /\ feedScenario = Unfed /\ slots = 0 /\ budget # Silent /\ occasion = Untold
       \/ part = "notices" /\ scenario = Unsent /\ feedScenario = Unfed /\ slots = 0 /\ budget = Silent /\ occasion # Untold

BroadcastsPart == part = "broadcasts" /\ Next /\ UNCHANGED <<part, feedVars, postVars, chatVars, noticeVars>>
FeedsPart == part = "feeds" /\ F!Next /\ UNCHANGED <<part, vars, postVars, chatVars, noticeVars>>
PostsPart == part = "posts" /\ PostsNext /\ UNCHANGED <<part, vars, feedVars, chatVars, noticeVars>>
ChatsPart == part = "chats" /\ ChatsNext /\ UNCHANGED <<part, vars, feedVars, postVars, noticeVars>>
NoticesPart == part = "notices" /\ N!Next /\ UNCHANGED <<part, vars, feedVars, postVars, chatVars>>

\* The timers of the queues fire, calls return, backoffs pass.
BroadcastsFairness ==
    /\ WF_vars(part = "broadcasts" /\ PosterStep) /\ WF_vars(part = "broadcasts" /\ WorkerStep)
    /\ WF_vars(part = "broadcasts" /\ \E i \in Item, u \in User : Rested(i, u))

MCFairSpec ==
    /\ MCInit
    /\ [][BroadcastsPart \/ FeedsPart \/ PostsPart \/ ChatsPart \/ NoticesPart]_<<part, vars, feedVars, postVars, chatVars, noticeVars>>
    /\ BroadcastsFairness /\ F!Fairness /\ ChatsFairness /\ N!Fairness

\* Broadcasts' copies and counts, and the feeds' posts, are what was to be sent; no
\* person's rows, money or consent are touched by another's message; notices are
\* told once, to those they are for, and what they count adds up.
MessagesAreSound ==
    [](CountsAreSound /\ F!FeedsAreSound) /\ ChatsAreSound /\ [][N!NoticesAreSound']_noticeVars

\* Broadcasts are completed and marked, backlogs posted, updates handled, and
\* nobody waits for a notice.
MessagesEnd == []<>(QueuesAreDone /\ F!BacklogIsPosted /\ UpdatesHandled /\ N!NoticesEnd)
=============================================================================
