------------------------------- MODULE Notices -------------------------------
(***************************************************************************)
(* What people are told.  NotificationService sends each notice to its     *)
(* chats at once, none waited for longer than the timeout; the low-balance *)
(* warnings, the member counter and the security gate's summary decide     *)
(* when there is something to tell; the event bus pushes changes to the    *)
(* screens that are open.  Texts, cards and languages are left out.        *)
(***************************************************************************)
EXTENDS Integers, Sequences, FiniteSets, FiniteSetsExt, SequencesExt

CONSTANTS Milestones,    \* MEMBER_MILESTONES
          MinScore, HighScore,
          MaxEvents,     \* events the Mini App keeps
          Occasion       \* bounds: [chats, owners, notices, members, toggles, gate, changes, screen, faults]

NoChat == "none"
NoticeAssumption ==
    /\ Milestones \subseteq Nat /\ IsFiniteSet(Milestones) /\ MaxEvents \in Nat \ {0}
    /\ \A o \in Occasion : \A n \in DOMAIN o.notices : o.notices[n].after < n

VARIABLES occasion,
          live,      \* users with an active configuration that buys launches
          place,     \* where each notice is
          sends,     \* its sends, by chat
          inbox,     \* observer: <<notice, chat>> that arrived
          adrift,    \* given up, but may still arrive
          cache,     \* lowBalanceNotifiedCache
          warned,    \* observer: warnings begun, by user, since the last entry expired
          members, jobs, gate, screen, faults

noticeVars == <<occasion, live, place, sends, inbox, adrift, cache, warned, members, jobs, gate, screen, faults>>
sending == <<place, sends, inbox, adrift>>
warning == <<cache, warned>>

Notice == DOMAIN occasion.notices
Recipient == DOMAIN occasion.chats
Of(n) == occasion.notices[n]
Chats == occasion.owners \cup (Range(occasion.chats) \ {NoChat})
Poll == {1, 2}          \* polls of the member counter that may overlap
Tally == {"blocked", "passed", "retries"}
None == [k \in Tally |-> 0]
Goes(n, to) == place' = [place EXCEPT ![n] = to]
Slips == faults < occasion.faults /\ faults' = faults + 1

\* Types.
TypeOK ==
    /\ live \subseteq Recipient /\ cache \subseteq Recipient /\ faults \in 0 .. occasion.faults
    /\ place \in [Notice -> {"none", "reading", "sending", "over", "threw", "cut"}]
    /\ \A n \in Notice : \A c \in DOMAIN sends[n] : sends[n][c] \in {"pending", "arrived", "sent", "failed"}
    /\ inbox \cup adrift \subseteq Notice \X Chats
    /\ \A p \in Poll : jobs[p].at \in {"idle", "look", "growth", "milestones", "write"}
    /\ screen.socket \in {"open", "waiting"} /\ Len(screen.events) \in 0 .. MaxEvents
-----------------------------------------------------------------------------
NoGate == [window |-> None, total |-> None, out |-> <<>>, told |-> None, lost |-> None, quiet |-> None]
NoJob == [at |-> "idle", count |-> 0, last |-> 0, mile |-> 0, told |-> {}]

Init ==
    /\ occasion \in Occasion
    /\ live = {} /\ cache = {} /\ warned = [u \in Recipient |-> 0] /\ faults = 0
    /\ place = [n \in Notice |-> "none"] /\ sends = [n \in Notice |-> <<>>] /\ inbox = {} /\ adrift = {}
    /\ members = [count |-> occasion.members.now, row |-> FALSE, last |-> 0, mile |-> 0, base |-> 0, floor |-> 0,
                  claimed |-> 0, again |-> 0, miles |-> [m \in Milestones |-> 0], breaks |-> 0]
    /\ jobs = [p \in Poll |-> NoJob]
    /\ gate = NoGate
    /\ screen = [socket |-> "waiting", feed |-> <<>>, now |-> 0, pushed |-> 0, epoch |-> 0, fetches |-> {},
                 shown |-> 0, fresh |-> FALSE, events |-> <<>>, unread |-> 0]
-----------------------------------------------------------------------------
\* --- Sending --------------------------------------------------------------------

\* evaluateNotifyGate: the hard gate, and the score of the AI or of the rules.
NotifyGate(token) == token.flaws = {} /\ token.score >= MinScore

\* What calls for the notice: a launch that passes the gate, then that it scores
\* high; a blocked buy, unless its user was warned lately.
Called(n) ==
    CASE Of(n).kind = "launch" -> NotifyGate(Of(n).token)
      [] Of(n).kind = "high" -> Of(n).token.score >= HighScore
      [] Of(n).kind = "warning" -> Of(n).who \notin cache
      [] OTHER -> TRUE

Before(n) == IF Of(n).after = 0 THEN {} ELSE {Of(n).after}

\* The next is called for when the caller of the one before it goes on.
Start(n) ==
    /\ place[n] = "none" /\ \A m \in Before(n) : place[m] = "over" /\ Called(m)
    /\ Goes(n, IF Called(n) THEN "reading" ELSE "over")
    /\ IF Of(n).kind = "warning" /\ Called(n)
       THEN cache' = cache \cup {Of(n).who} /\ warned' = [warned EXCEPT ![Of(n).who] = @ + 1]
       ELSE UNCHANGED warning
    /\ UNCHANGED <<occasion, live, sends, inbox, adrift, members, jobs, gate, screen, faults>>

\* activeRecipients, the owners' chats or the one user's, each chat once.
Personal == {"warning", "report", "reward"}
Recipients(n) ==
    CASE Of(n).kind = "owner" -> occasion.owners
      [] Of(n).kind \in Personal -> {occasion.chats[Of(n).who]} \ {NoChat}
      [] OTHER -> occasion.owners \cup ({occasion.chats[u] : u \in live} \ {NoChat})

Read(n) ==
    /\ place[n] = "reading" /\ Goes(n, "sending")
    /\ sends' = [sends EXCEPT ![n] = [c \in Recipients(n) |-> "pending"]]
    /\ UNCHANGED <<occasion, live, inbox, adrift, warning, members, jobs, gate, screen, faults>>

\* The users cannot be read, or the card not drawn: it reaches the caller, who
\* logs it if the notice is a card, a warning or one for the owners.
ReadFails(n) ==
    /\ place[n] = "reading" /\ Of(n).kind \notin {"owner", "reward"} /\ Slips
    /\ Goes(n, IF Of(n).kind \in {"card", "warning"} THEN "over" ELSE "threw")
    /\ UNCHANGED <<occasion, live, sends, inbox, adrift, warning, members, jobs, gate, screen>>

Toggle(u) ==
    /\ Cardinality(live) < occasion.toggles \/ u \in live
    /\ \E n \in Notice : place[n] \in {"none", "reading"}
    /\ Slips /\ live' = IF u \in live THEN live \ {u} ELSE live \cup {u}
    /\ UNCHANGED <<occasion, sending, warning, members, jobs, gate, screen>>

Turns(n, c, to) == sends' = [sends EXCEPT ![n][c] = to]
Pending(n, c) == place[n] = "sending" /\ c \in DOMAIN sends[n] /\ sends[n][c] = "pending"

Arrive(n, c) ==
    /\ Pending(n, c) /\ Turns(n, c, "arrived") /\ inbox' = inbox \cup {<<n, c>>}
    /\ UNCHANGED <<occasion, live, place, adrift, warning, members, jobs, gate, screen, faults>>

Answered(n, c) ==
    /\ place[n] = "sending" /\ c \in DOMAIN sends[n] /\ sends[n][c] = "arrived" /\ Turns(n, c, "sent")
    /\ UNCHANGED <<occasion, live, place, inbox, adrift, warning, members, jobs, gate, screen, faults>>

\* The user blocked the bot, or Telegram is down.
Refused(n, c) ==
    /\ Pending(n, c) /\ Slips /\ Turns(n, c, "failed")
    /\ UNCHANGED <<occasion, live, place, inbox, adrift, warning, members, jobs, gate, screen>>

GivesUpAsSent(n, c) ==
    /\ place[n] = "sending" /\ Of(n).kind # "reward" /\ c \in DOMAIN sends[n] /\ sends[n][c] \in {"pending", "arrived"}
    /\ Turns(n, c, "sent")
    /\ adrift' = IF sends[n][c] = "pending" THEN adrift \cup {<<n, c>>} ELSE adrift
    /\ UNCHANGED <<occasion, live, place, inbox, warning, members, jobs, gate, screen, faults>>

\* withTimeout, around every send but that of a referral's reward: the call goes on.
GivesUp(n, c) ==
    /\ place[n] = "sending" /\ Of(n).kind # "reward" /\ c \in DOMAIN sends[n] /\ sends[n][c] \in {"pending", "arrived"}
    /\ Turns(n, c, "failed")
    /\ adrift' = IF sends[n][c] = "pending" THEN adrift \cup {<<n, c>>} ELSE adrift
    /\ UNCHANGED <<occasion, live, place, inbox, warning, members, jobs, gate, screen, faults>>

ArrivesLate(n, c) ==
    /\ <<n, c>> \in adrift /\ adrift' = adrift \ {<<n, c>>} /\ inbox' = inbox \cup {<<n, c>>}
    /\ UNCHANGED <<occasion, live, place, sends, warning, members, jobs, gate, screen, faults>>

\* Promise.all: the caller goes on when the last send has ended.
Settled(n) ==
    /\ place[n] = "sending" /\ \A c \in DOMAIN sends[n] : sends[n][c] \in {"sent", "failed"}
    /\ Goes(n, "over")
    /\ UNCHANGED <<occasion, live, sends, inbox, adrift, warning, members, jobs, gate, screen, faults>>

\* What broadcastCustomMessage answers.
Sent(n) == {c \in DOMAIN sends[n] : sends[n][c] = "sent"}
Failed(n) == {c \in DOMAIN sends[n] : sends[n][c] = "failed"}

\* A cache entry is a day old.
Expire(u) ==
    /\ u \in cache /\ Slips /\ cache' = cache \ {u} /\ warned' = [warned EXCEPT ![u] = 0]
    /\ UNCHANGED <<occasion, live, sending, members, jobs, gate, screen>>
-----------------------------------------------------------------------------
\* --- Members --------------------------------------------------------------------

Join ==
    /\ members.count < occasion.members.most /\ members' = [members EXCEPT !.count = @ + 1]
    /\ UNCHANGED <<occasion, live, sending, warning, jobs, gate, screen, faults>>

BeginsAnyway(p) ==
    /\ occasion.members.most > 0 /\ jobs[p].at = "idle" /\ (members.row => members.count > members.last)
    /\ jobs' = [jobs EXCEPT ![p] = [NoJob EXCEPT !.at = "look", !.count = members.count]]
    /\ UNCHANGED <<occasion, live, sending, warning, members, gate, screen, faults>>

\* reportOnce, with its guard; a poll that would find nothing new is left out.
Begins(p) ==
    /\ \A q \in Poll : jobs[q].at = "idle"
    /\ occasion.members.most > 0 /\ (members.row => members.count > members.last)
    /\ jobs' = [jobs EXCEPT ![p] = [NoJob EXCEPT !.at = "look", !.count = members.count]]
    /\ UNCHANGED <<occasion, live, sending, warning, members, gate, screen, faults>>

Passed(from, to) == {m \in Milestones : from < m /\ m <= to}
Highest(miles, default) == IF miles = {} THEN default ELSE Max(miles)

\* The first run ever writes what there is and tells nothing.
Look(p) ==
    /\ jobs[p].at = "look"
    /\ LET mile == Highest(Passed(0, jobs[p].count), 0)
       IN IF ~members.row
          THEN /\ members' = [members EXCEPT !.row = TRUE, !.last = jobs[p].count, !.base = jobs[p].count,
                                             !.mile = mile, !.floor = mile]
               /\ jobs' = [jobs EXCEPT ![p] = NoJob]
          ELSE /\ jobs' = [jobs EXCEPT ![p].at = "growth", ![p].last = members.last, ![p].mile = members.mile]
               /\ UNCHANGED members
    /\ UNCHANGED <<occasion, live, sending, warning, gate, screen, faults>>

\* One message for all who joined, and one per milestone; a send that fails is
\* logged, and the run goes on as if it had not.
TellGrowth(p) ==
    /\ jobs[p].at = "growth" /\ jobs' = [jobs EXCEPT ![p].at = "milestones"]
    /\ members' = [members EXCEPT !.claimed = @ + (jobs[p].count - jobs[p].last)]
    /\ UNCHANGED <<occasion, live, sending, warning, gate, screen, faults>>

TellMilestone(p) ==
    LET news == Passed(jobs[p].mile, jobs[p].count) \ jobs[p].told
    IN /\ jobs[p].at = "milestones"
       /\ IF news = {} THEN jobs' = [jobs EXCEPT ![p].at = "write"] /\ UNCHANGED members
          ELSE /\ jobs' = [jobs EXCEPT ![p].told = @ \cup {Min(news)}]
               /\ members' = [members EXCEPT !.miles[Min(news)] = @ + 1]
       /\ UNCHANGED <<occasion, live, sending, warning, gate, screen, faults>>

Write(p) ==
    /\ jobs[p].at = "write" /\ jobs' = [jobs EXCEPT ![p] = NoJob]
    /\ members' = [members EXCEPT !.last = jobs[p].count, !.mile = Highest(jobs[p].told, jobs[p].mile)]
    /\ UNCHANGED <<occasion, live, sending, warning, gate, screen, faults>>

\* The row cannot be written: what was told will be told again.
WriteFails(p) ==
    /\ jobs[p].at = "write" /\ Slips /\ jobs' = [jobs EXCEPT ![p] = NoJob]
    /\ members' = [members EXCEPT !.again = @ + (jobs[p].count - jobs[p].last), !.breaks = @ + 1]
    /\ UNCHANGED <<occasion, live, sending, warning, gate, screen>>
-----------------------------------------------------------------------------
\* --- The security gate's summary ------------------------------------------------

Plus(a, b) == [k \in Tally |-> a[k] + b[k]]

Record(k) ==
    /\ gate.total[k] < occasion.gate
    /\ gate' = [gate EXCEPT !.window[k] = @ + 1, !.total[k] = @ + 1]
    /\ UNCHANGED <<occasion, live, sending, warning, members, jobs, screen, faults>>

\* snapshotAndReset; retries alone are no activity, and are not told.
Summarize ==
    /\ gate.window # None
    /\ gate' = IF gate.window.blocked + gate.window.passed = 0
               THEN [gate EXCEPT !.window = None, !.quiet = Plus(@, gate.window)]
               ELSE [gate EXCEPT !.window = None, !.out = Append(@, gate.window)]
    /\ UNCHANGED <<occasion, live, sending, warning, members, jobs, screen, faults>>

\* The window was reset before: a summary that is not sent is lost.
SummaryEnds(reached) ==
    /\ gate.out # <<>> /\ (reached \/ faults < occasion.faults) /\ faults' = faults + IF reached THEN 0 ELSE 1
    /\ gate' = [gate EXCEPT !.out = Tail(@),
                            !.told = IF reached THEN Plus(@, Head(gate.out)) ELSE @,
                            !.lost = IF reached THEN @ ELSE Plus(@, Head(gate.out))]
    /\ UNCHANGED <<occasion, live, sending, warning, members, jobs, screen>>
-----------------------------------------------------------------------------
\* --- Screens --------------------------------------------------------------------

ScreenOnly == UNCHANGED <<occasion, live, sending, warning, members, jobs, gate>>
Watched == occasion.screen # "none"

\* publish: to the sockets open at that moment.
Publish ==
    /\ Watched /\ screen.now < occasion.changes
    /\ screen' = [screen EXCEPT !.now = @ + 1,
                                !.feed = IF screen.socket = "open" THEN Append(@, screen.now + 1) ELSE @]
    /\ ScreenOnly /\ UNCHANGED faults

\* Now, or three seconds after it closed, with a token that is still valid.
Connect ==
    /\ Watched /\ screen.socket = "waiting" /\ screen' = [screen EXCEPT !.socket = "open"]
    /\ ScreenOnly /\ UNCHANGED faults

Disconnect ==
    /\ screen.socket = "open" /\ Slips
    /\ screen' = [screen EXCEPT !.socket = "waiting", !.feed = <<>>] /\ ScreenOnly

Fetch(epoch) == [epoch |-> epoch, value |-> -1]

\* A push ends the effect, whose answers are then ignored, and begins a new one.
Hear ==
    /\ screen.feed # <<>>
    /\ screen' = [screen EXCEPT !.feed = Tail(@), !.pushed = Head(screen.feed), !.epoch = @ + 1, !.fresh = FALSE,
                                !.fetches = @ \cup {Fetch(screen.epoch + 1)},
                                !.events = IF occasion.screen = "dashboard" THEN @
                                           ELSE SubSeq(<<Head(screen.feed)>> \o @, 1, Min({MaxEvents, Len(@) + 1})),
                                !.unread = IF occasion.screen = "dashboard" THEN @ ELSE @ + 1]
    /\ ScreenOnly /\ UNCHANGED faults

\* The dashboard also polls, whether or not the last answer came.
PollNow ==
    /\ occasion.screen = "dashboard" /\ Cardinality(screen.fetches) < 3
    /\ screen' = [screen EXCEPT !.fetches = @ \cup {Fetch(screen.epoch)}]
    /\ Fetch(screen.epoch) \notin screen.fetches /\ ScreenOnly /\ UNCHANGED faults

Serve(f) ==
    /\ f \in screen.fetches /\ f.value = -1
    /\ screen' = [screen EXCEPT !.fetches = (@ \ {f}) \cup {[f EXCEPT !.value = screen.now]}]
    /\ ScreenOnly /\ UNCHANGED faults

ShowAny(f) ==
    /\ f \in screen.fetches /\ f.value # -1
    /\ screen' = [screen EXCEPT !.fetches = @ \ {f}, !.shown = f.value, !.fresh = TRUE]
    /\ ScreenOnly /\ UNCHANGED faults

\* An answer, shown if its effect has not ended.
Show(f) ==
    /\ f \in screen.fetches /\ f.value # -1
    /\ screen' = IF f.epoch = screen.epoch THEN [screen EXCEPT !.fetches = @ \ {f}, !.shown = f.value, !.fresh = TRUE]
                 ELSE [screen EXCEPT !.fetches = @ \ {f}]
    /\ ScreenOnly /\ UNCHANGED faults

Unanswered(f) ==
    /\ f \in screen.fetches /\ Slips /\ screen' = [screen EXCEPT !.fetches = @ \ {f}] /\ ScreenOnly

MarkAllRead ==
    /\ screen.unread > 0 /\ screen' = [screen EXCEPT !.unread = 0] /\ ScreenOnly /\ UNCHANGED faults
-----------------------------------------------------------------------------
Telling == {p \in Poll : jobs[p].at \in {"milestones", "write"}}
Underway == MapThenSumSet(LAMBDA p : jobs[p].count - jobs[p].last, Telling)

\* The API restarts: what it was sending, remembered and counted is gone.
Restart ==
    /\ Slips /\ cache' = {} /\ warned' = [u \in Recipient |-> 0]
    /\ place' = [n \in Notice |-> IF place[n] \in {"reading", "sending"} THEN "cut" ELSE place[n]]
    /\ adrift' = adrift \cup {<<n, c>> \in Notice \X Chats : Pending(n, c)}
    /\ members' = [members EXCEPT !.again = @ + Underway, !.breaks = @ + 1]
    /\ jobs' = [p \in Poll |-> NoJob] /\ gate' = NoGate
    /\ screen' = [screen EXCEPT !.socket = "waiting", !.feed = <<>>]
    /\ UNCHANGED <<occasion, live, sends, inbox>>

Timed(A(_, _)) == \E n \in Notice : \E c \in DOMAIN sends[n] : A(n, c)

Next ==
    \/ \E n \in Notice : Start(n) \/ Read(n) \/ ReadFails(n) \/ Settled(n)
    \/ Timed(Arrive) \/ Timed(Answered) \/ Timed(Refused) \/ Timed(GivesUp) \/ Timed(ArrivesLate)
    \/ \E u \in Recipient : Toggle(u) \/ Expire(u)
    \/ Join \/ \E p \in Poll : Begins(p) \/ Look(p) \/ TellGrowth(p) \/ TellMilestone(p) \/ Write(p) \/ WriteFails(p)
    \/ \E k \in Tally : Record(k)
    \/ Summarize \/ \E reached \in BOOLEAN : SummaryEnds(reached)
    \/ Publish \/ Connect \/ Disconnect \/ Hear \/ PollNow \/ MarkAllRead
    \/ \E f \in screen.fetches : Serve(f) \/ Show(f) \/ Unanswered(f)
    \/ Restart

\* The users are read, a send has a timeout, the pollers and the page have timers.
Fairness ==
    /\ WF_noticeVars(\E n \in Notice : Read(n)) /\ WF_noticeVars(\E n \in Notice : Settled(n))
    /\ WF_noticeVars(Timed(GivesUp))
    /\ WF_noticeVars(\E p \in Poll : Begins(p))
    /\ WF_noticeVars(\E p \in Poll : Look(p) \/ TellGrowth(p) \/ TellMilestone(p) \/ Write(p))
    /\ WF_noticeVars(\E reached \in BOOLEAN : SummaryEnds(reached))
    /\ WF_noticeVars(Connect) /\ WF_noticeVars(Hear) /\ WF_noticeVars(PollNow)
    /\ WF_noticeVars(\E f \in screen.fetches : Serve(f)) /\ WF_noticeVars(\E f \in screen.fetches : Show(f))
-----------------------------------------------------------------------------
\* A chat counted as reached was, and one not counted had its send fail.
CountsAreHonest ==
    \A n \in Notice : place[n] = "over" =>
        /\ Sent(n) \cup Failed(n) = DOMAIN sends[n] /\ Sent(n) \cap Failed(n) = {}
        /\ \A c \in Sent(n) : <<n, c>> \in inbox

\* Who is told that a launch scores high was told of the launch, unless that send
\* failed, or the recipients, who are read anew for each notice, did not include
\* them yet: a configuration was switched on in between, which no owner needs.
LaunchComesFirst ==
    \A n \in Notice : Of(n).kind = "high" =>
        LET launch == Of(n).after
        IN  \A c \in DOMAIN sends[n] : <<n, c>> \in inbox /\ <<launch, c>> \notin inbox =>
                IF c \in DOMAIN sends[launch] THEN sends[launch][c] = "failed"
                ELSE c \notin occasion.owners /\ \E u \in Recipient : occasion.chats[u] = c /\ faults > 0

\* However many buys are blocked, a user is warned once until the entry expires.
WarnedOnce == \A u \in Recipient : warned[u] <= 1

\* Every member above the baseline is claimed once, and every milestone told once,
\* but for the runs that broke off between telling and writing.
MembersToldOnce ==
    /\ members.row => members.claimed = (members.last - members.base) + members.again + Underway
    /\ \A m \in Milestones :
          /\ members.miles[m] <= 1 + members.breaks
          /\ m <= members.floor => members.miles[m] = 0
          /\ members.floor < m /\ m <= members.mile => members.miles[m] > 0

\* What the gate did is in one summary, in the window, or lost with one summary.
SummariesAddUp ==
    /\ \A k \in Tally : gate.total[k] = gate.window[k] + gate.told[k] + gate.lost[k] + gate.quiet[k]
                                        + FoldSeq(LAMBDA w, n : w[k] + n, 0, gate.out)
    /\ gate.quiet.blocked = 0 /\ gate.quiet.passed = 0

\* Once an answer is shown after a push, what is shown is no older than the push; the
\* Mini App's list is of the newest pushes, newest first.
ScreenKeepsUp ==
    /\ screen.fresh => screen.shown >= screen.pushed
    /\ \A i \in DOMAIN screen.events : screen.events[i] <= screen.pushed /\ (i > 1 => screen.events[i] < screen.events[i - 1])

NoticesAreSound ==
    TypeOK /\ CountsAreHonest /\ LaunchComesFirst /\ WarnedOnce /\ MembersToldOnce /\ SummariesAddUp /\ ScreenKeepsUp

\* Nobody waits for Telegram for ever, but for a referral's reward; members are
\* told of; the dashboard shows what there is.
NoticesEnd ==
    /\ \A n \in Notice : Of(n).kind # "reward" => place[n] \notin {"reading", "sending"}
    /\ occasion.members.most > 0 => members.row /\ members.count = members.last
    /\ gate.out = <<>> /\ (occasion.screen = "dashboard" => screen.shown = screen.now)
=============================================================================
