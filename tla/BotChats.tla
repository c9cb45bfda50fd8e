------------------------------ MODULE BotChats ------------------------------
(***************************************************************************)
(* The Telegram bot (apps/telegram-bot/src): the long poll that hands it   *)
(* one update at a time, the routing of buttons, texts and commands        *)
(* through the flows a chat may be in the middle of, the screens that      *)
(* write to the database and the calls to the API, next to what the Mini   *)
(* App and the API do to the same rows.  Polling is grammY's: a batch is   *)
(* confirmed by the request for the next one.                              *)
(***************************************************************************)
EXTENDS Integers, Sequences, FiniteSets

CONSTANTS Person, Admin, Referrer,
          RewardAt,    \* REFERRAL_REWARD_THRESHOLD
          Chat,        \* a chat may have several people in it
          MaxConfigs,  \* MAX_SNIPE_CONFIGS_PER_USER
          Scenarios    \* bounds: [taps, sends, faults, restarts, expiries, web, members]

MaxFee == 3

\* Of the updates people send and the requests of the Mini App: fees and levels are
\* small, a close names a position there is, and /start is a command.
ChatsAssumption ==
    /\ IsFiniteSet(Person) /\ Person = 1 .. Cardinality(Person)
    /\ Admin \subseteq Person /\ Referrer \in Person /\ {MaxConfigs, RewardAt} \subseteq Nat \ {0}
    /\ \A s \in Scenarios :
          /\ s \in [taps : SUBSET [k : STRING, who : Person, c : Chat, x : STRING, n : Nat, id : {0}],
                    sends : Nat, faults : Nat, restarts : Nat, expiries : Nat,
                    web : SUBSET [k : {"snipe", "delete", "fee", "level", "register"}, who : Person, n : Nat],
                    members : SUBSET Person]
          /\ \A t \in s.taps : /\ t.k = "close" => t.n \in s.members
                               /\ t.k = "admedit" => t.x \in {"fee", "level", "treasury"}
                               /\ t.x \in {"number", "setfee", "setlevel"} => t.n \in 0 .. MaxFee
                               /\ t.x = "start" => t.k = "cmd"
          /\ \A op \in s.web : op.k \in {"fee", "level"} => op.n \in 0 .. MaxFee

ASSUME ChatsAssumption

VARIABLES budget,      \* what may still happen, and the updates people may send
          inbox, confirmed,          \* the updates sent, and how many Telegram will not send again
          fetched, next,             \* the end of the bot's batch, the next update in it
          cur,                       \* the update being handled
          pend, panel, planEdit,     \* in memory, per chat: UI flow, admin edits
          accounts, agreed, referred, \* who has an account; the fee agreed to; who came by the link
          configs, made,             \* SnipeConfig rows
          wallets, seeds,            \* Wallet rows; generated ones, and those told
          positions,                 \* Position rows
          fee, level, treasury, price,
          rewards,                   \* referral rewards granted
          requests,                  \* API requests under way
          bought, told,              \* what requests did; what people were told
          runs,                      \* how often an update was taken up
          web,                       \* a request of the Mini App under way
          excuses                    \* checks and creates overtaken by another write; faults; restarts

chatVars == <<budget, inbox, confirmed, fetched, next, cur, pend, panel, planEdit, accounts, agreed, referred, configs, made,
          wallets, seeds, positions, fee, level, treasury, price, rewards, requests, bought, told,
          runs, web, excuses>>

Telegram == <<inbox, confirmed, fetched, next>>
Memory == <<pend, panel, planEdit>>
Users == <<accounts, agreed, referred>>
Settings == <<fee, level, treasury, price>>
ChatRows == <<Users, configs, made, wallets, positions, Settings, rewards>>
Calls == <<requests, bought>>

None == 0
NoFee == -1
Idle == [at |-> "idle"]
NoWallet == [owner |-> None, active |-> FALSE]
Key == 1 .. 5
MaxUpdates == 4

Own(p) == {c \in configs : c.owner = p}
Spend(what) == budget[what] > 0 /\ budget' = [budget EXCEPT ![what] = @ - 1]
Excuse(when, what) == excuses' = IF when THEN excuses \cup {what} ELSE excuses

\* Types of the rows, the flows and the update under way.
ChatTypes ==
    /\ confirmed <= fetched /\ fetched <= Len(inbox) /\ next \in confirmed + 1 .. fetched + 1
    /\ cur.at \in {"idle", "user", "create", "count", "grant", "flow", "tap", "agree", "room", "add", "on",
                   "seed", "call", "waiting", "command", "fee", "level"}
    /\ \A c \in Chat : pend[c] = Idle \/ pend[c].at \in {"edit", "tp", "import", "backup", "restore", "restorepw"}
    /\ panel \in [Chat -> {"none", "fee", "level", "treasury"}] /\ planEdit \in [Chat -> BOOLEAN]
    /\ accounts \subseteq Person /\ agreed \in [Person -> NoFee .. MaxFee]
    /\ \A c \in configs : c.id \in 1 .. made /\ c.owner \in Person /\ c.active \in BOOLEAN
    /\ wallets \in [Key -> [owner : Person \cup {None}, active : BOOLEAN]] /\ seeds.told \subseteq seeds.made
    /\ {fee, level, price} \subseteq 0 .. MaxFee /\ rewards \in 0 .. 2
    /\ excuses \subseteq {"config", "fee", "reward", "consent", "create", "fault", "restart"}

\* Two people, a paused config and an open position each.
ChatsInit ==
    /\ budget \in Scenarios
    /\ inbox = <<>> /\ confirmed = 0 /\ fetched = 0 /\ next = 1 /\ cur = Idle
    /\ pend = [c \in Chat |-> Idle] /\ panel = [c \in Chat |-> "none"] /\ planEdit = [c \in Chat |-> FALSE]
    /\ accounts = budget.members /\ agreed = [p \in Person |-> NoFee] /\ referred = {}
    /\ configs = {[id |-> p, owner |-> p, active |-> FALSE, v |-> 0] : p \in budget.members}
    /\ made = Cardinality(Person)
    /\ wallets = [k \in Key |-> IF k \in budget.members THEN [owner |-> k, active |-> TRUE] ELSE NoWallet]
    /\ seeds = [made |-> {}, told |-> {}]
    /\ positions = [p \in budget.members |-> [owner |-> p, open |-> TRUE, tp |-> 0]]
    /\ fee = 2 /\ level = 1 /\ treasury = None /\ price = 1 /\ rewards = 0
    /\ requests = {} /\ bought = {} /\ told = {} /\ runs = [i \in 1 .. MaxUpdates |-> 0]
    /\ web = Idle /\ excuses = {}

-----------------------------------------------------------------------------
(* Telegram and the long poll. *)

SendUpdate ==
    /\ Len(inbox) < MaxUpdates /\ Spend("sends")
    /\ \E tap \in budget.taps : inbox' = Append(inbox, [tap EXCEPT !.id = Len(inbox) + 1])
    /\ UNCHANGED <<confirmed, fetched, next, cur, Memory, ChatRows, seeds, Calls, told, runs, web, excuses>>

\* getUpdates with the offset after the last batch, which it confirms
FetchBatch ==
    /\ cur.at = "idle" /\ next > fetched /\ Len(inbox) > fetched
    /\ confirmed' = fetched /\ fetched' = Len(inbox)
    /\ UNCHANGED <<budget, inbox, next, cur, Memory, ChatRows, seeds, Calls, told, runs, web, excuses>>

\* SIGTERM: the process exits before stop() could confirm the batch, so
\* Telegram sends it again; what is in memory is gone
BotRestarts ==
    /\ Spend("restarts") /\ excuses' = excuses \cup {"fault", "restart"}
    /\ fetched' = confirmed /\ next' = confirmed + 1 /\ cur' = Idle
    /\ pend' = [c \in Chat |-> Idle] /\ panel' = [c \in Chat |-> "none"]
    /\ planEdit' = [c \in Chat |-> FALSE]
    /\ UNCHANGED <<inbox, confirmed, ChatRows, seeds, Calls, told, runs, web>>

\* bot.catch: a handler that throws is logged, and its update is done with
Fail ==
    /\ cur.at \notin {"idle", "waiting"} /\ Spend("faults") /\ cur' = Idle
    /\ excuses' = excuses \cup {"fault"}
    /\ UNCHANGED <<Telegram, Memory, ChatRows, seeds, Calls, told, runs, web>>

\* EDIT_TTL_MS: an admin's edit that is not answered for five minutes (the age
\* is looked at when a text is taken up).  Where both wait the plan's is the older,
\* and the panel's may have time left.
Expire(c) ==
    /\ cur.at = "idle" /\ Spend("expiries") /\ planEdit' = [planEdit EXCEPT ![c] = FALSE]
    /\ \/ panel' = [panel EXCEPT ![c] = "none"]
       \/ planEdit[c] /\ UNCHANGED panel
    /\ UNCHANGED <<Telegram, cur, pend, ChatRows, seeds, Calls, told, runs, web, excuses>>

-----------------------------------------------------------------------------
(* Routing: the handlers in the order they are registered. *)

To(at, u) == cur' = [at |-> at, u |-> u, mine |-> NoFee, saw |-> 0]
Slash(u) == u.k = "cmd"
Text(u) == u.k \in {"text", "cmd"}
Commands == {"pauseall", "resumeall", "setfee", "setlevel"}

\* admp: and adm: buttons
AdminButton(u) ==
    /\ u.k \in {"admedit", "admplan"} /\ cur' = Idle /\ UNCHANGED pend
    /\ IF u.who \notin Admin THEN UNCHANGED <<panel, planEdit>>
       ELSE IF u.k = "admplan"
       THEN panel' = [panel EXCEPT ![u.c] = "none"] /\ planEdit' = [planEdit EXCEPT ![u.c] = TRUE]
       ELSE panel' = [panel EXCEPT ![u.c] = u.x] /\ UNCHANGED planEdit

\* Mutant of AdminText: the answer is taken from anyone in the chat.
AdminTextAnyone(u) ==
    /\ Text(u) /\ ~Slash(u) /\ (planEdit[u.c] \/ panel[u.c] # "none")
    /\ To("command", u)
    /\ UNCHANGED Memory

\* A text while an admin edit waits in the chat
AdminText(u) ==
    /\ Text(u) /\ ~Slash(u) /\ (planEdit[u.c] \/ panel[u.c] # "none")
    /\ IF u.who \in Admin THEN To("command", u) ELSE cur' = Idle
    /\ UNCHANGED Memory

\* A command ends the edits that wait; /cancel only the first of them
EndsEdits(u) ==
    /\ planEdit' = [planEdit EXCEPT ![u.c] = FALSE]
    /\ panel' = [panel EXCEPT ![u.c] = IF u.x = "cancel" /\ planEdit[u.c] THEN @ ELSE "none"]
    /\ UNCHANGED pend

Command(u) ==
    /\ Slash(u) /\ EndsEdits(u)
    /\ IF u.x \in Commands THEN IF u.who \in Admin THEN To("command", u) ELSE cur' = Idle
       ELSE IF u.x = "cancel" /\ (planEdit[u.c] \/ panel[u.c] # "none") THEN cur' = Idle
       ELSE IF u.x = "start" \/ pend[u.c] # Idle THEN To("user", u)
       ELSE cur' = Idle

\* A text or a document for the flow the chat is in; a menu label without one
UiText(u) ==
    /\ UNCHANGED Memory
    /\ \/ u.k = "text" /\ ~planEdit[u.c] /\ panel[u.c] = "none"
          /\ IF pend[u.c] # Idle \/ u.x = "label" THEN To("user", u) ELSE cur' = Idle
       \/ u.k = "document" /\ IF pend[u.c].at = "restore" THEN To("user", u) ELSE cur' = Idle

Buttons == {"accept", "quickstart", "resume", "resumeall", "pause", "pauseall", "delete", "create", "deactivate",
            "backup", "restore", "import", "edit", "preset", "tp", "close", "closeall", "buy", "screen", "card"}
UiButton(u) == u.k \in Buttons /\ To("user", u) /\ UNCHANGED Memory

Begin ==
    /\ cur.at = "idle" /\ next <= fetched
    /\ next' = next + 1 /\ runs' = [runs EXCEPT ![inbox[next].id] = @ + 1]
    /\ LET u == inbox[next] IN
          AdminButton(u) \/ AdminText(u) \/ Command(u) \/ UiText(u) \/ UiButton(u)
    /\ UNCHANGED <<budget, inbox, confirmed, fetched, ChatRows, seeds, Calls, told, web, excuses>>

-----------------------------------------------------------------------------
(* The account, which the first contact makes. *)

At(at) == cur.at = at
Goto(at) == cur' = [cur EXCEPT !.at = at]
Done == cur' = Idle
Who == cur.u.who
Here == cur.u.c
Elsewhere == <<Telegram, panel, planEdit, Settings, Calls, told, runs, web>>

\* a:card:* and a:wallet:qr:* answer with a message of their own and return before
\* the flow is left
Leaving == Buttons \ {"card"}

\* A button press exits whatever text-input flow was pending
ExitsFlow(u) == pend' = IF u.k \in Leaving THEN [pend EXCEPT ![u.c] = Idle] ELSE pend

\* What comes after the account: the flow, or the button's action or a screen
Screen(u) == IF u.k \notin Buttons /\ pend[u.c] # Idle /\ u.x # "start" THEN "flow" ELSE "tap"

ReadUser ==
    /\ At("user") /\ UNCHANGED <<ChatRows, seeds, budget, excuses, Elsewhere>>
    /\ IF Who \in accounts
       THEN cur' = [cur EXCEPT !.at = Screen(cur.u), !.mine = agreed[Who]] /\ ExitsFlow(cur.u)
       ELSE Goto("create") /\ UNCHANGED pend

\* Nobody guards the create: when the Mini App was first it throws
CreateUser ==
    /\ At("create") /\ UNCHANGED <<agreed, configs, made, wallets, positions, rewards, seeds, budget, Elsewhere>>
    /\ IF Who \in accounts THEN Done /\ UNCHANGED <<Users, pend>> /\ excuses' = excuses \cup {"create"}
       ELSE /\ accounts' = accounts \cup {Who} /\ UNCHANGED excuses
            /\ IF cur.u.x = "start" /\ cur.u.n = Referrer
               THEN referred' = referred \cup {Who} /\ Goto("count") /\ UNCHANGED pend
               ELSE UNCHANGED referred /\ Goto(Screen(cur.u)) /\ ExitsFlow(cur.u)

\* maybeActivateReferralReward: the count, and no reward on record
Crossed == Cardinality(referred) >= RewardAt /\ rewards = 0

CountReferrals ==
    /\ At("count") /\ UNCHANGED <<ChatRows, pend, seeds, budget, excuses, Elsewhere>>
    /\ IF Crossed THEN Goto("grant") ELSE Done

\* The transaction: an active config and the record of it
Granted ==
    /\ rewards' = rewards + 1 /\ made' = made + 1
    /\ configs' = configs \cup {[id |-> made + 1, owner |-> Referrer, active |-> TRUE, v |-> 0]}

Grant ==
    /\ At("grant") /\ Granted /\ Done
    /\ Excuse(web.at = "grant", "reward")
    /\ UNCHANGED <<Users, wallets, positions, pend, seeds, budget, Elsewhere>>

-----------------------------------------------------------------------------
(* Buttons. *)

Tap(kinds) == At("tap") /\ cur.u.k \in kinds
Nothing == UNCHANGED <<ChatRows, seeds, Calls, pend>>
Quiet == UNCHANGED <<Telegram, panel, planEdit, runs, web>>

\* isTradingAllowed and hasAcceptedCurrentFeePolicy, from the row read at the start
Allowed == Who \in Admin /\ cur.mine # NoFee /\ cur.mine = fee
ResumeAllowed == Allowed

Owned(id) == {c \in configs : c.id = id /\ c.owner = Who}

Look ==
    /\ Tap({"screen", "card", "text", "cmd"}) /\ Done
    /\ Nothing /\ Quiet /\ UNCHANGED <<budget, told, excuses>>

\* handleAcceptFeePolicy: the fee in force when the button is handled
AcceptFeePolicy ==
    /\ Tap({"accept"}) /\ cur' = [cur EXCEPT !.at = "agree", !.saw = fee]
    /\ Nothing /\ Quiet /\ UNCHANGED <<budget, told, excuses>>
Agree ==
    /\ At("agree") /\ agreed' = [agreed EXCEPT ![Who] = cur.saw] /\ Done
    /\ UNCHANGED <<accounts, referred, configs, made, wallets, positions, Settings, rewards, seeds, Calls, pend>>
    /\ Quiet /\ UNCHANGED <<budget, told, excuses>>

QuickStart ==
    /\ Tap({"quickstart"}) /\ IF Allowed THEN Goto("room") ELSE Done
    /\ Nothing /\ Quiet /\ UNCHANGED <<budget, told, excuses>>

HasRoom(p) == Cardinality(Own(p)) < MaxConfigs

Room ==
    /\ At("room") /\ IF HasRoom(Who) THEN Goto("add") ELSE Done
    /\ Nothing /\ Quiet /\ UNCHANGED <<budget, told, excuses>>

AddConfig(p) ==
    /\ made' = made + 1
    /\ configs' = configs \cup {[id |-> made + 1, owner |-> p, active |-> TRUE, v |-> 0]}
Add ==
    /\ At("add") /\ AddConfig(Who) /\ Done /\ Excuse(web.at = "write" /\ web.op.k = "snipe", "config")
    /\ UNCHANGED <<Users, wallets, positions, Settings, rewards, seeds, Calls, pend>>
    /\ Quiet /\ UNCHANGED <<budget, told>>

Resume ==
    /\ Tap({"resume", "resumeall"}) /\ IF ResumeAllowed THEN Goto("on") ELSE Done
    /\ Nothing /\ Quiet /\ UNCHANGED <<budget, told, excuses>>

\* Sets the rows that pass, and nothing else about them
SetActive(rows, on) == configs' = (configs \ rows) \cup {[c EXCEPT !.active = on] : c \in rows}
OtherRows == UNCHANGED <<Users, made, wallets, positions, Settings, rewards, seeds, Calls, pend>>

SwitchOn ==
    /\ At("on") /\ Done /\ SetActive(IF cur.u.k = "resumeall" THEN Own(Who) ELSE Owned(cur.u.n), TRUE)
    /\ OtherRows /\ Quiet /\ UNCHANGED <<budget, told, excuses>>

Pause ==
    /\ Tap({"pause", "pauseall"}) /\ Done
    /\ SetActive(IF cur.u.k = "pauseall" THEN Own(Who) ELSE Owned(cur.u.n), FALSE)
    /\ OtherRows /\ Quiet /\ UNCHANGED <<budget, told, excuses>>

DeleteConfig ==
    /\ Tap({"delete"}) /\ Done /\ configs' = configs \ Owned(cur.u.n)
    /\ OtherRows /\ Quiet /\ UNCHANGED <<budget, told, excuses>>

ApplyTrailingStopPreset ==
    /\ Tap({"preset"}) /\ Done
    /\ configs' = (configs \ Owned(cur.u.n)) \cup {[c EXCEPT !.v = 9] : c \in Owned(cur.u.n)}
    /\ OtherRows /\ Quiet /\ UNCHANGED <<budget, told, excuses>>

\* setPending: what the flow waits for, for which row, and which button opened it
Prompt ==
    /\ Tap({"edit", "tp", "import", "backup", "restore"}) /\ Done
    /\ pend' = [pend EXCEPT ![Here] = [at |-> cur.u.k, of |-> cur.u.n, by |-> cur.u.id]]
    /\ UNCHANGED <<ChatRows, seeds, Calls, budget, told, excuses>> /\ Quiet

-----------------------------------------------------------------------------
(* Wallets. *)

OtherThanWallets == UNCHANGED <<Users, configs, made, positions, Settings, rewards, Calls>>
NewRow(p) == [owner |-> p, active |-> TRUE]

ShowSeed(k) == cur' = [cur EXCEPT !.at = "seed", !.saw = k]

\* handleCreateWallet: the row first, then the message with the seed phrase
CreateWallet ==
    /\ Tap({"create"}) /\ Quiet /\ UNCHANGED <<budget, pend, told, excuses>>
    /\ \E k \in Key :
          /\ wallets[k] = NoWallet /\ \A j \in Key : wallets[j] = NoWallet => k <= j
          /\ wallets' = [wallets EXCEPT ![k] = NewRow(Who)]
          /\ seeds' = [seeds EXCEPT !.made = @ \cup {k}] /\ ShowSeed(k)
    /\ OtherThanWallets

\* sendSeedPhraseOnce
SendSeedPhrase ==
    /\ At("seed") /\ Done /\ seeds' = [seeds EXCEPT !.told = @ \cup {cur.saw}]
    /\ UNCHANGED <<ChatRows, Calls, pend, budget, told, excuses>> /\ Quiet

DeactivateWallet ==
    /\ Tap({"deactivate"}) /\ Done /\ OtherThanWallets
    /\ wallets' = [wallets EXCEPT ![cur.u.n].active = @ /\ wallets[cur.u.n].owner # Who]
    /\ UNCHANGED <<seeds, pend, budget, told, excuses>> /\ Quiet

-----------------------------------------------------------------------------
(* Answers to the flow a chat is in.  A refused answer leaves it waiting. *)

Flowing(at) == At("flow") /\ pend[Here].at = at
Ends == pend' = [pend EXCEPT ![Here] = Idle]
FlowQuiet == UNCHANGED <<Telegram, panel, planEdit, Calls, told, runs, web, budget, excuses>>
RefusedText == UNCHANGED <<ChatRows, seeds, pend>>

\* The sender's own config, which the flow was opened on
Editable(id) == {c \in configs : c.id = id /\ c.owner = Who}

\* The text is a number the field takes
Parses == cur.u.x = "number"

ApplySettingsEdit ==
    /\ Flowing("edit") /\ Done /\ FlowQuiet
    /\ IF Parses /\ Editable(pend[Here].of) # {}
       THEN /\ LET rows == Editable(pend[Here].of) IN
                 configs' = (configs \ rows) \cup {[c EXCEPT !.v = cur.u.id] : c \in rows}
            /\ Ends /\ UNCHANGED <<Users, made, wallets, positions, Settings, rewards, seeds>>
       ELSE RefusedText

ApplyTakeProfit ==
    /\ Flowing("tp") /\ Done /\ FlowQuiet
    /\ IF Parses /\ positions[pend[Here].of].owner = Who
       THEN /\ positions' = [positions EXCEPT ![pend[Here].of].tp = cur.u.id]
            /\ Ends /\ UNCHANGED <<Users, configs, made, wallets, Settings, rewards, seeds>>
       ELSE RefusedText

OnlyWallets == UNCHANGED <<Users, configs, made, positions, Settings, rewards, seeds>>

\* A key that has a row already violates the unique constraint and throws
ApplyImportWallet ==
    /\ Flowing("import") /\ Done /\ FlowQuiet
    /\ IF cur.u.x = "key" /\ wallets[cur.u.n] = NoWallet
       THEN wallets' = [wallets EXCEPT ![cur.u.n] = NewRow(Who)] /\ Ends /\ OnlyWallets
       ELSE RefusedText

\* Any eight characters make a password, a menu label's among them
ApplyBackup ==
    /\ Flowing("backup") /\ Done /\ FlowQuiet
    /\ IF cur.u.x \in {"password", "key", "label"} /\ wallets[pend[Here].of].owner = Who
       THEN Ends /\ UNCHANGED <<ChatRows, seeds>>
       ELSE RefusedText

RestoreFile ==
    /\ Flowing("restore") /\ Done /\ FlowQuiet /\ UNCHANGED <<ChatRows, seeds>>
    /\ pend' = IF cur.u.k = "document" /\ cur.u.x = "backup"
               THEN [pend EXCEPT ![Here].at = "restorepw", ![Here].of = cur.u.n] ELSE pend

\* A key without a row, or the sender's own that is not active
Restorable(k) == wallets[k] = NoWallet \/ (wallets[k].owner = Who /\ ~wallets[k].active)

ApplyRestore ==
    /\ Flowing("restorepw") /\ Done /\ FlowQuiet
    /\ IF cur.u.x = "password" /\ Restorable(pend[Here].of)
       THEN wallets' = [wallets EXCEPT ![pend[Here].of] = NewRow(Who)] /\ Ends /\ OnlyWallets
       ELSE RefusedText

-----------------------------------------------------------------------------
(* Calls to the API, which goes on when the bot has stopped waiting. *)

Request == [id |-> cur.u.id, run |-> runs[cur.u.id], k |-> cur.u.k, n |-> cur.u.n, who |-> Who]
Tell(u, what) == told' = told \cup {[id |-> u.id, n |-> u.n, what |-> what]}

Closable(n) == positions[n].owner = Who /\ positions[n].open

Ask == requests' = requests \cup {Request} /\ Goto("waiting") /\ UNCHANGED told
CallQuiet == UNCHANGED <<ChatRows, seeds, bought, pend, budget, excuses>> /\ Quiet

ClosePosition ==
    /\ Tap({"close"}) /\ CallQuiet
    /\ IF Closable(cur.u.n) THEN Ask ELSE Tell(cur.u, "gone") /\ Done /\ UNCHANGED requests
CloseAll == Tap({"closeall"}) /\ Ask /\ CallQuiet
PlanPurchase == Tap({"buy"}) /\ Ask /\ CallQuiet

\* What the API's routes do and answer: a sale, a wallet found empty (no
\* signature), a close somebody else has under way, a failure
Answers(r) ==
    IF r.k = "close" /\ positions[r.n].open
    THEN {[close |-> {r.n}, pay |-> FALSE, signed |-> TRUE, closed |-> TRUE, ok |-> TRUE],
          [close |-> {r.n}, pay |-> FALSE, signed |-> FALSE, closed |-> TRUE, ok |-> TRUE],
          [close |-> {}, pay |-> FALSE, signed |-> FALSE, closed |-> FALSE, ok |-> TRUE],
          [close |-> {}, pay |-> FALSE, signed |-> FALSE, closed |-> FALSE, ok |-> FALSE]}
    ELSE IF r.k = "closeall"
    THEN {[close |-> sold, pay |-> FALSE, signed |-> FALSE, closed |-> FALSE, ok |-> TRUE] :
             sold \in SUBSET {n \in DOMAIN positions : positions[n].owner = r.who}}
    ELSE {[close |-> {}, pay |-> r.k = "buy", signed |-> FALSE, closed |-> FALSE, ok |-> r.k = "buy"],
          [close |-> {}, pay |-> FALSE, signed |-> FALSE, closed |-> FALSE, ok |-> FALSE]}

\* The message the bot makes of the answer
Says(k, a) ==
    IF ~a.ok THEN "failed" ELSE IF k = "buy" THEN "paid" ELSE IF k = "closeall" THEN "summary"
    ELSE IF a.signed \/ a.closed THEN "closed" ELSE "handled"

AwaitedBy(r) == At("waiting") /\ r = Request

Serve(r, a) ==
    /\ requests' = requests \ {r}
    /\ positions' = [n \in DOMAIN positions |-> [positions[n] EXCEPT !.open = @ /\ n \notin a.close]]
    /\ bought' = IF a.pay THEN bought \cup {[id |-> r.id, run |-> r.run]} ELSE bought
    /\ IF AwaitedBy(r) THEN Tell(cur.u, Says(r.k, a)) /\ Done ELSE UNCHANGED <<told, cur>>
    /\ UNCHANGED <<Users, configs, made, wallets, Settings, rewards, seeds, pend, budget, excuses>> /\ Quiet
ApiServe == \E r \in requests : \E a \in Answers(r) : Serve(r, a)

\* AbortSignal.timeout of 30 s
TimesOut ==
    /\ At("waiting") /\ Tell(cur.u, "failed") /\ Done /\ UNCHANGED requests

Timeout == TimesOut /\ CallQuiet

-----------------------------------------------------------------------------
(* Admin commands and edits. *)

Edits(what) == At("command") /\ ~Slash(cur.u)
               /\ (IF planEdit[Here] THEN "plan" ELSE panel[Here]) = what
Commanded(x) == At("command") /\ Slash(cur.u) /\ cur.u.x = x
AdminQuiet == UNCHANGED <<Telegram, pend, Users, made, wallets, positions, rewards, seeds, Calls, told, runs, web, budget>>
PanelDone == panel' = [panel EXCEPT ![Here] = IF Slash(cur.u) THEN @ ELSE "none"]

\* applyPlanEdit
PlanEdit ==
    /\ Edits("plan") /\ Done
    /\ IF cur.u.x = "number" THEN price' = cur.u.n /\ planEdit' = [planEdit EXCEPT ![Here] = FALSE]
       ELSE UNCHANGED <<price, planEdit>>
    /\ UNCHANGED <<fee, level, treasury, panel, configs, excuses>> /\ AdminQuiet

SetTreasuryWallet ==
    /\ Edits("treasury") /\ Done
    /\ IF cur.u.x = "key" THEN treasury' = cur.u.n /\ PanelDone ELSE UNCHANGED <<treasury, panel>>
    /\ UNCHANGED <<fee, level, price, planEdit, configs, excuses>> /\ AdminQuiet

\* checkFeeBudget: the referral levels come out of the fee
FitsBudget(what, n) == IF what = "fee" THEN level <= n ELSE n <= fee

\* setPlatformFee and setReferralLevel read the settings, then write
CheckSetting(what, command) ==
    /\ Edits(what) \/ Commanded(command)
    /\ IF (Slash(cur.u) \/ cur.u.x = "number") /\ FitsBudget(what, cur.u.n) THEN Goto(what) ELSE Done
    /\ UNCHANGED <<Settings, panel, planEdit, configs, excuses>> /\ AdminQuiet
CheckFee == CheckSetting("fee", "setfee")
CheckLevel == CheckSetting("level", "setlevel")

WebWrites(kinds) == web.at = "write" /\ web.op.k \in kinds
SetPlatformFee ==
    /\ At("fee") /\ Done /\ fee' = cur.u.n /\ PanelDone /\ Excuse(WebWrites({"fee", "level"}), "fee")
    /\ UNCHANGED <<level, treasury, price, planEdit, configs>> /\ AdminQuiet
SetReferralLevel ==
    /\ At("level") /\ Done /\ level' = cur.u.n /\ PanelDone /\ Excuse(WebWrites({"fee", "level"}), "fee")
    /\ UNCHANGED <<fee, treasury, price, planEdit, configs>> /\ AdminQuiet

\* /pauseall, /resumeall: everybody's configs
SwitchAll ==
    /\ Commanded("pauseall") \/ Commanded("resumeall")
    /\ Done /\ SetActive(configs, cur.u.x = "resumeall")
    /\ UNCHANGED <<Settings, panel, planEdit, excuses>> /\ AdminQuiet

-----------------------------------------------------------------------------
(* The Mini App's requests, one at a time: a read, then a write. *)

Bot == <<Telegram, cur, Memory, seeds, Calls, told, runs>>

\* What the read lets through
Passes(op) ==
    CASE op.k = "snipe" -> Cardinality(Own(op.who)) < MaxConfigs
      [] op.k \in {"fee", "level"} -> FitsBudget(op.k, op.n)
      [] op.k = "register" -> op.who \notin accounts
      [] op.k = "delete" -> \E c \in configs : c.id = op.n /\ c.owner = op.who

WebBegin(op) ==
    /\ web.at = "idle" /\ budget' = [budget EXCEPT !.web = @ \ {op}]
    /\ web' = IF Passes(op) THEN [at |-> "write", op |-> op] ELSE Idle
    /\ UNCHANGED <<Bot, ChatRows, excuses>>
WebRead == \E op \in budget.web : WebBegin(op)

\* POST /snipes: active unless the body says otherwise
WebSnipe ==
    /\ WebWrites({"snipe"}) /\ AddConfig(web.op.who) /\ web' = Idle
    /\ Excuse(At("add") /\ Who = web.op.who, "config")
    /\ UNCHANGED <<Users, wallets, positions, Settings, rewards, Bot, budget>>
WebDelete ==
    /\ WebWrites({"delete"}) /\ configs' = {c \in configs : c.id # web.op.n} /\ web' = Idle
    /\ UNCHANGED <<Users, made, wallets, positions, Settings, rewards, Bot, budget, excuses>>

\* PUT /admin/settings/fee and /referral/:level
WebSetting ==
    /\ WebWrites({"fee", "level"}) /\ web' = Idle
    /\ IF web.op.k = "fee" THEN fee' = web.op.n /\ UNCHANGED level ELSE level' = web.op.n /\ UNCHANGED fee
    /\ excuses' = excuses \cup (IF cur.at \in {"fee", "level"} THEN {"fee"} ELSE {})
                          \cup (IF cur.at \in {"room", "add", "on"} THEN {"consent"} ELSE {})
    /\ UNCHANGED <<Users, configs, made, wallets, positions, treasury, price, rewards, Bot, budget>>

\* resolveOrCreateTelegramUser: the row of whoever was first, if it lost
WebRegister ==
    /\ WebWrites({"register"}) /\ accounts' = accounts \cup {web.op.who}
    /\ IF web.op.who \notin accounts /\ web.op.n = Referrer
       THEN referred' = referred \cup {web.op.who} /\ web' = [web EXCEPT !.at = "count"]
       ELSE UNCHANGED referred /\ web' = Idle
    /\ UNCHANGED <<agreed, configs, made, wallets, positions, Settings, rewards, Bot, budget, excuses>>
WebCount ==
    /\ web.at = "count" /\ web' = IF Crossed THEN [web EXCEPT !.at = "grant"] ELSE Idle
    /\ UNCHANGED <<ChatRows, Bot, budget, excuses>>
WebGrant ==
    /\ web.at = "grant" /\ Granted /\ web' = Idle /\ Excuse(At("grant"), "reward")
    /\ UNCHANGED <<Users, wallets, positions, Settings, Bot, budget>>

-----------------------------------------------------------------------------
Handle ==
    \/ ReadUser \/ CreateUser \/ CountReferrals \/ Grant
    \/ Look \/ AcceptFeePolicy \/ Agree \/ QuickStart \/ Room \/ Add \/ Resume \/ SwitchOn \/ Pause
    \/ DeleteConfig \/ ApplyTrailingStopPreset \/ Prompt
    \/ CreateWallet \/ SendSeedPhrase \/ DeactivateWallet
    \/ ApplySettingsEdit \/ ApplyTakeProfit \/ ApplyImportWallet \/ ApplyBackup \/ RestoreFile \/ ApplyRestore
    \/ ClosePosition \/ CloseAll \/ PlanPurchase \/ PlanEdit \/ SetTreasuryWallet \/ CheckFee \/ CheckLevel \/ SetPlatformFee \/ SetReferralLevel
    \/ SwitchAll
MiniApp == WebRead \/ WebSnipe \/ WebDelete \/ WebSetting \/ WebRegister \/ WebCount \/ WebGrant

ChatsNext ==
    \/ SendUpdate \/ FetchBatch \/ Begin \/ Handle \/ Timeout \/ BotRestarts \/ Fail
    \/ \E c \in Chat : Expire(c)
    \/ ApiServe \/ MiniApp

ChatsSpec == ChatsInit /\ [][ChatsNext]_chatVars

\* The poll and the handlers go on, and a request is given up in time; nothing
\* is assumed of the API, the people or the Mini App.
ChatsFairness == WF_chatVars(FetchBatch \/ Begin \/ Handle \/ Timeout)

-----------------------------------------------------------------------------
\* A button or a text only touches rows of the person it is from, whoever
\* opened the flow it answers (people of one chat share its flow).
OwnRowsOnly ==
    [][(cur.at \in {"tap", "flow", "on", "add"} /\ cur' # cur) =>
         /\ \A c \in (configs \ configs') \cup (configs' \ configs) : c.owner = Who
         /\ \A k \in Key : wallets'[k] # wallets[k] => wallets[k].owner \in {None, Who} /\ wallets'[k].owner = Who
         /\ \A n \in DOMAIN positions : positions'[n] # positions[n] => positions[n].owner = Who]_chatVars

\* A button only switches trading on for an admin who agreed to the fee in
\* force, unless the Mini App changed the fee in the same moment.
EnabledByConsent ==
    [][(cur.at \in {"on", "add"} /\ cur' # cur /\ (\E c \in configs' \ configs : c.active)) =>
         Who \in Admin /\ (agreed[Who] = fee \/ "consent" \in excuses)]_chatVars

\* More configs than the cap need two creations at once, or the referral
\* reward, which does not look at the cap.
CapNeedsRival ==
    \A p \in Person : Cardinality(Own(p)) > MaxConfigs => "config" \in excuses \/ (p = Referrer /\ rewards > 0)

\* The referral levels fit in the platform fee unless two settings were
\* checked before either was written.
BudgetNeedsRival == level <= fee \/ "fee" \in excuses

\* Reaching the threshold is rewarded, and rewarded once unless two arrivals
\* were counted at the same time.
RewardedOnce ==
    /\ rewards > 1 => "reward" \in excuses
    /\ (cur.at \notin {"count", "grant"} /\ web.at \notin {"count", "grant"} /\ Cardinality(referred) >= RewardAt)
         => rewards > 0 \/ "fault" \in excuses

\* A tap buys a plan once, whether or not the bot waited for the answer; only
\* the redelivery of its update after a restart buys again.
OneTapOnePurchase ==
    \A b, other \in bought : b.id = other.id /\ b # other => "restart" \in excuses

\* What the bot reports closed is closed: an answer of the API that says
\* somebody else is closing it is not taken for a close.
SaidClosedIsClosed == \A t \in told : t.what = "closed" => ~positions[t.n].open

\* Fee, levels, treasury and prices only change by an admin's hand, in a chat
\* where others may write while the bot waits for the number.
PanelIsAdmins ==
    [][(Settings' # Settings /\ UNCHANGED web) => Who \in Admin]_chatVars

\* A flow that waits for a text was opened by the last button handled in its
\* chat: no later button leaves it to swallow the next message, unless its handler
\* threw, as at a first contact that the Mini App registers meanwhile.  The buttons
\* of a trade card and of a wallet's QR code do leave it (router.ts:418-427),
\* although the comment at router.ts:432 has every button press exit the flow.
ButtonsEndFlows ==
    {"fault", "create"} \cap excuses = {} /\ cur.at = "idle" =>
        \A c \in Chat : pend[c] # Idle =>
            \A i \in pend[c].by + 1 .. next - 1 : ~(inbox[i].c = c /\ inbox[i].k \in Leaving)

\* A generated wallet whose seed phrase nobody was told needs a failure after
\* its row was written.
SeedLostNeedsFault ==
    seeds.made # seeds.told => At("seed") \/ "fault" \in excuses

\* The promises above: of the rows a person may touch, of money and consent,
\* of what people are told, and of the flows a chat is in.
ChatsAreSound ==
    /\ [](/\ ChatTypes /\ CapNeedsRival /\ BudgetNeedsRival /\ RewardedOnce /\ OneTapOnePurchase
          /\ SaidClosedIsClosed /\ ButtonsEndFlows /\ SeedLostNeedsFault)
    /\ OwnRowsOnly /\ EnabledByConsent /\ PanelIsAdmins

\* Every update sent is handled, an API that never answers notwithstanding.
UpdatesHandled == cur.at = "idle" /\ next = Len(inbox) + 1
=============================================================================
