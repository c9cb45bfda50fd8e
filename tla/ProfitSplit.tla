------------------------------ MODULE ProfitSplit ------------------------------
(***************************************************************************)
(* How a profitable close is divided: processProfitableClose of            *)
(* registerFeeSystem.ts up to the payout, with the pure functions of       *)
(* packages/shared/src/fee.ts, while users register, the trader re-enters  *)
(* the token and admins edit the settings.  Amounts are whole units, rates *)
(* are parts of Whole.                                                     *)
(***************************************************************************)
EXTENDS Integers, Sequences, FiniteSets, SequencesExt

CONSTANTS User, Close, Admin,
          Whole,        \* what 10 000 bps stand for
          DefaultFee, DefaultLevels,   \* the seeded settings
          MaxDepth,     \* maxReferralDepth
          Fee,          \* fees an admin or a plan may set
          Scenarios     \* bounds: [joins, rebuys, closes, edits, seeded]

SplitAssumption ==
    /\ Whole \in Nat \ {0} /\ DefaultFee \in 0 .. Whole /\ Fee \subseteq 0 .. Whole
    /\ DefaultLevels \in Seq(0 .. Whole) /\ MaxDepth \in Nat
    /\ User \cup Close \cup Admin \subseteq Nat \ {0}

VARIABLES
    parent,    \* referredByCode of the registered users, 0 for none
    rows,      \* BusinessSettings by id
    now,       \* a clock: closes and rows are stamped with it
    op,        \* each close's handler
    split,     \* what each handled close came to
    latest,    \* amount of each user's newest BUY of the token
    edit,      \* each admin's edit under way
    acked,     \* edits acknowledged
    scenario, budget, raced, stale, rebought

vars == <<parent, rows, now, op, split, latest, edit, acked, scenario, budget, raced, stale, rebought>>

None == 0
Ids == 1 .. 3
Registered == DOMAIN parent
NoRow == [exists |-> FALSE, fee |-> 0, levels |-> <<>>, program |-> FALSE, since |-> 0, edits |-> {}]
NoOp == [at |-> "idle", user |-> None, gross |-> 0, buy |-> 0, sells |-> <<>>, closed |-> 0,
         row |-> NoRow, net |-> 0, priced |-> FALSE, plan |-> -1, chain |-> <<>>]
NoSplit == [done |-> FALSE, net |-> 0, user |-> 0, platform |-> 0, rewards |-> <<>>, over |-> 1]
NoEdit == [at |-> "idle", kind |-> "fee", value |-> 0, id |-> None, row |-> NoRow, n |-> 0]

Total(s) == FoldSeq(LAMBDA x, sum : x + sum, 0, s)
Least(a, b) == IF a < b THEN a ELSE b
Existing == {i \in Ids : rows[i].exists}

\* findFirst ordered by id
First == CHOOSE i \in Existing : \A j \in Existing : i <= j

\* Types of the settings, the handlers and their results.
TypeOK ==
    /\ Registered \subseteq User /\ \A u \in Registered : parent[u] \in Registered \cup {None}
    /\ \A i \in Ids : rows[i].exists => rows[i].fee \in 0 .. Whole /\ rows[i].since <= now
    /\ \A c \in Close : /\ op[c].at \in {"idle", "find", "create", "trades", "plan", "walk", "split", "done"}
                        /\ op[c].at # "idle" => op[c].user \in Registered
                        /\ split[c].done => op[c].at = "done"
    /\ \A a \in Admin : edit[a].at \in {"idle", "find", "create", "check", "write"}
    /\ acked \subseteq 1 .. scenario.edits

Init ==
    /\ scenario \in Scenarios
    /\ parent = (1 :> None)
    /\ rows = [i \in Ids |-> IF scenario.seeded /\ i = 1
                             THEN [exists |-> TRUE, fee |-> DefaultFee, levels |-> DefaultLevels,
                                   program |-> TRUE, since |-> 0, edits |-> {}]
                             ELSE NoRow]
    /\ now = 0
    /\ op = [c \in Close |-> NoOp] /\ split = [c \in Close |-> NoSplit]
    /\ latest = [u \in User |-> 0]
    /\ edit = [a \in Admin |-> NoEdit] /\ acked = {}
    /\ budget = [joins |-> scenario.joins, rebuys |-> scenario.rebuys,
                 closes |-> scenario.closes, edits |-> scenario.edits]
    /\ raced = FALSE /\ stale = FALSE /\ rebought = {}

Spend(what) == budget[what] > 0 /\ budget' = [budget EXCEPT ![what] = @ - 1]

\* /auth/register: the code must be that of a registered user.
Register(u, by) ==
    /\ u \notin Registered /\ by \in Registered \cup {None} /\ Spend("joins")
    /\ parent' = parent @@ (u :> by)
    /\ UNCHANGED <<rows, now, op, split, latest, edit, acked, scenario, raced, stale, rebought>>

\* getOrCreateBusinessSettings's create: whatever row there is by now, a new
\* one with the defaults, under an id of its own.
CreateRow(i) ==
    /\ ~ rows[i].exists
    /\ rows' = [rows EXCEPT ![i] = [exists |-> TRUE, fee |-> DefaultFee, levels |-> DefaultLevels,
                                    program |-> TRUE, since |-> now + 1, edits |-> {}]]
    /\ now' = now + 1
    /\ raced' = (raced \/ Existing # {})
-----------------------------------------------------------------------------
At(c, from) == op[c].at = from
Goes(c, to) == op' = [op EXCEPT ![c].at = to]

\* A position closed at a profit: bought for buy, sold in the legs sells.
Closes(c, u, gross, buy, sells) ==
    /\ At(c, "idle") /\ u \in Registered /\ Spend("closes") /\ \A d \in Close : At(d, "idle") => c <= d
    /\ \A d \in Close : op[d].user # u
    /\ now' = now + 1
    /\ latest' = [latest EXCEPT ![u] = buy]
    /\ op' = [op EXCEPT ![c] = [NoOp EXCEPT !.at = "find", !.user = u, !.gross = gross, !.buy = buy,
                                            !.sells = sells, !.closed = now + 1]]
    /\ UNCHANGED <<parent, rows, split, edit, acked, scenario, raced, stale, rebought>>

\* A later position of the same wallet and token
Rebuy(u, amount) ==
    /\ latest[u] # 0 /\ Spend("rebuys")
    /\ latest' = [latest EXCEPT ![u] = amount]
    /\ rebought' = rebought \cup {c \in Close : op[c].user = u}
    /\ UNCHANGED <<parent, rows, now, op, split, edit, acked, scenario, raced, stale>>

\* isEligibleForFeeProcessing
Eligible(c, row) == op[c].closed >= row.since

FindSettings(c) ==
    /\ At(c, "find")
    /\ IF Existing = {} THEN Goes(c, "create")
       ELSE op' = [op EXCEPT ![c].row = rows[First],
                             ![c].at = IF Eligible(c, rows[First]) THEN "trades" ELSE "done"]
    /\ UNCHANGED <<parent, rows, now, split, latest, edit, acked, scenario, budget, raced, stale, rebought>>

\* The row is created after the close it is for, which is then too old.
CreateSettings(c, i) ==
    /\ At(c, "create") /\ CreateRow(i)
    /\ op' = [op EXCEPT ![c].row = rows'[i], ![c].at = IF Eligible(c, rows'[i]) THEN "trades" ELSE "done"]
    /\ UNCHANGED <<parent, split, latest, edit, acked, scenario, budget, stale, rebought>>

\* The confirmed sales of this position less the newest buy of the token
Actual(c) == Total(op[c].sells) - latest[op[c].user]

\* calculatePerformanceFee: the smaller of the two figures, if a price is known.
ReadTrades(c, priced) ==
    /\ At(c, "trades")
    /\ LET net == IF priced THEN Least(op[c].gross, Actual(c)) ELSE op[c].gross
       IN op' = [op EXCEPT ![c].net = net, ![c].priced = priced, ![c].at = IF net > 0 THEN "plan" ELSE "done"]
    /\ UNCHANGED <<parent, rows, now, split, latest, edit, acked, scenario, budget, raced, stale, rebought>>

\* planFeeBps: the plan's own fee (-1: none, or the read failed).
ReadPlan(c, fee) ==
    /\ At(c, "plan")
    /\ op' = [op EXCEPT ![c].plan = fee, ![c].at = IF op[c].row.program THEN "walk" ELSE "split"]
    /\ UNCHANGED <<parent, rows, now, split, latest, edit, acked, scenario, budget, raced, stale, rebought>>

Current(c) == IF op[c].chain = <<>> THEN op[c].user ELSE op[c].chain[Len(op[c].chain)]

\* resolveReferralChain: one more referrer, until the depth or the root.
Walk(c) ==
    /\ At(c, "walk")
    /\ LET up == parent[Current(c)]
       IN IF up # None /\ Len(op[c].chain) < MaxDepth
             /\ up \notin {op[c].user} \cup {op[c].chain[k] : k \in DOMAIN op[c].chain}
          THEN op' = [op EXCEPT ![c].chain = Append(@, up)]
          ELSE Goes(c, "split")
    /\ UNCHANGED <<parent, rows, now, split, latest, edit, acked, scenario, budget, raced, stale, rebought>>

FeeOf(c) == IF op[c].plan >= 0 THEN op[c].plan ELSE op[c].row.fee

\* The levels that have both a percentage and a referrer
Paid(c) == SelectSeq([k \in 1 .. Least(Len(op[c].chain), Len(op[c].row.levels)) |->
                        [to |-> op[c].chain[k], part |-> op[c].row.levels[k]]],
                     LAMBDA r : r.part > 0)

\* calculateProfitDistribution.  Shares are counted in units of 1 / (Whole * over):
\* when the levels claim more than the pool, the pool is shared in proportion.
Shares(c) ==
    LET claims == Paid(c)
        claimed == Total([k \in DOMAIN claims |-> claims[k].part])
        over == IF claimed > FeeOf(c) THEN claimed ELSE 1
        each(k) == op[c].net * claims[k].part * (IF over = 1 THEN 1 ELSE FeeOf(c))
        rewards == [k \in DOMAIN claims |-> [to |-> claims[k].to, sum |-> each(k)]]
    IN [done |-> TRUE, net |-> op[c].net, over |-> over,
        user |-> op[c].net * (Whole - FeeOf(c)) * over,
        platform |-> op[c].net * FeeOf(c) * over - Total([k \in DOMAIN claims |-> each(k)]),
        rewards |-> SelectSeq(rewards, LAMBDA r : over = 1 \/ r.sum > 0)]

Split(c) ==
    /\ At(c, "split") /\ Goes(c, "done")
    /\ split' = [split EXCEPT ![c] = Shares(c)]
    /\ UNCHANGED <<parent, rows, now, latest, edit, acked, scenario, budget, raced, stale, rebought>>
-----------------------------------------------------------------------------
AdminGoes(a, to) == edit' = [edit EXCEPT ![a].at = to]

StartEdit(a, kind, value) ==
    /\ edit[a].at = "idle" /\ Spend("edits")
    /\ \A b \in Admin : edit[b].at = "idle" => a <= b
    /\ edit' = [edit EXCEPT ![a] = [NoEdit EXCEPT !.at = "find", !.kind = kind, !.value = value,
                                                  !.n = scenario.edits - budget.edits + 1]]
    /\ UNCHANGED <<parent, rows, now, op, split, latest, acked, scenario, raced, stale, rebought>>

FindForEdit(a) ==
    /\ edit[a].at = "find"
    /\ IF Existing = {} THEN AdminGoes(a, "create")
       ELSE edit' = [edit EXCEPT ![a].at = "check", ![a].id = First, ![a].row = rows[First]]
    /\ UNCHANGED <<parent, rows, now, op, split, latest, acked, scenario, budget, raced, stale, rebought>>

CreateForEdit(a, i) ==
    /\ edit[a].at = "create" /\ CreateRow(i)
    /\ edit' = [edit EXCEPT ![a].at = "check", ![a].id = i, ![a].row = rows'[i]]
    /\ UNCHANGED <<parent, op, split, latest, acked, scenario, budget, stale, rebought>>

Edited(row, kind, value) ==
    CASE kind = "fee" -> [row EXCEPT !.fee = value]
      [] kind = "level" -> [row EXCEPT !.levels[1] = value]
      [] kind = "program" -> [row EXCEPT !.program = ~ @]

\* checkFeeBudget of the row as read
WithinBudget(row) == Total(row.levels) <= row.fee

\* Mutant of CheckEdit: no budget check.
CheckNothing(a) ==
    /\ edit[a].at = "check" /\ AdminGoes(a, "write")
    /\ UNCHANGED <<parent, rows, now, op, split, latest, acked, scenario, budget, raced, stale, rebought>>

CheckEdit(a) ==
    /\ edit[a].at = "check"
    /\ IF edit[a].kind = "program" \/ WithinBudget(Edited(edit[a].row, edit[a].kind, edit[a].value))
       THEN AdminGoes(a, "write")
       ELSE edit' = [edit EXCEPT ![a] = NoEdit]
    /\ UNCHANGED <<parent, rows, now, op, split, latest, acked, scenario, budget, raced, stale, rebought>>

\* The update touches one field of the row read before.
WriteEdit(a) ==
    /\ edit[a].at = "write" /\ edit' = [edit EXCEPT ![a] = NoEdit]
    /\ rows' = [rows EXCEPT ![edit[a].id] = [Edited(@, edit[a].kind, edit[a].value)
                                               EXCEPT !.edits = @ \cup {edit[a].n}]]
    /\ stale' = (stale \/ rows[edit[a].id].edits # edit[a].row.edits)
    /\ acked' = acked \cup {edit[a].n}
    /\ UNCHANGED <<parent, now, op, split, latest, scenario, budget, raced, rebought>>

CloseStep(c) ==
    \/ FindSettings(c) \/ (\E i \in Ids : CreateSettings(c, i))
    \/ (\E priced \in BOOLEAN : ReadTrades(c, priced))
    \/ (\E fee \in Fee \cup {-1} : ReadPlan(c, fee))
    \/ Walk(c) \/ Split(c)

AdminStep(a) ==
    FindForEdit(a) \/ (\E i \in Ids : CreateForEdit(a, i)) \/ CheckEdit(a) \/ WriteEdit(a)

Next ==
    \/ \E u \in User, by \in User \cup {None} : Register(u, by)
    \/ \E c \in Close, u \in User, buy \in {5, 10} : Closes(c, u, 6, buy, <<2, 8>>)
    \/ \E u \in User, amount \in {2, 8} : Rebuy(u, amount)
    \/ \E c \in Close : CloseStep(c)
    \/ \E a \in Admin : AdminStep(a)
    \/ \E a \in Admin, fee \in Fee : StartEdit(a, "fee", fee)
    \/ \E a \in Admin : StartEdit(a, "level", DefaultFee - 1)
    \/ \E a \in Admin : StartEdit(a, "program", 0)

Spec == Init /\ [][Next]_vars
-----------------------------------------------------------------------------
RewardTotal(c) == Total([k \in DOMAIN split[c].rewards |-> split[c].rewards[k].sum])

\* calculateProfitDistribution: "the four shares still sum to exactly net
\* profit", the trader keeps all but the fee and nobody's share is negative.
SplitIsExact ==
    \A c \in Close : split[c].done =>
        /\ split[c].platform >= 0 /\ split[c].user + split[c].platform + RewardTotal(c)
                                      = split[c].net * Whole * split[c].over
        /\ split[c].user = split[c].net * (Whole - FeeOf(c)) * split[c].over

Ancestor(u, k) ==
    LET up[i \in 0 .. k] == IF i = 0 THEN u ELSE IF up[i - 1] = None THEN None ELSE parent[up[i - 1]]
    IN up[k]

\* The rewards go to the nearest ancestors, in order, as far as the depth allows,
\* though the chain is read one user at a time while others register.
ReferrersAreNearest ==
    \A c \in Close : op[c].at \in {"split", "done"} =>
        /\ \A k \in DOMAIN op[c].chain : op[c].chain[k] = Ancestor(op[c].user, k)
        /\ At(c, "split") /\ op[c].row.program =>
              (Len(op[c].chain) = MaxDepth \/ parent[Current(c)] = None)

\* A net figure other than the position's own needs a later buy of the token
\* before the trades were read.
NetIsReal ==
    \A c \in Close : split[c].done /\ c \notin rebought =>
        split[c].net = (IF op[c].priced THEN Least(op[c].gross, Total(op[c].sells) - op[c].buy)
                                        ELSE op[c].gross)

\* The levels come to more than the pool only under a plan's own lower fee or
\* after two edits passed the budget check on the same row.
ScaledNeedsCause ==
    \A c \in Close : split[c].done /\ split[c].over # 1 => op[c].plan >= 0 \/ stale

\* An acknowledged edit is in the row every later reader finds, unless two
\* first accesses each seeded a row.
EditLostNeedsRace == Existing # {} => acked \subseteq rows[First].edits \/ raced

\* processProfitableClose, fee.ts, businessSettingsAdmin.ts: types; the division
\* is exact, of a real profit, to the nearest referrers, by settings that last.
SplitsAreSound ==
    /\ TypeOK /\ SplitIsExact /\ ReferrersAreNearest /\ NetIsReal
    /\ ScaledNeedsCause /\ EditLostNeedsRace
=============================================================================
