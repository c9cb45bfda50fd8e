------------------------------ MODULE MCMoney ------------------------------
(***************************************************************************)
(* Payouts, purchases and balances; the division of a profit that precedes *)
(* a payout; the script that corrects profits, fees and rewards; and the   *)
(* routes that sell a position by hand.  A behaviour runs one and leaves   *)
(* the others idle: Payout starts from the total ProfitSplit comes to.     *)
(***************************************************************************)
EXTENDS Money, TLC

Nothing == [events |-> {}, requests |-> {}, refreshes |-> {}, polls |-> FALSE,
            moves |-> 0, deposits |-> 0, rows |-> 0, sol |-> 4]

\* Two closes of one wallet, or one reported twice; a purchase beside a payout;
\* two purchases; the poll beside a refresh, a withdrawal and wallet changes.
MCWorkloads ==
    {Nothing,
     [Nothing EXCEPT !.events = Handler, !.sol = 8],
     [Nothing EXCEPT !.events = {"h1"}, !.requests = {"q1"}, !.sol = 6],
     [Nothing EXCEPT !.requests = Request, !.sol = 8],
     [Nothing EXCEPT !.refreshes = Refresh, !.deposits = 2, !.sol = 2],
     [Nothing EXCEPT !.refreshes = {"r1"}, !.polls = TRUE, !.deposits = 1, !.sol = 2],
     [Nothing EXCEPT !.polls = TRUE, !.moves = 1, !.deposits = 1, !.sol = 2],
     [Nothing EXCEPT !.polls = TRUE, !.rows = 2, !.deposits = 1, !.sol = 2]}
Of(joins, rebuys, closes, edits, seeded) ==
    [joins |-> joins, rebuys |-> rebuys, closes |-> closes, edits |-> edits, seeded |-> seeded]

\* Long chains; a re-entry; racing edits; a first access by several.
MCScenario ==
    {Of(3, 0, 1, 0, TRUE), Of(1, 1, 1, 1, TRUE), Of(0, 0, 1, 2, TRUE), Of(0, 0, 1, 1, FALSE)}

Unused == Of(0, 0, 0, 0, TRUE)

\* A wallet that trades one token twice; a paper trade, a position
\* without a sale, an unknown token, a sale without a price.
P(t, o, c) == [token |-> t, opened |-> o, closed |-> c]
T(side, t, at, amount, price, of) ==
    [side |-> side, token |-> t, at |-> at, sol |-> amount[1], amount |-> amount[2], price |-> price, of |-> of]

MCHistory ==
    {[positions |-> <<P("a", 2, 4), P("a", 6, 8)>>,
      trades |-> {T("BUY", "a", 1, <<10, 100>>, 1, 1), T("SELL", "a", 3, <<4, 40>>, 1, 1),
                  T("SELL", "a", 4, <<8, 60>>, 2, 1), T("BUY", "a", 6, <<4, 50>>, 1, 2),
                  T("SELL", "a", 8, <<8, 40>>, 2, 2)},
      wrong |-> <<500, 40>>, costs |-> 1, fee |-> 2, percents |-> <<1, 1>>, faults |-> 1],
     [positions |-> <<P("s", 1, 2), P("a", 3, 4), P("u", 3, 4), P("b", 3, 4), P("b", 5, 6)>>,
      trades |-> {T("BUY", "s", 1, <<10, 100>>, 1, 1), T("SELL", "s", 2, <<20, 100>>, 1, 1),
                  T("BUY", "a", 3, <<10, 100>>, 1, 2), T("BUY", "u", 3, <<10, 100>>, 1, 3),
                  T("SELL", "u", 4, <<10, 100>>, 1, 3), T("BUY", "b", 3, <<4, 100>>, 1, 4),
                  T("SELL", "b", 4, <<8, 100>>, -9999, 4), T("BUY", "b", 5, <<8, 100>>, 1, 5),
                  T("SELL", "b", 6, <<4, 100>>, -9999, 5), T("SELL", "b", 6, <<3, 6>>, 1, 5)},
      wrong |-> (1 :> 500) @@ (3 :> 40) @@ (4 :> 70),
      costs |-> 1, fee |-> 2, percents |-> <<1, 1>>, faults |-> 0]}

NoHistory == [positions |-> <<>>, trades |-> {}, wrong |-> <<>>, costs |-> 0, fee |-> 0, percents |-> <<>>, faults |-> 0]
RealDecimals == ("a" :> 1) @@ ("b" :> 0)

A(kind, who, position, percent) == [kind |-> kind, user |-> who, position |-> position, percent |-> percent]
Asked(ask, onPaper, n, f) == [ask |-> ask, paper |-> onPaper, autos |-> n, faults |-> f, misses |-> 0]

\* The same partial sale twice, on paper and not; a part beside the whole; all
\* beside one; someone else's position; an admin; a position one failure from
\* being given up on, and one that is.
MCScene ==
    {Asked(<<A("partial", 1, 1, 60), A("partial", 1, 1, 60)>>, TRUE, 1, 0),
     Asked(<<A("partial", 1, 1, 60), A("partial", 1, 1, 60)>>, FALSE, 1, 1),
     Asked(<<A("partial", 1, 1, 60), A("sell", 1, 1, 0), A("patch", 1, 1, 0)>>, FALSE, 0, 1),
     Asked(<<A("all", 1, 0, 0), A("sell", 1, 1, 0)>>, FALSE, 1, 1),
     Asked(<<A("all", 1, 0, 0), A("partial", 1, 2, 1)>>, TRUE, 0, 1),
     Asked(<<A("sell", 2, 1, 0), A("patch", 2, 1, 0), A("admin", 2, 1, 0)>>, FALSE, 0, 0),
     Asked(<<A("admin", 2, 1, 0), A("sell", 1, 1, 0)>>, FALSE, 0, 1),
     [Asked(<<A("all", 1, 0, 0), A("partial", 1, 1, 60)>>, FALSE, 1, 1) EXCEPT !.misses = 1],
     [Asked(<<A("all", 1, 0, 0), A("partial", 1, 1, 60)>>, FALSE, 0, 0) EXCEPT !.misses = 2]}

NoScene == Asked(<<>>, FALSE, 0, 0)

VARIABLES part,   \* which of the four runs
          parent, rows, now, handled, split, latest, edit, acked,
          scenario, budget, raced, superseded, rebought,
          history, decimals, shut, pnl, fees, audit, job, aborts, late,
          scene, status, left, limits, exits, tokens, routeless, holder, held, req, sales, met, autos, spent

splitVars == <<parent, rows, now, handled, split, latest, edit, acked,
               scenario, budget, raced, superseded, rebought>>
reconVars == <<history, decimals, shut, pnl, fees, audit, job, aborts, late>>
manualVars == <<scene, status, left, limits, exits, tokens, routeless, holder, held, req, sales, met, autos, spent>>

S == INSTANCE ProfitSplit WITH
       User <- 1 .. 4, Close <- {1, 2}, Admin <- {1, 2}, Whole <- 20, DefaultFee <- 4,
       DefaultLevels <- <<2, 1>>, MaxDepth <- 2, Fee <- {1, 3},
       Scenarios <- MCScenario \cup {Unused}, op <- handled, stale <- superseded

ASSUME S!SplitAssumption

R == INSTANCE Reconciliation WITH
       Token <- {"a", "b", "s", "u"}, Paper <- {"s"}, Decimals <- RealDecimals, Run <- {1, 2},
       History <- MCHistory \cup {NoHistory}, closed <- shut, log <- audit, faults <- aborts

M == INSTANCE ManualSells WITH
       Position <- {1, 2}, Owner <- <<1, 1>>, Bought <- 50, Retries <- 2, Scene <- MCScene \cup {NoScene}

ASSUME R!ReconciliationAssumption /\ M!ManualAssumption

Idle == load = Nothing /\ paper = {} /\ row = [w \in Wallet |-> "none"]

\* Whether a position is paper matters only to the handlers of its events.
MCInit ==
    /\ Init /\ S!Init /\ R!Init /\ M!Init /\ (load.events = {} => paper = {})
    /\ \/ part = "money" /\ load # Nothing /\ scenario = Unused /\ history = NoHistory /\ scene = NoScene
       \/ part = "split" /\ Idle /\ scenario # Unused /\ history = NoHistory /\ scene = NoScene
       \/ part = "recon" /\ Idle /\ scenario = Unused /\ history # NoHistory /\ scene = NoScene
       \/ part = "manual" /\ Idle /\ scenario = Unused /\ history = NoHistory /\ scene # NoScene

MoneyNext == part = "money" /\ Next /\ UNCHANGED <<part, splitVars, reconVars, manualVars>>
SplitNext == part = "split" /\ S!Next /\ UNCHANGED <<part, vars, reconVars, manualVars>>
ReconNext == part = "recon" /\ R!Next /\ UNCHANGED <<part, vars, splitVars, manualVars>>
ManualNext == part = "manual" /\ M!Next /\ UNCHANGED <<part, vars, splitVars, reconVars>>

\* No fair action is enabled while the money side idles.
MCFairSpec ==
    /\ MCInit /\ [][MoneyNext \/ SplitNext \/ ReconNext \/ ManualNext]_<<part, vars, splitVars, reconVars, manualVars>>
    /\ Fairness

\* registerFeeSystem.ts, packages/shared/src/fee.ts, scripts/reconcilePnl.ts and
\* routes/positions.ts: a profitable close is divided exactly, by the settings in
\* force, among the right people; a correction is of the position's own trades
\* and leaves a trace; and a sale asked for by hand is of the asker's position,
\* is not booked twice and is answered truly.
BooksAreSound == S!SplitsAreSound /\ R!ReconciliationIsSound /\ M!ManualSellsAreSound

=============================================================================
