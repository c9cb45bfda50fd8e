---------------------------- MODULE ManualSells ----------------------------
(***************************************************************************)
(* The sell routes of routes/positions.ts: a user closes a position of     *)
(* theirs, sells a part of it, closes all of them or edits its limits; an  *)
(* admin closes anyone's.  A route checks what it read and asks            *)
(* PositionManager, which takes one sale of a position at a time and       *)
(* reads the position again; PriceMonitor asks it too.                     *)
(***************************************************************************)
EXTENDS Integers, Sequences, FiniteSets, FiniteSetsExt

CONSTANTS Position,
          Owner,      \* whose wallet holds a position
          Bought,     \* tokens a position was opened with
          Retries,    \* maxPermanentRouteRetries
          Scene       \* bounds: [ask: requests, paper, autos, faults, misses]

ManualAssumption ==
    /\ Position \subseteq Nat \ {0} /\ DOMAIN Owner = Position /\ Bought \in Nat \ {0}
    /\ Retries \in Nat \ {0}

VARIABLES scene,
          status, left, limits,  \* the positions' rows
          exits,      \* positionPartialExit: [position, tier]
          tokens,     \* on chain
          routeless,  \* noRouteSellFailureCount: sales that found no route
          holder,     \* positionCloseLock, 0 when free
          held,       \* unverifiedSwapLocks
          req,        \* each request
          sales,      \* SELL trades booked: [by, position, amount]
          met,        \* requests that met another sale of their position while they ran
          autos, spent

manualVars == <<scene, status, left, limits, exits, tokens, routeless, holder, held, req, sales, met, autos, spent>>
rowVars == <<status, left, exits, tokens, routeless, held, sales>>

Requests == DOMAIN scene.ask
Ask(r) == scene.ask[r]
Monitor == -1   \* PriceMonitor, as a holder of the lock
Free == 0
Open(p) == status[p] = "OPEN"

\* sellUnsellable, which nothing takes back
GivenUp(p) == routeless[p] >= Retries
Least(a, b) == IF a < b THEN a ELSE b
Most(a, b) == IF a < b THEN b ELSE a

NewRequest == [at |-> "load", position |-> 0, amount |-> 0, tier |-> 0, todo |-> {}, asked |-> 0,
               closed |-> 0, failed |-> 0, skipped |-> 0, answer |-> "none"]

Bulk(r) == Ask(r).kind = "all"
Partial(r) == Ask(r).kind = "partial"

\* Types of the rows and of the requests.
TypeOK ==
    /\ status \in [Position -> {"OPEN", "CLOSED"}] /\ left \in [Position -> 0 .. Bought]
    /\ tokens \in [Position -> 0 .. Bought] /\ limits \in [Position -> {0} \cup Requests]
    /\ routeless \in [Position -> 0 .. Retries]
    /\ holder \in [Position -> {Free, Monitor} \cup Requests] /\ held \subseteq Position
    /\ \A r \in Requests : /\ req[r].at \in {"load", "patch", "price", "count", "call", "sale", "done"}
                          /\ req[r].todo \subseteq Position /\ req[r].tier <= 0
    /\ met \subseteq Requests /\ autos \in 0 .. scene.autos /\ spent \in 0 .. scene.faults

Init ==
    /\ scene \in Scene
    /\ status = [p \in Position |-> "OPEN"] /\ left = [p \in Position |-> Bought]
    /\ limits = [p \in Position |-> 0] /\ tokens = [p \in Position |-> Bought]
    /\ routeless = [p \in Position |-> IF p = 1 THEN scene.misses ELSE 0]
    /\ exits = {} /\ holder = [p \in Position |-> Free] /\ held = {}
    /\ req = [r \in Requests |-> NewRequest]
    /\ sales = {} /\ met = {} /\ autos = 0 /\ spent = 0

Answers(r, what) == req' = [req EXCEPT ![r].at = "done", ![r].answer = what]
Goes(r, to) == req' = [req EXCEPT ![r].at = to]
-----------------------------------------------------------------------------
VisibleAny(r, p) == TRUE

\* loadOpenPositionAny, and loadOwnedOpenPosition: someone else's is not found.
Visible(r, p) == Ask(r).kind = "admin" \/ Owner[p] = Ask(r).user

\* manualPartialSellAmount
Share(amount, percent) == (amount * percent) \div 100

Load(r) ==
    LET p == Ask(r).position IN
    /\ req[r].at = "load" /\ ~ Bulk(r)
    /\ \/ ~ Visible(r, p) /\ Answers(r, "not found")
       \/ Visible(r, p) /\ Ask(r).kind = "patch" /\ Goes(r, "patch")
       \/ Visible(r, p) /\ Ask(r).kind # "patch" /\ ~ Open(p) /\ Answers(r, "not open")
       \/ /\ Visible(r, p) /\ Ask(r).kind # "patch" /\ Open(p)
          /\ IF Partial(r) /\ Share(left[p], Ask(r).percent) = 0 THEN Answers(r, "nothing sellable")
             ELSE req' = [req EXCEPT ![r].at = "price", ![r].position = p,
                                     ![r].amount = IF Partial(r) THEN Share(left[p], Ask(r).percent) ELSE 0]
    /\ UNCHANGED <<scene, status, left, limits, exits, tokens, routeless, holder, held, sales, met, autos, spent>>

\* closeAllOpenPositions reads the user's open positions, in no order it states.
LoadAll(r) ==
    /\ req[r].at = "load" /\ Bulk(r)
    /\ LET mine == {p \in Position : Owner[p] = Ask(r).user /\ Open(p)}
       IN req' = [req EXCEPT ![r].at = "price", ![r].todo = mine, ![r].asked = Cardinality(mine)]
    /\ UNCHANGED <<scene, status, left, limits, exits, tokens, routeless, holder, held, sales, met, autos, spent>>

\* PATCH writes what was asked, open or not by then.
Patch(r) ==
    /\ req[r].at = "patch" /\ Answers(r, "patched")
    /\ limits' = [limits EXCEPT ![Ask(r).position] = r]
    /\ UNCHANGED <<scene, status, left, exits, tokens, routeless, holder, held, sales, met, autos, spent>>

\* close-all: one position after another, and the summary at the end.
Pick(r) ==
    /\ req[r].at = "price" /\ Bulk(r) /\ req[r].position = 0
    /\ IF req[r].todo = {} THEN Answers(r, "summary")
       ELSE \E p \in req[r].todo : req' = [req EXCEPT ![r].todo = @ \ {p}, ![r].position = p]
    /\ UNCHANGED <<scene, status, left, limits, exits, tokens, routeless, holder, held, sales, met, autos, spent>>

\* What a position's turn comes to: an answer, or a count of the summary.
Turn(r, count, answer) ==
    req' = [req EXCEPT ![r] = IF Bulk(r) THEN [@ EXCEPT ![count] = @ + 1, !.at = "price", !.position = 0]
                              ELSE [@ EXCEPT !.at = "done", !.answer = answer]]

\* DexScreener has a price, or the position is left alone.
GetPrice(r) ==
    /\ req[r].at = "price" /\ req[r].position # 0
    /\ \/ Goes(r, IF Partial(r) THEN "count" ELSE "call") /\ UNCHANGED spent
       \/ spent < scene.faults /\ spent' = spent + 1 /\ Turn(r, "skipped", "no price")
    /\ UNCHANGED <<scene, status, left, limits, exits, tokens, routeless, holder, held, sales, met, autos>>

\* nextManualTierIndex: the manual sales so far, before the lock is taken.
Count(r) ==
    /\ req[r].at = "count"
    /\ req' = [req EXCEPT ![r].at = "call",
                          ![r].tier = -(Cardinality({e \in exits : e.position = req[r].position /\ e.tier < 0}) + 1)]
    /\ UNCHANGED <<scene, status, left, limits, exits, tokens, routeless, holder, held, sales, met, autos, spent>>
-----------------------------------------------------------------------------
\* Whoever else is at this position
Rivals(r, p) == {q \in Requests \ {r} : req[q].position = p /\ req[q].at \in {"price", "count", "call", "sale"}}

\* acquire: a position that is being sold, or whose last sale is unverified, is
\* refused; a partial sale that is refused says so without an error.
Call(r) ==
    LET p == req[r].position IN
    /\ req[r].at = "call"
    /\ \/ /\ p \notin held /\ holder[p] = Free
          /\ holder' = [holder EXCEPT ![p] = r] /\ Goes(r, "sale") /\ UNCHANGED met
       \/ /\ p \in held \/ holder[p] # Free
          /\ met' = met \cup {r} /\ UNCHANGED holder
          /\ Turn(r, "failed", IF Partial(r) /\ p \notin held THEN "not sold" ELSE "error")
    /\ UNCHANGED <<scene, rowVars, limits, autos, spent>>

\* executePartialSellLocked, closePositionLocked: no longer open, given up on,
\* or the tier was sold meanwhile.
Stale(r, p) ==
    ~ Open(p) \/ GivenUp(p) \/ (Partial(r) /\ [position |-> p, tier |-> req[r].tier] \in exits)

Unlock(p) == holder' = [holder EXCEPT ![p] = Free]

Skip(r) ==
    LET p == req[r].position IN
    /\ req[r].at = "sale" /\ Stale(r, p)
    /\ Unlock(p) /\ Turn(r, "skipped", "not sold")
    /\ UNCHANGED <<scene, rowVars, limits, met, autos, spent>>

\* What is sold: at most what the wallet holds, unless the trade is on paper.
Sold(r, p) ==
    CASE Partial(r) /\ scene.paper -> req[r].amount
      [] Partial(r) /\ ~ scene.paper -> Least(req[r].amount, tokens[p])
      [] ~ Partial(r) /\ scene.paper -> left[p]
      [] OTHER -> Least(left[p], tokens[p])

\* A wallet that holds none of it: the position is closed without a sale.
Empty(r) ==
    LET p == req[r].position IN
    /\ req[r].at = "sale" /\ ~ Stale(r, p) /\ ~ scene.paper /\ Sold(r, p) = 0 /\ Unlock(p)
    /\ status' = IF Partial(r) THEN status ELSE [status EXCEPT ![p] = "CLOSED"]
    /\ Turn(r, "skipped", "not sold")
    /\ UNCHANGED <<scene, left, limits, exits, tokens, routeless, held, sales, met, autos, spent>>

\* The rows after a sale: an exit and what remains, or CLOSED.
Books(by, p, amount, tier, part) ==
    /\ sales' = sales \cup {[by |-> by, position |-> p, amount |-> amount, n |-> Cardinality(sales)]}
    /\ tokens' = [tokens EXCEPT ![p] = Most(0, @ - amount)]
    /\ left' = IF part THEN [left EXCEPT ![p] = Most(0, @ - amount)] ELSE left
    /\ exits' = IF part THEN exits \cup {[position |-> p, tier |-> tier]} ELSE exits
    /\ status' = IF part THEN status ELSE [status EXCEPT ![p] = "CLOSED"]

Sell(r) ==
    LET p == req[r].position IN
    /\ req[r].at = "sale" /\ ~ Stale(r, p) /\ (scene.paper \/ Sold(r, p) > 0)
    /\ Books(r, p, Sold(r, p), req[r].tier, Partial(r))
    /\ Unlock(p) /\ Turn(r, "closed", "sold") /\ met' = met \cup Rivals(r, p)
    /\ UNCHANGED <<scene, limits, routeless, held, autos, spent>>

\* recordPermanentSellFailure
FindsNoRoute(p) == routeless' = [routeless EXCEPT ![p] = @ + 1]

\* The swap fails, for want of a route or otherwise; or it lands and cannot be
\* verified: the rows stay, and after a whole close the position is not sold again.
SellFails(r) ==
    LET p == req[r].position IN
    /\ req[r].at = "sale" /\ ~ Stale(r, p) /\ spent < scene.faults /\ spent' = spent + 1
    /\ \/ UNCHANGED <<tokens, routeless, held>>
       \/ ~ scene.paper /\ Sold(r, p) > 0 /\ FindsNoRoute(p) /\ UNCHANGED <<tokens, held>>
       \/ /\ ~ scene.paper /\ Sold(r, p) > 0 /\ UNCHANGED routeless
          /\ tokens' = [tokens EXCEPT ![p] = @ - Sold(r, p)]
          /\ held' = IF Partial(r) THEN held ELSE held \cup {p}
    /\ Unlock(p) /\ Turn(r, "failed", "error") /\ met' = met \cup Rivals(r, p)
    /\ UNCHANGED <<scene, status, left, limits, exits, sales, autos>>
-----------------------------------------------------------------------------
\* PriceMonitor sells the whole position, or the next tier of the ladder; its
\* tick read the position open and not given up on.
MonitorTakes(p) ==
    /\ scene.misses < Retries /\ holder[p] = Free /\ p \notin held /\ autos < scene.autos
    /\ autos' = autos + 1 /\ holder' = [holder EXCEPT ![p] = Monitor]
    /\ UNCHANGED <<scene, rowVars, limits, req, met, spent>>

MonitorSells(p) ==
    LET whole == IF scene.paper THEN left[p] ELSE Least(left[p], tokens[p])
        part == Least(Share(Bought, 50), whole)
        tier == Cardinality({e \in exits : e.position = p /\ e.tier >= 0})
        sold == Open(p) /\ ~ GivenUp(p)
        skips == UNCHANGED <<sales, tokens, left, exits, status>>
    IN /\ holder[p] = Monitor /\ Unlock(p)
       /\ \/ sold /\ whole > 0 /\ Books(Monitor, p, whole, 0, FALSE) /\ UNCHANGED <<routeless, spent>>
          \/ sold /\ part > 0 /\ Books(Monitor, p, part, tier, TRUE) /\ UNCHANGED <<routeless, spent>>
          \/ /\ sold /\ whole > 0 /\ ~ scene.paper /\ skips
             /\ spent < scene.faults /\ spent' = spent + 1 /\ FindsNoRoute(p)
          \/ (~ sold \/ whole = 0) /\ skips /\ UNCHANGED <<routeless, spent>>
       /\ met' = met \cup Rivals(Monitor, p)
       /\ UNCHANGED <<scene, limits, held, req, autos>>

Route(r) ==
    Load(r) \/ LoadAll(r) \/ Patch(r) \/ Pick(r) \/ GetPrice(r) \/ Count(r) \/ Call(r)
        \/ Skip(r) \/ Empty(r) \/ Sell(r) \/ SellFails(r)

Next ==
    \/ \E r \in Requests : Route(r)
    \/ \E p \in Position : MonitorTakes(p) \/ MonitorSells(p)
-----------------------------------------------------------------------------
Booked(p) == MapThenSumSet(LAMBDA s : s.amount, {s \in sales : s.position = p})

\* A user's routes touch no position but theirs: not its tokens, not its limits.
OwnOnly ==
    /\ \A s \in sales : s.by \in Requests => Ask(s.by).kind = "admin" \/ Ask(s.by).user = Owner[s.position]
    /\ \A p \in Position : limits[p] # 0 => Ask(limits[p]).user = Owner[p]

\* The sales booked of a position come to no more than was bought; on paper that
\* takes a partial sale whose amount was computed before another sale.
NothingOversold ==
    \A p \in Position :
        \/ Booked(p) <= Bought
        \/ scene.paper /\ \E s \in sales : s.position = p /\ s.by \in met /\ Partial(s.by)

\* closed, failed and skipped account for every position that was open, and
\* closed for the sales that were made.
SummaryAddsUp ==
    \A r \in Requests : Bulk(r) /\ req[r].at = "done" =>
        /\ req[r].closed + req[r].failed + req[r].skipped = req[r].asked
        /\ req[r].closed = Cardinality({s \in sales : s.by = r})

\* An answer tells whether a sale was booked; a request that passed its checks
\* and sold nothing met another sale of the position, an empty wallet, or a
\* position given up on, which close-all's summary lists as "Already handled by
\* another in-flight operation" (routes/positions.ts:141).
AnswersAreTrue ==
    \A r \in Requests : req[r].at = "done" /\ ~ Bulk(r) =>
        /\ req[r].answer = "sold" <=> \E s \in sales : s.by = r
        /\ req[r].answer = "not sold" =>
               r \in met \/ tokens[req[r].position] = 0 \/ GivenUp(req[r].position)

\* routes/positions.ts as a whole
ManualSellsAreSound == TypeOK /\ OwnOnly /\ NothingOversold /\ SummaryAddsUp /\ AnswersAreTrue
=============================================================================
