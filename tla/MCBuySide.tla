------------------------------ MODULE MCBuySide ------------------------------
(***************************************************************************)
(* The buy side beside the swaps it sends: OpenPosition treats sendSwap as *)
(* one step that broadcasts or throws, SwapRouting is that step opened up, *)
(* LatencyTraces the times an attempt and its swap leave behind.  They     *)
(* share no state; a behaviour runs one and leaves the others idle.        *)
(***************************************************************************)
EXTENDS OpenPosition, SwapRouting, TLC

CONSTANTS l1, l2, m1, wa, ta, tb

\* Scarce money, scarce positions, and neither: only then the plan is the limit.
MCSetups == {<<2, 1>>, <<3, 1>>, <<3, 2>>}

MCMarkets == {[tok |-> 200, sol |-> 100], [tok |-> 160, sol |-> 125], [tok |-> 250, sol |-> 80],
              [tok |-> 20, sol |-> 4]}

Of(dex, isKnown, isMayhem, way, calls, moves, faultsOf) ==
    [dex |-> dex, known |-> isKnown, mayhem |-> isMayhem, way |-> way,
     calls |-> calls, moves |-> moves, faults |-> faultsOf]

Unused == Of("ORCA", FALSE, FALSE, "plain", 0, 0, 0)

\* Every venue and every way of sending, two calls in a row where the first
\* leaves something behind.
MCScenarios ==
    {Unused,
     Of("PUMPSWAP", TRUE, TRUE, "fast", 3, 1, 2), Of("PUMPSWAP", TRUE, FALSE, "plain", 2, 2, 2),
     Of("RAYDIUM", TRUE, FALSE, "jito", 2, 1, 2), Of("PUMPSWAP", FALSE, FALSE, "jito", 1, 2, 3),
     Of("ORCA", TRUE, FALSE, "fast", 1, 1, 3)}

\* A launch's buy beside a mirrored one; a sell and a buy that are retried; more
\* sells than are kept.
A(side, launch, partial, paper) == [side |-> side, launch |-> launch, part |-> partial, paper |-> paper]
HandedOver == ("token_detected" :> 0) @@ ("analysis_started" :> 0) @@ ("sellability_verified" :> 1)
                @@ ("decision" :> 0) @@ ("buy_submitted" :> 1)
On(attempts, ticks, retries, faultsOf) ==
    [attempts |-> attempts, handed |-> HandedOver, ticks |-> ticks, retries |-> retries, faults |-> faultsOf]

MCDay ==
    {On(<<A("BUY", TRUE, FALSE, FALSE), A("BUY", FALSE, FALSE, FALSE)>>, 1, 0, 1),
     On(<<A("SELL", FALSE, FALSE, FALSE)>>, 2, 1, 2), On(<<A("BUY", TRUE, FALSE, FALSE)>>, 2, 1, 1),
     On(<<A("SELL", FALSE, FALSE, TRUE), A("SELL", FALSE, TRUE, FALSE), A("SELL", FALSE, FALSE, TRUE)>>, 1, 0, 1)}

NoDay == On(<<>>, 0, 0, 0)

VARIABLES part,   \* which of the three runs
          day, clock, active, completed, place, tries, reached, ended, threw, slips

traceVars == <<day, clock, active, completed, place, tries, reached, ended, threw, slips>>

L == INSTANCE LatencyTraces WITH MaxCompleted <- 2, Day <- MCDay \cup {NoDay}

ASSUME L!TraceAssumption

Few == maxOpen = 1 /\ sol = [w \in Wallet |-> 2]

MCInit ==
    /\ Init /\ RoutingInit /\ L!Init
    /\ \/ part = "buy" /\ setup = Unused /\ day = NoDay
       \/ part = "swap" /\ setup # Unused /\ Few /\ day = NoDay
       \/ part = "traces" /\ setup = Unused /\ Few /\ day # NoDay

BuyNext  == part = "buy" /\ Next /\ UNCHANGED <<part, routingVars, traceVars>>
SwapNext == part = "swap" /\ RoutingNext /\ UNCHANGED <<part, vars, traceVars>>
TraceNext == part = "traces" /\ L!Next /\ UNCHANGED <<part, vars, routingVars>>

\* No fair action is enabled in a part that idles.
MCFairSpec ==
    /\ MCInit /\ [][BuyNext \/ SwapNext \/ TraceNext]_<<part, vars, routingVars, traceVars>>
    /\ Fairness /\ RoutingFairness

\* positionManager.ts:720-741, dex/: whatever is retried, sprayed or routed to
\* another venue, a call executes one swap within its limits and says so; and the
\* times lib/latencyTracker.ts reports of it are those it took.
SwapsAreSound == RoutingIsSound /\ []L!LatencyIsSound

\* positionManager.ts's finally blocks and TTLs: no lock leaks, whatever failed; and
\* every sendSwap returns, whatever was lost.
BuysEnd == []<>(NothingLocked /\ Returned)
=============================================================================
