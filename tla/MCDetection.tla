----------------------------- MODULE MCDetection -----------------------------
(***************************************************************************)
(* The two ways a launch is detected: the pump.fun feed with its fallback  *)
(* and health, and the monitors of the DEXes' pools.  They share no state; *)
(* a behaviour runs one and leaves the other as it starts.                 *)
(***************************************************************************)
EXTENDS ScannerHealth, PoolMonitors

Plan(providers, f, keep, size, breaks, admin, resume) ==
    [providers |-> providers, flips |-> f, sticky |-> keep, launches |-> size, timers |-> size = 0,
     slow |-> ~keep, faults |-> breaks, admin |-> admin, autoResume |-> resume]

\* The feed alone over two failing providers; the whole over a feed that
\* comes and goes, without and with automatic resume.
MCScenarios ==
    {Plan(2, 2, FALSE, 0, 0, 0, FALSE), Plan(2, 2, TRUE, 0, 0, 0, FALSE),
     Plan(1, 1, FALSE, 3, 1, 0, FALSE), Plan(1, 2, FALSE, 1, 1, 0, TRUE),
     Plan(1, 1, FALSE, 1, 1, 1, TRUE)}

MCSources == <<"PUMPSWAP", "RAYDIUM">>
MCDexes == {"PUMPSWAP", "RAYDIUM", "ORCA", "METEORA"}

L(dex, name, accounts, sides) == [dex |-> dex, name |-> name, accounts |-> accounts, sides |-> sides]

Real == <<"other", "config", "pool">>
PumpPool == L("PUMPSWAP", "CreatePool", Real, <<"m1", "sol">>)
PumpDeposit == L("PUMPSWAP", "Deposit", <<"other", "pool">>, <<"m1", "sol">>)
PumpSwapLog == L("PUMPSWAP", "Buy", <<"pool">>, <<"m1", "sol">>)
PumpReversed == L("PUMPSWAP", "CreatePool", Real, <<"sol", "m1">>)
RayPool == L("RAYDIUM", "Initialize", Real, <<"sol", "m1">>)
RayNoPool == L("RAYDIUM", "Initialize", <<"config">>, <<"sol", "m1">>)
OrcaPool == L("ORCA", "InitializePoolV2", <<"pool">>, <<"sol", "m2">>)
MeteoraPool == L("METEORA", "InitializeLbPair", Real, <<"m2", "sol">>)

Pools(on, created, drops, stalls, failures, quits, births) ==
    [on |-> on, launches |-> created, drops |-> drops, stalls |-> stalls, faults |-> failures, quits |-> quits,
     born |-> births]

NoPools == Pools({}, {}, 0, 0, 0, 0, 0)

\* Subscriptions that drop, stall, fail to be removed and are stopped; two
\* silences, and a DEX that is not enabled; pools of one mint on several DEXes,
\* before and after the mint is known; a pool with SOL as its base.
MCPools ==
    {NoPools, Pools({"PUMPSWAP", "RAYDIUM"}, {}, 2, 0, 1, 0, 0), Pools({"RAYDIUM"}, {}, 1, 0, 1, 1, 0), Pools({"RAYDIUM"}, {RayPool}, 0, 1, 0, 1, 0),
     Pools({"PUMPSWAP", "RAYDIUM"}, {PumpPool, PumpDeposit, RayPool}, 0, 0, 1, 0, 1),
     Pools({"PUMPSWAP", "RAYDIUM"}, {PumpSwapLog, RayNoPool, RayPool}, 1, 0, 0, 0, 0),
     Pools({"PUMPSWAP"}, {PumpReversed}, 0, 0, 0, 0, 0),
     Pools({"ORCA", "METEORA"}, {OrcaPool, MeteoraPool}, 0, 0, 0, 0, 1)}

VARIABLE part   \* which of the two runs

MCInit ==
    /\ Init /\ PoolsInit
    /\ \/ part = "feed" /\ plan = NoPools
       \/ part = "pools" /\ plan # NoPools /\ scenario = Plan(2, 2, FALSE, 0, 0, 0, FALSE)

FeedPart == part = "feed" /\ Next /\ UNCHANGED <<part, poolVars>>
PoolPart == part = "pools" /\ PoolsNext /\ UNCHANGED <<part, vars>>

\* No fair action is enabled in the part that idles.
MCFairSpec ==
    /\ MCInit /\ [][FeedPart \/ PoolPart]_<<part, vars, poolVars>>
    /\ Fairness /\ PoolsFairness

\* pumpfun.ts, scannerHealth.ts, monitorWatchdog.ts: feeds come back, outages are
\* noticed, covered and end, silences are paged and every event is worked off.
FeedsRecover ==
    /\ FeedRecovers /\ HealthIsHonest /\ OutageIsCovered /\ OutageIsNoticed
    /\ RecoversToHealthy /\ AutoPauseEnds
    /\ FeedReturns /\ SilenceIsPaged /\ EventsEnd
=============================================================================
