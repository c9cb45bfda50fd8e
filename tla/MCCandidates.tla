---------------------------- MODULE MCCandidates ----------------------------
(***************************************************************************)
(* The way of a candidate to AutoTrader, beside the queue and the shared   *)
(* connection it passes.  A behaviour runs one and leaves the other idle:  *)
(* a candidate's reads may fail or take as long as they like.              *)
(***************************************************************************)
EXTENDS CandidatePipeline, ScannerLoad

For(a, b, c, m, n, k, stops, hinted) ==
    [task |-> <<[kind |-> a, mint |-> m], [kind |-> b, mint |-> n], [kind |-> c, mint |-> k]>>,
     crashes |-> stops, hints |-> hinted]

NoEvents == For("migrated", "migrated", "migrated", "m1", "m1", "m1", 0, FALSE)

\* A redelivered create; a create beside a Telegram mention; a launch that
\* migrates, seen by the poll and by a hint, or by its new pool; two mints
\* that want the one place of the scheduler; a bad mint from two sources.
MCEvents ==
    {NoEvents,
     For("create", "create", "migrated", "m1", "m1", "m2", 0, FALSE),
     For("create", "telegram", "migrated", "m1", "m1", "m2", 0, FALSE),
     For("create", "migrated", "migrated", "m1", "m1", "m2", 0, TRUE),
     For("create", "pool", "migrated", "m1", "m1", "m2", 0, FALSE),
     For("pool", "telegram", "migrated", "m1", "m2", "m2", 0, FALSE),
     For("create", "telegram", "migrated", "m3", "m3", "m3", 1, TRUE)}

\* Requests 1 and 2 read one signature's transaction; 3 is not cacheable.
MCKeyOf == [c \in Call |-> IF c = 3 THEN "k2" ELSE "k1"]

NoLoad == [items |-> {}, calls |-> {}, shaky |-> {}, slots |-> 1, asks |-> 0]

\* Two requests beside each other over failing providers; a backlog of
\* three items over a failing first provider.
MCWorkloads ==
    {NoLoad,
     [items |-> {}, calls |-> {1, 2}, shaky |-> Primary, slots |-> 1, asks |-> 1],
     [items |-> {}, calls |-> {2, 3}, shaky |-> {"helius", "public"}, slots |-> 1, asks |-> 1],
     [items |-> {1, 2, 3}, calls |-> {}, shaky |-> {"helius"}, slots |-> 1, asks |-> 1]}

VARIABLE part   \* which of the two runs

MCInit ==
    /\ PipelineInit /\ Init
    /\ \/ part = "candidates" /\ events # NoEvents /\ load = NoLoad
          /\ tierOf = [i \in Item |-> "NORMAL"]
       \/ part = "load" /\ events = NoEvents /\ load # NoLoad

Candidates == part = "candidates" /\ PipelineNext /\ UNCHANGED <<part, vars>>
Load == part = "load" /\ Next /\ UNCHANGED <<part, pipelineVars>>

MCFairSpec ==
    /\ MCInit /\ [][Candidates \/ Load]_<<part, pipelineVars, vars>>
    /\ PipelineFairness /\ Fairness

\* Every event, call and item comes to its end, complete curves are recorded
\* as migrated, and the governor backs off from a failing provider.
WorkEnds ==
    /\ <>[](TasksEnded /\ MigrationsSeen /\ CallsEnded /\ ItemsHandled)
    /\ BacksOff
=============================================================================
