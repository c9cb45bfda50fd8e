------------------------- MODULE CandidatePipeline -------------------------
(***************************************************************************)
(* worker.ts: from an event that names a mint to AutoTrader.  A task is    *)
(* one event's way through it: the dedupe against Token rows, the          *)
(* mandatory checks (detection/candidatePipeline.ts) with their retries,   *)
(* the row, the AI queue and the wait for confirmation.  A row is written  *)
(* only when the verdict is final, so tasks of one mint may overlap, and   *)
(* what is not a row is lost when the process stops.  The migration        *)
(* monitor (detection/migrationMonitor.ts) sends a token round again.      *)
(***************************************************************************)
EXTENDS Naturals, FiniteSets

CONSTANTS Mint, Bad,       \* the mints, and those the checks can never pass
          Task,            \* events of a behaviour
          MaxAttempts,     \* CANDIDATE_RETRY_MAX_ATTEMPTS
          MaxPending,      \* maxPending of the confirmation scheduler
          Events           \* what the tasks are, one element per behaviour

ASSUME CandidateAssumption ==
    /\ Bad \subseteq Mint /\ "none" \notin Mint /\ MaxAttempts \in Nat /\ MaxPending \in Nat
    /\ \A e \in Events :
           /\ e.crashes \in Nat
           /\ \A t \in Task : /\ e.task[t].kind \in {"create", "pool", "telegram", "migrated"}
                              /\ e.task[t].mint \in Mint

VARIABLES task,        \* [Task -> where it is, its attempt, what its wait has seen]
          row,         \* [Mint -> the dex of its Token row, or "none"]
          pending,     \* mints in the confirmation scheduler
          momentum,    \* keys of smartMoneyMomentumPromises
          recent,      \* mints in the two Telegram caches
          complete,    \* mints whose bonding curve reports complete
          polling,     \* the token the migration tick is at, or "none"
          hints,       \* tokens a checkOne is at
          evaluated,   \* observer: [Mint -> calls of AutoTrader]
          migrations,  \* observer: [Mint -> token.migrated events]
          overlapped,  \* observer: mints with two tasks past the dedupe before a row
          crashes,     \* bound: stops of the process still to come
          events

pipelineVars == <<task, row, pending, momentum, recent, complete, polling, hints,
          evaluated, migrations, overlapped, crashes, events>>

KindOf(t) == events.task[t].kind
MintOf(t) == events.task[t].mint
OnChain(t) == KindOf(t) # "telegram"

Places == {"idle", "fetch", "lookup", "screen", "analyse", "retry", "reject", "accept",
           "rejected", "queued", "scoring", "scored", "snapshot", "waiting", "recheck",
           "evaluate", "done"}

\* Types of the tasks, the rows and the observers.
PipelineTypeOK ==
    /\ task \in [Task -> [at : Places, attempt : 0 .. MaxAttempts, blind : BOOLEAN, dumped : BOOLEAN]]
    /\ row \in [Mint -> {"none", "PUMPFUN", "AMM"}]
    /\ pending \subseteq Mint /\ Cardinality(pending) <= MaxPending
    /\ {momentum, recent, complete, hints, overlapped} \subseteq SUBSET Mint
    /\ polling \in Mint \cup {"none"}
    /\ evaluated \in [Mint -> Nat] /\ migrations \in [Mint -> Nat] /\ crashes \in Nat

Fresh == [at |-> "idle", attempt |-> 0, blind |-> FALSE, dumped |-> FALSE]

PipelineInit ==
    /\ events \in Events
    /\ task = [t \in Task |-> Fresh] /\ row = [m \in Mint |-> "none"]
    /\ pending = {} /\ momentum = {} /\ recent = {} /\ complete = {}
    /\ polling = "none" /\ hints = {} /\ overlapped = {} /\ crashes = events.crashes
    /\ evaluated = [m \in Mint |-> 0] /\ migrations = [m \in Mint |-> 0]

Is(t, place) == task[t].at = place
Go(t, place) == task' = [task EXCEPT ![t].at = place]

\* Tasks of one mint past the dedupe whose row is not written yet.
Unrecorded(m) == {t \in Task : MintOf(t) = m /\ KindOf(t) # "migrated" /\
                   task[t].at \in {"screen", "analyse", "retry", "accept", "reject"}}

Observe == UNCHANGED <<evaluated, migrations, overlapped, crashes, events>>
Memory == <<pending, momentum, recent>>
Curves == <<complete, polling, hints>>

\* An event arrives; the Telegram caches are asked before anything else.
Receive(t) ==
    /\ Is(t, "idle") /\ KindOf(t) # "migrated"
    /\ IF OnChain(t) THEN Go(t, "fetch")
       ELSE IF MintOf(t) \in recent THEN Go(t, "done") ELSE Go(t, "lookup")
    /\ UNCHANGED <<row, Memory, Curves>> /\ Observe

\* getParsedTransaction and the mint: null, an error or no confident mint
\* ends the task.
Fetch(t) ==
    /\ Is(t, "fetch") /\ (Go(t, "lookup") \/ Go(t, "done"))
    /\ UNCHANGED <<row, Memory, Curves>> /\ Observe

\* token.findUnique.  A new pool of a tracked pump.fun token is a migration.
Lookup(t) ==
    /\ Is(t, "lookup")
    /\ LET m == MintOf(t) IN
       /\ Go(t, IF row[m] # "none" THEN "done" ELSE IF OnChain(t) THEN "analyse" ELSE "screen")
       /\ recent' = IF OnChain(t) THEN recent ELSE recent \cup {m}
       /\ hints' = IF row[m] = "PUMPFUN" /\ KindOf(t) = "pool" /\ m \in complete
                   THEN hints \cup {m} ELSE hints
       /\ overlapped' = IF row[m] = "none" /\ Unrecorded(m) # {} THEN overlapped \cup {m} ELSE overlapped
    /\ UNCHANGED <<row, pending, momentum, complete, polling, evaluated, migrations, crashes, events>>

\* The blacklist and the cheap liquidity check of a Telegram mint.
Screen(t) ==
    /\ Is(t, "screen") /\ (Go(t, "analyse") \/ Go(t, "done"))
    /\ UNCHANGED <<row, Memory, Curves>> /\ Observe

\* What a failed evaluation leads to: only reasons that all are transient
\* are worth another attempt.
Failed(t, outcome) ==
    IF outcome \in {"transient", "threw"} /\ task[t].attempt < MaxAttempts THEN "retry"
    ELSE IF outcome = "threw" THEN "done"      \* no risk flags: no row
    ELSE "reject"

\* Mutant of Analyse: the last attempt's unknowns are given the benefit of
\* the doubt.
AnalyseLenient(t, outcome) ==
    /\ Is(t, "analyse") /\ (outcome = "pass" => MintOf(t) \notin Bad)
    /\ LET spent == task[t].attempt = MaxAttempts
       IN task' = [task EXCEPT ![t].at = IF outcome = "pass" \/ (outcome = "transient" /\ spent)
                                         THEN "accept" ELSE Failed(t, outcome),
                               ![t].attempt = IF spent THEN @ ELSE @ + 1]
    /\ UNCHANGED <<row, Memory, Curves>> /\ Observe

\* runCandidatePipeline and what runCandidateThroughPipeline or
\* handleTelegramSignal does with its verdict.
Analyse(t, outcome) ==
    /\ Is(t, "analyse") /\ (outcome = "pass" => MintOf(t) \notin Bad)
    /\ IF OnChain(t)
       THEN LET next == IF outcome = "pass" THEN "accept" ELSE Failed(t, outcome)
            IN /\ task' = [task EXCEPT ![t].at = next,
                                       ![t].attempt = IF next = "retry" THEN @ + 1 ELSE @]
               /\ UNCHANGED recent
       ELSE \/ outcome = "pass" /\ Go(t, "accept") /\ UNCHANGED recent
            \/ Go(t, "done") /\ recent' = recent \cup {MintOf(t)}   \* or a low rule score
    /\ UNCHANGED <<row, pending, momentum, Curves>> /\ Observe

\* CANDIDATE_RETRY_INTERVAL_MS
RetryNow(t) ==
    /\ Is(t, "retry") /\ Go(t, "analyse")
    /\ UNCHANGED <<row, Memory, Curves>> /\ Observe

\* upsertTokenRow; a pass goes to the AI queue with its momentum promise.
Upsert(t) ==
    /\ task[t].at \in {"accept", "reject"}
    /\ LET m == MintOf(t) IN
       /\ row' = [row EXCEPT ![m] = IF @ # "none" THEN @
                                    ELSE IF KindOf(t) = "create" THEN "PUMPFUN" ELSE "AMM"]
       /\ momentum' = IF Is(t, "accept") THEN momentum \cup {m} ELSE momentum
    /\ Go(t, IF Is(t, "accept") THEN "queued" ELSE "rejected")
    /\ UNCHANGED <<pending, recent, Curves>> /\ Observe

\* recordOpportunityScoreAndNotify of a rejected candidate.
RecordRejected(t) ==
    /\ Is(t, "rejected") /\ Go(t, "done")
    /\ UNCHANGED <<row, Memory, Curves>> /\ Observe

\* processAiCall starts: the momentum promise is read once.
TakeCall(t) ==
    /\ Is(t, "queued") /\ Go(t, "scoring")
    /\ momentum' = momentum \ {MintOf(t)}
    /\ UNCHANGED <<row, pending, recent, Curves>> /\ Observe

\* The providers answer or fail, one or both; a Telegram candidate below its
\* bar cools down.
Score(t) ==
    /\ Is(t, "scoring")
    /\ \/ Go(t, "scored") /\ UNCHANGED recent
       \/ ~OnChain(t) /\ Go(t, "done") /\ recent' = recent \cup {MintOf(t)}
    /\ UNCHANGED <<row, pending, momentum, Curves>> /\ Observe

\* The score log, the shadow row and the consensus: no BUY ends here, a
\* young token has to wait.
Decide(t) ==
    /\ Is(t, "scored")
    /\ Go(t, "done") \/ Go(t, "evaluate") \/ Go(t, "snapshot")
    /\ UNCHANGED <<row, Memory, Curves>> /\ Observe

\* ConfirmationScheduler.schedule with the first market snapshot, which may
\* be missing.
Schedule(t, missing) ==
    /\ Is(t, "snapshot")
    /\ IF MintOf(t) \in pending \/ Cardinality(pending) >= MaxPending
       THEN Go(t, "done") /\ UNCHANGED pending
       ELSE /\ task' = [task EXCEPT ![t].at = "waiting", ![t].blind = missing]
            /\ pending' = pending \cup {MintOf(t)}
    /\ UNCHANGED <<row, momentum, recent, Curves>> /\ Observe

\* The timer fires.
ConfirmFires(t) ==
    /\ Is(t, "waiting") /\ Go(t, "recheck") /\ pending' = pending \ {MintOf(t)}
    /\ UNCHANGED <<row, momentum, recent, Curves>> /\ Observe

\* evaluateConfirmation over a fresh pair: none, or a drop against the first
\* snapshot, cancels.
Recheck(t) ==
    /\ Is(t, "recheck")
    /\ Go(t, "done") \/ (Go(t, "evaluate") /\ (task[t].dumped => task[t].blind))
    /\ UNCHANGED <<row, Memory, Curves>> /\ Observe

\* autoTrader.evaluateAndMaybeBuy
Evaluate(t) ==
    /\ Is(t, "evaluate") /\ Go(t, "done")
    /\ evaluated' = [evaluated EXCEPT ![MintOf(t)] = @ + 1]
    /\ UNCHANGED <<row, Memory, Curves, migrations, overlapped, crashes, events>>

\* The price falls while a task waits for its confirmation.
Dump(t) ==
    /\ Is(t, "waiting") /\ ~task[t].dumped
    /\ task' = [task EXCEPT ![t].dumped = TRUE]
    /\ UNCHANGED <<row, Memory, Curves>> /\ Observe

\* A bonding curve fills up.
Graduate(m) ==
    /\ m \notin complete /\ row[m] = "PUMPFUN" /\ complete' = complete \cup {m}
    /\ UNCHANGED <<task, row, Memory, polling, hints>> /\ Observe

\* MigrationMonitor.tick reaches a token that is due; one tick at a time.
Poll(m) ==
    /\ polling = "none" /\ row[m] = "PUMPFUN" /\ m \in complete
    /\ polling' = m
    /\ UNCHANGED <<task, row, Memory, complete, hints>> /\ Observe

\* processMigrationHint's checkOne
Hint(m) ==
    /\ events.hints /\ m \notin hints /\ row[m] = "PUMPFUN" /\ m \in complete
    /\ hints' = hints \cup {m}
    /\ UNCHANGED <<task, row, Memory, complete, polling>> /\ Observe

\* finishMigration: the row moves to its new venue and the event sends the
\* token round again; whoever else is at the same token does so too.  Rounds
\* beyond the "migrated" tasks of the behaviour are not followed (a bound).
Migrate(m) ==
    LET idle == {t \in Task : KindOf(t) = "migrated" /\ MintOf(t) = m /\ Is(t, "idle")}
    IN /\ row' = [row EXCEPT ![m] = "AMM"]
       /\ migrations' = [migrations EXCEPT ![m] = @ + 1]
       /\ IF idle = {} THEN UNCHANGED task ELSE \E t \in idle : Go(t, "analyse")

FinishPoll(m) ==
    /\ polling = m /\ polling' = "none"
    /\ Migrate(m) \/ UNCHANGED <<row, migrations, task>>    \* venue not resolved yet
    /\ UNCHANGED <<Memory, complete, hints, evaluated, overlapped, crashes, events>>

FinishHint(m) ==
    /\ m \in hints /\ hints' = hints \ {m}
    /\ Migrate(m) \/ UNCHANGED <<row, migrations, task>>
    /\ UNCHANGED <<Memory, complete, polling, evaluated, overlapped, crashes, events>>

\* A cache entry's time to live ends.
Forget(m) ==
    /\ m \in recent /\ recent' = recent \ {m}
    /\ UNCHANGED <<task, row, pending, momentum, Curves>> /\ Observe

\* What the process held in memory is gone: an operator's restart, or the
\* rejection nobody handles of a retry or a migrated token's run.
Stop ==
    /\ task' = [t \in Task |-> IF Is(t, "idle") THEN task[t] ELSE [Fresh EXCEPT !.at = "done"]]
    /\ pending' = {} /\ momentum' = {} /\ recent' = {} /\ polling' = "none" /\ hints' = {}
    /\ UNCHANGED <<row, complete, evaluated, migrations, overlapped, events>>

Restart == crashes > 0 /\ crashes' = crashes - 1 /\ Stop

\* A step of a task throws.  Under a caller that catches it ends the task;
\* in a timer's or a subscriber's run it is an unhandled rejection.
Throws(t) ==
    /\ task[t].at \in {"accept", "reject", "rejected", "scoring", "scored", "recheck"}
    /\ IF task[t].at \in {"accept", "reject", "rejected"}
            /\ (task[t].attempt > 0 \/ KindOf(t) = "migrated")
       THEN Stop /\ UNCHANGED crashes
       ELSE /\ Go(t, "done")
            /\ UNCHANGED <<row, Memory, Curves>> /\ Observe

Step(t) ==
    \/ Receive(t) \/ Fetch(t) \/ Lookup(t) \/ Screen(t) \/ RetryNow(t) \/ Upsert(t)
    \/ \E outcome \in {"pass", "transient", "threw", "final"} : Analyse(t, outcome)
    \/ RecordRejected(t) \/ TakeCall(t) \/ Score(t) \/ Decide(t)
    \/ \E missing \in BOOLEAN : Schedule(t, missing)
    \/ ConfirmFires(t) \/ Recheck(t) \/ Evaluate(t)

Migration(m) == Poll(m) \/ FinishPoll(m) \/ FinishHint(m)

PipelineNext ==
    \/ \E t \in Task : Step(t) \/ Throws(t) \/ Dump(t)
    \/ \E m \in Mint : Migration(m) \/ Hint(m) \/ Graduate(m) \/ Forget(m)
    \/ Restart

PipelineSpec == PipelineInit /\ [][PipelineNext]_pipelineVars

\* Calls return, timers fire, queues have slots; a venue gets resolved.
PipelineFairness ==
    /\ \A t \in Task : WF_pipelineVars(Step(t) /\ ~Is(t, "idle"))
    /\ \A m \in Mint :
           /\ WF_pipelineVars(Poll(m)) /\ WF_pipelineVars(FinishHint(m))
           /\ SF_pipelineVars(FinishPoll(m) /\ row'[m] = "AMM") /\ WF_pipelineVars(FinishPoll(m))

\* A mint the mandatory checks cannot pass never reaches AutoTrader, however
\* its attempts, sources and retries interleave (candidatePipeline.ts).
NothingBadIsBought == \A m \in Bad : evaluated[m] = 0

\* AutoTrader sees a mint once, and once more for each migration, unless two
\* events of it were past the dedupe before either wrote the row.
EvaluatedOnce == \A m \in Mint : evaluated[m] > 1 + migrations[m] => m \in overlapped

\* A momentum promise has a queued AI call that will read it.
NoOrphanEvaluation == \A m \in momentum : \E t \in Task : MintOf(t) = m /\ Is(t, "queued")

\* A task that had a first price to compare is not evaluated after a fall.
NoBuyIntoDump == \A t \in Task : Is(t, "evaluate") /\ task[t].dumped => task[t].blind

\* What the pipeline lets through, how often, and what it keeps of it, is sound.
CandidatesAreSound ==
    /\ PipelineTypeOK /\ NothingBadIsBought /\ EvaluatedOnce
    /\ NoBuyIntoDump /\ NoOrphanEvaluation

\* Every event is brought to an end, its retries included.
TasksEnded == \A t \in Task : task[t].at \in {"idle", "done"}

\* A tracked token whose curve is complete is recorded as migrated.
MigrationsSeen == \A m \in Mint : m \in complete => row[m] # "PUMPFUN"
=============================================================================
