---------------------------- MODULE LatencyTraces ----------------------------
(***************************************************************************)
(* lib/latencyTracker.ts and the attempts that feed it: each real buy or   *)
(* sell starts a trace, marks the stages it passes, whatever is retried or *)
(* built elsewhere, and finishes it; the report is computed from the       *)
(* traces kept.  Stages before a buy are handed over with their times.     *)
(***************************************************************************)
EXTENDS Integers, Sequences, FiniteSets, TLC, SequencesExt

CONSTANTS MaxCompleted,
          Day        \* bounds: [attempts, handed, ticks, retries, faults]

TraceAssumption == MaxCompleted \in Nat \ {0}

VARIABLES day, clock,
          active,      \* the traces in flight, and their marks
          completed,   \* completedTraces
          place,       \* where each attempt is
          tries,       \* retries left to it
          reached,     \* observer: <<stage, time>> of every mark that was asked for
          ended,       \* observer: the attempts that called finish, in order
          threw, slips

traceVars == <<day, clock, active, completed, place, tries, reached, ended, threw, slips>>

Attempt == DOMAIN day.attempts
Side(t) == day.attempts[t].side
OnPaper(t) == day.attempts[t].paper

\* BUY_STAGE_ORDER and SELL_STAGE_ORDER; Handed stands for those a buy is handed.
Handed == <<"token_detected", "analysis_started", "sellability_verified", "decision", "buy_submitted">>
Swap == <<"quote_request", "quote_received", "tx_build", "tx_sign", "broadcast", "rpc_confirmation">>
StageOrder(side) ==
    IF side = "BUY" THEN Handed \o <<"filters_complete">> \o Swap \o <<"position_opened">>
    ELSE <<"exit_decision">> \o Swap \o <<"position_closed">>

\* Where an attempt is before it marks a stage of its swap, and after it.
Place(n) == <<"quote", "quoting", "building", "signing", "send", "sent", "verify">>[n]
Swapping == {Place(n) : n \in 1 .. 4}

\* Types, of the traces and the attempts.
TypeOK ==
    /\ clock \in 0 .. day.ticks /\ DOMAIN active \subseteq Attempt /\ slips \in 0 .. day.faults
    /\ \A t \in DOMAIN active : \A s \in DOMAIN active[t] : active[t][s] \in 0 .. clock
    /\ place \in [Attempt -> {"none", "checks", "book", "over"} \cup {Place(n) : n \in 1 .. 7}]
    /\ \A t \in Attempt : tries[t] \in 0 .. day.retries

Init ==
    /\ day \in Day /\ clock = 0
    /\ active = <<>> /\ completed = <<>> /\ ended = <<>> /\ threw = {} /\ slips = 0
    /\ place = [t \in Attempt |-> "none"] /\ tries = [t \in Attempt |-> day.retries]
    /\ reached = [t \in Attempt |-> {}]

Goes(t, to) == place' = [place EXCEPT ![t] = to]
-----------------------------------------------------------------------------
\* mark: the first time a stage is reached is the one that counts.
Mark(t, stage, at) ==
    /\ active' = IF t \notin DOMAIN active THEN active ELSE [active EXCEPT ![t] = @ @@ (stage :> at)]
    /\ reached' = [reached EXCEPT ![t] = @ \cup {<<stage, at>>}]

Times(marks) == {marks[s] : s \in DOMAIN marks}
Most(S) == CHOOSE n \in S : \A m \in S : m <= n
Least(S) == CHOOSE n \in S : \A m \in S : n <= m

Kept(list) == IF Len(list) > MaxCompleted THEN Tail(list) ELSE list

\* finish: what it returns is kept, unless nothing was marked.
Finish(t, marks, outcome) ==
    /\ active' = [u \in DOMAIN active \ {t} |-> active[u]]
    /\ ended' = IF marks = <<>> THEN ended ELSE Append(ended, t)
    /\ completed' =
          IF marks = <<>> THEN completed
          ELSE Kept(Append(completed, [trace |-> t, side |-> Side(t), outcome |-> outcome, marks |-> marks,
                                       total |-> Most(Times(marks)) - Least(Times(marks))]))

Fails(t) ==
    /\ Finish(t, active[t], "failure") /\ Goes(t, "over")
    /\ UNCHANGED <<day, clock, tries, reached, threw>>
-----------------------------------------------------------------------------
\* start: a launch hands its times over, a mirrored buy has none.
Start(t) ==
    /\ place[t] = "none" /\ \A u \in Attempt : u < t => place[u] # "none"
    /\ Cardinality({u \in Attempt : place[u] \notin {"none", "over"}}) < 2
    /\ LET marks == IF Side(t) = "SELL" THEN "exit_decision" :> clock
                    ELSE IF day.attempts[t].launch
                    THEN [s \in {Handed[i] : i \in DOMAIN Handed} |-> IF day.handed[s] < clock THEN day.handed[s] ELSE clock]
                    ELSE <<>>
       IN /\ active' = active @@ (t :> marks)
          /\ reached' = [reached EXCEPT ![t] = {<<s, marks[s]>> : s \in DOMAIN marks}]
    /\ Goes(t, "checks")
    /\ UNCHANGED <<day, clock, completed, tries, ended, threw, slips>>

\* A safety check, the price impact; no longer open, no token left.
Refuse(t) == place[t] = "checks" /\ Fails(t) /\ UNCHANGED slips

\* A paper position that is sold with live trading on has a trace and no swap.
Pass(t) ==
    /\ place[t] = "checks" /\ Goes(t, IF OnPaper(t) THEN "book" ELSE "quote")
    /\ IF Side(t) = "BUY" THEN Mark(t, "filters_complete", clock) ELSE UNCHANGED <<active, reached>>
    /\ UNCHANGED <<day, clock, completed, tries, ended, threw, slips>>

\* One stage of the swap is done.
Stage(t) ==
    /\ \E n \in DOMAIN Swap : place[t] = Place(n) /\ Mark(t, Swap[n], clock) /\ Goes(t, Place(n + 1))
    /\ UNCHANGED <<day, clock, completed, tries, ended, threw, slips>>

\* The route fails before it is sent: again from the quote, or over to the native
\* executor, which marks nothing, or it is a failure.
RouteFails(t) ==
    /\ place[t] \in Swapping \ {"quote"} /\ slips < day.faults /\ slips' = slips + 1
    /\ \/ /\ tries[t] > 0 /\ tries' = [tries EXCEPT ![t] = @ - 1] /\ Goes(t, "quote")
          /\ UNCHANGED <<day, clock, active, completed, reached, ended, threw>>
       \/ Goes(t, "send") /\ UNCHANGED <<day, clock, active, completed, tries, reached, ended, threw>>
       \/ Fails(t)

\* It is sent and rejected: a sell rebuilds it from the quote.
SendFails(t) ==
    /\ place[t] = "sent" /\ slips < day.faults /\ slips' = slips + 1
    /\ \/ /\ Side(t) = "SELL" /\ tries[t] > 0 /\ tries' = [tries EXCEPT ![t] = @ - 1] /\ Goes(t, "quote")
          /\ UNCHANGED <<day, clock, active, completed, reached, ended, threw>>
       \/ Fails(t)

Verify(t) ==
    /\ place[t] = "verify"
    /\ \/ Goes(t, "book") /\ UNCHANGED <<day, clock, active, completed, tries, reached, ended, threw, slips>>
       \/ slips < day.faults /\ slips' = slips + 1 /\ Fails(t)

\* The rows are written; a partial sale leaves the position open.
Book(t) ==
    /\ place[t] = "book" /\ Goes(t, "over")
    /\ LET last == IF Side(t) = "BUY" THEN "position_opened" ELSE "position_closed"
           marks == IF day.attempts[t].part THEN active[t] ELSE active[t] @@ (last :> clock)
       IN Finish(t, marks, "success") /\ reached' = [reached EXCEPT ![t] = @ \cup {<<s, marks[s]>> : s \in DOMAIN marks}]
    /\ UNCHANGED <<day, clock, tries, threw, slips>>

\* A query of the checks or of a sale's rows throws past finish; a buy's rows
\* are caught.
Throws(t) ==
    /\ place[t] \in {"checks", "book"} /\ slips < day.faults /\ slips' = slips + 1
    /\ IF place[t] = "book" /\ Side(t) = "BUY" THEN Fails(t)
       ELSE /\ Goes(t, "over") /\ threw' = threw \cup {t}
            /\ UNCHANGED <<day, clock, active, completed, tries, reached, ended>>

Passes ==
    /\ clock < day.ticks /\ clock' = clock + 1
    /\ UNCHANGED <<day, active, completed, place, tries, reached, ended, threw, slips>>

Next ==
    \/ Passes
    \/ \E t \in Attempt : \/ Start(t) \/ Refuse(t) \/ Pass(t) \/ Stage(t) \/ RouteFails(t) \/ SendFails(t)
                          \/ Verify(t) \/ Book(t) \/ Throws(t)
-----------------------------------------------------------------------------
\* percentileOf: the nearest rank
PercentileOf(sorted, p) ==
    LET up == (p * Len(sorted) + 99) \div 100
    IN sorted[IF up < 1 THEN 1 ELSE IF up > Len(sorted) THEN Len(sorted) ELSE up]

Stats(durations) ==
    LET sorted == SortSeq(durations, <)
    IN [count |-> Len(sorted), sum |-> FoldSeq(+, 0, sorted),
        median |-> PercentileOf(sorted, 50), p95 |-> PercentileOf(sorted, 95), max |-> sorted[Len(sorted)]]

\* computeDetectionSpan, and a stage's durations: both marks, in order.
Measures(trace, from, to) ==
    {from, to} \subseteq DOMAIN trace.marks /\ trace.marks[to] >= trace.marks[from]

Durations(traces, from, to) ==
    LET both == SelectSeq(traces, LAMBDA trace : Measures(trace, from, to))
    IN [i \in DOMAIN both |-> both[i].marks[to] - both[i].marks[from]]

\* buildSideReport
Report(side) ==
    LET traces == SelectSeq(completed, LAMBDA trace : trace.side = side)
        won == SelectSeq(traces, LAMBDA trace : trace.outcome = "success")
        order == StageOrder(side)
    IN [total |-> [i \in DOMAIN won |-> won[i].total], won |-> Len(won), samples |-> Len(traces),
        stages |-> [i \in 1 .. Len(order) - 1 |-> Durations(traces, order[i], order[i + 1])],
        decision |-> Durations(traces, "token_detected", "decision")]

\* getTraceLatencySummary: from the launch to the order, from the order to the position.
Summary(trace) ==
    [detection |-> Durations(<<trace>>, "token_detected", "buy_submitted"),
     buy |-> Durations(<<trace>>, "buy_submitted", "position_opened")]
-----------------------------------------------------------------------------
\* Whatever was retried, a stage counts from the first time it was reached.
FirstCounts ==
    \A i \in DOMAIN completed : \A s \in DOMAIN completed[i].marks :
        completed[i].marks[s] = Least({r[2] : r \in {q \in reached[completed[i].trace] : q[1] = s}})

\* The newest MaxCompleted attempts that came to an end are kept, each once, and
\* none of them is still counted as running.
NewestKept ==
    /\ [i \in DOMAIN completed |-> completed[i].trace]
         = SubSeq(ended, IF Len(ended) > MaxCompleted THEN Len(ended) - MaxCompleted + 1 ELSE 1, Len(ended))
    /\ \A i \in DOMAIN ended : ended[i] \notin DOMAIN active
    /\ \A i, j \in DOMAIN ended : ended[i] = ended[j] => i = j

\* A trace stays behind in the tracker only if its attempt threw past finish.
LeakNeedsThrow == \A t \in DOMAIN active : place[t] = "over" => t \in threw

\* A trace's stages, where it passed them all in order, add up to its total; a
\* fill without a swap is in the report only if the position was bought on paper.
SpansAddUp ==
    \A i \in DOMAIN completed :
        LET trace == completed[i]
            order == StageOrder(trace.side)
            whole == \A n \in 1 .. Len(order) - 1 : Measures(trace, order[n], order[n + 1])
            spans == [n \in 1 .. Len(order) - 1 |-> trace.marks[order[n + 1]] - trace.marks[order[n]]]
        IN /\ whole => FoldSeq(+, 0, spans) = trace.total
           /\ trace.outcome = "success" /\ "broadcast" \notin DOMAIN trace.marks => OnPaper(trace.trace)
           /\ \A span \in {Summary(trace).detection, Summary(trace).buy} : \A n \in DOMAIN span : span[n] <= trace.total

\* A reported figure is one that was measured, and they are in order.
Honest(durations) ==
    durations # <<>> =>
        LET stats == Stats(durations) IN
        /\ stats.median <= stats.p95 /\ stats.p95 <= stats.max
        /\ {stats.median, stats.p95, stats.max} \subseteq {durations[i] : i \in DOMAIN durations}
        /\ \A i \in DOMAIN durations : 0 <= durations[i] /\ durations[i] <= stats.max
        /\ 2 * Cardinality({i \in DOMAIN durations : durations[i] <= stats.median}) >= stats.count
        /\ stats.sum <= stats.count * stats.max

ReportIsHonest ==
    \A side \in {"BUY", "SELL"} :
        LET report == Report(side) IN
        /\ Honest(report.total) /\ Honest(report.decision) /\ report.won <= report.samples
        /\ \A i \in DOMAIN report.stages : Honest(report.stages[i])
        /\ side = "SELL" => report.decision = <<>>

\* lib/latencyTracker.ts as a whole
LatencyIsSound == TypeOK /\ FirstCounts /\ NewestKept /\ LeakNeedsThrow /\ SpansAddUp /\ ReportIsHonest
=============================================================================
