---------------------------- MODULE BuildForecast ----------------------------
(***************************************************************************)
(* What the build monitor derives from the timelines of several runs       *)
(* (lib/microcosm/build-monitor.ts): statistics of stages, gates and       *)
(* stops, and the forecast of a run from the history of its pipeline.      *)
(*                                                                         *)
(* A timeline has besides what BuildTimeline reads of it an id, a          *)
(* pipeline, when it started, the points its solver logged, and what its   *)
(* failure records. Times are whole seconds since the start of the run,    *)
(* and quotients are rounded down; `started` orders the runs. A span is a  *)
(* gate or not, and has its failures, the work it reported last and its    *)
(* progress. Resources, shares and wording are left out.                   *)
(***************************************************************************)
EXTENDS BuildTimeline

CONSTANTS
    HistoryLimit,       \* HISTORY_LIMIT
    RateWindow          \* the samples a rate is taken over

\* A quantile of a sequence, in tenths, between the two values beside it.
Quantile(values, tenths) ==
    LET sorted == SortSeq(values, <)
        position == (Len(values) - 1) * tenths
        low == sorted[position \div 10 + 1]
        high == sorted[(position + 9) \div 10 + 1]
    IN  IF values = <<>> THEN 0 ELSE low + ((high - low) * (position % 10)) \div 10

Median(values) == Quantile(values, 5)

Sum(values) == FoldLeft(+, 0, values)

\* The last n of a sequence.
LastOf(seq, n) == SubSeq(seq, Max({1, Len(seq) - n + 1}), Len(seq))

-----------------------------------------------------------------------------
(***************************************************************************)
(* Stages across runs.                                                     *)
(***************************************************************************)

Of(spans, stage) == SelectSeq(spans, LAMBDA span : span.stage = stage)

HasEnded(span) == span.end # None

\* A stage in a run: the time of all its spans that ended. It was cut short if
\* it failed, or if the run went silent in it.
SampleOf(top, state, stage) ==
    LET ended == SelectSeq(Of(top, stage), HasEnded)
        failed == \E span \in Range(ended) : span.status = "failed"
    IN  [duration |-> Sum([k \in DOMAIN ended |-> ended[k].end - ended[k].start]),
         offset |-> Head(ended).start, failed |-> failed,
         cutShort |-> failed \/ (state = "stalled" /\ Last(top).stage = stage
                                    /\ HasEnded(Last(top)))]

Samples(history, stage) ==
    LET reached == SelectSeq(history, LAMBDA run :
            SelectSeq(Of(TopLevelSpans(run), stage), HasEnded) # <<>>)
    IN  [k \in DOMAIN reached |-> SampleOf(TopLevelSpans(reached[k]), reached[k].state, stage)]

\* The runs that cut a stage short count in its durations, and not in what is
\* typical of it.
StatOf(samples) ==
    LET finished == SelectSeq(samples, LAMBDA s : ~s.cutShort)
        Durations(those) == [k \in DOMAIN those |-> those[k].duration]
    IN  [samples |-> Len(samples), cutShort |-> Len(samples) - Len(finished),
         failures |-> Len(SelectSeq(samples, LAMBDA s : s.failed)),
         median |-> Median(Durations(samples)),
         typical |-> IF finished = <<>> THEN None ELSE Median(Durations(finished)),
         offset |-> Median([k \in DOMAIN samples |-> samples[k].offset])]

StageStatistics(history) ==
    LET ended == UNION {{span.stage : span \in {s \in Range(TopLevelSpans(run)) : HasEnded(s)}} :
                            run \in Range(history)}
    IN  [stage \in ended |-> StatOf(Samples(history, stage))]

\* Runs of one pipeline with the same stages that are over, the latest first.
Comparable(run, other) ==
    /\ other.id # run.id
    /\ other.pipeline = run.pipeline
    /\ SameStageSequence(run, other)
    /\ other.state # "running"
    /\ other.started # None
    /\ \E span \in Range(TopLevelSpans(other)) : HasEnded(span)

\* Those that started at once stay in their order.
LatestFirst(runs) ==
    LET order == SortSeq([i \in DOMAIN runs |-> i], LAMBDA i, j :
            \/ runs[i].started > runs[j].started
            \/ runs[i].started = runs[j].started /\ i < j)
    IN  [k \in DOMAIN order |-> runs[order[k]]]

OldestFirst(runs) == Reverse(LatestFirst(Reverse(runs)))

FirstOf(seq, n) == SubSeq(seq, 1, Min({Len(seq), n}))

ComparableHistory(run, runs) ==
    FirstOf(LatestFirst(SelectSeq(runs, LAMBDA other : Comparable(run, other))), HistoryLimit)

\* A stage in a run, from its first start to its last end.
StageBlock(run, stage) ==
    LET spans == Of(TopLevelSpans(run), stage)
    IN  [start |-> Head(spans).start, end |-> Last(spans).end]

-----------------------------------------------------------------------------
(***************************************************************************)
(* Rates of a run under way.                                               *)
(***************************************************************************)

\* Remaining time at the rate of the latest epochs of the current pass, and the
\* time a pass takes at that rate.
CalibrationRate(points) ==
    LET last == Last(points)
        pass == SelectSeq([i \in DOMAIN points |-> i], LAMBDA i :
                    PassOf(points, i) = PassOf(points, Len(points)))
        first == points[Head(LastOf(pass, RateWindow))]
        steps == last.epoch - first.epoch
        elapsed == last.time - first.time
    IN  IF points = <<>> THEN None
        ELSE IF steps <= 0 \/ elapsed <= 0 THEN None
        ELSE [remaining |-> (Max({0, last.epochs - last.epoch}) * elapsed) \div steps,
              pass |-> (last.epochs * elapsed) \div steps]

\* Remaining time of a stage by the work it reported, less the time since then,
\* or at the rate of its latest samples.
WorkRate(span, at) ==
    LET work == span.work
        last == Last(span.progress)
        window == LastOf(SelectSeq(span.progress, LAMBDA p : p.total = last.total), RateWindow)
        units == last.done - Head(window).done
        elapsed == last.time - Head(window).time
    IN  IF work # None /\ work.done > 0 /\ work.total > 0
        THEN [done |-> work.done, total |-> work.total,
              remaining |-> Max({0, (work.elapsed * Max({0, work.total - work.done})) \div work.done
                                        - Max({0, at - work.updated})})]
        ELSE IF Len(span.progress) < 2 THEN None
        ELSE IF units <= 0 \/ elapsed <= 0 THEN None
        ELSE [done |-> last.done, total |-> last.total,
              remaining |-> (Max({0, last.total - last.done}) * elapsed) \div units]

\* A fault the runs must notice: the stage that is open counts as if it were over.
MeasuresAlways(span, typical, at) == typical # None /\ typical >= 20

\* The stages that tell the pace: those long enough to measure, and of them the
\* open one when it takes longer than is typical.
Measures(span, typical, at) ==
    /\ typical # None /\ typical >= 20
    /\ span.end = None => at - span.start > typical

TypicalOf(stats, stage) == IF stage \in DOMAIN stats THEN stats[stage].typical ELSE None

\* How fast a run goes: <<observed, typical>>, between a half and three.
Pace(run, stats, at) ==
    LET told == SelectSeq(TopLevelSpans(run), LAMBDA span :
                    Measures(span, TypicalOf(stats, span.stage), at))
        observed == Sum([k \in DOMAIN told |->
                        (IF HasEnded(told[k]) THEN told[k].end ELSE at) - told[k].start])
        typical == Sum([k \in DOMAIN told |-> TypicalOf(stats, told[k].stage)])
    IN  IF typical < 60 THEN None
        ELSE IF observed > 3 * typical THEN <<3, 1>>
        ELSE IF 2 * observed < typical THEN <<1, 2>>
        ELSE <<observed, typical>>

Scaled(time, pace) == IF pace = None THEN time ELSE (time * pace[1]) \div pace[2]

-----------------------------------------------------------------------------
(***************************************************************************)
(* The solver: what is left of its pass, and the size searches past runs   *)
(* needed beyond those this run has started.                               *)
(***************************************************************************)

\* isSearchPass: by the first point of the pass that names its phase.
IsSearchPass(points, pass) ==
    LET named == {i \in DOMAIN points : PassOf(points, i) = pass /\ points[i].phase # None}
    IN  named # {} /\ points[Min(named)].phase = "search"

SearchPasses(points) ==
    {k \in DOMAIN SolverPasses(points) : IsSearchPass(points, k - 1)}

\* The solver is done once a later stage has started.
FinishedSolving(run) ==
    run.points # <<>> /\ \E span \in Range(TopLevelSpans(run)) : span.start > Last(run.points).time

\* Other runs of the pipeline that are over and have solved; of those the ones
\* with the same stages, if there are any.
Solved(run, runs) ==
    SelectSeq(runs, LAMBDA other :
        /\ other.id # run.id /\ other.pipeline = run.pipeline
        /\ other.state # "running" /\ FinishedSolving(other))

Preferred(some, all) == IF some # <<>> THEN some ELSE all

SolvedRuns(run, runs) ==
    Preferred(SelectSeq(Solved(run, runs), LAMBDA other : SameStageSequence(run, other)),
              Solved(run, runs))

\* How long a search takes in this run: until the next pass starts, or as long
\* as the current pass will, or did.
PassLength(points, passes, rate) ==
    LET searches == SelectSeq([k \in 1..(Len(passes) - 1) |-> k], LAMBDA k :
                        IsSearchPass(points, k - 1) /\ passes[k + 1].start > passes[k].start)
    IN  IF searches # <<>>
        THEN Median([n \in DOMAIN searches |->
                        passes[searches[n] + 1].start - passes[searches[n]].start])
        ELSE IF rate # None THEN rate.pass
        ELSE IF Last(passes).complete THEN Last(passes).end - Last(passes).start
        ELSE 0

\* counts: the searches of the past runs.
SolverLeft(points, passes, rate, counts) ==
    LET searched == Cardinality(SearchPasses(points))
        beyond == SelectSeq(counts, LAMBDA count : count >= searched)
        more == [k \in DOMAIN beyond |-> beyond[k] - searched]
        left == IF Last(passes).complete \/ rate = None THEN 0 ELSE rate.remaining
        length == PassLength(points, passes, rate)
    IN  IF searched = 0 /\ Range(counts) \subseteq {0} THEN None
        ELSE [p50 |-> left + Median(more) * length, p90 |-> left + Quantile(more, 9) * length]

SolverForecast(run, solved, rate) ==
    IF run.points = <<>> THEN None
    ELSE SolverLeft(run.points, SolverPasses(run.points), rate,
                    [k \in DOMAIN solved |-> Cardinality(SearchPasses(solved[k].points))])

-----------------------------------------------------------------------------
(***************************************************************************)
(* The forecast. What is left is the rest of the stage the run is in and   *)
(* what came after it in past runs.                                        *)
(***************************************************************************)

RangeOf(samples) == [p50 |-> Median(samples), p90 |-> Quantile(samples, 9)]

\* The stage a run is in, or was in last.
PlaceOf(top) ==
    LET open == {i \in DOMAIN top : ~HasEnded(top[i])}
        here == top[IF open = {} THEN Len(top) ELSE Min(open)]
    IN  IF top = <<>> THEN None
        ELSE [stage |-> here.stage, span |-> here, open |-> open # {}]

\* The rest of a stage: of those that took longer, or a share of the time it
\* has taken if none did.
RestOf(durations, elapsed) ==
    LET longer == SelectSeq(durations, LAMBDA duration : duration > elapsed)
    IN  IF longer = <<>>
        THEN [p50 |-> elapsed \div 10, p90 |-> elapsed \div 2, overrunning |-> TRUE]
        ELSE RangeOf([k \in DOMAIN longer |-> longer[k] - elapsed]) @@ [overrunning |-> FALSE]

\* By the past runs that reached the stage: blocks are its blocks in them. Between
\* stages the time since the last one counts against what came after it.
ByMilestone(reached, blocks, block, open, pace, at) ==
    [method |-> "milestone",
     here |-> IF open
              THEN RestOf([k \in DOMAIN blocks |-> blocks[k].end - blocks[k].start],
                          at - block.start)
              ELSE [p50 |-> block.end - at, p90 |-> block.end - at, overrunning |-> FALSE],
     after |-> RangeOf([k \in DOMAIN reached |-> Scaled(reached[k].ended - blocks[k].end, pace)])]

NoTime == [p50 |-> 0, p90 |-> 0, overrunning |-> FALSE]

\* By the total time of past runs that did not reach it.
ByTotal(totals, elapsed) ==
    [method |-> "run_total",
     here |-> [NoTime EXCEPT !.overrunning = totals.p90 < elapsed],
     after |-> [p50 |-> Max({0, totals.p50 - elapsed}), p90 |-> Max({0, totals.p90 - elapsed})]]

ByHistory(run, finished, place, pace, at) ==
    LET stage == IF place = None THEN None ELSE place.stage
        reached == SelectSeq(finished, LAMBDA other :
            LET spans == Of(TopLevelSpans(other), stage)
            IN  spans # <<>> /\ HasEnded(Last(spans)))
    IN  IF reached # <<>>
        THEN ByMilestone(reached, [k \in DOMAIN reached |-> StageBlock(reached[k], stage)],
                         StageBlock(run, stage), place.open, pace, at)
        ELSE IF finished # <<>>
        THEN ByTotal(RangeOf([k \in DOMAIN finished |-> Scaled(finished[k].ended, pace)]),
                     RunDuration(run, at))
        ELSE [method |-> "none", here |-> NoTime, after |-> NoTime]

\* What this run measures: the epochs while it solves, and the work of its stage.
RatesOf(run, runs, place, at) ==
    LET open == place # None /\ place.open
        solving == open /\ place.stage \in Calibrations
        rate == IF solving THEN CalibrationRate(run.points) ELSE None
    IN  [epochs |-> rate, solver |-> IF solving THEN SolverForecast(run, SolvedRuns(run, runs), rate)
                                    ELSE None,
         work |-> IF open THEN WorkRate(place.span, at) ELSE None,
         reported |-> open /\ place.span.work # None]

IsMeasured(rates) == rates.epochs # None \/ rates.work # None \/ rates.solver # None

FloorOf(rates) ==
    Max({0} \cup (IF rates.epochs = None THEN {} ELSE {rates.epochs.remaining})
            \cup (IF rates.work = None THEN {} ELSE {rates.work.remaining})
            \cup (IF rates.solver = None THEN {} ELSE {rates.solver.p50}))

\* A stage that reports its work is timed by it, once it has done some. Other
\* rates are a floor.
WithRates(here, rates) ==
    LET low == FloorOf(rates)
        high == Max({low} \cup (IF rates.solver = None THEN {} ELSE {rates.solver.p90}))
    IN  IF /\ rates.reported /\ rates.work # None
           /\ rates.work.done >= Min({3, rates.work.total})
        THEN [p50 |-> rates.work.remaining, p90 |-> (rates.work.remaining * 5) \div 4,
              overrunning |-> FALSE]
        ELSE IF IsMeasured(rates)
        THEN [here EXCEPT !.p50 = Max({@, low}), !.p90 = Max({@, high})]
        ELSE here

\* The side of the smallest square that is not less than a^2 + b^2.
Quadrature(a, b) ==
    CHOOSE side \in 0..(Max({a, -a}) + Max({b, -b})) :
        /\ side * side >= a * a + b * b
        /\ side > 0 => (side - 1) * (side - 1) < a * a + b * b

\* The spread is never taken to be less than 30% and 30 seconds.
Remaining(method, here, after) ==
    LET p50 == Max({0, here.p50 + after.p50})
    IN  IF method = "none" THEN [p50 |-> None, p90 |-> None]
        ELSE [p50 |-> p50,
              p90 |-> Max({(13 * p50) \div 10 + 30,
                           p50 + Quadrature(here.p90 - here.p50, after.p90 - after.p50)})]

\* The stages that came after the place in the run of reference and that the run
\* has not seen, in their order.
Ahead(top, reference, place, stats) ==
    LET order == TopLevelSpans(reference)
        from == Max({0} \cup {i \in DOMAIN order : place # None /\ order[i].stage = place.stage})
        New(i) == /\ i > from
                  /\ order[i].stage \in DOMAIN stats \ {span.stage : span \in Range(top)}
                  /\ \A j \in (from + 1)..(i - 1) : order[j].stage # order[i].stage
        new == SelectSeq([i \in DOMAIN order |-> i], New)
    IN  [k \in DOMAIN new |-> order[new[k]].stage]

\* They share the time from start that is left for them, as they usually do.
LaidOut(ahead, stats, start, p50, left, pace) ==
    LET typical(k) == Sum([n \in 1..k |-> stats[ahead[n]].median])
        all == typical(Len(ahead))
        budget == IF p50 = None THEN Scaled(all, pace) ELSE Max({0, p50 - left})
        until(k) == start + (IF all = 0 THEN 0 ELSE (typical(k) * budget) \div all)
    IN  [k \in DOMAIN ahead |->
            [stage |-> ahead[k], status |-> "pending", start |-> until(k - 1), end |-> until(k)]]

Done(top) ==
    LET ended == SelectSeq(top, HasEnded)
    IN  [k \in DOMAIN ended |->
            [stage |-> ended[k].stage, status |-> "done", start |-> ended[k].start,
             end |-> ended[k].end]]

\* The stages so far, the current one, and those ahead.
Stretches(top, place, ahead, stats, elapsed, left, p50, pace) ==
    LET open == place # None /\ place.open
        cursor == IF open THEN elapsed + left ELSE elapsed
    IN  Done(top)
        \o (IF open THEN << [stage |-> place.stage, status |-> "running",
                             start |-> place.span.start, end |-> cursor] >> ELSE <<>>)
        \o LaidOut(ahead, stats, cursor, p50, left, pace)

\* Without a run that finished, a rate tells the time of the current stage only.
Forecast(run, stats, known, place, rates, history, finished, pace, at) ==
    LET method == IF known.method = "none" /\ IsMeasured(rates) THEN "rate_only" ELSE known.method
        here == WithRates(known.here, rates)
        remaining == Remaining(method, here, known.after)
        left == Max({0, IF method = "milestone" THEN here.p50 ELSE FloorOf(rates)})
        reference == Head(IF finished # <<>> THEN finished ELSE history)
        ahead == IF history = <<>> THEN <<>>
                 ELSE Ahead(TopLevelSpans(run), reference, place, stats)
    IN  [method |-> method, pace |-> pace, p50 |-> remaining.p50, p90 |-> remaining.p90,
         overrunning |-> here.overrunning,
         stages |-> Stretches(TopLevelSpans(run), place, ahead, stats, RunDuration(run, at), left,
                              remaining.p50, pace)]

\* Runs that reached the end, whether or not their gates passed.
Finished(history) ==
    SelectSeq(history, LAMBDA run : run.state \in {"passed", "blocked"} /\ run.ended # None)

ForecastBy(run, runs, history, stats, place, pace, at) ==
    IF run.state # "running"
    THEN [method |-> "finished", pace |-> pace, p50 |-> 0, p90 |-> 0, overrunning |-> FALSE,
          stages |-> Done(TopLevelSpans(run))]
    ELSE Forecast(run, stats, ByHistory(run, Finished(history), place, pace, at), place,
                  RatesOf(run, runs, place, at), history, Finished(history), pace, at)

ForecastFrom(run, runs, history, stats, at) ==
    ForecastBy(run, runs, history, stats, PlaceOf(TopLevelSpans(run)), Pace(run, stats, at), at)

ForecastWith(run, runs, history, at) ==
    ForecastFrom(run, runs, history, StageStatistics(history), at)

\* forecastCompletion
ForecastCompletion(run, runs, at) == ForecastWith(run, runs, ComparableHistory(run, runs), at)

-----------------------------------------------------------------------------
(***************************************************************************)
(* Where runs fail and stop.                                               *)
(***************************************************************************)

Counts(values) == [v \in Range(values) |-> Cardinality({i \in DOMAIN values : values[i] = v})]

FailedGates(run) ==
    LET failed == SelectSeq(run.spans, LAMBDA span : span.gate /\ span.status = "failed")
    IN  [k \in DOMAIN failed |-> [run |-> run.id, span |-> failed[k]]]

\* Of failures of a gate, the oldest first.
GateStat(failed) ==
    [failures |-> Len(failed),
     offset |-> Median([k \in DOMAIN failed |-> failed[k].span.start]),
     last |-> Last(failed).run,
     reasons |-> Counts(FlattenSeq([k \in DOMAIN failed |-> failed[k].span.failures]))]

GateStatistics(runs) ==
    LET order == OldestFirst(runs)
        failed == FlattenSeq([k \in DOMAIN order |-> FailedGates(order[k])])
    IN  [gate \in {f.span.stage : f \in Range(failed)} |->
            GateStat(SelectSeq(failed, LAMBDA f : f.span.stage = gate))]

\* Where a run stopped: what its failure names, or the last stage it was in.
StoppedStage(run) ==
    LET top == TopLevelSpans(run)
    IN  IF run.failure # None THEN run.failure
        ELSE IF top # <<>> THEN Last(top).stage ELSE run.current

\* What a run recorded of its stop; one that went silent has nothing to tell but
\* the failures of its stages. A refusal's class counts if the run recorded the
\* refusal itself, and its message never.
RecordedStop(run) ==
    LET failed == SelectSeq(run.spans, LAMBDA span : span.status = "failed")
        lines == UNION {Range(span.failures) : span \in Range(failed)}
        fault == IF run.state = "stalled" THEN None ELSE run.fault
    IN  [errors |-> IF fault = None THEN {} ELSE fault.errors,
         class |-> IF fault # None /\ (run.state = "failed" \/ fault.block # None)
                   THEN fault.class ELSE None,
         reasons |-> IF lines # {} THEN lines
                     ELSE IF fault = None THEN {}
                     ELSE IF run.state = "failed" THEN fault.message
                     ELSE IF fault.block # None THEN fault.block ELSE {}]

Unexplained(told) == told.errors = {} /\ told.class = None /\ told.reasons = {}

\* Runs that ended one way in one stage, the oldest first.
StopStat(stopped) ==
    LET told == [k \in DOMAIN stopped |-> RecordedStop(stopped[k])]
        Told(k) == (told[k].errors \cup told[k].reasons \cup {told[k].class}) \ {None}
    IN  [runs |-> Len(stopped),
         time |-> Median([k \in DOMAIN stopped |->
                    IF stopped[k].ended # None THEN stopped[k].ended ELSE stopped[k].updated]),
         counts |-> [v \in UNION {Told(k) : k \in DOMAIN told} |->
                        Cardinality({k \in DOMAIN told : v \in Told(k)})],
         unexplained |-> Cardinality({k \in DOMAIN told : Unexplained(told[k])}),
         last |-> Last(stopped).id]

Group(run) == <<run.state, StoppedStage(run)>>

StopStatistics(runs) ==
    LET stopped == SelectSeq(OldestFirst(runs), LAMBDA run :
            run.state \in {"failed", "blocked", "stalled"})
    IN  [group \in {Group(run) : run \in Range(stopped)} |->
            StopStat(SelectSeq(stopped, LAMBDA run : Group(run) = group))]

=============================================================================
