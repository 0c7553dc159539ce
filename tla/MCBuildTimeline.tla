--------------------------- MODULE MCBuildTimeline ---------------------------
(***************************************************************************)
(* The build monitor's timeline of one run, for TLC: three stages, so that *)
(* two of them can be missing from a run that stopped early. And forecasts *)
(* of runs that repeat a run of three stages, of one or two minutes each   *)
(* and up to a minute apart.                                               *)
(***************************************************************************)
EXTENDS BuildForecast

MCVersions == 1..3

\* The stages without a solver differ in nothing but their names.
Symmetry == Permutations(Stages \ Calibrations)

-----------------------------------------------------------------------------
\* A plan has the stages of a run, when they start and end, and when it ends.

PlanOf(order, lengths, gaps) ==
    LET from(k) == Sum(SubSeq(lengths, 1, k - 1)) + Sum(SubSeq(gaps, 2, k))
    IN  [stages |-> [k \in DOMAIN order |->
                        [stage |-> order[k], start |-> from(k), end |-> from(k) + lengths[k]]],
         end |-> from(Len(order)) + Last(lengths) + gaps[1]]

\* The solver's stage first, second or last, and at most one gap, which may be
\* after the last stage.
Plans ==
    LET others == SetToSeq(Stages \ Calibrations)
        solver == CHOOSE s \in Calibrations : TRUE
    IN  {PlanOf(InsertAt(others, k, solver), lengths, gaps) :
            k \in 1..3, lengths \in [1..3 -> 1..2],
            gaps \in {g \in [1..3 -> 0..1] : Sum(g) <= 1}}

At(status, stage, time) ==
    [status |-> status, stage |-> stage, blocking |-> FALSE, elapsed |-> None, time |-> time]

\* What a run of a plan writes: schema 1 no end of a stage.
EventsOf(version, plan) ==
    FlattenSeq([k \in DOMAIN plan.stages |->
        LET s == plan.stages[k]
        IN  IF version = 1 THEN << At("running", s.stage, s.start) >>
            ELSE << At("started", s.stage, s.start), At("completed", s.stage, s.end) >>])
    \o << At("completed", "complete", plan.end) >>

\* The epochs of a solver that makes one pass in its stage, one a minute.
EpochsOf(plan) ==
    LET solving == SelectSeq(plan.stages, LAMBDA s : s.stage \in Calibrations)[1]
    IN  [e \in 1..(solving.end - solving.start) |->
            [epoch |-> e, epochs |-> solving.end - solving.start, time |-> solving.start + e]]

UpTo(records, time) == SelectSeq(records, LAMBDA record : record.time <= time)

\* The timeline of what was written up to a minute, read so much later.
ReadAt(version, events, points, minute, later) ==
    Timeline(version, UpTo(events, minute),
             [status |-> "running", updated |-> minute,
              heartbeat |-> IF version = 1 THEN None ELSE minute],
             UpTo(points, minute), minute + later)

\* Its times in seconds. The stage under way may report its work, steadily.
Slow(span, work) ==
    [stage |-> span.stage, depth |-> span.depth, status |-> span.status,
     start |-> 60 * span.start, end |-> IF HasEnded(span) THEN 60 * span.end ELSE None,
     gate |-> span.stage \notin Calibrations, progress |-> <<>>,
     failures |-> IF span.status = "failed" THEN << "fit" >> ELSE <<>>,
     work |-> IF HasEnded(span) THEN None ELSE work]

InSeconds(id, pipeline, run, points, work) ==
    [id |-> id, pipeline |-> pipeline, started |-> id, state |-> run.state,
     updated |-> 60 * run.updated, ended |-> IF run.ended = None THEN None ELSE 60 * run.ended,
     spans |-> [i \in DOMAIN run.spans |-> Slow(run.spans[i], work)],
     points |-> [i \in DOMAIN points |-> [points[i] EXCEPT !.time = 60 * @] @@ [phase |-> "search"]],
     failure |-> run.failure, current |-> None, fault |-> None]

\* Three units of work a minute, of the stage that the other run was in then.
WorkAt(past, minute) ==
    LET s == SelectSeq(past.spans, LAMBDA t : t.start <= 60 * minute /\ 60 * minute < t.end)
    IN  IF s = <<>> THEN None
        ELSE [done |-> (60 * minute - s[1].start) \div 20, total |-> (s[1].end - s[1].start) \div 20,
              elapsed |-> 60 * minute - s[1].start, updated |-> 60 * minute]

\* A run of the plan that went on until a minute, read there or when it has
\* gone silent.
Until(version, plan, points, minute, later, id, work) ==
    InSeconds(id, "us", ReadAt(version, EventsOf(version, plan), points, minute, later),
              UpTo(points, minute), work)

-----------------------------------------------------------------------------

\* Whatever a forecast tells, the spread is not negative, and the stages that it
\* lays out follow each other, once each, and end when it ends.
IsSane(run, forecast, at) ==
    LET stages == forecast.stages
        later == SelectSeq(stages, LAMBDA s : s.status # "done")
        pending == SelectSeq(stages, LAMBDA s : s.status = "pending")
    IN  /\ forecast.p50 # None => forecast.p50 >= 0 /\ forecast.p90 >= forecast.p50
        /\ \A k \in DOMAIN later :
            /\ later[k].end >= later[k].start
            /\ k > 1 => later[k].start = later[k - 1].end
            /\ later[k].end >= at
        /\ \A k \in DOMAIN pending :
            /\ pending[k].stage \notin {span.stage : span \in Range(run.spans)}
            /\ \A n \in DOMAIN pending : pending[k].stage = pending[n].stage => k = n
        /\ forecast.method = "milestone" /\ later # <<>> =>
            \/ Last(later).end = at + forecast.p50
            \/ pending = <<>> /\ Last(later).end <= at + forecast.p50

\* A run is told to end when the others of its plan did; if its solver says so,
\* as much later as it has logged no epoch.
IsExact(forecast, plan, at, logged, slack) ==
    LET left == 60 * plan.end - at
    IN  /\ forecast.method \in {"milestone", "run_total"}
        /\ ~forecast.overrunning
        /\ forecast.p50 >= left
        /\ forecast.p50 <= left + (IF logged THEN slack ELSE 0)

\* The histories of a run: the other of its plan, with a slower one of another
\* pipeline, or with one that stopped early, which started before or after it.
Histories(past, stops) ==
    {<< [past EXCEPT !.id = 4, !.pipeline = "uk", !.ended = @ + 600], past >>}
    \cup {<< [stops[m] EXCEPT !.started = 2 * (m % 2)], past >> : m \in DOMAIN stops}

ForecastFits(run, forecast, plan, at, slack) ==
    IsSane(run, forecast, at) /\ IsExact(forecast, plan, at, run.points # <<>>, slack)

RunFits(run, histories, plan, minute) ==
    \A runs \in histories, late \in {0, 20} :
        ForecastFits(run, ForecastCompletion(run, runs, 60 * minute + late), plan,
                     60 * minute + late, late)

\* Nothing is measured, or the epochs are, or the work is.
PlanFits(version, plan, past, histories) ==
    \A minute \in 0..(plan.end - 1) :
        \A work \in {None, WorkAt(past, minute)}, points \in {<<>>, EpochsOf(plan)} :
            work = None \/ points = <<>> =>
                RunFits(Until(version, plan, points, minute, 0, 3, work), histories, plan, minute)

ForecastsAreExact(version, plan, past) ==
    PlanFits(version, plan, past, Histories(past,
        [m \in 1..(plan.end - 1) |->
            Until(version, plan, EpochsOf(plan), m, StallAfter + 1, 2, None)]))

-----------------------------------------------------------------------------

\* A run of the plan that failed at a minute, in the stage that was under way.
FailedAt(version, plan, minute, id) ==
    LET events == UpTo(EventsOf(version, plan), minute)
        open == SelectSeq(SpansFrom(version, events).spans, LAMBDA span : ~HasEnded(span))
        fail == IF version > 1 /\ open # <<>>
                THEN << At("failed", Last(open).stage, minute) >> ELSE <<>>
    IN  InSeconds(id, "us",
                  ReadAt(version, events \o fail \o << At("failed", "failed", minute) >>, <<>>,
                         minute, 0), <<>>, None)

\* Whether the stage that was entered last was still under way.
EnteredLast(plan, minute) == Last(SelectSeq(plan.stages, LAMBDA s : s.start <= minute))
UnderWay(version, plan, minute) == version = 1 \/ minute < EnteredLast(plan, minute).end

\* Of runs of a plan that failed and runs that went silent, one each a minute,
\* each counts where it stopped, and those that failed in a gate as a failure of
\* it; only what left nothing behind is unexplained. So it is in either order.
StopsAreCounted(version, plan, minutes, runs) ==
    LET entered == [m \in minutes |-> EnteredLast(plan, m).stage]
        StoppedIn(stage) == {m \in minutes : entered[m] = stage}
        broken(stage) == {m \in StoppedIn(stage) : UnderWay(version, plan, m)}
        stops == StopStatistics(runs)
        gates == GateStatistics(runs)
    IN  /\ DOMAIN stops = {"failed", "stalled"} \X Range(entered)
        /\ \A group \in DOMAIN stops :
            /\ stops[group].runs = Cardinality(StoppedIn(group[2]))
            /\ stops[group].unexplained =
                IF group[1] = "stalled" THEN stops[group].runs
                ELSE Cardinality(StoppedIn(group[2]) \ broken(group[2]))
            /\ stops[group].time \in 60 * Min(StoppedIn(group[2]))..60 * Max(StoppedIn(group[2]))
        /\ DOMAIN gates = {stage \in Range(entered) \ Calibrations : broken(stage) # {}}
        /\ \A gate \in DOMAIN gates :
            /\ gates[gate].failures = Cardinality(broken(gate))
            /\ gates[gate].reasons = [line \in {"fit"} |-> gates[gate].failures]
            /\ gates[gate].last = 2 * Max(broken(gate))
        /\ StopStatistics(Reverse(runs)) = stops /\ GateStatistics(Reverse(runs)) = gates

Stopped(version, plan) ==
    [n \in 1..(2 * plan.end - 2) |->
        IF n % 2 = 0 THEN FailedAt(version, plan, n \div 2, n)
        ELSE Until(version, plan, <<>>, (n + 1) \div 2, StallAfter + 1, n, None)]

\* A run that goes as a past run of its pipeline went is told to end when that
\* one did, whenever it is looked at: also between two stages, from its total
\* before the first end of a stage, beside runs of other pipelines and runs
\* that stopped early, and whether it measures nothing, epochs or work. The
\* stages ahead follow each other up to that end, and none that the run has
\* seen comes again (forecastCompletion, paceFactor, solverForecast). Every run
\* that failed or went silent is counted once, in the stage it was in, with the
\* gates that failed and what was told of it (gateStatistics, stopStatistics).
ForecastsFitTheHistory ==
    written = <<>> /\ now = 0 /\ build.version # 2 =>
        \A plan \in Plans :
            /\ ForecastsAreExact(build.version, plan,
                    Until(build.version, plan, EpochsOf(plan), plan.end, 0, 1, None))
            /\ StopsAreCounted(build.version, plan, 1..(plan.end - 1),
                    Stopped(build.version, plan))

=============================================================================
