--------------------------- MODULE BuildTimeline ----------------------------
(***************************************************************************)
(* The build monitor's timeline of a run (lib/microcosm/build-monitor.ts): *)
(* stage spans rebuilt from the events a build recorded, the state it      *)
(* shows, and the comparison of two runs' stage sequences. The build is a  *)
(* writer that enters and leaves stages and may stop without a word; the   *)
(* page reads its event file and its progress document, which are two      *)
(* files, at different times.                                              *)
(*                                                                         *)
(* An event has a status, a stage, the time it was written, whether it     *)
(* reports blocking gate failures, and how long ago the stage began when   *)
(* it reports that (elapsed). Messages and resources are left out, and a   *)
(* progress event, which only adds a sample, with them.                    *)
(***************************************************************************)
EXTENDS Integers, FiniteSets, FiniteSetsExt, Sequences, SequencesExt

CONSTANTS
    Stages,
    Calibrations,           \* the stages the solver runs in
    None,
    Versions,               \* the telemetry schemas a run may use, of 1, 2, 3
    StallAfter,             \* STALL_MS
    HeartbeatStaleAfter,    \* HEARTBEAT_STALE_MS
    SolverGap,              \* SOLVER_GAP_MS
    PassEpochs,             \* epochs of a solver pass
    MaxDepth,               \* bound: stages open at once
    MaxEpochs,              \* bound: epochs logged
    MaxReports,             \* bound: events and epochs together
    MaxEvents,              \* bound: events of a run
    MaxTime                 \* bound: the clock

Markers == {"created", "complete", "failed", "blocked"}

ASSUME StagesAssumption == Stages \cap Markers = {}

\* What the timeline reads of an event.
EventType ==
    [status : {"started", "running", "completed", "failed"}, stage : Stages \cup Markers,
     blocking : BOOLEAN, elapsed : Int \cup {None}, time : Nat]

ASSUME NoneAssumption ==
    /\ None \notin Nat /\ None \notin Stages /\ None \notin {"passed", "failed", "blocked"}
    /\ None \notin EventType
ASSUME VersionsAssumption == Versions \subseteq 1..3
ASSUME PassEpochsAssumption == PassEpochs \in Nat
ASSUME StallAssumption == HeartbeatStaleAfter \in Nat /\ StallAfter \in Nat

-----------------------------------------------------------------------------
\* The spans of a run.

\* newSpan
NewSpan(e, depth, start) ==
    [stage |-> e.stage, depth |-> depth, start |-> start, end |-> None,
     status |-> "running", refused |-> FALSE]

NoSpans == [spans |-> <<>>, open |-> <<>>, terminal |-> None]

\* A span closed by event e: it failed, or it completed, unless its gates
\* refused the candidate.
ClosedBy(span, e) ==
    [span EXCEPT !.end = e.time,
                 !.status = IF e.status = "failed" \/ e.blocking THEN "failed" ELSE "completed",
                 !.refused = e.blocking]

\* A fault the runs must notice: an event closes the innermost open stage,
\* whatever its name.
InnermostSpan(s, stage) == IF s.open = <<>> THEN 0 ELSE Len(s.open)

\* The position in `open` of the innermost open span of a stage, or 0.
OpenSpan(s, stage) ==
    LET positions == {i \in DOMAIN s.open : s.spans[s.open[i]].stage = stage}
    IN  IF positions = {} THEN 0 ELSE Max(positions)

\* One event of schema 2 or 3, where stages start and end and may nest. A
\* stage that ends without a start began `elapsed` ago, or at that moment.
Lifecycle(s, e) ==
    IF e.stage \in Markers
    THEN IF e.stage = "created" THEN s ELSE [s EXCEPT !.terminal = e]
    ELSE IF e.status = "started"
    THEN [s EXCEPT !.spans = Append(@, NewSpan(e, Len(s.open), e.time)),
                   !.open = Append(@, Len(s.spans) + 1)]
    ELSE LET at == OpenSpan(s, e.stage)
             began == IF e.elapsed = None THEN e.time ELSE Max({0, e.time - e.elapsed})
         IN  IF at > 0
             THEN [s EXCEPT !.spans[s.open[at]] = ClosedBy(@, e), !.open = RemoveAt(@, at)]
             ELSE [s EXCEPT !.spans = Append(@, ClosedBy(NewSpan(e, Len(s.open), began), e))]

\* One event of schema 1: a transition into its stage ends the stage before.
\* A stage that failed stays failed.
Left(span, time) ==
    [span EXCEPT !.end = time, !.status = IF @ = "running" THEN "completed" ELSE @]
MarkFailed(span, e) ==
    IF e.status = "failed" THEN [span EXCEPT !.status = "failed"] ELSE span

Transition(s, e) ==
    LET current == Len(s.spans)
        entered == s.open # <<>>
        leave == IF entered THEN [s.spans EXCEPT ![current] = Left(@, e.time)] ELSE s.spans
    IN  IF e.stage = "created" THEN s
        ELSE IF e.stage \in {"complete", "failed"}
        THEN [spans |-> IF entered /\ e.stage = "failed"
                        THEN [leave EXCEPT ![current].status = "failed"] ELSE leave,
              open |-> <<>>, terminal |-> e]
        ELSE IF entered /\ s.spans[current].stage = e.stage
        THEN [s EXCEPT !.spans[current] = MarkFailed(@, e)]
        ELSE [s EXCEPT !.spans = Append(leave, MarkFailed(NewSpan(e, 0, e.time), e)),
                       !.open = <<current + 1>>]

\* spansFromTransitions, spansFromLifecycle
Advance(version, s, e) == IF version = 1 THEN Transition(s, e) ELSE Lifecycle(s, e)

SpansFrom(version, events) == FoldLeft(LAMBDA s, e : Advance(version, s, e), NoSpans, events)

-----------------------------------------------------------------------------
\* The timeline.

FinalStates == {"passed", "blocked", "failed"}

\* runState
RunState(status, updated, now, stallAfter) ==
    IF status \in {"passed", "completed", "published"} THEN "passed"
    ELSE IF status \in {"failed", "blocked"} THEN status
    ELSE IF updated # None /\ now - updated > stallAfter THEN "stalled"
    ELSE "running"

Outcomes == [complete |-> "passed", failed |-> "failed", blocked |-> "blocked"]

\* Version 2 closed a run its gates refused as completed.
RefusedState(version, state, spans) ==
    IF version = 2 /\ state = "passed" /\ \E i \in DOMAIN spans : spans[i].refused
    THEN "blocked" ELSE state

\* A fault the runs must notice: a failed run's outermost open stage is blamed.
Outermost(spans, open) == Min(open)

Innermost(spans, open) ==
    CHOOSE i \in open : \A j \in open : \/ spans[j].depth < spans[i].depth
                                        \/ spans[j].depth = spans[i].depth /\ j <= i

\* What is open ends with the run, or at a stalled run's last sign of life; a
\* run that failed did so in its innermost open stage.
Closed(spans, state, at) ==
    LET open == {i \in DOMAIN spans : spans[i].end = None}
        Status(i) == IF state = "failed" /\ i = Innermost(spans, open) THEN "failed"
                     ELSE IF spans[i].status = "running" THEN "completed" ELSE spans[i].status
    IN  IF at = None THEN spans
        ELSE [i \in DOMAIN spans |->
                IF i \notin open THEN spans[i]
                ELSE [spans[i] EXCEPT !.end = Max({at, spans[i].start}), !.status = Status(i)]]

\* failure.stage: the gate that refused, or the last stage that failed.
FailureStage(spans, state) ==
    LET faulty == {i \in DOMAIN spans : IF state = "blocked" THEN spans[i].refused
                                        ELSE spans[i].status = "failed"}
    IN  IF state \notin {"failed", "blocked"} \/ faulty = {} THEN None
        ELSE spans[IF state = "blocked" THEN Min(faulty) ELSE Max(faulty)].stage

\* buildTimeline, of the events and the progress document read. The run
\* started at time 0.
Timeline(version, events, progress, points, now) ==
    LET read == SpansFrom(version, events)
        updated == Max({progress.updated} \cup {events[i].time : i \in DOMAIN events}
                       \cup {points[i].time : i \in DOMAIN points}
                       \cup ({progress.heartbeat} \ {None}))
        recorded == RunState(progress.status, updated, now,
                             IF progress.heartbeat # None THEN HeartbeatStaleAfter ELSE StallAfter)
        told == IF recorded = "running" /\ read.terminal # None
                THEN Outcomes[read.terminal.stage] ELSE recorded
        state == RefusedState(version, told, read.spans)
        ended == IF state \notin FinalStates THEN None
                 ELSE IF read.terminal # None THEN read.terminal.time ELSE updated
        spans == Closed(read.spans, state, IF state = "stalled" THEN updated ELSE ended)
    IN  [state |-> state, updated |-> updated, ended |-> ended, spans |-> spans,
         failure |-> FailureStage(spans, state)]

-----------------------------------------------------------------------------
\* Readings of a timeline.

\* The elements of a sequence that are in a set, in their order. (SelectSeq as
\* a fold, and with a set for the test, for the proofs.)
Within(seq, kept) ==
    FoldLeft(LAMBDA found, x : IF x \in kept THEN Append(found, x) ELSE found, <<>>, seq)

\* topLevelSpans, spanDurationMs, runDurationMs, and the sum of phaseTotals
TopLevelSpans(run) == Within(run.spans, {span \in Range(run.spans) : span.depth = 0})
SpanDuration(span, now) == Max({0, (IF span.end = None THEN now ELSE span.end) - span.start})
RunDuration(run, now) ==
    IF run.ended # None THEN run.ended ELSE IF run.state = "stalled" THEN run.updated ELSE now
PhaseTotal(run, now) ==
    FoldLeft(LAMBDA sum, span : sum + SpanDuration(span, now), 0, TopLevelSpans(run))

\* A stage's place in a run: the first of its top-level spans.
Order(run) ==
    LET top == TopLevelSpans(run)
        First(i) == \A j \in 1..(i - 1) : top[j].stage # top[i].stage
        firsts == Within([i \in DOMAIN top |-> i], {i \in DOMAIN top : First(i)})
    IN  [k \in DOMAIN firsts |-> top[firsts[k]].stage]

Alike(a, b) ==
    LET differing == Cardinality((a \ b) \cup (b \ a))
    IN  differing <= 1 \/ 5 * differing <= Cardinality(a \cup b)

\* A fault the runs must notice: whole runs are compared, not the stretch
\* both cover.
SameStages(run, other) == Alike(Range(Order(run)), Range(Order(other)))

\* sameStageSequence
SameStageSequence(run, other) ==
    LET ours == Order(run)
        theirs == Order(other)
        shared == {i \in DOMAIN ours : ours[i] \in Range(theirs)}
        stretch == Range(SubSeq(ours, 1, Max(shared)))
        theirCut == Max({j \in DOMAIN theirs : theirs[j] \in stretch})
    IN  \/ ours = <<>> \/ theirs = <<>>
        \/ shared # {} /\ Alike(stretch, Range(SubSeq(theirs, 1, theirCut)))

-----------------------------------------------------------------------------
\* Solver passes: the stretches of a calibration between two restarts of its
\* epoch count.

\* calibrationPoints: the points with the number of the pass each is in
Restarts(points, i) ==
    i > 1 /\ (points[i].epoch < points[i - 1].epoch \/ points[i].epochs # points[i - 1].epochs)
PassOf(points, i) == Cardinality({j \in 1..i : Restarts(points, j)})

\* A pass starts where its epoch rate puts epoch 0, never inside the pass
\* before.
PassStart(start, previousEnd) == IF previousEnd = None THEN start ELSE Max({start, previousEnd})

\* solverPasses: the p-th pass, after one that ended at previousEnd
SolverPass(points, p, previousEnd) ==
    LET bounds == {i \in DOMAIN points : PassOf(points, i) = p}
        first == points[Min(bounds)]
        last == points[Max(bounds)]
        epochs == last.epoch - first.epoch
        rated == first.epoch > 0 /\ epochs > 0 /\ last.time > first.time
        start == IF rated
                 THEN first.time - (first.epoch * (last.time - first.time)) \div epochs
                 ELSE first.time
    IN  [start |-> PassStart(start, previousEnd), end |-> last.time,
         known |-> rated \/ first.epoch = 0, complete |-> last.epoch >= last.epochs]

\* solverPasses
SolverPasses(points) ==
    LET Extend(passes, p) ==
            Append(passes, SolverPass(points, p,
                              IF passes = <<>> THEN None ELSE passes[Len(passes)].end))
    IN  IF points = <<>> THEN <<>>
        ELSE FoldLeft(Extend, <<>>, [p \in 1..(PassOf(points, Len(points)) + 1) |-> p - 1])

\* solverSegments: a pass, and the gap of at least `gap` before it; a pass
\* still going has no end.
AddSegments(s, pass, going, gap) ==
    LET start == IF pass.known THEN Max({pass.start, s.cursor}) ELSE s.cursor
        between == IF start - s.cursor >= gap
                   THEN << [kind |-> "between", start |-> s.cursor, end |-> start] >>
                   ELSE <<>>
    IN  [segments |-> s.segments \o between \o
             << [kind |-> "pass", start |-> IF between = <<>> THEN s.cursor ELSE start,
                 end |-> IF going THEN None ELSE pass.end] >>,
         cursor |-> pass.end]

\* solverSegments: the passes inside a stage, the last of which may go on
PassSegments(inside, open, start, gap) ==
    FoldLeftDomain(LAMBDA s, k : AddSegments(s, inside[k],
                                     k = Len(inside) /\ open /\ ~inside[k].complete, gap),
                   [segments |-> <<>>, cursor |-> start], inside)

\* solverSegments: a stage's passes and the gaps between and after them
SolverSegments(span, passes, state, gap, now) ==
    LET inside == Within(passes, {pass \in Range(passes) :
                                     /\ pass.end >= span.start
                                     /\ span.end = None \/ pass.end <= span.end})
        open == span.end = None /\ state = "running"
        all == PassSegments(inside, open, span.start, gap)
        tail == IF span.end # None THEN span.end
                ELSE IF open /\ inside[Len(inside)].complete THEN now ELSE None
    IN  IF inside = <<>> THEN <<>>
        ELSE all.segments \o
             (IF tail # None /\ tail - all.cursor >= gap
              THEN << [kind |-> "after", start |-> all.cursor, end |-> span.end] >> ELSE <<>>)

-----------------------------------------------------------------------------
\* The build, and the page that reads its files.

VARIABLES
    now,
    build,      \* [version, stack, failedIn, refused, outcome, idleSince]
    written,    \* the event file
    epochs,     \* the calibration file
    progress,   \* the progress document
    read        \* what the page has: [events, epochs, progress]

vars == <<now, build, written, epochs, progress, read>>

StatusOf(b) ==
    IF b.outcome = None THEN "running"
    ELSE IF b.version = 2 /\ b.outcome = "blocked" THEN "completed" ELSE b.outcome
Document(b) ==
    [status |-> StatusOf(b), updated |-> now, heartbeat |-> IF b.version = 1 THEN None ELSE now]

Init ==
    /\ now = 0
    /\ \E v \in Versions :
          build = [version |-> v, stack |-> <<>>, failedIn |-> None,
                   refused |-> FALSE, outcome |-> None, idleSince |-> 0]
    /\ written = <<>>
    /\ epochs = <<>>
    /\ progress = Document(build)
    /\ read = [events |-> <<>>, epochs |-> <<>>, progress |-> progress]

Event(status, stage, blocking, elapsed) ==
    [status |-> status, stage |-> stage, blocking |-> blocking, elapsed |-> elapsed, time |-> now]

\* The build appends to its event file until it ends; a build that was
\* killed takes no more steps.
Report(event) ==
    /\ build.outcome = None
    /\ Len(written) < MaxEvents /\ Len(written) + Len(epochs) < MaxReports
    /\ written' = Append(written, event)
    /\ UNCHANGED <<now, epochs, progress, read>>

\* Schemas 2 and 3: a stage starts, inside the open ones.
Start(s) ==
    /\ build.version > 1 /\ build.failedIn = None /\ Len(build.stack) < MaxDepth
    /\ build' = [build EXCEPT !.stack = Append(@, s)]
    /\ Report(Event("started", s, FALSE, None))

\* The innermost stage ends: completed, refusing the candidate, or failed, and
\* then the stages around it fail too.
Finish(status, blocking) ==
    LET stage == Last(build.stack)
        rest == Front(build.stack)
    IN  /\ build.version > 1 /\ build.stack # <<>>
        /\ build.failedIn # None => status = "failed"
        /\ blocking => status = "completed" /\ ~build.refused
        /\ build' = [build EXCEPT !.stack = rest,
                        !.idleSince = IF rest = <<>> THEN now ELSE @,
                        !.refused = @ \/ blocking,
                        !.failedIn = IF status = "failed" /\ @ = None THEN stage ELSE @]
        /\ Report(Event(status, stage, blocking, None))

\* The graph observer reports only the end of a stage and how long it took.
Observe(s) ==
    /\ build.version > 1 /\ build.failedIn = None
    /\ s \notin Range(build.stack)
    /\ build' = [build EXCEPT !.idleSince = IF build.stack = <<>> THEN now ELSE @]
    /\ Report(Event("completed", s, FALSE, now - build.idleSince))

\* Schema 1: a transition into a stage, or a failure reported in it.
Enter(s) ==
    /\ build.version = 1 /\ build.failedIn = None
    /\ build' = [build EXCEPT !.stack = <<s>>]
    /\ Report(Event("running", s, FALSE, None))

FailInStage ==
    /\ build.version = 1 /\ build.failedIn = None /\ build.stack # <<>>
    /\ build' = [build EXCEPT !.failedIn = build.stack[1]]
    /\ Report(Event("failed", build.stack[1], FALSE, None))

\* The run ends with a marker. Version 2 has none for a refusal.
End(marker) ==
    /\ marker = "blocked" => build.version = 3 /\ build.refused
    /\ marker = "complete" => /\ build.version = 1 \/ build.stack = <<>>
                              /\ build.version = 3 => ~build.refused
    /\ marker # "failed" => build.failedIn = None
    /\ build.version = 2 /\ build.refused => marker = "complete"
    /\ build' = [build EXCEPT
          !.outcome = IF build.refused /\ marker = "complete" THEN "blocked" ELSE Outcomes[marker],
          !.failedIn = IF marker = "failed" /\ @ = None /\ build.stack # <<>>
                       THEN Last(build.stack) ELSE @]
    /\ Report(Event(IF marker = "failed" THEN "failed" ELSE "completed", marker, FALSE, None))

\* The solver logs an epoch: a later one of its pass, or one of the next.
LogEpoch(epoch) ==
    /\ build.outcome = None
    /\ build.stack # <<>> /\ Last(build.stack) \in Calibrations
    /\ Len(epochs) < MaxEpochs /\ Len(written) + Len(epochs) < MaxReports
    /\ epochs' = Append(epochs, [epoch |-> epoch, epochs |-> PassEpochs, time |-> now])
    /\ UNCHANGED <<now, build, written, progress, read>>

\* The progress document is written: with the run's status, as of now, and
\* with a heartbeat from the schemas that have one.
Save ==
    /\ progress' = Document(build)
    /\ progress' # progress
    /\ UNCHANGED <<now, build, written, epochs, read>>

\* The page reads the run's event and calibration files, or its progress
\* document.
ReadEvents ==
    /\ <<read.events, read.epochs>> # <<written, epochs>>
    /\ read' = [read EXCEPT !.events = written, !.epochs = epochs]
    /\ UNCHANGED <<now, build, written, epochs, progress>>
ReadProgress ==
    /\ read.progress # progress
    /\ read' = [read EXCEPT !.progress = progress]
    /\ UNCHANGED <<now, build, written, epochs, progress>>

Tick ==
    /\ now < MaxTime
    /\ now' = now + 1
    /\ UNCHANGED <<build, written, epochs, progress, read>>

Next ==
    \/ \E s \in Stages : Start(s) \/ Observe(s) \/ Enter(s)
    \/ \E status \in {"completed", "failed"}, blocking \in BOOLEAN : Finish(status, blocking)
    \/ FailInStage
    \/ \E marker \in {"complete", "failed", "blocked"} : End(marker)
    \/ \E epoch \in 1..PassEpochs : LogEpoch(epoch)
    \/ Save
    \/ ReadEvents \/ ReadProgress
    \/ Tick

Spec == Init /\ [][Next]_vars

Shown == Timeline(build.version, read.events, read.progress, read.epochs, now)

UpToDate == read = [events |-> written, epochs |-> epochs, progress |-> progress]

-----------------------------------------------------------------------------
\* Properties.

OpenSpans(spans) == Within(spans, {span \in Range(spans) : span.end = None})

\* Segments follow one another, and only the last goes on.
Tiles(segments, start) ==
    /\ segments # <<>> => segments[1].start = start
    /\ \A k \in DOMAIN segments :
          /\ k > 1 => segments[k].start = segments[k - 1].end
          /\ segments[k].end = None => k = Len(segments)
          /\ segments[k].end # None => segments[k].end >= segments[k].start

SpanFits(span, state, passes) ==
    /\ span.start >= 0
    /\ state # "running" => span.end # None
    /\ span.end # None => span.end >= span.start
    /\ span.depth = 0 => Tiles(SolverSegments(span, passes, state, SolverGap, now), span.start)

FitsTheBuild(run, open, passes) ==
    /\ UpToDate /\ run.state = "running" =>
        /\ [i \in DOMAIN open |-> open[i].stage] = build.stack
        /\ \A i \in DOMAIN open : open[i].depth = i - 1
    /\ PhaseTotal(run, now) <= RunDuration(run, now)
    /\ \A k \in DOMAIN passes :
        /\ passes[k].start <= passes[k].end
        /\ k > 1 => passes[k].start >= passes[k - 1].end
    /\ \A i \in DOMAIN run.spans : SpanFits(run.spans[i], run.state, passes)

\* The timeline fits the build. The open spans are the stages that the build
\* has open, in their order and at their depth, whatever stages repeat, restart
\* or are closed by name (spansFromTransitions, spansFromLifecycle). The time
\* the page divides among the stages is time the run took, also when the run is
\* stalled or was read at different times from its two files; no stage ends
\* before it began (buildTimeline, phaseTotals). No two solver passes overlap,
\* although the start of each is projected from its epoch rate, and the
\* segments of a stage follow one another without a gap from its start, with
\* only the last going on (solverPasses, solverSegments).
TimelineFitsTheBuild ==
    FitsTheBuild(Shown, OpenSpans(Shown.spans), SolverPasses(read.epochs))

\* A run shown as ended did end so. Only a refusal by version 2, which records
\* it as completed, can be read as passed, before its events are read
\* (runState, and the state rules of buildTimeline). And a failed run names the
\* stage it failed in, whether the build closed its stages on the way out or
\* left them open; only when its gates had refused the candidate before may it
\* name the gate instead (failure.stage).
EndsAreTrue ==
    LET run == Shown
    IN  /\ run.state \in FinalStates =>
            \/ run.state = build.outcome
            \/ /\ build.version = 2 /\ build.outcome = "blocked"
               /\ run.state = "passed" /\ read.events # written
        /\ UpToDate /\ run.state = "failed" /\ ~build.refused =>
                run.failure = build.failedIn

\* A run stays comparable with itself as it was read before, so that one that
\* stopped early is comparable with one that went further along the same stages,
\* in both directions (sameStageSequence).
StoppedRunsStayComparable ==
    LET Run(events) == [spans |-> SpansFrom(build.version, events).spans]
        before == Run(read.events)
        after == Run(written)
    IN  SameStageSequence(before, after) /\ SameStageSequence(after, before)

=============================================================================
