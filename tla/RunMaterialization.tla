------------------------- MODULE RunMaterialization -------------------------
(***************************************************************************)
(* How the telemetry collector turns a run's events into the run state it  *)
(* shows (telemetry_collector/storage.py): the canonical event order, the  *)
(* rules one event applies, the reset when a later producer takes over,    *)
(* the full replay get_run performs, and the incremental application of a  *)
(* batch append_events performs on the stored columns.                     *)
(*                                                                         *)
(* An event here is the joined row _event_mapping builds:                  *)
(*   producer, registered   the producer and its registration time         *)
(*   sequence, timestamp    the producer's counter and its own clock       *)
(*   type, status, stage    as in models.py (stage may be None)            *)
(*   resources, counted     whether it carries a resource snapshot, and    *)
(*                          whether its details hold done and total        *)
(* The payloads themselves (failure message, block, work, resources) are   *)
(* abstracted to the mark of the event they were copied from.              *)
(***************************************************************************)
EXTENDS Integers, FiniteSets, FiniteSetsExt, Folds

CONSTANT None

ASSUME NoneAssumption ==
    /\ None \notin Int /\ None \notin Int \X Int
    /\ None \notin {"failed", "blocked", "completed"}

TerminalStages == {"complete", "failed", "blocked"}

Mark(e) == <<e.producer, e.sequence>>

\* _event_order. event_id never breaks a tie: (run, producer, sequence) is
\* unique in the table.
Precedes(e, f) ==
    \/ e.registered < f.registered
    \/ /\ e.registered = f.registered
       /\ \/ e.producer < f.producer
          \/ e.producer = f.producer /\ e.sequence < f.sequence

\* The last of a nonempty set of events in canonical order.
LastEvent(S) == CHOOSE e \in S : \A f \in S \ {e} : Precedes(f, e)

-----------------------------------------------------------------------------

FreshAttempt(startedAt, updatedAt) ==
    [status |-> "running", current_stage |-> "created",
     started_at |-> startedAt, updated_at |-> updatedAt,
     ended_at |-> None, heartbeat_at |-> None, resources |-> None,
     work |-> None, failure |-> None, block |-> None]

\* The terminal status an event gives its run, or None: the if/elif chain
\* that ends _apply_event, in its order.
Outcome(e) ==
    IF (e.status = "failed" /\ e.type = "run") \/ e.stage = "failed"
    THEN "failed"
    ELSE IF e.status = "blocked" /\ (e.type = "run" \/ e.stage = "blocked")
    THEN "blocked"
    ELSE IF e.status = "completed" /\ (e.type = "run" \/ e.stage = "complete")
    THEN "completed"
    ELSE None

Reopens(e) == e.type = "run" /\ e.status = "started"

\* A fault the runs must notice: reopening keeps the earlier failure.
ReopenedWithFailure(run, e) ==
    IF Reopens(e) THEN [run EXCEPT !.status = "running", !.ended_at = None] ELSE run

\* A run event with status started reopens a finished run.
Reopened(run, e) ==
    IF Reopens(e)
    THEN [run EXCEPT !.status = "running", !.ended_at = None,
                     !.failure = None, !.block = None]
    ELSE run

Concluded(run, e) ==
    LET outcome == Outcome(e)
    IN  IF outcome = None THEN run
        ELSE [run EXCEPT
                !.status = outcome,
                !.current_stage = IF outcome = "completed" THEN "complete" ELSE outcome,
                !.ended_at = e.timestamp,
                !.failure = IF outcome = "failed" THEN Mark(e) ELSE None,
                !.block = IF outcome = "blocked" THEN Mark(e) ELSE None]

NamesStage(e) == e.stage \notin TerminalStages \cup {None}

\* _apply_event
ApplyEvent(run, e) ==
    LET noted ==
            [run EXCEPT
                !.started_at = Min({@, e.timestamp}),
                !.updated_at = Max({@, e.timestamp, e.registered}),
                !.resources = IF e.resources THEN Mark(e) ELSE @,
                !.heartbeat_at = IF e.type = "heartbeat" THEN e.timestamp ELSE @,
                !.current_stage = IF NamesStage(e) THEN e.stage ELSE @,
                !.work = IF e.type = "progress" /\ e.counted THEN Mark(e) ELSE @]
    IN  Concluded(Reopened(noted, e), e)

\* Faults the runs must notice: a later attempt forgets how recent the run's
\* events are, or does not reset the run at all.
NewAttemptForgettingUpdates(run, e) ==
    FreshAttempt(e.timestamp, Max({e.timestamp, e.registered}))
NoNewAttempt(run, e) == run

\* The state a later producer's first event starts from.
NewAttempt(run, e) ==
    FreshAttempt(e.timestamp, Max({run.updated_at, e.timestamp, e.registered}))

\* The next event: the first of another producer resets the attempt.
Apply(e, folded) ==
    [active |-> e.producer,
     run |-> ApplyEvent(IF folded.active \in {None, e.producer} THEN folded.run
                        ELSE NewAttempt(folded.run, e), e)]

\* _fold_events: apply the set of events in canonical order to a run whose
\* last applied event came from the producer `active` (None: no event yet).
Folded(run, active, events) ==
    MapThenFoldSet(Apply, [active |-> active, run |-> run],
                   LAMBDA e : e, LastEvent, events)

FoldEvents(run, active, events) == Folded(run, active, events).run

\* materialize_run: the full replay.
MaterializeRun(registeredAt, events) ==
    FoldEvents(FreshAttempt(registeredAt, registeredAt), None, events)

\* MATERIALIZED_RUN_COLUMNS: everything but the block is stored.
MaterializedColumns(run) == [c \in DOMAIN run \ {"block"} |-> run[c]]

FromColumns(columns) ==
    [c \in DOMAIN columns \cup {"block"} |-> IF c = "block" THEN None ELSE columns[c]]

-----------------------------------------------------------------------------

\* The producers that had a stored event before the batch; `producers` maps
\* each registered producer to [registered, last] (StoredProducer).
ReportedProducers(producers) == {p \in DOMAIN producers : producers[p].last # None}

\* The reported producer with the greatest (registered_at, producer_id).
ActiveProducer(producers) ==
    CHOOSE p \in ReportedProducers(producers) :
        \A q \in ReportedProducers(producers) \ {p} :
            \/ producers[q].registered < producers[p].registered
            \/ producers[q].registered = producers[p].registered /\ q < p

Following(position, accepted) == {e \in accepted : Precedes(position, e)}

\* A fault the runs must notice: a late event is not replayed.
NothingReplayed(position, accepted, stored) == Following(position, accepted)

\* _PostgresStoredEvents.events_from: a producer's stored events from one on.
EventsFrom(producer, sequence, stored) ==
    {e \in stored : e.producer = producer /\ e.sequence >= sequence}

\* What is folded when no later producer takes over: the new events that
\* follow the active producer's stored ones, or, when some of its events
\* arrive late, everything it has stored from the first of those onward.
Replayed(position, accepted, stored) ==
    LET late == {e \in accepted : /\ e.producer = position.producer
                                  /\ e.sequence < position.sequence}
    IN  IF late = {} THEN Following(position, accepted)
        ELSE EventsFrom(position.producer, Min({e.sequence : e \in late}), stored)

\* apply_event_batch: the columns after a batch, from the columns before it.
\* `accepted` are the newly stored events, `stored` every stored event,
\* the batch's included.
ApplyEventBatch(registeredAt, columns, producers, accepted, stored) ==
    IF ReportedProducers(producers) = {}
    THEN MaterializedColumns(MaterializeRun(registeredAt, accepted))
    ELSE
    LET active == ActiveProducer(producers)
        position == [registered |-> producers[active].registered,
                     producer |-> active, sequence |-> producers[active].last]
        following == Following(position, accepted)
        latest == [FromColumns(columns) EXCEPT
                    !.updated_at = Max({@} \cup {e.timestamp : e \in accepted}
                                           \cup {e.registered : e \in accepted})]
        laterAttempt == \E e \in following : e.producer # active
        \* earliest_timestamp
        ownStart == Min({e.timestamp : e \in {f \in stored : f.producer = active}})
        precededNow == /\ Cardinality(ReportedProducers(producers)) = 1
                       /\ \E e \in accepted : e.producer # active
        current == IF precededNow THEN [latest EXCEPT !.started_at = ownStart] ELSE latest
    IN  MaterializedColumns(IF laterAttempt
                            THEN FoldEvents(latest, active, following)
                            ELSE FoldEvents(current, active,
                                            Replayed(position, accepted, stored)))

=============================================================================
