------------------------------ MODULE RunLedger ------------------------------
(***************************************************************************)
(* What the telemetry collector promises about one run, without saying how *)
(* a batch is applied: a growing set of events, and a view of the run that *)
(* is a function of that set alone, whatever the order, the batching and   *)
(* the repetition in which the events arrived.                             *)
(*                                                                         *)
(* The view follows the docstring of apply_event_batch                     *)
(* (telemetry_collector/storage.py): updated_at is a maximum over every    *)
(* event, started_at a minimum over the final producer's events, and every *)
(* other column is set by the latest event that writes it. It is defined   *)
(* without folding over the events.                                        *)
(***************************************************************************)
EXTENDS RunMaterialization

VARIABLES
    registeredAt,   \* the run's registered_at, or None before registration
    producers,      \* registered producer -> registered_at
    events,         \* the events recorded so far, joined with their producer
    view            \* the materialized columns shown for the run

vars == <<registeredAt, producers, events, view>>

\* The events of the execution attempt that counts: those of the reporting
\* producer that comes last in (registered_at, producer_id) order.
FinalAttempt(S) == IF S = {} THEN {} ELSE {e \in S : e.producer = LastEvent(S).producer}

\* The events of it that start the run again or end it, that name a stage,
\* and that carry a heartbeat, resources or progress.
Concluding(attempt) == {e \in attempt : Reopens(e) \/ Outcome(e) # None}
Staging(attempt) == {e \in attempt : NamesStage(e) \/ Outcome(e) # None}
Beating(attempt) == {e \in attempt : e.type = "heartbeat"}
Sampling(attempt) == {e \in attempt : e.resources}
Progressing(attempt) == {e \in attempt : e.type = "progress" /\ e.counted}

\* The value the latest writer of a column gives it, or the default.
LatestOf(writers, value(_), default) ==
    IF writers = {} THEN default ELSE value(LastEvent(writers))

StatusOf(e) == IF Outcome(e) = None THEN "running" ELSE Outcome(e)
StageOf(e) ==
    IF Outcome(e) = None THEN e.stage
    ELSE IF Outcome(e) = "completed" THEN "complete"
    ELSE Outcome(e)
EndOf(e) == IF Outcome(e) = None THEN None ELSE e.timestamp
FailureOf(e) == IF Outcome(e) = "failed" THEN Mark(e) ELSE None
TimeOf(e) == e.timestamp

StartOf(at, attempt, S) ==
    Min({e.timestamp : e \in attempt} \cup (IF attempt = S THEN {at} ELSE {}))

View(at, S) ==
    LET attempt == FinalAttempt(S)
    IN  [status |-> LatestOf(Concluding(attempt), StatusOf, "running"),
         current_stage |-> LatestOf(Staging(attempt), StageOf, "created"),
         started_at |-> StartOf(at, attempt, S),
         updated_at |-> Max({at} \cup {e.timestamp : e \in S} \cup {e.registered : e \in S}),
         ended_at |-> LatestOf(Concluding(attempt), EndOf, None),
         heartbeat_at |-> LatestOf(Beating(attempt), TimeOf, None),
         resources |-> LatestOf(Sampling(attempt), Mark, None),
         work |-> LatestOf(Progressing(attempt), Mark, None),
         failure |-> LatestOf(Concluding(attempt), FailureOf, None)]

Init ==
    /\ registeredAt = None
    /\ producers = <<>>
    /\ events = {}
    /\ view = None

RegisterRun ==
    /\ registeredAt = None
    /\ registeredAt' # None
    /\ view' = View(registeredAt', {})
    /\ Cardinality(DOMAIN producers') = 1
    /\ UNCHANGED events

RegisterProducer ==
    /\ registeredAt # None
    /\ Cardinality(DOMAIN producers' \ DOMAIN producers) = 1
    /\ \A p \in DOMAIN producers : p \in DOMAIN producers' /\ producers'[p] = producers[p]
    /\ UNCHANGED <<registeredAt, events, view>>

\* New events of registered producers are recorded; none is ever replaced.
Record ==
    /\ registeredAt # None
    /\ events \subseteq events'
    /\ events' # events
    /\ \A e \in events' \ events :
        /\ e.producer \in DOMAIN producers
        /\ e.registered = producers[e.producer]
        /\ \A f \in events' \ {e} : Mark(f) # Mark(e)
    /\ view' = View(registeredAt, events')
    /\ UNCHANGED <<registeredAt, producers>>

Next == RegisterRun \/ RegisterProducer \/ Record

Spec == Init /\ [][Next]_vars
=============================================================================
