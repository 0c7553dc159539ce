------------------------- MODULE TelemetryCollector -------------------------
(***************************************************************************)
(* The telemetry collector's store for one run (PostgresTelemetryStore in  *)
(* telemetry_collector/storage.py, behind the endpoints of app.py):        *)
(* concurrent requests register producers and append event batches, each   *)
(* in a transaction that takes the run's row lock.                         *)
(*                                                                         *)
(* Batches come from clients that retry, repeat, reorder and restart: a    *)
(* request may carry any events at any time. An input that is not used     *)
(* before a step is chosen at that step, which is equivalent to choosing   *)
(* it when the request arrives. A transaction writes nothing until it      *)
(* commits, so a crash, a lost connection and a refusal (403, 404, 409)    *)
(* are one action, Rollback.                                               *)
(***************************************************************************)
EXTENDS RunMaterialization

CONSTANTS
    Workers,        \* concurrently handled requests
    Principals,     \* Hugging Face users with a collector session
    Metadata,       \* registration metadata: country, pipeline, candidate, ...
    Producers,      \* producer ids, ordered as their text is
    Times,          \* server clock readings (bounded)
    Batches         \* the sets of events (models.py TelemetryEvent) that
                    \* clients may send in one request (EventBatch: at most 200)

ASSUME WorkersAssumption == None \notin Workers
ASSUME ProducersAssumption == Producers \subseteq Int
ASSUME TimesAssumption == Times \subseteq Int
ASSUME RunsAssumption ==
    None \notin [owner : Principals, metadata : Metadata, registered_at : Times]
ASSUME BatchesAssumption ==
    \A batch \in Batches :
        /\ IsFiniteSet(batch)
        /\ \A e \in batch : /\ {"producer", "sequence", "timestamp"} \subseteq DOMAIN e
                           /\ e.producer \in Producers
                           /\ e.sequence \in Nat \ {0}
                           /\ e.timestamp \in Int

VARIABLES
    run,        \* the telemetry_runs row's registration columns, or None
    producers,  \* telemetry_producers: registered producer -> registered_at
    events,     \* telemetry_events
    columns,    \* the materialized columns of the run's row, or None
    lock,       \* the worker holding the row lock, or None
    pc,         \* worker -> where its append_events transaction is
    snapshot    \* worker -> what _stored_producers returned to it

vars == <<run, producers, events, columns, lock, pc, snapshot>>

-----------------------------------------------------------------------------

\* _event_mapping: a stored event joined with its producer's registration.
JoinedEvent(e) ==
    [f \in DOMAIN e \cup {"registered"} |->
        IF f = "registered" THEN producers[e.producer] ELSE e[f]]

Joined(S) == {JoinedEvent(e) : e \in S}

\* max(sequence) of a producer's stored events, or None.
LastSequence(p) ==
    LET own == {e.sequence : e \in {f \in events : f.producer = p}}
    IN  IF own = {} THEN None ELSE Max(own)

\* _stored_producers
StoredProducers ==
    [p \in DOMAIN producers |-> [registered |-> producers[p], last |-> LastSequence(p)]]

\* The table's keys: event_id is the primary key, and a producer's sequence
\* number is unique within the run.
SameKey(e, f) == e.id = f.id \/ (e.producer = f.producer /\ e.sequence = f.sequence)

\* ON CONFLICT DO NOTHING: what may be inserted of a batch. Rows conflicting
\* with a stored row or an earlier row of the batch are dropped; which of two
\* conflicting rows comes first is the client's order.
Insertable(batch) ==
    {S \in SUBSET batch :
        /\ \A e \in S : \A f \in events \cup (S \ {e}) : ~SameKey(e, f)
        /\ \A e \in batch \ S : \E f \in events \cup S : SameKey(e, f)}

-----------------------------------------------------------------------------

Init ==
    /\ run = None
    /\ producers = <<>>
    /\ events = {}
    /\ columns = None
    /\ lock = None
    /\ pc = [w \in Workers |-> "idle"]
    /\ snapshot = [w \in Workers |-> <<>>]

\* register_run. `stamp` was read before the transaction began, so producers
\* may be inserted in another order than their registration times. Repeating
\* a registration changes nothing and is a stuttering step.
RegisterRun(who, metadata, p, stamp) ==
    /\ lock = None
    /\ \/ /\ run = None
          /\ run' = [owner |-> who, metadata |-> metadata, registered_at |-> stamp]
          /\ columns' = MaterializedColumns(FreshAttempt(stamp, stamp))
       \/ /\ run # None
          /\ run.owner = who /\ run.metadata = metadata
          /\ p \notin DOMAIN producers
          /\ UNCHANGED <<run, columns>>
    /\ producers' = [q \in DOMAIN producers \cup {p} |->
                        IF q = p THEN stamp ELSE producers[q]]
    /\ UNCHANGED <<events, lock, pc, snapshot>>

\* A fault the runs must notice: the row is read without FOR UPDATE.
ReadRunUnlocked(w) ==
    /\ pc[w] = "idle"
    /\ run # None
    /\ lock' = w
    /\ pc' = [pc EXCEPT ![w] = "locked"]
    /\ UNCHANGED <<run, producers, events, columns, snapshot>>

\* append_events, to the end of its SELECT ... FOR UPDATE.
LockRun(w) ==
    /\ pc[w] = "idle"
    /\ run # None
    /\ lock = None
    /\ lock' = w
    /\ pc' = [pc EXCEPT ![w] = "locked"]
    /\ UNCHANGED <<run, producers, events, columns, snapshot>>

ReadProducers(w) ==
    /\ pc[w] = "locked"
    /\ snapshot' = [snapshot EXCEPT ![w] = StoredProducers]
    /\ pc' = [pc EXCEPT ![w] = "read"]
    /\ UNCHANGED <<run, producers, events, columns, lock>>

\* The rest of append_events: the producer check, the insert, the
\* incremental materialization and the commit.
AppendEvents(w, who, batch) ==
    /\ pc[w] = "read"
    /\ run.owner = who
    /\ \A e \in batch : e.producer \in DOMAIN snapshot[w]
    /\ \E inserted \in Insertable(batch) :
        /\ events' = events \cup inserted
        /\ columns' =
            IF inserted = {} THEN columns
            ELSE ApplyEventBatch(run.registered_at, columns, snapshot[w],
                                 Joined(inserted), Joined(events \cup inserted))
    /\ lock' = None
    /\ pc' = [pc EXCEPT ![w] = "idle"]
    /\ snapshot' = [snapshot EXCEPT ![w] = <<>>]
    /\ UNCHANGED <<run, producers>>

\* Any exception, and any loss of the worker or its connection: PostgreSQL
\* discards the transaction and releases its row lock.
Rollback(w) ==
    /\ pc[w] # "idle"
    /\ lock' = None
    /\ pc' = [pc EXCEPT ![w] = "idle"]
    /\ snapshot' = [snapshot EXCEPT ![w] = <<>>]
    /\ UNCHANGED <<run, producers, events, columns>>

Next ==
    \/ \E who \in Principals, metadata \in Metadata, p \in Producers, stamp \in Times :
        RegisterRun(who, metadata, p, stamp)
    \/ \E w \in Workers :
        \/ LockRun(w)
        \/ ReadProducers(w)
        \/ \E who \in Principals, batch \in Batches : AppendEvents(w, who, batch)
        \/ Rollback(w)

Spec == Init /\ [][Next]_vars

-----------------------------------------------------------------------------

\* The row lock is held by the one transaction under way, and what that
\* transaction read of the producers is what the tables hold when it folds:
\* the caller's obligation in apply_event_batch's docstring and the comment
\* above _stored_producers' call (lines 689-695).
SnapshotIsCurrent ==
    /\ \A w \in Workers : pc[w] # "idle" => lock = w
    /\ \A w \in Workers : pc[w] = "read" => snapshot[w] = StoredProducers

\* list_runs and get_run agree: the stored columns, which list_runs returns,
\* are what a full replay of the stored events gives, which get_run returns.
StoredColumnsMatchReplay ==
    run # None =>
        columns = MaterializedColumns(MaterializeRun(run.registered_at, Joined(events)))

\* A run document tells one story: it has a failure exactly when it failed,
\* a block exactly when the gates refused it, and an end exactly when it is
\* not running.
DocumentIsConsistent ==
    run # None =>
        LET shown == MaterializeRun(run.registered_at, Joined(events))
        IN  /\ shown.status = "failed" <=> shown.failure # None
            /\ shown.status = "blocked" <=> shown.block # None
            /\ shown.status = "running" <=> shown.ended_at = None

\* updated_at of a registered run never decreases, whatever late events,
\* earlier producers or resets a batch brings.
UpdatedAtNeverDecreases ==
    [][run # None => columns'.updated_at >= columns.updated_at]_vars

\* The store implements the ledger: whatever the order and batching of the
\* deliveries, the columns are the ledger's view of the set of events.
Ledger == INSTANCE RunLedger WITH
    registeredAt <- IF run = None THEN None ELSE run.registered_at,
    events <- Joined(events),
    view <- columns

ImplementsLedger == Ledger!Spec
=============================================================================
