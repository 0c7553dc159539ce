--------------------------- MODULE ChronicleReview ---------------------------
(***************************************************************************)
(* The review of a new Chronicle snapshot before evaluations adopt it:     *)
(* evaluation_harness/update_review.py, with the plan it makes from the    *)
(* facts of each snapshot (microcosm_aging.py, microcosm_release_targets.  *)
(* py, yale_reconstruction_checkpoint.py) and the classification of the    *)
(* facts by that plan (planner.py, mappings.py, full_run.py).              *)
(*                                                                         *)
(* A snapshot has facts, one for some of the source records, and its       *)
(* growth: the factor by which its projections, or else the release, make  *)
(* a dollar of an income series and a source year one of the build year,   *)
(* None if they do not. A fact's key names its record in an edition of the *)
(* key namespace. Its definition is what identifies it besides the key:    *)
(* the region, the place with its level, the concept (source, measure,     *)
(* unit, entity, and whether it is a sum), the slice (dimensions and       *)
(* constraints) and the period. A fact also has a value, the series its    *)
(* source measure is of, and whether its publisher projected it: neither   *)
(* of the last two is in the definition.                                   *)
(*                                                                         *)
(* An integration has a source, at most one mapping rule per concept, a    *)
(* flag that prior years are aged, and the records that its gate verifies. *)
(* Two use the pinned release (microcosm, yale): targets has the unit and  *)
(* the period, None if not stated, of each record that was a target of its *)
(* build. One of them takes their estimates from the release, the other    *)
(* has a checkpoint with the period of each of its entries.                *)
(***************************************************************************)
EXTENDS EvaluationBundles

CONSTANTS
    BuildYear,
    SourceYears,    \* the years whose facts are aged to the build year
    Reviews         \* kinds of review: the pairs of plans and the pairs of
                    \* snapshots, an old and a new one each, that are reviewed

-----------------------------------------------------------------------------
(***************************************************************************)
(* The plan made from a snapshot.                                          *)
(***************************************************************************)

\* A series without a factor of its own takes that of adjusted gross income.
GrowthOf(series, year, growth) ==
    IF growth[series][year] # None THEN growth[series][year]
    ELSE growth["adjusted_gross_income"][year]

\* A fact whose value is not aged: it is of the build year, it is no sum of
\* dollars, or its publisher projected it.
KeptRaw(fact) ==
    \/ fact.definition.period = BuildYear
    \/ ~fact.definition.concept.summed
    \/ fact.definition.concept.unit # "usd"
    \/ fact.projected

\* What a fact becomes in the build year, as a factor; None if it cannot be
\* compared there.
AgingFactor(fact, growth) ==
    IF fact.definition.region # "US" \/ fact.definition.period \notin SourceYears THEN None
    ELSE IF KeptRaw(fact) THEN 1
    ELSE GrowthOf(fact.series, fact.definition.period, growth)

\* A fact that was a target of the release: the same record, with the unit and
\* the period that the target states.
IsReleaseTarget(integration, record, fact) ==
    /\ record \in DOMAIN integration.targets
    /\ integration.targets[record].unit \in {None, fact.definition.concept.unit}
    /\ integration.targets[record].period \in {None, fact.definition.period}

\* The alignment of a fact's period to the build year, that of the release
\* before that of aging.
AlignmentOf(integration, record, fact, growth) ==
    IF ~integration.ages THEN None
    ELSE IF /\ IsReleaseTarget(integration, record, fact)
            /\ fact.definition.period # BuildYear THEN <<"release target", fact.key>>
    ELSE IF AgingFactor(fact, growth) # None
        THEN <<"aging", fact.key, fact.definition.period>>
    ELSE None

\* The checkpoint is not for the facts of another period or place, or for
\* facts of prior years that cannot be aligned.
CheckpointRefuses(integration, snapshot) ==
    \E record \in DOMAIN snapshot.facts :
        LET fact == snapshot.facts[record]
        IN  /\ fact.key \in DOMAIN integration.checkpoint
            /\ \/ fact.definition.period # integration.checkpoint[fact.key]
               \/ fact.definition.region # integration.source.region
               \/ fact.definition.place.level # "country"
               \/ fact.definition.concept.entity \notin integration.source.entities
               \/ /\ fact.definition.period \in SourceYears
                  /\ AlignmentOf(integration, record, fact, snapshot.growth) = None

\* The result that is not computed from a query: a target's estimate in the
\* release, which keeps a mapping the fact has.
ReleaseTargetSpec(fact, alignment) ==
    [mapping |-> "release diagnostics", keeps |-> TRUE,
     alignment |-> IF fact.definition.period = BuildYear THEN None ELSE alignment,
     exposure |-> "direct target", geography |-> "release"]

\* Or an entry of the checkpoint.
CheckpointSpec(fact, alignment) ==
    [mapping |-> fact.key, keeps |-> FALSE,
     alignment |-> IF fact.definition.period \in SourceYears THEN alignment ELSE None,
     exposure |-> "checkpoint", geography |-> "checkpoint"]

PrecomputedSpec(integration, record, fact, alignment) ==
    IF integration.takesTargets /\ IsReleaseTarget(integration, record, fact)
        THEN ReleaseTargetSpec(fact, alignment)
    ELSE IF fact.key \in DOMAIN integration.checkpoint THEN CheckpointSpec(fact, alignment)
    ELSE None

-----------------------------------------------------------------------------
(***************************************************************************)
(* Classification of a fact for a source.                                  *)
(***************************************************************************)

Unsupported == [method |-> "none", mapping |-> None, eligible |-> FALSE]

\* The rule whose selector matches the fact, if any.
MappingOf(integration, fact) ==
    LET rule == integration.rules[fact.definition.concept]
    IN  IF rule # None /\ fact.key \notin rule.excluded THEN rule ELSE None

\* The source has the fact's population.
Represents(source, rule, definition) ==
    /\ definition.region = source.region
    /\ source.available
    /\ definition.place \in source.places
    /\ (IF rule = None THEN definition.concept.entity ELSE rule.entity) \in source.entities

\* How the fact's period is met, None if it is not.
Treatment(source, rule, alignment, definition) ==
    IF definition.period \in source.native THEN "native"
    ELSE IF definition.period \in source.advanced THEN "advanced"
    ELSE IF rule # None /\ definition.period \in rule.buildTargets THEN "build target"
    ELSE IF alignment # None THEN "aligned"
    ELSE None

Query(source, rule, definition) ==
    [expression |-> rule.expression, weight |-> source.weights[rule.entity],
     place |-> definition.place, slice |-> definition.slice]

ExecutionPeriod(source, definition) ==
    IF source.yearFromFact THEN definition.period ELSE source.period

Classify(integration, fact, alignment) ==
    LET source == integration.source
        definition == fact.definition
        rule == MappingOf(integration, fact)
        treatment == Treatment(source, rule, alignment, definition)
        fromTarget == alignment # None /\ alignment[1] = "release target"
    IN  IF /\ Represents(source, rule, definition)
           /\ treatment # None
           /\ rule # None
           /\ definition.slice \in rule.slices
           /\ source.weights[rule.entity] # None
        THEN [method |-> rule.execution, mapping |-> rule.name,
              quality |-> rule.quality, period |-> ExecutionPeriod(source, definition),
              treatment |-> treatment, alignment |-> alignment,
              entity |-> rule.entity, geography |-> source.methods[definition.place],
              query |-> Query(source, rule, definition),
              exposure |-> IF fromTarget THEN "direct target" ELSE rule.exposure,
              eligible |-> rule.quality = "exact" /\ fact.key \notin rule.unscored]
        ELSE Unsupported

\* A precomputed result in the place of the planner's classification.
Materialized(integration, spec, planned) ==
    LET kept == spec.keeps /\ planned.mapping # None
    IN  [method |-> "precomputed", mapping |-> IF kept THEN planned.mapping ELSE spec.mapping,
         quality |-> "exact", period |-> integration.source.period,
         treatment |-> IF spec.alignment = None THEN "native" ELSE "aligned",
         alignment |-> spec.alignment,
         geography |-> spec.geography, query |-> None, exposure |-> spec.exposure,
         eligible |-> kept => planned.eligible]

CapabilityWith(integration, fact, alignment, spec) ==
    IF spec = None THEN Classify(integration, fact, alignment)
    ELSE Materialized(integration, spec, Classify(integration, fact, alignment))

CapabilityOf(integration, record, fact, alignment) ==
    CapabilityWith(integration, fact, alignment,
                   PrecomputedSpec(integration, record, fact, alignment))

\* The capability matrix of one source.
Capabilities(integration, snapshot) ==
    [record \in DOMAIN snapshot.facts |->
        CapabilityOf(integration, record, snapshot.facts[record],
            AlignmentOf(integration, record, snapshot.facts[record], snapshot.growth))]

HasResult(capability) == capability.method # "none"

-----------------------------------------------------------------------------
(***************************************************************************)
(* Pairs of the facts of two snapshots.                                    *)
(***************************************************************************)

KeysOf(facts) == {facts[record].key : record \in DOMAIN facts}

\* The facts whose key the other snapshot lacks.
Rekeyed(facts, others) == {record \in DOMAIN facts : facts[record].key \notin KeysOf(others)}

Alike(facts, among, definition) ==
    {record \in among : facts[record].definition = definition}

\* By key, and otherwise by a definition that one fact on each side has.
Pairs(old, new) ==
    {p \in (DOMAIN old) \X (DOMAIN new) :
        \/ old[p[1]].key = new[p[2]].key
        \/ LET definition == old[p[1]].definition
           IN  /\ Alike(old, Rekeyed(old, new), definition) = {p[1]}
               /\ Alike(new, Rekeyed(new, old), definition) = {p[2]}}

Removed(old, pairs) == DOMAIN old \ {p[1] : p \in pairs}
Added(new, pairs) == DOMAIN new \ {p[2] : p \in pairs}

-----------------------------------------------------------------------------
(***************************************************************************)
(* The review of one source: facts of the old or the new snapshot whose    *)
(* results go, come, are computed anew or are scored anew.                 *)
(***************************************************************************)

\* A fault the runs must notice: the same query on another year.
SameQuery(c) == <<c.method, c.query, c.geography>>

ExecutionSignature(c) == <<c.method, c.query, c.period, c.geography>>

MaterializationSignature(c) == <<c.method, c.mapping, c.period, c.geography>>

ScoringSignature(c) == <<c.quality, c.treatment, c.alignment, c.exposure, c.eligible>>

Recomputed(old, new, sourceChanged) ==
    \/ sourceChanged
    \/ /\ new.method = "precomputed"
       /\ MaterializationSignature(old) # MaterializationSignature(new)
    \/ ExecutionSignature(old) # ExecutionSignature(new)

\* before and after are the capabilities of either snapshot.
Review(old, new, before, after, pairs, sourceChanged) ==
    LET retired == {r \in Removed(old, pairs) : HasResult(before[r])}
            \cup {p[1] : p \in {q \in pairs : HasResult(before[q[1]]) /\ ~HasResult(after[q[2]])}}
        come == {r \in Added(new, pairs) : HasResult(after[r])}
            \cup {p[2] : p \in {q \in pairs : ~HasResult(before[q[1]]) /\ HasResult(after[q[2]])}}
        stay == {p \in pairs : HasResult(before[p[1]]) /\ HasResult(after[p[2]])}
        anew == come \cup {p[2] : p \in {q \in stay :
                    Recomputed(before[q[1]], after[q[2]], sourceChanged)}}
        rescored == {p \in stay :
            \/ /\ ~sourceChanged
               /\ ScoringSignature(before[p[1]]) # ScoringSignature(after[p[2]])
            \/ old[p[1]].value # new[p[2]].value}
    IN  [regressions |-> retired,
         execute |-> {r \in anew : after[r].method # "precomputed"},
         materialize |-> {r \in anew : after[r].method = "precomputed"},
         requiresRescore |-> anew # {} \/ rescored # {} \/ retired # {}]

\* The facts to verify, which are rows of the snapshot the integration is
\* pinned to: that is the old one.
Checks(integration, old) ==
    {old.facts[record] : record \in integration.verified \cap DOMAIN old.facts}

\* The gate: each verified fact is found, by key or as the only one defined
\* as it was, with a result that is scored.
GatePasses(checks, new, after) ==
    \A check \in checks :
        \E r \in DOMAIN new :
            /\ \/ new[r].key = check.key
               \/ /\ check.key \notin KeysOf(new)
                  /\ Alike(new, DOMAIN new, check.definition) = {r}
            /\ HasResult(after[r])
            /\ after[r].eligible

Ready(review, checks, new, after) ==
    review.regressions = {} /\ GatePasses(checks, new, after)

-----------------------------------------------------------------------------
(***************************************************************************)
(* What a full run computes, and the properties of reviews.                *)
(***************************************************************************)

\* The estimate of a fact with a result, by what it is computed from: the
\* target of its record or the entry of its key, or the population prepared
\* for its group and the query on it.
Estimate(integration, record, fact, c) ==
    IF c.method = "precomputed"
    THEN IF integration.takesTargets THEN <<"target", record>> ELSE <<"entry", fact.key>>
    ELSE <<integration.source.dataset, c.method, c.period, c.geography, c.entity, c.query>>

\* What the estimate is scored against.
Benchmark(integration, record, fact, c, growth) ==
    IF c.treatment # "aligned" THEN <<fact.value>>
    ELSE IF IsReleaseTarget(integration, record, fact) THEN <<"compiled", record>>
    ELSE <<fact.value, AgingFactor(fact, growth)>>

\* An aged result whose fact has another factor than it had, under the same
\* alignment: the projections changed, or the fact is of another series, of
\* another unit, or projected by its publisher where it was observed.
AgedByAnotherFactor(old, new, p, from, to) ==
    /\ to.treatment = "aligned"
    /\ to.alignment = from.alignment
    /\ to.alignment[1] = "aging"
    /\ AgingFactor(old.facts[p[1]], old.growth) # AgingFactor(new.facts[p[2]], new.growth)

\* A result that the review does not have recomputed is that of a full run. If
\* nothing is rescored either, it counts towards the score as it did, and its
\* benchmark is the one it had unless the fact is aged by another factor: the
\* review compares alignments by name, and no name has the factor.
WorkIsNamed(before, after, oldPlan, newPlan, old, new, pairs, review) ==
    /\ \A r \in Added(new.facts, pairs) :
        HasResult(after[r]) => r \in review.execute \cup review.materialize
    /\ \A p \in pairs :
        LET from == before[p[1]]
            to == after[p[2]]
        IN  HasResult(to) /\ p[2] \notin review.execute \cup review.materialize =>
                /\ HasResult(from)
                /\ Estimate(newPlan, p[2], new.facts[p[2]], to)
                    = Estimate(oldPlan, p[1], old.facts[p[1]], from)
                /\ ~review.requiresRescore =>
                    /\ to.eligible = from.eligible
                    /\ Benchmark(newPlan, p[2], new.facts[p[2]], to, new.growth)
                        = Benchmark(oldPlan, p[1], old.facts[p[1]], from, old.growth)
                        <=> ~AgedByAnotherFactor(old, new, p, from, to)

\* A snapshot that is ready has at least the results there were, and a
\* result for each verified fact that had one, in the fact it was paired with.
NothingIsLost(before, after, pairs, ready, verified) ==
    ready =>
        /\ Cardinality({r \in DOMAIN after : HasResult(after[r])})
            >= Cardinality({r \in DOMAIN before : HasResult(before[r])})
        /\ \A r \in verified \cap DOMAIN before :
            HasResult(before[r]) =>
                \E p \in pairs : p[1] = r /\ HasResult(after[p[2]]) /\ after[p[2]].eligible

SoundWith(oldPlan, newPlan, old, new, before, after, pairs) ==
    LET review == Review(old.facts, new.facts, before, after, pairs,
                         oldPlan.source # newPlan.source)
    IN  /\ WorkIsNamed(before, after, oldPlan, newPlan, old, new, pairs, review)
        /\ NothingIsLost(before, after, pairs,
                         Ready(review, Checks(newPlan, old), new.facts, after),
                         newPlan.verified)

\* The review of a source is sound, unless it refuses one of the snapshots.
ReviewIsSound(oldPlan, newPlan, old, new) ==
    \/ CheckpointRefuses(oldPlan, old)
    \/ CheckpointRefuses(newPlan, new)
    \/ SoundWith(oldPlan, newPlan, old, new, Capabilities(oldPlan, old),
                 Capabilities(newPlan, new), Pairs(old.facts, new.facts))

-----------------------------------------------------------------------------
(***************************************************************************)
(* What a review relies on in the plans and the facts of two snapshots.    *)
(***************************************************************************)

\* A key is that of one record, in either snapshot.
KeysNameRecords(facts, others) ==
    \A r \in DOMAIN facts, s \in DOMAIN others : facts[r].key = others[s].key => r = s

\* The targets of the release are told apart by their definitions.
TargetsAreDefined(oldPlan, newPlan, old, new) ==
    \A r \in DOMAIN old, s \in DOMAIN new :
        /\ IsReleaseTarget(oldPlan, r, old[r])
        /\ IsReleaseTarget(newPlan, s, new[s])
        /\ old[r].definition = new[s].definition
        => r = s

\* An integration has a release or a checkpoint, rules that are executed, and
\* a weight for each entity.
PlanIsSound(integration, facts) ==
    /\ integration.takesTargets => DOMAIN integration.checkpoint = {}
    /\ \A r \in DOMAIN facts :
        LET rule == integration.rules[facts[r].definition.concept]
        IN  rule # None => rule.execution # "precomputed"
    /\ \A e, f \in integration.source.entities :
        LET weights == integration.source.weights
        IN  weights[e] = weights[f] => weights[e] = None \/ e = f

Reviewable(oldPlan, newPlan, old, new) ==
    /\ BuildYear \notin SourceYears
    /\ IsFiniteSet(DOMAIN new.facts)
    /\ KeysNameRecords(old.facts, old.facts)
    /\ KeysNameRecords(old.facts, new.facts)
    /\ oldPlan.takesTargets = newPlan.takesTargets
    /\ PlanIsSound(oldPlan, old.facts)
    /\ PlanIsSound(newPlan, new.facts)
    /\ TargetsAreDefined(oldPlan, newPlan, old.facts, new.facts)

ASSUME ReviewsAssumption ==
    \A kind \in Reviews : \A plans \in kind.plans, update \in kind.updates :
        Reviewable(plans[1], plans[2], update[1], update[2])

Reviewed ==
    \A kind \in Reviews : \A plans \in kind.plans, update \in kind.updates :
        ReviewIsSound(plans[1], plans[2], update[1], update[2])

\* The review of a new snapshot, made before a run adopts it, names the work:
\* an estimate it does not have computed anew is the one a full run would
\* give, and if nothing is scored anew its benchmark differs exactly when the
\* fact is aged by another factor under the same alignment, a change of score
\* that no review names; and a snapshot that it finds ready loses no result and
\* no verified fact, however keys, periods and definitions moved between the
\* records (review_source_update, verification_gate).
ReviewsNameTheWork ==
    (\E r \in Runs : published[r] # Empty) => Reviewed

=============================================================================
