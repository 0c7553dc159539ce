------------------------ MODULE ChronicleReview_proofs ------------------------
(***************************************************************************)
(* Every review of a Chronicle update is sound: for every two plans and    *)
(* every two snapshots that are Reviewable, with any number of facts.      *)
(*                                                                         *)
(* The review compares the signatures of two results and never what they   *)
(* are computed from, so the argument goes from what the signatures have   *)
(* to what they leave out: the entity (the weight tells it), and the record *)
(* of a release target (its key, or its definition, tells it). Nothing     *)
(* tells the factor of an aged fact: the theorem says that this, and only  *)
(* this, changes a benchmark unnoticed.                                    *)
(***************************************************************************)
EXTENDS ChronicleReview, FiniteSetTheorems, TLAPS

\* No two facts of the old snapshot are paired with one of the new: a key pairs
\* the facts of one record, and a definition only facts whose key the other
\* snapshot lacks, if each side has one (_pair_facts).
THEOREM PairsAreOneToOne ==
    ASSUME NEW old, NEW new, KeysNameRecords(old, old),
           NEW p \in Pairs(old, new), NEW q \in Pairs(old, new), p[2] = q[2]
    PROVE  p[1] = q[1]
  <1> DEFINE ByKey(x) == old[x[1]].key = new[x[2]].key
  <1> DEFINE ByDefinition(x) ==
        /\ Alike(old, Rekeyed(old, new), old[x[1]].definition) = {x[1]}
        /\ Alike(new, Rekeyed(new, old), old[x[1]].definition) = {x[2]}
  <1>1. /\ p[1] \in DOMAIN old /\ q[1] \in DOMAIN old /\ p[2] \in DOMAIN new
        /\ ByKey(p) \/ ByDefinition(p)
        /\ ByKey(q) \/ ByDefinition(q)
    BY DEF Pairs
  <1>2. ByKey(p) \/ ByKey(q) => ~ByDefinition(p) /\ ~ByDefinition(q)
    BY <1>1 DEF Alike, Rekeyed, KeysOf
  <1>3. CASE ByKey(p) /\ ByKey(q)
    BY <1>1, <1>3 DEF KeysNameRecords
  <1>4. CASE ByDefinition(p) /\ ByDefinition(q)
    <2>1. /\ new[p[2]].definition = old[p[1]].definition
          /\ new[q[2]].definition = old[q[1]].definition
      BY <1>4 DEF Alike
    <2>2. {p[1]} = {q[1]}
      BY <2>1, <1>4
    <2> QED
      BY <2>2
  <1> QED
    BY <1>1, <1>2, <1>3, <1>4

\* Without regressions, each result there was is paired with one.
LEMMA PairedResults ==
    ASSUME NEW old, NEW new, NEW before, NEW after, NEW sourceChanged,
           DOMAIN before = DOMAIN old, DOMAIN after = DOMAIN new,
           Review(old, new, before, after, Pairs(old, new), sourceChanged).regressions = {},
           NEW r \in DOMAIN old, HasResult(before[r])
    PROVE  \E p \in Pairs(old, new) : p[1] = r /\ HasResult(after[p[2]])
  <1> DEFINE pairs == Pairs(old, new)
  <1> HIDE DEF pairs
  <1>1. {x \in Removed(old, pairs) : HasResult(before[x])}
            \cup {p[1] : p \in {q \in pairs : HasResult(before[q[1]]) /\ ~HasResult(after[q[2]])}}
        = {}
    BY DEF Review, pairs
  <1>2. PICK p \in pairs : p[1] = r
    BY <1>1 DEF Removed
  <1>3. HasResult(after[p[2]])
    BY <1>1, <1>2
  <1> QED
    BY <1>2, <1>3 DEF pairs

\* A snapshot that is ready loses nothing, whatever the capabilities: it has as
\* many results as there were, and the fact that the gate finds for a verified
\* one is the fact it was paired with (verification_gate, build_update_review_document).
THEOREM ReadySnapshotsLoseNothing ==
    ASSUME NEW old, NEW new, NEW before, NEW after, NEW verified, NEW sourceChanged,
           NEW integration, integration.verified = verified,
           DOMAIN before = DOMAIN old.facts, DOMAIN after = DOMAIN new.facts,
           IsFiniteSet(DOMAIN new.facts), KeysNameRecords(old.facts, old.facts)
    PROVE  LET pairs == Pairs(old.facts, new.facts)
               review == Review(old.facts, new.facts, before, after, pairs, sourceChanged)
           IN  NothingIsLost(before, after, pairs,
                   Ready(review, Checks(integration, old), new.facts, after), verified)
  <1> DEFINE pairs == Pairs(old.facts, new.facts)
  <1> DEFINE review == Review(old.facts, new.facts, before, after, pairs, sourceChanged)
  <1> DEFINE checks == Checks(integration, old)
  <1> SUFFICES ASSUME Ready(review, checks, new.facts, after)
               PROVE  /\ Cardinality({r \in DOMAIN after : HasResult(after[r])})
                            >= Cardinality({r \in DOMAIN before : HasResult(before[r])})
                      /\ \A r \in verified \cap DOMAIN before :
                            HasResult(before[r]) =>
                                \E p \in pairs : /\ p[1] = r
                                                 /\ HasResult(after[p[2]])
                                                 /\ after[p[2]].eligible
    BY Zenon DEF NothingIsLost
  <1> HIDE DEF review
  <1>1. \A r \in DOMAIN old.facts : HasResult(before[r]) =>
            \E p \in pairs : p[1] = r /\ HasResult(after[p[2]])
    <2>1. review.regressions = {}
      BY DEF Ready
    <2> QED
      BY <2>1, PairedResults DEF review
  <1>2. \A p \in pairs : p[2] \in DOMAIN new.facts
    BY DEF Pairs
  <1>3. Cardinality({r \in DOMAIN after : HasResult(after[r])})
            >= Cardinality({r \in DOMAIN before : HasResult(before[r])})
    <2> DEFINE B == {r \in DOMAIN before : HasResult(before[r])}
    <2> DEFINE A == {r \in DOMAIN after : HasResult(after[r])}
    <2> DEFINE P(r) == CHOOSE p \in pairs : p[1] = r /\ HasResult(after[p[2]])
    <2> DEFINE f == [r \in B |-> P(r)[2]]
    <2>1. \A r \in B : P(r) \in pairs /\ P(r)[1] = r /\ HasResult(after[P(r)[2]])
      <3> SUFFICES ASSUME NEW r \in B
                   PROVE  P(r) \in pairs /\ P(r)[1] = r /\ HasResult(after[P(r)[2]])
        OBVIOUS
      <3>1. \E p \in pairs : p[1] = r /\ HasResult(after[p[2]])
        BY <1>1
      <3> QED
        BY <3>1
    <2> HIDE DEF P
    <2>2. f \in [B -> A]
      BY <2>1, <1>2
    <2>3. ASSUME NEW r \in B, NEW s \in B, f[r] = f[s]
          PROVE  r = s
      <3>1. P(r)[2] = P(s)[2]
        BY <2>3
      <3>2. P(r) \in pairs /\ P(s) \in pairs /\ P(r)[1] = r /\ P(s)[1] = s
        BY <2>1
      <3> QED
        BY <3>1, <3>2, PairsAreOneToOne
    <2>4. f \in Injection(B, A)
      BY <2>2, <2>3 DEF Injection, IsInjective
    <2>5. IsFiniteSet(A)
      BY FS_Subset
    <2>6. IsFiniteSet(B) /\ Cardinality(B) <= Cardinality(A)
      <3> HIDE DEF A, B, f
      <3> QED
        BY <2>4, <2>5, FS_Injection
    <2>7. Cardinality(B) \in Nat /\ Cardinality(A) \in Nat
      BY <2>5, <2>6, FS_CardinalityType
    <2> QED
      BY <2>6, <2>7
  <1>4. ASSUME NEW r \in verified \cap DOMAIN before, HasResult(before[r])
        PROVE  \E p \in pairs : p[1] = r /\ HasResult(after[p[2]]) /\ after[p[2]].eligible
    <2> DEFINE check == old.facts[r]
    <2>1. check \in checks
      BY DEF Checks
    <2>2. PICK s \in DOMAIN new.facts :
            /\ \/ new.facts[s].key = check.key
               \/ /\ check.key \notin KeysOf(new.facts)
                  /\ Alike(new.facts, DOMAIN new.facts, check.definition) = {s}
            /\ HasResult(after[s])
            /\ after[s].eligible
      <3>1. GatePasses(checks, new.facts, after)
        BY DEF Ready
      <3> HIDE DEF checks, check
      <3> QED
        BY <2>1, <3>1 DEF GatePasses
    <2>3. CASE new.facts[s].key = check.key
      <3>1. <<r, s>> \in pairs
        BY <2>3 DEF Pairs
      <3> QED
        BY <3>1, <2>2
    <2>4. CASE /\ check.key \notin KeysOf(new.facts)
               /\ Alike(new.facts, DOMAIN new.facts, check.definition) = {s}
      <3>1. PICK p \in pairs : p[1] = r /\ HasResult(after[p[2]])
        BY <1>1, <1>4
      <3>2. old.facts[r].key # new.facts[p[2]].key /\ p[2] \in DOMAIN new.facts
        BY <2>4, <1>2 DEF KeysOf
      <3>3. new.facts[p[2]].definition = check.definition
        <4>1. Alike(new.facts, Rekeyed(new.facts, old.facts), check.definition) = {p[2]}
          BY <3>1, <3>2 DEF Pairs
        <4> QED
          BY <4>1 DEF Alike
      <3>4. p[2] = s
        BY <2>4, <3>2, <3>3 DEF Alike
      <3> QED
        BY <3>1, <3>4, <2>2
    <2> QED
      BY <2>2, <2>3, <2>4
  <1> QED
    BY <1>3, <1>4

-----------------------------------------------------------------------------

\* An aligned result has the alignment of its fact.
LEMMA AlignedResults ==
    ASSUME NEW integration, NEW record, NEW fact, NEW alignment,
           HasResult(CapabilityOf(integration, record, fact, alignment)),
           CapabilityOf(integration, record, fact, alignment).treatment = "aligned"
    PROVE  /\ CapabilityOf(integration, record, fact, alignment).alignment = alignment
           /\ alignment # None
  <1> DEFINE spec == PrecomputedSpec(integration, record, fact, alignment)
  <1> DEFINE planned == Classify(integration, fact, alignment)
  <1>1. HasResult(planned) /\ planned.treatment = "aligned" =>
            planned.alignment = alignment /\ alignment # None
    BY DEF Classify, Unsupported, HasResult, Treatment
  <1>2. CASE spec = None
    BY <1>1, <1>2 DEF CapabilityOf, CapabilityWith
  <1>3. CASE spec # None
    <2> DEFINE c == Materialized(integration, spec, planned)
    <2>1. c = CapabilityOf(integration, record, fact, alignment)
      BY <1>3 DEF CapabilityOf, CapabilityWith
    <2>2. c.treatment = (IF spec.alignment = None THEN "native" ELSE "aligned")
          /\ c.alignment = spec.alignment
      BY DEF Materialized
    <2>3. c.alignment # None
      BY <2>1, <2>2
    <2>4. spec.alignment \in {None, alignment}
      BY <1>3 DEF PrecomputedSpec, ReleaseTargetSpec, CheckpointSpec
    <2> HIDE DEF c, spec
    <2> QED
      BY <2>1, <2>2, <2>3, <2>4
  <1> QED
    BY <1>2, <1>3

\* A precomputed result is of a target of the release or of an entry of the
\* checkpoint, and then its mapping is the key.
LEMMA PrecomputedResults ==
    ASSUME NEW integration, NEW record, NEW fact, NEW alignment,
           LET rule == integration.rules[fact.definition.concept]
           IN  rule # None => rule.execution # "precomputed",
           CapabilityOf(integration, record, fact, alignment).method = "precomputed"
    PROVE  \/ /\ integration.takesTargets
              /\ IsReleaseTarget(integration, record, fact)
           \/ /\ fact.key \in DOMAIN integration.checkpoint
              /\ CapabilityOf(integration, record, fact, alignment).mapping = fact.key
  <1> DEFINE spec == PrecomputedSpec(integration, record, fact, alignment)
  <1> DEFINE planned == Classify(integration, fact, alignment)
  <1>1. planned.method # "precomputed"
    BY DEF Classify, Unsupported, MappingOf
  <1>2. spec # None /\ CapabilityOf(integration, record, fact, alignment)
                            = Materialized(integration, spec, planned)
    BY <1>1 DEF CapabilityOf, CapabilityWith
  <1>3. CASE integration.takesTargets /\ IsReleaseTarget(integration, record, fact)
    BY <1>3
  <1>4. CASE ~(integration.takesTargets /\ IsReleaseTarget(integration, record, fact))
    <2>1. fact.key \in DOMAIN integration.checkpoint /\ spec = CheckpointSpec(fact, alignment)
      BY <1>2, <1>4 DEF PrecomputedSpec
    <2>2. Materialized(integration, spec, planned).mapping = fact.key
      BY <2>1 DEF Materialized, CheckpointSpec
    <2> QED
      BY <1>2, <2>1, <2>2
  <1> QED
    BY <1>3, <1>4

\* Any other result is of a query of its rule, on an entity with a weight.
LEMMA QueriedResults ==
    ASSUME NEW integration, NEW record, NEW fact, NEW alignment,
           HasResult(CapabilityOf(integration, record, fact, alignment)),
           CapabilityOf(integration, record, fact, alignment).method # "precomputed"
    PROVE  LET c == CapabilityOf(integration, record, fact, alignment)
               rule == integration.rules[fact.definition.concept]
               source == integration.source
           IN  /\ rule # None
               /\ c.entity = rule.entity
               /\ c.query = Query(source, rule, fact.definition)
               /\ rule.entity \in source.entities
               /\ source.weights[rule.entity] # None
  <1> DEFINE spec == PrecomputedSpec(integration, record, fact, alignment)
  <1> DEFINE planned == Classify(integration, fact, alignment)
  <1>1. CapabilityOf(integration, record, fact, alignment) = planned
    BY DEF CapabilityOf, CapabilityWith, Materialized
  <1>2. HasResult(planned)
    BY <1>1
  <1>3. /\ MappingOf(integration, fact) # None
        /\ Represents(integration.source, MappingOf(integration, fact), fact.definition)
        /\ integration.source.weights[MappingOf(integration, fact).entity] # None
        /\ planned.entity = MappingOf(integration, fact).entity
        /\ planned.query = Query(integration.source, MappingOf(integration, fact), fact.definition)
    BY <1>2 DEF Classify, Unsupported, HasResult
  <1>4. MappingOf(integration, fact) = integration.rules[fact.definition.concept]
    BY <1>3 DEF MappingOf
  <1> QED
    BY <1>1, <1>3, <1>4 DEF Represents

\* An alignment names how a fact is aligned.
LEMMA Alignments ==
    ASSUME NEW integration, NEW record, NEW fact, NEW growth,
           BuildYear \notin SourceYears,
           AlignmentOf(integration, record, fact, growth) # None
    PROVE  LET alignment == AlignmentOf(integration, record, fact, growth)
           IN  \/ /\ alignment = <<"release target", fact.key>>
                  /\ IsReleaseTarget(integration, record, fact)
               \/ /\ alignment = <<"aging", fact.key, fact.definition.period>>
                  /\ ~IsReleaseTarget(integration, record, fact)
                     \/ fact.definition.period = BuildYear
                  /\ fact.definition.period \in SourceYears
  BY DEF AlignmentOf, AgingFactor

-----------------------------------------------------------------------------

\* Two alignments of one name are of one key and one kind.
LEMMA AlignmentNames ==
    ASSUME NEW key, NEW other, NEW period, NEW year
    PROVE  /\ <<"release target", key>> # <<"aging", other, year>>
           /\ <<"release target", key>> = <<"release target", other>> => key = other
           /\ <<"aging", key, period>> = <<"aging", other, year>> => key = other
  <1>1. <<"release target", key>>[1] # <<"aging", other, year>>[1]
    OBVIOUS
  <1> QED
    BY <1>1

\* The estimate of a paired fact is the one that the old snapshot had for it,
\* and so is its benchmark if it is scored as it was and aged as it was.
WorkIsKept(oldPlan, newPlan, old, new, p) ==
    LET from == Capabilities(oldPlan, old)[p[1]]
        to == Capabilities(newPlan, new)[p[2]]
    IN  /\ Estimate(newPlan, p[2], new.facts[p[2]], to)
            = Estimate(oldPlan, p[1], old.facts[p[1]], from)
        /\ /\ ScoringSignature(from) = ScoringSignature(to)
           /\ old.facts[p[1]].value = new.facts[p[2]].value
           => (Benchmark(newPlan, p[2], new.facts[p[2]], to, new.growth)
                = Benchmark(oldPlan, p[1], old.facts[p[1]], from, old.growth)
                <=> ~AgedByAnotherFactor(old, new, p, from, to))

\* A result is kept if the review finds its signatures unchanged.
LEMMA KeptWork ==
    ASSUME NEW oldPlan, NEW newPlan, NEW old, NEW new,
           Reviewable(oldPlan, newPlan, old, new),
           NEW p \in Pairs(old.facts, new.facts),
           oldPlan.source = newPlan.source,
           HasResult(Capabilities(oldPlan, old)[p[1]]),
           HasResult(Capabilities(newPlan, new)[p[2]]),
           ~Recomputed(Capabilities(oldPlan, old)[p[1]], Capabilities(newPlan, new)[p[2]], FALSE)
    PROVE  WorkIsKept(oldPlan, newPlan, old, new, p)
  <1> DEFINE r == p[1]
  <1> DEFINE s == p[2]
  <1> DEFINE f == old.facts[r]
  <1> DEFINE g == new.facts[s]
  <1> DEFINE a == AlignmentOf(oldPlan, r, f, old.growth)
  <1> DEFINE b == AlignmentOf(newPlan, s, g, new.growth)
  <1> DEFINE from == Capabilities(oldPlan, old)[r]
  <1> DEFINE to == Capabilities(newPlan, new)[s]
  <1>1. /\ r \in DOMAIN old.facts /\ s \in DOMAIN new.facts
        /\ f.key = g.key \/ f.definition = g.definition
    <2>1. /\ r \in DOMAIN old.facts /\ s \in DOMAIN new.facts
          /\ f.key = g.key \/ Alike(new.facts, Rekeyed(new.facts, old.facts), f.definition) = {s}
      BY DEF Pairs
    <2> QED
      BY <2>1 DEF Alike
  <1>2. /\ from = CapabilityOf(oldPlan, r, f, a)
        /\ to = CapabilityOf(newPlan, s, g, b)
    BY <1>1 DEF Capabilities
  <1>3. /\ from.method = to.method /\ from.query = to.query
        /\ from.period = to.period /\ from.geography = to.geography
        /\ to.method = "precomputed" => from.mapping = to.mapping
    BY DEF Recomputed, ExecutionSignature, MaterializationSignature
  <1>4. /\ BuildYear \notin SourceYears
        /\ KeysNameRecords(old.facts, new.facts)
        /\ oldPlan.takesTargets = newPlan.takesTargets
        /\ PlanIsSound(oldPlan, old.facts)
        /\ PlanIsSound(newPlan, new.facts)
        /\ TargetsAreDefined(oldPlan, newPlan, old.facts, new.facts)
    BY DEF Reviewable
  <1>5. f.key = g.key => r = s
    BY <1>1, <1>4 DEF KeysNameRecords
  <1>6. HasResult(from) /\ HasResult(to)
    OBVIOUS
  <1>7. ~Recomputed(from, to, FALSE)
    OBVIOUS
  <1> HIDE DEF from, to, f, g, a, b, r, s
  \* Where both results come from.
  <1>8. ASSUME to.method = "precomputed", ~newPlan.takesTargets
        PROVE  /\ f.key = g.key
               /\ f.key \in DOMAIN oldPlan.checkpoint
               /\ g.key \in DOMAIN newPlan.checkpoint
    <2>1. LET rule == oldPlan.rules[f.definition.concept]
          IN  rule # None => rule.execution # "precomputed"
      BY <1>1, <1>4 DEF PlanIsSound, f
    <2>2. LET rule == newPlan.rules[g.definition.concept]
          IN  rule # None => rule.execution # "precomputed"
      BY <1>1, <1>4 DEF PlanIsSound, g
    <2>3. f.key \in DOMAIN oldPlan.checkpoint /\ from.mapping = f.key
      BY <1>2, <1>3, <1>4, <1>8, <2>1, PrecomputedResults
    <2>4. g.key \in DOMAIN newPlan.checkpoint /\ to.mapping = g.key
      BY <1>2, <1>8, <2>2, PrecomputedResults
    <2> QED
      BY <1>3, <1>8, <2>3, <2>4
  <1>9. ASSUME to.method = "precomputed", newPlan.takesTargets
        PROVE  /\ IsReleaseTarget(oldPlan, r, f)
               /\ IsReleaseTarget(newPlan, s, g)
               /\ r = s
    <2>1. LET rule == oldPlan.rules[f.definition.concept]
          IN  rule # None => rule.execution # "precomputed"
      BY <1>1, <1>4 DEF PlanIsSound, f
    <2>2. LET rule == newPlan.rules[g.definition.concept]
          IN  rule # None => rule.execution # "precomputed"
      BY <1>1, <1>4 DEF PlanIsSound, g
    <2>3. DOMAIN oldPlan.checkpoint = {} /\ DOMAIN newPlan.checkpoint = {}
      BY <1>4, <1>9 DEF PlanIsSound
    <2>4. IsReleaseTarget(oldPlan, r, f)
      BY <1>2, <1>3, <1>9, <2>1, <2>3, PrecomputedResults
    <2>5. IsReleaseTarget(newPlan, s, g)
      BY <1>2, <1>9, <2>2, <2>3, PrecomputedResults
    <2>6. f.definition = g.definition => r = s
      BY <1>1, <1>4, <2>4, <2>5 DEF TargetsAreDefined, f, g
    <2> QED
      BY <1>1, <1>5, <2>4, <2>5, <2>6
  <1>10. ASSUME to.method # "precomputed"
         PROVE  from.entity = to.entity
    <2> DEFINE rule == oldPlan.rules[f.definition.concept]
    <2> DEFINE role == newPlan.rules[g.definition.concept]
    <2> DEFINE source == newPlan.source
    <2>1. /\ rule # None /\ from.entity = rule.entity
          /\ from.query = Query(source, rule, f.definition)
          /\ rule.entity \in source.entities
          /\ source.weights[rule.entity] # None
      BY <1>2, <1>3, <1>6, <1>10, QueriedResults
    <2>2. /\ role # None /\ to.entity = role.entity
          /\ to.query = Query(source, role, g.definition)
          /\ role.entity \in source.entities
      BY <1>2, <1>6, <1>10, QueriedResults
    <2> HIDE DEF rule, role
    <2>3. source.weights[rule.entity] = source.weights[role.entity]
      <3>1. Query(source, rule, f.definition) = Query(source, role, g.definition)
        BY <1>3, <2>1, <2>2
      <3>2. Query(source, rule, f.definition).weight = Query(source, role, g.definition).weight
        BY <3>1
      <3> QED
        BY <3>2 DEF Query
    <2>4. rule.entity = role.entity
      BY <1>4, <2>1, <2>2, <2>3 DEF PlanIsSound
    <2> QED
      BY <2>1, <2>2, <2>4
  <1>11. Estimate(newPlan, s, g, to) = Estimate(oldPlan, r, f, from)
    <2>1. CASE to.method = "precomputed"
      BY <1>3, <1>4, <1>8, <1>9, <2>1 DEF Estimate
    <2>2. CASE to.method # "precomputed"
      BY <1>3, <1>10, <2>2 DEF Estimate
    <2> QED
      BY <2>1, <2>2
  <1>12. ASSUME ScoringSignature(from) = ScoringSignature(to),
                f.value = g.value
         PROVE  Benchmark(newPlan, s, g, to, new.growth)
                    = Benchmark(oldPlan, r, f, from, old.growth)
                    <=> ~AgedByAnotherFactor(old, new, p, from, to)
    <2>1. from.treatment = to.treatment /\ from.alignment = to.alignment
      BY <1>12 DEF ScoringSignature
    <2>2. CASE to.treatment # "aligned"
      BY <1>12, <2>1, <2>2 DEF Benchmark, AgedByAnotherFactor
    <2>3. CASE to.treatment = "aligned"
      <3>1. /\ from.alignment = a /\ to.alignment = b
            /\ a = b /\ a # None /\ b # None
        BY <1>2, <1>6, <2>1, <2>3, AlignedResults
      <3>2. \/ /\ a = <<"release target", f.key>>
               /\ IsReleaseTarget(oldPlan, r, f)
            \/ /\ a = <<"aging", f.key, f.definition.period>>
               /\ ~IsReleaseTarget(oldPlan, r, f) \/ f.definition.period = BuildYear
               /\ f.definition.period \in SourceYears
        BY <1>4, <3>1, Alignments DEF a
      <3>3. \/ /\ b = <<"release target", g.key>>
               /\ IsReleaseTarget(newPlan, s, g)
            \/ /\ b = <<"aging", g.key, g.definition.period>>
               /\ ~IsReleaseTarget(newPlan, s, g) \/ g.definition.period = BuildYear
               /\ g.definition.period \in SourceYears
        BY <1>4, <3>1, Alignments DEF b
      <3>4. /\ \/ /\ a = <<"release target", f.key>>
                  /\ b = <<"release target", g.key>>
               \/ /\ a = <<"aging", f.key, f.definition.period>>
                  /\ b = <<"aging", g.key, g.definition.period>>
            /\ f.key = g.key
        <4>1. /\ <<"release target", f.key>> # <<"aging", g.key, g.definition.period>>
              /\ <<"release target", g.key>> # <<"aging", f.key, f.definition.period>>
              /\ <<"release target", f.key>> = <<"release target", g.key>> => f.key = g.key
              /\ <<"aging", f.key, f.definition.period>> = <<"aging", g.key, g.definition.period>>
                    => f.key = g.key
          BY AlignmentNames
        <4> QED
          BY <3>1, <3>2, <3>3, <4>1
      <3>5. r = s
        BY <1>5, <3>4
      <3>6. CASE a = <<"release target", f.key>>
        <4>1. IsReleaseTarget(oldPlan, r, f) /\ IsReleaseTarget(newPlan, s, g)
          BY <3>2, <3>3, <3>4, <3>6, AlignmentNames
        <4>2. ~AgedByAnotherFactor(old, new, p, from, to)
          <5>1. to.alignment = <<"release target", f.key>>
            BY <3>1, <3>6
          <5>2. <<"release target", f.key>>[1] # "aging"
            OBVIOUS
          <5> QED
            BY <5>1, <5>2 DEF AgedByAnotherFactor
        <4> QED
          BY <2>1, <2>3, <3>5, <4>1, <4>2 DEF Benchmark
      <3>7. CASE a = <<"aging", f.key, f.definition.period>>
        <4>1. ~IsReleaseTarget(oldPlan, r, f) /\ ~IsReleaseTarget(newPlan, s, g)
          <5>1. b = <<"aging", g.key, g.definition.period>>
            BY <3>1, <3>4, <3>7
          <5>2. a # <<"release target", f.key>> /\ b # <<"release target", g.key>>
            BY <3>7, <5>1, AlignmentNames
          <5> QED
            BY <1>4, <3>2, <3>3, <5>2
        <4>2. AgedByAnotherFactor(old, new, p, from, to)
                <=> AgingFactor(f, old.growth) # AgingFactor(g, new.growth)
          <5>1. to.alignment = <<"aging", f.key, f.definition.period>>
            BY <3>1, <3>7
          <5>2. to.alignment[1] = "aging"
            BY <5>1
          <5> QED
            BY <2>1, <2>3, <5>2 DEF AgedByAnotherFactor, f, g, r, s
        <4>3. /\ Benchmark(newPlan, s, g, to, new.growth)
                    = <<g.value, AgingFactor(g, new.growth)>>
              /\ Benchmark(oldPlan, r, f, from, old.growth)
                    = <<f.value, AgingFactor(f, old.growth)>>
          BY <2>1, <2>3, <4>1 DEF Benchmark
        <4> QED
          BY <1>12, <4>2, <4>3
      <3> QED
        BY <3>4, <3>6, <3>7
    <2> QED
      BY <2>2, <2>3
  <1> QED
    BY <1>11, <1>12 DEF WorkIsKept, from, to, f, g, r, s

\* Every review of two snapshots is sound, for all plans: an estimate it does
\* not have computed anew is that of a full run, if nothing is scored anew its
\* benchmark is too, except for the factor of an aged fact, and a ready
\* snapshot loses nothing (review_source_update).
THEOREM ReviewsAreSound ==
    ASSUME NEW oldPlan, NEW newPlan, NEW old, NEW new,
           Reviewable(oldPlan, newPlan, old, new)
    PROVE  ReviewIsSound(oldPlan, newPlan, old, new)
  <1> DEFINE before == Capabilities(oldPlan, old)
  <1> DEFINE after == Capabilities(newPlan, new)
  <1> DEFINE pairs == Pairs(old.facts, new.facts)
  <1> DEFINE sourceChanged == oldPlan.source # newPlan.source
  <1> DEFINE review == Review(old.facts, new.facts, before, after, pairs, sourceChanged)
  <1> SUFFICES ASSUME ~CheckpointRefuses(oldPlan, old), ~CheckpointRefuses(newPlan, new)
               PROVE  /\ WorkIsNamed(before, after, oldPlan, newPlan, old, new, pairs, review)
                      /\ NothingIsLost(before, after, pairs,
                                       Ready(review, Checks(newPlan, old), new.facts, after),
                                       newPlan.verified)
    BY DEF ReviewIsSound, SoundWith
  <1>1. DOMAIN before = DOMAIN old.facts /\ DOMAIN after = DOMAIN new.facts
    BY DEF Capabilities
  <1>2. NothingIsLost(before, after, pairs,
                      Ready(review, Checks(newPlan, old), new.facts, after), newPlan.verified)
    <2>1. IsFiniteSet(DOMAIN new.facts) /\ KeysNameRecords(old.facts, old.facts)
      BY DEF Reviewable
    <2> HIDE DEF before, after, sourceChanged
    <2> QED
      BY <1>1, <2>1, ReadySnapshotsLoseNothing
  \* The results computed anew, and those that stay.
  <1> DEFINE stay == {p \in pairs : HasResult(before[p[1]]) /\ HasResult(after[p[2]])}
  <1> DEFINE come == {r \in Added(new.facts, pairs) : HasResult(after[r])}
        \cup {p[2] : p \in {q \in pairs : ~HasResult(before[q[1]]) /\ HasResult(after[q[2]])}}
  <1> DEFINE anew == come \cup {p[2] : p \in {q \in stay :
                Recomputed(before[q[1]], after[q[2]], sourceChanged)}}
  <1>3. review.execute \cup review.materialize = anew
    <2>1. /\ review.execute = {r \in anew : after[r].method # "precomputed"}
          /\ review.materialize = {r \in anew : after[r].method = "precomputed"}
      BY DEF Review
    <2> HIDE DEF anew, review, after
    <2> QED
      BY <2>1
  <1>4. ~review.requiresRescore =>
            \A p \in stay :
                /\ ~sourceChanged => ScoringSignature(before[p[1]]) = ScoringSignature(after[p[2]])
                /\ old.facts[p[1]].value = new.facts[p[2]].value
    BY DEF Review
  <1> HIDE DEF review
  <1>5. \A r \in Added(new.facts, pairs) : HasResult(after[r]) => r \in anew
    OBVIOUS
  <1>6. ASSUME NEW p \in pairs, HasResult(after[p[2]]), p[2] \notin anew
        PROVE  /\ HasResult(before[p[1]])
               /\ Estimate(newPlan, p[2], new.facts[p[2]], after[p[2]])
                    = Estimate(oldPlan, p[1], old.facts[p[1]], before[p[1]])
               /\ ~review.requiresRescore =>
                    /\ after[p[2]].eligible = before[p[1]].eligible
                    /\ Benchmark(newPlan, p[2], new.facts[p[2]], after[p[2]], new.growth)
                        = Benchmark(oldPlan, p[1], old.facts[p[1]], before[p[1]], old.growth)
                        <=> ~AgedByAnotherFactor(old, new, p, before[p[1]], after[p[2]])
    <2> HIDE DEF before, after, pairs
    <2>1. HasResult(before[p[1]])
      BY <1>6
    <2>2. p \in stay
      BY <1>6, <2>1
    <2>3. ~Recomputed(before[p[1]], after[p[2]], sourceChanged)
      BY <1>6, <2>2
    <2>4. ~sourceChanged
      BY <2>3 DEF Recomputed
    <2>5. ~Recomputed(before[p[1]], after[p[2]], FALSE)
      BY <2>3 DEF Recomputed
    <2>6. /\ Estimate(newPlan, p[2], new.facts[p[2]], after[p[2]])
                = Estimate(oldPlan, p[1], old.facts[p[1]], before[p[1]])
          /\ /\ ScoringSignature(before[p[1]]) = ScoringSignature(after[p[2]])
             /\ old.facts[p[1]].value = new.facts[p[2]].value
             => (Benchmark(newPlan, p[2], new.facts[p[2]], after[p[2]], new.growth)
                    = Benchmark(oldPlan, p[1], old.facts[p[1]], before[p[1]], old.growth)
                    <=> ~AgedByAnotherFactor(old, new, p, before[p[1]], after[p[2]]))
      <3>1. /\ p \in Pairs(old.facts, new.facts)
            /\ oldPlan.source = newPlan.source
            /\ HasResult(Capabilities(oldPlan, old)[p[1]])
            /\ HasResult(Capabilities(newPlan, new)[p[2]])
            /\ ~Recomputed(Capabilities(oldPlan, old)[p[1]],
                           Capabilities(newPlan, new)[p[2]], FALSE)
        BY <1>6, <2>1, <2>4, <2>5 DEF before, after, pairs
      <3>2. WorkIsKept(oldPlan, newPlan, old, new, p)
        BY <3>1, KeptWork
      <3> QED
        BY <3>2 DEF WorkIsKept, before, after
    <2>7. ~review.requiresRescore =>
            /\ ScoringSignature(before[p[1]]) = ScoringSignature(after[p[2]])
            /\ old.facts[p[1]].value = new.facts[p[2]].value
      BY <1>4, <2>2, <2>4
    <2>8. ScoringSignature(before[p[1]]) = ScoringSignature(after[p[2]]) =>
            after[p[2]].eligible = before[p[1]].eligible
      BY DEF ScoringSignature
    <2> QED
      BY <2>1, <2>6, <2>7, <2>8
  <1>7. WorkIsNamed(before, after, oldPlan, newPlan, old, new, pairs, review)
    <2> HIDE DEF before, after, pairs, anew
    <2> QED
      BY <1>3, <1>5, <1>6 DEF WorkIsNamed
  <1> QED
    BY <1>2, <1>7

\* So the reviews made before the runs adopt a snapshot name the work, for
\* every set of plans and updates that are Reviewable.
THEOREM ReviewsAlwaysNameTheWork == Spec => []ReviewsNameTheWork
  <1>1. ReviewsNameTheWork
    BY ReviewsAssumption, ReviewsAreSound DEF ReviewsNameTheWork, Reviewed
  <1> QED
    BY <1>1, PTL

=============================================================================
