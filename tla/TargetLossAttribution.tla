------------------------ MODULE TargetLossAttribution ------------------------
(***************************************************************************)
(* How much of a calibration's final loss each target carries, and whether *)
(* the dashboard may say so (target-loss-attribution.ts): as the producer  *)
(* reported it, as a pinned recipe reconstructs it, or not at all. The     *)
(* calibration is the release's own or inherited from a parent build.      *)
(*                                                                         *)
(* Weights, shares and losses are exact fractions, so a floating point     *)
(* tolerance is equality. A hash is what it is the hash of. A row has its  *)
(* name, target and final estimate, its registry family, the concept of a  *)
(* district target, and the kind of its measure, by which counts are told  *)
(* from amounts. A build's `sha` stands for the commit of its code too.    *)
(***************************************************************************)
EXTENDS Integers, FiniteSets, Sequences, FiniteSetsExt, SequencesExt, Functions

CONSTANTS
    None,
    Support         \* HISTORICAL_ATTRIBUTION_SUPPORT_BY_RELEASE: release -> what is pinned

-----------------------------------------------------------------------------
\* Fractions <<n, d>> in lowest terms.

Abs(n) == IF n < 0 THEN -n ELSE n

Gcd[m \in Nat, n \in Nat] == IF n = 0 THEN m ELSE Gcd[n, m % n]

Fraction(n, d) ==
    LET g == Gcd[Abs(n), Abs(d)]
    IN  IF d < 0 THEN <<(-n) \div g, (-d) \div g>> ELSE <<n \div g, d \div g>>

Whole(n) == <<n, 1>>
Plus(a, b) == Fraction(a[1] * b[2] + b[1] * a[2], a[2] * b[2])
Times(a, b) == Fraction(a[1] * b[1], a[2] * b[2])
Over(a, b) == Fraction(a[1] * b[2], a[2] * b[1])
Less(a, b) == a[1] * b[2] < b[1] * a[2]
LesserOf(a, b) == IF Less(b, a) THEN b ELSE a

\* The sequence itself: TLC evaluates its elements once.
Evaluated(seq) == seq \o <<>>

\* The sum of x[i] over the indices.
Total(x, indices) == FoldSet(LAMBDA i, sum : Plus(sum, x[i]), Whole(0), indices)

-----------------------------------------------------------------------------
(***************************************************************************)
(* Weights that a recipe reconstructs.                                     *)
(***************************************************************************)

\* historicalBasis, newerBasis and legacyCurrentDoctrineBasis.
CountedBy(classifier) ==
    CASE classifier = "historical" -> {"count_mode", "enrollment"}
      [] classifier = "newer" -> {"indicator_mode", "enrollment"}
      [] classifier = "legacy" -> {"indicator_mode", "enrollment", "count_name"}

Basis(row, classifier) == IF row.kind \in CountedBy(classifier) THEN "count" ELSE "amount"

OfBasis(rows, classifier, basis) == {i \in DOMAIN rows : Basis(rows[i], classifier) = basis}

\* The square root of the target, at least 1; the targets are squares.
Root(target) == CHOOSE r \in 1..Max({Abs(target), 1}) : r * r = Max({Abs(target), 1})

\* Relative to the mean of the rows with the basis; every row has a target.
SquareRootWeights(rows, classifier) ==
    LET raw == Evaluated([i \in DOMAIN rows |-> Whole(Root(rows[i].target))])
        of(i) == OfBasis(rows, classifier, Basis(rows[i], classifier))
    IN  [i \in DOMAIN rows |->
            Over(Times(raw[i], Whole(Cardinality(of(i)))), Total(raw, of(i)))]

\* Targets of one concept: a district's are of its concept, others by name.
OneConcept(a, b, classifier) ==
    /\ Basis(a, classifier) = Basis(b, classifier) /\ a.family = b.family
    /\ IF None \in {a.concept, b.concept}
       THEN a.concept = b.concept /\ a.name = b.name ELSE a.concept = b.concept

\* A concept weighs as much as the heaviest of its targets.
ConceptBudget(weights, rows, classifier) ==
    LET concept(i) == {j \in DOMAIN rows : OneConcept(rows[i], rows[j], classifier)}
        budget(i) == weights[CHOOSE j \in concept(i) :
                                \A k \in concept(i) : ~Less(weights[j], weights[k])]
    IN  [i \in DOMAIN rows |->
            Times(weights[i], Over(budget(i), Total(weights, concept(i))))]

\* Amounts and counts weigh the same in all.
BasesEqual(weights, rows, classifier) ==
    LET bases == {Basis(rows[i], classifier) : i \in DOMAIN rows}
        of(i) == OfBasis(rows, classifier, Basis(rows[i], classifier))
    IN  [i \in DOMAIN rows |->
            Times(weights[i], Over(Fraction(Len(rows), Cardinality(bases)),
                                   Total(weights, of(i))))]

MeanOne(weights) ==
    [i \in DOMAIN weights |->
        Over(Times(weights[i], Whole(Len(weights))), Total(weights, DOMAIN weights))]

\* Multipliers of families, each positive and of a family that has targets.
MultipliersFit(multipliers, rows) ==
    \A f \in DOMAIN multipliers :
        multipliers[f] > 0 /\ \E i \in DOMAIN rows : rows[i].family = f

Multiplied(weights, rows, multipliers) ==
    MeanOne(Evaluated([i \in DOMAIN rows |->
        IF rows[i].family \in DOMAIN multipliers
        THEN Times(weights[i], Whole(multipliers[rows[i].family])) ELSE weights[i]]))

Budgeted(weights, rows, classifier, conceptBudget) ==
    IF conceptBudget THEN Evaluated(ConceptBudget(weights, rows, classifier)) ELSE weights

EvenWeights(weights, rows, classifier) ==
    Evaluated(MeanOne(Evaluated(BasesEqual(weights, rows, classifier))))

WithMultipliers(weights, rows, multipliers) ==
    IF multipliers = None THEN weights
    ELSE IF MultipliersFit(multipliers, rows) THEN Multiplied(weights, rows, multipliers)
    ELSE None

\* reconstructedWeights.
ReconstructedWeights(rows, classifier, conceptBudget, multipliers) ==
    IF rows = <<>> \/ \E i \in DOMAIN rows : rows[i].target = None THEN None
    ELSE WithMultipliers(
            EvenWeights(Budgeted(Evaluated(SquareRootWeights(rows, classifier)), rows,
                                 classifier, conceptBudget),
                        rows, classifier),
            rows, multipliers)

Classifier == [historical |-> "historical", newer |-> "newer", concept |-> "newer",
               legacy |-> "legacy"]

RecipeWeights(recipe, rows, multipliers) ==
    IF recipe = "uniform" THEN [i \in DOMAIN rows |-> Whole(1)]
    ELSE ReconstructedWeights(rows, Classifier[recipe], recipe \in {"concept", "legacy"},
                              IF recipe = "legacy" THEN None ELSE multipliers)

-----------------------------------------------------------------------------
(***************************************************************************)
(* Attributions.                                                           *)
(***************************************************************************)

Unavailable == [status |-> "unavailable", aggregate |-> None, targets |-> <<>>]

\* targetLossBasisHash and orderedTargetNamesHash.
BasisHash(targets) == [i \in DOMAIN targets |-> <<targets[i].name, targets[i].weight, targets[i].scale>>]
NamesHash(rows) == [i \in DOMAIN rows |-> rows[i].name]

CappedError(row, scale, cap) == LesserOf(Fraction(Abs(row.final - row.target), scale), cap)

\* A row whose reported parts are all there, and agree with its estimate.
ReportedRow(row, cap) ==
    LET part == row.reported
    IN  /\ None \notin {row.target, row.final, part}
        /\ part.scale > 0 /\ part.weight[1] >= 0 /\ part.share[1] >= 0
        /\ part.error = CappedError(row, part.scale, cap)
        /\ part.loss = Times(part.share, part.error)

Reported(row) ==
    [name |-> row.name, weight |-> row.reported.weight, share |-> row.reported.share,
     scale |-> row.reported.scale, error |-> row.reported.error, loss |-> row.reported.loss]

Column(targets, c) == [i \in DOMAIN targets |-> targets[i][c]]

\* The parts agree with one another, with the loss and with the basis.
ReportedTogether(targets, basis, finalLoss) ==
    LET weight == Total(Column(targets, "weight"), DOMAIN targets)
    IN  /\ weight = basis.total
        /\ Total(Column(targets, "share"), DOMAIN targets) = Whole(1)
        /\ \A i \in DOMAIN targets : targets[i].share = Over(targets[i].weight, weight)
        /\ Total(Column(targets, "loss"), DOMAIN targets) = finalLoss
        /\ BasisHash(targets) = basis.hash

BasisAccepted(basis, rows) ==
    /\ basis # None /\ basis.count = Len(rows)
    /\ Less(Whole(0), basis.cap) /\ Less(Whole(0), basis.total)

\* reportedAttribution: what diagnostics of schema 6 say, if it all holds.
ReportedAttribution(diag, rows) ==
    LET targets == [i \in DOMAIN rows |-> Reported(rows[i])]
    IN  IF /\ ~diag.withheld /\ diag.final_loss # None
           /\ BasisAccepted(diag.basis, rows)
           /\ \A i \in DOMAIN rows : ReportedRow(rows[i], diag.basis.cap)
           /\ ReportedTogether(targets, diag.basis, diag.final_loss)
        THEN [status |-> "reported", aggregate |-> diag.final_loss, targets |-> targets]
        ELSE Unavailable

\* reconstructTargetLossAttribution.
RecipeAccepted(support, diag) ==
    \/ support.recipe \in {"legacy", "uniform"}
    \/ diag.cap # None /\ Less(Whole(0), diag.cap) /\ diag.scales = "default_target"

Reconstructed(rows, weights, cap) ==
    LET sum == Total(weights, DOMAIN rows)
    IN  [i \in DOMAIN rows |->
            LET scale == Max({Abs(rows[i].target), 1})
                error == CappedError(rows[i], scale, cap)
                share == Over(weights[i], sum)
            IN  [name |-> rows[i].name, weight |-> weights[i], share |-> share,
                 scale |-> scale, error |-> error, loss |-> Times(share, error)]]

\* A derived attribution is not held to the producer's loss.
ReconstructedTogether(derived, targets, aggregate, finalLoss) ==
    IF ~derived /\ aggregate # finalLoss THEN Unavailable
    ELSE [status |-> IF derived THEN "derived" ELSE "exact_reconstructed",
          aggregate |-> aggregate, targets |-> targets]

WithLoss(derived, targets, finalLoss) ==
    ReconstructedTogether(derived, targets, Total(Column(targets, "loss"), DOMAIN targets),
                          finalLoss)

WithWeights(support, diag, rows, weights) ==
    LET unweighted == support.recipe \in {"legacy", "uniform"}
        cap == IF unweighted THEN Whole(1) ELSE diag.cap
    IN  IF weights = None \/ \E i \in DOMAIN rows : None \in {rows[i].target, rows[i].final}
        THEN Unavailable
        ELSE WithLoss(support.recipe = "legacy", Evaluated(Reconstructed(rows, weights, cap)),
                      diag.final_loss)

Reconstruct(support, diag, rows) ==
    IF \/ diag.final_loss = None \/ ~RecipeAccepted(support, diag)
       \/ diag.multipliers = <<>> \/ rows = <<>>
    THEN Unavailable
    ELSE WithWeights(support, diag, rows, RecipeWeights(support.recipe, rows, diag.multipliers))

-----------------------------------------------------------------------------
(***************************************************************************)
(* Evidence that an artifact is the one a recipe was pinned for.           *)
(***************************************************************************)

\* supportContentFailure.
ContentAccepted(support, diag, rows, family) ==
    /\ support.schema = diag.schema /\ support.family = family
    /\ support.count = Len(rows) /\ support.names = NamesHash(rows)
    /\ support.surface \in {None, diag.surface}
    /\ support.weighting = diag.weighting
    /\ support.cap \in {None, diag.cap}

\* supportEvidenceFailure.
EvidenceAccepted(support, diag, rows, manifest) ==
    /\ support.build = manifest.build /\ support.sha \in {None, manifest.sha}
    /\ ContentAccepted(support, diag, rows, manifest.family)

\* A fault the runs must notice: the parent's own digest is not compared.
DeclaredOnly(support, declared, digest) == None \notin {declared, digest} /\ declared = digest

\* The downloaded digest is the one declared, and that of the pinned parent.
DigestsAgree(support, declared, digest) ==
    None \notin {declared, digest, support.digest} /\ declared = digest /\ digest = support.digest

\* classifyInheritedAttributionEvidence.
InheritedAccepted(diag, rows, manifest, digest) ==
    LET parent == manifest.inherited.parent
        support == Support[parent]
    IN  /\ parent # None /\ parent \in DOMAIN Support /\ support.build = parent
        /\ manifest.inherited.schema # None /\ manifest.inherited.schema = diag.schema
        /\ DigestsAgree(support, manifest.inherited.digest, digest)
        /\ support.surface # None /\ diag.surface # None
        /\ ContentAccepted(support, diag, rows, manifest.family)

\* normalizeTargetLossAttribution: `manifest` is the build's, with what
\* it says is inherited.
Attribution(release, diag, rows, manifest, digest) ==
    LET inherited == manifest.inherited # None
        source == IF inherited THEN manifest.inherited.parent ELSE release
    IN  IF inherited /\ ~InheritedAccepted(diag, rows, manifest, digest) THEN Unavailable
        ELSE IF diag.schema # None /\ diag.schema >= 6 THEN ReportedAttribution(diag, rows)
        ELSE IF source \notin DOMAIN Support THEN Unavailable
        ELSE IF ~inherited /\ ~EvidenceAccepted(Support[source], diag, rows, manifest)
            THEN Unavailable
        ELSE Reconstruct(Support[source], diag, rows)

Provenance(release, diag, rows, manifest, digest) ==
    IF manifest.inherited = None
    THEN [mode |-> "direct", source |-> release, validation |-> "not_applicable"]
    ELSE [mode |-> "inherited", source |-> manifest.inherited.parent,
          validation |-> IF Attribution(release, diag, rows, manifest, digest).status = "unavailable"
                         THEN "failed" ELSE "verified"]

\* calibrationLossKind.
LossKind(diag, status) ==
    IF \/ status \in {"reported", "exact_reconstructed"}
       \/ diag.schema # None /\ diag.schema >= 6
       \/ diag.basis # None \/ diag.weighting # None \/ diag.cap # None \/ diag.scales # None
    THEN "normalized_target_loss" ELSE "raw_optimizer_objective"

=============================================================================
