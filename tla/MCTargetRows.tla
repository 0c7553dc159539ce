----------------------------- MODULE MCTargetRows -----------------------------
(***************************************************************************)
(* What the dashboard says of the targets of the compared builds, for TLC: *)
(* the attribution of losses and the views of rows, on small surfaces.     *)
(***************************************************************************)
EXTENDS MCComparisonBuilds, SequencesExt

\* With what is pinned of the releases.
R(Support) == INSTANCE TargetRows
V == INSTANCE TargetRows WITH Support <- <<>>

(***************************************************************************)
(* Artifacts of three rows or fewer, each of which an estimate misses or   *)
(* meets, published with the loss that their recipe gives.                 *)
(***************************************************************************)

Recipes == {"uniform", "historical", "newer", "concept", "legacy"}

Measured(kind, target, final, family, concept) ==
    [kind |-> kind, target |-> target, final |-> final, family |-> family,
     concept |-> concept, reported |-> None]

Amount == Measured("amount", 4, 4, "f", None)
Missed == Measured("amount", 9, 12, "g", None)
District == Measured("indicator_mode", 4, 6, "g", "c")
Ward == Measured("indicator_mode", 1, 3, "g", "c")
OldCount == Measured("count_mode", 4, 1, "f", None)
NamedCount == Measured("count_name", 9, 9, "f", None)

Named(rows) == [i \in DOMAIN rows |-> rows[i] @@ [name |-> i]]
MeasuredRows ==
    LET kinds == {Amount, Missed, District, Ward, OldCount, NamedCount}
    IN  {Named(rows) : rows \in UNION {[1..n -> kinds] : n \in 1..3}}

Half == <<1, 2>>

Diagnosed(rows, multipliers, loss) ==
    [schema |-> 5, final_loss |-> loss, withheld |-> FALSE, basis |-> None, cap |-> Half,
     scales |-> "default_target", multipliers |-> multipliers, weighting |-> "w",
     surface |-> "s", rows |-> rows]

\* The loss of a producer that weighs by the recipe.
LossOf(targets) == V!Total(V!Column(targets, "loss"), DOMAIN targets)
ProducedLoss(recipe, rows, multipliers) ==
    LossOf(V!Evaluated(V!Reconstructed(rows,
                                       V!Evaluated(V!RecipeWeights(recipe, rows, multipliers)),
                                       IF recipe \in {"uniform", "legacy"} THEN <<1, 1>> ELSE Half)))

Produced(recipe, rows, multipliers) ==
    Diagnosed(rows, multipliers, ProducedLoss(recipe, rows, multipliers))

\* What is pinned of a release, with the digest of its diagnostics.
Pinned(recipe, diag) ==
    "parent" :> [build |-> "parent", sha |-> "sha", schema |-> diag.schema,
                 family |-> "national", count |-> Len(diag.rows),
                 names |-> V!NamesHash(diag.rows), surface |-> "s", weighting |-> "w",
                 cap |-> None, recipe |-> recipe, digest |-> diag]

Own == [build |-> "parent", sha |-> "sha", family |-> "national", inherited |-> None]
Heir(declared) ==
    [build |-> "heir", sha |-> "other", family |-> "national",
     inherited |-> [parent |-> "parent", schema |-> 5, digest |-> declared]]

Multipliers(rows) == {None, "g" :> 2}

\* Shares of the loss add up, amounts and counts weigh the same, and a concept
\* as much as the heaviest of its targets.
AddsUp(attribution, rows) ==
    LET targets == attribution.targets
    IN  /\ V!Total(V!Column(targets, "share"), DOMAIN targets) = <<1, 1>>
        /\ V!Total(V!Column(targets, "loss"), DOMAIN targets) = attribution.aggregate
        /\ \A i \in DOMAIN rows : targets[i].name = rows[i].name

EvenBases(attribution, rows, classifier) ==
    LET weights == V!Column(attribution.targets, "weight")
        of(basis) == V!OfBasis(rows, classifier, basis)
    IN  {} \in {of("amount"), of("count")} \/
            V!Total(weights, of("amount")) = V!Total(weights, of("count"))

\* District and Ward together weigh against another count as District alone.
OneBudget(attribution, rows) ==
    LET weights == V!Column(attribution.targets, "weight")
        concept == {i \in DOMAIN rows : rows[i].concept = "c"}
        roots == {V!Root(rows[i].target) : i \in concept}
        others == {i \in DOMAIN rows : rows[i].concept = None
                                        /\ V!Basis(rows[i], "legacy") = "count"}
    IN  concept # {} => \A i \in others :
            V!Over(V!Total(weights, concept), weights[i])
                = V!Fraction(CHOOSE r \in roots : \A s \in roots : s <= r,
                             V!Root(rows[i].target))

Counted == [historical |-> "historical", newer |-> "newer", concept |-> "newer",
            legacy |-> "legacy"]

AttributedRight(own, recipe, rows, multipliers) ==
    /\ own.status = IF recipe = "legacy" THEN "derived" ELSE "exact_reconstructed"
    /\ AddsUp(own, rows)
    /\ (recipe # "uniform" /\ (multipliers = None \/ recipe = "legacy")) =>
            EvenBases(own, rows, Counted[recipe])
    /\ recipe = "legacy" => OneBudget(own, rows)

OwnOf(pinned, diag, rows) == R(pinned)!Attribution("parent", diag, rows, Own, diag)
HeirOf(pinned, diag, rows) == R(pinned)!Attribution("heir", diag, rows, Heir(diag), diag)

AttributedAsProduced(recipe, rows, multipliers) ==
    LET fits == multipliers = None \/ recipe \in {"uniform", "legacy"}
                    \/ \E i \in DOMAIN rows : rows[i].family = "g"
    IN  fits => \E diag \in {Produced(recipe, rows, multipliers)} :
                    \E pinned \in {Pinned(recipe, diag)} :
                        \E own \in {OwnOf(pinned, diag, rows)} :
                            /\ AttributedRight(own, recipe, rows, multipliers)
                            /\ HeirOf(pinned, diag, rows) = own

\* The rows in another order, one less, or with another estimate.
Altered(rows) ==
    {[rows EXCEPT ![1] = rows[2], ![2] = rows[1]], Tail(rows),
     [rows EXCEPT ![1].final = @ + 1]}

\* Other diagnostics, which agree with themselves, are not the parent's.
RefusesOthers(recipe, rows) ==
    \E pinned \in {Pinned(recipe, Produced(recipe, rows, None))} :
        \A changed \in Altered(rows) :
            \E diag \in {Produced(recipe, changed, None)} :
                /\ HeirOf(pinned, diag, changed).status = "unavailable"
                /\ V!NamesHash(changed) # V!NamesHash(rows) =>
                        OwnOf(pinned, diag, changed).status = "unavailable"

\* Reported parts of two rows are taken together or not at all.
Halves == {<<1, 1>>, <<1, 2>>, <<2, 3>>, <<1, 3>>}
Part(weight, share) ==
    [weight |-> weight, share |-> share, scale |-> 4, error |-> Half,
     loss |-> V!Times(share, Half)]
ReportedWhole(weights, shares, declared, loss) ==
    LET rows == [i \in 1..2 |-> [OldCount EXCEPT !.reported = Part(weights[i], shares[i])]
                                    @@ [name |-> i]]
        hash == [i \in 1..2 |-> <<i, declared[i], 4>>]
        diag == [Diagnosed(rows, None, loss) EXCEPT !.schema = 6,
                    !.basis = [cap |-> Half, count |-> 2, hash |-> hash,
                               total |-> V!Plus(declared[1], declared[2])]]
        attribution == V!Attribution("any", diag, rows, Own, diag)
        consistent == /\ weights = declared /\ loss = Half
                      /\ \A i \in 1..2 :
                            shares[i] = V!Over(weights[i], V!Plus(weights[1], weights[2]))
    IN  (attribution.status = "reported") <=> consistent

LossesAreAttributed ==
    /\ \A rows \in MeasuredRows, recipe \in Recipes :
        /\ \A multipliers \in Multipliers(rows) : AttributedAsProduced(recipe, rows, multipliers)
        /\ Len(rows) = 2 => RefusesOthers(recipe, rows)
    /\ \A weights, declared \in [1..2 -> {<<1, 1>>, <<2, 1>>}], shares \in [1..2 -> Halves],
          loss \in {Half, <<1, 1>>} : ReportedWhole(weights, shares, declared, loss)

(***************************************************************************)
(* Rows of small calibrations. A row here differs from a plain one in a    *)
(* few respects; errors are whole per cents.                               *)
(***************************************************************************)

Nation == <<"US">>

Plain ==
    [fit |-> [target |-> 100, value |-> None, final |-> 105, estimate |-> None,
              initial |-> 150, initial_value |-> None],
     name |-> "a", base |-> "a0", names |-> {"a"}, reported_error |-> None,
     source |-> "irs", variable |-> "income", measure |-> "total", family |-> "f",
     geography |-> <<"York">>, level |-> "county", dims |-> [band |-> <<"one">>],
     record_set |-> None, scope |-> "s", healthcare |-> FALSE, text |-> {"income"},
     chronicle |-> [keys |-> {"k1"}, groupby |-> None], members |-> None,
     hierarchy |-> FALSE, listed |-> {}, factKey |-> None, identity |-> None,
     kind |-> "amount", concept |-> None, reported |-> None]

Fitted(row, target, final, initial) ==
    [row EXCEPT !.fit.target = target, !.fit.final = final, !.fit.initial = initial]
As(row, name) == [row EXCEPT !.name = name, !.base = name, !.names = {name}]

Two == As([Plain EXCEPT !.level = "district", !.dims = [band |-> <<"two">>], !.factKey = "k1"], "b")
Zero == As([Fitted(Plain, 0, 7, 0) EXCEPT !.reported_error = 7, !.geography = None,
                                          !.measure = "count"], "c")
Extremes == As([Fitted(Plain, 1, 20, 3) EXCEPT !.source = "cms", !.healthcare = TRUE,
                   !.geography = <<"Kent">>, !.dims = <<>>, !.text = {"medicaid"}], "d")
Unmade == As([Fitted(Plain, 100, None, None) EXCEPT !.identity = "i"], "e")
Aliased == As([Fitted(Plain, None, None, 104) EXCEPT !.fit.value = 100, !.fit.estimate = 90,
                  !.record_set = "r1", !.geography = <<"Kent">>], "f")
Spanning == As([Fitted(Plain, 200, 90, 104) EXCEPT !.record_set = "r2", !.variable = "wages",
                   !.members = [keys |-> {"k1", "k2"}, one_fact |-> FALSE],
                   !.dims = [band |-> <<"two">>, place |-> <<"York">>]], "g")
Skipped == As([Plain EXCEPT !.variable = "wages", !.measure = "share", !.identity = "i",
                  !.members = [keys |-> {"k1", "k3"}, one_fact |-> TRUE]], "h")

Rows == {Plain, Two, Zero, Extremes, Unmade, Aliased, Spanning, Skipped}
Lists(n) == UNION {[1..m -> Rows] : m \in 0..n}

Uniform(rows, loss) ==
    [schema |-> 5, final_loss |-> loss, withheld |-> FALSE, basis |-> None, cap |-> None,
     scales |-> None, multipliers |-> None, weighting |-> "w", surface |-> "s",
     targets |-> rows, skipped |-> {"h"}]
PinnedRows(rows) ==
    "parent" :> [build |-> "parent", sha |-> None, schema |-> 5, family |-> "national",
                 count |-> Len(rows), names |-> V!NamesHash(rows), surface |-> None,
                 weighting |-> "w", cap |-> None, recipe |-> "uniform", digest |-> None]

\* The loss of diagnostics with these rows, if they all have one.
UniformLoss(rows) ==
    IF rows # <<>> /\ \A i \in DOMAIN rows : None \notin {rows[i].target, rows[i].final}
    THEN LossOf(V!Evaluated(V!Reconstructed(rows, [i \in DOMAIN rows |-> <<1, 1>>], <<1, 1>>)))
    ELSE <<1, 1>>

\* The calibration of diagnostics with these rows and the loss they give.
Loaded(list) ==
    R(PinnedRows(list))!BuildCalibration("parent",
        Uniform(list, UniformLoss(V!CalibrationRows(Uniform(list, None), {}, Nation))),
        Own, None, {}, Nation)

Everything == [healthcare |-> FALSE, where |-> <<>>, facets |-> {}, direction |-> None,
               within |-> None, search |-> None, by |-> "abs_relative_error",
               ascending |-> FALSE, limit |-> None, offset |-> 0]
Count(rows, query) == V!DiagnosticsPage(rows, query).filtered_total

\* A leaf of either map counts what the page of its filters lists, and the
\* leaves have every target and all of the loss.
MapLeadsToPages(calibration) ==
    LET rows == calibration.rows
        whole == V!DiagnosticsPage(rows, Everything)
    IN  \A breakdown \in {"program", "geography"} :
            \E map \in {V!Treemap(rows, breakdown)} :
                /\ map.total_targets = Len(rows) /\ map.total_within_10pct = whole.within_10pct
                /\ map.available => map.total_loss = calibration.attribution.aggregate
                /\ map.available = (calibration.attribution.status # "unavailable")
                /\ \A key \in DOMAIN map.leaves :
                    LET leaf == map.leaves[key]
                        asked == [Everything EXCEPT !.where = leaf.filters]
                    IN  /\ Count(rows, asked) = leaf.n_targets
                        /\ Count(rows, [asked EXCEPT !.within = TRUE]) = leaf.within_10pct
                        /\ Count(rows, [asked EXCEPT !.within = FALSE])
                                = leaf.n_targets - leaf.within_10pct

\* Going on while there is more reads every target that passes, once, in order.
PagesTile(rows) ==
    \A ascending \in BOOLEAN, limit \in {1, 2}, within \in {None, TRUE},
       by \in {"abs_relative_error", "improvement"} :
        LET query == [Everything EXCEPT !.ascending = ascending, !.limit = limit,
                                        !.within = within, !.by = by]
            page(n) == V!DiagnosticsPage(rows, [query EXCEPT !.offset = n * limit])
            last == CHOOSE n \in 0..Len(rows) :
                        ~page(n).has_next /\ \A m \in 0..(n - 1) : page(m).has_next
        IN  FlattenSeq([n \in 1..(last + 1) |-> page(n - 1).targets]) = V!Filtered(rows, query)

\* Every value offered to narrow a variable keeps some of its targets.
FacetsNarrow(rows) ==
    \A i \in DOMAIN rows :
        LET asked == [Everything EXCEPT !.where = [variable_key |-> rows[i].variable_key]]
            chosen == SelectSeq(rows, LAMBDA row : V!Chosen(row, asked))
        IN  \A key \in V!DiagnosticsPage(rows, asked).dimensions :
                \A value \in V!Values(chosen, key) :
                    Count(rows, [asked EXCEPT !.facets = {<<key, value>>}])
                        \in 1..(Count(rows, asked) - 1)

\* Each target has one status and is counted under it, each scored one is
\* extreme or not, and areas of two levels do not share a label; a zero target
\* is met or missed altogether, and the searches for a name end.
RowsAreSorted(calibration) ==
    LET rows == calibration.rows
        whole == V!DiagnosticsPage(rows, Everything)
        best == V!Highlights(rows, Len(rows))
    IN  /\ whole.included + whole.skipped + whole.dropped = whole.total
        /\ whole.included = calibration.included
        /\ Len(best.worst) + best.extreme_count = Len(V!Scored(rows))
        /\ \A i \in DOMAIN rows :
            /\ rows[i].target = 0 => rows[i].final_error \in {0, 100, -100}
            /\ \A j \in DOMAIN rows :
                rows[i].geography = rows[j].geography /\ rows[i].geography # Nation =>
                    rows[i].level = rows[j].level
            /\ LET found == V!Investigation(rows, rows[i].name)
               IN  found.available /\ rows[found.target].name = rows[i].name

Families(rows) ==
    LET variables == V!VariableSummary(rows)
        families == V!FamilyFitSummary(rows)
        all(of) == V!SumOver("n_targets", DOMAIN of, of) = Len(rows)
    IN  all(variables) /\ all(families)

\* A fact of a target built from several finds every such target and opens
\* none of them, whichever of its facts represents it.
Represented(key, groupby, listed) ==
    [Spanning EXCEPT !.chronicle = [keys |-> {key}, groupby |-> groupby],
                     !.hierarchy = TRUE, !.listed = listed]
FactsDoNotOpen ==
    \A g1, g2 \in {None, "x", "y"} : \A listed \in SUBSET (({g1} \cap {g2}) \ {None}) :
        LET one == V!ShownChronicle(Represented("k1", g1, listed))
            two == V!ShownChronicle(Represented("k2", g2, listed))
            rows == <<Represented("k1", g1, listed), Skipped>>
        IN  /\ one.keys = two.keys /\ one.groupby = two.groupby
            /\ V!Investigation(rows, "k2") = [available |-> FALSE, member_of |-> {1}]

-----------------------------------------------------------------------------
(***************************************************************************)
(* Attributed calibrations of one or two targets, m and n or the other way *)
(* round, that the loss weighs differently and that miss by nothing or by  *)
(* half. A target has a relative error if its name is m.                   *)
(***************************************************************************)

C == INSTANCE TargetChange WITH Support <- <<>>

Weighed(name, weight, error) ==
    [name |-> name, factKey |-> None, identity |-> None, target |-> 4, final |-> 4, extra |-> 1,
     abs_relative_error |-> IF name = "m" THEN error[1] * 50 ELSE None,
     weight |-> weight, error |-> error]

WithParts(rows, total) ==
    [i \in DOMAIN rows |-> rows[i] @@
        [part |-> LET share == C!Fraction(rows[i].weight, total)
                  IN  [weight |-> <<rows[i].weight, 1>>, share |-> share, scale |-> 4,
                       error |-> rows[i].error, loss |-> C!Times(share, rows[i].error)]]]

Attributed(rows) ==
    LET total == FoldLeft(LAMBDA sum, row : sum + row.weight, 0, rows)
        parts == WithParts(rows, total)
    IN  [rows |-> parts, attribution |-> [C!InferredAttribution(parts) EXCEPT !.status = "reported"]]

Misses == {<<0, 1>>, <<1, 2>>}
Calibrations ==
    LET m == {Weighed("m", weight, error) : weight \in {0, 3}, error \in Misses}
        n == {Weighed("n", weight, error) : weight \in {1, 3}, error \in Misses}
        lists == {<<t>> : t \in m \cup n} \cup (m \X n) \cup (n \X m)
    IN  {Attributed(list) : list \in {l \in lists : \E i \in DOMAIN l : l[i].weight > 0}}

\* The changes of targets add up to that of the score, and the comparison is
\* the same from the other side. Under the pooled weights, which are one
\* whole, a score changes only if a shared target's error does.
SumsUp(there, back) ==
    /\ there.reported.netChange = C!Minus(C!Zero, back.reported.netChange)
    /\ there.reported.netChange
            = C!Minus(there.reported.grossIncrease, there.reported.grossReduction)
    /\ there.reported.grossIncrease = back.reported.grossReduction
    /\ there.reported.added = back.reported.removed
    /\ {row.match : row \in there.rows} = {<<row.match[2], row.match[1]>> : row \in back.rows}
    /\ Cardinality({row \in there.rows : row.fit = "improved"})
            = Cardinality({row \in back.rows : row.fit = "regressed"})

PoolsWeights(there, back) ==
    LET pooled == there.shared.rows
        summary == there.shared.summary
    IN  IF there.shared = None THEN back.shared = None
        ELSE /\ C!Sum(pooled, LAMBDA row : row.pooled) = <<1, 1>>
             /\ summary.reconciliationDifference = C!Zero
             /\ summary.netChange = C!Minus(C!Zero, back.shared.summary.netChange)
             /\ (\A row \in pooled : row.fit = "unchanged") => summary.netChange = C!Zero
             /\ (\A row \in pooled : row.fit \in {"improved", "unchanged"}) =>
                    ~C!Less(C!Zero, summary.netChange)

\* What cannot be compared is said to be so: without attribution, with a row
\* that has no part of it, or with parts that do not give the aggregate.
Spoiled(calibration) ==
    {[calibration EXCEPT !.attribution.status = "unavailable"],
     [calibration EXCEPT !.rows[1].part = None],
     [calibration EXCEPT !.rows[1].part.scale = 0],
     [calibration EXCEPT !.attribution.aggregate = C!Plus(@, <<1, 2>>)]}

\* A published tree, which is compared as the calibration it was built from.
Kept(calibration) == C!FromSummaries(calibration.rows, calibration.attribution)

InOrder(calibration) == calibration.rows[1].name = "m"

Changes(one, other) == C!TargetChangeDataset(one, other)
ChangesAgree(there, back, kept) ==
    /\ there.available /\ back.available /\ kept = there
    /\ SumsUp(there, back) /\ PoolsWeights(there, back)

ChangesAddUp ==
    \A one, other \in Calibrations : InOrder(one) =>
        /\ ChangesAgree(Changes(one, other), Changes(other, one), Changes(Kept(one), Kept(other)))
        /\ one = other => \A spoiled \in Spoiled(one) :
                ~Changes(spoiled, other).available /\ ~Changes(other, spoiled).available

-----------------------------------------------------------------------------

\* The rows of a later calibration: better, worse, made, no longer made.
Final == [a |-> 120, b |-> 100, c |-> 0, d |-> 2, e |-> 103, f |-> 100, g |-> None, h |-> 105]
Later(list) == [i \in DOMAIN list |-> [list[i] EXCEPT !.fit.final = Final[list[i].name]]]

\* Compared the other way round, what had improved has regressed; the rows of
\* the variables are the rows of the whole.
SameFromBoth(there, back, a, b) ==
    LET sum(column) == V!SumOver(column, DOMAIN there.variables, there.variables)
    IN  /\ there.improved = back.regressed /\ there.regressed = back.improved
        /\ there.added = back.removed /\ there.common = back.common
        /\ there.common + there.removed = Len(a.rows)
        /\ there.common + there.added = Len(b.rows)
        /\ sum("improved") = there.improved /\ sum("regressed") = there.regressed
        /\ sum("common") = there.common
        /\ there.losses_comparable = back.losses_comparable

Compares(pair, comparisons) ==
    SameFromBoth(comparisons[1], comparisons[2], pair[1], pair[2])
ComparesBothWays(pair) ==
    Compares(pair, [way \in 1..2 |-> V!BuildComparison(pair[way], pair[3 - way])])

BeforeAndAfter ==
    {[k \in 1..2 |-> Loaded(IF k = 1 THEN list ELSE Later(list))] : list \in Lists(2)}

CalibrationViewsAgree(calibration) ==
    /\ MapLeadsToPages(calibration) /\ PagesTile(calibration.rows)
    /\ FacetsNarrow(calibration.rows) /\ RowsAreSorted(calibration)
    /\ Families(calibration.rows)

ViewsAgree ==
    /\ \A list \in Lists(3) : CalibrationViewsAgree(Loaded(list))
    /\ FactsDoNotOpen
    /\ \A one, other \in BeforeAndAfter : ComparesBothWays(<<one[1], other[2]>>)
    /\ ChangesAddUp

-----------------------------------------------------------------------------

\* What is said of the loss of each target is what its producer's recipe gives
\* of these very diagnostics, and adds up; amounts and counts weigh the same,
\* a concept as much as its heaviest target; and a build that inherits its
\* calibration is told what its parent is, or nothing, whatever digest it
\* declares (normalizeTargetLossAttribution, reconstructedWeights).
LossesAreVerified == \A pair \in Pairs, m \in Modes : Exists(pair, m) => LossesAreAttributed

\* The views of a calibration agree: a leaf of the map counts and weighs what
\* the page of its filters lists, pages read every target once, facets narrow,
\* statuses and highlights divide the targets, areas of two levels stay apart,
\* facts do not open the targets they are part of; and two calibrations compare
\* the same from either side (microcosmTargetTreemap,
\* latestMicrocosmTargetDiagnosticsPage, latestMicrocosmTargetInvestigation,
\* buildComparison).
ViewsOfTargetsAgree == \A pair \in Pairs, m \in Modes : Exists(pair, m) => ViewsAgree

=============================================================================
