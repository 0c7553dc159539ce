------------------------------ MODULE TargetRows ------------------------------
(***************************************************************************)
(* The targets of a calibration as the dashboard shows them (latest-       *)
(* artifact.ts, geography-labels.ts): rows read from diagnostics, their    *)
(* pages, calibration map, summaries, highlights and investigation, and    *)
(* the comparison of two calibrations.                                     *)
(*                                                                         *)
(* Errors are whole per cents. What is parsed of names and metadata is     *)
(* given: a row's source, variable, measure, geography and `dims`, the     *)
(* value of each dimension. The order of names and of groups is left out.  *)
(***************************************************************************)
EXTENDS TargetLossAttribution

INSTANCE TargetMatching

-----------------------------------------------------------------------------
(***************************************************************************)
(* Rows. `fit` has the fields of a target row by name, canonical or alias. *)
(***************************************************************************)

\* DIAGNOSTICS_FIELD_ALIASES.
Alias == [target |-> "value", final |-> "estimate", initial |-> "initial_value"]

\* normalizeDiagnosticsRow: an alias never replaces a canonical value.
NormalizeDiagnosticsRow(raw) ==
    raw @@ [f \in DOMAIN Alias |->
                IF raw.fit[f] # None THEN raw.fit[f] ELSE raw.fit[Alias[f]]]

\* relativeError: a zero target is met or missed altogether.
RelativeError(estimate, target) ==
    IF None \in {estimate, target} THEN None
    ELSE IF target # 0 THEN ((estimate - target) * 100) \div Abs(target)
    ELSE IF estimate = 0 THEN 0
    ELSE IF estimate < 0 THEN -100
    ELSE 100

AbsOf(error) == IF error = None THEN None ELSE Abs(error)

Miss(estimate, target) == IF None \in {estimate, target} THEN None ELSE estimate - target

Decrease(before, after) == IF None \in {before, after} THEN None ELSE Abs(before) - Abs(after)

CalibrationStatus(row, skipped, dropped) ==
    IF row.names \cap skipped # {} THEN "skipped"
    ELSE IF row.names \cap dropped # {} THEN "not_materialized"
    ELSE IF row.initial = None /\ row.final = None THEN "not_materialized"
    ELSE "included"

\* A fault the runs must notice: a reported error stands for a zero target.
AsReported(row) ==
    IF row.reported_error # None THEN row.reported_error
    ELSE RelativeError(row.final, row.target)

FinalError(row) ==
    IF row.reported_error # None /\ row.target # 0 THEN row.reported_error
    ELSE RelativeError(row.final, row.target)

\* enrichTargetRow. The measure is part of the variable; a target without a
\* geography has the nation's.
EnrichTargetRow(row, skipped, dropped, nation) ==
    LET initial == RelativeError(row.initial, row.target)
        final == FinalError(row)
        placed == row.geography # None
    IN  [row EXCEPT !.geography = IF placed THEN @ ELSE nation,
                    !.level = IF placed THEN @ ELSE "country"]
        @@ [calibration_status |-> CalibrationStatus(row, skipped, dropped),
            variable_key |-> <<row.source, row.variable, row.measure>>,
            initial_error |-> initial, final_error |-> final,
            abs_relative_error |-> AbsOf(final), improvement |-> Decrease(initial, final),
            abs_final_miss |-> AbsOf(Miss(row.final, row.target)),
            absolute_improvement |-> Decrease(Miss(row.initial, row.target),
                                              Miss(row.final, row.target)),
            direction |-> IF final = None THEN None
                          ELSE IF final > 0 THEN "over" ELSE IF final < 0 THEN "under"
                          ELSE "exact"]

\* estimateScopeKey: what slices of one family have in common.
EstimateScopeKey(row) ==
    IF None \in {row.record_set, row.initial, row.final} THEN None
    ELSE <<row.scope, row.initial, row.final>>

\* addEstimateScopeWarnings: slices with different targets and one estimate.
Warned(rows, i) ==
    LET key == EstimateScopeKey(rows[i])
        group == {j \in DOMAIN rows : EstimateScopeKey(rows[j]) = key}
    IN  /\ key # None
        /\ Cardinality({rows[j].record_set : j \in group}) > 1
        /\ Cardinality({rows[j].target : j \in group}) > 1

\* levelQualifiedGeographyLabels: a label that levels share names its level.
Labelled(rows, i, nation) ==
    LET label == rows[i].geography
        levels == {rows[j].level : j \in {k \in DOMAIN rows : rows[k].geography = label}}
    IN  IF label # nation /\ Cardinality(levels) > 1
        THEN label \o <<rows[i].level>> ELSE label

DiagnosticsStatus(targets, rows) ==
    IF targets = None THEN "incompatible"
    ELSE IF rows = <<>> THEN "empty"
    ELSE IF \E i \in DOMAIN rows : rows[i].target # None \/ rows[i].final # None THEN "ok"
    ELSE "incompatible"

\* buildCalibration, before the attribution of the loss. `diag` has the
\* target rows, None if there is no list of them, and what was skipped.
CalibrationRows(diag, dropped, nation) ==
    LET targets == IF diag.targets = None THEN <<>> ELSE diag.targets
        rows == [i \in DOMAIN targets |->
                    EnrichTargetRow(NormalizeDiagnosticsRow(targets[i]),
                                    diag.skipped, dropped, nation)]
    IN  [i \in DOMAIN rows |->
            [rows[i] EXCEPT !.geography = Labelled(rows, i, nation)]
                @@ [warned |-> Warned(rows, i)]]

\* rowsWithAttribution: a row's loss is that of the target in its place.
WithLosses(rows, attribution) ==
    [i \in DOMAIN rows |->
        rows[i] @@ [loss |-> IF attribution.status = "unavailable" THEN None
                             ELSE attribution.targets[i].loss]]

BuildCalibration(release, diag, manifest, digest, dropped, nation) ==
    LET rows == CalibrationRows(diag, dropped, nation)
        attribution == Attribution(release, diag, rows, manifest, digest)
    IN  [rows |-> WithLosses(rows, attribution), attribution |-> attribution,
         loss_kind |-> LossKind(diag, attribution.status),
         status |-> DiagnosticsStatus(diag.targets, rows),
         included |-> Cardinality({i \in DOMAIN rows :
                                    rows[i].calibration_status = "included"})]

-----------------------------------------------------------------------------
(***************************************************************************)
(* The targets page. Rows stay in place: a page is a sequence of indices.  *)
(***************************************************************************)

Number(rows, Is(_)) == Cardinality({i \in DOMAIN rows : Is(rows[i])})

Within10(row) == row.abs_relative_error # None /\ row.abs_relative_error <= 10

\* The measure is left out of a program, if it is one that reads as such.
TargetProgramKey(row) ==
    IF row.measure \in {"count", "total", "amount", "mean"}
    THEN <<row.source, row.variable, None>> ELSE row.variable_key

RowFacetValue(row, key) ==
    IF key \in {"geography", "level"} THEN row[key]
    ELSE IF key \in DOMAIN row.dims THEN row.dims[key] ELSE None

Values(rows, key) == {RowFacetValue(rows[i], key) : i \in DOMAIN rows} \ {None}

\* A dimension that only has each row's geography.
RepeatsGeography(rows, key) ==
    LET carried == {i \in DOMAIN rows : RowFacetValue(rows[i], key) # None}
    IN  /\ carried # {}
        /\ \A i \in carried : RowFacetValue(rows[i], key) = rows[i].geography

ComputeDimensions(rows) ==
    LET keys == {"geography"} \cup UNION {DOMAIN rows[i].dims : i \in DOMAIN rows}
    IN  {key \in keys : /\ Cardinality(Values(rows, key)) > 1
                        /\ key = "geography" \/ ~RepeatsGeography(rows, key)}

Cell(row, column) == IF column = "program" THEN TargetProgramKey(row) ELSE row[column]

\* `where` has the value asked for of each filtered column.
Chosen(row, query) ==
    /\ query.healthcare => row.healthcare
    /\ \A column \in DOMAIN query.where : Cell(row, column) = query.where[column]

Passes(row, query) ==
    /\ Chosen(row, query)
    /\ \A f \in query.facets : RowFacetValue(row, f[1]) = f[2]
    /\ query.direction = None \/ row.direction = query.direction
    /\ query.within = None \/ Within10(row) = query.within
    /\ query.search = None \/ query.search \in row.text

\* Rows without a value come last, in either direction.
Precedes(rows, query, i, j) ==
    LET a == rows[i][query.by]
        b == rows[j][query.by]
        first == IF query.ascending THEN a < b ELSE b < a
    IN  IF None \in {a, b}
        THEN (a # None /\ b = None) \/ ((a = None) = (b = None) /\ i < j)
        ELSE first \/ (a = b /\ i < j)

Filtered(rows, query) ==
    SetToSortSeq({i \in DOMAIN rows : Passes(rows[i], query)},
                 LAMBDA i, j : Precedes(rows, query, i, j))

Limit(asked) ==
    IF asked = None \/ asked = 0 THEN 100 ELSE Max({1, Min({asked, 500})})

Slice(targets, offset, limit) ==
    SubSeq(targets, offset + 1, Min({offset + limit, Len(targets)}))

\* latestMicrocosmTargetDiagnosticsPage.
DiagnosticsPage(rows, query) ==
    LET filtered == Filtered(rows, query)
        limit == Limit(query.limit)
        scoped == SelectSeq(rows, LAMBDA row : query.healthcare => row.healthcare)
        chosen == SelectSeq(rows, LAMBDA row : Chosen(row, query))
    IN  [targets |-> Slice(filtered, query.offset, limit),
         filtered_total |-> Len(filtered),
         has_next |-> query.offset + limit < Len(filtered),
         dimensions |-> IF "variable_key" \in DOMAIN query.where
                        THEN ComputeDimensions(chosen) ELSE {},
         total |-> Len(scoped), within_10pct |-> Number(scoped, Within10),
         included |-> Number(scoped, LAMBDA row : row.calibration_status = "included"),
         skipped |-> Number(scoped, LAMBDA row : row.calibration_status = "skipped"),
         dropped |-> Number(scoped, LAMBDA row : row.calibration_status = "not_materialized")]

-----------------------------------------------------------------------------
(***************************************************************************)
(* Summaries of the rows: the calibration map, its variables and families, *)
(* and highlights.                                                         *)
(***************************************************************************)

Scored(group) == SelectSeq(group, LAMBDA row : row.abs_relative_error # None)

SumOf(group, column) ==
    FoldLeft(LAMBDA sum, row : IF row[column] = None THEN sum ELSE Plus(sum, row[column]),
             Whole(0), group)

\* A key's group of rows, and what a summary says of it.
GroupOf(rows, Key(_), key) == SelectSeq(rows, LAMBDA row : Key(row) = key)
KeysOf(rows, Key(_)) == {Key(rows[i]) : i \in DOMAIN rows}

\* categoryLevels: a category at two levels has none.
CategoryLevels(group) ==
    LET levels == {group[i].level : i \in DOMAIN group} \ {None}
    IN  [levels |-> levels,
         level |-> IF Cardinality(levels) = 1 THEN CHOOSE l \in levels : TRUE ELSE None]

Fit(group) == [n_targets |-> Len(group), scored |-> Len(Scored(group)),
               within_10pct |-> Number(group, Within10), loss |-> SumOf(group, "loss")]

VariableKey(row) == row.variable_key
VariableSummary(rows) ==
    [key \in KeysOf(rows, VariableKey) |->
        LET group == GroupOf(rows, VariableKey, key)
        IN  Fit(group) @@ CategoryLevels(group)]

Family(row) == row.family
FamilyFitSummary(rows) ==
    [key \in KeysOf(rows, Family) |-> Fit(GroupOf(rows, Family, key))]

\* microcosmTargetTreemap. A leaf is of a source; its filters are the page's.
LeafKey(row, breakdown) ==
    IF breakdown = "geography" THEN <<"geography", row.geography>>
    ELSE <<row.source, TargetProgramKey(row)>>

Leaf(rows, breakdown, key) ==
    Fit(GroupOf(rows, LAMBDA row : LeafKey(row, breakdown), key))
        @@ [filters |-> IF breakdown = "geography" THEN [geography |-> key[2]]
                        ELSE [program |-> key[2]]]

Leaves(rows, breakdown) ==
    [key \in KeysOf(rows, LAMBDA row : LeafKey(row, breakdown)) |-> Leaf(rows, breakdown, key)]

SumOver(column, keys, of) == FoldSet(LAMBDA key, sum : of[key][column] + sum, 0, keys)

Treemap(rows, breakdown) ==
    LET leaves == Leaves(rows, breakdown)
        keys == DOMAIN leaves
    IN  [leaves |-> leaves,
         available |-> rows # <<>> /\ \A i \in DOMAIN rows : rows[i].loss # None,
         total_targets |-> SumOver("n_targets", keys, leaves),
         total_within_10pct |-> SumOver("within_10pct", keys, leaves),
         total_scored |-> SumOver("scored", keys, leaves),
         total_loss |-> FoldSet(LAMBDA key, sum : Plus(leaves[key].loss, sum), Whole(0), keys)]

\* EXTREME_RELATIVE_ERROR_THRESHOLD, in per cents.
Extreme(row) == row.abs_relative_error # None /\ row.abs_relative_error > 1000
Bounded(row) == row.abs_relative_error # None /\ row.abs_relative_error <= 1000

\* The targets that are in, the largest value of a column first.
Top(rows, In(_), column, limit) ==
    LET sorted == SetToSortSeq({i \in DOMAIN rows : In(rows[i])},
                      LAMBDA i, j : \/ rows[i][column] > rows[j][column]
                                    \/ rows[i][column] = rows[j][column] /\ i < j)
    IN  SubSeq(sorted, 1, Min({limit, Len(sorted)}))

Gained(row) ==
    /\ row.improvement # None /\ row.improvement > 0
    /\ Bounded(row) /\ Abs(row.initial_error) <= 1000

\* latestMicrocosmCalibrationHighlights.
Highlights(rows, limit) ==
    [worst |-> Top(rows, Bounded, "abs_relative_error", limit),
     extreme |-> Top(rows, Extreme, "abs_relative_error", limit),
     extreme_count |-> Number(rows, Extreme),
     largest |-> Top(rows, LAMBDA row : row.abs_final_miss # None, "abs_final_miss", limit),
     improved |-> Top(rows, Gained, "improvement", limit),
     gained |-> Top(rows, LAMBDA row : row.absolute_improvement # None
                                          /\ row.absolute_improvement > 0,
                    "absolute_improvement", limit)]

-----------------------------------------------------------------------------
(***************************************************************************)
(* One target: what is shown of its facts, and how it is found. `chronicle`*)
(* has its representative's keys and group-by value, `members` the facts   *)
(* of a target built from several, None for one fact.                      *)
(***************************************************************************)

\* groupByAcrossIdentity, hierarchyListsGroupBy.
GroupByAcrossIdentity(row) ==
    IF row.chronicle.groupby = None THEN None
    ELSE IF row.members.one_fact \/ (row.hierarchy /\ row.chronicle.groupby \in row.listed)
         THEN "shared"
    ELSE IF row.hierarchy THEN "unlisted" ELSE None

\* shownChronicle: an identity of several facts has no key of its own.
ShownChronicle(row) ==
    IF row.members = None \/ Cardinality(row.members.keys) <= 1
    THEN row.chronicle @@ [member_keys |-> {}, unlisted |-> None]
    ELSE LET across == GroupByAcrossIdentity(row)
             shown == [member_keys |-> row.members.keys,
                       unlisted |-> IF across = None THEN None ELSE across = "unlisted"]
         IN  IF row.members.one_fact THEN row.chronicle @@ shown
             ELSE [row.chronicle EXCEPT !.keys = {}, !.groupby = IF across = "shared" THEN @ ELSE None]
                     @@ shown

\* What finds a target.
FoundBy(row) == {row.name, row.base} \cup ShownChronicle(row).keys

\* listsMemberFact, by the keys of the representative as well.
ListsMemberFact(row, key) ==
    LET members == ShownChronicle(row).member_keys
    IN  members # {} /\ key \in members \cup row.chronicle.keys

\* investigationSignals: labels.
InvestigationSignals(row) ==
    LET sameSide == /\ None \notin {row.initial, row.final, row.target}
                    /\ (row.initial - row.target) * (row.final - row.target) > 0
        signals ==
            (IF row.calibration_status # "included" THEN {"Target not included"} ELSE {})
            \cup (IF row.warned THEN {"Estimate scope warning"} ELSE {})
            \cup (IF row.target = 0 /\ row.final \notin {None, 0}
                  THEN {"Zero target has non-zero estimate"} ELSE {})
            \cup (IF row.abs_relative_error # None THEN {"Final fit"} ELSE {})
            \cup (IF ~sameSide THEN {}
                  ELSE IF row.improvement # None /\ row.improvement <= 0
                       THEN {"Calibration moved away"}
                  ELSE IF row.absolute_improvement > 0 THEN {"Same-side miss remains"} ELSE {})
            \cup (IF None \in {row.initial, row.final} THEN {"Missing estimate"} ELSE {})
    IN  IF signals = {} THEN {"No artifact-level warnings"} ELSE signals

\* latestMicrocosmTargetInvestigation: the first target that is found, or the
\* targets that have the fact as a member.
Investigation(rows, asked) ==
    LET found == {i \in DOMAIN rows : asked \in FoundBy(rows[i])}
    IN  IF found # {}
        THEN [available |-> TRUE, target |-> Min(found),
              signals |-> InvestigationSignals(rows[Min(found)])]
        ELSE [available |-> FALSE,
              member_of |-> {i \in DOMAIN rows : ListsMemberFact(rows[i], asked)}]

-----------------------------------------------------------------------------
(***************************************************************************)
(* Two calibrations (buildComparison), on the rows that match.             *)
(***************************************************************************)

Delta(a, b) ==
    IF None \in {a.abs_relative_error, b.abs_relative_error} THEN None
    ELSE b.abs_relative_error - a.abs_relative_error

\* A common row has the variable of the candidate.
CommonRow(a, b) ==
    [variable_key |-> b.variable_key, level |-> b.level, delta |-> Delta(a, b),
     relative |-> None \notin {a.final_error, b.final_error}]

ImprovedRow(row) == row.delta # None /\ row.delta < 0
RegressedRow(row) == row.delta # None /\ row.delta > 0

\* comparisonVariableRows.
ComparedVariable(common, key) ==
    LET group == GroupOf(common, VariableKey, key)
        relative == SelectSeq(group, LAMBDA row : row.relative)
    IN  [common |-> Len(group), relative |-> Len(relative),
         improved |-> Number(relative, ImprovedRow),
         regressed |-> Number(relative, RegressedRow),
         unchanged |-> Number(relative, LAMBDA row : row.delta = 0)] @@ CategoryLevels(group)

ComparedWith(a, b, rows, added, removed) ==
    LET improved == Number(rows, ImprovedRow)
        regressed == Number(rows, RegressedRow)
    IN  [common |-> Len(rows), added |-> added, removed |-> removed,
         improved |-> improved, regressed |-> regressed,
         unchanged |-> Len(rows) - improved - regressed,
         losses_comparable |-> /\ Len(a.rows) = Len(b.rows) /\ added = 0 /\ removed = 0
                               /\ a.loss_kind = b.loss_kind,
         variables |-> [key \in KeysOf(rows, VariableKey) |-> ComparedVariable(rows, key)]]

CommonRows(common) == [i \in DOMAIN common |-> common[i][2]]

AbsentOn(matches, side) == Cardinality({m \in matches : m[side] = 0})

MatchedWith(a, b, matches) ==
    ComparedWith(a, b,
                 CommonRows(SetToSeq({<<p, CommonRow(a.rows[p[1]], b.rows[p[2]])>> :
                                          p \in Shared(a.rows, b.rows)})),
                 AbsentOn(matches, 1), AbsentOn(matches, 2))

BuildComparison(a, b) == MatchedWith(a, b, ComparisonRows(a.rows, b.rows))

=============================================================================
