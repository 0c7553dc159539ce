----------------------------- MODULE TargetChange -----------------------------
(***************************************************************************)
(* How the weighted target error of a candidate differs from that of the   *)
(* current build (target-change.ts), and what a published tree keeps of a  *)
(* calibration to be compared by (calibration-tree-artifact.ts,            *)
(* calibration-build-comparison.ts).                                       *)
(*                                                                         *)
(* A calibration has its rows and the attribution of its loss: a status,   *)
(* an aggregate, a cap and a basis. A row has the keys it is matched by,   *)
(* its relative error or None, and its part of the loss or None.           *)
(***************************************************************************)
EXTENDS TargetLossAttribution

INSTANCE TargetMatching

-----------------------------------------------------------------------------

Minus(a, b) == Plus(a, <<-b[1], b[2]>>)
Larger(a, b) == IF Less(a, b) THEN b ELSE a
Zero == Whole(0)

(***************************************************************************)
(* What a tree keeps: the fields of a row that a comparison reads, and of  *)
(* the attribution what is not of one target.                              *)
(***************************************************************************)

\* COMPARISON_ROW_FIELDS.
Compared ==
    {"name", "factKey", "identity", "target", "final", "abs_relative_error", "part"}

\* comparisonReadyTarget.
CompactRow(row) == [f \in Compared |-> row[f]]

\* The comparison of compileCalibrationTreeBundleDraft, if none is given.
InferredAttribution(rows) ==
    IF /\ rows # <<>>
       /\ \A i \in DOMAIN rows : rows[i].part # None /\ ~Less(rows[i].part.loss, Zero)
    THEN [status |-> "derived", cap |-> None, basis |-> None,
          aggregate |-> Total([i \in DOMAIN rows |-> rows[i].part.loss], DOMAIN rows)]
    ELSE [status |-> "unavailable", cap |-> None, basis |-> None, aggregate |-> None]

\* calibrationFromTargetSummaries, of the summaries that are compiled.
FromSummaries(rows, given) ==
    [rows |-> [i \in DOMAIN rows |-> CompactRow(rows[i])],
     attribution |-> IF given = None THEN InferredAttribution(rows) ELSE given]

-----------------------------------------------------------------------------
(***************************************************************************)
(* Rows of a comparison. `match` is a pair of targets, 0 where one side    *)
(* has none.                                                               *)
(***************************************************************************)

\* targetSide: a part that is whole, or none.
TargetSide(calibration, i) ==
    LET part == IF i = 0 THEN None ELSE calibration.rows[i].part
    IN  IF part = None THEN None
        ELSE IF \/ part.scale <= 0
                \/ \E f \in {"weight", "share", "error", "loss"} : Less(part[f], Zero)
             THEN None
        ELSE part

Loss(side) == IF side = None THEN Zero ELSE side.loss

\* A fault the runs must notice: what the capped errors say is not asked.
FitByReported(a, b, current, candidate) ==
    IF None \in {a.abs_relative_error, b.abs_relative_error} THEN "unchanged"
    ELSE IF a.abs_relative_error < b.abs_relative_error THEN "regressed"
    ELSE IF a.abs_relative_error > b.abs_relative_error THEN "improved" ELSE "unchanged"

\* By the relative errors if both are known, else by the capped errors.
FitOfErrors(a, b, current, candidate) ==
    LET known == None \notin {a.abs_relative_error, b.abs_relative_error}
        before == IF known THEN Whole(a.abs_relative_error) ELSE current.error
        after == IF known THEN Whole(b.abs_relative_error) ELSE candidate.error
    IN  IF Less(after, before) THEN "improved"
        ELSE IF Less(before, after) THEN "regressed" ELSE "unchanged"

\* comparisonFit.
ComparisonFit(current, candidate, match) ==
    LET sides == <<TargetSide(current, match[1]), TargetSide(candidate, match[2])>>
    IN  IF None \in Range(sides) THEN "not_applicable"
        ELSE FitOfErrors(current.rows[match[1]], candidate.rows[match[2]], sides[1], sides[2])

ChangeRow(current, candidate, match) ==
    LET before == TargetSide(current, match[1])
        after == TargetSide(candidate, match[2])
    IN  [match |-> match, current |-> before, candidate |-> after,
         status |-> IF match[1] = 0 THEN "added" ELSE IF match[2] = 0 THEN "removed" ELSE "shared",
         fit |-> ComparisonFit(current, candidate, match),
         change |-> Minus(Loss(after), Loss(before))]

\* A match whose row has a target without a whole part.
Incomplete(current, candidate, match) ==
    \/ match[1] # 0 /\ TargetSide(current, match[1]) = None
    \/ match[2] # 0 /\ TargetSide(candidate, match[2]) = None

-----------------------------------------------------------------------------

Sum(rows, Of(_)) == FoldSet(LAMBDA row, sum : Plus(Of(row), sum), Zero, rows)
Having(rows, status) == {row \in rows : row.status = status}

\* summarize.
Summary(rows, included, before, after) ==
    LET up(row) == Larger(row.change, Zero)
        down(row) == Larger(Minus(Zero, row.change), Zero)
        change(row) == row.change
    IN  [currentScore |-> before, candidateScore |-> after, netChange |-> Minus(after, before),
         grossIncrease |-> Sum(included, up), grossReduction |-> Sum(included, down),
         reconciliationDifference |-> Minus(Sum(included, change), Minus(after, before)),
         comparisonTargets |-> Cardinality(included),
         shared |-> Cardinality(Having(rows, "shared")),
         added |-> Cardinality(Having(rows, "added")),
         removed |-> Cardinality(Having(rows, "removed")),
         changed |-> Cardinality({row \in included : row.change # Zero})]

\* A shared row under one weight: the mean of its shares of what is shared.
PooledRow(row, before, after) ==
    LET pooled == Over(Plus(Over(row.current.share, before), Over(row.candidate.share, after)),
                       Whole(2))
        one == Times(pooled, row.current.error)
        other == Times(pooled, row.candidate.error)
    IN  [row EXCEPT !.change = Minus(other, one)]
            @@ [pooled |-> pooled, one |-> one, other |-> other]

PooledSummary(rows, pooled) ==
    Summary(rows, pooled, Sum(pooled, LAMBDA row : row.one), Sum(pooled, LAMBDA row : row.other))

SharedSummary(rows) ==
    LET shared == Having(rows, "shared")
        before == Sum(shared, LAMBDA row : row.current.share)
        after == Sum(shared, LAMBDA row : row.candidate.share)
    IN  IF shared = {} \/ Zero \in {before, after} THEN None
        ELSE LET pooled == {PooledRow(row, before, after) : row \in shared}
             IN  [rows |-> pooled, summary |-> PooledSummary(rows, pooled)]

Unreadable(reason) == [available |-> FALSE, reason |-> reason]

\* methodology.
Comparable(current, candidate) ==
    /\ current.attribution.cap = candidate.attribution.cap
    /\ current.attribution.basis = candidate.attribution.basis

\* attributionSide.
HasAttribution(calibration) ==
    /\ calibration.attribution.status # "unavailable"
    /\ calibration.attribution.aggregate # None

Reconciled(current, candidate, rows, reported) ==
    IF reported.reconciliationDifference # Zero THEN Unreadable("unreconciled")
    ELSE [available |-> TRUE, comparable |-> Comparable(current, candidate),
          rows |-> rows, reported |-> reported, shared |-> SharedSummary(rows)]

WithRows(current, candidate, rows) ==
    Reconciled(current, candidate, rows,
               Summary(rows, rows, current.attribution.aggregate, candidate.attribution.aggregate))

WithMatches(current, candidate, matches) ==
    IF \E m \in matches : Incomplete(current, candidate, m) THEN Unreadable("incomplete")
    ELSE WithRows(current, candidate, {ChangeRow(current, candidate, m) : m \in matches})

\* buildTargetChangeDataset.
TargetChangeDataset(current, candidate) ==
    IF ~HasAttribution(current) THEN Unreadable("current")
    ELSE IF ~HasAttribution(candidate) THEN Unreadable("candidate")
    ELSE WithMatches(current, candidate, ComparisonRows(current.rows, candidate.rows))

=============================================================================
