------------------------ MODULE MCEvaluationBundles -------------------------
(***************************************************************************)
(* Two operators with bundles of two runs. Three facts fill two pages of   *)
(* two, the last one in part, or one page of three. An initial state has    *)
(* publishers at work beside a builder, beside faults or beside the        *)
(* dashboard, or the dashboard beside builders or faults.                  *)
(***************************************************************************)
EXTENDS EvaluationBundles, TLC

CONSTANTS ann, bob, one, two

MCKind == <<"tax", "benefit", "tax">>

Budget(builds, publishes, instances, faults) ==
    [builds |-> builds, publishes |-> publishes, instances |-> instances, faults |-> faults]

MCBudgets ==
    {Budget(1, 2, 0, 0), Budget(0, 2, 0, 1), Budget(0, 2, 1, 0),
     Budget(2, 0, 1, 0), Budget(1, 0, 1, 1), Budget(2, 0, 0, 1)}

Symmetry == Permutations(Operators) \cup Permutations(Runs)

=============================================================================
