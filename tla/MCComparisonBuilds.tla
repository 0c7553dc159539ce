------------------------- MODULE MCComparisonBuilds -------------------------
(***************************************************************************)
(* Comparisons for TLC; the matching of targets on every pair of small     *)
(* surfaces: up to two targets a side, with two names, a fact key and an   *)
(* identity, or none.                                                      *)
(***************************************************************************)
EXTENDS ComparisonBuilds

CONSTANTS Names, FactKeys, Identities

M == INSTANCE TargetMatching

MCParts == <<"targets">>

Keys == [name : Names \cup {None}, factKey : FactKeys \cup {None},
         identity : Identities \cup {None}]

Surfaces == UNION {[1..n -> Keys] : n \in 0..2}

Paired ==
    \A current, candidate \in Surfaces :
        M!OneRowEach(current, candidate) /\ M!SameBothWays(current, candidate)

-----------------------------------------------------------------------------

\* Every target of two builds is on exactly one row of their comparison, and
\* the comparison the other way round pairs the same targets, whichever
\* surfaces were compared and whatever keys collide on them
\* (target-surface-matcher.ts).
MatchingIsOneToOne == \A pair \in Pairs, m \in Modes : Exists(pair, m) => Paired

=============================================================================
