--------------------------- MODULE TargetMatching ---------------------------
(***************************************************************************)
(* How the targets of two builds are paired (target-surface-matcher.ts):   *)
(* three strategies in turn, each among the targets that the ones before   *)
(* it left. Every pair and every target left over becomes a row of the     *)
(* comparison.                                                             *)
(*                                                                         *)
(* A surface is a build's targets in order, target i having the keys the   *)
(* strategies go by, None where it has none.                               *)
(***************************************************************************)
EXTENDS Naturals, FiniteSets

CONSTANT None

-----------------------------------------------------------------------------

\* The targets of a side that have this key, among those left of it.
Group(surface, left, key, value) == {i \in left : surface[i][key] = value}

\* Two targets match by a key that neither shares on its own side.
OnlyPair(current, candidate, lefts, key, p) ==
    LET value == current[p[1]][key]
    IN  /\ value # None
        /\ Group(current, lefts[1], key, value) = {p[1]}
        /\ Group(candidate, lefts[2], key, value) = {p[2]}

MatchedBy(current, candidate, lefts, key) ==
    {p \in lefts[1] \X lefts[2] : OnlyPair(current, candidate, lefts, key, p)}

\* A fault the runs must notice: what is matched stays to be matched again.
LeftAll(lefts, pairs) == lefts

\* What a strategy leaves to the next.
Left(lefts, pairs) ==
    <<lefts[1] \ {p[1] : p \in pairs}, lefts[2] \ {p[2] : p \in pairs}>>

ByName(current, candidate) ==
    MatchedBy(current, candidate, <<DOMAIN current, DOMAIN candidate>>, "name")

LeftByName(current, candidate) ==
    Left(<<DOMAIN current, DOMAIN candidate>>, ByName(current, candidate))

ByFactKey(current, candidate) ==
    MatchedBy(current, candidate, LeftByName(current, candidate), "factKey")

LeftByFactKey(current, candidate) ==
    Left(LeftByName(current, candidate), ByFactKey(current, candidate))

ByIdentity(current, candidate) ==
    MatchedBy(current, candidate, LeftByFactKey(current, candidate), "identity")

Unmatched(current, candidate) ==
    Left(LeftByFactKey(current, candidate), ByIdentity(current, candidate))

Shared(current, candidate) ==
    ByName(current, candidate) \cup ByFactKey(current, candidate)
        \cup ByIdentity(current, candidate)

\* The rows of a comparison: the pairs, and each other target alone, with 0
\* for the side that lacks it.
ComparisonRows(current, candidate) ==
    LET left == Unmatched(current, candidate)
    IN  Shared(current, candidate)
            \cup {<<i, 0>> : i \in left[1]} \cup {<<0, j>> : j \in left[2]}

-----------------------------------------------------------------------------
(***************************************************************************)
(* Properties of two surfaces.                                             *)
(***************************************************************************)

\* Every target of either build is on exactly one row, whatever keys collide
\* and though what one strategy leaves ambiguous falls through to the next
\* (matchTargetSurfaces deletes what it matched on both sides).
OneRowEach(current, candidate) ==
    /\ \A i \in DOMAIN current :
        \E row \in ComparisonRows(current, candidate) : row[1] = i
    /\ \A j \in DOMAIN candidate :
        \E row \in ComparisonRows(current, candidate) : row[2] = j
    /\ \A r, s \in ComparisonRows(current, candidate) :
        (r[1] = s[1] /\ r[1] # 0) \/ (r[2] = s[2] /\ r[2] # 0) => r = s

\* Comparing the builds the other way round pairs the same targets.
SameBothWays(current, candidate) ==
    Shared(candidate, current) = {<<p[2], p[1]>> : p \in Shared(current, candidate)}

=============================================================================
