--------------------------- MODULE MCTreePublisher ---------------------------
(***************************************************************************)
(* TLC instances of TreePublisher. Releases and staging runs are named     *)
(* <<country, id>>. Where two commits differ, the first two hold the same  *)
(* files for an "a" release and other files for every other release.       *)
(***************************************************************************)
EXTENDS TreePublisher, TLC

CONSTANTS MCIds, MCStagingIds

MCReleases == Countries \X MCIds
MCStagingRuns == Countries \X MCStagingIds
MCCountryOf == [s \in MCReleases \cup MCStagingRuns |-> s[1]]
MCContentAt == [at \in (MCReleases \cup MCStagingRuns) \X Commits |->
                    IF at[1][2] = "a" THEN 1 ELSE at[2]]

\* Jobs are interchangeable.
Symmetry == Permutations(Publishers)
=============================================================================
