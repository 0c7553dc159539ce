--------------------------- MODULE MCPublishedTrees ---------------------------
(***************************************************************************)
(* The trees that a publisher lists, for TLC: compiled, checked, published *)
(* and browsed (MCTreeParts).                                              *)
(***************************************************************************)
EXTENDS MCTreePublisher

CONSTANT Missing

T == INSTANCE MCTreeParts

Comparison == T!Published
TreesAreServed == T!TreesAreServed(Comparison)



-----------------------------------------------------------------------------

\* In either breakdown of a published tree every target is reached by exactly
\* one path of selections, the tree passes the checks made of it, and a
\* target's detail is in exactly one shard: however ragged or sparse the
\* dimensions are (hierarchyPartitions, partitionRowsByDimension) and however
\* geographies are spelled (geographyLabeller, validateCalibrationTreeBundle).
\* A tree of which one level, target, ordinal or file is wrong fails them.
\* Whatever parts of it have loaded, a page shows nothing yet or the level that
\* is built from the rows under its filters, and never refuses a path of
\* selections; going up and the breadcrumbs lead back along it
\* (calibrationTreeResponseFromBundle, parentExplorerState). What it does not
\* show it is waiting for, or has reported as failed; the detail that it shows
\* is of the selected target (useCalibrationTreeBundle). Comparing two builds
\* reads one version of each, and the detail of a compared target is of the two
\* that were compared, or is refused (loadCalibrationComparisonSource,
\* loadCalibrationComparisonTargetDetail).
PagesShowTheTree == StoredManifest.entries # {} => TreesAreServed

=============================================================================
