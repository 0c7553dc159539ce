----------------------------- MODULE TreeSources -----------------------------
(***************************************************************************)
(* The stored trees that a comparison is made from, and the details of its *)
(* targets, which are read from those trees when they are asked for        *)
(* (calibration-comparison-blob.ts).                                       *)
(*                                                                         *)
(* store maps the paths of the parts that are stored to documents. What    *)
(* cannot be read is Missing, and a source that has no such target None.   *)
(***************************************************************************)
EXTENDS TreeParts

Text(store, build, part) ==
    LET path == PartPath(build, part)
    IN  IF path \in DOMAIN store THEN store[path] ELSE Missing

\* A stored part that must have a digest.
Verified(store, build, descriptor) ==
    LET document == Text(store, build, descriptor.part)
    IN  IF document = Missing THEN Missing
        ELSE IF document = descriptor.digest /\ Readable(document, descriptor.part)
        THEN document ELSE Missing

\* A build's index, with the digest if one is expected.
LoadedIndex(store, build, digests) ==
    LET index == Text(store, build, IndexPart)
    IN  IF index = Missing THEN Missing
        ELSE IF /\ \A digest \in digests : index = digest
                /\ ReadableIndex(index)
                /\ index.build = build
        THEN index ELSE Missing

-----------------------------------------------------------------------------

\* A source of a comparison: its index and the summaries of its targets.
LoadedSource(store, build) ==
    LET index == LoadedIndex(store, build, {})
        summaries == [n \in DOMAIN index.body.summaries |->
                        Verified(store, build, index.body.summaries[n])]
    IN  IF index = Missing THEN Missing
        ELSE IF index.body.kind = "comparison" \/ Missing \in Range(summaries) THEN Missing
        ELSE IF SummariesAgree(index, summaries)
        THEN [index |-> index, targets |-> Concatenated(summaries)]
        ELSE Missing

\* The detail of a source's target, read from the source as it was compared.
SourceDetail(store, build, digest, ordinal) ==
    LET index == LoadedIndex(store, build, {digest})
        details == index.body.details
        at == CHOOSE s \in DetailSelection(details, ordinal - 1) : TRUE
        shard == Verified(store, build, details[at[1]])
    IN  IF ordinal = None THEN None
        ELSE IF index = Missing THEN Missing
        ELSE IF index.body.strategy # "shards" \/ DetailSelection(details, ordinal - 1) = {}
        THEN Missing
        ELSE IF shard = Missing THEN Missing
        ELSE shard.body.targets[at[2] + 1]

\* The detail of a comparison's target: what both sources have of it.
ComparedDetail(store, build, ordinal) ==
    LET index == LoadedIndex(store, build, {})
        body == index.body
        n == CHOOSE m \in DOMAIN body.summaries :
                body.summaries[m].start < ordinal /\ ordinal <= body.summaries[m].end
        shard == Verified(store, build, body.summaries[n])
        summary == shard.body.targets[ordinal - body.summaries[n].start]
        before == SourceDetail(store, body.pair.current,
                        body.artifacts["comparisonCurrentIndex"], summary.origin.current)
        after == SourceDetail(store, body.pair.candidate,
                        body.artifacts["comparisonCandidateIndex"], summary.origin.candidate)
    IN  IF index = Missing THEN Missing
        ELSE IF body.kind # "comparison" \/ ordinal \notin 1..body.count THEN Missing
        ELSE IF shard = Missing THEN Missing
        ELSE IF summary.origin = None THEN Missing
        ELSE IF Missing \in {before, after} THEN Missing
        ELSE [build |-> build, ordinal |-> ordinal, id |-> summary.id,
              target |-> [row |-> summary.row, current |-> before, candidate |-> after]]

=============================================================================
