------------------------------ MODULE TreeParts ------------------------------
(***************************************************************************)
(* The documents that a calibration tree is stored in, what reading one    *)
(* refuses (calibration-tree-artifact.ts), and what the bundle of all of   *)
(* them is refused for before it is published (calibration-tree-bundle.ts).*)
(*                                                                         *)
(* A document stands for its bytes, so that its digest is the document.    *)
(* Targets' ordinals are counted from 1, and the ranges of shards from 0.  *)
(* A summary has the row that comparisons match, which keeps the spelling  *)
(* of a geography and not its id; a detail has the whole row.              *)
(***************************************************************************)
EXTENDS CalibrationTree

-----------------------------------------------------------------------------
(***************************************************************************)
(* What is compiled: of an input, its build and kind, the artifacts it is  *)
(* made from, the pair that a comparison is of, and for each target its    *)
(* row, id, size and, in a comparison, its ordinals in the two sources.    *)
(***************************************************************************)

CompiledTarget(input, i) ==
    [id |-> input.ids[i], size |-> input.sizes[i], origin |-> input.origins[i],
     geography |-> Label(input.rows, i), band |-> input.rows[i].band,
     row |-> [input.rows[i] EXCEPT !.place = None], detail |-> input.rows[i]]

\* A stored level: its targets, and its nodes as a set.
StoredLevel(level) ==
    [targets |-> UNION {node.members : node \in Range(level)},
     nodes |-> {[selection |-> c, members |-> level[c].members, next |-> level[c].next] :
                    c \in DOMAIN level}]

DepthsOf(tiers) == [k \in UNION Range(tiers) |-> CHOOSE d \in DOMAIN tiers : k \in tiers[d]]

DraftOf(input, tree) ==
    [build |-> input.build, kind |-> input.kind, artifacts |-> input.artifacts,
     pair |-> input.pair, roots |-> [b \in Breakdowns |-> Key(Root(b))],
     levels |-> [k \in DOMAIN tree |-> StoredLevel(tree[k])], depths |-> DepthsOf(Tiers(tree)),
     targets |-> [i \in DOMAIN input.rows |-> CompiledTarget(input, i)]]

Draft(input) == DraftOf(input, Compiled(input.rows))

\* A level at several depths, or at none, is not compiled.
Compiles(tree, tiers) ==
    /\ \A d, e \in DOMAIN tiers : d # e => tiers[d] \cap tiers[e] = {}
    /\ UNION Range(tiers) = DOMAIN tree

-----------------------------------------------------------------------------
(***************************************************************************)
(* The documents of a draft.                                               *)
(***************************************************************************)

IndexPart == <<"index", 0>>
FilterPart == <<"filter-index", 0>>
TierPart(depth) == <<"tier", depth>>
SummaryPart(n) == <<"target-summary", n>>
DetailsPart(n) == <<"target-details", n>>

PartPath(build, part) == <<build, part>>

Document(build, part, body) == [build |-> build, part |-> part, body |-> body]

Tier(draft, depth) ==
    Document(draft.build, TierPart(depth),
        [depth |-> depth, count |-> Len(draft.targets),
         levels |-> Restrict(draft.levels, {k \in DOMAIN draft.levels : draft.depths[k] = depth})])

\* The ordinals that have each value.
PostingsOf(values) == [v \in Range(values) |-> {i \in DOMAIN values : values[i] = v}]

FilterIndex(draft) ==
    LET facets == [i \in DOMAIN draft.targets |-> draft.targets[i]]
    IN  Document(draft.build, FilterPart,
            [count |-> Len(facets),
             geographies |-> PostingsOf([i \in DOMAIN facets |-> facets[i].geography]),
             bands |-> PostingsOf([i \in DOMAIN facets |-> facets[i].band])])

Summary(target) == [id |-> target.id, row |-> target.row, origin |-> target.origin]

SummaryShard(draft, n, shard) ==
    Document(draft.build, SummaryPart(n),
        [start |-> shard.start, end |-> shard.end,
         targets |-> [i \in 1..(shard.end - shard.start) |->
                        Summary(draft.targets[shard.start + i])]])

DetailsShard(draft, n, shard) ==
    Document(draft.build, DetailsPart(n),
        [start |-> shard.start, end |-> shard.end,
         targets |-> [i \in 1..(shard.end - shard.start) |->
                        draft.targets[shard.start + i].detail]])

\* What the index says of another document, and of a tier's and a shard's.
Descriptor(document) ==
    [part |-> document.part, path |-> PartPath(document.build, document.part),
     digest |-> document]

TierDescriptor(document) ==
    Descriptor(document) @@ [depth |-> document.body.depth, levels |-> DOMAIN document.body.levels]

ShardDescriptor(document) ==
    Descriptor(document) @@ [start |-> document.body.start, end |-> document.body.end]

File(document) ==
    [part |-> document.part, path |-> PartPath(document.build, document.part),
     document |-> document, digest |-> document]

\* The limit is of a shard's size; a comparison has no details of its own.
BundleOf(draft, limit) ==
    LET Each(op(_), seq) == [i \in DOMAIN seq |-> op(seq[i])]
        shards == Shards([i \in DOMAIN draft.targets |-> draft.targets[i].size], limit)
        summaries == [n \in DOMAIN shards |-> SummaryShard(draft, n, shards[n])]
        details == IF draft.kind = "comparison" THEN <<>>
                   ELSE [n \in DOMAIN shards |-> DetailsShard(draft, n, shards[n])]
        tiers == [d \in 1..Max({0} \cup Range(draft.depths)) |-> Tier(draft, d)]
        index == Document(draft.build, IndexPart,
            [kind |-> draft.kind, artifacts |-> draft.artifacts, pair |-> draft.pair,
             count |-> Len(draft.targets), depth |-> Len(tiers), roots |-> draft.roots,
             levels |-> Restrict(draft.levels, {k \in DOMAIN draft.levels : draft.depths[k] = 0}),
             tiers |-> Each(TierDescriptor, tiers),
             filterIndex |-> Descriptor(FilterIndex(draft)),
             summaries |-> Each(ShardDescriptor, summaries),
             strategy |-> IF draft.kind = "comparison" THEN "source-targets" ELSE "shards",
             details |-> Each(ShardDescriptor, details)])
    IN  [index |-> index,
         files |-> Each(File, <<FilterIndex(draft)>> \o summaries \o details \o tiers
                                \o <<index>>)]

-----------------------------------------------------------------------------
(***************************************************************************)
(* Reading a document that is expected to be a part of a tree.             *)
(***************************************************************************)

\* It says which part it is.
Identified(document, part) == document.part = part

\* Levels, of targets that are counted: what a level has is what is on it.
ReadableLevels(levels, count) ==
    \A level \in Range(levels) :
        /\ level.targets = UNION {node.members : node \in level.nodes}
        /\ level.targets \subseteq 1..count
        /\ \A node \in level.nodes :
            IF Descends(node.selection) THEN node.next # None
            ELSE node.members = {node.selection[2]}

Describes(descriptor, build, part) ==
    descriptor.part = part /\ descriptor.path = PartPath(build, part)

\* The ranges of shards follow each other, and cover the targets.
RangesCover(shards, name, build, count) ==
    LET end(n) == IF n = 0 THEN 0 ELSE shards[n].end
    IN  /\ \A n \in DOMAIN shards :
            /\ Describes(shards[n], build, <<name, n>>)
            /\ shards[n].start = end(n - 1)
            /\ shards[n].start < shards[n].end /\ shards[n].end <= count
        /\ end(Len(shards)) = count

\* A comparison is made from two indexes, and other trees from diagnostics.
BuildAccepted(body) ==
    IF body.kind = "comparison"
    THEN {"comparisonCurrentIndex", "comparisonCandidateIndex"} \subseteq DOMAIN body.artifacts
    ELSE "calibrationDiagnostics" \in DOMAIN body.artifacts

ReadableIndex(document) ==
    LET body == document.body
        build == document.build
    IN  /\ Identified(document, IndexPart)
        /\ BuildAccepted(body)
        /\ ReadableLevels(body.levels, body.count)
        /\ \A b \in Breakdowns : body.roots[b] \in DOMAIN body.levels
        /\ Len(body.tiers) = body.depth
        /\ \A d \in DOMAIN body.tiers :
            Describes(body.tiers[d], build, TierPart(d)) /\ body.tiers[d].depth = d
        /\ Describes(body.filterIndex, build, FilterPart)
        /\ RangesCover(body.summaries, "target-summary", build, body.count)
        /\ IF body.kind = "comparison"
           THEN body.strategy = "source-targets" /\ body.details = <<>>
           ELSE /\ body.strategy = "shards"
                /\ RangesCover(body.details, "target-details", build, body.count)

ReadableTier(document, part) ==
    /\ Identified(document, part)
    /\ part = TierPart(document.body.depth)
    /\ ReadableLevels(document.body.levels, document.body.count)

ReadableFilterIndex(document) ==
    /\ Identified(document, FilterPart)
    /\ UNION (Range(document.body.geographies) \cup Range(document.body.bands))
            \subseteq 1..document.body.count

\* A shard has a target for each ordinal of its range.
FillsRange(body) == body.start < body.end /\ Len(body.targets) = body.end - body.start

ReadableSummary(document, part) ==
    /\ Identified(document, part)
    /\ FillsRange(document.body)
    /\ \A i, j \in DOMAIN document.body.targets :
        document.body.targets[i].id = document.body.targets[j].id => i = j

ReadableDetails(document, part) == Identified(document, part) /\ FillsRange(document.body)

Readable(document, part) ==
    /\ Identified(document, part)
    /\ CASE part = IndexPart -> ReadableIndex(document)
         [] part = FilterPart -> ReadableFilterIndex(document)
         [] part[1] = "target-summary" -> ReadableSummary(document, part)
         [] part[1] = "target-details" -> ReadableDetails(document, part)
         [] part[1] = "tier" -> ReadableTier(document, part)

-----------------------------------------------------------------------------
(***************************************************************************)
(* The checks of a bundle: its files, the postings of its filter index and *)
(* the graph of its levels.                                                *)
(***************************************************************************)

Concatenated(shards) == FlattenSeq([n \in DOMAIN shards |-> shards[n].body.targets])

\* The summaries that are read are those of the index, and an id is of one
\* target.
SummariesAgree(index, summaries) ==
    LET targets == Concatenated(summaries)
    IN  /\ \A n \in DOMAIN summaries :
            /\ summaries[n].part = index.body.summaries[n].part
            /\ summaries[n].build = index.build
            /\ summaries[n].body.start = index.body.summaries[n].start
            /\ summaries[n].body.end = index.body.summaries[n].end
        /\ \A i, j \in DOMAIN targets : targets[i].id = targets[j].id => i = j
        /\ Len(targets) = index.body.count

\* The parts with the names in names, in order.
PartsOf(bundle, names) ==
    LET chosen == SelectSeq(bundle.files, LAMBDA f : f.part[1] \in names)
    IN  [n \in DOMAIN chosen |-> chosen[n].document]

\* Geographies by the nodes of the root; each is there once.
NodePostings(index) ==
    LET nodes == index.body.levels[index.body.roots["geography"]].nodes
    IN  [l \in {node.selection[2] : node \in nodes} |->
            (CHOOSE node \in nodes : node.selection = <<"geography", l>>).members]

ListsGeographiesOnce(index) ==
    LET nodes == index.body.levels[index.body.roots["geography"]].nodes
    IN  /\ \A node \in nodes : node.selection[1] = "geography"
        /\ \A m, n \in nodes : m.selection = n.selection => m = n

\* By the rows: those with ids if there are any, or each by its own spelling.
FollowRows(postings, rows, details) ==
    LET labelled == IF details # <<>> THEN details ELSE rows
    IN  \/ postings = PostingsOf([i \in DOMAIN labelled |-> Label(labelled, i)])
        \/ postings = PostingsOf([i \in DOMAIN rows |-> rows[i].spelling])

ValidPostings(bundle) ==
    LET body == bundle.index.body
        filters == PartsOf(bundle, {"filter-index"})[1].body
        targets == Concatenated(PartsOf(bundle, {"target-summary"}))
        details == Concatenated(PartsOf(bundle, {"target-details"}))
        rows == [i \in DOMAIN targets |-> targets[i].row]
    IN  /\ filters.count = body.count /\ Len(targets) = body.count
        /\ Len(details) = IF body.strategy = "shards" THEN body.count ELSE 0
        /\ \A i, j \in DOMAIN targets : targets[i].id = targets[j].id => i = j
        /\ body.strategy = "source-targets" =>
                \A i \in DOMAIN targets : targets[i].origin # None
        /\ filters.bands = PostingsOf([i \in DOMAIN rows |-> rows[i].band])
        /\ ListsGeographiesOnce(bundle.index)
        /\ filters.geographies = NodePostings(bundle.index)
        /\ FollowRows(filters.geographies, rows, details)

\* All the levels: where two parts have one, the later part's.
AllLevels(index, tiers) ==
    FoldLeft(LAMBDA levels, tier : tier.body.levels @@ levels, index.body.levels, tiers)

Branches(level) == {node \in level.nodes : Descends(node.selection)}

\* The levels in so many steps from the roots.
LevelsAfter(levels, roots) ==
    LET after[n \in 0..Cardinality(DOMAIN levels)] ==
            IF n = 0 THEN roots
            ELSE UNION {{node.next : node \in Branches(levels[k])} :
                            k \in after[n - 1] \cap DOMAIN levels}
    IN  after

\* The depths that the descriptors give levels.
DescribedDepths(body) ==
    FoldLeft(LAMBDA depths, tier : [k \in tier.levels |-> tier.depth] @@ depths,
             [k \in DOMAIN body.levels |-> 0], body.tiers)

\* Both roots cover all targets; a branch has what the level it leads to has;
\* and every level is at the one depth that is described.
ValidGraph(bundle) ==
    LET body == bundle.index.body
        levels == AllLevels(bundle.index, PartsOf(bundle, {"tier"}))
        after == LevelsAfter(levels, Range(body.roots))
        described == DescribedDepths(body)
    IN  /\ UNION Range(after) = DOMAIN levels
        /\ \A b \in Breakdowns : levels[body.roots[b]].targets = 1..body.count
        /\ \A k \in DOMAIN levels : \A node \in Branches(levels[k]) :
            node.members = levels[node.next].targets
        /\ DOMAIN described = DOMAIN levels
        /\ \A n \in DOMAIN after : \A k \in after[n] : described[k] = n

\* The parts that an index names, in the order of the files.
ExpectedParts(body) ==
    LET Parts(descriptors) == [n \in DOMAIN descriptors |-> descriptors[n].part]
    IN  <<FilterPart>> \o Parts(body.summaries) \o Parts(body.details) \o Parts(body.tiers)
            \o <<IndexPart>>

\* A descriptor is of the file of its part.
DescribesFile(descriptor, file) ==
    /\ descriptor.path = file.path /\ descriptor.digest = file.digest
    /\ file.part[1] \in {"target-summary", "target-details"} =>
            /\ descriptor.start = file.document.body.start
            /\ descriptor.end = file.document.body.end

ValidFiles(bundle) ==
    LET index == bundle.index
        body == index.body
        FileOf(part) == SelectSeq(bundle.files, LAMBDA f : f.part = part)[1]
    IN  /\ [n \in DOMAIN bundle.files |-> bundle.files[n].part] = ExpectedParts(body)
        /\ \A file \in Range(bundle.files) :
            /\ file.path = PartPath(index.build, file.part)
            /\ Readable(file.document, file.part)
            /\ file.document.build = index.build
            /\ file.digest = file.document
        /\ FileOf(IndexPart).document = index
        /\ \A descriptor \in Range(body.tiers) \cup {body.filterIndex}
                \cup Range(body.summaries) \cup Range(body.details) :
            DescribesFile(descriptor, FileOf(descriptor.part))

Valid(bundle) ==
    /\ ReadableIndex(bundle.index)
    /\ ValidFiles(bundle)
    /\ ValidPostings(bundle)
    /\ ValidGraph(bundle)
=============================================================================
