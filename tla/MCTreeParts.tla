----------------------------- MODULE MCTreeParts -----------------------------
(***************************************************************************)
(* Rows, drafts and stores for TLC: trees compiled, stored and browsed on  *)
(* every sequence of rows of a few small families, trees that a faulty     *)
(* compiler would store, and pages and comparisons of a few of them.       *)
(***************************************************************************)
EXTENDS TreePage, TreeSources

(***************************************************************************)
(* Rows of one program in one geography, with dimensions: as paths, which  *)
(* end early, reverse and rejoin, and as sparse dimensions that overlap,   *)
(* one row having two values for a key. Every other row has band 1.        *)
(***************************************************************************)

Paths == <<<<>>, <<<<1, 1>>>>, <<<<1, 2>>>>, <<<<2, 1>>>>, <<<<2, 2>>>>,
           <<<<1, 1>>, <<2, 1>>>>, <<<<1, 1>>, <<2, 2>>>>,
           <<<<1, 2>>, <<2, 1>>>>, <<<<1, 2>>, <<2, 2>>>>,
           <<<<2, 1>>, <<1, 1>>>>, <<<<2, 1>>, <<1, 2>>>>,
           <<<<2, 2>>, <<1, 1>>>>, <<<<2, 2>>, <<1, 2>>>>>>

Sparse == <<<<<<1, 1>>>>, <<<<1, 2>>>>, <<<<1, 1>>, <<1, 2>>>>,
            <<<<1, 1>>, <<2, 1>>>>, <<<<1, 2>>, <<2, 2>>>>, <<<<2, 1>>, <<3, 1>>>>,
            <<<<2, 2>>, <<3, 2>>>>, <<<<1, 1>>, <<3, 2>>>>>>

\* Up to n of them, in order.
UpTo(n, seq) ==
    UNION {{[i \in 1..m |-> seq[f[i]]] :
            f \in {g \in [1..m -> DOMAIN seq] : \A i \in 2..m : g[i - 1] <= g[i]}} :
                m \in 1..n}

Branching ==
    {[i \in DOMAIN dims |->
        [program |-> <<"irs", "income">>, place |-> None, spelling |-> "Maine",
         hierarchy |-> TRUE, dims |-> dims[i], band |-> i % 2]] : dims \in UpTo(3, Paths)}
    \cup
    {[i \in DOMAIN dims |->
        [program |-> <<"irs", "income">>, place |-> None, spelling |-> "Maine",
         hierarchy |-> FALSE, dims |-> dims[i], band |-> i % 2]] : dims \in UpTo(4, Sparse)}

\* Rows of programs in geographies that are spelled two ways, with an id,
\* which another spelled alike may have, or none: three of a program, or two.
Placed ==
    LET among(programs) == [program : programs, spelling : {"Maine", "ME"},
                            place : {None, <<"state", 1>>, <<"county", 1>>}]
        rows == [1..3 -> among({<<"irs", "income">>})]
            \cup [1..2 -> among({<<"irs", "income">>, <<"irs", "wages">>})]
    IN  {[i \in DOMAIN r |->
            [program |-> r[i].program, place |-> r[i].place, spelling |-> r[i].spelling,
             hierarchy |-> TRUE, dims |-> <<>>, band |-> i % 2]] : r \in rows}

Filters == [geographies : {{}, {"Maine"}}, bands : {{}, {1}}]

\* The rows as a release's, some in shards of two targets. A limit of 3 allows
\* a target of size 2, or two of size 1.
Limit == 3

Release(rows) ==
    [build |-> [country |-> "uk", id |-> 1], kind |-> "release", rows |-> rows, pair |-> None,
     artifacts |-> [calibrationDiagnostics |-> 1],
     ids |-> [i \in DOMAIN rows |-> <<"id", i>>], sizes |-> [i \in DOMAIN rows |-> 2 - (i % 2)],
     origins |-> [i \in DOMAIN rows |-> None]]

BundleFrom(input) == BundleOf(Draft(input), Limit)

\* The documents of a bundle by their parts, and the answers with them.
Documents(bundle) ==
    [part \in {f.part : f \in Range(bundle.files)} |->
        (CHOOSE f \in Range(bundle.files) : f.part = part).document]

AllAnswered(bundle) ==
    LET documents == Documents(bundle)
    IN  [part \in DOMAIN documents |-> Answered(documents[part])]

StatesOf(rows) == UNION {StatesFrom(rows, Root(b), {}) : b \in Breakdowns}

-----------------------------------------------------------------------------

\* Rows are compiled to a tree that is valid, in which each target is reached
\* once.
Whole(tree, bundle) == Compiles(tree, Tiers(tree)) /\ Valid(bundle)

CompilesWhole(rows) ==
    /\ ReachedOnce(rows) /\ UpLeadsBack(rows)
    /\ Whole(Compiled(rows), BundleFrom(Release(rows)))

\* Of all tiers, all but one or none, with the filters' parts or without, a page
\* shows nothing yet or the level as it is built from the rows; of all parts, the
\* level. On a path the first tier that has not loaded decides.
PagesOf(index, all) ==
    LET tiers == {part \in DOMAIN all : part[1] = "tier"}
        filters == {part \in DOMAIN all : part[1] \in {"filter-index", "target-summary"}}
    IN  {[whole |-> some = tiers \cup filters,
          page |-> Page(index, [part \in DOMAIN all |->
                    IF part \in some THEN all[part] ELSE Waiting])] :
            some \in {shown \cup with : shown \in {tiers \ {tier} : tier \in tiers} \cup {tiers, {}},
                                       with \in {{}, filters}}}

ServedFrom(rows, pages) ==
    \A s \in StatesOf(rows), f \in Filters :
        LET state == [s EXCEPT !.geographies = f.geographies, !.bands = f.bands]
            level == Level(rows, state)
        IN  \A p \in pages :
                LET data == Served(p.page, state)
                IN  data = level \/ (data = None /\ ~p.whole)

ServedAsBuilt(rows, bundle) == ServedFrom(rows, PagesOf(bundle.index, AllAnswered(bundle)))

-----------------------------------------------------------------------------
(***************************************************************************)
(* Trees of which one thing is wrong, as a fault of the compiler or of the *)
(* builder of bundles would make it.                                       *)
(***************************************************************************)

LevelWith(nodes) ==
    [targets |-> UNION {node.members : node \in nodes}, nodes |-> nodes]

\* A node is lost, or has lost a target, or leads to another level or nowhere.
FaultyNodes(level, keys) ==
    {LevelWith(level.nodes \ {node}) : node \in level.nodes}
    \cup UNION {{LevelWith((level.nodes \ {node}) \cup {other}) :
                    other \in {[node EXCEPT !.members = @ \ {i}] : i \in node.members}
                              \cup {[node EXCEPT !.next = k] : k \in keys \cup {Missing}}} :
                    node \in {n \in level.nodes : Descends(n.selection)}}

FaultyTargets(targets) ==
    UNION {{[targets EXCEPT ![i].geography = "Ohio"], [targets EXCEPT ![i].band = 2],
            [targets EXCEPT ![i].row.band = 2], [targets EXCEPT ![i].id = <<"id", 1>>]} :
                i \in DOMAIN targets \ {1}}

\* A level is faulty, at another depth or lost; or so is a target.
FaultyDrafts(draft) ==
    UNION {{[draft EXCEPT !.levels[k] = level] :
                level \in FaultyNodes(draft.levels[k], DOMAIN draft.levels)}
            \cup {[draft EXCEPT !.depths[k] = d] : d \in 0..3}
            \cup {[draft EXCEPT !.levels = Restrict(@, DOMAIN @ \ {k}),
                                !.depths = Restrict(@, DOMAIN @ \ {k})]} :
                k \in DOMAIN draft.levels}
    \cup {[draft EXCEPT !.targets = targets] : targets \in FaultyTargets(draft.targets)}

\* A file is lost, changes places or is one of another bundle.
FaultyFiles(bundle, others) ==
    {[bundle EXCEPT !.files = RemoveAt(@, n)] : n \in DOMAIN bundle.files}
    \cup {[bundle EXCEPT !.files[n] = bundle.files[n + 1], !.files[n + 1] = bundle.files[n]] :
            n \in 1..(Len(bundle.files) - 1)}
    \cup UNION {{[bundle EXCEPT !.files[n] = file] : file \in others} :
                    n \in DOMAIN bundle.files}

Refuses(draft, bundle, others) ==
    /\ \A faulty \in FaultyDrafts(draft) \ {draft} : ~Valid(BundleOf(faulty, Limit))
    /\ \A faulty \in FaultyFiles(bundle, others) \ {bundle} : ~Valid(faulty)

FaultsAreRefused(rows) ==
    LET others == UNION {Range(BundleFrom(input).files) :
                    input \in {[Release(rows) EXCEPT !.build.id = 2],
                               [Release(rows) EXCEPT !.rows[1].band = 3]}}
    IN  Refuses(Draft(Release(rows)), BundleFrom(Release(rows)), others)

-----------------------------------------------------------------------------
(***************************************************************************)
(* Pages of a tree of three targets in two shards, and comparisons of it.  *)
(***************************************************************************)

Three ==
    [i \in 1..3 |->
        [program |-> <<"irs", "income">>, place |-> None, spelling |-> "Maine",
         hierarchy |-> TRUE, dims |-> <<<<1, i>>>>, band |-> i % 2]]

Source(id, version) ==
    [Release(Three) EXCEPT !.build.id = id, !.rows[2].band = version, !.sizes = <<1, 1, 1>>]

\* The documents of files by their paths.
StoredFiles(files) ==
    FoldLeft(LAMBDA store, file : (file.path :> file.document) @@ store, <<>>, files)

\* Source 1, in which the first target is matched to the second of source 2 and
\* the last to none, is compared and stored with either of its versions.
Compared(first, second) ==
    [Source(3, 1) EXCEPT
        !.kind = "comparison", !.ids = [i \in 1..3 |-> <<"pair", i>>],
        !.rows = [i \in 1..3 |-> first.targets[i].row],
        !.origins = [i \in 1..3 |-> [current |-> i, candidate |-> IF i = 3 THEN None ELSE 3 - i]],
        !.pair = [current |-> first.index.build, candidate |-> second.index.build],
        !.artifacts = [comparisonCurrentIndex |-> first.index,
                       comparisonCandidateIndex |-> second.index]]

PublishedWith(input, bundle, files) ==
    [input |-> input, bundle |-> bundle,
     stores |-> <<StoredFiles(bundle.files \o files[1]), StoredFiles(bundle.files \o files[2])>>]

ComparedIn(store) ==
    Compared(LoadedSource(store, Source(1, 1).build), LoadedSource(store, Source(2, 1).build))

PublishedFrom(input, files) == PublishedWith(input, BundleFrom(input), files)

SourceFiles ==
    [version \in 1..2 |->
        BundleFrom(Source(1, version)).files \o BundleFrom(Source(2, 1)).files]

Published == PublishedFrom(ComparedIn(StoredFiles(SourceFiles[1])), SourceFiles)

AsCompared(i) ==
    [row |-> [Three[i] EXCEPT !.band = Source(1, 1).rows[i].band],
     current |-> Source(1, 1).rows[i],
     candidate |-> IF i = 3 THEN None ELSE Source(2, 1).rows[3 - i]]

\* The parts of source 1 that comparing and detailing read, and stores where
\* each is of either version, or gone where it is 0.
ReadPaths(stores) ==
    {path \in DOMAIN stores[1] : path[1].id = 1 /\ path[2][1] \notin {"tier", "filter-index"}}

Mixed(stores, has) ==
    FoldSet(LAMBDA path, store : (path :> stores[has[path]][path]) @@ store,
            Restrict(stores[1], DOMAIN stores[1] \ DOMAIN has),
            {path \in DOMAIN has : has[path] # 0})

\* Of stores some parts of which are mixed: source is what is compared, and
\* detail what is told of target i.
OneVersion(source, versions) == source = Missing \/ source \in versions
DetailIsRight(detail, i) == detail = Missing \/ detail.target = AsCompared(i)

MixedIsRight(store, build, versions) ==
    /\ OneVersion(LoadedSource(store, Source(1, 1).build), versions)
    /\ \A i \in {1, 3} : DetailIsRight(ComparedDetail(store, build, i), i)

ComparisonsAreOfTheirSources(bundle, stores, versions) ==
    /\ Valid(bundle)
    /\ \A i \in 1..3 : ComparedDetail(stores[1], bundle.index.build, i).target = AsCompared(i)
    /\ \A has \in [ReadPaths(stores) -> 0..2] :
        MixedIsRight(Mixed(stores, has), bundle.index.build, versions)

-----------------------------------------------------------------------------

\* What a page is answered with: all that it asks of a bundle.
Asked(bundle, store) ==
    LET compared == IF bundle.index.body.strategy = "shards" THEN {} ELSE 1..3
    IN  AllAnswered(bundle) @@
            [part \in {ComparedPart(i) : i \in compared} |->
                Answered(ComparedDetail(store, bundle.index.build, part[2]))]

\* The id of no target.
Lost == <<"id", 0>>

IsDetail(part) == part[1] \in {"target-details", "comparison-target"}

\* An answer that is not what was asked for is refused.
WrongAnswersFail(bundle, others, pair) ==
    LET index == bundle.index
        documents == {f.document : f \in Range(bundle.files)} \cup others
    IN  /\ \A part \in EagerParts(index) : \A document \in documents :
            document = Documents(bundle)[part]
                \/ PartResult(Answered(document), index.build, part) = Failed
        /\ \A document \in documents :
            ComparisonIndexResult(Answered(document), "uk", pair)
                = IF document.build.id = 3 /\ document.part = IndexPart
                  THEN Answered(document) ELSE Failed

\* A page shows the level, and the details of the rows, or that it waits for
\* something, or that something failed.
PageIsRight(shown, state, has, level, details) ==
    LET eager == {has[part] : part \in DOMAIN has \ {DetailsPart(0)}}
    IN  /\ shown.data \in {None, level}
        /\ shown.loading => "waiting" \in eager
        /\ shown.error => "failed" \in eager
        /\ eager = {"answered"} => shown.data # None
        /\ shown.data = None => shown.loading \/ shown.error
        /\ shown.detail \in SUBSET details
        /\ state.target # None /\ shown.detail = {} => shown.detailLoading \/ shown.detailError
        /\ shown.detailLoading => "waiting" \in Range(has) \/ shown.error
        /\ shown.detailError => state.target = Lost \/ has[DetailsPart(0)] = "failed"

\* The states of the explorer, and those with a target, or one that is not there.
Exploring(rows, ids) ==
    LET states == StatesOf(rows)
    IN  states \cup {[s EXCEPT !.target = t] :
                        t \in Range(ids) \cup {Lost},
                        s \in {r \in states : Len(SelectedPath(r)) = 2}}

\* Whatever has been answered or has failed, with the other parts loaded.
PageTells(index, rows, ids, asked, DetailAt(_)) ==
    LET outcomes == [{FilterPart, SummaryPart(1), TierPart(2), TierPart(3), DetailsPart(0)} ->
                        {"waiting", "failed", "answered"}]
        outcome(has, part) ==
            IF IsDetail(part) THEN has[DetailsPart(0)]
            ELSE IF part \in DOMAIN has THEN has[part] ELSE "answered"
        answers(has) ==
            [part \in DOMAIN asked |->
                CASE outcome(has, part) = "answered" -> asked[part]
                  [] outcome(has, part) = "waiting" -> Waiting
                  [] outcome(has, part) = "failed" -> Failed]
    IN  \A has \in outcomes, s \in Exploring(rows, ids), bands \in {{}, {1}} :
        LET state == [s EXCEPT !.bands = bands]
        IN  PageIsRight(Shown(Page(index, answers(has)), answers(has), state), state, has,
                        Level(rows, [state EXCEPT !.target = None]),
                        {DetailAt(i) : i \in {j \in DOMAIN ids : ids[j] = state.target}})

PagesTellWhatTheyHave(release, input, bundle, store) ==
    LET documents == {f.document : f \in Range(release.files \o bundle.files
                                              \o BundleFrom(Source(2, 1)).files)}
    IN  /\ \A b \in {release, bundle} : WrongAnswersFail(b, documents, input.pair)
        /\ PageTells(release.index, Source(1, 1).rows, Source(1, 1).ids, Asked(release, store),
                     LAMBDA i : Source(1, 1).rows[i])
        /\ PageTells(bundle.index, input.rows, input.ids, Asked(bundle, store), AsCompared)

-----------------------------------------------------------------------------

Faulty == {rows \in Branching : Len(rows) <= 2 /\ rows[1].hierarchy}

TreesAreServed(published) ==
    /\ \A rows \in Branching \cup Placed :
        CompilesWhole(rows) /\ ServedAsBuilt(rows, BundleFrom(Release(rows)))
    /\ \A n \in 0..5 : \A sizes \in [1..n -> 1..4] : DetailsAreFound(sizes, 4)
    /\ \A rows \in Faulty : FaultsAreRefused(rows)
    /\ PagesTellWhatTheyHave(BundleFrom(Source(1, 1)), published.input, published.bundle,
                             published.stores[1])
    /\ ComparisonsAreOfTheirSources(published.bundle, published.stores,
            {LoadedSource(store, Source(1, 1).build) : store \in Range(published.stores)})

=============================================================================
