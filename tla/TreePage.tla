------------------------------ MODULE TreePage -------------------------------
(***************************************************************************)
(* What a page shows of a stored tree while its parts load (use-microcosm  *)
(* useCalibrationTreeBundle, calibrationTreeResponseFromBundle).           *)
(*                                                                         *)
(* A request is waiting, has failed, or has been answered with a document. *)
(* answers has one for every part that a page may ask for. What a page     *)
(* cannot show yet is None, and what it refuses to show is Missing.        *)
(***************************************************************************)
EXTENDS TreeParts

Waiting == [state |-> "waiting"]
Failed == [state |-> "failed"]
Answered(document) == [state |-> "answered", document |-> document]

IsAnswered(answer) == answer.state = "answered"

-----------------------------------------------------------------------------
(***************************************************************************)
(* Requests: an answer that is not what was asked for has failed.          *)
(***************************************************************************)

\* A tree's index is any build of the country: the release may be "latest".
IndexResult(answer, country) ==
    IF IsAnswered(answer) /\ ~(/\ ReadableIndex(answer.document)
                               /\ answer.document.build.country = country)
    THEN Failed ELSE answer

ComparisonIndexResult(answer, country, pair) ==
    LET result == IndexResult(answer, country)
    IN  IF IsAnswered(result) /\ ~(/\ result.document.body.kind = "comparison"
                                   /\ result.document.body.pair = pair)
        THEN Failed ELSE result

PartResult(answer, build, part) ==
    IF IsAnswered(answer) /\ ~(Readable(answer.document, part) /\ answer.document.build = build)
    THEN Failed ELSE answer

ComparedPart(ordinal) == <<"comparison-target", ordinal>>

ComparedResult(answer, build, ordinal) ==
    IF IsAnswered(answer) /\ ~(/\ answer.document.build = build
                               /\ answer.document.ordinal = ordinal)
    THEN Failed ELSE answer

-----------------------------------------------------------------------------
(***************************************************************************)
(* What has loaded.                                                        *)
(***************************************************************************)

\* The parts that a page asks for once it has the index.
EagerParts(index) ==
    {FilterPart} \cup {d.part : d \in Range(index.body.summaries) \cup Range(index.body.tiers)}

Page(index, answers) ==
    LET Result(part) == PartResult(answers[part], index.build, part)
        Results(descriptors) == [n \in DOMAIN descriptors |-> Result(descriptors[n].part)]
        Loaded(descriptors) ==
            LET those == SelectSeq(Results(descriptors), IsAnswered)
            IN  [n \in DOMAIN those |-> those[n].document]
        summaries == Loaded(index.body.summaries)
        complete == Len(summaries) = Len(index.body.summaries)
        failed == {part \in EagerParts(index) : Result(part).state = "failed"}
    IN  [index |-> index, tiers |-> Loaded(index.body.tiers),
         filterIndex |-> IF IsAnswered(Result(FilterPart)) THEN Result(FilterPart).document
                         ELSE None,
         complete |-> complete,
         targets |-> IF complete /\ SummariesAgree(index, summaries)
                     THEN Concatenated(summaries) ELSE None,
         failedTier |-> \E part \in failed : part[1] = "tier",
         failed |-> \/ \E part \in failed : part[1] # "tier"
                    \/ complete /\ ~SummariesAgree(index, summaries)]

\* The ordinals of the target that is selected.
Selected(page, state) ==
    IF state.target = None \/ page.targets = None THEN {}
    ELSE {i \in DOMAIN page.targets : page.targets[i].id = state.target}

\* The shard of the selected target's detail.
DetailShards(page, state) ==
    IF page.index.body.strategy = "shards"
    THEN {page.index.body.details[at[1]] :
            at \in UNION {DetailSelection(page.index.body.details, i - 1) :
                            i \in Selected(page, state)}}
    ELSE {}

\* A request for a detail: its answer, refused if its range or its target is
\* another.
ShardResult(page, answers, shard) ==
    LET result == PartResult(answers[shard.part], page.index.build, shard.part)
    IN  IF IsAnswered(result) /\ ~(/\ result.document.body.start = shard.start
                                   /\ result.document.body.end = shard.end)
        THEN Failed ELSE result

TargetResult(page, answers, ordinal) ==
    LET result == ComparedResult(answers[ComparedPart(ordinal)], page.index.build, ordinal)
    IN  IF IsAnswered(result) /\ result.document.id # page.targets[ordinal].id
        THEN Failed ELSE result

DetailRequests(page, answers, state) ==
    {ShardResult(page, answers, shard) : shard \in DetailShards(page, state)}
    \cup {TargetResult(page, answers, i) :
            i \in {j \in Selected(page, state) : page.index.body.strategy # "shards"}}

-----------------------------------------------------------------------------
(***************************************************************************)
(* The level that is shown.                                                *)
(***************************************************************************)

\* A fault the runs must notice: a value of any category is enough.
MembersOfAny(filters, state) ==
    LET Chosen(postings, values) == UNION {postings[v] : v \in values \cap DOMAIN postings}
    IN  IF state.geographies = {} /\ state.bands = {} THEN 1..filters.count
        ELSE Chosen(filters.geographies, state.geographies)
                \cup Chosen(filters.bands, state.bands)

\* The targets that pass the filters, by the postings of the filter index.
Members(filters, state) ==
    LET Chosen(postings, values) ==
            IF values = {} THEN 1..filters.count
            ELSE UNION {postings[v] : v \in values \cap DOMAIN postings}
    IN  Chosen(filters.geographies, state.geographies) \cap Chosen(filters.bands, state.bands)

\* Following a path of selections down the levels that are loaded.
Reached(levels, root, path) ==
    LET Step(at, c) ==
            LET nodes == {node \in levels[at].nodes : node.selection = c}
            IN  IF at \notin DOMAIN levels THEN at
                ELSE IF nodes = {} \/ ~Descends(c) THEN Missing
                ELSE (CHOOSE node \in nodes : TRUE).next
    IN  FoldLeft(Step, root, path)

Served(page, state) ==
    LET body == page.index.body
        filters == page.filterIndex
        levels == AllLevels(page.index, page.tiers)
        at == Reached(levels, body.roots[state.breakdown], SelectedPath(state))
        filtered == state.geographies # {} \/ state.bands # {}
    IN  IF at = Missing THEN Missing
        ELSE IF at \notin DOMAIN levels THEN None
        ELSE IF filters # None /\ filters.body.count # body.count THEN Missing
        ELSE IF filtered /\ (filters = None \/ page.targets = None) THEN None
        ELSE LET members == IF filters = None THEN 1..body.count
                            ELSE Members(filters.body, state)
             IN  UNION {{<<node.selection, i>> : i \in node.members \cap members} :
                            node \in levels[at].nodes}

\* The detail of a target, if what has been loaded has it.
DetailOf(results, ordinal) ==
    {r.document.target : r \in {s \in results : /\ IsAnswered(s)
                                                /\ "target" \in DOMAIN s.document
                                                /\ s.document.ordinal = ordinal}}
    \cup {r.document.body.targets[ordinal - r.document.body.start] :
            r \in {s \in results : /\ IsAnswered(s)
                                   /\ "body" \in DOMAIN s.document
                                   /\ s.document.body.start < ordinal
                                   /\ ordinal <= s.document.body.end}}

\* What a page tells its reader: the level, an error, the details it has of the
\* selected target, and whether it is loading either of them.
Shown(page, answers, state) ==
    LET data == Served(page, state)
        details == DetailRequests(page, answers, state)
        error == page.failed \/ (data = None /\ page.failedTier)
        unknown == state.target # None /\ page.complete /\ Selected(page, state) = {}
        detailError == unknown \/ Failed \in details
    IN  [data |-> data, error |-> error, loading |-> data = None /\ ~error,
         detail |-> UNION {DetailOf(details, i) : i \in Selected(page, state)},
         detailError |-> detailError,
         detailLoading |-> /\ state.target # None /\ ~detailError
                           /\ ~page.complete \/ (\E r \in details : ~IsAnswered(r))]

=============================================================================
