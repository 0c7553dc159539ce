------------------------- MODULE EvaluationBundles --------------------------
(***************************************************************************)
(* Evaluation bundles, from the directory an operator builds to the page   *)
(* the dashboard serves: evaluation_harness/frontend_bundle.py writes the  *)
(* documents of a run and its manifest last, the script                    *)
(* publish_evaluation_bundle_to_hf.py copies them to the dataset in one    *)
(* commit, and lib/cross-dataset reads them, from the directory or from    *)
(* the dataset.                                                            *)
(*                                                                         *)
(* A run's content is fixed, its id being a hash of it, but not the size   *)
(* of the pages its facts are cut into: bundles of one run may differ. A   *)
(* document is known by its run and, where it says something about pages,  *)
(* by their size, which is also all its hash tells.                        *)
(***************************************************************************)
EXTENDS Integers, FiniteSets, Sequences

CONSTANTS
    Operators,  \* each has a bundle directory
    Runs,       \* evaluation runs, of one country
    Facts,      \* the number of facts of a run, numbered in the order of their keys
    Kind,       \* fact -> what a query may select it by
    Sizes,      \* the page sizes bundles are built with
    Failed,     \* model value: a read that failed
    None,       \* model value: nothing
    Budgets     \* bounds: how many builds, publishes, dashboard instances and
                \* faults there may be; an initial state has one of them

ASSUME StoresAssumption == Operators \cap Runs = {}
ASSUME BudgetsAssumption ==
    Budgets \subseteq [{"builds", "publishes", "instances", "faults"} -> Nat]
ASSUME RunsAssumption == Runs # {}
ASSUME FactsAssumption == Facts \in Nat
ASSUME SizesAssumption == Sizes # {} /\ Sizes \subseteq Nat \ {0}

VARIABLES
    bundle,     \* operator -> the files of the bundle directory
    build,      \* operator -> the builder's files left to write, or None
    job,        \* operator -> the publisher at work, or None
    published,  \* run -> the files of its directory in the dataset
    latest,     \* the run latest.json names, or None
    head,       \* the dataset's commits
    reader,     \* the dashboard's reader: where it reads, and what it has read
    left        \* what is left of the budget

hub == <<published, latest, head>>
vars == <<bundle, build, job, hub, reader, left>>

-----------------------------------------------------------------------------
(***************************************************************************)
(* The documents of a bundle.                                              *)
(***************************************************************************)

Summary == <<"summary">>
Groups == <<"groups">>
Page(n) == <<"page", n>>
Index == <<"fact-index">>
Manifest == <<"manifest">>

\* A fault the runs must notice: the last page is dropped when it is not full.
PageCountFull(size) == Facts \div size

PageCount(size) == (Facts + size - 1) \div size

\* The facts on a page, and the page of a fact.
Rows(size, n) == {f \in 1..Facts : (n - 1) * size < f /\ f <= n * size}
PagesOf(size, facts) == {n \in 1..PageCount(size) : Rows(size, n) \cap facts # {}}

Partitions(size) == {Summary, Groups, Index} \cup {Page(n) : n \in 1..PageCount(size)}
AnyPartition == UNION {Partitions(s) : s \in Sizes}

\* The summary and the groups do not depend on the page size.
Document(file, run, size) ==
    [run |-> run, size |-> IF file \in {Summary, Groups} THEN 0 ELSE size]

\* What a manifest says of the other files.
Attested(manifest) ==
    [file \in Partitions(manifest.size) |-> Document(file, manifest.run, manifest.size)]

\* The files of a bundle in the order they are written.
Written(run, size) ==
    LET Pages == [n \in 1..PageCount(size) |-> Page(n)]
        order == <<Summary, Groups>> \o Pages \o <<Index, Manifest>>
    IN  [i \in DOMAIN order |-> <<order[i], Document(order[i], run, size)>>]

Matches(files, manifest) ==
    \A file \in Partitions(manifest.size) :
        file \in DOMAIN files /\ files[file] = Attested(manifest)[file]

Whole(files) == Manifest \in DOMAIN files /\ Matches(files, files[Manifest])

With(new, old) ==
    [x \in DOMAIN new \cup DOMAIN old |-> IF x \in DOMAIN new THEN new[x] ELSE old[x]]

Adding(file, document, files) == With([f \in {file} |-> document], files)

Empty == <<>>
Bundle(run, size) ==
    LET manifest == Document(Manifest, run, size)
    IN  Adding(Manifest, manifest, Attested(manifest))

-----------------------------------------------------------------------------

\* A reader is configured for a directory or for a published run's address.
NewReader(store) == [from |-> store, manifest |-> None, docs |-> Empty]

Spends(what) == left[what] > 0 /\ left' = [left EXCEPT ![what] = @ - 1]

\* An operator begins without a bundle or with a finished one.
Init ==
    /\ bundle \in [Operators -> {Empty} \cup {Bundle(r, s) : r \in Runs, s \in Sizes}]
    /\ build = [o \in Operators |-> None]
    /\ job = [o \in Operators |-> None]
    /\ published = [r \in Runs |-> Empty]
    /\ latest = None
    /\ head = 0
    /\ reader \in {NewReader(store) : store \in Operators \cup Runs}
    /\ left \in Budgets

-----------------------------------------------------------------------------
(***************************************************************************)
(* The operator's directory.                                               *)
(***************************************************************************)

\* A directory that exists is not written into.
Build(o, r, s) ==
    /\ build[o] = None /\ bundle[o] = Empty
    /\ Spends("builds")
    /\ build' = [build EXCEPT ![o] = Written(r, s)]
    /\ UNCHANGED <<bundle, job, hub, reader>>

WriteFile(o) ==
    /\ build[o] # None
    /\ LET file == Head(build[o])
           rest == Tail(build[o])
       IN  /\ bundle' = [bundle EXCEPT ![o] = Adding(file[1], file[2], @)]
           /\ build' = [build EXCEPT ![o] = IF rest = <<>> THEN None ELSE rest]
    /\ UNCHANGED <<job, hub, reader, left>>

BuilderCrashes(o) ==
    /\ build[o] # None /\ Spends("faults")
    /\ build' = [build EXCEPT ![o] = None]
    /\ UNCHANGED <<bundle, job, hub, reader>>

\* The operator's own doing: the only way to build again in a directory.
RemoveBundle(o) ==
    /\ build[o] = None /\ bundle[o] # Empty /\ left.builds > 0
    /\ bundle' = [bundle EXCEPT ![o] = Empty]
    /\ UNCHANGED <<build, job, hub, reader, left>>

-----------------------------------------------------------------------------
(***************************************************************************)
(* The publisher. A refusal or a failure ends it.                          *)
(***************************************************************************)

Ends(o) == job' = [job EXCEPT ![o] = None]
Goes(o, step) == job' = [job EXCEPT ![o] = With(step, @)]
Kept == UNCHANGED <<bundle, build, reader>>
OnlyJob == Kept /\ UNCHANGED <<hub, left>>

\* load_bundle reads the manifest, then verifies the directory, manifest read
\* again and every file hashed. The files' reads are one step: each file that
\* passed had the hash the manifest gives it when it was read.
StartPublish(o, withLatest) ==
    /\ job[o] = None /\ Manifest \in DOMAIN bundle[o]
    /\ Spends("publishes")
    /\ job' = [job EXCEPT ![o] =
            [at |-> "read", manifest |-> bundle[o][Manifest], withLatest |-> withLatest]]
    /\ Kept /\ UNCHANGED hub

VerifyBundle(o) ==
    /\ job[o] # None /\ job[o].at = "read"
    /\ IF Whole(bundle[o])
       THEN Goes(o, [at |-> "verified", verified |-> bundle[o][Manifest]])
       ELSE Ends(o)
    /\ OnlyJob

\* The manifest must be what it was.
RereadManifest(o) ==
    /\ job[o] # None /\ job[o].at = "verified"
    /\ IF Manifest \in DOMAIN bundle[o] /\ bundle[o][Manifest] = job[o].manifest
       THEN Goes(o, [at |-> "reread"])
       ELSE Ends(o)
    /\ OnlyJob

\* A fault the runs must notice: the files are trusted once verified.
LoadWhatIsThere(o) ==
    /\ job[o] # None /\ job[o].at = "reread"
    /\ Goes(o, [at |-> "loaded", files |-> Adding(Manifest, job[o].manifest, bundle[o])])
    /\ OnlyJob

\* Every file is read again, and must have the hash that was verified.
LoadFiles(o) ==
    /\ job[o] # None /\ job[o].at = "reread"
    /\ IF Matches(bundle[o], job[o].verified)
       THEN Goes(o, [at |-> "loaded",
                     files |-> Adding(Manifest, job[o].manifest, Attested(job[o].verified))])
       ELSE Ends(o)
    /\ OnlyJob

ReadHead(o) ==
    /\ job[o] # None /\ job[o].at = "loaded"
    /\ Goes(o, [at |-> "headed", head |-> head])
    /\ OnlyJob

Conflicts(files, remote) ==
    {file \in DOMAIN files \cap DOMAIN remote : remote[file] # files[file]}

\* The run's directory is listed: a file that differs is refused, one that is
\* there already is left out.
ListRun(o) ==
    /\ job[o] # None /\ job[o].at = "headed"
    /\ LET remote == published[job[o].manifest.run]
       IN  IF Conflicts(job[o].files, remote) # {}
           THEN Ends(o)
           ELSE Goes(o, [at |-> "listed", uploads |-> DOMAIN job[o].files \ DOMAIN remote])
    /\ OnlyJob

\* A fault the runs must notice: the head is read after the run's directory.
ReadHeadLate(o) ==
    /\ job[o] # None /\ job[o].at = "listed"
    /\ Goes(o, [at |-> "planned", head |-> head,
                pointer |-> job[o].withLatest /\ latest # job[o].manifest.run])
    /\ OnlyJob

ListLatest(o) ==
    /\ job[o] # None /\ job[o].at = "listed"
    /\ Goes(o, [at |-> "planned",
                pointer |-> job[o].withLatest /\ latest # job[o].manifest.run])
    /\ OnlyJob

Apply(o) ==
    LET run == job[o].manifest.run
        Uploaded == [file \in job[o].uploads |-> job[o].files[file]]
    IN  /\ published' = [published EXCEPT ![run] = With(Uploaded, @)]
        /\ latest' = IF job[o].pointer THEN run ELSE latest
        /\ head' = head + 1

\* One commit, refused when the head is no longer the one that was read. Its
\* answer may be lost.
Commit(o) ==
    /\ job[o] # None /\ job[o].at = "planned"
    /\ IF job[o].uploads = {} /\ ~job[o].pointer
       THEN Goes(o, [at |-> "committed"]) /\ UNCHANGED <<hub, left>>
       ELSE IF head # job[o].head
       THEN Ends(o) /\ UNCHANGED <<hub, left>>
       ELSE /\ Apply(o)
            /\ \/ Goes(o, [at |-> "committed"]) /\ UNCHANGED left
               \/ Ends(o) /\ Spends("faults")
    /\ Kept

\* The manifest, the summary and, if it was written, latest.json are fetched
\* and compared. Failing reads are tried five times; either way the publisher
\* is at its end.
VerifyPublished(o) ==
    /\ job[o] # None /\ job[o].at = "committed"
    /\ Ends(o)
    /\ OnlyJob

PublisherCrashes(o) ==
    /\ job[o] # None /\ Spends("faults")
    /\ Ends(o)
    /\ Kept /\ UNCHANGED hub

\* Another country's bundle, or a change by hand to files of no bundle.
OtherCommit ==
    /\ Spends("faults")
    /\ head' = head + 1
    /\ UNCHANGED <<bundle, build, job, published, latest, reader>>

-----------------------------------------------------------------------------
(***************************************************************************)
(* The dashboard. A reader keeps the promise of every file it asked for,   *)
(* answered or failed, until its instance ends or is configured anew.      *)
(***************************************************************************)

Store == IF reader.from \in Runs THEN published[reader.from] ELSE bundle[reader.from]

ReaderOnly == UNCHANGED <<bundle, build, job, hub>>

ReadManifest ==
    /\ reader.manifest = None /\ left.instances > 0
    /\ \/ /\ reader' = [reader EXCEPT !.manifest =
                IF Manifest \in DOMAIN Store THEN Store[Manifest] ELSE Failed]
          /\ UNCHANGED left
       \/ reader' = [reader EXCEPT !.manifest = Failed] /\ Spends("faults")
    /\ ReaderOnly

\* A fault the runs must notice: only the run is compared, not the hash.
CheckedByRun(file) ==
    IF file \in DOMAIN Store /\ Store[file].run = reader.manifest.run
    THEN Store[file]
    ELSE Failed

\* What is stored must have the hash the manifest gives.
Checked(file) ==
    IF file \in DOMAIN Store /\ Store[file] = Attested(reader.manifest)[file]
    THEN Store[file]
    ELSE Failed

ReadPartition(file) ==
    /\ reader.manifest \notin {None, Failed}
    /\ file \in Partitions(reader.manifest.size) \ DOMAIN reader.docs
    /\ \/ reader' = [reader EXCEPT !.docs = Adding(file, Checked(file), @)] /\ UNCHANGED left
       \/ reader' = [reader EXCEPT !.docs = Adding(file, Failed, @)] /\ Spends("faults")
    /\ ReaderOnly

StartInstance(store) ==
    /\ reader.manifest # None /\ Spends("instances")
    /\ reader' = NewReader(store)
    /\ ReaderOnly

-----------------------------------------------------------------------------

Next ==
    \/ \E o \in Operators :
        \/ \E r \in Runs, s \in Sizes : Build(o, r, s)
        \/ WriteFile(o) \/ BuilderCrashes(o) \/ RemoveBundle(o)
        \/ \E withLatest \in BOOLEAN : StartPublish(o, withLatest)
        \/ VerifyBundle(o) \/ RereadManifest(o) \/ LoadFiles(o)
        \/ ReadHead(o) \/ ListRun(o) \/ ListLatest(o)
        \/ Commit(o) \/ VerifyPublished(o) \/ PublisherCrashes(o)
    \/ OtherCommit
    \/ ReadManifest
    \/ \E file \in AnyPartition : ReadPartition(file)
    \/ \E store \in Operators \cup Runs : StartInstance(store)

Spec == Init /\ [][Next]_vars

-----------------------------------------------------------------------------
(***************************************************************************)
(* What a reader answers from, once the files it needs are read.           *)
(***************************************************************************)

Has(file) == file \in DOMAIN reader.docs /\ reader.docs[file] # Failed
RowsRead(n) == Rows(reader.docs[Page(n)].size, n)

\* The index gives the pages a query may find facts on, each page once.
CandidatePages(kind) ==
    PagesOf(reader.docs[Index].size, {f \in 1..Facts : Kind[f] = kind})

CanAnswer(kind) == Has(Index) /\ \A n \in CandidatePages(kind) : Has(Page(n))

Found(kind) ==
    {f \in UNION {RowsRead(n) : n \in CandidatePages(kind)} : Kind[f] = kind}

-----------------------------------------------------------------------------
(***************************************************************************)
(* Properties.                                                             *)
(***************************************************************************)

\* The files of a published run never change and never go, whoever publishes
\* what at the same time (conflicts are looked for after the head was read,
\* and the commit is refused when the head moved).
PublishedFilesNeverChange ==
    [][\A r \in Runs : \A file \in DOMAIN published[r] :
        file \in DOMAIN published'[r] /\ published'[r][file] = published[r][file]]_vars

\* A directory with a manifest is a whole bundle: crashes and rebuilds never
\* leave a manifest beside files it does not describe
\* (publish_frontend_bundle writes the manifest last and into no directory
\* that exists). And a published run is a whole bundle from its first commit
\* on, so that latest.json and the addresses printed for the dashboard never
\* name a part of one, even when the directory was rebuilt while it was being
\* published: once or twice, for the comparison of the manifest read first with
\* the one read again takes A, B, A for A, and a third rebuild then puts B's
\* files beside A's manifest.
BundlesAreWhole ==
    /\ \A o \in Operators : Manifest \in DOMAIN bundle[o] => Whole(bundle[o])
    /\ \A r \in Runs : published[r] # Empty => Whole(published[r])
    /\ latest # None => published[latest] # Empty

\* What a reader serves is of one edition of one run, the one its manifest
\* names, though the directory behind it is built anew: the page fails rather
\* than mix ("returns HTTP 503 rather than serving mixed results",
\* docs/cross-dataset-api.md).
ServedDocumentsAgree ==
    \E r \in Runs, s \in Sizes : \A file \in DOMAIN reader.docs :
        Has(file) => reader.docs[file] = Document(file, r, s)

\* A query answered through the index gives every fact of its kind and no
\* other, however the facts are cut into pages and whatever was rebuilt or
\* published between the reads (fact_index and facets in
\* publish_frontend_bundle, candidatePages and facts in artifact.ts).
QueriesFindEveryFact ==
    \A kind \in {Kind[f] : f \in 1..Facts} :
        CanAnswer(kind) => Found(kind) = {f \in 1..Facts : Kind[f] = kind}

=============================================================================
