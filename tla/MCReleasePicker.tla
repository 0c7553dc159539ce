--------------------------- MODULE MCReleasePicker ---------------------------
(***************************************************************************)
(* The offered releases for TLC: two release lines, one shared by two      *)
(* tags, in folders on main, or the builds of two releases of a record.    *)
(***************************************************************************)
EXTENDS MCPublishedTrees

CONSTANT Refused

P == INSTANCE ReleaseCandidates

Line(n) == <<"folder", n>>
Tag(n, attempt) == <<"tag", n, attempt>>
OfRelease(release, build) == <<"build", release, build>>

MapBuild(artifact, id, directory, created) ==
    [artifact |-> artifact, kind |-> "release", release |-> id, directory |-> directory,
     created |-> created]

\* Manifests of some of the builds, and of a staging build.
OfSome(builds) ==
    {[builds |-> some \cup {[MapBuild(9, P!Latest, None, 3) EXCEPT !.kind = "staging"]},
      latest |-> latest] :
        some \in SUBSET builds, latest \in {b.artifact : b \in builds} \cup {None}}

ManifestsOf(builds) ==
    {m \in OfSome(builds) :
        m.latest = None \/ \E b \in m.builds : b.artifact = m.latest}

Role(role, default, national) == [role |-> role, default |-> default, national |-> national]
Area == Role("local_area", None, FALSE)
Plain == Role(None, None, TRUE)

\* Answers to the request for the record, of which one is that there is none.
Answer(status, code, document) == [status |-> status, code |-> code, record |-> document]
NoRecord == Answer(404, "EntryNotFound", None)
Failures == {Answer(404, "RepoNotFound", None), Answer(404, "RevisionNotFound", None),
             Answer(200, None, None), Answer(503, None, None)}

-----------------------------------------------------------------------------
\* Folders on main beside tags.

Folders == {Line(1) :> a @@ Line(2) :> b : a \in BOOLEAN, b \in BOOLEAN}
           \cup {Line(2) :> TRUE, Line(1) :> TRUE, <<>>}

Cuts == {MapBuild(1, Line(1), None, 1), MapBuild(2, Tag(1, 1), Line(1), 1),
         MapBuild(3, Tag(1, 2), Line(1), 2), MapBuild(4, Line(2), None, 2),
         MapBuild(5, OfRelease(1, 1), None, 2)}

OnMain ==
    {[answer |-> NoRecord, folders |-> f, roles |-> r, manifest |-> m, local |-> l] :
        f \in Folders,
        r \in {<<>>, Tag(1, 1) :> Area @@ Line(2) :> Plain,
               Tag(1, 2) :> Area @@ Line(2) :> Area,
               Tag(1, 1) :> Area @@ Tag(1, 2) :> Area @@ Line(1) :> Role("local_area", TRUE, TRUE)},
        m \in {n \in ManifestsOf(Cuts) : n.latest # 5} \cup {Refused}, l \in {None, Line(1)}}

\* Documents with four builds of two releases, and builds of releases that a
\* record of them names or not. Some are refused: their current build is withdrawn.
Documents ==
    LET builds == {1 :> [at |-> 1, withdrawn |-> a] @@ 2 :> [at |-> 2, withdrawn |-> b] :
                        a \in BOOLEAN, b \in BOOLEAN}
        release(role, now, of) == [role |-> role, current |-> now, builds |-> of]
    IN  {[default |-> default, releases |-> 1 :> release(None, now, of)
                                            @@ 2 :> release(role, None, of)] :
            default \in {1, None}, now \in {1, None}, of \in builds,
            role \in {None, "local_area"}}

Answers == {Answer(200, None, d) : d \in Documents}

Named == {MapBuild(1, OfRelease(1, 1), None, 1), MapBuild(2, OfRelease(2, 1), None, 1),
          MapBuild(3, OfRelease(2, 2), None, 2), MapBuild(4, OfRelease(3, 1), None, 2)}

InRecord ==
    {[answer |-> a, folders |-> <<>>, roles |-> <<>>, manifest |-> m, local |-> None] :
        a \in Answers \cup Failures, m \in ManifestsOf(Named) \cup {Refused}}

-----------------------------------------------------------------------------

\* The published release of an id, by what the manifest has of it.
PublishedAs(read, id) ==
    \E b \in read.manifest.builds : b.kind = "release" /\ b.release = id

Offers(read) ==
    LET route == P!ReleasesRoute(read)
        published == read.manifest
        record == P!LoadReleasesRecord(read)
        latest == {b \in published.builds : b.kind = "release" /\ b.artifact = published.latest}
    IN  IF record # None /\ Refused \in {record, published} THEN route = Refused
        ELSE /\ \A e, f \in route.all : e.id = f.id => e = f
             /\ read.local # None => {e.id : e \in route.offered} = {read.local}
             /\ published # Refused /\ read.local = None =>
                   \A b \in latest : \E e \in route.offered :
                       e.id = b.release /\ route.latest = e.id
             /\ record # None => \A e \in route.offered : PublishedAs(read, e.id)

\* What the record or a release manifest says of a release.
IsLocalArea(read, id) ==
    IF read.answer.record # None
    THEN /\ id[2] \in DOMAIN read.answer.record.releases
         /\ read.answer.record.releases[id[2]].role = "local_area"
         /\ ~read.answer.record.releases[id[2]].builds[id[3]].withdrawn
    ELSE /\ id \in DOMAIN read.roles /\ read.roles[id].role = "local_area"
         /\ ~P!IsBuildFolderId(id)

Compares(read) ==
    LET baseline == P!ComparisonRelease(read, TRUE)
        areas == {b \in read.manifest.builds :
                    b.kind = "release" /\ IsLocalArea(read, b.release)}
        from == P!FromBuild(None, read.manifest, baseline.release)
    IN  IF areas = {} THEN baseline = P!ComparisonRelease(read, FALSE)
        ELSE \E b \in areas :
                /\ baseline.release = b.release /\ from = b.artifact
                /\ \A c \in areas : c.created <= b.created

\* A tag or a build keeps its own id, whatever the diagnostics say.
KeepsItsId(read, id) ==
    PublishedAs(read, id) /\ id[1] # "folder" => P!LoadedAs(read, id, Line(1)) = id

\* At the commit a folder is read at, no file of it is newer.
Folder == [{"calibration_diagnostics", "release_manifest", "sources"} -> 1..3]
ReadAtItsNewest ==
    \A changed \in Folder :
        LET commit == P!FolderCommit([f \in DOMAIN changed |->
                                        [date |-> changed[f], commit |-> changed[f]]])
        IN  \A f \in DOMAIN changed : changed[f] <= commit

-----------------------------------------------------------------------------
\* What a repository without a record holds after some of two tags of line 1
\* were pushed: cuts, which write the line's folder on main, tags that the
\* release manifest there does not name, or tags with a folder of their own.
\* Line 2 is a release in a folder, with an older tag of its name or not.

TagKinds == {"cut", "stray", "own"}

FilesOf(kinds, n) ==
    IF kinds[n] = "own" THEN Tag(1, n) :> None
    ELSE Line(1) :> (IF kinds[n] = "cut" THEN Tag(1, n) ELSE Tag(1, 3 - n))

CutsAmong(kinds, pushed) == {n \in 1..pushed : kinds[n] = "cut"}
CommitOn(kinds, pushed) ==
    LET cuts == CutsAmong(kinds, pushed)
    IN  CHOOSE c \in {1} \cup {1 + n : n \in cuts} : \A n \in cuts : 1 + n <= c

Holding(kinds, pushed, tagged, pointer) ==
    [head |-> 2 + pushed, answer |-> NoRecord, pointer |-> pointer,
     folders |-> Line(1) :> [calibrated |-> TRUE, commit |-> CommitOn(kinds, pushed)]
                 @@ Line(2) :> [calibrated |-> TRUE, commit |-> 2],
     tags |-> [id \in {Tag(1, n) : n \in 1..pushed} |->
                [commit |-> 1 + id[3], files |-> FilesOf(kinds, id[3])]]
              @@ IF tagged THEN Line(2) :> [commit |-> 1, files |-> Line(2) :> None] ELSE <<>>]

\* What a run sees of it when the commits of tags or of main cannot be read.
Main == <<"main">>
Reading(repo, unread) ==
    [repo EXCEPT !.tags = [id \in DOMAIN @ |->
                    [@[id] EXCEPT !.commit = IF id \in unread THEN Refused ELSE @]],
                 !.folders = [id \in DOMAIN @ |->
                    [@[id] EXCEPT !.commit = IF Main \in unread THEN Refused ELSE @]]]

PointerTo(release, perLine, revision) ==
    [release |-> release, perLine |-> perLine, sound |-> TRUE, revision |-> revision]
Pointers ==
    {PointerTo(Line(1), TRUE, Tag(1, 1)), PointerTo(Line(1), TRUE, Tag(1, 2)),
     PointerTo(Line(1), TRUE, None), PointerTo(Line(2), FALSE, None)}

Nothing == [builds |-> {}, latest |-> None]

\* The release that the pointer names is found as it would be published by itself,
\* and is the latest after the run; but a folder without a tag is read at the
\* head of main by itself.
FindsTheLatest(repo, maps) ==
    LET latest == P!Requested(repo, P!Latest)
        found == P!Inventory(repo, maps)
    IN  latest # Refused /\ (latest.commit = repo.head => latest.release \in DOMAIN repo.tags) =>
            /\ latest \in found.candidates
            /\ maps.latest = P!PublishedBuild(latest).artifact

\* A clean run after others: nothing that was published has moved, a line's folder
\* was not published from a cut, and a cut only from what its manifest names.
StaysPublished(kinds, repo, maps) ==
    LET found == P!Inventory(repo, maps)
    IN  /\ \A c \in found.candidates :
            /\ ~P!Moved(maps, c)
            /\ \A d \in found.candidates : c.release = d.release => c = d
            /\ P!Requested(repo, c.release) \in {c, Refused}
        /\ \A b \in maps.builds :
            /\ b.release = Line(1) => b.commit = 1
            /\ b.directory # None => kinds[b.release[3]] = "cut"
        /\ FindsTheLatest(repo, maps)

\* A run that ends well has published all that there is to find, and the latest is
\* what is published by itself.
EndsAsItSays(found, latest, run) ==
    run.endsWell =>
        /\ found.failed = {}
        /\ \A c \in found.candidates :
            \E b \in run.manifest.builds : b.release = c.release /\ b.commit = c.commit
        /\ latest # Refused
        /\ \E b \in run.manifest.builds :
            b.artifact = run.manifest.latest /\ b.release = latest.release

\* One that cannot tell whether there is a record changes nothing.
ChangesNothing(repo, maps) ==
    \A answer \in Failures :
        LET unknown == [repo EXCEPT !.answer = answer]
        IN  /\ P!Reconciled(unknown, maps, {}) = [manifest |-> maps, endsWell |-> FALSE]
            /\ P!Commanded(unknown, maps, P!Latest) = maps

\* The manifests after a first run, which reads and publishes some of what it
\* finds only, or after a local command that does not read a folder at the head.
AfterRuns(repo) ==
    {P!Reconciled(Reading(repo, unread), Nothing, failing).manifest :
        unread \in SUBSET {Tag(1, 1), Tag(1, 2), Line(2), Main},
        failing \in {{}, {Line(1)}, {Tag(1, 1)}, {Tag(1, 2), Line(2)}}}
    \cup {maps \in {P!Commanded(repo, Nothing, id) :
                        id \in {P!Latest, Tag(1, 1), Tag(1, 2), Line(2)}} :
            \A b \in maps.builds : b.commit # repo.head}

\* After a command a release is one build, and the latest only what the pointer or
\* the record names.
CommandsAreRight(repo, maps, ids) ==
    \A id \in ids :
        LET after == P!Commanded(repo, maps, id)
        IN  /\ \A b, c \in after.builds : b.release = c.release => b = c
            /\ after.latest \in {maps.latest, P!Requested(repo, P!Latest)}

\* Runs before and after another tag.
CutsStayPublished ==
    \A kinds \in [1..2 -> TagKinds], tagged \in BOOLEAN, pointer \in Pointers, before \in 0..2 :
        /\ \A pushed \in before..2, first \in AfterRuns(Holding(kinds, before, tagged, pointer)) :
            LET repo == Holding(kinds, pushed, tagged, pointer)
            IN  StaysPublished(kinds, repo, P!Reconciled(repo, first, {}).manifest)
        /\ ChangesNothing(Holding(kinds, before, tagged, pointer), Nothing)
        /\ CommandsAreRight(Holding(kinds, before, tagged, pointer), Nothing,
                            {P!Latest, Tag(1, 1), Tag(1, 2), Line(2)})
        /\ \A unread \in SUBSET {Tag(1, 1), Line(2), Main} :
            LET repo == Reading(Holding(kinds, before, tagged, pointer), unread)
            IN  EndsAsItSays(P!Inventory(Holding(kinds, before, tagged, pointer), Nothing),
                             P!Requested(repo, P!Latest), P!Reconciled(repo, Nothing, {}))

\* A record of four builds. The first run finds the folder of one unread, missing,
\* that of another build or right, and the folders may be written again after it.
BuiltAt(record, commit) ==
    [n \in P!RecordedBuilds(record) |-> [commit |-> commit, names |-> n]]
Unusable == {Refused, None, [commit |-> 1, names |-> OfRelease(2, 1)]}

BuildsStay(repo, maps) ==
    \A c \in P!Inventory(repo, maps).candidates : ~P!Moved(maps, c)

\* A build is published from a commit at which its folder is its own, stays at
\* it, and the record's current build, which is not withdrawn, is the latest.
AfterBoth(record, usable, again, first, maps) ==
    LET default == P!CurrentDefaultBuild(record)
    IN  /\ default # None => ~record.releases[default[2]].builds[default[3]].withdrawn
        /\ {b.release : b \in maps.builds} = P!RecordedBuilds(record)
        /\ \A b \in maps.builds :
            b.commit = IF b.release = OfRelease(1, 1) /\ ~usable THEN again ELSE 1
        /\ first.latest # None <=> default # None /\ usable
        /\ {b.release : b \in {c \in maps.builds : c.artifact = maps.latest}} = {default} \ {None}

BuildsStayPublished ==
    \A answer \in {a \in Answers : P!IsRecord(a.record)}, again \in 1..2,
       a \in Unusable \cup {[commit |-> 1, names |-> OfRelease(1, 1)]} :
        LET repo == [answer |-> answer, built |-> BuiltAt(answer.record, again)]
            earlier == [answer |-> answer, built |->
                            [BuiltAt(answer.record, 1) EXCEPT ![OfRelease(1, 1)] = a]]
            run == P!Reconciled(earlier, Nothing, {})
            maps == P!Reconciled(repo, run.manifest, {}).manifest
        IN  /\ AfterBoth(answer.record, a \notin Unusable, again, run.manifest, maps)
            /\ BuildsStay(repo, maps)
            /\ \A b \in maps.builds :
                b.commit = again => P!Requested(repo, b.release) = b.artifact
            /\ \A id \in {P!Latest, OfRelease(1, 1), OfRelease(2, 1)} :
                BuildsStay(repo, P!Commanded(earlier, Nothing, id))
            /\ ChangesNothing(repo, maps)
            /\ CommandsAreRight(repo, run.manifest, {P!Latest, OfRelease(1, 1), OfRelease(2, 1)})
            /\ EndsAsItSays(P!Inventory(earlier, Nothing), P!Requested(earlier, P!Latest), run)

PickerIsRight ==
    /\ \A read \in OnMain \cup InRecord : Offers(read)
    /\ \A read \in {r \in OnMain \cup InRecord : /\ r.local = None
                                              /\ Refused \notin {P!LoadReleasesRecord(r), r.manifest}} :
          Compares(read) /\ \A b \in read.manifest.builds : KeepsItsId(read, b.release)
    /\ ReadAtItsNewest
    /\ CutsStayPublished
    /\ BuildsStayPublished

-----------------------------------------------------------------------------

\* The releases that can be selected always include the latest, once, also
\* when tags share its folder; in a repository with a record only builds with
\* a published map are offered; and a local-area candidate is compared with
\* the newest published local-area release that is not withdrawn
\* (mergeReleaseInventory, recordedReleaseInventory,
\* resolveStagingComparisonRelease, comparisonMapBuilds). What the publisher
\* published it finds again as it is, although an earlier run could not read or
\* publish some of it, a local command came before and another tag was pushed:
\* the folder of a release line is never published from a cut, a tag or a build
\* only from files whose manifest names it, and the release that the pointer or
\* the record names is the latest, the one that a command for it publishes
\* (enumerateReleaseCandidates, resolveTaggedReleaseDirectory,
\* readUpstreamLatest, publishedRecordedBuild, selectLatestRelease,
\* registerReleaseBuild, promoteIfCurrent). An answer that does not tell
\* whether there is a record changes nothing (releasesRecordFromResponse), and
\* a run that ends without an error published all it found and selected the
\* latest (reconciliationFailureMessage).
ReleasesAreOffered == StoredManifest.entries # {} => PickerIsRight

=============================================================================
