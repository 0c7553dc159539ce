-------------------------- MODULE ReleaseCandidates --------------------------
(***************************************************************************)
(* What the tree publisher finds in a dataset repository: the releases to  *)
(* reconcile, the one the pointer file or the record names as latest, and  *)
(* the one a local command asks for (publish-calibration-tree.ts).         *)
(*                                                                         *)
(* A repository has the head of main, folders on main with the newest      *)
(* commit behind their files, tags with their commit and the folders with  *)
(* diagnostics at it, each with the cut that its release manifest names; a *)
(* pointer; and the answer to the request for its record, with the build   *)
(* folders it lists. A read that fails is Refused. A published build has   *)
(* its release, directory and commit. Dates and the wording of reasons are *)
(* left out.                                                               *)
(***************************************************************************)
EXTENDS ReleasePicker

\* parseReleaseCutTag: the folder of a release line.
LineOf(id) == IF id[1] = "tag" THEN <<"folder", id[2]>> ELSE None

Candidate(release, directory, commit) ==
    [release |-> release, directory |-> directory, commit |-> commit]

-----------------------------------------------------------------------------
\* A repository without a record.

\* resolveTaggedReleaseDirectory: a cut's files are under the folder of its
\* line, and count only if the release manifest there names the tag.
TaggedDirectory(name, files) ==
    IF files = Refused THEN Refused
    ELSE IF name \in DOMAIN files THEN name
    ELSE IF LineOf(name) \in DOMAIN files /\ files[LineOf(name)] = name THEN LineOf(name)
    ELSE None

\* listReleaseTags: the tags whose commit could be read.
Readable(repo) == {name \in DOMAIN repo.tags : repo.tags[name].commit # Refused}

CalibratedFolders(repo) == {f \in DOMAIN repo.folders : repo.folders[f].calibrated}

\* A tag that is published at its commit is not probed again.
DirectoryOf(repo, maps, name) ==
    LET known == ReleaseFromManifest(maps, name)
    IN  IF known # None /\ known.commit = repo.tags[name].commit
        THEN ReleaseDirectoryOf(known)
        ELSE TaggedDirectory(name, repo.tags[name].files)

\* The tags that are not folders on main themselves, and where their files are.
TaggedReleases(repo, maps) ==
    [name \in Readable(repo) \ CalibratedFolders(repo) |-> DirectoryOf(repo, maps, name)]

\* The folders that tags publish, and those that an unreadable tag may.
LineFolders(tagged) == {tagged[n] : n \in {m \in DOMAIN tagged : tagged[m] \notin {None, m}}}
HeldBackFolders(repo) == {LineOf(name) : name \in DOMAIN repo.tags \ Readable(repo)} \ {None}

\* A folder's own release: a build published from a folder that tags share stays
\* at its commit, and otherwise the folder is at its tag's, or its newest.
FolderCandidate(repo, maps, shared, folder) ==
    LET existing == ReleaseFromManifest(maps, folder)
    IN  IF folder \in shared
        THEN IF existing = None THEN None
             ELSE Candidate(folder, ReleaseDirectoryOf(existing), existing.commit)
        ELSE Candidate(folder, folder,
                       IF folder \in Readable(repo) THEN repo.tags[folder].commit
                       ELSE repo.folders[folder].commit)

FolderCandidates(repo, maps, tagged) ==
    {FolderCandidate(repo, maps, LineFolders(tagged) \cup HeldBackFolders(repo), folder) :
        folder \in CalibratedFolders(repo) \ (DOMAIN repo.tags \ Readable(repo))} \ {None}

TagCandidates(repo, tagged) ==
    {Candidate(name, tagged[name], repo.tags[name].commit) :
        name \in {n \in DOMAIN tagged : tagged[n] # None}}

\* What is found, with the releases whose commit could not be read.
Found(candidates, unread) ==
    [candidates |-> {c \in candidates : c.commit # Refused},
     failed |-> unread \cup {c.release : c \in {d \in candidates : d.commit = Refused}}]

\* enumerateReleaseCandidates: a probe of a tag that fails ends the run.
ReleaseCandidates(repo, maps) ==
    LET tagged == TaggedReleases(repo, maps)
    IN  IF \E name \in DOMAIN tagged : tagged[name] = Refused THEN Refused
        ELSE Found(FolderCandidates(repo, maps, tagged) \cup TagCandidates(repo, tagged),
                   DOMAIN repo.tags \ Readable(repo))

-----------------------------------------------------------------------------
\* A repository with a record.

\* readReleasesRecord
RecordOf(repo) == RecordFromResponse(repo.answer)

\* resolveRecordedBuild: the folder at the commit that wrote it. Its manifest
\* names it, or it does not count.
RecordedBuild(repo, id) ==
    IF repo.built[id] = Refused THEN Candidate(id, id, Refused)
    ELSE IF repo.built[id] = None THEN None
    ELSE IF repo.built[id].names # id THEN None
    ELSE Candidate(id, id, repo.built[id].commit)

\* publishedRecordedBuild: a published build keeps its commit.
SelectedBuild(repo, maps, id) ==
    LET existing == ReleaseFromManifest(maps, id)
    IN  IF existing # None THEN Candidate(id, id, existing.commit) ELSE RecordedBuild(repo, id)

\* enumerateRecordedBuildCandidates
RecordedBuildCandidates(repo, maps) ==
    Found({SelectedBuild(repo, maps, id) : id \in RecordedBuilds(RecordOf(repo))} \ {None}, {})

\* selectRecordedBuild, of a record that lists it; nothing is known of a build
\* to a local command, which reads no manifest for it.
RequestedBuild(repo, id) ==
    LET selected == IF id \in RecordedBuilds(RecordOf(repo)) THEN RecordedBuild(repo, id) ELSE None
    IN  IF selected = None THEN Refused
        ELSE IF selected.commit = Refused THEN Refused ELSE selected

\* currentDefaultBuild
CurrentDefaultBuild(record) ==
    IF record.default = None THEN None
    ELSE IF record.releases[record.default].current = None THEN None
    ELSE <<"build", record.default, record.releases[record.default].current>>

\* readRecordedCurrentBuild, recordedCurrentBuild: refused if the record names none.
RecordedCurrentBuild(repo) == RequestedBuild(repo, CurrentDefaultBuild(RecordOf(repo)))

\* recordedLatest
RecordedLatest(record, candidates) ==
    LET wanted == {c \in candidates : c.release = CurrentDefaultBuild(record)}
    IN  IF wanted = {} THEN Refused ELSE CHOOSE c \in wanted : TRUE

-----------------------------------------------------------------------------
\* The latest release, and the one that a local command names.

\* resolveHfRevisionSha: None if there is no such tag.
Revision(repo, id) == IF id \in DOMAIN repo.tags THEN repo.tags[id].commit ELSE None

\* A pointer of a line names a cut of it, whose files are in the line's folder.
CutLatest(repo, maps, pointer) ==
    LET cut == pointer.revision
    IN  IF \/ ~pointer.sound \/ cut = None \/ LineOf(cut) # pointer.release
           \/ Revision(repo, cut) \in {None, Refused}
        THEN Refused
        ELSE IF DirectoryOf(repo, maps, cut) # pointer.release THEN Refused
        ELSE Candidate(cut, pointer.release, Revision(repo, cut))

\* readUpstreamLatest: a folder without a tag is read at the head.
UpstreamLatest(repo, maps) ==
    LET pointer == repo.pointer
        release == pointer.release
        commit == Revision(repo, release)
    IN  IF pointer.perLine \/ pointer.revision # None THEN CutLatest(repo, maps, pointer)
        ELSE IF commit = Refused THEN Refused
        ELSE Candidate(release, release, IF commit = None THEN repo.head ELSE commit)

\* releaseDirectoryForTag: refused if the tag has no files of its own.
ReleaseDirectoryForTag(repo, id) ==
    LET directory == TaggedDirectory(id, repo.tags[id].files)
    IN  IF directory = None THEN Refused ELSE directory

\* requestedReleaseSelection: a release without a tag is not found then.
RequestedRelease(repo, id) ==
    LET commit == Revision(repo, id)
        directory == IF LineOf(id) = None THEN id ELSE ReleaseDirectoryForTag(repo, id)
    IN  IF commit \in {None, Refused} THEN Refused
        ELSE IF directory = Refused THEN Refused
        ELSE Candidate(id, directory, commit)

\* publishRelease refuses a selection without diagnostics at its commit.
WithDiagnostics(repo, selected) ==
    IF selected = Refused THEN Refused
    ELSE IF selected.directory \in IF selected.release \in DOMAIN repo.tags
                                   THEN DOMAIN repo.tags[selected.release].files
                                   ELSE CalibratedFolders(repo)
    THEN selected ELSE Refused

\* requestedRecordedBuild: a release of such a repository is a build folder.
RequestedRecordedBuild(repo, id) ==
    IF id = Latest THEN RecordedCurrentBuild(repo)
    ELSE IF IsBuildFolderId(id) THEN RequestedBuild(repo, id) ELSE Refused

\* runPublisher, for "latest" or a release.
Requested(repo, id) ==
    LET record == RecordOf(repo)
    IN  IF record = Refused THEN Refused
        ELSE IF record # None THEN RequestedRecordedBuild(repo, id)
        ELSE IF IsBuildFolderId(id) THEN Refused
        ELSE WithDiagnostics(repo, IF id = Latest THEN UpstreamLatest(repo, Unread)
                                   ELSE RequestedRelease(repo, id))

-----------------------------------------------------------------------------
\* A local command, which publishes one release.

\* releaseManifestEntry
PublishedBuild(c) ==
    [artifact |-> c, kind |-> "release", release |-> c.release,
     directory |-> IF c.directory = c.release THEN None ELSE c.directory,
     commit |-> c.commit, created |-> 0]

\* registerReleaseBuild: a release that is another build in the manifest is refused.
Registered(maps, c) ==
    LET existing == ReleaseFromManifest(maps, c.release)
    IN  IF existing # None /\ existing.artifact # c THEN Refused
        ELSE [maps EXCEPT !.builds = @ \cup {PublishedBuild(c)}]

\* promoteIfCurrent: the build is what a command for the latest would publish.
Promoted(repo, maps, c) ==
    LET latest == IF RecordOf(repo) = None THEN UpstreamLatest(repo, Unread)
                  ELSE RecordedCurrentBuild(repo)
    IN  IF latest = Refused THEN maps
        ELSE IF latest.release = c.release /\ latest.commit = c.commit
        THEN [maps EXCEPT !.latest = c] ELSE maps

\* A command that is refused changes nothing.
Commanded(repo, maps, id) ==
    LET selected == Requested(repo, id)
    IN  IF selected = Refused THEN maps
        ELSE IF Registered(maps, selected) = Refused THEN maps
        ELSE Promoted(repo, Registered(maps, selected), selected)

-----------------------------------------------------------------------------
\* A reconciliation of what was found, of which the publication of some fails.

Inventory(repo, maps) ==
    LET record == RecordOf(repo)
    IN  IF record = Refused THEN Refused
        ELSE IF record # None THEN RecordedBuildCandidates(repo, maps)
        ELSE ReleaseCandidates(repo, maps)

\* A published release that is found elsewhere than it was published from fails.
Moved(maps, candidate) ==
    LET existing == ReleaseFromManifest(maps, candidate.release)
    IN  /\ existing # None
        /\ \/ existing.commit # candidate.commit
           \/ ReleaseDirectoryOf(existing) # candidate.directory

FailedOf(maps, found, failing) ==
    found.failed \cup {c.release : c \in {d \in found.candidates :
                                            Moved(maps, d) \/ d.release \in failing}}

\* A failed release gets no entry, and one that has an entry keeps it.
After(maps, candidates, failed) ==
    LET new == {c \in candidates : /\ c.release \notin failed
                                   /\ ReleaseFromManifest(maps, c.release) = None}
    IN  [maps EXCEPT !.builds = @ \cup {PublishedBuild(c) : c \in new}]

LatestOf(repo, maps, candidates) ==
    IF RecordOf(repo) = None THEN UpstreamLatest(repo, maps)
    ELSE RecordedLatest(RecordOf(repo), candidates)

\* selectLatestRelease: one that is published at its commit and did not fail.
Selectable(maps, latest, failed) ==
    LET entry == ReleaseFromManifest(maps, latest.release)
    IN  IF latest = Refused THEN FALSE
        ELSE IF latest.release \in failed \/ entry = None THEN FALSE
        ELSE entry.commit = latest.commit

\* What a run leaves, and whether it ends without an error: no release failed, and
\* the latest was selected (reconciliationFailureMessage).
Report(maps, latest, failed) ==
    IF Selectable(maps, latest, failed)
    THEN [manifest |-> [maps EXCEPT !.latest =
                            ReleaseFromManifest(maps, latest.release).artifact],
          endsWell |-> failed = {}]
    ELSE [manifest |-> maps, endsWell |-> FALSE]

Selecting(repo, maps, candidates, failed) ==
    Report(maps, LatestOf(repo, maps, candidates), failed)

Publishing(repo, maps, candidates, failed) ==
    Selecting(repo, After(maps, candidates, failed), candidates, failed)

\* reconcileReleaseBuilds
Reconciled(repo, maps, failing) ==
    LET found == Inventory(repo, maps)
    IN  IF found = Refused THEN [manifest |-> maps, endsWell |-> FALSE]
        ELSE Publishing(repo, maps, found.candidates, FailedOf(maps, found, failing))

=============================================================================
