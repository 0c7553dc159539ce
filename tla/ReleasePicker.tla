---------------------------- MODULE ReleasePicker ----------------------------
(***************************************************************************)
(* The releases that the dashboard offers for selection, the one that it   *)
(* shows first and the one that a staging candidate is compared with       *)
(* (latest-artifact.ts, calibration-release-locator.ts, staging-artifact.  *)
(* ts, calibration-selection.ts and the releases route).                   *)
(*                                                                         *)
(* A release id is <<"folder", line>>, <<"tag", line, attempt>> or         *)
(* <<"build", release, build>>. The dashboard manifest (`maps`) has        *)
(* `builds`, each with its artifact, kind, release, directory and time,    *)
(* and the artifact of the latest. A repository has a record of builds, or *)
(* folders on main beside the tags; `answer` is what Hugging Face answers  *)
(* to the request for the record. `roles` are the release manifests that   *)
(* could be read, by id. The order of the offered releases is left out.    *)
(***************************************************************************)
EXTENDS Naturals, FiniteSets

CONSTANTS None, Refused

\* The word that asks for the pointer's release.
Latest == <<"latest">>

IsBuildFolderId(id) == id[1] = "build"

\* A release manifest's role. One that could not be read is the default.
ReleaseRole(stated) ==
    IF stated = None THEN [role |-> None, default |-> TRUE, local |-> FALSE]
    ELSE [role |-> stated.role, local |-> stated.role = "local_area",
          default |-> \/ stated.default = TRUE
                      \/ stated.default = None /\ stated.role = None /\ stated.national]

Entry(id, date, calibrated, directory, role) ==
    [id |-> id, date |-> date, calibrated |-> calibrated, directory |-> directory,
     role |-> role, withdrawn |-> FALSE]

-----------------------------------------------------------------------------
\* The dashboard manifest.

ReleaseBuilds(maps) == {b \in maps.builds : b.kind = "release"}

ReleaseDirectoryOf(build) == IF build.directory = None THEN build.release ELSE build.directory

\* calibrationReleaseFromManifest: the build of a release, None if it is not
\* published.
ReleaseFromManifest(maps, id) ==
    LET wanted == {b \in ReleaseBuilds(maps) :
                    IF id = Latest THEN b.artifact = maps.latest ELSE b.release = id}
    IN  IF wanted = {} THEN None ELSE CHOOSE b \in wanted : TRUE

Pointer(read) ==
    IF read.local # None THEN read.local
    ELSE LET build == ReleaseFromManifest(read.manifest, Latest)
         IN  IF build = None THEN None ELSE build.release

\* loadRelease: the id that the loaded summary has. A tag and a build folder
\* keep theirs whatever the diagnostics in it say.
LoadedAs(read, id, diagnosticsId) ==
    LET build == ReleaseFromManifest(read.manifest, id)
    IN  IF read.local # None /\ id \in {Latest, read.local} THEN diagnosticsId
        ELSE IF build = None THEN None
        ELSE IF ReleaseDirectoryOf(build) = build.release /\ ~IsBuildFolderId(build.release)
            THEN diagnosticsId
        ELSE build.release

\* newestCommitOfCalibratedFolder: the commit to read a folder at.
FolderCommit(files) ==
    IF "calibration_diagnostics" \notin DOMAIN files THEN None
    ELSE LET newest == CHOOSE f \in DOMAIN files :
                           \A g \in DOMAIN files : files[g].date <= files[f].date
         IN  files[newest].commit

-----------------------------------------------------------------------------
\* A repository without a record.

\* loadReleases: the folders on main, or the release in a local directory.
FolderReleases(read) ==
    IF read.local # None
    THEN {Entry(read.local, 0, TRUE, None, ReleaseRole(None))}
    ELSE {Entry(f, 0, read.folders[f], None,
                ReleaseRole(IF f \in DOMAIN read.roles THEN read.roles[f] ELSE None)) :
            f \in DOMAIN read.folders}

\* loadPublishedCutReleases: published releases that no folder on main is.
PublishedCutReleases(read, folders) ==
    LET calibrated == {f.id : f \in {g \in folders : g.calibrated}}
        unlisted == {b \in ReleaseBuilds(read.manifest) :
                        /\ ~IsBuildFolderId(b.release)
                        /\ \/ ReleaseDirectoryOf(b) # b.release
                           \/ b.release \notin calibrated}
    IN  IF read.local # None THEN {}
        ELSE {Entry(b.release, b.created, TRUE,
                    IF ReleaseDirectoryOf(b) = b.release THEN None ELSE b.directory,
                    ReleaseRole(IF b.release \in DOMAIN read.roles
                                THEN read.roles[b.release] ELSE None)) :
                b \in unlisted}

\* A fault the runs must notice: no shared folder is offered beside its tags.
NeverShared(entry, lines, latest) == entry.id \notin lines

\* A folder that tags share stays only if it is the latest release.
OutsideSharedFolders(entry, lines, latest) == entry.id \notin lines \/ entry.id = latest

MergeReleaseInventory(folders, cuts, latest) ==
    LET lines == {c.directory : c \in cuts} \ {None}
        published == {c.id : c \in cuts}
    IN  IF cuts = {} THEN folders
        ELSE {f \in folders : /\ OutsideSharedFolders(f, lines, latest)
                              /\ f.id \notin published}
             \cup {c \in cuts : OutsideSharedFolders(c, lines, latest)}

-----------------------------------------------------------------------------
\* A repository with a record.

\* parseReleasesRecord: the default release is listed, and a current build is
\* listed and not withdrawn.
IsRecord(record) ==
    /\ record.default \in DOMAIN record.releases \cup {None}
    /\ \A r \in DOMAIN record.releases :
        LET release == record.releases[r]
        IN  release.current # None => /\ release.current \in DOMAIN release.builds
                                      /\ ~release.builds[release.current].withdrawn

\* A fault the runs must notice: any missing answer is that there is no record.
AnyMissing(answer) ==
    IF answer.status = 404 THEN None
    ELSE IF answer.status = 200 /\ answer.record # None /\ IsRecord(answer.record)
    THEN answer.record ELSE Refused

\* releasesRecordFromResponse: None only if the file is missing where the
\* repository and the revision are not. Bytes that are no document have no record.
RecordFromResponse(answer) ==
    IF answer.status = 404 /\ answer.code \notin {"RepoNotFound", "RevisionNotFound"} THEN None
    ELSE IF answer.status = 200 /\ answer.record # None /\ IsRecord(answer.record)
    THEN answer.record ELSE Refused

\* loadReleasesRecord: a local directory has none.
LoadReleasesRecord(read) ==
    IF read.local # None THEN None ELSE RecordFromResponse(read.answer)

RecordedBuilds(record) ==
    UNION {{<<"build", r, b>> : b \in DOMAIN record.releases[r].builds} :
            r \in DOMAIN record.releases}

RecordedEntry(record, maps, id) ==
    LET release == record.releases[id[2]]
        build == release.builds[id[3]]
    IN  [Entry(id, build.at, \E b \in ReleaseBuilds(maps) : b.release = id, None,
               ReleaseRole([role |-> release.role, default |-> record.default = id[2],
                            national |-> FALSE]))
            EXCEPT !.withdrawn = build.withdrawn]

\* dashboardLatestRelease, offered although the record does not name it.
LatestEntry(maps) ==
    LET build == ReleaseFromManifest(maps, Latest)
    IN  Entry(build.release, build.created, TRUE, build.directory, ReleaseRole(None))

RecordedReleaseInventory(record, maps) ==
    LET recorded == RecordedBuilds(record)
        latest == ReleaseFromManifest(maps, Latest)
    IN  {RecordedEntry(record, maps, id) : id \in recorded}
        \cup (IF latest = None \/ (latest # None /\ latest.release \in recorded) THEN {}
              ELSE {LatestEntry(maps)})

-----------------------------------------------------------------------------
\* The releases route. A manifest that cannot be read is Refused.

Unread == [builds |-> {}, latest |-> None]

ReleasesRoute(read) ==
    LET maps == IF read.manifest = Refused THEN Unread ELSE read.manifest
        known == [read EXCEPT !.manifest = maps]
        latest == Pointer(known)
        folders == FolderReleases(read)
        record == LoadReleasesRecord(read)
        inventory == IF record # None THEN RecordedReleaseInventory(record, maps)
                     ELSE MergeReleaseInventory(folders, PublishedCutReleases(known, folders), latest)
    IN  IF record # None /\ Refused \in {record, read.manifest} THEN Refused
        ELSE [latest |-> latest, all |-> inventory,
              offered |-> {e \in inventory : e.calibrated}]

-----------------------------------------------------------------------------
\* The release that a staging candidate is compared with.

\* stagingBaselineReleases.
BaselineReleases(read) ==
    IF LoadReleasesRecord(read) # None
    THEN RecordedReleaseInventory(LoadReleasesRecord(read), read.manifest)
    ELSE FolderReleases(read) \cup PublishedCutReleases(read, FolderReleases(read))

LocalAreaReleases(releases) ==
    {e.id : e \in {f \in releases : f.role.local /\ ~f.withdrawn}}

\* The first of calibrationBuildsNewestFirst.
Newest(builds) ==
    CHOOSE b \in builds : \A c \in builds :
        b.created > c.created \/ (b.created = c.created /\ b.artifact <= c.artifact)

\* newestPublishedLocalAreaRelease.
NewestLocalArea(maps, releases) ==
    LET builds == {b \in ReleaseBuilds(maps) : b.release \in LocalAreaReleases(releases)}
    IN  IF builds = {} THEN None ELSE Newest(builds)

\* resolveStagingComparisonRelease.
ComparisonRelease(read, localArea) ==
    LET newest == NewestLocalArea(read.manifest, BaselineReleases(read))
    IN  IF localArea /\ newest # None
        THEN [release |-> newest.release, basis |-> "newest_local_area_release"]
        ELSE [release |-> Pointer(read), basis |-> "current_release"]

\* comparisonMapBuilds: "from" is what the user picked, or else the build of
\* that release, the latest or the newest.
FromBuild(picked, maps, comparison) ==
    LET artifacts == {b.artifact : b \in maps.builds}
        compared == IF comparison = None THEN None
                    ELSE ReleaseFromManifest(maps, comparison)
    IN  IF picked # None /\ picked \in artifacts THEN picked
        ELSE IF compared # None THEN compared.artifact
        ELSE IF maps.latest # None THEN maps.latest
        ELSE IF maps.builds = {} THEN None
        ELSE Newest(maps.builds).artifact

ToBuild(picked, maps, candidate) ==
    IF picked = "live" \/ \E b \in maps.builds : b.artifact = picked
    THEN picked ELSE candidate

=============================================================================
