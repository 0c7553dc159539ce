---------------------------- MODULE TreePublisher ----------------------------
(***************************************************************************)
(* Publishing calibration trees to Blob                                    *)
(* (packages/calibration-tree/src/publish-calibration-tree.ts and          *)
(* calibration-tree-blob.ts): reconciliation of a country's releases or    *)
(* finalized staging runs, and the publication of one release, by          *)
(* publishers that share one manifest object and immutable tree files.     *)
(*                                                                         *)
(* A publisher is a GitHub workflow job, of which the concurrency group    *)
(* runs one at a time (.github/workflows/publish-calibration-tree.yml), or *)
(* an operator's local command, which nothing serializes                   *)
(* (docs/calibration-tree-artifacts.md, "Historical reconciliation").      *)
(*                                                                         *)
(* A tree's files are its data files and, uploaded last, its index; the    *)
(* part "data" stands for all the data files. Within one build a data file *)
(* depends on the builder version alone, the index also on the commit.     *)
(* Dry runs, which write nothing, are left out.                            *)
(***************************************************************************)
EXTENDS CalibrationTreeManifest

CONSTANTS
    Publishers,
    Grouped,        \* the publishers in the workflow's concurrency group
    Recorded,       \* countries whose repository has releases.json
    MaxFaults       \* failures, losses, crashes and moved tags, in all

ASSUME PublishersAssumption == Grouped \subseteq Publishers
ASSUME FaultsAssumption == MaxFaults \in Nat

VARIABLES
    upstream,   \* source -> the Hugging Face commit it is read at, or None
    builder,    \* the builder version on the default branch
    current,    \* country -> the release its record or pointer names, or None
    manifest,   \* the stored manifest, or None before the first write
    blobs,      \* <<build, part>> -> stored content, or None
    lost,       \* the files ever lost from Blob (history)
    pc,         \* publisher -> the step it is at
    task,       \* publisher -> what its invocation works on
    item,       \* publisher -> the entry being published, and as latest or not
    etag,       \* publisher -> the manifest its next write starts from
    faults

upstreamVars == <<upstream, builder, current>>
blobVars == <<blobs, lost>>
vars == <<upstream, builder, current, manifest, blobs, lost, pc, task, item, etag, faults>>

Steps == {"idle", "enumerate", "pick", "next", "data", "index", "audit", "read", "put",
          "reread", "overwrite", "verify", "promote"}
Kinds == {"releases", "staging", "single"}

\* The sources a mode works on.
SourcesOf(country, kind) ==
    {s \in (IF kind = "staging" THEN StagingRuns ELSE Releases) : CountryOf[s] = country}

Candidates == [source : Sources, commit : Commits]
Items == [entry : Entries, latest : BOOLEAN]

\* One invocation of runPublisher: its country and mode, the version of its
\* builder, the manifest and Blob listing it last read, the
\* candidates left, the sources that failed, and the latest release to select.
Tasks == [country : Countries, kind : Kinds, version : Versions,
          known : Manifests, seen : [Builds -> FileContents \cup {None}],
          todo : SUBSET Candidates, failed : SUBSET Sources,
          wanted : Candidates \cup {None}]

StoredManifest == IF manifest = None THEN EmptyManifest ELSE manifest

\* listCalibrationTreeBlobs: a country's files. Their sizes tell their
\* contents apart; the index is never looked up in a listing.
Listing(country) ==
    [b \in Builds |-> IF CountryOf[b[1]] = country THEN blobs[<<b, "data">>] ELSE None]

Idle(p) ==
    /\ pc' = [pc EXCEPT ![p] = "idle"]
    /\ task' = [task EXCEPT ![p] = None]
    /\ item' = [item EXCEPT ![p] = None]
    /\ etag' = [etag EXCEPT ![p] = None]

Goto(p, step) == pc' = [pc EXCEPT ![p] = step]

-----------------------------------------------------------------------------
(* Auditing a stored build: auditCalibrationTreeBuild.                      *)

\* A fault the runs must notice: the data files are not looked up.
AuditIndexOnly(entry, seen) == blobs[<<Build(entry), "index">>] = Content(entry, "index")

\* The index is read now; the data files are looked up in the listing.
AuditComplete(entry, seen) ==
    /\ blobs[<<Build(entry), "index">>] = Content(entry, "index")
    /\ seen[Build(entry)] = Content(entry, "data")

\* Only missing files may be restored.
AuditRepairable(entry, seen) ==
    \/ blobs[<<Build(entry), "index">>] = None
    \/ /\ blobs[<<Build(entry), "index">>] = Content(entry, "index")
       /\ seen[Build(entry)] = None

-----------------------------------------------------------------------------
(* One invocation.                                                          *)

NewTask(country, kind, version) ==
    [country |-> country, kind |-> kind, version |-> version,
     known |-> StoredManifest, seen |-> Listing(country),
     todo |-> {}, failed |-> {}, wanted |-> None]

\* runPublisher's first read of the manifest. A job of the concurrency group
\* starts when no other job of the group runs, with the current builder.
Start(p, country, kind, version) ==
    /\ pc[p] = "idle"
    /\ version <= builder
    /\ p \in Grouped => version = builder /\ \A q \in Grouped : pc[q] = "idle"
    /\ task' = [task EXCEPT ![p] = NewTask(country, kind, version)]
    /\ Goto(p, IF kind = "single" THEN "pick" ELSE "enumerate")
    /\ UNCHANGED <<upstreamVars, manifest, blobVars, item, etag, faults>>

\* The commit a source is reconciled at. A build the manifest already holds
\* keeps its commit where releases.json or a staging run names it
\* (publishedRecordedBuild, reconcileStagingBuilds); a staging run is
\* otherwise read at the invocation's revision, and a tag is resolved anew.
CandidateCommit(t, s, revision) ==
    LET pinned == {e.commit : e \in EntriesOf(t.known, s)}
    IN  IF pinned # {} /\ (s \in StagingRuns \/ CountryOf[s] \in Recorded)
        THEN CHOOSE c \in pinned : TRUE
        ELSE IF s \in StagingRuns THEN revision ELSE upstream[s]

\* enumerateRecordedBuildCandidates and enumerateReleaseCandidates, or the
\* staging inventory at a revision, and the first Blob listing. A release
\* whose commit cannot be read fails on its own.
Enumerate(p, unreadable, revision) ==
    LET t == task[p]
        listed == {s \in SourcesOf(t.country, t.kind) : upstream[s] # None}
        named == current[t.country]
        candidate(s) == [source |-> s, commit |-> CandidateCommit(t, s, revision)]
    IN
    /\ pc[p] = "enumerate"
    /\ unreadable \subseteq listed
    /\ t.kind = "staging" => unreadable = {}
    /\ faults + Cardinality(unreadable) <= MaxFaults
    /\ faults' = faults + Cardinality(unreadable)
    /\ task' = [task EXCEPT
        ![p].seen = Listing(t.country),
        ![p].todo = {candidate(s) : s \in listed \ unreadable},
        ![p].failed = unreadable,
        ![p].wanted = IF t.kind = "staging" \/ named \notin listed \ unreadable
                      THEN None ELSE candidate(named)]
    /\ Goto(p, "next")
    /\ UNCHANGED <<upstreamVars, manifest, blobVars, item, etag>>

\* A fault the runs must notice: the release is not known to be listed.
PickUnlisted(p, s) ==
    LET t == task[p] IN
    /\ pc[p] = "pick"
    /\ s \in SourcesOf(t.country, t.kind)
    /\ item' = [item EXCEPT ![p] =
        [entry |-> [source |-> s, commit |-> upstream[s], version |-> t.version],
         latest |-> FALSE]]
    /\ Goto(p, "data")
    /\ UNCHANGED <<upstreamVars, manifest, blobVars, task, etag, faults>>

\* runPublisher's --release and --latest: one listed release at its commit,
\* rendered and uploaded without an audit.
Pick(p, s) ==
    LET t == task[p] IN
    /\ pc[p] = "pick"
    /\ s \in SourcesOf(t.country, t.kind)
    /\ upstream[s] # None
    /\ item' = [item EXCEPT ![p] =
        [entry |-> [source |-> s, commit |-> upstream[s], version |-> t.version],
         latest |-> FALSE]]
    /\ Goto(p, "data")
    /\ UNCHANGED <<upstreamVars, manifest, blobVars, task, etag, faults>>

\* The release named is not listed, has no diagnostics, or is not at the
\* commit the invocation expects: the invocation ends with an error.
Refuse(p) ==
    /\ pc[p] = "pick"
    /\ Idle(p)
    /\ UNCHANGED <<upstreamVars, manifest, blobVars, faults>>

\* The catch of the per-source loop: the source is reported as failed, and
\* the sources after it are still reconciled. In the other phases the error
\* ends the invocation.
FailItem(p, source) ==
    IF task[p].kind = "single"
    THEN Idle(p)
    ELSE /\ task' = [task EXCEPT ![p].failed = @ \cup {source},
                                 ![p].todo = {c \in @ : c.source # source}]
         /\ item' = [item EXCEPT ![p] = None]
         /\ etag' = [etag EXCEPT ![p] = None]
         /\ Goto(p, "next")

\* The entry a candidate is published as: an existing entry is repaired as it
\* is, a new one is what this builder renders.
EntryFor(t, candidate) ==
    LET existing == EntriesOf(t.known, candidate.source)
    IN  IF existing # {} THEN CHOOSE e \in existing : TRUE
        ELSE [source |-> candidate.source, commit |-> candidate.commit,
              version |-> t.version]

\* The loop body up to the upload, for one candidate. The order of the
\* candidates, which is by id in the code, is left open.
Examine(p, candidate) ==
    LET t == task[p]
        entry == EntryFor(t, candidate)
        known == EntriesOf(t.known, candidate.source) # {}
        moved == entry.commit # candidate.commit
        complete == known /\ AuditComplete(entry, t.seen)
        repairable == ~known \/ AuditRepairable(entry, t.seen)
        rebuilt == entry.version = t.version
    IN
    /\ pc[p] = "next"
    /\ candidate \in t.todo
    /\ \/ /\ moved \/ (~complete /\ ~(repairable /\ rebuilt))
          /\ FailItem(p, candidate.source)
       \/ /\ ~moved /\ complete
          /\ task' = [task EXCEPT ![p].todo = @ \ {candidate}]
          /\ UNCHANGED <<pc, item, etag>>
       \/ /\ ~moved /\ ~complete /\ repairable /\ rebuilt
          /\ item' = [item EXCEPT ![p] = [entry |-> entry, latest |-> FALSE]]
          /\ Goto(p, "data")
          /\ UNCHANGED <<task, etag>>
    /\ UNCHANGED <<upstreamVars, manifest, blobVars, faults>>

\* Faults the runs must notice: a stored file is kept whatever it holds, or
\* the entry is registered before the index is uploaded.
UploadUnverified(p, part) ==
    LET entry == item[p].entry
        file == <<Build(entry), part>>
        after == IF part = "data" THEN "index"
                 ELSE IF task[p].kind = "releases" THEN "audit" ELSE "read"
    IN
    /\ pc[p] = part
    /\ blobs' = [blobs EXCEPT ![file] = IF @ = None THEN Content(entry, part) ELSE @]
    /\ Goto(p, after)
    /\ UNCHANGED <<upstreamVars, manifest, lost, task, item, etag, faults>>
UploadWithoutIndex(p, part) ==
    LET entry == item[p].entry IN
    /\ pc[p] = part
    /\ blobs' = [blobs EXCEPT ![<<Build(entry), part>>] = Content(entry, part)]
    /\ Goto(p, IF task[p].kind = "releases" THEN "audit" ELSE "read")
    /\ UNCHANGED <<upstreamVars, manifest, lost, task, item, etag, faults>>

\* uploadCalibrationTreeFile: an identical stored file is kept, another one
\* is an error, an absent one is written.
Upload(p, part) ==
    LET entry == item[p].entry
        file == <<Build(entry), part>>
        after == IF part = "data" THEN "index"
                 ELSE IF task[p].kind = "releases" THEN "audit" ELSE "read"
    IN
    /\ pc[p] = part
    /\ IF blobs[file] \in {None, Content(entry, part)}
       THEN /\ blobs' = [blobs EXCEPT ![file] = Content(entry, part)]
            /\ Goto(p, after)
            /\ UNCHANGED <<task, item, etag>>
       ELSE /\ FailItem(p, entry.source)
            /\ UNCHANGED blobs
    /\ UNCHANGED <<upstreamVars, manifest, lost, faults>>

\* The audit of what was uploaded, from a new listing: before the manifest
\* write for a release, after it for a staging run.
Audit(p) ==
    LET t == task[p]
        entry == item[p].entry
        listing == Listing(t.country)
    IN
    /\ pc[p] = "audit"
    /\ IF AuditComplete(entry, listing)
       THEN IF t.kind = "releases"
            THEN /\ Goto(p, "read")
                 /\ task' = [task EXCEPT ![p].seen = listing]
                 /\ UNCHANGED <<item, etag>>
            ELSE /\ Goto(p, "next")
                 /\ task' = [task EXCEPT
                        ![p].seen = listing,
                        ![p].todo = {c \in @ : c.source # entry.source}]
                 /\ item' = [item EXCEPT ![p] = None]
                 /\ UNCHANGED etag
       ELSE FailItem(p, entry.source)
    /\ UNCHANGED <<upstreamVars, manifest, blobVars, faults>>

-----------------------------------------------------------------------------
(* Writing the manifest: updateCalibrationTreeManifest.                     *)

\* An error of the write: the source fails, or, while the latest release is
\* selected, the invocation ends with the reason.
FailWrite(p) ==
    IF item[p].latest THEN Idle(p) ELSE FailItem(p, item[p].entry.source)

\* The read before a write, and the merge, which may refuse the entry.
Read(p, at, next) ==
    /\ pc[p] = at
    /\ IF Accepts(StoredManifest, item[p].entry, item[p].latest)
       THEN /\ etag' = [etag EXCEPT ![p] = manifest]
            /\ Goto(p, next)
            /\ UNCHANGED <<task, item>>
       ELSE FailWrite(p)
    /\ UNCHANGED <<upstreamVars, manifest, blobVars, faults>>

Base(p) == IF etag[p] = None THEN EmptyManifest ELSE etag[p]
Merged(p) == WithEntry(Base(p), item[p].entry, item[p].latest)

\* The conditional put. The etag of the manifest is that of its content. A
\* manifest created since the read fails the put with an error that is not a
\* conflict; one changed since the read is a conflict.
Put(p) ==
    /\ pc[p] = "put"
    /\ \/ /\ manifest = etag[p]
          /\ manifest' = Merged(p)
          /\ Goto(p, "verify")
          /\ UNCHANGED <<task, item, etag>>
       \/ /\ manifest # etag[p] /\ etag[p] # None
          /\ Goto(p, "reread")
          /\ UNCHANGED <<manifest, task, item, etag>>
       \/ /\ manifest # etag[p] /\ etag[p] = None
          /\ FailWrite(p)
          /\ UNCHANGED manifest
    /\ UNCHANGED <<upstreamVars, blobVars, faults>>

\* The second put, which carries no condition.
Overwrite(p) ==
    /\ pc[p] = "overwrite"
    /\ manifest' = Merged(p)
    /\ Goto(p, "verify")
    /\ UNCHANGED <<upstreamVars, blobVars, task, item, etag, faults>>

\* What follows a verified write. A single publication then checks whether
\* its release is current (promoteIfCurrent).
Verified(p) ==
    LET t == task[p]
        entry == item[p].entry
    IN  IF item[p].latest THEN Idle(p)
        ELSE /\ etag' = [etag EXCEPT ![p] = None]
             /\ Goto(p, CASE t.kind = "releases" -> "next"
                          [] t.kind = "staging" -> "audit"
                          [] t.kind = "single" -> "promote")
             /\ task' = [task EXCEPT
                    ![p].known = StoredManifest,
                    ![p].todo = IF t.kind = "releases"
                                THEN {c \in @ : c.source # entry.source} ELSE @]
             /\ item' = IF t.kind = "releases" THEN [item EXCEPT ![p] = None] ELSE item

\* The read-back check, of the entry alone.
Verify(p) ==
    /\ pc[p] = "verify"
    /\ IF item[p].entry \in StoredManifest.entries THEN Verified(p) ELSE FailWrite(p)
    /\ UNCHANGED <<upstreamVars, manifest, blobVars, faults>>

-----------------------------------------------------------------------------

\* A fault the runs must notice: a failed release may be selected.
SelectEvenFailed(p) ==
    LET t == task[p]
        commit == IF t.country \in Recorded THEN t.wanted.commit ELSE upstream[t.wanted.source]
        entries == {e \in EntriesOf(t.known, t.wanted.source) : e.commit = commit}
    IN
    /\ pc[p] = "next"
    /\ t.todo = {}
    /\ IF t.wanted = None \/ entries = {}
       THEN Idle(p)
       ELSE /\ item' = [item EXCEPT ![p] =
                    [entry |-> CHOOSE e \in entries : TRUE, latest |-> TRUE]]
            /\ Goto(p, "read")
            /\ UNCHANGED <<task, etag>>
    /\ UNCHANGED <<upstreamVars, manifest, blobVars, faults>>

\* selectLatestRelease, after the last candidate. The selection is left alone
\* when the wanted release failed or is not completely published; a tag is
\* resolved anew (readUpstreamLatest), releases.json is not (recordedLatest).
Select(p) ==
    LET t == task[p]
        commit == IF t.country \in Recorded THEN t.wanted.commit ELSE upstream[t.wanted.source]
        entries == {e \in EntriesOf(t.known, t.wanted.source) : e.commit = commit}
    IN
    /\ pc[p] = "next"
    /\ t.todo = {}
    /\ IF \/ t.wanted = None
          \/ t.wanted.source \in t.failed
          \/ entries = {}
       THEN Idle(p)
       ELSE /\ item' = [item EXCEPT ![p] =
                    [entry |-> CHOOSE e \in entries : TRUE, latest |-> TRUE]]
            /\ Goto(p, "read")
            /\ UNCHANGED <<task, etag>>
    /\ UNCHANGED <<upstreamVars, manifest, blobVars, faults>>

\* promoteIfCurrent: the head is read again after the build is registered.
Promote(p) ==
    LET entry == item[p].entry IN
    /\ pc[p] = "promote"
    /\ IF current[task[p].country] = entry.source /\ upstream[entry.source] = entry.commit
       THEN /\ item' = [item EXCEPT ![p].latest = TRUE]
            /\ Goto(p, "read")
            /\ UNCHANGED <<task, etag>>
       ELSE Idle(p)
    /\ UNCHANGED <<upstreamVars, manifest, blobVars, faults>>

\* A failing request: it fails the source being examined or published, the
\* selection, or, outside the per-source loop, the whole invocation.
StepFails(p) ==
    /\ pc[p] # "idle"
    /\ faults < MaxFaults
    /\ faults' = faults + 1
    /\ \/ item[p] # None /\ FailWrite(p)
       \/ \E candidate \in task[p].todo :
            item[p] = None /\ FailItem(p, candidate.source)
       \/ item[p] = None /\ task[p].todo = {} /\ Idle(p)
    /\ UNCHANGED <<upstreamVars, manifest, blobVars>>

\* The job is cancelled, times out after 30 minutes, or its runner is lost.
Crash(p) ==
    /\ pc[p] # "idle"
    /\ faults < MaxFaults
    /\ faults' = faults + 1
    /\ Idle(p)
    /\ UNCHANGED <<upstreamVars, manifest, blobVars>>

-----------------------------------------------------------------------------
(* The dataset repositories and Blob.                                       *)

\* A release is published, or a staging run finalized; a staging run is read
\* at the revision of an invocation, whatever commit finalized it.
Publish(s, commit) ==
    /\ upstream[s] = None
    /\ s \in StagingRuns => commit = CHOOSE c \in Commits : TRUE
    /\ upstream' = [upstream EXCEPT ![s] = commit]
    /\ UNCHANGED <<builder, current, manifest, blobVars, pc, task, item, etag, faults>>

\* The release writer makes a published release current.
MakeCurrent(s) ==
    /\ s \in Releases
    /\ upstream[s] # None
    /\ current[CountryOf[s]] # s
    /\ current' = [current EXCEPT ![CountryOf[s]] = s]
    /\ UNCHANGED <<upstream, builder, manifest, blobVars, pc, task, item, etag, faults>>

\* A release's tag is moved to another commit.
MoveTag(s, commit) ==
    /\ s \in Releases /\ CountryOf[s] \notin Recorded
    /\ upstream[s] \notin {None, commit}
    /\ faults < MaxFaults
    /\ faults' = faults + 1
    /\ upstream' = [upstream EXCEPT ![s] = commit]
    /\ UNCHANGED <<builder, current, manifest, blobVars, pc, task, item, etag>>

\* A change of the tree builder is merged.
Upgrade ==
    /\ builder < MaxVersion
    /\ builder' = builder + 1
    /\ UNCHANGED <<upstream, current, manifest, blobVars, pc, task, item, etag, faults>>

\* A stored file is lost from Blob.
LoseFile(file) ==
    /\ blobs[file] # None
    /\ faults < MaxFaults
    /\ faults' = faults + 1
    /\ blobs' = [blobs EXCEPT ![file] = None]
    /\ lost' = lost \cup {file}
    /\ UNCHANGED <<upstreamVars, manifest, pc, task, item, etag>>

-----------------------------------------------------------------------------

Init ==
    /\ upstream = [s \in Sources |-> None]
    /\ builder = 1
    /\ current = [c \in Countries |-> None]
    /\ manifest = None
    /\ blobs = [f \in Files |-> None]
    /\ lost = {}
    /\ pc = [p \in Publishers |-> "idle"]
    /\ task = [p \in Publishers |-> None]
    /\ item = [p \in Publishers |-> None]
    /\ etag = [p \in Publishers |-> None]
    /\ faults = 0

\* The steps of an invocation that is under way and meets no failure.
Work(p) ==
    \/ \E unreadable \in SUBSET Sources, revision \in Commits :
        Enumerate(p, unreadable, revision)
    \/ \E s \in Sources : Pick(p, s)
    \/ Refuse(p)
    \/ \E candidate \in Candidates : Examine(p, candidate)
    \/ \E part \in Parts : Upload(p, part)
    \/ Audit(p)
    \/ Read(p, "read", "put")
    \/ Put(p)
    \/ Read(p, "reread", "overwrite")
    \/ Overwrite(p)
    \/ Verify(p)
    \/ Select(p)
    \/ Promote(p)

Starts(p) ==
    \E country \in Countries, kind \in Kinds, version \in Versions :
        Start(p, country, kind, version)

Upstream ==
    \/ \E s \in Sources, commit \in Commits : Publish(s, commit) \/ MoveTag(s, commit)
    \/ \E s \in Sources : MakeCurrent(s)
    \/ Upgrade

Next ==
    \/ \E p \in Publishers : Starts(p) \/ Work(p) \/ StepFails(p) \/ Crash(p)
    \/ Upstream
    \/ \E file \in Files : LoseFile(file)

Spec == Init /\ [][Next]_vars

\* One job at a time, to which the webhook keeps sending both kinds of
\* reconciliation for every country; a started job keeps working.
FairSpec ==
    /\ Spec
    /\ \A p \in Publishers :
        /\ WF_vars(Work(p))
        /\ \A country \in Countries, kind \in Kinds \ {"single"} :
            SF_vars(\E version \in Versions : Start(p, country, kind, version))

-----------------------------------------------------------------------------

\* The type invariant.
TypeOK ==
    /\ upstream \in [Sources -> Commits \cup {None}]
    /\ builder \in Versions
    /\ current \in [Countries -> Releases \cup {None}]
    /\ manifest \in Manifests \cup {None}
    /\ blobs \in [Files -> FileContents \cup {None}]
    /\ lost \subseteq Files
    /\ pc \in [Publishers -> Steps]
    /\ task \in [Publishers -> Tasks \cup {None}]
    /\ item \in [Publishers -> Items \cup {None}]
    /\ etag \in [Publishers -> Manifests \cup {None}]
    /\ faults \in 0..MaxFaults

\* Whoever wrote it last, the stored manifest is one that
\* parseCalibrationTreeManifest accepts: no later read, by a publisher or by
\* the dashboard, refuses it.
ManifestIsValid == ValidManifest(StoredManifest)

HasPart(entry, part) ==
    \/ blobs[<<Build(entry), part>>] = Content(entry, part)
    \/ <<Build(entry), part>> \in lost

Stored(entry) == \A part \in Parts : HasPart(entry, part)

\* The manifest never names a tree that a browser cannot load: every file of
\* a listed build holds what its entry was published with, unless Blob lost
\* it ("an incomplete upload never becomes a manifest entry").
ListedBuildsAreStored == \A e \in StoredManifest.entries : Stored(e)

\* A listed build stays listed as it is: no write of another source's entry,
\* of the latest selection or of a later builder drops or changes it.
ListedBuildsStayListed ==
    [][StoredManifest.entries \subseteq StoredManifest'.entries]_vars

\* No reconciliation moves the latest selection to a release that failed in
\* it ("a release that failed in this reconciliation is never selected, so
\* the selection keeps naming the build it named before").
FailedNeverLatest ==
    [][\A p \in Publishers :
        pc[p] \in {"put", "overwrite"} /\ pc'[p] = "verify" /\ item[p].latest =>
            item[p].entry.source \notin task[p].failed]_vars

\* The publisher implements the catalog of trees.
Catalog == INSTANCE TreeCatalog WITH
    listed <- StoredManifest.entries,
    latest <- StoredManifest.latest

ImplementsCatalog == Catalog!Spec

-----------------------------------------------------------------------------

Published(s) ==
    \E e \in EntriesOf(StoredManifest, s) :
        \A part \in Parts : blobs[<<Build(e), part>>] = Content(e, part)

\* "A later webhook delivery inventories all eligible versions and repairs a
\* missed publication": whatever failed or was lost before, every release and
\* finalized staging run is in the end published, and stays so.
MissedPublicationsAreRepaired ==
    \A s \in Sources : <>(upstream[s] # None) => <>[]Published(s)

\* The latest selection catches up with the release upstream settles on.
LatestCatchesUp ==
    \A s \in Releases :
        <>[](current[CountryOf[s]] = s) =>
            <>[](\E e \in EntriesOf(StoredManifest, s) :
                    StoredManifest.latest[CountryOf[s]] = Build(e))
=============================================================================
