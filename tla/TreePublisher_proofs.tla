------------------------ MODULE TreePublisher_proofs ------------------------
(***************************************************************************)
(* Type correctness of TreePublisher, that listed builds are stored, that  *)
(* the manifest stays valid and, when every publisher is in the            *)
(* concurrency group, keeps its entries and refines the catalog, and that  *)
(* no failed release is selected: for every set of publishers, sources,    *)
(* commits and builder versions and any number of failures.                *)
(*                                                                         *)
(* TypeOK is not inductive by itself: a step reads the task and the entry  *)
(* of its publisher, which are None while the publisher is idle. Control   *)
(* says where they are there.                                              *)
(***************************************************************************)
EXTENDS TreePublisher, Sequences, FiniteSetTheorems, TLAPS

(***************************************************************************)
(* The manifest: its types, and what merging an entry preserves.           *)
(***************************************************************************)

\* The manifest a first publication starts from is a manifest.
LEMMA EmptyManifestType == EmptyManifest \in Manifests
  BY DEF EmptyManifest, Manifests

\* calibrationTreeBuildArtifactId names a build of the entry's source.
LEMMA BuildType == ASSUME NEW e \in Entries PROVE Build(e) \in Builds
  BY SourcesAssumption, ContentsAssumption DEF Entries, Build, Builds

\* What an entry's files hold can be stored.
LEMMA ContentType ==
  ASSUME NEW e \in Entries, NEW part \in Parts PROVE Content(e, part) \in FileContents
  BY DEF Entries, Content, FileContents

\* withCalibrationTreeManifestEntry returns a manifest.
LEMMA WithEntryType ==
  ASSUME NEW m \in Manifests, NEW e \in Entries, NEW makeLatest \in BOOLEAN
  PROVE  WithEntry(m, e, makeLatest) \in Manifests
  BY BuildType DEF Manifests, WithEntry

\* parseCalibrationTreeManifest accepts the manifest of no build.
LEMMA EmptyManifestValid == ValidManifest(EmptyManifest)
  BY DEF ValidManifest, EmptyManifest

\* withCalibrationTreeManifestEntry drops no entry its checks let through.
LEMMA WithEntryGrows ==
  ASSUME NEW m \in Manifests, NEW e \in Entries, NEW makeLatest \in BOOLEAN,
         Accepts(m, e, makeLatest)
  PROVE  WithEntry(m, e, makeLatest).entries = m.entries \cup {e}
  BY DEF Accepts, WithEntry

\* The checks of withCalibrationTreeManifestEntry are enough for the result to
\* be a manifest that parseCalibrationTreeManifest accepts.
LEMMA WithEntryValid ==
  ASSUME NEW m \in Manifests, NEW e \in Entries, NEW makeLatest \in BOOLEAN,
         ValidManifest(m), Accepts(m, e, makeLatest)
  PROVE  ValidManifest(WithEntry(m, e, makeLatest))
  <1> DEFINE n == WithEntry(m, e, makeLatest)
  <1>1. n.entries = m.entries \cup {e}
    BY WithEntryGrows
  <1>2. ASSUME NEW f \in n.entries, NEW g \in n.entries, f.source = g.source
        PROVE  f = g
    <2>1. ASSUME NEW h \in m.entries, h.source = e.source PROVE h = e
      BY <2>1 DEF Accepts, EntriesOf
    <2> QED BY <1>1, <1>2, <2>1 DEF ValidManifest
  <1>3. ASSUME NEW c \in Countries, n.latest[c] # None
        PROVE  \E f \in n.entries : /\ Build(f) = n.latest[c]
                                    /\ f.source \in Releases
                                    /\ CountryOf[f.source] = c
    <2>1. CASE makeLatest /\ c = CountryOf[e.source]
      <3>1. e.source \in Releases
        BY <2>1 DEF Accepts
      <3>2. n.latest[c] = Build(e)
        BY <2>1 DEF WithEntry, Manifests
      <3> QED BY <1>1, <2>1, <3>1, <3>2
    <2>2. CASE ~(makeLatest /\ c = CountryOf[e.source])
      <3>1. n.latest[c] = m.latest[c]
        BY <2>2 DEF WithEntry, Manifests
      <3> QED BY <1>1, <1>3, <3>1 DEF ValidManifest
    <2> QED BY <2>1, <2>2
  <1> QED BY <1>2, <1>3 DEF ValidManifest

-----------------------------------------------------------------------------
(***************************************************************************)
(* Publishers.                                                             *)
(***************************************************************************)

Publishing == {"data", "index", "audit", "read", "put", "reread", "overwrite",
               "verify", "promote"}

\* Where an invocation is under way it has a task, and where a build is being
\* published it has an item.
Control ==
    /\ \A p \in Publishers : pc[p] # "idle" => task[p] \in Tasks
    /\ \A p \in Publishers : pc[p] \in Publishing => item[p] \in Items

TypeInv == TypeOK /\ Control

\* readCalibrationTreeManifest returns a manifest.
LEMMA StoredManifestType == TypeOK => StoredManifest \in Manifests
  BY EmptyManifestType DEF TypeOK, StoredManifest

\* The types hold before the first publication.
LEMMA InitType == Init => TypeInv
  <1> SUFFICES ASSUME Init PROVE TypeInv
    OBVIOUS
  <1>1. TypeOK
    BY VersionsAssumption, FaultsAssumption DEF Init, TypeOK, Versions, Steps
  <1>2. Control
    BY DEF Init, Control, Publishing
  <1> QED BY <1>1, <1>2 DEF TypeInv

\* What an invocation publisher p takes part in changes.
LEMMA IdleType ==
  ASSUME TypeInv, NEW p \in Publishers, Idle(p)
  PROVE  /\ pc' \in [Publishers -> Steps] /\ task' \in [Publishers -> Tasks \cup {None}]
         /\ item' \in [Publishers -> Items \cup {None}]
         /\ etag' \in [Publishers -> Manifests \cup {None}]
         /\ Control'
  BY DEF TypeInv, TypeOK, Control, Idle, Publishing, Steps

\* A failed source keeps the types of its invocation.
LEMMA FailItemType ==
  ASSUME TypeInv, NEW p \in Publishers, NEW s \in Sources, task[p] \in Tasks, FailItem(p, s)
  PROVE  /\ pc' \in [Publishers -> Steps] /\ task' \in [Publishers -> Tasks \cup {None}]
         /\ item' \in [Publishers -> Items \cup {None}]
         /\ etag' \in [Publishers -> Manifests \cup {None}]
         /\ Control'
  <1>1. CASE task[p].kind = "single"
    BY <1>1, IdleType DEF FailItem
  <1>2. CASE task[p].kind # "single"
    <2> DEFINE t == [task[p] EXCEPT !.failed = @ \cup {s},
                                    !.todo = {c \in @ : c.source # s}]
    <2>1. t \in Tasks
      BY DEF Tasks
    <2>2. task' = [task EXCEPT ![p] = t]
      BY <1>2 DEF FailItem
    <2>3. pc' = [pc EXCEPT ![p] = "next"] /\ item' = [item EXCEPT ![p] = None]
            /\ etag' = [etag EXCEPT ![p] = None]
      BY <1>2 DEF FailItem, Goto
    <2> QED
      BY <2>1, <2>2, <2>3 DEF TypeInv, TypeOK, Control, Publishing, Steps
  <1> QED BY <1>1, <1>2

\* The part of TypeInv that a step of one publisher's invocation can disturb.
LocalType ==
    /\ pc \in [Publishers -> Steps]
    /\ task \in [Publishers -> Tasks \cup {None}]
    /\ item \in [Publishers -> Items \cup {None}]
    /\ etag \in [Publishers -> Manifests \cup {None}]
    /\ Control

SharedType ==
    /\ upstream \in [Sources -> Commits \cup {None}]
    /\ builder \in Versions
    /\ current \in [Countries -> Releases \cup {None}]
    /\ manifest \in Manifests \cup {None}
    /\ blobs \in [Files -> FileContents \cup {None}]
    /\ lost \subseteq Files
    /\ faults \in 0..MaxFaults

\* listCalibrationTreeBlobs returns the contents of a country's files.
LEMMA ListingType ==
  ASSUME TypeInv, NEW c \in Countries PROVE Listing(c) \in [Builds -> FileContents \cup {None}]
  BY DEF TypeInv, TypeOK, Listing, Files, Parts

\* runPublisher's start keeps the types of its invocation.
LEMMA StartType ==
  ASSUME TypeInv, NEW p \in Publishers, NEW c \in Countries, NEW k \in Kinds,
         NEW v \in Versions, Start(p, c, k, v)
  PROVE  LocalType'
  <1> DEFINE t == NewTask(c, k, v)
  <1>1. t \in Tasks
    BY StoredManifestType, ListingType DEF TypeInv, NewTask, Tasks
  <1>2. task' = [task EXCEPT ![p] = t] /\ UNCHANGED <<item, etag>>
    BY DEF Start
  <1>3. PICK step \in {"pick", "enumerate"} : pc' = [pc EXCEPT ![p] = step]
    BY DEF Start, Goto
  <1> HIDE DEF t
  <1> QED BY <1>1, <1>2, <1>3 DEF TypeInv, TypeOK, LocalType, Control, Publishing, Steps

\* A listed source is reconciled at a commit.
LEMMA CandidateCommitType ==
  ASSUME NEW t \in Tasks, NEW s \in Sources, NEW r \in Commits, upstream[s] \in Commits
  PROVE  CandidateCommit(t, s, r) \in Commits
  <1> DEFINE pinned == {e.commit : e \in EntriesOf(t.known, s)}
  <1>1. pinned \subseteq Commits
    BY DEF Tasks, Manifests, Entries, EntriesOf
  <1>2. pinned # {} => (CHOOSE c \in pinned : TRUE) \in pinned
    OBVIOUS
  <1> QED BY <1>1, <1>2 DEF CandidateCommit

\* The enumeration of candidates keeps the types of its invocation.
LEMMA EnumerateType ==
  ASSUME TypeInv, NEW p \in Publishers, NEW unreadable \in SUBSET Sources, NEW r \in Commits,
         Enumerate(p, unreadable, r)
  PROVE  LocalType' /\ faults' \in 0..MaxFaults
  <1> DEFINE listed == {s \in SourcesOf(task[p].country, task[p].kind) : upstream[s] # None}
             candidate(s) == [source |-> s, commit |-> CandidateCommit(task[p], s, r)]
             todo == {candidate(s) : s \in listed \ unreadable}
             wanted == IF task[p].kind = "staging"
                            \/ current[task[p].country] \notin listed \ unreadable
                       THEN None ELSE candidate(current[task[p].country])
             t == [task[p] EXCEPT !.seen = Listing(task[p].country), !.todo = todo,
                                  !.failed = unreadable, !.wanted = wanted]
  <1>1. task[p] \in Tasks
    BY DEF TypeInv, Control, Enumerate
  <1>2. \A s \in listed : s \in Sources /\ upstream[s] \in Commits
    BY DEF TypeInv, TypeOK, SourcesOf, Sources
  <1>3. \A s \in listed : candidate(s) \in Candidates
    BY <1>1, <1>2, CandidateCommitType DEF Candidates
  <1>4. todo \in SUBSET Candidates /\ wanted \in Candidates \cup {None}
    BY <1>3
  <1>5. t \in Tasks
    <2>1. Listing(task[p].country) \in [Builds -> FileContents \cup {None}]
      BY <1>1, ListingType DEF Tasks
    <2> HIDE DEF todo, wanted
    <2> QED BY <1>1, <1>4, <2>1 DEF Tasks
  <1>6. task' = [task EXCEPT ![p] = t] /\ pc' = [pc EXCEPT ![p] = "next"] /\ UNCHANGED <<item, etag>>
    BY DEF Enumerate, Goto
  <1>7. LocalType'
    <2> HIDE DEF t
    <2> QED BY <1>5, <1>6 DEF TypeInv, TypeOK, LocalType, Control, Publishing, Steps
  <1>8. faults' \in 0..MaxFaults
    <2>1. faults' = faults + Cardinality(unreadable) /\ faults' <= MaxFaults
      BY DEF Enumerate
    <2>2. Cardinality(unreadable) \in Nat
      BY SourcesAssumption, FS_Subset, FS_CardinalityType
    <2> QED BY <2>1, <2>2, FaultsAssumption DEF TypeInv, TypeOK
  <1> QED BY <1>7, <1>8

\* The choice of one release keeps the types of its invocation.
LEMMA PickType ==
  ASSUME TypeInv, NEW p \in Publishers, NEW s \in Sources, Pick(p, s)
  PROVE  LocalType'
  <1> DEFINE i == [entry |-> [source |-> s, commit |-> upstream[s], version |-> task[p].version],
                   latest |-> FALSE]
  <1>1. i \in Items
    BY DEF TypeInv, TypeOK, Control, Pick, Items, Entries, Tasks
  <1>2. item' = [item EXCEPT ![p] = i] /\ pc' = [pc EXCEPT ![p] = "data"]
          /\ UNCHANGED <<task, etag>>
    BY DEF Pick, Goto
  <1>3. task[p] \in Tasks
    BY DEF TypeInv, Control, Pick
  <1> HIDE DEF i
  <1> QED BY <1>1, <1>2, <1>3 DEF TypeInv, TypeOK, LocalType, Control, Publishing, Steps

\* A candidate is published as an entry, its own or one already listed.
LEMMA EntryForType ==
  ASSUME NEW t \in Tasks, NEW c \in Candidates
  PROVE  EntryFor(t, c) \in Entries
  <1>1. EntriesOf(t.known, c.source) \subseteq Entries
    BY DEF Tasks, Manifests, EntriesOf
  <1> QED BY <1>1 DEF EntryFor, Tasks, Candidates, Entries

\* The examination of a candidate keeps the types of its invocation.
LEMMA ExamineType ==
  ASSUME TypeInv, NEW p \in Publishers, NEW c \in Candidates, Examine(p, c)
  PROVE  LocalType'
  <1> DEFINE t == [task[p] EXCEPT !.todo = @ \ {c}]
             i == [entry |-> EntryFor(task[p], c), latest |-> FALSE]
  <1>1. task[p] \in Tasks /\ c.source \in Sources
    BY DEF TypeInv, Control, Examine, Candidates
  <1>2. t \in Tasks /\ i \in Items
    BY <1>1, EntryForType DEF Tasks, Items
  <1>3. CASE FailItem(p, c.source)
    BY <1>1, <1>3, FailItemType DEF LocalType
  <1>4. CASE task' = [task EXCEPT ![p] = t] /\ UNCHANGED <<pc, item, etag>>
    <2> HIDE DEF t
    <2> QED BY <1>1, <1>2, <1>4 DEF TypeInv, TypeOK, LocalType, Control, Publishing, Steps
  <1>5. CASE item' = [item EXCEPT ![p] = i] /\ Goto(p, "data") /\ UNCHANGED <<task, etag>>
    <2> HIDE DEF i
    <2> QED BY <1>1, <1>2, <1>5 DEF TypeInv, TypeOK, LocalType, Control, Publishing, Steps, Goto
  <1> QED BY <1>3, <1>4, <1>5 DEF Examine

\* uploadCalibrationTreeFile keeps the types of its invocation.
LEMMA UploadType ==
  ASSUME TypeInv, NEW p \in Publishers, NEW part \in Parts, Upload(p, part)
  PROVE  LocalType' /\ blobs' \in [Files -> FileContents \cup {None}]
  <1> DEFINE entry == item[p].entry
             file == <<Build(entry), part>>
  <1>1. task[p] \in Tasks /\ item[p] \in Items
    BY DEF TypeInv, Control, Upload, Parts, Publishing
  <1>2. entry \in Entries /\ entry.source \in Sources
    BY <1>1 DEF Items, Entries
  <1>3. Content(entry, part) \in FileContents
    BY <1>2, ContentType
  <1>4. CASE blobs' = [blobs EXCEPT ![file] = Content(entry, part)]
             /\ UNCHANGED <<task, item, etag>>
             /\ \E step \in Publishing : pc' = [pc EXCEPT ![p] = step]
    BY <1>1, <1>3, <1>4 DEF TypeInv, TypeOK, LocalType, Control, Publishing, Steps
  <1>5. CASE FailItem(p, entry.source) /\ UNCHANGED blobs
    BY <1>1, <1>2, <1>5, FailItemType DEF LocalType, TypeInv, TypeOK
  <1> QED BY <1>4, <1>5 DEF Upload, Goto, Publishing

\* The audit after an upload keeps the types of its invocation.
LEMMA AuditType ==
  ASSUME TypeInv, NEW p \in Publishers, Audit(p)
  PROVE  LocalType'
  <1> DEFINE entry == item[p].entry
             listing == Listing(task[p].country)
             t == [task[p] EXCEPT !.seen = listing]
             u == [task[p] EXCEPT !.seen = listing, !.todo = {c \in @ : c.source # entry.source}]
  <1>1. task[p] \in Tasks /\ item[p] \in Items
    BY DEF TypeInv, Control, Audit, Publishing
  <1>2. entry.source \in Sources
    BY <1>1 DEF Items, Entries
  <1>3. listing \in [Builds -> FileContents \cup {None}]
    BY <1>1, ListingType DEF Tasks
  <1>4. t \in Tasks /\ u \in Tasks
    <2> HIDE DEF listing
    <2> QED BY <1>1, <1>3 DEF Tasks
  <1>5. CASE FailItem(p, entry.source)
    BY <1>1, <1>2, <1>5, FailItemType DEF LocalType
  <1>6. CASE task' = [task EXCEPT ![p] = t] /\ Goto(p, "read") /\ UNCHANGED <<item, etag>>
    <2> HIDE DEF t
    <2> QED BY <1>1, <1>4, <1>6 DEF TypeInv, TypeOK, LocalType, Control, Publishing, Steps, Goto
  <1>7. CASE /\ task' = [task EXCEPT ![p] = u] /\ Goto(p, "next")
             /\ item' = [item EXCEPT ![p] = None] /\ UNCHANGED etag
    <2> HIDE DEF u
    <2> QED BY <1>1, <1>4, <1>7 DEF TypeInv, TypeOK, LocalType, Control, Publishing, Steps, Goto
  <1> QED BY <1>5, <1>6, <1>7 DEF Audit

\* A failed write of the manifest keeps the types of its invocation.
LEMMA FailWriteType ==
  ASSUME TypeInv, NEW p \in Publishers, item[p] \in Items, task[p] \in Tasks, FailWrite(p)
  PROVE  LocalType'
  <1>1. item[p].entry.source \in Sources
    BY DEF Items, Entries
  <1> QED BY <1>1, IdleType, FailItemType DEF FailWrite, LocalType

\* The read of updateCalibrationTreeManifest keeps the types of its invocation.
LEMMA ReadType ==
  ASSUME TypeInv, NEW p \in Publishers, NEW at \in Publishing, NEW next \in Publishing,
         Read(p, at, next)
  PROVE  LocalType'
  <1>1. task[p] \in Tasks /\ item[p] \in Items
    BY DEF TypeInv, Control, Read, Publishing
  <1>2. CASE etag' = [etag EXCEPT ![p] = manifest] /\ Goto(p, next) /\ UNCHANGED <<task, item>>
    BY <1>1, <1>2 DEF TypeInv, TypeOK, LocalType, Control, Publishing, Steps, Goto
  <1> QED BY <1>1, <1>2, FailWriteType DEF Read

\* What a put writes is a manifest.
LEMMA MergedType ==
  ASSUME TypeInv, NEW p \in Publishers, item[p] \in Items
  PROVE  Merged(p) \in Manifests
  <1>1. Base(p) \in Manifests
    BY EmptyManifestType DEF Base, TypeInv, TypeOK
  <1> QED BY <1>1, WithEntryType DEF Merged, Items

\* The conditional put keeps the types of its invocation.
LEMMA PutType ==
  ASSUME TypeInv, NEW p \in Publishers, Put(p)
  PROVE  LocalType' /\ manifest' \in Manifests \cup {None}
  <1>1. task[p] \in Tasks /\ item[p] \in Items
    BY DEF TypeInv, Control, Put, Publishing
  <1>2. CASE manifest' = Merged(p) /\ Goto(p, "verify") /\ UNCHANGED <<task, item, etag>>
    BY <1>1, <1>2, MergedType DEF TypeInv, TypeOK, LocalType, Control, Publishing, Steps, Goto
  <1>3. CASE Goto(p, "reread") /\ UNCHANGED <<manifest, task, item, etag>>
    BY <1>1, <1>3 DEF TypeInv, TypeOK, LocalType, Control, Publishing, Steps, Goto
  <1>4. CASE FailWrite(p) /\ UNCHANGED manifest
    BY <1>1, <1>4, FailWriteType DEF TypeInv, TypeOK
  <1> QED BY <1>2, <1>3, <1>4 DEF Put

\* The second put keeps the types of its invocation.
LEMMA OverwriteType ==
  ASSUME TypeInv, NEW p \in Publishers, Overwrite(p)
  PROVE  LocalType' /\ manifest' \in Manifests \cup {None}
  <1>1. task[p] \in Tasks /\ item[p] \in Items
    BY DEF TypeInv, Control, Overwrite, Publishing
  <1> QED
    BY <1>1, MergedType DEF Overwrite, TypeInv, TypeOK, LocalType, Control, Publishing, Steps, Goto

\* The read-back check keeps the types of its invocation.
LEMMA VerifyType ==
  ASSUME TypeInv, NEW p \in Publishers, Verify(p)
  PROVE  LocalType'
  <1> DEFINE todo == IF task[p].kind = "releases"
                     THEN {c \in task[p].todo : c.source # item[p].entry.source}
                     ELSE task[p].todo
             t == [task[p] EXCEPT !.known = StoredManifest, !.todo = todo]
  <1>1. task[p] \in Tasks /\ item[p] \in Items
    BY DEF TypeInv, Control, Verify, Publishing
  <1>2. t \in Tasks
    <2>1. todo \subseteq Candidates
      BY <1>1 DEF Tasks
    <2> HIDE DEF todo
    <2> QED BY <1>1, <2>1, StoredManifestType DEF Tasks, TypeInv
  <1>3. CASE Idle(p)
    BY <1>3, IdleType DEF LocalType
  <1>4. CASE ~item[p].latest /\ Verified(p)
    <2>1. etag' = [etag EXCEPT ![p] = None] /\ task' = [task EXCEPT ![p] = t]
      BY <1>4 DEF Verified
    <2>2. CASE task[p].kind = "releases"
      <3>1. pc' = [pc EXCEPT ![p] = "next"] /\ item' = [item EXCEPT ![p] = None]
        BY <1>4, <2>2 DEF Verified, Goto
      <3> HIDE DEF t
      <3> QED BY <1>2, <2>1, <3>1 DEF TypeInv, TypeOK, LocalType, Control, Publishing, Steps
    <2>3. CASE task[p].kind # "releases"
      <3>1. PICK step \in {"audit", "promote"} : pc' = [pc EXCEPT ![p] = step]
        BY <1>1, <1>4, <2>3 DEF Verified, Goto, Tasks, Kinds
      <3>2. item' = item
        BY <1>4, <2>3 DEF Verified
      <3> HIDE DEF t
      <3> QED BY <1>1, <1>2, <2>1, <3>1, <3>2
              DEF TypeInv, TypeOK, LocalType, Control, Publishing, Steps
    <2> QED BY <2>2, <2>3
  <1>5. CASE FailWrite(p)
    BY <1>1, <1>5, FailWriteType
  <1> QED BY <1>3, <1>4, <1>5 DEF Verify, Verified

\* selectLatestRelease keeps the types of its invocation.
LEMMA SelectType ==
  ASSUME TypeInv, NEW p \in Publishers, Select(p)
  PROVE  LocalType'
  <1>1. task[p] \in Tasks
    BY DEF TypeInv, Control, Select
  <1>2. CASE Idle(p)
    BY <1>2, IdleType DEF LocalType
  <1>3. ASSUME NEW e \in EntriesOf(task[p].known, task[p].wanted.source),
               item' = [item EXCEPT ![p] = [entry |-> e, latest |-> TRUE]],
               Goto(p, "read"), UNCHANGED <<task, etag>>
        PROVE  LocalType'
    <2> DEFINE i == [entry |-> e, latest |-> TRUE]
    <2>1. i \in Items
      BY <1>1 DEF Tasks, Manifests, EntriesOf, Items
    <2>2. item' = [item EXCEPT ![p] = i]
      BY <1>3
    <2> HIDE DEF i
    <2> QED BY <1>1, <1>3, <2>1, <2>2
            DEF TypeInv, TypeOK, LocalType, Control, Publishing, Steps, Goto
  <1> QED BY <1>2, <1>3 DEF Select

\* promoteIfCurrent keeps the types of its invocation.
LEMMA PromoteType ==
  ASSUME TypeInv, NEW p \in Publishers, Promote(p)
  PROVE  LocalType'
  <1>1. task[p] \in Tasks /\ item[p] \in Items
    BY DEF TypeInv, Control, Promote, Publishing
  <1>2. CASE Idle(p)
    BY <1>2, IdleType DEF LocalType
  <1>3. CASE item' = [item EXCEPT ![p].latest = TRUE] /\ Goto(p, "read") /\ UNCHANGED <<task, etag>>
    <2> DEFINE i == [item[p] EXCEPT !.latest = TRUE]
    <2>1. i \in Items
      BY <1>1 DEF Items
    <2>2. item' = [item EXCEPT ![p] = i]
      BY <1>3
    <2> HIDE DEF i
    <2> QED BY <1>1, <1>3, <2>1, <2>2
            DEF TypeInv, TypeOK, LocalType, Control, Publishing, Steps, Goto
  <1> QED BY <1>2, <1>3 DEF Promote

\* A failing request keeps the types of its invocation.
LEMMA StepFailsType ==
  ASSUME TypeInv, NEW p \in Publishers, StepFails(p)
  PROVE  LocalType' /\ faults' \in 0..MaxFaults
  <1>1. task[p] \in Tasks
    BY DEF TypeInv, Control, StepFails
  <1>2. faults' \in 0..MaxFaults
    BY FaultsAssumption DEF StepFails, TypeInv, TypeOK
  <1>3. CASE item[p] # None /\ FailWrite(p)
    BY <1>1, <1>2, <1>3, FailWriteType DEF TypeInv, TypeOK
  <1>4. ASSUME NEW c \in task[p].todo, FailItem(p, c.source)
        PROVE  LocalType'
    <2>1. c.source \in Sources
      BY <1>1 DEF Tasks, Candidates
    <2> QED BY <1>1, <1>4, <2>1, FailItemType DEF LocalType
  <1>5. CASE Idle(p)
    BY <1>2, <1>5, IdleType DEF LocalType
  <1> QED BY <1>2, <1>3, <1>4, <1>5 DEF StepFails

\* Every step preserves the types.
LEMMA NextType ==
  ASSUME TypeInv, [Next]_vars PROVE TypeInv'
  <1>0. /\ TypeInv <=> LocalType /\ SharedType
        /\ TypeInv' <=> LocalType' /\ SharedType'
    BY DEF TypeInv, TypeOK, LocalType, SharedType
  <1> USE <1>0
  <1> DEFINE Unshared == UNCHANGED <<upstreamVars, manifest, blobVars, faults>>
             Unlocal == UNCHANGED <<pc, task, item, etag>>
  <1>1. Unlocal => LocalType'
    BY DEF LocalType, Control
  <1>2. Unshared => SharedType'
    BY DEF SharedType, upstreamVars, blobVars
  <1>3. ASSUME NEW p \in Publishers, NEW c \in Countries, NEW k \in Kinds, NEW v \in Versions,
               Start(p, c, k, v)
        PROVE  TypeInv'
    BY <1>2, <1>3, StartType DEF Start
  <1>4. ASSUME NEW p \in Publishers, Work(p) PROVE TypeInv'
    <2>1. ASSUME NEW unreadable \in SUBSET Sources, NEW r \in Commits,
                 Enumerate(p, unreadable, r)
          PROVE  TypeInv'
      BY <2>1, EnumerateType DEF Enumerate, SharedType, upstreamVars, blobVars
    <2>2. ASSUME NEW s \in Sources, Pick(p, s) PROVE TypeInv'
      BY <1>2, <2>2, PickType DEF Pick
    <2>3. CASE Refuse(p)
      BY <1>2, <2>3, IdleType DEF Refuse, LocalType
    <2>4. ASSUME NEW c \in Candidates, Examine(p, c) PROVE TypeInv'
      BY <1>2, <2>4, ExamineType DEF Examine
    <2>5. ASSUME NEW part \in Parts, Upload(p, part) PROVE TypeInv'
      BY <2>5, UploadType DEF Upload, SharedType, upstreamVars
    <2>6. CASE Audit(p)
      BY <1>2, <2>6, AuditType DEF Audit
    <2>7. CASE Read(p, "read", "put") \/ Read(p, "reread", "overwrite")
      BY <1>2, <2>7, ReadType DEF Read, Publishing
    <2>8. CASE Put(p)
      BY <2>8, PutType DEF Put, SharedType, upstreamVars, blobVars
    <2>9. CASE Overwrite(p)
      BY <2>9, OverwriteType DEF Overwrite, SharedType, upstreamVars, blobVars
    <2>10. CASE Verify(p)
      BY <1>2, <2>10, VerifyType DEF Verify
    <2>11. CASE Select(p)
      BY <1>2, <2>11, SelectType DEF Select
    <2>12. CASE Promote(p)
      BY <1>2, <2>12, PromoteType DEF Promote
    <2> QED BY <1>4, <2>1, <2>2, <2>3, <2>4, <2>5, <2>6, <2>7, <2>8, <2>9, <2>10, <2>11, <2>12
            DEF Work
  <1>5. ASSUME NEW p \in Publishers, StepFails(p) PROVE TypeInv'
    BY <1>5, StepFailsType DEF StepFails, SharedType, upstreamVars, blobVars
  <1>6. ASSUME NEW p \in Publishers, Crash(p) PROVE TypeInv'
    BY <1>6, IdleType, FaultsAssumption
       DEF Crash, LocalType, SharedType, upstreamVars, blobVars
  <1>7. CASE Upstream
    <2>1. Unlocal /\ UNCHANGED <<manifest, blobVars>>
      BY <1>7 DEF Upstream, Publish, MoveTag, MakeCurrent, Upgrade
    <2>2. SharedType'
      BY <1>7, FaultsAssumption, VersionsAssumption
         DEF Upstream, Publish, MoveTag, MakeCurrent, Upgrade, SharedType, blobVars, Versions
    <2> QED BY <1>1, <2>1, <2>2
  <1>8. ASSUME NEW file \in Files, LoseFile(file) PROVE TypeInv'
    BY <1>1, <1>8, FaultsAssumption DEF LoseFile, SharedType, upstreamVars
  <1>9. CASE UNCHANGED vars
    BY <1>1, <1>2, <1>9 DEF vars, upstreamVars, blobVars
  <1> QED BY <1>3, <1>4, <1>5, <1>6, <1>7, <1>8, <1>9 DEF Next, Starts

\* Every variable keeps its type, an invocation under way has its task, and a
\* build being published its item.
THEOREM TypeCorrect == Spec => []TypeInv
  BY InitType, NextType, PTL DEF Spec

\* The type invariant of every run holds for all values of the constants.
THEOREM TypeOKAlways == Spec => []TypeOK
  <1>1. TypeInv => TypeOK
    BY DEF TypeInv
  <1> QED BY <1>1, TypeCorrect, PTL
-----------------------------------------------------------------------------
(***************************************************************************)
(* Whatever publishers run at the same time, and whatever fails, the       *)
(* stored manifest names only builds whose files were stored.              *)
(*                                                                         *)
(* The invariant follows an entry through an invocation: its data files    *)
(* are stored when the index is uploaded, and all of it when it is read    *)
(* back, written or promoted. The manifest a write starts from and the one *)
(* an invocation took its entries from name stored builds too. Every step  *)
(* preserves it because no step changes a file that is stored, except that *)
(* Blob may lose it.                                                       *)
(***************************************************************************)

Uploaded == {"audit", "read", "put", "reread", "overwrite", "verify", "promote"}

\* What publisher p may write is stored.
StoredBy(p) ==
    /\ pc[p] # "idle" => \A e \in task[p].known.entries : Stored(e)
    /\ pc[p] \in {"put", "overwrite"} => \A e \in Base(p).entries : Stored(e)
    /\ pc[p] = "index" => HasPart(item[p].entry, "data")
    /\ pc[p] \in Uploaded => Stored(item[p].entry)

StoredInv == ListedBuildsAreStored /\ \A p \in Publishers : StoredBy(p)

\* No step changes a stored file, other than Blob losing it.
FilesKept ==
    /\ lost \subseteq lost'
    /\ \A f \in Files : blobs[f] = None \/ blobs'[f] = blobs[f] \/ f \in lost'

\* A step of p's invocation leaves the other publishers alone.
OthersKept(p) ==
    \A q \in Publishers \ {p} :
        pc'[q] = pc[q] /\ task'[q] = task[q] /\ item'[q] = item[q] /\ etag'[q] = etag[q]

\* A stored part of an entry stays stored.
LEMMA HasPartStable ==
  ASSUME FilesKept, NEW e \in Entries, NEW part \in Parts, HasPart(e, part)
  PROVE  HasPart(e, part)'
  <1>1. <<Build(e), part>> \in Files
    BY BuildType DEF Files
  <1>2. Content(e, part) # None
    BY ContentType, NoneAssumption
  <1> QED BY <1>1, <1>2 DEF HasPart, FilesKept

\* A stored entry stays stored.
LEMMA StoredStable ==
  ASSUME FilesKept, NEW e \in Entries, Stored(e) PROVE Stored(e)'
  BY HasPartStable DEF Stored

\* What another publisher may write stays stored.
LEMMA OtherStored ==
  ASSUME TypeInv, FilesKept, NEW p \in Publishers, OthersKept(p),
         NEW q \in Publishers \ {p}, StoredBy(q)
  PROVE  StoredBy(q)'
  <1>1. pc'[q] = pc[q] /\ task'[q] = task[q] /\ item'[q] = item[q] /\ etag'[q] = etag[q]
    BY DEF OthersKept
  <1>2. pc[q] # "idle" => task[q].known.entries \subseteq Entries
    BY DEF TypeInv, Control, Tasks, Manifests
  <1>3. Base(q).entries \subseteq Entries
    BY EmptyManifestType DEF TypeInv, TypeOK, Base, Manifests
  <1>4. pc[q] \in Publishing => item[q].entry \in Entries
    BY DEF TypeInv, Control, Items
  <1>5. Base(q)' = Base(q)
    BY <1>1 DEF Base
  <1>6. pc'[q] # "idle" => \A e \in task'[q].known.entries : Stored(e)'
    BY <1>1, <1>2, StoredStable DEF StoredBy
  <1>7. pc'[q] \in {"put", "overwrite"} => \A e \in Base(q)'.entries : Stored(e)'
    BY <1>1, <1>3, <1>5, StoredStable DEF StoredBy
  <1>8. pc'[q] = "index" => HasPart(item[q].entry, "data")'
    BY <1>1, <1>4, HasPartStable DEF StoredBy, Publishing, Parts
  <1>9. pc'[q] \in Uploaded => Stored(item[q].entry)'
    BY <1>1, <1>4, StoredStable DEF StoredBy, Publishing, Uploaded
  <1>10. item[q]' = item[q]
    BY <1>1
  <1> QED BY <1>6, <1>7, <1>8, <1>9, <1>10 DEF StoredBy, HasPart, Stored

\* What p may write after a step is stored if it was stored before it.
LEMMA OwnStored ==
  ASSUME TypeInv, FilesKept, NEW p \in Publishers,
         pc'[p] # "idle" =>
            \A e \in task'[p].known.entries : e \in Entries /\ Stored(e),
         pc'[p] \in {"put", "overwrite"} =>
            \A e \in Base(p)'.entries : e \in Entries /\ Stored(e),
         pc'[p] = "index" =>
            item'[p].entry \in Entries /\ HasPart(item'[p].entry, "data"),
         pc'[p] \in Uploaded =>
            item'[p].entry \in Entries /\ Stored(item'[p].entry)
  PROVE  StoredBy(p)'
  <1>1. \A e \in Entries, part \in Parts : HasPart(e, part) => HasPart(e, part)'
    BY HasPartStable
  <1>2. \A e \in Entries : Stored(e) => Stored(e)'
    BY StoredStable
  <1> QED BY <1>1, <1>2 DEF StoredBy, HasPart, Stored, Parts

\* Listed builds stay stored while the manifest does not change.
LEMMA ListedStable ==
  ASSUME TypeInv, FilesKept, ListedBuildsAreStored, UNCHANGED manifest
  PROVE  ListedBuildsAreStored'
  <1>1. StoredManifest' = StoredManifest
    BY DEF StoredManifest
  <1>2. StoredManifest.entries \subseteq Entries
    BY StoredManifestType DEF TypeInv, Manifests
  <1> QED BY <1>1, <1>2, StoredStable DEF ListedBuildsAreStored

\* The facts of the current state that the steps of an invocation use.
LEMMA CurrentFacts ==
  ASSUME TypeInv, StoredInv, NEW p \in Publishers
  PROVE  /\ \A e \in StoredManifest.entries : e \in Entries /\ Stored(e)
         /\ pc[p] # "idle" =>
                \A e \in task[p].known.entries : e \in Entries /\ Stored(e)
         /\ pc[p] \in {"put", "overwrite"} =>
                \A e \in Base(p).entries : e \in Entries /\ Stored(e)
         /\ pc[p] \in Publishing => item[p].entry \in Entries
         /\ pc[p] = "index" => HasPart(item[p].entry, "data")
         /\ pc[p] \in Uploaded => Stored(item[p].entry)
  <1>1. StoredManifest.entries \subseteq Entries
    BY StoredManifestType DEF TypeInv, Manifests
  <1>2. pc[p] # "idle" => task[p].known.entries \subseteq Entries
    BY DEF TypeInv, Control, Tasks, Manifests
  <1>3. Base(p).entries \subseteq Entries
    BY EmptyManifestType DEF TypeInv, TypeOK, Base, Manifests
  <1>4. pc[p] \in Publishing => item[p].entry \in Entries
    BY DEF TypeInv, Control, Items
  <1> QED BY <1>1, <1>2, <1>3, <1>4 DEF StoredInv, StoredBy, ListedBuildsAreStored

\* The end of an invocation leaves nothing to be written.
LEMMA IdleStored ==
  ASSUME TypeInv, NEW p \in Publishers, Idle(p)
  PROVE  StoredBy(p)' /\ OthersKept(p)
  BY DEF Idle, StoredBy, OthersKept, TypeInv, TypeOK, Uploaded

\* A source that failed leaves the manifest its invocation knows.
LEMMA FailItemStored ==
  ASSUME TypeInv, StoredInv, FilesKept, NEW p \in Publishers, NEW s \in Sources,
         pc[p] # "idle", FailItem(p, s)
  PROVE  StoredBy(p)' /\ OthersKept(p)
  <1>1. CASE task[p].kind = "single"
    BY <1>1, IdleStored DEF FailItem
  <1>2. CASE task[p].kind # "single"
    <2>1. task[p] \in Tasks
      BY DEF TypeInv, Control
    <2>2. /\ pc'[p] = "next"
          /\ task'[p].known = task[p].known
      BY <1>2, <2>1 DEF FailItem, Goto, TypeInv, TypeOK, Tasks
    <2>3. OthersKept(p)
      BY <1>2 DEF FailItem, Goto, OthersKept, TypeInv, TypeOK
    <2> QED BY <2>2, <2>3, OwnStored, CurrentFacts DEF Uploaded
  <1> QED BY <1>1, <1>2

\* A failed write of the manifest keeps listed builds stored.
LEMMA FailWriteStored ==
  ASSUME TypeInv, StoredInv, FilesKept, NEW p \in Publishers, pc[p] # "idle",
         item[p] \in Items, FailWrite(p)
  PROVE  StoredBy(p)' /\ OthersKept(p)
  <1>1. item[p].entry.source \in Sources
    BY DEF Items, Entries
  <1> QED BY <1>1, IdleStored, FailItemStored DEF FailWrite

-----------------------------------------------------------------------------
(* The steps of an invocation.                                              *)

\* A step of p preserves what is stored and what p may write.
Preserves(p) == FilesKept /\ OthersKept(p) /\ StoredBy(p)' /\ ListedBuildsAreStored'

\* Steps that write nothing keep the files.
LEMMA FilesUnchanged == ASSUME UNCHANGED blobVars PROVE FilesKept
  BY DEF blobVars, FilesKept

\* runPublisher's start keeps listed builds stored.
LEMMA StartStored ==
  ASSUME TypeInv, StoredInv, NEW p \in Publishers, Starts(p) PROVE Preserves(p)
  <1> PICK c \in Countries, k \in Kinds, v \in Versions : Start(p, c, k, v)
    BY DEF Starts
  <1>1. FilesKept /\ UNCHANGED manifest
    BY FilesUnchanged DEF Start
  <1>2. OthersKept(p) /\ task'[p].known = StoredManifest /\ pc'[p] \in {"pick", "enumerate"}
    BY DEF Start, Goto, NewTask, OthersKept, TypeInv, TypeOK
  <1>3. StoredBy(p)'
    BY <1>1, <1>2, OwnStored, CurrentFacts DEF Uploaded
  <1> QED BY <1>1, <1>2, <1>3, ListedStable DEF Preserves, StoredInv

\* The enumeration of candidates keeps listed builds stored.
LEMMA EnumerateStored ==
  ASSUME TypeInv, StoredInv, NEW p \in Publishers, NEW unreadable \in SUBSET Sources,
         NEW r \in Commits, Enumerate(p, unreadable, r)
  PROVE  Preserves(p)
  <1>1. FilesKept /\ UNCHANGED manifest
    BY FilesUnchanged DEF Enumerate
  <1>2. pc[p] = "enumerate" /\ task[p] \in Tasks
    BY DEF Enumerate, TypeInv, Control
  <1>3. task'[p].known = task[p].known
    BY <1>2 DEF Enumerate, TypeInv, TypeOK, Tasks
  <1>4. OthersKept(p) /\ pc'[p] = "next"
    BY DEF Enumerate, Goto, OthersKept, TypeInv, TypeOK
  <1>5. StoredBy(p)'
    BY <1>1, <1>2, <1>3, <1>4, OwnStored, CurrentFacts DEF Uploaded
  <1> QED BY <1>1, <1>4, <1>5, ListedStable DEF Preserves, StoredInv

\* The choice of one release keeps listed builds stored.
LEMMA PickStored ==
  ASSUME TypeInv, StoredInv, NEW p \in Publishers, NEW s \in Sources, Pick(p, s)
  PROVE  Preserves(p)
  <1>1. FilesKept /\ UNCHANGED manifest
    BY FilesUnchanged DEF Pick
  <1>2. OthersKept(p) /\ pc[p] = "pick" /\ pc'[p] = "data" /\ UNCHANGED task
    BY DEF Pick, Goto, OthersKept, TypeInv, TypeOK
  <1>3. StoredBy(p)'
    BY <1>1, <1>2, OwnStored, CurrentFacts DEF Uploaded
  <1> QED BY <1>1, <1>2, <1>3, ListedStable DEF Preserves, StoredInv

\* The examination of a candidate keeps listed builds stored.
LEMMA ExamineStored ==
  ASSUME TypeInv, StoredInv, NEW p \in Publishers, NEW c \in Candidates, Examine(p, c)
  PROVE  Preserves(p)
  <1>1. FilesKept /\ UNCHANGED manifest
    BY FilesUnchanged DEF Examine
  <1>2. pc[p] = "next" /\ task[p] \in Tasks /\ c.source \in Sources
    BY DEF Examine, TypeInv, Control, Candidates
  <1>3. CASE FailItem(p, c.source)
    BY <1>1, <1>2, <1>3, FailItemStored, ListedStable DEF Preserves, StoredInv
  <1>4. ASSUME OthersKept(p), pc'[p] \in {"next", "data"}, task'[p].known = task[p].known
        PROVE  Preserves(p)
    <2>1. StoredBy(p)'
      BY <1>1, <1>2, <1>4, OwnStored, CurrentFacts DEF Uploaded
    <2> QED BY <1>1, <1>4, <2>1, ListedStable DEF Preserves, StoredInv
  <1>5. CASE task' = [task EXCEPT ![p].todo = @ \ {c}] /\ UNCHANGED <<pc, item, etag>>
    BY <1>2, <1>4, <1>5 DEF OthersKept, TypeInv, TypeOK, Tasks
  <1>6. CASE /\ item' = [item EXCEPT ![p] = [entry |-> EntryFor(task[p], c), latest |-> FALSE]]
             /\ Goto(p, "data") /\ UNCHANGED <<task, etag>>
    BY <1>2, <1>4, <1>6 DEF OthersKept, TypeInv, TypeOK, Goto
  <1> QED BY <1>3, <1>5, <1>6 DEF Examine

\* The upload keeps a stored file, and the index follows the data files.
LEMMA UploadStored ==
  ASSUME TypeInv, StoredInv, NEW p \in Publishers, NEW part \in Parts, Upload(p, part)
  PROVE  Preserves(p)
  <1> DEFINE entry == item[p].entry
             file == <<Build(entry), part>>
  <1>1. pc[p] = part /\ task[p] \in Tasks /\ item[p] \in Items /\ entry \in Entries
    BY DEF Upload, TypeInv, Control, Parts, Publishing, Items
  <1>2. file \in Files /\ UNCHANGED <<manifest, lost>>
    BY <1>1, BuildType DEF Upload, Files
  <1>3. CASE /\ blobs[file] \in {None, Content(entry, part)}
             /\ blobs' = [blobs EXCEPT ![file] = Content(entry, part)]
             /\ Goto(p, IF part = "data" THEN "index"
                        ELSE IF task[p].kind = "releases" THEN "audit" ELSE "read")
             /\ UNCHANGED <<task, item, etag>>
    <2>1. FilesKept
      BY <1>2, <1>3 DEF FilesKept, TypeInv, TypeOK
    <2>2. HasPart(entry, part)'
      BY <1>2, <1>3 DEF HasPart, TypeInv, TypeOK, Build, Content
    <2>3. OthersKept(p)
      BY <1>3 DEF OthersKept, Goto, TypeInv, TypeOK
    <2>4. \A e \in task[p].known.entries : Stored(e)'
      BY <1>1, <2>1, CurrentFacts, StoredStable DEF Parts
    <2>5. CASE part = "data"
      <3>1. pc'[p] = "index"
        BY <1>3, <2>5 DEF Goto, TypeInv, TypeOK
      <3>2. StoredBy(p)'
        BY <1>3, <2>2, <2>4, <2>5, <3>1 DEF StoredBy, Uploaded, HasPart, Stored
      <3> QED BY <1>2, <2>1, <2>3, <3>2, ListedStable DEF Preserves, StoredInv
    <2>6. CASE part = "index"
      <3>1. pc'[p] \in {"audit", "read"}
        BY <1>3, <2>6 DEF Goto, TypeInv, TypeOK
      <3>2. HasPart(entry, "data")'
        BY <1>1, <1>3, <2>1, <2>6, CurrentFacts, HasPartStable DEF Parts
      <3>3. Stored(entry)'
        BY <2>2, <2>6, <3>2 DEF Stored, Parts
      <3>4. StoredBy(p)'
        BY <1>3, <2>4, <3>1, <3>3 DEF StoredBy, HasPart, Stored
      <3> QED BY <1>2, <2>1, <2>3, <3>4, ListedStable DEF Preserves, StoredInv
    <2> QED BY <2>5, <2>6 DEF Parts
  <1>4. CASE FailItem(p, entry.source) /\ UNCHANGED blobs
    <2>1. FilesKept /\ pc[p] # "idle" /\ entry.source \in Sources
      BY <1>1, <1>2, <1>4 DEF FilesKept, Parts, Entries
    <2> QED BY <1>2, <1>4, <2>1, FailItemStored, ListedStable DEF Preserves, StoredInv
  <1> QED BY <1>3, <1>4 DEF Upload

\* The audit after an upload keeps listed builds stored.
LEMMA AuditStored ==
  ASSUME TypeInv, StoredInv, NEW p \in Publishers, Audit(p) PROVE Preserves(p)
  <1>1. FilesKept /\ UNCHANGED manifest
    BY FilesUnchanged DEF Audit
  <1>2. pc[p] = "audit" /\ task[p] \in Tasks /\ item[p] \in Items /\ item[p].entry.source \in Sources
    BY DEF Audit, TypeInv, Control, Publishing, Items, Entries
  <1>3. CASE FailItem(p, item[p].entry.source)
    BY <1>1, <1>2, <1>3, FailItemStored, ListedStable DEF Preserves, StoredInv
  <1>4. CASE /\ task' = [task EXCEPT ![p].seen = Listing(task[p].country)]
             /\ Goto(p, "read") /\ UNCHANGED <<item, etag>>
    <2>1. OthersKept(p) /\ pc'[p] = "read" /\ task'[p].known = task[p].known
      BY <1>2, <1>4 DEF OthersKept, Goto, TypeInv, TypeOK, Tasks
    <2>2. StoredBy(p)'
      BY <1>1, <1>2, <1>4, <2>1, OwnStored, CurrentFacts DEF Uploaded, Publishing
    <2> QED BY <1>1, <2>1, <2>2, ListedStable DEF Preserves, StoredInv
  <1>5. CASE /\ task' = [task EXCEPT
                    ![p].seen = Listing(task[p].country),
                    ![p].todo = {c \in @ : c.source # item[p].entry.source}]
             /\ item' = [item EXCEPT ![p] = None]
             /\ Goto(p, "next") /\ UNCHANGED etag
    <2>1. OthersKept(p) /\ pc'[p] = "next" /\ task'[p].known = task[p].known
      BY <1>2, <1>5 DEF OthersKept, Goto, TypeInv, TypeOK, Tasks
    <2>2. StoredBy(p)'
      BY <1>1, <1>2, <2>1, OwnStored, CurrentFacts DEF Uploaded
    <2> QED BY <1>1, <2>1, <2>2, ListedStable DEF Preserves, StoredInv
  <1> QED BY <1>3, <1>4, <1>5 DEF Audit

\* The read of updateCalibrationTreeManifest keeps listed builds stored.
LEMMA ReadStored ==
  ASSUME TypeInv, StoredInv, NEW p \in Publishers, NEW at \in Uploaded, NEW next \in Uploaded,
         Read(p, at, next)
  PROVE  Preserves(p)
  <1>1. FilesKept /\ UNCHANGED manifest
    BY FilesUnchanged DEF Read
  <1>2. pc[p] = at /\ task[p] \in Tasks /\ item[p] \in Items /\ pc[p] # "idle"
    BY DEF Read, TypeInv, Control, Publishing, Uploaded
  <1>3. CASE FailWrite(p)
    BY <1>1, <1>2, <1>3, FailWriteStored, ListedStable DEF Preserves, StoredInv
  <1>4. CASE etag' = [etag EXCEPT ![p] = manifest] /\ Goto(p, next) /\ UNCHANGED <<task, item>>
    <2>1. OthersKept(p) /\ pc'[p] = next /\ UNCHANGED <<task, item>>
      BY <1>4 DEF OthersKept, Goto, TypeInv, TypeOK
    <2>2. Base(p)' = StoredManifest
      BY <1>4 DEF Base, StoredManifest, TypeInv, TypeOK
    <2>3. StoredBy(p)'
      BY <1>1, <1>2, <2>1, <2>2, OwnStored, CurrentFacts DEF Uploaded, Publishing
    <2> QED BY <1>1, <2>1, <2>3, ListedStable DEF Preserves, StoredInv
  <1> QED BY <1>3, <1>4 DEF Read

\* A manifest merged from a stored one and a stored entry is stored.
LEMMA MergedStored ==
  ASSUME TypeInv, StoredInv, FilesKept, NEW p \in Publishers, pc[p] \in {"put", "overwrite"},
         manifest' = Merged(p)
  PROVE  ListedBuildsAreStored'
  <1>1. item[p] \in Items /\ pc[p] \in Uploaded /\ pc[p] \in Publishing
    BY DEF TypeInv, Control, Publishing, Uploaded
  <1>2. Merged(p).entries \subseteq Base(p).entries \cup {item[p].entry}
    BY DEF Merged, WithEntry
  <1>3. \A e \in Merged(p).entries : e \in Entries /\ Stored(e)
    BY <1>1, <1>2, CurrentFacts
  <1>4. manifest' \in Manifests
    BY <1>1, MergedType
  <1>5. StoredManifest' = Merged(p)
    BY <1>4, NoneAssumption DEF StoredManifest
  <1> QED BY <1>3, <1>5, StoredStable DEF ListedBuildsAreStored

\* The conditional put keeps listed builds stored.
LEMMA PutStored ==
  ASSUME TypeInv, StoredInv, NEW p \in Publishers, Put(p) PROVE Preserves(p)
  <1>1. FilesKept
    BY FilesUnchanged DEF Put
  <1>2. pc[p] = "put" /\ task[p] \in Tasks /\ item[p] \in Items
    BY DEF Put, TypeInv, Control, Publishing
  <1>3. CASE manifest' = Merged(p) /\ Goto(p, "verify") /\ UNCHANGED <<task, item, etag>>
    <2>1. OthersKept(p) /\ pc'[p] = "verify" /\ UNCHANGED <<task, item>>
      BY <1>3 DEF OthersKept, Goto, TypeInv, TypeOK
    <2>2. StoredBy(p)'
      BY <1>1, <1>2, <2>1, OwnStored, CurrentFacts DEF Uploaded, Publishing
    <2> QED BY <1>1, <1>2, <1>3, <2>1, <2>2, MergedStored DEF Preserves
  <1>4. CASE Goto(p, "reread") /\ UNCHANGED <<manifest, task, item, etag>>
    <2>1. OthersKept(p) /\ pc'[p] = "reread" /\ UNCHANGED <<task, item>>
      BY <1>4 DEF OthersKept, Goto, TypeInv, TypeOK
    <2>2. StoredBy(p)'
      BY <1>1, <1>2, <2>1, OwnStored, CurrentFacts DEF Uploaded, Publishing
    <2> QED BY <1>1, <1>4, <2>1, <2>2, ListedStable DEF Preserves, StoredInv
  <1>5. CASE FailWrite(p) /\ UNCHANGED manifest
    BY <1>1, <1>2, <1>5, FailWriteStored, ListedStable DEF Preserves, StoredInv
  <1> QED BY <1>3, <1>4, <1>5 DEF Put

\* The second put keeps listed builds stored.
LEMMA OverwriteStored ==
  ASSUME TypeInv, StoredInv, NEW p \in Publishers, Overwrite(p) PROVE Preserves(p)
  <1>1. FilesKept /\ manifest' = Merged(p)
    BY FilesUnchanged DEF Overwrite
  <1>2. pc[p] = "overwrite" /\ task[p] \in Tasks /\ item[p] \in Items
    BY DEF Overwrite, TypeInv, Control, Publishing
  <1>3. OthersKept(p) /\ pc'[p] = "verify" /\ UNCHANGED <<task, item>>
    BY DEF Overwrite, OthersKept, Goto, TypeInv, TypeOK
  <1>4. StoredBy(p)'
    BY <1>1, <1>2, <1>3, OwnStored, CurrentFacts DEF Uploaded, Publishing
  <1> QED BY <1>1, <1>2, <1>3, <1>4, MergedStored DEF Preserves

\* The read-back check keeps listed builds stored.
LEMMA VerifyStored ==
  ASSUME TypeInv, StoredInv, NEW p \in Publishers, Verify(p) PROVE Preserves(p)
  <1>1. FilesKept /\ UNCHANGED manifest
    BY FilesUnchanged DEF Verify
  <1>2. pc[p] = "verify" /\ task[p] \in Tasks /\ item[p] \in Items
    BY DEF Verify, TypeInv, Control, Publishing
  <1>3. CASE FailWrite(p)
    BY <1>1, <1>2, <1>3, FailWriteStored, ListedStable DEF Preserves, StoredInv
  <1>4. CASE Idle(p)
    BY <1>1, <1>4, IdleStored, ListedStable DEF Preserves, StoredInv
  <1>5. CASE ~item[p].latest /\ Verified(p)
    <2>1. OthersKept(p) /\ task'[p].known = StoredManifest
      BY <1>2, <1>5 DEF Verified, Goto, OthersKept, TypeInv, TypeOK, Tasks
    <2>2. pc'[p] = "next" \/ (pc'[p] \in {"audit", "promote"} /\ UNCHANGED item)
      BY <1>2, <1>5 DEF Verified, Goto, TypeInv, TypeOK, Tasks, Kinds
    <2>3. StoredBy(p)'
      BY <1>1, <1>2, <2>1, <2>2, OwnStored, CurrentFacts DEF Uploaded, Publishing
    <2> QED BY <1>1, <2>1, <2>3, ListedStable DEF Preserves, StoredInv
  <1> QED BY <1>3, <1>4, <1>5 DEF Verify, Verified

\* selectLatestRelease keeps listed builds stored.
LEMMA SelectStored ==
  ASSUME TypeInv, StoredInv, NEW p \in Publishers, Select(p) PROVE Preserves(p)
  <1>1. FilesKept /\ UNCHANGED manifest
    BY FilesUnchanged DEF Select
  <1>2. pc[p] = "next" /\ task[p] \in Tasks
    BY DEF Select, TypeInv, Control
  <1>3. CASE Idle(p)
    BY <1>1, <1>3, IdleStored, ListedStable DEF Preserves, StoredInv
  <1>4. ASSUME NEW e \in EntriesOf(task[p].known, task[p].wanted.source),
               item' = [item EXCEPT ![p] = [entry |-> e, latest |-> TRUE]],
               Goto(p, "read"), UNCHANGED <<task, etag>>
        PROVE  Preserves(p)
    <2>1. OthersKept(p) /\ pc'[p] = "read" /\ UNCHANGED task /\ item'[p].entry = e
      BY <1>4 DEF OthersKept, Goto, TypeInv, TypeOK
    <2>2. e \in task[p].known.entries
      BY DEF EntriesOf
    <2>3. StoredBy(p)'
      BY <1>1, <1>2, <2>1, <2>2, OwnStored, CurrentFacts DEF Uploaded
    <2> QED BY <1>1, <2>1, <2>3, ListedStable DEF Preserves, StoredInv
  <1> QED BY <1>3, <1>4 DEF Select

\* promoteIfCurrent keeps listed builds stored.
LEMMA PromoteStored ==
  ASSUME TypeInv, StoredInv, NEW p \in Publishers, Promote(p) PROVE Preserves(p)
  <1>1. FilesKept /\ UNCHANGED manifest
    BY FilesUnchanged DEF Promote
  <1>2. pc[p] = "promote" /\ task[p] \in Tasks /\ item[p] \in Items
    BY DEF Promote, TypeInv, Control, Publishing
  <1>3. CASE Idle(p)
    BY <1>1, <1>3, IdleStored, ListedStable DEF Preserves, StoredInv
  <1>4. CASE item' = [item EXCEPT ![p].latest = TRUE] /\ Goto(p, "read") /\ UNCHANGED <<task, etag>>
    <2>1. OthersKept(p) /\ pc'[p] = "read" /\ UNCHANGED task /\ item'[p].entry = item[p].entry
      BY <1>2, <1>4 DEF OthersKept, Goto, TypeInv, TypeOK, Items
    <2>2. StoredBy(p)'
      BY <1>1, <1>2, <2>1, OwnStored, CurrentFacts DEF Uploaded, Publishing
    <2> QED BY <1>1, <2>1, <2>2, ListedStable DEF Preserves, StoredInv
  <1> QED BY <1>3, <1>4 DEF Promote

\* A failing request keeps listed builds stored.
LEMMA StepFailsStored ==
  ASSUME TypeInv, StoredInv, NEW p \in Publishers, StepFails(p) PROVE Preserves(p)
  <1>1. FilesKept /\ UNCHANGED manifest /\ pc[p] # "idle"
    BY FilesUnchanged DEF StepFails
  <1>2. task[p] \in Tasks
    BY <1>1 DEF TypeInv, Control
  <1>3. CASE item[p] # None /\ FailWrite(p)
    BY <1>1, <1>3, FailWriteStored, ListedStable DEF Preserves, StoredInv, TypeInv, TypeOK
  <1>4. ASSUME NEW c \in task[p].todo, FailItem(p, c.source) PROVE Preserves(p)
    <2>1. c.source \in Sources
      BY <1>2 DEF Tasks, Candidates
    <2> QED BY <1>1, <1>4, <2>1, FailItemStored, ListedStable DEF Preserves, StoredInv
  <1>5. CASE Idle(p)
    BY <1>1, <1>5, IdleStored, ListedStable DEF Preserves, StoredInv
  <1> QED BY <1>3, <1>4, <1>5 DEF StepFails

-----------------------------------------------------------------------------

\* Before the first publication nothing is listed.
LEMMA StoredInit == Init => StoredInv
  <1> SUFFICES ASSUME Init PROVE StoredInv
    OBVIOUS
  <1>1. StoredManifest.entries = {}
    BY DEF Init, StoredManifest, EmptyManifest
  <1>2. \A p \in Publishers : StoredBy(p)
    BY DEF Init, StoredBy, Uploaded
  <1> QED BY <1>1, <1>2 DEF StoredInv, ListedBuildsAreStored

\* Every step keeps what is listed, or about to be, stored.
LEMMA StoredNext ==
  ASSUME TypeInv, StoredInv, [Next]_vars PROVE StoredInv'
  <1>1. ASSUME NEW p \in Publishers, Preserves(p) PROVE StoredInv'
    BY <1>1, OtherStored DEF Preserves, StoredInv
  <1>2. ASSUME NEW p \in Publishers, Work(p) PROVE StoredInv'
    <2>1. ASSUME NEW unreadable \in SUBSET Sources, NEW r \in Commits,
                 Enumerate(p, unreadable, r)
          PROVE  StoredInv'
      BY <1>1, <2>1, EnumerateStored
    <2>2. ASSUME NEW s \in Sources, Pick(p, s) PROVE StoredInv'
      BY <1>1, <2>2, PickStored
    <2>3. CASE Refuse(p)
      BY <1>1, <2>3, IdleStored, FilesUnchanged, ListedStable DEF Refuse, Preserves, StoredInv
    <2>4. ASSUME NEW c \in Candidates, Examine(p, c) PROVE StoredInv'
      BY <1>1, <2>4, ExamineStored
    <2>5. ASSUME NEW part \in Parts, Upload(p, part) PROVE StoredInv'
      BY <1>1, <2>5, UploadStored
    <2>6. CASE Audit(p)
      BY <1>1, <2>6, AuditStored
    <2>7. CASE Read(p, "read", "put") \/ Read(p, "reread", "overwrite")
      BY <1>1, <2>7, ReadStored DEF Uploaded
    <2>8. CASE Put(p)
      BY <1>1, <2>8, PutStored
    <2>9. CASE Overwrite(p)
      BY <1>1, <2>9, OverwriteStored
    <2>10. CASE Verify(p)
      BY <1>1, <2>10, VerifyStored
    <2>11. CASE Select(p)
      BY <1>1, <2>11, SelectStored
    <2>12. CASE Promote(p)
      BY <1>1, <2>12, PromoteStored
    <2> QED BY <1>2, <2>1, <2>2, <2>3, <2>4, <2>5, <2>6, <2>7, <2>8, <2>9, <2>10, <2>11, <2>12
            DEF Work
  <1>3. ASSUME NEW p \in Publishers, Starts(p) \/ StepFails(p) PROVE StoredInv'
    BY <1>1, <1>3, StartStored, StepFailsStored
  <1>4. ASSUME NEW p \in Publishers, Crash(p) PROVE StoredInv'
    BY <1>1, <1>4, IdleStored, FilesUnchanged, ListedStable DEF Crash, Preserves, StoredInv
  <1>5. ASSUME FilesKept, UNCHANGED <<manifest, pc, task, item, etag>> PROVE StoredInv'
    <2>1. \A p \in Publishers : StoredBy(p)'
      <3> SUFFICES ASSUME NEW p \in Publishers PROVE StoredBy(p)'
        OBVIOUS
      <3>1. Base(p)' = Base(p)
        BY <1>5 DEF Base
      <3> QED BY <1>5, <3>1, OwnStored, CurrentFacts DEF Uploaded, Publishing
    <2> QED BY <1>5, <2>1, ListedStable DEF StoredInv
  <1>6. CASE Upstream
    BY <1>5, <1>6, FilesUnchanged DEF Upstream, Publish, MoveTag, MakeCurrent, Upgrade
  <1>7. ASSUME NEW file \in Files, LoseFile(file) PROVE StoredInv'
    <2>1. FilesKept
      BY <1>7 DEF LoseFile, FilesKept, TypeInv, TypeOK
    <2> QED BY <1>5, <1>7, <2>1 DEF LoseFile
  <1>8. CASE UNCHANGED vars
    BY <1>5, <1>8, FilesUnchanged DEF vars, blobVars
  <1> QED BY <1>2, <1>3, <1>4, <1>6, <1>7, <1>8 DEF Next

\* The manifest never names a tree that a browser cannot load, whatever
\* invocations run together, fail or crash: uploadCalibrationTreeFile never
\* changes a stored file, and updateCalibrationTreeManifest is called only
\* after the upload of the build it registers.
THEOREM ListedBuildsAreStoredAlways == Spec => []ListedBuildsAreStored
  <1>1. StoredInv => ListedBuildsAreStored
    BY DEF StoredInv
  <1>2. Spec => []StoredInv
    BY StoredInit, StoredNext, TypeCorrect, PTL DEF Spec
  <1> QED BY <1>1, <1>2, PTL

-----------------------------------------------------------------------------
(***************************************************************************)
(* What writes of the manifest preserve.                                   *)
(*                                                                         *)
(* The stored manifest is valid whoever writes it, since every write,      *)
(* conditional or not, merges an entry that was checked against the very   *)
(* manifest it is merged into. That listed builds stay listed needs more:  *)
(* one publisher at a time, so that nobody writes between a read and its   *)
(* put and the put never meets a conflict, whose second put is             *)
(* unconditional. Under that assumption publishers implement TreeCatalog.  *)
(***************************************************************************)

\* What a step of p's invocation does to the manifest and to p's next write.
Effect(p) ==
    /\ OthersKept(p)
    /\ pc[p] # "idle" \/ (p \in Grouped => \A q \in Grouped : pc[q] = "idle")
    /\ pc'[p] \in {"put", "overwrite"} =>
        /\ UNCHANGED <<manifest, item>>
        /\ etag'[p] = manifest
        /\ Accepts(StoredManifest, item[p].entry, item[p].latest)
        /\ pc'[p] = "overwrite" => pc[p] = "reread"
    /\ pc'[p] = "reread" => pc[p] = "put" /\ etag[p] # manifest
    /\ \/ UNCHANGED manifest
       \/ /\ pc[p] \in {"put", "overwrite"} /\ pc'[p] = "verify"
          /\ manifest' = Merged(p)
          /\ UNCHANGED blobVars
    /\ \/ UNCHANGED blobVars
       \/ /\ UNCHANGED <<manifest, lost>>
          /\ \A f \in Files : blobs[f] # None => blobs'[f] = blobs[f]

\* A failure writes nothing.
LEMMA FailWriteEffect ==
  ASSUME TypeInv, NEW p \in Publishers, NEW s,
         Idle(p) \/ FailItem(p, s) \/ FailWrite(p)
  PROVE  OthersKept(p) /\ pc'[p] \in {"idle", "next"}
  BY DEF Idle, FailItem, FailWrite, Goto, OthersKept, TypeInv, TypeOK

\* An error leaves the manifest, the files and the other publishers alone.
LEMMA FailureEffect ==
  ASSUME TypeInv, NEW p \in Publishers, NEW s, pc[p] # "idle",
         UNCHANGED <<manifest, blobVars>>, Idle(p) \/ FailItem(p, s) \/ FailWrite(p)
  PROVE  Effect(p)
  <1>1. OthersKept(p) /\ pc'[p] \in {"idle", "next"}
    BY FailWriteEffect
  <1> QED BY <1>1 DEF Effect

\* A step that neither writes nor prepares a write.
LEMMA QuietEffect ==
  ASSUME TypeInv, NEW p \in Publishers, pc[p] # "idle", OthersKept(p),
         pc'[p] \notin {"put", "overwrite", "reread"}, UNCHANGED <<manifest, blobVars>>
  PROVE  Effect(p)
  BY DEF Effect

\* uploadCalibrationTreeFile writes one absent file, or nothing.
LEMMA UploadEffect ==
  ASSUME TypeInv, NEW p \in Publishers, NEW part \in Parts, Upload(p, part) PROVE Effect(p)
  <1>1. pc[p] = part /\ UNCHANGED <<manifest, lost>> /\ pc[p] # "idle"
    BY DEF Upload, Parts
  <1>2. CASE FailItem(p, item[p].entry.source) /\ UNCHANGED blobs
    BY <1>1, <1>2, FailureEffect DEF blobVars
  <1>3. CASE /\ blobs[<<Build(item[p].entry), part>>] \in {None, Content(item[p].entry, part)}
             /\ blobs' = [blobs EXCEPT ![<<Build(item[p].entry), part>>] =
                                    Content(item[p].entry, part)]
             /\ \E step \in {"index", "audit", "read"} : Goto(p, step)
             /\ UNCHANGED <<task, item, etag>>
    <2>1. \A f \in Files : blobs[f] # None => blobs'[f] = blobs[f]
      BY <1>3 DEF TypeInv, TypeOK
    <2>2. OthersKept(p) /\ pc'[p] \in {"index", "audit", "read"}
      BY <1>3 DEF OthersKept, Goto, TypeInv, TypeOK
    <2> QED BY <1>1, <2>1, <2>2 DEF Effect
  <1> QED BY <1>2, <1>3 DEF Upload

\* A write is prepared from the manifest read, after its checks.
LEMMA ReadEffect ==
  ASSUME TypeInv, NEW p \in Publishers,
         Read(p, "read", "put") \/ Read(p, "reread", "overwrite")
  PROVE  Effect(p)
  <1>1. UNCHANGED <<manifest, blobVars>> /\ pc[p] \in {"read", "reread"}
    BY DEF Read
  <1>2. CASE FailWrite(p)
    BY <1>1, <1>2, FailureEffect
  <1>3. CASE ~FailWrite(p)
    <2>1. PICK at \in {"read", "reread"} :
            /\ pc[p] = at
            /\ Accepts(StoredManifest, item[p].entry, item[p].latest)
            /\ etag' = [etag EXCEPT ![p] = manifest]
            /\ Goto(p, IF at = "read" THEN "put" ELSE "overwrite")
            /\ UNCHANGED <<task, item>>
      BY <1>3 DEF Read
    <2>2. OthersKept(p) /\ etag'[p] = manifest
          /\ pc'[p] = IF at = "read" THEN "put" ELSE "overwrite"
      BY <2>1 DEF OthersKept, Goto, TypeInv, TypeOK
    <2> QED BY <1>1, <2>1, <2>2 DEF Effect
  <1> QED BY <1>2, <1>3

\* A put stores the merged manifest, and a conflict leads to the second read.
LEMMA PutEffect ==
  ASSUME TypeInv, NEW p \in Publishers, Put(p) \/ Overwrite(p) PROVE Effect(p)
  <1>1. CASE Overwrite(p)
    <2>1. OthersKept(p) /\ pc'[p] = "verify"
      BY <1>1 DEF Overwrite, OthersKept, Goto, TypeInv, TypeOK
    <2> QED BY <1>1, <2>1 DEF Overwrite, Effect
  <1>2. CASE Put(p)
    <2>1. pc[p] = "put" /\ UNCHANGED blobVars
      BY <1>2 DEF Put
    <2>2. CASE manifest' = Merged(p) /\ Goto(p, "verify") /\ UNCHANGED <<task, item, etag>>
      <3>1. OthersKept(p) /\ pc'[p] = "verify"
        BY <2>2 DEF OthersKept, Goto, TypeInv, TypeOK
      <3> QED BY <2>1, <2>2, <3>1 DEF Effect
    <2>3. CASE /\ manifest # etag[p] /\ Goto(p, "reread")
               /\ UNCHANGED <<manifest, task, item, etag>>
      <3>1. OthersKept(p) /\ pc'[p] = "reread"
        BY <2>3 DEF OthersKept, Goto, TypeInv, TypeOK
      <3> QED BY <2>1, <2>3, <3>1 DEF Effect
    <2>4. CASE FailWrite(p) /\ UNCHANGED manifest
      BY <2>1, <2>4, FailureEffect
    <2> QED BY <1>2, <2>2, <2>3, <2>4 DEF Put
  <1> QED BY <1>1, <1>2

\* The read-back check writes nothing.
LEMMA VerifyEffect ==
  ASSUME TypeInv, NEW p \in Publishers, Verify(p) PROVE Effect(p)
  <1>1. UNCHANGED <<manifest, blobVars>> /\ pc[p] = "verify" /\ task[p] \in Tasks
    BY DEF Verify, TypeInv, Control
  <1>2. CASE Idle(p) \/ FailWrite(p)
    BY <1>1, <1>2, FailureEffect
  <1>3. CASE ~item[p].latest /\ Verified(p)
    <2>1. OthersKept(p)
      BY <1>3 DEF Verified, Goto, OthersKept, TypeInv, TypeOK
    <2>2. pc'[p] \in {"next", "audit", "promote"}
      BY <1>1, <1>3 DEF Verified, Goto, TypeInv, TypeOK, Tasks, Kinds
    <2> QED BY <1>1, <2>1, <2>2, QuietEffect
  <1> QED BY <1>2, <1>3 DEF Verify, Verified

\* The audit writes nothing.
LEMMA AuditEffect ==
  ASSUME TypeInv, NEW p \in Publishers, Audit(p) PROVE Effect(p)
  <1>1. UNCHANGED <<manifest, blobVars>> /\ pc[p] = "audit"
    BY DEF Audit
  <1>2. CASE FailItem(p, item[p].entry.source)
    BY <1>1, <1>2, FailureEffect
  <1>3. CASE ~FailItem(p, item[p].entry.source)
    <2>1. OthersKept(p) /\ pc'[p] \in {"read", "next"}
      BY <1>3 DEF Audit, Goto, OthersKept, TypeInv, TypeOK
    <2> QED BY <1>1, <2>1, QuietEffect
  <1> QED BY <1>2, <1>3

\* Examining a candidate writes nothing.
LEMMA ExamineEffect ==
  ASSUME TypeInv, NEW p \in Publishers, NEW c \in Candidates, Examine(p, c) PROVE Effect(p)
  <1>1. UNCHANGED <<manifest, blobVars>> /\ pc[p] = "next"
    BY DEF Examine
  <1>2. CASE FailItem(p, c.source)
    BY <1>1, <1>2, FailureEffect
  <1>3. CASE UNCHANGED <<pc, item, etag>> /\ task' = [task EXCEPT ![p].todo = @ \ {c}]
    <2>1. OthersKept(p) /\ pc'[p] = "next"
      BY <1>1, <1>3 DEF OthersKept, TypeInv, TypeOK
    <2> QED BY <1>1, <2>1, QuietEffect
  <1>4. CASE /\ item' = [item EXCEPT ![p] = [entry |-> EntryFor(task[p], c), latest |-> FALSE]]
             /\ Goto(p, "data") /\ UNCHANGED <<task, etag>>
    <2>1. OthersKept(p) /\ pc'[p] = "data"
      BY <1>4 DEF OthersKept, Goto, TypeInv, TypeOK
    <2> QED BY <1>1, <2>1, QuietEffect
  <1> QED BY <1>2, <1>3, <1>4 DEF Examine

\* Choosing the latest release writes nothing by itself.
LEMMA SelectEffect ==
  ASSUME TypeInv, NEW p \in Publishers, Select(p) \/ Promote(p) PROVE Effect(p)
  <1>1. UNCHANGED <<manifest, blobVars>> /\ pc[p] \in {"next", "promote"}
    BY DEF Select, Promote
  <1>2. CASE Idle(p)
    BY <1>1, <1>2, FailureEffect
  <1>3. CASE ~Idle(p)
    <2>1. OthersKept(p) /\ pc'[p] = "read"
      BY <1>3 DEF Select, Promote, Goto, OthersKept, TypeInv, TypeOK
    <2> QED BY <1>1, <2>1, QuietEffect
  <1> QED BY <1>2, <1>3

\* Every step of an invocation has one of these effects.
LEMMA InvocationEffect ==
  ASSUME TypeInv, NEW p \in Publishers, Starts(p) \/ Work(p) \/ StepFails(p) \/ Crash(p)
  PROVE  Effect(p)
  <1>1. CASE Starts(p)
    <2> PICK c \in Countries, k \in Kinds, v \in Versions : Start(p, c, k, v)
      BY <1>1 DEF Starts
    <2>1. OthersKept(p) /\ pc'[p] \in {"pick", "enumerate"} /\ UNCHANGED <<manifest, blobVars>>
      BY DEF Start, Goto, OthersKept, TypeInv, TypeOK
    <2> QED BY <2>1 DEF Start, Effect
  <1>2. ASSUME NEW unreadable \in SUBSET Sources, NEW r \in Commits, Enumerate(p, unreadable, r)
        PROVE  Effect(p)
    <2>1. OthersKept(p) /\ pc'[p] = "next"
      BY <1>2 DEF Enumerate, Goto, OthersKept, TypeInv, TypeOK
    <2> QED BY <1>2, <2>1, QuietEffect DEF Enumerate
  <1>3. ASSUME NEW s \in Sources, Pick(p, s) PROVE Effect(p)
    <2>1. OthersKept(p) /\ pc'[p] = "data"
      BY <1>3 DEF Pick, Goto, OthersKept, TypeInv, TypeOK
    <2> QED BY <1>3, <2>1, QuietEffect DEF Pick
  <1>4. CASE Refuse(p)
    BY <1>4, FailureEffect DEF Refuse
  <1>5. CASE StepFails(p) \/ Crash(p)
    BY <1>5, FailureEffect DEF StepFails, Crash
  <1> QED BY <1>1, <1>2, <1>3, <1>4, <1>5, ExamineEffect, UploadEffect, AuditEffect,
             ReadEffect, PutEffect, VerifyEffect, SelectEffect DEF Work

-----------------------------------------------------------------------------
(* The stored manifest is valid.                                            *)

\* A write was checked against the manifest it is merged into.
Checked(p) ==
    pc[p] \in {"put", "overwrite"} =>
        /\ ValidManifest(Base(p))
        /\ Accepts(Base(p), item[p].entry, item[p].latest)

ValidInv == ManifestIsValid /\ \A p \in Publishers : Checked(p)

\* What a checked write stores.
LEMMA CheckedWrite ==
  ASSUME TypeInv, NEW p \in Publishers, Checked(p), pc[p] \in {"put", "overwrite"},
         manifest' = Merged(p)
  PROVE  /\ StoredManifest' = Merged(p)
         /\ ValidManifest(Merged(p))
         /\ Merged(p).entries = Base(p).entries \cup {item[p].entry}
         /\ Base(p) \in Manifests /\ item[p] \in Items
         /\ item[p].entry \in Entries /\ item[p].latest \in BOOLEAN
  <1>1. item[p] \in Items /\ item[p].entry \in Entries /\ item[p].latest \in BOOLEAN
    BY DEF TypeInv, Control, Publishing, Items
  <1>2. Base(p) \in Manifests
    BY EmptyManifestType DEF Base, TypeInv, TypeOK
  <1>3. ValidManifest(Merged(p)) /\ Merged(p).entries = Base(p).entries \cup {item[p].entry}
    BY <1>1, <1>2, WithEntryValid, WithEntryGrows DEF Checked, Merged
  <1>4. StoredManifest' = Merged(p)
    BY <1>1, MergedType, NoneAssumption DEF StoredManifest
  <1> QED BY <1>1, <1>2, <1>3, <1>4

\* The empty manifest is valid.
LEMMA ValidInit == Init => ValidInv
  BY EmptyManifestValid DEF Init, ValidInv, ManifestIsValid, StoredManifest, Checked

\* Every step keeps the stored manifest valid, and every pending write checked.
LEMMA ValidNext ==
  ASSUME TypeInv, ValidInv, [Next]_vars PROVE ValidInv'
  <1>1. ASSUME NEW p \in Publishers, Effect(p) PROVE ValidInv'
    <2>1. ManifestIsValid'
      <3>1. CASE UNCHANGED manifest
        BY <3>1 DEF ValidInv, ManifestIsValid, StoredManifest
      <3>2. CASE pc[p] \in {"put", "overwrite"} /\ manifest' = Merged(p)
        BY <3>2, CheckedWrite DEF ValidInv, ManifestIsValid
      <3> QED BY <1>1, <3>1, <3>2 DEF Effect
    <2>2. Checked(p)'
      <3> SUFFICES ASSUME pc'[p] \in {"put", "overwrite"} PROVE Checked(p)'
        BY DEF Checked
      <3>1. Base(p)' = StoredManifest /\ UNCHANGED item
        BY <1>1 DEF Effect, Base, StoredManifest
      <3>2. Accepts(StoredManifest, item[p].entry, item[p].latest) /\ ValidManifest(StoredManifest)
        BY <1>1 DEF Effect, ValidInv, ManifestIsValid
      <3> QED BY <3>1, <3>2 DEF Checked
    <2>3. ASSUME NEW q \in Publishers \ {p} PROVE Checked(q)'
      <3>1. pc'[q] = pc[q] /\ item'[q] = item[q] /\ etag'[q] = etag[q]
        BY <1>1 DEF Effect, OthersKept
      <3>2. Base(q)' = Base(q)
        BY <3>1 DEF Base
      <3> QED BY <3>1, <3>2 DEF ValidInv, Checked
    <2> QED BY <2>1, <2>2, <2>3 DEF ValidInv
  <1>2. ASSUME UNCHANGED <<manifest, pc, item, etag>> PROVE ValidInv'
    <2>1. ManifestIsValid'
      BY <1>2 DEF ValidInv, ManifestIsValid, StoredManifest
    <2>2. ASSUME NEW p \in Publishers PROVE Checked(p)'
      BY <1>2 DEF ValidInv, Checked, Base
    <2> QED BY <2>1, <2>2 DEF ValidInv
  <1> QED BY <1>1, <1>2, InvocationEffect
          DEF Next, Upstream, Publish, MoveTag, MakeCurrent, Upgrade, LoseFile, vars

\* parseCalibrationTreeManifest accepts the stored manifest whoever wrote it
\* last, the unconditional second put of updateCalibrationTreeManifest
\* included: that put too is merged into a manifest it was checked against.
THEOREM ManifestIsValidAlways == Spec => []ManifestIsValid
  <1>1. ValidInv => ManifestIsValid
    BY DEF ValidInv
  <1>2. Spec => []ValidInv
    BY ValidInit, ValidNext, TypeCorrect, PTL DEF Spec
  <1> QED BY <1>1, <1>2, PTL

-----------------------------------------------------------------------------
(* One publisher at a time.                                                 *)

\* At most one invocation is under way; nothing is written between its read
\* and its put, so it never gets to the second put.
Serialized ==
    /\ \A p, q \in Publishers : pc[p] # "idle" /\ pc[q] # "idle" => p = q
    /\ \A p \in Publishers :
        /\ pc[p] \notin {"reread", "overwrite"}
        /\ pc[p] = "put" => etag[p] = manifest

\* No invocation is under way at first.
LEMMA SerializedInit == Init => Serialized
  BY DEF Init, Serialized

\* The concurrency group keeps its jobs apart, so that no put meets a conflict.
LEMMA SerializedNext ==
  ASSUME Grouped = Publishers, TypeInv, Serialized, [Next]_vars PROVE Serialized'
  <1>1. ASSUME NEW p \in Publishers, Effect(p) PROVE Serialized'
    <2>1. \A q \in Publishers \ {p} : pc[q] = "idle" /\ pc'[q] = "idle"
      BY <1>1 DEF Effect, OthersKept, Serialized
    <2>2. pc'[p] \notin {"reread", "overwrite"} /\ (pc'[p] = "put" => etag'[p] = manifest')
      BY <1>1 DEF Effect, Serialized
    <2> QED BY <2>1, <2>2 DEF Serialized
  <1>2. CASE UNCHANGED <<manifest, pc, etag>>
    BY <1>2 DEF Serialized
  <1> QED BY <1>1, <1>2, InvocationEffect
          DEF Next, Upstream, Publish, MoveTag, MakeCurrent, Upgrade, LoseFile, vars

\* With one publisher at a time a write merges its entry into the manifest
\* that is stored.
LEMMA SerialWrite ==
  ASSUME TypeInv, ValidInv, Serialized, NEW p \in Publishers, Effect(p),
         manifest' # manifest
  PROVE  /\ pc[p] = "put" /\ item[p] \in Items
         /\ item[p].entry \in Entries /\ item[p].latest \in BOOLEAN
         /\ StoredManifest \in Manifests
         /\ Accepts(StoredManifest, item[p].entry, item[p].latest)
         /\ StoredManifest' = WithEntry(StoredManifest, item[p].entry, item[p].latest)
         /\ StoredManifest'.entries = StoredManifest.entries \cup {item[p].entry}
         /\ UNCHANGED blobVars
  <1>1. pc[p] = "put" /\ manifest' = Merged(p) /\ etag[p] = manifest /\ UNCHANGED blobVars
    BY DEF Effect, Serialized
  <1>2. Base(p) = StoredManifest
    BY <1>1 DEF Base, StoredManifest
  <1>3. Checked(p)
    BY DEF ValidInv
  <1>4. /\ StoredManifest' = Merged(p)
        /\ Merged(p).entries = Base(p).entries \cup {item[p].entry}
        /\ Base(p) \in Manifests /\ item[p] \in Items
        /\ item[p].entry \in Entries /\ item[p].latest \in BOOLEAN
    BY <1>1, <1>3, CheckedWrite
  <1> QED BY <1>1, <1>2, <1>3, <1>4 DEF Checked, Merged

\* With one publisher at a time no step drops a listed build.
LEMMA SerialListing ==
  ASSUME TypeInv, ValidInv, Serialized, [Next]_vars
  PROVE  StoredManifest.entries \subseteq StoredManifest'.entries
  <1>1. CASE UNCHANGED manifest
    BY <1>1 DEF StoredManifest
  <1>2. ASSUME NEW p \in Publishers, Effect(p), manifest' # manifest
        PROVE  StoredManifest.entries \subseteq StoredManifest'.entries
    BY <1>2, SerialWrite
  <1> QED BY <1>1, <1>2, InvocationEffect
          DEF Next, Upstream, Publish, MoveTag, MakeCurrent, Upgrade, LoseFile, vars

\* When every publisher is a job of the workflow's concurrency group, no
\* write of the manifest drops or changes a listed build, whatever fails.
THEOREM ListedBuildsStayListedWhenSerialized ==
  ASSUME Grouped = Publishers
  PROVE  Spec => ListedBuildsStayListed
  <1>1. TypeInv /\ ValidInv /\ Serialized /\ [Next]_vars =>
            StoredManifest.entries \subseteq StoredManifest'.entries
    BY SerialListing
  <1>2. TypeInv /\ Serialized /\ [Next]_vars => Serialized'
    BY SerializedNext
  <1>3. TypeInv /\ ValidInv /\ [Next]_vars => ValidInv'
    BY ValidNext
  <1> QED BY <1>1, <1>2, <1>3, ValidInit, SerializedInit, TypeCorrect, PTL
          DEF Spec, ListedBuildsStayListed

\* The catalog's constants are the publisher's.
LEMMA CatalogNames ==
  /\ Catalog!Files = Files /\ Catalog!Parts = Parts /\ Catalog!Entries = Entries
  /\ \A e : Catalog!Build(e) = Build(e)
  /\ \A e, part : Catalog!Content(e, part) = Content(e, part)
  BY DEF Catalog!Files, Files, Catalog!Parts, Parts, Catalog!Entries, Entries,
         Catalog!Builds, Builds, Catalog!Sources, Sources, Catalog!Versions, Versions,
         Catalog!Build, Build, Catalog!Content, Content

\* Before the first publication the catalog is empty.
LEMMA CatalogInit == Init => Catalog!Init
  BY CatalogNames DEF Init, Catalog!Init, StoredManifest, EmptyManifest

\* With one publisher at a time every step is a step of the catalog or leaves it alone.
LEMMA CatalogNext ==
  ASSUME TypeInv, StoredInv, ValidInv, Serialized, [Next]_vars
  PROVE  [Catalog!Next]_(Catalog!vars)
  <1>1. CASE UNCHANGED <<manifest, blobVars>>
    BY <1>1 DEF Catalog!vars, StoredManifest, blobVars
  <1>2. ASSUME NEW p \in Publishers, Effect(p) PROVE [Catalog!Next]_(Catalog!vars)
    <2>1. CASE manifest' # manifest
      <3> DEFINE entry == item[p].entry
                 latest == item[p].latest
      <3>1. /\ pc[p] = "put" /\ entry \in Entries /\ latest \in BOOLEAN
            /\ StoredManifest \in Manifests
            /\ Accepts(StoredManifest, entry, latest)
            /\ StoredManifest' = WithEntry(StoredManifest, entry, latest)
            /\ StoredManifest'.entries = StoredManifest.entries \cup {entry}
            /\ UNCHANGED <<blobs, lost>>
        BY <1>2, <2>1, SerialWrite DEF blobVars
      <3>2. \A part \in Parts : \/ blobs[<<Build(entry), part>>] = Content(entry, part)
                                \/ <<Build(entry), part>> \in lost
        BY <3>1 DEF StoredInv, StoredBy, Uploaded, Stored, HasPart
      <3>3. \A e \in StoredManifest.entries : e.source = entry.source => e = entry
        BY <3>1 DEF Accepts, EntriesOf
      <3>4. IF latest
            THEN /\ entry.source \in Releases
                 /\ StoredManifest'.latest =
                        [StoredManifest.latest EXCEPT ![CountryOf[entry.source]] = Build(entry)]
            ELSE StoredManifest'.latest = StoredManifest.latest
        BY <3>1 DEF Accepts, WithEntry
      <3> HIDE DEF entry, latest
      <3>5. Catalog!List(entry, latest)
        BY <3>1, <3>2, <3>3, <3>4, CatalogNames DEF Catalog!List
      <3> QED BY <3>1, <3>5, CatalogNames DEF Catalog!Next
    <2>2. CASE UNCHANGED manifest /\ ~UNCHANGED blobVars
      <3>1. UNCHANGED lost /\ \A f \in Files : blobs[f] # None => blobs'[f] = blobs[f]
        BY <1>2, <2>2 DEF Effect
      <3>2. Catalog!StoreFile
        BY <2>2, <3>1, CatalogNames DEF Catalog!StoreFile, StoredManifest
      <3> QED BY <3>2 DEF Catalog!Next
    <2> QED BY <1>1, <2>1, <2>2
  <1>3. ASSUME NEW file \in Files, LoseFile(file) PROVE [Catalog!Next]_(Catalog!vars)
    <2>1. Catalog!LoseFile(file)
      BY <1>3 DEF LoseFile, Catalog!LoseFile, StoredManifest
    <2> QED BY <2>1, CatalogNames DEF Catalog!Next
  <1>4. CASE Upstream
    BY <1>1, <1>4 DEF Upstream, Publish, MoveTag, MakeCurrent, Upgrade
  <1>5. CASE UNCHANGED vars
    BY <1>1, <1>5 DEF vars, blobVars
  <1> QED BY <1>2, <1>3, <1>4, <1>5, InvocationEffect DEF Next

\* Jobs of the concurrency group implement the catalog: whatever they read,
\* however they fail and wherever they are killed, readers see files written
\* once, stored builds listed and kept, and a listed release as latest.
THEOREM SerializedPublishersImplementCatalog ==
  ASSUME Grouped = Publishers
  PROVE  Spec => ImplementsCatalog
  <1>1. TypeInv /\ StoredInv /\ ValidInv /\ Serialized /\ [Next]_vars =>
            [Catalog!Next]_(Catalog!vars)
    BY CatalogNext
  <1>2. TypeInv /\ Serialized /\ [Next]_vars => Serialized'
    BY SerializedNext
  <1>3. TypeInv /\ ValidInv /\ [Next]_vars => ValidInv'
    BY ValidNext
  <1>4. TypeInv /\ StoredInv /\ [Next]_vars => StoredInv'
    BY StoredNext
  <1> QED BY <1>1, <1>2, <1>3, <1>4, CatalogInit, StoredInit, ValidInit, SerializedInit,
             TypeCorrect, PTL
          DEF Spec, ImplementsCatalog, Catalog!Spec

-----------------------------------------------------------------------------
(* What failed is not selected. Sources fail while candidates are left; the *)
(* latest release is selected after that, or by an invocation of one        *)
(* release, which ends when that fails.                                     *)

\* What p has selected, or will, has not failed.
SelectedBy(p) ==
    /\ pc[p] = "enumerate" => task[p].kind # "single"
    /\ pc[p] = "promote" => task[p].kind = "single"
    /\ pc[p] # "idle" /\ task[p].kind = "single" => task[p].failed = {}
    /\ pc[p] \in Publishing /\ item[p].latest =>
            item[p].entry.source \notin task[p].failed

SelectedInv == \A p \in Publishers : SelectedBy(p)

\* The end of an invocation leaves nothing selected.
LEMMA IdleSelected ==
  ASSUME TypeInv, NEW p \in Publishers, Idle(p) PROVE SelectedBy(p)'
  BY DEF Idle, SelectedBy, Publishing, TypeInv, TypeOK

\* A source that fails is not selected, and ends an invocation for it alone.
LEMMA FailItemSelected ==
  ASSUME TypeInv, NEW p \in Publishers, SelectedBy(p), NEW s, pc[p] # "idle", FailItem(p, s)
  PROVE  SelectedBy(p)'
  <1>1. CASE task[p].kind = "single"
    BY <1>1, IdleSelected DEF FailItem
  <1>2. CASE task[p].kind # "single"
    <2>1. task[p] \in Tasks
      BY DEF TypeInv, Control
    <2>2. pc'[p] = "next" /\ task'[p].kind = task[p].kind
      BY <1>2, <2>1 DEF FailItem, Goto, TypeInv, TypeOK, Tasks
    <2> QED BY <1>2, <2>2 DEF SelectedBy, Publishing
  <1> QED BY <1>1, <1>2

\* So does a write that fails, of the selection or of an entry.
LEMMA FailWriteSelected ==
  ASSUME TypeInv, NEW p \in Publishers, SelectedBy(p), pc[p] # "idle", FailWrite(p)
  PROVE  SelectedBy(p)'
  BY IdleSelected, FailItemSelected DEF FailWrite

\* A step that leaves the task and the item goes on to a later step.
LEMMA GoesOnSelected ==
  ASSUME TypeInv, NEW p \in Publishers, SelectedBy(p), pc[p] # "idle",
         pc'[p] \notin {"idle", "enumerate", "pick", "promote"},
         task'[p].kind = task[p].kind, task'[p].failed = task[p].failed,
         pc'[p] = "next" \/ (pc[p] \in Publishing /\ item'[p] = item[p])
  PROVE  SelectedBy(p)'
  BY DEF SelectedBy, Publishing

\* Whatever an invocation does, nothing that failed in it is selected.
LEMMA WorkSelected ==
  ASSUME TypeInv, NEW p \in Publishers, SelectedBy(p), Work(p) PROVE SelectedBy(p)'
  <1>1. ASSUME NEW unreadable \in SUBSET Sources, NEW r \in Commits, Enumerate(p, unreadable, r)
        PROVE  SelectedBy(p)'
    <2>1. task[p] \in Tasks /\ pc[p] = "enumerate"
      BY <1>1 DEF Enumerate, TypeInv, Control
    <2>2. pc'[p] = "next" /\ item'[p] = item[p] /\ task'[p].kind = task[p].kind
      BY <1>1, <2>1 DEF Enumerate, Goto, TypeInv, TypeOK, Tasks
    <2> QED BY <2>1, <2>2 DEF SelectedBy, Publishing
  <1>2. ASSUME NEW s \in Sources, Pick(p, s) PROVE SelectedBy(p)'
    <2>1. pc[p] = "pick" /\ pc'[p] = "data" /\ task'[p] = task[p] /\ ~item'[p].latest
      BY <1>2 DEF Pick, Goto, TypeInv, TypeOK
    <2> QED BY <2>1 DEF SelectedBy, Publishing
  <1>3. CASE Refuse(p)
    BY <1>3, IdleSelected DEF Refuse
  <1>4. ASSUME NEW c \in Candidates, Examine(p, c) PROVE SelectedBy(p)'
    <2>1. pc[p] = "next" /\ task[p] \in Tasks
      BY <1>4 DEF Examine, TypeInv, Control
    <2>2. CASE FailItem(p, c.source)
      BY <2>1, <2>2, FailItemSelected
    <2>3. CASE task' = [task EXCEPT ![p].todo = @ \ {c}] /\ UNCHANGED <<pc, item, etag>>
      <3>1. task'[p].kind = task[p].kind /\ task'[p].failed = task[p].failed
        BY <2>1, <2>3 DEF TypeInv, TypeOK, Tasks
      <3> QED BY <2>1, <2>3, <3>1, GoesOnSelected
    <2>4. CASE /\ item' = [item EXCEPT ![p] = [entry |-> EntryFor(task[p], c), latest |-> FALSE]]
               /\ Goto(p, "data") /\ UNCHANGED <<task, etag>>
      <3>1. pc'[p] = "data" /\ ~item'[p].latest /\ task'[p] = task[p]
        BY <2>4 DEF Goto, TypeInv, TypeOK
      <3> QED BY <2>1, <3>1 DEF SelectedBy, Publishing
    <2> QED BY <1>4, <2>2, <2>3, <2>4 DEF Examine
  <1>5. ASSUME NEW part \in Parts, Upload(p, part) PROVE SelectedBy(p)'
    <2>1. pc[p] # "idle" /\ pc[p] \in Publishing
      BY <1>5 DEF Upload, Parts, Publishing
    <2>2. CASE FailItem(p, item[p].entry.source)
      BY <2>1, <2>2, FailItemSelected
    <2>3. CASE UNCHANGED <<task, item>> /\ \E step \in {"index", "audit", "read"} : Goto(p, step)
      <3>1. pc'[p] \in {"index", "audit", "read"}
        BY <2>3 DEF Goto, TypeInv, TypeOK
      <3>2. pc'[p] \notin {"idle", "enumerate", "pick", "promote"}
        BY <3>1
      <3> QED BY <2>1, <2>3, <3>2, GoesOnSelected
    <2> QED BY <1>5, <2>2, <2>3 DEF Upload
  <1>6. CASE Audit(p)
    <2>1. pc[p] = "audit" /\ task[p] \in Tasks
      BY <1>6 DEF Audit, TypeInv, Control
    <2>2. CASE FailItem(p, item[p].entry.source)
      BY <2>1, <2>2, FailItemSelected
    <2>3. CASE ~FailItem(p, item[p].entry.source)
      <3>1. /\ pc'[p] \in {"read", "next"}
            /\ pc'[p] = "next" \/ item'[p] = item[p]
            /\ task'[p].kind = task[p].kind /\ task'[p].failed = task[p].failed
        BY <1>6, <2>1, <2>3 DEF Audit, Goto, TypeInv, TypeOK, Tasks
      <3>2. pc[p] \in Publishing /\ pc'[p] \notin {"idle", "enumerate", "pick", "promote"}
        BY <2>1, <3>1 DEF Publishing
      <3> QED BY <2>1, <3>1, <3>2, GoesOnSelected
    <2> QED BY <2>2, <2>3
  <1>7. CASE Read(p, "read", "put") \/ Read(p, "reread", "overwrite")
    <2>1. pc[p] \in {"read", "reread"}
      BY <1>7 DEF Read
    <2>2. CASE FailWrite(p)
      BY <2>1, <2>2, FailWriteSelected
    <2>3. CASE ~FailWrite(p)
      <3>1. pc'[p] \in {"put", "overwrite"} /\ UNCHANGED <<task, item>>
        BY <1>7, <2>3 DEF Read, Goto, TypeInv, TypeOK
      <3> QED BY <2>1, <3>1, GoesOnSelected DEF Publishing
    <2> QED BY <2>2, <2>3
  <1>8. CASE Put(p) \/ Overwrite(p)
    <2>1. pc[p] \in {"put", "overwrite"}
      BY <1>8 DEF Put, Overwrite
    <2>2. CASE FailWrite(p)
      BY <2>1, <2>2, FailWriteSelected
    <2>3. CASE ~FailWrite(p)
      <3>1. pc'[p] \in {"verify", "reread"} /\ UNCHANGED <<task, item>>
        BY <1>8, <2>3 DEF Put, Overwrite, Goto, TypeInv, TypeOK
      <3> QED BY <2>1, <3>1, GoesOnSelected DEF Publishing
    <2> QED BY <2>2, <2>3
  <1>9. CASE Verify(p)
    <2>1. pc[p] = "verify" /\ task[p] \in Tasks /\ item[p] \in Items
      BY <1>9 DEF Verify, TypeInv, Control, Publishing
    <2>2. CASE FailWrite(p)
      BY <2>1, <2>2, FailWriteSelected
    <2>3. CASE Idle(p)
      BY <2>3, IdleSelected
    <2>4. CASE Verified(p) /\ ~item[p].latest
      <3>1. /\ task'[p].kind = task[p].kind /\ task'[p].failed = task[p].failed
            /\ task'[p].kind = "releases" \/ item'[p] = item[p]
        BY <2>1, <2>4 DEF Verified, TypeInv, TypeOK, Tasks
      <3>2. /\ pc'[p] \in {"next", "audit", "promote"}
            /\ pc'[p] = "promote" => task[p].kind = "single"
            /\ task[p].kind = "releases" => pc'[p] = "next"
        BY <2>1, <2>4 DEF Verified, Goto, TypeInv, TypeOK, Tasks, Kinds
      <3>3. pc[p] # "idle" /\ (task'[p].kind = "single" => task'[p].failed = {})
        BY <2>1, <3>1 DEF SelectedBy
      <3>4. pc'[p] = "next" \/ ~item'[p].latest
        BY <2>4, <3>1, <3>2
      <3>5. pc'[p] \notin {"idle", "enumerate"} /\ "next" \notin Publishing
        BY <3>2 DEF Publishing
      <3> QED BY <3>1, <3>2, <3>3, <3>4, <3>5 DEF SelectedBy
    <2> QED BY <1>9, <2>2, <2>3, <2>4 DEF Verify, Verified
  <1>10. CASE Select(p)
    <2>1. CASE Idle(p)
      BY <2>1, IdleSelected
    <2>2. CASE ~Idle(p)
      <3> DEFINE t == task[p]
                 commit == IF t.country \in Recorded THEN t.wanted.commit
                           ELSE upstream[t.wanted.source]
                 entries == {e \in EntriesOf(t.known, t.wanted.source) : e.commit = commit}
      <3>1. /\ pc[p] = "next" /\ t.wanted.source \notin t.failed /\ entries # {}
            /\ item' = [item EXCEPT ![p] = [entry |-> CHOOSE e \in entries : TRUE, latest |-> TRUE]]
            /\ Goto(p, "read") /\ UNCHANGED task
        BY <1>10, <2>2 DEF Select
      <3>2. (CHOOSE e \in entries : TRUE) \in entries
        BY <3>1
      <3>3. (CHOOSE e \in entries : TRUE).source = t.wanted.source
        BY <3>2 DEF EntriesOf
      <3>4. pc'[p] = "read" /\ item'[p].entry.source = t.wanted.source /\ task'[p] = t
        BY <3>1, <3>3 DEF Goto, TypeInv, TypeOK
      <3> QED BY <3>1, <3>4 DEF SelectedBy, Publishing
    <2> QED BY <2>1, <2>2
  <1>11. CASE Promote(p)
    <2>1. CASE Idle(p)
      BY <2>1, IdleSelected
    <2>2. CASE ~Idle(p)
      <3>1. pc[p] = "promote" /\ pc'[p] = "read" /\ task'[p] = task[p]
        BY <1>11, <2>2 DEF Promote, Goto, TypeInv, TypeOK
      <3> QED BY <3>1 DEF SelectedBy, Publishing
    <2> QED BY <2>1, <2>2
  <1> QED BY <1>1, <1>2, <1>3, <1>4, <1>5, <1>6, <1>7, <1>8, <1>9, <1>10, <1>11 DEF Work

\* So does a new invocation, a failing request and a crash.
LEMMA InvocationSelected ==
  ASSUME TypeInv, NEW p \in Publishers, SelectedBy(p),
         Starts(p) \/ Work(p) \/ StepFails(p) \/ Crash(p)
  PROVE  SelectedBy(p)'
  <1>1. CASE Starts(p)
    <2> PICK c \in Countries, k \in Kinds, v \in Versions : Start(p, c, k, v)
      BY <1>1 DEF Starts
    <2>1. /\ pc[p] = "idle" /\ item'[p] = item[p] /\ task'[p].failed = {}
          /\ pc'[p] \in {"pick", "enumerate"}
          /\ pc'[p] = "enumerate" => task'[p].kind # "single"
      BY DEF Start, Goto, NewTask, TypeInv, TypeOK
    <2> QED BY <2>1 DEF SelectedBy, Publishing
  <1>2. CASE StepFails(p)
    BY <1>2, FailWriteSelected, FailItemSelected, IdleSelected DEF StepFails
  <1>3. CASE Crash(p)
    BY <1>3, IdleSelected DEF Crash
  <1> QED BY <1>1, <1>2, <1>3, WorkSelected

\* Nothing is selected before the first invocation.
LEMMA SelectedInit == Init => SelectedInv
  BY DEF Init, SelectedInv, SelectedBy, Publishing

\* No step of any publisher, nor of the repositories or Blob, selects what failed.
LEMMA SelectedNext ==
  ASSUME TypeInv, SelectedInv, [Next]_vars PROVE SelectedInv'
  <1>1. ASSUME UNCHANGED <<pc, task, item>> PROVE SelectedInv'
    BY <1>1 DEF SelectedInv, SelectedBy
  <1>2. ASSUME NEW p \in Publishers, Starts(p) \/ Work(p) \/ StepFails(p) \/ Crash(p)
        PROVE  SelectedInv'
    <2>1. SelectedBy(p)' /\ OthersKept(p)
      BY <1>2, InvocationSelected, InvocationEffect DEF Effect, SelectedInv
    <2> QED BY <2>1 DEF SelectedInv, SelectedBy, OthersKept
  <1> QED BY <1>1, <1>2
          DEF Next, Upstream, Publish, MoveTag, MakeCurrent, Upgrade, LoseFile, vars

\* No publisher, however many there are, moves the latest selection to a
\* release that failed in its reconciliation.
THEOREM NothingFailedIsSelected == Spec => FailedNeverLatest
  <1>1. TypeInv /\ SelectedInv /\ [Next]_vars =>
            [\A p \in Publishers :
                pc[p] \in {"put", "overwrite"} /\ pc'[p] = "verify" /\ item[p].latest =>
                    item[p].entry.source \notin task[p].failed]_vars
    <2> SUFFICES ASSUME TypeInv, SelectedInv, NEW p \in Publishers,
                        pc[p] \in {"put", "overwrite"}, item[p].latest
                 PROVE  item[p].entry.source \notin task[p].failed
      OBVIOUS
    <2> QED BY DEF SelectedInv, SelectedBy, Publishing
  <1>2. TypeInv /\ SelectedInv /\ [Next]_vars => SelectedInv'
    BY SelectedNext
  <1> QED BY <1>1, <1>2, SelectedInit, TypeCorrect, PTL DEF Spec, FailedNeverLatest

-----------------------------------------------------------------------------
(***************************************************************************)
(* A run over a repository, with what its inventory finds                  *)
(* (ReleaseCandidates).                                                    *)
(***************************************************************************)
CONSTANT Refused

RC == INSTANCE ReleaseCandidates

\* The entries of a dashboard manifest: each release has one, which is as
\* registerReleaseBuild writes it, and the latest is one of them.
Fits(maps) ==
    /\ maps = [builds |-> maps.builds, latest |-> maps.latest]
    /\ \A b \in RC!ReleaseBuilds(maps) :
        b # None /\ b.release # RC!Latest /\ b = RC!PublishedBuild(b.artifact)
    /\ \A b, c \in RC!ReleaseBuilds(maps) : b.release = c.release => b = c
    /\ maps.latest # None => \E b \in RC!ReleaseBuilds(maps) : b.artifact = maps.latest

\* "latest" is not the name of a release of the repository.
NamesReleases(repo) ==
    RC!RecordOf(repo) = None =>
        RC!Latest \notin DOMAIN repo.folders \cup DOMAIN repo.tags \cup {repo.pointer.release}

\* None is not an entry.
BuildsAreNotNone == \A c : RC!PublishedBuild(c) # None

\* The entry of a release, if there is one.
LEMMA EntryOfRelease ==
  ASSUME NEW maps, Fits(maps), NEW id, id # RC!Latest
  PROVE  LET entry == RC!ReleaseFromManifest(maps, id)
         IN  /\ entry # None => entry \in RC!ReleaseBuilds(maps) /\ entry.release = id
             /\ entry = None => \A b \in RC!ReleaseBuilds(maps) : b.release # id
  <1> DEFINE wanted == {b \in RC!ReleaseBuilds(maps) : b.release = id}
  <1>1. RC!ReleaseFromManifest(maps, id) = IF wanted = {} THEN None ELSE CHOOSE b \in wanted : TRUE
    BY DEF RC!ReleaseFromManifest
  <1>2. wanted # {} => (CHOOSE b \in wanted : TRUE) \in wanted
    OBVIOUS
  <1>3. \A b \in wanted : b # None
    BY DEF Fits
  <1> QED
    BY <1>1, <1>2, <1>3

\* The releases that are found are each found once.
LEMMA CandidatesAreOfOneRelease ==
  ASSUME NEW repo, NEW maps, NamesReleases(repo), RC!Inventory(repo, maps) # Refused
  PROVE  LET candidates == RC!Inventory(repo, maps).candidates
         IN  /\ \A c \in candidates : c.release # RC!Latest
             /\ \A c, d \in candidates : c.release = d.release => c = d
  <1> DEFINE record == RC!RecordOf(repo)
  <1>1. CASE record # None
    <2> DEFINE Selected(id) == RC!SelectedBuild(repo, maps, id)
    <2>1. RC!Inventory(repo, maps) = RC!RecordedBuildCandidates(repo, maps)
      BY <1>1 DEF RC!Inventory
    <2>2. \A c \in RC!Inventory(repo, maps).candidates :
            \E id \in RC!RecordedBuilds(record) : c = Selected(id) /\ c # None
      BY <2>1 DEF RC!RecordedBuildCandidates, RC!Found
    <2>3. \A id : Selected(id) # None => Selected(id).release = id
      BY DEF RC!SelectedBuild, RC!RecordedBuild, RC!Candidate
    <2>4. \A id \in RC!RecordedBuilds(record) : id # RC!Latest
      <3>1. \A x, y : <<"build", x, y>> # <<"latest">>
        <4>1. \A x, y : Len(<<"build", x, y>>) = 3 /\ Len(<<"latest">>) = 1
          OBVIOUS
        <4> QED
          BY <4>1
      <3> QED
        BY <3>1 DEF RC!RecordedBuilds, RC!Latest
    <2> HIDE DEF Selected
    <2> QED
      BY <2>2, <2>3, <2>4
  <1>2. CASE record = None
    <2> DEFINE tagged == RC!TaggedReleases(repo, maps)
    <2> DEFINE shared == RC!LineFolders(tagged) \cup RC!HeldBackFolders(repo)
    <2> DEFINE Folder(f) == RC!FolderCandidate(repo, maps, shared, f)
    <2> DEFINE Tagged(n) == RC!Candidate(n, tagged[n], repo.tags[n].commit)
    <2>1. RC!Inventory(repo, maps) = RC!ReleaseCandidates(repo, maps)
      BY <1>2 DEF RC!Inventory
    <2>2. RC!Inventory(repo, maps).candidates
            \subseteq RC!FolderCandidates(repo, maps, tagged) \cup RC!TagCandidates(repo, tagged)
      BY <2>1 DEF RC!ReleaseCandidates, RC!Found
    <2>3. \A c \in RC!FolderCandidates(repo, maps, tagged) :
            \E f \in RC!CalibratedFolders(repo) : c = Folder(f) /\ c # None
      BY DEF RC!FolderCandidates
    <2>4. \A c \in RC!TagCandidates(repo, tagged) :
            \E n \in RC!Readable(repo) \ RC!CalibratedFolders(repo) : c = Tagged(n)
      BY DEF RC!TagCandidates, RC!TaggedReleases
    <2>5. \A f : Folder(f) # None => Folder(f).release = f
      BY DEF RC!FolderCandidate, RC!Candidate
    <2>6. \A n : Tagged(n).release = n
      BY DEF RC!Candidate
    <2>7. \A x \in RC!CalibratedFolders(repo) \cup RC!Readable(repo) : x # RC!Latest
      BY <1>2 DEF NamesReleases, RC!CalibratedFolders, RC!Readable
    <2> HIDE DEF Folder, Tagged, tagged
    <2> QED
      BY <2>2, <2>3, <2>4, <2>5, <2>6, <2>7
  <1> QED
    BY <1>1, <1>2

\* The entries that a run adds.
LEMMA NewEntriesFit ==
  ASSUME NEW maps, NEW candidates, NEW failed, Fits(maps), BuildsAreNotNone,
         \A c \in candidates : c.release # RC!Latest,
         \A c, d \in candidates : c.release = d.release => c = d
  PROVE  LET after == RC!After(maps, candidates, failed)
         IN  /\ Fits(after)
             /\ after.latest = maps.latest
             /\ maps.builds \subseteq after.builds
             /\ after = [maps EXCEPT !.builds = after.builds]
             /\ \A c \in candidates :
                    c.release \notin failed /\ RC!ReleaseFromManifest(maps, c.release) = None =>
                        RC!PublishedBuild(c) \in RC!ReleaseBuilds(after)
  <1> DEFINE new == {c \in candidates : /\ c.release \notin failed
                                        /\ RC!ReleaseFromManifest(maps, c.release) = None}
  <1> DEFINE after == RC!After(maps, candidates, failed)
  <1> DEFINE added == {RC!PublishedBuild(c) : c \in new}
  <1>1. maps = [builds |-> maps.builds, latest |-> maps.latest]
    BY DEF Fits
  <1>2. after = [builds |-> maps.builds \cup added, latest |-> maps.latest]
    <2>1. after = [maps EXCEPT !.builds = @ \cup added]
      BY DEF RC!After
    <2> HIDE DEF after, added
    <2> QED
      BY <1>1, <2>1
  <1>3. \A c : /\ RC!PublishedBuild(c).artifact = c
               /\ RC!PublishedBuild(c).release = c.release
               /\ RC!PublishedBuild(c).kind = "release"
    BY DEF RC!PublishedBuild
  <1>4. RC!ReleaseBuilds(after) = RC!ReleaseBuilds(maps) \cup added
    <2> HIDE DEF after
    <2> QED
      BY <1>2, <1>3 DEF RC!ReleaseBuilds
  <1>5. \A c \in new : \A b \in RC!ReleaseBuilds(maps) : b.release # c.release
    BY EntryOfRelease
  <1>6. \A b, c \in RC!ReleaseBuilds(after) : b.release = c.release => b = c
    <2>1. \A b, c \in RC!ReleaseBuilds(maps) : b.release = c.release => b = c
      BY DEF Fits
    <2>2. \A b \in added : \E c \in new : b = RC!PublishedBuild(c) /\ b.release = c.release
      BY <1>3
    <2>3. \A c, d \in new : c.release = d.release => c = d
      OBVIOUS
    <2> HIDE DEF new, added, after
    <2> QED
      BY <1>4, <1>5, <2>1, <2>2, <2>3
  <1>7. \A b \in RC!ReleaseBuilds(after) :
            b # None /\ b.release # RC!Latest /\ b = RC!PublishedBuild(b.artifact)
    <2>1. \A b \in added :
            b # None /\ b.release # RC!Latest /\ b = RC!PublishedBuild(b.artifact)
      BY <1>3 DEF BuildsAreNotNone
    <2>2. \A b \in RC!ReleaseBuilds(maps) :
            b # None /\ b.release # RC!Latest /\ b = RC!PublishedBuild(b.artifact)
      BY DEF Fits
    <2> HIDE DEF added, after
    <2> QED
      BY <1>4, <2>1, <2>2
  <1>8. after.latest # None => \E b \in RC!ReleaseBuilds(after) : b.artifact = after.latest
    <2>1. maps.latest # None => \E b \in RC!ReleaseBuilds(maps) : b.artifact = maps.latest
      BY DEF Fits
    <2> HIDE DEF after, added
    <2> QED
      BY <1>2, <1>4, <2>1
  <1>9. /\ after = [builds |-> after.builds, latest |-> after.latest]
        /\ after.latest = maps.latest
        /\ maps.builds \subseteq after.builds
        /\ after = [maps EXCEPT !.builds = after.builds]
    <2> HIDE DEF after, added
    <2> QED
      BY <1>1, <1>2
  <1>10. Fits(after)
    <2> HIDE DEF after
    <2> QED
      BY <1>6, <1>7, <1>8, <1>9 DEF Fits
  <1> QED
    BY <1>4, <1>9, <1>10

\* The pointer or the record names a release by its id.
LEMMA LatestIsNamed ==
  ASSUME NEW repo, NEW maps, NEW candidates, NamesReleases(repo),
         \A c \in candidates : c.release # RC!Latest,
         RC!LatestOf(repo, maps, candidates) # Refused
  PROVE  RC!LatestOf(repo, maps, candidates).release # RC!Latest
  <1>1. CASE RC!RecordOf(repo) = None
    <2>1. RC!LatestOf(repo, maps, candidates) = RC!UpstreamLatest(repo, maps)
      BY <1>1 DEF RC!LatestOf
    <2>2. RC!CutLatest(repo, maps, repo.pointer) # Refused =>
            /\ RC!CutLatest(repo, maps, repo.pointer).release = repo.pointer.revision
            /\ repo.pointer.revision \in DOMAIN repo.tags
      BY DEF RC!CutLatest, RC!Candidate, RC!Revision
    <2>3. RC!LatestOf(repo, maps, candidates).release
            \in {repo.pointer.release} \cup DOMAIN repo.tags
      BY <2>1, <2>2 DEF RC!UpstreamLatest, RC!Candidate
    <2> QED
      BY <1>1, <2>3 DEF NamesReleases
  <1>2. CASE RC!RecordOf(repo) # None
    <2> DEFINE wanted == {c \in candidates :
                            c.release = RC!CurrentDefaultBuild(RC!RecordOf(repo))}
    <2>1. wanted # {} /\ RC!LatestOf(repo, maps, candidates) = CHOOSE c \in wanted : TRUE
      BY <1>2 DEF RC!LatestOf, RC!RecordedLatest
    <2>2. (CHOOSE c \in wanted : TRUE) \in wanted
      BY <2>1
    <2> QED
      BY <2>1, <2>2
  <1> QED
    BY <1>1, <1>2

\* So does a command.
LEMMA RequestedIsNamed ==
  ASSUME NEW repo, NEW id, NamesReleases(repo), RC!Requested(repo, id) # Refused
  PROVE  RC!Requested(repo, id).release # RC!Latest
  <1> DEFINE record == RC!RecordOf(repo)
  <1>1. CASE record # None
    <2>1. \A x, y : <<"build", x, y>> # <<"latest">>
      <3>1. \A x, y : Len(<<"build", x, y>>) = 3 /\ Len(<<"latest">>) = 1
        OBVIOUS
      <3> QED
        BY <3>1
    <2>2. PICK wanted : RC!Requested(repo, id) = RC!RequestedBuild(repo, wanted)
      BY <1>1 DEF RC!Requested, RC!RequestedRecordedBuild, RC!RecordedCurrentBuild
    <2>3. /\ wanted \in RC!RecordedBuilds(record)
          /\ RC!Requested(repo, id) = RC!RecordedBuild(repo, wanted)
          /\ RC!RecordedBuild(repo, wanted) # None
      BY <2>2 DEF RC!RequestedBuild
    <2>4. RC!Requested(repo, id).release = wanted
      BY <2>3 DEF RC!RecordedBuild, RC!Candidate
    <2> QED
      BY <2>1, <2>3, <2>4 DEF RC!RecordedBuilds, RC!Latest
  <1>2. CASE record = None
    <2> DEFINE selected == IF id = RC!Latest THEN RC!UpstreamLatest(repo, RC!Unread)
                           ELSE RC!RequestedRelease(repo, id)
    <2>1. RC!Requested(repo, id) = selected
      BY <1>2 DEF RC!Requested, RC!WithDiagnostics
    <2>2. CASE id = RC!Latest
      <3>1. RC!LatestOf(repo, RC!Unread, {}) = selected
        BY <1>2, <2>2 DEF RC!LatestOf
      <3> HIDE DEF selected
      <3> QED
        BY <2>1, <3>1, LatestIsNamed
    <2>3. CASE id # RC!Latest
      <3>1. selected.release = id
        BY <2>1, <2>3 DEF RC!RequestedRelease, RC!Candidate
      <3> QED
        BY <2>1, <2>3, <3>1
    <2> QED
      BY <2>2, <2>3
  <1> QED
    BY <1>1, <1>2

\* A run of the publisher over any repository, of which any publications fail,
\* leaves a manifest in which each release has one entry and the latest is one of
\* them, with every entry there was as it was. If it ends without an error, all
\* that is found has an entry at its commit, and the latest is the release that
\* the pointer or the record names, at its commit (reconcileReleaseBuilds,
\* selectLatestRelease, reconciliationFailureMessage).
THEOREM RunsKeepTheManifest ==
  ASSUME NEW repo, NEW maps, NEW failing,
         Fits(maps), NamesReleases(repo), BuildsAreNotNone
  PROVE  LET found == RC!Inventory(repo, maps)
             run == RC!Reconciled(repo, maps, failing)
             builds == RC!ReleaseBuilds(run.manifest)
             latest == RC!LatestOf(repo, [maps EXCEPT !.builds = run.manifest.builds],
                                   found.candidates)
         IN  /\ Fits(run.manifest)
             /\ maps.builds \subseteq run.manifest.builds
             /\ run.endsWell =>
                    /\ found # Refused /\ found.failed = {} /\ latest # Refused
                    /\ \A c \in found.candidates :
                        \E b \in builds : b.release = c.release /\ b.commit = c.commit
                    /\ \E b \in builds : /\ b.artifact = run.manifest.latest
                                         /\ b.release = latest.release
                                         /\ b.commit = latest.commit
  <1> DEFINE found == RC!Inventory(repo, maps)
  <1> DEFINE run == RC!Reconciled(repo, maps, failing)
  <1> DEFINE Kept(r) ==
        /\ Fits(r.manifest)
        /\ maps.builds \subseteq r.manifest.builds
  <1> DEFINE Covers(r) ==
        /\ found.failed = {}
        /\ \A c \in found.candidates : \E b \in RC!ReleaseBuilds(r.manifest) :
                b.release = c.release /\ b.commit = c.commit
  <1> DEFINE latestOf(r) ==
        RC!LatestOf(repo, [maps EXCEPT !.builds = r.manifest.builds], found.candidates)
  <1> DEFINE Names(r, latest) ==
        /\ latest # Refused
        /\ \E b \in RC!ReleaseBuilds(r.manifest) :
                /\ b.artifact = r.manifest.latest
                /\ b.release = latest.release
                /\ b.commit = latest.commit
  <1> SUFFICES /\ Kept(run)
               /\ run.endsWell => found # Refused /\ Covers(run) /\ Names(run, latestOf(run))
    OBVIOUS
  <1>1. CASE found = Refused
    <2>1. run = [manifest |-> maps, endsWell |-> FALSE]
      BY <1>1 DEF RC!Reconciled
    <2>2. run.manifest = maps /\ run.endsWell = FALSE
      BY <2>1
    <2> HIDE DEF run
    <2> QED
      BY <2>2
  <1>2. CASE found # Refused
    <2> DEFINE candidates == found.candidates
    <2> DEFINE failed == RC!FailedOf(maps, found, failing)
    <2> DEFINE after == RC!After(maps, candidates, failed)
    <2> DEFINE latest == RC!LatestOf(repo, after, candidates)
    <2> DEFINE entry == RC!ReleaseFromManifest(after, latest.release)
    <2>1. run = RC!Report(after, latest, failed)
      BY <1>2 DEF RC!Reconciled, RC!Publishing, RC!Selecting
    <2>2. /\ \A c \in candidates : c.release # RC!Latest
          /\ \A c, d \in candidates : c.release = d.release => c = d
      BY <1>2, CandidatesAreOfOneRelease
    <2> HIDE DEF candidates, failed
    <2>3. /\ Fits(after)
          /\ after.latest = maps.latest
          /\ maps.builds \subseteq after.builds
          /\ after = [maps EXCEPT !.builds = after.builds]
          /\ \A c \in candidates :
                c.release \notin failed /\ RC!ReleaseFromManifest(maps, c.release) = None =>
                    RC!PublishedBuild(c) \in RC!ReleaseBuilds(after)
      BY <2>2, NewEntriesFit
    <2> HIDE DEF after, latest, run
    <2>4. CASE ~RC!Selectable(after, latest, failed)
      <3>1. run.manifest = after /\ run.endsWell = FALSE
        BY <2>1, <2>4 DEF RC!Report
      <3> QED
        BY <2>3, <3>1
    <2>5. CASE RC!Selectable(after, latest, failed)
      <3>1. /\ run.manifest = [after EXCEPT !.latest = entry.artifact]
            /\ run.endsWell = (failed = {})
        BY <2>1, <2>5 DEF RC!Report
      <3>2. latest # Refused /\ entry # None /\ entry.commit = latest.commit
        BY <2>5 DEF RC!Selectable
      <3>3. latest.release # RC!Latest
        BY <2>2, <3>2, LatestIsNamed DEF latest
      <3>4. entry \in RC!ReleaseBuilds(after) /\ entry.release = latest.release
        BY <2>3, <3>2, <3>3, EntryOfRelease
      <3>5. run.manifest = [builds |-> after.builds, latest |-> entry.artifact]
        <4>1. after = [builds |-> after.builds, latest |-> after.latest]
          BY <2>3 DEF Fits
        <4> QED
          BY <3>1, <4>1
      <3>6. RC!ReleaseBuilds(run.manifest) = RC!ReleaseBuilds(after)
        BY <3>5 DEF RC!ReleaseBuilds
      <3> HIDE DEF entry
      <3>7. Fits(run.manifest)
        BY <2>3, <3>4, <3>5, <3>6 DEF Fits
      <3>8. maps.builds \subseteq run.manifest.builds
        BY <2>3, <3>5
      <3>9. ASSUME run.endsWell
            PROVE  Covers(run)
        <4>1. failed = {}
          BY <3>1, <3>9
        <4>2. found.failed = {} /\ \A c \in candidates : ~RC!Moved(maps, c)
          BY <4>1 DEF failed, RC!FailedOf, candidates
        <4>3. ASSUME NEW c \in candidates
              PROVE  \E b \in RC!ReleaseBuilds(after) : b.release = c.release /\ b.commit = c.commit
          <5> DEFINE existing == RC!ReleaseFromManifest(maps, c.release)
          <5>1. CASE existing = None
            <6>1. RC!PublishedBuild(c) \in RC!ReleaseBuilds(after)
              BY <2>3, <4>1, <5>1
            <6> QED
              BY <6>1 DEF RC!PublishedBuild
          <5>2. CASE existing # None
            <6>1. existing \in RC!ReleaseBuilds(maps) /\ existing.release = c.release
              BY <2>2, <5>2, EntryOfRelease
            <6>2. existing.commit = c.commit
              BY <4>2, <5>2 DEF RC!Moved
            <6>3. existing \in RC!ReleaseBuilds(after)
              BY <2>3, <6>1 DEF RC!ReleaseBuilds
            <6> QED
              BY <6>1, <6>2, <6>3
          <5> QED
            BY <5>1, <5>2
        <4> QED
          BY <3>6, <4>2, <4>3 DEF candidates
      <3>10. latestOf(run) = latest
        <4>1. [maps EXCEPT !.builds = run.manifest.builds] = after
          BY <2>3, <3>5
        <4> QED
          BY <4>1 DEF latest, candidates
      <3>11. Names(run, latest)
        <4>1. entry.artifact = run.manifest.latest
          BY <3>5
        <4> QED
          BY <3>2, <3>4, <3>6, <4>1
      <3> HIDE DEF Covers, Names, latestOf
      <3> QED
        BY <1>2, <3>7, <3>8, <3>9, <3>10, <3>11
    <2> QED
      BY <2>4, <2>5
  <1> QED
    BY <1>1, <1>2

\* A local command adds the entry of the release it selects or is refused, and
\* makes at most that one the latest; the manifest stays of the same kind.
THEOREM CommandsKeepTheManifest ==
  ASSUME NEW repo, NEW maps, NEW id,
         Fits(maps), NamesReleases(repo), BuildsAreNotNone
  PROVE  LET selected == RC!Requested(repo, id)
             after == RC!Commanded(repo, maps, id)
         IN  /\ Fits(after)
             /\ after # maps =>
                    /\ after.builds = maps.builds \cup {RC!PublishedBuild(selected)}
                    /\ after.latest \in {maps.latest, selected}
  <1> DEFINE selected == RC!Requested(repo, id)
  <1> DEFINE after == RC!Commanded(repo, maps, id)
  <1> DEFINE build == RC!PublishedBuild(selected)
  <1> DEFINE existing == RC!ReleaseFromManifest(maps, selected.release)
  <1> DEFINE registered == [maps EXCEPT !.builds = @ \cup {build}]
  <1> SUFFICES /\ Fits(after)
               /\ after # maps => /\ after.builds = maps.builds \cup {build}
                                  /\ after.latest \in {maps.latest, selected}
    OBVIOUS
  <1>1. CASE after = maps
    BY <1>1
  <1>2. CASE after # maps
    <2>1. /\ selected # Refused
          /\ existing # None => existing.artifact = selected
          /\ after = RC!Promoted(repo, registered, selected)
      BY <1>2 DEF RC!Commanded, RC!Registered
    <2>2. selected.release # RC!Latest
      BY <2>1, RequestedIsNamed
    <2> HIDE DEF selected
    <2>3. /\ build.artifact = selected /\ build.release = selected.release
          /\ build.kind = "release" /\ build # None
      BY DEF RC!PublishedBuild, BuildsAreNotNone
    <2>4. registered = [builds |-> maps.builds \cup {build}, latest |-> maps.latest]
      BY DEF Fits
    <2>5. \A b \in RC!ReleaseBuilds(maps) : b.release = selected.release => b = build
      <3>1. CASE existing = None
        BY <2>2, <3>1, EntryOfRelease
      <3>2. CASE existing # None
        <4>1. existing \in RC!ReleaseBuilds(maps) /\ existing.release = selected.release
          BY <2>2, <3>2, EntryOfRelease
        <4>2. existing = build
          BY <2>1, <3>2, <4>1 DEF Fits
        <4> QED
          BY <4>1, <4>2 DEF Fits
      <3> QED
        BY <3>1, <3>2
    <2>6. /\ after.builds = maps.builds \cup {build}
          /\ after.latest \in {maps.latest, selected}
          /\ after = [builds |-> after.builds, latest |-> after.latest]
      <3> HIDE DEF build, registered, after
      <3>1. after \in {registered, [registered EXCEPT !.latest = selected]}
        BY <2>1 DEF RC!Promoted
      <3> QED
        BY <2>4, <3>1
    <2>7. RC!ReleaseBuilds(after) = RC!ReleaseBuilds(maps) \cup {build}
      <3> HIDE DEF build, after
      <3> QED
        BY <2>3, <2>6 DEF RC!ReleaseBuilds
    <2>8. Fits(after)
      <3> HIDE DEF after, registered, existing
      <3>1. \A b \in RC!ReleaseBuilds(after) :
                b # None /\ b.release # RC!Latest /\ b = RC!PublishedBuild(b.artifact)
        BY <2>2, <2>3, <2>7 DEF Fits
      <3> HIDE DEF build
      <3>2. \A b, c \in RC!ReleaseBuilds(after) : b.release = c.release => b = c
        BY <2>3, <2>5, <2>7 DEF Fits
      <3>3. after.latest # None => \E b \in RC!ReleaseBuilds(after) : b.artifact = after.latest
        BY <2>3, <2>6, <2>7 DEF Fits
      <3> QED
        BY <2>6, <3>1, <3>2, <3>3 DEF Fits
    <2> QED
      BY <2>6, <2>8
  <1> QED
    BY <1>1, <1>2

=============================================================================
