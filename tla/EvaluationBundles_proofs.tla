---------------------- MODULE EvaluationBundles_proofs ----------------------
(***************************************************************************)
(* What the runs check of evaluation bundles, for any number of operators, *)
(* runs, facts, page sizes, builds, publishes and faults. Four invariants  *)
(* build on each other: of the dataset's head and what a publisher knows   *)
(* of it (HubInv), of directories and the files a builder has left         *)
(* (DirInv), of the documents publishers hold (DocsInv), and of a reader   *)
(* (ReaderInv) or of whole bundles (WholeInv).                             *)
(*                                                                         *)
(* A published run never changes: a publisher that read the head before it *)
(* listed the run's directory uploads only what was not there, as long as  *)
(* the head is the one it read, and its commit is refused once it is not.  *)
(***************************************************************************)
EXTENDS EvaluationBundles, TLAPS

\* The dataset's head and directories are what the proof needs of the types.
HubType == head \in Nat /\ DOMAIN published = Runs /\ DOMAIN job = Operators

HasHead == {"headed", "listed", "planned"}
HasUploads == {"listed", "planned"}

\* What a publisher knows: a head that was the dataset's, and while it still
\* is, files to upload of which none is there.
KnowsTheHead(o) ==
    job[o] # None =>
        /\ {"at", "manifest"} \subseteq DOMAIN job[o]
        /\ job[o].at \in HasHead =>
            "head" \in DOMAIN job[o] /\ job[o].head \in Nat /\ job[o].head <= head
        /\ job[o].at \in HasUploads =>
            /\ "uploads" \in DOMAIN job[o]
            /\ job[o].head = head =>
                job[o].uploads \cap DOMAIN published[job[o].manifest.run] = {}

HubInv == HubType /\ \A o \in Operators : KnowsTheHead(o)

FilesStay ==
    \A r \in Runs : \A file \in DOMAIN published[r] :
        file \in DOMAIN published'[r] /\ published'[r][file] = published[r][file]

\* A publisher at any step that leaves the dataset alone.
LEMMA JobStep ==
  ASSUME HubInv, NEW o \in Operators, UNCHANGED hub,
         NEW state, job' = [job EXCEPT ![o] = state], KnowsTheHead(o)'
  PROVE  HubInv'
  <1>1. HubType'
    BY DEF HubInv, HubType, hub
  <1>2. ASSUME NEW p \in Operators, p # o PROVE KnowsTheHead(p)'
    BY <1>2 DEF HubInv, HubType, hub, KnowsTheHead
  <1> QED BY <1>1, <1>2 DEF HubInv

\* The dataset goes on, and what other publishers read is no longer the head.
LEMMA HeadStep ==
  ASSUME HubInv, head' = head + 1, DOMAIN published' = Runs, job' = job
  PROVE  HubInv'
  <1>1. HubType'
    BY DEF HubInv, HubType
  <1>2. ASSUME NEW p \in Operators PROVE KnowsTheHead(p)'
    <2>1. KnowsTheHead(p) /\ head \in Nat
      BY DEF HubInv, HubType
    <2>2. job[p] # None /\ job[p].at \in HasHead =>
            job[p].head \in Nat /\ job[p].head <= head' /\ job[p].head # head'
      BY <2>1 DEF KnowsTheHead
    <2> QED BY <2>1, <2>2 DEF KnowsTheHead, HasHead, HasUploads
  <1> QED BY <1>1, <1>2 DEF HubInv

\* What a step adds to a publisher's state, and what it keeps.
LEMMA GoesFacts ==
  ASSUME HubInv, NEW o \in Operators, NEW step, Goes(o, step)
  PROVE  /\ DOMAIN job'[o] = DOMAIN step \cup DOMAIN job[o]
         /\ \A x \in DOMAIN step : job'[o][x] = step[x]
         /\ \A x \in DOMAIN job[o] \ DOMAIN step : job'[o][x] = job[o][x]
  <1>1. job'[o] = With(step, job[o])
    BY DEF Goes, HubInv, HubType
  <1> QED BY <1>1 DEF With

\* A publisher ends.
LEMMA EndsStep ==
  ASSUME HubInv, NEW o \in Operators, Ends(o), UNCHANGED hub
  PROVE  HubInv'
  <1>1. job' = [job EXCEPT ![o] = None]
    BY DEF Ends
  <1>2. KnowsTheHead(o)'
    BY <1>1 DEF HubInv, HubType, KnowsTheHead
  <1> QED BY <1>1, <1>2, JobStep

\* A publisher goes on, knowing what it must.
LEMMA GoesStep ==
  ASSUME HubInv, NEW o \in Operators, NEW step, Goes(o, step), UNCHANGED hub, KnowsTheHead(o)'
  PROVE  HubInv'
  <1>1. PICK state : state = With(step, job[o])
    OBVIOUS
  <1>2. job' = [job EXCEPT ![o] = state]
    BY <1>1 DEF Goes
  <1> QED BY <1>2, JobStep

\* A publisher that has not read the head, or has committed, knows nothing.
LEMMA GoesWithout ==
  ASSUME HubInv, NEW o \in Operators, job[o] # None, NEW step, Goes(o, step), UNCHANGED hub,
         "at" \in DOMAIN step, "manifest" \notin DOMAIN step, step.at \notin HasHead
  PROVE  HubInv'
  <1>1. job'[o].at = step.at /\ {"at", "manifest"} \subseteq DOMAIN job'[o]
    BY GoesFacts DEF HubInv, KnowsTheHead
  <1>2. KnowsTheHead(o)'
    BY <1>1 DEF KnowsTheHead, HasHead, HasUploads
  <1> QED BY <1>2, GoesStep

LEMMA ReadHeadStep ==
  ASSUME HubInv, NEW o \in Operators, ReadHead(o)
  PROVE  HubInv'
  <1>1. PICK step : step = [at |-> "headed", head |-> head]
    OBVIOUS
  <1>2. Goes(o, step) /\ UNCHANGED hub /\ job[o] # None
    BY <1>1 DEF ReadHead, OnlyJob
  <1>3. /\ job'[o].at = "headed" /\ job'[o].head = head
        /\ {"at", "head", "manifest"} \subseteq DOMAIN job'[o]
    BY <1>1, <1>2, GoesFacts DEF HubInv, KnowsTheHead
  <1>4. KnowsTheHead(o)'
    BY <1>2, <1>3 DEF KnowsTheHead, HasUploads, HubInv, HubType, hub
  <1> QED BY <1>2, <1>4, GoesStep

LEMMA ListRunStep ==
  ASSUME HubInv, NEW o \in Operators, ListRun(o)
  PROVE  HubInv'
  <1>1. UNCHANGED hub /\ job[o] # None /\ job[o].at = "headed"
    BY DEF ListRun, OnlyJob
  <1>2. CASE Ends(o)
    BY <1>1, <1>2, EndsStep
  <1>3. CASE Goes(o, [at |-> "listed", uploads |-> DOMAIN job[o].files
                                        \ DOMAIN published[job[o].manifest.run]])
    <2>1. PICK step : step = [at |-> "listed", uploads |-> DOMAIN job[o].files
                                        \ DOMAIN published[job[o].manifest.run]]
      OBVIOUS
    <2>2. /\ {"at", "manifest", "head"} \subseteq DOMAIN job[o]
          /\ job[o].head \in Nat /\ job[o].head <= head
      BY <1>1 DEF HubInv, KnowsTheHead, HasHead
    <2>3. /\ job'[o].at = "listed" /\ job'[o].head = job[o].head
          /\ job'[o].manifest = job[o].manifest
          /\ job'[o].uploads = DOMAIN job[o].files \ DOMAIN published[job[o].manifest.run]
          /\ {"at", "manifest", "head", "uploads"} \subseteq DOMAIN job'[o]
      BY <1>3, <2>1, <2>2, GoesFacts
    <2>4. KnowsTheHead(o)'
      BY <1>1, <2>2, <2>3 DEF KnowsTheHead, hub
    <2> QED BY <1>1, <1>3, <2>1, <2>4, GoesStep
  <1> QED BY <1>2, <1>3 DEF ListRun

LEMMA ListLatestStep ==
  ASSUME HubInv, NEW o \in Operators, ListLatest(o)
  PROVE  HubInv'
  <1>1. PICK step : step = [at |-> "planned",
                            pointer |-> job[o].withLatest /\ latest # job[o].manifest.run]
    OBVIOUS
  <1>2. Goes(o, step) /\ UNCHANGED hub /\ job[o] # None /\ job[o].at = "listed"
    BY <1>1 DEF ListLatest, OnlyJob
  <1>3. KnowsTheHead(o) /\ {"at", "manifest", "head", "uploads"} \subseteq DOMAIN job[o]
    BY <1>2 DEF HubInv, KnowsTheHead, HasHead, HasUploads
  <1>4. /\ DOMAIN step = {"at", "pointer"} /\ step.at = "planned"
    BY <1>1
  <1>5. /\ job'[o].at = "planned" /\ job'[o].head = job[o].head
        /\ job'[o].manifest = job[o].manifest /\ job'[o].uploads = job[o].uploads
        /\ {"at", "manifest", "head", "uploads"} \subseteq DOMAIN job'[o]
    BY <1>2, <1>3, <1>4, GoesFacts
  <1>6. KnowsTheHead(o)'
    BY <1>2, <1>3, <1>5 DEF KnowsTheHead, HasHead, HasUploads, hub
  <1> QED BY <1>2, <1>6, GoesStep

\* A commit adds files that were not there, or nothing.
LEMMA CommitStep ==
  ASSUME HubInv, NEW o \in Operators, Commit(o)
  PROVE  HubInv' /\ FilesStay
  <1>1. job[o] # None /\ job[o].at = "planned"
    BY DEF Commit
  <1>2. ASSUME UNCHANGED hub PROVE FilesStay
    BY <1>2 DEF hub, FilesStay
  <1>3. CASE Ends(o) /\ UNCHANGED hub
    BY <1>2, <1>3, EndsStep
  <1>4. PICK step : step = [at |-> "committed"]
    OBVIOUS
  <1>5. DOMAIN step = {"at"} /\ step.at \notin HasHead
    BY <1>4 DEF HasHead
  <1>6. CASE Goes(o, step) /\ UNCHANGED hub
    BY <1>1, <1>2, <1>5, <1>6, GoesWithout
  <1>7. CASE head = job[o].head /\ Apply(o) /\ (Goes(o, step) \/ Ends(o))
    <2> DEFINE run == job[o].manifest.run
               new == [file \in job[o].uploads |-> job[o].files[file]]
    <2>1. /\ published' = [published EXCEPT ![run] = With(new, published[run])]
          /\ head' = head + 1
      BY <1>7 DEF Apply
    <2>2. DOMAIN published = Runs /\ DOMAIN published' = Runs /\ DOMAIN job = Operators
      BY <2>1 DEF HubInv, HubType
    <2>3. job[o].uploads \cap DOMAIN published[run] = {}
      BY <1>1, <1>7 DEF HubInv, KnowsTheHead, HasUploads
    <2>4. FilesStay
      <3> SUFFICES ASSUME NEW r \in Runs, NEW file \in DOMAIN published[r]
                   PROVE  /\ file \in DOMAIN published'[r]
                          /\ published'[r][file] = published[r][file]
        BY DEF FilesStay
      <3>1. CASE r = run
        <4>1. published'[r] = With(new, published[r])
          BY <2>1, <2>2, <3>1
        <4>2. file \notin DOMAIN new
          BY <2>3, <3>1
        <4> QED BY <4>1, <4>2 DEF With
      <3>2. CASE r # run
        BY <2>1, <2>2, <3>2
      <3> QED BY <3>1, <3>2
    <2>5. \A p \in Operators : p # o => job'[p] = job[p]
      BY <1>7, <2>2 DEF Goes, Ends
    <2>6. DOMAIN job' = Operators
      BY <1>7, <2>2 DEF Goes, Ends
    <2>7. KnowsTheHead(o)'
      <3>1. CASE Ends(o)
        BY <2>2, <3>1 DEF Ends, KnowsTheHead
      <3>2. CASE Goes(o, step)
        <4>1. job'[o].at = step.at /\ {"at", "manifest"} \subseteq DOMAIN job'[o]
          BY <1>1, <1>5, <3>2, GoesFacts DEF HubInv, KnowsTheHead
        <4> QED BY <1>5, <4>1 DEF KnowsTheHead, HasHead, HasUploads
      <3> QED BY <1>7, <3>1, <3>2
    <2>8. ASSUME NEW p \in Operators, p # o PROVE KnowsTheHead(p)'
      <3>1. KnowsTheHead(p) /\ head \in Nat /\ job'[p] = job[p]
        BY <2>5, <2>8 DEF HubInv, HubType
      <3>2. job[p] # None /\ job[p].at \in HasHead =>
              job[p].head \in Nat /\ job[p].head <= head' /\ job[p].head # head'
        BY <2>1, <3>1 DEF KnowsTheHead
      <3> QED BY <3>1, <3>2 DEF KnowsTheHead, HasHead, HasUploads
    <2>9. HubType'
      BY <2>1, <2>2, <2>6 DEF HubInv, HubType
    <2> QED BY <2>4, <2>7, <2>8, <2>9 DEF HubInv
  <1> QED BY <1>3, <1>4, <1>6, <1>7 DEF Commit

\* The rest of a publisher.
LEMMA PublisherStep ==
  ASSUME HubInv, NEW o \in Operators,
         \/ \E withLatest \in BOOLEAN : StartPublish(o, withLatest)
         \/ VerifyBundle(o) \/ RereadManifest(o) \/ LoadFiles(o)
         \/ VerifyPublished(o) \/ PublisherCrashes(o)
  PROVE  HubInv' /\ UNCHANGED hub
  <1>1. ASSUME NEW withLatest \in BOOLEAN, StartPublish(o, withLatest)
        PROVE  HubInv' /\ UNCHANGED hub
    <2>1. PICK state : state = [at |-> "read", manifest |-> bundle[o][Manifest],
                                withLatest |-> withLatest]
      OBVIOUS
    <2>2. job' = [job EXCEPT ![o] = state] /\ UNCHANGED hub
      BY <1>1, <2>1, Zenon DEF StartPublish
    <2>3. DOMAIN state = {"at", "manifest", "withLatest"} /\ state.at = "read"
      BY <2>1
    <2>4. KnowsTheHead(o)'
      BY <2>2, <2>3 DEF HubInv, HubType, KnowsTheHead, HasHead, HasUploads
    <2> QED BY <2>2, <2>4, JobStep
  <1>2. CASE VerifyBundle(o)
    <2>1. PICK step : step = [at |-> "verified", verified |-> bundle[o][Manifest]]
      OBVIOUS
    <2>2. DOMAIN step = {"at", "verified"} /\ step.at \notin HasHead
      BY <2>1 DEF HasHead
    <2> QED BY <1>2, <2>1, <2>2, EndsStep, GoesWithout DEF VerifyBundle, OnlyJob
  <1>3. CASE RereadManifest(o)
    <2>1. PICK step : step = [at |-> "reread"]
      OBVIOUS
    <2>2. DOMAIN step = {"at"} /\ step.at \notin HasHead
      BY <2>1 DEF HasHead
    <2> QED BY <1>3, <2>1, <2>2, EndsStep, GoesWithout DEF RereadManifest, OnlyJob
  <1>4. CASE LoadFiles(o)
    <2>1. PICK step : step = [at |-> "loaded",
                     files |-> Adding(Manifest, job[o].manifest, Attested(job[o].verified))]
      OBVIOUS
    <2>2. DOMAIN step = {"at", "files"} /\ step.at \notin HasHead
      BY <2>1 DEF HasHead
    <2> QED BY <1>4, <2>1, <2>2, EndsStep, GoesWithout DEF LoadFiles, OnlyJob
  <1>5. CASE VerifyPublished(o)
    BY <1>5, EndsStep DEF VerifyPublished, OnlyJob
  <1>6. CASE PublisherCrashes(o)
    BY <1>6, EndsStep DEF PublisherCrashes
  <1> QED BY <1>1, <1>2, <1>3, <1>4, <1>5, <1>6

LEMMA NextHub == HubInv /\ [Next]_vars => HubInv' /\ FilesStay
  <1> SUFFICES ASSUME HubInv, [Next]_vars PROVE HubInv' /\ FilesStay
    OBVIOUS
  <1>1. ASSUME UNCHANGED hub PROVE FilesStay
    BY <1>1 DEF hub, FilesStay
  <1>2. CASE UNCHANGED <<job, hub>>
    <2>1. HubInv'
      BY <1>2 DEF hub, HubInv, HubType, KnowsTheHead
    <2> QED BY <1>1, <1>2, <2>1
  <1>3. CASE OtherCommit
    <2>1. HubInv'
      BY <1>3, HeadStep DEF OtherCommit, HubInv, HubType
    <2>2. FilesStay
      BY <1>3 DEF OtherCommit, FilesStay
    <2> QED BY <2>1, <2>2
  <1>4. ASSUME NEW o \in Operators,
               \/ \E withLatest \in BOOLEAN : StartPublish(o, withLatest)
               \/ VerifyBundle(o) \/ RereadManifest(o) \/ LoadFiles(o)
               \/ VerifyPublished(o) \/ PublisherCrashes(o)
        PROVE  HubInv' /\ FilesStay
    BY <1>1, <1>4, PublisherStep
  <1>5. ASSUME NEW o \in Operators, ReadHead(o) \/ ListRun(o) \/ ListLatest(o)
        PROVE  HubInv' /\ FilesStay
    BY <1>1, <1>5, ReadHeadStep, ListRunStep, ListLatestStep
       DEF ReadHead, ListRun, ListLatest, OnlyJob
  <1>6. ASSUME NEW o \in Operators, Commit(o) PROVE HubInv' /\ FilesStay
    BY <1>6, CommitStep
  <1>7. ASSUME NEW o \in Operators,
               \/ \E r \in Runs, s \in Sizes : Build(o, r, s)
               \/ WriteFile(o) \/ BuilderCrashes(o) \/ RemoveBundle(o)
        PROVE  UNCHANGED <<job, hub>>
    BY <1>7 DEF Build, WriteFile, BuilderCrashes, RemoveBundle
  <1>8. ASSUME \/ ReadManifest \/ \E file \in AnyPartition : ReadPartition(file)
               \/ \E store \in Operators \cup Runs : StartInstance(store)
        PROVE  UNCHANGED <<job, hub>>
    BY <1>8 DEF ReadManifest, ReadPartition, StartInstance, ReaderOnly
  <1>9. CASE UNCHANGED vars
    BY <1>2, <1>9 DEF vars
  <1> QED BY <1>2, <1>3, <1>4, <1>5, <1>6, <1>7, <1>8, <1>9 DEF Next

\* The files of a published run never change and never go, whoever publishes
\* what at the same time, whoever crashes and whatever else is committed
\* (publish_evaluation_bundle_to_hf.py: the head is read before the
\* directory, and the commit names it as its parent).
THEOREM PublishedRunsStay == Spec => PublishedFilesNeverChange
  <1>1. Init => HubInv
    BY DEF Init, HubInv, HubType, KnowsTheHead
  <1>2. HubInv /\ [Next]_vars => HubInv'
    BY NextHub
  <1>3. HubInv /\ [Next]_vars =>
            [\A r \in Runs : \A file \in DOMAIN published[r] :
                file \in DOMAIN published'[r] /\ published'[r][file] = published[r][file]]_vars
    BY NextHub DEF FilesStay
  <1> QED BY <1>1, <1>2, <1>3, PTL DEF Spec, PublishedFilesNeverChange

-----------------------------------------------------------------------------
(***************************************************************************)
(* Directories.                                                            *)
(***************************************************************************)

Manifests == [run : Runs, size : Sizes]

Added(file, document, old, new) ==
    /\ DOMAIN new = {file} \cup DOMAIN old
    /\ new[file] = document
    /\ \A other \in DOMAIN old \ {file} : new[other] = old[other]

LEMMA AddingFacts ==
  ASSUME NEW file, NEW document, NEW files
  PROVE  Added(file, document, files, Adding(file, document, files))
  BY DEF Added, Adding, With

LEMMA PairFacts == ASSUME NEW a, NEW b PROVE <<a, b>>[1] = a /\ <<a, b>>[2] = b
  OBVIOUS

LEMMA PageCountType == ASSUME NEW s \in Sizes PROVE PageCount(s) \in Nat
  <1>1. Facts + s - 1 \in Nat
    BY FactsAssumption, SizesAssumption
  <1> QED BY <1>1, SizesAssumption DEF PageCount

LEMMA ManifestFacts ==
  ASSUME NEW r \in Runs, NEW s \in Sizes
  PROVE  /\ Document(Manifest, r, s) = [run |-> r, size |-> s]
         /\ Document(Manifest, r, s) \in Manifests
         /\ Manifest \notin Partitions(s)
  BY DEF Document, Manifests, Manifest, Summary, Groups, Partitions, Index, Page

Joined(files, a, b, ab) ==
    /\ ab \in Seq(files) /\ Len(ab) = Len(a) + Len(b)
    /\ \A i \in 1..Len(a) : ab[i] = a[i]
    /\ \A i \in 1..Len(b) : ab[Len(a) + i] = b[i]

LEMMA JoinedFacts ==
  ASSUME NEW files, NEW a \in Seq(files), NEW b \in Seq(files)
  PROVE  Joined(files, a, b, a \o b)
  BY DEF Joined

\* The order of a bundle's files, count of them pages.
IsOrder(order, count) ==
    /\ Len(order) = count + 4 /\ DOMAIN order = 1..(count + 4)
    /\ order[1] = Summary /\ order[2] = Groups
    /\ \A n \in 1..count : order[n + 2] = Page(n)
    /\ order[count + 3] = Index /\ order[count + 4] = Manifest

LEMMA OrderOfFiles ==
  ASSUME NEW count \in Nat
  PROVE  IsOrder(<<Summary, Groups>> \o [n \in 1..count |-> Page(n)] \o <<Index, Manifest>>, count)
  <1> DEFINE Files == {Summary, Groups, Index, Manifest} \cup {Page(n) : n \in 1..count}
  <1>1. PICK a, b, c, files :
            /\ a = <<Summary, Groups>> /\ b = [n \in 1..count |-> Page(n)]
            /\ c = <<Index, Manifest>> /\ files = Files
    OBVIOUS
  <1>2. /\ a \in Seq(files) /\ b \in Seq(files) /\ c \in Seq(files)
        /\ Len(a) = 2 /\ Len(b) = count /\ Len(c) = 2
        /\ a[1] = Summary /\ a[2] = Groups /\ c[1] = Index /\ c[2] = Manifest
        /\ \A n \in 1..count : b[n] = Page(n)
    BY <1>1
  <1>3. PICK ab : ab = a \o b
    OBVIOUS
  <1>4. /\ ab \in Seq(files) /\ Len(ab) = 2 + count
        /\ \A i \in 1..2 : ab[i] = a[i]
        /\ \A i \in 1..count : ab[2 + i] = b[i]
    <2>1. Joined(files, a, b, ab)
      BY <1>2, <1>3, JoinedFacts
    <2> QED BY <1>2, <2>1 DEF Joined
  <1>5. PICK abc : abc = ab \o c
    OBVIOUS
  <1>6. /\ abc \in Seq(files) /\ Len(abc) = Len(ab) + 2
        /\ \A i \in 1..Len(ab) : abc[i] = ab[i]
        /\ \A i \in 1..2 : abc[Len(ab) + i] = c[i]
    <2>1. Joined(files, ab, c, abc)
      BY <1>2, <1>4, <1>5, JoinedFacts
    <2> QED BY <1>2, <2>1 DEF Joined
  <1>7. Len(abc) = count + 4 /\ DOMAIN abc = 1..(count + 4)
    BY <1>4, <1>6
  <1>8. abc[1] = Summary /\ abc[2] = Groups
    BY <1>2, <1>4, <1>6
  <1>9. ASSUME NEW n \in 1..count PROVE abc[n + 2] = Page(n)
    <2>1. n + 2 \in 1..Len(ab) /\ abc[n + 2] = ab[2 + n]
      BY <1>4, <1>6
    <2> QED BY <1>2, <1>4, <2>1
  <1>10. abc[count + 3] = Index /\ abc[count + 4] = Manifest
    <2>1. count + 3 = Len(ab) + 1 /\ count + 4 = Len(ab) + 2
      BY <1>4
    <2> QED BY <1>2, <1>6, <2>1
  <1>11. IsOrder(abc, count)
    BY <1>7, <1>8, <1>9, <1>10 DEF IsOrder
  <1> QED BY <1>1, <1>3, <1>5, <1>11

\* What the order is good for: the manifest is last, after every other file.
LEMMA OrderFacts ==
  ASSUME NEW s \in Sizes, NEW order, IsOrder(order, PageCount(s))
  PROVE  /\ \A i \in 1..(PageCount(s) + 3) : order[i] # Manifest
         /\ \A file \in Partitions(s) : \E i \in 1..(PageCount(s) + 3) : order[i] = file
  <1>1. PICK count \in Nat : count = PageCount(s)
    BY PageCountType
  <1>2. IsOrder(order, count)
    BY <1>1
  <1>3. ASSUME NEW i \in 1..(count + 3) PROVE order[i] # Manifest
    <2>1. /\ Summary # Manifest /\ Groups # Manifest /\ Index # Manifest
          /\ \A n \in 1..count : Page(n) # Manifest
      BY DEF Summary, Groups, Index, Page, Manifest
    <2>2. CASE i > 2 /\ i < count + 3
      <3>1. i - 2 \in 1..count /\ (i - 2) + 2 = i
        BY <2>2
      <3>2. order[i] = Page(i - 2)
        BY <1>2, <3>1 DEF IsOrder
      <3> QED BY <2>1, <3>1, <3>2
    <2>3. CASE i \in {1, 2, count + 3}
      BY <1>2, <2>1, <2>3 DEF IsOrder
    <2> QED BY <2>2, <2>3
  <1>4. ASSUME NEW file \in Partitions(s) PROVE \E i \in 1..(count + 3) : order[i] = file
    <2>1. CASE file \in {Summary, Groups, Index}
      <3>1. 1 \in 1..(count + 3) /\ 2 \in 1..(count + 3) /\ count + 3 \in 1..(count + 3)
        OBVIOUS
      <3> QED BY <1>2, <2>1, <3>1 DEF IsOrder
    <2>2. ASSUME NEW n \in 1..count, file = Page(n) PROVE \E i \in 1..(count + 3) : order[i] = file
      <3>1. n + 2 \in 1..(count + 3)
        OBVIOUS
      <3>2. order[n + 2] = file
        BY <1>2, <2>2 DEF IsOrder
      <3> QED BY <3>1, <3>2
    <2> QED BY <1>1, <2>1, <2>2 DEF Partitions
  <1> QED BY <1>1, <1>3, <1>4

LEMMA WrittenFacts ==
  ASSUME NEW r \in Runs, NEW s \in Sizes
  PROVE  \E order : /\ IsOrder(order, PageCount(s))
                    /\ Written(r, s) = [i \in 1..(PageCount(s) + 4) |->
                                            <<order[i], Document(order[i], r, s)>>]
  <1>1. PICK order : order = <<Summary, Groups>> \o [n \in 1..PageCount(s) |-> Page(n)]
                                \o <<Index, Manifest>>
    OBVIOUS
  <1>2. IsOrder(order, PageCount(s))
    BY <1>1, OrderOfFiles, PageCountType
  <1>3. DOMAIN order = 1..(PageCount(s) + 4)
    BY <1>2 DEF IsOrder
  <1> QED BY <1>1, <1>2, <1>3 DEF Written

-----------------------------------------------------------------------------

\* The files a builder has left once k of them are written.
LeftToWrite(r, s, k) ==
    [i \in 1..(PageCount(s) + 4 - k) |-> Written(r, s)[k + i]]

\* A builder's directory holds the files it has written, and the manifest is
\* one of those it has left.
Underway(o) ==
    build[o] # None =>
        \E r \in Runs, s \in Sizes : \E k \in 0..(PageCount(s) + 3) :
            /\ build[o] = LeftToWrite(r, s, k)
            /\ Manifest \notin DOMAIN bundle[o]
            /\ \A i \in 1..k : LET file == Written(r, s)[i][1]
                               IN  /\ file \in DOMAIN bundle[o]
                                   /\ bundle[o][file] = Document(file, r, s)

DirectoryWhole(o) ==
    Manifest \in DOMAIN bundle[o] =>
        bundle[o][Manifest] \in Manifests /\ Whole(bundle[o])

DirInv ==
    /\ DOMAIN bundle = Operators /\ DOMAIN build = Operators
    /\ \A o \in Operators : DirectoryWhole(o) /\ Underway(o)

\* The manifests that a directory has or is to get.
Names(o) ==
    {m \in Manifests :
        \/ Manifest \in DOMAIN bundle[o] /\ bundle[o][Manifest] = m
        \/ build[o] # None /\ build[o][Len(build[o])] = <<Manifest, m>>}

LEMMA LeftFacts ==
  ASSUME NEW r \in Runs, NEW s \in Sizes, NEW k \in 0..(PageCount(s) + 3),
         NEW rest, rest = LeftToWrite(r, s, k)
  PROVE  /\ Len(rest) = PageCount(s) + 4 - k /\ Len(rest) > 0
         /\ rest[Len(rest)] = <<Manifest, Document(Manifest, r, s)>>
         /\ Head(rest) = Written(r, s)[k + 1]
         /\ Tail(rest) = LeftToWrite(r, s, k + 1)
         /\ Tail(rest) = <<>> <=> k = PageCount(s) + 3
  <1>1. PICK count \in Nat : count = PageCount(s)
    BY PageCountType
  <1>2. PICK written : written = Written(r, s)
    OBVIOUS
  <1>3. PICK n \in Nat : n = count + 4 - k /\ n > 0
    BY <1>1
  <1>4. rest = [i \in 1..n |-> written[k + i]]
    BY <1>1, <1>2, <1>3 DEF LeftToWrite
  <1>5. Len(rest) = n /\ Head(rest) = written[k + 1]
    BY <1>3, <1>4
  <1>6. Tail(rest) = [i \in 1..(n - 1) |-> written[k + 1 + i]]
    <2>1. Tail(rest) = [i \in 1..(n - 1) |-> rest[i + 1]]
      BY <1>4, <1>5
    <2>2. ASSUME NEW i \in 1..(n - 1) PROVE rest[i + 1] = written[k + 1 + i]
      <3>1. i + 1 \in 1..n /\ k + (i + 1) = k + 1 + i
        BY <1>3
      <3> QED BY <1>4, <3>1
    <2> QED BY <2>1, <2>2
  <1>7. Tail(rest) = LeftToWrite(r, s, k + 1)
    <2>1. n - 1 = count + 4 - (k + 1)
      BY <1>3
    <2> QED BY <1>1, <1>2, <1>6, <2>1 DEF LeftToWrite
  <1>8. Tail(rest) = <<>> <=> k = count + 3
    <2>1. PICK t : t = Tail(rest)
      OBVIOUS
    <2>4. t = [i \in 1..(n - 1) |-> written[k + 1 + i]]
      BY <1>6, <2>1
    <2>2. CASE n = 1
      <3>1. t = [i \in 1..0 |-> written[k + 1 + i]]
        BY <2>2, <2>4
      <3>2. t = <<>>
        BY <3>1
      <3> QED BY <1>3, <2>1, <2>2, <3>2
    <2>3. CASE n # 1
      <3>1. 1 \in DOMAIN t
        BY <1>3, <2>3, <2>4
      <3>2. t # <<>>
        BY <3>1
      <3> QED BY <1>3, <2>1, <2>3, <3>2
    <2> QED BY <2>2, <2>3
  <1>9. rest[n] = <<Manifest, Document(Manifest, r, s)>>
    <2>1. PICK order : /\ IsOrder(order, count)
                       /\ written = [i \in 1..(count + 4) |->
                                        <<order[i], Document(order[i], r, s)>>]
      BY <1>1, <1>2, WrittenFacts
    <2>2. order[count + 4] = Manifest
      BY <2>1 DEF IsOrder
    <2>3. n \in 1..n /\ k + n = count + 4 /\ count + 4 \in 1..(count + 4)
      BY <1>3
    <2>4. rest[n] = written[count + 4]
      BY <1>4, <2>3
    <2> QED BY <2>1, <2>2, <2>3, <2>4
  <1> QED BY <1>1, <1>2, <1>3, <1>5, <1>7, <1>8, <1>9

\* One operator's directory.
LEMMA DirStep ==
  ASSUME DirInv, NEW o \in Operators, DOMAIN bundle' = Operators, DOMAIN build' = Operators,
         \A p \in Operators : p # o => bundle'[p] = bundle[p] /\ build'[p] = build[p],
         DirectoryWhole(o)', Underway(o)'
  PROVE  DirInv'
  <1>1. ASSUME NEW p \in Operators, p # o PROVE DirectoryWhole(p)' /\ Underway(p)'
    <2>1. bundle'[p] = bundle[p] /\ build'[p] = build[p]
      BY <1>1
    <2>2. DirectoryWhole(p)'
      BY <2>1 DEF DirInv, DirectoryWhole
    <2>3. Underway(p)'
      BY <2>1 DEF DirInv, Underway
    <2> QED BY <2>2, <2>3
  <1> QED BY <1>1 DEF DirInv

\* What a step may do to the manifests of a directory: it adds none, unless a
\* build begins.
NamesStep(o) ==
    /\ left'.builds <= left.builds
    /\ Names(o)' \subseteq Names(o) \/ left'.builds < left.builds
    /\ left.builds = 0 /\ Manifest \in DOMAIN bundle[o] => bundle'[o] = bundle[o]

LeftType == left \in [{"builds", "publishes", "instances", "faults"} -> Nat]

LEMMA SpendsFacts ==
  ASSUME LeftType, NEW what \in {"builds", "publishes", "instances", "faults"}, Spends(what)
  PROVE  /\ LeftType' /\ left'.builds <= left.builds
         /\ what = "builds" => left'.builds < left.builds
  <1>1. left[what] \in Nat /\ left[what] > 0 /\ left' = [left EXCEPT ![what] = left[what] - 1]
    BY DEF LeftType, Spends
  <1>2. left[what] - 1 \in Nat
    BY <1>1
  <1>3. left'["builds"] <= left["builds"] /\ (what = "builds" => left'["builds"] < left["builds"])
    BY <1>1 DEF LeftType
  <1> QED BY <1>1, <1>2, <1>3 DEF LeftType

LEMMA BuildStep ==
  ASSUME DirInv, LeftType, NEW o \in Operators, NEW r \in Runs, NEW s \in Sizes, Build(o, r, s)
  PROVE  DirInv' /\ LeftType' /\ \A p \in Operators : NamesStep(p)
  <1>1. /\ build[o] = None /\ bundle[o] = Empty /\ bundle' = bundle
        /\ build' = [build EXCEPT ![o] = Written(r, s)]
    BY DEF Build
  <1>2. LeftType' /\ left'.builds < left.builds /\ left.builds \in Nat
    BY SpendsFacts DEF Build, LeftType
  <1>10. left'.builds \in Nat
    BY <1>2 DEF LeftType
  <1>3. Written(r, s) = LeftToWrite(r, s, 0)
    <2>1. PICK written, count : /\ written = Written(r, s) /\ count = PageCount(s)
                                /\ count \in Nat
      BY PageCountType
    <2>2. written = [i \in 1..(count + 4) |-> written[i]]
      <3>1. PICK order : written = [i \in 1..(count + 4) |->
                                        <<order[i], Document(order[i], r, s)>>]
        BY <2>1, WrittenFacts
      <3> QED BY <3>1
    <2>3. count + 4 - 0 = count + 4 /\ \A i \in 1..(count + 4) : 0 + i = i
      BY <2>1
    <2>4. written = [i \in 1..(count + 4 - 0) |-> written[0 + i]]
      BY <2>2, <2>3
    <2> QED BY <2>1, <2>4 DEF LeftToWrite
  <1>4. Manifest \notin DOMAIN bundle[o]
    BY <1>1 DEF Empty
  <1>5. Underway(o)'
    <2>1. 0 \in 0..(PageCount(s) + 3) /\ 1..0 = {}
      BY PageCountType
    <2>2. build'[o] = LeftToWrite(r, s, 0)
      BY <1>1, <1>3 DEF DirInv
    <2>3. \E k \in 0..(PageCount(s) + 3) :
            /\ build'[o] = LeftToWrite(r, s, k)
            /\ Manifest \notin DOMAIN bundle'[o]
            /\ \A i \in 1..k : LET file == Written(r, s)[i][1]
                               IN  /\ file \in DOMAIN bundle'[o]
                                   /\ bundle'[o][file] = Document(file, r, s)
      BY <1>1, <1>4, <2>1, <2>2
    <2> QED BY <2>3 DEF Underway
  <1>6. DirectoryWhole(o)'
    BY <1>1, <1>4 DEF DirectoryWhole
  <1>7. /\ DOMAIN bundle' = Operators /\ DOMAIN build' = Operators
        /\ \A p \in Operators : p # o => bundle'[p] = bundle[p] /\ build'[p] = build[p]
    BY <1>1 DEF DirInv
  <1>8. DirInv'
    BY <1>5, <1>6, <1>7, DirStep
  <1>9. ASSUME NEW p \in Operators PROVE NamesStep(p)
    <2>1. left'.builds <= left.builds /\ left.builds # 0
      BY <1>2, <1>10
    <2> QED BY <1>2, <2>1 DEF NamesStep
  <1> QED BY <1>2, <1>8, <1>9

LEMMA WriteFileStep ==
  ASSUME DirInv, NEW o \in Operators, WriteFile(o)
  PROVE  /\ DirInv' /\ left' = left
         /\ \A p \in Operators : Names(p)' \subseteq Names(p)
         /\ \A p \in Operators : Manifest \in DOMAIN bundle[p] => bundle'[p] = bundle[p]
  <1>14. PICK r \in Runs, s \in Sizes : \E k \in 0..(PageCount(s) + 3) :
            /\ build[o] = LeftToWrite(r, s, k)
            /\ Manifest \notin DOMAIN bundle[o]
            /\ \A i \in 1..k : LET file == Written(r, s)[i][1]
                               IN  /\ file \in DOMAIN bundle[o]
                                   /\ bundle[o][file] = Document(file, r, s)
    BY DEF WriteFile, DirInv, Underway
  <1>1. PICK k \in 0..(PageCount(s) + 3) :
            /\ build[o] = LeftToWrite(r, s, k)
            /\ Manifest \notin DOMAIN bundle[o]
            /\ \A i \in 1..k : LET file == Written(r, s)[i][1]
                               IN  /\ file \in DOMAIN bundle[o]
                                   /\ bundle[o][file] = Document(file, r, s)
    BY <1>14
  <1>2. PICK count \in Nat : count = PageCount(s)
    BY PageCountType
  <1>3. PICK order : /\ IsOrder(order, count)
                     /\ Written(r, s) = [i \in 1..(count + 4) |->
                                            <<order[i], Document(order[i], r, s)>>]
    BY <1>2, WrittenFacts
  <1>4. /\ \A i \in 1..(count + 3) : order[i] # Manifest
        /\ \A file \in Partitions(s) : \E i \in 1..(count + 3) : order[i] = file
        /\ order[count + 4] = Manifest
    BY <1>2, <1>3, OrderFacts DEF IsOrder
  <1>5. k + 1 \in 1..(count + 4) /\ k \in Nat /\ k <= count + 3
    BY <1>2
  <1>6. \A i \in 1..k : order[i] \in DOMAIN bundle[o] /\ bundle[o][order[i]] = Document(order[i], r, s)
    <2>1. ASSUME NEW i \in 1..k PROVE Written(r, s)[i][1] = order[i]
      BY <1>3, <1>5
    <2> QED BY <1>1, <2>1
  <1> DEFINE file == order[k + 1]
             document == Document(file, r, s)
  <1>7. /\ Head(build[o]) = <<file, document>>
        /\ build[o][Len(build[o])] = <<Manifest, Document(Manifest, r, s)>>
        /\ Tail(build[o]) = LeftToWrite(r, s, k + 1)
        /\ Tail(build[o]) = <<>> <=> k = count + 3
    <2>1. PICK rest : rest = build[o]
      OBVIOUS
    <2>2. /\ rest[Len(rest)] = <<Manifest, Document(Manifest, r, s)>>
          /\ Head(rest) = Written(r, s)[k + 1]
          /\ Tail(rest) = LeftToWrite(r, s, k + 1)
          /\ Tail(rest) = <<>> <=> k = PageCount(s) + 3
      BY <1>1, <2>1, LeftFacts
    <2>3. Written(r, s)[k + 1] = <<file, document>>
      BY <1>3, <1>5
    <2> QED BY <1>2, <2>1, <2>2, <2>3
  <1>8. /\ bundle' = [bundle EXCEPT ![o] = Adding(file, document, bundle[o])]
        /\ build' = [build EXCEPT ![o] = IF k = count + 3 THEN None ELSE LeftToWrite(r, s, k + 1)]
        /\ left' = left
    <2>1. <<file, document>>[1] = file /\ <<file, document>>[2] = document
      BY PairFacts, Zenon
    <2> QED BY <1>7, <2>1 DEF WriteFile
  <1> HIDE DEF file, document
  <1>9. /\ DOMAIN bundle' = Operators /\ DOMAIN build' = Operators
        /\ bundle'[o] = Adding(file, document, bundle[o])
        /\ build'[o] = IF k = count + 3 THEN None ELSE LeftToWrite(r, s, k + 1)
        /\ \A p \in Operators : p # o => bundle'[p] = bundle[p] /\ build'[p] = build[p]
    BY <1>8 DEF DirInv
  <1>10. /\ DOMAIN bundle'[o] = {file} \cup DOMAIN bundle[o]
         /\ bundle'[o][file] = document
         /\ \A other \in DOMAIN bundle[o] \ {file} : bundle'[o][other] = bundle[o][other]
    <2>1. Added(file, document, bundle[o], bundle'[o])
      BY <1>9, AddingFacts
    <2> QED BY <2>1 DEF Added
  <1>11. \A i \in 1..(k + 1) : /\ order[i] \in DOMAIN bundle'[o]
                               /\ bundle'[o][order[i]] = Document(order[i], r, s)
    <2> TAKE i \in 1..(k + 1)
    <2>1. CASE order[i] = file
      BY <1>10, <2>1 DEF document
    <2>2. CASE order[i] # file
      <3>1. i \in 1..k
        BY <1>5, <2>2 DEF file
      <3> QED BY <1>6, <1>10, <2>2, <3>1
    <2> QED BY <2>1, <2>2
  <1>12. CASE k = count + 3
    <2>1. file = Manifest /\ document = [run |-> r, size |-> s] /\ document \in Manifests
      <3>1. k + 1 = count + 4
        BY <1>12
      <3> QED BY <1>4, <3>1, ManifestFacts DEF file, document
    <2>2. Underway(o)'
      BY <1>9, <1>12 DEF Underway
    <2>3. DirectoryWhole(o)'
      <3>1. bundle'[o][Manifest] = document /\ Manifest \in DOMAIN bundle'[o]
        BY <1>10, <2>1
      <3>2. document.run = r /\ document.size = s
        BY <2>1
      <3>3. ASSUME NEW f \in Partitions(s)
            PROVE  f \in DOMAIN bundle'[o] /\ bundle'[o][f] = Attested(document)[f]
        <4>1. PICK i \in 1..(count + 3) : order[i] = f
          BY <1>4
        <4>2. i \in 1..(k + 1)
          BY <1>12
        <4>3. Attested(document)[f] = Document(f, r, s)
          BY <3>2 DEF Attested
        <4> QED BY <1>11, <4>1, <4>2, <4>3
      <3> QED BY <2>1, <3>1, <3>2, <3>3 DEF DirectoryWhole, Whole, Matches
    <2>4. DirInv'
      BY <1>9, <2>2, <2>3, DirStep
    <2>5. Names(o)' \subseteq Names(o)
      <3>1. \A m \in Names(o)' : m = document
        BY <1>9, <1>10, <1>12, <2>1 DEF Names
      <3>2. build[o][Len(build[o])] = <<Manifest, document>> /\ build[o] # None
        BY <1>7, <2>1 DEF document, WriteFile
      <3>3. document \in Names(o)
        BY <2>1, <3>2 DEF Names
      <3> QED BY <3>1, <3>3
    <2>6. ASSUME NEW p \in Operators, p # o PROVE Names(p)' \subseteq Names(p)
      BY <1>9, <2>6 DEF Names
    <2> QED BY <1>1, <1>8, <1>9, <2>4, <2>5, <2>6
  <1>13. CASE k # count + 3
    <2>1. k + 1 \in 0..(count + 3) /\ k + 1 \in 1..(count + 3)
      BY <1>5, <1>13
    <2>2. file # Manifest
      BY <1>4, <2>1 DEF file
    <2>3. Manifest \notin DOMAIN bundle'[o]
      BY <1>1, <1>10, <2>2
    <2>4. DirectoryWhole(o)'
      BY <2>3 DEF DirectoryWhole
    <2>5. Underway(o)'
      <3>1. \A i \in 1..(k + 1) : /\ Written(r, s)[i][1] \in DOMAIN bundle'[o]
                                  /\ bundle'[o][Written(r, s)[i][1]] = Document(Written(r, s)[i][1], r, s)
        <4>1. ASSUME NEW i \in 1..(k + 1) PROVE Written(r, s)[i][1] = order[i]
          BY <1>3, <2>1
        <4> QED BY <1>11, <4>1
      <3>2. \E j \in 0..(PageCount(s) + 3) :
            /\ build'[o] = LeftToWrite(r, s, j)
            /\ Manifest \notin DOMAIN bundle'[o]
            /\ \A i \in 1..j : /\ Written(r, s)[i][1] \in DOMAIN bundle'[o]
                               /\ bundle'[o][Written(r, s)[i][1]] = Document(Written(r, s)[i][1], r, s)
        BY <1>2, <1>9, <1>13, <2>1, <2>3, <3>1
      <3> QED BY <3>2 DEF Underway
    <2>6. DirInv'
      BY <1>9, <2>4, <2>5, DirStep
    <2>7. Names(o)' \subseteq Names(o)
      <3>1. PICK rest : rest = LeftToWrite(r, s, k + 1)
        OBVIOUS
      <3>2. rest[Len(rest)] = <<Manifest, Document(Manifest, r, s)>>
        BY <1>2, <2>1, <3>1, LeftFacts
      <3>3. build'[o][Len(build'[o])] = build[o][Len(build[o])] /\ build[o] # None
        BY <1>7, <1>9, <1>13, <3>1, <3>2 DEF WriteFile
      <3> QED BY <2>3, <3>3 DEF Names
    <2>8. ASSUME NEW p \in Operators, p # o PROVE Names(p)' \subseteq Names(p)
      BY <1>9, <2>8 DEF Names
    <2> QED BY <1>1, <1>8, <1>9, <2>6, <2>7, <2>8
  <1> QED BY <1>12, <1>13

LEMMA RemoveBundleStep ==
  ASSUME DirInv, NEW o \in Operators, RemoveBundle(o)
  PROVE  /\ DirInv' /\ left' = left /\ left.builds > 0
         /\ \A p \in Operators : Names(p)' \subseteq Names(p)
  <1>1. /\ build' = build /\ left' = left /\ left.builds > 0 /\ build[o] = None
        /\ bundle' = [bundle EXCEPT ![o] = Empty]
    BY DEF RemoveBundle
  <1>2. /\ DOMAIN bundle' = Operators /\ bundle'[o] = Empty
        /\ \A p \in Operators : p # o => bundle'[p] = bundle[p]
    BY <1>1 DEF DirInv
  <1>3. Manifest \notin DOMAIN bundle'[o]
    BY <1>2 DEF Empty
  <1>4. DirectoryWhole(o)' /\ Underway(o)'
    BY <1>1, <1>3 DEF DirectoryWhole, Underway
  <1>5. DirInv'
    BY <1>1, <1>2, <1>4, DirStep DEF DirInv
  <1>6. ASSUME NEW p \in Operators PROVE Names(p)' \subseteq Names(p)
    BY <1>1, <1>2, <1>3 DEF Names
  <1> QED BY <1>1, <1>5, <1>6

LEMMA BuilderCrashesStep ==
  ASSUME DirInv, NEW o \in Operators, BuilderCrashes(o)
  PROVE  DirInv' /\ \A p \in Operators : Names(p)' \subseteq Names(p) /\ bundle'[p] = bundle[p]
  <1>1. bundle' = bundle /\ build' = [build EXCEPT ![o] = None]
    BY DEF BuilderCrashes
  <1>2. /\ DOMAIN build' = Operators /\ build'[o] = None
        /\ \A p \in Operators : p # o => build'[p] = build[p]
    BY <1>1 DEF DirInv
  <1>3. DirectoryWhole(o)' /\ Underway(o)'
    BY <1>1, <1>2 DEF DirInv, DirectoryWhole, Underway
  <1>4. DirInv'
    BY <1>1, <1>2, <1>3, DirStep DEF DirInv
  <1>5. ASSUME NEW p \in Operators PROVE Names(p)' \subseteq Names(p)
    BY <1>1, <1>2 DEF Names
  <1> QED BY <1>1, <1>4, <1>5

Elsewhere(o) ==
    \/ \E withLatest \in BOOLEAN : StartPublish(o, withLatest)
    \/ VerifyBundle(o) \/ RereadManifest(o) \/ LoadFiles(o)
    \/ ReadHead(o) \/ ListRun(o) \/ ListLatest(o)
    \/ Commit(o) \/ VerifyPublished(o) \/ PublisherCrashes(o)

Reading ==
    \/ ReadManifest \/ \E file \in AnyPartition : ReadPartition(file)
    \/ \E store \in Operators \cup Runs : StartInstance(store)

\* A publisher, the dashboard and other commits leave the directories alone.
LEMMA ElsewhereStep ==
  ASSUME DirInv, LeftType,
         (\E o \in Operators : Elsewhere(o)) \/ OtherCommit \/ Reading \/ UNCHANGED vars
  PROVE  UNCHANGED <<bundle, build>> /\ LeftType' /\ left'.builds <= left.builds
  <1>1. /\ UNCHANGED <<bundle, build>>
        /\ \/ UNCHANGED left
           \/ \E what \in {"builds", "publishes", "instances", "faults"} : Spends(what)
    <2>1. ASSUME NEW o \in Operators, Elsewhere(o)
          PROVE  /\ UNCHANGED <<bundle, build>>
                 /\ UNCHANGED left \/ Spends("publishes") \/ Spends("faults")
      <3>1. CASE \E withLatest \in BOOLEAN : StartPublish(o, withLatest)
        BY <3>1 DEF StartPublish, Kept
      <3>2. CASE \/ VerifyBundle(o) \/ RereadManifest(o) \/ LoadFiles(o)
                 \/ ReadHead(o) \/ ListRun(o) \/ ListLatest(o) \/ VerifyPublished(o)
        BY <3>2 DEF VerifyBundle, RereadManifest, LoadFiles, ReadHead, ListRun, ListLatest,
                    VerifyPublished, OnlyJob, Kept
      <3>3. CASE Commit(o)
        BY <3>3 DEF Commit, Kept
      <3>4. CASE PublisherCrashes(o)
        BY <3>4 DEF PublisherCrashes, Kept
      <3> QED BY <2>1, <3>1, <3>2, <3>3, <3>4 DEF Elsewhere
    <2>2. CASE OtherCommit
      BY <2>2 DEF OtherCommit
    <2>3. CASE Reading
      BY <2>3 DEF Reading, ReadManifest, ReadPartition, StartInstance, ReaderOnly
    <2>4. CASE UNCHANGED vars
      BY <2>4 DEF vars
    <2> QED BY <2>1, <2>2, <2>3, <2>4
  <1>2. CASE UNCHANGED left
    BY <1>1, <1>2 DEF LeftType
  <1>3. ASSUME NEW what \in {"builds", "publishes", "instances", "faults"}, Spends(what)
        PROVE  LeftType' /\ left'.builds <= left.builds
    BY <1>3, SpendsFacts
  <1> QED BY <1>1, <1>2, <1>3

LEMMA NextDirectories ==
  ASSUME DirInv, LeftType, [Next]_vars
  PROVE  DirInv' /\ LeftType' /\ \A p \in Operators : NamesStep(p)
  <1>1. ASSUME NEW o \in Operators, NEW r \in Runs, NEW s \in Sizes, Build(o, r, s)
        PROVE  DirInv' /\ LeftType' /\ \A p \in Operators : NamesStep(p)
    BY <1>1, BuildStep
  <1>2. left.builds \in Nat
    BY DEF LeftType
  <1>3. ASSUME NEW o \in Operators, WriteFile(o)
        PROVE  DirInv' /\ LeftType' /\ \A p \in Operators : NamesStep(p)
    BY <1>2, <1>3, WriteFileStep DEF NamesStep, LeftType
  <1>4. ASSUME NEW o \in Operators, BuilderCrashes(o)
        PROVE  DirInv' /\ LeftType' /\ \A p \in Operators : NamesStep(p)
    <2>1. LeftType' /\ left'.builds <= left.builds
      BY <1>4, SpendsFacts DEF BuilderCrashes
    <2> QED BY <1>4, <2>1, BuilderCrashesStep DEF NamesStep
  <1>5. ASSUME NEW o \in Operators, RemoveBundle(o)
        PROVE  DirInv' /\ LeftType' /\ \A p \in Operators : NamesStep(p)
    <2>1. left' = left /\ left.builds <= left.builds /\ left.builds # 0
      BY <1>2, <1>5, RemoveBundleStep
    <2> QED BY <1>5, <2>1, RemoveBundleStep DEF NamesStep, LeftType
  <1>6. ASSUME (\E o \in Operators : Elsewhere(o)) \/ OtherCommit \/ Reading \/ UNCHANGED vars
        PROVE  DirInv' /\ LeftType' /\ \A p \in Operators : NamesStep(p)
    <2>1. UNCHANGED <<bundle, build>> /\ LeftType' /\ left'.builds <= left.builds
      BY <1>6, ElsewhereStep
    <2>2. DirInv'
      BY <2>1 DEF DirInv, DirectoryWhole, Underway
    <2>3. \A p \in Operators : Names(p)' = Names(p)
      BY <2>1 DEF Names
    <2> QED BY <2>1, <2>2, <2>3 DEF NamesStep
  <1> QED BY <1>1, <1>3, <1>4, <1>5, <1>6 DEF Next, Elsewhere, Reading

LEMMA InitDirectories == Init => DirInv /\ LeftType
  <1> SUFFICES ASSUME Init PROVE DirInv /\ LeftType
    OBVIOUS
  <1>1. LeftType
    BY BudgetsAssumption DEF Init, LeftType
  <1>2. ASSUME NEW o \in Operators PROVE DirectoryWhole(o) /\ Underway(o)
    <2>1. Underway(o)
      BY DEF Init, Underway
    <2>2. CASE bundle[o] = Empty
      <3>1. Manifest \notin DOMAIN bundle[o]
        BY <2>2 DEF Empty
      <3> QED BY <2>1, <3>1 DEF DirectoryWhole
    <2>3. ASSUME NEW r \in Runs, NEW s \in Sizes, bundle[o] = Bundle(r, s)
          PROVE  DirectoryWhole(o)
      <3>1. PICK m : m = Document(Manifest, r, s)
        OBVIOUS
      <3>2. m \in Manifests /\ Manifest \notin Partitions(m.size)
        BY <3>1, ManifestFacts
      <3>3. Added(Manifest, m, Attested(m), bundle[o])
        BY <2>3, <3>1, AddingFacts DEF Bundle
      <3>4. DOMAIN Attested(m) = Partitions(m.size)
        BY DEF Attested
      <3> QED BY <3>2, <3>3, <3>4 DEF Added, DirectoryWhole, Whole, Matches
    <2>4. bundle[o] \in {Empty} \cup {Bundle(r, s) : r \in Runs, s \in Sizes}
      BY DEF Init
    <2> QED BY <2>1, <2>2, <2>3, <2>4
  <1>3. DOMAIN bundle = Operators /\ DOMAIN build = Operators
    BY DEF Init
  <1> QED BY <1>1, <1>2, <1>3 DEF DirInv

-----------------------------------------------------------------------------
(***************************************************************************)
(* Publishers.                                                             *)
(***************************************************************************)

HasVerified == {"verified", "reread"}
HasFiles == {"loaded", "headed", "listed", "planned", "committed"}

\* What a publisher holds: a manifest and the files to publish with it, of
\* which those it does not upload are in the dataset already, and the same.
JobDocs(o) ==
    job[o] # None =>
        /\ job[o].manifest \in Manifests
        /\ job[o].at \in HasVerified =>
            "verified" \in DOMAIN job[o] /\ job[o].verified \in Manifests
        /\ job[o].at \in HasFiles =>
            /\ "files" \in DOMAIN job[o] /\ Manifest \in DOMAIN job[o].files
            /\ job[o].files[Manifest] = job[o].manifest
        /\ job[o].at \in HasUploads =>
            \A file \in DOMAIN job[o].files \ job[o].uploads :
                /\ file \in DOMAIN published[job[o].manifest.run]
                /\ published[job[o].manifest.run][file] = job[o].files[file]

RunsDocs ==
    /\ \A r \in Runs : Manifest \in DOMAIN published[r] => published[r][Manifest] \in Manifests
    /\ latest # None => latest \in Runs /\ Manifest \in DOMAIN published[latest]

DocsInv == RunsDocs /\ \A o \in Operators : JobDocs(o)

LEMMA RunOfManifest == ASSUME NEW m \in Manifests PROVE m.run \in Runs /\ m.size \in Sizes
  BY DEF Manifests

\* What others publish leaves a publisher what it knows.
LEMMA OtherDocs ==
  ASSUME NEW p \in Operators, JobDocs(p), job'[p] = job[p], FilesStay
  PROVE  JobDocs(p)'
  <1>1. CASE job[p] = None
    BY <1>1 DEF JobDocs
  <1>2. CASE job[p] # None /\ job[p].at \in HasUploads
    <2>1. job[p].manifest \in Manifests /\ job[p].manifest.run \in Runs
      BY <1>2, RunOfManifest DEF JobDocs
    <2>2. ASSUME NEW file \in DOMAIN job[p].files \ job[p].uploads
          PROVE  /\ file \in DOMAIN published'[job[p].manifest.run]
                 /\ published'[job[p].manifest.run][file] = job[p].files[file]
      BY <1>2, <2>1 DEF JobDocs, FilesStay
    <2> QED BY <1>2, <2>2 DEF JobDocs
  <1>3. CASE job[p] # None /\ job[p].at \notin HasUploads
    BY <1>3 DEF JobDocs
  <1> QED BY <1>1, <1>2, <1>3

LEMMA JobFrame ==
  ASSUME HubInv, NEW o \in Operators, Elsewhere(o), NEW p \in Operators, p # o
  PROVE  job'[p] = job[p]
  <1>1. DOMAIN job = Operators
    BY DEF HubInv, HubType
  <1>2. ASSUME NEW state, job' = [job EXCEPT ![o] = state] PROVE job'[p] = job[p]
    BY <1>1, <1>2
  <1>3. ASSUME NEW step, Goes(o, step) PROVE job'[p] = job[p]
    BY <1>1, <1>3 DEF Goes
  <1>4. ASSUME Ends(o) PROVE job'[p] = job[p]
    BY <1>1, <1>4 DEF Ends
  <1>5. CASE \E withLatest \in BOOLEAN : StartPublish(o, withLatest)
    BY <1>2, <1>5 DEF StartPublish
  <1>6. CASE VerifyBundle(o) \/ RereadManifest(o) \/ LoadFiles(o)
    BY <1>3, <1>4, <1>6 DEF VerifyBundle, RereadManifest, LoadFiles
  <1>7. CASE ReadHead(o) \/ ListRun(o) \/ ListLatest(o)
    BY <1>3, <1>4, <1>7 DEF ReadHead, ListRun, ListLatest
  <1>8. CASE Commit(o)
    BY <1>3, <1>4, <1>8 DEF Commit
  <1>9. CASE VerifyPublished(o) \/ PublisherCrashes(o)
    BY <1>4, <1>9 DEF VerifyPublished, PublisherCrashes
  <1> QED BY <1>5, <1>6, <1>7, <1>8, <1>9 DEF Elsewhere

\* What a publisher's next state is, for the steps of one that goes on.
Went(o, step) ==
    /\ DOMAIN job'[o] = DOMAIN step \cup DOMAIN job[o]
    /\ \A x \in DOMAIN step : job'[o][x] = step[x]
    /\ \A x \in DOMAIN job[o] \ DOMAIN step : job'[o][x] = job[o][x]

LEMMA WentFacts == ASSUME HubInv, NEW o \in Operators, NEW step, Goes(o, step) PROVE Went(o, step)
  BY GoesFacts DEF Went

LEMMA EndedFacts == ASSUME HubInv, NEW o \in Operators, Ends(o) PROVE job'[o] = None
  BY DEF HubInv, HubType, Ends

\* A publisher's steps but the commit, case by case.
Started(o) ==
    /\ Manifest \in DOMAIN bundle[o] /\ job'[o].at = "read"
    /\ job'[o].manifest = bundle[o][Manifest]

Verified(o) ==
    /\ job[o].at = "read" /\ job'[o].at = "verified" /\ job'[o].manifest = job[o].manifest
    /\ Whole(bundle[o]) /\ job'[o].verified = bundle[o][Manifest] /\ "verified" \in DOMAIN job'[o]

Reread(o) ==
    /\ job[o].at = "verified" /\ job'[o].at = "reread" /\ job'[o].manifest = job[o].manifest
    /\ "verified" \in DOMAIN job[o]
    /\ job'[o].verified = job[o].verified /\ "verified" \in DOMAIN job'[o]
    /\ Manifest \in DOMAIN bundle[o] /\ bundle[o][Manifest] = job[o].manifest

Loaded(o) ==
    /\ job[o].at = "reread" /\ job'[o].at = "loaded" /\ job'[o].manifest = job[o].manifest
    /\ Matches(bundle[o], job[o].verified) /\ "files" \in DOMAIN job'[o]
    /\ job'[o].files = Adding(Manifest, job[o].manifest, Attested(job[o].verified))

KeepsFiles(o) ==
    /\ job[o].at \in HasFiles /\ job'[o].manifest = job[o].manifest
    /\ "files" \in DOMAIN job'[o] /\ job'[o].files = job[o].files

Listed(o) ==
    /\ KeepsFiles(o) /\ job'[o].at = "listed"
    /\ Conflicts(job[o].files, published[job[o].manifest.run]) = {}
    /\ job'[o].uploads = DOMAIN job[o].files \ DOMAIN published[job[o].manifest.run]

Planned(o) ==
    /\ KeepsFiles(o) /\ job[o].at = "listed" /\ job'[o].at = "planned"
    /\ job'[o].uploads = job[o].uploads

OtherwiseOn(o) == KeepsFiles(o) /\ job'[o].at \in {"headed", "committed"}

LEMMA PublisherCases ==
  ASSUME HubInv, DocsInv, NEW o \in Operators, Elsewhere(o)
  PROVE  /\ \/ job'[o] = None
            \/ job[o] = None /\ Started(o)
            \/ /\ job[o] # None
               /\ \/ Verified(o) \/ Reread(o) \/ Loaded(o)
                  \/ Listed(o) \/ Planned(o) \/ OtherwiseOn(o)
         /\ UNCHANGED <<published, latest>> \/ Commit(o)
  <1>1. DOMAIN job = Operators
    BY DEF HubInv, HubType
  <1>2. job[o] # None => /\ {"at", "manifest"} \subseteq DOMAIN job[o]
                         /\ job[o].at \in HasVerified => "verified" \in DOMAIN job[o]
                         /\ job[o].at \in HasFiles => "files" \in DOMAIN job[o]
                         /\ job[o].at \in HasUploads => "uploads" \in DOMAIN job[o]
    BY DEF HubInv, KnowsTheHead, DocsInv, JobDocs
  <1>3. ASSUME NEW withLatest \in BOOLEAN, StartPublish(o, withLatest)
        PROVE  job[o] = None /\ Started(o) /\ UNCHANGED <<published, latest>>
    <2>1. PICK state : state = [at |-> "read", manifest |-> bundle[o][Manifest],
                                withLatest |-> withLatest]
      OBVIOUS
    <2>2. /\ job' = [job EXCEPT ![o] = state] /\ UNCHANGED hub
          /\ job[o] = None /\ Manifest \in DOMAIN bundle[o]
      BY <1>3, <2>1, Zenon DEF StartPublish
    <2>3. job'[o] = state
      BY <1>1, <2>2
    <2>4. state.at = "read" /\ state.manifest = bundle[o][Manifest]
      BY <2>1
    <2> QED BY <2>2, <2>3, <2>4 DEF Started, hub
  <1>4. CASE VerifyBundle(o)
    <2>1. UNCHANGED <<published, latest>> /\ job[o] # None /\ job[o].at = "read"
      BY <1>4 DEF VerifyBundle, OnlyJob, hub
    <2>2. PICK step : step = [at |-> "verified", verified |-> bundle[o][Manifest]]
      OBVIOUS
    <2>3. CASE Ends(o)
      BY <2>1, <2>3, EndedFacts
    <2>4. CASE Goes(o, step) /\ Whole(bundle[o])
      <3>1. /\ DOMAIN step = {"at", "verified"}
            /\ step.at = "verified" /\ step.verified = bundle[o][Manifest]
        BY <2>2
      <3>2. Went(o, step)
        BY <2>4, WentFacts
      <3>3. Verified(o)
        BY <1>2, <2>1, <2>4, <3>1, <3>2 DEF Went, Verified
      <3> QED BY <2>1, <3>3
    <2> QED BY <1>4, <2>2, <2>3, <2>4 DEF VerifyBundle
  <1>5. CASE RereadManifest(o)
    <2>1. UNCHANGED <<published, latest>> /\ job[o] # None /\ job[o].at = "verified"
      BY <1>5 DEF RereadManifest, OnlyJob, hub
    <2>2. PICK step : step = [at |-> "reread"]
      OBVIOUS
    <2>3. CASE Ends(o)
      BY <2>1, <2>3, EndedFacts
    <2>4. CASE Goes(o, step) /\ Manifest \in DOMAIN bundle[o] /\ bundle[o][Manifest] = job[o].manifest
      <3>1. DOMAIN step = {"at"} /\ step.at = "reread"
        BY <2>2
      <3>2. Went(o, step)
        BY <2>4, WentFacts
      <3>3. Reread(o)
        BY <1>2, <2>1, <2>4, <3>1, <3>2 DEF Went, Reread, HasVerified
      <3> QED BY <2>1, <3>3
    <2> QED BY <1>5, <2>2, <2>3, <2>4 DEF RereadManifest
  <1>6. CASE LoadFiles(o)
    <2>1. UNCHANGED <<published, latest>> /\ job[o] # None /\ job[o].at = "reread"
      BY <1>6 DEF LoadFiles, OnlyJob, hub
    <2>2. PICK files : files = Adding(Manifest, job[o].manifest, Attested(job[o].verified))
      OBVIOUS
    <2>3. PICK step : step = [at |-> "loaded", files |-> files]
      OBVIOUS
    <2>4. CASE Ends(o)
      BY <2>1, <2>4, EndedFacts
    <2>5. CASE Goes(o, step) /\ Matches(bundle[o], job[o].verified)
      <3>1. DOMAIN step = {"at", "files"} /\ step.at = "loaded" /\ step.files = files
        BY <2>3
      <3>2. Went(o, step)
        BY <2>5, WentFacts
      <3>3. /\ job'[o].at = "loaded" /\ job'[o].manifest = job[o].manifest
            /\ "files" \in DOMAIN job'[o] /\ job'[o].files = files
        BY <1>2, <2>1, <3>1, <3>2 DEF Went
      <3>4. Loaded(o)
        BY <2>1, <2>2, <2>5, <3>3 DEF Loaded
      <3> QED BY <2>1, <3>4
    <2> QED BY <1>6, <2>2, <2>3, <2>4, <2>5 DEF LoadFiles
  <1>7. CASE ReadHead(o)
    <2>1. UNCHANGED <<published, latest>> /\ job[o] # None /\ job[o].at = "loaded"
      BY <1>7 DEF ReadHead, OnlyJob, hub
    <2>2. PICK step : step = [at |-> "headed", head |-> head]
      OBVIOUS
    <2>3. DOMAIN step = {"at", "head"} /\ step.at = "headed"
      BY <2>2
    <2>4. Went(o, step)
      BY <1>7, <2>2, WentFacts DEF ReadHead
    <2>5. OtherwiseOn(o)
      BY <1>2, <2>1, <2>3, <2>4 DEF Went, OtherwiseOn, KeepsFiles, HasFiles
    <2> QED BY <2>1, <2>5
  <1>8. CASE ListRun(o)
    <2>1. UNCHANGED <<published, latest>> /\ job[o] # None /\ job[o].at = "headed"
      BY <1>8 DEF ListRun, OnlyJob, hub
    <2>2. PICK uploads : uploads = DOMAIN job[o].files \ DOMAIN published[job[o].manifest.run]
      OBVIOUS
    <2>3. PICK step : step = [at |-> "listed", uploads |-> uploads]
      OBVIOUS
    <2>4. CASE Ends(o)
      BY <2>1, <2>4, EndedFacts
    <2>5. CASE Goes(o, step) /\ Conflicts(job[o].files, published[job[o].manifest.run]) = {}
      <3>1. DOMAIN step = {"at", "uploads"} /\ step.at = "listed" /\ step.uploads = uploads
        BY <2>3
      <3>2. Went(o, step)
        BY <2>5, WentFacts
      <3>3. /\ KeepsFiles(o) /\ job'[o].at = "listed" /\ job'[o].uploads = uploads
        BY <1>2, <2>1, <3>1, <3>2 DEF Went, KeepsFiles, HasFiles
      <3>4. Listed(o)
        BY <2>2, <2>5, <3>3 DEF Listed
      <3> QED BY <2>1, <3>4
    <2> QED BY <1>8, <2>2, <2>3, <2>4, <2>5 DEF ListRun
  <1>9. CASE ListLatest(o)
    <2>1. UNCHANGED <<published, latest>> /\ job[o] # None /\ job[o].at = "listed"
      BY <1>9 DEF ListLatest, OnlyJob, hub
    <2>2. PICK step : step = [at |-> "planned",
                              pointer |-> job[o].withLatest /\ latest # job[o].manifest.run]
      OBVIOUS
    <2>3. DOMAIN step = {"at", "pointer"} /\ step.at = "planned"
      BY <2>2
    <2>4. Went(o, step)
      BY <1>9, <2>2, WentFacts DEF ListLatest
    <2>5. Planned(o)
      BY <1>2, <2>1, <2>3, <2>4 DEF Went, Planned, KeepsFiles, HasFiles, HasUploads
    <2> QED BY <2>1, <2>5
  <1>10. CASE Commit(o)
    <2>1. job[o] # None /\ job[o].at = "planned"
      BY <1>10 DEF Commit
    <2>2. PICK step : step = [at |-> "committed"]
      OBVIOUS
    <2>3. CASE Ends(o)
      BY <1>10, <2>3, EndedFacts
    <2>4. CASE Goes(o, step)
      <3>1. DOMAIN step = {"at"} /\ step.at = "committed"
        BY <2>2
      <3>2. Went(o, step)
        BY <2>4, WentFacts
      <3>3. OtherwiseOn(o)
        BY <1>2, <2>1, <3>1, <3>2 DEF Went, OtherwiseOn, KeepsFiles, HasFiles
      <3> QED BY <1>10, <2>1, <3>3
    <2> QED BY <1>10, <2>2, <2>3, <2>4 DEF Commit
  <1>11. CASE VerifyPublished(o) \/ PublisherCrashes(o)
    BY <1>11, EndedFacts DEF VerifyPublished, PublisherCrashes, OnlyJob, hub
  <1> QED BY <1>3, <1>4, <1>5, <1>6, <1>7, <1>8, <1>9, <1>10, <1>11 DEF Elsewhere

\* A commit that is accepted: the run's directory has all the files.
Committed(o) ==
    /\ job[o] # None /\ job[o].at = "planned"
    /\ \A file \in DOMAIN job[o].files :
        /\ file \in DOMAIN published'[job[o].manifest.run]
        /\ published'[job[o].manifest.run][file] = job[o].files[file]
    /\ \A r \in Runs : r # job[o].manifest.run => published'[r] = published[r]
    /\ latest' \in {latest, job[o].manifest.run}

LEMMA CommitFacts ==
  ASSUME HubInv, DocsInv, NEW o \in Operators, Commit(o)
  PROVE  UNCHANGED <<published, latest>> \/ Committed(o)
  <1>1. CASE UNCHANGED hub
    BY <1>1 DEF hub
  <1>2. CASE Apply(o) /\ head = job[o].head
    <2>1. PICK run, uploads, files :
            run = job[o].manifest.run /\ uploads = job[o].uploads /\ files = job[o].files
      OBVIOUS
    <2>2. PICK new : new = [file \in uploads |-> files[file]]
      OBVIOUS
    <2>3. /\ job[o] # None /\ job[o].at = "planned"
          /\ published' = [published EXCEPT ![run] = With(new, published[run])]
          /\ latest' \in {latest, run}
      BY <1>2, <2>1, <2>2 DEF Apply, Commit
    <2>4. run \in Runs /\ DOMAIN published = Runs
      BY <2>1, <2>3, RunOfManifest DEF DocsInv, JobDocs, HubInv, HubType
    <2>5. /\ published'[run] = With(new, published[run])
          /\ \A r \in Runs : r # run => published'[r] = published[r]
      BY <2>3, <2>4
    <2>6. \A file \in DOMAIN files \ uploads :
            file \in DOMAIN published[run] /\ published[run][file] = files[file]
      BY <2>1, <2>3 DEF DocsInv, JobDocs, HasUploads
    <2>7. ASSUME NEW file \in DOMAIN files
          PROVE  file \in DOMAIN published'[run] /\ published'[run][file] = files[file]
      <3>1. CASE file \in uploads
        BY <2>2, <2>5, <3>1 DEF With
      <3>2. CASE file \notin uploads
        BY <2>2, <2>5, <2>6, <3>2 DEF With
      <3> QED BY <3>1, <3>2
    <2> QED BY <2>1, <2>3, <2>5, <2>7 DEF Committed
  <1> QED BY <1>1, <1>2 DEF Commit

LEMMA RunsDocsStep ==
  ASSUME HubInv, DocsInv, NEW o \in Operators, Elsewhere(o)
  PROVE  RunsDocs'
  <1>1. CASE UNCHANGED <<published, latest>>
    BY <1>1 DEF DocsInv, RunsDocs
  <1>2. CASE Committed(o)
    <2>1. PICK run : run = job[o].manifest.run
      OBVIOUS
    <2>2. /\ job[o].manifest \in Manifests /\ run \in Runs
          /\ Manifest \in DOMAIN job[o].files /\ job[o].files[Manifest] = job[o].manifest
      BY <1>2, <2>1, RunOfManifest DEF Committed, DocsInv, JobDocs, HasFiles
    <2>3. /\ Manifest \in DOMAIN published'[run] /\ published'[run][Manifest] \in Manifests
          /\ \A r \in Runs : r # run => published'[r] = published[r]
          /\ latest' \in {latest, run}
      BY <1>2, <2>1, <2>2 DEF Committed
    <2>4. RunsDocs
      BY DEF DocsInv
    <2>5. \A r \in Runs : Manifest \in DOMAIN published'[r] => published'[r][Manifest] \in Manifests
      BY <2>3, <2>4 DEF RunsDocs
    <2>6. latest' # None => latest' \in Runs /\ Manifest \in DOMAIN published'[latest']
      BY <2>2, <2>3, <2>4 DEF RunsDocs
    <2> QED BY <2>5, <2>6 DEF RunsDocs
  <1> QED BY <1>1, <1>2, PublisherCases, CommitFacts

LEMMA OwnDocs ==
  ASSUME HubInv, DocsInv, DirInv, FilesStay, NEW o \in Operators, Elsewhere(o)
  PROVE  JobDocs(o)'
  <1>1. CASE job'[o] = None
    BY <1>1 DEF JobDocs
  <1>2. CASE job[o] = None /\ Started(o)
    BY <1>2 DEF JobDocs, Started, DirInv, DirectoryWhole, HasVerified, HasFiles, HasUploads
  <1> SUFFICES ASSUME job[o] # None,
                      \/ Verified(o) \/ Reread(o) \/ Loaded(o)
                      \/ Listed(o) \/ Planned(o) \/ OtherwiseOn(o)
               PROVE  JobDocs(o)'
    BY <1>1, <1>2, PublisherCases
  <1>3. JobDocs(o) /\ job[o].manifest \in Manifests
    BY DEF DocsInv, JobDocs
  <1>4. CASE Verified(o)
    BY <1>3, <1>4 DEF JobDocs, Verified, Whole, DirInv, DirectoryWhole,
                     HasVerified, HasFiles, HasUploads
  <1>5. CASE Reread(o)
    BY <1>3, <1>5 DEF JobDocs, Reread, HasVerified, HasFiles, HasUploads
  <1>6. CASE Loaded(o)
    <2>1. Added(Manifest, job[o].manifest, Attested(job[o].verified), job'[o].files)
      BY <1>6, AddingFacts DEF Loaded
    <2>2. Manifest \in DOMAIN job'[o].files /\ job'[o].files[Manifest] = job[o].manifest
      BY <2>1 DEF Added
    <2> QED BY <1>3, <1>6, <2>2 DEF JobDocs, Loaded, HasVerified, HasFiles, HasUploads
  <1>7. ASSUME KeepsFiles(o)
        PROVE  /\ job'[o].manifest \in Manifests
               /\ "files" \in DOMAIN job'[o] /\ Manifest \in DOMAIN job'[o].files
               /\ job'[o].files[Manifest] = job'[o].manifest
    BY <1>3, <1>7 DEF KeepsFiles, JobDocs
  <1>8. CASE Listed(o)
    <2>1. PICK run : run = job[o].manifest.run /\ run \in Runs
      BY <1>3, RunOfManifest
    <2>2. ASSUME NEW file \in DOMAIN job'[o].files \ job'[o].uploads
          PROVE  file \in DOMAIN published'[run] /\ published'[run][file] = job'[o].files[file]
      <3>1. file \in DOMAIN published[run] /\ file \in DOMAIN job[o].files
        BY <1>8, <2>1, <2>2 DEF Listed, KeepsFiles
      <3>2. published[run][file] = job[o].files[file]
        BY <1>8, <2>1, <3>1 DEF Listed, Conflicts
      <3> QED BY <1>8, <2>1, <3>1, <3>2 DEF Listed, KeepsFiles, FilesStay
    <2> QED BY <1>7, <1>8, <2>1, <2>2 DEF Listed, KeepsFiles, JobDocs, HasVerified
  <1>9. CASE Planned(o)
    <2>1. PICK run : run = job[o].manifest.run /\ run \in Runs
      BY <1>3, RunOfManifest
    <2>2. ASSUME NEW file \in DOMAIN job'[o].files \ job'[o].uploads
          PROVE  file \in DOMAIN published'[run] /\ published'[run][file] = job'[o].files[file]
      <3>1. /\ file \in DOMAIN published[run]
            /\ published[run][file] = job[o].files[file]
        BY <1>3, <1>9, <2>1, <2>2 DEF Planned, KeepsFiles, JobDocs, HasUploads
      <3> QED BY <1>9, <2>1, <3>1 DEF Planned, KeepsFiles, FilesStay
    <2> QED BY <1>7, <1>9, <2>1, <2>2 DEF Planned, KeepsFiles, JobDocs, HasVerified
  <1>10. CASE OtherwiseOn(o)
    BY <1>7, <1>10 DEF OtherwiseOn, JobDocs, HasVerified, HasUploads
  <1> QED BY <1>4, <1>5, <1>6, <1>8, <1>9, <1>10

DocumentsInv == HubInv /\ DirInv /\ LeftType /\ DocsInv

LEMMA NextDocuments ==
  ASSUME DocumentsInv, [Next]_vars
  PROVE  DocumentsInv'
  <1>1. HubInv' /\ FilesStay
    BY NextHub DEF DocumentsInv
  <1>2. DirInv' /\ LeftType'
    BY NextDirectories DEF DocumentsInv
  <1>3. ASSUME NEW o \in Operators, Elsewhere(o) PROVE DocsInv'
    <2>1. RunsDocs' /\ JobDocs(o)'
      BY <1>1, <1>3, RunsDocsStep, OwnDocs DEF DocumentsInv
    <2>2. ASSUME NEW p \in Operators, p # o PROVE JobDocs(p)'
      BY <1>1, <1>3, <2>2, JobFrame, OtherDocs DEF DocumentsInv, DocsInv
    <2> QED BY <2>1, <2>2 DEF DocsInv
  <1>4. ASSUME UNCHANGED <<job, published, latest>> PROVE DocsInv'
    <2>1. RunsDocs'
      BY <1>4 DEF DocumentsInv, DocsInv, RunsDocs
    <2>2. ASSUME NEW p \in Operators PROVE JobDocs(p)'
      BY <1>1, <1>4, OtherDocs DEF DocumentsInv, DocsInv
    <2> QED BY <2>1, <2>2 DEF DocsInv
  <1>5. ASSUME NEW o \in Operators,
               \/ \E r \in Runs, s \in Sizes : Build(o, r, s)
               \/ WriteFile(o) \/ BuilderCrashes(o) \/ RemoveBundle(o)
        PROVE  DocsInv'
    BY <1>4, <1>5 DEF Build, WriteFile, BuilderCrashes, RemoveBundle, hub
  <1>6. ASSUME Reading \/ OtherCommit \/ UNCHANGED vars PROVE DocsInv'
    BY <1>4, <1>6 DEF Reading, ReadManifest, ReadPartition, StartInstance, ReaderOnly, OtherCommit,
                      hub, vars
  <1>7. DocsInv'
    BY <1>3, <1>5, <1>6 DEF Next, Elsewhere, Reading
  <1> QED BY <1>1, <1>2, <1>7 DEF DocumentsInv

LEMMA InitDocuments == Init => DocumentsInv
  <1> SUFFICES ASSUME Init PROVE DocumentsInv
    OBVIOUS
  <1>1. HubInv
    BY DEF Init, HubInv, HubType, KnowsTheHead
  <1>2. DocsInv
    BY DEF Init, DocsInv, RunsDocs, JobDocs, Empty
  <1> QED BY <1>1, <1>2, InitDirectories DEF DocumentsInv

-----------------------------------------------------------------------------
(***************************************************************************)
(* Whole bundles.                                                          *)
(***************************************************************************)

\* Directories are built again at most twice. Three times deceive a publisher
\* whose directory holds its manifest, another one while it is verified, its
\* own while that is read again, and the other one for the files.
RebuiltTwiceAtMost == \A budget \in Budgets : budget.builds <= 2

\* A publisher that has verified another manifest than the one it read has
\* seen one build at least, and when it has found its own again all of them.
WholeJob(o) ==
    job[o] # None =>
        /\ job[o].at = "read" => Names(o) \subseteq {job[o].manifest} \/ left.builds <= 1
        /\ job[o].at = "verified" =>
            \/ job[o].verified = job[o].manifest \/ left.builds = 0
            \/ left.builds = 1 /\ job[o].manifest \notin Names(o)
        /\ job[o].at = "reread" =>
            \/ job[o].verified = job[o].manifest
            \/ /\ left.builds = 0
               /\ Manifest \in DOMAIN bundle[o] /\ bundle[o][Manifest] = job[o].manifest
        /\ job[o].at \in HasFiles => Whole(job[o].files)

WholeInv ==
    /\ left.builds <= 2
    /\ \A r \in Runs : published[r] = Empty \/ Whole(published[r])
    /\ \A o \in Operators : WholeJob(o)

\* Another's step, or one on the directory.
LEMMA WholeJobKept ==
  ASSUME NEW p \in Operators, WholeJob(p), job'[p] = job[p], left.builds \in Nat,
         left'.builds \in Nat, left.builds <= 2, NamesStep(p)
  PROVE  WholeJob(p)'
  <1> SUFFICES ASSUME job[p] # None
               PROVE  WholeJob(p)'
    BY DEF WholeJob
  <1>1. PICK before, after : /\ before = left.builds /\ after = left'.builds
                             /\ before \in Nat /\ after \in Nat /\ before <= 2 /\ after <= before
    BY DEF NamesStep
  <1>2. Names(p)' \subseteq Names(p) \/ after < before
    BY <1>1 DEF NamesStep
  <1>3. CASE job[p].at = "read"
    <2>1. Names(p)' \subseteq {job[p].manifest} \/ after <= 1
      BY <1>1, <1>2, <1>3 DEF WholeJob
    <2> QED BY <1>1, <1>3, <2>1 DEF WholeJob, HasFiles
  <1>4. CASE job[p].at = "verified"
    <2>1. \/ job[p].verified = job[p].manifest \/ after = 0
          \/ after = 1 /\ job[p].manifest \notin Names(p)'
      BY <1>1, <1>2, <1>4 DEF WholeJob
    <2> QED BY <1>1, <1>4, <2>1 DEF WholeJob, HasFiles
  <1>5. CASE job[p].at = "reread"
    <2>1. \/ job[p].verified = job[p].manifest
          \/ /\ before = 0
             /\ Manifest \in DOMAIN bundle[p] /\ bundle[p][Manifest] = job[p].manifest
      BY <1>1, <1>5 DEF WholeJob
    <2>2. before = 0 /\ Manifest \in DOMAIN bundle[p] => bundle'[p] = bundle[p] /\ after = 0
      BY <1>1 DEF NamesStep
    <2> QED BY <1>1, <1>5, <2>1, <2>2 DEF WholeJob, HasFiles
  <1>6. CASE job[p].at \notin {"read", "verified", "reread"}
    BY <1>6 DEF WholeJob
  <1> QED BY <1>3, <1>4, <1>5, <1>6

\* Two manifests whose files agree are one.
LEMMA OneManifest ==
  ASSUME NEW m \in Manifests, NEW other \in Manifests, NEW files,
         Matches(files, m), Matches(files, other)
  PROVE  m = other
  <1>1. Index \in Partitions(m.size) /\ Index \in Partitions(other.size)
    BY DEF Partitions
  <1>2. Attested(m)[Index] = Attested(other)[Index]
    BY <1>1 DEF Matches
  <1>3. Index \notin {Summary, Groups}
    BY DEF Index, Summary, Groups
  <1>4. /\ Attested(m)[Index] = [run |-> m.run, size |-> m.size]
        /\ Attested(other)[Index] = [run |-> other.run, size |-> other.size]
    BY <1>1, <1>3 DEF Attested, Document
  <1>5. m.run = other.run /\ m.size = other.size
    <2>1. [run |-> m.run, size |-> m.size] = [run |-> other.run, size |-> other.size]
      BY <1>2, <1>4
    <2>2. \A a, b, c, d : [run |-> a, size |-> b] = [run |-> c, size |-> d] => a = c /\ b = d
      OBVIOUS
    <2> QED BY <2>1, <2>2, Zenon
  <1> QED BY <1>5 DEF Manifests

LEMMA WholeOwnJob ==
  ASSUME DocumentsInv, WholeInv, NEW o \in Operators, Elsewhere(o)
  PROVE  WholeJob(o)'
  <1>1. CASE job'[o] = None
    BY <1>1 DEF WholeJob
  <1>2. /\ UNCHANGED <<bundle, build>> /\ left'.builds \in Nat /\ left.builds \in Nat
        /\ left'.builds <= left.builds /\ left.builds <= 2
    BY ElsewhereStep DEF DocumentsInv, LeftType, WholeInv
  <1>3. DirectoryWhole(o) /\ Underway(o) /\ JobDocs(o) /\ WholeJob(o) /\ Names(o)' = Names(o)
    BY <1>2 DEF DocumentsInv, DirInv, DocsInv, WholeInv, Names
  <1>4. Manifest \in DOMAIN bundle[o] => Names(o) = {bundle[o][Manifest]}
    BY <1>3 DEF DirectoryWhole, Underway, Names
  <1>5. CASE Started(o)
    <2>1. Names(o) = {job'[o].manifest}
      BY <1>4, <1>5 DEF Started
    <2> QED BY <1>3, <1>5, <2>1 DEF Started, WholeJob, HasFiles
  <1> SUFFICES ASSUME job[o] # None,
                      \/ Verified(o) \/ Reread(o) \/ Loaded(o)
                      \/ Listed(o) \/ Planned(o) \/ OtherwiseOn(o)
               PROVE  WholeJob(o)'
    BY <1>1, <1>5, PublisherCases DEF DocumentsInv
  <1>6. job[o].manifest \in Manifests
    BY <1>3 DEF JobDocs
  <1>7. CASE Verified(o)
    <2>1. /\ Manifest \in DOMAIN bundle[o] /\ Names(o) = {job'[o].verified}
          /\ job'[o].manifest = job[o].manifest
      BY <1>4, <1>7 DEF Verified, Whole
    <2>2. \/ job'[o].verified = job'[o].manifest
          \/ left.builds <= 1 /\ job'[o].manifest \notin Names(o)
      BY <1>3, <1>7, <2>1 DEF Verified, WholeJob
    <2>3. left.builds <= 1 => left'.builds = 0 \/ left'.builds = 1
      BY <1>2
    <2> QED BY <1>3, <1>7, <2>2, <2>3 DEF Verified, WholeJob, HasFiles
  <1>8. CASE Reread(o)
    <2>1. job[o].manifest \in Names(o)
      BY <1>4, <1>8 DEF Reread
    <2>2. job[o].verified = job[o].manifest \/ left.builds = 0
      BY <1>3, <1>8, <2>1 DEF Reread, WholeJob
    <2>3. left.builds = 0 => left'.builds = 0
      BY <1>2
    <2> QED BY <1>2, <1>8, <2>2, <2>3 DEF Reread, WholeJob, HasFiles
  <1>9. CASE Loaded(o)
    <2>1. PICK m, verified : m = job[o].manifest /\ verified = job[o].verified
      OBVIOUS
    <2>2. verified \in Manifests
      BY <1>3, <1>9, <2>1 DEF Loaded, JobDocs, HasVerified
    <2>3. verified = m
      <3>1. CASE Manifest \in DOMAIN bundle[o] /\ bundle[o][Manifest] = m
        <4>1. Matches(bundle[o], m)
          BY <1>3, <3>1 DEF DirectoryWhole, Whole
        <4> QED BY <1>6, <1>9, <2>1, <2>2, <4>1, OneManifest DEF Loaded
      <3> QED BY <1>3, <1>9, <2>1, <3>1 DEF Loaded, WholeJob
    <2>4. Added(Manifest, m, Attested(m), job'[o].files)
      BY <1>9, <2>1, <2>3, AddingFacts DEF Loaded
    <2>5. Manifest \notin Partitions(m.size)
      BY <1>6, <2>1, RunOfManifest, ManifestFacts
    <2>6. DOMAIN Attested(m) = Partitions(m.size)
      BY DEF Attested
    <2>7. Whole(job'[o].files)
      BY <2>4, <2>5, <2>6 DEF Added, Whole, Matches
    <2> QED BY <1>9, <2>7 DEF Loaded, WholeJob
  <1>10. ASSUME KeepsFiles(o), job'[o].at \notin {"read", "verified", "reread"}
         PROVE  WholeJob(o)'
    <2>1. Whole(job'[o].files)
      BY <1>3, <1>10 DEF KeepsFiles, WholeJob
    <2> QED BY <1>10, <2>1 DEF WholeJob
  <1> QED BY <1>7, <1>8, <1>9, <1>10 DEF Listed, Planned, OtherwiseOn

LEMMA WholeRuns ==
  ASSUME DocumentsInv, WholeInv, NEW o \in Operators, Elsewhere(o)
  PROVE  \A r \in Runs : published'[r] = Empty \/ Whole(published'[r])
  <1>1. CASE UNCHANGED <<published, latest>>
    BY <1>1 DEF WholeInv
  <1>2. CASE Committed(o)
    <2>1. PICK run, m, files : /\ m = job[o].manifest /\ run = m.run /\ files = job[o].files
      OBVIOUS
    <2>2. Whole(files) /\ Manifest \in DOMAIN files /\ files[Manifest] = m
      BY <1>2, <2>1 DEF Committed, DocumentsInv, DocsInv, JobDocs, WholeInv, WholeJob, HasFiles
    <2>3. \A file \in DOMAIN files :
            file \in DOMAIN published'[run] /\ published'[run][file] = files[file]
      BY <1>2, <2>1 DEF Committed
    <2>4. Whole(published'[run])
      BY <2>2, <2>3 DEF Whole, Matches
    <2>5. \A r \in Runs : r # run => published'[r] = published[r]
      BY <1>2, <2>1 DEF Committed
    <2> QED BY <2>4, <2>5 DEF WholeInv
  <1> QED BY <1>1, <1>2, PublisherCases, CommitFacts DEF DocumentsInv

LEMMA NextWhole ==
  ASSUME DocumentsInv, WholeInv, [Next]_vars
  PROVE  WholeInv'
  <1>1. /\ LeftType' /\ LeftType /\ left'.builds \in Nat /\ left.builds \in Nat
        /\ \A p \in Operators : NamesStep(p)
    BY NextDirectories DEF DocumentsInv, LeftType
  <1>2. left'.builds <= 2
    <2>1. CASE \E p \in Operators : TRUE
      BY <1>1, <2>1 DEF WholeInv, NamesStep
    <2>2. CASE Operators = {}
      <3>1. OtherCommit \/ Reading \/ UNCHANGED vars
        BY <2>2 DEF Next, Reading
      <3>2. left'.builds <= left.builds
        BY <3>1, ElsewhereStep DEF DocumentsInv
      <3> QED BY <1>1, <3>2 DEF WholeInv
    <2> QED BY <2>1, <2>2
  <1>3. ASSUME NEW o \in Operators, Elsewhere(o) PROVE WholeInv'
    <2>1. ASSUME NEW p \in Operators, p # o PROVE WholeJob(p)'
      BY <1>1, <1>3, <2>1, JobFrame, WholeJobKept DEF DocumentsInv, WholeInv
    <2> QED BY <1>2, <1>3, <2>1, WholeOwnJob, WholeRuns DEF WholeInv
  <1>4. ASSUME UNCHANGED <<job, published>> PROVE WholeInv'
    <2>1. ASSUME NEW p \in Operators PROVE WholeJob(p)'
      BY <1>1, <1>4, WholeJobKept DEF WholeInv
    <2> QED BY <1>2, <1>4, <2>1 DEF WholeInv
  <1>5. ASSUME NEW o \in Operators,
               \/ \E r \in Runs, s \in Sizes : Build(o, r, s)
               \/ WriteFile(o) \/ BuilderCrashes(o) \/ RemoveBundle(o)
        PROVE  WholeInv'
    BY <1>4, <1>5 DEF Build, WriteFile, BuilderCrashes, RemoveBundle, hub
  <1>6. ASSUME Reading \/ OtherCommit \/ UNCHANGED vars PROVE WholeInv'
    BY <1>4, <1>6 DEF Reading, ReadManifest, ReadPartition, StartInstance, ReaderOnly, OtherCommit,
                      hub, vars
  <1> QED BY <1>3, <1>5, <1>6 DEF Next, Elsewhere, Reading

LEMMA InitWhole == RebuiltTwiceAtMost /\ Init => WholeInv
  <1> SUFFICES ASSUME RebuiltTwiceAtMost, Init PROVE WholeInv
    OBVIOUS
  <1>1. left.builds <= 2
    BY DEF RebuiltTwiceAtMost, Init
  <1> QED BY <1>1 DEF Init, WholeInv, WholeJob

\* A directory with a manifest is a whole bundle, and so is a published run
\* from its first commit on, whatever crashes, fails or is published besides,
\* when directories are built again at most twice.
THEOREM BundlesStayWhole == RebuiltTwiceAtMost /\ Spec => []BundlesAreWhole
  <1>1. RebuiltTwiceAtMost /\ Init => DocumentsInv /\ WholeInv
    BY InitDocuments, InitWhole
  <1>2. DocumentsInv /\ WholeInv /\ [Next]_vars => (DocumentsInv /\ WholeInv)'
    BY NextDocuments, NextWhole
  <1>3. DocumentsInv /\ WholeInv => BundlesAreWhole
    <2> SUFFICES ASSUME DocumentsInv, WholeInv PROVE BundlesAreWhole
      OBVIOUS
    <2>1. latest # None => published[latest] # Empty
      BY DEF DocumentsInv, DocsInv, RunsDocs, Empty
    <2> QED BY <2>1 DEF DocumentsInv, DirInv, DirectoryWhole, WholeInv, BundlesAreWhole
  <1> QED BY <1>1, <1>2, <1>3, PTL DEF Spec

-----------------------------------------------------------------------------
(***************************************************************************)
(* The dashboard.                                                          *)
(***************************************************************************)

\* A reader has a manifest of some bundle, and has read of its files what the
\* manifest attests.
ReadAgree ==
    DOMAIN reader.docs # {} =>
        /\ reader.manifest \in Manifests
        /\ \A file \in DOMAIN reader.docs :
            /\ file \in Partitions(reader.manifest.size)
            /\ Has(file) => reader.docs[file] = Attested(reader.manifest)[file]

ReaderInv ==
    /\ DOMAIN reader = {"from", "manifest", "docs"}
    /\ reader.from \in Operators \cup Runs
    /\ reader.manifest \in {None, Failed} \cup Manifests
    /\ reader.manifest = None => DOMAIN reader.docs = {}
    /\ ReadAgree

LEMMA StoreManifest ==
  ASSUME DocumentsInv, ReaderInv, Manifest \in DOMAIN Store
  PROVE  Store[Manifest] \in Manifests
  BY DEF DocumentsInv, DirInv, DirectoryWhole, DocsInv, RunsDocs, ReaderInv, Store

LEMMA NewReaderStep ==
  ASSUME NEW store \in Operators \cup Runs, reader' = NewReader(store)
  PROVE  ReaderInv'
  <1>1. /\ DOMAIN reader' = {"from", "manifest", "docs"} /\ reader'.from = store
        /\ reader'.manifest = None /\ DOMAIN reader'.docs = {}
    BY DEF NewReader, Empty
  <1> QED BY <1>1 DEF ReaderInv, ReadAgree

LEMMA ReadPartitionStep ==
  ASSUME ReaderInv, NEW file, ReadPartition(file)
  PROVE  ReaderInv'
  <1>1. /\ reader.manifest \in Manifests /\ file \in Partitions(reader.manifest.size)
        /\ file \notin DOMAIN reader.docs /\ reader.manifest # None
    BY DEF ReadPartition, ReaderInv
  <1>2. PICK document : /\ document \in {Checked(file), Failed}
                        /\ reader' = [reader EXCEPT !.docs = Adding(file, document, @)]
    BY DEF ReadPartition
  <1>3. document = Failed \/ document = Attested(reader.manifest)[file]
    BY <1>2 DEF Checked
  <1>4. /\ DOMAIN reader' = {"from", "manifest", "docs"}
        /\ reader'.from = reader.from /\ reader'.manifest = reader.manifest
        /\ reader'.docs = Adding(file, document, reader.docs)
    BY <1>2 DEF ReaderInv
  <1>5. Added(file, document, reader.docs, reader'.docs)
    BY <1>4, AddingFacts
  <1>6. ASSUME NEW other \in DOMAIN reader'.docs
        PROVE  /\ other \in Partitions(reader.manifest.size)
               /\ reader'.docs[other] # Failed =>
                    reader'.docs[other] = Attested(reader.manifest)[other]
    <2>1. CASE other = file
      BY <1>1, <1>3, <1>5, <2>1 DEF Added
    <2>2. CASE other # file
      BY <1>5, <1>6, <2>2 DEF Added, ReaderInv, ReadAgree, Has
    <2> QED BY <2>1, <2>2
  <1>7. ReadAgree'
    BY <1>1, <1>4, <1>6 DEF ReadAgree, Has
  <1> QED BY <1>1, <1>4, <1>7 DEF ReaderInv

LEMMA NextReader ==
  ASSUME DocumentsInv, ReaderInv, [Next]_vars
  PROVE  ReaderInv'
  <1>1. CASE ReadManifest
    <2>1. PICK manifest : /\ manifest = Failed \/ manifest \in Manifests
                          /\ reader' = [reader EXCEPT !.manifest = manifest]
      BY <1>1, StoreManifest DEF ReadManifest
    <2>2. reader.manifest = None /\ DOMAIN reader.docs = {}
      BY <1>1 DEF ReadManifest, ReaderInv
    <2>3. /\ DOMAIN reader' = {"from", "manifest", "docs"}
          /\ reader'.from = reader.from /\ reader'.manifest = manifest
          /\ reader'.docs = reader.docs
      BY <2>1 DEF ReaderInv
    <2> QED BY <2>1, <2>2, <2>3 DEF ReaderInv, ReadAgree
  <1>2. ASSUME NEW store \in Operators \cup Runs, StartInstance(store) PROVE ReaderInv'
    BY <1>2, NewReaderStep DEF StartInstance
  <1>3. ASSUME UNCHANGED reader PROVE ReaderInv'
    BY <1>3 DEF ReaderInv, ReadAgree, Has
  <1>4. ASSUME NEW o \in Operators, Elsewhere(o) PROVE UNCHANGED reader
    <2>1. CASE \E withLatest \in BOOLEAN : StartPublish(o, withLatest)
      BY <2>1 DEF StartPublish, Kept
    <2>2. CASE \/ VerifyBundle(o) \/ RereadManifest(o) \/ LoadFiles(o)
               \/ ReadHead(o) \/ ListRun(o) \/ ListLatest(o) \/ VerifyPublished(o)
      BY <2>2 DEF VerifyBundle, RereadManifest, LoadFiles, ReadHead, ListRun, ListLatest,
                  VerifyPublished, OnlyJob, Kept
    <2>3. CASE Commit(o) \/ PublisherCrashes(o)
      BY <2>3 DEF Commit, PublisherCrashes, Kept
    <2> QED BY <1>4, <2>1, <2>2, <2>3 DEF Elsewhere
  <1>5. ASSUME NEW o \in Operators,
               \/ \E r \in Runs, s \in Sizes : Build(o, r, s)
               \/ WriteFile(o) \/ BuilderCrashes(o) \/ RemoveBundle(o)
        PROVE  UNCHANGED reader
    BY <1>5 DEF Build, WriteFile, BuilderCrashes, RemoveBundle
  <1>6. ASSUME OtherCommit \/ UNCHANGED vars PROVE UNCHANGED reader
    BY <1>6 DEF OtherCommit, vars
  <1> QED BY <1>1, <1>2, <1>3, <1>4, <1>5, <1>6, ReadPartitionStep DEF Next, Elsewhere

LEMMA InitReader == Init => ReaderInv
  BY NewReaderStep DEF Init, ReaderInv, ReadAgree, NewReader, Empty

LEMMA SpecReader == Spec => [](DocumentsInv /\ ReaderInv)
  <1>1. Init => DocumentsInv /\ ReaderInv
    BY InitDocuments, InitReader
  <1>2. DocumentsInv /\ ReaderInv /\ [Next]_vars => (DocumentsInv /\ ReaderInv)'
    BY NextDocuments, NextReader
  <1> QED BY <1>1, <1>2, PTL DEF Spec

\* What a reader serves is of one edition of one run, whatever is built or
\* published between its reads.
THEOREM ServedDocumentsAgreeAlways == Spec => []ServedDocumentsAgree
  <1>1. ReaderInv => ServedDocumentsAgree
    <2> SUFFICES ASSUME ReaderInv
                 PROVE  \E r \in Runs, s \in Sizes : \A file \in DOMAIN reader.docs :
                            Has(file) => reader.docs[file] = Document(file, r, s)
      BY DEF ServedDocumentsAgree
    <2>1. CASE DOMAIN reader.docs = {}
      BY <2>1, RunsAssumption, SizesAssumption
    <2>2. CASE DOMAIN reader.docs # {}
      <3>1. PICK m \in Manifests : m = reader.manifest
        BY <2>2 DEF ReaderInv, ReadAgree
      <3>2. m.run \in Runs /\ m.size \in Sizes
        BY RunOfManifest
      <3>3. ASSUME NEW file \in DOMAIN reader.docs, Has(file)
            PROVE  reader.docs[file] = Document(file, m.run, m.size)
        <4>1. /\ file \in Partitions(m.size) /\ reader.docs[file] = Attested(m)[file]
          BY <2>2, <3>1, <3>3 DEF ReaderInv, ReadAgree
        <4> QED BY <4>1 DEF Attested
      <3> QED BY <3>2, <3>3
    <2> QED BY <2>1, <2>2
  <1> QED BY <1>1, SpecReader, PTL

\* Pages of any size cover the facts.
LEMMA FactsAreOnPages ==
  ASSUME NEW s \in Sizes, NEW f \in 1..Facts
  PROVE  \E n \in 1..PageCount(s) : f \in Rows(s, n)
  <1>1. s \in Nat \ {0} /\ Facts \in Nat /\ f \in Nat /\ 1 <= f /\ f <= Facts
    BY SizesAssumption, FactsAssumption
  <1>2. PICK q \in Nat : q = (f - 1) \div s /\ q * s <= f - 1 /\ f - 1 < (q + 1) * s
    <2>1. PICK a \in Nat : a = f - 1
      BY <1>1
    <2>2. a \div s \in Nat /\ (a \div s) * s <= a /\ a < ((a \div s) + 1) * s
      BY <1>1
    <2> QED BY <2>1, <2>2
  <1>3. q + 1 \in 1..PageCount(s)
    <2>1. PICK a \in Nat, b \in Nat : a = f - 1 /\ b = Facts - 1 /\ a <= b
      BY <1>1
    <2>2. a \div s <= b \div s
      BY <1>1, <2>1
    <2>3. (b + s) \div s = (b \div s) + 1 /\ b \div s \in Nat
      BY <1>1, <2>1
    <2>4. Facts + s - 1 = b + s
      BY <1>1, <2>1
    <2>5. PageCount(s) = (b \div s) + 1
      BY <2>3, <2>4 DEF PageCount
    <2>6. q <= b \div s
      BY <1>2, <2>1, <2>2
    <2> QED BY <1>2, <2>3, <2>5, <2>6
  <1>4. f \in Rows(s, q + 1)
    <2>1. ((q + 1) - 1) = q
      OBVIOUS
    <2>2. q * s < f /\ f <= (q + 1) * s
      <3>1. PICK low \in Int, high \in Int : low = q * s /\ high = (q + 1) * s
        BY <1>1
      <3> QED BY <1>1, <1>2, <3>1
    <2> QED BY <2>1, <2>2 DEF Rows
  <1> QED BY <1>3, <1>4

\* A query answered through the index gives every fact of its kind and no
\* other, for any number of facts and any page size.
THEOREM EveryFactIsFound == Spec => []QueriesFindEveryFact
  <1>1. ReaderInv => QueriesFindEveryFact
    <2> SUFFICES ASSUME ReaderInv, NEW kind \in {Kind[f] : f \in 1..Facts}, CanAnswer(kind)
                 PROVE  Found(kind) = {f \in 1..Facts : Kind[f] = kind}
      BY DEF QueriesFindEveryFact
    <2> DEFINE facts == {f \in 1..Facts : Kind[f] = kind}
    <2>1. Has(Index)
      BY DEF CanAnswer
    <2>2. PICK m \in Manifests : m = reader.manifest
      BY <2>1 DEF ReaderInv, ReadAgree, Has
    <2>3. PICK s \in Sizes : s = m.size
      BY RunOfManifest
    <2>4. reader.docs[Index].size = s
      <3>1. Index \in Partitions(s) /\ Index \notin {Summary, Groups}
        BY DEF Partitions, Index, Summary, Groups
      <3>2. reader.docs[Index] = Document(Index, m.run, s)
        BY <2>1, <2>2, <2>3, <3>1 DEF ReaderInv, ReadAgree, Has, Attested
      <3> QED BY <3>1, <3>2 DEF Document
    <2>5. CandidatePages(kind) = PagesOf(s, facts)
      BY <2>4 DEF CandidatePages
    <2>6. ASSUME NEW n \in CandidatePages(kind) PROVE RowsRead(n) = Rows(s, n)
      <3>1. Has(Page(n)) /\ n \in 1..PageCount(s)
        BY <2>5, <2>6 DEF CanAnswer, PagesOf
      <3>2. Page(n) \in Partitions(s) /\ Page(n) \notin {Summary, Groups}
        BY <3>1 DEF Partitions, Page, Summary, Groups
      <3>3. reader.docs[Page(n)] = Document(Page(n), m.run, s)
        BY <2>2, <2>3, <3>1, <3>2 DEF ReaderInv, ReadAgree, Has, Attested
      <3>4. reader.docs[Page(n)].size = s
        BY <3>2, <3>3 DEF Document
      <3> QED BY <3>4 DEF RowsRead
    <2>7. ASSUME NEW f \in Found(kind) PROVE f \in facts
      <3>1. PICK n \in CandidatePages(kind) : f \in RowsRead(n) /\ Kind[f] = kind
        BY <2>7 DEF Found
      <3> QED BY <2>6, <3>1 DEF Rows
    <2>8. ASSUME NEW f \in facts PROVE f \in Found(kind)
      <3>1. PICK n \in 1..PageCount(s) : f \in Rows(s, n)
        BY FactsAreOnPages
      <3>2. n \in CandidatePages(kind)
        BY <2>5, <3>1 DEF PagesOf
      <3> QED BY <2>6, <3>1, <3>2 DEF Found
    <2> QED BY <2>7, <2>8
  <1> QED BY <1>1, SpecReader, PTL

=============================================================================
