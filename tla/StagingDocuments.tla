-------------------------- MODULE StagingDocuments --------------------------
(***************************************************************************)
(* The documents of a staging run and what the dashboard accepts of them   *)
(* (staging-contract.ts): run manifest, progress, calibration progress and *)
(* events, each checked alone and then with the others.                    *)
(*                                                                         *)
(* A document has a schema version, None if it states none, and a schema   *)
(* name. It has the `fields` of one version, every field in its own form   *)
(* if it is `sound`. Its attempt is what the documents of one run have in  *)
(* common from its start to its end: the run, its candidate and release,   *)
(* country, operation, pipeline, kind and start.                           *)
(***************************************************************************)
EXTENDS Naturals, FiniteSets, Sequences, SequencesExt, Functions

CONSTANTS None, Refused

Structured(doc) == doc # None /\ doc.version # None /\ doc.version >= 2

\* Version 1 has no schema name, later versions that of the kind of document.
VersionAccepted(doc, kind) ==
    \/ doc.version = 1 /\ doc.name = None
    \/ doc.version \in {2, 3} /\ doc.name = kind

\* The fields of its version, each in its form: no field is added or missing.
FieldsAccepted(doc) == doc.sound /\ doc.fields = doc.version

\* One repository for a delivery that uploads, none for one that does not,
\* and nothing was attempted with staging disabled.
DeliveryAccepted(delivery, run) ==
    /\ delivery.successes <= delivery.attempts
    /\ IF delivery.enabled
       THEN /\ delivery.mode # "disabled" /\ delivery.reason = None
            /\ delivery.run = run
            /\ delivery.mode = "local_and_remote" => delivery.repository # None
            /\ delivery.mode = "local_only" => delivery.repository = None
       ELSE /\ delivery.mode = "disabled" /\ delivery.reason # None
            /\ delivery.run = None /\ delivery.repository = None
            /\ delivery.attempts = 0 /\ delivery.successes = 0

\* A failure has a class from version 3 on.
FailureAccepted(failure, version) == failure = None \/ failure.fields = version

BlockAccepted(block) == block = None \/ block.count >= 1

Statuses(version) ==
    {"running", "completed", "failed"} \cup (IF version = 3 THEN {"blocked"} ELSE {})

\* parseRunEnvelope: what manifest and progress say of the run.
EnvelopeAccepted(doc) ==
    /\ FieldsAccepted(doc)
    /\ doc.attempt.nonRelease = (doc.attempt.release = None)
    /\ doc.status \in Statuses(doc.version)
    /\ DeliveryAccepted(doc.delivery, doc.attempt.run)
    /\ FailureAccepted(doc.failure, doc.version)
    /\ (doc.status = "failed") = (doc.failure # None)
    /\ doc.version = 3 => /\ BlockAccepted(doc.block)
                          /\ (doc.status = "blocked") = (doc.block # None)

ParseProgress(doc) ==
    CASE doc = None -> None
      [] doc # None /\ VersionAccepted(doc, "progress")
            /\ IF doc.version = 1 THEN doc.attempt.run # None ELSE EnvelopeAccepted(doc) -> doc
      [] OTHER -> Refused

\* The artifacts of a manifest: reviewed JSON, each under the path of its
\* name (that is part of its form), no name twice.
ArtifactsAccepted(artifacts) ==
    /\ \A i \in DOMAIN artifacts : artifacts[i].sound
    /\ \A i, j \in DOMAIN artifacts : artifacts[i].name = artifacts[j].name => i = j

ParseManifest(doc) ==
    CASE doc = None -> None
      [] doc # None /\ VersionAccepted(doc, "manifest")
            /\ IF doc.version = 1 THEN doc.attempt.run # None
               ELSE EnvelopeAccepted(doc) /\ ArtifactsAccepted(doc.artifacts) -> doc
      [] OTHER -> Refused

ParseCalibration(doc) ==
    CASE doc = None -> None
      [] doc # None /\ VersionAccepted(doc, "calibration")
            /\ (doc.version = 1 \/ FieldsAccepted(doc)) -> doc
      [] OTHER -> Refused

\* An event may also be of version 1 by stating no version at all.
EventAccepted(event) ==
    \/ event.version = None /\ event.name = None
    \/ VersionAccepted(event, "event") /\ (event.version = 1 \/ FieldsAccepted(event))

\* The structured events are numbered from 1 without a gap.
ParseEvents(events) ==
    LET structured == SelectSeq(events, Structured)
    IN  IF /\ \A i \in DOMAIN events : EventAccepted(events[i])
           /\ \A i \in DOMAIN structured : structured[i].sequence = i
        THEN events ELSE Refused

-----------------------------------------------------------------------------
(***************************************************************************)
(* The accepted documents of one run together.                             *)
(***************************************************************************)

Present(docs) ==
    ({docs.progress, docs.manifest, docs.calibration} \ {None}) \cup Range(docs.events)

VersionsOf(docs) == {IF doc.version = None THEN 1 ELSE doc.version : doc \in Present(docs)}

\* The manifest's paths are those of the run's directory.
PathsAccepted(manifest, run) ==
    manifest.paths.run = run /\ manifest.paths.calibration \in {None, run}

\* The stable fields: progress and manifest are of one attempt.
OneAttempt(progress, manifest) == progress.attempt = manifest.attempt

Identity(docs) == IF docs.manifest # None THEN docs.manifest ELSE docs.progress

\* validateStagingRunConsistency: documents of one version, and from version 2
\* on of the requested run, of one attempt and of one candidate.
Consistent(run, docs) ==
    \/ Present(docs) = {}
    \/ VersionsOf(docs) = {1}
    \/ /\ Cardinality(VersionsOf(docs)) = 1
       /\ 1 \notin VersionsOf(docs)
       /\ \A doc \in Present(docs) : doc.attempt.run = run
       /\ docs.manifest # None => PathsAccepted(docs.manifest, run)
       /\ docs.progress # None /\ docs.manifest # None =>
             OneAttempt(docs.progress, docs.manifest)
       /\ docs.calibration # None /\ Identity(docs) # None =>
             docs.calibration.attempt.candidate = Identity(docs).attempt.candidate

=============================================================================
