----------------------------- MODULE TreeCatalog -----------------------------
(***************************************************************************)
(* What publishing promises the readers of calibration trees, without      *)
(* saying how publishers read, audit, upload and write: files that are     *)
(* written once, a list of builds that only grows, one build for each      *)
(* source and every one of them stored, and for each country a latest      *)
(* release among them.                                                     *)
(***************************************************************************)
EXTENDS CalibrationTreeManifest

VARIABLES
    listed,     \* the entries readers can select
    latest,     \* country -> the build of its latest release, or None
    blobs,      \* <<build, part>> -> stored content, or None
    lost        \* the files ever lost from the store

vars == <<listed, latest, blobs, lost>>

Init ==
    /\ listed = {}
    /\ latest = [c \in Countries |-> None]
    /\ blobs = [f \in Files |-> None]
    /\ lost = {}

StoreFile ==
    /\ \A f \in Files : blobs[f] # None => blobs'[f] = blobs[f]
    /\ UNCHANGED <<listed, latest, lost>>

LoseFile(file) ==
    /\ blobs' = [blobs EXCEPT ![file] = None]
    /\ lost' = lost \cup {file}
    /\ UNCHANGED <<listed, latest>>

\* An entry whose files are stored is listed, if its source has no other,
\* and a release may become the latest of its country.
List(entry, makeLatest) ==
    /\ \A part \in Parts :
        \/ blobs[<<Build(entry), part>>] = Content(entry, part)
        \/ <<Build(entry), part>> \in lost
    /\ \A e \in listed : e.source = entry.source => e = entry
    /\ listed' = listed \cup {entry}
    /\ IF makeLatest
       THEN /\ entry.source \in Releases
            /\ latest' = [latest EXCEPT ![CountryOf[entry.source]] = Build(entry)]
       ELSE UNCHANGED latest
    /\ UNCHANGED <<blobs, lost>>

Next ==
    \/ StoreFile
    \/ \E file \in Files : LoseFile(file)
    \/ \E entry \in Entries, makeLatest \in BOOLEAN : List(entry, makeLatest)

Spec == Init /\ [][Next]_vars
=============================================================================
