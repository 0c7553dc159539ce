--------------------------- MODULE ReleaseRecord ----------------------------
(***************************************************************************)
(* releases.json, the record of which builds of each release a dataset     *)
(* repository has published and which is current                           *)
(* (calibration-tree/src/release-record.ts), and what the webhook says of  *)
(* a change of it (lib/microcosm/release-record-alerts.ts).                *)
(*                                                                         *)
(* A record without roles and publication times, which decide nothing      *)
(* here: the default release, and each listed release's current build and  *)
(* its builds, each marked withdrawn or not.                               *)
(***************************************************************************)
EXTENDS FiniteSets

CONSTANTS
    Releases,   \* release names
    Builds,     \* build names
    None        \* null

Listed(S, T) == UNION {[D -> T] : D \in SUBSET S}

\* parseReleasesRecord: a current build is listed and not withdrawn, and the
\* default release is listed.
IsRelease(entry) ==
    entry.current # None =>
        entry.current \in DOMAIN entry.builds /\ ~entry.builds[entry.current]

ReleaseEntry ==
    {entry \in [current : Builds \cup {None}, builds : Listed(Builds, BOOLEAN)] :
        IsRelease(entry)}

Record ==
    {record \in [default : Releases \cup {None}, releases : Listed(Releases, ReleaseEntry)] :
        record.default \in DOMAIN record.releases \cup {None}}

\* What a name stands for in a record that does not list it.
Absent == [current |-> None, builds |-> <<>>]
EntryOf(record, release) ==
    IF release \in DOMAIN record.releases THEN record.releases[release] ELSE Absent

\* recordedBuilds: every listed build, as <<release, build>>.
RecordedBuilds(record) ==
    {n \in Releases \X Builds : n[2] \in DOMAIN EntryOf(record, n[1]).builds}

-----------------------------------------------------------------------------

\* What the release writer may do, the only program that changes the record:
\* listed builds stay listed, and a release is new with its first build.
KeepsListed(before, after) ==
    /\ DOMAIN before.releases \subseteq DOMAIN after.releases
    /\ RecordedBuilds(before) \subseteq RecordedBuilds(after)
    /\ \A r \in DOMAIN after.releases \ DOMAIN before.releases :
          DOMAIN after.releases[r].builds # {}

NewBuilds(before, after) == RecordedBuilds(after) \ RecordedBuilds(before)

Published(before, after) ==
    {[kind |-> "published", release |-> n[1], build |-> n[2],
      current |-> EntryOf(after, n[1]).current] : n \in NewBuilds(before, after)}

\* A fault the runs must notice: losing the current build is not announced.
ChangesToABuildOnly(before, after) ==
    {[kind |-> "current_changed", release |-> r,
      from |-> EntryOf(before, r).current, current |-> EntryOf(after, r).current] :
        r \in {n \in DOMAIN after.releases :
                /\ EntryOf(after, n).current \notin {None, EntryOf(before, n).current}
                /\ <<n, EntryOf(after, n).current>> \notin NewBuilds(before, after)}}

\* A new build that became current is announced once, as published.
CurrentChanges(before, after) ==
    {[kind |-> "current_changed", release |-> r,
      from |-> EntryOf(before, r).current, current |-> EntryOf(after, r).current] :
        r \in {n \in DOMAIN after.releases :
                /\ EntryOf(after, n).current # EntryOf(before, n).current
                /\ <<n, EntryOf(after, n).current>> \notin NewBuilds(before, after)}}

Marked(record, wanted) ==
    {n \in RecordedBuilds(record) : EntryOf(record, n[1]).builds[n[2]] = wanted}

Withdrawals(before, after) ==
    {[kind |-> "withdrawn", release |-> n[1], build |-> n[2]] :
        n \in Marked(before, FALSE) \cap Marked(after, TRUE)}

\* releaseRecordAlerts: the messages for one update of a repository's main.
ReleaseRecordAlerts(before, after) ==
    IF after = None THEN {}
    ELSE IF before = None
    THEN {[kind |-> "record_created",
           builds |-> Cardinality(RecordedBuilds(after)),
           current |-> [r \in DOMAIN after.releases |-> after.releases[r].current]]}
    ELSE Published(before, after) \cup CurrentChanges(before, after)
         \cup Withdrawals(before, after)

\* unannouncedRecordChanges: the changes that are only logged.
UnannouncedRecordChanges(before, after) ==
    IF before = None THEN {}
    ELSE IF after = None THEN {[kind |-> "removed"]}
    ELSE {[kind |-> "default_changed", to |-> after.default] :
            d \in {before.default} \ {after.default}}
         \cup {[kind |-> "unwithdrawn", release |-> n[1], build |-> n[2]] :
                n \in Marked(before, TRUE) \cap Marked(after, FALSE)}

-----------------------------------------------------------------------------

\* What a reader of the messages (as releaseRecordAlertPayload words them) and
\* of the log knows of a record after an update, from the record before it.
Told(before, messages) ==
    LET Said(kind) == {msg \in messages : msg.kind = kind}
        New(r) == {msg.build : msg \in {p \in Said("published") : p.release = r}}
        Cur(r) == {msg.current : msg \in {p \in Said("published") \cup Said("current_changed") :
                                            p.release = r}}
        Flips(kind, r) == {msg.build : msg \in {p \in Said(kind) : p.release = r}}
        Builds0(r) == EntryOf(before, r).builds
    IN  [default |-> IF Said("default_changed") = {} THEN before.default
                     ELSE (CHOOSE msg \in Said("default_changed") : TRUE).to,
         releases |->
            [r \in DOMAIN before.releases \cup {p.release : p \in Said("published")} |->
                [current |-> IF Cur(r) = {} THEN EntryOf(before, r).current
                             ELSE CHOOSE c \in Cur(r) : TRUE,
                 builds |-> [b \in DOMAIN Builds0(r) \cup New(r) |->
                    IF b \in New(r) \/ b \in Flips("unwithdrawn", r) THEN FALSE
                    ELSE Builds0(r)[b] \/ b \in Flips("withdrawn", r)]]]]

=============================================================================
