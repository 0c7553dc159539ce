-------------------------- MODULE ComparisonBuilds --------------------------
(***************************************************************************)
(* Comparisons built on demand (calibration-comparison-blob.ts and the     *)
(* route comparison-tree): a request for a comparison that is not in the   *)
(* Blob store builds it in both modes and waits. Requests of one server    *)
(* instance for one pair wait for one build, as long as the instance's     *)
(* small table remembers it; other instances build on their own. Parts     *)
(* are written once, the index last.                                       *)
(*                                                                         *)
(* A comparison's identity depends on its two builds and on the schema     *)
(* version, not on the code that computes it: two deployments may write    *)
(* different content under one identity. An instance ends at any time.     *)
(***************************************************************************)
EXTENDS Naturals, Sequences

CONSTANTS
    Instances,  \* server processes
    Requests,   \* bound: requests at a time
    Builds,     \* bound: builds at a time
    Pairs,      \* the ordered pairs of builds asked for
    Parts,      \* the parts before the index, in the order they are written
    Sums,       \* the parts whose content depends on the code
    Versions,   \* code deployed, that computes comparisons differently
    First,      \* the version all instances begin with
    None,       \* model value: nothing
    MaxFaults   \* bound: failed storage operations, evictions, ended instances

ASSUME VersionsAssumption == First \in Versions

VARIABLES
    stored,     \* pair and mode -> part -> the version that computed it
    version,    \* instance -> the code it runs
    active,     \* instance -> pair -> the build its table remembers, or None
    build,      \* build -> what it has done, or None
    request,    \* request -> what it asked for and where it is, or None
    faults

vars == <<stored, version, active, build, request, faults>>

-----------------------------------------------------------------------------

Modes == {"reported", "shared"}
Index == "index"
Files == Append(Parts, Index)

\* What a build is at, and how far each mode's upload has come.
BuildState == [at : Instances, pair : Pairs, phase : {"checking", "uploading"},
               settled : BOOLEAN, next : [Modes -> Nat], putting : [Modes -> BOOLEAN]]

ASSUME PartsAssumption == Parts \in Seq(STRING) /\ \A n \in DOMAIN Parts : Parts[n] # Index
ASSUME NoneAssumption == None \notin Builds \cup BuildState

\* Content that does not depend on the code is the same for every version.
Content(part, v) == IF part = Index \/ part \in Sums THEN v ELSE First

Exists(pair, mode) == Index \in DOMAIN stored[<<pair, mode>>]

Init ==
    /\ stored = [c \in Pairs \X Modes |-> <<>>]
    /\ version = [i \in Instances |-> First]
    /\ active = [i \in Instances |-> [pair \in Pairs |-> None]]
    /\ build = [b \in Builds |-> None]
    /\ request = [r \in Requests |-> None]
    /\ faults = 0

Fault == faults < MaxFaults /\ faults' = faults + 1

-----------------------------------------------------------------------------
(***************************************************************************)
(* The route and the table of active builds.                               *)
(***************************************************************************)

\* A request that found no index joins a build and waits for it. A redirected
\* one is kept until the next, an unavailable one is not.
At(r, phase) == request[r] # None /\ request[r].phase = phase
Pending(r) == request[r] # None /\ request[r].phase # "redirected"

Redirect(pair, mode) == [phase |-> "redirected", pair |-> pair, mode |-> mode]

\* A request looks for the index of a comparison.
Ask(r, i, pair, mode) ==
    /\ ~Pending(r)
    /\ request' = [request EXCEPT ![r] =
            IF Exists(pair, mode) THEN Redirect(pair, mode)
            ELSE [phase |-> "joining", pair |-> pair, mode |-> mode, at |-> i, on |-> None]]
    /\ UNCHANGED <<stored, version, active, build, faults>>

NewBuild(i, pair) ==
    [at |-> i, pair |-> pair, phase |-> "checking", settled |-> FALSE,
     next |-> [m \in Modes |-> 1], putting |-> [m \in Modes |-> FALSE]]

\* The request waits for the build the table remembers, or for a new one.
Join(r) ==
    /\ At(r, "joining")
    /\ LET i == request[r].at
           pair == request[r].pair
           Waits(b) == request' = [request EXCEPT ![r].phase = "waiting", ![r].on = b]
       IN  \/ /\ active[i][pair] # None
              /\ Waits(active[i][pair])
              /\ UNCHANGED <<active, build>>
           \/ /\ active[i][pair] = None
              /\ \E b \in Builds :
                  /\ build[b] = None
                  /\ build' = [build EXCEPT ![b] = NewBuild(i, pair)]
                  /\ active' = [active EXCEPT ![i][pair] = b]
                  /\ Waits(b)
    /\ UNCHANGED <<stored, version, faults>>

\* Builds of other pairs push this one out of the table while it runs.
Evict(i, pair) ==
    /\ active[i][pair] # None /\ Fault
    /\ active' = [active EXCEPT ![i][pair] = None]
    /\ UNCHANGED <<stored, version, build, request>>

-----------------------------------------------------------------------------
(***************************************************************************)
(* A build. When it settles, every request that waits for it is answered   *)
(* and the table forgets the pair, whichever build it has for it. An       *)
(* upload of the other mode goes on after a failure.                       *)
(***************************************************************************)

Waiting(b) == {r \in Requests : At(r, "waiting") /\ request[r].on = b}

Redirected(b) == [r \in Requests |-> IF r \in Waiting(b)
    THEN Redirect(request[r].pair, request[r].mode) ELSE request[r]]

Unavailable(rs) == [r \in Requests |-> IF r \in rs THEN None ELSE request[r]]

Forgotten(b) == [active EXCEPT ![build[b].at][build[b].pair] = None]

\* The build has this state afterwards, none once nothing of it goes on.
Becomes(b, state) == build' = [build EXCEPT ![b] = state]

Settles(b, answers, state) ==
    /\ request' = answers
    /\ active' = Forgotten(b)
    /\ Becomes(b, state)

Unsettled == UNCHANGED <<active, request>>

\* A fault the runs must notice: one mode's index stands for both.
CheckOne(b) ==
    /\ build[b] # None /\ build[b].phase = "checking"
    /\ IF \E m \in Modes : Exists(build[b].pair, m)
       THEN Settles(b, Redirected(b), None)
       ELSE Becomes(b, [build[b] EXCEPT !.phase = "uploading"]) /\ Unsettled
    /\ UNCHANGED <<stored, version, faults>>

\* Both indexes may exist by now. Otherwise the sources are loaded; they never
\* change.
CheckBoth(b) ==
    /\ build[b] # None /\ build[b].phase = "checking"
    /\ IF \A m \in Modes : Exists(build[b].pair, m)
       THEN Settles(b, Redirected(b), None)
       ELSE Becomes(b, [build[b] EXCEPT !.phase = "uploading"]) /\ Unsettled
    /\ UNCHANGED <<stored, version, faults>>

Over(state, m) == state.next[m] \notin DOMAIN Files
Computed(b, m) == Content(Files[build[b].next[m]], version[build[b].at])
Dir(b, m) == stored[<<build[b].pair, m>>]
FileOf(b, m) == Files[build[b].next[m]]

\* One mode's upload has come to state.
Proceeds(b, state) ==
    IF \E m \in Modes : ~Over(state, m) THEN Becomes(b, state) /\ Unsettled
    ELSE IF build[b].settled THEN Becomes(b, None) /\ Unsettled
    ELSE Settles(b, Redirected(b), None)

\* A fault the runs must notice: a failed build is not forgotten.
FailsForGood(b, m) ==
    LET state == [build[b] EXCEPT !.settled = TRUE, !.next[m] = 0, !.putting[m] = FALSE]
        after == IF \A n \in Modes : Over(state, n) THEN None ELSE state
    IN  /\ Becomes(b, after)
        /\ request' = Unavailable(Waiting(b))
        /\ UNCHANGED active

\* One mode's upload has failed. The first failure settles the build.
Fails(b, m) ==
    LET state == [build[b] EXCEPT !.settled = TRUE, !.next[m] = 0, !.putting[m] = FALSE]
        after == IF \A n \in Modes : Over(state, n) THEN None ELSE state
    IN  IF build[b].settled THEN Becomes(b, after) /\ Unsettled
        ELSE Settles(b, Unavailable(Waiting(b)), after)

Uploading(b, m) == build[b] # None /\ build[b].phase = "uploading" /\ ~Over(build[b], m)

\* A fault the runs must notice: a part that is there is not compared.
GetAnyPart(b, m) ==
    /\ Uploading(b, m) /\ ~build[b].putting[m]
    /\ IF FileOf(b, m) \notin DOMAIN Dir(b, m)
       THEN Becomes(b, [build[b] EXCEPT !.putting[m] = TRUE]) /\ Unsettled
       ELSE Proceeds(b, [build[b] EXCEPT !.next[m] = @ + 1])
    /\ UNCHANGED <<stored, version, faults>>

\* A part that is there already must be the one that was computed.
GetPart(b, m) ==
    /\ Uploading(b, m) /\ ~build[b].putting[m]
    /\ IF FileOf(b, m) \notin DOMAIN Dir(b, m)
       THEN Becomes(b, [build[b] EXCEPT !.putting[m] = TRUE]) /\ Unsettled
       ELSE IF Dir(b, m)[FileOf(b, m)] = Computed(b, m)
       THEN Proceeds(b, [build[b] EXCEPT !.next[m] = @ + 1])
       ELSE Fails(b, m)
    /\ UNCHANGED <<stored, version, faults>>

Put(dir, file, content) ==
    [f \in DOMAIN dir \cup {file} |-> IF f = file THEN content ELSE dir[f]]

Stores(b, m) == stored' =
    [stored EXCEPT ![<<build[b].pair, m>>] = Put(@, FileOf(b, m), Computed(b, m))]

\* A fault the runs must notice: a part is written over another.
PutOverPart(b, m) ==
    /\ Uploading(b, m) /\ build[b].putting[m]
    /\ Stores(b, m)
    /\ Proceeds(b, [build[b] EXCEPT !.next[m] = @ + 1, !.putting[m] = FALSE])
    /\ UNCHANGED <<version, faults>>

\* The store refuses to write over a part that has come in between. The part
\* is read again; what is there is what was written.
PutPart(b, m) ==
    /\ Uploading(b, m) /\ build[b].putting[m]
    /\ IF FileOf(b, m) \in DOMAIN Dir(b, m)
       THEN Fails(b, m) /\ UNCHANGED stored
       ELSE /\ Stores(b, m)
            /\ Proceeds(b, [build[b] EXCEPT !.next[m] = @ + 1, !.putting[m] = FALSE])
    /\ UNCHANGED <<version, faults>>

\* A look for an index or a source fails.
CheckFails(b) ==
    /\ build[b] # None /\ build[b].phase = "checking" /\ Fault
    /\ Settles(b, Unavailable(Waiting(b)), None)
    /\ UNCHANGED <<stored, version>>

\* A read or a write of a part fails, or the read that follows a write.
StorageFails(b, m) ==
    /\ Uploading(b, m) /\ Fault
    /\ Fails(b, m)
    /\ \/ UNCHANGED stored
       \/ build[b].putting[m] /\ FileOf(b, m) \notin DOMAIN Dir(b, m) /\ Stores(b, m)
    /\ UNCHANGED version

-----------------------------------------------------------------------------

\* An instance ends, or reaches its time limit; another takes its place.
Replace(i, v) ==
    /\ Fault
    /\ version' = [version EXCEPT ![i] = v]
    /\ active' = [active EXCEPT ![i] = [pair \in Pairs |-> None]]
    /\ build' = [b \in Builds |->
            IF build[b] # None /\ build[b].at = i THEN None ELSE build[b]]
    /\ request' = Unavailable({r \in Requests : Pending(r) /\ request[r].at = i})
    /\ UNCHANGED stored

Next ==
    \/ \E r \in Requests :
        \/ \E i \in Instances, pair \in Pairs, mode \in Modes : Ask(r, i, pair, mode)
        \/ Join(r)
    \/ \E b \in Builds :
        \/ CheckBoth(b) \/ CheckFails(b)
        \/ \E m \in Modes : GetPart(b, m) \/ PutPart(b, m) \/ StorageFails(b, m)
    \/ \E i \in Instances :
        \/ \E pair \in Pairs : Evict(i, pair)
        \/ \E v \in Versions : Replace(i, v)

Spec == Init /\ [][Next]_vars

\* An instance goes on with what it began.
Fairness ==
    /\ \A r \in Requests : WF_vars(Join(r))
    /\ \A b \in Builds :
        /\ WF_vars(CheckBoth(b))
        /\ \A m \in Modes : WF_vars(GetPart(b, m)) /\ WF_vars(PutPart(b, m))

FairSpec == Spec /\ Fairness

-----------------------------------------------------------------------------
(***************************************************************************)
(* Properties.                                                             *)
(***************************************************************************)

\* A comparison with an index has every part, each computed as the index says,
\* however many instances build it, wherever they end and whatever code they
\* run (calibration-tree-blob.ts: uploadCalibrationTreeBundle).
IndexedComparisonsAreWhole ==
    \A c \in Pairs \X Modes : Index \in DOMAIN stored[c] =>
        \A n \in DOMAIN Parts : /\ Parts[n] \in DOMAIN stored[c]
                                /\ stored[c][Parts[n]] = Content(Parts[n], stored[c][Index])

\* A request is sent on only to a comparison that can be read, also when it
\* asked for the other mode than the one the build was begun for: the redirect
\* is cached for a year (the route's 307 is immutable).
RedirectsCanBeRead ==
    \A r \in Requests : At(r, "redirected") =>
        Exists(request[r].pair, request[r].mode)

\* A stored part never changes: what is served of a comparison is cached for a
\* year (IMMUTABLE_CACHE_HEADERS in the route).
PartsNeverChange ==
    [][\A c \in Pairs \X Modes : \A part \in DOMAIN stored[c] :
        part \in DOMAIN stored'[c] /\ stored'[c][part] = stored[c][part]]_vars

Asked(pair, m) ==
    \E r \in Requests : Pending(r) /\ request[r].pair = pair /\ request[r].mode = m

\* A comparison that is asked for again and again is built in the end:
\* failures, evictions and lost races leave nothing that stands in the way, as
\* long as only one version of the code runs (docs/calibration-tree-artifacts.md:
\* requesting an absent pair "builds and verifies it once").
AskedPairsAreBuilt ==
    [](\A i \in Instances : version[i] = First) =>
        \A pair \in Pairs, m \in Modes : []<>Asked(pair, m) => <>Exists(pair, m)

=============================================================================
