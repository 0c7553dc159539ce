----------------------------- MODULE HostedRuns -----------------------------
(***************************************************************************)
(* Which record of a hosted run the Staging page shows                     *)
(* (lib/microcosm/build-runs.ts, staging-run-state.ts and the two staging  *)
(* routes). A run is recorded twice: by the telemetry collector, whose     *)
(* events may arrive late, and by its copy in the Hugging Face staging     *)
(* repository, which may stop changing partway. Three pages read both      *)
(* through caches of one server instance: the Candidate tab, the Build     *)
(* progress list and the page of one run.                                  *)
(*                                                                         *)
(* Event i is the run's i-th by time; the event End ends the run. A       *)
(* record is the set of its events, {} where the run is not recorded.      *)
(* Time passes in steps: a request becomes overdue, and what is too old to *)
(* be used again is dropped.                                               *)
(***************************************************************************)
EXTENDS Naturals, FiniteSets, FiniteSetsExt, Sequences, SequencesExt

CONSTANTS
    Candidates,     \* viewers of the Candidate tab
    Builds,         \* viewers of the Build progress list
    Pages,          \* viewers of the run's own page
    Sessions,       \* bound: the sets of viewers with a page open
    None,
    End,            \* the event that ends the run
    MaxInFlight,    \* bound: list requests in flight
    MaxFaults       \* bound: failed and overdue requests

ASSUME EndAssumption == End \in Nat \ {0, 1}
ASSUME ViewersAssumption ==
    Candidates \cap Builds = {} /\ Candidates \cap Pages = {} /\ Builds \cap Pages = {}

VARIABLES
    received,   \* the events the collector has
    copied,     \* how many events the Hugging Face copy has
    requests,   \* list requests in flight, oldest first
    entry,      \* collectorLists: the latest list request
    answered,   \* answeredCollectorLists: the latest list that answered
    recordCache,    \* stagingRunCache of the collector's finished record
    copyCache,      \* stagingRunCache of the finished Hugging Face copy, or {}
    listing,    \* stagingListCache: the latest load of the Build progress list
    viewer,     \* viewer -> the request it waits for
    shown,      \* viewer -> the last response
    faults

caches == <<requests, entry, answered, recordCache, copyCache, listing>>
vars == <<received, copied, caches, viewer, shown, faults>>

Viewers == Candidates \cup Builds \cup Pages
Events == 1..End
Copy == 1..copied

Final(record) == End \in record
UpdatedAt(record) == Max(record)

Idle == [phase |-> "idle", copy |-> {}, listed |-> {}, record |-> {},
         with |-> None, noted |-> FALSE, owed |-> FALSE]
Closed == [Idle EXCEPT !.phase = "closed"]
NoEntry == [kind |-> "none", runs |-> {}]
NoListing == [kind |-> "none", by |-> None, record |-> {}, noted |-> FALSE, owed |-> FALSE]

Init ==
    /\ received = {1} /\ copied = 1
    /\ requests = <<>> /\ entry = NoEntry
    /\ answered = None
    /\ recordCache = None /\ copyCache = {}
    /\ listing = NoListing
    /\ \E open \in Sessions :
          viewer = [v \in Viewers |-> IF v \in open THEN Idle ELSE Closed]
    /\ shown = [v \in Viewers |-> [record |-> {}, noted |-> TRUE]]
    /\ faults = 0

Fault == faults < MaxFaults /\ faults' = faults + 1

-----------------------------------------------------------------------------
\* The two sources.

\* The collector stores an event, in any order.
Receive(e) ==
    /\ received' = received \cup {e}
    /\ UNCHANGED <<copied, caches, viewer, shown, faults>>

\* The writer uploads the copy with its events so far.
UploadCopy(k) ==
    /\ k > copied
    /\ copied' = k
    /\ UNCHANGED <<received, caches, viewer, shown, faults>>

-----------------------------------------------------------------------------
\* Which record a page shows.

\* A fault the runs must notice: the record stands whatever the copy says.
RecordAlwaysStands(record, copy) == FALSE

CollectorMissedTheEnd(record, copy) ==
    ~Final(record) /\ Final(copy) /\ UpdatedAt(copy) > UpdatedAt(record)

\* candidateRunState, overlayRunSummary and mergeHostedDocuments: the
\* collector's record replaces the copy unless it missed the end.
StandingRecord(record, copy) ==
    IF record = {} \/ (copy # {} /\ CollectorMissedTheEnd(record, copy))
    THEN copy ELSE record

\* A fault the runs must notice: the fresh record stands over the listed end.
FreshRecord(record, current) == record

\* refreshHostedRun with the collector's fresh record: the listed record
\* stands over it by the same rule.
RefreshedRecord(record, current) ==
    IF current # {} /\ CollectorMissedTheEnd(record, current) THEN current ELSE record

\* loadCollectorDocuments: a finished record is reused while the list names
\* the same update.
Reusable(runs) ==
    /\ recordCache # None
    /\ Final(runs)
    /\ recordCache.version = UpdatedAt(runs)

\* A viewer goes on with the collector's list: from the cache, or with a
\* request for the run's record.
WithList(me, runs) ==
    IF Reusable(runs)
    THEN [me EXCEPT !.phase = "found", !.record = recordCache.record]
    ELSE [me EXCEPT !.phase = "record", !.listed = runs]

\* The collector's list could not be had: the page notes it and does without.
WithoutList(me) == [me EXCEPT !.phase = "found", !.noted = TRUE]

-----------------------------------------------------------------------------
\* collectorRunLists.

Request(v) ==
    [overdue |-> FALSE, superseded |-> FALSE, waiting |-> {v}]

InFlight == entry.kind = "inFlight"

\* recent: v, whose state is then `me`, reuses a list that answered lately,
\* shares a request in flight that is not overdue, or makes one.
Recent(v, me) ==
    LET shared == InFlight /\ ~Last(requests).overdue
        reused == entry.kind = "answered"
    IN  \/ /\ reused
           /\ viewer' = [viewer EXCEPT ![v] = WithList(me, entry.runs)]
           /\ UNCHANGED <<requests, entry>>
        \/ /\ shared
           /\ requests' = [requests EXCEPT ![Len(requests)].waiting = @ \cup {v}]
           /\ viewer' = [viewer EXCEPT ![v] = me]
           /\ UNCHANGED entry
        \/ /\ ~reused /\ ~shared
           /\ Len(requests) < MaxInFlight
           /\ requests' = Append(requests, Request(v))
           /\ entry' = [NoEntry EXCEPT !.kind = "inFlight"]
           /\ viewer' = [viewer EXCEPT ![v] = me]

\* The viewers that waited for the list go on, the others stay where they are.
Resumed(resumed) ==
    [v \in Viewers |-> IF v \in DOMAIN resumed THEN resumed[v] ELSE viewer[v]]

\* Five seconds pass (COLLECTOR_LIST_WAIT_MS) and request i has not answered.
ListOverdue(i) ==
    /\ ~requests[i].overdue
    /\ Fault
    /\ requests' = [requests EXCEPT ![i].overdue = TRUE]
    /\ UNCHANGED <<received, copied, entry, answered, recordCache, copyCache, listing,
                   viewer, shown>>

\* Request i answers with the collector's list (an answer that was long on its
\* way is a list kept for long). It counts unless a newer request answered first, even when a newer
\* request has replaced this one.
ListAnswers(i) ==
    /\ answered' = IF requests[i].superseded THEN answered ELSE [runs |-> received]
    /\ entry' = IF InFlight /\ i = Len(requests)
                THEN [kind |-> "answered", runs |-> received] ELSE entry
    /\ requests' = RemoveAt([j \in DOMAIN requests |->
                                [requests[j] EXCEPT !.superseded = @ \/ j < i]], i)
    /\ viewer' = Resumed([v \in requests[i].waiting |-> WithList(viewer[v], received)])
    /\ UNCHANGED <<received, copied, recordCache, copyCache, listing, shown, faults>>

\* A fault the runs must notice: a failed request drops whatever the cache holds.
ListFailsForAll(i) ==
    /\ (requests[i].overdue /\ faults' = faults) \/ Fault
    /\ entry' = NoEntry
    /\ requests' = RemoveAt(requests, i)
    /\ viewer' = Resumed([v \in requests[i].waiting |-> WithoutList(viewer[v])])
    /\ UNCHANGED <<received, copied, answered, recordCache, copyCache, listing, shown>>

\* Request i fails, or times out once it is overdue.
ListFails(i) ==
    /\ (requests[i].overdue /\ faults' = faults) \/ Fault
    /\ entry' = IF InFlight /\ i = Len(requests) THEN NoEntry ELSE entry
    /\ requests' = RemoveAt(requests, i)
    /\ viewer' = Resumed([v \in requests[i].waiting |-> WithoutList(viewer[v])])
    /\ UNCHANGED <<received, copied, answered, recordCache, copyCache, listing, shown>>

\* Fifteen seconds pass since the latest list answered, which is then read
\* again; a minute since the list kept for a slow successor did.
EntryAges ==
    /\ entry.kind = "answered"
    /\ entry' = NoEntry
    /\ UNCHANGED <<received, copied, requests, answered, recordCache, copyCache, listing,
                   viewer, shown, faults>>
AnsweredAges ==
    /\ answered # None
    /\ answered' = None
    /\ UNCHANGED <<received, copied, requests, entry, recordCache, copyCache, listing,
                   viewer, shown, faults>>

-----------------------------------------------------------------------------
\* The Candidate tab.

\* Whether this viewer's page shows the run's end, and with no failure noted.
SawEnd(v) == Final(shown[v].record)
SawEndPlainly(v) == SawEnd(v) /\ ~shown[v].noted

\* The tab lists what the staging repository has and asks for the
\* collector's list. (A staging repository that cannot be read answers 502.)
PollCandidate(v) ==
    /\ viewer[v].phase = "idle"
    /\ Recent(v, [Idle EXCEPT !.phase = "list", !.copy = Copy, !.owed = SawEndPlainly(v)])
    /\ UNCHANGED <<received, copied, answered, recordCache, copyCache, listing, shown, faults>>

\* settledWithin: the tab waited five seconds, so the request is overdue. A
\* list that answered within the last minute stands in for it.
WaitOver(v) ==
    /\ viewer[v].phase = "list"
    /\ \E i \in DOMAIN requests :
          /\ v \in requests[i].waiting /\ requests[i].overdue
          /\ requests' = [requests EXCEPT ![i].waiting = @ \ {v}]
    /\ viewer' = [viewer EXCEPT ![v] = IF answered # None
                                       THEN WithList(@, answered.runs) ELSE WithoutList(@)]
    /\ UNCHANGED <<received, copied, entry, answered, recordCache, copyCache, listing,
                   shown, faults>>

AnswerCandidate(v) ==
    /\ viewer[v].phase = "found"
    /\ shown' = [shown EXCEPT ![v] =
                    [record |-> StandingRecord(viewer[v].record, viewer[v].copy),
                     noted |-> viewer[v].noted]]
    /\ viewer' = [viewer EXCEPT ![v] = Idle]
    /\ UNCHANGED <<received, copied, caches, faults>>

-----------------------------------------------------------------------------
\* The collector's record of the run (loadCollectorRun).

\* The collector answers. A finished record is kept under the update the list
\* named; one that has not ended is never reused.
RecordAnswers(v) ==
    /\ viewer[v].phase = "record"
    /\ recordCache' = IF Final(received)
                      THEN [record |-> received, version |-> UpdatedAt(viewer[v].listed)]
                      ELSE None
    /\ viewer' = [viewer EXCEPT ![v].phase = "found", ![v].listed = {}, ![v].record = received]
    /\ UNCHANGED <<received, copied, requests, entry, answered, copyCache, listing,
                   shown, faults>>

RecordFails(v) ==
    /\ viewer[v].phase = "record"
    /\ Fault
    /\ viewer' = [viewer EXCEPT ![v].phase = "found", ![v].listed = {}, ![v].noted = TRUE]
    /\ UNCHANGED <<received, copied, caches, shown>>

-----------------------------------------------------------------------------
\* The Build progress list and the run's page, which begins with the list.

\* The viewers `served` go on with a loaded list: the list is shown, the page
\* reads the collector's record again (`copy` then holds what the list says).
Serve(served, loaded) ==
    /\ viewer' = [v \in Viewers |->
                    IF v \in served \cap Pages
                    THEN [Idle EXCEPT !.phase = "refresh", !.copy = loaded.record,
                                      !.noted = loaded.noted, !.owed = loaded.owed]
                    ELSE IF v \in served THEN Idle ELSE viewer[v]]
    /\ shown' = [v \in Viewers |-> IF v \in served \cap Builds
                                   THEN [record |-> loaded.record, noted |-> loaded.noted]
                                   ELSE shown[v]]

\* loadRuns: share the latest load for thirty seconds, or begin one. `owed`
\* says whether the end had been shown when the load began.
PollListing(v) ==
    /\ viewer[v].phase = "idle"
    /\ \/ /\ listing.kind = "loaded"
          /\ Serve({v}, listing)
          /\ UNCHANGED <<requests, entry, listing>>
       \/ /\ listing.kind = "loading"
          /\ viewer' = [viewer EXCEPT ![v] = [Idle EXCEPT !.phase = "sharing",
                                                          !.with = listing.by]]
          /\ UNCHANGED <<requests, entry, listing, shown>>
       \/ /\ listing.kind = "none"
          /\ listing' = [NoListing EXCEPT !.kind = "loading", !.by = v]
          /\ Recent(v, [Idle EXCEPT !.phase = "list",
                            !.owed = \E w \in Builds \cup Pages : SawEndPlainly(w)])
          /\ UNCHANGED shown
    /\ UNCHANGED <<received, copied, answered, recordCache, copyCache, faults>>

\* loadStaging ends: every viewer of this load goes on. A load that a newer
\* one replaced after thirty seconds still serves its own viewers.
Load(v, copy, noted) ==
    LET loaded == [kind |-> "loaded", by |-> None, noted |-> noted, owed |-> viewer[v].owed,
                   record |-> StandingRecord(viewer[v].record, copy)]
        sharing == {w \in Viewers : viewer[w].phase = "sharing" /\ viewer[w].with = v}
    IN  /\ viewer[v].phase = "found"
        /\ listing' = IF listing.by = v THEN loaded ELSE listing
        /\ Serve(sharing \cup {v}, loaded)
        /\ UNCHANGED <<received, copied, requests, entry, answered, recordCache>>

\* The copy is read, or reused once it had ended.
LoadListing(v) ==
    LET copy == IF copyCache # {} THEN copyCache ELSE Copy IN
    /\ Load(v, copy, viewer[v].noted)
    /\ copyCache' = IF Final(copy) THEN copy ELSE {}
    /\ faults' = faults

\* The staging repository cannot be read: the list does without the copy.
LoadWithoutCopy(v) ==
    /\ Load(v, {}, TRUE)
    /\ Fault
    /\ UNCHANGED copyCache

ListingExpires ==
    /\ listing.kind # "none"
    /\ listing' = NoListing
    /\ UNCHANGED <<received, copied, requests, entry, answered, recordCache, copyCache,
                   viewer, shown, faults>>

\* refreshHostedRun: the page asks the collector for the record itself, with
\* no cache between. When the collector fails, the page shows the copy as it
\* is now, and what the list showed when that fails too.
Refresh(v) ==
    /\ shown' = [shown EXCEPT ![v] =
                    [record |-> RefreshedRecord(received, viewer[v].copy),
                     noted |-> viewer[v].noted]]
    /\ viewer[v].phase = "refresh"
    /\ viewer' = [viewer EXCEPT ![v] = Idle]
    /\ UNCHANGED <<received, copied, caches>>
    /\ faults' = faults

RefreshFails(v) ==
    /\ Fault
    /\ \/ shown' = [shown EXCEPT ![v] = [record |-> Copy, noted |-> TRUE]]
       \/ shown' = [shown EXCEPT ![v] = [record |-> viewer[v].copy, noted |-> TRUE]]
    /\ viewer[v].phase = "refresh"
    /\ viewer' = [viewer EXCEPT ![v] = Idle]
    /\ UNCHANGED <<received, copied, caches>>

-----------------------------------------------------------------------------

Answer(v) ==
    \/ v \in Candidates /\ AnswerCandidate(v)
    \/ v \in Builds \cup Pages /\ LoadListing(v)
    \/ Refresh(v)
    \/ RecordAnswers(v)

Poll(v) ==
    \/ v \in Candidates /\ (PollCandidate(v) \/ WaitOver(v))
    \/ v \in Builds \cup Pages /\ PollListing(v)

Disturb(v) ==
    \/ RecordFails(v)
    \/ v \in Builds \cup Pages /\ LoadWithoutCopy(v)
    \/ RefreshFails(v)

ListProceeds(i) == i \in DOMAIN requests /\ ListAnswers(i)

ListDisturbed(i) ==
    i \in DOMAIN requests /\ (ListOverdue(i) \/ ListFails(i))

Next ==
    \/ \E e \in Events \ received : Receive(e)
    \/ \E k \in Events : UploadCopy(k)
    \/ \E v \in Viewers : Poll(v) \/ Answer(v) \/ Disturb(v)
    \/ \E i \in 1..MaxInFlight : ListProceeds(i) \/ ListDisturbed(i)
    \/ EntryAges \/ AnsweredAges \/ ListingExpires

Spec == Init /\ [][Next]_vars

\* Pages poll while they are open, requests are answered (or time out, a
\* fault), and time passes. Neither source need ever record the end.
FairSpec ==
    /\ Spec
    /\ \A v \in Viewers : WF_vars(Poll(v) \/ Answer(v))
    /\ \A i \in 1..MaxInFlight : WF_vars(ListProceeds(i))
    /\ WF_vars(EntryAges) /\ WF_vars(ListingExpires)

-----------------------------------------------------------------------------

\* One instance never asks for the list while a request for it is in flight
\* and not overdue: the tabs that poll together share one request, whatever
\* became of the requests before it (the comment on collectorRunLists). A
\* request that fails late must not free the place of its successor.
OneTimelyListRequest ==
    Cardinality({i \in DOMAIN requests : ~requests[i].overdue}) <= 1

\* A page that showed the run's end, when no read had failed, does not go back
\* to a running state until another read fails, although its next answer may come
\* from other requests, other caches and the other source: neither a record
\* that stopped early nor a copy that stopped early hides the end
\* (collectorMissedTheEnd). The list answers from a load up to thirty seconds
\* old, so there what was shown when the load began counts.
EndIsNotForgotten ==
    [][/\ \A v \in Viewers : viewer[v].owed /\ shown'[v] # shown[v] =>
                shown'[v].noted \/ Final(shown'[v].record)
       /\ listing'.kind = "loaded" /\ listing'.owed =>
                listing'.noted \/ Final(listing'.record)]_vars

\* Once the collector or the copy has recorded the end, every page shows it
\* and keeps showing it, when requests stop failing: no cache and no rule
\* between the two records hides the end for good.
EndIsShown ==
    [](End \in received \/ copied = End => <>[](\A v \in Viewers : viewer[v] = Closed \/ SawEnd(v)))

\* "A finished run's documents are reused until the collector reports a newer
\* update for it" (build-runs.ts:355), as "a run in one of these statuses has
\* ended and its telemetry no longer changes" (build-runs.ts:258): the list
\* comes to show every event the collector has.
FinishedRunsAreComplete ==
    [](received = Events => <>[](\A v \in Builds : viewer[v] = Closed \/ shown[v].record = Events))

=============================================================================
