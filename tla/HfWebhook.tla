----------------------------- MODULE HfWebhook ------------------------------
(***************************************************************************)
(* From a push to a dataset repository to the reconciliation of it:        *)
(* Hugging Face's webhook deliveries, the handler that answers them        *)
(* (lib/microcosm/hf-webhook-handler.ts) and the concurrency group of      *)
(* publish-calibration-tree.yml, whose single pending slot is overwritten  *)
(* by a newer dispatch.                                                    *)
(*                                                                         *)
(* Hugging Face delivers again what was not answered with 200, in any      *)
(* order. A handler may be lost at any step, and so may its answer. A job  *)
(* is one reconciliation, from the commit it reads to its end; TreePublisher *)
(* is that job in detail.                                                  *)
(***************************************************************************)
EXTENDS ReleaseRecord, Naturals, Sequences

CONSTANTS
    ReleaseRepos,   \* registered release repositories
    StagingRepos,   \* registered staging repositories
    Channels,       \* release repositories whose country has a Slack channel
    InitialRecord,  \* a release repository's record to begin with
    Pushed(_, _, _),    \* Pushed(before, after, tag): a push may make this change
    MaxDeliveries,  \* bound: pushes
    MaxFaults       \* bound: failed requests, failed jobs and lost answers

ASSUME ReposAssumption == ReleaseRepos \cap StagingRepos = {}
ASSUME DeliveriesAssumption == MaxDeliveries \in Nat

\* "Only the release writer changes the record: it lists a newly published
\* build (optionally making it current), makes a listed build current, or
\* marks one withdrawn" (release-record-alerts.ts:5).
ASSUME RecordsAssumption ==
    /\ InitialRecord \in Record \cup {None}
    /\ \A before, after \in Record, tag \in BOOLEAN :
          Pushed(before, after, tag) => KeepsListed(before, after)

VARIABLES
    commits,    \* repository -> its record at each commit of main, in order
    deliveries, \* the pushes and tags to deliver, in order
    phase,      \* delivery -> where its handling is
    todo,       \* delivery -> the alerts its handler has left to post
    answer,     \* delivery -> whether the records were compared
    posted,     \* delivery -> message -> how often Slack showed it
    logged,     \* delivery -> the changes written to the log
    missed,     \* delivery -> the messages Slack refused
    lost,       \* delivery -> how many handlers or answers were lost
    accepted,   \* the dispatches GitHub accepted, in order
    pending,    \* the dispatch in the group's slot, by its number, or 0
    running,    \* the job under way, or None
    reconciled, \* repository -> the latest commit a job reconciled
    outcome,    \* dispatch number -> whether its job succeeded, for those that ran
    faults

handling == <<phase, todo, answer, posted, logged, missed, lost>>
queue == <<accepted, pending, running, reconciled, outcome>>
vars == <<commits, deliveries, handling, queue, faults>>

Repos == ReleaseRepos \cup StagingRepos
Ids == 1..MaxDeliveries
Sent == 1..Len(deliveries)

\* A tag's message carries the release's name; one name stands for it.
TagAlert == [kind |-> "tag"]

Put(f, key, value) == [k \in DOMAIN f \cup {key} |-> IF k = key THEN value ELSE f[k]]

TimesPosted(d, alert) ==
    IF alert \in DOMAIN posted[d] THEN posted[d][alert] ELSE 0

RecordAt(repo, n) == IF n = 0 THEN None ELSE commits[repo][n]

-----------------------------------------------------------------------------

Init ==
    /\ commits = [r \in Repos |-> <<InitialRecord>>]
    /\ deliveries = <<>>
    /\ phase = [d \in Ids |-> "waiting"]
    /\ todo = [d \in Ids |-> {}]
    /\ answer = [d \in Ids |-> None]
    /\ posted = [d \in Ids |-> <<>>]
    /\ logged = [d \in Ids |-> {}]
    /\ missed = [d \in Ids |-> {}]
    /\ lost = [d \in Ids |-> 0]
    /\ accepted = <<>>
    /\ pending = 0
    /\ running = None
    /\ reconciled = [r \in Repos |-> 0]
    /\ outcome = <<>>
    /\ faults = 0

Fault == faults < MaxFaults /\ faults' = faults + 1

\* A repository changes and Hugging Face has a delivery for it: an update of
\* main, a new tag (at a commit already there), or both. A staging repository
\* has no record and its tags start nothing.
Send(repo, old, new, tag) ==
    /\ Len(deliveries) < MaxDeliveries
    /\ deliveries' = Append(deliveries, [repo |-> repo, old |-> old, new |-> new, tag |-> tag])
    /\ UNCHANGED <<handling, queue, faults>>

PushRelease(repo, record, tag) ==
    LET head == Len(commits[repo]) IN
    /\ Pushed(RecordAt(repo, head), record, tag)
    /\ commits' = [commits EXCEPT ![repo] = Append(@, record)]
    /\ Send(repo, head, head + 1, tag)

PushTag(repo) ==
    /\ Send(repo, Len(commits[repo]), Len(commits[repo]), TRUE)
    /\ UNCHANGED commits

PushStaging(repo) ==
    LET head == Len(commits[repo]) IN
    /\ commits' = [commits EXCEPT ![repo] = Append(@, None)]
    /\ Send(repo, head, head + 1, FALSE)

-----------------------------------------------------------------------------

\* compareReleaseRecords is asked only for an update of main of a release
\* repository whose country has a channel.
Compares(d) ==
    deliveries[d].repo \in Channels /\ deliveries[d].new # deliveries[d].old

Before(d) == RecordAt(deliveries[d].repo, deliveries[d].old)
After(d) == RecordAt(deliveries[d].repo, deliveries[d].new)

\* Tag alerts are for release repositories; a country without a channel gets
\* none (postToCountryChannel returns false).
TagAlerts(d) ==
    IF deliveries[d].tag /\ deliveries[d].repo \in Channels THEN {TagAlert} ELSE {}

RecordAlerts(d) ==
    IF answer[d] = "compared" THEN ReleaseRecordAlerts(Before(d), After(d)) ELSE {}

\* A delivery is handled up to the dispatch: the records are read first. A
\* lasting failure on either side gives no record alerts.
Compare(d) ==
    /\ phase[d] = "waiting"
    /\ \/ /\ Compares(d)
          /\ \/ answer' = [answer EXCEPT ![d] = "compared"] /\ faults' = faults
             \/ answer' = [answer EXCEPT ![d] = "unavailable"] /\ Fault
       \/ ~Compares(d) /\ UNCHANGED <<answer, faults>>
    /\ phase' = [phase EXCEPT ![d] = "dispatching"]
    /\ UNCHANGED <<commits, deliveries, todo, posted, logged, missed, lost, queue>>

\* A transient failure answers 503 with nothing done.
CompareFails(d) ==
    /\ phase[d] = "waiting" /\ Compares(d)
    /\ Fault
    /\ UNCHANGED <<commits, deliveries, handling, queue>>

\* A fault the runs must notice: the pending dispatch stays and the newer is lost.
EnqueueIfFree(repo, commit) ==
    /\ accepted' = Append(accepted, [repo |-> repo, commit |-> commit])
    /\ pending' = IF pending = 0 THEN Len(accepted') ELSE pending
    /\ UNCHANGED <<running, reconciled, outcome>>

\* The one dispatch of a delivery. A staging job is given the commit of the
\* delivery; a release job reads the head of main when it runs.
Enqueue(repo, commit) ==
    /\ accepted' = Append(accepted, [repo |-> repo, commit |-> commit])
    /\ pending' = Len(accepted')
    /\ UNCHANGED <<running, reconciled, outcome>>

DispatchTreeBuild(d) ==
    /\ phase[d] = "dispatching"
    /\ Enqueue(deliveries[d].repo, deliveries[d].new)
    /\ phase' = [phase EXCEPT ![d] = "alerting"]
    /\ todo' = [todo EXCEPT ![d] = TagAlerts(d) \cup RecordAlerts(d)]
    /\ logged' = [logged EXCEPT ![d] =
            IF answer[d] = "compared" THEN UnannouncedRecordChanges(Before(d), After(d)) ELSE @]
    /\ UNCHANGED <<commits, deliveries, answer, posted, missed, lost, faults>>

\* GitHub refuses, or accepts and its answer does not arrive: 502.
DispatchFails(d) ==
    /\ phase[d] = "dispatching"
    /\ Fault
    /\ Enqueue(deliveries[d].repo, deliveries[d].new) \/ UNCHANGED queue
    /\ phase' = [phase EXCEPT ![d] = "waiting"]
    /\ answer' = [answer EXCEPT ![d] = None]
    /\ UNCHANGED <<commits, deliveries, todo, posted, logged, missed, lost>>

\* The order of the messages: tags, then what releaseRecordAlerts returns.
Rank(alert) ==
    CASE alert.kind = "tag" -> 0
      [] alert.kind \in {"published", "record_created"} -> 1
      [] alert.kind = "current_changed" -> 2
      [] alert.kind = "withdrawn" -> 3

\* A fault the runs must notice: a failed message fails the delivery.
PostOrRetry(d, alert) ==
    /\ phase[d] = "alerting"
    /\ alert \in todo[d]
    /\ \A other \in todo[d] : Rank(alert) <= Rank(other)
    /\ \/ /\ posted' = [posted EXCEPT ![d] = Put(@, alert, TimesPosted(d, alert) + 1)]
          /\ todo' = [todo EXCEPT ![d] = @ \ {alert}]
          /\ UNCHANGED <<phase, answer, faults>>
       \/ /\ phase' = [phase EXCEPT ![d] = "waiting"]
          /\ todo' = [todo EXCEPT ![d] = {}]
          /\ answer' = [answer EXCEPT ![d] = None]
          /\ Fault /\ UNCHANGED posted
    /\ UNCHANGED <<commits, deliveries, logged, missed, lost, queue>>

\* One message to Slack. A failure is logged and not retried.
PostAlert(d, alert) ==
    /\ phase[d] = "alerting"
    /\ alert \in todo[d]
    /\ \A other \in todo[d] : Rank(alert) <= Rank(other)
    /\ todo' = [todo EXCEPT ![d] = @ \ {alert}]
    /\ \/ /\ posted' = [posted EXCEPT ![d] = Put(@, alert, TimesPosted(d, alert) + 1)]
          /\ UNCHANGED <<missed, faults>>
       \/ /\ missed' = [missed EXCEPT ![d] = @ \cup {alert}]
          /\ Fault /\ UNCHANGED posted
    /\ UNCHANGED <<commits, deliveries, phase, answer, logged, lost, queue>>

\* A fault the runs must notice: only a complete delivery is answered with 200.
AnswerIfAllPosted(d) ==
    /\ phase[d] = "alerting" /\ todo[d] = {} /\ missed[d] = {}
    /\ phase' = [phase EXCEPT ![d] = "answered"]
    /\ UNCHANGED <<commits, deliveries, todo, answer, posted, logged, missed, lost, queue, faults>>

\* 200: the delivery is done with.
Answer(d) ==
    /\ phase[d] = "alerting" /\ todo[d] = {}
    /\ phase' = [phase EXCEPT ![d] = "answered"]
    /\ UNCHANGED <<commits, deliveries, todo, answer, posted, logged, missed, lost, queue, faults>>

\* The handler, or its answer, is lost: the delivery is sent again.
LoseAnswer(d) ==
    /\ phase[d] \in {"dispatching", "alerting"}
    /\ Fault
    /\ phase' = [phase EXCEPT ![d] = "waiting"]
    /\ lost' = [lost EXCEPT ![d] = @ + 1]
    /\ todo' = [todo EXCEPT ![d] = {}]
    /\ answer' = [answer EXCEPT ![d] = None]
    /\ UNCHANGED <<commits, deliveries, posted, logged, missed, queue>>

-----------------------------------------------------------------------------

\* A fault the runs must notice: a release job reads the delivery's commit.
StartJobAtDispatch ==
    /\ running = None /\ pending # 0
    /\ running' = [number |-> pending, repo |-> accepted[pending].repo,
                   commit |-> accepted[pending].commit]
    /\ pending' = 0
    /\ UNCHANGED <<commits, deliveries, handling, accepted, reconciled, outcome, faults>>

\* The group is free: the pending run starts, and reads its inventory.
StartJob ==
    /\ running = None /\ pending # 0
    /\ LET dispatch == accepted[pending] IN
       running' = [number |-> pending, repo |-> dispatch.repo,
                   commit |-> IF dispatch.repo \in StagingRepos THEN dispatch.commit
                              ELSE Len(commits[dispatch.repo])]
    /\ pending' = 0
    /\ UNCHANGED <<commits, deliveries, handling, accepted, reconciled, outcome, faults>>

FinishJob ==
    /\ running # None
    /\ running' = None
    /\ \/ /\ reconciled' = [reconciled EXCEPT ![running.repo] =
                IF running.commit > @ THEN running.commit ELSE @]
          /\ outcome' = Put(outcome, running.number, TRUE)
          /\ UNCHANGED faults
       \/ /\ outcome' = Put(outcome, running.number, FALSE)
          /\ Fault /\ UNCHANGED reconciled
    /\ UNCHANGED <<commits, deliveries, handling, accepted, pending>>

Handle(d) ==
    \/ Compare(d) \/ CompareFails(d)
    \/ DispatchTreeBuild(d) \/ DispatchFails(d)
    \/ \E alert \in todo[d] : PostAlert(d, alert)
    \/ Answer(d) \/ LoseAnswer(d)

Next ==
    \/ \E r \in ReleaseRepos :
        \/ \E record \in Record \cup {None}, tag \in BOOLEAN : PushRelease(r, record, tag)
        \/ PushTag(r)
    \/ \E r \in StagingRepos : PushStaging(r)
    \/ \E d \in Sent : Handle(d)
    \/ StartJob \/ FinishJob

Spec == Init /\ [][Next]_vars

\* Hugging Face keeps delivering what was not answered with 200, a handler
\* goes on, and GitHub starts a pending run and ends a running one.
FairSpec ==
    /\ Spec
    /\ \A d \in Ids : WF_vars(d \in Sent /\ Handle(d))
    /\ WF_vars(StartJob) /\ WF_vars(FinishJob)

-----------------------------------------------------------------------------
(***************************************************************************)
(* Properties                                                              *)
(***************************************************************************)

\* "Hugging Face's retry of the delivery does each of them once": a delivery
\* that was answered 503 or 502 and retried posts nothing twice. Only a
\* handler lost after it began to post, or a lost 200, repeats a message.
RetriesNeverRepeatMessages ==
    \A d \in Ids : \A alert \in DOMAIN posted[d] : posted[d][alert] <= 1 + lost[d]

\* Unless Slack refused a message, an answered delivery whose records were
\* compared told every difference between them: the messages and the log,
\* read in the light of the record before, give the record after. A build
\* listed and withdrawn within one update is told as listed only.
ListedAsNew(before, after) ==
    [after EXCEPT !.releases = [r \in DOMAIN after.releases |->
        [after.releases[r] EXCEPT !.builds = [b \in DOMAIN @ |->
            @[b] /\ <<r, b>> \notin NewBuilds(before, after)]]]]

AnsweredDeliveriesTellTheChange ==
    \A d \in Sent :
        /\ phase[d] = "answered" /\ answer[d] = "compared" /\ missed[d] = {}
        /\ Before(d) # None /\ After(d) # None
        => Told(Before(d), DOMAIN posted[d] \cup logged[d]) = ListedAsNew(Before(d), After(d))

\* "the most recently dispatched commit, whose state reconciliation then
\* reads": when every delivery of a release repository is answered and the
\* job of its last dispatch succeeded, its head is reconciled, in whatever
\* order deliveries were retried.
LastDispatch(repo) ==
    LET own == {n \in 1..Len(accepted) : accepted[n].repo = repo}
    IN  IF own = {} THEN 0 ELSE CHOOSE n \in own : \A other \in own : other <= n

LastReconciliationIsOfTheHead ==
    \A r \in ReleaseRepos :
        /\ \A d \in Sent : deliveries[d].repo = r => phase[d] = "answered"
        /\ LastDispatch(r) \in DOMAIN outcome /\ outcome[LastDispatch(r)]
        => reconciled[r] = Len(commits[r])

\* Every delivery is answered with 200 in the end.
DeliveriesAreAnswered == \A d \in Ids : d \in Sent ~> phase[d] = "answered"

\* The dispatch that no later one displaced is run: the slot loses all but
\* the newest.
NewestDispatchRuns ==
    \A n \in 1..(MaxDeliveries + MaxFaults) :
        Len(accepted) = n ~> (Len(accepted) > n \/ n \in DOMAIN outcome)

=============================================================================
