-------------------------- MODULE HfWebhook_proofs --------------------------
(***************************************************************************)
(* Two facts of the webhook for every set of repositories, every number of *)
(* deliveries and every number of faults.                                  *)
(*                                                                         *)
(* Messages: as long as a message is still to be posted, it was shown no   *)
(* more often than handlers or answers of its delivery were lost.          *)
(*                                                                         *)
(* Reconciliation: a dispatch carries the commit of its delivery and joins *)
(* the queue after the push, and a release job reads the head when it      *)
(* starts. So a job sees the commit of every dispatch up to its own, and   *)
(* the last dispatch comes no earlier than the one of the last push.       *)
(***************************************************************************)
EXTENDS HfWebhook, TLAPS

Phases == {"waiting", "dispatching", "alerting", "answered"}
Delivery == [repo : Repos, old : Nat, new : Nat, tag : BOOLEAN]
Dispatch == [repo : Repos, commit : Nat]

QueueType ==
    /\ accepted \in Seq(Dispatch)
    /\ pending \in 0..Len(accepted)
    /\ reconciled \in [Repos -> Nat]
    /\ DOMAIN outcome \subseteq 1..Len(accepted)
    /\ running # None =>
        /\ running.number \in 1..Len(accepted)
        /\ running.repo = accepted[running.number].repo
        /\ running.commit \in Nat

\* The types the proofs need.
TypeInv ==
    /\ commits \in [Repos -> Seq(Record \cup {None, InitialRecord})]
    /\ deliveries \in Seq(Delivery)
    /\ Len(deliveries) <= MaxDeliveries
    /\ phase \in [Ids -> Phases]
    /\ DOMAIN todo = Ids /\ DOMAIN posted = Ids
    /\ lost \in [Ids -> Nat]
    /\ QueueType

LEMMA InitType == Init => TypeInv
  <1> SUFFICES ASSUME Init PROVE TypeInv
    OBVIOUS
  <1>1. <<InitialRecord>> \in Seq(Record \cup {None, InitialRecord})
    OBVIOUS
  <1> QED BY <1>1, DeliveriesAssumption DEF Init, TypeInv, QueueType, Phases

LEMMA EnqueueType ==
  ASSUME TypeInv, NEW repo \in Repos, NEW commit \in Nat, Enqueue(repo, commit)
  PROVE  /\ QueueType'
         /\ Len(accepted) \in Nat /\ Len(accepted') = Len(accepted) + 1
         /\ accepted'[Len(accepted) + 1] = [repo |-> repo, commit |-> commit]
         /\ \A n \in 1..Len(accepted) : accepted'[n] = accepted[n]
  <1>1. [repo |-> repo, commit |-> commit] \in Dispatch
    BY DEF Dispatch
  <1>2. /\ accepted' \in Seq(Dispatch)
        /\ Len(accepted) \in Nat /\ Len(accepted') = Len(accepted) + 1
        /\ accepted'[Len(accepted) + 1] = [repo |-> repo, commit |-> commit]
        /\ \A n \in 1..Len(accepted) : accepted'[n] = accepted[n]
    BY <1>1 DEF TypeInv, QueueType, Enqueue
  <1> QED BY <1>2 DEF TypeInv, QueueType, Enqueue

\* A delivery that is sent is of a repository and its commits.
LEMMA SentType ==
  ASSUME TypeInv, NEW d \in Sent
  PROVE  d \in Ids /\ deliveries[d].repo \in Repos /\ deliveries[d].new \in Nat
  <1>1. deliveries[d] \in Delivery
    BY DEF TypeInv, Sent
  <1>2. d \in Ids
    BY DeliveriesAssumption DEF TypeInv, Sent, Ids
  <1> QED BY <1>1, <1>2 DEF Delivery

\* A push appends a record to its repository and a delivery.
LEMMA PushType ==
  ASSUME TypeInv, NEW r \in Repos, NEW record \in Record \cup {None}
  PROVE  /\ Len(commits[r]) \in Nat
         /\ [commits EXCEPT ![r] = Append(@, record)]
                \in [Repos -> Seq(Record \cup {None, InitialRecord})]
  <1>1. commits[r] \in Seq(Record \cup {None, InitialRecord})
    BY DEF TypeInv
  <1>2. Append(commits[r], record) \in Seq(Record \cup {None, InitialRecord})
    BY <1>1
  <1> QED BY <1>1, <1>2 DEF TypeInv

LEMMA SendType ==
  ASSUME TypeInv, NEW r \in Repos, NEW old \in Nat, NEW new \in Nat, NEW tag \in BOOLEAN,
         Send(r, old, new, tag),
         commits' \in [Repos -> Seq(Record \cup {None, InitialRecord})]
  PROVE  TypeInv'
  <1>1. [repo |-> r, old |-> old, new |-> new, tag |-> tag] \in Delivery
    BY DEF Delivery
  <1>2. deliveries' \in Seq(Delivery) /\ Len(deliveries') = Len(deliveries) + 1
    BY <1>1 DEF Send, TypeInv
  <1>3. Len(deliveries) < MaxDeliveries /\ Len(deliveries) \in Nat
    BY DEF Send, TypeInv
  <1> QED BY <1>2, <1>3, DeliveriesAssumption DEF Send, handling, queue, TypeInv, QueueType

LEMMA NextType == TypeInv /\ [Next]_vars => TypeInv'
  <1> SUFFICES ASSUME TypeInv, [Next]_vars PROVE TypeInv'
    OBVIOUS
  <1> ReleaseRepos \subseteq Repos /\ StagingRepos \subseteq Repos
    BY DEF Repos
  <1>1. ASSUME NEW r \in ReleaseRepos, NEW record \in Record \cup {None}, NEW tag \in BOOLEAN,
               PushRelease(r, record, tag)
        PROVE  TypeInv'
    BY <1>1, PushType, SendType DEF PushRelease
  <1>2. ASSUME NEW r \in ReleaseRepos, PushTag(r) PROVE TypeInv'
    <2>1. PICK tag \in BOOLEAN : Send(r, Len(commits[r]), Len(commits[r]), tag)
      BY <1>2, Zenon DEF PushTag
    <2>2. commits' \in [Repos -> Seq(Record \cup {None, InitialRecord})]
      BY <1>2 DEF PushTag, TypeInv
    <2>3. Len(commits[r]) \in Nat
      BY PushType
    <2> QED BY <2>1, <2>2, <2>3, SendType
  <1>3. ASSUME NEW r \in StagingRepos, PushStaging(r) PROVE TypeInv'
    <2>1. PICK tag \in BOOLEAN : Send(r, Len(commits[r]), Len(commits[r]) + 1, tag)
      BY <1>3, Zenon DEF PushStaging
    <2>2. commits' = [commits EXCEPT ![r] = Append(@, None)]
      BY <1>3, Zenon DEF PushStaging
    <2> QED BY <2>1, <2>2, PushType, SendType
  <1>4. ASSUME NEW d \in Sent, Handle(d) PROVE TypeInv'
    <2>1. d \in Ids /\ deliveries[d].repo \in Repos /\ deliveries[d].new \in Nat
      BY SentType
    <2> USE DEF TypeInv
    <2>2. CASE Compare(d)
      BY <2>2 DEF Compare, queue, Phases, QueueType
    <2>3. CASE CompareFails(d)
      BY <2>3 DEF CompareFails, queue, handling, QueueType
    <2>4. CASE DispatchTreeBuild(d)
      BY <2>1, <2>4, EnqueueType DEF DispatchTreeBuild, Phases
    <2>5. CASE DispatchFails(d)
      <3>1. UNCHANGED queue => QueueType'
        BY DEF queue, QueueType
      <3> QED BY <2>1, <2>5, <3>1, EnqueueType DEF DispatchFails, Phases
    <2>6. ASSUME NEW alert \in todo[d], PostAlert(d, alert) PROVE TypeInv'
      BY <2>6 DEF PostAlert, queue, QueueType
    <2>7. CASE Answer(d)
      BY <2>7 DEF Answer, queue, Phases, QueueType
    <2>8. CASE LoseAnswer(d)
      <3>1. lost[d] + 1 \in Nat /\ lost' = [lost EXCEPT ![d] = lost[d] + 1]
        BY <2>1, <2>8 DEF LoseAnswer
      <3>2. lost' \in [Ids -> Nat]
        BY <3>1
      <3> QED BY <2>1, <2>8, <3>2 DEF LoseAnswer, queue, Phases, QueueType
    <2> QED BY <1>4, <2>2, <2>3, <2>4, <2>5, <2>6, <2>7, <2>8 DEF Handle
  <1>5. CASE StartJob
    <2>1. pending \in 1..Len(accepted)
      BY <1>5 DEF StartJob, TypeInv, QueueType
    <2>2. accepted[pending] \in Dispatch
      BY <2>1 DEF TypeInv, QueueType
    <2>3. Len(commits[accepted[pending].repo]) \in Nat
      BY <2>2, PushType DEF Dispatch
    <2>4. /\ running'.number = pending /\ running'.repo = accepted[pending].repo
          /\ running'.commit \in Nat
      BY <1>5, <2>2, <2>3 DEF StartJob, Dispatch
    <2> QED BY <1>5, <2>1, <2>4 DEF StartJob, handling, TypeInv, QueueType
  <1>6. CASE FinishJob
    <2>1. DOMAIN outcome' \subseteq 1..Len(accepted)
      <3>1. DOMAIN outcome' = DOMAIN outcome \cup {running.number}
        BY <1>6 DEF FinishJob, Put
      <3> QED BY <1>6, <3>1 DEF FinishJob, TypeInv, QueueType
    <2>2. reconciled' \in [Repos -> Nat]
      BY <1>6 DEF FinishJob, TypeInv, QueueType
    <2> QED BY <1>6, <2>1, <2>2 DEF FinishJob, handling, TypeInv, QueueType
  <1>7. CASE UNCHANGED vars
    BY <1>7 DEF vars, handling, queue, TypeInv, QueueType
  <1> QED BY <1>1, <1>2, <1>3, <1>4, <1>5, <1>6, <1>7 DEF Next

-----------------------------------------------------------------------------

\* How often a message was shown, while its delivery may still post it.
MessagesInv ==
    \A d \in Ids : \A a \in DOMAIN posted[d] :
        /\ posted[d][a] \in Nat /\ posted[d][a] <= 1 + lost[d]
        /\ \/ phase[d] \in {"waiting", "dispatching"}
           \/ phase[d] = "alerting" /\ a \in todo[d]
           => posted[d][a] <= lost[d]

LEMMA MessagesStep == TypeInv /\ MessagesInv /\ [Next]_vars => MessagesInv'
  <1> SUFFICES ASSUME TypeInv, MessagesInv, [Next]_vars PROVE MessagesInv'
    OBVIOUS
  <1>1. ASSUME UNCHANGED <<phase, todo, posted, lost>> PROVE MessagesInv'
    BY <1>1 DEF MessagesInv
  <1>2. ASSUME NEW d \in Sent, Handle(d) PROVE MessagesInv'
    <2>1. d \in Ids /\ lost \in [Ids -> Nat] /\ phase \in [Ids -> Phases]
          /\ DOMAIN todo = Ids /\ DOMAIN posted = Ids
      BY SentType DEF TypeInv
    <2> SUFFICES ASSUME NEW e \in Ids, NEW a \in DOMAIN posted'[e]
                 PROVE  /\ posted'[e][a] \in Nat /\ posted'[e][a] <= 1 + lost'[e]
                        /\ \/ phase'[e] \in {"waiting", "dispatching"}
                           \/ phase'[e] = "alerting" /\ a \in todo'[e]
                           => posted'[e][a] <= lost'[e]
      BY DEF MessagesInv
    <2>2. CASE Compare(d)
      BY <2>1, <2>2 DEF Compare, MessagesInv, Phases
    <2>3. CASE CompareFails(d)
      BY <2>1, <2>3 DEF CompareFails, handling, MessagesInv
    <2>4. CASE DispatchTreeBuild(d)
      BY <2>1, <2>4 DEF DispatchTreeBuild, MessagesInv, Phases
    <2>5. CASE DispatchFails(d)
      BY <2>1, <2>5 DEF DispatchFails, MessagesInv, Phases
    <2>6. ASSUME NEW alert \in todo[d], PostAlert(d, alert)
          PROVE  /\ posted'[e][a] \in Nat /\ posted'[e][a] <= 1 + lost'[e]
                 /\ \/ phase'[e] \in {"waiting", "dispatching"}
                    \/ phase'[e] = "alerting" /\ a \in todo'[e]
                    => posted'[e][a] <= lost'[e]
      <3>1. /\ phase' = phase /\ lost' = lost /\ phase[d] = "alerting"
            /\ todo' = [todo EXCEPT ![d] = @ \ {alert}]
            /\ posted' = posted \/
               posted' = [posted EXCEPT ![d] = Put(posted[d], alert, TimesPosted(d, alert) + 1)]
        BY <2>6 DEF PostAlert
      <3>2. CASE posted' = posted
        BY <2>1, <3>1, <3>2 DEF MessagesInv
      <3>3. CASE posted' = [posted EXCEPT ![d] =
                                Put(posted[d], alert, TimesPosted(d, alert) + 1)]
        <4>1. TimesPosted(d, alert) \in Nat /\ TimesPosted(d, alert) <= lost[d]
          BY <2>1, <3>1 DEF MessagesInv, TimesPosted
        <4>2. CASE e = d /\ a = alert
          <5>1. alert \in DOMAIN posted'[d] /\ posted'[d][alert] = TimesPosted(d, alert) + 1
            BY <2>1, <3>3 DEF Put
          <5> QED BY <2>1, <3>1, <4>1, <4>2, <5>1
        <4>3. CASE e = d /\ a # alert
          <5>1. a \in DOMAIN posted[d] /\ posted'[d][a] = posted[d][a]
            BY <2>1, <3>3, <4>3 DEF Put
          <5> QED BY <2>1, <3>1, <4>3, <5>1 DEF MessagesInv
        <4>4. CASE e # d
          BY <2>1, <3>1, <3>3, <4>4 DEF MessagesInv
        <4> QED BY <4>2, <4>3, <4>4
      <3> QED BY <3>1, <3>2, <3>3
    <2>7. CASE Answer(d)
      BY <2>1, <2>7 DEF Answer, MessagesInv, Phases
    <2>8. CASE LoseAnswer(d)
      <3>1. posted' = posted /\ lost'[e] \in Nat /\ lost[e] \in Nat
            /\ (IF e = d THEN lost'[e] = lost[e] + 1 ELSE lost'[e] = lost[e])
        BY <2>1, <2>8 DEF LoseAnswer
      <3>2. e # d => phase'[e] = phase[e] /\ todo'[e] = todo[e]
        BY <2>1, <2>8 DEF LoseAnswer
      <3> QED BY <3>1, <3>2 DEF MessagesInv
    <2> QED BY <1>2, <2>2, <2>3, <2>4, <2>5, <2>6, <2>7, <2>8 DEF Handle
  <1>3. ASSUME NEW r \in ReleaseRepos, NEW record \in Record \cup {None}, NEW tag \in BOOLEAN,
               PushRelease(r, record, tag)
        PROVE  MessagesInv'
    BY <1>1, <1>3 DEF PushRelease, Send, handling
  <1>4. ASSUME NEW r \in ReleaseRepos, PushTag(r) PROVE MessagesInv'
    BY <1>1, <1>4 DEF PushTag, Send, handling
  <1>5. ASSUME NEW r \in StagingRepos, PushStaging(r) PROVE MessagesInv'
    BY <1>1, <1>5 DEF PushStaging, Send, handling
  <1>6. CASE StartJob
    BY <1>1, <1>6 DEF StartJob, handling
  <1>7. CASE FinishJob
    BY <1>1, <1>7 DEF FinishJob, handling
  <1>8. CASE UNCHANGED vars
    BY <1>1, <1>8 DEF vars, handling
  <1> QED BY <1>2, <1>3, <1>4, <1>5, <1>6, <1>7, <1>8 DEF Next

\* A message of a delivery is shown at most once more than its handlers or
\* answers were lost: retries after a 503 or a 502 repeat none, whatever fails
\* and in whatever order deliveries are handled (hf-webhook-handler.ts).
THEOREM MessagesAreNotRepeated == Spec => []RetriesNeverRepeatMessages
  <1>1. Init => MessagesInv
    BY DEF Init, MessagesInv
  <1>2. MessagesInv => RetriesNeverRepeatMessages
    BY DEF MessagesInv, RetriesNeverRepeatMessages
  <1> QED BY <1>1, <1>2, InitType, NextType, MessagesStep, PTL DEF Spec

-----------------------------------------------------------------------------

\* The commit of every dispatch up to n for n's repository is at most c.
Covers(n, c) ==
    \A m \in 1..n : accepted[m].repo = accepted[n].repo => accepted[m].commit <= c

\* How the queue lags behind the repositories.
OrderInv ==
    /\ \A d \in Ids \ Sent : phase[d] = "waiting"
    /\ \A d \in Sent : deliveries[d].new \in 1..Len(commits[deliveries[d].repo])
    /\ \A r \in Repos : Len(commits[r]) = 1
            \/ (\E d \in Sent : deliveries[d].repo = r /\ deliveries[d].new = Len(commits[r]))
    /\ \A n \in 1..Len(accepted) : accepted[n].commit \in 1..Len(commits[accepted[n].repo])
    /\ \A d \in Sent : phase[d] \in {"alerting", "answered"} =>
            \E n \in 1..Len(accepted) :
                accepted[n] = [repo |-> deliveries[d].repo, commit |-> deliveries[d].new]

\* A job reads no less than any dispatch up to its own asked for, and no more
\* than there is; what succeeded is reconciled.
JobsInv ==
    /\ running # None /\ running.repo \in ReleaseRepos =>
        Covers(running.number, running.commit) /\ running.commit <= Len(commits[running.repo])
    /\ \A n \in DOMAIN outcome : outcome[n] /\ accepted[n].repo \in ReleaseRepos =>
        Covers(n, reconciled[accepted[n].repo])
    /\ \A r \in ReleaseRepos : reconciled[r] <= Len(commits[r])

\* Each repository's dispatches have a last one.
HasLast(r) ==
    \/ \A n \in 1..Len(accepted) : accepted[n].repo # r
    \/ \E n \in 1..Len(accepted) : /\ accepted[n].repo = r
            /\ \A m \in 1..Len(accepted) : accepted[m].repo = r => m <= n

LastInv == \A r \in ReleaseRepos : HasLast(r)

QueueInv == OrderInv /\ JobsInv /\ LastInv

LEMMA InitQueue == Init => QueueInv
  <1> SUFFICES ASSUME Init PROVE QueueInv
    OBVIOUS
  <1>1. \A r \in Repos : Len(commits[r]) = 1
    BY DEF Init
  <1>2. ReleaseRepos \subseteq Repos
    BY DEF Repos
  <1>3. OrderInv
    BY <1>1 DEF Init, OrderInv, Sent
  <1>4. JobsInv
    BY <1>1, <1>2 DEF Init, JobsInv
  <1>5. LastInv
    BY DEF Init, LastInv, HasLast
  <1> QED BY <1>3, <1>4, <1>5 DEF QueueInv

\* A repository's history only grows.
Grows == \A r \in Repos : Len(commits[r]) \in Nat /\ Len(commits'[r]) \in Nat
                           /\ Len(commits[r]) <= Len(commits'[r])

\* Jobs and their outcomes stand while histories and the queue grow.
LEMMA JobsStand ==
  ASSUME TypeInv, TypeInv', JobsInv, Grows, running' = running, reconciled' = reconciled,
         outcome' = outcome, Len(accepted) <= Len(accepted'),
         \A n \in 1..Len(accepted) : accepted'[n] = accepted[n]
  PROVE  JobsInv'
  <1>1. ReleaseRepos \subseteq Repos
    BY DEF Repos
  <1>2. Len(accepted) \in Nat /\ Len(accepted') \in Nat
    BY DEF TypeInv, QueueType
  <1>3. ASSUME NEW n \in 1..Len(accepted), NEW c, Covers(n, c)
        PROVE  Covers(n, c)'
    BY <1>2, <1>3 DEF Covers
  <1>4. running # None => running.number \in 1..Len(accepted) /\ running.commit \in Nat
    BY DEF TypeInv, QueueType
  <1>5. DOMAIN outcome \subseteq 1..Len(accepted)
    BY DEF TypeInv, QueueType
  <1>6. reconciled \in [Repos -> Nat]
    BY DEF TypeInv, QueueType
  <1>7. running' # None /\ running'.repo \in ReleaseRepos =>
            Covers(running.number, running.commit)'
            /\ running'.commit <= Len(commits'[running'.repo])
    BY <1>1, <1>3, <1>4 DEF JobsInv, Grows
  <1>8. \A n \in DOMAIN outcome' : outcome'[n] /\ accepted'[n].repo \in ReleaseRepos =>
            Covers(n, reconciled[accepted[n].repo])'
    BY <1>3, <1>5 DEF JobsInv
  <1>9. \A r \in ReleaseRepos : reconciled'[r] <= Len(commits'[r])
    BY <1>1, <1>6 DEF JobsInv, Grows
  <1>10. \A n \in DOMAIN outcome : accepted'[n].repo = accepted[n].repo
    BY <1>5
  <1> QED BY <1>7, <1>8, <1>9, <1>10 DEF JobsInv, Covers

\* A delivery is of what its repository has come to.
LEMMA PushQueue ==
  ASSUME TypeInv, TypeInv', QueueInv, NEW r \in Repos, NEW old \in Nat, NEW tag \in BOOLEAN,
         Send(r, old, Len(commits'[r]), tag),
         \A q \in Repos \ {r} : commits'[q] = commits[q],
         Len(commits[r]) <= Len(commits'[r])
  PROVE  QueueInv'
  <1> DEFINE k == Len(deliveries) + 1
  <1>1. /\ Len(deliveries) \in Nat /\ Len(deliveries) < MaxDeliveries
        /\ Len(deliveries') = k
        /\ deliveries'[k].repo = r /\ deliveries'[k].new = Len(commits'[r])
        /\ \A d \in Sent : deliveries'[d] = deliveries[d]
    BY DEF Send, TypeInv, Sent
  <1>2. k \in Ids \ Sent /\ Sent' = Sent \cup {k}
    BY <1>1, DeliveriesAssumption DEF Ids, Sent
  <1>3. phase' = phase /\ queue' = queue /\ accepted' = accepted
    BY DEF Send, handling, queue
  <1>4. Grows
    <2>1. ASSUME NEW q \in Repos
          PROVE  Len(commits[q]) \in Nat /\ Len(commits'[q]) \in Nat
      BY DEF TypeInv
    <2>2. ASSUME NEW q \in Repos PROVE Len(commits[q]) <= Len(commits'[q])
      BY <2>1
    <2> QED BY <2>1, <2>2 DEF Grows
  <1>5. JobsInv'
    <2>1. /\ JobsInv /\ accepted' = accepted /\ running' = running
          /\ reconciled' = reconciled /\ outcome' = outcome
      BY <1>3 DEF QueueInv, queue
    <2>2. Len(accepted) \in Nat
      BY DEF TypeInv, QueueType
    <2>3. Len(accepted) <= Len(accepted')
      BY <2>1, <2>2
    <2> QED BY <1>4, <2>1, <2>3, JobsStand
  <1>6. LastInv'
    BY <1>3 DEF QueueInv, LastInv, HasLast
  <1>7. \A d \in Ids \ Sent' : phase'[d] = "waiting"
    BY <1>2, <1>3 DEF QueueInv, OrderInv
  <1>8. \A d \in Sent : deliveries[d].repo \in Repos
    BY SentType
  <1>9. Len(commits[r]) \in Nat /\ Len(commits'[r]) \in 1..Len(commits'[r])
    <2>1. Len(commits[r]) \in Nat /\ Len(commits'[r]) \in Nat
      BY <1>4 DEF Grows
    <2>2. CASE Len(commits[r]) = 1
      BY <2>1, <2>2
    <2>3. CASE Len(commits[r]) # 1
      <3>1. PICK d \in Sent : deliveries[d].repo = r /\ deliveries[d].new = Len(commits[r])
        BY <2>3 DEF QueueInv, OrderInv
      <3>2. deliveries[d].new \in 1..Len(commits[r])
        BY <3>1 DEF QueueInv, OrderInv
      <3> QED BY <2>1, <3>1, <3>2
    <2> QED BY <2>2, <2>3
  <1>10. \A d \in Sent' : deliveries'[d].new \in 1..Len(commits'[deliveries'[d].repo])
    <2>1. ASSUME NEW d \in Sent PROVE deliveries'[d].new \in 1..Len(commits'[deliveries'[d].repo])
      <3>1. deliveries'[d] = deliveries[d]
        BY <1>1
      <3>2. deliveries[d].new \in 1..Len(commits[deliveries[d].repo])
        BY DEF QueueInv, OrderInv
      <3>3. PICK q \in Repos : q = deliveries[d].repo
        BY <1>8
      <3>4. /\ Len(commits[q]) \in Nat /\ Len(commits'[q]) \in Nat
            /\ Len(commits[q]) <= Len(commits'[q])
        BY <1>4 DEF Grows
      <3> QED BY <3>1, <3>2, <3>3, <3>4
    <2> QED BY <1>1, <1>2, <1>9, <2>1
  <1>11. \A q \in Repos : Len(commits'[q]) = 1
            \/ \E d \in Sent' : deliveries'[d].repo = q /\ deliveries'[d].new = Len(commits'[q])
    <2>1. ASSUME NEW q \in Repos, q # r
          PROVE  Len(commits'[q]) = 1
            \/ \E d \in Sent' : deliveries'[d].repo = q /\ deliveries'[d].new = Len(commits'[q])
      <3>1. commits'[q] = commits[q]
        BY <2>1
      <3>2. Len(commits[q]) = 1
              \/ \E d \in Sent : deliveries[d].repo = q /\ deliveries[d].new = Len(commits[q])
        BY DEF QueueInv, OrderInv
      <3>3. \A d \in Sent : d \in Sent' /\ deliveries'[d] = deliveries[d]
        BY <1>1, <1>2
      <3> QED BY <3>1, <3>2, <3>3
    <2> QED BY <1>1, <1>2, <2>1
  <1>12. \A n \in 1..Len(accepted') :
            accepted'[n].commit \in 1..Len(commits'[accepted'[n].repo])
    <2>1. \A n \in 1..Len(accepted) : accepted[n].repo \in Repos
      <3>1. \A n \in 1..Len(accepted) : accepted[n] \in Dispatch
        BY DEF TypeInv, QueueType
      <3> QED BY <3>1 DEF Dispatch
    <2> QED BY <1>3, <1>4, <2>1 DEF QueueInv, OrderInv, Grows
  <1>13. \A d \in Sent' : phase'[d] \in {"alerting", "answered"} =>
            \E n \in 1..Len(accepted') :
                accepted'[n] = [repo |-> deliveries'[d].repo, commit |-> deliveries'[d].new]
    <2>1. phase[k] = "waiting"
      BY <1>2 DEF QueueInv, OrderInv
    <2> QED BY <1>1, <1>2, <1>3, <2>1 DEF QueueInv, OrderInv
  <1> QED BY <1>5, <1>6, <1>7, <1>10, <1>11, <1>12, <1>13 DEF QueueInv, OrderInv

\* A dispatch joins the end of the queue.
LEMMA EnqueueQueue ==
  ASSUME TypeInv, TypeInv', QueueInv, NEW d \in Sent,
         Enqueue(deliveries[d].repo, deliveries[d].new),
         UNCHANGED <<commits, deliveries>>,
         \A e \in Ids \ {d} : phase'[e] = phase[e]
  PROVE  QueueInv'
  <1> DEFINE k == Len(accepted) + 1
             new == [repo |-> deliveries[d].repo, commit |-> deliveries[d].new]
  <1>1. d \in Ids /\ deliveries[d].repo \in Repos /\ deliveries[d].new \in Nat
    BY SentType
  <1>2. /\ Len(accepted) \in Nat /\ Len(accepted') = k
        /\ accepted'[k] = new
        /\ \A n \in 1..Len(accepted) : accepted'[n] = accepted[n]
    BY <1>1, EnqueueType
  <1>3. Grows
    BY PushType DEF Grows
  <1>4. JobsInv'
    BY <1>2, <1>3, JobsStand DEF Enqueue, QueueInv
  <1>5. LastInv'
    <2> SUFFICES ASSUME NEW r \in ReleaseRepos PROVE HasLast(r)'
      BY DEF LastInv
    <2>1. CASE r = deliveries[d].repo
      <3>1. k \in 1..Len(accepted') /\ accepted'[k].repo = r
        BY <1>2, <2>1
      <3>2. \A m \in 1..Len(accepted') : m <= k
        BY <1>2
      <3> QED BY <3>1, <3>2 DEF HasLast
    <2>2. CASE r # deliveries[d].repo
      <3>1. HasLast(r)
        BY DEF QueueInv, LastInv
      <3>2. \A n \in 1..Len(accepted') : accepted'[n].repo = r => n \in 1..Len(accepted)
        BY <1>2, <2>2
      <3>3. \A n \in 1..Len(accepted) : n \in 1..Len(accepted') /\ accepted'[n] = accepted[n]
        BY <1>2
      <3> HIDE DEF k, new
      <3> QED BY <3>1, <3>2, <3>3 DEF HasLast
    <2> QED BY <2>1, <2>2
  <1>6. Sent' = Sent
    BY DEF Sent
  <1>7. \A e \in Ids \ Sent' : phase'[e] = "waiting"
    BY <1>6 DEF QueueInv, OrderInv
  <1>8. \A n \in 1..Len(accepted') :
            accepted'[n].commit \in 1..Len(commits'[accepted'[n].repo])
    BY <1>2 DEF QueueInv, OrderInv
  <1>9. \A e \in Sent' : phase'[e] \in {"alerting", "answered"} =>
            \E n \in 1..Len(accepted') :
                accepted'[n] = [repo |-> deliveries'[e].repo, commit |-> deliveries'[e].new]
    <2>1. ASSUME NEW e \in Sent, e # d, phase'[e] \in {"alerting", "answered"}
          PROVE  \E n \in 1..Len(accepted') :
                    accepted'[n] = [repo |-> deliveries[e].repo, commit |-> deliveries[e].new]
      <3>1. phase[e] \in {"alerting", "answered"}
        BY <2>1, SentType
      <3> QED BY <1>2, <3>1 DEF QueueInv, OrderInv
    <2> QED BY <1>2, <1>6, <2>1
  <1> QED BY <1>4, <1>5, <1>6, <1>7, <1>8, <1>9 DEF QueueInv, OrderInv

\* A handler's other steps leave the queue alone.
LEMMA PhaseQueue ==
  ASSUME TypeInv, TypeInv', QueueInv, NEW d \in Sent,
         UNCHANGED <<commits, deliveries, queue>>,
         \A e \in Ids \ {d} : phase'[e] = phase[e],
         phase'[d] \in {"alerting", "answered"} => phase[d] \in {"alerting", "answered"}
  PROVE  QueueInv'
  <1>1. Sent' = Sent /\ Sent \subseteq Ids
    BY SentType DEF Sent
  <1>2. Grows
    BY PushType DEF Grows
  <1>3. JobsInv'
    BY <1>2, JobsStand DEF queue, QueueInv, TypeInv, QueueType
  <1>4. LastInv'
    BY DEF queue, QueueInv, LastInv, HasLast
  <1>5. OrderInv'
    BY <1>1 DEF queue, QueueInv, OrderInv
  <1> QED BY <1>3, <1>4, <1>5 DEF QueueInv

LEMMA StartQueue == TypeInv /\ TypeInv' /\ QueueInv /\ StartJob => QueueInv'
  <1> SUFFICES ASSUME TypeInv, TypeInv', QueueInv, StartJob PROVE QueueInv'
    OBVIOUS
  <1>1. OrderInv' /\ LastInv'
    BY DEF StartJob, handling, QueueInv, OrderInv, LastInv, HasLast, Sent
  <1>2. ReleaseRepos \subseteq Repos /\ ReleaseRepos \cap StagingRepos = {}
    BY ReposAssumption DEF Repos
  <1>3. pending \in 1..Len(accepted)
    BY DEF StartJob, TypeInv, QueueType
  <1>4. running'.number = pending /\ running'.repo = accepted[pending].repo
    BY DEF StartJob
  <1>5. accepted[pending].repo \in ReleaseRepos =>
            running'.commit = Len(commits[accepted[pending].repo])
    BY <1>2 DEF StartJob
  <1>6. accepted[pending].repo \in ReleaseRepos =>
            Covers(pending, Len(commits[accepted[pending].repo]))
    <2>1. ASSUME NEW m \in 1..pending, accepted[m].repo = accepted[pending].repo
          PROVE  accepted[m].commit <= Len(commits[accepted[pending].repo])
      <3>1. m \in 1..Len(accepted)
        BY <1>3
      <3>2. accepted[m].commit \in 1..Len(commits[accepted[m].repo])
        BY <3>1 DEF QueueInv, OrderInv
      <3> QED BY <2>1, <3>2
    <2> QED BY <2>1 DEF Covers
  <1>7. accepted[pending].repo \in ReleaseRepos =>
            Len(commits[accepted[pending].repo]) \in Nat
    BY <1>2, PushType
  <1>8. JobsInv'
    BY <1>4, <1>5, <1>6, <1>7 DEF StartJob, JobsInv, QueueInv, Covers
  <1> QED BY <1>1, <1>8 DEF QueueInv

LEMMA FinishQueue == TypeInv /\ TypeInv' /\ QueueInv /\ FinishJob => QueueInv'
  <1> SUFFICES ASSUME TypeInv, TypeInv', QueueInv, FinishJob PROVE QueueInv'
    OBVIOUS
  <1>1. OrderInv' /\ LastInv'
    BY DEF FinishJob, handling, QueueInv, OrderInv, LastInv, HasLast, Sent
  <1> DEFINE n == running.number
             r == accepted[n].repo
  <1>2. /\ n \in 1..Len(accepted) /\ running.repo = r /\ running.commit \in Nat
        /\ running # None /\ running' = None /\ accepted' = accepted /\ commits' = commits
        /\ Len(accepted) \in Nat /\ DOMAIN outcome \subseteq 1..Len(accepted)
    BY DEF FinishJob, TypeInv, QueueType
  <1>3. r \in Repos /\ reconciled \in [Repos -> Nat] /\ reconciled' \in [Repos -> Nat]
    <2>1. accepted[n] \in Dispatch
      BY <1>2 DEF TypeInv, QueueType
    <2> QED BY <2>1 DEF Dispatch, TypeInv, QueueType
  <1>4. \A q \in Repos : reconciled'[q] = reconciled[q]
            \/ (q = r /\ reconciled'[q] = running.commit /\ reconciled[q] < running.commit)
    <2>1. reconciled' = reconciled \/ reconciled' = [reconciled EXCEPT ![r] =
                IF running.commit > @ THEN running.commit ELSE @]
      BY <1>2 DEF FinishJob
    <2>2. \A q \in Repos : q # r => reconciled'[q] = reconciled[q]
      BY <1>3, <2>1
    <2>3. reconciled'[r] = reconciled[r]
            \/ reconciled'[r] = IF running.commit > reconciled[r] THEN running.commit
                                ELSE reconciled[r]
      BY <1>3, <2>1
    <2>4. reconciled[r] \in Nat /\ running.commit \in Nat
      BY <1>2, <1>3
    <2>5. reconciled'[r] = reconciled[r]
            \/ (reconciled'[r] = running.commit /\ reconciled[r] < running.commit)
      <3>1. CASE running.commit > reconciled[r]
        BY <2>3, <2>4, <3>1
      <3>2. CASE ~(running.commit > reconciled[r])
        BY <2>3, <3>2
      <3> QED BY <3>1, <3>2
    <2> HIDE DEF r
    <2> QED BY <2>2, <2>5
  <1>10. \A q \in Repos : /\ reconciled[q] \in Nat /\ reconciled'[q] \in Nat
                          /\ reconciled[q] <= reconciled'[q]
    <2> SUFFICES ASSUME NEW q \in Repos
                 PROVE  /\ reconciled[q] \in Nat /\ reconciled'[q] \in Nat
                        /\ reconciled[q] <= reconciled'[q]
      OBVIOUS
    <2>1. reconciled[q] \in Nat /\ reconciled'[q] \in Nat
      BY <1>3
    <2>2. reconciled'[q] = reconciled[q] \/ reconciled[q] < reconciled'[q]
      BY <1>4
    <2> QED BY <2>1, <2>2
  <1>5. \A m \in 1..Len(accepted) : accepted[m].repo \in Repos /\ accepted[m].commit \in Nat
    <2>1. \A m \in 1..Len(accepted) : accepted[m] \in Dispatch
      BY DEF TypeInv, QueueType
    <2> QED BY <2>1 DEF Dispatch
  <1>6. \A q \in ReleaseRepos : reconciled'[q] <= Len(commits[q])
    BY <1>2, <1>4 DEF QueueInv, JobsInv, Repos
  <1>7. DOMAIN outcome' = DOMAIN outcome \cup {n}
        /\ \A m \in DOMAIN outcome : m # n => outcome'[m] = outcome[m]
    BY DEF FinishJob, Put
  <1>8. ASSUME NEW m \in DOMAIN outcome', outcome'[m], accepted[m].repo \in ReleaseRepos
        PROVE  Covers(m, reconciled'[accepted[m].repo])
    <2>1. CASE m = n
      <3>1. reconciled' = [reconciled EXCEPT ![r] =
                IF running.commit > @ THEN running.commit ELSE @]
        BY <1>2, <1>8, <2>1 DEF FinishJob, Put
      <3>2. running.commit <= reconciled'[r]
        BY <1>2, <1>3, <3>1
      <3>3. Covers(n, running.commit)
        BY <1>2, <1>8, <2>1 DEF QueueInv, JobsInv
      <3>4. ASSUME NEW k \in 1..n, accepted[k].repo = r
            PROVE  accepted[k].commit <= reconciled'[r]
        <4>1. k \in 1..Len(accepted) /\ accepted[k].commit <= running.commit
          BY <1>2, <3>3, <3>4 DEF Covers
        <4> QED BY <1>2, <1>3, <1>5, <3>2, <4>1
      <3> QED BY <2>1, <3>4 DEF Covers
    <2>2. CASE m # n
      <3>1. m \in DOMAIN outcome /\ outcome[m] /\ m \in 1..Len(accepted)
        BY <1>2, <1>7, <1>8, <2>2
      <3>2. Covers(m, reconciled[accepted[m].repo])
        BY <1>8, <3>1 DEF QueueInv, JobsInv
      <3>3. ASSUME NEW k \in 1..m, accepted[k].repo = accepted[m].repo
            PROVE  accepted[k].commit <= reconciled'[accepted[m].repo]
        <4>1. k \in 1..Len(accepted) /\ accepted[k].commit <= reconciled[accepted[m].repo]
          BY <1>2, <3>1, <3>2, <3>3 DEF Covers
        <4> DEFINE q == accepted[m].repo
        <4>2. q \in Repos /\ accepted[k].commit \in Nat
          BY <1>5, <3>1, <4>1
        <4>3. reconciled[q] \in Nat /\ reconciled'[q] \in Nat /\ reconciled[q] <= reconciled'[q]
          BY <1>10, <4>2
        <4> QED BY <4>1, <4>2, <4>3
      <3> QED BY <3>3 DEF Covers
    <2> QED BY <2>1, <2>2
  <1>9. JobsInv'
    BY <1>2, <1>6, <1>8 DEF JobsInv, Covers
  <1> QED BY <1>1, <1>9 DEF QueueInv

LEMMA QueueStep == TypeInv /\ TypeInv' /\ QueueInv /\ [Next]_vars => QueueInv'
  <1> SUFFICES ASSUME TypeInv, TypeInv', QueueInv, [Next]_vars PROVE QueueInv'
    OBVIOUS
  <1>1. ReleaseRepos \subseteq Repos /\ StagingRepos \subseteq Repos
    BY DEF Repos
  <1>2. ASSUME NEW r \in Repos, NEW record \in Record \cup {None}, NEW tag \in BOOLEAN,
               commits' = [commits EXCEPT ![r] = Append(@, record)],
               Send(r, Len(commits[r]), Len(commits[r]) + 1, tag)
        PROVE  QueueInv'
    <2>1. commits[r] \in Seq(Record \cup {None, InitialRecord}) /\ DOMAIN commits = Repos
      BY DEF TypeInv
    <2>2. Len(commits[r]) \in Nat /\ Len(commits'[r]) = Len(commits[r]) + 1
      BY <1>2, <2>1
    <2>3. \A q \in Repos \ {r} : commits'[q] = commits[q]
      BY <1>2, <2>1
    <2>4. Send(r, Len(commits[r]), Len(commits'[r]), tag)
      BY <1>2, <2>2
    <2> QED BY <2>2, <2>3, <2>4, PushQueue
  <1>3. ASSUME NEW r \in ReleaseRepos, NEW record \in Record \cup {None}, NEW tag \in BOOLEAN,
               PushRelease(r, record, tag)
        PROVE  QueueInv'
    BY <1>1, <1>2, <1>3 DEF PushRelease
  <1>4. ASSUME NEW r \in ReleaseRepos, PushTag(r) PROVE QueueInv'
    <2>1. PICK tag \in BOOLEAN : Send(r, Len(commits[r]), Len(commits[r]), tag)
      BY <1>4, Zenon DEF PushTag
    <2>2. commits' = commits
      BY <1>4 DEF PushTag
    <2>3. Len(commits[r]) \in Nat
      BY <1>1, PushType
    <2> QED BY <1>1, <2>1, <2>2, <2>3, PushQueue
  <1>5. ASSUME NEW r \in StagingRepos, PushStaging(r) PROVE QueueInv'
    <2>1. PICK tag \in BOOLEAN : Send(r, Len(commits[r]), Len(commits[r]) + 1, tag)
      BY <1>5, Zenon DEF PushStaging
    <2>2. commits' = [commits EXCEPT ![r] = Append(@, None)]
      BY <1>5, Zenon DEF PushStaging
    <2> QED BY <1>1, <1>2, <2>1, <2>2
  <1>6. ASSUME NEW d \in Sent, Handle(d) PROVE QueueInv'
    <2>1. d \in Ids /\ phase \in [Ids -> Phases]
      BY SentType DEF TypeInv
    <2>2. CASE Compare(d)
      BY <2>1, <2>2, PhaseQueue DEF Compare
    <2>3. CASE CompareFails(d)
      BY <2>1, <2>3, PhaseQueue DEF CompareFails, handling
    <2>4. CASE DispatchTreeBuild(d)
      BY <2>1, <2>4, EnqueueQueue DEF DispatchTreeBuild
    <2>5. CASE DispatchFails(d)
      BY <2>1, <2>5, EnqueueQueue, PhaseQueue DEF DispatchFails
    <2>6. ASSUME NEW alert \in todo[d], PostAlert(d, alert) PROVE QueueInv'
      BY <2>1, <2>6, PhaseQueue DEF PostAlert
    <2>7. CASE Answer(d)
      BY <2>1, <2>7, PhaseQueue DEF Answer
    <2>8. CASE LoseAnswer(d)
      BY <2>1, <2>8, PhaseQueue DEF LoseAnswer
    <2> QED BY <1>6, <2>2, <2>3, <2>4, <2>5, <2>6, <2>7, <2>8 DEF Handle
  <1>7. CASE StartJob \/ FinishJob
    BY <1>7, StartQueue, FinishQueue
  <1>8. CASE UNCHANGED vars
    <2>1. UNCHANGED <<commits, deliveries, phase, accepted, running, reconciled, outcome>>
      BY <1>8 DEF vars, handling, queue
    <2> QED BY <2>1 DEF QueueInv, OrderInv, JobsInv, LastInv, HasLast, Covers, Sent
  <1> QED BY <1>3, <1>4, <1>5, <1>6, <1>7, <1>8 DEF Next

LEMMA LastIsTheHead == TypeInv /\ QueueInv => LastReconciliationIsOfTheHead
  <1> SUFFICES ASSUME TypeInv, QueueInv, NEW r \in ReleaseRepos,
                      \A d \in Sent : deliveries[d].repo = r => phase[d] = "answered",
                      LastDispatch(r) \in DOMAIN outcome, outcome[LastDispatch(r)]
               PROVE  reconciled[r] = Len(commits[r])
    BY DEF LastReconciliationIsOfTheHead
  <1> DEFINE last == LastDispatch(r)
  <1>1. r \in Repos /\ Len(commits[r]) \in Nat /\ reconciled[r] \in Nat
        /\ reconciled[r] <= Len(commits[r])
    BY PushType DEF Repos, TypeInv, QueueType, QueueInv, JobsInv
  <1>2. last \in 1..Len(accepted)
    BY DEF TypeInv, QueueType
  <1>3. /\ accepted[last].repo = r
        /\ \A m \in 1..Len(accepted) : accepted[m].repo = r => m <= last
    <2> DEFINE own == {m \in 1..Len(accepted) : accepted[m].repo = r}
    <2>1. LastDispatch(r) = IF own = {} THEN 0
                            ELSE CHOOSE n \in own : \A other \in own : other <= n
      BY Zenon DEF LastDispatch
    <2>5. own # {}
      <3>1. Len(accepted) \in Nat
        BY DEF TypeInv, QueueType
      <3> HIDE DEF own
      <3> QED BY <1>2, <2>1, <3>1
    <2>2. HasLast(r)
      BY DEF QueueInv, LastInv
    <2>3. \E n \in own : \A other \in own : other <= n
      BY <2>2, <2>5 DEF HasLast
    <2>4. last \in own /\ \A other \in own : other <= last
      BY <2>1, <2>3, <2>5
    <2> QED BY <2>4
  <1>4. Covers(last, reconciled[r])
    BY <1>3 DEF QueueInv, JobsInv
  <1>5. \A m \in 1..Len(accepted) : accepted[m].repo = r => accepted[m].commit <= reconciled[r]
    <2>1. Len(accepted) \in Nat
      BY DEF TypeInv, QueueType
    <2> QED BY <1>2, <1>3, <1>4, <2>1 DEF Covers
  <1>6. CASE Len(commits[r]) = 1
    <2>1. accepted[last].commit \in 1..Len(commits[r])
      BY <1>2, <1>3 DEF QueueInv, OrderInv
    <2>2. accepted[last].commit <= reconciled[r]
      BY <1>2, <1>3, <1>5
    <2> QED BY <1>1, <1>6, <2>1, <2>2
  <1>7. CASE Len(commits[r]) # 1
    <2>1. PICK d \in Sent : deliveries[d].repo = r /\ deliveries[d].new = Len(commits[r])
      BY <1>1, <1>7 DEF QueueInv, OrderInv
    <2>2. PICK n \in 1..Len(accepted) :
            accepted[n] = [repo |-> deliveries[d].repo, commit |-> deliveries[d].new]
      BY <2>1 DEF QueueInv, OrderInv
    <2>3. Len(commits[r]) <= reconciled[r]
      BY <1>5, <2>1, <2>2
    <2> QED BY <1>1, <2>3
  <1> QED BY <1>6, <1>7

\* When every delivery of a release repository is answered and the job of its
\* last dispatch succeeded, the head of the repository is reconciled: no
\* order of deliveries, retries, displaced dispatches and jobs leaves an older
\* commit as the last word (publish-calibration-tree.yml: the pending slot
\* keeps the most recent dispatch, whose job reads the head).
THEOREM TheHeadIsReconciled == Spec => []LastReconciliationIsOfTheHead
  <1>1. Init => TypeInv /\ QueueInv
    BY InitType, InitQueue
  <1>2. TypeInv /\ QueueInv /\ [Next]_vars => (TypeInv /\ QueueInv)'
    BY NextType, QueueStep
  <1> QED BY <1>1, <1>2, LastIsTheHead, PTL DEF Spec

-----------------------------------------------------------------------------
\* What the messages and the log of one update tell.

\* The messages of each kind, one by one.
Restored(before, after) ==
    {[kind |-> "unwithdrawn", release |-> n[1], build |-> n[2]] :
        n \in Marked(before, TRUE) \cap Marked(after, FALSE)}
Defaulted(before, after) ==
    {[kind |-> "default_changed", to |-> after.default] : d \in {before.default} \ {after.default}}

IsNew(before, after, r, b) == <<r, b>> \in NewBuilds(before, after)
IsWithdrawn(before, after, r, b) == <<r, b>> \in Marked(before, FALSE) \cap Marked(after, TRUE)
IsRestored(before, after, r, b) == <<r, b>> \in Marked(before, TRUE) \cap Marked(after, FALSE)

LEMMA BuildsArePairs ==
  ASSUME NEW before, NEW after
  PROVE  /\ \A n \in NewBuilds(before, after) : n = <<n[1], n[2]>>
         /\ \A record, wanted : \A n \in Marked(record, wanted) : n = <<n[1], n[2]>>
  <1>1. \A record : RecordedBuilds(record) \subseteq Releases \X Builds
    BY DEF RecordedBuilds
  <1>2. \A n \in Releases \X Builds : n = <<n[1], n[2]>>
    OBVIOUS
  <1>3. NewBuilds(before, after) \subseteq Releases \X Builds
    BY <1>1 DEF NewBuilds
  <1>4. \A record, wanted : Marked(record, wanted) \subseteq Releases \X Builds
    BY <1>1 DEF Marked
  <1> QED BY <1>2, <1>3, <1>4

LEMMA PublishedMessages ==
  ASSUME NEW before, NEW after
  PROVE  /\ \A msg \in Published(before, after) :
               /\ msg.kind = "published" /\ IsNew(before, after, msg.release, msg.build)
               /\ msg.current = EntryOf(after, msg.release).current
         /\ \A r, b : IsNew(before, after, r, b) =>
               \E msg \in Published(before, after) :
                  msg.release = r /\ msg.build = b /\ msg.current = EntryOf(after, r).current
  <1>1. ASSUME NEW msg \in Published(before, after)
        PROVE  /\ msg.kind = "published" /\ IsNew(before, after, msg.release, msg.build)
               /\ msg.current = EntryOf(after, msg.release).current
    <2>1. PICK n \in NewBuilds(before, after) :
             msg = [kind |-> "published", release |-> n[1], build |-> n[2],
                    current |-> EntryOf(after, n[1]).current]
      BY <1>1, Zenon DEF Published
    <2>2. <<msg.release, msg.build>> = n /\ msg.kind = "published"
          /\ msg.current = EntryOf(after, msg.release).current
      BY <2>1, BuildsArePairs
    <2> QED BY <2>2 DEF IsNew
  <1>2. ASSUME NEW r, NEW b, IsNew(before, after, r, b)
        PROVE  \E msg \in Published(before, after) :
                  msg.release = r /\ msg.build = b /\ msg.current = EntryOf(after, r).current
    <2> DEFINE n == <<r, b>>
               msg == [kind |-> "published", release |-> n[1], build |-> n[2],
                       current |-> EntryOf(after, n[1]).current]
    <2>1. msg \in Published(before, after)
      BY <1>2, Zenon DEF Published, IsNew
    <2>2. msg.release = r /\ msg.build = b /\ msg.current = EntryOf(after, r).current
      OBVIOUS
    <2> QED BY <2>1, <2>2
  <1> QED BY <1>1, <1>2

LEMMA CurrentMessages ==
  ASSUME NEW before, NEW after
  PROVE  /\ \A msg \in CurrentChanges(before, after) :
               msg.kind = "current_changed" /\ msg.current = EntryOf(after, msg.release).current
         /\ \A r \in DOMAIN after.releases :
               /\ EntryOf(after, r).current # EntryOf(before, r).current
               /\ ~IsNew(before, after, r, EntryOf(after, r).current)
               => \E msg \in CurrentChanges(before, after) :
                     msg.release = r /\ msg.current = EntryOf(after, r).current
  <1> DEFINE changed == {r \in DOMAIN after.releases :
                /\ EntryOf(after, r).current # EntryOf(before, r).current
                /\ <<r, EntryOf(after, r).current>> \notin NewBuilds(before, after)}
             told(r) == [kind |-> "current_changed", release |-> r,
                         from |-> EntryOf(before, r).current, current |-> EntryOf(after, r).current]
  <1>1. CurrentChanges(before, after) = {told(r) : r \in changed}
    BY Zenon DEF CurrentChanges
  <1>2. \A r : /\ told(r).kind = "current_changed" /\ told(r).release = r
               /\ told(r).current = EntryOf(after, r).current
    OBVIOUS
  <1> HIDE DEF told
  <1>3. ASSUME NEW msg \in CurrentChanges(before, after)
        PROVE  msg.kind = "current_changed" /\ msg.current = EntryOf(after, msg.release).current
    <2>1. PICK r \in changed : msg = told(r)
      BY <1>1, <1>3, Zenon
    <2> QED BY <1>2, <2>1
  <1>4. ASSUME NEW r \in changed
        PROVE  \E msg \in CurrentChanges(before, after) :
                     msg.release = r /\ msg.current = EntryOf(after, r).current
    BY <1>1, <1>2, Zenon
  <1> QED BY <1>3, <1>4 DEF IsNew

\* A withdrawal, or the end of one, is told of the builds it is of.
LEMMA FlipMessages ==
  ASSUME NEW before, NEW after
  PROVE  /\ \A msg \in Withdrawals(before, after) :
               /\ msg.kind = "withdrawn"
               /\ IsWithdrawn(before, after, msg.release, msg.build)
         /\ \A r, b : IsWithdrawn(before, after, r, b) =>
               \E msg \in Withdrawals(before, after) : msg.release = r /\ msg.build = b
         /\ \A msg \in Restored(before, after) :
               /\ msg.kind = "unwithdrawn"
               /\ IsRestored(before, after, msg.release, msg.build)
         /\ \A r, b : IsRestored(before, after, r, b) =>
               \E msg \in Restored(before, after) : msg.release = r /\ msg.build = b
  <1> DEFINE Flip(kind, n) == [kind |-> kind, release |-> n[1], build |-> n[2]]
             down == Marked(before, FALSE) \cap Marked(after, TRUE)
             up == Marked(before, TRUE) \cap Marked(after, FALSE)
  <1>1. /\ Withdrawals(before, after) = {Flip("withdrawn", n) : n \in down}
        /\ Restored(before, after) = {Flip("unwithdrawn", n) : n \in up}
    BY Zenon DEF Withdrawals, Restored
  <1>2. \A kind, n : /\ Flip(kind, n).kind = kind
                     /\ Flip(kind, n).release = n[1] /\ Flip(kind, n).build = n[2]
    OBVIOUS
  <1>3. \A n \in down \cup up : n = <<n[1], n[2]>>
    BY BuildsArePairs
  <1>4. \A r, b : <<r, b>>[1] = r /\ <<r, b>>[2] = b
    OBVIOUS
  <1> HIDE DEF Flip, down, up
  <1>5. ASSUME NEW set, NEW kind, NEW n \in set, n = <<n[1], n[2]>>, NEW msg, msg = Flip(kind, n)
        PROVE  msg.kind = kind /\ <<msg.release, msg.build>> \in set
    BY <1>2, <1>5
  <1>6. ASSUME NEW msg \in Withdrawals(before, after)
        PROVE  msg.kind = "withdrawn" /\ <<msg.release, msg.build>> \in down
    <2>1. PICK n \in down : msg = Flip("withdrawn", n)
      BY <1>1, <1>6, Zenon
    <2> QED BY <1>3, <1>5, <2>1
  <1>7. ASSUME NEW msg \in Restored(before, after)
        PROVE  msg.kind = "unwithdrawn" /\ <<msg.release, msg.build>> \in up
    <2>1. PICK n \in up : msg = Flip("unwithdrawn", n)
      BY <1>1, <1>7, Zenon
    <2> QED BY <1>3, <1>5, <2>1
  <1>8. ASSUME NEW r, NEW b, <<r, b>> \in down
        PROVE  \E msg \in Withdrawals(before, after) : msg.release = r /\ msg.build = b
    <2>1. Flip("withdrawn", <<r, b>>) \in Withdrawals(before, after)
      BY <1>1, <1>8, Zenon
    <2> QED BY <1>2, <1>4, <2>1
  <1>9. ASSUME NEW r, NEW b, <<r, b>> \in up
        PROVE  \E msg \in Restored(before, after) : msg.release = r /\ msg.build = b
    <2>1. Flip("unwithdrawn", <<r, b>>) \in Restored(before, after)
      BY <1>1, <1>9, Zenon
    <2> QED BY <1>2, <1>4, <2>1
  <1> QED BY <1>6, <1>7, <1>8, <1>9 DEF down, up, IsWithdrawn, IsRestored

LEMMA DefaultMessages ==
  ASSUME NEW before, NEW after
  PROVE  /\ \A msg \in Defaulted(before, after) :
               msg.kind = "default_changed" /\ msg.to = after.default
         /\ Defaulted(before, after) = {} <=> before.default = after.default
  <1> DEFINE told == [kind |-> "default_changed", to |-> after.default]
  <1>1. told.kind = "default_changed" /\ told.to = after.default
    OBVIOUS
  <1>2. Defaulted(before, after) = {told : d \in {before.default} \ {after.default}}
    BY DEF Defaulted
  <1> HIDE DEF told
  <1>3. \A msg : msg \in Defaulted(before, after) <=>
               before.default # after.default /\ msg = told
    BY <1>2
  <1> QED BY <1>1, <1>3

\* A message of each kind, in any set of messages of an update.
LEMMA SaidKinds ==
  ASSUME NEW before, NEW after, before # None, after # None,
         NEW messages,
         messages \subseteq {TagAlert} \cup ReleaseRecordAlerts(before, after)
                            \cup UnannouncedRecordChanges(before, after),
         ReleaseRecordAlerts(before, after) \subseteq messages,
         UnannouncedRecordChanges(before, after) \subseteq messages
  PROVE  /\ {msg \in messages : msg.kind = "published"} = Published(before, after)
         /\ {msg \in messages : msg.kind = "current_changed"} = CurrentChanges(before, after)
         /\ {msg \in messages : msg.kind = "withdrawn"} = Withdrawals(before, after)
         /\ {msg \in messages : msg.kind = "default_changed"} = Defaulted(before, after)
         /\ {msg \in messages : msg.kind = "unwithdrawn"} = Restored(before, after)
  <1> DEFINE defaults == Defaulted(before, after)
             restored == Restored(before, after)
             all == {TagAlert} \cup Published(before, after) \cup CurrentChanges(before, after)
                    \cup Withdrawals(before, after) \cup defaults \cup restored
  <1>1. /\ \A msg \in Published(before, after) : msg.kind = "published"
        /\ \A msg \in CurrentChanges(before, after) : msg.kind = "current_changed"
        /\ \A msg \in Withdrawals(before, after) : msg.kind = "withdrawn"
        /\ \A msg \in defaults : msg.kind = "default_changed"
        /\ \A msg \in restored : msg.kind = "unwithdrawn"
        /\ TagAlert.kind = "tag"
    BY PublishedMessages, CurrentMessages, FlipMessages, DefaultMessages DEF TagAlert
  <1>2. /\ ReleaseRecordAlerts(before, after) = Published(before, after)
               \cup CurrentChanges(before, after) \cup Withdrawals(before, after)
        /\ UnannouncedRecordChanges(before, after) = defaults \cup restored
    BY Zenon DEF ReleaseRecordAlerts, UnannouncedRecordChanges, Defaulted, Restored
  <1> HIDE DEF defaults, restored
  <1>3. /\ messages \subseteq all
        /\ all \ {TagAlert} \subseteq messages
    BY <1>2
  <1>4. /\ {msg \in messages : msg.kind = "published"} = Published(before, after)
        /\ {msg \in messages : msg.kind = "current_changed"} = CurrentChanges(before, after)
        /\ {msg \in messages : msg.kind = "withdrawn"} = Withdrawals(before, after)
        /\ {msg \in messages : msg.kind = "default_changed"} = defaults
        /\ {msg \in messages : msg.kind = "unwithdrawn"} = restored
    BY <1>1, <1>3
  <1> QED BY <1>4 DEF defaults, restored

\* What a record says of a release and of its builds.
LEMMA RecordType ==
  ASSUME NEW record \in Record
  PROVE  /\ DOMAIN record.releases \subseteq Releases
         /\ record = [default |-> record.default, releases |-> record.releases]
         /\ \A r \in DOMAIN record.releases :
               /\ EntryOf(record, r) = record.releases[r]
               /\ DOMAIN record.releases[r].builds \subseteq Builds
               /\ \A b \in DOMAIN record.releases[r].builds : record.releases[r].builds[b] \in BOOLEAN
               /\ record.releases[r] =
                     [current |-> record.releases[r].current, builds |-> record.releases[r].builds]
         /\ record.releases = [r \in DOMAIN record.releases |-> record.releases[r]]
         /\ \A r, b : <<r, b>> \in RecordedBuilds(record) <=>
               r \in DOMAIN record.releases /\ b \in DOMAIN record.releases[r].builds
         /\ \A n \in RecordedBuilds(record) : n = <<n[1], n[2]>>
  <1>1. /\ record.releases \in Listed(Releases, ReleaseEntry)
        /\ record = [default |-> record.default, releases |-> record.releases]
    BY DEF Record
  <1>2. PICK D \in SUBSET Releases : record.releases \in [D -> ReleaseEntry]
    BY <1>1 DEF Listed
  <1>3. \A entry \in ReleaseEntry :
            /\ entry.builds \in Listed(Builds, BOOLEAN)
            /\ entry = [current |-> entry.current, builds |-> entry.builds]
    BY DEF ReleaseEntry
  <1>4. \A f \in Listed(Builds, BOOLEAN) :
            DOMAIN f \subseteq Builds /\ \A b \in DOMAIN f : f[b] \in BOOLEAN
    BY DEF Listed
  <1>5. \A r \in DOMAIN record.releases : record.releases[r] \in ReleaseEntry
    BY <1>2
  <1>6. \A r, b : <<r, b>> \in RecordedBuilds(record) <=>
               r \in DOMAIN record.releases /\ b \in DOMAIN record.releases[r].builds
    <2>1. DOMAIN Absent.builds = {}
      BY DEF Absent
    <2> QED BY <1>2, <1>3, <1>4, <1>5, <2>1 DEF RecordedBuilds, EntryOf
  <1>7. \A n \in RecordedBuilds(record) : n = <<n[1], n[2]>>
    BY DEF RecordedBuilds
  <1> QED BY <1>1, <1>2, <1>3, <1>4, <1>5, <1>6, <1>7 DEF EntryOf

\* The messages and the log of an update together tell every difference.
LEMMA UpdateIsTold ==
  ASSUME NEW before \in Record, NEW after \in Record, before # None, after # None,
         KeepsListed(before, after), NEW messages,
         messages \subseteq {TagAlert} \cup ReleaseRecordAlerts(before, after)
                            \cup UnannouncedRecordChanges(before, after),
         ReleaseRecordAlerts(before, after) \subseteq messages,
         UnannouncedRecordChanges(before, after) \subseteq messages
  PROVE  Told(before, messages) = ListedAsNew(before, after)
  <1> DEFINE Said(kind) == {msg \in messages : msg.kind = kind}
             New(r) == {msg.build : msg \in {p \in Said("published") : p.release = r}}
             Cur(r) == {msg.current : msg \in {p \in Said("published") \cup Said("current_changed") :
                                                 p.release = r}}
             Flips(kind, r) == {msg.build : msg \in {p \in Said(kind) : p.release = r}}
             Names == DOMAIN before.releases \cup {p.release : p \in Said("published")}
             Default == IF Said("default_changed") = {} THEN before.default
                        ELSE (CHOOSE msg \in Said("default_changed") : TRUE).to
             Current(r) == IF Cur(r) = {} THEN EntryOf(before, r).current
                           ELSE CHOOSE c \in Cur(r) : TRUE
             Was(r) == EntryOf(before, r).builds
             Withdrawn(r, b) == IF b \in New(r) \/ b \in Flips("unwithdrawn", r) THEN FALSE
                                ELSE Was(r)[b] \/ b \in Flips("withdrawn", r)
  <1>1. Told(before, messages) =
          [default |-> Default,
           releases |-> [r \in Names |->
               [current |-> Current(r),
                builds |-> [b \in DOMAIN Was(r) \cup New(r) |-> Withdrawn(r, b)]]]]
    BY DEF Told
  <1>2. /\ Said("published") = Published(before, after)
        /\ Said("current_changed") = CurrentChanges(before, after)
        /\ Said("withdrawn") = Withdrawals(before, after)
        /\ Said("default_changed") = Defaulted(before, after)
        /\ Said("unwithdrawn") = Restored(before, after)
    BY SaidKinds
  <1> HIDE DEF Said
  <1>a. \A msg \in Said("published") :
            /\ IsNew(before, after, msg.release, msg.build)
            /\ msg.current = EntryOf(after, msg.release).current
    <2>1. \A msg \in Published(before, after) :
              /\ IsNew(before, after, msg.release, msg.build)
              /\ msg.current = EntryOf(after, msg.release).current
      BY PublishedMessages
    <2> QED BY <1>2, <2>1
  <1>b. \A r, b : IsNew(before, after, r, b) =>
            \E msg \in Said("published") :
               msg.release = r /\ msg.build = b /\ msg.current = EntryOf(after, r).current
    <2>1. \A r, b : IsNew(before, after, r, b) =>
              \E msg \in Published(before, after) :
                 msg.release = r /\ msg.build = b /\ msg.current = EntryOf(after, r).current
      BY PublishedMessages
    <2> QED BY <1>2, <2>1
  <1>c. \A msg \in Said("current_changed") : msg.current = EntryOf(after, msg.release).current
    <2>1. \A msg \in CurrentChanges(before, after) : msg.current = EntryOf(after, msg.release).current
      BY CurrentMessages
    <2> QED BY <1>2, <2>1
  <1>d. /\ \A msg \in Said("withdrawn") :
               IsWithdrawn(before, after, msg.release, msg.build)
        /\ \A msg \in Said("unwithdrawn") :
               IsRestored(before, after, msg.release, msg.build)
    <2>1. /\ \A msg \in Withdrawals(before, after) :
                 IsWithdrawn(before, after, msg.release, msg.build)
          /\ \A msg \in Restored(before, after) :
                 IsRestored(before, after, msg.release, msg.build)
      BY FlipMessages
    <2> QED BY <1>2, <2>1
  <1>e. \A r, b : IsWithdrawn(before, after, r, b) =>
            \E msg \in Said("withdrawn") : msg.release = r /\ msg.build = b
    <2>1. \A r, b : IsWithdrawn(before, after, r, b) =>
              \E msg \in Withdrawals(before, after) : msg.release = r /\ msg.build = b
      BY FlipMessages
    <2> QED BY <1>2, <2>1
  <1>f. \A r, b : IsRestored(before, after, r, b) =>
            \E msg \in Said("unwithdrawn") : msg.release = r /\ msg.build = b
    <2>1. \A r, b : IsRestored(before, after, r, b) =>
              \E msg \in Restored(before, after) : msg.release = r /\ msg.build = b
      BY FlipMessages
    <2> QED BY <1>2, <2>1
  <1>3. Default = after.default
    <2>1. CASE before.default = after.default
      BY <1>2, <2>1, DefaultMessages
    <2>2. CASE before.default # after.default
      <3>1. (CHOOSE msg \in Said("default_changed") : TRUE) \in Said("default_changed")
        <4>1. Said("default_changed") # {}
          BY <1>2, <2>2, DefaultMessages
        <4> QED BY <4>1
      <3> QED BY <1>2, <2>2, <3>1, DefaultMessages
    <2> QED BY <2>1, <2>2
  <1>4. \A r, b : IsNew(before, after, r, b) <=>
            <<r, b>> \in RecordedBuilds(after) /\ <<r, b>> \notin RecordedBuilds(before)
    BY DEF NewBuilds, IsNew
  <1>5. \A n \in NewBuilds(before, after) : n = <<n[1], n[2]>>
    BY RecordType DEF NewBuilds
  <1>6. \A r, b : b \in New(r) <=> IsNew(before, after, r, b)
    <2> SUFFICES ASSUME NEW r, NEW b
                 PROVE  b \in New(r) <=> IsNew(before, after, r, b)
      OBVIOUS
    <2>1. b \in New(r) <=> \E msg \in Said("published") : msg.release = r /\ msg.build = b
      BY Zenon
    <2> HIDE DEF New
    <2> QED BY <1>a, <1>b, <2>1
  <1>7. Names = DOMAIN after.releases
    <2>1. \A r : r \in {p.release : p \in Said("published")} <=>
                 \E b : IsNew(before, after, r, b)
      <3> SUFFICES ASSUME NEW r
                   PROVE  r \in {p.release : p \in Said("published")} <=>
                             \E b : IsNew(before, after, r, b)
        OBVIOUS
      <3>1. r \in {p.release : p \in Said("published")} <=>
               \E msg \in Said("published") : msg.release = r
        BY Zenon
      <3> HIDE DEF Names
      <3> QED BY <1>a, <1>b, <3>1
    <2>2. \A r \in DOMAIN after.releases \ DOMAIN before.releases :
             \E b : IsNew(before, after, r, b)
      <3> SUFFICES ASSUME NEW r \in DOMAIN after.releases \ DOMAIN before.releases
                   PROVE  \E b : IsNew(before, after, r, b)
        OBVIOUS
      <3>1. PICK b : b \in DOMAIN after.releases[r].builds
        BY DEF KeepsListed
      <3>2. <<r, b>> \in RecordedBuilds(after) /\ <<r, b>> \notin RecordedBuilds(before)
        BY <3>1, RecordType
      <3> QED BY <1>4, <3>2
    <2>3. \A r, b : IsNew(before, after, r, b) => r \in DOMAIN after.releases
      BY <1>4, RecordType
    <2> QED BY <2>1, <2>2, <2>3 DEF KeepsListed
  <1>8. ASSUME NEW r \in DOMAIN after.releases
        PROVE  Current(r) = after.releases[r].current
    <2>1. EntryOf(after, r) = after.releases[r]
      BY RecordType
    <2>2. Cur(r) \subseteq {after.releases[r].current}
      <3> SUFFICES ASSUME NEW c \in Cur(r) PROVE c = after.releases[r].current
        OBVIOUS
      <3>1. PICK msg \in Said("published") \cup Said("current_changed") :
                msg.release = r /\ msg.current = c
        BY Zenon
      <3>2. msg.current = EntryOf(after, msg.release).current
        BY <1>a, <1>c
      <3> QED BY <2>1, <3>1, <3>2
    <2>3. CASE EntryOf(before, r).current = after.releases[r].current
      BY <2>2, <2>3
    <2>4. CASE EntryOf(before, r).current # after.releases[r].current
      <3>1. after.releases[r].current \in Cur(r)
        <4>1. CASE IsNew(before, after, r, after.releases[r].current)
          <5>1. \E msg \in Said("published") :
                   msg.release = r /\ msg.current = after.releases[r].current
            BY <1>2, <2>1, <4>1, PublishedMessages
          <5> QED BY <5>1
        <4>2. CASE ~IsNew(before, after, r, after.releases[r].current)
          <5>1. \E msg \in Said("current_changed") :
                   msg.release = r /\ msg.current = after.releases[r].current
            BY <1>2, <2>1, <2>4, <4>2, CurrentMessages
          <5> QED BY <5>1
        <4> QED BY <4>1, <4>2
      <3> QED BY <2>2, <3>1
    <2> QED BY <2>3, <2>4
  <1>9. /\ \A r, b : b \in Flips("withdrawn", r) <=>
               IsWithdrawn(before, after, r, b)
        /\ \A r, b : b \in Flips("unwithdrawn", r) <=>
               IsRestored(before, after, r, b)
    <2>1. ASSUME NEW kind, NEW r, NEW b
          PROVE  b \in Flips(kind, r) <=> \E msg \in Said(kind) : msg.release = r /\ msg.build = b
      BY Zenon
    <2> HIDE DEF Flips
    <2>2. ASSUME NEW r, NEW b
          PROVE  b \in Flips("withdrawn", r) <=>
                    IsWithdrawn(before, after, r, b)
      <3> HIDE DEF Flips
      <3> QED BY <1>d, <1>e, <2>1
    <2>3. ASSUME NEW r, NEW b
          PROVE  b \in Flips("unwithdrawn", r) <=>
                    IsRestored(before, after, r, b)
      <3> HIDE DEF Flips
      <3> QED BY <1>d, <1>f, <2>1
    <2> QED BY <2>2, <2>3
  <1> HIDE DEF Default, Names, New, Cur, Flips, Current
  <1>10. ASSUME NEW r \in DOMAIN after.releases
         PROVE  DOMAIN Was(r) \cup New(r) = DOMAIN after.releases[r].builds
    <2>1. \A b : b \in DOMAIN Was(r) <=> <<r, b>> \in RecordedBuilds(before)
      <3>1. DOMAIN Absent.builds = {}
        BY DEF Absent
      <3> QED BY <3>1, RecordType DEF EntryOf
    <2>2. \A b : b \in DOMAIN after.releases[r].builds <=> <<r, b>> \in RecordedBuilds(after)
      BY RecordType
    <2> QED BY <1>4, <1>6, <2>1, <2>2 DEF KeepsListed
  <1>11. ASSUME NEW r \in DOMAIN after.releases, NEW b \in DOMAIN after.releases[r].builds
         PROVE  Withdrawn(r, b) =
                   (after.releases[r].builds[b] /\ ~IsNew(before, after, r, b))
    <2>1. after.releases[r].builds[b] \in BOOLEAN /\ <<r, b>> \in RecordedBuilds(after)
          /\ EntryOf(after, r) = after.releases[r]
      BY RecordType
    <2>2. CASE IsNew(before, after, r, b)
      BY <1>6, <2>2
    <2>3. CASE ~IsNew(before, after, r, b)
      <3>1. b \notin New(r) /\ <<r, b>> \in RecordedBuilds(before)
        BY <1>4, <1>6, <2>1, <2>3
      <3>2. Was(r)[b] \in BOOLEAN
        BY <3>1, RecordType
      <3>3. /\ IsWithdrawn(before, after, r, b) <=> ~Was(r)[b] /\ after.releases[r].builds[b]
            /\ IsRestored(before, after, r, b) <=> Was(r)[b] /\ ~after.releases[r].builds[b]
        <4>1. \A wanted \in BOOLEAN :
                 /\ <<r, b>> \in Marked(before, wanted) <=> Was(r)[b] = wanted
                 /\ <<r, b>> \in Marked(after, wanted) <=> after.releases[r].builds[b] = wanted
          BY <2>1, <3>1 DEF Marked
        <4> QED BY <2>1, <3>2, <4>1 DEF IsWithdrawn, IsRestored
      <3> QED BY <1>9, <2>1, <2>3, <3>1, <3>2, <3>3
    <2> QED BY <2>2, <2>3
  <1> HIDE DEF Withdrawn, Was
  <1>12. ListedAsNew(before, after) =
          [default |-> after.default,
           releases |-> [r \in DOMAIN after.releases |->
               [current |-> after.releases[r].current,
                builds |-> [b \in DOMAIN after.releases[r].builds |->
                    after.releases[r].builds[b] /\ ~IsNew(before, after, r, b)]]]]
    <2> DEFINE rest(r) == [after.releases[r] EXCEPT !.builds = [b \in DOMAIN @ |->
                              @[b] /\ ~IsNew(before, after, r, b)]]
               told(r) == [b \in DOMAIN after.releases[r].builds |->
                    after.releases[r].builds[b] /\ ~IsNew(before, after, r, b)]
    <2>1. ASSUME NEW r \in DOMAIN after.releases
          PROVE  rest(r) = [current |-> after.releases[r].current, builds |-> told(r)]
      <3>1. after.releases[r] =
                [current |-> after.releases[r].current, builds |-> after.releases[r].builds]
        BY RecordType
      <3> DEFINE c == after.releases[r].current
                 f == after.releases[r].builds
      <3>3. after.releases[r] = [current |-> c, builds |-> f]
        BY <3>1
      <3>4. rest(r) = [after.releases[r] EXCEPT !.builds = told(r)]
        BY Zenon
      <3> HIDE DEF rest, told, c, f
      <3>5. rest(r) = [current |-> c, builds |-> told(r)]
        BY <3>3, <3>4
      <3> QED BY <3>5 DEF c
    <2>2. ListedAsNew(before, after) =
             [after EXCEPT !.releases = [r \in DOMAIN after.releases |-> rest(r)]]
      BY DEF ListedAsNew, IsNew
    <2>3. after = [default |-> after.default, releases |-> after.releases]
      BY RecordType
    <2> HIDE DEF rest, told
    <2>4. ListedAsNew(before, after) =
             [default |-> after.default, releases |-> [r \in DOMAIN after.releases |-> rest(r)]]
      BY <2>2, <2>3
    <2>5. [r \in DOMAIN after.releases |-> rest(r)] =
             [r \in DOMAIN after.releases |->
                 [current |-> after.releases[r].current, builds |-> told(r)]]
      BY <2>1
    <2> QED BY <2>4, <2>5 DEF told
  <1>13. ASSUME NEW r \in DOMAIN after.releases
         PROVE  [b \in DOMAIN Was(r) \cup New(r) |-> Withdrawn(r, b)] =
                [b \in DOMAIN after.releases[r].builds |->
                    after.releases[r].builds[b] /\ ~IsNew(before, after, r, b)]
    BY <1>10, <1>11, Zenon
  <1> QED BY <1>1, <1>3, <1>7, <1>8, <1>12, <1>13

-----------------------------------------------------------------------------
\* What an answered delivery told.

Alerts(d) == ReleaseRecordAlerts(Before(d), After(d))
Changes(d) == UnannouncedRecordChanges(Before(d), After(d))

At(history, n) == IF n = 0 THEN None ELSE history[n]

\* One update of a record, or none.
IsUpdate(before, after) ==
    None \in {before, after} \/ (before \in Record /\ after \in Record /\ KeepsListed(before, after))

UpdateInv(d) ==
    /\ deliveries[d].old <= Len(commits[deliveries[d].repo])
    /\ deliveries[d].new <= Len(commits[deliveries[d].repo])
    /\ IsUpdate(Before(d), After(d))

\* A delivery tells nothing but its update, and all of it once it has
\* dispatched with the records compared: what was posted, what is to be
\* posted and what Slack refused are then all the messages.
TellInv(d) ==
    /\ DOMAIN posted[d] \subseteq {TagAlert} \cup Alerts(d)
    /\ todo[d] \subseteq {TagAlert} \cup Alerts(d)
    /\ logged[d] \subseteq Changes(d)
    /\ phase[d] \in {"alerting", "answered"} /\ answer[d] = "compared" =>
          /\ Alerts(d) \subseteq todo[d] \cup DOMAIN posted[d] \cup missed[d]
          /\ logged[d] = Changes(d)
    /\ phase[d] = "answered" => todo[d] = {}

Untold(d) == DOMAIN posted[d] = {} /\ todo[d] = {} /\ logged[d] = {}

ToldInv ==
    /\ DOMAIN answer = Ids /\ DOMAIN logged = Ids /\ DOMAIN missed = Ids
    /\ \A d \in Sent : UpdateInv(d) /\ TellInv(d)
    /\ \A d \in Ids \ Sent : Untold(d)

LEMMA CommitsAreRecords ==
  ASSUME TypeInv, NEW r \in Repos, NEW n \in Nat, n <= Len(commits[r])
  PROVE  RecordAt(r, n) \in Record \cup {None}
  <1>1. commits[r] \in Seq(Record \cup {None, InitialRecord})
    BY DEF TypeInv
  <1>2. CASE n = 0
    BY <1>2 DEF RecordAt
  <1>3. CASE n # 0
    BY <1>1, <1>3, RecordsAssumption DEF RecordAt
  <1> QED BY <1>2, <1>3

LEMMA SameIsUpdate ==
  ASSUME NEW record \in Record \cup {None}
  PROVE  IsUpdate(record, record)
  BY DEF IsUpdate, KeepsListed

\* What was sent stands while a repository's history grows, and the new
\* delivery has told nothing yet.
LEMMA PushTold ==
  ASSUME TypeInv, QueueInv, ToldInv, NEW r \in Repos, NEW old \in Nat, NEW new \in Nat,
         NEW tag \in BOOLEAN, Send(r, old, new, tag),
         \A q \in Repos : /\ Len(commits'[q]) \in Nat /\ Len(commits[q]) <= Len(commits'[q])
                          /\ \A n \in 1..Len(commits[q]) : commits'[q][n] = commits[q][n],
         old <= Len(commits'[r]), new <= Len(commits'[r]),
         IsUpdate(At(commits'[r], old), At(commits'[r], new))
  PROVE  ToldInv'
  <1>0. PICK k \in Nat : k = Len(deliveries) + 1
    BY DEF TypeInv
  <1>1. /\ Len(deliveries) \in Nat /\ Len(deliveries) < MaxDeliveries
        /\ Len(deliveries') = k
        /\ deliveries'[k].repo = r /\ deliveries'[k].old = old /\ deliveries'[k].new = new
        /\ \A d \in Sent : deliveries'[d] = deliveries[d]
    BY <1>0 DEF Send, TypeInv, Sent
  <1>2. k \in Ids \ Sent /\ Sent' = Sent \cup {k}
    BY <1>0, <1>1, DeliveriesAssumption DEF Ids, Sent
  <1>3. UNCHANGED <<phase, todo, answer, posted, logged, missed>>
    BY DEF Send, handling
  <1>4. ASSUME NEW d \in Sent PROVE (UpdateInv(d) /\ TellInv(d))'
    <2>1. deliveries[d] \in Delivery
      BY DEF TypeInv, Sent
    <2>2. /\ deliveries[d].repo \in Repos /\ deliveries[d].old \in Nat /\ deliveries[d].new \in Nat
          /\ deliveries[d].old <= Len(commits[deliveries[d].repo])
          /\ deliveries[d].new <= Len(commits[deliveries[d].repo])
          /\ Len(commits[deliveries[d].repo]) \in Nat
      BY <2>1, PushType DEF Delivery, ToldInv, UpdateInv
    <2>3. Before(d)' = Before(d) /\ After(d)' = After(d)
      <3>1. ASSUME NEW q \in Repos, NEW n \in Nat, n <= Len(commits[q])
            PROVE  At(commits'[q], n) = At(commits[q], n)
        <4>1. n # 0 => n \in 1..Len(commits[q])
          BY <2>2, <3>1
        <4> QED BY <4>1 DEF At
      <3>2. deliveries'[d] = deliveries[d]
        BY <1>1
      <3>3. /\ At(commits'[deliveries[d].repo], deliveries[d].old)
                   = At(commits[deliveries[d].repo], deliveries[d].old)
            /\ At(commits'[deliveries[d].repo], deliveries[d].new)
                   = At(commits[deliveries[d].repo], deliveries[d].new)
        BY <2>2, <3>1
      <3> QED BY <3>2, <3>3 DEF Before, After, RecordAt, At
    <2>4. UpdateInv(d)'
      <3>1. /\ deliveries'[d] = deliveries[d] /\ IsUpdate(Before(d), After(d))
            /\ Len(commits'[deliveries[d].repo]) \in Nat
            /\ Len(commits[deliveries[d].repo]) <= Len(commits'[deliveries[d].repo])
        BY <1>1, <2>2 DEF ToldInv, UpdateInv
      <3> QED BY <2>2, <2>3, <3>1 DEF UpdateInv
    <2>5. Alerts(d)' = Alerts(d) /\ Changes(d)' = Changes(d)
      BY <2>3 DEF Alerts, Changes
    <2>6. TellInv(d)'
      BY <1>3, <2>5 DEF ToldInv, TellInv
    <2> QED BY <2>4, <2>6
  <1>5. (UpdateInv(k) /\ TellInv(k))'
    <2>1. UpdateInv(k)'
      BY <1>1 DEF UpdateInv, Before, After, RecordAt, At
    <2>2. Untold(k) /\ phase[k] = "waiting"
      BY <1>2 DEF ToldInv, QueueInv, OrderInv
    <2>3. TellInv(k)'
      BY <1>3, <2>2 DEF Untold, TellInv
    <2> QED BY <2>1, <2>3
  <1>6. \A d \in Ids \ Sent' : Untold(d)'
    BY <1>2, <1>3 DEF ToldInv, Untold
  <1> QED BY <1>2, <1>3, <1>4, <1>5, <1>6 DEF ToldInv

LEMMA AppendTold ==
  ASSUME TypeInv, QueueInv, ToldInv, NEW r \in Repos, NEW record \in Record \cup {None},
         NEW tag \in BOOLEAN, commits' = [commits EXCEPT ![r] = Append(@, record)],
         Send(r, Len(commits[r]), Len(commits[r]) + 1, tag),
         IsUpdate(RecordAt(r, Len(commits[r])), record)
  PROVE  ToldInv'
  <1> DEFINE head == Len(commits[r])
  <1>1. /\ \A q \in Repos : commits[q] \in Seq(Record \cup {None, InitialRecord})
        /\ DOMAIN commits = Repos /\ head \in Nat
    BY PushType DEF TypeInv
  <1>2. /\ Len(commits'[r]) = head + 1 /\ commits'[r][head + 1] = record
        /\ \A n \in 1..head : commits'[r][n] = commits[r][n]
        /\ \A q \in Repos : q # r => commits'[q] = commits[q]
    BY <1>1
  <1>3. \A q \in Repos : /\ Len(commits'[q]) \in Nat /\ Len(commits[q]) <= Len(commits'[q])
                         /\ \A n \in 1..Len(commits[q]) : commits'[q][n] = commits[q][n]
    <2> SUFFICES ASSUME NEW q \in Repos
                 PROVE  /\ Len(commits'[q]) \in Nat /\ Len(commits[q]) <= Len(commits'[q])
                        /\ \A n \in 1..Len(commits[q]) : commits'[q][n] = commits[q][n]
      OBVIOUS
    <2>1. CASE q = r
      BY <1>1, <1>2, <2>1
    <2>2. CASE q # r
      BY <1>1, <1>2, <2>2
    <2> QED BY <2>1, <2>2
  <1>4. At(commits'[r], head) = RecordAt(r, head) /\ At(commits'[r], head + 1) = record
    <2>1. head # 0 => head \in 1..head
      BY <1>1
    <2> QED BY <1>1, <1>2, <2>1 DEF RecordAt, At
  <1>5. head <= Len(commits'[r]) /\ head + 1 <= Len(commits'[r]) /\ head + 1 \in Nat
    BY <1>1, <1>2
  <1> QED BY <1>1, <1>3, <1>4, <1>5, PushTold

\* A step of the handler of d changes only what is kept for d.
LEMMA HandlerTold ==
  ASSUME TypeInv, QueueInv, ToldInv, NEW d \in Sent, Handle(d)
  PROVE  ToldInv'
  <1>1. /\ d \in Ids /\ DOMAIN todo = Ids /\ DOMAIN posted = Ids /\ phase \in [Ids -> Phases]
        /\ DOMAIN answer = Ids /\ DOMAIN logged = Ids /\ DOMAIN missed = Ids
        /\ UpdateInv(d) /\ TellInv(d)
    BY SentType DEF TypeInv, ToldInv
  <1>2. UNCHANGED <<commits, deliveries>>
    BY DEF Handle, Compare, CompareFails, DispatchTreeBuild, DispatchFails, PostAlert, Answer,
           LoseAnswer
  <1>3. /\ DOMAIN answer' = Ids /\ DOMAIN logged' = Ids /\ DOMAIN missed' = Ids
        /\ \A e \in Ids : e # d =>
              /\ posted'[e] = posted[e] /\ todo'[e] = todo[e] /\ logged'[e] = logged[e]
              /\ missed'[e] = missed[e] /\ phase'[e] = phase[e] /\ answer'[e] = answer[e]
    BY <1>1 DEF Handle, Compare, CompareFails, DispatchTreeBuild, DispatchFails, PostAlert, Answer,
                LoseAnswer, handling
  <1>4. \A e \in Sent : UpdateInv(e)' /\ Alerts(e)' = Alerts(e) /\ Changes(e)' = Changes(e)
    BY <1>2 DEF ToldInv, UpdateInv, Alerts, Changes, Before, After, RecordAt
  <1>5. TellInv(d)'
    <2> USE <1>1, <1>4 DEF TellInv
    <2>1. CASE Compare(d)
      BY <2>1 DEF Compare
    <2>2. CASE CompareFails(d)
      BY <2>2 DEF CompareFails, handling
    <2>3. CASE DispatchTreeBuild(d)
      <3>1. /\ posted' = posted /\ answer' = answer /\ missed' = missed
            /\ phase'[d] = "alerting"
            /\ todo'[d] = TagAlerts(d) \cup RecordAlerts(d)
            /\ logged'[d] = IF answer[d] = "compared" THEN Changes(d) ELSE logged[d]
        BY <2>3 DEF DispatchTreeBuild, Changes
      <3>2. /\ TagAlerts(d) \subseteq {TagAlert}
            /\ RecordAlerts(d) = IF answer[d] = "compared" THEN Alerts(d) ELSE {}
        BY DEF TagAlerts, RecordAlerts, Alerts
      <3> QED BY <3>1, <3>2
    <2>4. CASE DispatchFails(d)
      BY <2>4 DEF DispatchFails
    <2>5. ASSUME NEW alert \in todo[d], PostAlert(d, alert) PROVE TellInv(d)'
      <3>1. /\ todo'[d] = todo[d] \ {alert} /\ phase[d] = "alerting" /\ phase' = phase
            /\ answer' = answer /\ logged' = logged
        BY <2>5 DEF PostAlert
      <3>2. \/ DOMAIN posted'[d] = DOMAIN posted[d] \cup {alert} /\ missed' = missed
            \/ posted' = posted /\ missed'[d] = missed[d] \cup {alert}
        BY <2>5 DEF PostAlert, Put
      <3> QED BY <3>1, <3>2
    <2>6. CASE Answer(d)
      BY <2>6 DEF Answer
    <2>7. CASE LoseAnswer(d)
      BY <2>7 DEF LoseAnswer
    <2> QED BY <2>1, <2>2, <2>3, <2>4, <2>5, <2>6, <2>7 DEF Handle
  <1>6. Sent' = Sent /\ Sent \subseteq Ids
    BY <1>2, SentType DEF Sent
  <1>7. \A e \in Sent : e # d => TellInv(e)'
    BY <1>3, <1>4, <1>6 DEF ToldInv, TellInv
  <1>8. \A e \in Ids \ Sent : Untold(e)'
    BY <1>3 DEF ToldInv, Untold
  <1> QED BY <1>3, <1>4, <1>5, <1>6, <1>7, <1>8 DEF ToldInv

LEMMA ToldStep == TypeInv /\ QueueInv /\ ToldInv /\ [Next]_vars => ToldInv'
  <1> SUFFICES ASSUME TypeInv, QueueInv, ToldInv, [Next]_vars PROVE ToldInv'
    OBVIOUS
  <1>1. ReleaseRepos \subseteq Repos /\ StagingRepos \subseteq Repos
    BY DEF Repos
  <1>2. \A r \in Repos : /\ Len(commits[r]) \in Nat
                         /\ RecordAt(r, Len(commits[r])) \in Record \cup {None}
    BY PushType, CommitsAreRecords
  <1>3. ASSUME NEW r \in ReleaseRepos, NEW record \in Record \cup {None}, NEW tag \in BOOLEAN,
               PushRelease(r, record, tag)
        PROVE  ToldInv'
    <2> DEFINE before == RecordAt(r, Len(commits[r]))
    <2>1. /\ Pushed(before, record, tag) /\ commits' = [commits EXCEPT ![r] = Append(@, record)]
          /\ Send(r, Len(commits[r]), Len(commits[r]) + 1, tag)
      BY <1>3 DEF PushRelease
    <2>2. before \in Record \cup {None}
      BY <1>1, <1>2
    <2>3. IsUpdate(before, record)
      BY <2>1, <2>2, RecordsAssumption DEF IsUpdate
    <2> QED BY <1>1, <2>1, <2>3, AppendTold
  <1>4. ASSUME NEW r \in ReleaseRepos, PushTag(r) PROVE ToldInv'
    <2> DEFINE head == Len(commits[r])
    <2>1. Send(r, head, head, TRUE) /\ commits' = commits
      BY <1>4 DEF PushTag
    <2>2. r \in Repos /\ head \in Nat /\ head <= Len(commits'[r])
      BY <1>1, <1>2, <2>1
    <2>3. IsUpdate(At(commits'[r], head), At(commits'[r], head))
      BY <1>1, <1>2, <2>1, SameIsUpdate DEF RecordAt, At
    <2>4. \A q \in Repos : /\ Len(commits'[q]) \in Nat /\ Len(commits[q]) <= Len(commits'[q])
                           /\ \A n \in 1..Len(commits[q]) : commits'[q][n] = commits[q][n]
      BY <1>2, <2>1
    <2> QED BY <2>1, <2>2, <2>3, <2>4, PushTold
  <1>5. ASSUME NEW r \in StagingRepos, PushStaging(r) PROVE ToldInv'
    <2>1. /\ commits' = [commits EXCEPT ![r] = Append(@, None)]
          /\ Send(r, Len(commits[r]), Len(commits[r]) + 1, FALSE)
      BY <1>5 DEF PushStaging
    <2>2. IsUpdate(RecordAt(r, Len(commits[r])), None)
      BY DEF IsUpdate
    <2> QED BY <1>1, <2>1, <2>2, AppendTold
  <1>6. ASSUME UNCHANGED <<commits, deliveries, phase, todo, answer, posted, logged, missed>>
        PROVE  ToldInv'
    BY <1>6 DEF ToldInv, UpdateInv, TellInv, Untold, Alerts, Changes, Before, After, RecordAt, Sent
  <1>7. CASE StartJob \/ FinishJob
    BY <1>6, <1>7 DEF StartJob, FinishJob, handling
  <1>8. CASE UNCHANGED vars
    BY <1>6, <1>8 DEF vars, handling
  <1> QED BY <1>3, <1>4, <1>5, <1>7, <1>8, HandlerTold DEF Next

\* An answered delivery told its update whole: unless Slack refused a message,
\* what was posted and logged gives the record after from the one before, for
\* every record the release writer can make of every other, whatever was
\* retried and lost on the way (release-record-alerts.ts and the handler).
THEOREM TheChangeIsTold == Spec => []AnsweredDeliveriesTellTheChange
  <1>1. Init => TypeInv /\ QueueInv /\ ToldInv
    <2>1. Init => ToldInv
      BY DeliveriesAssumption DEF Init, ToldInv, Untold, Sent
    <2> QED BY <2>1, InitType, InitQueue
  <1>2. TypeInv /\ QueueInv /\ ToldInv /\ [Next]_vars => (TypeInv /\ QueueInv /\ ToldInv)'
    BY NextType, QueueStep, ToldStep
  <1>3. ToldInv => AnsweredDeliveriesTellTheChange
    <2> SUFFICES ASSUME ToldInv, NEW d \in Sent, phase[d] = "answered", answer[d] = "compared",
                        missed[d] = {}, Before(d) # None, After(d) # None
                 PROVE  Told(Before(d), DOMAIN posted[d] \cup logged[d])
                            = ListedAsNew(Before(d), After(d))
      BY DEF AnsweredDeliveriesTellTheChange
    <2>1. /\ Before(d) \in Record /\ After(d) \in Record
          /\ KeepsListed(Before(d), After(d))
      BY DEF ToldInv, UpdateInv, IsUpdate
    <2>2. LET messages == DOMAIN posted[d] \cup logged[d]
          IN  /\ messages \subseteq {TagAlert} \cup Alerts(d) \cup Changes(d)
              /\ Alerts(d) \subseteq messages /\ Changes(d) \subseteq messages
      BY DEF ToldInv, TellInv
    <2> QED BY <2>1, <2>2, UpdateIsTold DEF Alerts, Changes
  <1> QED BY <1>1, <1>2, <1>3, PTL DEF Spec

=============================================================================
