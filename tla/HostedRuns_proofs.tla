------------------------- MODULE HostedRuns_proofs -------------------------
(***************************************************************************)
(* Two facts of the Staging pages for every set of viewers, every number   *)
(* of events, of requests in flight and of faults.                         *)
(*                                                                         *)
(* Requests: all but the last request in flight are overdue, and all are   *)
(* when the cache has no request of its own.                               *)
(*                                                                         *)
(* The end: who owes the end found it in a source before asking. It stays  *)
(* there, so whichever of the two records the viewer holds last has it,    *)
(* unless a read failed on the way.                                        *)
(***************************************************************************)
EXTENDS HostedRuns, FiniteSetTheorems, SequenceTheorems, WellFoundedInduction, TLAPS

Waits == [overdue : BOOLEAN, superseded : BOOLEAN, waiting : SUBSET Viewers]
Records == SUBSET Events
Phases == {"closed", "idle", "list", "record", "found", "sharing", "refresh"}
State == [phase : Phases, copy : Records, listed : Records, record : Records,
          with : Viewers \cup {None}, noted : BOOLEAN, owed : BOOLEAN]
Shown == [record : Records, noted : BOOLEAN]

RequestsType ==
    /\ requests \in Seq(Waits)
    /\ entry \in [kind : {"none", "inFlight", "answered"}, runs : Records]
    /\ answered # None => answered.runs \in Records

\* What a viewer holds, once the collector has `got` and the copy has `up`:
\* no record has an end that neither source has, and what is owed is still
\* to be found, or found.
Known(got, up) == End \in got \/ up = End

Honest(record, got, up) == Final(record) => Known(got, up)

Owes(v, me, got, up) ==
    LET copied_ == IF v \in Candidates THEN Final(me.copy) ELSE up = End
    IN  /\ me.phase \in {"list", "record"} => End \in got \/ copied_
        /\ me.phase = "found" => me.noted \/ Final(me.record) \/ copied_
        /\ me.phase = "refresh" => me.noted \/ Final(me.copy)
        /\ me.phase \in {"list", "record", "found", "refresh"}

Held(v, me, got, up) ==
    /\ me \in State
    /\ Honest(me.record, got, up) /\ Honest(me.copy, got, up)
    /\ me.owed => Owes(v, me, got, up)

SourcesInv ==
    /\ received \in Records /\ received # {}
    /\ copied \in Events

CachesInv ==
    /\ recordCache # None =>
          /\ recordCache.record \in Records
          /\ Final(recordCache.record) /\ Known(received, copied)
    /\ copyCache \in Records
    /\ copyCache # {} => Final(copyCache) /\ Known(received, copied)

ListingInv ==
    /\ listing.kind \in {"none", "loading", "loaded"}
    /\ listing.by \in Viewers \cup {None}
    /\ listing.record \in Records /\ Honest(listing.record, received, copied)
    /\ listing.noted \in BOOLEAN /\ listing.owed \in BOOLEAN
    /\ listing.kind = "loaded" /\ listing.owed => listing.noted \/ Final(listing.record)

HeldInv ==
    /\ viewer \in [Viewers -> State]
    /\ \A v \in Viewers : Held(v, viewer[v], received, copied)

ShownInv ==
    /\ shown \in [Viewers -> Shown]
    /\ \A v \in Viewers : Honest(shown[v].record, received, copied)

\* A viewer waits for one request at most, and for nothing else meanwhile.
Waiting(reqs, who) ==
    /\ \A i \in DOMAIN reqs : \A v \in reqs[i].waiting : who[v].phase = "list"
    /\ \A i, j \in DOMAIN reqs : i # j => reqs[i].waiting \cap reqs[j].waiting = {}

WaitingInv == Waiting(requests, viewer)

\* The request the cache names is the last, and only that one may be on time.
Ordered(reqs, kind) ==
    /\ \A i \in DOMAIN reqs : reqs[i].overdue \/ (kind = "inFlight" /\ i = Len(reqs))
    /\ kind = "inFlight" => reqs # <<>>

OrderInv == Ordered(requests, entry.kind)

IInv ==
    /\ RequestsType /\ OrderInv /\ WaitingInv
    /\ SourcesInv /\ CachesInv /\ ListingInv
    /\ HeldInv /\ ShownInv

-----------------------------------------------------------------------------
\* Numbers and sequences.

\* A set of numbers that is not empty has a least one.
LEMMA LeastOf ==
  ASSUME NEW T \in SUBSET Nat, T # {}
  PROVE  \E x \in T : \A y \in T : x <= y
  <1> DEFINE R == {p \in Nat \X Nat : p[1] < p[2]}
  <1>1. IsWellFoundedOn(R, Nat)
    BY NatLessThanWellFounded DEF OpToRel
  <1>2. PICK x \in T : \A y \in T : ~ (<<y, x>> \in R)
    BY <1>1, WFMin
  <1>3. \A y \in T : x <= y
    <2> SUFFICES ASSUME NEW y \in T PROVE x <= y
      OBVIOUS
    <2>1. x \in Nat /\ y \in Nat
      OBVIOUS
    <2>2. ~ (y < x)
      BY <1>2, <2>1
    <2> QED BY <2>1, <2>2
  <1> QED BY <1>3

\* Max is the greatest number of a bounded set.
LEMMA GreatestOf ==
  ASSUME NEW n \in Nat, NEW T \in SUBSET (1..n), T # {}
  PROVE  Max(T) \in T /\ \A y \in T : Max(T) >= y
  <1> DEFINE L == {n - x : x \in T}
  <1>1. \A x \in T : x \in 1..n /\ n - x \in Nat
    OBVIOUS
  <1>2. L \in SUBSET Nat /\ L # {}
    BY <1>1, Zenon
  <1>3. PICK l \in L : \A y \in L : l <= y
    BY <1>2, LeastOf, Zenon
  <1>4. PICK x \in T : l = n - x
    OBVIOUS
  <1>5. \A y \in T : x >= y
    <2> SUFFICES ASSUME NEW y \in T PROVE x >= y
      OBVIOUS
    <2>1. n - x <= n - y
      BY <1>3, <1>4, Zenon
    <2> QED BY <2>1, <1>1
  <1> QED BY <1>5 DEF Max

\* A function over the first numbers is a sequence of that length.
LEMMA FunctionSequence ==
  ASSUME NEW S, NEW n \in Nat, NEW f \in [1..n -> S]
  PROVE  f \in Seq(S) /\ Len(f) = n
  <1>1. f \in Seq(S)
    BY SeqDef
  <1>2. DOMAIN f = 1..Len(f) /\ Len(f) \in Nat
    BY <1>1, LenProperties
  <1> QED BY <1>1, <1>2

\* Two sequences, one after the other.
LEMMA Joined ==
  ASSUME NEW S, NEW a \in Seq(S), NEW b \in Seq(S)
  PROVE  /\ a \o b \in Seq(S) /\ Len(a \o b) = Len(a) + Len(b)
         /\ \A j \in 1..(Len(a) + Len(b)) :
               (a \o b)[j] = IF j <= Len(a) THEN a[j] ELSE b[j - Len(a)]
  OBVIOUS

\* RemoveAt leaves the other elements in their order.
LEMMA RemovedAt ==
  ASSUME NEW S, NEW s \in Seq(S), NEW i \in DOMAIN s
  PROVE  /\ RemoveAt(s, i) \in Seq(S)
         /\ Len(RemoveAt(s, i)) = Len(s) - 1
         /\ \A j \in 1..(Len(s) - 1) :
               RemoveAt(s, i)[j] = s[IF j < i THEN j ELSE j + 1]
  <1>1. i \in 1..Len(s) /\ Len(s) \in Nat
    OBVIOUS
  <1>2. /\ SubSeq(s, 1, i - 1) \in Seq(S) /\ Len(SubSeq(s, 1, i - 1)) = i - 1
        /\ \A j \in 1..(i - 1) : SubSeq(s, 1, i - 1)[j] = s[j]
    BY <1>1
  <1>3. /\ SubSeq(s, i + 1, Len(s)) \in Seq(S)
        /\ Len(SubSeq(s, i + 1, Len(s))) = Len(s) - i
        /\ \A j \in 1..(Len(s) - i) : SubSeq(s, i + 1, Len(s))[j] = s[i + j]
    BY <1>1
  <1> DEFINE a == SubSeq(s, 1, i - 1)
             b == SubSeq(s, i + 1, Len(s))
  <1>a. a \in Seq(S) /\ Len(a) = i - 1 /\ \A j \in 1..(i - 1) : a[j] = s[j]
    BY <1>2
  <1>b. b \in Seq(S) /\ Len(b) = Len(s) - i /\ \A j \in 1..(Len(s) - i) : b[j] = s[i + j]
    BY <1>3
  <1> HIDE DEF a, b
  <1>4. /\ a \o b \in Seq(S) /\ Len(a \o b) = Len(a) + Len(b)
        /\ \A j \in 1..(Len(a) + Len(b)) :
              (a \o b)[j] = IF j <= Len(a) THEN a[j] ELSE b[j - Len(a)]
    BY <1>a, <1>b, Joined
  <1>5. Len(a) = i - 1 /\ Len(b) = Len(s) - i
    BY <1>a, <1>b
  <1>6. \A j \in 1..(Len(s) - 1) : (a \o b)[j] = s[IF j < i THEN j ELSE j + 1]
    <2> SUFFICES ASSUME NEW j \in 1..(Len(s) - 1)
                 PROVE  (a \o b)[j] = s[IF j < i THEN j ELSE j + 1]
      OBVIOUS
    <2>1. CASE j < i
      <3>1. j \in 1..(i - 1) /\ j \in 1..(Len(a) + Len(b)) /\ j <= Len(a)
        BY <1>1, <1>5, <2>1
      <3> QED BY <1>a, <1>4, <2>1, <3>1
    <2>2. CASE ~(j < i)
      <3>1. /\ j - (i - 1) \in 1..(Len(s) - i) /\ j \in 1..(Len(a) + Len(b))
            /\ ~(j <= Len(a)) /\ i + (j - (i - 1)) = j + 1
        BY <1>1, <1>5, <2>2
      <3>2. (a \o b)[j] = b[j - (i - 1)]
        <4>1. (a \o b)[j] = b[j - Len(a)]
          BY <1>4, <3>1
        <4> QED BY <1>5, <4>1
      <3> QED BY <1>b, <2>2, <3>1, <3>2
    <2> QED BY <2>1, <2>2
  <1>7. Len(a \o b) = Len(s) - 1
    BY <1>1, <1>4, <1>5
  <1>8. RemoveAt(s, i) = a \o b
    BY DEF RemoveAt, a, b
  <1> QED BY <1>4, <1>6, <1>7, <1>8

-----------------------------------------------------------------------------
\* The rule between the two records.

\* An end is the latest event of its record; a record without one ends before.
LEMMA LatestEvent ==
  ASSUME NEW record \in Records, record # {}
  PROVE  /\ UpdatedAt(record) \in Events
         /\ Final(record) => UpdatedAt(record) = End
         /\ ~Final(record) => UpdatedAt(record) < End
  <1>1. End \in Nat
    BY EndAssumption
  <1>2. Max(record) \in record /\ \A y \in record : Max(record) >= y
    BY <1>1, GreatestOf DEF Records, Events
  <1>3. Max(record) \in 1..End /\ (Final(record) => Max(record) >= End)
    BY <1>2 DEF Final, Records, Events
  <1>4. ~Final(record) => Max(record) # End
    BY <1>2 DEF Final
  <1> QED BY <1>1, <1>3, <1>4 DEF UpdatedAt, Events

\* Which of the two stands has the end when one of them has.
LEMMA StandingEnds ==
  ASSUME NEW record \in Records, NEW copy \in Records
  PROVE  /\ StandingRecord(record, copy) \in {record, copy}
         /\ Final(record) \/ Final(copy) => Final(StandingRecord(record, copy))
  <1>1. StandingRecord(record, copy) \in {record, copy}
    BY DEF StandingRecord
  <1>2. CASE Final(record)
    BY <1>2 DEF StandingRecord, CollectorMissedTheEnd, Final
  <1>3. CASE ~Final(record) /\ Final(copy)
    <2>1. copy # {} /\ UpdatedAt(copy) = End
      BY <1>3, LatestEvent DEF Final
    <2>2. record # {} => UpdatedAt(record) \in Events /\ UpdatedAt(record) < End
      BY <1>3, LatestEvent
    <2>3. record # {} => CollectorMissedTheEnd(record, copy)
      BY <1>3, <2>1, <2>2, EndAssumption DEF CollectorMissedTheEnd, Events
    <2> QED BY <1>1, <1>3, <2>1, <2>3 DEF StandingRecord
  <1> QED BY <1>1, <1>2, <1>3

LEMMA RefreshedEnds ==
  ASSUME NEW record \in Records, NEW current \in Records, record # {}
  PROVE  /\ RefreshedRecord(record, current) \in {record, current}
         /\ Final(record) \/ Final(current) => Final(RefreshedRecord(record, current))
  <1>1. RefreshedRecord(record, current) = StandingRecord(record, current)
    BY DEF RefreshedRecord, StandingRecord
  <1> QED BY <1>1, StandingEnds

-----------------------------------------------------------------------------
\* What a viewer holds.

\* The sources only grow, and what they have once had they keep.
LEMMA HeldGrows ==
  ASSUME NEW v, NEW me, NEW got, NEW up, NEW got2, NEW up2,
         got \subseteq got2, up = End => up2 = End, Held(v, me, got, up)
  PROVE  Held(v, me, got2, up2)
  BY DEF Held, Honest, Owes, Known

LEMMA HonestGrows ==
  ASSUME NEW record, NEW got, NEW up, NEW got2, NEW up2,
         got \subseteq got2, up = End => up2 = End, Honest(record, got, up)
  PROVE  Honest(record, got2, up2)
  BY DEF Honest, Known

\* The copy has the end when it has every event.
LEMMA CopyEnds ==
  ASSUME SourcesInv
  PROVE  Copy \in Records /\ Copy # {} /\ (Final(Copy) <=> copied = End)
  BY EndAssumption DEF SourcesInv, Copy, Records, Events, Final

LEMMA IdleHeld ==
  ASSUME NEW v, NEW got, NEW up
  PROVE  Held(v, Idle, got, up) /\ Held(v, Closed, got, up)
  <1>1. End \notin {}
    OBVIOUS
  <1> QED BY <1>1 DEF Held, Honest, Idle, Closed, State, Records, Phases, Final

\* A viewer that has the list, or goes on without one, still owes what it
\* owed and is on the way to it.
LEMMA WithListHeld ==
  ASSUME CachesInv, NEW v, NEW me, NEW runs \in Records,
         Held(v, me, received, copied), me.phase = "list"
  PROVE  Held(v, WithList(me, runs), received, copied)
  <1>1. me \in State
    BY DEF Held
  <1>2. CASE Reusable(runs)
    <2>1. /\ recordCache.record \in Records /\ Final(recordCache.record)
          /\ Known(received, copied)
      BY <1>2 DEF CachesInv, Reusable
    <2>2. WithList(me, runs) = [me EXCEPT !.phase = "found", !.record = recordCache.record]
      BY <1>2 DEF WithList
    <2>3. WithList(me, runs) \in State
      BY <1>1, <2>1, <2>2 DEF State, Phases
    <2>4. /\ WithList(me, runs).record = recordCache.record
          /\ WithList(me, runs).copy = me.copy /\ WithList(me, runs).phase = "found"
      BY <1>1, <2>2 DEF State
    <2> QED BY <2>1, <2>3, <2>4 DEF Held, Honest, Owes
  <1>3. CASE ~Reusable(runs)
    <2>1. WithList(me, runs) = [me EXCEPT !.phase = "record", !.listed = runs]
      BY <1>3 DEF WithList
    <2>2. WithList(me, runs) \in State
      BY <1>1, <2>1 DEF State, Phases
    <2>3. /\ WithList(me, runs).record = me.record /\ WithList(me, runs).copy = me.copy
          /\ WithList(me, runs).phase = "record" /\ WithList(me, runs).owed = me.owed
      BY <1>1, <2>1 DEF State
    <2> QED BY <2>2, <2>3 DEF Held, Honest, Owes
  <1> QED BY <1>2, <1>3

LEMMA WithoutListHeld ==
  ASSUME NEW v, NEW me, NEW got, NEW up, Held(v, me, got, up)
  PROVE  Held(v, WithoutList(me), got, up)
  <1>1. me \in State
    BY DEF Held
  <1>2. WithoutList(me) \in State
    BY <1>1 DEF WithoutList, State, Phases
  <1>3. /\ WithoutList(me).record = me.record /\ WithoutList(me).copy = me.copy
        /\ WithoutList(me).phase = "found" /\ WithoutList(me).noted = TRUE
    BY <1>1 DEF WithoutList, State
  <1> QED BY <1>2, <1>3 DEF Held, Honest, Owes

-----------------------------------------------------------------------------
\* The requests in flight.

\* Request i is gone: its viewers go on, the others stay where they are.
LEMMA RequestGone ==
  ASSUME NEW reqs \in Seq(Waits), NEW rest \in Seq(Waits), Len(rest) = Len(reqs),
         \A j \in DOMAIN reqs : /\ rest[j].waiting = reqs[j].waiting
                                /\ rest[j].overdue = reqs[j].overdue,
         NEW i \in DOMAIN reqs, NEW who, NEW next,
         \A v \in Viewers : v \notin reqs[i].waiting => next[v] = who[v],
         Waiting(reqs, who)
  PROVE  /\ RemoveAt(rest, i) \in Seq(Waits)
         /\ Waiting(RemoveAt(rest, i), next)
         /\ \A kind : Ordered(reqs, kind) =>
               Ordered(RemoveAt(rest, i),
                       IF kind = "inFlight" /\ i = Len(reqs) THEN "none" ELSE kind)
  <1> DEFINE left == RemoveAt(rest, i)
             old(j) == IF j < i THEN j ELSE j + 1
  <1>1. i \in 1..Len(reqs) /\ Len(reqs) \in Nat /\ i \in DOMAIN rest
        /\ DOMAIN rest = 1..Len(reqs) /\ DOMAIN reqs = 1..Len(reqs)
    OBVIOUS
  <1>2. /\ left \in Seq(Waits) /\ Len(left) = Len(reqs) - 1
        /\ \A j \in 1..(Len(reqs) - 1) : left[j] = rest[old(j)]
    BY <1>1, RemovedAt
  <1> HIDE DEF left
  <1>3. DOMAIN left = 1..(Len(reqs) - 1)
    BY <1>1, <1>2
  <1>4. \A j \in DOMAIN left :
            /\ old(j) \in DOMAIN reqs /\ old(j) # i
            /\ left[j].waiting = reqs[old(j)].waiting
            /\ left[j].overdue = reqs[old(j)].overdue
    BY <1>1, <1>2, <1>3
  <1>5. \A j, k \in DOMAIN left : j # k => old(j) # old(k)
    BY <1>1, <1>3
  <1>6. \A j \in DOMAIN reqs : reqs[j].waiting \subseteq Viewers
    <2>1. \A j \in DOMAIN reqs : reqs[j] \in Waits
      OBVIOUS
    <2> QED BY <2>1 DEF Waits
  <1>7. ASSUME NEW j \in DOMAIN left, NEW v \in left[j].waiting
        PROVE  next[v].phase = "list"
    <2>1. v \in reqs[old(j)].waiting /\ old(j) # i /\ old(j) \in DOMAIN reqs
      BY <1>4, <1>7
    <2>2. v \notin reqs[i].waiting /\ v \in Viewers /\ who[v].phase = "list"
      BY <1>6, <2>1 DEF Waiting
    <2> QED BY <2>2
  <1>8. ASSUME NEW j \in DOMAIN left, NEW k \in DOMAIN left, j # k
        PROVE  left[j].waiting \cap left[k].waiting = {}
    BY <1>4, <1>5, <1>8 DEF Waiting
  <1>9. ASSUME NEW kind, Ordered(reqs, kind)
        PROVE  Ordered(left, IF kind = "inFlight" /\ i = Len(reqs) THEN "none" ELSE kind)
    <2>1. CASE kind = "inFlight" /\ i = Len(reqs)
      <3>1. \A j \in DOMAIN left : left[j].overdue
        BY <1>1, <1>3, <1>4, <1>9, <2>1 DEF Ordered
      <3> QED BY <2>1, <3>1 DEF Ordered
    <2>2. CASE ~(kind = "inFlight" /\ i = Len(reqs))
      <3>1. \A j \in DOMAIN left : left[j].overdue \/ (kind = "inFlight" /\ old(j) = Len(reqs))
        BY <1>4, <1>9 DEF Ordered
      <3>2. \A j \in DOMAIN left : kind = "inFlight" /\ old(j) = Len(reqs) => j = Len(left)
        BY <1>1, <1>2, <1>3, <2>2
      <3>3. kind = "inFlight" => left # <<>>
        BY <1>1, <1>2, <2>2
      <3>4. Ordered(left, kind)
        BY <3>1, <3>2, <3>3 DEF Ordered
      <3> QED BY <2>2, <3>4
    <2> QED BY <2>1, <2>2
  <1>10. Waiting(left, next)
    BY <1>7, <1>8 DEF Waiting
  <1> QED BY <1>2, <1>9, <1>10 DEF left

\* A viewer that does not wait moves on: the requests stay in order.
LEMMA OneMoves ==
  ASSUME HeldInv, NEW v \in Viewers, NEW me, Held(v, me, received, copied),
         viewer' = [viewer EXCEPT ![v] = me], UNCHANGED <<received, copied>>
  PROVE  /\ HeldInv'
         /\ viewer'[v] = me
         /\ \A w \in Viewers : w # v => viewer'[w] = viewer[w]
  <1>1. me \in State
    BY DEF Held
  <1>2. /\ viewer' \in [Viewers -> State] /\ viewer'[v] = me
        /\ \A w \in Viewers : w # v => viewer'[w] = viewer[w]
    BY <1>1 DEF HeldInv
  <1>3. \A w \in Viewers : Held(w, viewer'[w], received', copied')
    BY <1>2 DEF HeldInv
  <1> QED BY <1>2, <1>3 DEF HeldInv

LEMMA NobodyElseWaits ==
  ASSUME RequestsType, WaitingInv, NEW idle \in SUBSET Viewers,
         \A v \in idle : viewer[v].phase # "list",
         \A w \in Viewers : w \notin idle => viewer'[w] = viewer[w]
  PROVE  /\ Waiting(requests, viewer')
         /\ \A i \in DOMAIN requests : requests[i].waiting \cap idle = {}
  <1>1. \A i \in DOMAIN requests : requests[i] \in Waits
    BY DEF RequestsType
  <1>2. \A i \in DOMAIN requests : requests[i].waiting \cap idle = {}
    BY DEF WaitingInv, Waiting
  <1>3. \A i \in DOMAIN requests : \A v \in requests[i].waiting : viewer'[v].phase = "list"
    BY <1>1, <1>2 DEF WaitingInv, Waiting, Waits
  <1> QED BY <1>2, <1>3 DEF WaitingInv, Waiting

\* recent: whoever asks for the list has it, shares a request or makes one.
LEMMA RecentKeeps ==
  ASSUME RequestsType, OrderInv, WaitingInv, CachesInv, HeldInv,
         NEW v \in Viewers, viewer[v].phase = "idle",
         NEW me, Held(v, me, received, copied), me.phase = "list",
         Recent(v, me), UNCHANGED <<received, copied, answered>>
  PROVE  RequestsType' /\ OrderInv' /\ WaitingInv' /\ HeldInv'
  <1> DEFINE n == Len(requests)
  <1>0. /\ requests \in Seq(Waits) /\ n \in Nat /\ DOMAIN requests = 1..n
        /\ \A i \in 1..n : requests[i] \in Waits
    BY DEF RequestsType
  <1>1. CASE /\ viewer' = [viewer EXCEPT ![v] = WithList(me, entry.runs)]
             /\ UNCHANGED <<requests, entry>>
    <2>1. entry.runs \in Records
      BY DEF RequestsType
    <2>2. Held(v, WithList(me, entry.runs), received, copied)
      BY <2>1, WithListHeld
    <2>3. HeldInv' /\ \A w \in Viewers : w # v => viewer'[w] = viewer[w]
      BY <1>1, <2>2, OneMoves
    <2>a. /\ {v} \in SUBSET Viewers /\ \A w \in {v} : viewer[w].phase # "list"
          /\ \A w \in Viewers : w \notin {v} => viewer'[w] = viewer[w]
      BY <2>3
    <2>4. Waiting(requests, viewer')
      BY <2>a, NobodyElseWaits
    <2> QED BY <1>1, <2>3, <2>4 DEF RequestsType, OrderInv, WaitingInv
  <1>2. CASE /\ InFlight
             /\ requests' = [requests EXCEPT ![Len(requests)].waiting = @ \cup {v}]
             /\ viewer' = [viewer EXCEPT ![v] = me]
             /\ UNCHANGED entry
    <2>1. HeldInv' /\ viewer'[v] = me /\ \A w \in Viewers : w # v => viewer'[w] = viewer[w]
      BY <1>2, OneMoves
    <2>a. /\ {v} \in SUBSET Viewers /\ \A w \in {v} : viewer[w].phase # "list"
          /\ \A w \in Viewers : w \notin {v} => viewer'[w] = viewer[w]
      BY <2>1
    <2>2. /\ Waiting(requests, viewer')
          /\ \A i \in 1..n : v \notin requests[i].waiting
      <3>1. /\ Waiting(requests, viewer')
            /\ \A i \in DOMAIN requests : requests[i].waiting \cap {v} = {}
        BY <2>a, NobodyElseWaits
      <3> QED BY <1>0, <3>1
    <2>3. n \in 1..n
      BY <1>0, <1>2 DEF OrderInv, Ordered, InFlight
    <2>4. /\ requests' \in Seq(Waits) /\ Len(requests') = n
          /\ requests'[n].waiting = requests[n].waiting \cup {v}
          /\ \A i \in 1..n : /\ requests'[i].overdue = requests[i].overdue
                             /\ i # n => requests'[i] = requests[i]
      <3>1. [requests[n] EXCEPT !.waiting = @ \cup {v}] \in Waits
        BY <1>0, <2>3 DEF Waits
      <3>2. requests' = [requests EXCEPT ![n] = [requests[n] EXCEPT !.waiting = @ \cup {v}]]
        BY <1>2
      <3>3. requests[n].waiting \cup {v} = [requests[n] EXCEPT !.waiting = @ \cup {v}].waiting
        BY <1>0, <2>3 DEF Waits
      <3>4. requests[n].overdue = [requests[n] EXCEPT !.waiting = @ \cup {v}].overdue
        BY <1>0, <2>3 DEF Waits
      <3> QED BY <1>0, <2>3, <3>1, <3>2, <3>3, <3>4
    <2>5. DOMAIN requests' = 1..n
      <3>1. DOMAIN requests' = DOMAIN requests
        BY <1>2
      <3> QED BY <1>0, <3>1
    <2>6. \A i \in 1..n : \A w \in requests'[i].waiting : viewer'[w].phase = "list"
      <3>1. \A i \in 1..n : \A w \in requests[i].waiting : viewer'[w].phase = "list"
        BY <1>0, <2>2 DEF Waiting
      <3>2. viewer'[v].phase = "list"
        BY <2>1
      <3>3. \A i \in 1..n : requests'[i].waiting \subseteq requests[i].waiting \cup {v}
        BY <2>4
      <3> QED BY <3>1, <3>2, <3>3
    <2>7. \A i, j \in 1..n : i # j => requests'[i].waiting \cap requests'[j].waiting = {}
      <3> SUFFICES ASSUME NEW i \in 1..n, NEW j \in 1..n, i # j
                   PROVE  requests'[i].waiting \cap requests'[j].waiting = {}
        OBVIOUS
      <3>1. /\ requests[i].waiting \cap requests[j].waiting = {}
            /\ v \notin requests[i].waiting /\ v \notin requests[j].waiting
        BY <1>0, <2>2 DEF Waiting
      <3>2. /\ requests'[i].waiting \in {requests[i].waiting, requests[i].waiting \cup {v}}
            /\ requests'[j].waiting \in {requests[j].waiting, requests[j].waiting \cup {v}}
            /\ requests'[i].waiting = requests[i].waiting \/ requests'[j].waiting = requests[j].waiting
        BY <2>4
      <3> QED BY <3>1, <3>2
    <2>8. OrderInv'
      BY <1>0, <1>2, <2>3, <2>4, <2>5 DEF OrderInv, Ordered, InFlight
    <2> QED BY <1>2, <2>1, <2>4, <2>5, <2>6, <2>7, <2>8 DEF RequestsType, WaitingInv, Waiting
  <1>3. CASE /\ ~(InFlight /\ ~Last(requests).overdue)
             /\ requests' = Append(requests, Request(v))
             /\ entry' = [NoEntry EXCEPT !.kind = "inFlight"]
             /\ viewer' = [viewer EXCEPT ![v] = me]
    <2>1. HeldInv' /\ viewer'[v] = me /\ \A w \in Viewers : w # v => viewer'[w] = viewer[w]
      BY <1>3, OneMoves
    <2>a. /\ {v} \in SUBSET Viewers /\ \A w \in {v} : viewer[w].phase # "list"
          /\ \A w \in Viewers : w \notin {v} => viewer'[w] = viewer[w]
      BY <2>1
    <2>2. /\ Waiting(requests, viewer')
          /\ \A i \in 1..n : v \notin requests[i].waiting
      <3>1. /\ Waiting(requests, viewer')
            /\ \A i \in DOMAIN requests : requests[i].waiting \cap {v} = {}
        BY <2>a, NobodyElseWaits
      <3> QED BY <1>0, <3>1
    <2>3. Request(v) \in Waits /\ Request(v).waiting = {v}
      BY DEF Request, Waits
    <2>4. /\ requests' \in Seq(Waits) /\ Len(requests') = n + 1 /\ DOMAIN requests' = 1..(n + 1)
          /\ requests'[n + 1] = Request(v)
          /\ \A i \in 1..n : requests'[i] = requests[i]
      BY <1>0, <1>3, <2>3
    <2>5. \A i \in 1..(n + 1) : \A w \in requests'[i].waiting : viewer'[w].phase = "list"
      <3>1. \A i \in 1..(n + 1) : i \in 1..n \/ i = n + 1
        BY <1>0
      <3> QED BY <1>0, <2>1, <2>2, <2>3, <2>4, <3>1 DEF Waiting
    <2>6. \A i, j \in 1..(n + 1) : i # j => requests'[i].waiting \cap requests'[j].waiting = {}
      <3>1. \A i \in 1..(n + 1) : i \in 1..n \/ i = n + 1
        BY <1>0
      <3> QED BY <1>0, <2>2, <2>3, <2>4, <3>1 DEF Waiting
    <2>7. \A i \in 1..n : requests[i].overdue
      BY <1>0, <1>3 DEF OrderInv, Ordered, InFlight, Last
    <2>8. entry'.kind = "inFlight" /\ entry' \in [kind : {"none", "inFlight", "answered"}, runs : Records]
      BY <1>3 DEF NoEntry, Records
    <2>9. OrderInv'
      BY <1>0, <2>4, <2>7, <2>8 DEF OrderInv, Ordered
    <2> QED BY <2>1, <2>4, <2>5, <2>6, <2>8, <2>9 DEF RequestsType, WaitingInv, Waiting
  <1> QED BY <1>1, <1>2, <1>3 DEF Recent

\* The viewers of request i go on.
LEMMA ResumedKeeps ==
  ASSUME HeldInv, NEW i \in DOMAIN requests, NEW resumed,
         DOMAIN resumed = requests[i].waiting,
         \A v \in Viewers : v \in requests[i].waiting => Held(v, resumed[v], received, copied),
         viewer' = Resumed(resumed), UNCHANGED <<received, copied>>
  PROVE  /\ HeldInv'
         /\ \A v \in Viewers : v \notin requests[i].waiting => viewer'[v] = viewer[v]
  <1>1. \A v \in Viewers :
            viewer'[v] = IF v \in requests[i].waiting THEN resumed[v] ELSE viewer[v]
    BY DEF Resumed
  <1>2. \A v \in Viewers : Held(v, viewer'[v], received', copied')
    BY <1>1 DEF HeldInv
  <1>3. \A v \in Viewers : viewer'[v] \in State
    BY <1>2 DEF Held
  <1>4. viewer' \in [Viewers -> State]
    BY <1>3 DEF Resumed
  <1> QED BY <1>1, <1>2, <1>4 DEF HeldInv

-----------------------------------------------------------------------------
\* The actions keep the invariant, and what a viewer owes is shown.

ShownStep == \A v \in Viewers : viewer[v].owed /\ shown'[v] # shown[v] =>
                shown'[v].noted \/ Final(shown'[v].record)

LEMMA SourcesStep ==
  ASSUME IInv, \/ \E e \in Events \ received : Receive(e)
               \/ \E k \in Events : UploadCopy(k)
  PROVE  IInv' /\ ShownStep
  <1>1. /\ received' \in Records /\ received \subseteq received' /\ received' # {}
        /\ copied' \in Events /\ (copied = End => copied' = End)
        /\ UNCHANGED <<caches, viewer, shown, faults>>
    <2>1. received \in SUBSET (1..End) /\ received # {} /\ copied \in 1..End
      BY DEF IInv, SourcesInv, Records, Events
    <2>2. ASSUME NEW e \in Events \ received, Receive(e)
          PROVE  /\ received' \in SUBSET (1..End) /\ received \subseteq received'
                 /\ received' # {} /\ copied' = copied
                 /\ UNCHANGED <<caches, viewer, shown, faults>>
      BY <2>1, <2>2 DEF Receive, Events
    <2>3. ASSUME NEW k \in Events, UploadCopy(k)
          PROVE  /\ received' = received /\ copied' \in 1..End /\ copied # End
                 /\ UNCHANGED <<caches, viewer, shown, faults>>
      BY <2>1, <2>3, EndAssumption DEF UploadCopy, Events
    <2> QED BY <2>1, <2>2, <2>3 DEF Records, Events
  <1>2. RequestsType' /\ OrderInv' /\ WaitingInv' /\ SourcesInv'
    BY <1>1 DEF IInv, caches, RequestsType, OrderInv, WaitingInv, SourcesInv
  <1>3. Known(received, copied) => Known(received', copied')
    BY <1>1 DEF Known
  <1>4. CachesInv'
    BY <1>1, <1>3 DEF IInv, caches, CachesInv
  <1>5. \A record : Honest(record, received, copied) => Honest(record, received', copied')
    BY <1>3 DEF Honest
  <1>6. ListingInv' /\ ShownInv'
    BY <1>1, <1>5 DEF IInv, caches, ListingInv, ShownInv
  <1>7. \A v \in Viewers : Held(v, viewer[v], received', copied')
    BY <1>1, HeldGrows DEF IInv, HeldInv
  <1>8. HeldInv'
    BY <1>1, <1>7 DEF IInv, HeldInv
  <1> QED BY <1>1, <1>2, <1>4, <1>6, <1>8 DEF IInv, ShownStep

\* What does not touch the viewers.
LEMMA AgeStep ==
  ASSUME IInv, EntryAges \/ AnsweredAges \/ ListingExpires
  PROVE  IInv' /\ ShownStep
  <1>1. UNCHANGED <<received, copied, requests, recordCache, copyCache, viewer, shown>>
    BY DEF EntryAges, AnsweredAges, ListingExpires
  <1>2. SourcesInv' /\ CachesInv' /\ HeldInv' /\ ShownInv' /\ WaitingInv' /\ ShownStep
    BY <1>1 DEF IInv, SourcesInv, CachesInv, HeldInv, ShownInv, WaitingInv, ShownStep
  <1>3. RequestsType' /\ OrderInv'
    BY <1>1 DEF IInv, EntryAges, AnsweredAges, ListingExpires, NoEntry, RequestsType,
                OrderInv, Ordered, Records
  <1>4. End \notin {}
    OBVIOUS
  <1>5. ListingInv'
    <2>1. listing' = listing \/ listing' = NoListing
      BY DEF EntryAges, AnsweredAges, ListingExpires
    <2>2. CASE listing' = listing
      BY <1>1, <2>2 DEF IInv, ListingInv
    <2>3. CASE listing' = NoListing
      <3>1. /\ listing'.kind = "none" /\ listing'.by = None /\ listing'.record = {}
            /\ listing'.noted = FALSE /\ listing'.owed = FALSE
        BY <2>3 DEF NoListing
      <3> QED BY <1>4, <3>1 DEF ListingInv, Records, Honest, Final
    <2> QED BY <2>1, <2>2, <2>3
  <1> QED BY <1>2, <1>3, <1>5 DEF IInv

LEMMA ListOverdueStep ==
  ASSUME IInv, NEW i \in DOMAIN requests, ListOverdue(i)
  PROVE  IInv' /\ ShownStep
  <1> USE DEF ListOverdue
  <1>1. SourcesInv' /\ CachesInv' /\ HeldInv' /\ ShownInv' /\ ListingInv' /\ ShownStep
    BY DEF IInv, SourcesInv, CachesInv, HeldInv, ShownInv, ListingInv, ShownStep
  <1>2. /\ requests \in Seq(Waits) /\ requests' = [requests EXCEPT ![i].overdue = TRUE]
        /\ \A j \in DOMAIN requests : requests[j] \in Waits
    BY DEF IInv, RequestsType
  <1>3. [requests[i] EXCEPT !.overdue = TRUE] \in Waits
    BY <1>2 DEF Waits
  <1>4. /\ requests' \in Seq(Waits) /\ DOMAIN requests' = DOMAIN requests
        /\ Len(requests') = Len(requests)
    BY <1>2, <1>3
  <1>5. \A j \in DOMAIN requests : /\ requests'[j].waiting = requests[j].waiting
                                   /\ requests[j].overdue => requests'[j].overdue
    BY <1>2 DEF Waits
  <1>6. RequestsType'
    BY <1>4 DEF IInv, RequestsType
  <1>7. WaitingInv'
    BY <1>4, <1>5 DEF IInv, WaitingInv, Waiting
  <1>8. requests # <<>> => requests' # <<>>
    BY <1>2, <1>4
  <1>9. OrderInv'
    BY <1>4, <1>5, <1>8 DEF IInv, OrderInv, Ordered
  <1> QED BY <1>1, <1>6, <1>7, <1>9 DEF IInv

LEMMA ListAnswersStep ==
  ASSUME IInv, NEW i \in DOMAIN requests, ListAnswers(i)
  PROVE  IInv' /\ ShownStep
  <1> USE DEF ListAnswers
  <1> DEFINE rest == [j \in DOMAIN requests |->
                         [requests[j] EXCEPT !.superseded = @ \/ j < i]]
             resumed == [v \in requests[i].waiting |-> WithList(viewer[v], received)]
  <1>1. SourcesInv' /\ CachesInv' /\ ShownInv' /\ ListingInv' /\ ShownStep
    BY DEF IInv, SourcesInv, CachesInv, ShownInv, ListingInv, ShownStep
  <1>2. requests \in Seq(Waits) /\ \A j \in DOMAIN requests : requests[j] \in Waits
    BY DEF IInv, RequestsType
  <1>3. ASSUME NEW j \in DOMAIN requests
        PROVE  rest[j] \in Waits /\ rest[j].waiting = requests[j].waiting
                                 /\ rest[j].overdue = requests[j].overdue
    BY <1>2 DEF Waits
  <1>4. rest \in Seq(Waits) /\ Len(rest) = Len(requests)
    BY <1>2, <1>3
  <1>5. \A v \in Viewers : v \in requests[i].waiting => Held(v, resumed[v], received, copied)
    <2> SUFFICES ASSUME NEW v \in Viewers, v \in requests[i].waiting
                 PROVE  Held(v, WithList(viewer[v], received), received, copied)
      OBVIOUS
    <2>1. viewer[v].phase = "list" /\ Held(v, viewer[v], received, copied)
      BY DEF IInv, WaitingInv, Waiting, HeldInv
    <2> QED BY <2>1, WithListHeld DEF IInv, SourcesInv
  <1>6. HeldInv' /\ \A v \in Viewers : v \notin requests[i].waiting => viewer'[v] = viewer[v]
    <2>1. viewer' = Resumed(resumed) /\ DOMAIN resumed = requests[i].waiting
      OBVIOUS
    <2>2. HeldInv /\ UNCHANGED <<received, copied>>
      BY DEF IInv
    <2> HIDE DEF resumed, ListAnswers
    <2> QED BY <1>5, <2>1, <2>2, ResumedKeeps
  <1> HIDE DEF rest, resumed
  <1>7. requests' = RemoveAt(rest, i)
    BY DEF rest
  <1>8. Waiting(requests, viewer) /\ Ordered(requests, entry.kind)
    BY DEF IInv, WaitingInv, OrderInv
  <1>9. /\ requests' \in Seq(Waits) /\ Waiting(requests', viewer')
        /\ Ordered(requests', IF entry.kind = "inFlight" /\ i = Len(requests)
                              THEN "none" ELSE entry.kind)
    <2>1. /\ Len(rest) = Len(requests) /\ rest \in Seq(Waits)
          /\ \A j \in DOMAIN requests : /\ rest[j].waiting = requests[j].waiting
                                        /\ rest[j].overdue = requests[j].overdue
      BY <1>3, <1>4
    <2> HIDE DEF ListAnswers
    <2> QED BY <1>2, <1>6, <1>7, <1>8, <2>1, RequestGone
  <1>10. Ordered(requests', entry'.kind)
    BY <1>9 DEF Ordered, InFlight
  <1>11. RequestsType'
    BY <1>9 DEF IInv, RequestsType, SourcesInv
  <1> QED BY <1>1, <1>6, <1>9, <1>10, <1>11 DEF IInv, WaitingInv, OrderInv

LEMMA ListFailsStep ==
  ASSUME IInv, NEW i \in DOMAIN requests, ListFails(i)
  PROVE  IInv' /\ ShownStep
  <1> USE DEF ListFails
  <1> DEFINE resumed == [v \in requests[i].waiting |-> WithoutList(viewer[v])]
  <1>1. SourcesInv' /\ CachesInv' /\ ShownInv' /\ ListingInv' /\ ShownStep
    BY DEF IInv, SourcesInv, CachesInv, ShownInv, ListingInv, ShownStep
  <1>2. requests \in Seq(Waits)
    BY DEF IInv, RequestsType
  <1>3. \A v \in Viewers : v \in requests[i].waiting => Held(v, resumed[v], received, copied)
    BY WithoutListHeld DEF IInv, HeldInv
  <1>4. HeldInv' /\ \A v \in Viewers : v \notin requests[i].waiting => viewer'[v] = viewer[v]
    <2>1. viewer' = Resumed(resumed) /\ DOMAIN resumed = requests[i].waiting
      OBVIOUS
    <2>2. HeldInv /\ UNCHANGED <<received, copied>>
      BY DEF IInv
    <2> HIDE DEF resumed, ListFails
    <2> QED BY <1>3, <2>1, <2>2, ResumedKeeps
  <1>5. Waiting(requests, viewer) /\ Ordered(requests, entry.kind)
    BY DEF IInv, WaitingInv, OrderInv
  <1>6. /\ requests' \in Seq(Waits) /\ Waiting(requests', viewer')
        /\ Ordered(requests', IF entry.kind = "inFlight" /\ i = Len(requests)
                              THEN "none" ELSE entry.kind)
    <2>1. /\ Len(requests) = Len(requests) /\ requests' = RemoveAt(requests, i)
          /\ \A j \in DOMAIN requests : /\ requests[j].waiting = requests[j].waiting
                                        /\ requests[j].overdue = requests[j].overdue
      OBVIOUS
    <2> HIDE DEF ListFails
    <2> QED BY <1>2, <1>4, <1>5, <2>1, RequestGone
  <1>7. Ordered(requests', entry'.kind)
    BY <1>6 DEF Ordered, InFlight, NoEntry
  <1>8. RequestsType'
    BY <1>6 DEF IInv, RequestsType, NoEntry, Records
  <1> QED BY <1>1, <1>4, <1>6, <1>7, <1>8 DEF IInv, WaitingInv, OrderInv

-----------------------------------------------------------------------------
\* The Candidate tab.

LEMMA PollCandidateStep ==
  ASSUME IInv, NEW v \in Candidates, PollCandidate(v)
  PROVE  IInv' /\ ShownStep
  <1> USE DEF PollCandidate
  <1> DEFINE me == [Idle EXCEPT !.phase = "list", !.copy = Copy, !.owed = SawEndPlainly(v)]
  <1>1. SourcesInv' /\ CachesInv' /\ ShownInv' /\ ListingInv' /\ ShownStep
    BY DEF IInv, SourcesInv, CachesInv, ShownInv, ListingInv, ShownStep
  <1>2. Copy \in Records /\ (Final(Copy) <=> copied = End)
    BY CopyEnds DEF IInv
  <1>3. v \in Viewers /\ shown[v] \in Shown
    BY DEF IInv, ShownInv, Viewers
  <1>4. SawEndPlainly(v) \in BOOLEAN /\ (SawEndPlainly(v) => Known(received, copied))
    BY <1>3 DEF IInv, ShownInv, Honest, SawEndPlainly, SawEnd, Final
  <1>5. /\ me \in State /\ me.phase = "list" /\ me.record = {} /\ me.copy = Copy
        /\ me.owed = SawEndPlainly(v)
    BY <1>2, <1>4 DEF Idle, State, Phases, Records
  <1>6. ~Final({})
    BY DEF Final
  <1> HIDE DEF me
  <1>7. Held(v, me, received, copied)
    BY <1>2, <1>4, <1>5, <1>6 DEF Held, Honest, Owes, Known
  <1>8. Recent(v, me) /\ UNCHANGED <<received, copied, answered>>
    BY DEF me
  <1>9. RequestsType' /\ OrderInv' /\ WaitingInv' /\ HeldInv'
    BY <1>3, <1>5, <1>7, <1>8, RecentKeeps DEF IInv
  <1> QED BY <1>1, <1>9 DEF IInv

LEMMA WaitOverStep ==
  ASSUME IInv, NEW v \in Candidates, WaitOver(v)
  PROVE  IInv' /\ ShownStep
  <1> USE DEF WaitOver
  <1> DEFINE me == IF answered # None
                   THEN WithList(viewer[v], answered.runs) ELSE WithoutList(viewer[v])
  <1>1. SourcesInv' /\ CachesInv' /\ ShownInv' /\ ListingInv' /\ ShownStep
    BY DEF IInv, SourcesInv, CachesInv, ShownInv, ListingInv, ShownStep
  <1>2. PICK i \in DOMAIN requests :
            /\ v \in requests[i].waiting
            /\ requests' = [requests EXCEPT ![i].waiting = @ \ {v}]
    OBVIOUS
  <1>3. v \in Viewers /\ Held(v, viewer[v], received, copied) /\ viewer[v].phase = "list"
    BY DEF IInv, HeldInv, Viewers
  <1>4. Held(v, me, received, copied)
    BY <1>3, WithListHeld, WithoutListHeld DEF IInv, RequestsType
  <1>5. viewer' = [viewer EXCEPT ![v] = me]
    BY <1>3 DEF IInv, HeldInv
  <1> HIDE DEF me
  <1>6. HeldInv' /\ \A w \in Viewers : w # v => viewer'[w] = viewer[w]
    BY <1>3, <1>4, <1>5, OneMoves DEF IInv
  <1>7. requests \in Seq(Waits) /\ \A j \in DOMAIN requests : requests[j] \in Waits
    BY DEF IInv, RequestsType
  <1>8. [requests[i] EXCEPT !.waiting = @ \ {v}] \in Waits
    BY <1>7 DEF Waits
  <1>9. /\ requests' \in Seq(Waits) /\ DOMAIN requests' = DOMAIN requests
        /\ Len(requests') = Len(requests)
        /\ requests'[i] = [requests[i] EXCEPT !.waiting = @ \ {v}]
        /\ \A j \in DOMAIN requests : j # i => requests'[j] = requests[j]
    <2> DEFINE less == [requests[i] EXCEPT !.waiting = @ \ {v}]
    <2>1. requests' = [requests EXCEPT ![i] = less]
      BY <1>2
    <2> HIDE DEF less
    <2>2. less \in Waits
      BY <1>8 DEF less
    <2>3. /\ requests' \in Seq(Waits) /\ DOMAIN requests' = DOMAIN requests
          /\ Len(requests') = Len(requests) /\ requests'[i] = less
          /\ \A j \in DOMAIN requests : j # i => requests'[j] = requests[j]
      <3>1. requests' = [j \in DOMAIN requests |-> IF j = i THEN less ELSE requests[j]]
        BY <2>1, Zenon
      <3>2. \A j \in DOMAIN requests : requests'[j] \in Waits
        BY <1>7, <2>2, <3>1
      <3>3. Len(requests) \in Nat /\ DOMAIN requests = 1..Len(requests)
        BY <1>7
      <3>4. requests' \in [1..Len(requests) -> Waits]
        BY <3>1, <3>2, <3>3
      <3>5. requests' \in Seq(Waits) /\ Len(requests') = Len(requests)
        BY <3>3, <3>4, FunctionSequence
      <3> QED BY <3>1, <3>5
    <2> QED BY <2>3 DEF less
  <1>10. /\ requests'[i].waiting = requests[i].waiting \ {v}
         /\ \A j \in DOMAIN requests : requests'[j].overdue = requests[j].overdue
    BY <1>7, <1>9 DEF Waits
  <1>11. \A j \in DOMAIN requests : /\ requests'[j].waiting \subseteq requests[j].waiting
                                    /\ v \notin requests'[j].waiting
    BY <1>2, <1>9, <1>10 DEF IInv, WaitingInv, Waiting
  <1>12. WaitingInv'
    <2>1. ASSUME NEW j \in DOMAIN requests, NEW w \in requests'[j].waiting
          PROVE  viewer'[w].phase = "list"
      <3>1. w \in requests[j].waiting /\ w # v /\ w \in Viewers
        BY <1>7, <1>11, <2>1 DEF Waits
      <3> QED BY <1>6, <3>1 DEF IInv, WaitingInv, Waiting
    <2>2. ASSUME NEW j \in DOMAIN requests, NEW k \in DOMAIN requests, j # k
          PROVE  requests'[j].waiting \cap requests'[k].waiting = {}
      BY <1>11, <2>2 DEF IInv, WaitingInv, Waiting
    <2> QED BY <1>9, <2>1, <2>2 DEF WaitingInv, Waiting
  <1>13. requests # <<>> => requests' # <<>>
    BY <1>7, <1>9
  <1>14. OrderInv'
    BY <1>9, <1>10, <1>13 DEF IInv, OrderInv, Ordered
  <1>15. RequestsType'
    BY <1>9 DEF IInv, RequestsType
  <1> QED BY <1>1, <1>6, <1>12, <1>14, <1>15 DEF IInv

\* One response is shown and its viewer is idle again.
LEMMA ShowsOne ==
  ASSUME HeldInv, ShownInv, RequestsType, WaitingInv,
         NEW v \in Viewers, viewer[v].phase # "list",
         NEW response \in Shown, Honest(response.record, received, copied),
         viewer[v].owed => response.noted \/ Final(response.record),
         shown' = [shown EXCEPT ![v] = response], viewer' = [viewer EXCEPT ![v] = Idle],
         UNCHANGED <<received, copied, requests>>
  PROVE  HeldInv' /\ ShownInv' /\ WaitingInv' /\ ShownStep
  <1>1. HeldInv' /\ \A w \in Viewers : w # v => viewer'[w] = viewer[w]
    BY IdleHeld, OneMoves
  <1>2. /\ shown' \in [Viewers -> Shown] /\ shown'[v] = response
        /\ \A w \in Viewers : w # v => shown'[w] = shown[w]
    BY DEF ShownInv
  <1>3. ShownInv' /\ ShownStep
    BY <1>2 DEF ShownInv, ShownStep
  <1>4. /\ {v} \in SUBSET Viewers /\ \A w \in {v} : viewer[w].phase # "list"
        /\ \A w \in Viewers : w \notin {v} => viewer'[w] = viewer[w]
    BY <1>1
  <1>5. Waiting(requests, viewer')
    BY <1>4, NobodyElseWaits
  <1> QED BY <1>1, <1>3, <1>5 DEF WaitingInv

LEMMA AnswerCandidateStep ==
  ASSUME IInv, NEW v \in Candidates, AnswerCandidate(v)
  PROVE  IInv' /\ ShownStep
  <1> USE DEF AnswerCandidate
  <1> DEFINE standing == StandingRecord(viewer[v].record, viewer[v].copy)
             response == [record |-> standing, noted |-> viewer[v].noted]
  <1>1. /\ v \in Viewers /\ viewer[v] \in State /\ viewer[v].phase = "found"
        /\ Held(v, viewer[v], received, copied)
    BY DEF IInv, HeldInv, Viewers
  <1>2. viewer[v].record \in Records /\ viewer[v].copy \in Records /\ viewer[v].noted \in BOOLEAN
    BY <1>1 DEF State
  <1>3. /\ standing \in {viewer[v].record, viewer[v].copy}
        /\ Final(viewer[v].record) \/ Final(viewer[v].copy) => Final(standing)
    BY <1>2, StandingEnds
  <1>4. standing \in Records /\ Honest(standing, received, copied)
    BY <1>1, <1>2, <1>3 DEF Held
  <1>5. viewer[v].owed => viewer[v].noted \/ Final(standing)
    BY <1>1, <1>3 DEF Held, Owes
  <1> HIDE DEF standing
  <1>6. response \in Shown /\ response.record = standing /\ response.noted = viewer[v].noted
    BY <1>2, <1>4 DEF Shown
  <1>7. /\ shown' = [shown EXCEPT ![v] = response] /\ viewer' = [viewer EXCEPT ![v] = Idle]
        /\ UNCHANGED <<received, copied, caches, faults>>
    BY DEF standing
  <1> HIDE DEF response
  <1>8. HeldInv' /\ ShownInv' /\ WaitingInv' /\ ShownStep
    BY <1>1, <1>4, <1>5, <1>6, <1>7, ShowsOne DEF IInv, caches
  <1>9. RequestsType' /\ OrderInv' /\ SourcesInv' /\ CachesInv' /\ ListingInv'
    BY <1>7 DEF IInv, caches, RequestsType, OrderInv, SourcesInv, CachesInv, ListingInv
  <1> QED BY <1>8, <1>9 DEF IInv

-----------------------------------------------------------------------------
\* The collector's record of the run.

LEMMA RecordStep ==
  ASSUME IInv, NEW v \in Viewers, RecordAnswers(v) \/ RecordFails(v)
  PROVE  IInv' /\ ShownStep
  <1>1. /\ viewer[v] \in State /\ viewer[v].phase = "record"
        /\ Held(v, viewer[v], received, copied) /\ received \in Records
    BY DEF IInv, HeldInv, SourcesInv, RecordAnswers, RecordFails
  <1>2. UNCHANGED <<received, copied, requests, entry, answered, copyCache, listing, shown>>
    BY DEF RecordAnswers, RecordFails, caches
  <1>3. SourcesInv' /\ ShownInv' /\ ListingInv' /\ ShownStep /\ RequestsType' /\ OrderInv'
    BY <1>2 DEF IInv, SourcesInv, ShownInv, ListingInv, ShownStep, RequestsType, OrderInv
  <1>4. CachesInv'
    <2>1. CASE RecordAnswers(v)
      <3>1. CASE Final(received)
        <4>1. recordCache'.record = received /\ Known(received, copied)
          BY <2>1, <3>1 DEF RecordAnswers, Known, Final
        <4> QED BY <1>1, <1>2, <3>1, <4>1 DEF IInv, CachesInv
      <3>2. CASE ~Final(received)
        BY <1>2, <2>1, <3>2 DEF RecordAnswers, IInv, CachesInv
      <3> QED BY <3>1, <3>2
    <2>2. CASE RecordFails(v)
      BY <2>2 DEF RecordFails, caches, IInv, CachesInv
    <2> QED BY <2>1, <2>2
  <1>5. PICK me : /\ me \in State /\ me.phase = "found" /\ me.copy = viewer[v].copy
                  /\ \/ me.record = received
                     \/ me.record = viewer[v].record /\ me.noted = TRUE
                  /\ me.owed = viewer[v].owed
                  /\ viewer' = [viewer EXCEPT ![v] = me]
    <2>1. CASE RecordAnswers(v)
      <3> DEFINE me == [viewer[v] EXCEPT !.phase = "found", !.listed = {}, !.record = received]
      <3>1. /\ me \in State /\ me.phase = "found" /\ me.copy = viewer[v].copy
            /\ me.record = received /\ me.owed = viewer[v].owed
        BY <1>1 DEF State, Phases, Records
      <3>2. viewer' = [viewer EXCEPT ![v] = me]
        BY <1>1, <2>1 DEF RecordAnswers, IInv, HeldInv
      <3> HIDE DEF me
      <3> QED BY <3>1, <3>2
    <2>2. CASE RecordFails(v)
      <3> DEFINE me == [viewer[v] EXCEPT !.phase = "found", !.listed = {}, !.noted = TRUE]
      <3>1. /\ me \in State /\ me.phase = "found" /\ me.copy = viewer[v].copy
            /\ me.record = viewer[v].record /\ me.noted = TRUE /\ me.owed = viewer[v].owed
        BY <1>1 DEF State, Phases, Records
      <3>2. viewer' = [viewer EXCEPT ![v] = me]
        BY <1>1, <2>2 DEF RecordFails, IInv, HeldInv
      <3> HIDE DEF me
      <3> QED BY <3>1, <3>2
    <2> QED BY <2>1, <2>2
  <1>6. Held(v, me, received, copied)
    BY <1>1, <1>5 DEF Held, Honest, Owes, Known, Final
  <1>7. HeldInv' /\ \A w \in Viewers : w # v => viewer'[w] = viewer[w]
    BY <1>2, <1>5, <1>6, OneMoves DEF IInv
  <1>8. /\ {v} \in SUBSET Viewers /\ \A w \in {v} : viewer[w].phase # "list"
        /\ \A w \in Viewers : w \notin {v} => viewer'[w] = viewer[w]
    BY <1>1, <1>7
  <1>9. Waiting(requests, viewer')
    BY <1>8, NobodyElseWaits DEF IInv
  <1> QED BY <1>2, <1>3, <1>4, <1>7, <1>9 DEF IInv, WaitingInv

-----------------------------------------------------------------------------
\* The Build progress list and the run's page.

LEMMA ServeKeeps ==
  ASSUME RequestsType, WaitingInv, HeldInv, ShownInv, NEW served \in SUBSET Viewers,
         \A w \in served : viewer[w].phase # "list",
         NEW loaded, loaded.record \in Records, loaded.noted \in BOOLEAN,
         loaded.owed \in BOOLEAN, Honest(loaded.record, received, copied),
         loaded.owed => loaded.noted \/ Final(loaded.record),
         \A w \in served : viewer[w].owed => loaded.owed,
         Serve(served, loaded), UNCHANGED <<received, copied>>
  PROVE  /\ HeldInv' /\ ShownInv' /\ ShownStep /\ Waiting(requests, viewer')
         /\ \A i \in DOMAIN requests : requests[i].waiting \cap served = {}
  <1> DEFINE page == [Idle EXCEPT !.phase = "refresh", !.copy = loaded.record,
                                  !.noted = loaded.noted, !.owed = loaded.owed]
             listed == [record |-> loaded.record, noted |-> loaded.noted]
  <1>1. /\ page \in State /\ page.phase = "refresh" /\ page.record = {}
        /\ page.copy = loaded.record /\ page.noted = loaded.noted /\ page.owed = loaded.owed
    BY DEF Idle, State, Phases, Records
  <1>2. ~Final({})
    BY DEF Final
  <1>3. listed \in Shown /\ listed.record = loaded.record /\ listed.noted = loaded.noted
    BY DEF Shown
  <1>4. /\ viewer' = [w \in Viewers |-> IF w \in served \cap Pages THEN page
                                       ELSE IF w \in served THEN Idle ELSE viewer[w]]
        /\ shown' = [w \in Viewers |-> IF w \in served \cap Builds THEN listed ELSE shown[w]]
    BY DEF Serve
  <1> HIDE DEF page, listed
  <1>5. \A w \in Viewers : Held(w, page, received, copied)
    BY <1>1, <1>2 DEF Held, Honest, Owes
  <1>6. \A w \in Viewers : Held(w, viewer'[w], received, copied)
    BY <1>4, <1>5, IdleHeld DEF HeldInv
  <1>7. \A w \in Viewers : viewer'[w] \in State
    BY <1>6 DEF Held
  <1>8. HeldInv'
    <2>1. viewer' \in [Viewers -> State]
      BY <1>4, <1>7
    <2> QED BY <1>6, <2>1 DEF HeldInv
  <1>9. ShownInv'
    BY <1>3, <1>4 DEF ShownInv
  <1>10. ShownStep
    BY <1>3, <1>4 DEF ShownStep
  <1>11. \A w \in Viewers : w \notin served => viewer'[w] = viewer[w]
    BY <1>4
  <1> QED BY <1>8, <1>9, <1>10, <1>11, NobodyElseWaits

LEMMA PollListingStep ==
  ASSUME IInv, NEW v \in Builds \cup Pages, PollListing(v)
  PROVE  IInv' /\ ShownStep
  <1>1. /\ v \in Viewers /\ v \notin Candidates /\ viewer[v].phase = "idle"
        /\ Held(v, viewer[v], received, copied) /\ viewer[v] \in State
    BY ViewersAssumption DEF IInv, HeldInv, Viewers, PollListing
  <1>2. ~viewer[v].owed
    BY <1>1 DEF Held, Owes, State
  <1>3. UNCHANGED <<received, copied, answered, recordCache, copyCache>>
    BY DEF PollListing
  <1>4. SourcesInv' /\ CachesInv'
    BY <1>3 DEF IInv, SourcesInv, CachesInv
  <1>5. CASE /\ listing.kind = "loaded"
             /\ Serve({v}, listing)
             /\ UNCHANGED <<requests, entry, listing>>
    <2>1. HeldInv' /\ ShownInv' /\ ShownStep /\ Waiting(requests, viewer')
      <3>1. /\ listing.record \in Records /\ listing.noted \in BOOLEAN
            /\ listing.owed \in BOOLEAN /\ Honest(listing.record, received, copied)
            /\ listing.owed => listing.noted \/ Final(listing.record)
        BY <1>5 DEF IInv, ListingInv
      <3>2. /\ {v} \in SUBSET Viewers
            /\ \A w \in {v} : viewer[w].phase # "list" /\ (viewer[w].owed => listing.owed)
        BY <1>1, <1>2
      <3> QED BY <1>3, <1>5, <3>1, <3>2, ServeKeeps DEF IInv
    <2> QED BY <1>3, <1>4, <1>5, <2>1
            DEF IInv, RequestsType, OrderInv, WaitingInv, ListingInv
  <1>6. CASE /\ listing.kind = "loading"
             /\ viewer' = [viewer EXCEPT ![v] = [Idle EXCEPT !.phase = "sharing",
                                                             !.with = listing.by]]
             /\ UNCHANGED <<requests, entry, listing, shown>>
    <2> DEFINE me == [Idle EXCEPT !.phase = "sharing", !.with = listing.by]
    <2>1. me \in State /\ me.record = {} /\ me.copy = {} /\ me.owed = FALSE
      BY DEF IInv, ListingInv, Idle, State, Phases, Records
    <2>2. ~Final({})
      BY DEF Final
    <2>3. Held(v, me, received, copied)
      BY <2>1, <2>2 DEF Held, Honest
    <2>4. viewer' = [viewer EXCEPT ![v] = me]
      BY <1>6
    <2> HIDE DEF me
    <2>5. HeldInv' /\ \A w \in Viewers : w # v => viewer'[w] = viewer[w]
      BY <1>1, <1>3, <2>3, <2>4, OneMoves DEF IInv
    <2>6. /\ {v} \in SUBSET Viewers /\ \A w \in {v} : viewer[w].phase # "list"
          /\ \A w \in Viewers : w \notin {v} => viewer'[w] = viewer[w]
      BY <1>1, <2>5
    <2>7. Waiting(requests, viewer')
      BY <2>6, NobodyElseWaits DEF IInv
    <2> QED BY <1>3, <1>4, <1>6, <2>5, <2>7
            DEF IInv, RequestsType, OrderInv, WaitingInv, ListingInv, ShownInv, ShownStep
  <1>7. ASSUME listing.kind = "none",
               listing' = [NoListing EXCEPT !.kind = "loading", !.by = v],
               Recent(v, [Idle EXCEPT !.phase = "list",
                            !.owed = \E w \in Builds \cup Pages : SawEndPlainly(w)]),
               UNCHANGED shown
        PROVE  IInv' /\ ShownStep
    <2> DEFINE owed == \E w \in Builds \cup Pages : SawEndPlainly(w)
               me == [Idle EXCEPT !.phase = "list", !.owed = owed]
    <2>1. owed \in BOOLEAN /\ (owed => Known(received, copied))
      BY DEF IInv, ShownInv, Honest, SawEndPlainly, SawEnd, Final, Viewers
    <2> HIDE DEF owed
    <2>2. me \in State /\ me.phase = "list" /\ me.record = {} /\ me.copy = {} /\ me.owed = owed
      BY <2>1 DEF Idle, State, Phases, Records
    <2>3. ~Final({})
      BY DEF Final
    <2>4. Recent(v, me)
      BY <1>7 DEF owed
    <2> HIDE DEF me
    <2>5. Held(v, me, received, copied)
      BY <1>1, <2>1, <2>2, <2>3 DEF Held, Honest, Owes, Known
    <2>6. RequestsType' /\ OrderInv' /\ WaitingInv' /\ HeldInv'
      BY <1>1, <1>3, <2>2, <2>4, <2>5, RecentKeeps DEF IInv
    <2>7. /\ listing'.kind = "loading" /\ listing'.by = v /\ listing'.record = {}
          /\ listing'.noted = FALSE /\ listing'.owed = FALSE
      BY <1>7 DEF NoListing
    <2>8. ListingInv'
      BY <1>1, <2>3, <2>7 DEF ListingInv, Records, Honest
    <2> QED BY <1>3, <1>4, <1>7, <2>6, <2>8 DEF IInv, ShownInv, ShownStep
  <1> QED BY <1>5, <1>6, <1>7 DEF PollListing

\* A load that finds the end it owes, or notes a failure, keeps the invariant.
LEMMA LoadKeeps ==
  ASSUME IInv, NEW v \in Builds \cup Pages, NEW copy \in Records, NEW noted \in BOOLEAN,
         Honest(copy, received, copied),
         viewer[v].owed => noted \/ Final(viewer[v].record) \/ Final(copy),
         Load(v, copy, noted)
  PROVE  /\ HeldInv' /\ ShownInv' /\ WaitingInv' /\ RequestsType' /\ OrderInv'
         /\ ListingInv' /\ SourcesInv' /\ ShownStep
  <1> DEFINE standing == StandingRecord(viewer[v].record, copy)
             loaded == [kind |-> "loaded", by |-> None, noted |-> noted,
                        owed |-> viewer[v].owed, record |-> standing]
             sharing == {w \in Viewers : viewer[w].phase = "sharing" /\ viewer[w].with = v}
             served == sharing \cup {v}
  <1>1. /\ viewer[v].phase = "found"
        /\ listing' = IF listing.by = v THEN loaded ELSE listing
        /\ Serve(served, loaded)
        /\ UNCHANGED <<received, copied, requests, entry, answered, recordCache>>
    BY DEF Load
  <1>2. v \in Viewers /\ Held(v, viewer[v], received, copied) /\ viewer[v] \in State
    BY DEF IInv, HeldInv, Viewers
  <1>3. viewer[v].record \in Records /\ viewer[v].owed \in BOOLEAN
        /\ Honest(viewer[v].record, received, copied)
    BY <1>2 DEF State, Held
  <1>4. /\ standing \in {viewer[v].record, copy}
        /\ Final(viewer[v].record) \/ Final(copy) => Final(standing)
    BY <1>3, StandingEnds
  <1>5. /\ standing \in Records /\ Honest(standing, received, copied)
        /\ viewer[v].owed => noted \/ Final(standing)
    BY <1>3, <1>4
  <1> HIDE DEF standing
  <1>6. /\ loaded.record = standing /\ loaded.noted = noted /\ loaded.owed = viewer[v].owed
        /\ loaded.kind = "loaded" /\ loaded.by = None
    OBVIOUS
  <1> HIDE DEF loaded
  <1>7. /\ served \in SUBSET Viewers
        /\ \A w \in served : viewer[w].phase # "list" /\ (viewer[w].owed => loaded.owed)
    <2>1. ASSUME NEW w \in served, w # v
          PROVE  w \in Viewers /\ viewer[w].phase = "sharing" /\ ~viewer[w].owed
      <3>1. w \in Viewers /\ viewer[w].phase = "sharing"
        BY <2>1
      <3>2. viewer[w] \in State /\ Held(w, viewer[w], received, copied)
        BY <3>1 DEF IInv, HeldInv
      <3> QED BY <3>1, <3>2 DEF State, Held, Owes
    <2> QED BY <1>1, <1>2, <1>6, <2>1
  <1> HIDE DEF served
  <1>8. HeldInv' /\ ShownInv' /\ ShownStep /\ Waiting(requests, viewer')
    <2>1. /\ loaded.record \in Records /\ loaded.noted \in BOOLEAN /\ loaded.owed \in BOOLEAN
          /\ Honest(loaded.record, received, copied)
          /\ loaded.owed => loaded.noted \/ Final(loaded.record)
      BY <1>3, <1>5, <1>6
    <2> QED BY <1>1, <1>7, <2>1, ServeKeeps DEF IInv
  <1>9. ListingInv'
    BY <1>1, <1>3, <1>5, <1>6 DEF IInv, ListingInv
  <1> QED BY <1>1, <1>8, <1>9 DEF IInv, WaitingInv, RequestsType, OrderInv, SourcesInv

LEMMA LoadStep ==
  ASSUME IInv, NEW v \in Builds \cup Pages, LoadListing(v) \/ LoadWithoutCopy(v)
  PROVE  IInv' /\ ShownStep
  <1>1. /\ v \notin Candidates /\ viewer[v] \in State /\ Held(v, viewer[v], received, copied)
    BY ViewersAssumption DEF IInv, HeldInv, Viewers
  <1>2. CASE LoadListing(v)
    <2> DEFINE copy == IF copyCache # {} THEN copyCache ELSE Copy
    <2>1. /\ Load(v, copy, viewer[v].noted) /\ viewer[v].phase = "found"
          /\ copyCache' = IF Final(copy) THEN copy ELSE {}
          /\ UNCHANGED <<received, copied, recordCache>>
      BY <1>2 DEF LoadListing, Load
    <2>2. copy \in Records /\ Honest(copy, received, copied) /\ (copied = End => Final(copy))
      BY CopyEnds DEF IInv, CachesInv, Honest, Known
    <2> HIDE DEF copy
    <2>3. viewer[v].owed => viewer[v].noted \/ Final(viewer[v].record) \/ Final(copy)
      BY <1>1, <2>1, <2>2 DEF Held, Owes
    <2>4. viewer[v].noted \in BOOLEAN
      BY <1>1 DEF State
    <2>5. /\ HeldInv' /\ ShownInv' /\ WaitingInv' /\ RequestsType' /\ OrderInv'
          /\ ListingInv' /\ SourcesInv' /\ ShownStep
      BY <2>1, <2>2, <2>3, <2>4, LoadKeeps
    <2>6. CachesInv'
      BY <2>1, <2>2 DEF IInv, CachesInv, Honest, Records
    <2> QED BY <2>5, <2>6 DEF IInv
  <1>3. CASE LoadWithoutCopy(v)
    <2>1. /\ Load(v, {}, TRUE) /\ UNCHANGED <<received, copied, recordCache, copyCache>>
      BY <1>3 DEF LoadWithoutCopy, Load
    <2>2. {} \in Records /\ Honest({}, received, copied)
      BY DEF Records, Honest, Final
    <2>3. /\ HeldInv' /\ ShownInv' /\ WaitingInv' /\ RequestsType' /\ OrderInv'
          /\ ListingInv' /\ SourcesInv' /\ ShownStep
      BY <2>1, <2>2, LoadKeeps
    <2> QED BY <2>1, <2>3 DEF IInv, CachesInv
  <1> QED BY <1>2, <1>3

LEMMA RefreshStep ==
  ASSUME IInv, NEW v \in Viewers, Refresh(v) \/ RefreshFails(v)
  PROVE  IInv' /\ ShownStep
  <1>1. /\ viewer[v].phase = "refresh" /\ viewer[v] \in State
        /\ Held(v, viewer[v], received, copied)
    BY DEF IInv, HeldInv, Refresh, RefreshFails
  <1>2. /\ received \in Records /\ received # {} /\ viewer[v].copy \in Records
        /\ viewer[v].noted \in BOOLEAN
    BY <1>1 DEF IInv, SourcesInv, State
  <1>3. PICK response \in Shown :
            /\ Honest(response.record, received, copied)
            /\ viewer[v].owed => response.noted \/ Final(response.record)
            /\ shown' = [shown EXCEPT ![v] = response]
    <2>1. CASE Refresh(v)
      <3> DEFINE fresh == RefreshedRecord(received, viewer[v].copy)
                 response == [record |-> fresh, noted |-> viewer[v].noted]
      <3>1. /\ fresh \in {received, viewer[v].copy}
            /\ Final(received) \/ Final(viewer[v].copy) => Final(fresh)
        BY <1>2, RefreshedEnds
      <3>2. fresh \in Records /\ Honest(fresh, received, copied)
        BY <1>1, <1>2, <3>1 DEF Held, Honest, Known, Final
      <3>3. viewer[v].owed => viewer[v].noted \/ Final(fresh)
        BY <1>1, <3>1 DEF Held, Owes
      <3>4. shown' = [shown EXCEPT ![v] = response]
        BY <2>1 DEF Refresh
      <3> HIDE DEF fresh
      <3>5. response \in Shown /\ response.record = fresh /\ response.noted = viewer[v].noted
        BY <1>2, <3>2 DEF Shown
      <3> HIDE DEF response
      <3> QED BY <3>2, <3>3, <3>4, <3>5
    <2>2. ASSUME NEW copy \in Records, Honest(copy, received, copied),
                 shown' = [shown EXCEPT ![v] = [record |-> copy, noted |-> TRUE]]
          PROVE  \E response \in Shown :
                    /\ Honest(response.record, received, copied)
                    /\ viewer[v].owed => response.noted \/ Final(response.record)
                    /\ shown' = [shown EXCEPT ![v] = response]
      <3> DEFINE response == [record |-> copy, noted |-> TRUE]
      <3>1. response \in Shown /\ response.record = copy /\ response.noted = TRUE
        BY DEF Shown
      <3>2. shown' = [shown EXCEPT ![v] = response]
        BY <2>2
      <3> HIDE DEF response
      <3> QED BY <2>2, <3>1, <3>2
    <2>3. CASE RefreshFails(v)
      <3>1. Copy \in Records /\ Honest(Copy, received, copied)
        BY CopyEnds DEF IInv, Honest, Known
      <3>2. Honest(viewer[v].copy, received, copied)
        BY <1>1 DEF Held
      <3> QED BY <1>2, <2>2, <2>3, <3>1, <3>2 DEF RefreshFails
    <2> QED BY <2>1, <2>3
  <1>4. viewer' = [viewer EXCEPT ![v] = Idle] /\ UNCHANGED <<received, copied, caches>>
    BY DEF Refresh, RefreshFails
  <1>5. HeldInv' /\ ShownInv' /\ WaitingInv' /\ ShownStep
    BY <1>1, <1>3, <1>4, ShowsOne DEF IInv, caches
  <1>6. RequestsType' /\ OrderInv' /\ SourcesInv' /\ CachesInv' /\ ListingInv'
    BY <1>4 DEF IInv, caches, RequestsType, OrderInv, SourcesInv, CachesInv, ListingInv
  <1> QED BY <1>5, <1>6 DEF IInv

-----------------------------------------------------------------------------

LEMMA InitHeld == Init => IInv
  <1> SUFFICES ASSUME Init PROVE IInv
    OBVIOUS
  <1>1. RequestsType /\ OrderInv /\ WaitingInv
    BY DEF Init, RequestsType, OrderInv, Ordered, WaitingInv, Waiting, NoEntry, Records
  <1>2. End # 1 /\ ~Final({})
    BY EndAssumption DEF Final
  <1>3. SourcesInv /\ CachesInv
    BY EndAssumption DEF Init, SourcesInv, CachesInv, Records, Events
  <1>4. ListingInv
    BY <1>2 DEF Init, ListingInv, NoListing, Records, Honest
  <1>5. Idle \in State /\ Closed \in State
    BY DEF Idle, Closed, State, Phases, Records
  <1>6. viewer \in [Viewers -> State] /\ \A v \in Viewers : viewer[v] \in {Idle, Closed}
    BY <1>5 DEF Init
  <1>7. HeldInv
    BY <1>6, IdleHeld DEF HeldInv
  <1>8. [record |-> {}, noted |-> TRUE] \in Shown
    BY DEF Shown, Records
  <1>9. ShownInv
    BY <1>2, <1>8 DEF Init, ShownInv, Honest
  <1> QED BY <1>1, <1>3, <1>4, <1>7, <1>9 DEF IInv

LEMMA NextHeld == IInv /\ [Next]_vars => IInv' /\ ShownStep
  <1> SUFFICES ASSUME IInv, [Next]_vars PROVE IInv' /\ ShownStep
    OBVIOUS
  <1>1. CASE UNCHANGED vars
    BY <1>1 DEF vars, caches, IInv, RequestsType, OrderInv, WaitingInv, SourcesInv, CachesInv,
                ListingInv, HeldInv, ShownInv, ShownStep
  <1>2. ASSUME NEW v \in Viewers, Poll(v) \/ Answer(v) \/ Disturb(v)
        PROVE  IInv' /\ ShownStep
    <2>1. CASE Poll(v)
      BY <2>1, PollCandidateStep, WaitOverStep, PollListingStep DEF Poll
    <2>2. CASE Answer(v)
      BY <1>2, <2>2, AnswerCandidateStep, LoadStep, RefreshStep, RecordStep DEF Answer
    <2>3. CASE Disturb(v)
      BY <1>2, <2>3, RecordStep, LoadStep, RefreshStep DEF Disturb
    <2> QED BY <1>2, <2>1, <2>2, <2>3
  <1>3. ASSUME NEW i, ListProceeds(i) \/ ListDisturbed(i)
        PROVE  IInv' /\ ShownStep
    BY <1>3, ListAnswersStep, ListOverdueStep, ListFailsStep DEF ListProceeds, ListDisturbed
  <1> QED BY <1>1, <1>2, <1>3, SourcesStep, AgeStep DEF Next

LEMMA HeldAlways == Spec => []IInv
  <1> QED BY InitHeld, NextHeld, PTL DEF Spec

\* The instance has one list request that is not overdue at most, for every
\* set of viewers and whatever becomes of the requests before it.
THEOREM OneRequestIsTimely == Spec => []OneTimelyListRequest
  <1>1. IInv => OneTimelyListRequest
    <2> SUFFICES ASSUME IInv PROVE OneTimelyListRequest
      OBVIOUS
    <2> DEFINE timely == {i \in DOMAIN requests : ~requests[i].overdue}
    <2>1. timely \subseteq {Len(requests)}
      BY DEF IInv, OrderInv, Ordered
    <2>2. IsFiniteSet({Len(requests)}) /\ Cardinality({Len(requests)}) = 1
      BY FS_Singleton
    <2>3. Cardinality(timely) <= 1
      BY <2>1, <2>2, FS_Subset
    <2> QED BY <2>3 DEF OneTimelyListRequest
  <1> QED BY <1>1, HeldAlways, PTL

\* A page that showed the run's end keeps showing it until a read fails, for
\* every set of viewers, every number of events and every delay: its next
\* answer has the end from one of the two records, whichever caches and
\* requests it comes from.
THEOREM TheEndIsNotForgotten == Spec => EndIsNotForgotten
  <1> DEFINE Step ==
        /\ \A v \in Viewers : viewer[v].owed /\ shown'[v] # shown[v] =>
                shown'[v].noted \/ Final(shown'[v].record)
        /\ listing'.kind = "loaded" /\ listing'.owed =>
                listing'.noted \/ Final(listing'.record)
  <1>1. IInv /\ [Next]_vars => Step
    BY NextHeld DEF IInv, ListingInv, ShownStep
  <1>2. Spec => [][Step]_vars
    BY <1>1, HeldAlways, PTL DEF Spec
  <1> QED BY <1>2 DEF EndIsNotForgotten

-----------------------------------------------------------------------------
(***************************************************************************)
(* One read of the documents of a run (StagingRuns), which its writers may *)
(* have torn.                                                              *)
(***************************************************************************)
CONSTANTS Refused, Failed, MaxFetched, MutableSeconds, FinalSeconds, CacheLimit

S == INSTANCE StagingRuns

\* A structured manifest that a candidate was resolved with is of the attempt
\* that the progress beside it is of, if there is any.
LEMMA OneAttemptIsRead ==
  ASSUME NEW run, NEW files, NEW bundles,
         S!CandidateSource(run, files, bundles) \notin {None, Refused},
         S!Structured(S!ParseManifest(files.manifest))
  PROVE  LET docs == S!Documents(files)
         IN  /\ docs.manifest = files.manifest
             /\ docs.progress # None => docs.progress.attempt = docs.manifest.attempt
  <1> DEFINE docs == S!Documents(files)
             m == docs.manifest
  <1>1. /\ docs.manifest = S!ParseManifest(files.manifest)
        /\ docs.calibration = None /\ docs.events = <<>>
    BY DEF S!Documents
  <1>2. docs.manifest # Refused /\ S!Consistent(run, docs)
    BY DEF S!CandidateSource, S!SourceOf
  <1>3. m # None /\ m.version # None /\ m.version >= 2
    BY <1>1 DEF S!Structured
  <1>4. m = files.manifest /\ S!VersionAccepted(m, "manifest")
    BY <1>1, <1>2, <1>3 DEF S!ParseManifest
  <1>5. m.version \in {2, 3}
    BY <1>3, <1>4 DEF S!VersionAccepted
  <1>6. m \in S!Present(docs)
    BY <1>3 DEF S!Present
  <1>7. m.version \in S!VersionsOf(docs)
    BY <1>3, <1>6 DEF S!VersionsOf
  <1>8. S!Present(docs) # {} /\ S!VersionsOf(docs) # {1}
    BY <1>5, <1>6, <1>7
  <1>9. docs.progress # None => docs.progress.attempt = m.attempt
    BY <1>2, <1>3, <1>8 DEF S!Consistent, S!OneAttempt
  <1> QED
    BY <1>4, <1>9

\* Two reads of one run, each torn by its writers in a way of its own, agree on
\* the candidate and on the diagnostics to open, as long as they found the same
\* structured manifest and receipts of one digest are the same: the other
\* documents of the run cannot lead one of them elsewhere
\* (resolveStagingCalibrationSource).
THEOREM TornReadsAgree ==
  ASSUME NEW run, NEW one, NEW other, NEW bundles,
         S!Structured(S!ParseManifest(one.manifest)),
         one.manifest = other.manifest,
         one.receipt.digest = other.receipt.digest => one.receipt = other.receipt,
         S!CandidateSource(run, one, bundles) \notin {None, Refused},
         S!CandidateSource(run, other, bundles) \notin {None, Refused}
  PROVE  /\ S!CandidateSource(run, one, bundles).candidate
                = S!CandidateSource(run, other, bundles).candidate
         /\ S!CandidateSource(run, one, bundles).diagnostics
                = S!CandidateSource(run, other, bundles).diagnostics
  <1> DEFINE m == one.manifest
  <1> DEFINE fromBundle == S!Declared(m, "calibration_diagnostics") = None
  <1> DEFINE Diagnostics(files) ==
        IF fromBundle THEN S!BundleDiagnostics(run, m, files, bundles)
        ELSE S!RunDiagnostics(m, files)
  <1>1. ASSUME NEW files, files.manifest = m,
               S!CandidateSource(run, files, bundles) \notin {None, Refused}
        PROVE  /\ S!Structured(m)
               /\ S!CandidateSource(run, files, bundles).candidate
                    = IF m.attempt.candidate # None THEN m.attempt.candidate ELSE run
               /\ S!CandidateSource(run, files, bundles).diagnostics = Diagnostics(files)
               /\ Diagnostics(files) \notin {None, Refused}
    <2> DEFINE docs == S!Documents(files)
    <2>1. /\ docs.manifest = m
          /\ docs.progress # None => docs.progress.attempt = m.attempt
          /\ S!Structured(m)
      BY <1>1, OneAttemptIsRead DEF S!Documents
    <2>2. m # None
      BY <2>1 DEF S!Structured
    <2>3. S!Candidate(run, docs) = IF m.attempt.candidate # None THEN m.attempt.candidate ELSE run
      <3> HIDE DEF docs, m
      <3> QED
        BY <2>1, <2>2 DEF S!Candidate
    <2>4. /\ Diagnostics(files) \notin {None, Refused}
          /\ S!CandidateSource(run, files, bundles)
                = [candidate |-> S!Candidate(run, docs), diagnostics |-> Diagnostics(files),
                   progress |-> docs.progress, manifest |-> m]
      <3> HIDE DEF docs, m
      <3>1. S!CandidateSource(run, files, bundles) = S!SourceOf(run, docs, files, bundles)
        BY DEF S!CandidateSource, docs
      <3> QED
        BY <1>1, <2>1, <3>1 DEF S!SourceOf
    <2> HIDE DEF docs, m, Diagnostics
    <2> QED
      BY <2>1, <2>3, <2>4
  <1>2. Diagnostics(one) = Diagnostics(other)
    <2>1. /\ S!Structured(m)
          /\ Diagnostics(one) \notin {None, Refused}
          /\ Diagnostics(other) \notin {None, Refused}
      BY <1>1
    <2>2. CASE fromBundle
      <3>1. \A files : S!BundleDiagnostics(run, m, files, bundles) \notin {None, Refused} =>
                /\ files.receipt.digest = S!Declared(m, "staged_dataset").digest
                /\ S!BundleDiagnostics(run, m, files, bundles)
                        = files.receipt.files[S!BundleFile(DOMAIN files.receipt.files)]
        BY DEF S!BundleDiagnostics
      <3>2. one.receipt = other.receipt
        BY <2>1, <2>2, <3>1
      <3> QED
        BY <2>1, <2>2, <3>1, <3>2
    <2>3. CASE ~fromBundle
      <3>1. \A files : S!RunDiagnostics(m, files) \notin {None, Refused} =>
                S!RunDiagnostics(m, files) = S!Declared(m, "calibration_diagnostics").digest
        BY <2>1 DEF S!RunDiagnostics, S!DigestAccepted
      <3> QED
        BY <2>1, <2>3, <3>1
    <2> QED
      BY <2>2, <2>3
  <1> HIDE DEF Diagnostics
  <1> QED
    BY <1>1, <1>2

=============================================================================
