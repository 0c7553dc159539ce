---------------------- MODULE ComparisonBuilds_proofs -----------------------
(***************************************************************************)
(* Three facts of the comparisons, for any number of instances, requests,  *)
(* builds and versions of the code, wherever instances end: a stored part  *)
(* stays as it is, an index stands for all the parts before it, and a      *)
(* request is sent on only to an index.                                    *)
(*                                                                         *)
(* A build knows of each mode that the parts before its next one are       *)
(* stored as its instance's code computes them, and that stays so because  *)
(* parts never change and a build ends with its instance. A request waits  *)
(* for a build of its own pair that has not failed; such a build ends with *)
(* both indexes. And, of the rows in the parts, that each target of the    *)
(* two builds is on one of them.                                           *)
(***************************************************************************)
EXTENDS MCComparisonBuilds, SequenceTheorems, TLAPS

Comparisons == Pairs \X Modes

TypeInv ==
    /\ DOMAIN stored = Comparisons
    /\ version \in [Instances -> Versions]
    /\ DOMAIN active = Instances
    /\ \A i \in Instances : DOMAIN active[i] = Pairs
    /\ build \in [Builds -> BuildState \cup {None}]
    /\ DOMAIN request = Requests

\* A comparison's directory keeps every part it has.
Keeps(c) ==
    \A part \in DOMAIN stored[c] :
        part \in DOMAIN stored'[c] /\ stored'[c][part] = stored[c][part]

\* The parts before the next one are stored as version v computes them.
Has(dir, n, v) ==
    \A k \in 1..(n - 1) : Files[k] \in DOMAIN dir /\ dir[Files[k]] = Content(Files[k], v)

\* A build's uploads are as far as it knows; none has failed until it settles.
GoodBuild(state) ==
    /\ state \in BuildState
    /\ state.settled => state.phase = "uploading"
    /\ \A m \in Modes :
        /\ ~state.settled => state.next[m] # 0
        /\ Has(stored[<<state.pair, m>>], state.next[m], version[state.at])

\* A table remembers, and a request waits for, a build under way.
UnderWay(b, i, pair) ==
    /\ b \in Builds /\ build[b] # None
    /\ build[b].at = i /\ build[b].pair = pair /\ ~build[b].settled

GoodEntry(i, pair) == active[i][pair] # None => UnderWay(active[i][pair], i, pair)

GoodRequest(r) ==
    request[r] # None =>
        /\ request[r].phase \in {"redirected", "joining", "waiting"}
        /\ request[r].pair \in Pairs /\ request[r].mode \in Modes
        /\ request[r].phase # "redirected" => request[r].at \in Instances
        /\ request[r].phase = "redirected" => Exists(request[r].pair, request[r].mode)
        /\ request[r].phase = "waiting" =>
            UnderWay(request[r].on, request[r].at, request[r].pair)

BuildsInv ==
    /\ \A b \in Builds : build[b] # None => GoodBuild(build[b])
    /\ \A i \in Instances, pair \in Pairs : GoodEntry(i, pair)
    /\ \A r \in Requests : GoodRequest(r)

Inv == TypeInv /\ BuildsInv /\ IndexedComparisonsAreWhole

-----------------------------------------------------------------------------
(***************************************************************************)
(* The parts of a comparison.                                              *)
(***************************************************************************)

LEMMA FilesFacts ==
  /\ Len(Parts) \in Nat /\ DOMAIN Parts = 1..Len(Parts)
  /\ Len(Files) = Len(Parts) + 1 /\ DOMAIN Files = 1..Len(Files)
  /\ Files[Len(Files)] = Index
  /\ \A n \in DOMAIN Parts : Files[n] = Parts[n] /\ Parts[n] # Index
  BY PartsAssumption DEF Files

\* What is stored of a comparison stays stored.
LEMMA HasStable ==
  ASSUME NEW c, Keeps(c), NEW n, NEW v, Has(stored[c], n, v)
  PROVE  Has(stored'[c], n, v)
  BY DEF Keeps, Has

LEMMA ExistsStable ==
  ASSUME NEW pair, NEW mode, Keeps(<<pair, mode>>), Exists(pair, mode)
  PROVE  Exists(pair, mode)'
  BY DEF Keeps, Exists

\* Everything up to the index is everything.
LEMMA HasAll ==
  ASSUME NEW dir, NEW n \in Nat, n # 0, n \notin DOMAIN Files, NEW v, Has(dir, n, v)
  PROVE  Index \in DOMAIN dir
  <1>1. Len(Files) \in Nat /\ Len(Files) >= 1 /\ n > Len(Files)
    BY FilesFacts
  <1>2. Len(Files) \in 1..(n - 1)
    BY <1>1
  <1> QED BY <1>2, FilesFacts DEF Has

LEMMA Earlier == ASSUME NEW n \in Nat, NEW k \in 1..n, k # n PROVE k \in 1..(n - 1)
  OBVIOUS

\* The next part's being stored as computed is one step of progress.
LEMMA HasNext ==
  ASSUME NEW dir, NEW n \in Nat, NEW v, Has(dir, n, v),
         Files[n] \in DOMAIN dir, dir[Files[n]] = Content(Files[n], v)
  PROVE  Has(dir, n + 1, v)
  <1> SUFFICES ASSUME NEW k \in 1..n
               PROVE  Files[k] \in DOMAIN dir /\ dir[Files[k]] = Content(Files[k], v)
    BY DEF Has
  <1>1. CASE k = n
    BY <1>1
  <1>2. CASE k # n
    <2>1. k \in 1..(n - 1)
      BY <1>2, Earlier, Zenon
    <2> QED BY <2>1, Zenon DEF Has
  <1> QED BY <1>1, <1>2

\* A part stored by a build of a comparison whose parts it knows keeps every
\* comparison whole.
LEMMA StoresWhole ==
  ASSUME Inv, NEW b \in Builds, build[b] # None, NEW m \in Modes,
         ~Over(build[b], m), FileOf(b, m) \notin DOMAIN Dir(b, m), Stores(b, m)
  PROVE  /\ \A c \in Comparisons : Keeps(c)
         /\ DOMAIN stored' = Comparisons
         /\ IndexedComparisonsAreWhole'
         /\ FileOf(b, m) \in DOMAIN stored'[<<build[b].pair, m>>]
         /\ stored'[<<build[b].pair, m>>][FileOf(b, m)] = Computed(b, m)
  <1> DEFINE own == <<build[b].pair, m>>
             n == build[b].next[m]
             v == version[build[b].at]
  <1>1. build[b] \in BuildState /\ own \in Comparisons /\ n \in Nat
    <2>1. build[b] \in BuildState
      BY DEF Inv, TypeInv
    <2>2. build[b].pair \in Pairs /\ build[b].next \in [Modes -> Nat]
      BY <2>1 DEF BuildState
    <2>3. own \in Comparisons
      BY <2>2 DEF Comparisons
    <2>4. n \in Nat
      BY <2>2
    <2> QED BY <2>1, <2>3, <2>4
  <1>2. /\ DOMAIN stored = Comparisons
        /\ stored' = [stored EXCEPT ![own] = Put(stored[own], Files[n], Content(Files[n], v))]
        /\ Files[n] \notin DOMAIN stored[own]
    BY DEF Inv, TypeInv, Stores, FileOf, Dir, Computed
  <1>3. \A c \in Comparisons \ {own} : stored'[c] = stored[c]
    BY <1>1, <1>2
  <1>4. stored'[own] = Put(stored[own], Files[n], Content(Files[n], v))
    BY <1>1, <1>2
  <1>5. /\ DOMAIN stored'[own] = DOMAIN stored[own] \cup {Files[n]}
        /\ stored'[own][Files[n]] = Content(Files[n], v)
        /\ \A part \in DOMAIN stored[own] : stored'[own][part] = stored[own][part]
    <2> DEFINE dir == stored[own]
               file == Files[n]
               content == Content(Files[n], v)
    <2>1. file \notin DOMAIN dir /\ stored'[own] = Put(dir, file, content)
      BY <1>2, <1>4
    <2> HIDE DEF dir, file, content
    <2>2. /\ DOMAIN Put(dir, file, content) = DOMAIN dir \cup {file}
          /\ Put(dir, file, content)[file] = content
          /\ \A part \in DOMAIN dir : Put(dir, file, content)[part] = dir[part]
      BY <2>1 DEF Put
    <2>3. /\ DOMAIN stored'[own] = DOMAIN dir \cup {file}
          /\ stored'[own][file] = content
          /\ \A part \in DOMAIN dir : stored'[own][part] = dir[part]
      BY <2>1, <2>2
    <2> QED BY <2>3 DEF dir, file, content
  <1>6. \A c \in Comparisons : Keeps(c)
    BY <1>3, <1>5 DEF Keeps
  <1>7. ASSUME Index \in DOMAIN stored'[own], NEW k \in DOMAIN Parts
        PROVE  /\ Parts[k] \in DOMAIN stored'[own]
               /\ stored'[own][Parts[k]] = Content(Parts[k], stored'[own][Index])
    <2>1. CASE Index \in DOMAIN stored[own]
      BY <1>1, <1>5, <2>1 DEF Inv, IndexedComparisonsAreWhole, Comparisons
    <2>2. CASE Index \notin DOMAIN stored[own]
      <3>1. Files[n] = Index
        BY <1>5, <1>7, <2>2
      <3>2. n = Len(Files)
        BY <1>1, <3>1, FilesFacts DEF Over
      <3>3. k \in 1..(n - 1) /\ Files[k] = Parts[k] /\ Parts[k] # Index
        BY <3>2, FilesFacts
      <3>4. Has(stored[own], n, v)
        BY DEF Inv, BuildsInv, GoodBuild
      <3>5. Parts[k] \in DOMAIN stored[own] /\ stored[own][Parts[k]] = Content(Parts[k], v)
        BY <3>3, <3>4 DEF Has
      <3>6. stored'[own][Index] = v
        BY <1>5, <3>1 DEF Content
      <3> QED BY <1>5, <3>5, <3>6
    <2> QED BY <2>1, <2>2
  <1>8. IndexedComparisonsAreWhole'
    <2> SUFFICES ASSUME NEW c \in Comparisons, Index \in DOMAIN stored'[c], NEW k \in DOMAIN Parts
                 PROVE  /\ Parts[k] \in DOMAIN stored'[c]
                        /\ stored'[c][Parts[k]] = Content(Parts[k], stored'[c][Index])
      BY DEF IndexedComparisonsAreWhole, Comparisons
    <2>1. CASE c = own
      BY <1>7, <2>1
    <2>2. CASE c # own
      BY <1>3, <2>2 DEF Inv, IndexedComparisonsAreWhole, Comparisons
    <2> QED BY <2>1, <2>2
  <1> QED BY <1>2, <1>5, <1>6, <1>8 DEF FileOf, Computed

-----------------------------------------------------------------------------
(***************************************************************************)
(* A step of one build.                                                    *)
(***************************************************************************)

\* A build goes on, or ends after it has settled, and nobody else notices.
LEMMA GoesOn ==
  ASSUME Inv, NEW b \in Builds, build[b] # None, NEW state,
         state # None => GoodBuild(state)',
         build[b].settled \/ (/\ state # None /\ state.at = build[b].at
                              /\ state.pair = build[b].pair /\ ~state.settled),
         \A c \in Comparisons : Keeps(c), DOMAIN stored' = Comparisons,
         IndexedComparisonsAreWhole', version' = version,
         Becomes(b, state), Unsettled
  PROVE  Inv'
  <1>1. build' = [build EXCEPT ![b] = state] /\ active' = active /\ request' = request
    BY DEF Becomes, Unsettled
  <1>2. state # None => state \in BuildState
    BY DEF GoodBuild
  <1>3. TypeInv'
    BY <1>1, <1>2 DEF Inv, TypeInv
  <1>4. ASSUME NEW e \in Builds, build'[e] # None PROVE GoodBuild(build[e])'
    <2>1. CASE e = b
      <3>1. build'[e] = state
        BY <1>1, <2>1 DEF Inv, TypeInv
      <3> QED BY <1>4, <3>1 DEF GoodBuild
    <2>2. CASE e # b
      <3>1. build'[e] = build[e] /\ GoodBuild(build[e])
        BY <1>1, <1>4, <2>2 DEF Inv, TypeInv, BuildsInv
      <3>2. build[e].pair \in Pairs
        BY <3>1 DEF GoodBuild, BuildState
      <3> QED BY <3>1, <3>2, HasStable DEF GoodBuild, Comparisons
    <2> QED BY <2>1, <2>2
  <1>5. ASSUME NEW e, NEW i, NEW pair, UnderWay(e, i, pair)
        PROVE  UnderWay(e, i, pair)'
    BY <1>1, <1>5 DEF UnderWay, Inv, TypeInv
  <1>6. ASSUME NEW i \in Instances, NEW pair \in Pairs PROVE GoodEntry(i, pair)'
    BY <1>1, <1>5 DEF GoodEntry, Inv, BuildsInv
  <1>7. ASSUME NEW r \in Requests PROVE GoodRequest(r)'
    <2>1. GoodRequest(r)
      BY DEF Inv, BuildsInv
    <2> QED BY <1>1, <1>5, <2>1, ExistsStable DEF GoodRequest, Comparisons
  <1> QED BY <1>3, <1>4, <1>6, <1>7 DEF Inv, BuildsInv

\* A build settles: who waited for it is answered, and the table forgets it.
LEMMA SettlesWell ==
  ASSUME Inv, NEW b \in Builds, build[b] # None, ~build[b].settled, NEW state, NEW answers,
         NEW p0, p0 = build[b].pair,
         state # None => GoodBuild(state)',
         \/ answers = Unavailable(Waiting(b))
         \/ answers = Redirected(b) /\ \A m \in Modes : Exists(p0, m)',
         \A c \in Comparisons : Keeps(c), DOMAIN stored' = Comparisons,
         IndexedComparisonsAreWhole', version' = version,
         Settles(b, answers, state)
  PROVE  Inv'
  <1> DEFINE i0 == build[b].at
  <1>1. /\ build' = [build EXCEPT ![b] = state]
        /\ request' = answers
        /\ active' = [active EXCEPT ![i0][p0] = None]
    BY DEF Becomes, Settles, Forgotten
  <1>2. state # None => state \in BuildState
    BY DEF GoodBuild
  <1>3. i0 \in Instances /\ p0 \in Pairs
    <2>1. build[b] \in BuildState
      BY DEF Inv, TypeInv
    <2> QED BY <2>1 DEF BuildState
  <1>4. DOMAIN answers = Requests
    BY DEF Unavailable, Redirected
  <1>5. TypeInv'
    BY <1>1, <1>2, <1>4 DEF Inv, TypeInv
  <1>6. ASSUME NEW e \in Builds, build'[e] # None PROVE GoodBuild(build[e])'
    <2>1. CASE e = b
      <3>1. build'[e] = state
        BY <1>1, <2>1 DEF Inv, TypeInv
      <3> QED BY <1>6, <3>1 DEF GoodBuild
    <2>2. CASE e # b
      <3>1. build'[e] = build[e] /\ GoodBuild(build[e])
        BY <1>1, <1>6, <2>2 DEF Inv, TypeInv, BuildsInv
      <3>2. build[e].pair \in Pairs
        BY <3>1 DEF GoodBuild, BuildState
      <3> QED BY <3>1, <3>2, HasStable DEF GoodBuild, Comparisons
    <2> QED BY <2>1, <2>2
  <1>7. ASSUME NEW e, e # b, NEW i, NEW pair, UnderWay(e, i, pair)
        PROVE  UnderWay(e, i, pair)'
    BY <1>1, <1>7 DEF UnderWay, Inv, TypeInv
  <1>8. ASSUME NEW i \in Instances, NEW pair \in Pairs PROVE GoodEntry(i, pair)'
    <2>1. GoodEntry(i, pair)
      BY DEF Inv, BuildsInv
    <2>2. CASE i = i0 /\ pair = p0
      <3>1. active'[i][pair] = None
        BY <1>1, <1>3, <2>2 DEF Inv, TypeInv
      <3> QED BY <3>1 DEF GoodEntry
    <2>3. CASE ~(i = i0 /\ pair = p0)
      <3>1. active'[i][pair] = active[i][pair]
        BY <1>1, <2>3 DEF Inv, TypeInv
      <3>2. active[i][pair] # None => active[i][pair] # b
        BY <2>1, <2>3 DEF GoodEntry, UnderWay
      <3> QED BY <1>7, <2>1, <3>1, <3>2 DEF GoodEntry
    <2> QED BY <2>2, <2>3
  <1>9. ASSUME NEW r \in Requests PROVE GoodRequest(r)'
    <2>1. GoodRequest(r)
      BY DEF Inv, BuildsInv
    <2>2. CASE r \in Waiting(b)
      <3>1. request[r].pair = p0 /\ request[r].mode \in Modes
        BY <2>1, <2>2 DEF GoodRequest, UnderWay, Waiting, At
      <3>2. CASE request'[r] = None
        BY <3>2 DEF GoodRequest
      <3>3. CASE /\ request'[r] = Redirect(request[r].pair, request[r].mode)
                 /\ \A m \in Modes : Exists(p0, m)'
        BY <1>3, <3>1, <3>3 DEF GoodRequest, Redirect, Exists
      <3> QED BY <1>1, <2>2, <3>2, <3>3 DEF Unavailable, Redirected
    <2>3. CASE r \notin Waiting(b)
      <3>1. request'[r] = request[r]
        BY <1>1, <2>3 DEF Unavailable, Redirected
      <3>2. request[r] # None /\ request[r].phase = "waiting" => request[r].on # b
        BY <2>3 DEF Waiting, At
      <3> QED BY <1>7, <2>1, <3>1, <3>2, ExistsStable DEF GoodRequest, Comparisons
    <2> QED BY <2>2, <2>3
  <1> QED BY <1>5, <1>6, <1>8, <1>9 DEF Inv, BuildsInv

\* What an upload of a build under way has before its next part.
LEMMA UploadFacts ==
  ASSUME Inv, NEW b \in Builds, NEW m \in Modes, Uploading(b, m)
  PROVE  /\ GoodBuild(build[b]) /\ build[b] # None /\ ~Over(build[b], m)
         /\ build[b].phase = "uploading"
         /\ build[b].pair \in Pairs /\ build[b].at \in Instances
         /\ build[b].next \in [Modes -> Nat] /\ build[b].putting \in [Modes -> BOOLEAN]
         /\ build[b].next[m] \in DOMAIN Files
         /\ \A k \in Modes : <<build[b].pair, k>> \in Comparisons
  <1>1. GoodBuild(build[b]) /\ build[b] # None /\ ~Over(build[b], m)
        /\ build[b].phase = "uploading"
    BY DEF Inv, BuildsInv, Uploading
  <1>2. build[b] \in BuildState
    BY <1>1 DEF GoodBuild
  <1> QED BY <1>1, <1>2 DEF BuildState, Over, Comparisons

\* A failed upload stops, and its build settles unless it had.
LEMMA FailsWell ==
  ASSUME Inv, NEW b \in Builds, NEW m \in Modes, Uploading(b, m), Fails(b, m),
         \A c \in Comparisons : Keeps(c), DOMAIN stored' = Comparisons,
         IndexedComparisonsAreWhole', version' = version
  PROVE  Inv'
  <1>1. PICK old : old = build[b]
    OBVIOUS
  <1>2. PICK state : state = [old EXCEPT !.settled = TRUE, !.next[m] = 0, !.putting[m] = FALSE]
    OBVIOUS
  <1>3. PICK after : after = IF \A n \in Modes : Over(state, n) THEN None ELSE state
    OBVIOUS
  <1>4. /\ GoodBuild(old) /\ old \in BuildState /\ old.pair \in Pairs /\ old.phase = "uploading"
        /\ old.next \in [Modes -> Nat] /\ old.putting \in [Modes -> BOOLEAN]
        /\ \A k \in Modes : <<old.pair, k>> \in Comparisons
    BY <1>1, UploadFacts DEF GoodBuild
  <1>5. /\ state.at = old.at /\ state.pair = old.pair /\ state.phase = "uploading"
        /\ state.settled /\ state \in BuildState
        /\ state.next = [old.next EXCEPT ![m] = 0]
    BY <1>2, <1>4 DEF BuildState
  <1>6. ASSUME NEW k \in Modes
        PROVE  Has(stored'[<<state.pair, k>>], state.next[k], version[state.at])
    <2>1. CASE k = m
      <3>1. state.next[k] = 0
        BY <1>4, <1>5, <2>1
      <3> QED BY <3>1 DEF Has
    <2>2. CASE k # m
      <3>1. state.next[k] = old.next[k]
        BY <1>4, <1>5, <2>2
      <3>2. Has(stored[<<old.pair, k>>], old.next[k], version[old.at])
        BY <1>4 DEF GoodBuild
      <3> QED BY <1>4, <1>5, <3>1, <3>2, HasStable
    <2> QED BY <2>1, <2>2
  <1>7. GoodBuild(state)'
    BY <1>5, <1>6 DEF GoodBuild
  <1>8. after # None => GoodBuild(after)'
    BY <1>3, <1>7
  <1>9. build[b] # None
    BY UploadFacts
  <1>10. CASE build[b].settled
    <2>1. Becomes(b, after) /\ Unsettled
      BY <1>1, <1>2, <1>3, <1>10 DEF Fails
    <2> QED BY <1>8, <1>9, <1>10, <2>1, GoesOn
  <1>11. CASE ~build[b].settled
    <2>1. Settles(b, Unavailable(Waiting(b)), after)
      BY <1>1, <1>2, <1>3, <1>11 DEF Fails
    <2>2. PICK answers : answers = Unavailable(Waiting(b))
      OBVIOUS
    <2>3. PICK p0 : p0 = build[b].pair
      OBVIOUS
    <2> QED BY <1>8, <1>9, <1>11, <2>1, <2>2, <2>3, SettlesWell
  <1> QED BY <1>10, <1>11

\* A part that is stored as computed takes the upload one further.
LEMMA ProceedsWell ==
  ASSUME Inv, NEW b \in Builds, NEW m \in Modes, Uploading(b, m), NEW state,
         state \in BuildState, state.at = build[b].at, state.pair = build[b].pair,
         state.phase = build[b].phase, state.settled = build[b].settled,
         state.next = [build[b].next EXCEPT ![m] = @ + 1],
         FileOf(b, m) \in DOMAIN stored'[<<build[b].pair, m>>],
         stored'[<<build[b].pair, m>>][FileOf(b, m)] = Computed(b, m),
         Proceeds(b, state),
         \A c \in Comparisons : Keeps(c), DOMAIN stored' = Comparisons,
         IndexedComparisonsAreWhole', version' = version
  PROVE  Inv'
  <1>1. PICK old : old = build[b]
    OBVIOUS
  <1>2. /\ GoodBuild(old) /\ old.pair \in Pairs /\ old.phase = "uploading" /\ old # None
        /\ old.next \in [Modes -> Nat]
        /\ \A k \in Modes : <<old.pair, k>> \in Comparisons
    BY <1>1, UploadFacts
  <1>3. ASSUME NEW k \in Modes
        PROVE  /\ Has(stored'[<<old.pair, k>>], state.next[k], version[old.at])
               /\ state.next[k] \in Nat
               /\ ~old.settled => state.next[k] # 0
    <2>1. Has(stored[<<old.pair, k>>], old.next[k], version[old.at])
          /\ (~old.settled => old.next[k] # 0)
      BY <1>2 DEF GoodBuild
    <2>2. Has(stored'[<<old.pair, k>>], old.next[k], version[old.at])
      BY <1>2, <2>1, HasStable
    <2>3. CASE k = m
      <3>1. state.next[k] = old.next[k] + 1 /\ old.next[k] \in Nat
        BY <1>1, <1>2, <2>3
      <3>2. /\ Files[old.next[k]] \in DOMAIN stored'[<<old.pair, k>>]
            /\ stored'[<<old.pair, k>>][Files[old.next[k]]]
                    = Content(Files[old.next[k]], version[old.at])
        BY <1>1, <2>3 DEF FileOf, Computed
      <3>3. Has(stored'[<<old.pair, k>>], old.next[k] + 1, version[old.at])
        BY <2>2, <3>1, <3>2, HasNext
      <3> QED BY <3>1, <3>3
    <2>4. CASE k # m
      <3>1. state.next[k] = old.next[k] /\ old.next[k] \in Nat
        BY <1>1, <1>2, <2>4
      <3> QED BY <2>1, <2>2, <3>1
    <2> QED BY <2>3, <2>4
  <1>4. GoodBuild(state)'
    BY <1>1, <1>2, <1>3 DEF GoodBuild
  <1>5. CASE \E k \in Modes : ~Over(state, k)
    <2>1. Becomes(b, state) /\ Unsettled
      BY <1>5 DEF Proceeds
    <2>2. state # None
      BY NoneAssumption
    <2> QED BY <1>1, <1>2, <1>4, <2>1, <2>2, GoesOn
  <1>6. CASE (\A k \in Modes : Over(state, k)) /\ build[b].settled
    <2>1. Becomes(b, None) /\ Unsettled
      BY <1>6 DEF Proceeds
    <2> QED BY <1>1, <1>2, <1>6, <2>1, GoesOn
  <1>7. CASE (\A k \in Modes : Over(state, k)) /\ ~build[b].settled
    <2>1. Settles(b, Redirected(b), None)
      BY <1>7 DEF Proceeds
    <2>2. PICK answers : answers = Redirected(b)
      OBVIOUS
    <2>3. PICK p0 : p0 = build[b].pair
      OBVIOUS
    <2>4. ASSUME NEW k \in Modes PROVE Exists(p0, k)'
      <3>1. state.next[k] \in Nat /\ state.next[k] # 0 /\ state.next[k] \notin DOMAIN Files
        BY <1>1, <1>3, <1>7 DEF Over
      <3>2. Index \in DOMAIN stored'[<<old.pair, k>>]
        BY <1>3, <3>1, HasAll
      <3> QED BY <1>1, <2>3, <3>2 DEF Exists
    <2> QED BY <1>1, <1>2, <1>7, <2>1, <2>2, <2>3, <2>4, SettlesWell
  <1> QED BY <1>5, <1>6, <1>7

-----------------------------------------------------------------------------
(***************************************************************************)
(* The steps.                                                              *)
(***************************************************************************)

\* A step that leaves the store alone keeps every part.
LEMMA StoreKept ==
  ASSUME Inv, stored' = stored
  PROVE  /\ \A c \in Comparisons : Keeps(c)
         /\ DOMAIN stored' = Comparisons
         /\ IndexedComparisonsAreWhole'
  BY DEF Inv, TypeInv, Keeps, IndexedComparisonsAreWhole

LEMMA AskStep ==
  ASSUME Inv, NEW r \in Requests, NEW i \in Instances, NEW pair \in Pairs, NEW mode \in Modes,
         Ask(r, i, pair, mode)
  PROVE  Inv'
  <1>1. /\ UNCHANGED <<stored, version, active, build>>
        /\ request' = [request EXCEPT ![r] =
            IF Exists(pair, mode) THEN Redirect(pair, mode)
            ELSE [phase |-> "joining", pair |-> pair, mode |-> mode, at |-> i, on |-> None]]
    BY DEF Ask
  <1>2. TypeInv' /\ IndexedComparisonsAreWhole'
    BY <1>1, StoreKept DEF Inv, TypeInv
  <1>3. /\ \A b \in Builds : build'[b] # None => GoodBuild(build[b])'
        /\ \A j \in Instances, q \in Pairs : GoodEntry(j, q)'
    BY <1>1 DEF Inv, BuildsInv, GoodBuild, GoodEntry, UnderWay
  <1>4. ASSUME NEW s \in Requests PROVE GoodRequest(s)'
    <2>1. CASE s = r
      <3>1. request'[s] = IF Exists(pair, mode) THEN Redirect(pair, mode)
            ELSE [phase |-> "joining", pair |-> pair, mode |-> mode, at |-> i, on |-> None]
        BY <1>1, <2>1 DEF Inv, TypeInv
      <3> QED BY <1>1, <3>1 DEF GoodRequest, Redirect, Exists
    <2>2. CASE s # r
      <3>1. request'[s] = request[s] /\ GoodRequest(s)
        BY <1>1, <2>2 DEF Inv, BuildsInv, TypeInv
      <3> QED BY <1>1, <3>1 DEF GoodRequest, UnderWay, Exists
    <2> QED BY <2>1, <2>2
  <1> QED BY <1>2, <1>3, <1>4 DEF Inv, BuildsInv

\* A request that joins waits for what the table remembers afterwards.
LEMMA WaitsWell ==
  ASSUME Inv, NEW r \in Requests, At(r, "joining"), NEW b,
         UnderWay(b, request[r].at, request[r].pair)',
         request' = [request EXCEPT ![r].phase = "waiting", ![r].on = b],
         stored' = stored,
         \A e, i, pair : UnderWay(e, i, pair) => UnderWay(e, i, pair)'
  PROVE  \A s \in Requests : GoodRequest(s)'
  <1> SUFFICES ASSUME NEW s \in Requests PROVE GoodRequest(s)'
    OBVIOUS
  <1>1. GoodRequest(s) /\ DOMAIN request = Requests
    BY DEF Inv, BuildsInv, TypeInv
  <1>2. CASE s = r
    <2>1. request'[s] = [request[r] EXCEPT !.phase = "waiting", !.on = b]
      BY <1>1, <1>2
    <2> QED BY <1>1, <1>2, <2>1 DEF GoodRequest, At
  <1>3. CASE s # r
    <2>1. request'[s] = request[s]
      BY <1>1, <1>3
    <2> QED BY <1>1, <2>1 DEF GoodRequest, Exists
  <1> QED BY <1>2, <1>3

LEMMA JoinStep ==
  ASSUME Inv, NEW r \in Requests, Join(r)
  PROVE  Inv'
  <1>1. PICK i : i = request[r].at
    OBVIOUS
  <1>2. PICK pair : pair = request[r].pair
    OBVIOUS
  <1>3. /\ At(r, "joining") /\ GoodRequest(r) /\ i \in Instances /\ pair \in Pairs
        /\ UNCHANGED <<stored, version, faults>>
    BY <1>1, <1>2 DEF Join, At, Inv, BuildsInv, GoodRequest
  <1>4. CASE /\ active[i][pair] # None /\ UNCHANGED <<active, build>>
             /\ request' = [request EXCEPT ![r].phase = "waiting", ![r].on = active[i][pair]]
    <2>1. PICK b : b = active[i][pair]
      OBVIOUS
    <2>2. \A e, j, q : UnderWay(e, j, q) => UnderWay(e, j, q)'
      BY <1>4 DEF UnderWay
    <2>3. UnderWay(b, i, pair)
      BY <1>3, <1>4, <2>1 DEF Inv, BuildsInv, GoodEntry
    <2>4. UnderWay(b, request[r].at, request[r].pair)'
      <3>1. request'[r].at = i /\ request'[r].pair = pair
        BY <1>1, <1>2, <1>3, <1>4 DEF Inv, TypeInv, At
      <3> QED BY <2>2, <2>3, <3>1
    <2>5. \A s \in Requests : GoodRequest(s)'
      BY <1>3, <1>4, <2>1, <2>2, <2>4, WaitsWell
    <2>6. TypeInv' /\ IndexedComparisonsAreWhole'
      BY <1>3, <1>4, StoreKept DEF Inv, TypeInv
    <2>7. /\ \A e \in Builds : build'[e] # None => GoodBuild(build[e])'
          /\ \A j \in Instances, q \in Pairs : GoodEntry(j, q)'
      BY <1>3, <1>4 DEF Inv, BuildsInv, GoodBuild, GoodEntry, UnderWay
    <2> QED BY <2>5, <2>6, <2>7 DEF Inv, BuildsInv
  <1>5. ASSUME active[i][pair] = None, NEW b \in Builds, build[b] = None,
               build' = [build EXCEPT ![b] = NewBuild(i, pair)],
               active' = [active EXCEPT ![i][pair] = b],
               request' = [request EXCEPT ![r].phase = "waiting", ![r].on = b]
        PROVE  Inv'
    <2>1. PICK state : state = NewBuild(i, pair)
      OBVIOUS
    <2>2. /\ state \in BuildState /\ state # None /\ state.at = i /\ state.pair = pair
          /\ ~state.settled /\ \A m \in Modes : state.next[m] = 1
      <3>1. /\ [m \in Modes |-> 1] \in [Modes -> Nat]
            /\ [m \in Modes |-> FALSE] \in [Modes -> BOOLEAN]
        OBVIOUS
      <3>2. state \in BuildState
        BY <1>3, <2>1, <3>1, Zenon DEF NewBuild, BuildState
      <3>3. state.at = i /\ state.pair = pair /\ ~state.settled
            /\ state.next = [m \in Modes |-> 1]
        BY <2>1 DEF NewBuild
      <3> QED BY <3>2, <3>3, NoneAssumption
    <2>3. build'[b] = state /\ \A e \in Builds : e # b => build'[e] = build[e]
      BY <1>5, <2>1 DEF Inv, TypeInv
    <2>4. \A e, j, q : UnderWay(e, j, q) => UnderWay(e, j, q)'
      BY <1>5, <2>3 DEF UnderWay
    <2>5. UnderWay(b, i, pair)'
      BY <2>2, <2>3 DEF UnderWay
    <2>6. UnderWay(b, request[r].at, request[r].pair)'
      <3>1. request'[r].at = i /\ request'[r].pair = pair
        BY <1>1, <1>2, <1>3, <1>5 DEF Inv, TypeInv, At
      <3> QED BY <2>5, <3>1
    <2>7. \A s \in Requests : GoodRequest(s)'
      BY <1>3, <1>5, <2>4, <2>6, WaitsWell
    <2>8. TypeInv'
      BY <1>3, <1>5, <2>1, <2>2 DEF Inv, TypeInv
    <2>9. ASSUME NEW e \in Builds, build'[e] # None PROVE GoodBuild(build[e])'
      <3>1. CASE e = b
        <4>1. \A m \in Modes : Has(stored'[<<state.pair, m>>], 1, version'[state.at])
          BY DEF Has
        <4> QED BY <2>2, <2>3, <3>1, <4>1 DEF GoodBuild
      <3>2. CASE e # b
        BY <1>3, <2>3, <2>9, <3>2 DEF Inv, BuildsInv, GoodBuild
      <3> QED BY <3>1, <3>2
    <2>10. ASSUME NEW j \in Instances, NEW q \in Pairs PROVE GoodEntry(j, q)'
      <3>1. CASE j = i /\ q = pair
        <4>1. active'[j][q] = b
          BY <1>3, <1>5, <3>1 DEF Inv, TypeInv
        <4> QED BY <2>5, <3>1, <4>1 DEF GoodEntry
      <3>2. CASE ~(j = i /\ q = pair)
        <4>1. active'[j][q] = active[j][q] /\ GoodEntry(j, q)
          BY <1>5, <3>2 DEF Inv, TypeInv, BuildsInv
        <4> QED BY <2>4, <4>1 DEF GoodEntry
      <3> QED BY <3>1, <3>2
    <2>11. IndexedComparisonsAreWhole'
      BY <1>3, StoreKept
    <2> QED BY <2>7, <2>8, <2>9, <2>10, <2>11 DEF Inv, BuildsInv
  <1> QED BY <1>1, <1>2, <1>4, <1>5 DEF Join

LEMMA EvictStep ==
  ASSUME Inv, NEW i \in Instances, NEW pair \in Pairs, Evict(i, pair)
  PROVE  Inv'
  <1>1. /\ UNCHANGED <<stored, version, build, request>>
        /\ active' = [active EXCEPT ![i][pair] = None]
    BY DEF Evict
  <1>2. TypeInv' /\ IndexedComparisonsAreWhole'
    BY <1>1, StoreKept DEF Inv, TypeInv
  <1>3. /\ \A b \in Builds : build'[b] # None => GoodBuild(build[b])'
        /\ \A r \in Requests : GoodRequest(r)'
    BY <1>1 DEF Inv, BuildsInv, GoodBuild, GoodRequest, UnderWay, Exists
  <1>4. ASSUME NEW j \in Instances, NEW q \in Pairs PROVE GoodEntry(j, q)'
    <2>1. active'[j][q] = None \/ active'[j][q] = active[j][q]
      BY <1>1 DEF Inv, TypeInv
    <2>2. GoodEntry(j, q)
      BY DEF Inv, BuildsInv
    <2> QED BY <1>1, <2>1, <2>2 DEF GoodEntry, UnderWay
  <1> QED BY <1>2, <1>3, <1>4 DEF Inv, BuildsInv

LEMMA CheckStep ==
  ASSUME Inv, NEW b \in Builds, CheckBoth(b) \/ CheckFails(b)
  PROVE  Inv'
  <1>1. /\ build[b] # None /\ build[b].phase = "checking" /\ UNCHANGED <<stored, version>>
    BY DEF CheckBoth, CheckFails
  <1>2. GoodBuild(build[b]) /\ ~build[b].settled
    BY <1>1 DEF Inv, BuildsInv, GoodBuild
  <1>3. PICK p0 : p0 = build[b].pair
    OBVIOUS
  <1>4. ASSUME NEW answers, Settles(b, answers, None),
               \/ answers = Unavailable(Waiting(b))
               \/ answers = Redirected(b) /\ \A m \in Modes : Exists(p0, m)'
        PROVE  Inv'
    BY <1>1, <1>2, <1>3, <1>4, StoreKept, SettlesWell
  <1>5. CASE CheckFails(b)
    <2>1. PICK answers : answers = Unavailable(Waiting(b))
      OBVIOUS
    <2> QED BY <1>4, <1>5, <2>1 DEF CheckFails
  <1>6. CASE Settles(b, Redirected(b), None) /\ \A m \in Modes : Exists(build[b].pair, m)
    <2>1. PICK answers : answers = Redirected(b)
      OBVIOUS
    <2>2. \A m \in Modes : Exists(p0, m)'
      BY <1>1, <1>3, <1>6 DEF Exists
    <2> QED BY <1>4, <1>6, <2>1, <2>2
  <1>7. CASE Becomes(b, [build[b] EXCEPT !.phase = "uploading"]) /\ Unsettled
    <2>1. PICK old : old = build[b]
      OBVIOUS
    <2>2. PICK state : state = [old EXCEPT !.phase = "uploading"]
      OBVIOUS
    <2>3. old \in BuildState
      BY <1>2, <2>1 DEF GoodBuild
    <2>4. /\ state \in BuildState /\ state.at = old.at /\ state.pair = old.pair
          /\ state.settled = old.settled /\ state.next = old.next /\ state.phase = "uploading"
      BY <2>2, <2>3 DEF BuildState
    <2>5. GoodBuild(state)'
      BY <1>1, <1>2, <2>1, <2>4 DEF GoodBuild
    <2>6. state # None /\ ~state.settled
      BY <1>2, <2>1, <2>4, NoneAssumption
    <2> QED BY <1>1, <1>7, <2>1, <2>2, <2>4, <2>5, <2>6, StoreKept, GoesOn
  <1> QED BY <1>5, <1>6, <1>7 DEF CheckBoth

LEMMA GetStep ==
  ASSUME Inv, NEW b \in Builds, NEW m \in Modes, GetPart(b, m)
  PROVE  Inv'
  <1>1. Uploading(b, m) /\ UNCHANGED <<stored, version>>
    BY DEF GetPart
  <1>2. PICK old : old = build[b]
    OBVIOUS
  <1>3. old \in BuildState /\ old # None
    BY <1>1, <1>2, UploadFacts DEF GoodBuild
  <1>4. CASE Fails(b, m)
    BY <1>1, <1>4, StoreKept, FailsWell
  <1>5. CASE /\ FileOf(b, m) \in DOMAIN Dir(b, m) /\ Dir(b, m)[FileOf(b, m)] = Computed(b, m)
             /\ Proceeds(b, [build[b] EXCEPT !.next[m] = @ + 1])
    <2>1. PICK state : state = [old EXCEPT !.next[m] = @ + 1]
      OBVIOUS
    <2>2. /\ state \in BuildState /\ state.at = old.at /\ state.pair = old.pair
          /\ state.phase = old.phase /\ state.settled = old.settled
          /\ state.next = [old.next EXCEPT ![m] = @ + 1]
      BY <1>3, <2>1 DEF BuildState
    <2> QED BY <1>1, <1>2, <1>5, <2>1, <2>2, StoreKept, ProceedsWell DEF Dir
  <1>6. CASE Becomes(b, [build[b] EXCEPT !.putting[m] = TRUE]) /\ Unsettled
    <2>1. PICK state : state = [old EXCEPT !.putting[m] = TRUE]
      OBVIOUS
    <2>2. /\ state \in BuildState /\ state.at = old.at /\ state.pair = old.pair
          /\ state.phase = old.phase /\ state.settled = old.settled /\ state.next = old.next
      BY <1>3, <2>1 DEF BuildState
    <2>3. GoodBuild(state)' /\ state # None
      BY <1>1, <1>2, <2>2, UploadFacts, NoneAssumption DEF GoodBuild
    <2> QED BY <1>1, <1>2, <1>3, <1>6, <2>1, <2>2, <2>3, StoreKept, GoesOn
  <1> QED BY <1>4, <1>5, <1>6 DEF GetPart

LEMMA PutStep ==
  ASSUME Inv, NEW b \in Builds, NEW m \in Modes, PutPart(b, m)
  PROVE  Inv'
  <1>1. Uploading(b, m) /\ UNCHANGED version
    BY DEF PutPart
  <1>2. PICK old : old = build[b]
    OBVIOUS
  <1>3. old \in BuildState /\ old # None /\ ~Over(build[b], m)
    BY <1>1, <1>2, UploadFacts DEF GoodBuild
  <1>4. CASE Fails(b, m) /\ UNCHANGED stored
    BY <1>1, <1>4, StoreKept, FailsWell
  <1>5. CASE /\ FileOf(b, m) \notin DOMAIN Dir(b, m) /\ Stores(b, m)
             /\ Proceeds(b, [build[b] EXCEPT !.next[m] = @ + 1, !.putting[m] = FALSE])
    <2>1. PICK state : state = [old EXCEPT !.next[m] = @ + 1, !.putting[m] = FALSE]
      OBVIOUS
    <2>2. PICK further : further = [old EXCEPT !.next[m] = @ + 1]
      OBVIOUS
    <2>3. /\ further \in BuildState /\ further.at = old.at /\ further.pair = old.pair
          /\ further.phase = old.phase /\ further.settled = old.settled
          /\ further.next = [old.next EXCEPT ![m] = @ + 1]
      BY <1>3, <2>2 DEF BuildState
    <2>4. state = [further EXCEPT !.putting[m] = FALSE]
      BY <1>3, <2>1, <2>2 DEF BuildState
    <2>5. /\ state \in BuildState /\ state.at = old.at /\ state.pair = old.pair
          /\ state.phase = old.phase /\ state.settled = old.settled
          /\ state.next = [old.next EXCEPT ![m] = @ + 1]
      BY <2>3, <2>4 DEF BuildState
    <2>6. /\ \A c \in Comparisons : Keeps(c)
          /\ DOMAIN stored' = Comparisons
          /\ IndexedComparisonsAreWhole'
          /\ FileOf(b, m) \in DOMAIN stored'[<<build[b].pair, m>>]
          /\ stored'[<<build[b].pair, m>>][FileOf(b, m)] = Computed(b, m)
      BY <1>2, <1>3, <1>5, StoresWhole
    <2>7. Proceeds(b, state)
      BY <1>2, <1>5, <2>1
    <2> QED BY <1>1, <1>2, <2>5, <2>6, <2>7, ProceedsWell
  <1> QED BY <1>4, <1>5 DEF PutPart

LEMMA StorageFailsStep ==
  ASSUME Inv, NEW b \in Builds, NEW m \in Modes, StorageFails(b, m)
  PROVE  Inv'
  <1>1. Uploading(b, m) /\ Fails(b, m) /\ UNCHANGED version
    BY DEF StorageFails
  <1>2. CASE UNCHANGED stored
    BY <1>1, <1>2, StoreKept, FailsWell
  <1>3. CASE FileOf(b, m) \notin DOMAIN Dir(b, m) /\ Stores(b, m)
    BY <1>1, <1>3, UploadFacts, StoresWhole, FailsWell
  <1> QED BY <1>2, <1>3 DEF StorageFails

LEMMA ReplaceStep ==
  ASSUME Inv, NEW i \in Instances, NEW v \in Versions, Replace(i, v)
  PROVE  Inv'
  <1>1. /\ stored' = stored
        /\ version' = [version EXCEPT ![i] = v]
        /\ active' = [active EXCEPT ![i] = [pair \in Pairs |-> None]]
        /\ build' = [b \in Builds |->
                IF build[b] # None /\ build[b].at = i THEN None ELSE build[b]]
        /\ request' = [r \in Requests |->
                IF Pending(r) /\ request[r].at = i THEN None ELSE request[r]]
    BY DEF Replace, Unavailable
  <1>2. IndexedComparisonsAreWhole'
    BY <1>1, StoreKept
  <1>3. TypeInv'
    BY <1>1 DEF Inv, TypeInv
  <1>4. \A b \in Builds : build'[b] # None => build'[b] = build[b] /\ build[b].at # i
    BY <1>1
  <1>5. \A j \in Instances : j # i => version'[j] = version[j] /\ active'[j] = active[j]
    BY <1>1 DEF Inv, TypeInv
  <1>6. ASSUME NEW b \in Builds, build'[b] # None PROVE GoodBuild(build[b])'
    <2>1. GoodBuild(build[b]) /\ build'[b] = build[b] /\ build[b].at # i
      BY <1>4, <1>6 DEF Inv, BuildsInv
    <2>2. build[b].at \in Instances
      BY <2>1 DEF GoodBuild, BuildState
    <2> QED BY <1>1, <1>5, <2>1, <2>2 DEF GoodBuild
  <1>7. ASSUME NEW b, NEW j \in Instances, j # i, NEW pair, UnderWay(b, j, pair)
        PROVE  UnderWay(b, j, pair)'
    BY <1>1, <1>7 DEF UnderWay
  <1>8. ASSUME NEW j \in Instances, NEW pair \in Pairs PROVE GoodEntry(j, pair)'
    <2>1. CASE j = i
      <3>1. active'[j][pair] = None
        BY <1>1, <2>1 DEF Inv, TypeInv
      <3> QED BY <3>1 DEF GoodEntry
    <2>2. CASE j # i
      <3>1. active'[j][pair] = active[j][pair] /\ GoodEntry(j, pair)
        BY <1>5, <2>2 DEF Inv, BuildsInv
      <3> QED BY <1>7, <2>2, <3>1 DEF GoodEntry
    <2> QED BY <2>1, <2>2
  <1>9. ASSUME NEW r \in Requests PROVE GoodRequest(r)'
    <2>1. GoodRequest(r)
      BY DEF Inv, BuildsInv
    <2>2. CASE request'[r] = None
      BY <2>2 DEF GoodRequest
    <2>3. CASE request'[r] # None
      <3>1. request'[r] = request[r]
        BY <1>1, <2>3
      <3>2. request[r].phase # "redirected" => request[r].at # i
        BY <1>1, <2>3, <3>1 DEF Pending
      <3>3. request[r].phase = "waiting" =>
                UnderWay(request[r].on, request[r].at, request[r].pair)'
        <4> SUFFICES ASSUME request[r].phase = "waiting"
                     PROVE  UnderWay(request[r].on, request[r].at, request[r].pair)'
          OBVIOUS
        <4>1. request[r].at \in Instances /\ request[r].at # i
              /\ UnderWay(request[r].on, request[r].at, request[r].pair)
          BY <2>1, <2>3, <3>1, <3>2 DEF GoodRequest
        <4>2. build[request[r].on].at # i /\ build'[request[r].on] = build[request[r].on]
          BY <1>1, <4>1 DEF UnderWay
        <4> QED BY <3>1, <4>1, <4>2 DEF UnderWay
      <3> QED BY <1>1, <2>1, <3>1, <3>2, <3>3 DEF GoodRequest, Exists
    <2> QED BY <2>2, <2>3
  <1> QED BY <1>2, <1>3, <1>6, <1>8, <1>9 DEF Inv, BuildsInv

LEMMA InitInv == Init => Inv
  <1> SUFFICES ASSUME Init PROVE Inv
    OBVIOUS
  <1>1. TypeInv
    BY VersionsAssumption DEF Init, TypeInv, Comparisons
  <1>2. BuildsInv
    BY DEF Init, BuildsInv, GoodEntry, GoodRequest
  <1>3. IndexedComparisonsAreWhole
    BY DEF Init, IndexedComparisonsAreWhole
  <1> QED BY <1>1, <1>2, <1>3 DEF Inv

LEMMA NextInv == Inv /\ [Next]_vars => Inv'
  <1> SUFFICES ASSUME Inv, [Next]_vars PROVE Inv'
    OBVIOUS
  <1>1. CASE UNCHANGED vars
    BY <1>1 DEF vars, Inv, TypeInv, BuildsInv, IndexedComparisonsAreWhole, GoodBuild, GoodEntry,
                GoodRequest, UnderWay, Exists
  <1>2. CASE Next
    BY <1>2, AskStep, JoinStep, CheckStep, GetStep, PutStep, StorageFailsStep, EvictStep,
       ReplaceStep DEF Next
  <1> QED BY <1>1, <1>2

\* An index stands for a whole comparison, computed by one version, however
\* many instances build it at once and wherever they fail or end
\* (uploadCalibrationTreeBundle writes the index last).
THEOREM IndexesAreOfWholes == Spec => []IndexedComparisonsAreWhole
  <1>1. Inv => IndexedComparisonsAreWhole
    BY DEF Inv
  <1> QED BY <1>1, InitInv, NextInv, PTL DEF Spec

\* A request is sent on only to a comparison with an index
\* (buildAndPublishCalibrationComparison publishes both modes).
THEOREM RedirectsAreReadable == Spec => []RedirectsCanBeRead
  <1>1. Inv => RedirectsCanBeRead
    BY DEF Inv, BuildsInv, GoodRequest, RedirectsCanBeRead, At
  <1> QED BY <1>1, InitInv, NextInv, PTL DEF Spec

\* No step changes a part that is stored.
LEMMA NextKeeps == Inv /\ [Next]_vars => \A c \in Comparisons : Keeps(c)
  <1> SUFFICES ASSUME Inv, [Next]_vars PROVE \A c \in Comparisons : Keeps(c)
    OBVIOUS
  <1>1. CASE UNCHANGED stored
    BY <1>1, StoreKept
  <1>2. ASSUME NEW b \in Builds, NEW m \in Modes, Uploading(b, m),
               FileOf(b, m) \notin DOMAIN Dir(b, m), Stores(b, m)
        PROVE  \A c \in Comparisons : Keeps(c)
    BY <1>2, UploadFacts, StoresWhole
  <1>3. ASSUME NEW b \in Builds, NEW m \in Modes, PutPart(b, m) \/ StorageFails(b, m)
        PROVE  \A c \in Comparisons : Keeps(c)
    BY <1>1, <1>2, <1>3 DEF PutPart, StorageFails
  <1>4. \/ UNCHANGED stored
        \/ \E b \in Builds, m \in Modes : PutPart(b, m) \/ StorageFails(b, m)
    BY DEF Next, vars, Ask, Join, CheckBoth, CheckFails, GetPart, Evict, Replace
  <1> QED BY <1>1, <1>3, <1>4

\* A stored part never changes (the store refuses to write over one, and what
\* is read of a comparison is cached for a year).
THEOREM StoredPartsStay == Spec => PartsNeverChange
  <1>1. Inv /\ [Next]_vars =>
            [\A c \in Pairs \X Modes : \A part \in DOMAIN stored[c] :
                part \in DOMAIN stored'[c] /\ stored'[c][part] = stored[c][part]]_vars
    BY NextKeeps DEF Comparisons, Keeps
  <1> QED BY <1>1, InitInv, NextInv, PTL DEF Spec, PartsNeverChange

-----------------------------------------------------------------------------
(***************************************************************************)
(* The rows of a comparison. Each strategy pairs a target at most once,    *)
(* among those that the strategies before it left, so what they pair       *)
(* together is a pairing of the two builds, and what is left is alone.     *)
(***************************************************************************)
\* Pairs of targets of the two sides that share no target.
Pairing(pairs, lefts) ==
    /\ pairs \subseteq lefts[1] \X lefts[2]
    /\ \A p, q \in pairs : p[1] = q[1] \/ p[2] = q[2] => p = q

\* A strategy pairs targets that are left, each at most once.
LEMMA StrategyPairs ==
  ASSUME NEW current, NEW candidate, NEW lefts, NEW key
  PROVE  Pairing(M!MatchedBy(current, candidate, lefts, key), lefts)
  <1> DEFINE pairs == M!MatchedBy(current, candidate, lefts, key)
  <1>1. pairs \subseteq lefts[1] \X lefts[2]
    BY DEF M!MatchedBy
  <1>2. ASSUME NEW p \in pairs, NEW q \in pairs, p[1] = q[1] \/ p[2] = q[2] PROVE p = q
    <2>1. /\ M!OnlyPair(current, candidate, lefts, key, p)
          /\ M!OnlyPair(current, candidate, lefts, key, q)
      BY DEF M!MatchedBy
    <2>2. p[1] \in M!Group(current, lefts[1], key, current[p[1]][key])
          /\ p[2] \in M!Group(candidate, lefts[2], key, current[p[1]][key])
          /\ q[2] \in M!Group(candidate, lefts[2], key, current[q[1]][key])
          /\ q[1] \in M!Group(current, lefts[1], key, current[q[1]][key])
      BY <2>1 DEF M!OnlyPair
    <2>3. current[p[1]][key] = current[q[1]][key]
      BY <1>2, <2>2 DEF M!Group
    <2>4. p[1] = q[1] /\ p[2] = q[2]
      BY <2>1, <2>2, <2>3 DEF M!OnlyPair
    <2> QED
      BY <1>1, <2>4
  <1> QED
    BY <1>1, <1>2 DEF Pairing

\* Pairs of what is left and pairs taken before do not meet.
LEMMA PairingsJoin ==
  ASSUME NEW all, NEW first, NEW lefts, NEW second,
         Pairing(first, all), Pairing(second, lefts),
         lefts = M!Left(all, first)
  PROVE  /\ Pairing(first \cup second, all)
         /\ M!Left(lefts, second) = M!Left(all, first \cup second)
  <1>1. /\ lefts[1] = all[1] \ {p[1] : p \in first}
        /\ lefts[2] = all[2] \ {p[2] : p \in first}
    BY DEF M!Left
  <1>2. \A p \in second : /\ p[1] \in lefts[1] /\ p[2] \in lefts[2]
                          /\ p \in all[1] \X all[2]
    BY <1>1 DEF Pairing
  <1>3. first \cup second \subseteq all[1] \X all[2]
    BY <1>2 DEF Pairing
  <1>4. \A p \in first, q \in second : p[1] # q[1] /\ p[2] # q[2]
    BY <1>1, <1>2
  <1>5. Pairing(first \cup second, all)
    BY <1>3, <1>4 DEF Pairing
  <1>6. /\ lefts[1] \ {p[1] : p \in second} = all[1] \ {p[1] : p \in first \cup second}
        /\ lefts[2] \ {p[2] : p \in second} = all[2] \ {p[2] : p \in first \cup second}
    BY <1>1
  <1> QED
    BY <1>5, <1>6 DEF M!Left

\* What a pairing of two sets is, read off its parts.
LEMMA PairingOfSets ==
  ASSUME NEW pairs, NEW S, NEW T, Pairing(pairs, <<S, T>>)
  PROVE  /\ \A p \in pairs : p[1] \in S /\ p[2] \in T
         /\ \A p, q \in pairs : p[1] = q[1] \/ p[2] = q[2] => p = q
  <1>1. pairs \subseteq S \X T
    BY DEF Pairing
  <1>2. \A p \in S \X T : p[1] \in S /\ p[2] \in T
    OBVIOUS
  <1> QED
    BY <1>1, <1>2 DEF Pairing

\* Every target of two builds, however many and with whatever keys, is on
\* exactly one row of their comparison, though what a strategy leaves
\* ambiguous falls through to the next one (matchTargetSurfaces).
THEOREM TargetsAreOnOneRow ==
  ASSUME NEW S, NEW current \in Seq(S), NEW candidate \in Seq(S)
  PROVE  M!OneRowEach(current, candidate)
  <1> DEFINE all == <<DOMAIN current, DOMAIN candidate>>
             shared == M!Shared(current, candidate)
             left == M!Unmatched(current, candidate)
             named == M!ByName(current, candidate)
             keyed == M!ByFactKey(current, candidate)
             alike == M!ByIdentity(current, candidate)
  <1>1. /\ Pairing(named, all)
        /\ Pairing(keyed, M!LeftByName(current, candidate))
        /\ Pairing(alike, M!LeftByFactKey(current, candidate))
    BY StrategyPairs DEF M!ByName, M!ByFactKey, M!ByIdentity
  <1>2. M!LeftByName(current, candidate) = M!Left(all, named)
    BY DEF M!LeftByName
  <1>3. /\ Pairing(named \cup keyed, all)
        /\ M!LeftByFactKey(current, candidate) = M!Left(all, named \cup keyed)
    <2>1. /\ Pairing(named \cup keyed, all)
          /\ M!Left(M!LeftByName(current, candidate), keyed)
                = M!Left(all, named \cup keyed)
      BY <1>1, <1>2, PairingsJoin
    <2> QED
      BY <2>1 DEF M!LeftByFactKey
  <1>4. /\ Pairing(shared, all)
        /\ left = M!Left(all, shared)
    <2>1. /\ Pairing((named \cup keyed) \cup alike, all)
          /\ M!Left(M!LeftByFactKey(current, candidate), alike)
                = M!Left(all, (named \cup keyed) \cup alike)
      BY <1>1, <1>3, PairingsJoin
    <2>2. shared = (named \cup keyed) \cup alike
      BY DEF M!Shared
    <2> QED
      BY <2>1, <2>2 DEF M!Unmatched
  <1>5. /\ left[1] = DOMAIN current \ {p[1] : p \in shared}
        /\ left[2] = DOMAIN candidate \ {p[2] : p \in shared}
    BY <1>4 DEF M!Left
  <1>6. 0 \notin DOMAIN current /\ 0 \notin DOMAIN candidate
    OBVIOUS
  <1>7. /\ \A p \in shared : p[1] \in DOMAIN current /\ p[2] \in DOMAIN candidate
        /\ \A p, q \in shared : p[1] = q[1] \/ p[2] = q[2] => p = q
    <2> HIDE DEF shared
    <2> QED
      BY <1>4, PairingOfSets
  <1> HIDE DEF shared, left
  <1> DEFINE rows == M!ComparisonRows(current, candidate)
  <1>8. rows = shared \cup {<<i, 0>> : i \in left[1]} \cup {<<0, j>> : j \in left[2]}
    BY DEF M!ComparisonRows, shared, left
  <1> HIDE DEF rows
  <1>9. ASSUME NEW i \in DOMAIN current PROVE \E row \in rows : row[1] = i
    <2>1. CASE i \in left[1]
      <3>1. <<i, 0>> \in rows /\ <<i, 0>>[1] = i
        BY <2>1, <1>8
      <3> QED
        BY <3>1
    <2>2. CASE i \notin left[1]
      <3>1. PICK p \in shared : p[1] = i
        BY <2>2, <1>5
      <3> QED
        BY <3>1, <1>8
    <2> QED
      BY <2>1, <2>2
  <1>10. ASSUME NEW j \in DOMAIN candidate PROVE \E row \in rows : row[2] = j
    <2>1. CASE j \in left[2]
      <3>1. <<0, j>> \in rows /\ <<0, j>>[2] = j
        BY <2>1, <1>8
      <3> QED
        BY <3>1
    <2>2. CASE j \notin left[2]
      <3>1. PICK p \in shared : p[2] = j
        BY <2>2, <1>5
      <3> QED
        BY <3>1, <1>8
    <2> QED
      BY <2>1, <2>2
  <1>11. ASSUME NEW r \in rows, NEW s \in rows,
                (r[1] = s[1] /\ r[1] # 0) \/ (r[2] = s[2] /\ r[2] # 0)
         PROVE  r = s
    <2>1. CASE r \in shared /\ s \in shared
      BY <2>1, <1>7, <1>11
    <2>2. CASE r \in shared /\ s \notin shared
      <3>1. r[1] \in DOMAIN current /\ r[2] \in DOMAIN candidate
        BY <2>2, <1>7
      <3>2. \/ \E i \in left[1] : s = <<i, 0>>
            \/ \E j \in left[2] : s = <<0, j>>
        BY <1>8, <2>2
      <3> QED
        BY <3>1, <3>2, <2>2, <1>5, <1>6, <1>11
    <2>3. CASE r \notin shared /\ s \in shared
      <3>1. s[1] \in DOMAIN current /\ s[2] \in DOMAIN candidate
        BY <2>3, <1>7
      <3>2. \/ \E i \in left[1] : r = <<i, 0>>
            \/ \E j \in left[2] : r = <<0, j>>
        BY <1>8, <2>3
      <3> QED
        BY <3>1, <3>2, <2>3, <1>5, <1>6, <1>11
    <2>4. CASE r \notin shared /\ s \notin shared
      <3>1. \/ \E i \in left[1] : r = <<i, 0>>
            \/ \E j \in left[2] : r = <<0, j>>
        BY <1>8, <2>4
      <3>2. \/ \E i \in left[1] : s = <<i, 0>>
            \/ \E j \in left[2] : s = <<0, j>>
        BY <1>8, <2>4
      <3> QED
        BY <3>1, <3>2, <1>11
    <2> QED
      BY <2>1, <2>2, <2>3, <2>4
  <1> QED
    BY <1>9, <1>10, <1>11 DEF M!OneRowEach, rows

(***************************************************************************)
(* From the other side: each strategy pairs the same targets and leaves    *)
(* the same ones.                                                          *)
(***************************************************************************)
Flip(pairs) == {<<p[2], p[1]>> : p \in pairs}
Swap(lefts) == <<lefts[2], lefts[1]>>

\* A pair of groups of one has the same key on both sides.
LEMMA OnlyPairFlips ==
  ASSUME NEW current, NEW candidate, NEW lefts, NEW key, NEW i, NEW j,
         M!OnlyPair(current, candidate, lefts, key, <<i, j>>)
  PROVE  M!OnlyPair(candidate, current, Swap(lefts), key, <<j, i>>)
  <1>1. /\ current[i][key] # None
        /\ M!Group(current, lefts[1], key, current[i][key]) = {i}
        /\ M!Group(candidate, lefts[2], key, current[i][key]) = {j}
    BY DEF M!OnlyPair
  <1>2. candidate[j][key] = current[i][key]
    BY <1>1 DEF M!Group
  <1>3. Swap(lefts)[1] = lefts[2] /\ Swap(lefts)[2] = lefts[1]
    BY DEF Swap
  <1> QED
    BY <1>1, <1>2, <1>3 DEF M!OnlyPair

\* A strategy applied to the sides exchanged exchanges its pairs.
LEMMA StrategyFlips ==
  ASSUME NEW current, NEW candidate, NEW S, NEW T, NEW key
  PROVE  M!MatchedBy(candidate, current, <<T, S>>, key)
            = Flip(M!MatchedBy(current, candidate, <<S, T>>, key))
  <1> DEFINE there == M!MatchedBy(current, candidate, <<S, T>>, key)
             back == M!MatchedBy(candidate, current, <<T, S>>, key)
  <1>1. /\ \A i, j : <<i, j>> \in there <=>
                i \in S /\ j \in T /\ M!OnlyPair(current, candidate, <<S, T>>, key, <<i, j>>)
        /\ \A i, j : <<j, i>> \in back <=>
                i \in S /\ j \in T /\ M!OnlyPair(candidate, current, <<T, S>>, key, <<j, i>>)
    BY DEF M!MatchedBy
  <1>2. Swap(<<S, T>>) = <<T, S>> /\ Swap(<<T, S>>) = <<S, T>>
    BY DEF Swap
  <1>3. \A i, j : M!OnlyPair(current, candidate, <<S, T>>, key, <<i, j>>) <=>
                  M!OnlyPair(candidate, current, <<T, S>>, key, <<j, i>>)
    BY <1>2, OnlyPairFlips
  <1>4. \A i, j : <<i, j>> \in there <=> <<j, i>> \in back
    BY <1>1, <1>3
  <1>5. (\A p \in there : p = <<p[1], p[2]>>) /\ (\A p \in back : p = <<p[1], p[2]>>)
    BY DEF M!MatchedBy
  <1> HIDE DEF there, back
  <1>6. ASSUME NEW q \in back PROVE q \in Flip(there)
    <2>1. q = <<q[1], q[2]>> /\ <<q[2], q[1]>> \in there
      BY <1>4, <1>5
    <2>2. PICK p : p = <<q[2], q[1]>>
      OBVIOUS
    <2> QED
      BY <2>1, <2>2 DEF Flip
  <1>7. ASSUME NEW p \in there PROVE <<p[2], p[1]>> \in back
    BY <1>4, <1>5
  <1>8. back = Flip(there)
    BY <1>6, <1>7 DEF Flip
  <1> QED
    BY <1>8 DEF there, back

\* What it leaves is exchanged too.
LEMMA LeftFlips ==
  ASSUME NEW lefts, NEW pairs
  PROVE  M!Left(Swap(lefts), Flip(pairs)) = Swap(M!Left(lefts, pairs))
  <1>1. ASSUME NEW p \in pairs
        PROVE  /\ <<p[2], p[1]>> \in Flip(pairs)
               /\ <<p[2], p[1]>>[1] = p[2] /\ <<p[2], p[1]>>[2] = p[1]
    BY DEF Flip
  <1>2. \A q \in Flip(pairs) : \E p \in pairs : q[1] = p[2] /\ q[2] = p[1]
    BY DEF Flip
  <1>3. {q[1] : q \in Flip(pairs)} = {p[2] : p \in pairs}
    <2>1. ASSUME NEW p \in pairs PROVE \E q \in Flip(pairs) : p[2] = q[1]
      BY <1>1
    <2> QED
      BY <1>2, <2>1
  <1>4. {q[2] : q \in Flip(pairs)} = {p[1] : p \in pairs}
    <2>1. ASSUME NEW p \in pairs PROVE \E q \in Flip(pairs) : p[1] = q[2]
      BY <1>1
    <2> QED
      BY <1>2, <2>1
  <1> QED
    BY <1>3, <1>4 DEF M!Left, Swap

\* The two sides of what is left.
LEMMA SidesOfLeft ==
  ASSUME NEW lefts, NEW pairs
  PROVE  M!Left(lefts, pairs) = <<M!Left(lefts, pairs)[1], M!Left(lefts, pairs)[2]>>
  BY DEF M!Left

\* The comparison of two builds the other way round pairs the same targets
\* (matchTargetSurfaces pairs groups of one, whichever side it starts from).
THEOREM MatchingIsSymmetric ==
  ASSUME NEW current, NEW candidate
  PROVE  M!SameBothWays(current, candidate)
  <1> DEFINE all == <<DOMAIN current, DOMAIN candidate>>
  <1>1. Swap(all) = <<DOMAIN candidate, DOMAIN current>>
    BY DEF Swap
  <1>2. M!ByName(candidate, current) = Flip(M!ByName(current, candidate))
    BY StrategyFlips DEF M!ByName
  <1>3. M!LeftByName(candidate, current) = Swap(M!LeftByName(current, candidate))
    BY <1>1, <1>2, LeftFlips DEF M!LeftByName
  <1>4. PICK S, T : M!LeftByName(current, candidate) = <<S, T>>
    BY SidesOfLeft DEF M!LeftByName
  <1>5. M!LeftByName(candidate, current) = <<T, S>>
    BY <1>3, <1>4 DEF Swap
  <1>6. M!ByFactKey(candidate, current) = Flip(M!ByFactKey(current, candidate))
    BY <1>4, <1>5, StrategyFlips DEF M!ByFactKey
  <1>7. M!LeftByFactKey(candidate, current) = Swap(M!LeftByFactKey(current, candidate))
    BY <1>3, <1>6, LeftFlips DEF M!LeftByFactKey
  <1>8. PICK U, V : M!LeftByFactKey(current, candidate) = <<U, V>>
    BY SidesOfLeft DEF M!LeftByFactKey
  <1>9. M!LeftByFactKey(candidate, current) = <<V, U>>
    BY <1>7, <1>8 DEF Swap
  <1>10. M!ByIdentity(candidate, current) = Flip(M!ByIdentity(current, candidate))
    BY <1>8, <1>9, StrategyFlips DEF M!ByIdentity
  <1>11. M!Shared(candidate, current) = Flip(M!Shared(current, candidate))
    BY <1>2, <1>6, <1>10 DEF M!Shared, Flip
  <1> QED
    BY <1>11 DEF M!SameBothWays, Flip

\* Whatever names, fact keys and identities there are, targets of compared
\* builds are paired one to one, and alike from either side.
THEOREM MatchingIsAlwaysOneToOne == Spec => []MatchingIsOneToOne
  <1>1. ASSUME NEW current \in Surfaces, NEW candidate \in Surfaces
        PROVE  M!OneRowEach(current, candidate) /\ M!SameBothWays(current, candidate)
    <2>1. ASSUME NEW n \in 0..2, NEW surface \in [1..n -> Keys]
          PROVE  surface \in Seq(Keys)
      <3>1. n \in Nat
        OBVIOUS
      <3> QED
        BY <3>1, SeqDef
    <2>2. current \in Seq(Keys) /\ candidate \in Seq(Keys)
      BY <2>1 DEF Surfaces
    <2> QED
      BY <2>2, TargetsAreOnOneRow, MatchingIsSymmetric
  <1>2. MatchingIsOneToOne
    BY <1>1 DEF MatchingIsOneToOne, Paired
  <1> QED
    BY <1>2, PTL

=============================================================================
