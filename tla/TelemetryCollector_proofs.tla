---------------------- MODULE TelemetryCollector_proofs ----------------------
(***************************************************************************)
(* What the row lock of append_events protects, and what the stored        *)
(* columns show, for any number of concurrent requests and any events.     *)
(*                                                                         *)
(* The first part is about a fold of events, for every set of events: each *)
(* column is set by the latest event of the last attempt that writes it.   *)
(* The proofs go by strong induction over the subsets of a finite set,     *)
(* stated with a set of good subsets instead of a predicate.               *)
(*                                                                         *)
(* The invariant says what the columns show of the stored events without   *)
(* a fold (Shows). A batch preserves it (BatchShows) because the snapshot  *)
(* of the producers is that of the tables when the batch is folded; the    *)
(* replay, the ledger and the order of updates follow from it.             *)
(***************************************************************************)
EXTENDS TelemetryCollector, FiniteSetTheorems, WellFoundedInduction, TLAPS

-----------------------------------------------------------------------------
(***************************************************************************)
(* Induction over the subsets of a finite set.                             *)
(***************************************************************************)

\* A finite set that is not good has a smallest part that is not.
LEMMA SmallestSubset ==
  ASSUME NEW S, IsFiniteSet(S), NEW Good, S \notin Good
  PROVE  \E s \in SUBSET S : /\ s \notin Good
                             /\ \A t \in SUBSET s : t # s => t \in Good
  <1> DEFINE Bad == {s \in SUBSET S : s \notin Good}
  <1>1. Bad \subseteq FiniteSubsetsOf(S) /\ Bad # {}
    BY FS_Subset DEF FiniteSubsetsOf
  <1>2. PICK s \in Bad : \A t \in Bad : ~(<<t, s>> \in StrictSubsetOrdering(S))
    <2>1. IsWellFoundedOn(StrictSubsetOrdering(S), FiniteSubsetsOf(S))
      BY FS_StrictSubsetOrderingWellFounded
    <2> HIDE DEF Bad
    <2> QED BY <1>1, <2>1, WFMin
  <1>3. \A t \in SUBSET s : t # s => <<t, s>> \in StrictSubsetOrdering(S)
    BY DEF StrictSubsetOrdering
  <1> QED BY <1>2, <1>3

\* A finite set is good when each of its parts is good once all smaller ones are.
LEMMA SubsetInduction ==
  ASSUME NEW S, IsFiniteSet(S), NEW Good,
         \A s \in SUBSET S :
            (\A t \in SUBSET s : t # s => t \in Good) => s \in Good
  PROVE  S \in Good
  BY SmallestSubset

IsLeast(m, X) == m \in X /\ \A x \in X : m <= x
IsGreatest(m, X) == m \in X /\ \A x \in X : x <= m

\* Min gives the least element of a finite nonempty set of integers.
LEMMA MinIsLeast ==
  ASSUME NEW X, IsFiniteSet(X), X # {}, X \subseteq Int
  PROVE  IsLeast(Min(X), X)
  <1> DEFINE Good == {s \in SUBSET X : s = {} \/ \E m : IsLeast(m, s)}
  <1>1. ASSUME NEW s \in SUBSET X, \A t \in SUBSET s : t # s => t \in Good
        PROVE  s \in Good
    <2>1. CASE s = {}
      BY <2>1
    <2>2. CASE s # {}
      <3>1. PICK x \in s : TRUE
        BY <2>2
      <3>2. s \ {x} \in Good
        BY <1>1, <3>1
      <3>3. CASE s \ {x} = {}
        <4>1. IsLeast(x, s)
          BY <3>1, <3>3 DEF IsLeast
        <4> QED BY <4>1
      <3>4. CASE s \ {x} # {}
        <4>1. PICK m : IsLeast(m, s \ {x})
          BY <3>2, <3>4
        <4>2. IsLeast(IF m <= x THEN m ELSE x, s)
          BY <3>1, <4>1 DEF IsLeast
        <4> QED BY <4>2
      <3> QED BY <3>3, <3>4
    <2> QED BY <2>1, <2>2
  <1>2. X \in Good
    <2> HIDE DEF Good
    <2> QED BY <1>1, SubsetInduction
  <1>3. PICK m : IsLeast(m, X)
    BY <1>2
  <1> QED BY <1>3 DEF IsLeast, Min

\* Max gives the greatest.
LEMMA MaxIsGreatest ==
  ASSUME NEW X, IsFiniteSet(X), X # {}, X \subseteq Int
  PROVE  IsGreatest(Max(X), X)
  <1> DEFINE Good == {s \in SUBSET X : s = {} \/ \E m : IsGreatest(m, s)}
  <1>1. ASSUME NEW s \in SUBSET X, \A t \in SUBSET s : t # s => t \in Good
        PROVE  s \in Good
    <2>1. CASE s = {}
      BY <2>1
    <2>2. CASE s # {}
      <3>1. PICK x \in s : TRUE
        BY <2>2
      <3>2. s \ {x} \in Good
        BY <1>1, <3>1
      <3>3. CASE s \ {x} = {}
        <4>1. IsGreatest(x, s)
          BY <3>1, <3>3 DEF IsGreatest
        <4> QED BY <4>1
      <3>4. CASE s \ {x} # {}
        <4>1. PICK m : IsGreatest(m, s \ {x})
          BY <3>2, <3>4
        <4>2. IsGreatest(IF m >= x THEN m ELSE x, s)
          BY <3>1, <4>1 DEF IsGreatest
        <4> QED BY <4>2
      <3> QED BY <3>3, <3>4
    <2> QED BY <2>1, <2>2
  <1>2. X \in Good
    <2> HIDE DEF Good
    <2> QED BY <1>1, SubsetInduction
  <1>3. PICK m : IsGreatest(m, X)
    BY <1>2
  <1> QED BY <1>3 DEF IsGreatest, Max

-----------------------------------------------------------------------------
(***************************************************************************)
(* The canonical order is a total order on the stored events of a run.     *)
(***************************************************************************)

\* A set of stored events: each producer was registered once, and (producer,
\* sequence) is unique in the table.
Log(S) ==
    /\ IsFiniteSet(S)
    /\ \A e \in S : /\ e.registered \in Int /\ e.producer \in Int
                    /\ e.sequence \in Int /\ e.timestamp \in Int
    /\ \A e, f \in S : e.producer = f.producer => e.registered = f.registered
    /\ \A e, f \in S : e.producer = f.producer /\ e.sequence = f.sequence => e = f

IsLast(e, S) == e \in S /\ \A f \in S \ {e} : Precedes(f, e)

\* Every part of a log is one.
LEMMA PartOfLog ==
  ASSUME NEW S, Log(S), NEW T \in SUBSET S
  PROVE  Log(T)
  <1>1. IsFiniteSet(T)
    BY FS_Subset DEF Log
  <1> QED BY <1>1 DEF Log

\* Of two events of a log one comes first.
LEMMA OrderIsTotal ==
  ASSUME NEW S, Log(S), NEW e \in S, NEW f \in S, e # f
  PROVE  (Precedes(e, f) \/ Precedes(f, e)) /\ ~(Precedes(e, f) /\ Precedes(f, e))
  BY DEF Log, Precedes

\* The order of a log is transitive.
LEMMA OrderIsTransitive ==
  ASSUME NEW S, Log(S), NEW e \in S, NEW f \in S, NEW g \in S,
         Precedes(e, f), Precedes(f, g)
  PROVE  Precedes(e, g)
  BY DEF Log, Precedes

\* A nonempty log has a last event.
LEMMA LastExists ==
  ASSUME NEW S, Log(S), S # {}
  PROVE  IsLast(LastEvent(S), S)
  <1> DEFINE Good == {s \in SUBSET S : s = {} \/ \E m : IsLast(m, s)}
  <1>1. ASSUME NEW s \in SUBSET S, \A t \in SUBSET s : t # s => t \in Good
        PROVE  s \in Good
    <2>1. CASE s = {}
      BY <2>1
    <2>2. CASE s # {}
      <3>1. PICK x \in s : TRUE
        BY <2>2
      <3>2. s \ {x} \in Good
        BY <1>1, <3>1
      <3>3. CASE s \ {x} = {}
        <4>1. IsLast(x, s)
          BY <3>1, <3>3 DEF IsLast
        <4> QED BY <4>1
      <3>4. CASE s \ {x} # {}
        <4>1. PICK m : IsLast(m, s \ {x})
          BY <3>2, <3>4
        <4>2. m \in S /\ x \in S /\ m # x /\ m \in s
          BY <4>1, <3>1 DEF IsLast
        <4>3. CASE Precedes(x, m)
          <5>1. IsLast(m, s)
            BY <4>1, <4>2, <4>3 DEF IsLast
          <5> QED BY <5>1
        <4>4. CASE Precedes(m, x)
          <5>1. ASSUME NEW f \in s \ {x} PROVE Precedes(f, x)
            <6>1. f = m \/ Precedes(f, m)
              BY <4>1 DEF IsLast
            <6> QED BY <6>1, <4>2, <4>4, OrderIsTransitive
          <5>2. IsLast(x, s)
            BY <5>1, <3>1 DEF IsLast
          <5> QED BY <5>2
        <4> QED BY <4>2, <4>3, <4>4, OrderIsTotal
      <3> QED BY <3>3, <3>4
    <2> QED BY <2>1, <2>2
  <1>2. S \in Good
    <2>1. IsFiniteSet(S)
      BY DEF Log
    <2> HIDE DEF Good
    <2> QED BY <1>1, <2>1, SubsetInduction
  <1>3. PICK m : IsLast(m, S)
    BY <1>2
  <1> QED BY <1>3 DEF IsLast, LastEvent

\* It has one last event.
LEMMA OneLast ==
  ASSUME NEW S, Log(S), NEW e, IsLast(e, S)
  PROVE  S # {} /\ LastEvent(S) = e
  <1>1. S # {} /\ e \in S
    BY DEF IsLast
  <1>2. IsLast(LastEvent(S), S)
    BY <1>1, LastExists
  <1>3. LastEvent(S) \in S
    BY <1>2 DEF IsLast
  <1>4. ASSUME LastEvent(S) # e PROVE FALSE
    <2>1. Precedes(e, LastEvent(S)) /\ Precedes(LastEvent(S), e)
      BY <1>1, <1>2, <1>3, <1>4 DEF IsLast
    <2> QED BY <1>1, <1>3, <1>4, <2>1, OrderIsTotal
  <1> QED BY <1>1, <1>4

-----------------------------------------------------------------------------
(***************************************************************************)
(* A fold is computed from its last event backwards.                       *)
(***************************************************************************)

Rest(r, a, h, s) ==
    IF s = {} THEN [active |-> a, run |-> r]
    ELSE Apply(LastEvent(s), h[s \ {LastEvent(s)}])

Folds(r, a, h, S) == h = [s \in SUBSET S |-> Rest(r, a, h, s)]

\* A fold is the value of the recursive function that the library chooses.
LEMMA FoldedIsChosen ==
  ASSUME NEW r, NEW a, NEW S
  PROVE  Folded(r, a, S) = (CHOOSE h : Folds(r, a, h, S))[S]
  BY DEF Folded, MapThenFoldSet, Folds, Rest

\* h folds the subsets of up to n events.
Upto(r, a, S, h, n) ==
    \A s \in SUBSET S : Cardinality(s) <= n => h[s] = Rest(r, a, h, s)

\* A function that folds up to n events gives one that folds one more.
LEMMA OneMore ==
  ASSUME NEW r, NEW a, NEW S, Log(S), NEW h, NEW n \in Nat, Upto(r, a, S, h, n)
  PROVE  Upto(r, a, S, [s \in SUBSET S |-> Rest(r, a, h, s)], n + 1)
  <1> DEFINE k == [s \in SUBSET S |-> Rest(r, a, h, s)]
  <1> SUFFICES ASSUME NEW s \in SUBSET S, Cardinality(s) <= n + 1
               PROVE  k[s] = Rest(r, a, k, s)
    BY DEF Upto
  <1>1. CASE s = {}
    BY <1>1 DEF Rest
  <1>2. CASE s # {}
    <2> DEFINE x == LastEvent(s)
    <2>1. x \in s
      BY <1>2, PartOfLog, LastExists DEF IsLast
    <2>2. IsFiniteSet(s)
      BY FS_Subset DEF Log
    <2>3. Cardinality(s) \in Nat /\ Cardinality(s \ {x}) = Cardinality(s) - 1
      BY <2>1, <2>2, FS_RemoveElement, FS_CardinalityType
    <2>4. Cardinality(s \ {x}) <= n /\ s \ {x} \in SUBSET S
      BY <2>3
    <2>5. h[s \ {x}] = Rest(r, a, h, s \ {x})
      BY <2>4 DEF Upto
    <2>6. k[s \ {x}] = h[s \ {x}]
      BY <2>4, <2>5
    <2>7. k[s] = Rest(r, a, h, s)
      OBVIOUS
    <2> HIDE DEF k
    <2> QED BY <1>2, <2>6, <2>7 DEF Rest
  <1> QED BY <1>1, <1>2

\* There is a function that folds every part of a log.
LEMMA FoldExists ==
  ASSUME NEW r, NEW a, NEW S, Log(S)
  PROVE  \E h : Folds(r, a, h, S)
  <1> DEFINE Bad == {n \in Nat : ~\E h : Upto(r, a, S, h, n)}
  <1>1. IsFiniteSet(S) /\ Cardinality(S) \in Nat
    BY FS_CardinalityType DEF Log
  <1>2. \E h : Upto(r, a, S, h, 0)
    <2> DEFINE h == [s \in SUBSET S |-> Rest(r, a, <<>>, s)]
    <2>1. ASSUME NEW s \in SUBSET S, Cardinality(s) <= 0 PROVE h[s] = Rest(r, a, h, s)
      <3>1. s = {}
        BY <1>1, <2>1, FS_Subset, FS_EmptySet, FS_CardinalityType
      <3> QED BY <3>1 DEF Rest
    <2>2. Upto(r, a, S, h, 0)
      BY <2>1 DEF Upto
    <2> QED BY <2>2
  <1>3. Bad = {}
    <2> SUFFICES ASSUME Bad # {} PROVE FALSE
      OBVIOUS
    <2>1. PICK m \in Bad : \A k \in Bad : ~(<<k, m>> \in OpToRel(<, Nat))
      <3>1. Bad \subseteq Nat
        OBVIOUS
      <3> HIDE DEF Bad
      <3> QED BY <3>1, NatLessThanWellFounded, WFMin
    <2>2. m \in Nat /\ m # 0
      BY <1>2
    <2>3. m - 1 \in Nat /\ <<m - 1, m>> \in OpToRel(<, Nat)
      BY <2>2 DEF OpToRel
    <2>4. PICK h : Upto(r, a, S, h, m - 1)
      BY <2>1, <2>3
    <2>5. \E k : Upto(r, a, S, k, m - 1 + 1)
      BY <2>3, <2>4, OneMore
    <2>6. m - 1 + 1 = m
      BY <2>2
    <2> QED BY <2>1, <2>5, <2>6
  <1>4. PICK h : Upto(r, a, S, h, Cardinality(S))
    BY <1>1, <1>3
  <1> DEFINE k == [s \in SUBSET S |-> Rest(r, a, h, s)]
  <1>5. \A s \in SUBSET S : k[s] = h[s]
    BY <1>1, <1>4, FS_Subset DEF Upto
  <1>6. \A s \in SUBSET S : s # {} => LastEvent(s) \in s
    BY PartOfLog, LastExists DEF IsLast
  <1>7. \A s \in SUBSET S : Rest(r, a, h, s) = Rest(r, a, k, s)
    <2> TAKE s \in SUBSET S
    <2>1. k[s \ {LastEvent(s)}] = h[s \ {LastEvent(s)}]
      <3>1. s \ {LastEvent(s)} \in SUBSET S
        OBVIOUS
      <3> HIDE DEF k
      <3> QED BY <1>5, <3>1
    <2> HIDE DEF k
    <2> QED BY <2>1 DEF Rest
  <1>8. k = [s \in SUBSET S |-> Rest(r, a, k, s)]
    BY <1>7
  <1>9. Folds(r, a, k, S)
    <2> HIDE DEF k
    <2> QED BY <1>8 DEF Folds
  <1> QED BY <1>9

\* Folds over a set and over a part of it agree on what they share.
LEMMA FoldsAgree ==
  ASSUME NEW r, NEW a, NEW S, Log(S), NEW T \in SUBSET S, NEW h, NEW g,
         Folds(r, a, h, S), Folds(r, a, g, T)
  PROVE  h[T] = g[T]
  <1> DEFINE Good == {t \in SUBSET T : h[t] = g[t]}
  <1>1. ASSUME NEW t \in SUBSET T, \A u \in SUBSET t : u # t => u \in Good
        PROVE  t \in Good
    <2>1. h[t] = Rest(r, a, h, t) /\ g[t] = Rest(r, a, g, t)
      BY DEF Folds
    <2>2. CASE t = {}
      BY <2>1, <2>2 DEF Rest
    <2>3. CASE t # {}
      <3>1. LastEvent(t) \in t
        BY <2>3, PartOfLog, LastExists DEF IsLast
      <3>2. h[t \ {LastEvent(t)}] = g[t \ {LastEvent(t)}]
        BY <1>1, <3>1
      <3> QED BY <2>1, <2>3, <3>2 DEF Rest
    <2> QED BY <2>2, <2>3
  <1>2. T \in Good
    <2>1. IsFiniteSet(T)
      BY FS_Subset DEF Log
    <2> HIDE DEF Good
    <2> QED BY <1>1, <2>1, SubsetInduction
  <1> QED BY <1>2

\* A fold of no events changes nothing.
LEMMA FoldsNothing ==
  ASSUME NEW r, NEW a
  PROVE  Folded(r, a, {}) = [active |-> a, run |-> r]
  <1>1. Log({})
    BY FS_EmptySet DEF Log
  <1>2. PICK h : h = (CHOOSE k : Folds(r, a, k, {})) /\ Folds(r, a, h, {})
    BY <1>1, FoldExists
  <1>3. h[{}] = Rest(r, a, h, {})
    BY <1>2 DEF Folds
  <1> QED BY <1>2, <1>3, FoldedIsChosen DEF Rest

\* A fold applies the last event to the fold of the others.
LEMMA FoldsLast ==
  ASSUME NEW r, NEW a, NEW S, Log(S), S # {}
  PROVE  Folded(r, a, S) = Apply(LastEvent(S), Folded(r, a, S \ {LastEvent(S)}))
  <1> DEFINE T == S \ {LastEvent(S)}
  <1>1. T \in SUBSET S /\ Log(T)
    BY PartOfLog
  <1>2. PICK h : h = (CHOOSE k : Folds(r, a, k, S)) /\ Folds(r, a, h, S)
    BY FoldExists
  <1>3. PICK g : g = (CHOOSE k : Folds(r, a, k, T)) /\ Folds(r, a, g, T)
    BY <1>1, FoldExists
  <1>4. h[S] = Rest(r, a, h, S)
    BY <1>2 DEF Folds
  <1>5. h[T] = g[T]
    BY <1>1, <1>2, <1>3, FoldsAgree
  <1>6. Folded(r, a, S) = h[S] /\ Folded(r, a, T) = g[T]
    BY <1>2, <1>3, FoldedIsChosen
  <1> QED BY <1>4, <1>5, <1>6 DEF Rest

-----------------------------------------------------------------------------
(***************************************************************************)
(* What one event does to the columns of a run.                            *)
(***************************************************************************)

\* The columns that the latest of certain events sets.
LatestColumns ==
    {"status", "current_stage", "ended_at", "heartbeat_at", "resources", "work",
     "failure", "block"}
RunColumns == LatestColumns \cup {"started_at", "updated_at"}

IsRun(row) ==
    /\ row = [c \in RunColumns |-> row[c]]
    /\ row.started_at \in Int /\ row.updated_at \in Int

Concludes(e) == Reopens(e) \/ Outcome(e) # None

Writes(c, e) ==
    \/ c = "current_stage" /\ (NamesStage(e) \/ Outcome(e) # None)
    \/ c = "heartbeat_at" /\ e.type = "heartbeat"
    \/ c = "resources" /\ e.resources
    \/ c = "work" /\ e.type = "progress" /\ e.counted
    \/ c \in {"status", "ended_at", "failure", "block"} /\ Concludes(e)

Written(c, e) ==
    CASE c = "status" -> IF Outcome(e) = None THEN "running" ELSE Outcome(e)
      [] c = "current_stage" -> IF Outcome(e) = None THEN e.stage
                                ELSE IF Outcome(e) = "completed" THEN "complete"
                                ELSE Outcome(e)
      [] c = "ended_at" -> IF Outcome(e) = None THEN None ELSE e.timestamp
      [] c = "heartbeat_at" -> e.timestamp
      [] c = "failure" -> IF Outcome(e) = "failed" THEN Mark(e) ELSE None
      [] c = "block" -> IF Outcome(e) = "blocked" THEN Mark(e) ELSE None
      [] OTHER -> Mark(e)

Unwritten(c) ==
    CASE c = "status" -> "running" [] c = "current_stage" -> "created" [] OTHER -> None

\* A fresh attempt has the values that no event has written.
LEMMA FreshIsUnwritten ==
  ASSUME NEW s \in Int, NEW u \in Int
  PROVE  /\ IsRun(FreshAttempt(s, u))
         /\ FreshAttempt(s, u).started_at = s /\ FreshAttempt(s, u).updated_at = u
         /\ \A c \in LatestColumns : FreshAttempt(s, u)[c] = Unwritten(c)
  BY DEF FreshAttempt, IsRun, RunColumns, LatestColumns, Unwritten

\* The least of two integers.
LEMMA MinOfTwo ==
  ASSUME NEW a \in Int, NEW b \in Int
  PROVE  Min({a, b}) = IF a <= b THEN a ELSE b
  <1>1. IsFiniteSet({a, b})
    <2>1. IsFiniteSet({a} \cup {b}) /\ {a} \cup {b} = {a, b}
      BY FS_Singleton, FS_AddElement
    <2> QED BY <2>1
  <1>2. IsLeast(Min({a, b}), {a, b})
    BY <1>1, MinIsLeast
  <1> QED BY <1>2 DEF IsLeast

\* The greatest of three integers.
LEMMA MaxOfThree ==
  ASSUME NEW a \in Int, NEW b \in Int, NEW c \in Int
  PROVE  IsGreatest(Max({a, b, c}), {a, b, c}) /\ Max({a, b, c}) \in Int
  <1>1. IsFiniteSet({a, b, c})
    <2>1. IsFiniteSet({a} \cup {b} \cup {c})
      BY FS_Singleton, FS_AddElement
    <2>2. {a} \cup {b} \cup {c} = {a, b, c}
      OBVIOUS
    <2> QED BY <2>1, <2>2
  <1>2. IsGreatest(Max({a, b, c}), {a, b, c})
    BY <1>1, MaxIsGreatest
  <1> DEFINE top == Max({a, b, c})
  <1> HIDE DEF top
  <1>3. top \in {a, b, c}
    BY <1>2 DEF IsGreatest, top
  <1>4. top \in Int
    BY <1>3
  <1> QED BY <1>2, <1>4 DEF top

\* The greatest of a set stays the greatest when what it was compared with is
\* added to the set.
LEMMA GreatestGrows ==
  ASSUME NEW seen, \A t \in seen : t \in Int, NEW m \in Int, IsGreatest(m, seen),
         NEW b \in Int, NEW c \in Int, NEW top \in Int, IsGreatest(top, {m, b, c})
  PROVE  IsGreatest(top, seen \cup {b, c})
  <1>1. m <= top /\ b <= top /\ c <= top /\ top \in {m, b, c} /\ m \in seen
    BY DEF IsGreatest
  <1>2. ASSUME NEW t \in seen PROVE t <= top
    <2>1. t <= m /\ t \in Int
      BY DEF IsGreatest
    <2> QED BY <1>1, <2>1
  <1>3. top \in seen \cup {b, c}
    BY <1>1
  <1> QED BY <1>1, <1>2, <1>3 DEF IsGreatest

Noted(row, e) ==
    [row EXCEPT
        !.started_at = Min({@, e.timestamp}),
        !.updated_at = Max({@, e.timestamp, e.registered}),
        !.resources = IF e.resources THEN Mark(e) ELSE @,
        !.heartbeat_at = IF e.type = "heartbeat" THEN e.timestamp ELSE @,
        !.current_stage = IF NamesStage(e) THEN e.stage ELSE @,
        !.work = IF e.type = "progress" /\ e.counted THEN Mark(e) ELSE @]

\* An event writes its columns and leaves the others.
LEMMA ApplyWrites ==
  ASSUME NEW row, IsRun(row), NEW e, e.timestamp \in Int, e.registered \in Int
  PROVE  /\ IsRun(ApplyEvent(row, e))
         /\ \A c \in LatestColumns :
                ApplyEvent(row, e)[c] = IF Writes(c, e) THEN Written(c, e) ELSE row[c]
         /\ ApplyEvent(row, e).started_at = Min({row.started_at, e.timestamp})
         /\ ApplyEvent(row, e).updated_at = Max({row.updated_at, e.timestamp, e.registered})
  <1> DEFINE n == Noted(row, e)
             o == Reopened(n, e)
             d == Concluded(o, e)
  <1>1. d = ApplyEvent(row, e)
    BY DEF ApplyEvent, Noted
  <1>2. row.started_at \in Int /\ row.updated_at \in Int
    BY DEF IsRun
  <1>3. Min({row.started_at, e.timestamp}) \in Int
    BY <1>2, MinOfTwo
  <1>4. Max({row.updated_at, e.timestamp, e.registered}) \in Int
    BY <1>2, MaxOfThree
  <1>5. /\ n = [c \in RunColumns |-> n[c]]
        /\ n.started_at = Min({row.started_at, e.timestamp})
        /\ n.updated_at = Max({row.updated_at, e.timestamp, e.registered})
        /\ n.resources = (IF e.resources THEN Mark(e) ELSE row.resources)
        /\ n.heartbeat_at = (IF e.type = "heartbeat" THEN e.timestamp ELSE row.heartbeat_at)
        /\ n.current_stage = (IF NamesStage(e) THEN e.stage ELSE row.current_stage)
        /\ n.work = (IF e.type = "progress" /\ e.counted THEN Mark(e) ELSE row.work)
        /\ n.status = row.status /\ n.ended_at = row.ended_at
        /\ n.failure = row.failure /\ n.block = row.block
    BY DEF IsRun, RunColumns, LatestColumns, Noted
  <1> HIDE DEF n
  <1>6. /\ o = [c \in RunColumns |-> o[c]]
        /\ \A c \in RunColumns \ {"status", "ended_at", "failure", "block"} : o[c] = n[c]
        /\ Reopens(e) => /\ o.status = "running" /\ o.ended_at = None
                         /\ o.failure = None /\ o.block = None
        /\ ~Reopens(e) => o = n
    BY <1>5 DEF Reopened, RunColumns, LatestColumns
  <1> HIDE DEF o
  <1>7. /\ d = [c \in RunColumns |-> d[c]]
        /\ \A c \in RunColumns \ {"status", "ended_at", "failure", "block", "current_stage"} :
                d[c] = o[c]
        /\ Outcome(e) = None => d = o
        /\ Outcome(e) # None =>
              /\ d.status = Outcome(e) /\ d.ended_at = e.timestamp
              /\ d.current_stage =
                    IF Outcome(e) = "completed" THEN "complete" ELSE Outcome(e)
              /\ d.failure = IF Outcome(e) = "failed" THEN Mark(e) ELSE None
              /\ d.block = IF Outcome(e) = "blocked" THEN Mark(e) ELSE None
    BY <1>6 DEF Concluded, RunColumns, LatestColumns
  <1> HIDE DEF d
  <1>8. /\ d.started_at = Min({row.started_at, e.timestamp})
        /\ d.updated_at = Max({row.updated_at, e.timestamp, e.registered})
        /\ IsRun(d)
    BY <1>3, <1>4, <1>5, <1>6, <1>7 DEF IsRun, RunColumns, LatestColumns
  <1>9. ASSUME NEW c \in LatestColumns
        PROVE  d[c] = IF Writes(c, e) THEN Written(c, e) ELSE row[c]
    <2>1. CASE c = "status"
      BY <2>1, <1>5, <1>6, <1>7 DEF Writes, Written, Concludes
    <2>2. CASE c = "current_stage"
      BY <2>2, <1>5, <1>6, <1>7 DEF Writes, Written, RunColumns, LatestColumns
    <2>3. CASE c = "ended_at"
      BY <2>3, <1>5, <1>6, <1>7 DEF Writes, Written, Concludes
    <2>4. CASE c = "heartbeat_at"
      BY <2>4, <1>5, <1>6, <1>7 DEF Writes, Written, RunColumns, LatestColumns
    <2>5. CASE c = "resources"
      BY <2>5, <1>5, <1>6, <1>7 DEF Writes, Written, RunColumns, LatestColumns
    <2>6. CASE c = "work"
      BY <2>6, <1>5, <1>6, <1>7 DEF Writes, Written, RunColumns, LatestColumns
    <2>7. CASE c = "failure"
      <3>1. None # "failed"
        BY NoneAssumption
      <3>2. Written(c, e) = IF Outcome(e) = "failed" THEN Mark(e) ELSE None
        BY <2>7 DEF Written
      <3>3. Writes(c, e) <=> Reopens(e) \/ Outcome(e) # None
        BY <2>7 DEF Writes, Concludes
      <3> QED BY <2>7, <3>1, <3>2, <3>3, <1>5, <1>6, <1>7
    <2>8. CASE c = "block"
      <3>1. None # "blocked"
        BY NoneAssumption
      <3>2. Written(c, e) = IF Outcome(e) = "blocked" THEN Mark(e) ELSE None
        BY <2>8 DEF Written
      <3>3. Writes(c, e) <=> Reopens(e) \/ Outcome(e) # None
        BY <2>8 DEF Writes, Concludes
      <3> QED BY <2>8, <3>1, <3>2, <3>3, <1>5, <1>6, <1>7
    <2> QED BY <2>1, <2>2, <2>3, <2>4, <2>5, <2>6, <2>7, <2>8 DEF LatestColumns
  <1> QED BY <1>1, <1>8, <1>9

-----------------------------------------------------------------------------
(***************************************************************************)
(* What a fold shows.                                                      *)
(***************************************************************************)

Attempt(S) == {e \in S : e.producer = LastEvent(S).producer}
Resets(a, S) ==
    \/ a \notin {None, LastEvent(S).producer}
    \/ \E e \in S : e.producer # LastEvent(S).producer
Writers(c, S) == {e \in S : Writes(c, e)}
Stamps(S) == {e.timestamp : e \in S}
Registrations(S) == {e.registered : e \in S}

LatestOr(c, S, default) ==
    IF Writers(c, S) = {} THEN default ELSE Written(c, LastEvent(Writers(c, S)))

FoldShows(r, a, S, x) ==
    /\ x.active = LastEvent(S).producer
    /\ IsRun(x.run)
    /\ \A c \in LatestColumns :
          x.run[c] = LatestOr(c, Attempt(S), IF Resets(a, S) THEN Unwritten(c) ELSE r[c])
    /\ IsLeast(x.run.started_at,
               Stamps(Attempt(S)) \cup (IF Resets(a, S) THEN {} ELSE {r.started_at}))
    /\ IsGreatest(x.run.updated_at, {r.updated_at} \cup Stamps(S) \cup Registrations(S))

\* The last event of a log decides its columns.
LEMMA NewestWrites ==
  ASSUME NEW S, Log(S), NEW P \in SUBSET S, NEW x \in P, x = LastEvent(S),
         NEW c, NEW default
  PROVE  LatestOr(c, P, default) = IF Writes(c, x) THEN Written(c, x)
                                   ELSE LatestOr(c, P \ {x}, default)
  <1>1. CASE Writes(c, x)
    <2>1. x \in Writers(c, P) /\ Writers(c, P) \in SUBSET S
      BY <1>1 DEF Writers
    <2>2. IsLast(x, Writers(c, P))
      BY <2>1, LastExists DEF IsLast
    <2>3. LastEvent(Writers(c, P)) = x
      BY <2>1, <2>2, PartOfLog, OneLast
    <2> QED BY <1>1, <2>1, <2>3 DEF LatestOr
  <1>2. CASE ~Writes(c, x)
    <2>1. Writers(c, P \ {x}) = Writers(c, P)
      BY <1>2 DEF Writers
    <2> QED BY <1>2, <2>1 DEF LatestOr
  <1> QED BY <1>1, <1>2

\* The events before the last are of its producer, or it begins an attempt.
LEMMA LastAttempt ==
  ASSUME NEW S, Log(S), NEW x, x = LastEvent(S), NEW T, T = S \ {x}, T # {}
  PROVE  /\ x \in S
         /\ LastEvent(T).producer = x.producer =>
              /\ Attempt(S) = Attempt(T) \cup {x} /\ x \notin Attempt(T)
              /\ \A a : Resets(a, S) = Resets(a, T)
         /\ LastEvent(T).producer # x.producer =>
              Attempt(S) = {x} /\ \A a : Resets(a, S)
  <1>1. x \in S /\ IsLast(x, S)
    BY LastExists DEF IsLast
  <1>2. IsLast(LastEvent(T), T) /\ LastEvent(T) \in T
    BY PartOfLog, LastExists DEF IsLast
  <1>3. CASE LastEvent(T).producer = x.producer
    <2>1. Attempt(S) = Attempt(T) \cup {x} /\ x \notin Attempt(T)
      BY <1>1, <1>3 DEF Attempt
    <2>2. \A a : Resets(a, S) = Resets(a, T)
      BY <1>1, <1>3 DEF Resets
    <2> QED BY <1>1, <1>3, <2>1, <2>2
  <1>4. CASE LastEvent(T).producer # x.producer
    <2>1. ASSUME NEW e \in T PROVE e.producer # x.producer
      <3>1. e \in S /\ LastEvent(T) \in S /\ Precedes(LastEvent(T), x)
        BY <1>1, <1>2 DEF IsLast
      <3>2. e = LastEvent(T) \/ Precedes(e, LastEvent(T))
        BY <1>2 DEF IsLast
      <3> QED BY <1>1, <1>4, <3>1, <3>2 DEF Log, Precedes
    <2>2. Attempt(S) = {x}
      BY <1>1, <2>1 DEF Attempt
    <2>3. \A a : Resets(a, S)
      BY <1>2, <2>1 DEF Resets
    <2> QED BY <1>1, <1>4, <2>2, <2>3
  <1> QED BY <1>3, <1>4

\* One event more, applied to the run it finds.
LEMMA OneEventShows ==
  ASSUME NEW S, Log(S), S # {}, NEW x, x = LastEvent(S),
         NEW r, IsRun(r), NEW a, NEW b, IsRun(b),
         \A c \in LatestColumns :
            b[c] = LatestOr(c, Attempt(S) \ {x},
                            IF Resets(a, S) THEN Unwritten(c) ELSE r[c]),
         IsLeast(Min({b.started_at, x.timestamp}),
                 Stamps(Attempt(S)) \cup (IF Resets(a, S) THEN {} ELSE {r.started_at})),
         IsGreatest(Max({b.updated_at, x.timestamp, x.registered}),
                    {r.updated_at} \cup Stamps(S) \cup Registrations(S))
  PROVE  FoldShows(r, a, S, [active |-> x.producer, run |-> ApplyEvent(b, x)])
  <1> DEFINE y == [active |-> x.producer, run |-> ApplyEvent(b, x)]
  <1>1. x \in S /\ x \in Attempt(S) /\ Attempt(S) \in SUBSET S
    BY LastExists DEF IsLast, Attempt
  <1>2. x.timestamp \in Int /\ x.registered \in Int
    BY <1>1 DEF Log
  <1>3. /\ IsRun(y.run)
        /\ \A c \in LatestColumns :
              y.run[c] = IF Writes(c, x) THEN Written(c, x) ELSE b[c]
        /\ y.run.started_at = Min({b.started_at, x.timestamp})
        /\ y.run.updated_at = Max({b.updated_at, x.timestamp, x.registered})
        /\ y.active = x.producer
    <2>1. y.run = ApplyEvent(b, x) /\ y.active = x.producer
      OBVIOUS
    <2> QED BY <1>2, <2>1, ApplyWrites
  <1> HIDE DEF y
  <1>4. ASSUME NEW c \in LatestColumns
        PROVE  y.run[c] = LatestOr(c, Attempt(S),
                                   IF Resets(a, S) THEN Unwritten(c) ELSE r[c])
    <2> DEFINE default == IF Resets(a, S) THEN Unwritten(c) ELSE r[c]
    <2>1. b[c] = LatestOr(c, Attempt(S) \ {x}, default)
      OBVIOUS
    <2>2. LatestOr(c, Attempt(S), default) = IF Writes(c, x) THEN Written(c, x)
                                             ELSE LatestOr(c, Attempt(S) \ {x}, default)
      <3> DEFINE P == Attempt(S)
      <3>1. P \in SUBSET S /\ x \in P
        BY <1>1
      <3> HIDE DEF default, P
      <3>2. LatestOr(c, P, default) = IF Writes(c, x) THEN Written(c, x)
                                      ELSE LatestOr(c, P \ {x}, default)
        BY <3>1, NewestWrites
      <3> QED BY <3>2 DEF P
    <2> QED BY <1>3, <2>1, <2>2
  <1>5. FoldShows(r, a, S, y)
    BY <1>3, <1>4 DEF FoldShows
  <1> QED BY <1>5 DEF y

\* The first event of an attempt, or the only one.
LEMMA FirstEventShows ==
  ASSUME NEW S, Log(S), S # {}, NEW x, x = LastEvent(S), S = {x} \/ Attempt(S) = {x},
         NEW r, IsRun(r), NEW a, NEW y, IsRun(y.run),
         Resets(a, S) <=> y.active \notin {None, x.producer},
         ~Resets(a, S) => y.run = r,
         IsGreatest(y.run.updated_at,
                    {r.updated_at} \cup Stamps(S \ {x}) \cup Registrations(S \ {x}))
  PROVE  FoldShows(r, a, S, Apply(x, y))
  <1> DEFINE b == IF y.active \in {None, x.producer} THEN y.run ELSE NewAttempt(y.run, x)
  <1>1. x \in S /\ Attempt(S) = {x}
    BY LastExists DEF IsLast, Attempt
  <1>2. x.timestamp \in Int /\ x.registered \in Int
    BY <1>1 DEF Log
  <1>3. y.run.updated_at \in Int /\ r.started_at \in Int /\ r.updated_at \in Int
    BY DEF IsRun
  <1> DEFINE top == Max({y.run.updated_at, x.timestamp, x.registered})
  <1>4. IsGreatest(top, {y.run.updated_at, x.timestamp, x.registered}) /\ top \in Int
    BY <1>2, <1>3, MaxOfThree
  <1>5. Stamps(S) = Stamps(S \ {x}) \cup {x.timestamp} /\ Stamps(Attempt(S)) = {x.timestamp}
    BY <1>1 DEF Stamps
  <1>6. Registrations(S) = Registrations(S \ {x}) \cup {x.registered}
    BY <1>1 DEF Registrations
  <1>7. /\ \A t \in Stamps(S) : t \in Int
        /\ \A t \in Registrations(S) : t \in Int
    BY DEF Stamps, Registrations, Log
  <1> HIDE DEF top
  <1>8. IsGreatest(top, {r.updated_at} \cup Stamps(S) \cup Registrations(S))
    <2> DEFINE seen == {r.updated_at} \cup Stamps(S \ {x}) \cup Registrations(S \ {x})
    <2>1. {r.updated_at} \cup Stamps(S) \cup Registrations(S)
            = seen \cup {x.timestamp, x.registered}
      BY <1>5, <1>6
    <2>2. \A t \in seen : t \in Int
      BY <1>3, <1>5, <1>6, <1>7
    <2>3. IsGreatest(y.run.updated_at, seen)
      OBVIOUS
    <2> HIDE DEF seen
    <2>4. IsGreatest(top, seen \cup {x.timestamp, x.registered})
      BY <1>2, <1>3, <1>4, <2>2, <2>3, GreatestGrows
    <2> QED BY <2>1, <2>4
  <1>9. \A c, default : LatestOr(c, Attempt(S) \ {x}, default) = default
    BY <1>1 DEF LatestOr, Writers
  <1>10. FoldShows(r, a, S, [active |-> x.producer, run |-> ApplyEvent(b, x)])
    <2>1. CASE Resets(a, S)
      <3>1. b = FreshAttempt(x.timestamp, top)
        BY <2>1 DEF NewAttempt, top
      <3>2. /\ IsRun(b) /\ b.started_at = x.timestamp /\ b.updated_at = top
            /\ \A c \in LatestColumns : b[c] = Unwritten(c)
        BY <3>1, <1>2, <1>4, FreshIsUnwritten
      <3> HIDE DEF b
      <3>3. IsLeast(Min({b.started_at, x.timestamp}), Stamps(Attempt(S)))
        BY <1>2, <1>5, <3>2, MinOfTwo DEF IsLeast
      <3>4. Max({b.updated_at, x.timestamp, x.registered}) = top
        <4>1. IsGreatest(Max({b.updated_at, x.timestamp, x.registered}),
                         {top, x.timestamp, x.registered})
          BY <3>2, <1>2, <1>4, MaxOfThree
        <4> QED BY <4>1, <1>2, <1>4 DEF IsGreatest
      <3>5. IsLeast(Min({b.started_at, x.timestamp}),
                    Stamps(Attempt(S)) \cup
                        (IF Resets(a, S) THEN {} ELSE {r.started_at}))
        BY <2>1, <3>3
      <3>6. \A c \in LatestColumns :
                b[c] = LatestOr(c, Attempt(S) \ {x},
                                IF Resets(a, S) THEN Unwritten(c) ELSE r[c])
        BY <2>1, <3>2, <1>9
      <3> QED BY <3>2, <3>4, <3>5, <3>6, <1>8, OneEventShows
    <2>2. CASE ~Resets(a, S)
      <3>1. b = r /\ y.run = r
        BY <2>2
      <3> HIDE DEF b
      <3>2. IsLeast(Min({b.started_at, x.timestamp}),
                    Stamps(Attempt(S)) \cup
                        (IF Resets(a, S) THEN {} ELSE {r.started_at}))
        BY <1>2, <1>3, <1>5, <2>2, <3>1, MinOfTwo DEF IsLeast
      <3>3. Max({b.updated_at, x.timestamp, x.registered}) = top
        BY <3>1 DEF top
      <3>4. \A c \in LatestColumns :
                b[c] = LatestOr(c, Attempt(S) \ {x},
                                IF Resets(a, S) THEN Unwritten(c) ELSE r[c])
        BY <2>2, <3>1, <1>9
      <3> QED BY <3>1, <3>2, <3>3, <3>4, <1>8, OneEventShows
    <2> QED BY <2>1, <2>2
  <1>11. Apply(x, y) = [active |-> x.producer, run |-> ApplyEvent(b, x)]
    BY DEF Apply
  <1> QED BY <1>10, <1>11

\* A further event of the attempt.
LEMMA NextEventShows ==
  ASSUME NEW S, Log(S), NEW x, x = LastEvent(S), NEW T, T = S \ {x}, T # {},
         LastEvent(T).producer = x.producer,
         NEW r, IsRun(r), NEW a, NEW y, FoldShows(r, a, T, y)
  PROVE  FoldShows(r, a, S, Apply(x, y))
  <1>1. /\ x \in S /\ Attempt(S) = Attempt(T) \cup {x} /\ x \notin Attempt(T)
        /\ Resets(a, S) = Resets(a, T)
    BY LastAttempt
  <1>2. x.timestamp \in Int /\ x.registered \in Int
    BY <1>1 DEF Log
  <1> DEFINE b == y.run
  <1>3. y.active = x.producer /\ IsRun(b) /\ b.started_at \in Int /\ b.updated_at \in Int
    BY DEF FoldShows, IsRun
  <1>4. Apply(x, y) = [active |-> x.producer, run |-> ApplyEvent(b, x)]
    BY <1>3 DEF Apply
  <1>5. /\ \A t \in Stamps(S) : t \in Int
        /\ \A t \in Registrations(S) : t \in Int
        /\ Stamps(Attempt(S)) \subseteq Stamps(S)
    BY <1>1 DEF Stamps, Registrations, Log, Attempt
  <1>6. /\ Stamps(S) = Stamps(T) \cup {x.timestamp}
        /\ Registrations(S) = Registrations(T) \cup {x.registered}
        /\ Stamps(Attempt(S)) = Stamps(Attempt(T)) \cup {x.timestamp}
    BY <1>1 DEF Stamps, Registrations
  <1>7. \A c \in LatestColumns :
            b[c] = LatestOr(c, Attempt(S) \ {x},
                            IF Resets(a, S) THEN Unwritten(c) ELSE r[c])
    <2>1. Attempt(S) \ {x} = Attempt(T)
      BY <1>1
    <2> QED BY <1>1, <2>1 DEF FoldShows
  <1> DEFINE base == IF Resets(a, S) THEN {} ELSE {r.started_at}
  <1>8. IsLeast(Min({b.started_at, x.timestamp}), Stamps(Attempt(S)) \cup base)
    <2>1. IsLeast(b.started_at, Stamps(Attempt(T)) \cup base)
      BY <1>1 DEF FoldShows
    <2>2. \A t \in base : t \in Int
      BY DEF IsRun
    <2> HIDE DEF base, b
    <2>3. Min({b.started_at, x.timestamp}) =
            IF b.started_at <= x.timestamp THEN b.started_at ELSE x.timestamp
      BY <1>2, <1>3, MinOfTwo
    <2> DEFINE low == Min({b.started_at, x.timestamp})
               seen == Stamps(Attempt(T)) \cup base
    <2>4. /\ low \in {b.started_at, x.timestamp}
          /\ low <= b.started_at /\ low <= x.timestamp /\ low \in Int
      BY <1>2, <1>3, <2>3
    <2>5. Stamps(Attempt(S)) \cup base = seen \cup {x.timestamp}
      BY <1>6
    <2>6. b.started_at \in seen /\ \A t \in seen : t \in Int /\ b.started_at <= t
      BY <1>5, <1>6, <2>1, <2>2 DEF IsLeast
    <2> HIDE DEF low, seen
    <2>7. low \in seen \cup {x.timestamp} /\ \A t \in seen \cup {x.timestamp} : low <= t
      BY <1>2, <1>3, <2>4, <2>6
    <2> QED BY <2>5, <2>7 DEF IsLeast, low
  <1>9. IsGreatest(Max({b.updated_at, x.timestamp, x.registered}),
                   {r.updated_at} \cup Stamps(S) \cup Registrations(S))
    <2>1. IsGreatest(b.updated_at, {r.updated_at} \cup Stamps(T) \cup Registrations(T))
      BY DEF FoldShows
    <2>2. r.updated_at \in Int
      BY DEF IsRun
    <2> HIDE DEF b
    <2> DEFINE top == Max({b.updated_at, x.timestamp, x.registered})
               seen == {r.updated_at} \cup Stamps(T) \cup Registrations(T)
    <2>3. IsGreatest(top, {b.updated_at, x.timestamp, x.registered}) /\ top \in Int
      BY <1>2, <1>3, MaxOfThree
    <2>4. {r.updated_at} \cup Stamps(S) \cup Registrations(S)
            = seen \cup {x.timestamp, x.registered}
      BY <1>6
    <2>5. \A t \in seen : t \in Int
      BY <1>5, <1>6, <2>2
    <2> HIDE DEF seen, top
    <2>6. IsGreatest(b.updated_at, seen)
      BY <2>1 DEF seen
    <2>7. IsGreatest(top, seen \cup {x.timestamp, x.registered})
      BY <1>2, <1>3, <2>3, <2>5, <2>6, GreatestGrows
    <2> QED BY <2>4, <2>7 DEF top
  <1>10. S # {}
    BY <1>1
  <1> HIDE DEF b
  <1>11. FoldShows(r, a, S, [active |-> x.producer, run |-> ApplyEvent(b, x)])
    BY <1>3, <1>7, <1>8, <1>9, <1>10, OneEventShows
  <1> QED BY <1>4, <1>11

\* Whatever the events are, a fold shows the last attempt: the latest event of
\* it that writes a column gives the column.
LEMMA FoldsShow ==
  ASSUME NEW S, Log(S), S # {}, NEW r, IsRun(r), NEW a
  PROVE  FoldShows(r, a, S, Folded(r, a, S))
  <1> DEFINE Good == {s \in SUBSET S : s = {} \/ FoldShows(r, a, s, Folded(r, a, s))}
  <1>1. ASSUME NEW s \in SUBSET S, \A t \in SUBSET s : t # s => t \in Good
        PROVE  s \in Good
    <2>1. CASE s = {}
      BY <2>1
    <2>2. CASE s # {}
      <3>1. PICK x : x = LastEvent(s)
        OBVIOUS
      <3>2. PICK t : t = s \ {x}
        OBVIOUS
      <3>3. PICK y : y = Folded(r, a, t)
        OBVIOUS
      <3>4. Log(s) /\ x \in s
        BY <2>2, <3>1, PartOfLog, LastExists DEF IsLast
      <3>5. Folded(r, a, s) = Apply(x, y)
        BY <2>2, <3>1, <3>2, <3>3, <3>4, FoldsLast
      <3>6. FoldShows(r, a, s, Apply(x, y))
        <4>1. CASE t = {}
          <5>1. s = {x}
            BY <3>2, <3>4, <4>1
          <5>2. y.active = a /\ y.run = r
            BY <3>3, <4>1, FoldsNothing
          <5>3. Resets(a, s) <=> y.active \notin {None, x.producer}
            BY <3>1, <5>1, <5>2 DEF Resets
          <5>4. IsGreatest(y.run.updated_at,
                           {r.updated_at} \cup Stamps(s \ {x}) \cup Registrations(s \ {x}))
            <6>1. Stamps(s \ {x}) = {} /\ Registrations(s \ {x}) = {}
              BY <5>1 DEF Stamps, Registrations
            <6>2. r.updated_at \in Int
              BY DEF IsRun
            <6> QED BY <5>2, <6>1, <6>2 DEF IsGreatest
          <5> QED BY <2>2, <3>1, <3>4, <5>1, <5>2, <5>3, <5>4, FirstEventShows
        <4>2. CASE t # {}
          <5>1. FoldShows(r, a, t, y)
            <6>1. t \in SUBSET s /\ t # s
              BY <3>2, <3>4
            <6> QED BY <1>1, <3>3, <4>2, <6>1
          <5>2. CASE LastEvent(t).producer = x.producer
            BY <3>1, <3>2, <3>4, <4>2, <5>1, <5>2, NextEventShows
          <5>3. CASE LastEvent(t).producer # x.producer
            <6>1. Attempt(s) = {x} /\ Resets(a, s)
              BY <3>1, <3>2, <3>4, <4>2, <5>3, LastAttempt
            <6>2. y.active = LastEvent(t).producer /\ IsRun(y.run)
              BY <5>1 DEF FoldShows
            <6>3. LastEvent(t) \in S
              <7>1. Log(t)
                BY <3>2, <3>4, PartOfLog
              <7> QED BY <3>2, <4>2, <7>1, LastExists DEF IsLast
            <6>4. y.active \notin {None, x.producer}
              BY <5>3, <6>2, <6>3, NoneAssumption DEF Log
            <6>5. IsGreatest(y.run.updated_at,
                             {r.updated_at} \cup Stamps(s \ {x}) \cup Registrations(s \ {x}))
              BY <3>2, <5>1 DEF FoldShows
            <6> QED BY <2>2, <3>1, <3>4, <6>1, <6>2, <6>4, <6>5, FirstEventShows
          <5> QED BY <5>2, <5>3
        <4> QED BY <4>1, <4>2
      <3> QED BY <3>5, <3>6
    <2> QED BY <2>1, <2>2
  <1>2. S \in Good
    <2>1. IsFiniteSet(S)
      BY DEF Log
    <2> HIDE DEF Good
    <2> QED BY <1>1, <2>1, SubsetInduction
  <1> QED BY <1>2

-----------------------------------------------------------------------------
(***************************************************************************)
(* What a run shows of its events: the full replay and the batches.        *)
(***************************************************************************)

StoredColumns == RunColumns \ {"block"}

Shows(at, S, x) ==
    /\ x = [c \in StoredColumns |-> x[c]]
    /\ \A c \in LatestColumns \ {"block"} : x[c] = LatestOr(c, Attempt(S), Unwritten(c))
    /\ IsLeast(x.started_at, Stamps(Attempt(S)) \cup (IF Resets(None, S) THEN {} ELSE {at}))
    /\ IsGreatest(x.updated_at, {at} \cup Stamps(S) \cup Registrations(S))

\* The times in a log are integers.
LEMMA StampsAreInt ==
  ASSUME NEW S, Log(S), NEW T \in SUBSET S
  PROVE  Stamps(T) \subseteq Int /\ Registrations(T) \subseteq Int
  BY DEF Log, Stamps, Registrations

\* Only one set of columns shows a set of events.
LEMMA ShownOnce ==
  ASSUME NEW at \in Int, NEW S, Log(S), NEW x, Shows(at, S, x), NEW y, Shows(at, S, y)
  PROVE  x = y
  <1>1. Attempt(S) \in SUBSET S
    BY DEF Attempt
  <1>2. /\ Stamps(Attempt(S)) \subseteq Int /\ Stamps(S) \subseteq Int
        /\ Registrations(S) \subseteq Int
    BY <1>1, StampsAreInt
  <1>3. x.started_at = y.started_at
    BY <1>2 DEF Shows, IsLeast
  <1>4. x.updated_at = y.updated_at
    BY <1>2 DEF Shows, IsGreatest
  <1>5. \A c \in StoredColumns : x[c] = y[c]
    BY <1>3, <1>4 DEF Shows, StoredColumns, RunColumns
  <1>6. x = [c \in StoredColumns |-> x[c]] /\ y = [c \in StoredColumns |-> y[c]]
    BY DEF Shows
  <1>7. [c \in StoredColumns |-> x[c]] = [c \in StoredColumns |-> y[c]]
    BY <1>5
  <1> QED BY <1>6, <1>7

\* The columns of a full replay.
LEMMA ReplayColumns ==
  ASSUME NEW at \in Int, NEW S, Log(S), NEW x, x = MaterializeRun(at, S)
  PROVE  /\ IsRun(x)
         /\ \A c \in LatestColumns : x[c] = LatestOr(c, Attempt(S), Unwritten(c))
         /\ IsLeast(x.started_at,
                    Stamps(Attempt(S)) \cup (IF Resets(None, S) THEN {} ELSE {at}))
         /\ IsGreatest(x.updated_at, {at} \cup Stamps(S) \cup Registrations(S))
  <1>1. PICK r : r = FreshAttempt(at, at)
    OBVIOUS
  <1>2. /\ IsRun(r) /\ r.started_at = at /\ r.updated_at = at
        /\ \A c \in LatestColumns : r[c] = Unwritten(c)
    BY <1>1, FreshIsUnwritten
  <1>3. PICK y : y = Folded(r, None, S)
    OBVIOUS
  <1>4. x = y.run
    BY <1>1, <1>3 DEF MaterializeRun, FoldEvents
  <1>5. CASE S = {}
    <2>1. x = r
      BY <1>3, <1>4, <1>5, FoldsNothing
    <2>2. Attempt(S) = {} /\ Stamps(S) = {} /\ Registrations(S) = {} /\ ~Resets(None, S)
      BY <1>5 DEF Attempt, Stamps, Registrations, Resets
    <2>3. Stamps(Attempt(S)) = {} /\ \A c, d : LatestOr(c, Attempt(S), d) = d
      BY <2>2 DEF Stamps, LatestOr, Writers
    <2> QED BY <1>2, <2>1, <2>2, <2>3 DEF IsLeast, IsGreatest
  <1>6. CASE S # {}
    <2>1. FoldShows(r, None, S, y)
      BY <1>2, <1>3, <1>6, FoldsShow
    <2> QED BY <1>2, <1>4, <2>1 DEF FoldShows
  <1> QED BY <1>5, <1>6

\* The stored columns are those of the run but its block.
LEMMA StoredOfRun ==
  ASSUME NEW x, IsRun(x)
  PROVE  /\ MaterializedColumns(x) = [c \in StoredColumns |-> MaterializedColumns(x)[c]]
         /\ \A c \in StoredColumns : MaterializedColumns(x)[c] = x[c]
  BY DEF IsRun, MaterializedColumns, StoredColumns

\* A full replay shows its events.
LEMMA ReplayShows ==
  ASSUME NEW at \in Int, NEW S, Log(S)
  PROVE  Shows(at, S, MaterializedColumns(MaterializeRun(at, S)))
  <1>1. PICK x : x = MaterializeRun(at, S)
    OBVIOUS
  <1>2. PICK y : y = MaterializedColumns(x)
    OBVIOUS
  <1>3. y = [c \in StoredColumns |-> y[c]] /\ \A c \in StoredColumns : y[c] = x[c]
    BY <1>1, <1>2, ReplayColumns, StoredOfRun
  <1>4. Shows(at, S, y)
    BY <1>1, <1>3, ReplayColumns DEF Shows, StoredColumns, RunColumns, LatestColumns
  <1> QED BY <1>1, <1>2, <1>4

\* The latest of a prefix and of the events after it.
LEMMA LatestOfSuffix ==
  ASSUME NEW S, Log(S), NEW P \in SUBSET S, NEW R \in SUBSET P, NEW B \in SUBSET P,
         P \ R \subseteq B, \A e \in P \ R, f \in R : Precedes(e, f),
         NEW c, NEW d
  PROVE  LatestOr(c, R, LatestOr(c, B, d)) = LatestOr(c, P, d)
  <1>1. CASE Writers(c, R) = {}
    <2>1. Writers(c, B) = Writers(c, P)
      BY <1>1 DEF Writers
    <2> QED BY <1>1, <2>1 DEF LatestOr
  <1>2. CASE Writers(c, R) # {}
    <2>1. PICK w : w = LastEvent(Writers(c, R))
      OBVIOUS
    <2>2. Writers(c, R) \in SUBSET S /\ Writers(c, P) \in SUBSET S
      BY DEF Writers
    <2>3. IsLast(w, Writers(c, R))
      BY <1>2, <2>1, <2>2, PartOfLog, LastExists
    <2>4. IsLast(w, Writers(c, P))
      BY <2>3 DEF IsLast, Writers
    <2>5. LastEvent(Writers(c, P)) = w /\ Writers(c, P) # {}
      BY <2>2, <2>4, PartOfLog, OneLast
    <2> QED BY <1>2, <2>1, <2>5 DEF LatestOr
  <1> QED BY <1>1, <1>2

\* The new events that follow all the stored ones.
After(E, A) == {e \in A : Precedes(LastEvent(E), e)}

\* A greatest element stays so when some of the others are taken again.
LEMMA GreatestStays ==
  ASSUME NEW X \in SUBSET Int, NEW Y \in SUBSET X, NEW u, IsGreatest(u, X),
         NEW v, IsGreatest(v, {u} \cup Y)
  PROVE  IsGreatest(v, X)
  BY DEF IsGreatest

\* A batch in which a later producer takes the run over.
LEMMA TakeoverShows ==
  ASSUME NEW at \in Int, NEW E, NEW A, NEW S, S = E \cup A, Log(S), E # {}, E \cap A = {},
         NEW l, l = LastEvent(E), NEW F, F = After(E, A),
         NEW o \in F, o.producer # l.producer,
         NEW r, IsRun(r),
         IsGreatest(r.updated_at, {at} \cup Stamps(S) \cup Registrations(S)),
         NEW x, x = Folded(r, l.producer, F)
  PROVE  Shows(at, S, MaterializedColumns(x.run))
  <1>1. Log(F) /\ Log(E) /\ F # {} /\ F \in SUBSET S /\ E \in SUBSET S
    BY PartOfLog DEF After
  <1>2. FoldShows(r, l.producer, F, x)
    BY <1>1, FoldsShow
  <1>3. PICK z : z = LastEvent(F)
    OBVIOUS
  <1>4. z \in F /\ z \in S /\ Precedes(l, z) /\ l \in E /\ l \in S
    BY <1>1, <1>3, LastExists DEF IsLast, After
  <1>5. IsLast(l, E) /\ IsLast(z, F)
    BY <1>1, <1>3, LastExists
  <1>6. ASSUME NEW f \in S \ F, f # l PROVE Precedes(f, l)
    <2>1. CASE f \in E
      BY <1>5, <1>6, <2>1 DEF IsLast
    <2>2. CASE f \in A
      <3>1. ~Precedes(l, f)
        BY <1>6, <2>2 DEF After
      <3> QED BY <1>4, <1>6, <3>1, OrderIsTotal
    <2> QED BY <2>1, <2>2
  <1>7. LastEvent(S) = z
    <2>1. ASSUME NEW f \in S \ {z} PROVE Precedes(f, z)
      <3>1. CASE f \in F
        BY <1>5, <2>1, <3>1 DEF IsLast
      <3>2. CASE f \notin F
        BY <1>4, <1>6, <3>2, OrderIsTransitive
      <3> QED BY <3>1, <3>2
    <2>2. IsLast(z, S)
      BY <1>4, <2>1 DEF IsLast
    <2> QED BY <2>2, OneLast
  <1>8. z.producer # l.producer
    <2>1. o \in S /\ Precedes(l, o) /\ (o = z \/ Precedes(o, z))
      BY <1>1, <1>5 DEF IsLast, After
    <2> QED BY <1>4, <2>1 DEF Log, Precedes
  <1>9. Attempt(S) = Attempt(F)
    <2>1. ASSUME NEW e \in S, e.producer = z.producer PROVE e \in F
      <3>1. e \in F \/ e = l \/ Precedes(e, l)
        BY <1>6
      <3>2. ~Precedes(e, l)
        BY <1>4, <1>8, <2>1 DEF Log, Precedes
      <3> QED BY <1>8, <2>1, <3>1, <3>2
    <2> QED BY <1>1, <1>3, <1>7, <2>1 DEF Attempt
  <1>10. Resets(l.producer, F) /\ Resets(None, S)
    <2>1. l.producer # None
      BY <1>4, NoneAssumption DEF Log
    <2> QED BY <1>3, <1>4, <1>7, <1>8, <2>1 DEF Resets
  <1>11. IsGreatest(x.run.updated_at, {at} \cup Stamps(S) \cup Registrations(S))
    <2>1. IsGreatest(x.run.updated_at, {r.updated_at} \cup Stamps(F) \cup Registrations(F))
      BY <1>2 DEF FoldShows
    <2>2. Stamps(F) \subseteq Stamps(S) /\ Registrations(F) \subseteq Registrations(S)
      BY <1>1 DEF Stamps, Registrations
    <2>3. Stamps(S) \subseteq Int /\ Registrations(S) \subseteq Int
      BY StampsAreInt
    <2> DEFINE X == {at} \cup Stamps(S) \cup Registrations(S)
               Y == Stamps(F) \cup Registrations(F)
    <2>4. X \in SUBSET Int /\ Y \in SUBSET X
      BY <2>2, <2>3
    <2>5. IsGreatest(r.updated_at, X) /\ IsGreatest(x.run.updated_at, {r.updated_at} \cup Y)
      <3>1. {r.updated_at} \cup Y = {r.updated_at} \cup Stamps(F) \cup Registrations(F)
        OBVIOUS
      <3> QED BY <2>1, <3>1
    <2> HIDE DEF X, Y
    <2>6. IsGreatest(x.run.updated_at, X)
      BY <2>4, <2>5, GreatestStays
    <2> QED BY <2>6 DEF X
  <1>12. PICK y : y = MaterializedColumns(x.run)
    OBVIOUS
  <1>13. y = [c \in StoredColumns |-> y[c]] /\ \A c \in StoredColumns : y[c] = x.run[c]
    BY <1>2, <1>12, StoredOfRun DEF FoldShows
  <1>14. \A c \in LatestColumns \ {"block"} : y[c] = LatestOr(c, Attempt(S), Unwritten(c))
    BY <1>2, <1>9, <1>10, <1>13 DEF FoldShows, StoredColumns, RunColumns
  <1>15. IsLeast(x.run.started_at, Stamps(Attempt(S)))
    BY <1>2, <1>9, <1>10 DEF FoldShows
  <1>16. y.started_at = x.run.started_at /\ y.updated_at = x.run.updated_at
    BY <1>13 DEF StoredColumns, RunColumns, LatestColumns
  <1> QED BY <1>10, <1>11, <1>12, <1>13, <1>14, <1>15, <1>16 DEF Shows

\* No event of the batch belongs to a later producer than the stored ones do.
Continues(E, A) == \A e \in After(E, A) : e.producer = LastEvent(E).producer

\* R ends the events Own, and all before R were stored before.
IsSuffix(R, Own, E) ==
    /\ R \in SUBSET Own /\ Own \ R \subseteq E
    /\ \A e \in Own \ R, f \in R : Precedes(e, f)

\* The run r that a suffix of the active producer's events Own is folded over.
Resumes(at, E, S, Own, shown, r) ==
    /\ IsRun(r)
    /\ \A c \in LatestColumns \ {"block"} : r[c] = shown[c]
    /\ IsGreatest(r.updated_at, {at} \cup Stamps(S) \cup Registrations(S))
    /\ \/ r.started_at = shown.started_at /\ Resets(None, E) = Resets(None, S)
       \/ IsLeast(r.started_at, Stamps(Own)) /\ Resets(None, S)

\* A batch that leaves the active producer its run: a suffix of its events is
\* folded over the columns.
LEMMA ContinuationShows ==
  ASSUME NEW at \in Int, NEW E, NEW A, NEW S, S = E \cup A, Log(S), E # {}, E \cap A = {},
         NEW l, l = LastEvent(E), Continues(E, A),
         NEW Own, Own = {e \in S : e.producer = l.producer},
         NEW R, IsSuffix(R, Own, E),
         NEW shown, Shows(at, E, shown), NEW r, Resumes(at, E, S, Own, shown, r),
         NEW x, x = Folded(r, l.producer, R)
  PROVE  Shows(at, S, MaterializedColumns(x.run))
  <1> R \in SUBSET Own /\ Own \ R \subseteq E /\ \A e \in Own \ R, f \in R : Precedes(e, f)
    BY DEF IsSuffix
  <1> USE DEF Resumes, Continues
  <1>1. Log(E) /\ E \in SUBSET S /\ l \in E /\ l \in S /\ IsLast(l, E)
    BY PartOfLog, LastExists DEF IsLast
  <1>2. l.producer \in Int /\ l.producer # None
    BY <1>1, NoneAssumption DEF Log
  <1>3. LastEvent(S).producer = l.producer
    <2>1. PICK z : z = LastEvent(S)
      OBVIOUS
    <2>2. z \in S /\ (z = l \/ Precedes(l, z))
      <3>1. IsLast(z, S)
        BY <1>1, <2>1, LastExists
      <3> QED BY <1>1, <3>1 DEF IsLast
    <2>3. CASE z \in E
      <3>1. z = l
        BY <1>1, <2>2, <2>3, OrderIsTotal DEF IsLast
      <3> QED BY <2>1, <3>1
    <2>4. CASE z \in A
      <3>1. z # l
        BY <1>1, <2>4
      <3>2. z \in After(E, A)
        BY <2>2, <2>4, <3>1 DEF After
      <3> QED BY <2>1, <3>2
    <2> QED BY <2>2, <2>3, <2>4
  <1>4. Attempt(S) = Own /\ Attempt(E) \in SUBSET Own /\ Own \ R \subseteq Attempt(E)
    BY <1>1, <1>3 DEF Attempt
  <1>5. Own \in SUBSET S /\ R \in SUBSET S /\ Log(R)
    BY PartOfLog
  <1>6. ASSUME NEW c \in LatestColumns \ {"block"}
        PROVE  LatestOr(c, R, r[c]) = LatestOr(c, Own, Unwritten(c))
    <2>1. r[c] = LatestOr(c, Attempt(E), Unwritten(c))
      BY DEF Shows
    <2>2. LatestOr(c, R, LatestOr(c, Attempt(E), Unwritten(c)))
            = LatestOr(c, Own, Unwritten(c))
      BY <1>4, <1>5, LatestOfSuffix
    <2> QED BY <2>1, <2>2
  <1> DEFINE known == Stamps(Own) \cup (IF Resets(None, S) THEN {} ELSE {at})
  <1>7. known \subseteq Int /\ Stamps(R) \subseteq known
    <2>1. Stamps(Own) \subseteq Int
      BY <1>5, StampsAreInt
    <2> QED BY <2>1 DEF Stamps
  <1>8. ASSUME NEW s, IsLeast(s, Stamps(R) \cup {r.started_at})
        PROVE  IsLeast(s, known)
    <2>1. CASE IsLeast(r.started_at, Stamps(Own)) /\ Resets(None, S)
      BY <1>7, <1>8, <2>1 DEF IsLeast
    <2>2. CASE r.started_at = shown.started_at /\ Resets(None, E) = Resets(None, S)
      <3> DEFINE before == Stamps(Attempt(E)) \cup (IF Resets(None, S) THEN {} ELSE {at})
      <3>1. IsLeast(r.started_at, before)
        BY <2>2 DEF Shows
      <3>2. known = before \cup Stamps(R)
        BY <1>4 DEF Stamps
      <3> HIDE DEF known, before
      <3> QED BY <1>7, <1>8, <3>1, <3>2 DEF IsLeast
    <2> QED BY <2>1, <2>2
  <1>9. /\ IsRun(x.run)
        /\ \A c \in LatestColumns \ {"block"} : x.run[c] = LatestOr(c, Own, Unwritten(c))
        /\ IsLeast(x.run.started_at, Stamps(R) \cup {r.started_at})
        /\ IsGreatest(x.run.updated_at,
                      {r.updated_at} \cup Stamps(R) \cup Registrations(R))
    <2>1. CASE R = {}
      <3>1. x.run = r
        BY <2>1, FoldsNothing
      <3>2. Stamps(R) = {} /\ Registrations(R) = {} /\ \A c, d : LatestOr(c, R, d) = d
        BY <2>1 DEF Stamps, Registrations, LatestOr, Writers
      <3>3. r.started_at \in Int /\ r.updated_at \in Int
        BY DEF IsRun
      <3> QED BY <1>6, <3>1, <3>2, <3>3 DEF IsLeast, IsGreatest
    <2>2. CASE R # {}
      <3>1. FoldShows(r, l.producer, R, x)
        BY <1>5, <2>2, FoldsShow
      <3>2. LastEvent(R) \in R
        BY <1>5, <2>2, LastExists DEF IsLast
      <3>3. LastEvent(R).producer = l.producer
        BY <3>2
      <3>4. Attempt(R) = R
        BY <3>3 DEF Attempt
      <3>5. ~Resets(l.producer, R)
        BY <3>3 DEF Resets
      <3> QED BY <1>6, <3>1, <3>4, <3>5 DEF FoldShows
    <2> QED BY <2>1, <2>2
  <1>10. IsLeast(x.run.started_at, known)
    BY <1>8, <1>9
  <1>11. IsGreatest(x.run.updated_at, {at} \cup Stamps(S) \cup Registrations(S))
    <2> DEFINE X == {at} \cup Stamps(S) \cup Registrations(S)
               Y == Stamps(R) \cup Registrations(R)
    <2>1. Stamps(R) \subseteq Stamps(S) /\ Registrations(R) \subseteq Registrations(S)
      BY <1>5 DEF Stamps, Registrations
    <2>2. X \in SUBSET Int /\ Y \in SUBSET X
      BY <2>1, StampsAreInt
    <2>3. {r.updated_at} \cup Y = {r.updated_at} \cup Stamps(R) \cup Registrations(R)
      OBVIOUS
    <2>4. IsGreatest(r.updated_at, X) /\ IsGreatest(x.run.updated_at, {r.updated_at} \cup Y)
      BY <1>9, <2>3
    <2> HIDE DEF X, Y
    <2>5. IsGreatest(x.run.updated_at, X)
      BY <2>2, <2>4, GreatestStays
    <2> QED BY <2>5 DEF X
  <1>12. PICK y : y = MaterializedColumns(x.run)
    OBVIOUS
  <1>13. y = [c \in StoredColumns |-> y[c]] /\ \A c \in StoredColumns : y[c] = x.run[c]
    BY <1>9, <1>12, StoredOfRun
  <1>14. \A c \in LatestColumns \ {"block"} : y[c] = LatestOr(c, Attempt(S), Unwritten(c))
    BY <1>4, <1>9, <1>13 DEF StoredColumns, RunColumns
  <1>15. y.started_at = x.run.started_at /\ y.updated_at = x.run.updated_at
    BY <1>13 DEF StoredColumns, RunColumns, LatestColumns
  <1> QED BY <1>4, <1>10, <1>11, <1>12, <1>13, <1>14, <1>15 DEF Shows

\* A finite log has finitely many times, sequence numbers and producers.
LEMMA StampsAreFinite ==
  ASSUME NEW S, IsFiniteSet(S)
  PROVE  /\ IsFiniteSet(Stamps(S)) /\ IsFiniteSet(Registrations(S))
         /\ IsFiniteSet({e.sequence : e \in S}) /\ IsFiniteSet({e.producer : e \in S})
  <1>1. [e \in S |-> e.timestamp] \in Surjection(S, Stamps(S))
    BY DEF Surjection, Stamps
  <1>2. [e \in S |-> e.registered] \in Surjection(S, Registrations(S))
    BY DEF Surjection, Registrations
  <1>3. [e \in S |-> e.sequence] \in Surjection(S, {e.sequence : e \in S})
    BY DEF Surjection
  <1>4. [e \in S |-> e.producer] \in Surjection(S, {e.producer : e \in S})
    BY DEF Surjection
  <1> QED BY <1>1, <1>2, <1>3, <1>4, FS_Surjection

\* What _stored_producers returns when E are the stored events.
Reports(P, E) ==
    /\ \A p \in DOMAIN P :
          P[p].last = LET own == {e.sequence : e \in {f \in E : f.producer = p}}
                      IN  IF own = {} THEN None ELSE Max(own)
    /\ \A e \in E : e.producer \in DOMAIN P /\ P[e.producer].registered = e.registered

\* The active producer is that of the last stored event.
LEMMA ActiveIsLast ==
  ASSUME NEW E, Log(E), E # {}, NEW l, l = LastEvent(E), NEW P, Reports(P, E)
  PROVE  /\ ReportedProducers(P) = {e.producer : e \in E}
         /\ ActiveProducer(P) = l.producer
         /\ P[l.producer].registered = l.registered
         /\ P[l.producer].last = l.sequence
  <1>1. l \in E /\ IsLast(l, E)
    BY LastExists DEF IsLast
  <1> DEFINE Own(p) == {f \in E : f.producer = p}
  <1>2. ASSUME NEW p \in DOMAIN P, NEW e \in E, e.producer = p
        PROVE  IsGreatest(P[p].last, {f.sequence : f \in Own(p)})
    <2>1. IsFiniteSet(Own(p))
      BY FS_Subset DEF Log
    <2>2. {f.sequence : f \in Own(p)} \subseteq Int /\ {f.sequence : f \in Own(p)} # {}
      BY <1>2 DEF Log
    <2>3. IsFiniteSet({f.sequence : f \in Own(p)})
      <3> HIDE DEF Own
      <3> QED BY <2>1, StampsAreFinite
    <2>4. P[p].last = Max({f.sequence : f \in Own(p)})
      BY <2>2 DEF Reports
    <2> QED BY <2>2, <2>3, <2>4, MaxIsGreatest
  <1>3. ASSUME NEW p \in DOMAIN P
        PROVE  P[p].last # None <=> \E e \in E : e.producer = p
    <2>1. CASE \E e \in E : e.producer = p
      <3>1. P[p].last \in Int
        BY <1>2, <2>1 DEF IsGreatest, Log
      <3> QED BY <2>1, <3>1, NoneAssumption
    <2>2. CASE ~\E e \in E : e.producer = p
      <3>1. {e.sequence : e \in {f \in E : f.producer = p}} = {}
        BY <2>2
      <3> QED BY <2>2, <3>1 DEF Reports
    <2> QED BY <2>1, <2>2
  <1>4. ReportedProducers(P) = {e.producer : e \in E}
    BY <1>3 DEF ReportedProducers, Reports
  <1>5. \A p \in ReportedProducers(P) : p \in Int /\ P[p].registered \in Int
    BY <1>4 DEF Reports, Log
  <1> DEFINE Latest(p) ==
        \A q \in ReportedProducers(P) \ {p} :
            \/ P[q].registered < P[p].registered
            \/ P[q].registered = P[p].registered /\ q < p
  <1>6. l.producer \in ReportedProducers(P) /\ Latest(l.producer)
    <2>1. ASSUME NEW e \in E, e.producer # l.producer
          PROVE  \/ P[e.producer].registered < P[l.producer].registered
                 \/ /\ P[e.producer].registered = P[l.producer].registered
                    /\ e.producer < l.producer
      <3>1. Precedes(e, l)
        BY <1>1, <2>1 DEF IsLast
      <3> QED BY <1>1, <2>1, <3>1 DEF Precedes, Reports
    <2> QED BY <1>1, <1>4, <2>1
  <1>7. \A p \in ReportedProducers(P) : Latest(p) => p = l.producer
    BY <1>5, <1>6
  <1>8. ActiveProducer(P) = l.producer
    <2>1. ActiveProducer(P) = CHOOSE p \in ReportedProducers(P) : Latest(p)
      BY DEF ActiveProducer
    <2> HIDE DEF Latest
    <2> QED BY <1>6, <1>7, <2>1
  <1>9. P[l.producer].last = l.sequence
    <2>1. l.producer \in DOMAIN P
      BY <1>1 DEF Reports
    <2>2. IsGreatest(P[l.producer].last, {f.sequence : f \in Own(l.producer)})
      BY <1>1, <1>2, <2>1
    <2>3. \A f \in Own(l.producer) : f.sequence <= l.sequence
      BY <1>1 DEF IsLast, Precedes, Log
    <2> QED BY <1>1, <2>2, <2>3 DEF IsGreatest, Log
  <1> QED BY <1>1, <1>4, <1>8, <1>9 DEF Reports

\* What append_events folds again is a suffix of the active producer's events.
LEMMA ReplayedIsSuffix ==
  ASSUME NEW E, NEW A, NEW S, S = E \cup A, Log(S), E # {}, E \cap A = {},
         NEW l, l = LastEvent(E), Continues(E, A),
         NEW Own, Own = {e \in S : e.producer = l.producer},
         NEW position, position.registered = l.registered,
         position.producer = l.producer, position.sequence = l.sequence,
         NEW R, R = Replayed(position, A, S)
  PROVE  IsSuffix(R, Own, E)
  <1>1. Log(E) /\ l \in E /\ l \in S /\ IsLast(l, E)
    BY PartOfLog, LastExists DEF IsLast
  <1>2. /\ Following(position, A) = After(E, A)
        /\ \A e \in After(E, A) : e.producer = l.producer
    BY DEF Following, After, Precedes, Continues
  <1> DEFINE late == {e \in A : e.producer = l.producer /\ e.sequence < l.sequence}
             first == Min({e.sequence : e \in late})
  <1>3. CASE late = {}
    <2>1. R = After(E, A)
      BY <1>2, <1>3 DEF Replayed
    <2>2. R \in SUBSET Own
      BY <1>2, <2>1 DEF After
    <2>3. Own \ R \subseteq E
      <3> SUFFICES ASSUME NEW e \in Own \ R, e \in A PROVE FALSE
        OBVIOUS
      <3>1. e # l /\ e \in S /\ ~Precedes(l, e) /\ e.producer = l.producer
        BY <1>1, <2>1 DEF After
      <3>2. Precedes(e, l)
        BY <1>1, <3>1, OrderIsTotal
      <3>3. e \in late
        BY <1>1, <3>1, <3>2 DEF Precedes, Log
      <3> QED BY <1>3, <3>3
    <2>4. ASSUME NEW e \in Own \ R, NEW f \in R PROVE Precedes(e, f)
      <3>1. e \in E /\ e \in S /\ f \in S /\ Precedes(l, f) /\ (e = l \/ Precedes(e, l))
        BY <1>1, <2>1, <2>3 DEF After, IsLast
      <3> QED BY <1>1, <3>1, OrderIsTransitive
    <2> QED BY <2>2, <2>3, <2>4 DEF IsSuffix
  <1>4. CASE late # {}
    <2>1. R = {e \in S : e.producer = l.producer /\ e.sequence >= first}
      BY <1>4 DEF Replayed, EventsFrom
    <2>2. IsLeast(first, {e.sequence : e \in late})
      <3>1. late \in SUBSET S
        OBVIOUS
      <3>2. IsFiniteSet(late)
        BY <3>1, FS_Subset DEF Log
      <3>3. {e.sequence : e \in late} \subseteq Int /\ {e.sequence : e \in late} # {}
        BY <1>4, <3>1 DEF Log
      <3>4. IsFiniteSet({e.sequence : e \in late})
        BY <3>2, StampsAreFinite
      <3> QED BY <3>3, <3>4, MinIsLeast
    <2>3. PICK m \in late : m.sequence = first
      BY <2>2 DEF IsLeast
    <2>4. first \in Int /\ first < l.sequence /\ \A e \in late : first <= e.sequence
      <3>1. m.sequence \in Int
        BY DEF Log
      <3> QED BY <2>2, <2>3, <3>1 DEF IsLeast
    <2> HIDE DEF first
    <2>5. R \in SUBSET Own
      BY <2>1
    <2>6. ASSUME NEW e \in Own \ R PROVE e.sequence < first
      <3>1. e \in S /\ e.producer = l.producer
        OBVIOUS
      <3>2. e.sequence \in Int /\ ~(e.sequence >= first)
        BY <2>1, <3>1 DEF Log
      <3> QED BY <2>4, <3>2
    <2>7. Own \ R \subseteq E
      <3> SUFFICES ASSUME NEW e \in Own \ R, e \in A PROVE FALSE
        OBVIOUS
      <3>1. e.sequence < first /\ e.sequence \in Int /\ e.producer = l.producer
        BY <2>6 DEF Log
      <3>2. e \in late
        BY <1>1, <2>4, <3>1 DEF Log
      <3> QED BY <2>4, <3>1, <3>2
    <2>8. ASSUME NEW e \in Own \ R, NEW f \in R PROVE Precedes(e, f)
      <3>1. e.sequence < first /\ f.sequence >= first
        BY <2>1, <2>6
      <3>2. e \in S /\ f \in S /\ e.producer = f.producer
        BY <2>5
      <3>3. /\ e.registered = f.registered
            /\ e.sequence \in Int /\ f.sequence \in Int
        BY <3>2 DEF Log
      <3> QED BY <2>4, <3>1, <3>2, <3>3 DEF Precedes
    <2> QED BY <2>5, <2>7, <2>8 DEF IsSuffix
  <1> QED BY <1>3, <1>4

Updated(shown, A) ==
    [FromColumns(shown) EXCEPT
        !.updated_at = Max({@} \cup Stamps(A) \cup Registrations(A))]

\* The greatest element over two sets, taken one after the other.
LEMMA GreatestOfBoth ==
  ASSUME NEW X \in SUBSET Int, NEW Y \in SUBSET Int, NEW u, IsGreatest(u, X),
         NEW v, IsGreatest(v, {u} \cup Y)
  PROVE  IsGreatest(v, X \cup Y)
  BY DEF IsGreatest

\* The run a fold of a batch starts from.
Starts(at, S, shown, r) ==
    /\ IsRun(r)
    /\ \A c \in LatestColumns \ {"block"} : r[c] = shown[c]
    /\ r.started_at = shown.started_at
    /\ IsGreatest(r.updated_at, {at} \cup Stamps(S) \cup Registrations(S))

\* A batch's fold starts from the stored columns with updated_at raised.
LEMMA BatchStart ==
  ASSUME NEW at \in Int, NEW E, NEW A, NEW S, S = E \cup A, Log(S),
         NEW shown, Shows(at, E, shown), NEW r, r = Updated(shown, A)
  PROVE  Starts(at, S, shown, r)
  <1>1. E \in SUBSET S /\ A \in SUBSET S /\ IsFiniteSet(A) /\ Attempt(E) \in SUBSET S
    BY FS_Subset DEF Log, Attempt
  <1>2. /\ Stamps(S) = Stamps(E) \cup Stamps(A)
        /\ Registrations(S) = Registrations(E) \cup Registrations(A)
    BY DEF Stamps, Registrations
  <1>3. /\ Stamps(S) \subseteq Int /\ Registrations(S) \subseteq Int
        /\ Stamps(Attempt(E)) \subseteq Int
    BY <1>1, StampsAreInt
  <1>4. shown.started_at \in Int /\ shown.updated_at \in Int
    BY <1>2, <1>3 DEF Shows, IsLeast, IsGreatest
  <1> DEFINE new == {shown.updated_at} \cup Stamps(A) \cup Registrations(A)
  <1>5. IsGreatest(Max(new), new)
    <2>1. IsFiniteSet(Stamps(A)) /\ IsFiniteSet(Registrations(A))
      BY <1>1, StampsAreFinite
    <2>2. IsFiniteSet(new)
      BY <2>1, FS_Singleton, FS_Union
    <2>3. new \subseteq Int /\ new # {}
      BY <1>2, <1>3, <1>4
    <2> HIDE DEF new
    <2> QED BY <2>2, <2>3, MaxIsGreatest
  <1>6. /\ shown = [c \in StoredColumns |-> shown[c]]
        /\ FromColumns(shown) =
              [c \in RunColumns |-> IF c = "block" THEN None ELSE shown[c]]
    <2>1. shown = [c \in StoredColumns |-> shown[c]]
      BY DEF Shows
    <2>2. DOMAIN shown \cup {"block"} = RunColumns
      BY <2>1 DEF StoredColumns, RunColumns, LatestColumns
    <2> QED BY <2>1, <2>2 DEF FromColumns
  <1>7. /\ r = [c \in RunColumns |-> r[c]]
        /\ r.updated_at = Max(new)
        /\ \A c \in StoredColumns \ {"updated_at"} : r[c] = shown[c]
    <2>1. FromColumns(shown).updated_at = shown.updated_at
      BY <1>6 DEF RunColumns, LatestColumns
    <2>2. r = [FromColumns(shown) EXCEPT !.updated_at = Max(new)]
      BY <2>1 DEF Updated
    <2> HIDE DEF new
    <2> QED BY <1>6, <2>2 DEF RunColumns, StoredColumns, LatestColumns
  <1>8. Max(new) \in Int
    BY <1>2, <1>3, <1>4, <1>5 DEF IsGreatest
  <1>9. IsGreatest(r.updated_at, {at} \cup Stamps(S) \cup Registrations(S))
    <2> DEFINE old == {at} \cup Stamps(E) \cup Registrations(E)
               more == Stamps(A) \cup Registrations(A)
    <2>1. IsGreatest(shown.updated_at, old)
      BY DEF Shows
    <2>2. IsGreatest(r.updated_at, {shown.updated_at} \cup more)
      <3>1. new = {shown.updated_at} \cup more
        OBVIOUS
      <3> QED BY <1>5, <1>7, <3>1
    <2>3. old \subseteq Int /\ more \subseteq Int
      BY <1>2, <1>3
    <2>4. {at} \cup Stamps(S) \cup Registrations(S) = old \cup more
      BY <1>2
    <2> HIDE DEF old, more
    <2>5. IsGreatest(r.updated_at, old \cup more)
      BY <2>1, <2>2, <2>3, GreatestOfBoth
    <2> QED BY <2>4, <2>5
  <1> HIDE DEF new
  <1>10. IsRun(r) /\ r.started_at = shown.started_at
    BY <1>4, <1>7, <1>8 DEF IsRun, StoredColumns, RunColumns, LatestColumns
  <1>11. \A c \in LatestColumns \ {"block"} : r[c] = shown[c]
    BY <1>7 DEF StoredColumns, RunColumns, LatestColumns
  <1> QED BY <1>9, <1>10, <1>11 DEF Starts

\* A run with one reported producer has one attempt so far.
LEMMA OneReported ==
  ASSUME NEW E, Log(E), E # {}, NEW l, l = LastEvent(E), NEW P, Reports(P, E)
  PROVE  Cardinality(ReportedProducers(P)) = 1 <=> ~Resets(None, E)
  <1>1. l \in E
    BY LastExists DEF IsLast
  <1>2. ReportedProducers(P) = {e.producer : e \in E}
    BY ActiveIsLast
  <1>3. IsFiniteSet(ReportedProducers(P))
    BY <1>2, StampsAreFinite DEF Log
  <1>4. Cardinality(ReportedProducers(P)) = 1 <=> \E p : ReportedProducers(P) = {p}
    BY <1>3, FS_Singleton
  <1>5. Resets(None, E) <=> \E e \in E : e.producer # l.producer
    BY DEF Resets
  <1> QED BY <1>1, <1>2, <1>4, <1>5

\* apply_event_batch gives what a replay of all events would show, from what
\* the columns show of the events before the batch.
THEOREM BatchShows ==
  ASSUME NEW at \in Int, NEW E, NEW A, NEW S, S = E \cup A, Log(S), E \cap A = {},
         NEW shown, Shows(at, E, shown), NEW P, Reports(P, E)
  PROVE  Shows(at, S, ApplyEventBatch(at, shown, P, A, S))
  <1>1. CASE E = {}
    <2>1. ReportedProducers(P) = {}
      BY <1>1 DEF ReportedProducers, Reports
    <2>2. S = A
      BY <1>1
    <2>3. ApplyEventBatch(at, shown, P, A, S) = MaterializedColumns(MaterializeRun(at, S))
      BY <2>1, <2>2 DEF ApplyEventBatch
    <2> QED BY <2>3, ReplayShows
  <1>2. CASE E # {}
    <2>1. PICK l : l = LastEvent(E)
      OBVIOUS
    <2>2. Log(E) /\ l \in E /\ l \in S /\ IsLast(l, E)
      BY <1>2, <2>1, PartOfLog, LastExists DEF IsLast
    <2>3. /\ ReportedProducers(P) = {e.producer : e \in E}
          /\ ActiveProducer(P) = l.producer
          /\ P[l.producer].registered = l.registered
          /\ P[l.producer].last = l.sequence
      BY <1>2, <2>1, <2>2, ActiveIsLast
    <2>4. PICK position : position = [registered |-> l.registered, producer |-> l.producer,
                                      sequence |-> l.sequence]
      OBVIOUS
    <2>5. PICK Own : Own = {e \in S : e.producer = l.producer}
      OBVIOUS
    <2> DEFINE ownStart == Min({e.timestamp : e \in {f \in S : f.producer = l.producer}})
               preceded == /\ Cardinality(ReportedProducers(P)) = 1
                           /\ \E e \in A : e.producer # l.producer
    <2>6. PICK latest : latest = Updated(shown, A)
      OBVIOUS
    <2>7. PICK current : current =
                IF preceded THEN [latest EXCEPT !.started_at = ownStart] ELSE latest
      OBVIOUS
    <2>8. Following(position, A) = After(E, A)
      BY <2>1, <2>4 DEF Following, After, Precedes
    <2>9. ApplyEventBatch(at, shown, P, A, S) =
            MaterializedColumns(
                IF \E e \in After(E, A) : e.producer # l.producer
                THEN FoldEvents(latest, l.producer, After(E, A))
                ELSE FoldEvents(current, l.producer, Replayed(position, A, S)))
      <3>1. ReportedProducers(P) # {}
        BY <2>2, <2>3
      <3> QED BY <2>3, <2>4, <2>6, <2>7, <2>8, <3>1
              DEF ApplyEventBatch, Updated, Stamps, Registrations
    <2>10. /\ IsRun(latest)
           /\ \A c \in LatestColumns \ {"block"} : latest[c] = shown[c]
           /\ latest.started_at = shown.started_at
           /\ IsGreatest(latest.updated_at, {at} \cup Stamps(S) \cup Registrations(S))
      <3>1. Starts(at, S, shown, latest)
        BY <2>6, BatchStart
      <3> QED BY <3>1 DEF Starts
    <2>11. CASE \E e \in After(E, A) : e.producer # l.producer
      <3>1. PICK o \in After(E, A) : o.producer # l.producer
        BY <2>11
      <3>2. PICK x : x = Folded(latest, l.producer, After(E, A))
        OBVIOUS
      <3>3. Shows(at, S, MaterializedColumns(x.run))
        BY <1>2, <2>1, <2>10, <3>1, <3>2, TakeoverShows
      <3> QED BY <2>9, <2>11, <3>2, <3>3 DEF FoldEvents
    <2>12. CASE ~\E e \in After(E, A) : e.producer # l.producer
      <3>1. Continues(E, A)
        BY <2>1, <2>12 DEF Continues
      <3>2. PICK R : R = Replayed(position, A, S)
        OBVIOUS
      <3>3. IsSuffix(R, Own, E)
        <4>1. /\ position.registered = l.registered /\ position.producer = l.producer
              /\ position.sequence = l.sequence
          BY <2>4
        <4> QED BY <1>2, <2>1, <2>5, <3>1, <3>2, <4>1, ReplayedIsSuffix
      <3>4. PICK x : x = Folded(current, l.producer, R)
        OBVIOUS
      <3>5. Resets(None, E) <=> \E e \in E : e.producer # l.producer
        BY <2>1 DEF Resets
      <3>6. Resets(None, S) <=> \E e \in S : e.producer # l.producer
        <4>1. Resets(None, S) <=> \E e, f \in S : e.producer # f.producer
          BY <2>2, LastExists DEF IsLast, Resets
        <4> QED BY <2>2, <4>1
      <3>7. preceded <=> ~Resets(None, E) /\ \E e \in A : e.producer # l.producer
        BY <1>2, <2>1, <2>2, OneReported
      <3>8. IsLeast(ownStart, Stamps(Own)) /\ ownStart \in Int
        <4>1. ownStart = Min(Stamps(Own))
          BY <2>5 DEF Stamps
        <4>2. Own \in SUBSET S /\ IsFiniteSet(Own) /\ l \in Own
          BY <2>2, <2>5, FS_Subset DEF Log
        <4>3. IsFiniteSet(Stamps(Own)) /\ Stamps(Own) \subseteq Int /\ Stamps(Own) # {}
          BY <4>2, StampsAreFinite, StampsAreInt DEF Stamps
        <4> HIDE DEF ownStart
        <4> QED BY <4>1, <4>3, MinIsLeast DEF IsLeast
      <3> HIDE DEF ownStart, preceded
      <3>9. /\ IsRun(current)
            /\ \A c \in LatestColumns \ {"block"} : current[c] = shown[c]
            /\ current.updated_at = latest.updated_at
            /\ current.started_at = IF preceded THEN ownStart ELSE shown.started_at
        <4>1. CASE preceded
          BY <2>7, <2>10, <3>8, <4>1 DEF IsRun, RunColumns, LatestColumns
        <4>2. CASE ~preceded
          BY <2>7, <2>10, <4>2
        <4> QED BY <4>1, <4>2
      <3>10. \/ /\ current.started_at = shown.started_at
                /\ Resets(None, E) = Resets(None, S)
             \/ IsLeast(current.started_at, Stamps(Own)) /\ Resets(None, S)
        <4>1. CASE preceded
          BY <3>6, <3>7, <3>8, <3>9, <4>1
        <4>2. CASE ~preceded
          <5>1. Resets(None, E) <=> Resets(None, S)
            BY <3>5, <3>6, <3>7, <4>2
          <5>2. Resets(None, E) = Resets(None, S)
            BY <5>1 DEF Resets
          <5> QED BY <3>9, <4>2, <5>2
        <4> QED BY <4>1, <4>2
      <3>11. Shows(at, S, MaterializedColumns(x.run))
        <4>1. IsGreatest(current.updated_at, {at} \cup Stamps(S) \cup Registrations(S))
          BY <2>10, <3>9
        <4>2. Resumes(at, E, S, Own, shown, current)
          BY <3>9, <3>10, <4>1 DEF Resumes
        <4> QED BY <1>2, <2>1, <2>5, <3>1, <3>3, <3>4, <4>2, ContinuationShows
      <3> QED BY <2>9, <2>12, <3>2, <3>4, <3>11 DEF FoldEvents
    <2> QED BY <2>11, <2>12
  <1> QED BY <1>1, <1>2

-----------------------------------------------------------------------------
(***************************************************************************)
(* The collector.                                                          *)
(***************************************************************************)

\* The lock is held by exactly the transaction that is under way.
Locked ==
    /\ lock \in Workers \cup {None}
    /\ pc \in [Workers -> {"idle", "locked", "read"}]
    /\ \A w \in Workers : pc[w] # "idle" <=> lock = w

\* No two stored events share a key of telemetry_events.
KeysAreUnique == \A e, f \in events : SameKey(e, f) => e = f

\* What a transaction read of the producers is what the tables hold.
Snapshots ==
    /\ snapshot = [w \in Workers |-> snapshot[w]]
    /\ \A w \in Workers : pc[w] = "read" => snapshot[w] = StoredProducers

LockInv == Locked /\ Snapshots /\ KeysAreUnique

\* No request is under way at first.
LEMMA LockInit == Init => LockInv
  BY WorkersAssumption DEF Init, LockInv, Locked, Snapshots, KeysAreUnique

\* While a run's row is locked, no other request changes its producers or its
\* events.
LEMMA LockNext == LockInv /\ [Next]_vars => LockInv'
  <1> SUFFICES ASSUME LockInv, [Next]_vars PROVE LockInv'
    OBVIOUS
  <1> USE WorkersAssumption DEF LockInv, Locked, Snapshots
  <1>1. ASSUME NEW who \in Principals, NEW metadata \in Metadata, NEW p \in Producers,
               NEW stamp \in Times, RegisterRun(who, metadata, p, stamp)
        PROVE  LockInv'
    <2>1. \A w \in Workers : pc'[w] = "idle"
      BY <1>1 DEF RegisterRun
    <2> QED BY <1>1, <2>1 DEF RegisterRun, KeysAreUnique, SameKey
  <1>2. ASSUME NEW w \in Workers, LockRun(w) PROVE LockInv'
    <2>1. \A v \in Workers : pc'[v] # "read"
      BY <1>2 DEF LockRun
    <2> QED BY <1>2, <2>1 DEF LockRun, KeysAreUnique, SameKey
  <1>3. ASSUME NEW w \in Workers, ReadProducers(w) PROVE LockInv'
    <2>1. StoredProducers' = StoredProducers
      BY <1>3 DEF ReadProducers, StoredProducers, LastSequence
    <2> QED BY <1>3, <2>1 DEF ReadProducers, KeysAreUnique, SameKey
  <1>4. ASSUME NEW w \in Workers, NEW who \in Principals, NEW batch \in Batches,
               AppendEvents(w, who, batch)
        PROVE  LockInv'
    <2>1. \A v \in Workers : pc'[v] = "idle"
      BY <1>4 DEF AppendEvents
    <2>2. PICK inserted \in Insertable(batch) : events' = events \cup inserted
      BY <1>4 DEF AppendEvents
    <2>3. KeysAreUnique'
      BY <2>2 DEF KeysAreUnique, Insertable, SameKey
    <2> QED BY <1>4, <2>1, <2>3 DEF AppendEvents
  <1>5. ASSUME NEW w \in Workers, Rollback(w) PROVE LockInv'
    <2>1. \A v \in Workers : pc'[v] = "idle"
      BY <1>5 DEF Rollback
    <2> QED BY <1>5, <2>1 DEF Rollback, KeysAreUnique, SameKey
  <1>6. CASE UNCHANGED vars
    <2>1. StoredProducers' = StoredProducers
      BY <1>6 DEF vars, StoredProducers, LastSequence
    <2> QED BY <1>6, <2>1 DEF vars, KeysAreUnique, SameKey
  <1> QED BY <1>1, <1>2, <1>3, <1>4, <1>5, <1>6 DEF Next

\* What append_events read of the producers under SELECT ... FOR UPDATE still
\* holds when it folds its batch: the obligation apply_event_batch states.
THEOREM SnapshotIsAlwaysCurrent == Spec => []SnapshotIsCurrent
  <1>1. LockInv => SnapshotIsCurrent
    BY DEF LockInv, Locked, Snapshots, SnapshotIsCurrent
  <1>2. Spec => []LockInv
    BY LockInit, LockNext, PTL DEF Spec
  <1> QED BY <1>1, <1>2, PTL

\* A repeated, reordered or conflicting delivery never records a key twice:
\* the conflict clause of the insert keeps the first row.
THEOREM KeysAreAlwaysUnique == Spec => []KeysAreUnique
  <1>1. LockInv => KeysAreUnique
    BY DEF LockInv
  <1>2. Spec => []LockInv
    BY LockInit, LockNext, PTL DEF Spec
  <1> QED BY <1>1, <1>2, PTL
-----------------------------------------------------------------------------

\* What a request can carry, and the set of events a run has stored.
IsEvent(e) ==
    /\ {"producer", "sequence", "timestamp"} \subseteq DOMAIN e
    /\ e.producer \in Int /\ e.sequence \in Int /\ e.timestamp \in Int

EventsInv ==
    /\ \A p \in DOMAIN producers : producers[p] \in Int
    /\ IsFiniteSet(events)
    /\ \A e \in events : IsEvent(e) /\ e.producer \in DOMAIN producers

\* Without a run there is nothing; with one, its columns show its events.
RunInv ==
    /\ run = None => /\ producers = <<>> /\ events = {} /\ columns = None
                     /\ \A w \in Workers : pc[w] = "idle"
    /\ run # None => /\ run.registered_at \in Int
                     /\ Shows(run.registered_at, Joined(events), columns)

StoreInv == LockInv /\ EventsInv /\ RunInv

\* A stored event keeps its fields and gains its producer's registration.
LEMMA JoinKeeps ==
  ASSUME NEW e, IsEvent(e)
  PROVE  /\ JoinedEvent(e).producer = e.producer
         /\ JoinedEvent(e).sequence = e.sequence
         /\ JoinedEvent(e).timestamp = e.timestamp
         /\ JoinedEvent(e).registered = producers[e.producer]
  BY DEF JoinedEvent, IsEvent

\* The joined rows of events with distinct keys are a log.
LEMMA JoinedIsLog ==
  ASSUME NEW S, IsFiniteSet(S),
         \A p \in DOMAIN producers : producers[p] \in Int,
         \A e \in S : IsEvent(e) /\ e.producer \in DOMAIN producers,
         \A e, f \in S : SameKey(e, f) => e = f
  PROVE  Log(Joined(S))
  <1>1. IsFiniteSet(Joined(S))
    <2>1. [e \in S |-> JoinedEvent(e)] \in Surjection(S, Joined(S))
      BY DEF Surjection, Joined
    <2> QED BY <2>1, FS_Surjection
  <1>2. ASSUME NEW x \in Joined(S)
        PROVE  \E e \in S : x = JoinedEvent(e) /\ x.producer = e.producer
                            /\ x.sequence = e.sequence /\ x.timestamp = e.timestamp
                            /\ x.registered = producers[e.producer]
    <2>1. PICK e \in S : x = JoinedEvent(e)
      BY DEF Joined
    <2> QED BY <2>1, JoinKeeps
  <1>3. ASSUME NEW x \in Joined(S)
        PROVE  /\ x.registered \in Int /\ x.producer \in Int
               /\ x.sequence \in Int /\ x.timestamp \in Int
    BY <1>2 DEF IsEvent
  <1>4. ASSUME NEW x \in Joined(S), NEW y \in Joined(S), x.producer = y.producer
        PROVE  x.registered = y.registered /\ (x.sequence = y.sequence => x = y)
    <2>1. PICK e \in S : /\ x = JoinedEvent(e) /\ x.producer = e.producer
                         /\ x.sequence = e.sequence /\ x.registered = producers[e.producer]
      BY <1>2
    <2>2. PICK f \in S : /\ y = JoinedEvent(f) /\ y.producer = f.producer
                         /\ y.sequence = f.sequence /\ y.registered = producers[f.producer]
      BY <1>2
    <2>3. x.sequence = y.sequence => e = f
      BY <1>4, <2>1, <2>2 DEF SameKey
    <2> QED BY <1>4, <2>1, <2>2, <2>3
  <1> QED BY <1>1, <1>3, <1>4 DEF Log

\* _stored_producers reports the stored events.
LEMMA StoredAreReported ==
  ASSUME EventsInv
  PROVE  Reports(StoredProducers, Joined(events))
  <1>1. ASSUME NEW p \in DOMAIN producers
        PROVE  {e.sequence : e \in {f \in events : f.producer = p}} =
                   {e.sequence : e \in {f \in Joined(events) : f.producer = p}}
    <2>1. \A e \in events : /\ JoinedEvent(e).producer = e.producer
                            /\ JoinedEvent(e).sequence = e.sequence
      BY JoinKeeps DEF EventsInv
    <2> QED BY <2>1 DEF Joined
  <1>2. ASSUME NEW x \in Joined(events)
        PROVE  x.producer \in DOMAIN producers /\ producers[x.producer] = x.registered
    <2>1. PICK e \in events : x = JoinedEvent(e)
      BY DEF Joined
    <2> QED BY <2>1, JoinKeeps DEF EventsInv
  <1>3. PICK P : P = StoredProducers
    OBVIOUS
  <1>4. /\ DOMAIN P = DOMAIN producers
        /\ \A p \in DOMAIN P : P[p].registered = producers[p] /\ P[p].last = LastSequence(p)
    BY <1>3 DEF StoredProducers
  <1>5. \A p \in DOMAIN P :
            P[p].last = LET own == {e.sequence : e \in {f \in Joined(events) : f.producer = p}}
                        IN  IF own = {} THEN None ELSE Max(own)
    BY <1>1, <1>4 DEF LastSequence
  <1> QED BY <1>2, <1>3, <1>4, <1>5 DEF Reports

-----------------------------------------------------------------------------

\* The ledger's operators are those of the event rules.
LEMMA LedgerRules ==
  ASSUME NEW e, NEW S
  PROVE  /\ Ledger!Outcome(e) = Outcome(e) /\ Ledger!Reopens(e) = Reopens(e)
         /\ Ledger!NamesStage(e) = NamesStage(e) /\ Ledger!Mark(e) = Mark(e)
         /\ Ledger!LastEvent(S) = LastEvent(S)
         /\ Ledger!Min(S) = Min(S) /\ Ledger!Max(S) = Max(S)
         /\ Ledger!Cardinality(S) = Cardinality(S)
  BY DEF Ledger!Cardinality, Cardinality,
         Ledger!Outcome, Outcome, Ledger!Reopens, Reopens, Ledger!NamesStage, NamesStage,
         Ledger!TerminalStages, TerminalStages, Ledger!Mark, Mark,
         Ledger!LastEvent, LastEvent, Ledger!Precedes, Precedes,
         Ledger!Min, Min, Ledger!Max, Max

\* The view the ledger promises is what the events show.
LEMMA ViewShows ==
  ASSUME NEW at \in Int, NEW S, Log(S)
  PROVE  Shows(at, S, Ledger!View(at, S))
  <1> DEFINE attempt == Ledger!FinalAttempt(S)
  <1>1. attempt = Attempt(S) /\ Attempt(S) \in SUBSET S
    BY LedgerRules DEF Attempt, Ledger!FinalAttempt
  <1>2. attempt = S <=> ~Resets(None, S)
    BY <1>1 DEF Attempt, Resets
  <1>3. PICK x : x = Ledger!View(at, S)
    OBVIOUS
  <1>4. /\ Writers("status", attempt) = Ledger!Concluding(attempt)
        /\ Writers("ended_at", attempt) = Ledger!Concluding(attempt)
        /\ Writers("failure", attempt) = Ledger!Concluding(attempt)
        /\ Writers("current_stage", attempt) = Ledger!Staging(attempt)
        /\ Writers("heartbeat_at", attempt) = Ledger!Beating(attempt)
        /\ Writers("resources", attempt) = Ledger!Sampling(attempt)
        /\ Writers("work", attempt) = Ledger!Progressing(attempt)
    BY LedgerRules DEF Writers, Writes, Concludes, Ledger!Concluding, Ledger!Staging,
                       Ledger!Beating, Ledger!Sampling, Ledger!Progressing
  <1>5. /\ x = [c \in StoredColumns |-> x[c]]
        /\ x.started_at = Ledger!StartOf(at, attempt, S)
        /\ x.updated_at = Max({at} \cup Stamps(S) \cup Registrations(S))
    BY <1>3, LedgerRules
       DEF Ledger!View, Stamps, Registrations, StoredColumns, RunColumns, LatestColumns
  <1>6. x.status = LatestOr("status", attempt, "running")
    <2>1. x.status = IF Ledger!Concluding(attempt) = {} THEN "running"
                     ELSE Ledger!StatusOf(LastEvent(Ledger!Concluding(attempt)))
      BY <1>3, LedgerRules DEF Ledger!View, Ledger!LatestOf
    <2> QED BY <1>4, <2>1, LedgerRules DEF LatestOr, Written, Ledger!StatusOf
  <1>7. x.current_stage = LatestOr("current_stage", attempt, "created")
    <2>1. x.current_stage = IF Ledger!Staging(attempt) = {} THEN "created"
                            ELSE Ledger!StageOf(LastEvent(Ledger!Staging(attempt)))
      BY <1>3, LedgerRules DEF Ledger!View, Ledger!LatestOf
    <2> QED BY <1>4, <2>1, LedgerRules DEF LatestOr, Written, Ledger!StageOf
  <1>8. x.ended_at = LatestOr("ended_at", attempt, None)
    <2>1. x.ended_at = IF Ledger!Concluding(attempt) = {} THEN None
                       ELSE Ledger!EndOf(LastEvent(Ledger!Concluding(attempt)))
      BY <1>3, LedgerRules DEF Ledger!View, Ledger!LatestOf
    <2> QED BY <1>4, <2>1, LedgerRules DEF LatestOr, Written, Ledger!EndOf
  <1>9. x.heartbeat_at = LatestOr("heartbeat_at", attempt, None)
    <2>1. x.heartbeat_at = IF Ledger!Beating(attempt) = {} THEN None
                           ELSE Ledger!TimeOf(LastEvent(Ledger!Beating(attempt)))
      BY <1>3, LedgerRules DEF Ledger!View, Ledger!LatestOf
    <2> QED BY <1>4, <2>1, LedgerRules DEF LatestOr, Written, Ledger!TimeOf
  <1>10. x.resources = LatestOr("resources", attempt, None)
    <2>1. x.resources = IF Ledger!Sampling(attempt) = {} THEN None
                        ELSE Ledger!Mark(LastEvent(Ledger!Sampling(attempt)))
      BY <1>3, LedgerRules DEF Ledger!View, Ledger!LatestOf
    <2> QED BY <1>4, <2>1, LedgerRules DEF LatestOr, Written
  <1>11. x.work = LatestOr("work", attempt, None)
    <2>1. x.work = IF Ledger!Progressing(attempt) = {} THEN None
                   ELSE Ledger!Mark(LastEvent(Ledger!Progressing(attempt)))
      BY <1>3, LedgerRules DEF Ledger!View, Ledger!LatestOf
    <2> QED BY <1>4, <2>1, LedgerRules DEF LatestOr, Written
  <1>12. x.failure = LatestOr("failure", attempt, None)
    <2>1. x.failure = IF Ledger!Concluding(attempt) = {} THEN None
                      ELSE Ledger!FailureOf(LastEvent(Ledger!Concluding(attempt)))
      BY <1>3, LedgerRules DEF Ledger!View, Ledger!LatestOf
    <2> QED BY <1>4, <2>1, LedgerRules DEF LatestOr, Written, Ledger!FailureOf
  <1>13. IsLeast(x.started_at, Stamps(attempt) \cup (IF attempt = S THEN {at} ELSE {}))
    <2> DEFINE X == Stamps(attempt) \cup (IF attempt = S THEN {at} ELSE {})
    <2>1. IsFiniteSet(attempt) /\ attempt \in SUBSET S
      BY <1>1, FS_Subset DEF Log
    <2>2. IsFiniteSet(Stamps(attempt)) /\ Stamps(attempt) \subseteq Int
      BY <2>1, StampsAreFinite, StampsAreInt
    <2>3. IsFiniteSet(X)
      BY <2>2, FS_Singleton, FS_EmptySet, FS_Union
    <2>4. X \subseteq Int /\ X # {}
      <3>1. CASE attempt = S
        BY <2>2, <3>1
      <3>2. CASE attempt # S
        <4>1. LastEvent(S) \in attempt
          <5>1. S # {}
            BY <1>1, <3>2
          <5> QED BY <1>1, <5>1, LastExists DEF IsLast, Attempt
        <4> QED BY <2>2, <3>2, <4>1 DEF Stamps
      <3> QED BY <3>1, <3>2
    <2> HIDE DEF X
    <2>5. IsLeast(Min(X), X)
      BY <2>3, <2>4, MinIsLeast
    <2>6. x.started_at = Ledger!Min(X)
      BY <1>5 DEF Ledger!StartOf, Stamps, X
    <2>7. x.started_at = Min(X)
      BY <2>6, LedgerRules
    <2> QED BY <2>5, <2>7 DEF X
  <1>14. IsGreatest(x.updated_at, {at} \cup Stamps(S) \cup Registrations(S))
    <2> DEFINE X == {at} \cup Stamps(S) \cup Registrations(S)
    <2>1. /\ IsFiniteSet(Stamps(S)) /\ IsFiniteSet(Registrations(S))
          /\ Stamps(S) \subseteq Int /\ Registrations(S) \subseteq Int
      BY StampsAreFinite, StampsAreInt DEF Log
    <2>2. IsFiniteSet(X)
      BY <2>1, FS_Singleton, FS_Union
    <2>3. X \subseteq Int /\ X # {}
      BY <2>1
    <2> HIDE DEF X
    <2>4. IsGreatest(Max(X), X)
      BY <2>2, <2>3, MaxIsGreatest
    <2> QED BY <1>5, <2>4 DEF X
  <1> HIDE DEF attempt
  <1>15. \A c \in LatestColumns \ {"block"} : x[c] = LatestOr(c, attempt, Unwritten(c))
    BY <1>6, <1>7, <1>8, <1>9, <1>10, <1>11, <1>12 DEF LatestColumns, Unwritten
  <1> QED BY <1>1, <1>2, <1>3, <1>5, <1>13, <1>14, <1>15 DEF Shows

-----------------------------------------------------------------------------

\* Registering a producer changes no stored row.
LEMMA RegisterKeepsJoined ==
  ASSUME EventsInv, NEW p, NEW stamp, p \notin DOMAIN producers, events' = events,
         producers' = [q \in DOMAIN producers \cup {p} |->
                          IF q = p THEN stamp ELSE producers[q]]
  PROVE  Joined(events)' = Joined(events)
  <1>1. ASSUME NEW e \in events PROVE JoinedEvent(e)' = JoinedEvent(e)
    <2>1. producers'[e.producer] = producers[e.producer]
      BY DEF EventsInv
    <2> QED BY <2>1 DEF JoinedEvent
  <1> QED BY <1>1 DEF Joined

\* What a batch adds to the store.
LEMMA InsertKeeps ==
  ASSUME StoreInv, NEW batch \in Batches, NEW inserted \in Insertable(batch),
         \A e \in batch : e.producer \in DOMAIN producers
  PROVE  /\ IsFiniteSet(events \cup inserted)
         /\ \A e \in events \cup inserted : IsEvent(e) /\ e.producer \in DOMAIN producers
         /\ Log(Joined(events \cup inserted))
         /\ Joined(events \cup inserted) = Joined(events) \cup Joined(inserted)
         /\ Joined(events) \cap Joined(inserted) = {}
         /\ Log(Joined(events))
  <1>1. inserted \in SUBSET batch /\ IsFiniteSet(inserted)
    BY BatchesAssumption, FS_Subset DEF Insertable
  <1>2. ASSUME NEW e \in inserted PROVE IsEvent(e) /\ e.producer \in DOMAIN producers
    <2>1. e \in batch
      BY <1>1
    <2>2. /\ {"producer", "sequence", "timestamp"} \subseteq DOMAIN e
          /\ e.producer \in Producers /\ e.sequence \in Nat \ {0} /\ e.timestamp \in Int
      BY <2>1, BatchesAssumption
    <2>3. e.producer \in Int
      BY <2>2, ProducersAssumption
    <2>4. e.sequence \in Int
      BY <2>2
    <2>5. e.producer \in DOMAIN producers
      BY <2>1
    <2> QED BY <2>2, <2>3, <2>4, <2>5 DEF IsEvent
  <1>3. IsFiniteSet(events \cup inserted)
    BY <1>1, FS_Union DEF StoreInv, EventsInv
  <1>4. \A e \in events \cup inserted : IsEvent(e) /\ e.producer \in DOMAIN producers
    BY <1>2 DEF StoreInv, EventsInv
  <1>5. \A e, f \in events \cup inserted : SameKey(e, f) => e = f
    BY DEF StoreInv, LockInv, KeysAreUnique, Insertable, SameKey
  <1>6. \A p \in DOMAIN producers : producers[p] \in Int
    BY DEF StoreInv, EventsInv
  <1>7. Log(Joined(events \cup inserted)) /\ Log(Joined(events))
    BY <1>3, <1>4, <1>5, <1>6, JoinedIsLog DEF StoreInv, EventsInv
  <1>8. Joined(events \cup inserted) = Joined(events) \cup Joined(inserted)
    BY DEF Joined
  <1>9. Joined(events) \cap Joined(inserted) = {}
    <2> SUFFICES ASSUME NEW e \in events, NEW f \in inserted, JoinedEvent(e) = JoinedEvent(f)
                 PROVE  FALSE
      BY DEF Joined
    <2>1. e.producer = f.producer /\ e.sequence = f.sequence
      BY <1>4, JoinKeeps
    <2> QED BY <2>1 DEF Insertable, SameKey
  <1> QED BY <1>3, <1>4, <1>7, <1>8, <1>9

\* An empty store has no run.
LEMMA StoreInit == Init => StoreInv
  <1> SUFFICES ASSUME Init PROVE StoreInv
    OBVIOUS
  <1>1. LockInv
    BY LockInit
  <1>2. EventsInv
    BY FS_EmptySet DEF Init, EventsInv
  <1>3. RunInv
    BY DEF Init, RunInv
  <1> QED BY <1>1, <1>2, <1>3 DEF StoreInv

\* The columns a new run is created with show that nothing happened.
LEMMA FreshShows ==
  ASSUME NEW stamp \in Int
  PROVE  /\ Log({})
         /\ Shows(stamp, {}, MaterializedColumns(FreshAttempt(stamp, stamp)))
  <1>1. Log({})
    BY FS_EmptySet DEF Log
  <1>2. MaterializeRun(stamp, {}) = FreshAttempt(stamp, stamp)
    BY FoldsNothing DEF MaterializeRun, FoldEvents
  <1>3. Shows(stamp, {}, MaterializedColumns(MaterializeRun(stamp, {})))
    BY <1>1, ReplayShows
  <1> QED BY <1>1, <1>2, <1>3

\* What a request that registers a producer leaves behind.
LEMMA RegisterStores ==
  ASSUME StoreInv, NEW who \in Principals, NEW metadata \in Metadata, NEW p \in Producers,
         NEW stamp \in Times, RegisterRun(who, metadata, p, stamp)
  PROVE  /\ EventsInv' /\ RunInv'
         /\ Joined(events)' = Joined(events)
         /\ p \notin DOMAIN producers /\ DOMAIN producers' = DOMAIN producers \cup {p}
         /\ \A q \in DOMAIN producers : producers'[q] = producers[q]
         /\ run' # None /\ run'.registered_at \in Int
         /\ run # None => run' = run /\ columns' = columns
  <1>1. p \in Int /\ stamp \in Int
    BY ProducersAssumption, TimesAssumption
  <1>2. p \notin DOMAIN producers
    BY DEF RegisterRun, StoreInv, RunInv
  <1>3. events' = events /\ pc' = pc
    BY DEF RegisterRun
  <1>4. producers' = [q \in DOMAIN producers \cup {p} |->
                         IF q = p THEN stamp ELSE producers[q]]
    BY DEF RegisterRun
  <1>5. Joined(events)' = Joined(events)
    BY <1>2, <1>3, <1>4, RegisterKeepsJoined DEF StoreInv
  <1>6. EventsInv'
    BY <1>1, <1>3, <1>4 DEF StoreInv, EventsInv, IsEvent
  <1>7. CASE run = None
    <2>1. run' = [owner |-> who, metadata |-> metadata, registered_at |-> stamp]
      BY <1>7 DEF RegisterRun
    <2>2. run' # None /\ run'.registered_at = stamp
      BY <2>1, RunsAssumption
    <2>3. columns' = MaterializedColumns(FreshAttempt(stamp, stamp))
      BY <1>7 DEF RegisterRun
    <2>4. Joined(events)' = {}
      BY <1>5, <1>7 DEF StoreInv, RunInv, Joined
    <2>5. Shows(run'.registered_at, Joined(events)', columns')
      BY <1>1, <2>2, <2>3, <2>4, FreshShows
    <2>6. RunInv'
      BY <1>1, <2>2, <2>5 DEF RunInv
    <2> QED BY <1>1, <1>2, <1>4, <1>5, <1>6, <1>7, <2>2, <2>6
  <1>8. CASE run # None
    <2>1. run' = run /\ columns' = columns
      BY <1>8 DEF RegisterRun
    <2>2. RunInv'
      BY <1>3, <1>5, <1>8, <2>1 DEF StoreInv, RunInv
    <2>3. run.registered_at \in Int
      BY <1>8 DEF StoreInv, RunInv
    <2> QED BY <1>2, <1>4, <1>5, <1>6, <1>8, <2>1, <2>2, <2>3
  <1> QED BY <1>7, <1>8

\* What a request that appends a batch leaves behind.
LEMMA AppendStores ==
  ASSUME StoreInv, NEW w \in Workers, NEW who \in Principals, NEW batch \in Batches,
         AppendEvents(w, who, batch)
  PROVE  /\ EventsInv' /\ RunInv'
         /\ run # None /\ run' = run /\ producers' = producers
         /\ Log(Joined(events)) /\ Log(Joined(events)')
         /\ Joined(events) \subseteq Joined(events)'
         /\ Joined(events)' # Joined(events) \/ columns' = columns
         /\ \A x \in Joined(events)' \ Joined(events) :
               x.producer \in DOMAIN producers /\ x.registered = producers[x.producer]
  <1>1. run # None
    BY DEF AppendEvents, StoreInv, RunInv
  <1>2. run.registered_at \in Int /\ Shows(run.registered_at, Joined(events), columns)
    BY <1>1 DEF StoreInv, RunInv
  <1>3. snapshot[w] = StoredProducers
    BY DEF AppendEvents, StoreInv, LockInv, Snapshots
  <1>4. \A e \in batch : e.producer \in DOMAIN producers
    BY <1>3 DEF AppendEvents, StoredProducers
  <1>5. PICK inserted \in Insertable(batch) :
            /\ events' = events \cup inserted
            /\ columns' =
                 IF inserted = {} THEN columns
                 ELSE ApplyEventBatch(run.registered_at, columns, snapshot[w],
                                      Joined(inserted), Joined(events \cup inserted))
    BY DEF AppendEvents
  <1>6. run' = run /\ producers' = producers
    BY DEF AppendEvents
  <1>7. Joined(events)' = Joined(events \cup inserted)
    BY <1>5, <1>6 DEF Joined, JoinedEvent
  <1>8. /\ IsFiniteSet(events \cup inserted)
        /\ \A e \in events \cup inserted : IsEvent(e) /\ e.producer \in DOMAIN producers
        /\ Log(Joined(events \cup inserted))
        /\ Joined(events \cup inserted) = Joined(events) \cup Joined(inserted)
        /\ Joined(events) \cap Joined(inserted) = {}
        /\ Log(Joined(events))
    BY <1>4, InsertKeeps
  <1>9. EventsInv'
    BY <1>5, <1>6, <1>8 DEF StoreInv, EventsInv, IsEvent
  <1>10. Shows(run.registered_at, Joined(events)', columns')
    <2>1. CASE inserted = {}
      BY <1>2, <1>5, <1>7, <2>1
    <2>2. CASE inserted # {}
      <3>1. Reports(snapshot[w], Joined(events))
        BY <1>3, StoredAreReported DEF StoreInv
      <3> QED BY <1>2, <1>5, <1>7, <1>8, <2>2, <3>1, BatchShows
    <2> QED BY <2>1, <2>2
  <1>11. RunInv'
    BY <1>1, <1>2, <1>6, <1>10 DEF RunInv
  <1>12. Joined(events)' # Joined(events) \/ columns' = columns
    <2>1. CASE inserted = {}
      BY <1>5, <2>1
    <2>2. CASE inserted # {}
      <3>1. Joined(inserted) # {}
        BY <2>2 DEF Joined
      <3> QED BY <1>7, <1>8, <3>1
    <2> QED BY <2>1, <2>2
  <1>13. ASSUME NEW x \in Joined(events)'
         PROVE  x.producer \in DOMAIN producers /\ x.registered = producers[x.producer]
    <2>1. PICK e \in events \cup inserted : x = JoinedEvent(e)
      BY <1>7 DEF Joined
    <2> QED BY <1>8, <2>1, JoinKeeps
  <1> QED BY <1>1, <1>6, <1>7, <1>8, <1>9, <1>11, <1>12, <1>13

\* Every request leaves a store whose columns show its events.
LEMMA StoreNext == StoreInv /\ [Next]_vars => StoreInv'
  <1> SUFFICES ASSUME StoreInv, [Next]_vars PROVE StoreInv'
    OBVIOUS
  <1>1. LockInv'
    BY LockNext DEF StoreInv
  <1>2. ASSUME NEW who \in Principals, NEW metadata \in Metadata, NEW p \in Producers,
               NEW stamp \in Times, RegisterRun(who, metadata, p, stamp)
        PROVE  StoreInv'
    BY <1>1, <1>2, RegisterStores DEF StoreInv
  <1>3. ASSUME NEW w \in Workers, NEW who \in Principals, NEW batch \in Batches,
               AppendEvents(w, who, batch)
        PROVE  StoreInv'
    BY <1>1, <1>3, AppendStores DEF StoreInv
  <1>4. ASSUME /\ UNCHANGED <<run, producers, events, columns>>
               /\ \A v \in Workers : run = None => pc'[v] = "idle"
        PROVE  StoreInv'
    <2>1. Joined(events)' = Joined(events)
      BY <1>4 DEF Joined, JoinedEvent
    <2>2. EventsInv'
      BY <1>4 DEF StoreInv, EventsInv, IsEvent
    <2>3. RunInv'
      BY <1>4, <2>1 DEF StoreInv, RunInv
    <2> QED BY <1>1, <2>2, <2>3 DEF StoreInv
  <1>5. ASSUME NEW w \in Workers, LockRun(w) \/ ReadProducers(w) \/ Rollback(w)
        PROVE  StoreInv'
    <2>1. UNCHANGED <<run, producers, events, columns>>
      BY <1>5 DEF LockRun, ReadProducers, Rollback
    <2>2. run # None
      BY <1>5 DEF LockRun, ReadProducers, Rollback, StoreInv, RunInv
    <2> QED BY <1>4, <2>1, <2>2
  <1>6. CASE UNCHANGED vars
    <2>1. UNCHANGED <<run, producers, events, columns, pc>>
      BY <1>6 DEF vars
    <2>2. \A v \in Workers : run = None => pc'[v] = "idle"
      BY <2>1 DEF StoreInv, RunInv
    <2> QED BY <1>4, <2>1, <2>2
  <1> QED BY <1>2, <1>3, <1>5, <1>6 DEF Next

\* The invariant of the store holds of every behaviour.
LEMMA StoreHolds == Spec => []StoreInv
  BY StoreInit, StoreNext, PTL DEF Spec

\* The stored rows of a run are a log.
LEMMA StoreIsLog ==
  ASSUME StoreInv
  PROVE  Log(Joined(events))
  <1>1. \A e, f \in events : SameKey(e, f) => e = f
    BY DEF StoreInv, LockInv, KeysAreUnique
  <1> QED BY <1>1, JoinedIsLog DEF StoreInv, EventsInv

\* However the events were batched, repeated and reordered, and whichever
\* producers took over, the columns list_runs returns are those of the full
\* replay get_run returns.
THEOREM StoredColumnsAlwaysMatchReplay == Spec => []StoredColumnsMatchReplay
  <1>1. StoreInv => StoredColumnsMatchReplay
    <2> SUFFICES ASSUME StoreInv, run # None
                 PROVE  columns = MaterializedColumns(
                                      MaterializeRun(run.registered_at, Joined(events)))
      BY DEF StoredColumnsMatchReplay
    <2>1. run.registered_at \in Int /\ Shows(run.registered_at, Joined(events), columns)
      BY DEF StoreInv, RunInv
    <2>2. Log(Joined(events))
      BY StoreIsLog
    <2> QED BY <2>1, <2>2, ReplayShows, ShownOnce
  <1> QED BY <1>1, StoreHolds, PTL

\* The document of a replay tells one story.
LEMMA OneStory ==
  ASSUME NEW at \in Int, NEW S, Log(S), NEW x, x = MaterializeRun(at, S)
  PROVE  /\ x.status = "failed" <=> x.failure # None
         /\ x.status = "blocked" <=> x.block # None
         /\ x.status = "running" <=> x.ended_at = None
  <1> DEFINE W == Writers("status", Attempt(S))
             e == LastEvent(W)
  <1>1. \A c \in LatestColumns : x[c] = LatestOr(c, Attempt(S), Unwritten(c))
    BY ReplayColumns
  <1>2. \A c \in {"ended_at", "failure", "block"} : Writers(c, Attempt(S)) = W
    BY DEF Writers, Writes
  <1>3. /\ x.status = IF W = {} THEN "running" ELSE Written("status", e)
        /\ x.failure = IF W = {} THEN None ELSE Written("failure", e)
        /\ x.block = IF W = {} THEN None ELSE Written("block", e)
        /\ x.ended_at = IF W = {} THEN None ELSE Written("ended_at", e)
    BY <1>1, <1>2 DEF LatestOr, Unwritten, LatestColumns
  <1>4. CASE W = {}
    BY <1>3, <1>4
  <1>5. CASE W # {}
    <2>1. W \in SUBSET S
      BY DEF Writers, Attempt
    <2>2. e \in S
      BY <1>5, <2>1, PartOfLog, LastExists DEF IsLast
    <2>3. e.timestamp # None /\ Mark(e) # None
      BY <2>2, NoneAssumption DEF Log, Mark
    <2>4. Outcome(e) \in {"failed", "blocked", "completed", None}
      BY DEF Outcome
    <2> HIDE DEF W, e
    <2> QED BY <1>3, <1>5, <2>3, <2>4, NoneAssumption DEF Written
  <1> QED BY <1>4, <1>5

\* A run document never has a failure without having failed, a block without
\* being blocked, or an end while it is running, whatever events its attempts
\* reported in whatever order.
THEOREM DocumentIsAlwaysConsistent == Spec => []DocumentIsConsistent
  <1>1. StoreInv => DocumentIsConsistent
    <2> SUFFICES ASSUME StoreInv, run # None PROVE DocumentIsConsistent
      BY DEF DocumentIsConsistent
    <2>1. run.registered_at \in Int
      BY DEF StoreInv, RunInv
    <2>2. PICK x : x = MaterializeRun(run.registered_at, Joined(events))
      OBVIOUS
    <2>3. Log(Joined(events))
      BY StoreIsLog
    <2>4. /\ x.status = "failed" <=> x.failure # None
          /\ x.status = "blocked" <=> x.block # None
          /\ x.status = "running" <=> x.ended_at = None
      BY <2>1, <2>2, <2>3, OneStory
    <2> QED BY <2>2, <2>4 DEF DocumentIsConsistent
  <1> QED BY <1>1, StoreHolds, PTL

\* More events never make a run look older.
LEMMA UpdatesGrow ==
  ASSUME NEW at \in Int, NEW E, NEW S, E \subseteq S, Log(E), Log(S),
         NEW x, Shows(at, E, x), NEW y, Shows(at, S, y)
  PROVE  y.updated_at >= x.updated_at
  <1>1. Stamps(E) \subseteq Stamps(S) /\ Registrations(E) \subseteq Registrations(S)
    BY DEF Stamps, Registrations
  <1>2. Stamps(S) \subseteq Int /\ Registrations(S) \subseteq Int
    BY StampsAreInt
  <1> QED BY <1>1, <1>2 DEF Shows, IsGreatest

\* updated_at of a registered run never decreases: late events, earlier
\* producers and a new attempt's reset only ever raise it.
THEOREM UpdatedAtNeverDecreasesAlways == Spec => UpdatedAtNeverDecreases
  <1>1. StoreInv /\ [Next]_vars =>
            [run # None => columns'.updated_at >= columns.updated_at]_vars
    <2> SUFFICES ASSUME StoreInv, Next, run # None
                 PROVE  columns'.updated_at >= columns.updated_at
      OBVIOUS
    <2>1. run.registered_at \in Int /\ Shows(run.registered_at, Joined(events), columns)
      BY DEF StoreInv, RunInv
    <2>2. columns.updated_at \in Int
      <3>1. Log(Joined(events))
        BY StoreIsLog
      <3> QED BY <2>1, <3>1, StampsAreInt DEF Shows, IsGreatest
    <2>3. ASSUME NEW w \in Workers, NEW who \in Principals, NEW batch \in Batches,
                 AppendEvents(w, who, batch)
          PROVE  columns'.updated_at >= columns.updated_at
      <3>1. /\ run' = run /\ RunInv'
            /\ Log(Joined(events)) /\ Log(Joined(events)')
            /\ Joined(events) \subseteq Joined(events)'
        BY <2>3, AppendStores
      <3>2. Shows(run.registered_at, Joined(events)', columns')
        BY <3>1 DEF RunInv
      <3> QED BY <2>1, <3>1, <3>2, UpdatesGrow
    <2>4. ASSUME columns' = columns PROVE columns'.updated_at >= columns.updated_at
      BY <2>2, <2>4
    <2>5. ASSUME NEW who \in Principals, NEW metadata \in Metadata, NEW p \in Producers,
                 NEW stamp \in Times, RegisterRun(who, metadata, p, stamp)
          PROVE  columns' = columns
      BY <2>5 DEF RegisterRun
    <2>6. ASSUME NEW w \in Workers, LockRun(w) \/ ReadProducers(w) \/ Rollback(w)
          PROVE  columns' = columns
      BY <2>6 DEF LockRun, ReadProducers, Rollback
    <2> QED BY <2>3, <2>4, <2>5, <2>6 DEF Next
  <1> QED BY <1>1, StoreHolds, PTL DEF Spec, UpdatedAtNeverDecreases

\* The store implements the ledger: each committed request registers a run, a
\* producer or new events, and what it shows is the ledger's view of the set
\* of events, defined without a fold, a batch or an order of arrival.
THEOREM StoreImplementsLedger == Spec => ImplementsLedger
  <1>1. Init => Ledger!Init
    BY DEF Init, Ledger!Init, Joined
  <1>2. StoreInv /\ StoreInv' /\ [Next]_vars => [Ledger!Next]_(Ledger!vars)
    <2> SUFFICES ASSUME StoreInv, StoreInv', [Next]_vars
                 PROVE  Ledger!Next \/ UNCHANGED Ledger!vars
      OBVIOUS
    <2>1. ASSUME run' # None, Log(Joined(events)')
          PROVE  columns' = Ledger!View(run'.registered_at, Joined(events)')
      <3>1. /\ run'.registered_at \in Int
            /\ Shows(run'.registered_at, Joined(events)', columns')
        BY <2>1 DEF StoreInv, RunInv
      <3>2. Shows(run'.registered_at, Joined(events)',
                  Ledger!View(run'.registered_at, Joined(events)'))
        BY <2>1, <3>1, ViewShows
      <3> QED BY <2>1, <3>1, <3>2, ShownOnce
    <2>2. run # None => run.registered_at # None
      BY NoneAssumption DEF StoreInv, RunInv
    <2>3. ASSUME NEW who \in Principals, NEW metadata \in Metadata, NEW p \in Producers,
                 NEW stamp \in Times, RegisterRun(who, metadata, p, stamp)
          PROVE  Ledger!Next
      <3>1. /\ Joined(events)' = Joined(events)
            /\ p \notin DOMAIN producers /\ DOMAIN producers' = DOMAIN producers \cup {p}
            /\ \A q \in DOMAIN producers : producers'[q] = producers[q]
            /\ run' # None /\ run'.registered_at \in Int
            /\ run # None => run' = run /\ columns' = columns
        BY <2>3, RegisterStores
      <3>2. CASE run = None
        <4>1. Joined(events) = {} /\ DOMAIN producers' = {p}
          BY <3>1, <3>2 DEF StoreInv, RunInv, Joined
        <4>2. Log(Joined(events)')
          BY <3>1, StoreIsLog
        <4>3. columns' = Ledger!View(run'.registered_at, {})
          BY <2>1, <3>1, <4>1, <4>2
        <4>4. Cardinality(DOMAIN producers') = 1
          BY <4>1, FS_Singleton
        <4>5. run'.registered_at # None
          BY <3>1, NoneAssumption
        <4>6. Ledger!RegisterRun
          BY <3>1, <3>2, <4>3, <4>4, <4>5, LedgerRules DEF Ledger!RegisterRun
        <4> QED BY <4>6 DEF Ledger!Next
      <3>3. CASE run # None
        <4>1. DOMAIN producers' \ DOMAIN producers = {p}
          BY <3>1
        <4>2. Cardinality(DOMAIN producers' \ DOMAIN producers) = 1
          BY <4>1, FS_Singleton
        <4>3. Ledger!RegisterProducer
          BY <2>2, <3>1, <3>3, <4>2, LedgerRules DEF Ledger!RegisterProducer
        <4> QED BY <4>3 DEF Ledger!Next
      <3> QED BY <3>2, <3>3
    <2>4. ASSUME NEW w \in Workers, NEW who \in Principals, NEW batch \in Batches,
                 AppendEvents(w, who, batch)
          PROVE  Ledger!Next \/ UNCHANGED Ledger!vars
      <3>1. /\ run # None /\ run' = run /\ producers' = producers
            /\ Log(Joined(events)) /\ Log(Joined(events)')
            /\ Joined(events) \subseteq Joined(events)'
            /\ Joined(events)' # Joined(events) \/ columns' = columns
            /\ \A x \in Joined(events)' \ Joined(events) :
                  x.producer \in DOMAIN producers /\ x.registered = producers[x.producer]
        BY <2>4, AppendStores
      <3>2. CASE Joined(events)' = Joined(events)
        BY <3>1, <3>2 DEF Ledger!vars
      <3>3. CASE Joined(events)' # Joined(events)
        <4>1. columns' = Ledger!View(run.registered_at, Joined(events)')
          BY <2>1, <3>1
        <4>2. \A x, y \in Joined(events)' : Ledger!Mark(x) = Ledger!Mark(y) => x = y
          BY <3>1 DEF Ledger!Mark, Log
        <4>3. Ledger!Record
          BY <2>2, <3>1, <3>3, <4>1, <4>2 DEF Ledger!Record
        <4> QED BY <4>3 DEF Ledger!Next
      <3> QED BY <3>2, <3>3
    <2>5. ASSUME UNCHANGED <<run, producers, events, columns>>
          PROVE  UNCHANGED Ledger!vars
      <3>1. Joined(events)' = Joined(events)
        BY <2>5 DEF Joined, JoinedEvent
      <3> QED BY <2>5, <3>1 DEF Ledger!vars
    <2>6. ASSUME NEW w \in Workers, LockRun(w) \/ ReadProducers(w) \/ Rollback(w)
          PROVE  UNCHANGED <<run, producers, events, columns>>
      BY <2>6 DEF LockRun, ReadProducers, Rollback
    <2>7. CASE UNCHANGED vars
      BY <2>5, <2>7 DEF vars
    <2> QED BY <2>3, <2>4, <2>5, <2>6, <2>7 DEF Next
  <1> QED BY <1>1, <1>2, StoreHolds, PTL DEF Spec, ImplementsLedger, Ledger!Spec
=============================================================================
