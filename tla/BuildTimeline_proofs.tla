------------------------- MODULE BuildTimeline_proofs -------------------------
(***************************************************************************)
(* What the timeline says of a build, for any stages, events and orders in *)
(* which the page reads the files: how it ended, which stages are open,    *)
(* what the phases, passes and segments are, and that a run stays          *)
(* comparable with what was read of it before.                             *)
(*                                                                         *)
(* The spans are a fold of the event file. A fold of one event more is a   *)
(* step from the fold (SpansOfAppend), so that the spans of the written    *)
(* file are a part of the state that each report advances, and a relation  *)
(* between them and the build is an invariant like another. TimelineInv    *)
(* relates the spans to the build's stack and outcome, FurtherInv the      *)
(* spans that were read to those that were written, and TimesInv the       *)
(* times of both to each other and to the clock.                           *)
(***************************************************************************)
EXTENDS BuildTimeline, FiniteSetTheorems, WellFoundedInduction, TLAPS

-----------------------------------------------------------------------------
(***************************************************************************)
(* Numbers.                                                                *)
(***************************************************************************)

\* A set that has 0 and, with every number, the next one, has all numbers.
LEMMA AllNumbers ==
  ASSUME NEW Good, 0 \in Good, \A k \in Nat : k \in Good => k + 1 \in Good
  PROVE  \A k \in Nat : k \in Good
  <1> DEFINE Bad == {k \in Nat : k \notin Good}
  <1> SUFFICES ASSUME Bad # {} PROVE FALSE
    OBVIOUS
  <1>1. PICK m \in Bad : \A k \in Bad : ~(<<k, m>> \in OpToRel(<, Nat))
    <2>1. Bad \subseteq Nat
      OBVIOUS
    <2> HIDE DEF Bad
    <2> QED BY <2>1, NatLessThanWellFounded, WFMin
  <1>2. m \in Nat /\ m # 0 /\ m \notin Good
    OBVIOUS
  <1>3. m - 1 \in Nat /\ (m - 1) + 1 = m
    BY <1>2
  <1>4. <<m - 1, m>> \in OpToRel(<, Nat)
    BY <1>2, <1>3 DEF OpToRel
  <1>5. m - 1 \in Good
    BY <1>1, <1>3, <1>4
  <1>6. (m - 1) + 1 \in Good
    BY <1>3, <1>5
  <1> QED BY <1>2, <1>3, <1>6

IsGreatest(m, X) == m \in X /\ \A x \in X : x <= m

\* The greatest element of a set is what Max gives.
LEMMA GreatestIsMax ==
  ASSUME NEW X, X \subseteq Int, NEW m, IsGreatest(m, X)
  PROVE  Max(X) = m
  <1>1. m \in X /\ \A y \in X : m >= y
    BY DEF IsGreatest
  <1>2. \A x \in X : (\A y \in X : x >= y) => x = m
    BY <1>1
  <1> QED BY <1>1, <1>2 DEF Max

\* A nonempty set of the first n numbers has a greatest element.
LEMMA GreatestExists ==
  ASSUME NEW n \in Nat, NEW X \in SUBSET (1..n), X # {}
  PROVE  IsGreatest(Max(X), X)
  <1> DEFINE Good == {k \in Nat : \A Y \in SUBSET (1..k) : Y # {} => \E m : IsGreatest(m, Y)}
  <1>1. 0 \in Good
    <2>1. \A Y \in SUBSET (1..0) : Y = {}
      OBVIOUS
    <2> QED BY <2>1
  <1>2. ASSUME NEW k \in Nat, k \in Good PROVE k + 1 \in Good
    <2> SUFFICES ASSUME NEW Y \in SUBSET (1..(k + 1)), Y # {} PROVE \E m : IsGreatest(m, Y)
      OBVIOUS
    <2>1. CASE k + 1 \in Y
      <3>1. IsGreatest(k + 1, Y)
        BY <2>1 DEF IsGreatest
      <3> QED BY <3>1
    <2>2. CASE k + 1 \notin Y
      <3>1. Y \in SUBSET (1..k)
        BY <2>2
      <3> QED BY <1>2, <3>1
    <2> QED BY <2>1, <2>2
  <1> HIDE DEF Good
  <1>3. n \in Good
    BY <1>1, <1>2, AllNumbers
  <1>4. PICK m : IsGreatest(m, X)
    BY <1>3 DEF Good
  <1>5. X \subseteq Int
    OBVIOUS
  <1> QED BY <1>4, <1>5, GreatestIsMax

-----------------------------------------------------------------------------
(***************************************************************************)
(* A fold of events, one event at a time.                                  *)
(***************************************************************************)

Rest(v, events, h, s) ==
    IF s = {} THEN NoSpans ELSE Advance(v, h[s \ {Max(s)}], events[Max(s)])

Folds(v, events, h, n) == h = [s \in SUBSET (1..n) |-> Rest(v, events, h, s)]

\* The spans are the value of the recursive function that the library chooses.
LEMMA SpansAreChosen ==
  ASSUME NEW v, NEW n \in Nat, NEW events, DOMAIN events = 1..n
  PROVE  SpansFrom(v, events) = (CHOOSE h : Folds(v, events, h, n))[1..n]
  BY DEF SpansFrom, FoldLeft, MapThenFoldSet, Folds, Rest

\* h folds the sets of the first k events.
Upto(v, events, h, n, k) ==
    \A s \in SUBSET (1..n) : s \subseteq 1..k => h[s] = Rest(v, events, h, s)

\* What is left of the first k + 1 numbers without the greatest is of the first k.
LEMMA WithoutGreatest ==
  ASSUME NEW n \in Nat, NEW k \in Nat, NEW s \in SUBSET (1..n), s \subseteq 1..(k + 1), s # {}
  PROVE  s \ {Max(s)} \in SUBSET (1..n) /\ s \ {Max(s)} \subseteq 1..k /\ Max(s) \in s
  <1>1. IsGreatest(Max(s), s)
    BY GreatestExists
  <1>2. PICK m : m = Max(s)
    OBVIOUS
  <1>3. m \in s /\ m \in 1..(k + 1) /\ \A x \in s : x <= m
    BY <1>1, <1>2 DEF IsGreatest
  <1>4. ASSUME NEW x \in s, x # m PROVE x \in 1..k
    <2>1. x \in 1..(k + 1) /\ x <= m
      BY <1>3
    <2> QED BY <1>3, <1>4, <2>1
  <1> QED BY <1>2, <1>3, <1>4

\* A function that folds the first k events gives one that folds one more.
LEMMA OneMore ==
  ASSUME NEW v, NEW events, NEW n \in Nat, NEW h, NEW k \in Nat, Upto(v, events, h, n, k)
  PROVE  Upto(v, events, [s \in SUBSET (1..n) |-> Rest(v, events, h, s)], n, k + 1)
  <1> DEFINE g == [s \in SUBSET (1..n) |-> Rest(v, events, h, s)]
  <1> SUFFICES ASSUME NEW s \in SUBSET (1..n), s \subseteq 1..(k + 1)
               PROVE  g[s] = Rest(v, events, g, s)
    BY DEF Upto
  <1>1. CASE s = {}
    BY <1>1 DEF Rest
  <1>2. CASE s # {}
    <2>1. s \ {Max(s)} \in SUBSET (1..n) /\ s \ {Max(s)} \subseteq 1..k
      BY <1>2, WithoutGreatest
    <2>2. h[s \ {Max(s)}] = Rest(v, events, h, s \ {Max(s)})
      BY <2>1 DEF Upto
    <2>3. g[s \ {Max(s)}] = h[s \ {Max(s)}]
      BY <2>1, <2>2
    <2>4. g[s] = Rest(v, events, h, s)
      OBVIOUS
    <2> HIDE DEF g
    <2> QED BY <1>2, <2>3, <2>4 DEF Rest
  <1> QED BY <1>1, <1>2

\* There is a function that folds the first n events.
LEMMA FoldExists ==
  ASSUME NEW v, NEW events, NEW n \in Nat
  PROVE  \E h : Folds(v, events, h, n)
  <1> DEFINE Good == {k \in Nat : \E h : Upto(v, events, h, n, k)}
  <1>1. 0 \in Good
    <2> DEFINE h == [s \in SUBSET (1..n) |-> NoSpans]
    <2>1. ASSUME NEW s \in SUBSET (1..n), s \subseteq 1..0 PROVE h[s] = Rest(v, events, h, s)
      <3>1. s = {}
        BY <2>1
      <3> QED BY <3>1 DEF Rest
    <2>2. Upto(v, events, h, n, 0)
      BY <2>1 DEF Upto
    <2> QED BY <2>2
  <1>2. ASSUME NEW k \in Nat, k \in Good PROVE k + 1 \in Good
    <2>1. PICK h : Upto(v, events, h, n, k)
      BY <1>2
    <2>2. \E g : Upto(v, events, g, n, k + 1)
      BY <2>1, OneMore
    <2> QED BY <2>2
  <1>3. n \in Good
    <2> HIDE DEF Good
    <2> QED BY <1>1, <1>2, AllNumbers
  <1>4. PICK h : Upto(v, events, h, n, n)
    BY <1>3
  <1> DEFINE g == [s \in SUBSET (1..n) |-> Rest(v, events, h, s)]
  <1>5. \A s \in SUBSET (1..n) : g[s] = h[s]
    BY <1>4 DEF Upto
  <1>6. ASSUME NEW s \in SUBSET (1..n)
        PROVE  Rest(v, events, h, s) = Rest(v, events, g, s)
    <2>1. s \ {Max(s)} \in SUBSET (1..n)
      OBVIOUS
    <2>2. g[s \ {Max(s)}] = h[s \ {Max(s)}]
      BY <1>5, <2>1
    <2> HIDE DEF g
    <2> QED BY <2>2 DEF Rest
  <1>7. g = [s \in SUBSET (1..n) |-> Rest(v, events, g, s)]
    BY <1>6
  <1>8. Folds(v, events, g, n)
    <2> HIDE DEF g
    <2> QED BY <1>7 DEF Folds
  <1> QED BY <1>8

\* Two functions fold the first k events alike.
Same(h, g, n, k) == \A s \in SUBSET (1..n) : s \subseteq 1..k => h[s] = g[s]

\* What is folded does not depend on the events that follow.
LEMMA FoldsAgree ==
  ASSUME NEW v, NEW n \in Nat, NEW m \in Nat, n <= m, NEW h, NEW g, NEW events, NEW more,
         \A i \in 1..n : events[i] = more[i],
         Folds(v, events, h, n), Folds(v, more, g, m)
  PROVE  h[1..n] = g[1..n]
  <1> DEFINE Good == {k \in Nat : Same(h, g, n, k)}
  <1>1. \A s \in SUBSET (1..n) : /\ h[s] = Rest(v, events, h, s)
                                 /\ g[s] = Rest(v, more, g, s)
    <2>1. 1..n \subseteq 1..m
      OBVIOUS
    <2>2. \A s \in SUBSET (1..n) : s \in SUBSET (1..m)
      BY <2>1
    <2> QED BY <2>2 DEF Folds
  <1>2. Same(h, g, n, 0)
    <2>1. \A s \in SUBSET (1..n) : s \subseteq 1..0 => s = {}
      <3>1. 1..0 = {}
        OBVIOUS
      <3> QED BY <3>1
    <2>2. {} \in SUBSET (1..n)
      OBVIOUS
    <2>3. h[{}] = g[{}]
      BY <1>1, <2>2 DEF Rest
    <2> QED BY <2>1, <2>3 DEF Same
  <1>3. ASSUME NEW k \in Nat, Same(h, g, n, k) PROVE Same(h, g, n, k + 1)
    <2> SUFFICES ASSUME NEW s \in SUBSET (1..n), s \subseteq 1..(k + 1) PROVE h[s] = g[s]
      BY DEF Same
    <2>1. CASE s = {}
      BY <1>1, <2>1 DEF Rest
    <2>2. CASE s # {}
      <3>1. /\ s \ {Max(s)} \in SUBSET (1..n) /\ s \ {Max(s)} \subseteq 1..k
            /\ Max(s) \in 1..n
        BY <2>2, WithoutGreatest
      <3>2. h[s \ {Max(s)}] = g[s \ {Max(s)}] /\ events[Max(s)] = more[Max(s)]
        BY <1>3, <3>1 DEF Same
      <3> QED BY <1>1, <2>2, <3>2 DEF Rest
    <2> QED BY <2>1, <2>2
  <1>4. n \in Good
    <2>1. 0 \in Good /\ \A k \in Nat : k \in Good => k + 1 \in Good
      BY <1>2, <1>3
    <2> HIDE DEF Good
    <2> QED BY <2>1, AllNumbers
  <1> QED BY <1>4 DEF Same

\* Of no events there are no spans.
LEMMA SpansOfNothing ==
  ASSUME NEW v
  PROVE  SpansFrom(v, <<>>) = NoSpans
  <1>1. DOMAIN <<>> = 1..0
    OBVIOUS
  <1>2. PICK h : h = (CHOOSE k : Folds(v, <<>>, k, 0))
    OBVIOUS
  <1>3. Folds(v, <<>>, h, 0)
    BY <1>2, FoldExists
  <1>4. 1..0 = {}
    OBVIOUS
  <1>5. h[{}] = NoSpans
    BY <1>3, <1>4 DEF Folds, Rest
  <1> QED BY <1>1, <1>2, <1>4, <1>5, SpansAreChosen

\* One event more advances them.
LEMMA SpansOfAppend ==
  ASSUME NEW v, NEW S, NEW events \in Seq(S), NEW e \in S
  PROVE  SpansFrom(v, Append(events, e)) = Advance(v, SpansFrom(v, events), e)
  <1>1. PICK n \in Nat : n = Len(events) /\ DOMAIN events = 1..n
    OBVIOUS
  <1>2. PICK more : more = Append(events, e)
    OBVIOUS
  <1>3. /\ DOMAIN more = 1..(n + 1) /\ more[n + 1] = e
        /\ \A i \in 1..n : events[i] = more[i]
    BY <1>1, <1>2
  <1>4. PICK h : h = (CHOOSE k : Folds(v, events, k, n))
    OBVIOUS
  <1>5. PICK g : g = (CHOOSE k : Folds(v, more, k, n + 1))
    OBVIOUS
  <1>6. Folds(v, events, h, n) /\ Folds(v, more, g, n + 1)
    <2>1. \E k : Folds(v, events, k, n)
      BY FoldExists
    <2>2. \E k : Folds(v, more, k, n + 1)
      <3>1. n + 1 \in Nat
        OBVIOUS
      <3> QED BY <3>1, FoldExists
    <2> QED BY <1>4, <1>5, <2>1, <2>2
  <1>7. h[1..n] = g[1..n]
    <2>1. n <= n + 1 /\ n + 1 \in Nat
      OBVIOUS
    <2> QED BY <1>3, <1>6, <2>1, FoldsAgree
  <1>8. Max(1..(n + 1)) = n + 1 /\ (1..(n + 1)) \ {n + 1} = 1..n /\ 1..(n + 1) # {}
    <2>1. IsGreatest(n + 1, 1..(n + 1)) /\ 1..(n + 1) \subseteq Int
      BY DEF IsGreatest
    <2> QED BY <2>1, GreatestIsMax
  <1>9. g[1..(n + 1)] = Advance(v, g[1..n], e)
    <2>1. g[1..(n + 1)] = Rest(v, more, g, 1..(n + 1))
      BY <1>6 DEF Folds
    <2> QED BY <1>3, <1>8, <2>1 DEF Rest
  <1>10. SpansFrom(v, events) = h[1..n]
    BY <1>1, <1>4, SpansAreChosen
  <1>11. SpansFrom(v, more) = g[1..(n + 1)]
    <2>1. n + 1 \in Nat
      OBVIOUS
    <2> QED BY <1>3, <1>5, <2>1, SpansAreChosen
  <1> QED BY <1>2, <1>7, <1>9, <1>10, <1>11

-----------------------------------------------------------------------------
(***************************************************************************)
(* The spans of a build that nests its stages, as Lifecycle changes them.  *)
(***************************************************************************)

SpanType ==
    [stage : Stages, depth : Nat, start : Int, end : Nat \cup {None},
     status : {"running", "completed", "failed"}, refused : BOOLEAN]

IsSpans(F) ==
    /\ F = [spans |-> F.spans, open |-> F.open, terminal |-> F.terminal]
    /\ F.spans \in Seq(SpanType)
    /\ F.open \in Seq(Nat)

\* The open spans are the stages of the stack, in their order and at their depth.
Nested(F, stack) ==
    /\ Len(F.open) = Len(stack)
    /\ \A k \in 1..Len(stack) :
          /\ F.open[k] \in DOMAIN F.spans
          /\ F.spans[F.open[k]].stage = stack[k]
          /\ F.spans[F.open[k]].end = None
          /\ F.spans[F.open[k]].depth = k - 1
    /\ \A k, l \in 1..Len(stack) : k < l => F.open[k] < F.open[l]
    /\ \A i \in DOMAIN F.spans :
          F.spans[i].end = None => \E k \in 1..Len(stack) : F.open[k] = i

\* A span is added, or one is replaced by another of its stage.
Adds(F, G, x) == G.spans = Append(F.spans, x) /\ G.terminal = F.terminal
Replaces(F, G, i, x) ==
    /\ i \in DOMAIN F.spans /\ x.stage = F.spans[i].stage
    /\ G.spans = [F.spans EXCEPT ![i] = x] /\ G.terminal = F.terminal

\* The greater of two integers is an integer.
LEMMA MaxOfTwo ==
  ASSUME NEW a \in Int, NEW b \in Int
  PROVE  Max({a, b}) \in Int
  <1>1. CASE a <= b
    <2>1. IsGreatest(b, {a, b}) /\ {a, b} \subseteq Int
      BY <1>1 DEF IsGreatest
    <2>2. Max({a, b}) = b
      BY <2>1, GreatestIsMax
    <2> QED BY <2>2
  <1>2. CASE b < a
    <2>1. IsGreatest(a, {a, b}) /\ {a, b} \subseteq Int
      BY <1>2 DEF IsGreatest
    <2>2. Max({a, b}) = a
      BY <2>1, GreatestIsMax
    <2> QED BY <2>2
  <1> QED BY <1>1, <1>2

\* A stage that starts is the innermost one.
LEMMA StartNests ==
  ASSUME NEW F, IsSpans(F), NEW stack \in Seq(Stages), Nested(F, stack),
         NEW s \in Stages, NEW e \in EventType, e.stage = s, e.status = "started"
  PROVE  LET G == Lifecycle(F, e)
         IN  /\ IsSpans(G) /\ Nested(G, Append(stack, s))
             /\ \E x \in SpanType : Adds(F, G, x) /\ x.status = "running" /\ ~x.refused
  <1> DEFINE G == Lifecycle(F, e)
  <1>1. PICK x : x = NewSpan(e, Len(F.open), e.time)
    OBVIOUS
  <1>2. x \in SpanType /\ x.stage = s /\ x.depth = Len(stack) /\ x.end = None
        /\ x.status = "running" /\ ~x.refused
    BY <1>1 DEF NewSpan, SpanType, EventType, IsSpans, Nested
  <1>3. G = [F EXCEPT !.spans = Append(F.spans, x), !.open = Append(F.open, Len(F.spans) + 1)]
    BY <1>1, StagesAssumption DEF Lifecycle
  <1>4. /\ G = [spans |-> G.spans, open |-> G.open, terminal |-> G.terminal]
        /\ G.spans = Append(F.spans, x) /\ G.open = Append(F.open, Len(F.spans) + 1)
        /\ G.terminal = F.terminal
    BY <1>3 DEF IsSpans
  <1> HIDE DEF G
  <1>5. IsSpans(G)
    BY <1>2, <1>4 DEF IsSpans
  <1>6. Nested(G, Append(stack, s))
    <2>1. /\ Len(F.spans) \in Nat /\ Len(F.open) \in Nat /\ Len(F.open) = Len(stack)
          /\ DOMAIN F.spans = 1..Len(F.spans)
      BY DEF IsSpans, Nested
    <2>2. /\ Len(Append(stack, s)) = Len(stack) + 1 /\ Len(G.open) = Len(stack) + 1
          /\ \A k \in 1..Len(stack) : Append(stack, s)[k] = stack[k] /\ G.open[k] = F.open[k]
          /\ Append(stack, s)[Len(stack) + 1] = s
          /\ G.open[Len(stack) + 1] = Len(F.spans) + 1
      BY <1>4, <2>1 DEF IsSpans
    <2>3. /\ DOMAIN G.spans = 1..(Len(F.spans) + 1)
          /\ \A i \in DOMAIN F.spans : G.spans[i] = F.spans[i]
          /\ G.spans[Len(F.spans) + 1] = x
      BY <1>4, <2>1 DEF IsSpans
    <2>4. ASSUME NEW k \in 1..(Len(stack) + 1)
          PROVE  /\ G.open[k] \in DOMAIN G.spans
                 /\ G.spans[G.open[k]].stage = Append(stack, s)[k]
                 /\ G.spans[G.open[k]].end = None
                 /\ G.spans[G.open[k]].depth = k - 1
      <3>1. CASE k = Len(stack) + 1
        BY <1>2, <2>1, <2>2, <2>3, <3>1
      <3>2. CASE k \in 1..Len(stack)
        <4>1. /\ F.open[k] \in DOMAIN F.spans
              /\ F.spans[F.open[k]].stage = stack[k]
              /\ F.spans[F.open[k]].end = None
              /\ F.spans[F.open[k]].depth = k - 1
          BY <3>2 DEF Nested
        <4>2. G.open[k] = F.open[k] /\ Append(stack, s)[k] = stack[k]
          BY <2>2, <3>2
        <4>3. G.spans[G.open[k]] = F.spans[F.open[k]] /\ G.open[k] \in DOMAIN G.spans
          BY <2>1, <2>3, <4>1, <4>2
        <4> QED BY <4>1, <4>2, <4>3
      <3> QED BY <2>1, <3>1, <3>2
    <2>5. ASSUME NEW k \in 1..(Len(stack) + 1), NEW l \in 1..(Len(stack) + 1), k < l
          PROVE  G.open[k] < G.open[l]
      <3>1. k \in 1..Len(stack) /\ F.open[k] \in 1..Len(F.spans)
        BY <2>1, <2>5 DEF Nested
      <3>2. CASE l = Len(stack) + 1
        BY <2>1, <2>2, <3>1, <3>2
      <3>3. CASE l \in 1..Len(stack)
        BY <2>2, <2>5, <3>1, <3>3 DEF Nested
      <3> QED BY <2>1, <3>2, <3>3
    <2>6. ASSUME NEW i \in DOMAIN G.spans, G.spans[i].end = None
          PROVE  \E k \in 1..(Len(stack) + 1) : G.open[k] = i
      <3>1. CASE i = Len(F.spans) + 1
        BY <2>1, <2>2, <3>1
      <3>2. CASE i \in DOMAIN F.spans
        <4>1. F.spans[i].end = None
          BY <2>3, <2>6, <3>2
        <4>2. PICK k \in 1..Len(stack) : F.open[k] = i
          BY <3>2, <4>1 DEF Nested
        <4>3. k \in 1..(Len(stack) + 1) /\ G.open[k] = i
          BY <2>1, <2>2, <4>2
        <4> QED BY <4>3
      <3> QED BY <2>1, <2>3, <3>1, <3>2
    <2> QED BY <2>2, <2>4, <2>5, <2>6 DEF Nested
  <1>7. Adds(F, G, x)
    BY <1>4 DEF Adds
  <1> QED BY <1>2, <1>5, <1>6, <1>7 DEF G

\* A stage that only reports its end is closed from its beginning.
LEMMA ObserveNests ==
  ASSUME NEW F, IsSpans(F), NEW stack \in Seq(Stages), Nested(F, stack),
         NEW e \in EventType, e.stage \in Stages, e.status = "completed", ~e.blocking,
         \A k \in 1..Len(stack) : stack[k] # e.stage
  PROVE  LET G == Lifecycle(F, e)
         IN  /\ IsSpans(G) /\ Nested(G, stack)
             /\ \E x \in SpanType : /\ Adds(F, G, x)
                                    /\ x.status = "completed" /\ ~x.refused /\ x.end # None
  <1> DEFINE G == Lifecycle(F, e)
             began == IF e.elapsed = None THEN e.time ELSE Max({0, e.time - e.elapsed})
  <1>1. OpenSpan(F, e.stage) = 0
    <2>1. DOMAIN F.open = 1..Len(stack)
      BY DEF IsSpans, Nested
    <2>2. \A k \in DOMAIN F.open : F.spans[F.open[k]].stage # e.stage
      BY <2>1 DEF Nested
    <2>3. {k \in DOMAIN F.open : F.spans[F.open[k]].stage = e.stage} = {}
      BY <2>2
    <2> QED BY <2>3 DEF OpenSpan
  <1>2. PICK x : x = ClosedBy(NewSpan(e, Len(F.open), began), e)
    OBVIOUS
  <1>3. began \in Int
    BY MaxOfTwo DEF EventType
  <1>4. x \in SpanType /\ x.status = "completed" /\ ~x.refused /\ x.end # None
    <2> HIDE DEF began
    <2>1. x = [stage |-> e.stage, depth |-> Len(F.open), start |-> began, end |-> e.time,
               status |-> "completed", refused |-> FALSE]
      BY <1>2 DEF NewSpan, ClosedBy, EventType
    <2>2. e.time \in Nat /\ e.time # None /\ Len(F.open) \in Nat
      BY NoneAssumption DEF EventType, IsSpans
    <2> QED BY <1>3, <2>1, <2>2 DEF SpanType
  <1>5. G = [F EXCEPT !.spans = Append(F.spans, x)]
    BY <1>1, <1>2, StagesAssumption DEF Lifecycle
  <1>6. /\ G = [spans |-> G.spans, open |-> G.open, terminal |-> G.terminal]
        /\ G.spans = Append(F.spans, x) /\ G.open = F.open /\ G.terminal = F.terminal
    BY <1>5 DEF IsSpans
  <1> HIDE DEF G
  <1>7. IsSpans(G)
    BY <1>4, <1>6 DEF IsSpans
  <1>8. Nested(G, stack)
    <2>1. /\ DOMAIN F.spans = 1..Len(F.spans) /\ Len(F.spans) \in Nat
          /\ DOMAIN G.spans = 1..(Len(F.spans) + 1)
          /\ \A i \in DOMAIN F.spans : G.spans[i] = F.spans[i]
          /\ G.spans[Len(F.spans) + 1] = x
      BY <1>6 DEF IsSpans
    <2>2. \A i \in DOMAIN G.spans : G.spans[i].end = None => i \in DOMAIN F.spans
      BY <1>4, <2>1
    <2> QED BY <1>6, <2>1, <2>2 DEF Nested
  <1>9. Adds(F, G, x)
    BY <1>6 DEF Adds
  <1> QED BY <1>4, <1>7, <1>8, <1>9 DEF G

\* The innermost stage is closed by its name.
LEMMA FinishNests ==
  ASSUME NEW F, IsSpans(F), NEW stack \in Seq(Stages), stack # <<>>, Nested(F, stack),
         NEW e \in EventType, e.stage = Last(stack), e.status \in {"completed", "failed"}
  PROVE  LET G == Lifecycle(F, e)
             i == F.open[Len(stack)]
         IN  /\ IsSpans(G) /\ Nested(G, Front(stack))
             /\ i \in DOMAIN F.spans /\ F.spans[i].end = None
             /\ \A j \in DOMAIN F.spans : F.spans[j].end = None => j <= i
             /\ F.spans[i].stage = Last(stack)
             /\ Replaces(F, G, i, ClosedBy(F.spans[i], e))
  <1> DEFINE G == Lifecycle(F, e)
  <1>1. PICK n : n = Len(stack)
    OBVIOUS
  <1>2. /\ n \in Nat /\ n > 0 /\ Len(F.open) = n /\ DOMAIN F.open = 1..n
        /\ Last(stack) = stack[n] /\ stack[n] \in Stages
    BY <1>1 DEF Last, IsSpans, Nested
  <1>3. PICK i : i = F.open[n]
    OBVIOUS
  <1>4. PICK x : x = ClosedBy(F.spans[i], e)
    OBVIOUS
  <1>5. /\ i \in DOMAIN F.spans /\ F.spans[i] \in SpanType
        /\ F.spans[i].stage = stack[n] /\ F.spans[i].end = None
    BY <1>1, <1>2, <1>3 DEF IsSpans, Nested
  <1>6. x \in SpanType /\ x.stage = F.spans[i].stage /\ x.end # None
    BY <1>4, <1>5, NoneAssumption DEF ClosedBy, SpanType, EventType
  <1>7. OpenSpan(F, e.stage) = n
    <2> DEFINE positions == {k \in DOMAIN F.open : F.spans[F.open[k]].stage = e.stage}
    <2>1. IsGreatest(n, positions) /\ positions \subseteq Int
      BY <1>2, <1>3, <1>5 DEF IsGreatest
    <2>2. positions # {}
      BY <2>1 DEF IsGreatest
    <2>3. OpenSpan(F, e.stage) = Max(positions)
      BY <2>2 DEF OpenSpan
    <2> HIDE DEF positions
    <2> QED BY <2>1, <2>3, GreatestIsMax
  <1>8. G = [F EXCEPT !.spans = [F.spans EXCEPT ![i] = x], !.open = RemoveAt(F.open, n)]
    <2>1. e.stage \notin Markers /\ e.status # "started"
      BY <1>2, StagesAssumption
    <2>2. G = [F EXCEPT !.spans[F.open[n]] = ClosedBy(@, e), !.open = RemoveAt(@, n)]
      BY <1>2, <1>7, <2>1 DEF Lifecycle
    <2> QED BY <1>3, <1>4, <1>5, <2>2 DEF IsSpans
  <1>9. RemoveAt(F.open, n) = Front(F.open)
    BY <1>2 DEF RemoveAt, Front, IsSpans
  <1>10. /\ G = [spans |-> G.spans, open |-> G.open, terminal |-> G.terminal]
         /\ G.spans = [F.spans EXCEPT ![i] = x] /\ G.open = Front(F.open)
         /\ G.terminal = F.terminal
    BY <1>8, <1>9 DEF IsSpans
  <1> HIDE DEF G
  <1>11. /\ G.spans \in Seq(SpanType) /\ DOMAIN G.spans = DOMAIN F.spans
         /\ G.spans[i] = x /\ \A j \in DOMAIN F.spans : j # i => G.spans[j] = F.spans[j]
    BY <1>5, <1>6, <1>10 DEF IsSpans
  <1>12. /\ G.open \in Seq(Nat) /\ Len(G.open) = n - 1
         /\ \A k \in 1..(n - 1) : G.open[k] = F.open[k]
    BY <1>2, <1>10 DEF Front, IsSpans
  <1>13. /\ Front(stack) \in Seq(Stages) /\ Len(Front(stack)) = n - 1
         /\ \A k \in 1..(n - 1) : Front(stack)[k] = stack[k]
    BY <1>1, <1>2 DEF Front
  <1>14. IsSpans(G)
    BY <1>10, <1>11, <1>12 DEF IsSpans
  <1>15. \A k \in 1..n : F.open[k] = i <=> k = n
    <2>1. n \in 1..n
      BY <1>2
    <2>2. ASSUME NEW k \in 1..n, k # n PROVE F.open[k] # i
      <3>1. k < n
        BY <1>2, <2>2
      <3>2. F.open[k] < F.open[n]
        BY <1>1, <2>1, <3>1 DEF Nested
      <3>3. F.open[k] \in Nat /\ F.open[n] \in Nat
        BY <1>2, <2>1 DEF IsSpans
      <3> QED BY <1>3, <3>2, <3>3
    <2> QED BY <1>3, <2>2
  <1>16. Nested(G, Front(stack))
    <2>1. ASSUME NEW k \in 1..(n - 1)
          PROVE  /\ G.open[k] \in DOMAIN G.spans
                 /\ G.spans[G.open[k]] = F.spans[F.open[k]]
                 /\ G.spans[G.open[k]].stage = stack[k]
                 /\ G.spans[G.open[k]].end = None
                 /\ G.spans[G.open[k]].depth = k - 1
      <3>1. k \in 1..n /\ k # n
        BY <1>2
      <3>2. PICK j : j = F.open[k]
        OBVIOUS
      <3>3. j # i
        BY <1>15, <3>1, <3>2
      <3>4. /\ j \in DOMAIN F.spans /\ F.spans[j].stage = stack[k]
            /\ F.spans[j].end = None /\ F.spans[j].depth = k - 1
        BY <1>1, <3>1, <3>2 DEF Nested
      <3>5. G.open[k] = j /\ j \in DOMAIN G.spans /\ G.spans[j] = F.spans[j]
        BY <1>11, <1>12, <3>2, <3>3, <3>4
      <3> QED BY <3>2, <3>4, <3>5
    <2>2. ASSUME NEW k \in 1..(n - 1), NEW l \in 1..(n - 1), k < l
          PROVE  G.open[k] < G.open[l]
      <3>1. k \in 1..n /\ l \in 1..n
        BY <1>2
      <3> QED BY <1>1, <1>12, <2>2, <3>1 DEF Nested
    <2>3. ASSUME NEW j \in DOMAIN G.spans, G.spans[j].end = None
          PROVE  \E k \in 1..(n - 1) : G.open[k] = j
      <3>1. j # i /\ j \in DOMAIN F.spans /\ F.spans[j].end = None
        BY <1>6, <1>11, <2>3
      <3>2. PICK k \in 1..n : F.open[k] = j
        BY <1>1, <3>1 DEF Nested
      <3>3. k \in 1..(n - 1)
        BY <1>2, <1>15, <3>1, <3>2
      <3> QED BY <1>12, <3>2, <3>3
    <2> QED BY <1>12, <1>13, <2>1, <2>2, <2>3 DEF Nested
  <1>17. ASSUME NEW j \in DOMAIN F.spans, F.spans[j].end = None PROVE j <= i
    <2>1. PICK k \in 1..n : F.open[k] = j
      BY <1>1, <1>17 DEF Nested
    <2>2. CASE k = n
      BY <1>3, <2>1, <2>2, <1>2 DEF IsSpans
    <2>3. CASE k < n
      <3>1. n \in 1..n /\ n = Len(stack)
        BY <1>1, <1>2
      <3>2. F.open[k] < F.open[n]
        BY <2>3, <3>1 DEF Nested
      <3>3. F.open[k] \in Nat /\ F.open[n] \in Nat
        BY <1>2, <3>1 DEF IsSpans
      <3> QED BY <1>3, <2>1, <3>2, <3>3
    <2> QED BY <1>2, <2>2, <2>3
  <1>18. Replaces(F, G, i, x)
    BY <1>5, <1>6, <1>10 DEF Replaces
  <1> QED BY <1>1, <1>2, <1>3, <1>4, <1>5, <1>14, <1>16, <1>17, <1>18 DEF G

-----------------------------------------------------------------------------
(***************************************************************************)
(* The spans of a build that moves from stage to stage, as Transition      *)
(* changes them.                                                           *)
(***************************************************************************)

Failed(F) == {i \in DOMAIN F.spans : F.spans[i].status = "failed"}
Opened(F) == {i \in DOMAIN F.spans : F.spans[i].end = None}
NoneRefused(F) == \A i \in DOMAIN F.spans : ~F.spans[i].refused

\* Only the last span is open, and it is of the stage that was entered.
Entered(F, stack) ==
    /\ stack = <<>> => F.open = <<>>
    /\ stack # <<>> =>
          /\ Len(F.spans) > 0 /\ F.open = <<Len(F.spans)>>
          /\ stack = <<F.spans[Len(F.spans)].stage>>
          /\ F.spans[Len(F.spans)].end = None
    /\ \A i \in DOMAIN F.spans : F.spans[i].end = None => stack # <<>> /\ i = Len(F.spans)

\* The spans once the stage that is open, if one is, is left.
LeftSpans(F, e) ==
    IF F.open # <<>> THEN [F.spans EXCEPT ![Len(F.spans)] = Left(@, e.time)] ELSE F.spans

\* All spans are ended, and are otherwise the spans of F.
AllEnded(F, left) ==
    /\ left \in Seq(SpanType) /\ Len(left) = Len(F.spans) /\ DOMAIN left = DOMAIN F.spans
    /\ \A i \in DOMAIN left : /\ left[i].end # None /\ left[i].stage = F.spans[i].stage
                              /\ left[i].status = "failed" <=> F.spans[i].status = "failed"
                              /\ left[i].refused = F.spans[i].refused

\* A stage that is left ends; the others stay.
LEMMA LeaveEnds ==
  ASSUME NEW F, IsSpans(F), NEW stack, Entered(F, stack), NEW e \in EventType
  PROVE  AllEnded(F, LeftSpans(F, e))
  <1>0. PICK left : left = LeftSpans(F, e)
    OBVIOUS
  <1> SUFFICES AllEnded(F, left)
    BY <1>0
  <1>1. Len(F.spans) \in Nat /\ DOMAIN F.spans = 1..Len(F.spans) /\ F.spans \in Seq(SpanType)
    BY DEF IsSpans
  <1>2. CASE F.open = <<>>
    <2>1. \A i \in DOMAIN F.spans : F.spans[i].end # None
      BY <1>2 DEF Entered
    <2>2. left = F.spans
      BY <1>2, <1>0 DEF LeftSpans
    <2> QED BY <1>1, <2>1, <2>2 DEF AllEnded
  <1>3. CASE F.open # <<>>
    <2>1. PICK n : n = Len(F.spans)
      OBVIOUS
    <2>2. n \in DOMAIN F.spans /\ F.spans[n] \in SpanType
      BY <1>1, <1>3, <2>1 DEF Entered
    <2>3. PICK x : x = Left(F.spans[n], e.time)
      OBVIOUS
    <2>4. /\ x \in SpanType /\ x.end # None /\ x.stage = F.spans[n].stage
          /\ x.status = "failed" <=> F.spans[n].status = "failed"
          /\ x.refused = F.spans[n].refused
      BY <2>2, <2>3, NoneAssumption DEF Left, SpanType, EventType
    <2>5. left = [F.spans EXCEPT ![n] = x]
      BY <1>3, <1>0, <2>1, <2>3 DEF LeftSpans
    <2>6. left \in Seq(SpanType) /\ Len(left) = Len(F.spans) /\ DOMAIN left = DOMAIN F.spans
      BY <1>1, <2>2, <2>4, <2>5
    <2>7. \A j \in DOMAIN left : left[j] = IF j = n THEN x ELSE F.spans[j]
      BY <2>5, <2>6
    <2>8. \A j \in DOMAIN F.spans : j # n => F.spans[j].end # None
      BY <2>1 DEF Entered
    <2> QED BY <2>4, <2>6, <2>7, <2>8 DEF AllEnded
  <1> QED BY <1>2, <1>3

\* Entering a stage leaves the one before, or stays in it.
LEMMA EnterMoves ==
  ASSUME NEW F, IsSpans(F), NEW stack \in Seq(Stages), Entered(F, stack),
         NEW e \in EventType, e.stage \in Stages, e.status = "running"
  PROVE  LET G == Transition(F, e)
         IN  /\ IsSpans(G) /\ Entered(G, <<e.stage>>) /\ G.terminal = F.terminal
             /\ Failed(F) = {} => Failed(G) = {}
             /\ NoneRefused(F) => NoneRefused(G)
  <1> DEFINE G == Transition(F, e)
  <1>1. PICK n : n = Len(F.spans)
    OBVIOUS
  <1>2. n \in Nat /\ DOMAIN F.spans = 1..n /\ F.spans \in Seq(SpanType)
    BY <1>1 DEF IsSpans
  <1>3. e.stage \notin Markers
    BY StagesAssumption
  <1>4. CASE F.open # <<>> /\ F.spans[n].stage = e.stage
    <2>1. stack # <<>> /\ n > 0 /\ F.open = <<n>> /\ F.spans[n].end = None
      BY <1>1, <1>4 DEF Entered
    <2>2. G = [F EXCEPT !.spans[n] = MarkFailed(@, e)]
      BY <1>1, <1>3, <1>4 DEF Transition, Markers
    <2>3. MarkFailed(F.spans[n], e) = F.spans[n]
      BY DEF MarkFailed
    <2>4. [F.spans EXCEPT ![n] = F.spans[n]] = F.spans
      BY <1>2, <2>1
    <2>5. G = F
      BY <2>2, <2>3, <2>4 DEF IsSpans
    <2>6. Entered(F, <<e.stage>>)
      BY <1>1, <1>4, <2>1 DEF Entered
    <2> QED BY <2>5, <2>6
  <1>5. CASE ~(F.open # <<>> /\ F.spans[n].stage = e.stage)
    <2>1. PICK left : left = LeftSpans(F, e)
      OBVIOUS
    <2>0. AllEnded(F, left)
      BY <2>1, LeaveEnds
    <2>2. /\ left \in Seq(SpanType) /\ Len(left) = n /\ DOMAIN left = 1..n
          /\ \A i \in DOMAIN left : /\ left[i].end # None /\ left[i].stage = F.spans[i].stage
                                    /\ left[i].status = "failed" <=> F.spans[i].status = "failed"
                                    /\ left[i].refused = F.spans[i].refused
      BY <1>1, <1>2, <2>0 DEF AllEnded
    <2>3. PICK x : x = MarkFailed(NewSpan(e, 0, e.time), e)
      OBVIOUS
    <2>4. /\ x \in SpanType /\ x.stage = e.stage /\ x.end = None
          /\ x.status = "running" /\ ~x.refused
      BY <2>3 DEF MarkFailed, NewSpan, SpanType, EventType
    <2>5. G = [F EXCEPT !.spans = Append(left, x), !.open = <<n + 1>>]
      BY <1>1, <1>3, <1>5, <2>1, <2>3 DEF Transition, Markers, LeftSpans
    <2>6. /\ G = [spans |-> G.spans, open |-> G.open, terminal |-> G.terminal]
          /\ G.spans = Append(left, x) /\ G.open = <<n + 1>> /\ G.terminal = F.terminal
      BY <2>5 DEF IsSpans
    <2> HIDE DEF G
    <2>7. /\ Len(G.spans) = n + 1 /\ DOMAIN G.spans = 1..(n + 1) /\ G.spans[n + 1] = x
          /\ \A i \in 1..n : G.spans[i] = left[i]
      BY <1>2, <2>2, <2>6
    <2>8. IsSpans(G)
      BY <1>2, <2>2, <2>4, <2>6 DEF IsSpans
    <2>9. \A i \in DOMAIN G.spans : i = n + 1 \/ i \in 1..n
      BY <1>2, <2>7
    <2>10. \A i \in DOMAIN G.spans : G.spans[i].end = None => i = n + 1
      BY <2>2, <2>7, <2>9
    <2>11. Entered(G, <<e.stage>>)
      <3>1. Len(G.spans) > 0
        BY <1>2, <2>7
      <3> QED BY <2>4, <2>6, <2>7, <2>10, <3>1 DEF Entered
    <2>12. Failed(F) = {} => Failed(G) = {}
      BY <1>2, <2>2, <2>4, <2>7, <2>9 DEF Failed
    <2>13. NoneRefused(F) => NoneRefused(G)
      BY <1>2, <2>2, <2>4, <2>7, <2>9 DEF NoneRefused
    <2> QED BY <2>6, <2>8, <2>11, <2>12, <2>13 DEF G
  <1> QED BY <1>4, <1>5

\* A failure reported in the stage is the last span's.
LEMMA FailMoves ==
  ASSUME NEW F, IsSpans(F), NEW stack \in Seq(Stages), stack # <<>>, Entered(F, stack),
         NEW e \in EventType, e.stage = stack[1], e.status = "failed"
  PROVE  LET G == Transition(F, e)
             n == Len(F.spans)
         IN  /\ IsSpans(G) /\ Entered(G, stack) /\ G.terminal = F.terminal
             /\ Failed(G) = Failed(F) \cup {n} /\ n \in DOMAIN G.spans
             /\ \A i \in DOMAIN G.spans : i \in Nat /\ i <= n
             /\ G.spans[n].stage = stack[1]
             /\ NoneRefused(F) => NoneRefused(G)
  <1> DEFINE G == Transition(F, e)
  <1>1. PICK n : n = Len(F.spans)
    OBVIOUS
  <1>2. n \in Nat /\ DOMAIN F.spans = 1..n /\ F.spans \in Seq(SpanType)
    BY <1>1 DEF IsSpans
  <1>3. /\ n > 0 /\ F.open = <<n>> /\ stack = <<F.spans[n].stage>> /\ F.spans[n].end = None
        /\ n \in DOMAIN F.spans /\ F.spans[n] \in SpanType /\ stack[1] = F.spans[n].stage
    BY <1>1, <1>2 DEF Entered
  <1>4. e.stage \notin Markers
    BY <1>3, StagesAssumption DEF SpanType
  <1>5. PICK x : x = MarkFailed(F.spans[n], e)
    OBVIOUS
  <1>6. /\ x \in SpanType /\ x.stage = F.spans[n].stage /\ x.end = None
        /\ x.status = "failed" /\ x.refused = F.spans[n].refused
    BY <1>3, <1>5 DEF MarkFailed, SpanType
  <1>7. G = [F EXCEPT !.spans = [F.spans EXCEPT ![n] = x]]
    BY <1>1, <1>3, <1>4, <1>5 DEF Transition, Markers, IsSpans
  <1>8. /\ G = [spans |-> G.spans, open |-> G.open, terminal |-> G.terminal]
        /\ G.spans = [F.spans EXCEPT ![n] = x] /\ G.open = F.open /\ G.terminal = F.terminal
    BY <1>7 DEF IsSpans
  <1> HIDE DEF G
  <1>9. /\ G.spans \in Seq(SpanType) /\ Len(G.spans) = n /\ DOMAIN G.spans = 1..n
        /\ \A i \in 1..n : G.spans[i] = IF i = n THEN x ELSE F.spans[i]
    BY <1>2, <1>3, <1>6, <1>8
  <1>10. IsSpans(G)
    BY <1>8, <1>9 DEF IsSpans
  <1>11. Entered(G, stack)
    <2>1. \A i \in DOMAIN G.spans : G.spans[i].end = None => i = n
      BY <1>1, <1>2, <1>9 DEF Entered
    <2> QED BY <1>1, <1>3, <1>6, <1>8, <1>9, <2>1 DEF Entered
  <1>12. Failed(G) = Failed(F) \cup {n}
    BY <1>2, <1>3, <1>6, <1>9 DEF Failed
  <1>13. NoneRefused(F) => NoneRefused(G)
    BY <1>2, <1>3, <1>6, <1>9 DEF NoneRefused
  <1>14. \A i \in DOMAIN G.spans : i \in Nat /\ i <= n
    BY <1>2, <1>9
  <1>15. n \in DOMAIN G.spans /\ G.spans[n].stage = stack[1]
    BY <1>2, <1>3, <1>6, <1>9
  <1> QED BY <1>1, <1>8, <1>10, <1>11, <1>12, <1>13, <1>14, <1>15 DEF G

\* The end of the run ends the stage it is in.
LEMMA EndMoves ==
  ASSUME NEW F, IsSpans(F), NEW stack \in Seq(Stages), Entered(F, stack),
         NEW e \in EventType, e.stage \in {"complete", "failed"}
  PROVE  LET G == Transition(F, e)
             n == Len(F.spans)
         IN  /\ IsSpans(G) /\ Opened(G) = {} /\ G.terminal = e
             /\ Failed(G) = IF e.stage = "failed" /\ stack # <<>> THEN Failed(F) \cup {n}
                            ELSE Failed(F)
             /\ \A i \in DOMAIN G.spans : i \in Nat /\ i <= n
             /\ stack # <<>> => n \in DOMAIN G.spans /\ G.spans[n].stage = stack[1]
             /\ NoneRefused(F) => NoneRefused(G)
  <1> DEFINE G == Transition(F, e)
  <1>1. PICK n : n = Len(F.spans)
    OBVIOUS
  <1>2. n \in Nat /\ DOMAIN F.spans = 1..n /\ F.spans \in Seq(SpanType)
    BY <1>1 DEF IsSpans
  <1>3. (F.open # <<>>) = (stack # <<>>)
    BY DEF Entered
  <1>4. PICK left : left = LeftSpans(F, e)
    OBVIOUS
  <1>0. AllEnded(F, left)
    BY <1>4, LeaveEnds
  <1>5. /\ left \in Seq(SpanType) /\ Len(left) = n /\ DOMAIN left = 1..n
        /\ \A i \in DOMAIN left : /\ left[i].end # None /\ left[i].stage = F.spans[i].stage
                                  /\ left[i].status = "failed" <=> F.spans[i].status = "failed"
                                  /\ left[i].refused = F.spans[i].refused
    BY <1>1, <1>2, <1>0 DEF AllEnded
  <1>6. G = [spans |-> IF F.open # <<>> /\ e.stage = "failed"
                       THEN [left EXCEPT ![n].status = "failed"] ELSE left,
             open |-> <<>>, terminal |-> e]
    BY <1>1, <1>4 DEF Transition, LeftSpans
  <1>7. /\ G = [spans |-> G.spans, open |-> G.open, terminal |-> G.terminal]
        /\ G.open = <<>> /\ G.terminal = e
    BY <1>6
  <1>8. CASE ~(e.stage = "failed" /\ stack # <<>>)
    <2>1. G.spans = left
      BY <1>3, <1>6, <1>8
    <2> HIDE DEF G
    <2>2. IsSpans(G) /\ Opened(G) = {} /\ Failed(G) = Failed(F)
      BY <1>2, <1>5, <1>7, <2>1 DEF IsSpans, Opened, Failed
    <2>3. NoneRefused(F) => NoneRefused(G)
      BY <1>2, <1>5, <2>1 DEF NoneRefused
    <2>4. \A i \in DOMAIN G.spans : i \in Nat /\ i <= n
      BY <1>2, <1>5, <2>1
    <2>5. stack # <<>> => n \in DOMAIN G.spans /\ G.spans[n].stage = stack[1]
      <3> SUFFICES ASSUME stack # <<>> PROVE n \in DOMAIN G.spans /\ G.spans[n].stage = stack[1]
        OBVIOUS
      <3>1. n > 0 /\ stack = <<F.spans[n].stage>>
        BY <1>1 DEF Entered
      <3> QED BY <1>2, <1>5, <2>1, <3>1
    <2> QED BY <1>1, <1>7, <1>8, <2>2, <2>3, <2>4, <2>5 DEF G
  <1>9. CASE e.stage = "failed" /\ stack # <<>>
    <2>1. n > 0 /\ stack = <<F.spans[n].stage>> /\ n \in 1..n
      BY <1>1, <1>2, <1>9 DEF Entered
    <2>2. PICK x : x = [left[n] EXCEPT !.status = "failed"]
      OBVIOUS
    <2>12. /\ left[n] \in SpanType /\ left[n].end # None /\ left[n].stage = F.spans[n].stage
           /\ left[n].refused = F.spans[n].refused
      BY <1>5, <2>1
    <2>3. /\ x \in SpanType /\ x.end # None /\ x.stage = F.spans[n].stage /\ x.status = "failed"
          /\ x.refused = F.spans[n].refused
      BY <2>2, <2>12 DEF SpanType
    <2>4. G.spans = [left EXCEPT ![n] = x]
      BY <1>3, <1>5, <1>6, <1>9, <2>1, <2>2
    <2> HIDE DEF G
    <2>5. /\ G.spans \in Seq(SpanType) /\ DOMAIN G.spans = 1..n
          /\ \A i \in 1..n : G.spans[i] = IF i = n THEN x ELSE left[i]
      BY <1>2, <1>5, <2>1, <2>3, <2>4
    <2>6. IsSpans(G)
      BY <1>7, <2>5 DEF IsSpans
    <2>7. Opened(G) = {}
      BY <1>5, <2>3, <2>5 DEF Opened
    <2>8. Failed(G) = Failed(F) \cup {n}
      BY <1>2, <1>5, <2>1, <2>3, <2>5 DEF Failed
    <2>9. NoneRefused(F) => NoneRefused(G)
      BY <1>2, <1>5, <2>1, <2>3, <2>5 DEF NoneRefused
    <2>10. \A i \in DOMAIN G.spans : i \in Nat /\ i <= n
      BY <1>2, <2>5
    <2>11. n \in DOMAIN G.spans /\ G.spans[n].stage = stack[1]
      BY <2>1, <2>3, <2>5
    <2> QED BY <1>1, <1>7, <1>9, <2>6, <2>7, <2>8, <2>9, <2>10, <2>11 DEF G
  <1> QED BY <1>8, <1>9

-----------------------------------------------------------------------------
(***************************************************************************)
(* The relation between the spans of the events that are written, F, and   *)
(* the build, b.                                                           *)
(***************************************************************************)

BuildType ==
    [version : 1..3, stack : Seq(Stages), failedIn : Stages \cup {None}, refused : BOOLEAN,
     outcome : {None, "passed", "blocked", "failed"}, idleSince : Int]

\* The open spans are the build's open stages.
OpenInv(F, b) ==
    /\ b.version > 1 => Nested(F, b.stack)
    /\ b.version = 1 => IF b.outcome = None THEN Entered(F, b.stack) ELSE Opened(F) = {}
    /\ b.version = 1 /\ b.failedIn # None => b.stack # <<>>

\* The last span that failed is of the stage the build failed in, and no open
\* one is later.
FailedLast(F, b) ==
    \E m \in Failed(F) : /\ IsGreatest(m, Failed(F)) /\ F.spans[m].stage = b.failedIn
                         /\ \A j \in Opened(F) : j <= m

\* No span failed, and the innermost open one is of the stage the build failed in.
FailedOpen(F, b) ==
    /\ Failed(F) = {} /\ b.outcome = "failed"
    /\ \E m \in Opened(F) : /\ F.spans[m].stage = b.failedIn
                            /\ \A j \in Opened(F) : j # m => F.spans[j].depth < F.spans[m].depth

FailedNowhere(F, b) ==
    /\ Failed(F) = {} /\ b.failedIn = None
    /\ b.outcome = "failed" => Opened(F) = {}

Blames(F, b) ==
    ~b.refused => \/ FailedNowhere(F, b)
                  \/ b.failedIn # None /\ (FailedLast(F, b) \/ FailedOpen(F, b))

\* The terminal event is written as the build ends, and tells its outcome.
Tells(F, b) ==
    \/ b.outcome = Outcomes[F.terminal.stage]
    \/ b.version = 2 /\ b.outcome = "blocked" /\ F.terminal.stage = "complete"

Told(F, b) ==
    /\ b.outcome = None => F.terminal = None
    /\ b.outcome # None => F.terminal \in EventType /\ Tells(F, b)

\* A span is refused when the build's gates refused; then it has ended.
Refusals(F, b) ==
    /\ NoneRefused(F) <=> ~b.refused
    /\ \A i \in Opened(F) : ~F.spans[i].refused
    /\ b.refused => b.version > 1 /\ (b.version = 2 => b.outcome \in {None, "blocked"})
    /\ b.version = 2 /\ b.outcome = "blocked" => b.refused

Kept(F, b) ==
    /\ IsSpans(F) /\ OpenInv(F, b) /\ Blames(F, b) /\ Told(F, b) /\ Refusals(F, b)

\* A span that is added, and did not fail.
LEMMA AddsKeeps ==
  ASSUME NEW F, IsSpans(F), NEW G, NEW x \in SpanType, Adds(F, G, x),
         x.status # "failed", ~x.refused
  PROVE  /\ Failed(G) = Failed(F) /\ G.terminal = F.terminal
         /\ NoneRefused(G) <=> NoneRefused(F)
         /\ (\A i \in Opened(F) : ~F.spans[i].refused) => \A i \in Opened(G) : ~G.spans[i].refused
  <1>1. PICK n \in Nat : n = Len(F.spans) /\ DOMAIN F.spans = 1..n
    BY DEF IsSpans
  <1>2. /\ DOMAIN G.spans = 1..(n + 1) /\ G.spans[n + 1] = x
        /\ \A i \in 1..n : G.spans[i] = F.spans[i]
    BY <1>1 DEF IsSpans, Adds
  <1>3. \A i \in DOMAIN G.spans : i = n + 1 \/ i \in 1..n
    BY <1>1, <1>2
  <1>4. \A i \in 1..n : i \in DOMAIN G.spans
    BY <1>1, <1>2
  <1>5. Failed(G) = Failed(F)
    BY <1>1, <1>2, <1>3, <1>4 DEF Failed
  <1>6. NoneRefused(G) <=> NoneRefused(F)
    BY <1>1, <1>2, <1>3, <1>4 DEF NoneRefused
  <1>7. (\A i \in Opened(F) : ~F.spans[i].refused) => \A i \in Opened(G) : ~G.spans[i].refused
    BY <1>1, <1>2, <1>3 DEF Opened
  <1> QED BY <1>5, <1>6, <1>7 DEF Adds

\* A stage starts.
LEMMA StartKeeps ==
  ASSUME NEW F, NEW b \in BuildType, Kept(F, b), b.version > 1, b.outcome = None,
         b.failedIn = None, NEW s \in Stages,
         NEW e \in EventType, e.stage = s, e.status = "started"
  PROVE  Kept(Advance(b.version, F, e), [b EXCEPT !.stack = Append(@, s)])
  <1>1. PICK G : G = Advance(b.version, F, e)
    OBVIOUS
  <1>2. G = Lifecycle(F, e)
    BY <1>1 DEF Advance
  <1>3. PICK c : c = [b EXCEPT !.stack = Append(@, s)]
    OBVIOUS
  <1>4. /\ c.version = b.version /\ c.outcome = None /\ c.failedIn = None
        /\ c.refused = b.refused /\ c.stack = Append(b.stack, s) /\ b.stack \in Seq(Stages)
    BY <1>3 DEF BuildType
  <1>5. IsSpans(F) /\ Nested(F, b.stack)
    BY DEF Kept, OpenInv
  <1>6. /\ IsSpans(G) /\ Nested(G, c.stack)
        /\ \E x \in SpanType : Adds(F, G, x) /\ x.status = "running" /\ ~x.refused
    BY <1>2, <1>4, <1>5, StartNests
  <1>7. /\ Failed(G) = Failed(F) /\ G.terminal = F.terminal
        /\ NoneRefused(G) <=> NoneRefused(F)
        /\ (\A i \in Opened(F) : ~F.spans[i].refused) => \A i \in Opened(G) : ~G.spans[i].refused
    BY <1>5, <1>6, AddsKeeps
  <1>8. OpenInv(G, c)
    BY <1>4, <1>6 DEF OpenInv
  <1>9. Blames(G, c)
    BY <1>4, <1>7, NoneAssumption DEF Kept, Blames, FailedNowhere
  <1>10. Told(G, c) /\ Refusals(G, c)
    BY <1>4, <1>7 DEF Kept, Told, Refusals
  <1> QED BY <1>1, <1>3, <1>6, <1>8, <1>9, <1>10 DEF Kept

\* A stage reports its end.
LEMMA ObserveKeeps ==
  ASSUME NEW F, NEW b \in BuildType, Kept(F, b), b.version > 1, b.outcome = None,
         b.failedIn = None, NEW c \in BuildType, NEW t, c = [b EXCEPT !.idleSince = t],
         NEW e \in EventType, e.stage \in Stages, e.status = "completed", ~e.blocking,
         \A k \in 1..Len(b.stack) : b.stack[k] # e.stage
  PROVE  Kept(Advance(b.version, F, e), c)
  <1>1. PICK G : G = Advance(b.version, F, e)
    OBVIOUS
  <1>2. G = Lifecycle(F, e)
    BY <1>1 DEF Advance
  <1>4. /\ c.version = b.version /\ c.outcome = None /\ c.failedIn = None
        /\ c.refused = b.refused /\ c.stack = b.stack /\ b.stack \in Seq(Stages)
    BY DEF BuildType
  <1>5. IsSpans(F) /\ Nested(F, b.stack)
    BY DEF Kept, OpenInv
  <1>6. /\ IsSpans(G) /\ Nested(G, c.stack)
        /\ \E x \in SpanType : Adds(F, G, x) /\ x.status = "completed" /\ ~x.refused /\ x.end # None
    BY <1>2, <1>4, <1>5, ObserveNests
  <1>7. /\ Failed(G) = Failed(F) /\ G.terminal = F.terminal
        /\ NoneRefused(G) <=> NoneRefused(F)
        /\ (\A i \in Opened(F) : ~F.spans[i].refused) => \A i \in Opened(G) : ~G.spans[i].refused
    BY <1>5, <1>6, AddsKeeps
  <1>8. OpenInv(G, c)
    BY <1>4, <1>6 DEF OpenInv
  <1>9. Blames(G, c)
    BY <1>4, <1>7, NoneAssumption DEF Kept, Blames, FailedNowhere
  <1>10. Told(G, c) /\ Refusals(G, c)
    BY <1>4, <1>7 DEF Kept, Told, Refusals
  <1> QED BY <1>1, <1>6, <1>8, <1>9, <1>10 DEF Kept

\* The i-th span of F ends by event e.
Ends(F, G, i, e) ==
    /\ DOMAIN G.spans = DOMAIN F.spans /\ DOMAIN F.spans \subseteq Nat /\ i \in DOMAIN F.spans
    /\ G.terminal = F.terminal
    /\ \A j \in DOMAIN F.spans : G.spans[j].stage = F.spans[j].stage
    /\ Opened(G) = Opened(F) \ {i}
    /\ \A j \in DOMAIN F.spans : j # i => G.spans[j] = F.spans[j]
    /\ G.spans[i].refused = e.blocking
    /\ G.spans[i].status = "failed" <=> e.status = "failed" \/ e.blocking

\* A span that is ended by an event.
LEMMA ReplacesKeeps ==
  ASSUME NEW F, IsSpans(F), NEW G, NEW i, NEW e \in EventType,
         Replaces(F, G, i, ClosedBy(F.spans[i], e)), F.spans[i].end = None
  PROVE  Ends(F, G, i, e)
  <1>1. /\ i \in DOMAIN F.spans /\ F.spans[i] \in SpanType /\ F.spans \in Seq(SpanType)
        /\ DOMAIN F.spans \subseteq Nat
    BY DEF IsSpans, Replaces
  <1>2. PICK x : x = ClosedBy(F.spans[i], e)
    OBVIOUS
  <1>3. /\ x.stage = F.spans[i].stage /\ x.end # None /\ x.refused = e.blocking
        /\ x.status = "failed" <=> e.status = "failed" \/ e.blocking
    BY <1>1, <1>2, NoneAssumption DEF ClosedBy, SpanType, EventType
  <1>4. G.spans = [F.spans EXCEPT ![i] = x] /\ G.terminal = F.terminal
    BY <1>2 DEF Replaces
  <1>5. /\ DOMAIN G.spans = DOMAIN F.spans
        /\ G.spans[i] = x /\ \A j \in DOMAIN F.spans : j # i => G.spans[j] = F.spans[j]
    BY <1>1, <1>4
  <1>6. Opened(G) = Opened(F) \ {i}
    BY <1>1, <1>3, <1>5 DEF Opened
  <1> QED BY <1>1, <1>3, <1>4, <1>5, <1>6 DEF Ends

\* What a stage's end does to the build.
FinishedBy(b, status, blocking, t) ==
    [b EXCEPT !.stack = Front(b.stack), !.idleSince = t,
              !.refused = @ \/ blocking,
              !.failedIn = IF status = "failed" /\ @ = None THEN Last(b.stack) ELSE @]

\* The innermost stage ends.
LEMMA FinishKeeps ==
  ASSUME NEW F, NEW b \in BuildType, Kept(F, b), b.version > 1, b.outcome = None,
         b.stack # <<>>, NEW status \in {"completed", "failed"}, NEW blocking \in BOOLEAN,
         b.failedIn # None => status = "failed",
         blocking => status = "completed" /\ ~b.refused,
         NEW t,
         NEW e \in EventType, e.stage = Last(b.stack), e.status = status, e.blocking = blocking
  PROVE  Kept(Advance(b.version, F, e), FinishedBy(b, status, blocking, t))
  <1>13. PICK c : c = FinishedBy(b, status, blocking, t)
    OBVIOUS
  <1>1. PICK G : G = Advance(b.version, F, e)
    OBVIOUS
  <1>2. G = Lifecycle(F, e)
    BY <1>1 DEF Advance
  <1>3. PICK i : i = F.open[Len(b.stack)]
    OBVIOUS
  <1>4. /\ c.version = b.version /\ c.outcome = None /\ c.stack = Front(b.stack)
        /\ c.refused = (b.refused \/ blocking) /\ b.stack \in Seq(Stages)
        /\ c.failedIn = IF status = "failed" /\ b.failedIn = None THEN Last(b.stack)
                        ELSE b.failedIn
    BY <1>13 DEF FinishedBy, BuildType
  <1>5. IsSpans(F) /\ Nested(F, b.stack)
    BY DEF Kept, OpenInv
  <1>6. /\ IsSpans(G) /\ Nested(G, c.stack)
        /\ F.spans[i].end = None /\ F.spans[i].stage = Last(b.stack)
        /\ \A j \in DOMAIN F.spans : F.spans[j].end = None => j <= i
        /\ Replaces(F, G, i, ClosedBy(F.spans[i], e))
    BY <1>2, <1>3, <1>4, <1>5, FinishNests
  <1>7. /\ DOMAIN G.spans = DOMAIN F.spans /\ DOMAIN F.spans \subseteq Nat /\ i \in DOMAIN F.spans
        /\ G.terminal = F.terminal
        /\ \A j \in DOMAIN F.spans : G.spans[j].stage = F.spans[j].stage
        /\ Opened(G) = Opened(F) \ {i}
        /\ \A j \in DOMAIN F.spans : j # i => G.spans[j] = F.spans[j]
        /\ G.spans[i].refused = blocking
        /\ G.spans[i].status = "failed" <=> status = "failed" \/ blocking
    <2>1. Ends(F, G, i, e)
      BY <1>5, <1>6, ReplacesKeeps
    <2> QED BY <2>1 DEF Ends
  <1>8. OpenInv(G, c)
    BY <1>4, <1>6 DEF OpenInv
  <1>9. ~F.spans[i].refused /\ (NoneRefused(F) <=> ~b.refused)
    BY <1>6, <1>7 DEF Kept, Refusals, Opened
  <1>10. Refusals(G, c)
    <2>1. blocking => ~NoneRefused(G)
      BY <1>7 DEF NoneRefused
    <2>2. ~blocking => (NoneRefused(G) <=> NoneRefused(F))
      BY <1>7, <1>9 DEF NoneRefused
    <2>3. \A j \in Opened(G) : ~G.spans[j].refused
      <3> SUFFICES ASSUME NEW j \in Opened(G) PROVE ~G.spans[j].refused
        OBVIOUS
      <3>1. j \in Opened(F) /\ j # i /\ j \in DOMAIN F.spans
        BY <1>7 DEF Opened
      <3> QED BY <1>7, <3>1 DEF Kept, Refusals
    <2>4. NoneRefused(G) <=> ~c.refused
      BY <1>4, <1>9, <2>1, <2>2
    <2> QED BY <1>4, <2>3, <2>4, NoneAssumption DEF Refusals
  <1>11. Told(G, c)
    BY <1>4, <1>7 DEF Kept, Told
  <1>12. Blames(G, c)
    <2> SUFFICES ASSUME ~c.refused
                 PROVE  \/ FailedNowhere(G, c)
                        \/ c.failedIn # None /\ (FailedLast(G, c) \/ FailedOpen(G, c))
      BY DEF Blames
    <2>1. ~b.refused /\ ~blocking
      BY <1>4
    <2>2. /\ FailedNowhere(F, b) \/ (b.failedIn # None /\ FailedLast(F, b))
      BY <2>1, NoneAssumption DEF Kept, Blames, FailedOpen
    <2>3. CASE status = "completed"
      <3>1. b.failedIn = None /\ c.failedIn = None /\ Failed(F) = {}
        BY <1>4, <2>2, <2>3 DEF FailedNowhere
      <3>2. Failed(G) = {}
        BY <1>7, <2>1, <2>3, <3>1 DEF Failed
      <3> QED BY <1>4, <3>1, <3>2, NoneAssumption DEF FailedNowhere
    <2>4. CASE status = "failed"
      <3>1. Failed(G) = Failed(F) \cup {i}
        BY <1>7, <2>4 DEF Failed
      <3>2. \A j \in Opened(G) : j \in DOMAIN F.spans /\ F.spans[j].end = None
        BY <1>7 DEF Opened
      <3>3. CASE FailedNowhere(F, b)
        <4>1. Failed(G) = {i} /\ c.failedIn = Last(b.stack)
          BY <1>4, <2>4, <3>1, <3>3 DEF FailedNowhere
        <4>2. IsGreatest(i, Failed(G))
          BY <1>7, <4>1 DEF IsGreatest
        <4>3. G.spans[i].stage = c.failedIn /\ \A j \in Opened(G) : j <= i
          BY <1>6, <1>7, <3>2, <4>1
        <4>4. Last(b.stack) \in Stages
          BY <1>4 DEF Last
        <4> QED BY <4>1, <4>2, <4>3, <4>4, NoneAssumption DEF FailedLast, IsGreatest
      <3>4. CASE b.failedIn # None /\ FailedLast(F, b)
        <4>1. PICK m : /\ IsGreatest(m, Failed(F)) /\ F.spans[m].stage = b.failedIn
                       /\ \A j \in Opened(F) : j <= m
          BY <3>4 DEF FailedLast, IsGreatest
        <4>2. i \in Opened(F) /\ m \in DOMAIN F.spans
          BY <1>6, <1>7, <4>1 DEF Opened, Failed, IsGreatest
        <4>3. IsGreatest(m, Failed(G))
          BY <3>1, <4>1, <4>2 DEF IsGreatest
        <4>4. c.failedIn = b.failedIn /\ G.spans[m].stage = F.spans[m].stage
          BY <1>4, <1>7, <3>4, <4>2
        <4>5. \A j \in Opened(G) : j <= m
          BY <1>7, <4>1
        <4>6. FailedLast(G, c)
          BY <4>1, <4>3, <4>4, <4>5 DEF FailedLast, IsGreatest
        <4> QED BY <3>4, <4>4, <4>6
      <3> QED BY <2>2, <3>3, <3>4
    <2> QED BY <2>3, <2>4
  <1> QED BY <1>1, <1>6, <1>8, <1>10, <1>11, <1>12, <1>13 DEF Kept

\* Schema 1: a stage is entered.
LEMMA EnterKeeps ==
  ASSUME NEW F, NEW b \in BuildType, Kept(F, b), b.version = 1, b.outcome = None,
         b.failedIn = None, NEW e \in EventType, e.stage \in Stages, e.status = "running"
  PROVE  Kept(Advance(b.version, F, e), [b EXCEPT !.stack = <<e.stage>>])
  <1>1. PICK G : G = Advance(b.version, F, e)
    OBVIOUS
  <1>2. G = Transition(F, e)
    BY <1>1 DEF Advance
  <1>3. PICK c : c = [b EXCEPT !.stack = <<e.stage>>]
    OBVIOUS
  <1>4. /\ c.version = 1 /\ c.outcome = None /\ c.failedIn = None
        /\ c.refused = b.refused /\ c.stack = <<e.stage>> /\ b.stack \in Seq(Stages)
    BY <1>3 DEF BuildType
  <1>5. IsSpans(F) /\ Entered(F, b.stack)
    BY DEF Kept, OpenInv
  <1>6. /\ IsSpans(G) /\ Entered(G, <<e.stage>>) /\ G.terminal = F.terminal
        /\ Failed(F) = {} => Failed(G) = {}
        /\ NoneRefused(F) => NoneRefused(G)
    BY <1>2, <1>4, <1>5, EnterMoves
  <1>7. ~b.refused /\ NoneRefused(F)
    BY DEF Kept, Refusals
  <1>8. OpenInv(G, c)
    BY <1>4, <1>6 DEF OpenInv
  <1>9. Blames(G, c)
    BY <1>4, <1>6, <1>7, NoneAssumption DEF Kept, Blames, FailedNowhere
  <1>10. Told(G, c)
    BY <1>4, <1>6 DEF Kept, Told
  <1>11. Refusals(G, c)
    BY <1>4, <1>6, <1>7 DEF Refusals, NoneRefused, Opened
  <1> QED BY <1>1, <1>3, <1>6, <1>8, <1>9, <1>10, <1>11 DEF Kept

\* Schema 1: a failure is reported in the stage.
LEMMA FailKeeps ==
  ASSUME NEW F, NEW b \in BuildType, Kept(F, b), b.version = 1, b.outcome = None,
         b.failedIn = None, b.stack # <<>>,
         NEW e \in EventType, e.stage = b.stack[1], e.status = "failed"
  PROVE  Kept(Advance(b.version, F, e), [b EXCEPT !.failedIn = b.stack[1]])
  <1>1. PICK G : G = Advance(b.version, F, e)
    OBVIOUS
  <1>2. G = Transition(F, e)
    BY <1>1 DEF Advance
  <1>3. PICK c : c = [b EXCEPT !.failedIn = b.stack[1]]
    OBVIOUS
  <1>4. /\ c.version = 1 /\ c.outcome = None /\ c.failedIn = b.stack[1]
        /\ c.refused = b.refused /\ c.stack = b.stack /\ b.stack \in Seq(Stages)
        /\ b.stack[1] \in Stages
    BY <1>3 DEF BuildType
  <1>5. IsSpans(F) /\ Entered(F, b.stack)
    BY DEF Kept, OpenInv
  <1>0. PICK n : n = Len(F.spans)
    OBVIOUS
  <1>6. /\ IsSpans(G) /\ Entered(G, b.stack) /\ G.terminal = F.terminal
        /\ Failed(G) = Failed(F) \cup {n} /\ n \in DOMAIN G.spans
        /\ \A i \in DOMAIN G.spans : i \in Nat /\ i <= n
        /\ G.spans[n].stage = b.stack[1]
        /\ NoneRefused(F) => NoneRefused(G)
    BY <1>0, <1>2, <1>4, <1>5, FailMoves
  <1>7. ~b.refused /\ NoneRefused(F)
    BY DEF Kept, Refusals
  <1>8. OpenInv(G, c)
    BY <1>4, <1>6 DEF OpenInv
  <1>9. Blames(G, c)
    <2>1. IsGreatest(n, Failed(G)) /\ \A j \in Opened(G) : j <= n
      BY <1>6 DEF IsGreatest, Failed, Opened
    <2>2. FailedLast(G, c)
      BY <1>4, <1>6, <2>1 DEF FailedLast, IsGreatest
    <2> QED BY <1>4, <2>2, NoneAssumption DEF Blames
  <1>10. Told(G, c)
    BY <1>4, <1>6 DEF Kept, Told
  <1>11. Refusals(G, c)
    BY <1>4, <1>6, <1>7 DEF Refusals, NoneRefused, Opened
  <1> QED BY <1>1, <1>3, <1>6, <1>8, <1>9, <1>10, <1>11 DEF Kept

\* How a build ends.
EndsBy(b, marker) ==
    [b EXCEPT
        !.outcome = IF b.refused /\ marker = "complete" THEN "blocked" ELSE Outcomes[marker],
        !.failedIn = IF marker = "failed" /\ @ = None /\ b.stack # <<>>
                     THEN Last(b.stack) ELSE @]

\* What the guards of End say of the marker.
MayEnd(b, marker) ==
    /\ marker = "blocked" => b.version = 3 /\ b.refused
    /\ marker = "complete" => /\ b.version = 1 \/ b.stack = <<>>
                              /\ b.version = 3 => ~b.refused
    /\ marker # "failed" => b.failedIn = None
    /\ b.version = 2 /\ b.refused => marker = "complete"

\* Schemas 2 and 3: the spans stay as they are.
LEMMA EndKeepsNested ==
  ASSUME NEW F, NEW b \in BuildType, Kept(F, b), b.version > 1, b.outcome = None,
         NEW marker \in {"complete", "failed", "blocked"}, MayEnd(b, marker),
         NEW e \in EventType, e.stage = marker
  PROVE  Kept(Advance(b.version, F, e), EndsBy(b, marker))
  <1>1. PICK G : G = Advance(b.version, F, e)
    OBVIOUS
  <1>2. PICK c : c = EndsBy(b, marker)
    OBVIOUS
  <1>3. G = [F EXCEPT !.terminal = e]
    BY <1>1 DEF Advance, Lifecycle, Markers
  <1>4. IsSpans(F) /\ Nested(F, b.stack)
    BY DEF Kept, OpenInv
  <1>5. /\ G = [spans |-> F.spans, open |-> F.open, terminal |-> e]
        /\ G.spans = F.spans /\ G.open = F.open /\ G.terminal = e
    BY <1>3, <1>4 DEF IsSpans
  <1>6. Failed(G) = Failed(F) /\ Opened(G) = Opened(F) /\ NoneRefused(G) = NoneRefused(F)
    BY <1>5 DEF Failed, Opened, NoneRefused
  <1>7. /\ c.version = b.version /\ c.stack = b.stack /\ c.refused = b.refused
        /\ c.outcome = IF b.refused /\ marker = "complete" THEN "blocked" ELSE Outcomes[marker]
        /\ c.failedIn = IF marker = "failed" /\ b.failedIn = None /\ b.stack # <<>>
                        THEN Last(b.stack) ELSE b.failedIn
        /\ b.stack \in Seq(Stages) /\ b.version \in {2, 3}
    BY <1>2 DEF EndsBy, BuildType
  <1>8. /\ c.outcome \in {"passed", "blocked", "failed"} /\ c.outcome # None
        /\ c.outcome = "failed" <=> marker = "failed"
    BY <1>7, NoneAssumption DEF Outcomes
  <1>9. IsSpans(G) /\ OpenInv(G, c)
    BY <1>4, <1>5, <1>7 DEF IsSpans, OpenInv, Nested
  <1>10. Told(G, c)
    <2>1. Outcomes[marker] = c.outcome \/ (b.version = 2 /\ c.outcome = "blocked" /\ marker = "complete")
      BY <1>7 DEF MayEnd
    <2> QED BY <1>5, <1>7, <1>8, <2>1 DEF Told, Tells
  <1>11. Refusals(G, c)
    <2>1. b.version = 2 => (b.refused <=> c.outcome = "blocked")
      BY <1>7, <1>8 DEF MayEnd, Outcomes
    <2>2. c.refused => c.version > 1 /\ (c.version = 2 => c.outcome \in {None, "blocked"})
      BY <1>7, <2>1
    <2>3. \A i \in Opened(G) : ~G.spans[i].refused
      BY <1>5, <1>6 DEF Kept, Refusals
    <2>4. NoneRefused(G) <=> ~c.refused
      BY <1>6, <1>7 DEF Kept, Refusals
    <2> QED BY <1>7, <2>1, <2>2, <2>3, <2>4 DEF Refusals
  <1>12. Blames(G, c)
    <2> SUFFICES ASSUME ~c.refused
                 PROVE  \/ FailedNowhere(G, c)
                        \/ c.failedIn # None /\ (FailedLast(G, c) \/ FailedOpen(G, c))
      BY DEF Blames
    <2>1. FailedNowhere(F, b) \/ (b.failedIn # None /\ FailedLast(F, b))
      BY <1>7, NoneAssumption DEF Kept, Blames, FailedOpen
    <2>2. CASE b.failedIn # None /\ FailedLast(F, b)
      <3>1. c.failedIn = b.failedIn
        BY <1>7, <2>2
      <3>2. FailedLast(G, c)
        BY <1>5, <1>6, <2>2, <3>1 DEF FailedLast, IsGreatest
      <3> QED BY <2>2, <3>1, <3>2
    <2>3. CASE FailedNowhere(F, b) /\ (marker # "failed" \/ b.stack = <<>>)
      <3>1. c.failedIn = None /\ Failed(G) = {}
        BY <1>6, <1>7, <2>3 DEF FailedNowhere
      <3>2. b.stack = <<>> => Opened(G) = {}
        <4> SUFFICES ASSUME b.stack = <<>>, NEW j \in Opened(F) PROVE FALSE
          BY <1>6
        <4>1. \E k \in 1..Len(b.stack) : F.open[k] = j
          BY <1>4 DEF Opened, Nested
        <4>2. Len(b.stack) = 0 /\ 1..0 = {}
          OBVIOUS
        <4> QED BY <4>1, <4>2
      <3> QED BY <1>8, <2>3, <3>1, <3>2 DEF FailedNowhere
    <2>4. CASE FailedNowhere(F, b) /\ marker = "failed" /\ b.stack # <<>>
      <3>1. PICK n : n = Len(b.stack)
        OBVIOUS
      <3>2. n \in Nat /\ n \in 1..n /\ Last(b.stack) = b.stack[n] /\ b.stack[n] \in Stages
        BY <1>7, <2>4, <3>1 DEF Last
      <3>3. PICK m : m = F.open[n]
        OBVIOUS
      <3>4. /\ m \in Opened(F) /\ F.spans[m].stage = b.stack[n] /\ F.spans[m].depth = n - 1
        BY <1>4, <3>1, <3>2, <3>3 DEF Nested, Opened
      <3>5. ASSUME NEW j \in Opened(F), j # m PROVE F.spans[j].depth < F.spans[m].depth
        <4>1. PICK k \in 1..n : F.open[k] = j
          BY <1>4, <3>1 DEF Nested, Opened
        <4>2. k # n /\ F.spans[j].depth = k - 1
          BY <1>4, <3>1, <3>3, <3>5, <4>1 DEF Nested
        <4> QED BY <3>2, <3>4, <4>1, <4>2
      <3>6. Failed(G) = {} /\ c.failedIn = b.stack[n] /\ c.outcome = "failed"
        BY <1>6, <1>7, <1>8, <2>4, <3>2 DEF FailedNowhere
      <3>7. FailedOpen(G, c)
        BY <1>5, <1>6, <3>4, <3>5, <3>6 DEF FailedOpen
      <3> QED BY <3>2, <3>6, <3>7, NoneAssumption
    <2> QED BY <2>1, <2>2, <2>3, <2>4
  <1> QED BY <1>1, <1>2, <1>9, <1>10, <1>11, <1>12 DEF Kept

\* Schema 1: the stage the build is in ends.
LEMMA EndKeepsEntered ==
  ASSUME NEW F, NEW b \in BuildType, Kept(F, b), b.version = 1, b.outcome = None,
         NEW marker \in {"complete", "failed", "blocked"}, MayEnd(b, marker),
         NEW e \in EventType, e.stage = marker
  PROVE  Kept(Advance(b.version, F, e), EndsBy(b, marker))
  <1>1. PICK G : G = Advance(b.version, F, e)
    OBVIOUS
  <1>2. G = Transition(F, e)
    BY <1>1 DEF Advance
  <1>3. PICK c : c = EndsBy(b, marker)
    OBVIOUS
  <1>4. marker \in {"complete", "failed"} /\ ~b.refused /\ NoneRefused(F)
    BY DEF MayEnd, Kept, Refusals
  <1>5. IsSpans(F) /\ Entered(F, b.stack)
    BY DEF Kept, OpenInv
  <1>0. PICK n : n = Len(F.spans)
    OBVIOUS
  <1>6. /\ IsSpans(G) /\ Opened(G) = {} /\ G.terminal = e
        /\ Failed(G) = IF marker = "failed" /\ b.stack # <<>> THEN Failed(F) \cup {n}
                       ELSE Failed(F)
        /\ \A i \in DOMAIN G.spans : i \in Nat /\ i <= n
        /\ b.stack # <<>> => n \in DOMAIN G.spans /\ G.spans[n].stage = b.stack[1]
        /\ NoneRefused(F) => NoneRefused(G)
    <2>1. b.stack \in Seq(Stages)
      BY DEF BuildType
    <2> QED BY <1>0, <1>2, <1>4, <1>5, <2>1, EndMoves
  <1>7. /\ c.version = 1 /\ c.stack = b.stack /\ ~c.refused
        /\ c.outcome = Outcomes[marker]
        /\ c.failedIn = IF marker = "failed" /\ b.failedIn = None /\ b.stack # <<>>
                        THEN Last(b.stack) ELSE b.failedIn
    BY <1>3, <1>4 DEF EndsBy, BuildType
  <1>8. /\ c.outcome \in {"passed", "failed"} /\ c.outcome # None
        /\ c.outcome = "failed" <=> marker = "failed"
    BY <1>4, <1>7, NoneAssumption DEF Outcomes
  <1>9. OpenInv(G, c)
    BY <1>6, <1>7, <1>8 DEF Kept, OpenInv
  <1>10. Told(G, c)
    BY <1>6, <1>7, <1>8 DEF Told, Tells
  <1>11. Refusals(G, c)
    BY <1>4, <1>6, <1>7 DEF Refusals
  <1>12. Blames(G, c)
    <2>1. FailedNowhere(F, b) \/ (b.failedIn # None /\ FailedLast(F, b))
      BY <1>4, NoneAssumption DEF Kept, Blames, FailedOpen
    <2>2. \A i \in Failed(G) : i \in DOMAIN G.spans
      BY DEF Failed
    <2>3. CASE marker # "failed" \/ (b.stack = <<>> /\ FailedNowhere(F, b))
      <3>1. FailedNowhere(F, b)
        BY <2>1, <2>3 DEF MayEnd
      <3> QED BY <1>6, <1>7, <2>3, <3>1 DEF Blames, FailedNowhere
    <2>4. CASE marker = "failed" /\ b.stack # <<>>
      <3>1. Last(b.stack) = b.stack[1] /\ b.stack[1] \in Stages
        <4>1. b.stack = <<F.spans[n].stage>> /\ b.stack \in Seq(Stages)
          BY <1>0, <1>5, <2>4 DEF Entered, BuildType
        <4> QED BY <4>1 DEF Last
      <3>2. IsGreatest(n, Failed(G))
        BY <1>6, <2>2, <2>4 DEF IsGreatest
      <3>3. CASE FailedNowhere(F, b)
        <4>1. c.failedIn = b.stack[1] /\ G.spans[n].stage = b.stack[1]
          BY <1>6, <1>7, <2>4, <3>1, <3>3 DEF FailedNowhere
        <4>2. FailedLast(G, c)
          BY <1>6, <3>2, <4>1 DEF FailedLast, IsGreatest
        <4> QED BY <3>1, <4>1, <4>2, NoneAssumption DEF Blames
      <3>4. CASE b.failedIn # None /\ FailedLast(F, b)
        <4>1. PICK m : /\ IsGreatest(m, Failed(F)) /\ F.spans[m].stage = b.failedIn
                       /\ \A j \in Opened(F) : j <= m
          BY <3>4 DEF FailedLast, IsGreatest
        <4>2. /\ n \in Nat /\ DOMAIN F.spans = 1..n /\ n \in Opened(F)
              /\ b.stack = <<F.spans[n].stage>>
          BY <1>0, <1>5, <2>4 DEF Entered, IsSpans, Opened
        <4>3. m = n
          BY <4>1, <4>2 DEF IsGreatest, Failed
        <4>4. G.spans[n].stage = c.failedIn /\ c.failedIn = b.failedIn
          BY <1>6, <1>7, <2>4, <3>4, <4>1, <4>2, <4>3
        <4>5. FailedLast(G, c)
          BY <1>6, <3>2, <4>4 DEF FailedLast, IsGreatest
        <4> QED BY <3>4, <4>4, <4>5 DEF Blames
      <3> QED BY <2>1, <3>3, <3>4
    <2>5. b.stack = <<>> => b.failedIn = None
      BY DEF Kept, OpenInv
    <2> QED BY <2>1, <2>3, <2>4, <2>5
  <1> QED BY <1>1, <1>3, <1>6, <1>9, <1>10, <1>11, <1>12 DEF Kept

-----------------------------------------------------------------------------
(***************************************************************************)
(* The inductive invariant.                                                *)
(***************************************************************************)

TypeInv == now \in Nat /\ build \in BuildType /\ written \in Seq(EventType)

\* The spans of the file are kept with the build.
SpansInv == Kept(SpansFrom(build.version, written), build)

\* A document, saved or read, tells the status of the build or that it runs.
DocInv ==
    /\ progress.status \in {"running", StatusOf(build)}
    /\ read.progress.status \in {"running", StatusOf(build)}

\* What was read of the events: nothing follows a terminal event, and no span
\* of a build that was not refused is.
ReadSpans == SpansFrom(build.version, read.events)
ReadInv ==
    /\ ReadSpans.terminal # None => read.events = written
    /\ ~build.refused => NoneRefused(ReadSpans)

TimelineInv == TypeInv /\ SpansInv /\ DocInv /\ ReadInv

LEMMA NoSpansKept ==
  ASSUME NEW b \in BuildType, b.stack = <<>>, b.failedIn = None, ~b.refused, b.outcome = None
  PROVE  Kept(NoSpans, b) /\ NoneRefused(NoSpans) /\ NoSpans.terminal = None
  <1>1. /\ NoSpans.spans = <<>> /\ NoSpans.open = <<>> /\ NoSpans.terminal = None
        /\ DOMAIN NoSpans.spans = {}
    BY DEF NoSpans
  <1>2. Failed(NoSpans) = {} /\ Opened(NoSpans) = {} /\ NoneRefused(NoSpans)
    BY <1>1 DEF Failed, Opened, NoneRefused
  <1>3. IsSpans(NoSpans)
    BY DEF IsSpans, NoSpans
  <1>4. OpenInv(NoSpans, b)
    <2>1. Len(<<>>) = 0 /\ 1..0 = {}
      OBVIOUS
    <2> QED BY <1>1, <1>2, <2>1 DEF OpenInv, Nested, Entered
  <1>5. Blames(NoSpans, b)
    BY <1>2 DEF Blames, FailedNowhere
  <1>6. Told(NoSpans, b) /\ Refusals(NoSpans, b)
    BY <1>1, <1>2, NoneAssumption DEF Told, Refusals
  <1> QED BY <1>1, <1>2, <1>3, <1>4, <1>5, <1>6 DEF Kept

LEMMA InitTimeline == Init => TimelineInv
  <1> SUFFICES ASSUME Init PROVE TimelineInv
    OBVIOUS
  <1>1. PICK v \in Versions :
           build = [version |-> v, stack |-> <<>>, failedIn |-> None,
                    refused |-> FALSE, outcome |-> None, idleSince |-> 0]
    BY DEF Init
  <1>2. /\ build \in BuildType /\ build.stack = <<>> /\ build.failedIn = None
        /\ ~build.refused /\ build.outcome = None
    <2>1. v \in 1..3 /\ <<>> \in Seq(Stages)
      BY VersionsAssumption
    <2>2. build \in BuildType
      BY <1>1, <2>1 DEF BuildType
    <2> QED BY <1>1, <2>2
  <1>3. TypeInv
    BY <1>2 DEF TypeInv, Init
  <1>4. SpansFrom(build.version, <<>>) = NoSpans
    BY SpansOfNothing
  <1>5. Kept(NoSpans, build) /\ NoneRefused(NoSpans) /\ NoSpans.terminal = None
    BY <1>2, NoSpansKept
  <1>6. written = <<>> /\ read.events = <<>> /\ progress = Document(build) /\ read.progress = progress
    BY DEF Init
  <1>7. SpansInv /\ ReadInv
    BY <1>4, <1>5, <1>6 DEF SpansInv, ReadInv, ReadSpans
  <1>8. DocInv
    BY <1>6 DEF DocInv, Document
  <1> QED BY <1>3, <1>7, <1>8 DEF TimelineInv

\* An event is reported by a build that runs, and keeps what its spans are kept
\* with.
LEMMA ReportKeeps ==
  ASSUME TimelineInv, NEW e \in EventType, Report(e), build' \in BuildType,
         build'.version = build.version, build.refused => build'.refused,
         Kept(Advance(build.version, SpansFrom(build.version, written), e), build')
  PROVE  TimelineInv'
  <1>1. /\ build.outcome = None /\ written' = Append(written, e) /\ now' = now
        /\ progress' = progress /\ read' = read
    BY DEF Report
  <1>2. written \in Seq(EventType) /\ now \in Nat
    BY DEF TimelineInv, TypeInv
  <1>3. TypeInv'
    BY <1>1, <1>2 DEF TypeInv
  <1>4. SpansFrom(build.version, written') = Advance(build.version, SpansFrom(build.version, written), e)
    BY <1>1, <1>2, SpansOfAppend
  <1>5. SpansInv'
    BY <1>4 DEF SpansInv
  <1>6. progress.status = "running" /\ read.progress.status = "running"
    BY <1>1 DEF TimelineInv, DocInv, StatusOf
  <1>7. DocInv'
    BY <1>1, <1>6 DEF DocInv
  <1>8. ReadSpans.terminal = None
    BY <1>1 DEF TimelineInv, ReadInv, ReadSpans, SpansInv, Kept, Told
  <1>9. ReadSpans' = ReadSpans
    BY <1>1 DEF ReadSpans
  <1>10. ReadInv'
    BY <1>1, <1>8, <1>9 DEF TimelineInv, ReadInv
  <1> QED BY <1>3, <1>5, <1>7, <1>10 DEF TimelineInv

-----------------------------------------------------------------------------
(***************************************************************************)
(* The steps.                                                              *)
(***************************************************************************)

LEMMA StartStep ==
  ASSUME TimelineInv, NEW s \in Stages, Start(s)
  PROVE  TimelineInv'
  <1>1. PICK e : e = Event("started", s, FALSE, None)
    OBVIOUS
  <1>2. now \in Nat /\ build \in BuildType /\ SpansInv
    BY DEF TimelineInv, TypeInv
  <1>3. e \in EventType /\ e.status = "started" /\ e.stage = s
    BY <1>1, <1>2 DEF Event, EventType
  <1>4. /\ build.version > 1 /\ build.failedIn = None /\ build.outcome = None /\ Report(e)
        /\ build' = [build EXCEPT !.stack = Append(@, s)]
    BY <1>1 DEF Start, Report
  <1>5. build' \in BuildType /\ build'.version = build.version /\ build'.refused = build.refused
    BY <1>2, <1>4 DEF BuildType
  <1>6. Kept(Advance(build.version, SpansFrom(build.version, written), e), build')
    BY <1>2, <1>3, <1>4, StartKeeps DEF SpansInv
  <1> QED BY <1>3, <1>4, <1>5, <1>6, ReportKeeps

LEMMA FinishStep ==
  ASSUME TimelineInv, NEW status \in {"completed", "failed"}, NEW blocking \in BOOLEAN,
         Finish(status, blocking)
  PROVE  TimelineInv'
  <1>1. PICK e : e = Event(status, Last(build.stack), blocking, None)
    OBVIOUS
  <1>2. now \in Nat /\ build \in BuildType /\ SpansInv /\ build.stack # <<>>
    BY DEF TimelineInv, TypeInv, Finish
  <1>3. /\ build.stack \in Seq(Stages) /\ Last(build.stack) \in Stages
        /\ Front(build.stack) \in Seq(Stages)
    BY <1>2 DEF BuildType, Last, Front
  <1>4. e \in EventType /\ e.status = status /\ e.stage = Last(build.stack) /\ e.blocking = blocking
    BY <1>1, <1>2, <1>3 DEF Event, EventType
  <1>5. PICK t : t = IF Front(build.stack) = <<>> THEN now ELSE build.idleSince
    OBVIOUS
  <1>6. /\ build.version > 1 /\ build.outcome = None /\ Report(e)
        /\ build.failedIn # None => status = "failed"
        /\ blocking => status = "completed" /\ ~build.refused
        /\ build' = FinishedBy(build, status, blocking, t)
    BY <1>1, <1>2, <1>5 DEF Finish, Report, BuildType, FinishedBy
  <1>7. /\ build' \in BuildType /\ build'.version = build.version
        /\ build.refused => build'.refused
    <2>1. t \in Int /\ (build.refused \/ blocking) \in BOOLEAN
      BY <1>2, <1>5 DEF BuildType
    <2>2. PICK f : f = IF status = "failed" /\ build.failedIn = None THEN Last(build.stack)
                       ELSE build.failedIn
      OBVIOUS
    <2>3. f \in Stages \cup {None}
      BY <1>2, <1>3, <2>2 DEF BuildType
    <2>4. build' = [build EXCEPT !.stack = Front(build.stack), !.idleSince = t,
                       !.refused = (build.refused \/ blocking), !.failedIn = f]
      BY <1>2, <1>6, <2>2 DEF FinishedBy, BuildType
    <2> QED BY <1>2, <1>3, <2>1, <2>3, <2>4 DEF BuildType
  <1>8. Kept(Advance(build.version, SpansFrom(build.version, written), e),
             FinishedBy(build, status, blocking, t))
    <2>1. Kept(SpansFrom(build.version, written), build)
      BY <1>2 DEF SpansInv
    <2> QED BY <1>2, <1>4, <1>6, <2>1, FinishKeeps
  <1> QED BY <1>4, <1>6, <1>7, <1>8, ReportKeeps

LEMMA ObserveStep ==
  ASSUME TimelineInv, NEW s \in Stages, Observe(s)
  PROVE  TimelineInv'
  <1>1. PICK e : e = Event("completed", s, FALSE, now - build.idleSince)
    OBVIOUS
  <1>2. now \in Nat /\ build \in BuildType /\ SpansInv
    BY DEF TimelineInv, TypeInv
  <1>3. e \in EventType /\ e.status = "completed" /\ e.stage = s /\ ~e.blocking
    <2>1. now - build.idleSince \in Int
      BY <1>2 DEF BuildType
    <2> QED BY <1>1, <1>2, <2>1 DEF Event, EventType
  <1>4. PICK t : t = IF build.stack = <<>> THEN now ELSE build.idleSince
    OBVIOUS
  <1>5. /\ build.version > 1 /\ build.failedIn = None /\ build.outcome = None /\ Report(e)
        /\ build' = [build EXCEPT !.idleSince = t]
    BY <1>1, <1>2, <1>4 DEF Observe, Report, BuildType
  <1>6. \A k \in 1..Len(build.stack) : build.stack[k] # s
    BY <1>2 DEF Observe, Range, BuildType
  <1>7. build' \in BuildType /\ build'.version = build.version /\ build'.refused = build.refused
    BY <1>2, <1>4, <1>5 DEF BuildType
  <1>8. Kept(Advance(build.version, SpansFrom(build.version, written), e), build')
    BY <1>2, <1>3, <1>5, <1>6, <1>7, ObserveKeeps DEF SpansInv
  <1> QED BY <1>3, <1>5, <1>7, <1>8, ReportKeeps

LEMMA EnterStep ==
  ASSUME TimelineInv, NEW s \in Stages, Enter(s)
  PROVE  TimelineInv'
  <1>1. PICK e : e = Event("running", s, FALSE, None)
    OBVIOUS
  <1>2. now \in Nat /\ build \in BuildType /\ SpansInv
    BY DEF TimelineInv, TypeInv
  <1>3. e \in EventType /\ e.status = "running" /\ e.stage = s
    BY <1>1, <1>2 DEF Event, EventType
  <1>4. /\ build.version = 1 /\ build.failedIn = None /\ build.outcome = None /\ Report(e)
        /\ build' = [build EXCEPT !.stack = <<e.stage>>]
    BY <1>1, <1>3 DEF Enter, Report
  <1>5. build' \in BuildType /\ build'.version = build.version /\ build'.refused = build.refused
    <2>1. <<e.stage>> \in Seq(Stages)
      BY <1>3
    <2> QED BY <1>2, <1>4, <2>1 DEF BuildType
  <1>6. Kept(Advance(build.version, SpansFrom(build.version, written), e), build')
    BY <1>2, <1>3, <1>4, EnterKeeps DEF SpansInv
  <1> QED BY <1>3, <1>4, <1>5, <1>6, ReportKeeps

LEMMA FailInStageStep ==
  ASSUME TimelineInv, FailInStage
  PROVE  TimelineInv'
  <1>1. PICK e : e = Event("failed", build.stack[1], FALSE, None)
    OBVIOUS
  <1>2. now \in Nat /\ build \in BuildType /\ SpansInv /\ build.stack # <<>>
    BY DEF TimelineInv, TypeInv, FailInStage
  <1>3. build.stack[1] \in Stages
    BY <1>2 DEF BuildType
  <1>4. e \in EventType /\ e.status = "failed" /\ e.stage = build.stack[1]
    BY <1>1, <1>2, <1>3 DEF Event, EventType
  <1>5. /\ build.version = 1 /\ build.failedIn = None /\ build.outcome = None /\ Report(e)
        /\ build' = [build EXCEPT !.failedIn = build.stack[1]]
    BY <1>1 DEF FailInStage, Report
  <1>6. build' \in BuildType /\ build'.version = build.version /\ build'.refused = build.refused
    BY <1>2, <1>3, <1>5 DEF BuildType
  <1>7. Kept(Advance(build.version, SpansFrom(build.version, written), e), build')
    BY <1>2, <1>4, <1>5, FailKeeps DEF SpansInv
  <1> QED BY <1>4, <1>5, <1>6, <1>7, ReportKeeps

LEMMA EndStep ==
  ASSUME TimelineInv, NEW marker \in {"complete", "failed", "blocked"}, End(marker)
  PROVE  TimelineInv'
  <1>1. PICK e : e = Event(IF marker = "failed" THEN "failed" ELSE "completed", marker, FALSE, None)
    OBVIOUS
  <1>2. now \in Nat /\ build \in BuildType /\ SpansInv
    BY DEF TimelineInv, TypeInv
  <1>3. e \in EventType /\ e.stage = marker
    BY <1>1, <1>2 DEF Event, EventType, Markers
  <1>4. MayEnd(build, marker) /\ build.outcome = None /\ Report(e)
    BY <1>1 DEF End, MayEnd, Report
  <1>5. build' = EndsBy(build, marker)
    BY DEF End, EndsBy
  <1>6. EndsBy(build, marker) \in BuildType
    <2>1. build.stack # <<>> => Last(build.stack) \in Stages
      BY <1>2 DEF BuildType, Last
    <2>2. Outcomes[marker] \in {"passed", "blocked", "failed"}
      BY DEF Outcomes
    <2> QED BY <1>2, <2>1, <2>2 DEF EndsBy, BuildType
  <1>7. /\ build' \in BuildType /\ build'.version = build.version
        /\ build'.refused = build.refused
    BY <1>2, <1>5, <1>6 DEF EndsBy, BuildType
  <1>8. Kept(Advance(build.version, SpansFrom(build.version, written), e), EndsBy(build, marker))
    <2>1. Kept(SpansFrom(build.version, written), build)
      BY <1>2 DEF SpansInv
    <2>2. CASE build.version > 1
      BY <1>2, <1>3, <1>4, <2>1, <2>2, EndKeepsNested
    <2>3. CASE build.version = 1
      BY <1>2, <1>3, <1>4, <2>1, <2>3, EndKeepsEntered
    <2> QED BY <1>2, <2>2, <2>3 DEF BuildType
  <1> QED BY <1>3, <1>4, <1>5, <1>7, <1>8, ReportKeeps

\* The files are saved and read, or time passes.
LEMMA OtherSteps ==
  ASSUME TimelineInv,
         \/ \E epoch \in 1..PassEpochs : LogEpoch(epoch)
         \/ Save \/ ReadEvents \/ ReadProgress \/ Tick
         \/ UNCHANGED vars
  PROVE  TimelineInv'
  <1>0. now \in Nat
    BY DEF TimelineInv, TypeInv
  <1>1. build' = build /\ written' = written /\ now' \in Nat
    <2>1. CASE Tick
      BY <1>0, <2>1 DEF Tick
    <2>2. CASE ~Tick
      <3>1. build' = build /\ written' = written /\ now' = now
        BY <2>2 DEF LogEpoch, Save, ReadEvents, ReadProgress, vars
      <3> QED BY <1>0, <3>1
    <2> QED BY <2>1, <2>2
  <1>2. TypeInv' /\ SpansInv'
    BY <1>1 DEF TimelineInv, TypeInv, SpansInv
  <1>3. /\ progress' = progress \/ progress' = Document(build)
        /\ \/ read'.progress = read.progress
           \/ read'.progress = progress /\ progress' = progress
        /\ \/ read'.events = read.events
           \/ read'.events = written
    <2>1. CASE ReadEvents
      BY <2>1 DEF ReadEvents, TimelineInv
    <2>2. CASE ReadProgress
      BY <2>2 DEF ReadProgress
    <2>3. CASE read' = read
      BY <2>3 DEF LogEpoch, Save, ReadEvents, ReadProgress, Tick, vars
    <2> QED BY <2>1, <2>2, <2>3 DEF LogEpoch, Save, Tick, vars
  <1>4. DocInv'
    BY <1>1, <1>3 DEF TimelineInv, DocInv, Document, StatusOf
  <1>5. ReadInv'
    <2>1. CASE read'.events = read.events
      <3>1. ReadSpans' = ReadSpans
        BY <1>1, <2>1 DEF ReadSpans
      <3> QED BY <1>1, <2>1, <3>1 DEF TimelineInv, ReadInv
    <2>2. CASE read'.events = written
      <3>1. ReadSpans' = SpansFrom(build.version, written)
        BY <1>1, <2>2 DEF ReadSpans
      <3>2. ~build.refused => NoneRefused(SpansFrom(build.version, written))
        BY DEF TimelineInv, SpansInv, Kept, Refusals
      <3> QED BY <1>1, <2>2, <3>1, <3>2 DEF ReadInv
    <2> QED BY <1>3, <2>1, <2>2
  <1> QED BY <1>2, <1>4, <1>5 DEF TimelineInv

LEMMA NextTimeline == TimelineInv /\ [Next]_vars => TimelineInv'
  <1> SUFFICES ASSUME TimelineInv, [Next]_vars PROVE TimelineInv'
    OBVIOUS
  <1>1. ASSUME NEW s \in Stages, Start(s) \/ Observe(s) \/ Enter(s) PROVE TimelineInv'
    BY <1>1, StartStep, ObserveStep, EnterStep
  <1>2. ASSUME NEW status \in {"completed", "failed"}, NEW blocking \in BOOLEAN,
               Finish(status, blocking)
        PROVE  TimelineInv'
    BY <1>2, FinishStep
  <1>3. CASE FailInStage
    BY <1>3, FailInStageStep
  <1>4. ASSUME NEW marker \in {"complete", "failed", "blocked"}, End(marker)
        PROVE  TimelineInv'
    BY <1>4, EndStep
  <1>5. CASE \/ \E epoch \in 1..PassEpochs : LogEpoch(epoch)
             \/ Save \/ ReadEvents \/ ReadProgress \/ Tick
             \/ UNCHANGED vars
    BY <1>5, OtherSteps
  <1> QED BY <1>1, <1>2, <1>3, <1>4, <1>5 DEF Next

-----------------------------------------------------------------------------
(***************************************************************************)
(* What is shown.                                                          *)
(***************************************************************************)

\* The state shown of what was read, when a document saved at time u tells the
\* status.
ToldState(R, status, u, clock, gap) ==
    LET recorded == RunState(status, u, clock, gap)
    IN  IF recorded = "running" /\ R.terminal # None
        THEN Outcomes[R.terminal.stage] ELSE recorded

EndOf(R, state, u) ==
    IF state \notin FinalStates THEN None
    ELSE IF R.terminal # None THEN R.terminal.time ELSE u

Shows(run, R, state, u) ==
    /\ run.state = state
    /\ run.failure = FailureStage(Closed(R.spans, state, IF state = "stalled" THEN u
                                                         ELSE EndOf(R, state, u)), state)

LEMMA ShownIs ==
  \E u, gap : Shows(Shown, ReadSpans,
                    RefusedState(build.version,
                                 ToldState(ReadSpans, read.progress.status, u, now, gap),
                                 ReadSpans.spans), u)
  <1>1. PICK u : u = Max({read.progress.updated} \cup {read.events[i].time : i \in DOMAIN read.events}
                       \cup {read.epochs[i].time : i \in DOMAIN read.epochs}
                       \cup ({read.progress.heartbeat} \ {None}))
    OBVIOUS
  <1>2. PICK gap : gap = IF read.progress.heartbeat # None THEN HeartbeatStaleAfter ELSE StallAfter
    OBVIOUS
  <1>3. Shows(Shown, ReadSpans,
              RefusedState(build.version,
                           ToldState(ReadSpans, read.progress.status, u, now, gap),
                           ReadSpans.spans), u)
    BY <1>1, <1>2 DEF Shows, Shown, Timeline, ReadSpans, ToldState, EndOf
  <1> QED BY <1>3

\* Of a closed run, the spans that failed are those that had, and the innermost
\* of those that were open.
LEMMA ClosedFails ==
  ASSUME NEW F, IsSpans(F), NEW at, at # None
  PROVE  LET C == Closed(F.spans, "failed", at)
         IN  /\ DOMAIN C = DOMAIN F.spans
             /\ \A i \in DOMAIN F.spans : C[i].stage = F.spans[i].stage
             /\ {i \in DOMAIN C : C[i].status = "failed"}
                  = Failed(F) \cup (Opened(F) \cap {Innermost(F.spans, Opened(F))})
  <1>1. PICK C : C = Closed(F.spans, "failed", at)
    OBVIOUS
  <1>2. PICK k : k = Innermost(F.spans, Opened(F))
    OBVIOUS
  <1> DEFINE Status(i) == IF i = k THEN "failed"
                          ELSE IF F.spans[i].status = "running" THEN "completed"
                          ELSE F.spans[i].status
  <1>3. C = [i \in DOMAIN F.spans |->
               IF i \notin Opened(F) THEN F.spans[i]
               ELSE [F.spans[i] EXCEPT !.end = Max({at, F.spans[i].start}), !.status = Status(i)]]
    BY <1>1, <1>2 DEF Closed, Opened
  <1>4. \A i \in DOMAIN F.spans : F.spans[i] \in SpanType
    BY DEF IsSpans
  <1>5. DOMAIN C = DOMAIN F.spans
    BY <1>3
  <1>6. ASSUME NEW i \in DOMAIN F.spans
        PROVE  /\ C[i].stage = F.spans[i].stage
               /\ C[i].status = IF i \notin Opened(F) THEN F.spans[i].status ELSE Status(i)
    <2>1. PICK x : x = F.spans[i]
      OBVIOUS
    <2>2. x \in SpanType
      BY <1>4, <2>1
    <2>3. CASE i \notin Opened(F)
      BY <1>3, <2>3
    <2>4. CASE i \in Opened(F)
      <3>1. PICK y, z : y = Max({at, F.spans[i].start}) /\ z = Status(i)
        OBVIOUS
      <3>2. C[i] = [x EXCEPT !.end = y, !.status = z]
        BY <1>3, <2>1, <2>4, <3>1
      <3>3. C[i].stage = x.stage /\ C[i].status = z
        BY <2>2, <3>2 DEF SpanType
      <3> QED BY <2>1, <2>4, <3>1, <3>3
    <2> QED BY <2>3, <2>4
  <1>7. {i \in DOMAIN C : C[i].status = "failed"} = Failed(F) \cup (Opened(F) \cap {k})
    <2>1. \A i \in DOMAIN F.spans : C[i].status = "failed" <=>
             (i \in Failed(F) \/ (i \in Opened(F) /\ i = k))
      BY <1>6 DEF Failed
    <2> QED BY <1>5, <2>1 DEF Failed, Opened
  <1> QED BY <1>1, <1>2, <1>5, <1>6, <1>7

\* The failure of a failed run is where the build failed.
LEMMA FailureIsBlamed ==
  ASSUME NEW F, NEW b, IsSpans(F), Blames(F, b), ~b.refused, b.outcome = "failed",
         NEW at, at # None
  PROVE  FailureStage(Closed(F.spans, "failed", at), "failed") = b.failedIn
  <1>1. PICK C : C = Closed(F.spans, "failed", at)
    OBVIOUS
  <1>2. PICK k : k = Innermost(F.spans, Opened(F))
    OBVIOUS
  <1>3. PICK faulty : faulty = {i \in DOMAIN C : C[i].status = "failed"}
    OBVIOUS
  <1>4. /\ \A i \in DOMAIN F.spans : C[i].stage = F.spans[i].stage
        /\ faulty = Failed(F) \cup (Opened(F) \cap {k})
    BY <1>1, <1>2, <1>3, ClosedFails
  <1>5. FailureStage(C, "failed") = IF faulty = {} THEN None ELSE C[Max(faulty)].stage
    BY <1>3 DEF FailureStage
  <1>6. /\ DOMAIN F.spans \subseteq Int /\ Failed(F) \subseteq DOMAIN F.spans
        /\ Opened(F) \subseteq DOMAIN F.spans /\ faulty \subseteq Int
        /\ \A i \in DOMAIN F.spans : F.spans[i].depth \in Nat
    <2>1. /\ DOMAIN F.spans \subseteq Int /\ Failed(F) \subseteq DOMAIN F.spans
          /\ Opened(F) \subseteq DOMAIN F.spans
      BY DEF IsSpans, Failed, Opened
    <2>2. \A i \in DOMAIN F.spans : F.spans[i] \in SpanType
      BY DEF IsSpans
    <2>3. \A i \in DOMAIN F.spans : F.spans[i].depth \in Nat
      BY <2>2 DEF SpanType
    <2> QED BY <1>4, <2>1, <2>3
  <1>7. CASE FailedNowhere(F, b)
    BY <1>1, <1>4, <1>5, <1>7 DEF FailedNowhere
  <1>8. CASE FailedLast(F, b)
    <2>1. PICK m : /\ m \in Failed(F) /\ IsGreatest(m, Failed(F)) /\ F.spans[m].stage = b.failedIn
                   /\ \A j \in Opened(F) : j <= m
      BY <1>8 DEF FailedLast
    <2>2. IsGreatest(m, faulty)
      BY <1>4, <2>1 DEF IsGreatest
    <2>3. Max(faulty) = m
      BY <1>6, <2>2, GreatestIsMax
    <2> QED BY <1>1, <1>4, <1>5, <1>6, <2>1, <2>3
  <1>9. CASE FailedOpen(F, b)
    <2>1. PICK m \in Opened(F) : /\ F.spans[m].stage = b.failedIn
                                 /\ \A j \in Opened(F) : j # m =>
                                       F.spans[j].depth < F.spans[m].depth
      BY <1>9 DEF FailedOpen
    <2> DEFINE Inner(i) == \A j \in Opened(F) :
                              \/ F.spans[j].depth < F.spans[i].depth
                              \/ F.spans[j].depth = F.spans[i].depth /\ j <= i
    <2>2. Inner(m)
      BY <1>6, <2>1
    <2>3. \A i \in Opened(F) : Inner(i) => i = m
      <3> SUFFICES ASSUME NEW i \in Opened(F), Inner(i), i # m PROVE FALSE
        OBVIOUS
      <3>1. F.spans[i].depth < F.spans[m].depth
        BY <2>1
      <3>2. ~(F.spans[m].depth < F.spans[i].depth) /\ F.spans[m].depth # F.spans[i].depth
        BY <1>6, <3>1
      <3> QED BY <3>2
    <2>4. k = CHOOSE i \in Opened(F) : Inner(i)
      BY <1>2 DEF Innermost
    <2> HIDE DEF Inner
    <2>5. k = m
      BY <2>2, <2>3, <2>4
    <2>6. faulty = {m}
      BY <1>4, <1>9, <2>5 DEF FailedOpen
    <2>7. Max(faulty) = m
      <3>1. IsGreatest(m, faulty)
        BY <1>6, <2>6 DEF IsGreatest
      <3> QED BY <1>6, <3>1, GreatestIsMax
    <2> QED BY <1>1, <1>4, <1>5, <1>6, <2>1, <2>6, <2>7
  <1> QED BY <1>7, <1>8, <1>9 DEF Blames

\* A state that is shown as an end is the outcome, or the completed status of a
\* refusal by version 2, of which not all events are read.
LEMMA EndIsTold ==
  ASSUME TimelineInv, NEW u, NEW gap, NEW state,
         state = RefusedState(build.version,
                              ToldState(ReadSpans, read.progress.status, u, now, gap),
                              ReadSpans.spans),
         state \in FinalStates
  PROVE  \/ state = build.outcome
         \/ /\ build.version = 2 /\ build.outcome = "blocked"
            /\ state = "passed" /\ read.events # written
  <1>1. PICK R : R = ReadSpans
    OBVIOUS
  <1>2. PICK told : told = ToldState(R, read.progress.status, u, now, gap)
    OBVIOUS
  <1>3. PICK recorded : recorded = RunState(read.progress.status, u, now, gap)
    OBVIOUS
  <1>4. told = IF recorded = "running" /\ R.terminal # None THEN Outcomes[R.terminal.stage]
               ELSE recorded
    BY <1>2, <1>3 DEF ToldState
  <1>5. state = IF build.version = 2 /\ told = "passed" /\ ~NoneRefused(R) THEN "blocked" ELSE told
    BY <1>1, <1>2 DEF RefusedState, NoneRefused
  <1>6. /\ R.terminal # None => read.events = written
        /\ ~build.refused => NoneRefused(R)
    BY <1>1 DEF TimelineInv, ReadInv
  <1>7. read.events = written => Kept(R, build)
    BY <1>1 DEF TimelineInv, SpansInv, ReadSpans
  <1>8. /\ build.refused => build.version > 1 /\ (build.version = 2 => build.outcome \in {None, "blocked"})
        /\ build.version = 2 /\ build.outcome = "blocked" => build.refused
    BY DEF TimelineInv, SpansInv, Kept, Refusals
  <1>9. build.outcome \in {None, "passed", "blocked", "failed"}
    BY DEF TimelineInv, TypeInv, BuildType
  <1>10. CASE read.progress.status = "running"
    <2>1. recorded \in {"running", "stalled"}
      BY <1>3, <1>10 DEF RunState
    <2>2. R.terminal # None
      BY <1>4, <1>5, <2>1 DEF FinalStates
    <2>3. Kept(R, build) /\ build.outcome # None
      BY <1>6, <1>7, <2>2 DEF Kept, Told
    <2>4. /\ NoneRefused(R) <=> ~build.refused
          /\ Tells(R, build)
      BY <2>3 DEF Kept, Refusals, Told
    <2>5. recorded = "running"
      BY <1>4, <1>5, <2>1 DEF FinalStates
    <2>6. told = Outcomes[R.terminal.stage]
      BY <1>4, <2>2, <2>5
    <2>7. CASE build.outcome = told
      BY <1>5, <1>8, <2>3, <2>4, <2>7
    <2>8. CASE build.version = 2 /\ build.outcome = "blocked" /\ R.terminal.stage = "complete"
      BY <1>5, <1>8, <2>4, <2>6, <2>8 DEF Outcomes
    <2> QED BY <2>4, <2>6, <2>7, <2>8 DEF Tells
  <1>11. CASE read.progress.status # "running"
    <2>1. read.progress.status = StatusOf(build) /\ build.outcome # None
      BY <1>11 DEF TimelineInv, DocInv, StatusOf
    <2>2. CASE build.version = 2 /\ build.outcome = "blocked"
      <3>1. read.progress.status = "completed"
        BY <2>1, <2>2 DEF StatusOf
      <3>2. told = "passed"
        BY <1>3, <1>4, <3>1 DEF RunState
      <3>3. read.events = written => ~NoneRefused(R)
        BY <1>7, <1>8, <2>2 DEF Kept, Refusals
      <3> QED BY <1>5, <2>2, <3>2, <3>3
    <2>3. CASE ~(build.version = 2 /\ build.outcome = "blocked")
      <3>1. read.progress.status = build.outcome
        BY <2>1, <2>3 DEF StatusOf
      <3>2. told = build.outcome
        BY <1>3, <1>4, <1>9, <2>1, <3>1 DEF RunState
      <3>3. build.version = 2 /\ build.outcome = "passed" => NoneRefused(R)
        BY <1>6, <1>8, <2>1
      <3> QED BY <1>5, <3>2, <3>3
    <2> QED BY <2>2, <2>3
  <1> QED BY <1>10, <1>11

LEMMA TimelineEnds == TimelineInv => EndsAreTrue
  <1> SUFFICES ASSUME TimelineInv PROVE EndsAreTrue
    OBVIOUS
  <1>1. PICK u, gap : Shows(Shown, ReadSpans,
                            RefusedState(build.version,
                                         ToldState(ReadSpans, read.progress.status, u, now, gap),
                                         ReadSpans.spans), u)
    BY ShownIs
  <1>2. PICK state : state = RefusedState(build.version,
                                ToldState(ReadSpans, read.progress.status, u, now, gap),
                                ReadSpans.spans)
    OBVIOUS
  <1>3. /\ Shown.state = state
        /\ Shown.failure = FailureStage(Closed(ReadSpans.spans, state,
                                               IF state = "stalled" THEN u
                                               ELSE EndOf(ReadSpans, state, u)), state)
    BY <1>1, <1>2 DEF Shows
  <1>4. state \in FinalStates =>
          \/ state = build.outcome
          \/ /\ build.version = 2 /\ build.outcome = "blocked"
             /\ state = "passed" /\ read.events # written
    BY <1>2, EndIsTold
  <1>5. ASSUME UpToDate, state = "failed", ~build.refused PROVE Shown.failure = build.failedIn
    <2>1. PICK F : F = ReadSpans
      OBVIOUS
    <2>2. read.events = written
      BY <1>5 DEF UpToDate
    <2>3. Kept(F, build)
      BY <2>1, <2>2 DEF TimelineInv, SpansInv, ReadSpans
    <2>4. build.outcome = "failed"
      BY <1>4, <1>5 DEF FinalStates
    <2>5. F.terminal \in EventType
      BY <2>3, <2>4, NoneAssumption DEF Kept, Told
    <2>6. PICK at : at = EndOf(F, state, u)
      OBVIOUS
    <2>7. F.terminal # None /\ F.terminal.time \in Nat
      BY <2>5, NoneAssumption DEF EventType
    <2>8. at # None
      BY <1>5, <2>6, <2>7, NoneAssumption DEF EndOf, FinalStates
    <2>9. Shown.failure = FailureStage(Closed(F.spans, "failed", at), "failed")
      BY <1>3, <1>5, <2>1, <2>6
    <2>10. FailureStage(Closed(F.spans, "failed", at), "failed") = build.failedIn
      BY <1>5, <2>3, <2>4, <2>8, FailureIsBlamed DEF Kept
    <2> QED BY <2>9, <2>10
  <1> QED BY <1>3, <1>4, <1>5 DEF EndsAreTrue

\* A run that the page shows as ended did end so, whatever was read of its event
\* file and when, except that a refusal by version 2 is read as passed until its
\* events are; and a failed run names the stage that it failed in (runState,
\* spansFromLifecycle, spansFromTransitions and failure.stage).
THEOREM EndsAreAlwaysTrue == Spec => []EndsAreTrue
  <1>1. Init => TimelineInv
    BY InitTimeline
  <1>2. TimelineInv /\ [Next]_vars => TimelineInv'
    BY NextTimeline
  <1>3. TimelineInv => EndsAreTrue
    BY TimelineEnds
  <1> QED BY <1>1, <1>2, <1>3, PTL DEF Spec

\* The spans that are open in the event file are the stages that the build has
\* open: by schemas 2 and 3 all of them, in their order and at their depth,
\* whatever stages repeat or are closed by name (spansFromLifecycle), and by
\* schema 1 the last one alone, until the run ends (spansFromTransitions).
THEOREM OpenSpansAreTheStack == Spec => []OpenInv(SpansFrom(build.version, written), build)
  <1>1. Init => TimelineInv
    BY InitTimeline
  <1>2. TimelineInv /\ [Next]_vars => TimelineInv'
    BY NextTimeline
  <1>3. TimelineInv => OpenInv(SpansFrom(build.version, written), build)
    BY DEF TimelineInv, SpansInv, Kept
  <1> QED BY <1>1, <1>2, <1>3, PTL DEF Spec

-----------------------------------------------------------------------------
(***************************************************************************)
(* Other folds: of any step, given as a function f of what was folded and  *)
(* the next element, and any elements, at[1] to at[n].                     *)
(***************************************************************************)

OneStep(f, base, at, h, s) ==
    IF s = {} THEN base ELSE f[h[s \ {Max(s)}]][at[Max(s)]]

StepsUpto(f, base, at, h, n, k) ==
    \A s \in SUBSET (1..n) : s \subseteq 1..k => h[s] = OneStep(f, base, at, h, s)

FoldType(f, base, at, n, S, T) ==
    base \in S /\ n \in Nat /\ at \in [1..n -> T] /\ f \in [S -> [T -> S]]

\* There is a function that folds every set of the elements.
Runs(f, base, at, n, S, T) ==
    \E h \in [SUBSET (1..n) -> S] :
        \A s \in SUBSET (1..n) :
            /\ h[s] = OneStep(f, base, at, h, s)
            /\ s # {} => h[s \ {Max(s)}] \in S /\ at[Max(s)] \in T

LEMMA FoldRuns ==
  ASSUME NEW f, NEW base, NEW at, NEW n, NEW S, NEW T, FoldType(f, base, at, n, S, T)
  PROVE  Runs(f, base, at, n, S, T)
  <1> USE DEF FoldType
  <1> DEFINE Good == {k \in Nat : \E h \in [SUBSET (1..n) -> S] : StepsUpto(f, base, at, h, n, k)}
  <1>1. 0 \in Good
    <2> DEFINE h == [s \in SUBSET (1..n) |-> base]
    <2>1. ASSUME NEW s \in SUBSET (1..n), s \subseteq 1..0 PROVE h[s] = OneStep(f, base, at, h, s)
      <3>1. s = {}
        BY <2>1
      <3> QED BY <3>1 DEF OneStep
    <2>2. StepsUpto(f, base, at, h, n, 0) /\ h \in [SUBSET (1..n) -> S]
      BY <2>1 DEF StepsUpto
    <2> QED BY <2>2
  <1>2. ASSUME NEW k \in Nat, k \in Good PROVE k + 1 \in Good
    <2>1. PICK h \in [SUBSET (1..n) -> S] : StepsUpto(f, base, at, h, n, k)
      BY <1>2
    <2> DEFINE g == [s \in SUBSET (1..n) |-> IF s \subseteq 1..(k + 1)
                                             THEN OneStep(f, base, at, h, s) ELSE base]
    <2>2. ASSUME NEW s \in SUBSET (1..n), s \subseteq 1..(k + 1)
          PROVE  /\ OneStep(f, base, at, h, s) \in S
                 /\ OneStep(f, base, at, h, s) = OneStep(f, base, at, g, s)
      <3>1. CASE s = {}
        BY <3>1 DEF OneStep
      <3>2. CASE s # {}
        <4>1. PICK m : m = Max(s)
          OBVIOUS
        <4>2. s \ {m} \in SUBSET (1..n) /\ s \ {m} \subseteq 1..k /\ m \in 1..n
          BY <2>2, <3>2, <4>1, WithoutGreatest
        <4>3. h[s \ {m}] \in S /\ at[m] \in T
          BY <4>2
        <4>4. h[s \ {m}] = OneStep(f, base, at, h, s \ {m})
          BY <2>1, <4>2 DEF StepsUpto
        <4>5. s \ {m} \subseteq 1..(k + 1)
          BY <4>2
        <4>6. g[s \ {m}] = h[s \ {m}]
          BY <4>2, <4>4, <4>5
        <4>7. f[h[s \ {m}]][at[m]] \in S
          BY <4>3
        <4> HIDE DEF g
        <4> QED BY <3>2, <4>1, <4>6, <4>7 DEF OneStep
      <3> QED BY <3>1, <3>2
    <2>3. g \in [SUBSET (1..n) -> S]
      BY <2>2
    <2>4. \A s \in SUBSET (1..n) : s \subseteq 1..(k + 1) => g[s] = OneStep(f, base, at, h, s)
      OBVIOUS
    <2> HIDE DEF g
    <2>5. StepsUpto(f, base, at, g, n, k + 1)
      BY <2>2, <2>4 DEF StepsUpto
    <2> QED BY <2>3, <2>5
  <1>3. n \in Good
    <2> HIDE DEF Good
    <2> QED BY <1>1, <1>2, AllNumbers
  <1>4. PICK h \in [SUBSET (1..n) -> S] : StepsUpto(f, base, at, h, n, n)
    BY <1>3
  <1>5. ASSUME NEW s \in SUBSET (1..n), s # {}
        PROVE  h[s \ {Max(s)}] \in S /\ at[Max(s)] \in T
    <2>1. IsGreatest(Max(s), s)
      BY <1>5, GreatestExists
    <2>2. Max(s) \in 1..n /\ s \ {Max(s)} \in SUBSET (1..n)
      BY <2>1 DEF IsGreatest
    <2> QED BY <2>2
  <1>6. \A s \in SUBSET (1..n) : h[s] = OneStep(f, base, at, h, s)
    BY <1>4 DEF StepsUpto
  <1> QED BY <1>5, <1>6 DEF Runs

\* What was folded of the first k elements, for each k.
Trace(f, base, at, n, acc) ==
    /\ acc[0] = base
    /\ \A k \in 1..n : acc[k] = f[acc[k - 1]][at[k]]

Traced(f, base, at, n, S, value) ==
    \E acc \in [0..n -> S] : Trace(f, base, at, n, acc) /\ value = acc[n]

\* h folds every set of the elements, as far as its values are of type S.
FoldedBy(f, base, at, n, S, T, h) ==
    /\ h[{}] = base
    /\ \A s \in SUBSET (1..n) : s # {} /\ h[s \ {Max(s)}] \in S /\ at[Max(s)] \in T =>
          h[s] = f[h[s \ {Max(s)}]][at[Max(s)]]

\* The set of the first k numbers without the greatest.
LEMMA FirstWithoutLast ==
  ASSUME NEW k \in Nat, k # 0
  PROVE  Max(1..k) = k /\ (1..k) \ {k} = 1..(k - 1) /\ 1..k # {}
  <1>1. IsGreatest(k, 1..k) /\ 1..k \subseteq Int
    BY DEF IsGreatest
  <1>2. \A x \in 1..k : x # k => x \in 1..(k - 1)
    OBVIOUS
  <1>3. \A x \in 1..(k - 1) : x \in 1..k /\ x # k
    OBVIOUS
  <1>4. Max(1..k) = k
    BY <1>1, GreatestIsMax
  <1>5. (1..k) \ {k} = 1..(k - 1) /\ 1..k # {}
    <2>1. k \in 1..k
      OBVIOUS
    <2> QED BY <1>2, <1>3, <2>1
  <1> QED BY <1>4, <1>5

\* A function that folds every set of the elements folds them one by one.
LEMMA FoldTrace ==
  ASSUME NEW f, NEW base, NEW at, NEW n, NEW S, NEW T, FoldType(f, base, at, n, S, T),
         NEW h, FoldedBy(f, base, at, n, S, T, h)
  PROVE  Traced(f, base, at, n, S, h[1..n])
  <1> USE DEF FoldType
  <1> DEFINE acc == [k \in 0..n |-> h[1..k]]
             Good == {k \in Nat : k <= n => h[1..k] \in S}
  <1>0. 1..0 = {}
    OBVIOUS
  <1>1. ASSUME NEW k \in 1..n, h[1..(k - 1)] \in S
        PROVE  h[1..k] = f[h[1..(k - 1)]][at[k]] /\ h[1..k] \in S
    <2>0. k \in Nat /\ k # 0
      OBVIOUS
    <2>1. Max(1..k) = k /\ (1..k) \ {k} = 1..(k - 1) /\ 1..k # {}
      BY <2>0, FirstWithoutLast
    <2>2. 1..k \in SUBSET (1..n)
      OBVIOUS
    <2>4. at[k] \in T
      OBVIOUS
    <2>3. h[1..k] = f[h[1..(k - 1)]][at[k]]
      BY <1>1, <2>1, <2>2, <2>4 DEF FoldedBy
    <2> QED BY <1>1, <2>3, <2>4
  <1>2. 0 \in Good
    BY <1>0 DEF FoldedBy
  <1>3. ASSUME NEW k \in Nat, k \in Good PROVE k + 1 \in Good
    <2> SUFFICES ASSUME k + 1 <= n PROVE h[1..(k + 1)] \in S
      OBVIOUS
    <2>1. k + 1 \in 1..n /\ (k + 1) - 1 = k
      OBVIOUS
    <2>2. h[1..k] \in S
      BY <1>3
    <2> QED BY <1>1, <2>1, <2>2
  <1>4. \A k \in Nat : k \in Good
    <2> HIDE DEF Good
    <2> QED BY <1>2, <1>3, AllNumbers
  <1>5. \A k \in 0..n : h[1..k] \in S
    BY <1>4
  <1>6. acc \in [0..n -> S]
    BY <1>5
  <1>7. acc[0] = base /\ acc[n] = h[1..n]
    BY <1>0 DEF FoldedBy
  <1>8. ASSUME NEW k \in 1..n PROVE acc[k] = f[acc[k - 1]][at[k]]
    <2>1. k - 1 \in 0..n /\ k \in 0..n
      OBVIOUS
    <2>2. h[1..k] = f[h[1..(k - 1)]][at[k]]
      BY <1>1, <1>5, <2>1
    <2> QED BY <2>1, <2>2
  <1> HIDE DEF acc
  <1>9. Trace(f, base, at, n, acc)
    BY <1>7, <1>8 DEF Trace
  <1> QED BY <1>6, <1>7, <1>9 DEF Traced

\* What is selected of the first k elements, for each k.
Selection(acc, n, seq, kept) ==
    /\ acc[0] = <<>>
    /\ \A k \in 1..n : acc[k] = IF seq[k] \in kept THEN Append(acc[k - 1], seq[k])
                                ELSE acc[k - 1]
    /\ Within(seq, kept) = acc[n]

LEMMA WithinTrace ==
  ASSUME NEW T, NEW n \in Nat, NEW seq \in [1..n -> T], NEW kept
  PROVE  \E acc \in [0..n -> Seq(T)] : Selection(acc, n, seq, kept)
  <1> DEFINE Op(a, x) == IF x \in kept THEN Append(a, x) ELSE a
             f == [a \in Seq(T) |-> [x \in T |-> Op(a, x)]]
             Rec(h) == h = [s \in SUBSET (1..n) |->
                              IF s = {} THEN <<>> ELSE Op(h[s \ {Max(s)}], seq[Max(s)])]
  <1>1. \A a \in Seq(T), x \in T : f[a][x] = Op(a, x)
    OBVIOUS
  <1>2. f \in [Seq(T) -> [T -> Seq(T)]] /\ <<>> \in Seq(T)
    OBVIOUS
  <1>3. Within(seq, kept) = (CHOOSE h : Rec(h))[1..n]
    <2>1. DOMAIN seq = 1..n
      OBVIOUS
    <2> QED BY <2>1 DEF Within, FoldLeft, MapThenFoldSet
  <1> HIDE DEF f, Op
  <1>0. FoldType(f, <<>>, seq, n, Seq(T), T)
    BY <1>2 DEF FoldType
  <1>4. \E h : Rec(h)
    <2>0. Runs(f, <<>>, seq, n, Seq(T), T)
      BY <1>0, FoldRuns
    <2>1. PICK h \in [SUBSET (1..n) -> Seq(T)] :
             \A s \in SUBSET (1..n) :
                /\ h[s] = OneStep(f, <<>>, seq, h, s)
                /\ s # {} => h[s \ {Max(s)}] \in Seq(T) /\ seq[Max(s)] \in T
      BY <2>0 DEF Runs
    <2>2. \A s \in SUBSET (1..n) :
             h[s] = IF s = {} THEN <<>> ELSE Op(h[s \ {Max(s)}], seq[Max(s)])
      BY <1>1, <2>1 DEF OneStep
    <2> QED BY <2>2
  <1>5. PICK h : Rec(h) /\ h = CHOOSE g : Rec(g)
    BY <1>4
  <1>6. FoldedBy(f, <<>>, seq, n, Seq(T), T, h)
    BY <1>1, <1>5 DEF FoldedBy
  <1>9. PICK acc \in [0..n -> Seq(T)] : Trace(f, <<>>, seq, n, acc) /\ h[1..n] = acc[n]
    <2> HIDE DEF Rec
    <2>1. Traced(f, <<>>, seq, n, Seq(T), h[1..n])
      BY <1>0, <1>6, FoldTrace
    <2> QED BY <2>1 DEF Traced
  <1>10. Within(seq, kept) = acc[n]
    BY <1>3, <1>5, <1>9
  <1>11. ASSUME NEW k \in 1..n PROVE acc[k] = Op(acc[k - 1], seq[k])
    <2>1. k - 1 \in 0..n /\ seq[k] \in T /\ acc[k - 1] \in Seq(T)
      OBVIOUS
    <2> QED BY <1>1, <1>9, <2>1 DEF Trace
  <1>12. Selection(acc, n, seq, kept)
    BY <1>9, <1>10, <1>11 DEF Trace, Op, Selection
  <1> QED BY <1>12

-----------------------------------------------------------------------------
(***************************************************************************)
(* Selections.                                                             *)
(***************************************************************************)

\* m lists the elements of X, a set of numbers, in their order.
Enumerates(m, n, X) ==
    /\ n \in Nat /\ X \subseteq Nat
    /\ \A i \in 1..n : m[i] \in X
    /\ \A i, j \in 1..n : i < j => m[i] < m[j]
    /\ \A x \in X : \E i \in 1..n : m[i] = x

\* A set that holds the first elements of another is listed as they are.
LEMMA ListedAlike ==
  ASSUME NEW a, NEW p, NEW X, NEW b, NEW q, NEW Y, Enumerates(a, p, X), Enumerates(b, q, Y),
         X \subseteq Y, \A x \in X, y \in Y : y <= x => y \in X
  PROVE  p <= q /\ \A i \in 1..p : a[i] = b[i]
  <1>4. /\ p \in Nat /\ q \in Nat
        /\ \A i \in 1..p : a[i] \in X /\ a[i] \in Nat
        /\ \A i \in 1..q : b[i] \in Y /\ b[i] \in Nat
    BY DEF Enumerates
  <1>5. /\ \A i, j \in 1..p : i < j => a[i] < a[j]
        /\ \A i, j \in 1..q : i < j => b[i] < b[j]
    BY DEF Enumerates
  <1>6. /\ \A x \in X : \E i \in 1..p : a[i] = x
        /\ \A y \in Y : \E i \in 1..q : b[i] = y
    BY DEF Enumerates
  <1> DEFINE Good == {k \in Nat : k <= p => k <= q /\ \A i \in 1..k : a[i] = b[i]}
  <1>1. 0 \in Good
    BY <1>4
  <1>2. ASSUME NEW k \in Nat, k \in Good PROVE k + 1 \in Good
    <2> SUFFICES ASSUME k + 1 <= p
                 PROVE  k + 1 <= q /\ \A i \in 1..(k + 1) : a[i] = b[i]
      OBVIOUS
    <2>1. k <= q /\ \A i \in 1..k : a[i] = b[i] /\ i \in 1..p /\ i \in 1..q
      BY <1>2, <1>4
    <2>2. k + 1 \in 1..p /\ a[k + 1] \in X /\ a[k + 1] \in Nat
      BY <1>4
    <2>3. PICK j \in 1..q : b[j] = a[k + 1]
      BY <1>6, <2>2
    <2>4. j \notin 1..k
      <3> SUFFICES ASSUME j \in 1..k PROVE FALSE
        OBVIOUS
      <3>1. a[j] = a[k + 1] /\ j \in 1..p /\ j < k + 1
        BY <2>1, <2>3
      <3>2. a[j] < a[k + 1]
        BY <1>5, <2>2, <3>1
      <3> QED BY <2>2, <3>1, <3>2
    <2>5. k + 1 <= j /\ k + 1 \in 1..q
      BY <1>4, <2>3, <2>4
    <2>6. b[k + 1] <= b[j] /\ b[k + 1] \in Y /\ b[k + 1] \in Nat
      <3>1. CASE k + 1 = j
        BY <1>4, <2>5, <3>1
      <3>2. CASE k + 1 < j
        <4>1. b[k + 1] < b[j] /\ b[k + 1] \in Nat /\ b[j] \in Nat /\ b[k + 1] \in Y
          BY <1>4, <1>5, <2>3, <2>5, <3>2
        <4> QED BY <4>1
      <3> QED BY <2>3, <2>5, <3>1, <3>2
    <2>7. b[k + 1] \in X
      BY <2>2, <2>3, <2>6
    <2>8. PICK l \in 1..p : a[l] = b[k + 1]
      BY <1>6, <2>7
    <2>9. l \notin 1..k
      <3> SUFFICES ASSUME l \in 1..k PROVE FALSE
        OBVIOUS
      <3>1. b[l] = b[k + 1] /\ l \in 1..q /\ l < k + 1
        BY <2>1, <2>8
      <3>2. b[l] < b[k + 1]
        BY <1>5, <2>5, <3>1
      <3> QED BY <2>6, <3>1, <3>2
    <2>10. a[k + 1] <= a[l]
      <3>1. CASE k + 1 = l
        BY <2>2, <3>1
      <3>2. CASE k + 1 < l
        <4>1. a[k + 1] < a[l] /\ a[l] \in Nat
          BY <1>4, <1>5, <2>2, <2>8, <3>2
        <4> QED BY <2>2, <4>1
      <3> QED BY <2>8, <2>9, <3>1, <3>2
    <2>11. a[k + 1] = b[k + 1]
      BY <2>2, <2>3, <2>6, <2>8, <2>10
    <2>12. \A i \in 1..(k + 1) : i \in 1..k \/ i = k + 1
      OBVIOUS
    <2> QED BY <2>1, <2>5, <2>11, <2>12
  <1>3. \A k \in Nat : k \in Good
    <2> HIDE DEF Good
    <2> QED BY <1>1, <1>2, AllNumbers
  <1> QED BY <1>3, <1>4

\* The elements of w are those of seq at the places in X, in the order of the
\* places.
Lists(w, seq, X) ==
    \E m : /\ Enumerates(m, Len(w), X)
          /\ \A k \in 1..Len(w) : w[k] = seq[m[k]]

LEMMA WithinPlaces ==
  ASSUME NEW T, NEW seq \in Seq(T), NEW kept
  PROVE  /\ Within(seq, kept) \in Seq(T)
         /\ Lists(Within(seq, kept), seq, {i \in DOMAIN seq : seq[i] \in kept})
  <1>0. PICK n : n = Len(seq)
    OBVIOUS
  <1>1. n \in Nat /\ seq \in [1..n -> T]
    BY <1>0
  <1>2. PICK acc \in [0..n -> Seq(T)] : Selection(acc, n, seq, kept)
    BY <1>1, WithinTrace
  <1> DEFINE X(k) == {i \in 1..k : seq[i] \in kept}
             Places(k) == \E m : /\ Enumerates(m, Len(acc[k]), X(k))
                                 /\ \A i \in 1..Len(acc[k]) : acc[k][i] = seq[m[i]]
             Good == {k \in Nat : k <= n => Places(k)}
  <1>3. 0 \in Good
    <2>1. Len(acc[0]) = 0 /\ X(0) = {} /\ 1..0 = {}
      BY <1>2 DEF Selection
    <2> HIDE DEF X
    <2>2. Places(0)
      BY <2>1 DEF Enumerates
    <2> HIDE DEF Places
    <2> QED BY <2>2
  <1>4. ASSUME NEW k \in Nat, k \in Good PROVE k + 1 \in Good
    <2> SUFFICES ASSUME k + 1 <= n PROVE Places(k + 1)
      <3> HIDE DEF Places
      <3> QED OBVIOUS
    <2>0. Places(k)
      <3> HIDE DEF Places
      <3> QED BY <1>1, <1>4
    <2>1. /\ k \in 0..n /\ k + 1 \in 0..n /\ k + 1 \in 1..n /\ (k + 1) - 1 = k
          /\ acc[k] \in Seq(T) /\ acc[k + 1] \in Seq(T) /\ seq[k + 1] \in T
      BY <1>1
    <2>2. PICK m : /\ Enumerates(m, Len(acc[k]), X(k))
                   /\ \A i \in 1..Len(acc[k]) : acc[k][i] = seq[m[i]]
      BY <2>0
    <2>3. acc[k + 1] = IF seq[k + 1] \in kept THEN Append(acc[k], seq[k + 1]) ELSE acc[k]
      BY <1>2, <2>1 DEF Selection
    <2>4. CASE seq[k + 1] \notin kept
      <3>1. X(k + 1) = X(k)
        BY <2>4
      <3> HIDE DEF X
      <3> QED BY <2>2, <2>3, <2>4, <3>1
    <2>5. CASE seq[k + 1] \in kept
      <3>1. PICK l : l = Len(acc[k])
        OBVIOUS
      <3>2. /\ l \in Nat /\ Len(acc[k + 1]) = l + 1 /\ acc[k + 1][l + 1] = seq[k + 1]
            /\ \A i \in 1..l : acc[k + 1][i] = acc[k][i]
        BY <2>1, <2>3, <2>5, <3>1
      <3>3. X(k + 1) = X(k) \cup {k + 1} /\ \A x \in X(k) : x <= k /\ x \in Nat
        BY <2>5
      <3> DEFINE g == [i \in 1..(l + 1) |-> IF i = l + 1 THEN k + 1 ELSE m[i]]
      <3>4. /\ \A i \in 1..l : g[i] = m[i] /\ i \in 1..(l + 1)
            /\ g[l + 1] = k + 1 /\ l + 1 \in 1..(l + 1)
            /\ \A i \in 1..(l + 1) : i = l + 1 \/ i \in 1..l
        BY <3>2
      <3> HIDE DEF g, X
      <3>5. \A i \in 1..l : m[i] \in X(k)
        BY <2>2, <3>1 DEF Enumerates
      <3>6. ASSUME NEW i \in 1..(l + 1), NEW j \in 1..(l + 1), i < j PROVE g[i] < g[j]
        <4>1. i \in 1..l /\ g[i] = m[i] /\ m[i] \in X(k)
          BY <3>2, <3>4, <3>5, <3>6
        <4>2. CASE j = l + 1
          BY <3>3, <3>4, <4>1, <4>2
        <4>3. CASE j \in 1..l
          BY <2>2, <3>1, <3>4, <3>6, <4>1, <4>3 DEF Enumerates
        <4> QED BY <3>4, <4>2, <4>3
      <3>7. ASSUME NEW x \in X(k + 1) PROVE \E i \in 1..(l + 1) : g[i] = x
        <4>1. CASE x = k + 1
          BY <3>4, <4>1
        <4>2. CASE x \in X(k)
          <5>1. PICK i \in 1..l : m[i] = x
            BY <2>2, <3>1, <4>2 DEF Enumerates
          <5> QED BY <3>4, <5>1
        <4> QED BY <3>3, <4>1, <4>2
      <3>8. Enumerates(g, l + 1, X(k + 1))
        <4>1. \A i \in 1..(l + 1) : g[i] \in X(k + 1)
          BY <3>3, <3>4, <3>5
        <4>2. X(k + 1) \subseteq Nat /\ l + 1 \in Nat
          BY <3>2, <3>3
        <4> QED BY <3>6, <3>7, <4>1, <4>2 DEF Enumerates
      <3>9. \A i \in 1..(l + 1) : acc[k + 1][i] = seq[g[i]]
        BY <2>2, <3>1, <3>2, <3>4
      <3> QED BY <3>2, <3>8, <3>9
    <2> QED BY <2>4, <2>5
  <1>5. Places(n)
    <2>1. \A k \in Nat : k \in Good
      <3> HIDE DEF Good
      <3> QED BY <1>3, <1>4, AllNumbers
    <2> HIDE DEF Places
    <2> QED BY <1>1, <2>1
  <1>6. Within(seq, kept) = acc[n] /\ acc[n] \in Seq(T) /\ DOMAIN seq = 1..n
    BY <1>0, <1>1, <1>2 DEF Selection
  <1>7. X(n) = {i \in DOMAIN seq : seq[i] \in kept}
    BY <1>6
  <1> HIDE DEF X
  <1> QED BY <1>5, <1>6, <1>7 DEF Lists

-----------------------------------------------------------------------------
(***************************************************************************)
(* A run that went further.                                                *)
(***************************************************************************)

\* Spans are added, and none changes its stage or depth.
Extends(P, Q) ==
    /\ P \in Seq(SpanType) /\ Q \in Seq(SpanType) /\ Len(P) <= Len(Q)
    /\ \A i \in 1..Len(P) : Q[i].stage = P[i].stage /\ Q[i].depth = P[i].depth

LEMMA ExtendsOnward ==
  ASSUME NEW P, NEW Q, NEW R, Extends(P, Q), Extends(Q, R)
  PROVE  Extends(P, R)
  BY DEF Extends

\* The open spans are spans.
OpenAreSpans(F) ==
    /\ IsSpans(F)
    /\ \A k \in 1..Len(F.open) : F.open[k] \in 1..Len(F.spans)

LEMMA OpenSpansAreSpans ==
  ASSUME NEW F, NEW b \in BuildType, Kept(F, b), b.outcome = None
  PROVE  OpenAreSpans(F)
  <1>1. IsSpans(F) /\ OpenInv(F, b)
    BY DEF Kept
  <1>2. CASE b.version > 1
    BY <1>1, <1>2 DEF OpenInv, Nested, OpenAreSpans, IsSpans
  <1>3. CASE b.version = 1
    <2>1. Entered(F, b.stack)
      BY <1>1, <1>3 DEF OpenInv
    <2>2. CASE b.stack = <<>>
      BY <1>1, <2>1, <2>2 DEF Entered, OpenAreSpans
    <2>3. CASE b.stack # <<>>
      <3>1. F.open = <<Len(F.spans)>> /\ Len(F.spans) > 0 /\ Len(F.spans) \in Nat
        BY <1>1, <2>1, <2>3 DEF Entered, IsSpans
      <3>2. \A k \in 1..Len(F.open) : F.open[k] = Len(F.spans)
        BY <3>1
      <3> QED BY <1>1, <3>1, <3>2 DEF OpenAreSpans
    <2> QED BY <2>2, <2>3
  <1> QED BY <1>2, <1>3 DEF BuildType

\* Appending a span, or replacing one by another of its stage and depth.
LEMMA AppendExtends ==
  ASSUME NEW P \in Seq(SpanType), NEW x \in SpanType
  PROVE  Extends(P, Append(P, x))
  BY DEF Extends

LEMMA ReplaceExtends ==
  ASSUME NEW P \in Seq(SpanType), NEW i \in 1..Len(P), NEW x \in SpanType,
         x.stage = P[i].stage, x.depth = P[i].depth
  PROVE  Extends(P, [P EXCEPT ![i] = x])
  BY DEF Extends

\* A transition or an event keeps the spans that are there.
LEMMA TransitionExtends ==
  ASSUME NEW F, OpenAreSpans(F), NEW e \in EventType, e.stage \notin {"created", "blocked"}
  PROVE  Extends(F.spans, Transition(F, e).spans)
  <1>1. PICK n : n = Len(F.spans)
    OBVIOUS
  <1>2. n \in Nat /\ F.spans \in Seq(SpanType) /\ DOMAIN F.spans = 1..n
    BY <1>1 DEF OpenAreSpans, IsSpans
  <1>3. F.open # <<>> => n \in 1..n
    <2> SUFFICES ASSUME F.open # <<>> PROVE n \in 1..n
      OBVIOUS
    <2>1. 1 \in 1..Len(F.open)
      BY DEF OpenAreSpans, IsSpans
    <2>2. F.open[1] \in 1..n
      BY <1>1, <2>1 DEF OpenAreSpans
    <2> QED BY <1>2, <2>2
  <1>4. PICK left : left = LeftSpans(F, e)
    OBVIOUS
  <1>5. Extends(F.spans, left)
    <2>1. CASE F.open = <<>>
      <3>1. left = F.spans
        BY <1>4, <2>1 DEF LeftSpans
      <3> QED BY <1>2, <3>1 DEF Extends
    <2>2. CASE F.open # <<>>
      <3>1. PICK x : x = Left(F.spans[n], e.time)
        OBVIOUS
      <3>2. F.spans[n] \in SpanType /\ n \in 1..n
        BY <1>2, <1>3, <2>2
      <3>3. x \in SpanType /\ x.stage = F.spans[n].stage /\ x.depth = F.spans[n].depth
        BY <3>1, <3>2 DEF Left, SpanType, EventType
      <3>4. left = [F.spans EXCEPT ![n] = x]
        BY <1>1, <1>4, <2>2, <3>1 DEF LeftSpans
      <3> QED BY <1>1, <1>2, <3>2, <3>3, <3>4, ReplaceExtends
    <2> QED BY <2>1, <2>2
  <1>6. /\ left \in Seq(SpanType) /\ Len(left) = n /\ DOMAIN left = 1..n
        /\ n \in 1..n => left[n] \in SpanType
    <2>1. left \in Seq(SpanType)
      BY <1>5 DEF Extends
    <2>2. Len(left) = n
      <3>1. DOMAIN left = DOMAIN F.spans
        BY <1>4 DEF LeftSpans
      <3> QED BY <1>2, <2>1, <3>1
    <2> QED BY <2>1, <2>2
  <1>7. PICK G : G = Transition(F, e)
    OBVIOUS
  <1>8. G.spans =
          IF e.stage \in {"complete", "failed"}
          THEN IF F.open # <<>> /\ e.stage = "failed" THEN [left EXCEPT ![n].status = "failed"]
               ELSE left
          ELSE IF F.open # <<>> /\ F.spans[n].stage = e.stage
          THEN [F.spans EXCEPT ![n] = MarkFailed(F.spans[n], e)]
          ELSE Append(left, MarkFailed(NewSpan(e, 0, e.time), e))
    BY <1>1, <1>4, <1>7 DEF Transition, LeftSpans, OpenAreSpans, IsSpans
  <1>9. CASE e.stage \in {"complete", "failed"}
    <2>1. CASE F.open # <<>> /\ e.stage = "failed"
      <3>1. n \in 1..n /\ left[n] \in SpanType
        BY <1>3, <1>6, <2>1
      <3>2. PICK x : x = [left[n] EXCEPT !.status = "failed"]
        OBVIOUS
      <3>3. x \in SpanType /\ x.stage = left[n].stage /\ x.depth = left[n].depth
        BY <3>1, <3>2 DEF SpanType
      <3>4. G.spans = [left EXCEPT ![n] = x]
        BY <1>8, <2>1, <3>2
      <3>5. Extends(left, G.spans)
        <4>1. n \in 1..Len(left) /\ left \in Seq(SpanType)
          BY <1>6, <3>1
        <4> QED BY <3>3, <3>4, <4>1, ReplaceExtends
      <3> QED BY <1>5, <1>7, <3>5, ExtendsOnward
    <2>2. CASE ~(F.open # <<>> /\ e.stage = "failed")
      BY <1>5, <1>7, <1>8, <1>9, <2>2
    <2> QED BY <2>1, <2>2
  <1>10. CASE e.stage \in Stages
    <2>1. e.stage \notin {"complete", "failed"}
      BY <1>10, StagesAssumption DEF Markers
    <2>2. CASE F.open # <<>> /\ F.spans[n].stage = e.stage
      <3>1. n \in 1..n /\ F.spans[n] \in SpanType
        BY <1>2, <1>3, <2>2
      <3>2. PICK x : x = MarkFailed(F.spans[n], e)
        OBVIOUS
      <3>3. x \in SpanType /\ x.stage = F.spans[n].stage /\ x.depth = F.spans[n].depth
        BY <3>1, <3>2 DEF MarkFailed, SpanType
      <3>4. G.spans = [F.spans EXCEPT ![n] = x]
        BY <1>8, <2>1, <2>2, <3>2
      <3> QED BY <1>1, <1>2, <1>7, <3>1, <3>3, <3>4, ReplaceExtends
    <2>3. CASE ~(F.open # <<>> /\ F.spans[n].stage = e.stage)
      <3>1. PICK x : x = MarkFailed(NewSpan(e, 0, e.time), e)
        OBVIOUS
      <3>2. x \in SpanType
        <4>1. e.stage \in Stages /\ e.time \in Int
          BY <1>10 DEF EventType
        <4>2. PICK y : y = NewSpan(e, 0, e.time)
          OBVIOUS
        <4>3. y \in SpanType
          BY <4>1, <4>2 DEF NewSpan, SpanType
        <4> QED BY <3>1, <4>2, <4>3 DEF MarkFailed, SpanType
      <3>3. G.spans = Append(left, x)
        BY <1>8, <2>1, <2>3, <3>1
      <3>4. Extends(left, G.spans)
        BY <1>6, <3>2, <3>3, AppendExtends
      <3> QED BY <1>5, <1>7, <3>4, ExtendsOnward
    <2> QED BY <2>2, <2>3
  <1> QED BY <1>9, <1>10 DEF EventType, Markers

LEMMA LifecycleExtends ==
  ASSUME NEW F, OpenAreSpans(F), NEW e \in EventType
  PROVE  Extends(F.spans, Lifecycle(F, e).spans)
  <1>1. /\ F = [spans |-> F.spans, open |-> F.open, terminal |-> F.terminal]
        /\ F.spans \in Seq(SpanType) /\ F.open \in Seq(Nat)
        /\ \A k \in 1..Len(F.open) : F.open[k] \in 1..Len(F.spans)
    BY DEF OpenAreSpans, IsSpans
  <1>2. PICK G : G = Lifecycle(F, e)
    OBVIOUS
  <1>3. Extends(F.spans, F.spans)
    BY <1>1 DEF Extends
  <1>4. CASE e.stage \in Markers
    <2>1. G.spans = F.spans
      BY <1>1, <1>2, <1>4 DEF Lifecycle
    <2> QED BY <1>2, <1>3, <2>1
  <1>5. CASE e.stage \notin Markers
    <2>1. e.stage \in Stages /\ e.time \in Nat /\ e.blocking \in BOOLEAN
      BY <1>5 DEF EventType
    <2>2. CASE e.status = "started"
      <3>1. PICK x : x = NewSpan(e, Len(F.open), e.time)
        OBVIOUS
      <3>2. x \in SpanType
        BY <1>1, <2>1, <3>1 DEF NewSpan, SpanType
      <3>3. G.spans = Append(F.spans, x)
        BY <1>1, <1>2, <1>5, <2>2, <3>1 DEF Lifecycle
      <3> QED BY <1>1, <1>2, <3>2, <3>3, AppendExtends
    <2>3. CASE e.status # "started"
      <3> DEFINE at == OpenSpan(F, e.stage)
                 began == IF e.elapsed = None THEN e.time ELSE Max({0, e.time - e.elapsed})
      <3>1. CASE at > 0
        <4> DEFINE positions == {i \in DOMAIN F.open : F.spans[F.open[i]].stage = e.stage}
        <4>1. positions # {} /\ at = Max(positions)
          BY <3>1 DEF OpenSpan
        <4>2. positions \in SUBSET (1..Len(F.open)) /\ Len(F.open) \in Nat
          BY <1>1
        <4>3. IsGreatest(Max(positions), positions)
          <5> HIDE DEF positions
          <5> QED BY <4>1, <4>2, GreatestExists
        <4>4. at \in 1..Len(F.open)
          <5> HIDE DEF positions, at
          <5> QED BY <4>1, <4>2, <4>3 DEF IsGreatest
        <4>5. PICK i : i = F.open[at]
          OBVIOUS
        <4>6. i \in 1..Len(F.spans) /\ F.spans[i] \in SpanType
          <5> HIDE DEF at
          <5> QED BY <1>1, <4>4, <4>5
        <4>7. PICK x : x = ClosedBy(F.spans[i], e)
          OBVIOUS
        <4>8. x \in SpanType /\ x.stage = F.spans[i].stage /\ x.depth = F.spans[i].depth
          BY <2>1, <4>6, <4>7 DEF ClosedBy, SpanType
        <4>9. G.spans = [F.spans EXCEPT ![i] = x]
          <5> HIDE DEF at
          <5>1. G = [F EXCEPT !.spans[i] = ClosedBy(@, e), !.open = RemoveAt(@, at)]
            BY <1>2, <1>5, <2>3, <3>1, <4>5 DEF Lifecycle, at
          <5> QED BY <1>1, <4>7, <5>1
        <4> QED BY <1>1, <1>2, <4>6, <4>8, <4>9, ReplaceExtends
      <3>2. CASE ~(at > 0)
        <4>1. began \in Int
          BY <2>1, MaxOfTwo DEF EventType
        <4> HIDE DEF began
        <4>2. PICK x : x = ClosedBy(NewSpan(e, Len(F.open), began), e)
          OBVIOUS
        <4>3. x \in SpanType
          <5>1. PICK y : y = NewSpan(e, Len(F.open), began)
            OBVIOUS
          <5>2. y \in SpanType
            BY <1>1, <2>1, <4>1, <5>1 DEF NewSpan, SpanType
          <5> QED BY <2>1, <4>2, <5>1, <5>2 DEF ClosedBy, SpanType
        <4>4. G.spans = Append(F.spans, x)
          BY <1>1, <1>2, <1>5, <2>3, <3>2, <4>2 DEF Lifecycle, began
        <4> QED BY <1>1, <1>2, <4>3, <4>4, AppendExtends
      <3> QED BY <3>1, <3>2
    <2> QED BY <2>2, <2>3
  <1> QED BY <1>4, <1>5

LEMMA AdvanceExtends ==
  ASSUME NEW b \in BuildType, NEW F, Kept(F, b), b.outcome = None, NEW e \in EventType,
         b.version = 1 => e.stage \notin {"created", "blocked"}
  PROVE  Extends(F.spans, Advance(b.version, F, e).spans)
  BY OpenSpansAreSpans, TransitionExtends, LifecycleExtends DEF Advance

\* The spans that were read are extended by those that are written.
FurtherInv == Extends(ReadSpans.spans, SpansFrom(build.version, written).spans)

\* Events of the schemas' stages.
LEMMA ReportFurther ==
  ASSUME TimelineInv, FurtherInv, NEW e \in EventType, Report(e),
         build'.version = build.version,
         build.version = 1 => e.stage \notin {"created", "blocked"}
  PROVE  FurtherInv'
  <1>1. /\ build.outcome = None /\ written' = Append(written, e) /\ read' = read
        /\ written \in Seq(EventType) /\ build \in BuildType
        /\ Kept(SpansFrom(build.version, written), build)
    BY DEF Report, TimelineInv, TypeInv, SpansInv
  <1>2. SpansFrom(build.version, written')
          = Advance(build.version, SpansFrom(build.version, written), e)
    BY <1>1, SpansOfAppend
  <1>3. Extends(SpansFrom(build.version, written).spans,
                SpansFrom(build.version, written').spans)
    BY <1>1, <1>2, AdvanceExtends
  <1>4. ReadSpans' = ReadSpans
    BY <1>1 DEF ReadSpans
  <1>5. Extends(ReadSpans.spans, SpansFrom(build.version, written').spans)
    BY <1>3, ExtendsOnward DEF FurtherInv
  <1> QED BY <1>4, <1>5 DEF FurtherInv

LEMMA InitFurther == Init => FurtherInv
  <1> SUFFICES ASSUME Init PROVE FurtherInv
    OBVIOUS
  <1>1. written = <<>> /\ read.events = <<>>
    BY DEF Init
  <1>2. SpansFrom(build.version, <<>>) = NoSpans
    BY SpansOfNothing
  <1>3. Extends(NoSpans.spans, NoSpans.spans)
    BY DEF NoSpans, Extends
  <1> QED BY <1>1, <1>2, <1>3 DEF FurtherInv, ReadSpans

\* Every report is of an event, and of one that its schema has.
ReportsFit ==
    \E e \in EventType : /\ Report(e) /\ build'.version = build.version
                         /\ build.version = 1 => e.stage \notin {"created", "blocked"}

LEMMA StepsReport ==
  ASSUME TimelineInv, Next
  PROVE  \/ ReportsFit
         \/ /\ build' = build /\ written' = written
            /\ read'.events \in {read.events, written}
  <1>1. now \in Nat /\ build \in BuildType
    BY DEF TimelineInv, TypeInv
  <1>2. ASSUME NEW s \in Stages, Start(s) PROVE ReportsFit
    <2>1. Event("started", s, FALSE, None) \in EventType /\ build.version # 1
      BY <1>1, <1>2 DEF Event, EventType, Start, BuildType
    <2>2. Report(Event("started", s, FALSE, None)) /\ build'.version = build.version
      BY <1>1, <1>2 DEF Start, BuildType
    <2> QED BY <2>1, <2>2 DEF ReportsFit
  <1>3. ASSUME NEW s \in Stages, Observe(s) PROVE ReportsFit
    <2>1. now - build.idleSince \in Int
      BY <1>1 DEF BuildType
    <2>2. Event("completed", s, FALSE, now - build.idleSince) \in EventType /\ build.version # 1
      BY <1>1, <1>3, <2>1 DEF Event, EventType, Observe, BuildType
    <2>3. /\ Report(Event("completed", s, FALSE, now - build.idleSince))
          /\ build'.version = build.version
      BY <1>1, <1>3 DEF Observe, BuildType
    <2> QED BY <2>2, <2>3 DEF ReportsFit
  <1>4. ASSUME NEW s \in Stages, Enter(s) PROVE ReportsFit
    <2>1. PICK e : e = Event("running", s, FALSE, None)
      OBVIOUS
    <2>2. e \in EventType /\ e.stage \notin Markers
      BY <1>1, <2>1, StagesAssumption DEF Event, EventType
    <2>3. Report(e) /\ build'.version = build.version
      BY <1>1, <1>4, <2>1 DEF Enter, BuildType
    <2> QED BY <2>2, <2>3 DEF ReportsFit, Markers
  <1>5. ASSUME NEW status \in {"completed", "failed"}, NEW blocking \in BOOLEAN,
               Finish(status, blocking)
        PROVE  ReportsFit
    <2>1. PICK e : e = Event(status, Last(build.stack), blocking, None)
      OBVIOUS
    <2>2. Last(build.stack) \in Stages
      BY <1>1, <1>5 DEF BuildType, Last, Finish
    <2>3. e \in EventType /\ build.version # 1
      BY <1>1, <1>5, <2>1, <2>2 DEF Event, EventType, Finish, BuildType
    <2>4. Report(e) /\ build'.version = build.version
      BY <1>1, <1>5, <2>1 DEF Finish, BuildType
    <2> QED BY <2>3, <2>4 DEF ReportsFit
  <1>6. ASSUME FailInStage PROVE ReportsFit
    <2>1. PICK e : e = Event("failed", build.stack[1], FALSE, None)
      OBVIOUS
    <2>2. build.stack[1] \in Stages
      BY <1>1, <1>6 DEF BuildType, FailInStage
    <2>3. e \in EventType /\ e.stage \notin Markers
      BY <1>1, <2>1, <2>2, StagesAssumption DEF Event, EventType
    <2>4. Report(e) /\ build'.version = build.version
      BY <1>1, <1>6, <2>1 DEF FailInStage, BuildType
    <2> QED BY <2>3, <2>4 DEF ReportsFit, Markers
  <1>7. ASSUME NEW marker \in {"complete", "failed", "blocked"}, End(marker) PROVE ReportsFit
    <2>1. PICK e : e = Event(IF marker = "failed" THEN "failed" ELSE "completed", marker,
                             FALSE, None)
      OBVIOUS
    <2>2. e \in EventType /\ e.stage = marker
      BY <1>1, <2>1 DEF Event, EventType, Markers
    <2>3. marker = "blocked" => build.version = 3
      BY <1>7 DEF End
    <2>4. Report(e) /\ build'.version = build.version
      BY <1>1, <1>7, <2>1 DEF End, BuildType
    <2> QED BY <2>2, <2>3, <2>4 DEF ReportsFit
  <1>8. CASE \/ \E epoch \in 1..PassEpochs : LogEpoch(epoch)
             \/ Save \/ ReadProgress \/ Tick
    <2>1. build' = build /\ written' = written /\ read'.events = read.events
      <3>1. CASE ReadProgress
        BY <3>1 DEF ReadProgress
      <3>2. CASE ~ReadProgress
        BY <1>8, <3>2 DEF LogEpoch, Save, Tick
      <3> QED BY <3>1, <3>2
    <2> QED BY <2>1
  <1>9. CASE ReadEvents
    <2>1. build' = build /\ written' = written
      BY <1>9 DEF ReadEvents
    <2>2. read'.events \in {read.events, written}
      BY <1>9 DEF ReadEvents
    <2> QED BY <2>1, <2>2
  <1> QED BY <1>2, <1>3, <1>4, <1>5, <1>6, <1>7, <1>8, <1>9 DEF Next

LEMMA NextFurther == TimelineInv /\ FurtherInv /\ [Next]_vars => FurtherInv'
  <1> SUFFICES ASSUME TimelineInv, FurtherInv, [Next]_vars PROVE FurtherInv'
    OBVIOUS
  <1>1. CASE ReportsFit
    BY <1>1, ReportFurther DEF ReportsFit
  <1>2. CASE /\ build' = build /\ written' = written
             /\ read'.events \in {read.events, written}
    <2>1. CASE read'.events = read.events
      BY <1>2, <2>1 DEF FurtherInv, ReadSpans
    <2>2. CASE read'.events = written
      <3>1. SpansFrom(build.version, written).spans \in Seq(SpanType)
        BY DEF TimelineInv, SpansInv, Kept, IsSpans
      <3>2. Extends(SpansFrom(build.version, written).spans,
                    SpansFrom(build.version, written).spans)
        BY <3>1 DEF Extends
      <3> QED BY <1>2, <2>2, <3>2 DEF FurtherInv, ReadSpans
    <2> QED BY <1>2, <2>1, <2>2
  <1>3. CASE UNCHANGED vars
    BY <1>3 DEF vars, FurtherInv, ReadSpans
  <1> QED BY <1>1, <1>2, <1>3, StepsReport

-----------------------------------------------------------------------------
(***************************************************************************)
(* The order of the stages.                                                *)
(***************************************************************************)

\* The stages of a sequence of spans are the first of another's.
LeadStages(top, more) ==
    /\ top \in Seq(SpanType) /\ more \in Seq(SpanType) /\ Len(top) <= Len(more)
    /\ \A i \in 1..Len(top) : more[i].stage = top[i].stage

TopOf(P) == TopLevelSpans([spans |-> P])

LEMMA TopPlaces ==
  ASSUME NEW P \in Seq(SpanType)
  PROVE  /\ TopOf(P) \in Seq(SpanType)
         /\ Lists(TopOf(P), P, {i \in DOMAIN P : P[i].depth = 0})
  <1>1. PICK kept : kept = {span \in Range(P) : span.depth = 0}
    OBVIOUS
  <1>2. TopOf(P) = Within(P, kept)
    BY <1>1 DEF TopOf, TopLevelSpans
  <1>3. {i \in DOMAIN P : P[i] \in kept} = {i \in DOMAIN P : P[i].depth = 0}
    BY <1>1 DEF Range
  <1>4. /\ Within(P, kept) \in Seq(SpanType)
        /\ Lists(Within(P, kept), P, {i \in DOMAIN P : P[i] \in kept})
    BY WithinPlaces
  <1> QED BY <1>2, <1>3, <1>4

LEMMA TopsLead ==
  ASSUME NEW P, NEW Q, Extends(P, Q)
  PROVE  LeadStages(TopOf(P), TopOf(Q))
  <1>1. /\ P \in Seq(SpanType) /\ Q \in Seq(SpanType) /\ Len(P) <= Len(Q)
        /\ DOMAIN P = 1..Len(P) /\ DOMAIN Q = 1..Len(Q)
        /\ \A i \in 1..Len(P) : Q[i].stage = P[i].stage /\ Q[i].depth = P[i].depth
    BY DEF Extends
  <1> DEFINE X == {i \in DOMAIN P : P[i].depth = 0}
             Y == {i \in DOMAIN Q : Q[i].depth = 0}
  <1>2. TopOf(P) \in Seq(SpanType) /\ TopOf(Q) \in Seq(SpanType)
    BY <1>1, TopPlaces
  <1>3. PICK a : /\ Enumerates(a, Len(TopOf(P)), X)
                 /\ \A k \in 1..Len(TopOf(P)) : TopOf(P)[k] = P[a[k]]
    BY <1>1, TopPlaces DEF Lists
  <1>4. PICK b : /\ Enumerates(b, Len(TopOf(Q)), Y)
                 /\ \A k \in 1..Len(TopOf(Q)) : TopOf(Q)[k] = Q[b[k]]
    BY <1>1, TopPlaces DEF Lists
  <1>5. X \subseteq Y /\ (\A x \in X, y \in Y : y <= x => y \in X)
        /\ \A x \in X : x \in 1..Len(P)
    BY <1>1
  <1> HIDE DEF X, Y
  <1>6. Len(TopOf(P)) <= Len(TopOf(Q)) /\ \A i \in 1..Len(TopOf(P)) : a[i] = b[i]
    BY <1>3, <1>4, <1>5, ListedAlike
  <1>7. ASSUME NEW i \in 1..Len(TopOf(P)) PROVE TopOf(Q)[i].stage = TopOf(P)[i].stage
    <2>1. a[i] \in 1..Len(P) /\ a[i] = b[i]
      BY <1>3, <1>5, <1>6 DEF Enumerates
    <2>3. i \in 1..Len(TopOf(Q))
      BY <1>2, <1>6
    <2>2. Q[a[i]].stage = P[a[i]].stage
      BY <1>1, <2>1
    <2> QED BY <1>3, <1>4, <2>1, <2>2, <2>3
  <1> QED BY <1>2, <1>6, <1>7 DEF LeadStages

\* The places of the first span of each stage.
FirstPlaces(top) ==
    {i \in DOMAIN top : \A j \in 1..(i - 1) : top[j].stage # top[i].stage}

LEMMA OrderPlaces ==
  ASSUME NEW P \in Seq(SpanType)
  PROVE  LET order == Order([spans |-> P])
         IN  /\ order \in Seq(Stages)
             /\ \E m : /\ Enumerates(m, Len(order), FirstPlaces(TopOf(P)))
                       /\ \A k \in 1..Len(order) : order[k] = TopOf(P)[m[k]].stage
  <1>1. PICK top : top = TopOf(P)
    OBVIOUS
  <1>2. top \in Seq(SpanType)
    BY <1>1, TopPlaces
  <1>3. PICK n : n = Len(top)
    OBVIOUS
  <1>4. n \in Nat /\ DOMAIN top = 1..n
    BY <1>2, <1>3
  <1>5. PICK self : self = [i \in 1..n |-> i]
    OBVIOUS
  <1>6. self \in Seq(1..n) /\ DOMAIN self = 1..n /\ \A i \in 1..n : self[i] = i
    BY <1>4, <1>5
  <1>7. PICK firsts : firsts = Within(self, FirstPlaces(top))
    OBVIOUS
  <1>8. PICK order : order = Order([spans |-> P])
    OBVIOUS
  <1>9. order = [k \in DOMAIN firsts |-> top[firsts[k]].stage]
    BY <1>1, <1>4, <1>5, <1>7, <1>8 DEF Order, TopOf, FirstPlaces
  <1>10. PICK X : X = {i \in DOMAIN self : self[i] \in FirstPlaces(top)}
    OBVIOUS
  <1>10a. firsts \in Seq(1..n)
    BY <1>6, <1>7, WithinPlaces
  <1>10b. Lists(firsts, self, X)
    BY <1>6, <1>7, <1>10, WithinPlaces
  <1>11. X = FirstPlaces(top)
    BY <1>4, <1>6, <1>10 DEF FirstPlaces
  <1>12. PICK m : /\ Enumerates(m, Len(firsts), FirstPlaces(top))
                  /\ \A k \in 1..Len(firsts) : firsts[k] = self[m[k]]
    <2>1. Lists(firsts, self, FirstPlaces(top))
      BY <1>10b, <1>11
    <2> QED BY <2>1 DEF Lists
  <1>13. /\ DOMAIN firsts = 1..Len(firsts) /\ Len(firsts) \in Nat
         /\ \A k \in 1..Len(firsts) : firsts[k] \in 1..n
    <2>1. PICK N : N = 1..n
      OBVIOUS
    <2>2. firsts \in Seq(N)
      BY <1>10a, <2>1
    <2>3. DOMAIN firsts = 1..Len(firsts) /\ Len(firsts) \in Nat
          /\ \A k \in 1..Len(firsts) : firsts[k] \in N
      BY <2>2
    <2> QED BY <2>1, <2>3
  <1>14. \A k \in 1..Len(firsts) : top[firsts[k]].stage \in Stages
    <2>1. \A i \in 1..n : top[i] \in SpanType
      BY <1>2, <1>4
    <2>2. \A i \in 1..n : top[i].stage \in Stages
      BY <2>1 DEF SpanType
    <2> QED BY <1>13, <2>2
  <1>15. order \in Seq(Stages) /\ Len(order) = Len(firsts)
    BY <1>9, <1>13, <1>14
  <1>16. \A k \in 1..Len(firsts) : order[k] = top[m[k]].stage
    <2> SUFFICES ASSUME NEW k \in 1..Len(firsts) PROVE order[k] = top[m[k]].stage
      OBVIOUS
    <2>1. m[k] \in FirstPlaces(top)
      BY <1>12 DEF Enumerates
    <2>2. m[k] \in 1..n
      BY <1>4, <2>1 DEF FirstPlaces
    <2> QED BY <1>6, <1>9, <1>12, <1>13, <2>2
  <1> QED BY <1>1, <1>8, <1>12, <1>15, <1>16

\* A sequence of different stages that another one starts with.
Leads(A, B) ==
    /\ A \in Seq(Stages) /\ B \in Seq(Stages) /\ Len(A) <= Len(B)
    /\ \A i \in 1..Len(A) : B[i] = A[i]
    /\ \A i, j \in 1..Len(B) : i # j => B[i] # B[j]

LEMMA OrdersLead ==
  ASSUME NEW P, NEW Q, Extends(P, Q)
  PROVE  Leads(Order([spans |-> P]), Order([spans |-> Q]))
  <1>1. PICK top, more : top = TopOf(P) /\ more = TopOf(Q)
    OBVIOUS
  <1>2. PICK A, B : A = Order([spans |-> P]) /\ B = Order([spans |-> Q])
    OBVIOUS
  <1>3. P \in Seq(SpanType) /\ Q \in Seq(SpanType)
    BY DEF Extends
  <1>4. /\ top \in Seq(SpanType) /\ more \in Seq(SpanType) /\ Len(top) <= Len(more)
        /\ DOMAIN top = 1..Len(top) /\ DOMAIN more = 1..Len(more)
        /\ \A i \in 1..Len(top) : more[i].stage = top[i].stage
    BY <1>1, TopsLead DEF LeadStages
  <1>5. A \in Seq(Stages) /\ B \in Seq(Stages)
    BY <1>2, <1>3, OrderPlaces
  <1>6. PICK a : /\ Enumerates(a, Len(A), FirstPlaces(top))
                 /\ \A k \in 1..Len(A) : A[k] = top[a[k]].stage
    BY <1>1, <1>2, <1>3, OrderPlaces
  <1>7. PICK b : /\ Enumerates(b, Len(B), FirstPlaces(more))
                 /\ \A k \in 1..Len(B) : B[k] = more[b[k]].stage
    BY <1>1, <1>2, <1>3, OrderPlaces
  <1>8. \A i \in 1..Len(top) : i \in FirstPlaces(top) <=> i \in FirstPlaces(more)
    <2> SUFFICES ASSUME NEW i \in 1..Len(top)
                 PROVE  i \in FirstPlaces(top) <=> i \in FirstPlaces(more)
      OBVIOUS
    <2>1. i \in 1..Len(more) /\ \A j \in 1..(i - 1) : j \in 1..Len(top)
      BY <1>4
    <2> QED BY <1>4, <2>1 DEF FirstPlaces
  <1>9. /\ FirstPlaces(top) \subseteq 1..Len(top)
        /\ FirstPlaces(more) \subseteq 1..Len(more)
    BY <1>4 DEF FirstPlaces
  <1>10. /\ FirstPlaces(top) \subseteq FirstPlaces(more)
         /\ \A x \in FirstPlaces(top), y \in FirstPlaces(more) : y <= x => y \in FirstPlaces(top)
    <2>1. ASSUME NEW x \in FirstPlaces(top), NEW y \in FirstPlaces(more), y <= x
          PROVE  y \in FirstPlaces(top)
      <3>1. y \in 1..Len(top)
        BY <1>4, <1>9, <2>1
      <3> QED BY <1>8, <3>1
    <2> QED BY <1>8, <1>9, <2>1
  <1>11. Len(A) <= Len(B) /\ \A i \in 1..Len(A) : a[i] = b[i]
    BY <1>6, <1>7, <1>10, ListedAlike
  <1>12. ASSUME NEW i \in 1..Len(A) PROVE B[i] = A[i]
    <2>1. i \in 1..Len(B) /\ a[i] \in 1..Len(top) /\ a[i] = b[i]
      BY <1>5, <1>6, <1>9, <1>11 DEF Enumerates
    <2> QED BY <1>4, <1>6, <1>7, <2>1
  <1>13. ASSUME NEW i \in 1..Len(B), NEW j \in 1..Len(B), i < j PROVE B[i] # B[j]
    <2>1. b[i] < b[j] /\ b[i] \in FirstPlaces(more) /\ b[j] \in FirstPlaces(more)
      BY <1>7, <1>13 DEF Enumerates
    <2>2. b[i] \in 1..(b[j] - 1)
      BY <1>4, <1>9, <2>1
    <2>3. more[b[i]].stage # more[b[j]].stage
      BY <2>1, <2>2 DEF FirstPlaces
    <2> QED BY <1>7, <2>3
  <1>14. ASSUME NEW i \in 1..Len(B), NEW j \in 1..Len(B), i # j PROVE B[i] # B[j]
    <2>1. i < j \/ j < i
      BY <1>14
    <2> QED BY <1>13, <2>1
  <1> QED BY <1>2, <1>5, <1>11, <1>12, <1>14 DEF Leads

\* The greatest of the first n numbers, and what a stretch of n holds.
LEMMA StretchOf ==
  ASSUME NEW A \in Seq(Stages), NEW n \in 1..Len(A)
  PROVE  /\ Max(1..n) = n
         /\ Range(SubSeq(A, 1, n)) = {A[i] : i \in 1..n}
  <1>1. n \in Nat /\ n # 0
    OBVIOUS
  <1>2. Max(1..n) = n
    BY <1>1, FirstWithoutLast
  <1>3. SubSeq(A, 1, n) = [i \in 1..n |-> A[i]]
    OBVIOUS
  <1>4. Range(SubSeq(A, 1, n)) = {A[i] : i \in 1..n}
    <2>1. PICK q : q = SubSeq(A, 1, n)
      OBVIOUS
    <2>2. DOMAIN q = 1..n /\ \A i \in 1..n : q[i] = A[i]
      BY <1>3, <2>1
    <2> QED BY <2>1, <2>2 DEF Range
  <1> QED BY <1>2, <1>4

LEMMA EqualSetsAlike ==
  ASSUME NEW X
  PROVE  Alike(X, X)
  <1>1. (X \ X) \cup (X \ X) = {}
    OBVIOUS
  <1>2. Cardinality({}) = 0
    BY FS_EmptySet
  <1> QED BY <1>1, <1>2 DEF Alike

LEMMA LeadingOrdersMatch ==
  ASSUME NEW run, NEW other, Leads(Order(run), Order(other))
  PROVE  SameStageSequence(run, other) /\ SameStageSequence(other, run)
  <1>1. PICK A, B : A = Order(run) /\ B = Order(other)
    OBVIOUS
  <1>2. PICK n : n = Len(A)
    OBVIOUS
  <1>3. /\ A \in Seq(Stages) /\ B \in Seq(Stages) /\ n \in Nat /\ Len(B) \in Nat
        /\ n <= Len(B) /\ DOMAIN A = 1..n /\ DOMAIN B = 1..Len(B)
        /\ \A i \in 1..n : B[i] = A[i]
        /\ \A i, j \in 1..Len(B) : i # j => B[i] # B[j]
    BY <1>1, <1>2 DEF Leads
  <1>4. CASE A = <<>>
    BY <1>1, <1>4 DEF SameStageSequence
  <1>5. CASE A # <<>>
    <2>1. n \in 1..Len(A) /\ n \in 1..Len(B) /\ 1..n # {}
      BY <1>2, <1>3, <1>5
    <2>2. Range(A) = {A[i] : i \in 1..n} /\ Range(B) = {B[i] : i \in 1..Len(B)}
      BY <1>3 DEF Range
    <2>3. PICK X : X = {A[i] : i \in 1..n}
      OBVIOUS
    <2>4. X = {B[i] : i \in 1..n}
      BY <1>3, <2>3
    <2>5. /\ Max(1..n) = n
          /\ Range(SubSeq(A, 1, n)) = X /\ Range(SubSeq(B, 1, n)) = X
      BY <1>3, <2>1, <2>3, <2>4, StretchOf
    <2>6. {i \in DOMAIN A : A[i] \in Range(B)} = 1..n
      <3>1. \A i \in 1..n : A[i] \in Range(B)
        BY <1>3, <2>2
      <3> QED BY <1>3, <3>1
    <2>7. {i \in DOMAIN A : A[i] \in X} = 1..n
      BY <1>3, <2>3
    <2>8. {j \in DOMAIN B : B[j] \in X} = 1..n
      <3>1. ASSUME NEW j \in 1..Len(B), B[j] \in X PROVE j \in 1..n
        <4>1. PICK i \in 1..n : B[j] = B[i]
          BY <2>4, <3>1
        <4>2. i \in 1..Len(B)
          BY <1>3
        <4> QED BY <1>3, <4>1, <4>2
      <3>2. \A j \in 1..n : j \in 1..Len(B) /\ B[j] \in X
        BY <1>3, <2>4
      <3> QED BY <1>3, <3>1, <3>2
    <2>9. {i \in DOMAIN B : B[i] \in Range(A)} = 1..n
      BY <2>2, <2>3, <2>8
    <2>10. Alike(X, X)
      BY EqualSetsAlike
    <2>11. SameStageSequence(run, other)
      BY <1>1, <2>1, <2>5, <2>6, <2>8, <2>10 DEF SameStageSequence
    <2>12. SameStageSequence(other, run)
      BY <1>1, <2>1, <2>5, <2>7, <2>9, <2>10 DEF SameStageSequence
    <2> QED BY <2>11, <2>12
  <1> QED BY <1>4, <1>5

LEMMA FurtherIsComparable == FurtherInv => StoppedRunsStayComparable
  <1> SUFFICES ASSUME FurtherInv PROVE StoppedRunsStayComparable
    OBVIOUS
  <1>1. Leads(Order([spans |-> SpansFrom(build.version, read.events).spans]),
              Order([spans |-> SpansFrom(build.version, written).spans]))
    BY OrdersLead DEF FurtherInv, ReadSpans
  <1> QED BY <1>1, LeadingOrdersMatch DEF StoppedRunsStayComparable

\* A run is comparable with itself as it was read at any earlier moment, in both
\* directions: what it has done since is no reason to tell the two apart
\* (sameStageSequence).
THEOREM StoppedRunsAlwaysStayComparable == Spec => []StoppedRunsStayComparable
  <1>1. Init => TimelineInv /\ FurtherInv
    BY InitTimeline, InitFurther
  <1>2. TimelineInv /\ FurtherInv /\ [Next]_vars => (TimelineInv /\ FurtherInv)'
    BY NextTimeline, NextFurther
  <1>3. TimelineInv /\ FurtherInv => StoppedRunsStayComparable
    BY FurtherIsComparable
  <1> QED BY <1>1, <1>2, <1>3, PTL DEF Spec

-----------------------------------------------------------------------------
(***************************************************************************)
(* When spans begin and end.                                               *)
(***************************************************************************)

\* The spans of events up to time t began and ended by then, and top-level
\* spans follow one another.
TimedSpans(P, t) ==
    /\ \A i \in DOMAIN P : /\ P[i].start \in 0..t
                           /\ P[i].end # None => P[i].end \in P[i].start..t
    /\ \A i, j \in DOMAIN P : i < j /\ P[i].depth = 0 /\ P[j].depth = 0 =>
          P[i].end # None /\ P[i].end <= P[j].start

\* Top-level spans are over by time t.
OverBy(P, t) == \A i \in DOMAIN P : P[i].depth = 0 => P[i].end \in 0..t

LEMMA TimedLater ==
  ASSUME NEW P \in Seq(SpanType), NEW t \in Nat, NEW u \in Nat, t <= u, TimedSpans(P, t)
  PROVE  TimedSpans(P, u)
  <1>1. ASSUME NEW i \in DOMAIN P
        PROVE  P[i].start \in 0..u /\ (P[i].end # None => P[i].end \in P[i].start..u)
    BY <1>1 DEF TimedSpans
  <1>2. \A i, j \in DOMAIN P : i < j /\ P[i].depth = 0 /\ P[j].depth = 0 =>
          P[i].end # None /\ P[i].end <= P[j].start
    BY DEF TimedSpans
  <1> QED BY <1>1, <1>2 DEF TimedSpans

LEMMA AppendTimed ==
  ASSUME NEW P \in Seq(SpanType), NEW u \in Nat, TimedSpans(P, u),
         NEW x \in SpanType, x.start \in 0..u, x.end # None => x.end \in x.start..u,
         x.depth = 0 => OverBy(P, x.start)
  PROVE  TimedSpans(Append(P, x), u)
  <1>1. PICK n : n = Len(P)
    OBVIOUS
  <1>2. n \in Nat /\ DOMAIN P = 1..n
    BY <1>1
  <1>3. PICK Q : Q = Append(P, x)
    OBVIOUS
  <1>4. DOMAIN Q = 1..(n + 1) /\ Q[n + 1] = x /\ \A i \in 1..n : Q[i] = P[i]
    BY <1>1, <1>3
  <1>5. \A i \in 1..(n + 1) : i = n + 1 \/ i \in 1..n
    BY <1>2
  <1>6. ASSUME NEW i \in DOMAIN Q
        PROVE  Q[i].start \in 0..u /\ (Q[i].end # None => Q[i].end \in Q[i].start..u)
    <2>1. CASE i = n + 1
      BY <1>4, <2>1
    <2>2. CASE i \in 1..n
      BY <1>2, <1>4, <2>2 DEF TimedSpans
    <2> QED BY <1>4, <1>5, <2>1, <2>2
  <1>7. ASSUME NEW i \in DOMAIN Q, NEW j \in DOMAIN Q, i < j, Q[i].depth = 0, Q[j].depth = 0
        PROVE  Q[i].end # None /\ Q[i].end <= Q[j].start
    <2>1. i \in 1..n
      BY <1>2, <1>4, <1>5, <1>7
    <2>2. CASE j = n + 1
      <3>1. Q[i].end \in 0..x.start /\ Q[j] = x
        BY <1>2, <1>4, <1>7, <2>1, <2>2 DEF OverBy
      <3> QED BY <3>1, NoneAssumption
    <2>3. CASE j \in 1..n
      BY <1>2, <1>4, <1>7, <2>1, <2>3 DEF TimedSpans
    <2> QED BY <1>4, <1>5, <2>2, <2>3
  <1>8. TimedSpans(Q, u)
    BY <1>6, <1>7 DEF TimedSpans
  <1> QED BY <1>3, <1>8

\* A span that was open ends at time u, or none does.
LEMMA ReplaceTimed ==
  ASSUME NEW P \in Seq(SpanType), NEW u \in Nat, TimedSpans(P, u), NEW i \in DOMAIN P,
         NEW x, x.start = P[i].start, x.depth = P[i].depth,
         x.end = P[i].end \/ (P[i].end = None /\ x.end = u)
  PROVE  TimedSpans([P EXCEPT ![i] = x], u)
  <1>1. PICK Q : Q = [P EXCEPT ![i] = x]
    OBVIOUS
  <1>2. DOMAIN Q = DOMAIN P /\ Q[i] = x /\ \A j \in DOMAIN P : j # i => Q[j] = P[j]
    BY <1>1
  <1>3. \A j \in DOMAIN P : Q[j].start = P[j].start /\ Q[j].depth = P[j].depth
    BY <1>2
  <1>4. ASSUME NEW j \in DOMAIN Q
        PROVE  Q[j].start \in 0..u /\ (Q[j].end # None => Q[j].end \in Q[j].start..u)
    <2>1. P[j].start \in 0..u /\ (P[j].end # None => P[j].end \in P[j].start..u)
      BY <1>2 DEF TimedSpans
    <2> QED BY <1>2, <1>3, <2>1
  <1>5. ASSUME NEW j \in DOMAIN Q, NEW k \in DOMAIN Q, j < k, Q[j].depth = 0, Q[k].depth = 0
        PROVE  Q[j].end # None /\ Q[j].end <= Q[k].start
    <2>1. P[j].end # None /\ P[j].end <= P[k].start
      BY <1>2, <1>3, <1>5 DEF TimedSpans
    <2>2. Q[j].end = P[j].end
      BY <1>2, <2>1
    <2> QED BY <1>2, <1>3, <2>1, <2>2
  <1>6. TimedSpans(Q, u)
    BY <1>4, <1>5 DEF TimedSpans
  <1> QED BY <1>1, <1>6

\* Of spans up to time t that have all ended, those at the top are over by then.
LEMMA EndedAreOver ==
  ASSUME NEW P, NEW t \in Nat, TimedSpans(P, t),
         \A i \in DOMAIN P : P[i].depth = 0 => P[i].end # None
  PROVE  OverBy(P, t)
  <1> SUFFICES ASSUME NEW i \in DOMAIN P, P[i].depth = 0 PROVE P[i].end \in 0..t
    BY DEF OverBy
  <1>1. P[i].end # None
    OBVIOUS
  <1>2. P[i].start \in 0..t /\ P[i].end \in P[i].start..t
    BY <1>1 DEF TimedSpans
  <1> QED BY <1>2

\* The spans F of a build b as of time t: those of schema 1 are all top-level,
\* and when no stage is open, the top-level ones were over when that began.
Placed(F, b, t) ==
    /\ TimedSpans(F.spans, t)
    /\ F.terminal # None => F.terminal.time >= t
    /\ b.version = 1 => \A i \in DOMAIN F.spans : F.spans[i].depth = 0
    /\ b.idleSince \in Nat
    /\ b.version > 1 /\ b.stack = <<>> => OverBy(F.spans, b.idleSince)

\* What the spans of a running build are, at the time u of its next event.
PlacedBefore(F, b, t, u) ==
    /\ Kept(F, b) /\ b.outcome = None /\ Placed(F, b, t)
    /\ t \in Nat /\ u \in Nat /\ t <= u /\ b.idleSince <= u

LEMMA BeforeEvent ==
  ASSUME NEW F, NEW b \in BuildType, NEW t, NEW u, PlacedBefore(F, b, t, u)
  PROVE  /\ IsSpans(F) /\ F.spans \in Seq(SpanType) /\ F.terminal = None
         /\ TimedSpans(F.spans, u) /\ OpenInv(F, b)
         /\ b.idleSince \in 0..u
         /\ b.version > 1 /\ b.stack = <<>> => OverBy(F.spans, b.idleSince)
         /\ b.version = 1 => \A i \in DOMAIN F.spans : F.spans[i].depth = 0
  <1>1. IsSpans(F) /\ F.spans \in Seq(SpanType) /\ F.terminal = None /\ OpenInv(F, b)
    BY DEF PlacedBefore, Kept, Told, IsSpans
  <1>2. TimedSpans(F.spans, u)
    BY <1>1, TimedLater DEF PlacedBefore, Placed
  <1>3. b.idleSince \in 0..u
    BY DEF PlacedBefore, Placed
  <1> QED BY <1>1, <1>2, <1>3 DEF PlacedBefore, Placed

LEMMA OverLater ==
  ASSUME NEW P, NEW t \in Nat, NEW u \in Nat, t <= u, OverBy(P, t)
  PROVE  OverBy(P, u)
  <1> SUFFICES ASSUME NEW i \in DOMAIN P, P[i].depth = 0 PROVE P[i].end \in 0..u
    BY DEF OverBy
  <1>1. P[i].end \in 0..t
    BY DEF OverBy
  <1> QED BY <1>1

LEMMA StartPlaced ==
  ASSUME NEW F, NEW b \in BuildType, NEW t, NEW u, PlacedBefore(F, b, t, u), b.version > 1,
         NEW e \in EventType, e.stage \in Stages, e.status = "started", e.time = u,
         NEW c, c.version = b.version, c.stack # <<>>, c.idleSince = b.idleSince
  PROVE  Placed(Advance(b.version, F, e), c, u)
  <1>1. /\ IsSpans(F) /\ F.spans \in Seq(SpanType) /\ F.terminal = None
        /\ TimedSpans(F.spans, u) /\ b.idleSince \in 0..u
        /\ b.stack = <<>> => OverBy(F.spans, b.idleSince)
        /\ Nested(F, b.stack) /\ u \in Nat
    BY BeforeEvent DEF OpenInv, PlacedBefore
  <1>2. PICK x : x = NewSpan(e, Len(F.open), e.time)
    OBVIOUS
  <1>3. x.start = u /\ x.end = None /\ x.depth = Len(F.open)
    BY <1>2 DEF NewSpan
  <1>3a. x \in SpanType
    BY <1>1, <1>2 DEF NewSpan, SpanType, IsSpans
  <1>4. e.stage \notin Markers
    BY StagesAssumption
  <1>5. PICK G : G = Advance(b.version, F, e)
    OBVIOUS
  <1>6. G.spans = Append(F.spans, x) /\ G.terminal = None
    BY <1>1, <1>2, <1>4, <1>5 DEF Advance, Lifecycle, IsSpans, BuildType
  <1>7. x.depth = 0 => OverBy(F.spans, x.start)
    <2> SUFFICES ASSUME x.depth = 0 PROVE OverBy(F.spans, u)
      BY <1>3
    <2>1. b.stack = <<>>
      BY <1>1, <1>3 DEF Nested, BuildType
    <2>2. OverBy(F.spans, b.idleSince) /\ b.idleSince \in Nat /\ b.idleSince <= u
      BY <1>1, <2>1
    <2> QED BY <1>1, <2>2, OverLater
  <1>8. TimedSpans(G.spans, u)
    <2>1. x.start \in 0..u /\ (x.end # None => x.end \in x.start..u)
      BY <1>1, <1>3
    <2> QED BY <1>1, <1>3a, <1>6, <1>7, <2>1, AppendTimed
  <1> QED BY <1>1, <1>5, <1>6, <1>8 DEF Placed

LEMMA ObservePlaced ==
  ASSUME NEW F, NEW b \in BuildType, NEW t, NEW u, PlacedBefore(F, b, t, u), b.version > 1,
         NEW e \in EventType, e.stage \in Stages, e.status = "completed", e.time = u,
         e.elapsed = u - b.idleSince, \A k \in 1..Len(b.stack) : b.stack[k] # e.stage,
         NEW c, c.version = b.version, c.stack = b.stack,
         c.idleSince = IF b.stack = <<>> THEN u ELSE b.idleSince
  PROVE  Placed(Advance(b.version, F, e), c, u)
  <1>1. /\ IsSpans(F) /\ F.spans \in Seq(SpanType) /\ F.terminal = None
        /\ TimedSpans(F.spans, u) /\ b.idleSince \in 0..u
        /\ b.stack = <<>> => OverBy(F.spans, b.idleSince)
        /\ Nested(F, b.stack) /\ u \in Nat
    BY BeforeEvent DEF OpenInv, PlacedBefore
  <1>2. PICK began : began = IF e.elapsed = None THEN e.time ELSE Max({0, e.time - e.elapsed})
    OBVIOUS
  <1>3. began = b.idleSince
    <2>1. PICK i : i = b.idleSince
      OBVIOUS
    <2>2. i \in Nat /\ i <= u /\ e.elapsed = u - i /\ u - i \in Nat /\ u - (u - i) = i
      BY <1>1, <2>1
    <2>3. e.elapsed # None
      BY <2>2, NoneAssumption
    <2>4. IsGreatest(i, {0, i}) /\ {0, i} \subseteq Int
      BY <2>2 DEF IsGreatest
    <2>5. Max({0, i}) = i
      BY <2>2, <2>4, GreatestIsMax
    <2> QED BY <1>2, <2>1, <2>2, <2>3, <2>5
  <1>4. PICK y : y = NewSpan(e, Len(F.open), began)
    OBVIOUS
  <1>5. y \in SpanType /\ y.start = b.idleSince /\ y.depth = Len(F.open)
    BY <1>1, <1>3, <1>4 DEF NewSpan, SpanType, IsSpans
  <1>6. PICK x : x = ClosedBy(y, e)
    OBVIOUS
  <1>7. x \in SpanType /\ x.start = b.idleSince /\ x.depth = Len(F.open) /\ x.end = u
    BY <1>1, <1>5, <1>6 DEF ClosedBy, SpanType, EventType
  <1>8. e.stage \notin Markers
    BY StagesAssumption
  <1>9. OpenSpan(F, e.stage) = 0
    <2>0. DOMAIN F.open = 1..Len(b.stack)
      BY <1>1 DEF Nested, IsSpans
    <2>1. \A i \in DOMAIN F.open : F.spans[F.open[i]].stage # e.stage
      BY <1>1, <2>0 DEF Nested
    <2>2. {i \in DOMAIN F.open : F.spans[F.open[i]].stage = e.stage} = {}
      BY <2>1
    <2> QED BY <2>2 DEF OpenSpan
  <1>10. PICK G : G = Advance(b.version, F, e)
    OBVIOUS
  <1>11. G.spans = Append(F.spans, x) /\ G.terminal = None
    <2>1. G = Lifecycle(F, e)
      BY <1>10 DEF Advance, BuildType
    <2>2. G = [F EXCEPT !.spans = Append(@, x)]
      BY <1>2, <1>4, <1>6, <1>8, <1>9, <2>1 DEF Lifecycle
    <2> QED BY <1>1, <2>2 DEF IsSpans
  <1>12. TimedSpans(G.spans, u)
    <2>1. x.start \in 0..u /\ x.end \in x.start..u
      BY <1>1, <1>7
    <2>2. x.depth = 0 => OverBy(F.spans, x.start)
      <3>1. b.stack \in Seq(Stages) /\ Len(F.open) = Len(b.stack)
        BY <1>1 DEF Nested, BuildType
      <3>2. x.depth = 0 => b.stack = <<>>
        BY <1>7, <3>1
      <3> QED BY <1>1, <1>7, <3>2
    <2> QED BY <1>1, <1>7, <1>11, <2>1, <2>2, AppendTimed
  <1>13. c.version > 1 /\ c.stack = <<>> => OverBy(G.spans, c.idleSince)
    <2> SUFFICES ASSUME b.stack = <<>> PROVE OverBy(G.spans, u)
      OBVIOUS
    <2>1. OverBy(F.spans, u)
      BY <1>1, OverLater
    <2>2. \A i \in DOMAIN F.spans : F.spans[i].depth = 0 => F.spans[i].end # None
      BY <2>1, NoneAssumption DEF OverBy
    <2>3. ASSUME NEW i \in DOMAIN G.spans, G.spans[i].depth = 0 PROVE G.spans[i].end # None
      <3>1. CASE i \in DOMAIN F.spans
        <4>1. G.spans[i] = F.spans[i]
          BY <1>1, <1>11, <3>1
        <4> QED BY <2>2, <2>3, <3>1, <4>1
      <3>2. CASE i \notin DOMAIN F.spans
        <4>1. G.spans[i] = x
          BY <1>1, <1>11, <2>3, <3>2
        <4> QED BY <1>1, <1>7, <4>1, NoneAssumption
      <3> QED BY <3>1, <3>2
    <2> QED BY <1>1, <1>12, <2>3, EndedAreOver
  <1> QED BY <1>1, <1>10, <1>11, <1>12, <1>13 DEF Placed

LEMMA FinishPlaced ==
  ASSUME NEW F, NEW b \in BuildType, NEW t, NEW u, PlacedBefore(F, b, t, u), b.version > 1,
         b.stack # <<>>,
         NEW e \in EventType, e.stage = Last(b.stack), e.status \in {"completed", "failed"},
         e.time = u,
         NEW c, c.version = b.version, c.stack = Front(b.stack),
         c.idleSince = IF Front(b.stack) = <<>> THEN u ELSE b.idleSince
  PROVE  Placed(Advance(b.version, F, e), c, u)
  <1>1. /\ IsSpans(F) /\ F.spans \in Seq(SpanType) /\ F.terminal = None
        /\ TimedSpans(F.spans, u) /\ b.idleSince \in 0..u
        /\ Nested(F, b.stack) /\ u \in Nat
    BY BeforeEvent DEF OpenInv, PlacedBefore
  <1>2. b.stack \in Seq(Stages)
    BY DEF BuildType
  <1>3. PICK G, i : G = Advance(b.version, F, e) /\ i = F.open[Len(b.stack)]
    OBVIOUS
  <1>4. G = Lifecycle(F, e)
    BY <1>3 DEF Advance, BuildType
  <1>5. /\ Nested(G, Front(b.stack))
        /\ i \in DOMAIN F.spans /\ F.spans[i].end = None
        /\ Replaces(F, G, i, ClosedBy(F.spans[i], e))
    BY <1>1, <1>2, <1>3, <1>4, FinishNests
  <1>6. PICK x : x = ClosedBy(F.spans[i], e)
    OBVIOUS
  <1>7. x.start = F.spans[i].start /\ x.depth = F.spans[i].depth /\ x.end = u
    <2>1. F.spans[i] \in SpanType
      BY <1>1, <1>5
    <2> QED BY <1>6, <2>1 DEF ClosedBy, SpanType
  <1>8. G.spans = [F.spans EXCEPT ![i] = x] /\ G.terminal = None
    BY <1>1, <1>5, <1>6 DEF Replaces
  <1>9. TimedSpans(G.spans, u)
    BY <1>1, <1>5, <1>7, <1>8, ReplaceTimed
  <1>10. c.version > 1 /\ c.stack = <<>> => OverBy(G.spans, c.idleSince)
    <2> SUFFICES ASSUME Front(b.stack) = <<>> PROVE OverBy(G.spans, u)
      OBVIOUS
    <2>1. \A j \in DOMAIN G.spans : G.spans[j].end # None
      <3>1. Len(<<>>) = 0 /\ 1..0 = {}
        OBVIOUS
      <3> QED BY <1>5, <3>1 DEF Nested
    <2> QED BY <1>1, <1>9, <2>1, EndedAreOver
  <1> QED BY <1>1, <1>3, <1>8, <1>9, <1>10 DEF Placed

LEMMA LeaveTimed ==
  ASSUME NEW F, NEW b \in BuildType, NEW t, NEW u, PlacedBefore(F, b, t, u), b.version = 1,
         NEW e \in EventType, e.time = u
  PROVE  /\ AllEnded(F, LeftSpans(F, e)) /\ TimedSpans(LeftSpans(F, e), u)
         /\ \A i \in DOMAIN LeftSpans(F, e) : LeftSpans(F, e)[i].depth = 0
         /\ OverBy(LeftSpans(F, e), u)
         /\ F.open # <<>> => Len(F.spans) \in DOMAIN F.spans
  <1>1. /\ IsSpans(F) /\ F.spans \in Seq(SpanType)
        /\ TimedSpans(F.spans, u) /\ u \in Nat
        /\ \A i \in DOMAIN F.spans : F.spans[i].depth = 0
        /\ Entered(F, b.stack)
    BY BeforeEvent DEF OpenInv, PlacedBefore
  <1>2. PICK left : left = LeftSpans(F, e)
    OBVIOUS
  <1>3. AllEnded(F, left)
    BY <1>1, <1>2, LeaveEnds
  <1>4. /\ TimedSpans(left, u) /\ \A i \in DOMAIN left : left[i].depth = 0
        /\ F.open # <<>> => Len(F.spans) \in DOMAIN F.spans
    <2>1. CASE F.open = <<>>
      BY <1>1, <1>2, <2>1 DEF LeftSpans
    <2>2. CASE F.open # <<>>
      <3>1. PICK n : n = Len(F.spans)
        OBVIOUS
      <3>2. n \in DOMAIN F.spans /\ F.spans[n].end = None
        BY <1>1, <2>2, <3>1 DEF Entered
      <3>3. PICK x : x = Left(F.spans[n], e.time)
        OBVIOUS
      <3>4. x.start = F.spans[n].start /\ x.depth = F.spans[n].depth /\ x.end = u
        <4>1. F.spans[n] \in SpanType
          BY <1>1, <3>2
        <4> QED BY <3>3, <4>1 DEF Left, SpanType
      <3>5. left = [F.spans EXCEPT ![n] = x]
        BY <1>2, <2>2, <3>1, <3>3 DEF LeftSpans
      <3>6. TimedSpans(left, u)
        BY <1>1, <3>2, <3>4, <3>5, ReplaceTimed
      <3>7. \A i \in DOMAIN left : left[i].depth = 0
        BY <1>1, <3>2, <3>4, <3>5
      <3> QED BY <3>1, <3>2, <3>6, <3>7
    <2> QED BY <2>1, <2>2
  <1>5. OverBy(left, u)
    BY <1>1, <1>3, <1>4, EndedAreOver DEF AllEnded
  <1> QED BY <1>2, <1>3, <1>4, <1>5

LEMMA TransitionPlaced ==
  ASSUME NEW F, NEW b \in BuildType, NEW t, NEW u, PlacedBefore(F, b, t, u), b.version = 1,
         NEW e \in EventType, e.time = u, e.stage \in Stages,
         NEW c, c.version = b.version, c.idleSince = b.idleSince
  PROVE  Placed(Advance(b.version, F, e), c, u)
  <1>1. /\ IsSpans(F) /\ F.spans \in Seq(SpanType) /\ F.terminal = None
        /\ TimedSpans(F.spans, u) /\ u \in Nat /\ b.idleSince \in 0..u
        /\ \A i \in DOMAIN F.spans : F.spans[i].depth = 0
    BY BeforeEvent DEF PlacedBefore
  <1>2. PICK left, n : left = LeftSpans(F, e) /\ n = Len(F.spans)
    OBVIOUS
  <1>3. /\ left \in Seq(SpanType) /\ TimedSpans(left, u) /\ OverBy(left, u)
        /\ \A i \in DOMAIN left : left[i].depth = 0
        /\ F.open # <<>> => n \in DOMAIN F.spans
    BY <1>2, LeaveTimed DEF AllEnded
  <1>4. e.stage \notin Markers
    BY StagesAssumption
  <1>5. PICK G : G = Advance(b.version, F, e)
    OBVIOUS
  <1>6. CASE F.open # <<>> /\ F.spans[n].stage = e.stage
    <2>1. n \in DOMAIN F.spans /\ F.spans[n] \in SpanType
      BY <1>1, <1>3, <1>6
    <2>2. PICK x : x = MarkFailed(F.spans[n], e)
      OBVIOUS
    <2>3. x.start = F.spans[n].start /\ x.depth = F.spans[n].depth /\ x.end = F.spans[n].end
      BY <2>1, <2>2 DEF MarkFailed, SpanType
    <2>4. G.spans = [F.spans EXCEPT ![n] = x] /\ G.terminal = None
      BY <1>1, <1>2, <1>4, <1>5, <1>6, <2>2 DEF Advance, Transition, Markers, IsSpans
    <2>5. TimedSpans(G.spans, u)
      BY <1>1, <2>1, <2>3, <2>4, ReplaceTimed
    <2>6. \A i \in DOMAIN G.spans : G.spans[i].depth = 0
      BY <1>1, <2>1, <2>3, <2>4
    <2> QED BY <1>1, <1>5, <2>4, <2>5, <2>6 DEF Placed
  <1>7. CASE ~(F.open # <<>> /\ F.spans[n].stage = e.stage)
    <2>1. PICK y : y = NewSpan(e, 0, e.time)
      OBVIOUS
    <2>2. y \in SpanType /\ y.start = u /\ y.end = None /\ y.depth = 0
      BY <1>1, <2>1 DEF NewSpan, SpanType
    <2>3. PICK x : x = MarkFailed(y, e)
      OBVIOUS
    <2>4. x \in SpanType /\ x.start = u /\ x.end = None /\ x.depth = 0
      BY <2>2, <2>3 DEF MarkFailed, SpanType
    <2>5. G.spans = Append(left, x) /\ G.terminal = None
      BY <1>1, <1>2, <1>4, <1>5, <1>7, <2>1, <2>3
         DEF Advance, Transition, Markers, LeftSpans, IsSpans
    <2>6. TimedSpans(G.spans, u)
      BY <1>1, <1>3, <2>4, <2>5, AppendTimed
    <2>7. \A i \in DOMAIN G.spans : G.spans[i].depth = 0
      BY <1>3, <2>4, <2>5
    <2> QED BY <1>1, <1>5, <2>5, <2>6, <2>7 DEF Placed
  <1> QED BY <1>6, <1>7

LEMMA EndPlaced ==
  ASSUME NEW F, NEW b \in BuildType, NEW t, NEW u, PlacedBefore(F, b, t, u),
         NEW e \in EventType, e.time = u, e.stage \in {"complete", "failed", "blocked"},
         b.version = 1 => e.stage # "blocked",
         NEW c, c.version = b.version, c.stack = b.stack, c.idleSince = b.idleSince
  PROVE  Placed(Advance(b.version, F, e), c, u)
  <1>1. /\ IsSpans(F) /\ F.spans \in Seq(SpanType)
        /\ TimedSpans(F.spans, u) /\ u \in Nat /\ b.idleSince \in 0..u
        /\ b.version > 1 /\ b.stack = <<>> => OverBy(F.spans, b.idleSince)
    BY BeforeEvent DEF PlacedBefore
  <1>2. PICK G : G = Advance(b.version, F, e)
    OBVIOUS
  <1>3. CASE b.version > 1
    <2>1. G.spans = F.spans /\ G.terminal = e
      BY <1>1, <1>2, <1>3 DEF Advance, Lifecycle, Markers, IsSpans
    <2> QED BY <1>1, <1>2, <1>3, <2>1 DEF Placed
  <1>4. CASE b.version = 1
    <2>1. PICK left, n : left = LeftSpans(F, e) /\ n = Len(F.spans)
      OBVIOUS
    <2>2. /\ left \in Seq(SpanType) /\ TimedSpans(left, u) /\ DOMAIN left = DOMAIN F.spans
          /\ \A i \in DOMAIN left : left[i].depth = 0
          /\ F.open # <<>> => n \in DOMAIN F.spans
      BY <1>4, <2>1, LeaveTimed DEF AllEnded
    <2>3. /\ G.spans = IF F.open # <<>> /\ e.stage = "failed"
                       THEN [left EXCEPT ![n].status = "failed"] ELSE left
          /\ G.terminal = e
      BY <1>1, <1>2, <1>4, <2>1 DEF Advance, Transition, LeftSpans, IsSpans
    <2>4. CASE F.open # <<>> /\ e.stage = "failed"
      <3>1. n \in DOMAIN left /\ left[n] \in SpanType
        BY <2>2, <2>4
      <3>2. PICK x : x = [left[n] EXCEPT !.status = "failed"]
        OBVIOUS
      <3>3. x.start = left[n].start /\ x.depth = left[n].depth /\ x.end = left[n].end
        BY <3>1, <3>2 DEF SpanType
      <3>4. G.spans = [left EXCEPT ![n] = x]
        BY <2>3, <2>4, <3>2
      <3>5. TimedSpans(G.spans, u)
        <4>1. u \in Nat /\ left \in Seq(SpanType) /\ TimedSpans(left, u)
          BY <1>1, <2>2
        <4>2. TimedSpans([left EXCEPT ![n] = x], u)
          BY <3>1, <3>3, <4>1, ReplaceTimed
        <4> QED BY <3>4, <4>2
      <3>6. \A i \in DOMAIN G.spans : G.spans[i].depth = 0
        BY <2>2, <3>1, <3>3, <3>4
      <3> QED BY <1>1, <1>2, <1>4, <2>3, <3>5, <3>6 DEF Placed
    <2>5. CASE ~(F.open # <<>> /\ e.stage = "failed")
      BY <1>1, <1>2, <1>4, <2>2, <2>3, <2>5 DEF Placed
    <2> QED BY <2>4, <2>5
  <1> QED BY <1>3, <1>4 DEF BuildType

-----------------------------------------------------------------------------
(***************************************************************************)
(* The times in the files.                                                 *)
(***************************************************************************)

LastTime(events) == IF events = <<>> THEN 0 ELSE events[Len(events)].time

\* The epochs logged, in their order, by time t.
PointType == [epoch : Nat \ {0}, epochs : Nat, time : Nat]
DatedBy(s, t) == \A i \in DOMAIN s : s[i].time <= t
Logged(points, t) ==
    /\ points \in Seq(PointType) /\ DatedBy(points, t)
    /\ \A i, j \in DOMAIN points : i < j => points[i].time <= points[j].time

\* A document saved by time t.
IsDocument(doc, t) == doc.updated \in 0..t /\ (doc.heartbeat # None => doc.heartbeat \in 0..t)

FilesInv ==
    /\ build.idleSince \in 0..now
    /\ read.events \in Seq(EventType) /\ DatedBy(written, now) /\ DatedBy(read.events, now)
    /\ Logged(epochs, now) /\ Logged(read.epochs, now)
    /\ IsDocument(progress, now) /\ IsDocument(read.progress, now)

WrittenTimed == Placed(SpansFrom(build.version, written), build, LastTime(written))

ReadTimed ==
    /\ TimedSpans(ReadSpans.spans, LastTime(read.events))
    /\ ReadSpans.terminal # None => ReadSpans.terminal.time >= LastTime(read.events)

TimesInv == FilesInv /\ WrittenTimed /\ ReadTimed

LEMMA DatedLater ==
  ASSUME NEW S, NEW s \in Seq(S), \A x \in S : x.time \in Nat, NEW t \in Nat, NEW u \in Nat,
         t <= u, DatedBy(s, t)
  PROVE  DatedBy(s, u)
  <1> SUFFICES ASSUME NEW i \in DOMAIN s PROVE s[i].time <= u
    BY DEF DatedBy
  <1>1. s[i].time <= t /\ s[i].time \in Nat
    BY DEF DatedBy
  <1> QED BY <1>1

LEMMA DatedAppend ==
  ASSUME NEW S, NEW s \in Seq(S), NEW t, DatedBy(s, t), NEW x \in S, x.time <= t
  PROVE  DatedBy(Append(s, x), t)
  <1> SUFFICES ASSUME NEW i \in DOMAIN Append(s, x) PROVE Append(s, x)[i].time <= t
    BY DEF DatedBy
  <1>1. CASE i \in DOMAIN s
    BY <1>1 DEF DatedBy
  <1>2. CASE i \notin DOMAIN s
    BY <1>2
  <1> QED BY <1>1, <1>2

LEMMA LastTimeBounded ==
  ASSUME NEW events \in Seq(EventType), NEW t \in Nat, DatedBy(events, t)
  PROVE  LastTime(events) \in Nat /\ LastTime(events) <= t
  <1>1. CASE events = <<>>
    BY <1>1 DEF LastTime
  <1>2. CASE events # <<>>
    <2>1. PICK n : n = Len(events)
      OBVIOUS
    <2>2. n \in DOMAIN events /\ events[n] \in EventType
      BY <1>2, <2>1
    <2>3. events[n].time <= t /\ events[n].time \in Nat
      BY <2>2 DEF DatedBy, EventType
    <2> QED BY <1>2, <2>1, <2>3 DEF LastTime
  <1> QED BY <1>1, <1>2

LEMMA InitTimes == Init => TimesInv
  <1> SUFFICES ASSUME Init PROVE TimesInv
    OBVIOUS
  <1>1. /\ written = <<>> /\ read.events = <<>> /\ epochs = <<>> /\ read.epochs = <<>>
        /\ now = 0 /\ progress = Document(build) /\ read.progress = progress
        /\ build.idleSince = 0
    BY DEF Init
  <1>2. IsDocument(progress, now) /\ IsDocument(read.progress, now)
    BY <1>1 DEF Document, IsDocument
  <1>3. /\ DatedBy(<<>>, now) /\ Logged(<<>>, now) /\ <<>> \in Seq(EventType)
        /\ LastTime(<<>>) = 0
    BY DEF DatedBy, Logged, LastTime
  <1>4. FilesInv
    BY <1>1, <1>2, <1>3 DEF FilesInv
  <1>5. SpansFrom(build.version, <<>>) = NoSpans
    BY SpansOfNothing
  <1>6. /\ DOMAIN NoSpans.spans = {} /\ NoSpans.terminal = None
    BY DEF NoSpans
  <1>7. TimedSpans(NoSpans.spans, 0) /\ OverBy(NoSpans.spans, 0)
    BY <1>6 DEF TimedSpans, OverBy
  <1>8. Placed(NoSpans, build, 0)
    BY <1>1, <1>6, <1>7 DEF Placed
  <1> QED BY <1>1, <1>3, <1>4, <1>5, <1>6, <1>7, <1>8 DEF TimesInv, WrittenTimed, ReadTimed, ReadSpans

\* A running build's spans, before its next event.
LEMMA ReadyToReport ==
  ASSUME TimelineInv, TimesInv, build.outcome = None
  PROVE  PlacedBefore(SpansFrom(build.version, written), build, LastTime(written), now)
  <1>1. now \in Nat /\ written \in Seq(EventType)
        /\ Kept(SpansFrom(build.version, written), build)
    BY DEF TimelineInv, TypeInv, SpansInv
  <1>2. DatedBy(written, now) /\ build.idleSince <= now
    BY <1>1 DEF TimesInv, FilesInv
  <1>3. LastTime(written) \in Nat /\ LastTime(written) <= now
    BY <1>1, <1>2, LastTimeBounded
  <1> QED BY <1>1, <1>2, <1>3 DEF PlacedBefore, TimesInv, WrittenTimed

LEMMA ReportTimes ==
  ASSUME TimelineInv, TimesInv, NEW e \in EventType, e.time = now, Report(e),
         build'.version = build.version, build'.idleSince \in 0..now,
         Placed(Advance(build.version, SpansFrom(build.version, written), e), build', now)
  PROVE  TimesInv'
  <1>1. /\ written' = Append(written, e) /\ now' = now /\ epochs' = epochs
        /\ progress' = progress /\ read' = read
    BY DEF Report
  <1>2. written \in Seq(EventType) /\ now \in Nat
    BY DEF TimelineInv, TypeInv
  <1>3. SpansFrom(build.version, written') = Advance(build.version, SpansFrom(build.version, written), e)
    BY <1>1, <1>2, SpansOfAppend
  <1>4. LastTime(written') = now
    BY <1>1, <1>2 DEF LastTime
  <1>5. WrittenTimed'
    BY <1>3, <1>4 DEF WrittenTimed
  <1>6. DatedBy(written', now)
    <2>1. DatedBy(written, now) /\ e.time <= now
      BY <1>2 DEF TimesInv, FilesInv
    <2> QED BY <1>1, <1>2, <2>1, DatedAppend
  <1>7. FilesInv'
    BY <1>1, <1>6 DEF TimesInv, FilesInv
  <1>8. ReadTimed'
    BY <1>1 DEF TimesInv, ReadTimed, ReadSpans
  <1> QED BY <1>5, <1>7, <1>8 DEF TimesInv

LEMMA StartTimes ==
  ASSUME TimelineInv, TimesInv, NEW s \in Stages, Start(s)
  PROVE  TimesInv'
  <1>1. PICK e : e = Event("started", s, FALSE, None)
    OBVIOUS
  <1>2. now \in Nat /\ build \in BuildType /\ build.idleSince \in 0..now
    BY DEF TimelineInv, TypeInv, TimesInv, FilesInv
  <1>3. e \in EventType /\ e.status = "started" /\ e.stage = s /\ e.time = now
    BY <1>1, <1>2 DEF Event, EventType
  <1>4. /\ build.version > 1 /\ build.outcome = None /\ Report(e)
        /\ build' = [build EXCEPT !.stack = Append(@, s)]
    BY <1>1 DEF Start, Report
  <1>5. /\ build'.version = build.version /\ build'.idleSince = build.idleSince
        /\ build'.stack # <<>>
    BY <1>2, <1>4 DEF BuildType
  <1>6. Placed(Advance(build.version, SpansFrom(build.version, written), e), build', now)
    BY <1>2, <1>3, <1>4, <1>5, StartPlaced, ReadyToReport
  <1> QED BY <1>2, <1>3, <1>4, <1>5, <1>6, ReportTimes

LEMMA FinishTimes ==
  ASSUME TimelineInv, TimesInv, NEW status \in {"completed", "failed"}, NEW blocking \in BOOLEAN,
         Finish(status, blocking)
  PROVE  TimesInv'
  <1>1. PICK e : e = Event(status, Last(build.stack), blocking, None)
    OBVIOUS
  <1>2. /\ now \in Nat /\ build \in BuildType /\ build.idleSince \in 0..now
        /\ build.stack # <<>>
    BY DEF TimelineInv, TypeInv, TimesInv, FilesInv, Finish
  <1>3. Last(build.stack) \in Stages
    BY <1>2 DEF BuildType, Last
  <1>4. e \in EventType /\ e.status = status /\ e.stage = Last(build.stack) /\ e.time = now
    BY <1>1, <1>2, <1>3 DEF Event, EventType
  <1>5. /\ build.version > 1 /\ build.outcome = None /\ Report(e)
        /\ build'.version = build.version /\ build'.stack = Front(build.stack)
        /\ build'.idleSince = IF Front(build.stack) = <<>> THEN now ELSE build.idleSince
    BY <1>1, <1>2 DEF Finish, Report, BuildType
  <1>6. build'.idleSince \in 0..now
    BY <1>2, <1>5
  <1>7. Placed(Advance(build.version, SpansFrom(build.version, written), e), build', now)
    BY <1>2, <1>4, <1>5, FinishPlaced, ReadyToReport
  <1> QED BY <1>4, <1>5, <1>6, <1>7, ReportTimes

LEMMA ObserveTimes ==
  ASSUME TimelineInv, TimesInv, NEW s \in Stages, Observe(s)
  PROVE  TimesInv'
  <1>1. PICK e : e = Event("completed", s, FALSE, now - build.idleSince)
    OBVIOUS
  <1>2. now \in Nat /\ build \in BuildType /\ build.idleSince \in 0..now
    BY DEF TimelineInv, TypeInv, TimesInv, FilesInv
  <1>3. /\ e \in EventType /\ e.status = "completed" /\ e.stage = s /\ e.time = now
        /\ e.elapsed = now - build.idleSince
    <2>1. now - build.idleSince \in Int
      BY <1>2 DEF BuildType
    <2> QED BY <1>1, <1>2, <2>1 DEF Event, EventType
  <1>4. /\ build.version > 1 /\ build.outcome = None /\ Report(e)
        /\ build'.version = build.version /\ build'.stack = build.stack
        /\ build'.idleSince = IF build.stack = <<>> THEN now ELSE build.idleSince
    BY <1>1, <1>2 DEF Observe, Report, BuildType
  <1>5. \A k \in 1..Len(build.stack) : build.stack[k] # s
    BY <1>2 DEF Observe, Range, BuildType
  <1>6. build'.idleSince \in 0..now
    BY <1>2, <1>4
  <1>7. Placed(Advance(build.version, SpansFrom(build.version, written), e), build', now)
    BY <1>2, <1>3, <1>4, <1>5, ObservePlaced, ReadyToReport
  <1> QED BY <1>3, <1>4, <1>6, <1>7, ReportTimes

LEMMA TransitionTimes ==
  ASSUME TimelineInv, TimesInv, FailInStage \/ \E s \in Stages : Enter(s)
  PROVE  TimesInv'
  <1>2. now \in Nat /\ build \in BuildType /\ build.idleSince \in 0..now
    BY DEF TimelineInv, TypeInv, TimesInv, FilesInv
  <1>3. PICK e \in EventType :
          /\ e.stage \in Stages /\ e.time = now /\ Report(e)
          /\ build.version = 1 /\ build.outcome = None
          /\ build'.version = build.version /\ build'.idleSince = build.idleSince
    <2>1. CASE FailInStage
      <3>1. PICK e : e = Event("failed", build.stack[1], FALSE, None)
        OBVIOUS
      <3>2. build.stack[1] \in Stages
        BY <1>2, <2>1 DEF BuildType, FailInStage
      <3>3. e \in EventType /\ e.stage \in Stages /\ e.time = now
        BY <1>2, <3>1, <3>2 DEF Event, EventType
      <3> QED BY <1>2, <2>1, <3>1, <3>3 DEF FailInStage, Report, BuildType
    <2>2. CASE \E s \in Stages : Enter(s)
      <3>1. PICK s \in Stages : Enter(s)
        BY <2>2
      <3>2. PICK e : e = Event("running", s, FALSE, None)
        OBVIOUS
      <3>3. e \in EventType /\ e.stage \in Stages /\ e.time = now
        BY <1>2, <3>2 DEF Event, EventType
      <3> QED BY <1>2, <3>1, <3>2, <3>3 DEF Enter, Report, BuildType
    <2> QED BY <2>1, <2>2
  <1>4. Placed(Advance(build.version, SpansFrom(build.version, written), e), build', now)
    BY <1>2, <1>3, TransitionPlaced, ReadyToReport
  <1> QED BY <1>2, <1>3, <1>4, ReportTimes

LEMMA EndTimes ==
  ASSUME TimelineInv, TimesInv, NEW marker \in {"complete", "failed", "blocked"}, End(marker)
  PROVE  TimesInv'
  <1>1. PICK e : e = Event(IF marker = "failed" THEN "failed" ELSE "completed", marker, FALSE, None)
    OBVIOUS
  <1>2. now \in Nat /\ build \in BuildType /\ build.idleSince \in 0..now
    BY DEF TimelineInv, TypeInv, TimesInv, FilesInv
  <1>3. e \in EventType /\ e.stage = marker /\ e.time = now
    BY <1>1, <1>2 DEF Event, EventType, Markers
  <1>4. /\ build.outcome = None /\ Report(e)
        /\ build'.version = build.version /\ build'.idleSince = build.idleSince
        /\ build'.stack = build.stack
        /\ build.version = 1 => e.stage # "blocked"
    <2>1. build' = EndsBy(build, marker)
      BY DEF End, EndsBy
    <2>2. /\ build'.version = build.version /\ build'.idleSince = build.idleSince
          /\ build'.stack = build.stack
      BY <1>2, <2>1 DEF EndsBy, BuildType
    <2>3. build.outcome = None /\ Report(e)
      BY <1>1 DEF End, Report
    <2>4. marker = "blocked" => build.version = 3
      BY DEF End
    <2> QED BY <1>3, <2>2, <2>3, <2>4
  <1>5. Placed(Advance(build.version, SpansFrom(build.version, written), e), build', now)
    BY <1>2, <1>3, <1>4, EndPlaced, ReadyToReport
  <1> QED BY <1>2, <1>3, <1>4, <1>5, ReportTimes

\* What FilesInv says of files and documents, as of a later time.
LEMMA LoggedLater ==
  ASSUME NEW points, NEW t \in Nat, NEW u \in Nat, t <= u, Logged(points, t)
  PROVE  Logged(points, u)
  <1>1. points \in Seq(PointType) /\ DatedBy(points, t) /\ \A x \in PointType : x.time \in Nat
    BY DEF Logged, PointType
  <1>2. DatedBy(points, u)
    BY <1>1, DatedLater
  <1> QED BY <1>2 DEF Logged

LEMMA TickTimes ==
  ASSUME TimelineInv, TimesInv, Tick
  PROVE  TimesInv'
  <1>1. /\ now \in Nat /\ now' = now + 1 /\ build' = build /\ written' = written
        /\ epochs' = epochs /\ progress' = progress /\ read' = read
    BY DEF Tick, TimelineInv, TypeInv
  <1>2. now' \in Nat /\ now <= now'
    BY <1>1
  <1>3. \A x \in EventType : x.time \in Nat
    BY DEF EventType
  <1>4. FilesInv /\ written \in Seq(EventType)
    BY DEF TimesInv, TimelineInv, TypeInv
  <1>5. DatedBy(written, now') /\ DatedBy(read.events, now')
    <2>1. DatedBy(written, now')
      BY <1>1, <1>2, <1>3, <1>4, DatedLater DEF FilesInv
    <2>2. DatedBy(read.events, now')
      BY <1>1, <1>2, <1>3, <1>4, DatedLater DEF FilesInv
    <2> QED BY <2>1, <2>2
  <1>6. Logged(epochs, now') /\ Logged(read.epochs, now')
    BY <1>1, <1>2, <1>4, LoggedLater DEF FilesInv
  <1>7. IsDocument(progress, now') /\ IsDocument(read.progress, now') /\ build.idleSince \in 0..now'
    BY <1>1, <1>2, <1>4 DEF FilesInv, IsDocument
  <1>8. FilesInv'
    BY <1>1, <1>4, <1>5, <1>6, <1>7 DEF FilesInv
  <1>9. WrittenTimed' /\ ReadTimed'
    BY <1>1 DEF TimesInv, WrittenTimed, ReadTimed, ReadSpans
  <1> QED BY <1>8, <1>9 DEF TimesInv

LEMMA EpochTimes ==
  ASSUME TimelineInv, TimesInv, NEW epoch \in 1..PassEpochs, LogEpoch(epoch)
  PROVE  TimesInv'
  <1>1. PICK x : x = [epoch |-> epoch, epochs |-> PassEpochs, time |-> now]
    OBVIOUS
  <1>2. /\ now \in Nat /\ now' = now /\ build' = build /\ written' = written
        /\ epochs' = Append(epochs, x) /\ progress' = progress /\ read' = read
    BY <1>1 DEF LogEpoch, TimelineInv, TypeInv
  <1>3. x \in PointType /\ x.time = now
    BY <1>1, <1>2, PassEpochsAssumption DEF PointType
  <1>4. /\ epochs \in Seq(PointType) /\ DatedBy(epochs, now)
        /\ \A i, j \in DOMAIN epochs : i < j => epochs[i].time <= epochs[j].time
    BY DEF TimesInv, FilesInv, Logged
  <1>5. DatedBy(epochs', now)
    BY <1>2, <1>3, <1>4, DatedAppend
  <1>6. ASSUME NEW i \in DOMAIN epochs', NEW j \in DOMAIN epochs', i < j
        PROVE  epochs'[i].time <= epochs'[j].time
    <2>1. i \in DOMAIN epochs /\ epochs'[i] = epochs[i]
      BY <1>2, <1>3, <1>4, <1>6
    <2>2. CASE j \in DOMAIN epochs
      <3>1. epochs'[j] = epochs[j]
        BY <1>2, <1>3, <1>4, <2>2
      <3> QED BY <1>4, <1>6, <2>1, <2>2, <3>1
    <2>3. CASE j \notin DOMAIN epochs
      <3>1. epochs'[j] = x
        BY <1>2, <1>3, <1>4, <1>6, <2>3
      <3> QED BY <1>3, <1>4, <2>1, <3>1 DEF DatedBy
    <2> QED BY <2>2, <2>3
  <1>7. Logged(epochs', now)
    <2>1. epochs' \in Seq(PointType)
      BY <1>2, <1>3, <1>4
    <2> QED BY <1>5, <1>6, <2>1 DEF Logged
  <1>8. FilesInv'
    BY <1>2, <1>7 DEF TimesInv, FilesInv
  <1>9. WrittenTimed' /\ ReadTimed'
    BY <1>2 DEF TimesInv, WrittenTimed, ReadTimed, ReadSpans
  <1> QED BY <1>8, <1>9 DEF TimesInv

LEMMA FileTimes ==
  ASSUME TimelineInv, TimesInv, Save \/ ReadEvents \/ ReadProgress \/ UNCHANGED vars
  PROVE  TimesInv'
  <1>1. now \in Nat /\ now' = now /\ build' = build /\ written' = written /\ epochs' = epochs
    BY DEF Save, ReadEvents, ReadProgress, vars, TimelineInv, TypeInv
  <1>2. FilesInv /\ written \in Seq(EventType)
    BY DEF TimesInv, TimelineInv, TypeInv
  <1>3. /\ progress' = progress \/ progress' = Document(build)
        /\ read'.progress \in {read.progress, progress}
        /\ \/ read'.events = read.events /\ read'.epochs = read.epochs
           \/ read'.events = written /\ read'.epochs = epochs
    <2>1. CASE ReadEvents
      BY <2>1 DEF ReadEvents
    <2>2. CASE ReadProgress
      BY <2>2 DEF ReadProgress
    <2>3. CASE Save \/ UNCHANGED vars
      BY <2>3 DEF Save, vars
    <2> QED BY <2>1, <2>2, <2>3
  <1>4. IsDocument(Document(build), now)
    BY <1>1 DEF Document, IsDocument
  <1>5. IsDocument(progress', now) /\ IsDocument(read'.progress, now)
    BY <1>2, <1>3, <1>4 DEF FilesInv
  <1>6. read'.events \in Seq(EventType) /\ DatedBy(read'.events, now) /\ Logged(read'.epochs, now)
    BY <1>2, <1>3 DEF FilesInv
  <1>7. FilesInv'
    BY <1>1, <1>2, <1>5, <1>6 DEF FilesInv
  <1>8. WrittenTimed'
    BY <1>1 DEF TimesInv, WrittenTimed
  <1>9. ReadTimed'
    <2>1. CASE read'.events = read.events
      BY <1>1, <2>1 DEF TimesInv, ReadTimed, ReadSpans
    <2>2. CASE read'.events = written
      BY <1>1, <2>2 DEF TimesInv, ReadTimed, ReadSpans, WrittenTimed, Placed
    <2> QED BY <1>3, <2>1, <2>2
  <1> QED BY <1>7, <1>8, <1>9 DEF TimesInv

LEMMA NextTimes == TimelineInv /\ TimesInv /\ [Next]_vars => TimesInv'
  <1> SUFFICES ASSUME TimelineInv, TimesInv, [Next]_vars PROVE TimesInv'
    OBVIOUS
  <1>1. CASE \E s \in Stages : Start(s) \/ Observe(s) \/ Enter(s)
    BY <1>1, StartTimes, ObserveTimes, TransitionTimes
  <1>2. CASE \E status \in {"completed", "failed"}, blocking \in BOOLEAN : Finish(status, blocking)
    BY <1>2, FinishTimes
  <1>3. CASE FailInStage
    BY <1>3, TransitionTimes
  <1>4. CASE \E marker \in {"complete", "failed", "blocked"} : End(marker)
    BY <1>4, EndTimes
  <1>5. CASE \E epoch \in 1..PassEpochs : LogEpoch(epoch)
    BY <1>5, EpochTimes
  <1>6. CASE Save \/ ReadEvents \/ ReadProgress \/ UNCHANGED vars
    BY <1>6, FileTimes
  <1>7. CASE Tick
    BY <1>7, TickTimes
  <1> QED BY <1>1, <1>2, <1>3, <1>4, <1>5, <1>6, <1>7 DEF Next

-----------------------------------------------------------------------------
(***************************************************************************)
(* The time of the phases.                                                 *)
(***************************************************************************)

\* The sum of the durations of the first k spans, for each k.
Totals(acc, n, top, clock, total) ==
    /\ acc[0] = 0
    /\ \A k \in 1..n : acc[k] = acc[k - 1] + SpanDuration(top[k], clock)
    /\ total = acc[n]

LEMMA TotalTrace ==
  ASSUME NEW run, NEW n \in Nat, NEW top \in [1..n -> SpanType], top = TopLevelSpans(run),
         NEW clock \in Nat
  PROVE  \E acc \in [0..n -> Int] : Totals(acc, n, top, clock, PhaseTotal(run, clock))
  <1> DEFINE Op(a, x) == a + SpanDuration(x, clock)
             f == [a \in Int |-> [x \in SpanType |-> Op(a, x)]]
             Rec(h) == h = [s \in SUBSET (1..n) |->
                              IF s = {} THEN 0 ELSE Op(h[s \ {Max(s)}], top[Max(s)])]
  <1>1. \A a \in Int, x \in SpanType : f[a][x] = Op(a, x)
    OBVIOUS
  <1>2. f \in [Int -> [SpanType -> Int]]
    <2>1. ASSUME NEW x \in SpanType PROVE SpanDuration(x, clock) \in Int
      <3>1. PICK e : e = (IF x.end = None THEN clock ELSE x.end) - x.start
        OBVIOUS
      <3>2. e \in Int
        BY <3>1 DEF SpanType
      <3>3. Max({0, e}) \in Int
        BY <3>2, MaxOfTwo
      <3> QED BY <3>1, <3>3 DEF SpanDuration
    <2> QED BY <2>1
  <1>3. PhaseTotal(run, clock) = (CHOOSE h : Rec(h))[1..n]
    <2>1. DOMAIN top = 1..n
      OBVIOUS
    <2> QED BY <2>1 DEF PhaseTotal, FoldLeft, MapThenFoldSet
  <1> HIDE DEF f, Op
  <1>0. FoldType(f, 0, top, n, Int, SpanType)
    BY <1>2 DEF FoldType
  <1>4. \E h : Rec(h)
    <2>0. Runs(f, 0, top, n, Int, SpanType)
      BY <1>0, FoldRuns
    <2>1. PICK h \in [SUBSET (1..n) -> Int] :
             \A s \in SUBSET (1..n) :
                /\ h[s] = OneStep(f, 0, top, h, s)
                /\ s # {} => h[s \ {Max(s)}] \in Int /\ top[Max(s)] \in SpanType
      BY <2>0 DEF Runs
    <2>2. \A s \in SUBSET (1..n) :
             h[s] = IF s = {} THEN 0 ELSE Op(h[s \ {Max(s)}], top[Max(s)])
      BY <1>1, <2>1 DEF OneStep
    <2> QED BY <2>2
  <1>5. PICK h : Rec(h) /\ h = CHOOSE g : Rec(g)
    BY <1>4
  <1>6. FoldedBy(f, 0, top, n, Int, SpanType, h)
    BY <1>1, <1>5 DEF FoldedBy
  <1>9. PICK acc \in [0..n -> Int] : Trace(f, 0, top, n, acc) /\ h[1..n] = acc[n]
    <2> HIDE DEF Rec
    <2>1. Traced(f, 0, top, n, Int, h[1..n])
      BY <1>0, <1>6, FoldTrace
    <2> QED BY <2>1 DEF Traced
  <1>10. PhaseTotal(run, clock) = acc[n]
    BY <1>3, <1>5, <1>9
  <1>11. ASSUME NEW k \in 1..n PROVE acc[k] = Op(acc[k - 1], top[k])
    <2>1. k - 1 \in 0..n /\ top[k] \in SpanType /\ acc[k - 1] \in Int
      OBVIOUS
    <2> QED BY <1>1, <1>9, <2>1 DEF Trace
  <1>12. Totals(acc, n, top, clock, PhaseTotal(run, clock))
    BY <1>9, <1>10, <1>11 DEF Trace, Op, Totals
  <1> QED BY <1>12

\* When a span ends, or until when it went on.
Until(x, clock) == IF x.end = None THEN clock ELSE x.end

\* Spans one after another, by time d.
Successive(top, n, clock, d) ==
    /\ \A k \in 1..n : top[k].start \in 0..d /\ Until(top[k], clock) \in top[k].start..d
    /\ \A k, l \in 1..n : k < l => Until(top[k], clock) <= top[l].start

LEMMA TopsSucceed ==
  ASSUME NEW S \in Seq(SpanType), NEW d \in Nat, NEW clock \in Nat, TimedSpans(S, d),
         \A i \in DOMAIN S : S[i].end = None => clock = d,
         NEW top, top = TopLevelSpans([spans |-> S])
  PROVE  top \in Seq(SpanType) /\ Successive(top, Len(top), clock, d)
  <1>1. PICK kept : kept = {span \in Range(S) : span.depth = 0}
    OBVIOUS
  <1>2. top = Within(S, kept)
    BY <1>1 DEF TopLevelSpans
  <1>3. PICK X : X = {i \in DOMAIN S : S[i] \in kept}
    OBVIOUS
  <1>4. top \in Seq(SpanType) /\ Lists(top, S, X)
    BY <1>2, <1>3, WithinPlaces
  <1>5. X \subseteq DOMAIN S /\ \A i \in X : S[i].depth = 0
    BY <1>1, <1>3
  <1>6. PICK n : n = Len(top)
    OBVIOUS
  <1>7. PICK m : Enumerates(m, n, X) /\ \A k \in 1..n : top[k] = S[m[k]]
    BY <1>4, <1>6 DEF Lists
  <1>8. \A k \in 1..n : m[k] \in DOMAIN S /\ S[m[k]].depth = 0
    BY <1>5, <1>7 DEF Enumerates
  <1>9. ASSUME NEW k \in 1..n
        PROVE  top[k].start \in 0..d /\ Until(top[k], clock) \in top[k].start..d
    <2>1. PICK i \in DOMAIN S : i = m[k]
      BY <1>8
    <2>2. top[k] = S[i] /\ S[i].start \in 0..d /\ (S[i].end # None => S[i].end \in S[i].start..d)
      BY <1>7, <2>1 DEF TimedSpans
    <2>3. S[i].end = None => clock = d
      OBVIOUS
    <2> QED BY <2>2, <2>3 DEF Until
  <1>10. ASSUME NEW k \in 1..n, NEW l \in 1..n, k < l PROVE Until(top[k], clock) <= top[l].start
    <2>1. PICK i \in DOMAIN S, j \in DOMAIN S : i = m[k] /\ j = m[l]
      BY <1>8
    <2>2. i < j /\ S[i].depth = 0 /\ S[j].depth = 0
      BY <1>7, <1>8, <1>10, <2>1 DEF Enumerates
    <2>3. S[i].end # None /\ S[i].end <= S[j].start
      BY <2>2 DEF TimedSpans
    <2> QED BY <1>7, <2>1, <2>3 DEF Until
  <1> QED BY <1>4, <1>6, <1>9, <1>10 DEF Successive

LEMMA DurationIs ==
  ASSUME NEW x, NEW clock \in Nat, x.start \in Nat, Until(x, clock) \in Nat,
         x.start <= Until(x, clock)
  PROVE  SpanDuration(x, clock) = Until(x, clock) - x.start
  <1>1. PICK d : d = Until(x, clock) - x.start
    OBVIOUS
  <1>2. d \in Nat
    BY <1>1
  <1>3. IsGreatest(d, {0, d}) /\ {0, d} \subseteq Int
    BY <1>2 DEF IsGreatest
  <1>4. Max({0, d}) = d
    BY <1>3, GreatestIsMax
  <1> QED BY <1>1, <1>4 DEF SpanDuration, Until

\* The durations of successive spans are time that was there.
LEMMA PhasesFit ==
  ASSUME NEW run, NEW d \in Nat, NEW clock \in Nat, NEW S \in Seq(SpanType), S = run.spans,
         TimedSpans(S, d), \A i \in DOMAIN S : S[i].end = None => clock = d
  PROVE  PhaseTotal(run, clock) <= d
  <1>1. PICK top, n : top = TopLevelSpans(run) /\ n = Len(top)
    OBVIOUS
  <1>2. TopLevelSpans(run) = TopLevelSpans([spans |-> S])
    BY DEF TopLevelSpans
  <1>3. top \in Seq(SpanType) /\ Successive(top, n, clock, d)
    BY <1>1, <1>2, TopsSucceed
  <1>4. n \in Nat /\ top \in [1..n -> SpanType]
    BY <1>1, <1>3
  <1>5. PICK acc \in [0..n -> Int] : Totals(acc, n, top, clock, PhaseTotal(run, clock))
    BY <1>1, <1>4, TotalTrace
  <1> DEFINE Good == {k \in Nat : k >= 1 /\ k <= n => acc[k] <= Until(top[k], clock)}
  <1>6. 0 \in Good
    OBVIOUS
  <1>7. ASSUME NEW k \in Nat, k \in Good PROVE k + 1 \in Good
    <2> SUFFICES ASSUME k + 1 <= n PROVE acc[k + 1] <= Until(top[k + 1], clock)
      OBVIOUS
    <2>1. k + 1 \in 1..n /\ (k + 1) - 1 = k /\ k \in 0..n
      BY <1>4
    <2>2. PICK s, e : s = top[k + 1].start /\ e = Until(top[k + 1], clock)
      OBVIOUS
    <2>3. s \in 0..d /\ e \in s..d
      BY <1>3, <2>1, <2>2 DEF Successive
    <2>4. SpanDuration(top[k + 1], clock) = e - s
      BY <2>2, <2>3, DurationIs
    <2>5. acc[k + 1] = acc[k] + (e - s)
      BY <1>5, <2>1, <2>4 DEF Totals
    <2>6. CASE k = 0
      <3>1. acc[k] = 0
        BY <1>5, <2>6 DEF Totals
      <3> QED BY <2>2, <2>3, <2>5, <3>1
    <2>7. CASE k # 0
      <3>1. k \in 1..n /\ k < k + 1
        BY <2>1, <2>7
      <3>2. acc[k] <= Until(top[k], clock)
        BY <1>7, <3>1
      <3>3. Until(top[k], clock) \in Int /\ Until(top[k], clock) <= s
        BY <1>3, <2>1, <2>2, <3>1 DEF Successive
      <3>4. acc[k] \in Int
        BY <2>1
      <3> QED BY <2>2, <2>3, <2>5, <3>2, <3>3, <3>4
    <2> QED BY <2>6, <2>7
  <1>8. n \in Good
    <2>1. \A k \in Nat : k \in Good
      <3> HIDE DEF Good
      <3> QED BY <1>6, <1>7, AllNumbers
    <2> QED BY <1>4, <2>1
  <1>9. PhaseTotal(run, clock) = acc[n]
    BY <1>5 DEF Totals
  <1>10. CASE n = 0
    BY <1>5, <1>9, <1>10 DEF Totals
  <1>11. CASE n # 0
    <2>1. n \in 1..n /\ n \in 0..n
      BY <1>4, <1>11
    <2>2. acc[n] <= Until(top[n], clock)
      BY <1>4, <1>8, <1>11
    <2>3. Until(top[n], clock) \in Int /\ Until(top[n], clock) <= d
      BY <1>3, <2>1 DEF Successive
    <2> QED BY <1>9, <2>1, <2>2, <2>3
  <1> QED BY <1>10, <1>11

-----------------------------------------------------------------------------
(***************************************************************************)
(* What is shown of what was read.                                         *)
(***************************************************************************)

LEMMA GreatestOfNumbers ==
  ASSUME NEW n \in Nat, NEW X, X \subseteq 0..n, X # {}
  PROVE  IsGreatest(Max(X), X)
  <1>1. PICK Y : Y = {x + 1 : x \in X}
    OBVIOUS
  <1>2. Y \in SUBSET (1..(n + 1)) /\ n + 1 \in Nat
    BY <1>1
  <1>3. Y # {}
    BY <1>1
  <1>4. IsGreatest(Max(Y), Y)
    BY <1>2, <1>3, GreatestExists
  <1>5. PICK x \in X : Max(Y) = x + 1
    BY <1>1, <1>4 DEF IsGreatest
  <1>6. \A y \in X : y <= x
    <2> SUFFICES ASSUME NEW y \in X PROVE y <= x
      OBVIOUS
    <2>1. y + 1 \in Y
      BY <1>1
    <2>2. y + 1 <= x + 1
      BY <1>4, <1>5, <2>1 DEF IsGreatest
    <2>3. y \in Int /\ x \in Int
      OBVIOUS
    <2> QED BY <2>2, <2>3
  <1>7. IsGreatest(x, X) /\ X \subseteq Int
    BY <1>6 DEF IsGreatest
  <1> QED BY <1>7, GreatestIsMax

\* The time of the last word from the run.
LastWord ==
    Max({read.progress.updated} \cup {read.events[i].time : i \in DOMAIN read.events}
        \cup {read.epochs[i].time : i \in DOMAIN read.epochs}
        \cup ({read.progress.heartbeat} \ {None}))

LEMMA LastWordIsLast ==
  ASSUME TimelineInv, TimesInv
  PROVE  LastWord \in Nat /\ LastTime(read.events) \in Nat /\ LastTime(read.events) <= LastWord
  <1>1. /\ now \in Nat /\ read.events \in Seq(EventType) /\ DatedBy(read.events, now)
        /\ read.epochs \in Seq(PointType) /\ DatedBy(read.epochs, now)
        /\ IsDocument(read.progress, now)
    BY DEF TimelineInv, TypeInv, TimesInv, FilesInv, Logged
  <1>2. PICK A : A = {read.events[i].time : i \in DOMAIN read.events}
    OBVIOUS
  <1>3. PICK B : B = {read.epochs[i].time : i \in DOMAIN read.epochs}
    OBVIOUS
  <1>4. PICK C : C = {read.progress.heartbeat} \ {None}
    OBVIOUS
  <1>5. A \subseteq 0..now
    <2> SUFFICES ASSUME NEW i \in DOMAIN read.events PROVE read.events[i].time \in 0..now
      BY <1>2
    <2>1. read.events[i] \in EventType /\ read.events[i].time <= now
      BY <1>1 DEF DatedBy
    <2> QED BY <1>1, <2>1 DEF EventType
  <1>6. B \subseteq 0..now
    <2> SUFFICES ASSUME NEW i \in DOMAIN read.epochs PROVE read.epochs[i].time \in 0..now
      BY <1>3
    <2>1. read.epochs[i] \in PointType /\ read.epochs[i].time <= now
      BY <1>1 DEF DatedBy
    <2> QED BY <1>1, <2>1 DEF PointType
  <1>7. C \subseteq 0..now /\ read.progress.updated \in 0..now
    BY <1>1, <1>4 DEF IsDocument
  <1>8. PICK X : X = {read.progress.updated} \cup A \cup B \cup C
    OBVIOUS
  <1>9. X \subseteq 0..now /\ X # {}
    BY <1>5, <1>6, <1>7, <1>8
  <1>10. LastWord = Max(X)
    BY <1>2, <1>3, <1>4, <1>8 DEF LastWord
  <1>11. IsGreatest(LastWord, X)
    BY <1>1, <1>9, <1>10, GreatestOfNumbers
  <1>12. LastWord \in Nat
    BY <1>9, <1>11 DEF IsGreatest
  <1>13. LastTime(read.events) \in Nat /\ LastTime(read.events) <= LastWord
    <2>1. CASE read.events = <<>>
      BY <1>12, <2>1 DEF LastTime
    <2>2. CASE read.events # <<>>
      <3>1. Len(read.events) \in DOMAIN read.events
        BY <1>1, <2>2
      <3>2. read.events[Len(read.events)].time \in A
        BY <1>2, <3>1
      <3>3. LastTime(read.events) \in X
        BY <1>8, <2>2, <3>2 DEF LastTime
      <3>4. PICK t : t = LastTime(read.events)
        OBVIOUS
      <3>5. t \in X /\ t \in 0..now
        BY <1>9, <3>3, <3>4
      <3>6. t <= LastWord
        BY <1>11, <3>5 DEF IsGreatest
      <3> QED BY <3>4, <3>5, <3>6
    <2> QED BY <2>1, <2>2
  <1> QED BY <1>12, <1>13

\* A run is shown as running only when no terminal event was read; otherwise it
\* stalled or ended.
LEMMA StateIs ==
  ASSUME TimelineInv, NEW u, NEW gap, NEW state,
         state = RefusedState(build.version,
                              ToldState(ReadSpans, read.progress.status, u, now, gap),
                              ReadSpans.spans)
  PROVE  /\ state \in FinalStates \cup {"running", "stalled"}
         /\ state = "running" => ReadSpans.terminal = None /\ read.progress.status = "running"
  <1>1. PICK R : R = ReadSpans
    OBVIOUS
  <1>2. PICK told : told = ToldState(R, read.progress.status, u, now, gap)
    OBVIOUS
  <1>3. PICK recorded : recorded = RunState(read.progress.status, u, now, gap)
    OBVIOUS
  <1>4. told = IF recorded = "running" /\ R.terminal # None THEN Outcomes[R.terminal.stage]
               ELSE recorded
    BY <1>2, <1>3 DEF ToldState
  <1>5. state \in {told, "blocked"}
    BY <1>1, <1>2 DEF RefusedState
  <1>6. R.terminal # None => Outcomes[R.terminal.stage] \in FinalStates
    <2> SUFFICES ASSUME R.terminal # None PROVE Outcomes[R.terminal.stage] \in FinalStates
      OBVIOUS
    <2>1. Kept(R, build)
      BY <1>1 DEF TimelineInv, ReadInv, SpansInv, ReadSpans
    <2>2. build.outcome # None /\ Tells(R, build)
      BY <2>1 DEF Kept, Told
    <2>3. build.outcome \in {None, "passed", "blocked", "failed"}
      BY DEF TimelineInv, TypeInv, BuildType
    <2> QED BY <2>2, <2>3 DEF Tells, Outcomes, FinalStates
  <1>7. read.progress.status \in {"running", StatusOf(build)}
    BY DEF TimelineInv, DocInv
  <1>8. build.outcome \in {None, "passed", "blocked", "failed"}
    BY DEF TimelineInv, TypeInv, BuildType
  <1>9. recorded \in FinalStates \cup {"running", "stalled"}
    BY <1>3 DEF RunState, FinalStates
  <1>10. recorded = "running" => read.progress.status = "running"
    BY <1>3, <1>7, <1>8 DEF RunState, StatusOf
  <1> QED BY <1>1, <1>4, <1>5, <1>6, <1>9, <1>10 DEF FinalStates

\* The run is shown in a state, up to time d: its spans are those read, closed at
\* that time unless the run goes on, and then it is now.
ShownUpto(d, at) ==
    /\ d \in Nat /\ RunDuration(Shown, now) = d
    /\ Shown.spans = Closed(ReadSpans.spans, Shown.state, at)
    /\ at = IF Shown.state = "running" THEN None ELSE d
    /\ Shown.state = "running" => /\ d = now /\ ReadSpans.terminal = None
                                  /\ read.progress.status = "running"
    /\ LastTime(read.events) \in Nat /\ LastTime(read.events) <= d

LEMMA ShownIsUpto ==
  ASSUME TimelineInv, TimesInv
  PROVE  \E d, at : ShownUpto(d, at)
  <1>1. PICK u : u = LastWord
    OBVIOUS
  <1>2. u \in Nat /\ LastTime(read.events) \in Nat /\ LastTime(read.events) <= u
    BY <1>1, LastWordIsLast
  <1>3. PICK gap : gap = IF read.progress.heartbeat # None THEN HeartbeatStaleAfter ELSE StallAfter
    OBVIOUS
  <1>4. PICK state : state = RefusedState(build.version,
                                ToldState(ReadSpans, read.progress.status, u, now, gap),
                                ReadSpans.spans)
    OBVIOUS
  <1>5. PICK ended : ended = EndOf(ReadSpans, state, u)
    OBVIOUS
  <1>6. PICK at : at = IF state = "stalled" THEN u ELSE ended
    OBVIOUS
  <1>7. /\ Shown.state = state /\ Shown.updated = u /\ Shown.ended = ended
        /\ Shown.spans = Closed(ReadSpans.spans, state, at)
    BY <1>1, <1>3, <1>4, <1>5, <1>6
       DEF Shown, Timeline, ReadSpans, LastWord, ToldState, EndOf
  <1>8. /\ state \in FinalStates \cup {"running", "stalled"}
        /\ state = "running" => ReadSpans.terminal = None /\ read.progress.status = "running"
    BY <1>4, StateIs
  <1>9. now \in Nat /\ written \in Seq(EventType) /\ read.events \in Seq(EventType)
        /\ DatedBy(read.events, now)
    BY DEF TimelineInv, TypeInv, TimesInv, FilesInv
  <1>10. LastTime(read.events) <= now
    BY <1>9, LastTimeBounded
  <1>11. ReadSpans.terminal # None =>
           /\ ReadSpans.terminal.time \in Nat
           /\ LastTime(read.events) <= ReadSpans.terminal.time
    <2> SUFFICES ASSUME ReadSpans.terminal # None
                 PROVE  /\ ReadSpans.terminal.time \in Nat
                        /\ LastTime(read.events) <= ReadSpans.terminal.time
      OBVIOUS
    <2>1. Kept(ReadSpans, build)
      BY DEF TimelineInv, ReadInv, SpansInv, ReadSpans
    <2>2. ReadSpans.terminal \in EventType
      BY <2>1 DEF Kept, Told
    <2>3. ReadSpans.terminal.time \in Nat
      BY <2>2 DEF EventType
    <2>4. ReadSpans.terminal.time >= LastTime(read.events)
      BY DEF TimesInv, ReadTimed
    <2> QED BY <1>2, <2>3, <2>4
  <1>12. CASE state = "running"
    <2>1. ended = None
      BY <1>5, <1>12 DEF EndOf, FinalStates
    <2>2. RunDuration(Shown, now) = now /\ at = None
      BY <1>6, <1>7, <1>12, <2>1 DEF RunDuration
    <2>3. ShownUpto(now, None)
      BY <1>2, <1>7, <1>8, <1>9, <1>10, <1>12, <2>2 DEF ShownUpto
    <2> QED BY <2>3
  <1>13. CASE state = "stalled"
    <2>1. ended = None
      BY <1>5, <1>13 DEF EndOf, FinalStates
    <2>2. RunDuration(Shown, now) = u /\ at = u
      BY <1>6, <1>7, <1>13, <2>1 DEF RunDuration
    <2>3. ShownUpto(u, u)
      BY <1>2, <1>7, <1>13, <2>2 DEF ShownUpto
    <2> QED BY <2>3
  <1>14. CASE state \in FinalStates
    <2>1. ended = IF ReadSpans.terminal # None THEN ReadSpans.terminal.time ELSE u
      BY <1>5, <1>14 DEF EndOf
    <2>2. ended \in Nat /\ LastTime(read.events) <= ended
      BY <1>2, <1>11, <2>1
    <2>3. ended # None
      BY <2>2, NoneAssumption
    <2>4. state # "running" /\ state # "stalled"
      BY <1>14 DEF FinalStates
    <2>5. RunDuration(Shown, now) = ended /\ at = ended
      BY <1>6, <1>7, <2>3, <2>4 DEF RunDuration
    <2>6. ShownUpto(ended, ended)
      BY <1>2, <1>7, <2>2, <2>4, <2>5 DEF ShownUpto
    <2> QED BY <2>6
  <1> QED BY <1>8, <1>12, <1>13, <1>14

\* Closing spans that go up to time d at that time.
LEMMA ClosedTimes ==
  ASSUME NEW P \in Seq(SpanType), NEW d \in Nat, TimedSpans(P, d), NEW state,
         NEW S, S = Closed(P, state, d)
  PROVE  /\ S \in Seq(SpanType) /\ TimedSpans(S, d) /\ \A i \in DOMAIN S : S[i].end # None
  <1>1. PICK n : n = Len(P)
    OBVIOUS
  <1>2. n \in Nat /\ DOMAIN P = 1..n /\ \A i \in 1..n : P[i] \in SpanType
    BY <1>1
  <1>3. d # None
    BY NoneAssumption
  <1> DEFINE open == {i \in DOMAIN P : P[i].end = None}
             Status(i) == IF state = "failed" /\ i = Innermost(P, open) THEN "failed"
                          ELSE IF P[i].status = "running" THEN "completed" ELSE P[i].status
  <1>4. S = [i \in DOMAIN P |->
               IF i \notin open THEN P[i]
               ELSE [P[i] EXCEPT !.end = Max({d, P[i].start}), !.status = Status(i)]]
    BY <1>3 DEF Closed
  <1>5. ASSUME NEW i \in 1..n
        PROVE  /\ S[i] \in SpanType /\ S[i].start = P[i].start /\ S[i].depth = P[i].depth
               /\ S[i].end = IF P[i].end = None THEN d ELSE P[i].end
    <2>1. CASE i \notin open
      BY <1>2, <1>4, <2>1
    <2>2. CASE i \in open
      <3>1. P[i] \in SpanType /\ P[i].start \in 0..d /\ P[i].end = None
        BY <1>2, <2>2 DEF TimedSpans
      <3>2. IsGreatest(d, {d, P[i].start}) /\ {d, P[i].start} \subseteq Int
        BY <3>1 DEF IsGreatest
      <3>3. Max({d, P[i].start}) = d
        BY <3>2, GreatestIsMax
      <3>4. PICK st : st = Status(i)
        OBVIOUS
      <3>5. st \in {"running", "completed", "failed"}
        <4>1. P[i].status \in {"running", "completed", "failed"}
          BY <3>1 DEF SpanType
        <4> HIDE DEF open
        <4> QED BY <3>4, <4>1
      <3>6. S[i] = [P[i] EXCEPT !.end = d, !.status = st]
        <4> HIDE DEF Status, open
        <4> QED BY <1>2, <1>4, <2>2, <3>3, <3>4
      <3> QED BY <3>1, <3>5, <3>6 DEF SpanType
    <2> QED BY <2>1, <2>2
  <1>6. DOMAIN S = 1..n
    BY <1>2, <1>4
  <1> HIDE DEF open, Status
  <1>7. S \in Seq(SpanType)
    <2>1. S = [i \in 1..n |-> S[i]]
      BY <1>2, <1>4
    <2> QED BY <1>2, <1>5, <2>1
  <1>8. \A i \in DOMAIN S : S[i].end # None
    BY <1>3, <1>5, <1>6
  <1>9. ASSUME NEW i \in DOMAIN S
        PROVE  S[i].start \in 0..d /\ S[i].end \in S[i].start..d
    <2>1. P[i].start \in 0..d /\ (P[i].end # None => P[i].end \in P[i].start..d)
      BY <1>2, <1>6 DEF TimedSpans
    <2> QED BY <1>5, <1>6, <2>1
  <1>10. ASSUME NEW i \in DOMAIN S, NEW j \in DOMAIN S, i < j, S[i].depth = 0, S[j].depth = 0
         PROVE  S[i].end <= S[j].start
    <2>1. P[i].end # None /\ P[i].end <= P[j].start
      BY <1>2, <1>5, <1>6, <1>10 DEF TimedSpans
    <2> QED BY <1>5, <1>6, <2>1
  <1> QED BY <1>7, <1>8, <1>9, <1>10 DEF TimedSpans

\* The spans shown, of a run up to time d.
ShownSpans(S, d) ==
    /\ S \in Seq(SpanType) /\ S = Shown.spans /\ TimedSpans(S, d)
    /\ \A i \in DOMAIN S : S[i].end = None => now = d
    /\ Shown.state # "running" => \A i \in DOMAIN S : S[i].end # None
    /\ Shown.state = "running" => S = ReadSpans.spans

LEMMA SpansAreShown ==
  ASSUME TimelineInv, TimesInv, FurtherInv, NEW d, NEW at, ShownUpto(d, at)
  PROVE  ShownSpans(Shown.spans, d)
  <1>1. PICK P : P = ReadSpans.spans
    OBVIOUS
  <1>2. P \in Seq(SpanType)
    BY <1>1 DEF FurtherInv, Extends
  <1>3. TimedSpans(P, d)
    <2>1. TimedSpans(P, LastTime(read.events))
      BY <1>1 DEF TimesInv, ReadTimed
    <2> QED BY <1>2, <2>1, TimedLater DEF ShownUpto
  <1>4. CASE Shown.state = "running"
    <2>1. Shown.spans = P
      BY <1>1, <1>4 DEF ShownUpto, Closed
    <2> QED BY <1>1, <1>2, <1>3, <1>4, <2>1 DEF ShownUpto, ShownSpans
  <1>5. CASE Shown.state # "running"
    <2>1. d \in Nat /\ Shown.spans = Closed(P, Shown.state, d)
      BY <1>1, <1>5 DEF ShownUpto
    <2>2. /\ Shown.spans \in Seq(SpanType) /\ TimedSpans(Shown.spans, d)
          /\ \A i \in DOMAIN Shown.spans : Shown.spans[i].end # None
      BY <1>2, <1>3, <2>1, ClosedTimes
    <2> QED BY <1>5, <2>2 DEF ShownSpans
  <1> QED BY <1>4, <1>5

\* The open spans, in their order.
OpenOf(S) == Within(S, {span \in Range(S) : span.end = None})

\* They are the stages of a stack, at their depths.
Stacks(open, stack) ==
    /\ [i \in DOMAIN open |-> open[i].stage] = stack
    /\ \A i \in DOMAIN open : open[i].depth = i - 1

\* m lists the open spans, and they are the stages of a stack.
StackedBy(m, S, stack) ==
    /\ Enumerates(m, Len(stack), {i \in DOMAIN S : S[i].end = None})
    /\ \A k \in 1..Len(stack) : S[m[k]].stage = stack[k] /\ S[m[k]].depth = k - 1

LEMMA ListedIsStack ==
  ASSUME NEW S \in Seq(SpanType), NEW stack \in Seq(Stages), NEW m, StackedBy(m, S, stack)
  PROVE  Stacks(OpenOf(S), stack)
  <1>0. PICK X, n : X = {i \in DOMAIN S : S[i].end = None} /\ n = Len(stack)
    OBVIOUS
  <1>6. /\ Enumerates(m, n, X)
        /\ \A k \in 1..n : S[m[k]].stage = stack[k] /\ S[m[k]].depth = k - 1
    BY <1>0 DEF StackedBy
  <1>1. PICK kept : kept = {span \in Range(S) : span.end = None}
    OBVIOUS
  <1>2. PICK Y : Y = {i \in DOMAIN S : S[i] \in kept}
    OBVIOUS
  <1>3. PICK open : open = OpenOf(S)
    OBVIOUS
  <1>4. open \in Seq(SpanType) /\ Lists(open, S, Y)
    BY <1>1, <1>2, <1>3, WithinPlaces DEF OpenOf
  <1>5. X = Y
    BY <1>0, <1>1, <1>2 DEF Range
  <1>8. PICK l, p : /\ p = Len(open) /\ Enumerates(l, p, X)
                    /\ \A k \in 1..p : open[k] = S[l[k]]
    BY <1>4, <1>5 DEF Lists
  <1>9. \A x \in X, y \in X : y <= x => y \in X
    OBVIOUS
  <1>10. p <= n /\ \A i \in 1..p : l[i] = m[i]
    BY <1>6, <1>8, <1>9, ListedAlike
  <1>11. n <= p
    BY <1>6, <1>8, <1>9, ListedAlike
  <1>12. p = n /\ n \in Nat /\ DOMAIN open = 1..n /\ DOMAIN stack = 1..n
    BY <1>0, <1>4, <1>8, <1>10, <1>11
  <1>13. \A k \in 1..n : open[k].stage = stack[k] /\ open[k].depth = k - 1
    BY <1>6, <1>8, <1>10, <1>12
  <1>14. [i \in DOMAIN open |-> open[i].stage] = stack
    BY <1>12, <1>13
  <1> QED BY <1>3, <1>12, <1>13, <1>14 DEF Stacks

LEMMA OpenIsStack ==
  ASSUME TimelineInv, TimesInv, UpToDate, ReadSpans.terminal = None
  PROVE  Stacks(OpenOf(ReadSpans.spans), build.stack)
  <1>1. PICK F : F = SpansFrom(build.version, written)
    OBVIOUS
  <1>2. F = ReadSpans
    BY <1>1 DEF UpToDate, ReadSpans
  <1>3. /\ Kept(F, build) /\ IsSpans(F) /\ OpenInv(F, build) /\ F.spans \in Seq(SpanType)
        /\ build \in BuildType /\ build.stack \in Seq(Stages)
    BY <1>1 DEF TimelineInv, TypeInv, SpansInv, Kept, BuildType, IsSpans
  <1>4. build.outcome = None
    BY <1>2, <1>3, NoneAssumption DEF Kept, Told
  <1>5. PICK stack, P, n : stack = build.stack /\ P = F.spans /\ n = Len(stack)
    OBVIOUS
  <1>6. PICK X : X = {i \in DOMAIN P : P[i].end = None}
    OBVIOUS
  <1>7. /\ X \subseteq Nat /\ n \in Nat
        /\ P \in Seq(SpanType) /\ stack \in Seq(Stages)
    BY <1>3, <1>5, <1>6
  <1> SUFFICES Stacks(OpenOf(P), stack)
    BY <1>2, <1>5
  <1>8. CASE build.version > 1
    <2>1. Nested(F, stack)
      BY <1>3, <1>5, <1>8 DEF OpenInv
    <2>2. Enumerates(F.open, n, X)
      BY <1>5, <1>6, <1>7, <2>1 DEF Nested, Enumerates
    <2>3. \A k \in 1..n : P[F.open[k]].stage = stack[k] /\ P[F.open[k]].depth = k - 1
      BY <1>5, <2>1 DEF Nested
    <2>9. StackedBy(F.open, P, stack)
      BY <1>5, <1>6, <2>2, <2>3 DEF StackedBy
    <2> QED BY <1>7, <2>9, ListedIsStack
  <1>9. CASE build.version = 1
    <2>1. Entered(F, stack)
      BY <1>3, <1>4, <1>5, <1>9 DEF OpenInv
    <2>2. \A i \in DOMAIN P : P[i].depth = 0
      BY <1>1, <1>5, <1>9 DEF TimesInv, WrittenTimed, Placed
    <2>3. CASE stack = <<>>
      <3>1. n = 0 /\ 1..0 = {}
        BY <1>5, <2>3
      <3>2. X = {}
        BY <1>5, <1>6, <2>1, <2>3 DEF Entered
      <3>3. Enumerates(<<>>, n, X)
        BY <3>1, <3>2 DEF Enumerates
      <3>4. \A k \in 1..n : P[<<>>[k]].stage = stack[k] /\ P[<<>>[k]].depth = k - 1
        BY <3>1
      <3>9. StackedBy(<<>>, P, stack)
        BY <1>5, <1>6, <3>3, <3>4 DEF StackedBy
      <3> QED BY <1>7, <3>9, ListedIsStack
    <2>4. CASE stack # <<>>
      <3>1. PICK l : l = Len(P)
        OBVIOUS
      <3>2. /\ l \in DOMAIN P /\ stack = <<P[l].stage>> /\ P[l].end = None
            /\ \A i \in DOMAIN P : P[i].end = None => i = l
        BY <1>3, <1>5, <2>1, <2>4, <3>1 DEF Entered
      <3>3. n = 1 /\ 1..n = {1} /\ stack[1] = P[l].stage
        BY <1>5, <3>2
      <3>4. X = {l} /\ l \in Nat
        BY <1>6, <1>7, <3>2
      <3>5. PICK m : m = [k \in {1} |-> l]
        OBVIOUS
      <3>6. m[1] = l
        BY <3>5
      <3>7. Enumerates(m, n, X)
        BY <1>7, <3>3, <3>4, <3>6 DEF Enumerates
      <3>8. \A k \in 1..n : P[m[k]].stage = stack[k] /\ P[m[k]].depth = k - 1
        BY <2>2, <3>2, <3>3, <3>6
      <3>9. StackedBy(m, P, stack)
        BY <1>5, <1>6, <3>7, <3>8 DEF StackedBy
      <3> QED BY <1>7, <3>9, ListedIsStack
    <2> QED BY <2>3, <2>4
  <1> QED BY <1>3, <1>8, <1>9 DEF BuildType

-----------------------------------------------------------------------------
(***************************************************************************)
(* Solver passes.                                                          *)
(***************************************************************************)

IsLeast(m, X) == m \in X /\ \A x \in X : m <= x

LEMMA LeastExists ==
  ASSUME NEW n \in Nat, NEW X, X \subseteq 1..n, X # {}
  PROVE  IsLeast(Min(X), X)
  <1>1. PICK Y : Y = {n - x : x \in X}
    OBVIOUS
  <1>2. Y \subseteq 0..n
    <2>1. \A x \in X : n - x \in 0..n
      OBVIOUS
    <2> QED BY <1>1, <2>1
  <1>3. Y # {}
    BY <1>1
  <1>4. IsGreatest(Max(Y), Y)
    BY <1>2, <1>3, GreatestOfNumbers
  <1>5. PICK x \in X : Max(Y) = n - x
    BY <1>1, <1>4 DEF IsGreatest
  <1>6. \A y \in X : x <= y
    <2> SUFFICES ASSUME NEW y \in X PROVE x <= y
      OBVIOUS
    <2>1. n - y \in Y
      BY <1>1
    <2>2. n - y <= n - x
      BY <1>4, <1>5, <2>1 DEF IsGreatest
    <2>3. y \in Int /\ x \in Int
      OBVIOUS
    <2> QED BY <2>2, <2>3
  <1>7. Min(X) \in X /\ \A y \in X : Min(X) <= y
    BY <1>6 DEF Min
  <1> QED BY <1>7 DEF IsLeast

\* The restarts among the first i epochs, of n.
RestartsUpto(points, i) == {j \in 1..i : Restarts(points, j)}

LEMMA RestartsAreFew ==
  ASSUME NEW points, NEW i \in Nat
  PROVE  IsFiniteSet(RestartsUpto(points, i)) /\ PassOf(points, i) \in Nat
  <1>1. RestartsUpto(points, i) \subseteq 1..i
    BY DEF RestartsUpto
  <1>2. IsFiniteSet(1..i)
    BY FS_Interval
  <1>3. IsFiniteSet(RestartsUpto(points, i))
    BY <1>1, <1>2, FS_Subset
  <1>4. Cardinality(RestartsUpto(points, i)) \in Nat
    BY <1>3, FS_CardinalityType
  <1>5. PassOf(points, i) = Cardinality(RestartsUpto(points, i))
    BY DEF PassOf, RestartsUpto
  <1> QED BY <1>3, <1>4, <1>5

LEMMA PassesGrow ==
  ASSUME NEW points, NEW i \in Nat, NEW j \in Nat, i <= j
  PROVE  PassOf(points, i) <= PassOf(points, j)
  <1>1. RestartsUpto(points, i) \subseteq RestartsUpto(points, j)
    BY DEF RestartsUpto
  <1>2. IsFiniteSet(RestartsUpto(points, j))
    BY RestartsAreFew
  <1>3. Cardinality(RestartsUpto(points, i)) <= Cardinality(RestartsUpto(points, j))
    BY <1>1, <1>2, FS_Subset
  <1> QED BY <1>3 DEF PassOf, RestartsUpto

LEMMA PassesStep ==
  ASSUME NEW points, NEW i \in Nat
  PROVE  PassOf(points, i + 1) <= PassOf(points, i) + 1
  <1>1. PICK A, B : A = RestartsUpto(points, i) /\ B = RestartsUpto(points, i + 1)
    OBVIOUS
  <1>2. IsFiniteSet(A) /\ PassOf(points, i) \in Nat
    BY <1>1, RestartsAreFew
  <1>3. Cardinality(A) = PassOf(points, i) /\ Cardinality(B) = PassOf(points, i + 1)
    BY <1>1 DEF PassOf, RestartsUpto
  <1>4. B = A \/ B = A \cup {i + 1}
    <2>1. \A j \in 1..(i + 1) : j = i + 1 \/ j \in 1..i
      OBVIOUS
    <2>2. \A j \in 1..i : j \in 1..(i + 1)
      OBVIOUS
    <2>3. CASE Restarts(points, i + 1)
      BY <1>1, <2>1, <2>2, <2>3 DEF RestartsUpto
    <2>4. CASE ~Restarts(points, i + 1)
      BY <1>1, <2>1, <2>2, <2>4 DEF RestartsUpto
    <2> QED BY <2>3, <2>4
  <1>5. Cardinality(A \cup {i + 1}) \in {Cardinality(A), Cardinality(A) + 1}
    BY <1>2, FS_AddElement
  <1> QED BY <1>2, <1>3, <1>4, <1>5

\* Every pass up to that of an epoch has an epoch.
LEMMA PassesAreMet ==
  ASSUME NEW points, NEW n \in Nat, n > 0
  PROVE  \A p \in 0..PassOf(points, n) : \E i \in 1..n : PassOf(points, i) = p
  <1> DEFINE Met(k) == \A p \in 0..PassOf(points, k + 1) : \E i \in 1..(k + 1) : PassOf(points, i) = p
             Good == {k \in Nat : Met(k)}
  <1>1. 0 \in Good
    <2>1. RestartsUpto(points, 1) = {}
      <3>1. \A j \in 1..1 : ~Restarts(points, j)
        BY DEF Restarts
      <3> QED BY <3>1 DEF RestartsUpto
    <2>2. PassOf(points, 1) = 0
      BY <2>1, FS_EmptySet DEF PassOf, RestartsUpto
    <2>3. 0 + 1 = 1 /\ 1 \in 1..1 /\ 0..0 = {0}
      OBVIOUS
    <2> QED BY <2>2, <2>3
  <1>2. ASSUME NEW k \in Nat, k \in Good PROVE k + 1 \in Good
    <2> SUFFICES ASSUME NEW p \in 0..PassOf(points, (k + 1) + 1)
                 PROVE  \E i \in 1..((k + 1) + 1) : PassOf(points, i) = p
      OBVIOUS
    <2>1. /\ PassOf(points, k + 1) \in Nat /\ PassOf(points, (k + 1) + 1) \in Nat
          /\ PassOf(points, (k + 1) + 1) <= PassOf(points, k + 1) + 1
      <3>1. k + 1 \in Nat /\ (k + 1) + 1 \in Nat
        OBVIOUS
      <3> QED BY <3>1, RestartsAreFew, PassesStep
    <2>2. CASE p = PassOf(points, (k + 1) + 1)
      <3>1. (k + 1) + 1 \in 1..((k + 1) + 1)
        OBVIOUS
      <3> QED BY <2>2, <3>1
    <2>3. CASE p # PassOf(points, (k + 1) + 1)
      <3>1. p \in 0..PassOf(points, k + 1)
        BY <2>1, <2>3
      <3>2. PICK i \in 1..(k + 1) : PassOf(points, i) = p
        BY <1>2, <3>1
      <3>3. i \in 1..((k + 1) + 1)
        OBVIOUS
      <3> QED BY <3>2, <3>3
    <2> QED BY <2>2, <2>3
  <1>3. \A k \in Nat : k \in Good
    <2> HIDE DEF Good
    <2> QED BY <1>1, <1>2, AllNumbers
  <1>4. n - 1 \in Nat /\ (n - 1) + 1 = n
    OBVIOUS
  <1>5. Met(n - 1)
    <2> HIDE DEF Met
    <2> QED BY <1>3, <1>4
  <1> QED BY <1>4, <1>5

PassType == [start : Int, end : Nat, known : BOOLEAN, complete : BOOLEAN]

\* The places of the epochs of pass p, and when the last was logged.
Bounds(points, p) == {i \in DOMAIN points : PassOf(points, i) = p}
PassEnd(points, p) == points[Max(Bounds(points, p))].time

\* Epochs logged one after another, the first n of which have pass p.
IsLog(points, n) ==
    /\ points \in Seq(PointType) /\ n = Len(points)
    /\ \A i, j \in 1..n : i < j => points[i].time <= points[j].time

LEMMA BoundsOf ==
  ASSUME NEW points, NEW n, IsLog(points, n), n > 0, NEW p \in 0..PassOf(points, n)
  PROVE  \E i, j \in 1..n : /\ i = Min(Bounds(points, p)) /\ j = Max(Bounds(points, p)) /\ i <= j
                            /\ PassOf(points, j) = p
  <1>1. n \in Nat /\ DOMAIN points = 1..n
    BY DEF IsLog
  <1>2. PICK X : X = Bounds(points, p)
    OBVIOUS
  <1>3. X \subseteq 1..n
    BY <1>1, <1>2 DEF Bounds
  <1>4. X # {}
    <2>1. PICK i \in 1..n : PassOf(points, i) = p
      BY <1>1, PassesAreMet
    <2> QED BY <1>1, <1>2, <2>1 DEF Bounds
  <1>5. IsLeast(Min(X), X)
    BY <1>1, <1>3, <1>4, LeastExists
  <1>6. IsGreatest(Max(X), X)
    BY <1>1, <1>3, <1>4, GreatestExists
  <1>7. Min(X) \in 1..n /\ Max(X) \in 1..n /\ Max(X) \in X /\ Min(X) <= Max(X)
    BY <1>3, <1>5, <1>6 DEF IsLeast, IsGreatest
  <1>8. PassOf(points, Max(X)) = p
    BY <1>2, <1>7 DEF Bounds
  <1> QED BY <1>2, <1>7, <1>8

LEMMA LogTimes ==
  ASSUME NEW points, NEW n, IsLog(points, n), NEW i \in 1..n
  PROVE  points[i] \in PointType /\ points[i].time \in Nat /\ points[i].epoch \in Nat
  <1>1. points[i] \in PointType
    BY DEF IsLog
  <1> QED BY <1>1 DEF PointType

LEMMA PassIs ==
  ASSUME NEW points, NEW n, IsLog(points, n), n > 0, NEW p \in 0..PassOf(points, n),
         NEW prev \in Nat \cup {None}
  PROVE  /\ SolverPass(points, p, prev) \in PassType
         /\ SolverPass(points, p, prev).end = PassEnd(points, p)
         /\ prev # None => prev <= SolverPass(points, p, prev).start
         /\ prev = None \/ prev <= PassEnd(points, p) =>
               SolverPass(points, p, prev).start <= PassEnd(points, p)
  <1>1. PICK i \in 1..n, j \in 1..n : i = Min(Bounds(points, p)) /\ j = Max(Bounds(points, p)) /\ i <= j
    BY BoundsOf
  <1>2. PICK first, last : first = points[i] /\ last = points[j]
    OBVIOUS
  <1>3. /\ first.time \in Nat /\ last.time \in Nat /\ first.epoch \in Nat /\ last.epoch \in Nat
        /\ last.epochs \in Nat
    BY <1>2, LogTimes DEF PointType
  <1>4. first.time <= last.time
    <2>1. CASE i = j
      BY <1>2, <1>3, <2>1
    <2>2. CASE i # j
      <3>1. n \in Nat
        BY DEF IsLog
      <3>2. i < j
        BY <1>1, <2>2, <3>1
      <3> QED BY <1>2, <3>2 DEF IsLog
    <2> QED BY <2>1, <2>2
  <1>5. PICK ep : ep = last.epoch - first.epoch
    OBVIOUS
  <1>6. PICK rated : rated = (first.epoch > 0 /\ ep > 0 /\ last.time > first.time)
    OBVIOUS
  <1>7. PICK q : q = (first.epoch * (last.time - first.time)) \div ep
    OBVIOUS
  <1>8. rated => q \in Nat
    <2> SUFFICES ASSUME first.epoch > 0, ep > 0, last.time > first.time PROVE q \in Nat
      BY <1>6
    <2>1. PICK d : d = last.time - first.time
      OBVIOUS
    <2>2. d \in Nat /\ ep \in Nat
      BY <1>3, <1>5, <2>1
    <2>3. PICK a : a = first.epoch * d
      OBVIOUS
    <2>4. a \in Nat
      BY <1>3, <2>2, <2>3
    <2>5. a \div ep \in Nat
      BY <2>2, <2>4
    <2> QED BY <1>7, <2>1, <2>3, <2>5
  <1>9. PICK start : start = IF rated THEN first.time - q ELSE first.time
    OBVIOUS
  <1>10. start \in Int /\ start <= first.time
    BY <1>3, <1>8, <1>9
  <1>11. PICK x : x = SolverPass(points, p, prev)
    OBVIOUS
  <1>12. x = [start |-> PassStart(start, prev), end |-> last.time,
              known |-> rated \/ first.epoch = 0, complete |-> last.epoch >= last.epochs]
    BY <1>1, <1>2, <1>5, <1>6, <1>7, <1>9, <1>11 DEF SolverPass, Bounds
  <1>13. PICK s : s = PassStart(start, prev)
    OBVIOUS
  <1>14. /\ s \in Int
         /\ prev # None => prev <= s
         /\ s = start \/ (prev # None /\ s = prev)
    <2>1. CASE prev = None
      BY <1>10, <1>13, <2>1 DEF PassStart
    <2>2. CASE prev # None
      <3>1. s = Max({start, prev}) /\ prev \in Int
        BY <1>13, <2>2 DEF PassStart
      <3>2. CASE start <= prev
        <4>1. IsGreatest(prev, {start, prev}) /\ {start, prev} \subseteq Int
          BY <1>10, <3>1, <3>2 DEF IsGreatest
        <4>2. s = prev
          BY <3>1, <4>1, GreatestIsMax
        <4> QED BY <2>2, <3>1, <4>2
      <3>3. CASE prev < start
        <4>1. IsGreatest(start, {start, prev}) /\ {start, prev} \subseteq Int
          BY <1>10, <3>1, <3>3 DEF IsGreatest
        <4>2. s = start
          BY <3>1, <4>1, GreatestIsMax
        <4> QED BY <1>10, <3>1, <3>3, <4>2
      <3> QED BY <1>10, <3>1, <3>2, <3>3
    <2> QED BY <2>1, <2>2
  <1>15. PassEnd(points, p) = last.time
    BY <1>1, <1>2 DEF PassEnd
  <1>16. rated \in BOOLEAN /\ (last.epoch >= last.epochs) \in BOOLEAN
    BY <1>6
  <1>17. x \in PassType /\ x.end = last.time /\ x.start = s
    <2>1. PICK known, complete : known = (rated \/ first.epoch = 0)
                                 /\ complete = (last.epoch >= last.epochs)
      OBVIOUS
    <2>2. known \in BOOLEAN /\ complete \in BOOLEAN
      BY <1>16, <2>1
    <2>3. x = [start |-> s, end |-> last.time, known |-> known, complete |-> complete]
      BY <1>12, <1>13, <2>1
    <2> QED BY <1>3, <1>14, <2>2, <2>3 DEF PassType
  <1>18. prev = None \/ prev <= last.time => s <= last.time
    BY <1>3, <1>4, <1>10, <1>14
  <1> QED BY <1>11, <1>14, <1>15, <1>17, <1>18

LEMMA PassEndsGrow ==
  ASSUME NEW points, NEW n, IsLog(points, n), n > 0, NEW p \in 0..PassOf(points, n),
         NEW q \in 0..PassOf(points, n), p < q
  PROVE  PassEnd(points, p) <= PassEnd(points, q)
  <1>1. PICK i \in 1..n : i = Max(Bounds(points, p)) /\ PassOf(points, i) = p
    BY BoundsOf
  <1>2. PICK j \in 1..n : j = Max(Bounds(points, q)) /\ PassOf(points, j) = q
    BY BoundsOf
  <1>3. i < j
    <2> SUFFICES ASSUME j <= i PROVE FALSE
      BY DEF IsLog
    <2>1. i \in Nat /\ j \in Nat
      BY DEF IsLog
    <2>2. q <= p
      BY <1>1, <1>2, <2>1, PassesGrow
    <2> QED BY <2>2, RestartsAreFew DEF IsLog
  <1> QED BY <1>1, <1>2, <1>3 DEF IsLog, PassEnd

\* The passes folded so far, after one more.
PassStep(points, a, p) ==
    Append(a, SolverPass(points, p, IF a = <<>> THEN None ELSE a[Len(a)].end))

PassTrail(acc, c, points, passes) ==
    /\ acc[0] = <<>>
    /\ \A k \in 1..c : acc[k] = PassStep(points, acc[k - 1], k - 1)
    /\ passes = acc[c]

LEMMA PassTrace ==
  ASSUME NEW points, NEW n, IsLog(points, n), n > 0, NEW c, c = PassOf(points, n) + 1
  PROVE  /\ c \in Nat
         /\ \E acc \in [0..c -> Seq(PassType)] : PassTrail(acc, c, points, SolverPasses(points))
  <1> DEFINE T == 0..PassOf(points, n)
             S == Seq(PassType)
             Op(a, p) == PassStep(points, a, p)
             f == [a \in S |-> [p \in T |-> Op(a, p)]]
             at == [p \in 1..c |-> p - 1]
             Rec(h) == h = [s \in SUBSET (1..c) |->
                              IF s = {} THEN <<>> ELSE Op(h[s \ {Max(s)}], at[Max(s)])]
  <1>0. n \in Nat /\ PassOf(points, n) \in Nat /\ c \in Nat
    BY RestartsAreFew DEF IsLog
  <1>1. \A a \in S, p \in T : f[a][p] = Op(a, p)
    OBVIOUS
  <1>2. f \in [S -> [T -> S]]
    <2>1. ASSUME NEW a \in S, NEW p \in T PROVE Op(a, p) \in S
      <3>1. PICK prev : prev = IF a = <<>> THEN None ELSE a[Len(a)].end
        OBVIOUS
      <3>2. prev \in Nat \cup {None}
        <4>1. CASE a = <<>>
          BY <3>1, <4>1
        <4>2. CASE a # <<>>
          <5>1. a[Len(a)] \in PassType
            BY <4>2
          <5> QED BY <3>1, <4>2, <5>1 DEF PassType
        <4> QED BY <4>1, <4>2
      <3>3. SolverPass(points, p, prev) \in PassType
        BY <3>2, PassIs
      <3>4. Op(a, p) = Append(a, SolverPass(points, p, prev))
        BY <3>1 DEF PassStep
      <3> QED BY <3>3, <3>4
    <2> HIDE DEF Op
    <2> QED BY <2>1
  <1>3. at \in [1..c -> T] /\ \A k \in 1..c : at[k] = k - 1
    BY <1>0
  <1>4. SolverPasses(points) = (CHOOSE h : Rec(h))[1..c]
    <2>1. DOMAIN at = 1..c /\ points # <<>> /\ n = Len(points)
      BY DEF IsLog
    <2>2. SolverPasses(points) =
            FoldLeft(LAMBDA passes, p :
                       Append(passes, SolverPass(points, p,
                           IF passes = <<>> THEN None ELSE passes[Len(passes)].end)), <<>>, at)
      BY <2>1 DEF SolverPasses
    <2> QED BY <2>1, <2>2 DEF FoldLeft, MapThenFoldSet, PassStep
  <1>5. <<>> \in S
    OBVIOUS
  <1> HIDE DEF f, Op, T, S, at
  <1>6. FoldType(f, <<>>, at, c, S, T)
    BY <1>0, <1>2, <1>3, <1>5 DEF FoldType
  <1>7. \E h : Rec(h)
    <2>0. Runs(f, <<>>, at, c, S, T)
      BY <1>6, FoldRuns
    <2>1. PICK h \in [SUBSET (1..c) -> S] :
             \A s \in SUBSET (1..c) :
                /\ h[s] = OneStep(f, <<>>, at, h, s)
                /\ s # {} => h[s \ {Max(s)}] \in S /\ at[Max(s)] \in T
      BY <2>0 DEF Runs
    <2>2. \A s \in SUBSET (1..c) :
             h[s] = IF s = {} THEN <<>> ELSE Op(h[s \ {Max(s)}], at[Max(s)])
      BY <1>1, <2>1 DEF OneStep
    <2> QED BY <2>2
  <1>8. PICK h : Rec(h) /\ h = CHOOSE g : Rec(g)
    BY <1>7
  <1>9. FoldedBy(f, <<>>, at, c, S, T, h)
    <2>1. h[{}] = <<>>
      BY <1>8
    <2>2. ASSUME NEW s \in SUBSET (1..c), s # {}, h[s \ {Max(s)}] \in S, at[Max(s)] \in T
          PROVE  h[s] = f[h[s \ {Max(s)}]][at[Max(s)]]
      <3>1. h[s] = Op(h[s \ {Max(s)}], at[Max(s)])
        BY <1>8, <2>2
      <3> HIDE DEF Rec
      <3> QED BY <1>1, <2>2, <3>1
    <2> HIDE DEF Rec
    <2> QED BY <2>1, <2>2 DEF FoldedBy
  <1>10. PICK acc \in [0..c -> S] : Trace(f, <<>>, at, c, acc) /\ h[1..c] = acc[c]
    <2> HIDE DEF Rec
    <2>1. Traced(f, <<>>, at, c, S, h[1..c])
      BY <1>6, <1>9, FoldTrace
    <2> QED BY <2>1 DEF Traced
  <1>11. SolverPasses(points) = acc[c]
    BY <1>4, <1>8, <1>10
  <1>12. ASSUME NEW k \in 1..c PROVE acc[k] = Op(acc[k - 1], k - 1)
    <2>1. k - 1 \in 0..c /\ at[k] = k - 1
      BY <1>0, <1>3
    <2>2. at[k] \in T /\ acc[k - 1] \in S
      BY <1>3, <2>1
    <2> QED BY <1>1, <1>10, <2>1, <2>2 DEF Trace
  <1>13. PassTrail(acc, c, points, SolverPasses(points))
    BY <1>10, <1>11, <1>12 DEF Trace, Op, PassTrail
  <1> QED BY <1>0, <1>13 DEF S

\* Passes that follow one another.
OrderedPasses(passes) ==
    /\ passes \in Seq(PassType)
    /\ \A k \in 1..Len(passes) :
          /\ passes[k].start <= passes[k].end
          /\ k > 1 => passes[k - 1].end <= passes[k].start

LEMMA PassesAreOrdered ==
  ASSUME NEW points, NEW t, Logged(points, t)
  PROVE  OrderedPasses(SolverPasses(points))
  <1>1. CASE points = <<>>
    <2>1. SolverPasses(points) = <<>>
      BY <1>1 DEF SolverPasses
    <2>2. Len(<<>>) = 0 /\ 1..0 = {} /\ <<>> \in Seq(PassType)
      OBVIOUS
    <2> QED BY <2>1, <2>2 DEF OrderedPasses
  <1>2. CASE points # <<>>
    <2>1. PICK n : n = Len(points)
      OBVIOUS
    <2>2. IsLog(points, n) /\ n > 0 /\ n \in Nat
      BY <1>2, <2>1 DEF Logged, IsLog
    <2>3. PICK c : c = PassOf(points, n) + 1
      OBVIOUS
    <2>4. PICK acc \in [0..c -> Seq(PassType)] : PassTrail(acc, c, points, SolverPasses(points))
      BY <2>2, <2>3, PassTrace
    <2>5. c \in Nat /\ PassOf(points, n) \in Nat /\ c > 0
      BY <2>2, <2>3, RestartsAreFew
    <2> DEFINE Fine(a, k) == /\ Len(a) = k
                             /\ \A j \in 1..k : /\ a[j].end = PassEnd(points, j - 1)
                                                /\ a[j].start <= a[j].end
                                                /\ j > 1 => a[j - 1].end <= a[j].start
               Good == {k \in Nat : k <= c => Fine(acc[k], k)}
    <2>6. 0 \in Good
      <3>1. acc[0] = <<>> /\ Len(<<>>) = 0 /\ 1..0 = {}
        BY <2>4 DEF PassTrail
      <3> QED BY <3>1
    <2>7. ASSUME NEW k \in Nat, k \in Good PROVE k + 1 \in Good
      <3> SUFFICES ASSUME k + 1 <= c PROVE Fine(acc[k + 1], k + 1)
        <4> HIDE DEF Fine
        <4> QED OBVIOUS
      <3>1. k + 1 \in 1..c /\ (k + 1) - 1 = k /\ k \in 0..c /\ k \in 0..PassOf(points, n)
        BY <2>3, <2>5
      <3>2. PICK a : a = acc[k]
        OBVIOUS
      <3>3. a \in Seq(PassType) /\ Fine(a, k)
        <4> HIDE DEF Fine
        <4> QED BY <2>5, <2>7, <3>1, <3>2
      <3>4. PICK prev : prev = IF a = <<>> THEN None ELSE a[Len(a)].end
        OBVIOUS
      <3>5. a # <<>> => k \in 1..k /\ prev = a[k].end /\ prev = PassEnd(points, k - 1)
                        /\ prev \in Nat /\ k >= 1
        <4> SUFFICES ASSUME a # <<>>
                     PROVE  k \in 1..k /\ prev = a[k].end /\ prev = PassEnd(points, k - 1)
                            /\ prev \in Nat /\ k >= 1
          OBVIOUS
        <4>1. Len(a) = k /\ k >= 1
          BY <3>3
        <4>2. k \in 1..k /\ a[k] \in PassType
          BY <3>3, <4>1
        <4> QED BY <3>3, <3>4, <4>1, <4>2 DEF PassType
      <3>6. prev \in Nat \cup {None}
        BY <3>4, <3>5
      <3>7. a # <<>> => prev <= PassEnd(points, k)
        <4> SUFFICES ASSUME a # <<>> PROVE prev <= PassEnd(points, k)
          OBVIOUS
        <4>1. k - 1 \in 0..PassOf(points, n) /\ k - 1 < k
          BY <2>5, <3>1, <3>5
        <4>2. PassEnd(points, k - 1) <= PassEnd(points, k)
          BY <2>2, <3>1, <4>1, PassEndsGrow
        <4> QED BY <3>5, <4>2
      <3>8. PICK x : x = SolverPass(points, k, prev)
        OBVIOUS
      <3>9. prev = None \/ prev <= PassEnd(points, k)
        BY <3>4, <3>7
      <3>10. /\ x \in PassType /\ x.end = PassEnd(points, k) /\ x.start <= PassEnd(points, k)
             /\ prev # None => prev <= x.start
        BY <2>2, <3>1, <3>6, <3>8, <3>9, PassIs
      <3>11. acc[k + 1] = Append(a, x)
        BY <2>4, <3>1, <3>2, <3>4, <3>8 DEF PassTrail, PassStep
      <3>12. PICK b : b = acc[k + 1]
        OBVIOUS
      <3>13. /\ Len(b) = k + 1 /\ b[k + 1] = x /\ \A j \in 1..k : b[j] = a[j]
        BY <3>3, <3>10, <3>11, <3>12
      <3>14. ASSUME NEW j \in 1..(k + 1)
             PROVE  /\ b[j].end = PassEnd(points, j - 1)
                    /\ b[j].start <= b[j].end
                    /\ j > 1 => b[j - 1].end <= b[j].start
        <4>1. CASE j \in 1..k
          <5>1. j > 1 => j - 1 \in 1..k
            BY <4>1
          <5> QED BY <3>3, <3>13, <4>1, <5>1
        <4>2. CASE j = k + 1
          <5>1. b[j] = x /\ j - 1 = k
            BY <3>13, <4>2
          <5>2. ASSUME j > 1 PROVE b[j - 1].end <= b[j].start
            <6>1. k \in 1..k /\ k >= 1
              BY <4>2, <5>2
            <6>2. a # <<>>
              BY <3>3, <6>1
            <6>3. prev # None /\ prev = a[k].end
              BY <3>5, <6>2, NoneAssumption
            <6>4. b[k] = a[k]
              BY <3>13, <6>1
            <6> QED BY <3>10, <5>1, <6>3, <6>4
          <5> QED BY <3>10, <5>1, <5>2
        <4> QED BY <4>1, <4>2
      <3> QED BY <3>12, <3>13, <3>14
    <2>8. Fine(acc[c], c)
      <3>1. \A k \in Nat : k \in Good
        <4> HIDE DEF Good
        <4> QED BY <2>6, <2>7, AllNumbers
      <3> HIDE DEF Fine
      <3> QED BY <2>5, <3>1
    <2>9. SolverPasses(points) = acc[c] /\ acc[c] \in Seq(PassType)
      BY <2>4, <2>5 DEF PassTrail
    <2> QED BY <2>8, <2>9 DEF OrderedPasses
  <1> QED BY <1>1, <1>2

-----------------------------------------------------------------------------
(***************************************************************************)
(* Solver segments.                                                        *)
(***************************************************************************)

LEMMA PassesEndInOrder ==
  ASSUME NEW passes, OrderedPasses(passes)
  PROVE  \A i, j \in 1..Len(passes) : i < j => passes[i].end <= passes[j].end
  <1>1. PICK n : n = Len(passes)
    OBVIOUS
  <1>2. n \in Nat /\ \A k \in 1..n : passes[k] \in PassType
    BY <1>1 DEF OrderedPasses
  <1>3. \A k \in 1..n : passes[k].start \in Int /\ passes[k].end \in Nat
    BY <1>2 DEF PassType
  <1> DEFINE Good == {j \in Nat : j <= n => \A i \in 1..(j - 1) : passes[i].end <= passes[j].end}
  <1>4. 0 \in Good
    OBVIOUS
  <1>5. ASSUME NEW j \in Nat, j \in Good PROVE j + 1 \in Good
    <2> SUFFICES ASSUME j + 1 <= n, NEW i \in 1..j PROVE passes[i].end <= passes[j + 1].end
      OBVIOUS
    <2>1. j \in 1..n /\ j + 1 \in 1..n /\ j + 1 > 1 /\ (j + 1) - 1 = j /\ i \in 1..n
      BY <1>2
    <2>2. passes[j].end <= passes[j + 1].start /\ passes[j + 1].start <= passes[j + 1].end
      BY <1>1, <2>1 DEF OrderedPasses
    <2>3. passes[i].end <= passes[j].end
      BY <1>3, <1>5, <2>1
    <2> QED BY <1>3, <2>1, <2>2, <2>3
  <1>6. \A j \in Nat : j \in Good
    <2> HIDE DEF Good
    <2> QED BY <1>4, <1>5, AllNumbers
  <1>7. ASSUME NEW i \in 1..n, NEW j \in 1..n, i < j PROVE passes[i].end <= passes[j].end
    <2>1. i \in 1..(j - 1) /\ j \in Nat /\ j <= n
      BY <1>2, <1>7
    <2> QED BY <1>6, <2>1
  <1> QED BY <1>1, <1>7

\* Segments that follow one another from a start, the last of which may go on.
SegmentType == [kind : {"between", "pass", "after"}, start : Int, end : Nat \cup {None}]
Tiling(q, first) ==
    /\ q \in Seq(SegmentType)
    /\ q # <<>> => q[1].start = first
    /\ \A k \in 1..Len(q) : /\ k > 1 => q[k].start = q[k - 1].end
                            /\ q[k].end = None => k = Len(q)
                            /\ q[k].end # None => q[k].end >= q[k].start

\* Where the next one starts.
Edge(q, first) == IF q = <<>> THEN first ELSE q[Len(q)].end

LEMMA TilingAppend ==
  ASSUME NEW q, NEW first, Tiling(q, first), NEW e, e = Edge(q, first), e # None,
         NEW x \in SegmentType, x.start = e, x.end # None => x.end >= x.start
  PROVE  /\ Tiling(Append(q, x), first) /\ Edge(Append(q, x), first) = x.end
         /\ Append(q, x) # <<>>
  <1>1. PICK n : n = Len(q)
    OBVIOUS
  <1>2. n \in Nat /\ DOMAIN q = 1..n /\ q \in Seq(SegmentType)
    BY <1>1 DEF Tiling
  <1>3. PICK r : r = Append(q, x)
    OBVIOUS
  <1>4. /\ r \in Seq(SegmentType) /\ Len(r) = n + 1 /\ r[n + 1] = x /\ r # <<>>
        /\ \A k \in 1..n : r[k] = q[k]
    BY <1>1, <1>2, <1>3
  <1>5. r[1].start = first
    <2>1. CASE n = 0
      <3>1. q = <<>> /\ r[1] = x
        BY <1>1, <1>2, <1>4, <2>1
      <3> QED BY <3>1 DEF Edge
    <2>2. CASE n # 0
      <3>1. q # <<>> /\ 1 \in 1..n
        BY <1>1, <1>2, <2>2
      <3> QED BY <1>4, <3>1 DEF Tiling
    <2> QED BY <2>1, <2>2
  <1>6. ASSUME NEW k \in 1..(n + 1)
        PROVE  /\ k > 1 => r[k].start = r[k - 1].end
               /\ r[k].end = None => k = n + 1
               /\ r[k].end # None => r[k].end >= r[k].start
    <2>1. CASE k = n + 1
      <3>1. ASSUME k > 1 PROVE r[k].start = r[k - 1].end
        <4>1. q # <<>> /\ n \in 1..n /\ k - 1 = n
          BY <1>1, <1>2, <2>1, <3>1
        <4>2. e = q[n].end
          BY <1>1, <4>1 DEF Edge
        <4> QED BY <1>4, <2>1, <4>1, <4>2
      <3> QED BY <1>4, <2>1, <3>1
    <2>2. CASE k \in 1..n
      <3>1. r[k] = q[k] /\ (k > 1 => k - 1 \in 1..n)
        BY <1>2, <1>4, <2>2
      <3>2. q[k].end # None
        <4>1. CASE k = n
          <5>1. q # <<>>
            BY <1>1, <1>2, <2>2
          <5>2. e = q[n].end
            BY <1>1, <5>1 DEF Edge
          <5> QED BY <4>1, <5>2
        <4>2. CASE k # n
          BY <1>1, <2>2, <4>2 DEF Tiling
        <4> QED BY <4>1, <4>2
      <3>3. /\ k > 1 => q[k].start = q[k - 1].end
            /\ q[k].end # None => q[k].end >= q[k].start
        BY <1>1, <2>2 DEF Tiling
      <3> QED BY <1>4, <3>1, <3>2, <3>3
    <2> QED BY <1>2, <2>1, <2>2
  <1>7. Tiling(r, first)
    BY <1>4, <1>5, <1>6 DEF Tiling
  <1>8. Edge(r, first) = x.end
    BY <1>4 DEF Edge
  <1> QED BY <1>3, <1>4, <1>7, <1>8

\* One pass more, which ends after the segments do.
LEMMA AddTiles ==
  ASSUME NEW s, NEW first, Tiling(s.segments, first), NEW c \in Nat, c = s.cursor,
         Edge(s.segments, first) = c, NEW pass \in PassType, pass.start <= pass.end,
         c <= pass.end, NEW going, NEW gap
  PROVE  LET t == AddSegments(s, pass, going, gap)
         IN  /\ Tiling(t.segments, first) /\ t.segments # <<>> /\ t.cursor = pass.end
             /\ ~going => Edge(t.segments, first) = pass.end
  <1>1. PICK q : q = s.segments
    OBVIOUS
  <1>2. q \in Seq(SegmentType)
    BY <1>1 DEF Tiling
  <1>3. pass.start \in Int /\ pass.end \in Nat
    BY DEF PassType
  <1>4. PICK start : start = IF pass.known THEN Max({pass.start, c}) ELSE c
    OBVIOUS
  <1>5. start \in Nat /\ c <= start /\ start <= pass.end
    <2>1. CASE ~pass.known
      BY <1>4, <2>1
    <2>2. CASE pass.known
      <3>1. start = Max({pass.start, c})
        BY <1>4, <2>2
      <3>2. CASE pass.start <= c
        <4>1. IsGreatest(c, {pass.start, c}) /\ {pass.start, c} \subseteq Int
          BY <1>3, <3>2 DEF IsGreatest
        <4>2. start = c
          BY <3>1, <4>1, GreatestIsMax
        <4> QED BY <4>2
      <3>3. CASE c < pass.start
        <4>1. IsGreatest(pass.start, {pass.start, c}) /\ {pass.start, c} \subseteq Int
          BY <1>3, <3>3 DEF IsGreatest
        <4>2. start = pass.start
          BY <3>1, <4>1, GreatestIsMax
        <4> QED BY <1>3, <3>3, <4>2
      <3> QED BY <1>3, <3>2, <3>3
    <2> QED BY <2>1, <2>2
  <1>6. PICK t : t = AddSegments(s, pass, going, gap)
    OBVIOUS
  <1>7. PICK stop : stop = IF going THEN None ELSE pass.end
    OBVIOUS
  <1>8. stop \in Nat \cup {None} /\ (stop # None => stop = pass.end) /\ (~going => stop = pass.end)
    BY <1>3, <1>7
  <1>9. c # None /\ start # None
    BY <1>5, NoneAssumption
  <1>10. CASE start - c >= gap
    <2>1. PICK b : b = [kind |-> "between", start |-> c, end |-> start]
      OBVIOUS
    <2>2. PICK x : x = [kind |-> "pass", start |-> start, end |-> stop]
      OBVIOUS
    <2>3. b \in SegmentType /\ b.start = c /\ b.end = start
      BY <1>5, <2>1 DEF SegmentType
    <2>4. x \in SegmentType /\ x.start = start /\ x.end = stop
      BY <1>5, <1>8, <2>2 DEF SegmentType
    <2>5. t.segments = q \o <<b>> \o <<x>> /\ t.cursor = pass.end
      BY <1>1, <1>4, <1>6, <1>7, <1>10, <2>1, <2>2 DEF AddSegments
    <2>6. PICK r : r = Append(q, b)
      OBVIOUS
    <2>7. r = q \o <<b>> /\ r \in Seq(SegmentType)
      BY <1>2, <2>3, <2>6
    <2>8. t.segments = Append(r, x)
      BY <2>4, <2>5, <2>7
    <2>9. Tiling(r, first) /\ Edge(r, first) = start
      BY <1>1, <1>5, <1>9, <2>3, <2>6, TilingAppend
    <2>10. x.end # None => x.end >= x.start
      BY <1>5, <1>8, <2>4
    <2>11. /\ Tiling(t.segments, first) /\ Edge(t.segments, first) = stop
           /\ t.segments # <<>>
      BY <1>9, <2>4, <2>8, <2>9, <2>10, TilingAppend
    <2> QED BY <1>6, <1>8, <2>5, <2>11
  <1>11. CASE ~(start - c >= gap)
    <2>2. PICK x : x = [kind |-> "pass", start |-> c, end |-> stop]
      OBVIOUS
    <2>4. x \in SegmentType /\ x.start = c /\ x.end = stop
      BY <1>8, <2>2 DEF SegmentType
    <2>5. t.segments = q \o <<>> \o <<x>> /\ t.cursor = pass.end
      BY <1>1, <1>4, <1>6, <1>7, <1>11, <2>2 DEF AddSegments
    <2>8. t.segments = Append(q, x)
      <3>1. q \o <<>> = q
        BY <1>2
      <3> QED BY <1>2, <2>4, <2>5, <3>1
    <2>10. x.end # None => x.end >= x.start
      BY <1>5, <1>8, <2>4
    <2>11. /\ Tiling(t.segments, first) /\ Edge(t.segments, first) = stop
           /\ t.segments # <<>>
      BY <1>1, <1>9, <2>4, <2>8, <2>10, TilingAppend
    <2> QED BY <1>6, <1>8, <2>5, <2>11
  <1> QED BY <1>10, <1>11

\* The segments of the passes inside a stage, added one by one.
TilesType == [segments : Seq(SegmentType), cursor : Nat]
SegmentStep(s, k, inside, open, gap) ==
    AddSegments(s, inside[k], k = Len(inside) /\ open /\ ~inside[k].complete, gap)

LEMMA AddTyped ==
  ASSUME NEW s \in TilesType, NEW pass \in PassType, NEW going, NEW gap
  PROVE  AddSegments(s, pass, going, gap) \in TilesType
  <1>1. PICK q, c : q = s.segments /\ c = s.cursor
    OBVIOUS
  <1>2. q \in Seq(SegmentType) /\ c \in Nat /\ pass.start \in Int /\ pass.end \in Nat
    BY <1>1 DEF TilesType, PassType
  <1>3. PICK start : start = IF pass.known THEN Max({pass.start, c}) ELSE c
    OBVIOUS
  <1>4. start \in Nat
    <2>1. CASE ~pass.known
      BY <1>2, <1>3, <2>1
    <2>2. CASE pass.known
      <3>1. start = Max({pass.start, c})
        BY <1>3, <2>2
      <3>2. CASE pass.start <= c
        <4>1. IsGreatest(c, {pass.start, c}) /\ {pass.start, c} \subseteq Int
          BY <1>2, <3>2 DEF IsGreatest
        <4>2. start = c
          BY <3>1, <4>1, GreatestIsMax
        <4> QED BY <1>2, <4>2
      <3>3. CASE c < pass.start
        <4>1. IsGreatest(pass.start, {pass.start, c}) /\ {pass.start, c} \subseteq Int
          BY <1>2, <3>3 DEF IsGreatest
        <4>2. start = pass.start
          BY <3>1, <4>1, GreatestIsMax
        <4> QED BY <1>2, <3>3, <4>2
      <3> QED BY <1>2, <3>2, <3>3
    <2> QED BY <2>1, <2>2
  <1>5. PICK between : between = IF start - c >= gap
                   THEN << [kind |-> "between", start |-> c, end |-> start] >>
                   ELSE <<>>
    OBVIOUS
  <1>6. between \in Seq(SegmentType)
    <2>1. [kind |-> "between", start |-> c, end |-> start] \in SegmentType
      BY <1>2, <1>4 DEF SegmentType
    <2> QED BY <1>5, <2>1
  <1>7. PICK x : x = [kind |-> "pass", start |-> IF between = <<>> THEN c ELSE start,
                      end |-> IF going THEN None ELSE pass.end]
    OBVIOUS
  <1>8. x \in SegmentType
    BY <1>2, <1>4, <1>7 DEF SegmentType
  <1>9. AddSegments(s, pass, going, gap) = [segments |-> q \o between \o <<x>>,
                                           cursor |-> pass.end]
    BY <1>1, <1>3, <1>5, <1>7 DEF AddSegments
  <1>10. q \o between \o <<x>> \in Seq(SegmentType)
    BY <1>2, <1>6, <1>8
  <1> QED BY <1>2, <1>9, <1>10 DEF TilesType

SegmentTrail(acc, c, inside, open, first, gap, value) ==
    /\ acc[0] = [segments |-> <<>>, cursor |-> first]
    /\ \A k \in 1..c : acc[k] = SegmentStep(acc[k - 1], k, inside, open, gap)
    /\ value = acc[c]

LEMMA SegmentTrace ==
  ASSUME NEW inside \in Seq(PassType), NEW open, NEW first \in Nat, NEW gap,
         NEW c, c = Len(inside)
  PROVE  \E acc \in [0..c -> TilesType] :
            SegmentTrail(acc, c, inside, open, first, gap, PassSegments(inside, open, first, gap))
  <1> DEFINE T == 1..c
             S == TilesType
             base == [segments |-> <<>>, cursor |-> first]
             Op(a, k) == SegmentStep(a, k, inside, open, gap)
             f == [a \in S |-> [k \in T |-> Op(a, k)]]
             at == [k \in 1..c |-> k]
             Rec(h) == h = [s \in SUBSET (1..c) |->
                              IF s = {} THEN base ELSE Op(h[s \ {Max(s)}], at[Max(s)])]
  <1>0. c \in Nat /\ DOMAIN inside = 1..c /\ \A k \in 1..c : inside[k] \in PassType
    OBVIOUS
  <1>1. \A a \in S, k \in T : f[a][k] = Op(a, k)
    OBVIOUS
  <1>2. f \in [S -> [T -> S]]
    <2>1. ASSUME NEW a \in S, NEW k \in T PROVE Op(a, k) \in S
      <3>1. inside[k] \in PassType
        BY <1>0
      <3> QED BY <3>1, AddTyped DEF SegmentStep
    <2> HIDE DEF Op
    <2> QED BY <2>1
  <1>3. at \in [1..c -> T] /\ \A k \in 1..c : at[k] = k
    OBVIOUS
  <1>4. PassSegments(inside, open, first, gap) = (CHOOSE h : Rec(h))[1..c]
    <2>1. DOMAIN at = 1..c
      OBVIOUS
    <2>2. PassSegments(inside, open, first, gap) =
            FoldLeft(LAMBDA s, k : AddSegments(s, inside[k],
                                      k = Len(inside) /\ open /\ ~inside[k].complete, gap),
                     base, at)
      BY <1>0 DEF PassSegments, FoldLeftDomain
    <2> QED BY <2>1, <2>2 DEF FoldLeft, MapThenFoldSet, SegmentStep
  <1>5. base \in S
    BY DEF TilesType
  <1> HIDE DEF f, Op, T, S, at, base
  <1>6. FoldType(f, base, at, c, S, T)
    BY <1>0, <1>2, <1>3, <1>5 DEF FoldType
  <1>7. \E h : Rec(h)
    <2>0. Runs(f, base, at, c, S, T)
      BY <1>6, FoldRuns
    <2>1. PICK h \in [SUBSET (1..c) -> S] :
             \A s \in SUBSET (1..c) :
                /\ h[s] = OneStep(f, base, at, h, s)
                /\ s # {} => h[s \ {Max(s)}] \in S /\ at[Max(s)] \in T
      BY <2>0 DEF Runs
    <2>2. \A s \in SUBSET (1..c) :
             h[s] = IF s = {} THEN base ELSE Op(h[s \ {Max(s)}], at[Max(s)])
      BY <1>1, <2>1 DEF OneStep
    <2> QED BY <2>2
  <1>8. PICK h : Rec(h) /\ h = CHOOSE g : Rec(g)
    BY <1>7
  <1>9. FoldedBy(f, base, at, c, S, T, h)
    <2>1. h[{}] = base
      BY <1>8
    <2>2. ASSUME NEW s \in SUBSET (1..c), s # {}, h[s \ {Max(s)}] \in S, at[Max(s)] \in T
          PROVE  h[s] = f[h[s \ {Max(s)}]][at[Max(s)]]
      <3>1. h[s] = Op(h[s \ {Max(s)}], at[Max(s)])
        BY <1>8, <2>2
      <3> HIDE DEF Rec
      <3> QED BY <1>1, <2>2, <3>1
    <2> HIDE DEF Rec
    <2> QED BY <2>1, <2>2 DEF FoldedBy
  <1>10. PICK acc \in [0..c -> S] : Trace(f, base, at, c, acc) /\ h[1..c] = acc[c]
    <2> HIDE DEF Rec
    <2>1. Traced(f, base, at, c, S, h[1..c])
      BY <1>6, <1>9, FoldTrace
    <2> QED BY <2>1 DEF Traced
  <1>11. PassSegments(inside, open, first, gap) = acc[c]
    BY <1>4, <1>8, <1>10
  <1>12. ASSUME NEW k \in 1..c PROVE acc[k] = Op(acc[k - 1], k)
    <2>1. k - 1 \in 0..c /\ at[k] = k
      BY <1>0, <1>3
    <2>2. at[k] \in T /\ acc[k - 1] \in S
      BY <1>3, <2>1
    <2> QED BY <1>1, <1>10, <2>1, <2>2 DEF Trace
  <1>13. SegmentTrail(acc, c, inside, open, first, gap, PassSegments(inside, open, first, gap))
    BY <1>10, <1>11, <1>12 DEF Trace, Op, base, SegmentTrail
  <1> QED BY <1>13 DEF S

\* Passes that end in order, from a time on.
Inside(inside, first) ==
    /\ inside \in Seq(PassType)
    /\ \A k \in 1..Len(inside) : inside[k].start <= inside[k].end /\ inside[k].end >= first
    /\ \A j, k \in 1..Len(inside) : j < k => inside[j].end <= inside[k].end

\* They are segments without a gap, to the end of the last unless it goes on.
LEMMA AllTile ==
  ASSUME NEW inside, NEW first \in Nat, Inside(inside, first), NEW open, NEW gap,
         NEW c, c = Len(inside), c # 0
  PROVE  LET all == PassSegments(inside, open, first, gap)
         IN  /\ Tiling(all.segments, first) /\ all.segments # <<>>
             /\ all.cursor = inside[c].end
             /\ ~(open /\ ~inside[c].complete) => Edge(all.segments, first) = all.cursor
  <1>1. /\ inside \in Seq(PassType) /\ c \in Nat
        /\ \A k \in 1..c : inside[k].start <= inside[k].end /\ inside[k].end >= first
        /\ \A j, k \in 1..c : j < k => inside[j].end <= inside[k].end
        /\ \A k \in 1..c : inside[k] \in PassType
    BY DEF Inside
  <1>2. \A k \in 1..c : inside[k].start \in Int /\ inside[k].end \in Nat
    BY <1>1 DEF PassType
  <1>3. PICK acc \in [0..c -> TilesType] :
            SegmentTrail(acc, c, inside, open, first, gap, PassSegments(inside, open, first, gap))
    BY <1>1, SegmentTrace
  <1> DEFINE GoingAt(k) == k = c /\ open /\ ~inside[k].complete
             Fine(s, k) == /\ Tiling(s.segments, first)
                           /\ s.cursor = IF k = 0 THEN first ELSE inside[k].end
                           /\ k # 0 => s.segments # <<>>
                           /\ k = 0 \/ ~GoingAt(k) => Edge(s.segments, first) = s.cursor
             Good == {k \in Nat : k <= c => Fine(acc[k], k)}
  <1>4. 0 \in Good
    <2>1. acc[0].segments = <<>> /\ acc[0].cursor = first
      BY <1>3 DEF SegmentTrail
    <2>2. Tiling(<<>>, first) /\ Edge(<<>>, first) = first
      <3>1. Len(<<>>) = 0 /\ 1..0 = {} /\ <<>> \in Seq(SegmentType)
        OBVIOUS
      <3> QED BY <3>1 DEF Tiling, Edge
    <2> QED BY <2>1, <2>2
  <1>5. ASSUME NEW k \in Nat, k \in Good PROVE k + 1 \in Good
    <2> SUFFICES ASSUME k + 1 <= c PROVE Fine(acc[k + 1], k + 1)
      <3> HIDE DEF Fine
      <3> QED OBVIOUS
    <2>1. k + 1 \in 1..c /\ (k + 1) - 1 = k /\ k \in 0..c /\ k # c /\ k + 1 # 0
      BY <1>1
    <2>2. PICK s : s = acc[k]
      OBVIOUS
    <2>3. s \in TilesType /\ Fine(s, k)
      <3> HIDE DEF Fine
      <3> QED BY <1>1, <1>5, <2>1, <2>2
    <2>4. PICK pass, at, going : pass = inside[k + 1] /\ at = s.cursor /\ going = GoingAt(k + 1)
      OBVIOUS
    <2>5. pass \in PassType /\ pass.start <= pass.end /\ pass.end \in Nat
      BY <1>1, <1>2, <2>1, <2>4
    <2>6. at \in Nat /\ Tiling(s.segments, first) /\ Edge(s.segments, first) = at
      BY <2>1, <2>3, <2>4 DEF TilesType
    <2>7. at <= pass.end
      <3>1. CASE k = 0
        BY <1>1, <2>1, <2>3, <2>4, <3>1
      <3>2. CASE k # 0
        <4>1. k \in 1..c /\ k < k + 1
          BY <2>1, <3>2
        <4> QED BY <1>1, <2>1, <2>3, <2>4, <3>2, <4>1
      <3> QED BY <3>1, <3>2
    <2>8. PICK t : t = AddSegments(s, pass, going, gap)
      OBVIOUS
    <2>9. /\ Tiling(t.segments, first) /\ t.segments # <<>> /\ t.cursor = pass.end
          /\ ~going => Edge(t.segments, first) = pass.end
      <3> HIDE DEF GoingAt, Fine
      <3>1. at = s.cursor
        BY <2>4
      <3> QED BY <2>5, <2>6, <2>7, <2>8, <3>1, AddTiles
    <2>10. acc[k + 1] = t
      <3>1. acc[k + 1] = SegmentStep(s, k + 1, inside, open, gap)
        BY <1>3, <2>1, <2>2 DEF SegmentTrail
      <3> QED BY <2>4, <2>8, <3>1 DEF SegmentStep
    <2>11. Fine(t, k + 1)
      BY <2>1, <2>4, <2>9
    <2> HIDE DEF Fine
    <2> QED BY <2>10, <2>11
  <1>6. Fine(acc[c], c)
    <2>1. \A k \in Nat : k \in Good
      <3> HIDE DEF Good
      <3> QED BY <1>4, <1>5, AllNumbers
    <2> HIDE DEF Fine
    <2> QED BY <1>1, <2>1
  <1>7. PassSegments(inside, open, first, gap) = acc[c]
    BY <1>3 DEF SegmentTrail
  <1> QED BY <1>6, <1>7

LEMMA InsideOf ==
  ASSUME NEW passes, OrderedPasses(passes), NEW first \in Nat, NEW kept,
         \A p \in kept : p.end >= first
  PROVE  Inside(Within(passes, kept), first)
  <1>1. PICK w : w = Within(passes, kept)
    OBVIOUS
  <1>2. PICK X : X = {i \in DOMAIN passes : passes[i] \in kept}
    OBVIOUS
  <1>3. passes \in Seq(PassType) /\ DOMAIN passes = 1..Len(passes)
    BY DEF OrderedPasses
  <1>4. w \in Seq(PassType) /\ Lists(w, passes, X)
    BY <1>1, <1>2, <1>3, WithinPlaces
  <1>5. PICK m : /\ Enumerates(m, Len(w), X)
                 /\ \A k \in 1..Len(w) : w[k] = passes[m[k]]
    BY <1>4 DEF Lists
  <1>6. \A k \in 1..Len(w) : m[k] \in X
    BY <1>5 DEF Enumerates
  <1>7. \A k \in 1..Len(w) : /\ w[k] = passes[m[k]] /\ m[k] \in 1..Len(passes)
                             /\ passes[m[k]] \in kept
    BY <1>2, <1>3, <1>5, <1>6
  <1>8. \A k \in 1..Len(w) : w[k].start <= w[k].end /\ w[k].end >= first
    BY <1>7 DEF OrderedPasses
  <1>9. ASSUME NEW j \in 1..Len(w), NEW k \in 1..Len(w), j < k PROVE w[j].end <= w[k].end
    <2>1. m[j] < m[k]
      BY <1>5, <1>9 DEF Enumerates
    <2>2. m[j] \in 1..Len(passes) /\ m[k] \in 1..Len(passes)
      BY <1>7
    <2>3. passes[m[j]].end <= passes[m[k]].end
      BY <2>1, <2>2, PassesEndInOrder
    <2> QED BY <1>7, <2>3
  <1> QED BY <1>1, <1>4, <1>8, <1>9 DEF Inside

\* What is selected is in the set.
LEMMA SelectedAreKept ==
  ASSUME NEW T, NEW seq \in Seq(T), NEW kept, NEW k \in 1..Len(Within(seq, kept))
  PROVE  Within(seq, kept)[k] \in kept
  <1>1. PICK w, X : w = Within(seq, kept) /\ X = {i \in DOMAIN seq : seq[i] \in kept}
    OBVIOUS
  <1>2. Lists(w, seq, X)
    BY <1>1, WithinPlaces
  <1>3. PICK m : Enumerates(m, Len(w), X) /\ \A j \in 1..Len(w) : w[j] = seq[m[j]]
    BY <1>2 DEF Lists
  <1>4. m[k] \in X /\ w[k] = seq[m[k]]
    BY <1>1, <1>3 DEF Enumerates
  <1> QED BY <1>1, <1>4

\* The passes inside a stage, when it goes on after the last, and then what is
\* shown of it.
InStage(span, passes) ==
    {pass \in Range(passes) : /\ pass.end >= span.start
                              /\ span.end = None \/ pass.end <= span.end}
TailOf(span, inside, open, clock) ==
    IF span.end # None THEN span.end
    ELSE IF open /\ inside[Len(inside)].complete THEN clock ELSE None
WithTail(q, cursor, tail, gap, end) ==
    q \o (IF tail # None /\ tail - cursor >= gap
          THEN << [kind |-> "after", start |-> cursor, end |-> end] >> ELSE <<>>)

LEMMA SegmentsAre ==
  ASSUME NEW span, NEW passes, NEW state, NEW gap, NEW clock
  PROVE  SolverSegments(span, passes, state, gap, clock) =
            LET inside == Within(passes, InStage(span, passes))
                open == span.end = None /\ state = "running"
                all == PassSegments(inside, open, span.start, gap)
            IN  IF inside = <<>> THEN <<>>
                ELSE WithTail(all.segments, all.cursor, TailOf(span, inside, open, clock),
                              gap, span.end)
  BY DEF SolverSegments, InStage, TailOf, WithTail

LEMMA SegmentsTile ==
  ASSUME NEW span, span.start \in Nat,
         span.end # None => span.end \in Nat,
         NEW passes, OrderedPasses(passes), NEW state, NEW gap, NEW clock
  PROVE  Tiling(SolverSegments(span, passes, state, gap, clock), span.start)
  <1>1. PICK first, e : first = span.start /\ e = span.end
    OBVIOUS
  <1>2. first \in Nat /\ e \in Nat \cup {None}
    BY <1>1
  <1>3. OrderedPasses(passes) /\ passes \in Seq(PassType) /\ Range(passes) \subseteq PassType
    BY DEF OrderedPasses, Range
  <1>4. PICK inside, c : inside = Within(passes, InStage(span, passes)) /\ c = Len(inside)
    OBVIOUS
  <1>5. Inside(inside, first)
    <2>1. \A p \in InStage(span, passes) : p.end >= first
      BY <1>1, <1>3 DEF InStage, PassType
    <2> QED BY <1>2, <1>4, <2>1, InsideOf
  <1>6. inside \in Seq(PassType) /\ c \in Nat
    BY <1>4, <1>5 DEF Inside
  <1>7. PICK open : open = (span.end = None /\ state = "running")
    OBVIOUS
  <1>8. PICK all : all = PassSegments(inside, open, first, gap)
    OBVIOUS
  <1>9. PICK tail : tail = TailOf(span, inside, open, clock)
    OBVIOUS
  <1>10. PICK segments : segments = SolverSegments(span, passes, state, gap, clock)
    OBVIOUS
  <1>11. segments = IF inside = <<>> THEN <<>>
                    ELSE WithTail(all.segments, all.cursor, tail, gap, e)
    BY <1>1, <1>4, <1>7, <1>8, <1>9, <1>10, SegmentsAre
  <1>12. CASE inside = <<>>
    <2>1. segments = <<>>
      BY <1>11, <1>12
    <2>2. Len(<<>>) = 0 /\ 1..0 = {} /\ <<>> \in Seq(SegmentType)
      OBVIOUS
    <2>3. Tiling(<<>>, first)
      BY <2>2 DEF Tiling
    <2> QED BY <1>1, <1>10, <2>1, <2>3
  <1>13. CASE inside # <<>>
    <2>1. c # 0 /\ c \in 1..c
      BY <1>4, <1>6, <1>13
    <2>2. /\ Tiling(all.segments, first) /\ all.segments # <<>> /\ all.cursor = inside[c].end
          /\ ~(open /\ ~inside[c].complete) => Edge(all.segments, first) = all.cursor
      BY <1>2, <1>4, <1>5, <1>8, <2>1, AllTile
    <2>3. PICK q, cursor : q = all.segments /\ cursor = all.cursor
      OBVIOUS
    <2>4. q \in Seq(SegmentType) /\ cursor \in Nat
      <3>1. inside[c] \in PassType
        BY <1>4, <1>6, <2>1
      <3> QED BY <2>2, <2>3, <3>1 DEF Tiling, PassType
    <2>5. CASE ~(tail # None /\ tail - cursor >= gap)
      <3>1. segments = q \o <<>>
        BY <1>11, <1>13, <2>3, <2>5 DEF WithTail
      <3>2. segments = q
        BY <2>4, <3>1
      <3> QED BY <1>1, <1>10, <2>2, <2>3, <3>2
    <2>6. CASE tail # None /\ tail - cursor >= gap
      <3>1. PICK x : x = [kind |-> "after", start |-> cursor, end |-> e]
        OBVIOUS
      <3>2. x \in SegmentType /\ x.start = cursor /\ x.end = e
        BY <1>2, <2>4, <3>1 DEF SegmentType
      <3>3. segments = q \o <<x>>
        BY <1>11, <1>13, <2>3, <2>6, <3>1 DEF WithTail
      <3>4. segments = Append(q, x)
        BY <2>4, <3>2, <3>3
      <3>5. ~(open /\ ~inside[c].complete)
        <4>1. CASE e # None
          BY <1>1, <1>7, <4>1
        <4>2. CASE e = None
          BY <1>1, <1>4, <1>9, <2>6, <4>2 DEF TailOf
        <4> QED BY <4>1, <4>2
      <3>6. Edge(q, first) = cursor /\ Tiling(q, first) /\ cursor # None
        BY <2>2, <2>3, <2>4, <3>5, NoneAssumption
      <3>7. x.end # None => x.end >= x.start
        <4> SUFFICES ASSUME e # None PROVE cursor <= e
          BY <1>2, <2>4, <3>2
        <4>1. inside[c] \in InStage(span, passes)
          BY <1>3, <1>4, <2>1, SelectedAreKept
        <4>2. inside[c].end <= e
          BY <1>1, <4>1 DEF InStage
        <4> QED BY <2>2, <2>3, <4>2
      <3>8. Tiling(Append(q, x), first)
        BY <3>2, <3>6, <3>7, TilingAppend
      <3> QED BY <1>1, <1>10, <3>4, <3>8
    <2> QED BY <2>3, <2>5, <2>6
  <1> QED BY <1>12, <1>13

-----------------------------------------------------------------------------
(***************************************************************************)
(* The timeline fits the build.                                            *)
(***************************************************************************)

LEMMA OpenStagesAreShown ==
  ASSUME TimelineInv, TimesInv, UpToDate, Shown.state = "running",
         NEW d, ShownSpans(Shown.spans, d), NEW at, ShownUpto(d, at)
  PROVE  Stacks(OpenOf(Shown.spans), build.stack)
  <1>1. Shown.spans = ReadSpans.spans /\ ReadSpans.terminal = None
    BY DEF ShownSpans, ShownUpto
  <1>2. Stacks(OpenOf(ReadSpans.spans), build.stack)
    BY <1>1, OpenIsStack
  <1> QED BY <1>1, <1>2

LEMMA TimelineFits ==
  TimelineInv /\ TimesInv /\ FurtherInv => TimelineFitsTheBuild
  <1> SUFFICES ASSUME TimelineInv, TimesInv, FurtherInv PROVE TimelineFitsTheBuild
    OBVIOUS
  <1>1. PICK d, at : ShownUpto(d, at)
    BY ShownIsUpto
  <1>2. ShownSpans(Shown.spans, d)
    BY <1>1, SpansAreShown
  <1>3. PICK S : S = Shown.spans
    OBVIOUS
  <1>4. PICK passes : passes = SolverPasses(read.epochs)
    OBVIOUS
  <1>5. OrderedPasses(passes)
    BY <1>4, PassesAreOrdered DEF TimesInv, FilesInv
  <1>6. now \in Nat /\ d \in Nat
    BY <1>1 DEF TimelineInv, TypeInv, ShownUpto
  <1>7. PhaseTotal(Shown, now) <= RunDuration(Shown, now)
    <2>1. PhaseTotal(Shown, now) <= d
      <3>1. /\ S \in Seq(SpanType) /\ TimedSpans(S, d)
            /\ \A i \in DOMAIN S : S[i].end = None => now = d
        BY <1>2, <1>3 DEF ShownSpans
      <3> QED BY <1>3, <1>6, <3>1, PhasesFit
    <2> QED BY <1>1, <2>1 DEF ShownUpto
  <1>8. \A k \in DOMAIN passes : /\ passes[k].start <= passes[k].end
                                 /\ k > 1 => passes[k].start >= passes[k - 1].end
    <2>1. DOMAIN passes = 1..Len(passes) /\ Len(passes) \in Nat
          /\ \A k \in 1..Len(passes) : passes[k] \in PassType
      BY <1>5 DEF OrderedPasses
    <2>2. \A k \in 1..Len(passes) : passes[k].start \in Int /\ passes[k].end \in Nat
      BY <2>1 DEF PassType
    <2>3. ASSUME NEW k \in 1..Len(passes)
          PROVE  /\ passes[k].start <= passes[k].end
                 /\ k > 1 => passes[k].start >= passes[k - 1].end
      <3>1. k > 1 => k - 1 \in 1..Len(passes)
        BY <2>1
      <3> QED BY <1>5, <2>2, <2>3, <3>1 DEF OrderedPasses
    <2> QED BY <2>1, <2>3
  <1>9. ASSUME NEW i \in DOMAIN S
        PROVE  /\ S[i].start >= 0
               /\ Shown.state # "running" => S[i].end # None
               /\ S[i].end # None => S[i].end >= S[i].start
               /\ Tiling(SolverSegments(S[i], passes, Shown.state, SolverGap, now), S[i].start)
    <2>1. /\ S[i].start \in 0..d
          /\ S[i].end # None => S[i].end \in S[i].start..d
      BY <1>2, <1>3 DEF ShownSpans, TimedSpans
    <2>2. Shown.state # "running" => S[i].end # None
      BY <1>2, <1>3 DEF ShownSpans
    <2>3. S[i].start \in Nat /\ (S[i].end # None => S[i].end \in Nat /\ S[i].end >= S[i].start)
      BY <1>6, <2>1
    <2>4. Tiling(SolverSegments(S[i], passes, Shown.state, SolverGap, now), S[i].start)
      BY <1>5, <2>3, SegmentsTile
    <2> QED BY <2>2, <2>3, <2>4
  <1>10. ASSUME UpToDate, Shown.state = "running" PROVE Stacks(OpenOf(S), build.stack)
    BY <1>1, <1>2, <1>3, <1>10, OpenStagesAreShown
  <1>11. \A i \in DOMAIN S :
            Tiles(SolverSegments(S[i], passes, Shown.state, SolverGap, now), S[i].start)
    <2>1. ASSUME NEW q, NEW first, Tiling(q, first)
          PROVE  Tiles(q, first)
      <3>1. DOMAIN q = 1..Len(q)
        BY <2>1 DEF Tiling
      <3> QED BY <2>1, <3>1 DEF Tiling, Tiles
    <2> QED BY <1>9, <2>1
  <1> QED
    BY <1>3, <1>4, <1>7, <1>8, <1>9, <1>10, <1>11
       DEF TimelineFitsTheBuild, FitsTheBuild, SpanFits, OpenSpans, Stacks, OpenOf

\* Whatever the stages that repeat, restart or are closed by name, and whenever
\* the page reads the two files: the open spans are the build's open stages, no
\* span ends before it began, the phases share only time the run took, no two
\* solver passes overlap, and a stage's segments follow one another from its
\* start (spansFromTransitions, spansFromLifecycle, buildTimeline, phaseTotals,
\* solverPasses, solverSegments).
THEOREM TimelineAlwaysFitsTheBuild == Spec => []TimelineFitsTheBuild
  <1>1. Init => TimelineInv /\ TimesInv /\ FurtherInv
    BY InitTimeline, InitTimes, InitFurther
  <1>2. TimelineInv /\ TimesInv /\ FurtherInv /\ [Next]_vars =>
            (TimelineInv /\ TimesInv /\ FurtherInv)'
    BY NextTimeline, NextTimes, NextFurther
  <1>3. TimelineInv /\ TimesInv /\ FurtherInv => TimelineFitsTheBuild
    BY TimelineFits
  <1> QED BY <1>1, <1>2, <1>3, PTL DEF Spec

=============================================================================
