--------------------------- MODULE CalibrationTree --------------------------
(***************************************************************************)
(* A calibration tree: its levels as they are built from the rows of the   *)
(* targets (calibration-tree.ts), the tree compiled from them, and how its *)
(* targets are cut into shards (calibration-tree-artifact.ts).             *)
(*                                                                         *)
(* rows is the sequence of targets. A row has its program; its place, the  *)
(* level and id of its geography, or None where it has no id; its spelling *)
(* of the geography; its dims, pairs of a key and a value; whether it is   *)
(* of the hierarchy representation; and its band, which stands for every   *)
(* facet that is read from the row alone. Keys of dimensions are numbered  *)
(* in the order of their labels. A level is a set of pairs of a selection  *)
(* and a target under it; the groups that lay a level out follow from its  *)
(* selections.                                                             *)
(***************************************************************************)
EXTENDS Naturals, FiniteSets, FiniteSetsExt, Sequences, SequencesExt

CONSTANTS
    None,
    Missing     \* what a path that the tree does not have leads to

-----------------------------------------------------------------------------
(***************************************************************************)
(* Where a reader is in a tree, and how selecting, going up and the        *)
(* breadcrumbs move there (calibration-explorer.ts,                        *)
(* calibration-explorer-view.ts). A selection is <<kind, value>>: a        *)
(* program (a source with a variable), a geography's label, a dimension's  *)
(* key with a value, or a target.                                          *)
(***************************************************************************)

Breakdowns == {"program", "geography"}

Root(breakdown) ==
    [breakdown |-> breakdown, program |-> None, geography |-> None, dims |-> <<>>,
     target |-> None, geographies |-> {}, bands |-> {}]

Descends(selection) == selection[1] # "target"

\* Selecting what is above in the other breakdown forgets what was below it;
\* what is not reachable yet changes nothing.
Select(state, selection) ==
    LET to == [state EXCEPT !.target = None]
        placed == state.geography # None
        known == state.program # None
    IN  CASE selection[1] = "program" /\ (state.breakdown = "program" \/ placed) ->
                [to EXCEPT !.program = selection[2], !.dims = <<>>,
                           !.geography = IF state.breakdown = "program" THEN None ELSE @]
          [] selection[1] = "geography" /\ (state.breakdown = "geography" \/ known) ->
                [to EXCEPT !.geography = selection[2], !.dims = <<>>,
                           !.program = IF state.breakdown = "geography" THEN None ELSE @]
          [] selection[1] = "dimension" /\ (placed \/ known) ->
                [to EXCEPT !.dims =
                    Append(SelectSeq(@, LAMBDA d : d[1] # selection[2][1]), selection[2])]
          [] selection[1] = "target" /\ (placed \/ known) ->
                [to EXCEPT !.target = selection[2]]
          [] OTHER -> state

\* One level up: what the breakdown selected last.
Parent(state) ==
    LET to == [state EXCEPT !.target = None]
    IN  IF state.dims # <<>> THEN [to EXCEPT !.dims = Front(@)]
        ELSE IF state.geography # None /\ state.program # None
            THEN IF state.breakdown = "program"
                 THEN [to EXCEPT !.geography = None]
                 ELSE [to EXCEPT !.program = None]
            ELSE [to EXCEPT !.geography = None, !.program = None]

\* What the breadcrumbs of a state lead to. The crumb of a source leads to the
\* list of programs it is on.
Crumbs(state) ==
    LET top == [state EXCEPT !.program = None, !.geography = None, !.dims = <<>>,
                             !.target = None]
        place == [top EXCEPT !.geography = state.geography]
        program == [IF state.breakdown = "geography" THEN place ELSE top
                        EXCEPT !.program = state.program]
    IN  {top}
        \cup {s \in {place} : state.breakdown = "geography" /\ state.geography # None}
        \cup {s \in {program} : state.program # None}
        \cup {s \in {[place EXCEPT !.program = state.program]} :
                state.program # None /\ state.geography # None}
        \cup {[place EXCEPT !.program = state.program,
                            !.dims = SubSeq(state.dims, 1, n)] :
                n \in {m \in 1..Len(state.dims) : state.program # None}}

\* The selections that lead to a state from the top of its breakdown.
SelectedPath(state) ==
    LET place == IF state.geography = None THEN <<>>
                 ELSE <<<<"geography", state.geography>>>>
        program == IF state.program = None THEN <<>>
                   ELSE <<<<"program", state.program>>>>
    IN  (IF state.breakdown = "geography" THEN place \o program ELSE program \o place)
            \o [n \in DOMAIN state.dims |-> <<"dimension", state.dims[n]>>]

-----------------------------------------------------------------------------
(***************************************************************************)
(* Geographies and filters.                                                *)
(***************************************************************************)

\* A geography has the first spelling of its id in all the rows.
Label(rows, i) ==
    IF rows[i].place = None
    THEN rows[i].spelling
    ELSE rows[Min({j \in DOMAIN rows : rows[j].place = rows[i].place})].spelling

\* The filters let a row pass: one of the values chosen in each category.
Passes(rows, state, i) ==
    /\ state.geographies = {} \/ Label(rows, i) \in state.geographies
    /\ state.bands = {} \/ rows[i].band \in state.bands

-----------------------------------------------------------------------------
(***************************************************************************)
(* The dimensions of a program in a geography. In the hierarchy            *)
(* representation a row's dims are its path. An entry is <<target, n>>:    *)
(* the rest of its path starts at dims[n].                                 *)
(***************************************************************************)

Ahead(rows, entry) == rows[entry[1]].dims[entry[2]]

\* Entries by what comes next on their paths: a dimension with several values
\* is listed, one that does not distinguish its entries is passed over, and
\* paths that rejoin are listed together.
RECURSIVE Unfold(_, _)
Unfold(rows, entries) ==
    LET ended == {e \in entries : e[2] > Len(rows[e[1]].dims)}
        along(k) == {e \in entries \ ended : Ahead(rows, e)[1] = k}
        keys == {Ahead(rows, e)[1] : e \in entries \ ended}
        telling == {k \in keys : Cardinality({Ahead(rows, e) : e \in along(k)}) > 1}
    IN  {[selection |-> <<"target", e[1]>>, rest |-> e] : e \in ended}
        \cup {[selection |-> <<"dimension", Ahead(rows, e)>>,
               rest |-> <<e[1], e[2] + 1>>] : e \in UNION {along(k) : k \in telling}}
        \cup UNION {Unfold(rows, {<<e[1], e[2] + 1>> : e \in along(k)}) :
                        k \in keys \ telling}

HierarchyLevel(rows, cell, dims) ==
    LET step(entries, d) ==
            {u.rest : u \in {v \in Unfold(rows, entries) : v.selection = <<"dimension", d>>}}
        entries == FoldLeft(step, {<<i, 1>> : i \in cell}, dims)
    IN  {<<u.selection, u.rest[1]>> : u \in Unfold(rows, entries)}

(***************************************************************************)
(* In the other representations dims are unordered, and a row with two     *)
(* values for one key has none.                                            *)
(***************************************************************************)

Value(rows, i, key) ==
    LET values == {d[2] : d \in {e \in Range(rows[i].dims) : e[1] = key}}
    IN  IF Cardinality(values) = 1 THEN CHOOSE v \in values : TRUE ELSE None

Valued(rows, scope, key) == {i \in scope : Value(rows, i, key) # None}

Tells(rows, scope, key) ==
    Cardinality({Value(rows, i, key) : i \in Valued(rows, scope, key)})

\* The narrower dimension takes its rows first.
Rank(rows, scope, key) ==
    <<Cardinality(Valued(rows, scope, key)), Tells(rows, scope, key), key>>

Narrower(rank, other) ==
    \E n \in DOMAIN rank : rank[n] < other[n] /\ (\A m \in 1..(n - 1) : rank[m] = other[m])

\* A dimension takes its rows that no narrower one took, if they still differ.
Assign(rows, scope, given, key) ==
    LET left == scope \ {g[2] : g \in given}
    IN  IF Tells(rows, left, key) > 1
        THEN given \cup {<<<<"dimension", <<key, Value(rows, i, key)>>>>, i>> :
                            i \in Valued(rows, left, key)}
        ELSE given

Partition(rows, scope, taken) ==
    LET keys == {k \in {d[1] : d \in UNION {Range(rows[i].dims) : i \in scope}} \ taken :
                    Tells(rows, scope, k) > 1}
        order == SetToSortSeq(keys,
                    LAMBDA j, k : Narrower(Rank(rows, scope, j), Rank(rows, scope, k)))
        given == FoldLeft(LAMBDA g, k : Assign(rows, scope, g, k), {}, order)
    IN  given \cup {<<<<"target", i>>, i>> : i \in scope \ {g[2] : g \in given}}

\* A cell is entered as a dimension of all of it.
StructuredLevel(rows, cell, dims) ==
    LET whole == <<None, None>>
        step(at, d) ==
            LET scope == {p[2] : p \in {q \in at.level : q[1] = <<"dimension", d>>}}
                taken == at.taken \cup {d[1]}
            IN  [level |-> Partition(rows, scope, taken), taken |-> taken]
        start == [level |-> {<<<<"dimension", whole>>, i>> : i \in cell}, taken |-> {}]
    IN  FoldLeft(step, start, <<whole>> \o dims).level

-----------------------------------------------------------------------------
(***************************************************************************)
(* A level, as a pair of a selection and a target for each target shown.   *)
(***************************************************************************)

ByPlace(rows, scope) == {<<<<"geography", Label(rows, i)>>, i>> : i \in scope}

ByProgram(rows, scope) == {<<<<"program", rows[i].program>>, i>> : i \in scope}

Within(rows, state) ==
    LET cell == {i \in DOMAIN rows : /\ rows[i].program = state.program
                                     /\ Label(rows, i) = state.geography}
    IN  IF \A i \in cell : rows[i].hierarchy
        THEN HierarchyLevel(rows, cell, state.dims)
        ELSE StructuredLevel(rows, cell, state.dims)

\* Dimensions are laid out from all the rows of the program and geography, and
\* filters only hide what is on them.
Level(rows, state) ==
    LET visible == {i \in DOMAIN rows : Passes(rows, state, i)}
        there == {i \in visible : Label(rows, i) = state.geography}
        ofIt == {i \in visible : rows[i].program = state.program}
    IN  CASE state.breakdown = "geography" /\ state.geography = None -> ByPlace(rows, visible)
          [] state.breakdown = "geography" /\ state.geography # None /\ state.program = None ->
                ByProgram(rows, there)
          [] state.breakdown = "program" /\ state.program = None -> ByProgram(rows, visible)
          [] state.breakdown = "program" /\ state.program # None /\ state.geography = None ->
                ByPlace(rows, ofIt)
          [] OTHER -> {u \in Within(rows, state) : u[2] \in visible}

Offered(rows, state) == {u[1] : u \in Level(rows, state)}

-----------------------------------------------------------------------------
(***************************************************************************)
(* The compiled tree. Levels that both breakdowns lead to are compiled     *)
(* once. A tree maps the key of each level to what may be selected on it:  *)
(* the targets under it and the level it leads to.                         *)
(***************************************************************************)

Key(state) ==
    [breakdown |-> IF state.program # None /\ state.geography # None
                   THEN None ELSE state.breakdown,
     program |-> state.program, geography |-> state.geography, dims |-> state.dims]

\* The states whose levels are compiled from this one on, except from those
\* compiled before.
RECURSIVE StatesFrom(_, _, _)
StatesFrom(rows, state, known) ==
    IF Key(state) \in known THEN {}
    ELSE {state} \cup UNION {StatesFrom(rows, Select(state, c), known \cup {Key(state)}) :
                                c \in {d \in Offered(rows, state) : Descends(d)}}

\* The targets of a compiled level: those of the levels it leads to.
RECURSIVE Covered(_, _)
Covered(rows, state) ==
    UNION {IF Descends(c) THEN Covered(rows, Select(state, c)) ELSE {c[2]} :
            c \in Offered(rows, state)}

CompiledLevel(rows, state) ==
    [c \in Offered(rows, state) |->
        IF Descends(c)
        THEN [members |-> Covered(rows, Select(state, c)), next |-> Key(Select(state, c))]
        ELSE [members |-> {c[2]}, next |-> None]]

FromEither(rows, first) ==
    first \cup StatesFrom(rows, Root("geography"), {Key(s) : s \in first})

CompiledFrom(rows, states) ==
    [k \in {Key(s) : s \in states} |-> CompiledLevel(rows, CHOOSE s \in states : Key(s) = k)]

Compiled(rows) ==
    CompiledFrom(rows, FromEither(rows, StatesFrom(rows, Root("program"), {})))

\* The levels at each depth, each depth stored in a part of its own; the index
\* has depth 0.
Tiers(tree) ==
    LET tier[depth \in 0..Cardinality(DOMAIN tree)] ==
            IF depth = 0 THEN {Key(Root(b)) : b \in Breakdowns}
            ELSE UNION {{tree[k][c].next : c \in {d \in DOMAIN tree[k] : Descends(d)}} :
                            k \in tier[depth - 1]}
    IN  [depth \in {d \in DOMAIN tier : tier[d] # {}} |-> tier[depth]]

-----------------------------------------------------------------------------
(***************************************************************************)
(* Targets' details are cut into shards of at most a limit of bytes, a     *)
(* comma between two targets; a target larger than that is refused.        *)
(***************************************************************************)

Cut(shards, size, limit) ==
    LET n == IF shards = <<>> THEN 0 ELSE Last(shards).end
    IN  IF shards # <<>> /\ Last(shards).bytes + 1 + size <= limit
        THEN Front(shards) \o <<[Last(shards) EXCEPT !.end = n + 1, !.bytes = @ + 1 + size]>>
        ELSE Append(shards, [start |-> n, end |-> n + 1, bytes |-> size])

Shards(sizes, limit) == FoldLeft(LAMBDA shards, size : Cut(shards, size, limit), <<>>, sizes)

\* Where the detail of a target is read: a shard and an offset in it.
DetailSelection(shards, ordinal) ==
    {<<n, ordinal - shards[n].start>> :
        n \in {m \in DOMAIN shards : shards[m].start <= ordinal /\ ordinal < shards[m].end}}

-----------------------------------------------------------------------------
(***************************************************************************)
(* Properties of rows.                                                     *)
(***************************************************************************)

\* In either breakdown every target is reached by one path of selections.
ReachedOnce(rows) ==
    \A b \in Breakdowns :
        LET states == StatesFrom(rows, Root(b), {})
        IN  \A i \in DOMAIN rows :
                Cardinality({s \in states : <<"target", i>> \in Offered(rows, s)}) = 1

\* Going up leads back, and the breadcrumbs are what going up passes.
UpLeadsBack(rows) ==
    \A b \in Breakdowns :
        \A s \in StatesFrom(rows, Root(b), {}) : \A c \in Offered(rows, s) : Descends(c) =>
            /\ Parent(Select(s, c)) = s
            /\ Crumbs(Select(s, c)) = Crumbs(s) \cup {Select(s, c)}

\* Every target's detail is in one shard, and no shard is over the limit.
DetailsAreFound(sizes, limit) ==
    LET shards == Shards(sizes, limit)
    IN  /\ \A n \in 0..(Len(sizes) - 1) : Cardinality(DetailSelection(shards, n)) = 1
        /\ \A m \in DOMAIN shards : shards[m].bytes <= limit

=============================================================================
