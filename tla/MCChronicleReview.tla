-------------------------- MODULE MCChronicleReview --------------------------
(***************************************************************************)
(* The reviews of new snapshots, for TLC: every update of a few small      *)
(* snapshots, for four integrations and for some changes of them.          *)
(***************************************************************************)
EXTENDS MCEvaluationBundles, ChronicleReview

(***************************************************************************)
(* Snapshots of two records. A fact is of wages or of people, of the       *)
(* nation or of a state, of the build year or of the one before, or of a   *)
(* slice that no rule supports. Wages may be of either income series, a    *)
(* projection of their publisher, an average, or two years old. The first  *)
(* record may change its value.                                            *)
(***************************************************************************)

Wages == [name |-> "wages", unit |-> "usd", summed |-> TRUE, entity |-> "unit"]
Average == [Wages EXCEPT !.summed = FALSE]
People == [name |-> "people", unit |-> "count", summed |-> TRUE, entity |-> "person"]
Nation == [name |-> "nation", level |-> "country"]
State == [name |-> "state", level |-> "state"]

Of(concept, place, slice, period) ==
    [region |-> "US", place |-> place, concept |-> concept, slice |-> slice,
     period |-> period]

\* The facts apart from their record and value.
Sort(definition, series, projected) ==
    [definition |-> definition, series |-> series, projected |-> projected]

NationalWages == Of(Wages, Nation, "all", 2023)
Observed(definition) == Sort(definition, "wages_and_salaries", FALSE)

ByDefinition ==
    {Observed(d) : d \in {NationalWages, Of(Wages, Nation, "all", 2024),
                          Of(People, Nation, "all", 2023), Of(Wages, State, "all", 2023),
                          Of(Wages, Nation, "odd", 2023)}}

BySeries ==
    {Sort(NationalWages, series, projected) : projected \in BOOLEAN,
        series \in {"wages_and_salaries", "adjusted_gross_income"}}
    \cup {Observed(Of(Average, Nation, "all", 2023)), Observed(Of(Wages, Nation, "all", 2022))}

RecordFacts(record, editions, values, sorts) ==
    {[key |-> <<record, e>>, definition |-> s.definition, value |-> v,
      series |-> s.series, projected |-> s.projected] :
        e \in editions, v \in values, s \in sorts}

\* The facts of both records, of one of them, or of neither.
SnapshotFacts(editions, values, sorts, others) ==
    LET first == RecordFacts(1, editions, values, sorts)
        second == RecordFacts(2, editions, {1}, others)
    IN  {Empty} \cup {1 :> f : f \in first} \cup {2 :> f : f \in second}
            \cup {1 :> f @@ 2 :> g : f \in first, g \in second}

\* The factors of wages and of adjusted gross income from the year before, and
\* one more from the year before that.
Growth(wages, income) ==
    LET since(factor) == 2023 :> factor @@ 2022 :> (IF factor = None THEN None ELSE factor + 1)
    IN  "wages_and_salaries" :> since(wages) @@ "adjusted_gross_income" :> since(income)

\* The old factors and the new ones: none, the first ones, the same ones, and
\* those of income alone, which wages take, get their own beside, or had beside.
NoGrowth == <<Growth(None, None), Growth(None, None)>>
FirstGrowth == <<Growth(None, None), Growth(2, 2)>>
SameGrowth == <<Growth(2, 3), Growth(2, 3)>>
Growths ==
    {NoGrowth, SameGrowth, <<Growth(None, 2), Growth(None, 2)>>,
     <<Growth(None, 2), Growth(3, 2)>>, <<Growth(2, 2), Growth(2, 3)>>}

UpdatesWith(growths, sorts, others) ==
    {<<[facts |-> old, growth |-> g[1]], [facts |-> new, growth |-> g[2]]>> :
        old \in SnapshotFacts({1}, {1}, sorts, others),
        new \in SnapshotFacts({1, 2}, {1, 2}, sorts, others), g \in growths}

(***************************************************************************)
(* A source of one year, one that is computed for the year of each fact,   *)
(* one with targets of the release and one with a checkpoint.              *)
(***************************************************************************)

Microdata ==
    [dataset |-> 1, region |-> "US", available |-> TRUE, places |-> {Nation, State},
     native |-> {2024}, advanced |-> {}, entities |-> {"unit", "person"},
     weights |-> [unit |-> "unit_weight", person |-> "person_weight"],
     methods |-> Nation :> "fixed" @@ State :> "fips", period |-> 2024,
     yearFromFact |-> FALSE]

Rule(concept, execution) ==
    [name |-> concept.name, execution |-> execution, expression |-> concept.name,
     entity |-> concept.entity, buildTargets |-> {}, slices |-> {"all"},
     quality |-> "exact", exposure |-> "unknown", excluded |-> {}, unscored |-> {<<2, 2>>}]

Plain ==
    [source |-> Microdata,
     rules |-> Wages :> Rule(Wages, "model") @@ Average :> Rule(Average, "model")
                @@ People :> Rule(People, "direct"),
     ages |-> FALSE, targets |-> Empty, takesTargets |-> FALSE, checkpoint |-> Empty,
     verified |-> {1}]

EachYear == [Plain EXCEPT !.source.yearFromFact = TRUE, !.source.native = {},
                          !.source.advanced = {2023, 2024}]

WithTargets ==
    [Plain EXCEPT !.ages = TRUE, !.targets = 1 :> [unit |-> "usd", period |-> 2023],
                  !.takesTargets = TRUE]

WithCheckpoint ==
    [Plain EXCEPT !.ages = TRUE, !.targets = 2 :> [unit |-> None, period |-> 2023],
                  !.checkpoint = <<1, 1>> :> 2023,
                  !.source.entities = {"unit"}, !.source.places = {Nation},
                  !.rules = [concept \in {Wages, Average, People} |-> None]]

\* Another dataset, another way to execute, and other mappings.
Changes(integration) ==
    {[integration EXCEPT !.source.dataset = 2],
     [integration EXCEPT !.rules[Wages].execution = "direct"],
     [integration EXCEPT !.rules[People].expression = "adults",
                         !.rules[Wages].excluded = {<<1, 2>>}]}

SamePlan(integrations) == {<<i, i>> : i \in integrations}

MCReviews ==
    {[plans |-> SamePlan({Plain, EachYear}),
      updates |-> UpdatesWith({NoGrowth}, ByDefinition, ByDefinition)],
     [plans |-> SamePlan({WithTargets, WithCheckpoint}),
      updates |-> UpdatesWith({NoGrowth, FirstGrowth, SameGrowth}, ByDefinition, ByDefinition)],
     [plans |-> SamePlan({WithTargets, WithCheckpoint}),
      updates |-> UpdatesWith(Growths, BySeries, {Observed(NationalWages)})],
     [plans |-> SamePlan({WithTargets}),
      updates |-> UpdatesWith(Growths, {Observed(NationalWages)}, BySeries)],
     [plans |-> UNION {{<<i, changed>> : changed \in Changes(i)} :
                    i \in {Plain, EachYear, WithTargets}},
      updates |-> UpdatesWith({SameGrowth}, ByDefinition, ByDefinition)]}

=============================================================================
