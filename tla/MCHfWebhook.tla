---------------------------- MODULE MCHfWebhook -----------------------------
(***************************************************************************)
(* The webhook and the publication queue for TLC: one release repository   *)
(* with a Slack channel, one release line with two builds, and one staging *)
(* repository. The record begins with one current build.                   *)
(***************************************************************************)
EXTENDS HfWebhook, TLC

CONSTANTS line, first, second

Line(current, builds) == (line :> [current |-> current, builds |-> builds])

MCInitialRecord == [default |-> line, releases |-> Line(first, first :> FALSE)]

\* The builds of the line, all live and all but the first.
BothLive == first :> FALSE @@ second :> FALSE

\* A push lists a build, withdraws the one before it and makes the new one
\* current; withdraws the only build and drops the default; restores a
\* withdrawn build; or removes releases.json. Listed builds stay listed.
MCRecords ==
    {None,
     [default |-> line, releases |-> Line(second, [BothLive EXCEPT ![first] = TRUE])],
     [default |-> None, releases |-> Line(None, first :> TRUE)],
     [default |-> line, releases |-> Line(first, BothLive)]}

MCPushed(before, after, tag) ==
    /\ after # before /\ after \in MCRecords
    /\ tag => after = None
    /\ None \notin {before, after} => RecordedBuilds(before) \subseteq RecordedBuilds(after)

=============================================================================
