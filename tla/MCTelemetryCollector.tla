------------------------ MODULE MCTelemetryCollector ------------------------
(***************************************************************************)
(* TLC instance of TelemetryCollector: up to three execution attempts of   *)
(* one run. Every producer slot has a few alternative events, so that the  *)
(* terminal events, the reopening event and the progress and heartbeat     *)
(* events all meet at every position.                                      *)
(***************************************************************************)
EXTENDS TelemetryCollector, TLC

Event(p, n, at, type, status, stage, resources, counted) ==
    [id |-> <<p, n>>, producer |-> p, sequence |-> n, timestamp |-> at,
     type |-> type, status |-> status, stage |-> stage,
     resources |-> resources, counted |-> counted]

Started(p, n, at) == Event(p, n, at, "run", "started", "created", FALSE, FALSE)
Restarted(p, n, at) == Event(p, n, at, "run", "started", None, FALSE, FALSE)
Progress(p, n, at) == Event(p, n, at, "progress", "progress", "calibrate", TRUE, TRUE)
Heartbeat(p, n, at) == Event(p, n, at, "heartbeat", "progress", None, TRUE, FALSE)
StageDone(p, n, at) == Event(p, n, at, "stage", "completed", "export", FALSE, FALSE)
Completed(p, n, at) == Event(p, n, at, "run", "completed", "complete", FALSE, FALSE)
Failed(p, n, at) == Event(p, n, at, "stage", "failed", "failed", FALSE, FALSE)
Blocked(p, n, at) == Event(p, n, at, "run", "blocked", None, FALSE, FALSE)

\* A second event under an identifier that is already in use.
Imposter == [Heartbeat(1, 3, 1) EXCEPT !.id = <<2, 1>>]

MCEvents ==
    {Started(1, 1, 2), Progress(1, 1, 3), Failed(1, 1, 1),
     Restarted(1, 2, 3), Completed(1, 2, 2),
     Failed(2, 1, 3), Progress(2, 1, 1), Heartbeat(2, 1, 2),
     Completed(2, 2, 3), StageDone(2, 2, 1), Restarted(2, 2, 2),
     Blocked(3, 1, 1), Heartbeat(3, 1, 3)}

\* Every batch of one or two of the events, one batch that brings two whole
\* attempts at once, and one whose rows conflict with each other.
MCBatches ==
    {{e, f} : e \in MCEvents, f \in MCEvents}
    \cup {{Started(1, 1, 2), Completed(1, 2, 2), Progress(2, 1, 1), StageDone(2, 2, 1)},
          {Imposter, Failed(2, 1, 3)}}

\* Requests are interchangeable, and so are users.
Symmetry == Permutations(Workers) \cup Permutations(Principals)
=============================================================================
