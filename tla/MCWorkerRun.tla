---------------------------- MODULE MCWorkerRun ----------------------------
(* Instance of WorkerRun for TLC. *)
EXTENDS WorkerRun

CONSTANTS w1, w2, j1, j2

\* Two jobs of one conversation in the worker scenarios, and of the account.
ConvOf == [j \in Jobs |-> "c1"]

Scenario(ops, jobs, workers, n, faults, outages) ==
  [ops |-> ops, tools |-> ops, jobs |-> jobs, workers |-> workers, calls |-> n,
   faults |-> faults, outages |-> outages]

ScenariosValue ==
  { \* a draft or a lead, one worker that may be given the job twice
    Scenario({"reply", "complete"}, {j1}, {w1}, 2, 1, 0),
    Scenario({"lead", "complete"}, {j1}, {w1}, 2, 1, 0),
    Scenario({"reply", "lead", "complete"}, {j1}, {w1}, 2, 0, 0),
    \* owner-facing calls
    Scenario({"summary", "complete"}, {j1}, {w1}, 1, 1, 0),
    Scenario({"summary", "approval"}, {j1}, {w1}, 2, 0, 0),
    \* the pause, and a tool the job was not given
    [Scenario({"reply", "pause", "lead"}, {j1}, {w1}, 1, 1, 0) EXCEPT !.tools = {"pause"}],
    \* two workers with the same job; one worker with two jobs
    Scenario({"complete"}, {j1}, {w1, w2}, 1, 0, 1),
    Scenario({"complete"}, {j1, j2}, {w1}, 1, 0, 0) }
=============================================================================
