---------------------------- MODULE MCDataWorker ----------------------------
(***************************************************************************)
(* Instances of the worker processes.                                      *)
(***************************************************************************)
EXTENDS DataWorker, TLC

CONSTANTS w1, w2, none, j1, j2

OneWorker == {w1}
BothWorkers == {w1, w2}
OneJob == {j1}
BothJobs == {j1, j2}

\* Results that end the job, and that make it wait.
Succeeds == {"SUCCEEDED"}
Reviewed == {"SUCCEEDED", "WAITING_REVIEW"}

WorkersAlike == Permutations(BothWorkers)
=============================================================================
