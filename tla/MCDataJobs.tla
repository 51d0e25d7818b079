----------------------------- MODULE MCDataJobs -----------------------------
(***************************************************************************)
(* Instances of the job queue.                                             *)
(***************************************************************************)
EXTENDS DataJobs, TLC

CONSTANTS w1, none, ingestion, analysis

OneWorker == {w1}
OnlyIngestion == {ingestion}
\* One job of each type.
BothJobs == {ingestion, analysis}
=============================================================================
