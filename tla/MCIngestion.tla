---------------------------- MODULE MCIngestion ----------------------------
(***************************************************************************)
(* Instances of an ingestion.                                              *)
(***************************************************************************)
EXTENDS Ingestion, TLC

CONSTANTS w1, none, h1, h2, nohash

OneWorker == {w1}
BothHashes == {h1, h2}

HashesAlike == Permutations(BothHashes)
=============================================================================
