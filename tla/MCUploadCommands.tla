--------------------------- MODULE MCUploadCommands ---------------------------
(***************************************************************************)
(* An instance of the commands on uploads.                                 *)
(***************************************************************************)
EXTENDS UploadCommands, TLC

CONSTANTS a1, a2

BothAttempts == {a1, a2}
FirstPart == {1}

AttemptsAlike == Permutations(BothAttempts)
=============================================================================
