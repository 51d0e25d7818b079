------------------------- MODULE MCProjectionOutbox -------------------------
(***************************************************************************)
(* Instances of the projection outbox.                                     *)
(***************************************************************************)
EXTENDS ProjectionOutbox, TLC

CONSTANTS c1, c2, fake, real, opensearch, weaviate

OneConsumer == {c1}
BothConsumers == {c1, c2}
OneProfile == {real}
BothProfiles == {fake, real}
BothKinds == {opensearch, weaviate}
OnlyVectors == {weaviate}

ConsumersAlike == Permutations(BothConsumers)
ConsumersAndProfilesAlike == Permutations(BothConsumers) \cup Permutations(BothProfiles)
=============================================================================
