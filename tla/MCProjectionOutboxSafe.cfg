SPECIFICATION Spec
CONSTANTS
  c1 = c1
  c2 = c2
  fake = fake
  real = real
  opensearch = opensearch
  weaviate = weaviate
  Consumer <- BothConsumers
  Profile <- BothProfiles
  Kind <- BothKinds
  ReplayedKind <- OnlyVectors
  BatchLimit = 2
  MaxEvent = 2
  MaxOpen = 2
  MaxFaults = 1
SYMMETRY ConsumersAndProfilesAlike
INVARIANTS
  PublishedIsComplete
  CheckpointCovers
  ErrorIsOfCheckpoint
PROPERTIES
  CheckpointMonotone
