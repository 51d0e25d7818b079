SPECIFICATION Spec
CONSTANTS
  c1 = c1
  c2 = c2
  fake = fake
  real = real
  opensearch = opensearch
  weaviate = weaviate
  Consumer <- OneConsumer
  Profile <- OneProfile
  Kind <- BothKinds
  ReplayedKind <- OnlyVectors
  BatchLimit = 2
  MaxEvent = 2
  MaxOpen = 2
  MaxFaults = 0
INVARIANTS
  NothingIsSkipped
