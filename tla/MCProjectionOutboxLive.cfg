SPECIFICATION FairSpec
CONSTANTS
  c1 = c1
  c2 = c2
  fake = fake
  real = real
  opensearch = opensearch
  weaviate = weaviate
  Consumer <- BothConsumers
  Profile <- BothProfiles
  Kind <- OnlyVectors
  ReplayedKind <- OnlyVectors
  BatchLimit = 1
  MaxEvent = 2
  MaxOpen = 1
  MaxFaults = 1
PROPERTIES
  EventIsPassed
