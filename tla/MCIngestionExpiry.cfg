SPECIFICATION Spec
CONSTANTS
  w1 = w1
  none = none
  h1 = h1
  h2 = h2
  nohash = nohash
  Hash <- BothHashes
  NoHash = nohash
  Worker <- OneWorker
  NoWorker = none
  MaxAttempts = 3
SYMMETRY HashesAlike
CHECK_DEADLOCK FALSE
PROPERTIES
  ExpiryIsRetried
