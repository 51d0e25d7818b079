SPECIFICATION FairWorkerSpec
CONSTANTS
  w1 = w1
  w2 = w2
  none = none
  j1 = j1
  j2 = j2
  Job <- OneJob
  IngestionJob <- OneJob
  Worker <- OneWorker
  NoWorker = none
  MaxAttempts = 2
  LeaseTime = 1
  ExecutionWindow = 2
  QueueWindow = 1
  BackoffBase = 1
  BackoffMax = 1
  MaxSkew = 0
  Forever = 9
  MaxRowVersion = 4
  HandlerResult <- Reviewed
  ClaimLimit = 1
  MaxFaults = 0
PROPERTIES
  QueuedIsRun
