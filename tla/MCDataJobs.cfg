SPECIFICATION Spec
CONSTANTS
  w1 = w1
  none = none
  ingestion = ingestion
  analysis = analysis
  Job <- BothJobs
  IngestionJob <- OnlyIngestion
  Worker <- OneWorker
  NoWorker = none
  MaxAttempts = 2
  LeaseTime = 2
  ExecutionWindow = 3
  QueueWindow = 2
  BackoffBase = 1
  BackoffMax = 1
  MaxSkew = 1
  Forever = 20
  MaxRowVersion = 4
INVARIANTS
  AttemptLedger
  OperationFollowsJob
  RetryBudget
  CancelWins
PROPERTIES
  OverIsOver
  TriggersAgree
  ImplementsLifecycle
