SPECIFICATION FairSpec
CONSTANTS
  p1 = p1
  p2 = p2
  sync = sync
  claim = claim
  begin = begin
  endorse = endorse
  Process <- BothProcesses
  NoProcess = NoProcess
  Request <- Commands
  NoRequest = NoRequest
  NeedsToken <- BeginNeedsClaim
  Readings <- LeaseRunsOut
  Admits <- CommandAdmits
  Breaks <- EndorsementBreaks
  Open = Open
  MaxBoots = 4
  MaxSends = 3
  MaxWaiting = 1
  MaxFaults = 2
CHECK_DEADLOCK FALSE
INVARIANTS
  WriterIsCurrent
  RecoveryAgrees
  AnswersStand
  QueriesSeeRecord
PROPERTIES
  ImplementsCommandLog
  SentIsAnswered
