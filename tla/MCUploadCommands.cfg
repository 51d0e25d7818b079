SPECIFICATION Spec
CONSTANTS
  a1 = a1
  a2 = a2
  Attempt <- BothAttempts
  MaxKey = 4
  MaxSession = 1
  Width = 2
  Multipart <- FirstPart
  MaxAuthz = 2
  MaxFaults = 1
SYMMETRY AttemptsAlike
INVARIANTS
  LedgerMatches
  ObjectsMatch
  SomeRequestMoves
PROPERTIES
  ImplementsUploadDesk
  SessionsGoOneWay
