SPECIFICATION FairSpec
CONSTANTS
  Reqs = {prompt, foreign, steer}
  SteerReqs = {steer}
  ForeignReqs = {foreign}
  Ctls = {c1, c2}
  NoReq = NoReq
INVARIANTS
  ParkedOnce
  TurnKeepsItsName
  CancelsOnlyCaptured
  CloseIsFinal
PROPERTIES
  ImplementsService
  TurnsAreServed
CHECK_DEADLOCK FALSE
