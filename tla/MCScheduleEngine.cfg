SPECIFICATION MCSpec
CONSTANTS
  Scheds = {daily}
  AtScheds = {}
  MaxAttempts = 2
  MaxRows = 2
  MaxExits = 1
  NoSched = NoSched
  Sessions = {s1, s2, s3}
  Clients = {c1}
  MaxSessions = 2
  MaxRuntimes = 2
  MaxPrompts = 1
  Absent = Absent
INVARIANTS
  SessionsAreOwned
PROPERTIES
  SchedulesGoOn
  OthersRunsAreSpared
  LetGoCloses
CHECK_DEADLOCK FALSE
