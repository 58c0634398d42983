SPECIFICATION MCSpec
CONSTANTS
  Scheds = {daily}
  AtScheds = {}
  MaxAttempts = 2
  MaxRows = 3
  MaxExits = 1
  NoSched = NoSched
  MinutesPerHour = 2
  HoursPerDay = 3
  DaysPerWeek = 3
  DaysPerMonth = 4
  MonthsPerYear = 2
  Horizon = 30
  MaxLate = 2
INVARIANTS
  OncePerFireTime
  RowsTellWhatRan
  FireTimesAreRight
PROPERTIES
  DisabledForAReason
