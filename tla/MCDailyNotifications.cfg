\* Two days and two faults.
SPECIFICATION Spec
CONSTANTS
  v1 = v1
  v2 = v2
  None = None
  DayLength = 2
  Times <- MCTimes
  Verses <- MCOneVerse
  PendingFor = 2
  MaxClock = 3
  MaxFaults = 2
INVARIANTS
  TypeOK
  TimeKept
  ScheduledIsArmed
  NothingTwice
