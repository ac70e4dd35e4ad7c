\* Violated: a notification with the reference of one verse and the text of another.
SPECIFICATION Spec
CONSTANTS
  v1 = v1
  v2 = v2
  None = None
  DayLength = 2
  Times <- MCOneTime
  Verses <- MCTwoVerses
  PendingFor = 2
  MaxClock = 2
  MaxFaults = 0
INVARIANT NotificationIsOneVerse
