\* Passages of three verses at most; a reveal of two to ten ticks.
SPECIFICATION FairReading
CONSTANTS
  Numbers <- MCNumbers
  Texts <- MCTexts
  Speeds <- MCSpeeds
  Space = 100
  Offered <- MCOffered
  RevealIntervalMs = 4
  FastestMs = 10
  SlowestMs = 40
  MsPerSpeed = 13
  None = None
INVARIANTS
  ReadingTypeOK
  PassageIsWhole
  RevealIsRight
PROPERTIES
  RevealEnds
