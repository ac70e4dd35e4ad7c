\* Safety and liveness of the fetcher, and that it is a FetchService.
SPECIFICATION FairSpec
CONSTANTS
  q1 = q1
  q2 = q2
  bad = bad
  r1 = r1
  r2 = r2
  None = None
  Requests <- MCRequests
  Sendable <- MCSendable
  Replies <- MCReplies
  MaxBytes = 1
  MaxArrived = 3
INVARIANTS
  TypeOK
  BodyIsWhole
PROPERTIES
  ServiceSpec
  Settles
CHECK_DEADLOCK FALSE
