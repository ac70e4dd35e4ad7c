\* Three lookups, a file of two entries and five bytes.
SPECIFICATION Spec
CONSTANTS
  a = a
  b = b
  c = c
  LookupKeys <- MCLookupKeys
  Sizes <- MCSizes
  MaxEntries = 2
  MaxBytes = 5
  MaxAge = 2
  Skew = 1
  MaxClock = 5
  MaxPuts = 4
INVARIANTS
  TypeOK
  EntriesAreCurrent
PROPERTIES
  PutIsRight
  StoreSpec
