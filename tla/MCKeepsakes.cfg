\* Two favourites, two cards, four saves.
SPECIFICATION Spec
CONSTANTS
  r1 = r1
  r2 = r2
  r3 = r3
  c1 = c1
  c2 = c2
  c3 = c3
  None = None
  Absent = Absent
  Unreadable = Unreadable
  Refs <- MCRefs
  Contents <- MCContents
  MaxEntries = 2
  MaxOthers = 1
  MaxClock = 4
SYMMETRY MCSymmetry
INVARIANTS
  TypeOK
  SharedCardStays
PROPERTIES
  FavoritesKept
  CardOfTheVerse
