\* Two verses, of which one has a range that is refused; the ESV with a key
\* that comes and goes, so that the provider changes with it; four requests.
SPECIFICATION FairSpec
CONSTANTS
  verse = verse
  far = far
  chapter = chapter
  k1 = k1
  k2 = k2
  None = None
  NoKey = NoKey
  Anchors <- MCFarVerses
  RangeAnchors <- MCFarRanges
  FarAnchors <- MCFar
  Choices <- MCOneChoice
  Keys <- MCOneKey
  HistoryCap = 2
  MaxSeq = 4
INVARIANTS
  TypeOK
  FetchIsSound
  DisplayIsRight
  CacheKeepsItsPassage
  HistoryCursor
PROPERTIES
  FallbackOnlyWhenTransient
  KeepsContracts
  FetchEnds
