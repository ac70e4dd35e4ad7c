\* Violated: a passage obtained with a removed key is served from the cache.
SPECIFICATION Spec
CONSTANTS
  verse = verse
  far = far
  chapter = chapter
  k1 = k1
  k2 = k2
  None = None
  NoKey = NoKey
  Anchors <- MCOneVerse
  RangeAnchors <- MCOneVerse
  FarAnchors <- MCNothing
  Choices <- MCTwoChoices
  Keys <- MCTwoKeys
  HistoryCap = 1
  MaxSeq = 2
PROPERTY RemovedKeyHidesEntries
