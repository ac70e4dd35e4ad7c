\* Violated: an export may leave out the reference and the translation.
SPECIFICATION Spec
CONSTANTS
  verse = verse
  far = far
  chapter = chapter
  k1 = k1
  k2 = k2
  None = None
  NoKey = NoKey
  Anchors <- MCVerses
  RangeAnchors <- MCRanges
  FarAnchors <- MCNothing
  Choices <- MCTwoChoices
  Keys <- MCOneKey
  HistoryCap = 2
  MaxSeq = 2
INVARIANT ExportNamesPassage
