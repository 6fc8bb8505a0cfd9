SPECIFICATION Spec
CHECK_DEADLOCK FALSE
CONSTANTS
  Texts <- MCTexts
INVARIANTS TypeOK Tiled Longest Located HandsOver
PROPERTIES AnalysedOnce
