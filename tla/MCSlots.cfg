SPECIFICATION LSpec
CHECK_DEADLOCK FALSE
CONSTANTS
  Programs <- ThreeStatements
  Names <- TreeNames
  Handwritten = {}
INVARIANTS OwnSlots
