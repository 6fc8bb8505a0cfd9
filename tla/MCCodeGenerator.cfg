SPECIFICATION LSpec
CHECK_DEADLOCK FALSE
CONSTANTS
  Programs <- ThreeStatements
  Names <- TreeNames
  Handwritten <- MCHandwritten
INVARIANTS TypeOK Boundaries SameAgain SameOperands ListsWhatWasMeant
PROPERTIES AppendOnly
