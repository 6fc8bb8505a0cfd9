SPECIFICATION CSpec
CHECK_DEADLOCK FALSE
CONSTANTS
  Programs <- FourStatements
  Names <- TreeNames
INVARIANTS ReturnsItsLiteral
