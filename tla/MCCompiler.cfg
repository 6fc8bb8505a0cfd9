SPECIFICATION CompilerSpec
CHECK_DEADLOCK FALSE
CONSTANTS
  Inputs <- MCInputs
  Names <- MCNames
INVARIANTS TypeOK Faithful Precedence StuckAtStrayToken AcceptedIsGenerated
