SPECIFICATION CompilerSpec
CHECK_DEADLOCK FALSE
CONSTANTS
  Inputs <- MCInputs
  Names <- MCNames
INVARIANTS MissingBraceReported
