SPECIFICATION Spec
CHECK_DEADLOCK FALSE
CONSTANTS
  MemSize = 80
  Programs <- MCPrograms
  Fills = {0, 207}
  Typing <- MCTyping
PROPERTIES BranchesOnComparison
