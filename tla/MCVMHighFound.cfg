SPECIFICATION Spec
CHECK_DEADLOCK FALSE
CONSTANTS
  MemSize = 272
  Programs <- HighPrograms
  Fills = {207}
  Typing <- HighTyping
PROPERTIES IncrementsGivenOffset
