CONSTANTS
  MaxLines = 3
  Window = 0
  MaxFim = 1
SPECIFICATION NextEditSpec
INVARIANT KeyIffPainted
CHECK_DEADLOCK FALSE
