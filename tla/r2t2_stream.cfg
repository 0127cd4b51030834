CONSTANTS
  Symbols = {a, wide, stop, blank}
  Blank = blank
  Terminal = {stop}
  NonAscii = {wide}
  Alnum = {a, wide}
  GUARD = 1
  WINDOW = 3
  SEAL_EARLY = 2
  SEAL_QUIET = 1
  MAX_TRANSCRIPT = 3
  MaxLocal = 2
  MaxFeed = 4
SPECIFICATION Spec
INVARIANTS TypeOK ShownExtendsCommitted
PROPERTIES ImplementsAppendOnlyText EveryTurnProgresses
CHECK_DEADLOCK FALSE
