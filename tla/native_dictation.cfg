CONSTANTS
  Conns = {c1, c2, c3}
  Stops = {s1}
  MaxChunks = 2
  MaxJournals = 1
  None = None
SPECIFICATION Spec
INVARIANTS TypeOK ClaimsReadTheirAudio AnswersAreEnough
SYMMETRY Symmetry
CHECK_DEADLOCK FALSE
