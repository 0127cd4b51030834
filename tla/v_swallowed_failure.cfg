\* One socket, no fault but a decode that comes back empty.
CONSTANTS
  Conns = {c1}
  MaxJournals = 1
  StopIds = {s1}
  LastSeq = 2
  ChunkStart <- EvenChunks
  Controls = {2}
  GATE_WINDOW = 1
  COMMIT_SILENCE_WINDOWS = 1
  MIN_COMMIT = 1
  STABLE_COMMIT_MIN = 1
  PARTIAL_WINDOW = 2
  MIN_AUDIO = 1
  PARTIALS_ENABLED = TRUE
  FINAL_WAIT_PARTIAL = FALSE
  DecodeOutcomes = {"words", "empty", "unavailable"}
  Allow = {}
  None = None
SPECIFICATION Spec
INVARIANTS CoveredFinalTellsAllSpeech
