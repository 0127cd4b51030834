\* A stop is reissued after its socket died.
CONSTANTS
  Conns = {c1, c2}
  MaxJournals = 1
  StopIds = {s1}
  LastSeq = 3
  ChunkStart <- EvenChunks
  Controls = {2}
  GATE_WINDOW = 1
  COMMIT_SILENCE_WINDOWS = 1
  MIN_COMMIT = 1
  STABLE_COMMIT_MIN = 1
  PARTIAL_WINDOW = 2
  MIN_AUDIO = 1
  PARTIALS_ENABLED = FALSE
  FINAL_WAIT_PARTIAL = FALSE
  DecodeOutcomes = {"words"}
  Allow = {"resume", "reissue"}
  None = None
SPECIFICATION Spec
INVARIANTS CoveredFinalReadsAllSpeech
