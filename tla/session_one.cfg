\* One socket, four chunks, every decode outcome, partials on, and a stop
\* that waits for a running partial.
CONSTANTS
  Conns = {c1}
  MaxJournals = 1
  StopIds = {s1}
  LastSeq = 3
  ChunkStart <- EvenChunks
  Controls = {1, 2}
  GATE_WINDOW = 1
  COMMIT_SILENCE_WINDOWS = 1
  MIN_COMMIT = 1
  STABLE_COMMIT_MIN = 1
  PARTIAL_WINDOW = 2
  MIN_AUDIO = 1
  PARTIALS_ENABLED = TRUE
  FINAL_WAIT_PARTIAL = TRUE
  DecodeOutcomes = {"words", "empty", "unavailable"}
  Allow = {}
  None = None
SPECIFICATION FairSpec
INVARIANTS TypeOK FinalsAreSound BuffersAreTrue
PROPERTIES EveryStopIsSettled
