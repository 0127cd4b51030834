\* Six chunks of eleven units in windows of two: staging keeps a remainder, a segment of one
\* window can be too short to decide, and there is room for an enrolled
\* speaker, a rejected segment and audio after it that could hide the loss.
CONSTANTS
  Conns = {c1}
  MaxJournals = 1
  StopIds = {s1}
  LastSeq = 5
  ChunkStart <- StraddlingChunks
  Controls = {2}
  GATE_WINDOW = 2
  COMMIT_SILENCE_WINDOWS = 1
  MIN_COMMIT = 3
  STABLE_COMMIT_MIN = 3
  PARTIAL_WINDOW = 2
  MIN_AUDIO = 1
  PARTIALS_ENABLED = FALSE
  FINAL_WAIT_PARTIAL = FALSE
  DecodeOutcomes = {"words"}
  Allow = {}
  None = None
SPECIFICATION Spec
INVARIANTS FinalsAreSound FrontierNamesDecodedChunks SegmentIsPendingAudio
