\* Stops are reissued and answered from the cache, decodes outlive their
\* socket, cached results and journals expire.
CONSTANTS
  Conns = {c1, c2}
  MaxJournals = 2
  StopIds = {s1, s2}
  LastSeq = 2
  ChunkStart <- EvenChunks
  Controls = {1, 2}
  GATE_WINDOW = 1
  COMMIT_SILENCE_WINDOWS = 1
  MIN_COMMIT = 1
  STABLE_COMMIT_MIN = 1
  PARTIAL_WINDOW = 2
  MIN_AUDIO = 1
  PARTIALS_ENABLED = FALSE
  FINAL_WAIT_PARTIAL = FALSE
  DecodeOutcomes = {"words"}
  Allow = {"resume", "reissue", "orphans", "expire"}
  None = None
SPECIFICATION Spec
INVARIANTS OneTranscriptPerStop StablePrefixIsDecoded
