\* A socket dies between any two steps and a second one resumes the dictation;
\* chunks arrive in any order.
CONSTANTS
  Conns = {c1, c2}
  MaxJournals = 1
  StopIds = {s1}
  LastSeq = 3
  ChunkStart <- MixedChunks
  Controls = {1, 2}
  GATE_WINDOW = 1
  COMMIT_SILENCE_WINDOWS = 1
  MIN_COMMIT = 1
  STABLE_COMMIT_MIN = 1
  PARTIAL_WINDOW = 2
  MIN_AUDIO = 1
  PARTIALS_ENABLED = FALSE
  FINAL_WAIT_PARTIAL = FALSE
  DecodeOutcomes = {"words"}
  Allow = {"resume", "reorder"}
  None = None
SPECIFICATION Spec
INVARIANTS CoveredFinalReadsAllSpeech NothingSaidTwice BuffersAreTrue
