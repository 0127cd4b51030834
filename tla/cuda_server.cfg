CONSTANTS
  qwen = qwen
  r2t2 = r2t2
  wide = wide
  wide2 = wide2
  narrow = narrow
  broken = broken
  Files = {wide, wide2, narrow, broken}
  Backends = {qwen, r2t2}
  Parsed <- MCParsed
  Invalid = Invalid
  RETRY_FIRST = 1
  RETRY_MAX = 3
  None = None
  Conns = {c1, c2}
  Sids = {a, b}
  MaxJournals = 2
  MaxEdits = 2
  MaxFailures = 1
SPECIFICATION FairSpec
INVARIANTS TypeOK SessionsKeepTheirBackend HealthIsHonest LiveSessionsFit
PROPERTIES LiveAudioIsKept SwitchHappens
