CONSTANTS
  Conns = {c1, c2}
  Stops = {s1}
  MaxChunks = 2
  MaxJournals = 2
  None = None
SPECIFICATION Spec
INVARIANTS WhatItReadIsWhatArrived
CHECK_DEADLOCK FALSE
