\* Windows of one and two units, streams of up to seven.
CONSTANTS
  Lengths = {1, 2}
  MaxConsumed = 7
SPECIFICATION Spec
INVARIANTS TypeOK ClaimIsHonest ClaimIsTight LedgerInv
PROPERTIES FrozenForever ImplementsExactCoverage
CHECK_DEADLOCK FALSE
