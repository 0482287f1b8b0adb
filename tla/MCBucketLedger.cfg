SPECIFICATION Spec
CONSTANTS
  M1 = M1
  Mints = {M1}
  NoMint = NoMint
  MAX_MINT_CAPS = 1
  U64_MAX = 7
  DAY_SECS = 2
  RING_DAYS = 3
  CapChoices <- MCCapChoices
  Amounts = {0, 1, 2, 5, 7}
  MaxTime = 11
INVARIANTS
  TypeOK
  RingMirrorsHistory
  TodayMirrorsHistory
  SpendWithinCaps
PROPERTY
  ImplementsSpendLimits
