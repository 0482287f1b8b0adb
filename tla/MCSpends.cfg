SPECIFICATION SpecScenarios
CONSTANTS
  A1 = A1  A2 = A2  K1 = K1  K2 = K2  O1 = O1  O2 = O2  WSOL = WSOL  USDC = USDC
  Mints = {WSOL, USDC}
  NoMint = NoMint
  ZeroHash = ZeroHash
  Native = Native
  NATIVE_MINT = WSOL
  MAX_MINT_CAPS = 2
  U64_MAX = 7
  MAX_MINTS_AT_CREATE = 2
  MIN_TIMELOCK_SECS = 2
  MAX_SESSION_LIFE_SECS = 4
  DAY_SECS = 2
  RING_DAYS = 2
  MAX_ROOT_EXPIRY_SECS = 1
  RENT_FLOOR = 1
  SESSION_RENT = 1
  Accounts = {A1}
  Keys = {K1, K2}
  Outsiders = {O1}
  Tokens = {WSOL, USDC}
  InitialFunds <- MCFundsSmall
  PolicyChoices <- MCPoliciesAndBad
  GrantRequests <- MCGrantsAll
  PlainOps = {}
  TransferAmounts = {1, 2}
  RootTransferAmounts = {1}
  RevokePayers = {O1}
  ExpiryLeads = {1}
  MaxTime = 4
  MaxRootOps = 3
  MaxSigned = 3
  Scenarios <- MCSpendScenarios
CHECK_DEADLOCK FALSE
INVARIANTS
  AccountWideCaps
  BucketsAreExact
  LifetimeAccounting
  SessionsWithinPolicy
  SlotsNeverRunOut
PROPERTIES
  OutflowIsCharged
