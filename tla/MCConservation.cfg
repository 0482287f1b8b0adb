SPECIFICATION SpecBounded
CONSTANTS
  X1 = X1  X2 = X2  PDA = PDA  W1 = W1
  TOKENKEG = TOKENKEG  WSOL = WSOL  USDC = USDC  None = None
  Addresses = {X1, X2}
  Vault = PDA
  Wallets = {W1}
  TokenPrograms = {TOKENKEG}
  NATIVE_MINT_ID = WSOL
  OtherMints = {USDC}
  NoKey = None
  Extensions = {0, 1}
  Supply = 1
  MaxCounted = 1
SYMMETRY AddressSymmetry
INVARIANT
  TypeOK
PROPERTY
  OutflowIsCounted
CHECK_DEADLOCK FALSE
