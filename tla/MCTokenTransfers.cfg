SPECIFICATION Spec
CONSTANTS
  X1 = X1  X2 = X2  X3 = X3  USDC = USDC  WSOL = WSOL  PDA = PDA  W1 = W1
  TOKENKEG = TOKENKEG  FAKE = FAKE
  Addresses = {X1, X2, X3}
  Mints = {USDC, WSOL}
  Vault = PDA
  Wallets = {W1}
  SPL_TOKEN_ID = TOKENKEG
  OtherPrograms = {FAKE}
  TOKEN_ACCOUNT_LEN = 165
  OtherLengths = {355}
  Amounts = {1, 2}
  Supply = 2
  MaxCharged = 4
INVARIANT
  TypeOK
PROPERTY
  ImplementsVaultLedger
CHECK_DEADLOCK FALSE
