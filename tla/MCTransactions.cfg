SPECIFICATION SpecBounded
CONSTANTS
  SECP256R1_ID = SECP256R1_ID
  WARDEN_ID = WARDEN_ID
  other = other
  pk1 = pk1
  pk2 = pk2
  offCurve = offCurve
  malformed = malformed
  ed25519 = ed25519
  MAX_ROOT_EXPIRY_SECS = 1
  Addresses = {"a1", "a2"}
  Passkeys <- MCPasskeys
  OffCurveKeys = {offCurve}
  MalformedKeys = {malformed}
  Ed25519Keys = {ed25519}
  Origins <- MCOrigins
  CanonicalOrigins = {"ext1", "ext2"}
  PasskeyOrigin <- MCPasskeyOrigin
  ClusterTags = {"devnet"}
  ZeroTag = "zero"
  OtherPrograms = {other}
  Ceremonies <- MCCeremonies
  RootOps = {"rotate_nonce", "freeze"}
  CreateChoices <- MCCreateChoices
  Composed <- MCComposed
  ExpiryLeads = {0, 2}
  MaxTime = 1
  MaxSigned = 2
INVARIANTS TypeOK EffectsWereSigned OwnerCanCommand
PROPERTIES RootIsForever
