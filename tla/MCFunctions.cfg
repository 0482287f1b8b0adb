SPECIFICATION Spec
CONSTANTS
  WSOL = WSOL  USDC = USDC
  Mints = {WSOL, USDC}
  NoMint = NoMint
  MAX_MINT_CAPS = 3
  U64_MAX = 15
  MAX_MINTS_AT_CREATE = 2
  MIN_TIMELOCK_SECS = 2
  MAX_SESSION_LIFE_SECS = 4
  MAX_CLIENT_DATA_LEN = 44
  MAX_JSON_DEPTH = 2
  TYPE_KEY <- MCType
  CHALLENGE_KEY <- MCChallenge
  ORIGIN_KEY <- MCOrigin
  CROSS_ORIGIN_KEY <- MCCrossOrigin
  TRUE_LIT <- MCTrue
  FALSE_LIT <- MCFalse
  NULL_LIT <- MCNull
  RADIX = 4
  U16_LEN = 1
  U32_LEN = 2
  U64_LEN = 1
  HASH_LEN = 1
  LABEL_LEN = 1
  TRANSCRIPT_DOMAIN <- MCDomain
CHECK_DEADLOCK FALSE
INVARIANTS
  KeyedByMint
  CeilingsUnderCaps
  RefusedOnlyWithReason
  AcceptsOnlyTheGenuine
  AcceptsAllTheGenuine
  NumbersAreJson
  StringsAgree
  EscapesSpellUtf8
  ChallengesSurvive
  DocumentsDiffer
  MirrorAgrees
