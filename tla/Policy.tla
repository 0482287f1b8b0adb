-------------------------------- MODULE Policy --------------------------------
(***************************************************************************)
(* An account's policy: the sparse form create_account receives, its         *)
(* expansion into the fixed slots the account stores, and the rules it has   *)
(* to satisfy (state/smart_account.rs, PolicyArgs::expand and key_by_mint;   *)
(* instructions/create_account.rs, validate_policy).                        *)
(*                                                                         *)
(* caps keep their position; session_ceiling and large_threshold come in any *)
(* order and are re-keyed by mint onto the slot of the cap they belong to.    *)
(* validate_policy then compares slot by slot, while every later reader       *)
(* looks caps, ceilings and thresholds up by mint.                           *)
(***************************************************************************)
EXTENDS Caps, Sequences

CONSTANTS
  MAX_MINTS_AT_CREATE,    \* most entries of each vector of PolicyArgs (4)
  MIN_TIMELOCK_SECS,      \* least timelock and recovery delay (3600)
  MAX_SESSION_LIFE_SECS   \* most max_session_life_secs (30 days)

ASSUME PolicyAssumption ==
  /\ MAX_MINTS_AT_CREATE \in 1 .. MAX_MINT_CAPS
  /\ MIN_TIMELOCK_SECS \in Nat
  /\ MAX_SESSION_LIFE_SECS \in Nat

\* An ops mask is the set of its bits; "unassigned" stands for any bit no
\* version has given a meaning to.
OPS_MASK_KNOWN == {"transfer", "execute", "swap", "sign_message"}

OpsMasks == SUBSET (OPS_MASK_KNOWN \cup {"unassigned"})

PolicyArgs ==
  [caps: Seq(MintCap), session_ceiling: Seq(MintCap), large_threshold: Seq(MintCap),
   timelock_secs: Int, recovery_delay_secs: Int, max_session_life_secs: Int,
   session_ops_ceiling: OpsMasks]

CapArray == [CapSlots -> MintCap]

EmptyCaps == [i \in CapSlots |-> EmptyCap]

PolicyRecord ==
  [version: Nat, caps: CapArray, session_ceiling: CapArray, large_threshold: CapArray,
   timelock_secs: Int, recovery_delay_secs: Int, max_session_life_secs: Int,
   session_ops_ceiling: OpsMasks]

-----------------------------------------------------------------------------
(* PolicyArgs::expand. *)

DistinctMints(entries) ==
  \A i, j \in DOMAIN entries : entries[i].mint = entries[j].mint => i = j

\* Mutant: ceilings and thresholds have to come in the order of the caps.
KeyableInOrder(entries, caps) ==
  /\ \A i \in DOMAIN entries : i \in DOMAIN caps /\ caps[i].mint = entries[i].mint
  /\ DistinctMints(entries)

\* key_by_mint succeeds: every entry belongs to a cap and no two to the same.
KeyableByMint(entries, caps) ==
  /\ \A i \in DOMAIN entries : \E j \in DOMAIN caps : caps[j].mint = entries[i].mint
  /\ DistinctMints(entries)

Expandable(args) ==
  /\ Len(args.caps) <= MAX_MINTS_AT_CREATE
  /\ Len(args.session_ceiling) <= MAX_MINTS_AT_CREATE
  /\ Len(args.large_threshold) <= MAX_MINTS_AT_CREATE
  /\ \A i \in DOMAIN args.caps : args.caps[i].mint # NoMint
  /\ DistinctMints(args.caps)
  /\ KeyableByMint(args.session_ceiling, args.caps)
  /\ KeyableByMint(args.large_threshold, args.caps)

\* caps, kept in place and padded with unused slots.
Padded(caps) == [i \in CapSlots |-> IF i \in DOMAIN caps THEN caps[i] ELSE EmptyCap]

\* Mutant: ceilings and thresholds keep the position they had on the wire.
KeyByPosition(entries, caps) == Padded(entries)

KeyByMint(entries, caps) ==
  [i \in CapSlots |->
     IF i \in DOMAIN caps /\ \E j \in DOMAIN entries : entries[j].mint = caps[i].mint
       THEN entries[CHOOSE j \in DOMAIN entries : entries[j].mint = caps[i].mint]
       ELSE EmptyCap]

\* create_account forces the version to 1 whatever the arguments carried.
Expand(args) ==
  [version |-> 1,
   caps |-> Padded(args.caps),
   session_ceiling |-> KeyByMint(args.session_ceiling, args.caps),
   large_threshold |-> KeyByMint(args.large_threshold, args.caps),
   timelock_secs |-> args.timelock_secs,
   recovery_delay_secs |-> args.recovery_delay_secs,
   max_session_life_secs |-> args.max_session_life_secs,
   session_ops_ceiling |-> args.session_ops_ceiling]

-----------------------------------------------------------------------------
(* validate_policy. *)

OrderedCap(cap) == cap.per_tx <= cap.per_day /\ cap.per_day <= cap.per_30d

AtMost(cap, bound) ==
  /\ cap.per_tx <= bound.per_tx
  /\ cap.per_day <= bound.per_day
  /\ cap.per_30d <= bound.per_30d

\* Mutant: the ceilings are not compared with the caps.
ValidPolicyWithoutCeilings(p) ==
  /\ p.timelock_secs >= MIN_TIMELOCK_SECS
  /\ p.recovery_delay_secs >= MIN_TIMELOCK_SECS
  /\ p.max_session_life_secs \in 1 .. MAX_SESSION_LIFE_SECS
  /\ p.session_ops_ceiling \subseteq OPS_MASK_KNOWN
  /\ \A i \in CapSlots : p.caps[i].mint # NoMint => OrderedCap(p.caps[i])

ValidPolicy(p) ==
  /\ p.timelock_secs >= MIN_TIMELOCK_SECS
  /\ p.recovery_delay_secs >= MIN_TIMELOCK_SECS
  /\ p.max_session_life_secs > 0
  /\ p.max_session_life_secs <= MAX_SESSION_LIFE_SECS
  /\ p.session_ops_ceiling \subseteq OPS_MASK_KNOWN
  /\ \A i \in CapSlots : p.caps[i].mint # NoMint =>
       OrderedCap(p.caps[i]) /\ AtMost(p.session_ceiling[i], p.caps[i])

=============================================================================
