---------------------------- MODULE AccountPolicy ----------------------------
(***************************************************************************)
(* The part of create_account that stores a policy: any arguments, expanded   *)
(* and validated, or refused (instructions/create_account.rs;                *)
(* state/smart_account.rs, PolicyArgs::expand). What is stored is compared     *)
(* with the arguments mint by mint, as every later handler reads it.           *)
(***************************************************************************)
EXTENDS Policy, FiniteSets

VARIABLES
  args,     \* the arguments of create_account
  outcome,  \* "none" yet, "stored" or "refused"
  policy    \* the policy, once stored

policyVars == <<args, outcome, policy>>

AnyArgs ==
  /\ args \in PolicyArgs
  /\ outcome = "none" /\ policy = "none"

\* create_account, as far as the policy goes.
Create ==
  /\ outcome = "none"
  /\ IF Expandable(args) /\ ValidPolicy(Expand(args))
       THEN outcome' = "stored" /\ policy' = Expand(args)
       ELSE outcome' = "refused" /\ UNCHANGED policy
  /\ UNCHANGED args

PolicySpec == AnyArgs /\ [][Create]_policyVars

-----------------------------------------------------------------------------

Stored == outcome = "stored"

Mentions(entries, m) == \E i \in DOMAIN entries : entries[i].mint = m
EntryFor(entries, m) == entries[CHOOSE i \in DOMAIN entries : entries[i].mint = m]

Says(array, entries, m) ==
  /\ HasCap(array, m) <=> Mentions(entries, m)
  /\ HasCap(array, m) => array[FindCap(array, m)] = EntryFor(entries, m)

\* Looked up by mint, as every handler does, the stored arrays say what the
\* arguments said, whatever order their vectors came in, and a ceiling or threshold
\* sits in the slot of its cap or nowhere (PolicyArgs::expand, key_by_mint).
KeyedByMint ==
  Stored =>
    /\ \A m \in Mints :
         /\ Says(policy.caps, args.caps, m)
         /\ Says(policy.session_ceiling, args.session_ceiling, m)
         /\ Says(policy.large_threshold, args.large_threshold, m)
    /\ \A i \in CapSlots :
         {policy.session_ceiling[i].mint, policy.large_threshold[i].mint}
           \subseteq {policy.caps[i].mint, NoMint}

\* The comparison validate_policy makes slot by slot is the one the policy is read
\* by: a session ceiling for a mint is never above that mint's own cap.
CeilingsUnderCaps ==
  Stored => \A m \in Mints :
    HasCap(policy.session_ceiling, m) =>
      /\ HasCap(policy.caps, m)
      /\ AtMost(policy.session_ceiling[FindCap(policy.session_ceiling, m)],
                policy.caps[FindCap(policy.caps, m)])

\* Entries for distinct mints, each with a cap, no more than a policy is created with.
WellFormed(entries, caps) ==
  /\ Len(entries) <= MAX_MINTS_AT_CREATE
  /\ Cardinality({entries[i].mint : i \in DOMAIN entries}) = Len(entries)
  /\ \A i \in DOMAIN entries : entries[i].mint # NoMint /\ Mentions(caps, entries[i].mint)

Acceptable ==
  /\ WellFormed(args.caps, args.caps)
  /\ WellFormed(args.session_ceiling, args.caps)
  /\ WellFormed(args.large_threshold, args.caps)
  /\ \A i \in DOMAIN args.caps : OrderedCap(args.caps[i])
  /\ \A i \in DOMAIN args.session_ceiling :
       AtMost(args.session_ceiling[i], EntryFor(args.caps, args.session_ceiling[i].mint))
  /\ args.timelock_secs >= MIN_TIMELOCK_SECS
  /\ args.recovery_delay_secs >= MIN_TIMELOCK_SECS
  /\ args.max_session_life_secs \in 1 .. MAX_SESSION_LIFE_SECS
  /\ args.session_ops_ceiling \subseteq OPS_MASK_KNOWN

\* Nothing is refused without a reason: arguments in range whose vectors name each
\* mint once, mints with caps only, and keep to the caps, are accepted.
RefusedOnlyWithReason == outcome = "refused" => ~ Acceptable

=============================================================================
