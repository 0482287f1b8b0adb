------------------------------- MODULE Sessions -------------------------------
(***************************************************************************)
(* A session key's account: what a grant may put in it, how a re-grant merges *)
(* into it, and what it has to satisfy to spend (state/session.rs;            *)
(* instructions/grant_session.rs, validate_shape, validate_against_policy and *)
(* merge_caps; instructions/transfer.rs, authorize_session).                  *)
(*                                                                         *)
(* A session that does not exist is the zero-filled record: the program tells *)
(* the two apart by version = 0.                                             *)
(***************************************************************************)
EXTENDS Policy

CONSTANT ZeroHash  \* [0u8; 32], the prior_authority_hash of a new session

MAX_CAPS_PER_GRANT == 2

SESSION_KIND_ED25519 == 0

Counters == [CapSlots -> U64]

SessionKey ==
  [version: 0 .. 1, expiry_ts: Int, ops_mask: OpsMasks, generation_at_grant: Nat,
   caps: CapArray, lifetime_cap: Counters, lifetime_spent: Counters]

ZeroCounters == [i \in CapSlots |-> 0]

ZeroSession ==
  [version |-> 0, expiry_ts |-> 0, ops_mask |-> {}, generation_at_grant |-> 0,
   caps |-> EmptyCaps, lifetime_cap |-> ZeroCounters, lifetime_spent |-> ZeroCounters]

\* The hash of an authority is never all zeros.
ASSUME SessionsAssumption == ZeroHash \notin [caps: CapArray, lifetime_cap: Counters]

Exists(s) == s.version # 0

\* SessionKey::authority_hash: the retained authority, in slot order. The hash
\* is collision-free, so it is the record of what it covers; the identity part
\* (account, pubkey) is the address the session lives at.
Authority(s) == [caps |-> s.caps, lifetime_cap |-> s.lifetime_cap]

PriorAuthority(s) == IF Exists(s) THEN Authority(s) ELSE ZeroHash

-----------------------------------------------------------------------------
(* Granting. *)

\* validate_shape: at most two parallel entries, each with a mint of its own and
\* no day limits. The session pubkey is never the default one here.
ValidShape(body) ==
  /\ Len(body.caps) <= MAX_CAPS_PER_GRANT
  /\ Len(body.lifetime_cap) = Len(body.caps)
  /\ body.kind = SESSION_KIND_ED25519
  /\ \A i \in DOMAIN body.caps : body.caps[i].mint # NoMint
  /\ DistinctMints(body.caps)
  /\ \A i \in DOMAIN body.caps : body.caps[i].per_day = 0 /\ body.caps[i].per_30d = 0

\* Mutant: a mint without a ceiling entry counts as unlimited.
ValidAgainstPolicyOpenCeiling(policy, body, now) ==
  /\ body.expiry_ts > now
  /\ body.expiry_ts <= now + policy.max_session_life_secs
  /\ body.ops_mask \subseteq OPS_MASK_KNOWN \cap policy.session_ops_ceiling
  /\ body.program_allowlist_id = 0
  /\ \A i \in DOMAIN body.caps :
       HasCap(policy.session_ceiling, body.caps[i].mint) =>
         AtMost(body.caps[i],
                policy.session_ceiling[FindCap(policy.session_ceiling, body.caps[i].mint)])

ValidAgainstPolicy(policy, body, now) ==
  /\ body.expiry_ts > now
  /\ body.expiry_ts <= now + policy.max_session_life_secs
  /\ body.ops_mask \subseteq OPS_MASK_KNOWN
  /\ body.ops_mask \subseteq policy.session_ops_ceiling
  /\ body.program_allowlist_id = 0
  /\ \A i \in DOMAIN body.caps :
       /\ HasCap(policy.session_ceiling, body.caps[i].mint)
       /\ AtMost(body.caps[i],
                 policy.session_ceiling[FindCap(policy.session_ceiling, body.caps[i].mint)])

\* The slot merge_caps writes the mint to: its own, or the first unused one.
HasRoom(s, mint) == HasCap(s.caps, mint) \/ HasEmptySlot(s.caps)

\* Mutant: a mint named again gets another slot while there is one.
MergeSlotFresh(s, mint) ==
  IF HasEmptySlot(s.caps) THEN FirstEmptySlot(s.caps) ELSE FindCap(s.caps, mint)

MergeSlot(s, mint) ==
  IF HasCap(s.caps, mint) THEN FindCap(s.caps, mint) ELSE FirstEmptySlot(s.caps)

\* What is already spent in that slot; an unused slot is zeroed first.
SpentBefore(s, mint) ==
  IF HasCap(s.caps, mint) THEN s.lifetime_spent[FindCap(s.caps, mint)] ELSE 0

\* Mutant: a re-grant of a mint starts its count of spending again.
MergeCapForgetting(s, cap, lifetime) ==
  LET slot == MergeSlot(s, cap.mint)
  IN  [s EXCEPT !.caps[slot] = cap, !.lifetime_cap[slot] = lifetime,
                !.lifetime_spent[slot] = 0]

MergeCap(s, cap, lifetime) ==
  LET slot == MergeSlot(s, cap.mint)
  IN  [s EXCEPT !.caps[slot] = cap, !.lifetime_cap[slot] = lifetime,
                !.lifetime_spent[slot] = SpentBefore(s, cap.mint)]

CanMergeCap(s, cap, lifetime) ==
  /\ HasRoom(s, cap.mint)
  /\ lifetime >= SpentBefore(s, cap.mint)

\* merge_caps over the at most two entries of the body, in order.
MergedOne(s, body) == MergeCap(s, body.caps[1], body.lifetime_cap[1])

CanMergeCaps(s, body) ==
  /\ Len(body.caps) >= 1 => CanMergeCap(s, body.caps[1], body.lifetime_cap[1])
  /\ Len(body.caps) = 2 =>
       CanMergeCap(MergedOne(s, body), body.caps[2], body.lifetime_cap[2])

MergeCaps(s, body) ==
  IF Len(body.caps) = 0 THEN s
  ELSE IF Len(body.caps) = 1 THEN MergedOne(s, body)
  ELSE MergeCap(MergedOne(s, body), body.caps[2], body.lifetime_cap[2])

\* The session a grant leaves: everything but the caps is replaced outright.
Granted(s, body, generation) ==
  [MergeCaps(s, body) EXCEPT !.version = 1,
                             !.expiry_ts = body.expiry_ts,
                             !.ops_mask = body.ops_mask,
                             !.generation_at_grant = generation]

-----------------------------------------------------------------------------
(* Spending. *)

\* authorize_session, after the session is known to be the one at the signer's
\* address: still of this generation, not expired, allowed to transfer.
MayTransfer(s, generation, now) ==
  /\ Exists(s)
  /\ s.generation_at_grant = generation
  /\ now < s.expiry_ts
  /\ "transfer" \in s.ops_mask

\* The session's own ceiling and lifetime cap for the mint admit the amount.
WithinSessionCaps(s, mint, amount) ==
  /\ HasCap(s.caps, mint)
  /\ LET slot == FindCap(s.caps, mint)
     IN  /\ amount <= s.caps[slot].per_tx
         /\ Fits(s.lifetime_spent[slot] + amount)
         /\ s.lifetime_spent[slot] + amount <= s.lifetime_cap[slot]

Charged(s, mint, amount) ==
  [s EXCEPT !.lifetime_spent[FindCap(s.caps, mint)] = @ + amount]

=============================================================================
