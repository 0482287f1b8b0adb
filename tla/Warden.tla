-------------------------------- MODULE Warden --------------------------------
(***************************************************************************)
(* The warden program: smart accounts whose root is a passkey, the session    *)
(* keys they delegate to, and the vaults both may spend from (programs/warden). *)
(*                                                                         *)
(* One action is one instruction that succeeds; one that returns an error     *)
(* aborts its transaction and changes nothing, so its error paths are the      *)
(* negations of its guards. The passkey's owner signs ceremonies off chain     *)
(* for what the chain shows at that moment (Sign...); from then on anybody     *)
(* may submit any signature, at any time, any number of times.                *)
(***************************************************************************)
EXTENDS Sessions, Buckets, FiniteSets

CONSTANTS
  Accounts,              \* smart accounts; the PDA of each is its vault
  Keys,                  \* session public keys
  Outsiders,             \* every other holder of funds; they pay the fees
  Native, NATIVE_MINT,   \* SOL, and the mint its caps are kept under
  Tokens,                \* the SPL tokens, a subset of Mints
  InitialFunds,          \* [holder -> [asset -> amount]] before anything runs
  RENT_FLOOR,            \* rent-exempt minimum of a smart account
  SESSION_RENT,          \* rent-exempt minimum of a session
  MAX_ROOT_EXPIRY_SECS,  \* longest a ceremony may outlive its submission (600)
  PolicyChoices,         \* PolicyArgs an account may be created with
  GrantRequests,         \* grants the owner may want; expiry relative, as `life`
  PlainOps,              \* the argument-less root operations the owner uses
  TransferAmounts,       \* amounts transfers are tried with
  RootTransferAmounts,   \* amounts the owner signs transfers for
  RevokePayers,          \* outsiders a root revocation may refund
  ExpiryLeads,           \* how far ahead of the clock ceremonies expire
  MaxTime, MaxRootOps, MaxSigned  \* bounds: clock, root nonce, signatures

Assets == {Native} \cup Tokens
Holders == Accounts \cup Outsiders
CapMint(asset) == IF asset = Native THEN NATIVE_MINT ELSE asset

\* A grant somebody may want: a GrantBody less what the moment of signing adds.
GrantRequest ==
  [session_pubkey: Keys, kind: Nat, life: Int, ops_mask: OpsMasks, caps: Seq(MintCap),
   lifetime_cap: Seq(U64), program_allowlist_id: Nat]

ASSUME WardenAssumption ==
  /\ Accounts \cap Outsiders = {}
  /\ Native \notin Mints /\ NATIVE_MINT \in Mints /\ Tokens \subseteq Mints
  /\ InitialFunds \in [Holders -> [Assets -> U64]]
  /\ RENT_FLOOR \in U64 /\ SESSION_RENT \in U64
  /\ MAX_ROOT_EXPIRY_SECS \in Nat
  /\ PolicyChoices \subseteq PolicyArgs
  /\ GrantRequests \subseteq GrantRequest
  /\ PlainOps \subseteq {"rotate_nonce", "freeze", "unfreeze"}
  /\ TransferAmounts \subseteq U64 /\ RootTransferAmounts \subseteq U64
  /\ RevokePayers \subseteq Outsiders
  /\ ExpiryLeads \subseteq Nat
  /\ MaxTime \in Nat /\ MaxRootOps \in Nat /\ MaxSigned \in Nat

\* An address is 32 bytes, so there are only so many.
ASSUME HoldersAssumption == IsFiniteSet(Holders)

VARIABLES
  now,         \* Clock::get()?.unix_timestamp
  account,     \* account -> SmartAccount; version 0 before create_account
  session,     \* account -> key -> SessionKey, at its PDA
  balance,     \* holder -> asset -> what it holds
  signed,      \* the passkey signatures made so far, with what was on display
  executed,    \* history: account -> the signatures that took effect, in order
  drawn,       \* history: account -> key -> mint -> paid out by the session
  paid,        \* history: account -> mint -> UTC day -> paid out on it
  lastFreeze   \* history: account -> when freeze last took effect, or Never

vars ==
  <<now, account, session, balance, signed, executed, drawn, paid, lastFreeze>>

Days == 0 .. (MaxTime \div DAY_SECS)
Never == -1

EmptyPolicy ==
  [version |-> 0, caps |-> EmptyCaps, session_ceiling |-> EmptyCaps,
   large_threshold |-> EmptyCaps, timelock_secs |-> 0, recovery_delay_secs |-> 0,
   max_session_life_secs |-> 0, session_ops_ceiling |-> {}]

\* SmartAccount. FrozenState::Guardian is stored by no instruction.
SmartAccount ==
  [version: 0 .. 1, generation: Nat, root_nonce: Nat, frozen: {"None", "Root"},
   frozen_at: Int, policy: PolicyRecord, buckets: [CapSlots -> MintBuckets]]

ZeroAccount ==
  [version |-> 0, generation |-> 0, root_nonce |-> 0, frozen |-> "None",
   frozen_at |-> 0, policy |-> EmptyPolicy,
   buckets |-> [i \in CapSlots |-> EmptyBuckets]]

NoPayments == [m \in Mints |-> [d \in Days |-> 0]]
NothingDrawn == [m \in Mints |-> 0]

Init ==
  /\ now = 0
  /\ account = [a \in Accounts |-> ZeroAccount]
  /\ session = [a \in Accounts |-> [k \in Keys |-> ZeroSession]]
  /\ balance = InitialFunds
  /\ signed = {}
  /\ executed = [a \in Accounts |-> <<>>]
  /\ drawn = [a \in Accounts |-> [k \in Keys |-> NothingDrawn]]
  /\ paid = [a \in Accounts |-> NoPayments]
  /\ lastFreeze = [a \in Accounts |-> Never]

\* The ledger clock: unix_timestamp never goes back.
Tick ==
  /\ now < MaxTime
  /\ now' = now + 1
  /\ UNCHANGED <<account, session, balance, signed, executed, drawn, paid, lastFreeze>>

-----------------------------------------------------------------------------
(* Ceremonies: signing off chain, verifying and consuming on chain. *)

NoBody == [empty |-> TRUE]

\* transcript_hash: everything a ceremony is bound to. The program is one, the
\* cluster tag is fixed with the account, and the hash is the record itself.
Transcript(a, op, body, expiry) ==
  [account |-> a, op |-> op, body |-> body, generation |-> account[a].generation,
   policy_version |-> account[a].policy.version, root_nonce |-> account[a].root_nonce,
   expiry_ts |-> expiry]

\* The owner signs for the state on display; `shown` is the session displayed.
Sign(a, op, body, shown) ==
  /\ account[a].version = 1
  /\ account[a].root_nonce < MaxRootOps
  /\ Cardinality(signed) < MaxSigned
  /\ \E lead \in ExpiryLeads :
       signed' = signed \cup
         {[transcript |-> Transcript(a, op, body, now + lead),
           seen |-> [root_ops |-> Len(executed[a]), session |-> shown]]}
  /\ UNCHANGED <<now, account, session, balance, executed, drawn, paid, lastFreeze>>

SignPlain(a, op) == Sign(a, op, NoBody, ZeroSession)

GrantBodyFor(a, g) ==
  [session_pubkey |-> g.session_pubkey, kind |-> g.kind, expiry_ts |-> now + g.life,
   ops_mask |-> g.ops_mask, caps |-> g.caps, lifetime_cap |-> g.lifetime_cap,
   program_allowlist_id |-> g.program_allowlist_id,
   prior_authority_hash |-> PriorAuthority(session[a][g.session_pubkey])]

SignGrant(a, g) ==
  Sign(a, "grant_session", GrantBodyFor(a, g), session[a][g.session_pubkey])

SignRevoke(a, k, refund_to) ==
  Sign(a, "revoke_session", [session_pubkey |-> k, refund_to |-> refund_to], ZeroSession)

TransferBody(asset, dest, amount) ==
  [native |-> asset = Native, mint |-> IF asset = Native THEN NoMint ELSE asset,
   destination |-> dest, amount |-> amount]

SignTransfer(a, asset, dest, amount) ==
  Sign(a, "transfer", TransferBody(asset, dest, amount), ZeroSession)

\* Mutant: a ceremony stays good until it expires.
AuthorizesAnyNonce(s, a, op, body) ==
  /\ account[a].version = 1
  /\ now <= s.transcript.expiry_ts
  /\ s.transcript.expiry_ts <= now + MAX_ROOT_EXPIRY_SECS
  /\ s.transcript = [Transcript(a, op, body, s.transcript.expiry_ts)
                       EXCEPT !.root_nonce = s.transcript.root_nonce]

\* Mutant: the transcript does not name the account.
AuthorizesAnyAccount(s, a, op, body) ==
  /\ account[a].version = 1
  /\ now <= s.transcript.expiry_ts
  /\ s.transcript.expiry_ts <= now + MAX_ROOT_EXPIRY_SECS
  /\ s.transcript = [Transcript(a, op, body, s.transcript.expiry_ts)
                       EXCEPT !.account = s.transcript.account]

\* Mutant: the transcript does not name the operation.
AuthorizesAnyOp(s, a, op, body) ==
  /\ account[a].version = 1
  /\ now <= s.transcript.expiry_ts
  /\ s.transcript.expiry_ts <= now + MAX_ROOT_EXPIRY_SECS
  /\ s.transcript = [Transcript(a, op, body, s.transcript.expiry_ts)
                       EXCEPT !.op = s.transcript.op]

\* Mutant: the action hash is left out of the transcript.
AuthorizesAnyBody(s, a, op, body) ==
  /\ account[a].version = 1
  /\ now <= s.transcript.expiry_ts
  /\ s.transcript.expiry_ts <= now + MAX_ROOT_EXPIRY_SECS
  /\ s.transcript = [Transcript(a, op, body, s.transcript.expiry_ts)
                       EXCEPT !.body = s.transcript.body]

\* verify_root_assertion accepts the signature for this instruction, its
\* arguments and the account as it stands: fresh, and over the transcript
\* recomputed from all three.
Authorizes(s, a, op, body) ==
  /\ account[a].version = 1
  /\ now <= s.transcript.expiry_ts
  /\ s.transcript.expiry_ts <= now + MAX_ROOT_EXPIRY_SECS
  /\ s.transcript = Transcript(a, op, body, s.transcript.expiry_ts)

\* ... and consumes the nonce.
Consumed(a) == [account[a] EXCEPT !.root_nonce = @ + 1]

TakesEffect(a, s) == executed' = [executed EXCEPT ![a] = Append(@, s)]

-----------------------------------------------------------------------------
(* Root instructions without value. *)

\* `init` fails on an address in use; anyone may create, and pays the rent the
\* address does not hold yet.
CreateAccount(a, args, payer) ==
  /\ account[a].version = 0
  /\ Expandable(args)
  /\ ValidPolicy(Expand(args))
  /\ LET held == balance[a][Native]
         rent == IF held >= RENT_FLOOR THEN 0 ELSE RENT_FLOOR - held
     IN  /\ balance[payer][Native] >= rent
         /\ balance' = [balance EXCEPT ![payer][Native] = @ - rent, ![a][Native] = @ + rent]
  /\ account' = [account EXCEPT
                   ![a] = [ZeroAccount EXCEPT !.version = 1, !.policy = Expand(args)]]
  /\ UNCHANGED <<now, session, signed, executed, drawn, paid, lastFreeze>>

RotateNonce(a, s) ==
  /\ Authorizes(s, a, "rotate_nonce", NoBody)
  /\ account' = [account EXCEPT ![a] = Consumed(a)]
  /\ TakesEffect(a, s)
  /\ UNCHANGED <<now, session, balance, signed, drawn, paid, lastFreeze>>

\* Mutant: the time of the freeze is not written down.
FreezeUnstamped(a, s) ==
  /\ Authorizes(s, a, "freeze", NoBody)
  /\ account[a].frozen = "None"
  /\ account' = [account EXCEPT ![a] = [Consumed(a) EXCEPT !.frozen = "Root"]]
  /\ TakesEffect(a, s)
  /\ lastFreeze' = [lastFreeze EXCEPT ![a] = now]
  /\ UNCHANGED <<now, session, balance, signed, drawn, paid>>

Freeze(a, s) ==
  /\ Authorizes(s, a, "freeze", NoBody)
  /\ account[a].frozen = "None"
  /\ account' = [account EXCEPT
                   ![a] = [Consumed(a) EXCEPT !.frozen = "Root", !.frozen_at = now]]
  /\ TakesEffect(a, s)
  /\ lastFreeze' = [lastFreeze EXCEPT ![a] = now]
  /\ UNCHANGED <<now, session, balance, signed, drawn, paid>>

\* Mutant: only a guardian's freeze can be lifted.
UnfreezeGuardianOnly(a, s) ==
  /\ Authorizes(s, a, "unfreeze", NoBody)
  /\ account[a].frozen = "Guardian"
  /\ now >= account[a].frozen_at + account[a].policy.timelock_secs
  /\ account' = [account EXCEPT
                   ![a] = [Consumed(a) EXCEPT !.frozen = "None", !.frozen_at = 0]]
  /\ TakesEffect(a, s)
  /\ UNCHANGED <<now, session, balance, signed, drawn, paid, lastFreeze>>

Unfreeze(a, s) ==
  /\ Authorizes(s, a, "unfreeze", NoBody)
  /\ account[a].frozen = "Root"
  /\ now >= account[a].frozen_at + account[a].policy.timelock_secs
  /\ account' = [account EXCEPT
                   ![a] = [Consumed(a) EXCEPT !.frozen = "None", !.frozen_at = 0]]
  /\ TakesEffect(a, s)
  /\ UNCHANGED <<now, session, balance, signed, drawn, paid, lastFreeze>>

-----------------------------------------------------------------------------
(* Sessions. *)

Refund(payer) == balance' = [balance EXCEPT ![payer][Native] = @ + SESSION_RENT]

\* Mutant: a re-grant merges into whatever the session has become.
GrantSessionOverAnyState(a, s, payer) ==
  LET body == s.transcript.body
      k == body.session_pubkey
      old == session[a][k]
      rent == IF Exists(old) THEN 0 ELSE SESSION_RENT
  IN  /\ account[a].frozen = "None"
      /\ Authorizes(s, a, "grant_session", body)
      /\ ValidShape(body)
      /\ ValidAgainstPolicy(account[a].policy, body, now)
      /\ CanMergeCaps(old, body)
      /\ balance[payer][Native] >= rent
      /\ balance' = [balance EXCEPT ![payer][Native] = @ - rent]
      /\ session' = [session EXCEPT ![a][k] = Granted(old, body, account[a].generation)]
      /\ account' = [account EXCEPT ![a] = Consumed(a)]
      /\ TakesEffect(a, s)
      /\ UNCHANGED <<now, signed, drawn, paid, lastFreeze>>

\* grant_session: creates the session's PDA if it is not there, and merges into
\* it only if its authority is what the signed body says it was.
GrantSession(a, s, payer) ==
  LET body == s.transcript.body
      k == body.session_pubkey
      old == session[a][k]
      rent == IF Exists(old) THEN 0 ELSE SESSION_RENT
  IN  /\ account[a].frozen = "None"
      /\ Authorizes(s, a, "grant_session", body)
      /\ ValidShape(body)
      /\ ValidAgainstPolicy(account[a].policy, body, now)
      /\ body.prior_authority_hash = PriorAuthority(old)
      /\ CanMergeCaps(old, body)
      /\ balance[payer][Native] >= rent
      /\ balance' = [balance EXCEPT ![payer][Native] = @ - rent]
      /\ session' = [session EXCEPT ![a][k] = Granted(old, body, account[a].generation)]
      /\ account' = [account EXCEPT ![a] = Consumed(a)]
      /\ TakesEffect(a, s)
      /\ UNCHANGED <<now, signed, drawn, paid, lastFreeze>>

\* Closing a session forgets what it spent, the history of it included.
Close(a, k, payer) ==
  /\ session' = [session EXCEPT ![a][k] = ZeroSession]
  /\ drawn' = [drawn EXCEPT ![a][k] = NothingDrawn]
  /\ Refund(payer)

\* revoke_session, by a root ceremony: works on a frozen account too.
RevokeSessionRoot(a, s, payer) ==
  LET body == s.transcript.body
      k == body.session_pubkey
  IN  /\ Exists(session[a][k])
      /\ payer = body.refund_to
      /\ Authorizes(s, a, "revoke_session", body)
      /\ account' = [account EXCEPT ![a] = Consumed(a)]
      /\ Close(a, k, payer)
      /\ TakesEffect(a, s)
      /\ UNCHANGED <<now, signed, paid, lastFreeze>>

\* revoke_session, by the session key itself: no ceremony and no nonce.
RevokeSessionSelf(a, k, payer) ==
  /\ Exists(session[a][k])
  /\ Close(a, k, payer)
  /\ UNCHANGED <<now, account, signed, executed, paid, lastFreeze>>

-----------------------------------------------------------------------------
(* Transfers. *)

\* The account-wide buckets admit the amount ...
BucketAdmits(a, mint, amount) ==
  LET caps == account[a].policy.caps
  IN  /\ HasCap(caps, mint)
      /\ DebitAllowed(account[a].buckets[FindCap(caps, mint)], caps[FindCap(caps, mint)],
                      amount, now)

\* ... and are charged with it.
ChargedAccount(acct, mint, amount) ==
  [acct EXCEPT !.buckets[FindCap(acct.policy.caps, mint)] = Debited(@, amount, now)]

\* Mutant: the destination may be the vault itself; move_lamports reads both
\* balances before it writes either.
MoveAnywhere(a, dest, asset, amount) ==
  /\ balance[a][asset] - amount >= (IF asset = Native THEN RENT_FLOOR ELSE 0)
  /\ Fits(balance[dest][asset] + amount)
  /\ balance' = [balance EXCEPT ![a][asset] = balance[a][asset] - amount,
                                ![dest][asset] = balance[dest][asset] + amount]

\* Mutant: the vault's balance is not looked at.
MoveUnchecked(a, dest, asset, amount) ==
  /\ dest # a
  /\ Fits(balance[dest][asset] + amount)
  /\ balance' = [balance EXCEPT ![a][asset] = balance[a][asset] - amount,
                                ![dest][asset] = balance[dest][asset] + amount]

\* move_lamports for SOL, the token program's Transfer for an SPL token.
Move(a, dest, asset, amount) ==
  /\ dest # a
  /\ balance[a][asset] - amount >= (IF asset = Native THEN RENT_FLOOR ELSE 0)
  /\ Fits(balance[dest][asset] + amount)
  /\ balance' = [balance EXCEPT ![a][asset] = balance[a][asset] - amount,
                                ![dest][asset] = balance[dest][asset] + amount]

Paid(a, mint, amount) == paid' = [paid EXCEPT ![a][mint][DayNumber(now)] = @ + amount]

\* transfer on the root path: bounded by the policy's large_threshold.
TransferRoot(a, s, dest, asset, amount) ==
  LET mint == CapMint(asset)
      threshold == account[a].policy.large_threshold
  IN  /\ account[a].frozen = "None"
      /\ Authorizes(s, a, "transfer", TransferBody(asset, dest, amount))
      /\ HasCap(threshold, mint)
      /\ amount <= threshold[FindCap(threshold, mint)].per_tx
      /\ BucketAdmits(a, mint, amount)
      /\ account' = [account EXCEPT ![a] = ChargedAccount(Consumed(a), mint, amount)]
      /\ Move(a, dest, asset, amount)
      /\ TakesEffect(a, s)
      /\ Paid(a, mint, amount)
      /\ UNCHANGED <<now, session, signed, drawn, lastFreeze>>

\* Mutant: check_session_pda does not compare the session's account.
AuthorizeSessionOfAny(a, owner, k) ==
  MayTransfer(session[owner][k], account[a].generation, now)

\* authorize_session: the session account presented is k's at `owner`, and k
\* signs the transaction.
AuthorizeSession(a, owner, k) ==
  /\ owner = a
  /\ MayTransfer(session[owner][k], account[a].generation, now)

\* transfer on the session path: its own caps first, then the account's.
TransferSession(a, owner, k, dest, asset, amount) ==
  LET mint == CapMint(asset)
  IN  /\ account[a].version = 1
      /\ account[a].frozen = "None"
      /\ AuthorizeSession(a, owner, k)
      /\ WithinSessionCaps(session[owner][k], mint, amount)
      /\ BucketAdmits(a, mint, amount)
      /\ account' = [account EXCEPT ![a] = ChargedAccount(account[a], mint, amount)]
      /\ session' = [session EXCEPT ![owner][k] = Charged(@, mint, amount)]
      /\ Move(a, dest, asset, amount)
      /\ drawn' = [drawn EXCEPT ![owner][k][mint] = @ + amount]
      /\ Paid(a, mint, amount)
      /\ UNCHANGED <<now, signed, executed, lastFreeze>>

-----------------------------------------------------------------------------

Owner(a) ==
  \/ \E op \in PlainOps : SignPlain(a, op)
  \/ \E g \in GrantRequests : SignGrant(a, g)
  \/ \E k \in Keys, p \in RevokePayers : SignRevoke(a, k, p)
  \/ \E asset \in Assets, dest \in Holders, n \in RootTransferAmounts :
       SignTransfer(a, asset, dest, n)

\* Any signature may be submitted with any instruction and any arguments; a
\* grant and a revocation are only tried with the body that was signed.
RootInstruction(a, s) ==
  \/ RotateNonce(a, s)
  \/ Freeze(a, s)
  \/ Unfreeze(a, s)
  \/ s.transcript.op = "grant_session" /\ \E p \in Outsiders : GrantSession(a, s, p)
  \/ s.transcript.op = "revoke_session" /\ \E p \in Outsiders : RevokeSessionRoot(a, s, p)
  \/ \E asset \in Assets, dest \in Holders, n \in RootTransferAmounts :
       TransferRoot(a, s, dest, asset, n)

SessionInstruction(a, k) ==
  \/ \E p \in Outsiders : RevokeSessionSelf(a, k, p)
  \/ \E owner \in Accounts, asset \in Assets, dest \in Holders, n \in TransferAmounts :
       TransferSession(a, owner, k, dest, asset, n)

Next ==
  \/ Tick
  \/ \E a \in Accounts :
       \/ \E args \in PolicyChoices, p \in Outsiders : CreateAccount(a, args, p)
       \/ Owner(a)
       \/ \E s \in signed : RootInstruction(a, s)
       \/ \E k \in Keys : SessionInstruction(a, k)

Spec == Init /\ [][Next]_vars

-----------------------------------------------------------------------------
(* Properties. *)

\* The variables range over what the program and its environment can store.
GrantBody ==
  [session_pubkey: Keys, kind: Nat, expiry_ts: Int, ops_mask: OpsMasks,
   caps: Seq(MintCap), lifetime_cap: Seq(U64), program_allowlist_id: Nat,
   prior_authority_hash:
     [caps: CapArray, lifetime_cap: Counters] \cup {ZeroHash}]

RevokeBody == [session_pubkey: Keys, refund_to: Outsiders]

RootOps == {"rotate_nonce", "freeze", "unfreeze", "grant_session", "revoke_session", "transfer"}

SignatureOK(s) ==
  /\ s.transcript.account \in Accounts
  /\ s.transcript.op \in RootOps
  /\ s.transcript.expiry_ts \in Int
  /\ s.transcript.op = "grant_session" => s.transcript.body \in GrantBody
  /\ s.transcript.op = "revoke_session" => s.transcript.body \in RevokeBody
  /\ s.seen.root_ops \in Nat
  /\ s.seen.session \in SessionKey

TypeOK ==
  /\ now \in 0 .. MaxTime
  /\ account \in [Accounts -> SmartAccount]
  /\ session \in [Accounts -> [Keys -> SessionKey]]
  /\ balance \in [Holders -> [Assets -> Nat]]
  /\ \A s \in signed : SignatureOK(s)
  /\ executed \in [Accounts -> Seq(signed)]
  /\ drawn \in [Accounts -> [Keys -> [Mints -> Nat]]]
  /\ paid \in [Accounts -> [Mints -> [Days -> Nat]]]
  /\ lastFreeze \in [Accounts -> {Never} \cup (0 .. MaxTime)]

\* A passkey signature takes effect at most once, on its own account, and only
\* while no other root operation got in since it was made: what the nonce in the
\* transcript buys (root_verify/mod.rs verify_root_assertion, every root handler).
Root == INSTANCE RootAuthority
ImplementsRootAuthority == Root!Spec

\* What takes effect is what was signed: the account freezes and unfreezes by a
\* signature for exactly that, and when a root operation takes effect the vault
\* gives up what the signed transfer says, to whom it says, or nothing at all.
EffectsAreSigned ==
  [][\A a \in Accounts :
       /\ account'[a].frozen # account[a].frozen =>
            /\ Len(executed'[a]) = Len(executed[a]) + 1
            /\ executed'[a][Len(executed'[a])].transcript.op =
                 IF account'[a].frozen = "Root" THEN "freeze" ELSE "unfreeze"
       /\ executed'[a] # executed[a] =>
            LET t == executed'[a][Len(executed'[a])].transcript
            IN  \A asset \in Assets :
                  LET signedFor == IF t.body.native THEN Native ELSE t.body.mint
                      out == IF t.op = "transfer" /\ asset = signedFor
                               THEN t.body.amount ELSE 0
                  IN  /\ balance'[a][asset] = balance[a][asset] - out
                      /\ out > 0 => balance'[t.body.destination][asset] =
                                      balance[t.body.destination][asset] + out]_vars

\* A grant lands on the session its signer saw: it exists or not as shown, every
\* slot it keeps and does not mention grants what was shown, and no slot has more
\* left to spend than was shown (grant_session.rs prior_authority_hash;
\* state/session.rs authority_hash, which leaves lifetime_spent out).
GrantLandsOnWhatWasShown ==
  [][\A a \in Accounts :
       LET n == Len(executed'[a])
       IN  (executed'[a] # executed[a] /\ executed'[a][n].transcript.op = "grant_session")
             => LET shown == executed'[a][n].seen.session
                    found == session[a][executed'[a][n].transcript.body.session_pubkey]
                IN  /\ Exists(found) = Exists(shown)
                    /\ Authority(found) = Authority(shown)
                    /\ \A i \in CapSlots :
                         found.lifetime_spent[i] >= shown.lifetime_spent[i]]_vars

\* From the moment a freeze takes effect until the policy's timelock has run out,
\* nothing leaves the vault by any key and no session gains anything; closing
\* sessions stays possible (freeze.rs, unfreeze.rs, transfer.rs, grant_session.rs).
FreezeHoldsForTimelock ==
  [][\A a \in Accounts :
       (lastFreeze[a] # Never /\ now < lastFreeze[a] + account[a].policy.timelock_secs)
         => /\ \A asset \in Assets : balance'[a][asset] >= balance[a][asset]
            /\ \A k \in Keys : session'[a][k] \in {session[a][k], ZeroSession}]_vars

\* What a session has spent of each mint since it was created is what its slot for
\* the mint says, through any number of re-grants; it is within the lifetime cap in
\* force, and no mint has two slots (grant_session.rs merge_caps, transfer.rs).
LifetimeAccounting ==
  \A a \in Accounts, k \in Keys :
    LET s == session[a][k]
    IN  /\ \A i, j \in CapSlots :
             s.caps[i].mint # NoMint /\ s.caps[i].mint = s.caps[j].mint => i = j
        /\ \A i \in CapSlots : s.caps[i].mint # NoMint =>
             /\ s.lifetime_spent[i] = drawn[a][k][s.caps[i].mint]
             /\ s.lifetime_spent[i] <= s.lifetime_cap[i]
        /\ \A m \in Mints : drawn[a][k][m] > 0 => HasCap(s.caps, m)

\* Every slot of every live session, those merged in by earlier grants included,
\* is within the policy's ceiling and cap for its mint, and the session can do
\* nothing and outlive nothing the policy does not allow (grant_session.rs
\* validate_against_policy; create_account.rs validate_policy).
SessionsWithinPolicy ==
  \A a \in Accounts, k \in Keys : Exists(session[a][k]) =>
    LET s == session[a][k]
        p == account[a].policy
    IN  /\ s.ops_mask \subseteq p.session_ops_ceiling
        /\ s.expiry_ts <= now + p.max_session_life_secs
        /\ \A i \in CapSlots : s.caps[i].mint # NoMint =>
             /\ HasCap(p.session_ceiling, s.caps[i].mint)
             /\ s.caps[i].per_tx <=
                  p.session_ceiling[FindCap(p.session_ceiling, s.caps[i].mint)].per_tx
             /\ HasCap(p.caps, s.caps[i].mint)
             /\ s.caps[i].per_tx <= p.caps[FindCap(p.caps, s.caps[i].mint)].per_tx

\* A grant is never refused for want of a slot: whatever was merged into a session
\* before, each of the two mints a grant can name finds its own slot or an unused
\* one, the second after the first has taken its (grant_session.rs merge_caps, whose
\* comment calls the error of a session without room unreachable).
SlotsNeverRunOut ==
  \A a \in Accounts, k \in Keys : account[a].version = 1 =>
    LET s == session[a][k]
        Grantable == {m \in Mints : HasCap(account[a].policy.session_ceiling, m)}
    IN  \A first \in Grantable :
          /\ HasRoom(s, first)
          /\ LET merged == MergeCap(s, [EmptyCap EXCEPT !.mint = first], U64_MAX)
             IN  \A second \in Grantable : HasRoom(merged, second)

\* The root and all sessions together stay within the account's caps for each mint,
\* SOL and wrapped SOL counted as one, on every UTC day and over every RING_DAYS of
\* them, and spend nothing of a mint without a cap (transfer.rs, buckets.rs debit).
AccountWideCaps ==
  \A a \in Accounts, m \in Mints :
    LET caps == account[a].policy.caps
    IN  IF HasCap(caps, m)
          THEN /\ \A d \in Days : paid[a][m][d] <= caps[FindCap(caps, m)].per_day
               /\ \A last \in Days :
                    SumFunctionOnSet(paid[a][m],
                                     {d \in Days : last - RING_DAYS < d /\ d <= last})
                      <= caps[FindCap(caps, m)].per_30d
          ELSE \A d \in Days : paid[a][m][d] = 0

\* An account's limit for a mint, kept by someone who remembers every payment.
Limit(a, m) ==
  INSTANCE SpendLimits WITH
    Limits <- MintCap, Amounts <- U64, spent <- paid[a][m], verdict <- "none",
    limit <- account[a].policy.caps[FindCap(account[a].policy.caps, m)]

\* The buckets let through exactly the payments that the account's whole history
\* leaves room for today, whoever made the earlier ones, in SOL or wrapped SOL, before
\* and after re-grants, freezes and silences: no slot of the ring keeps what no longer
\* counts, and no legitimate payment is refused (transfer.rs, buckets.rs debit).
BucketsAreExact ==
  \A a \in Accounts, m \in Mints, n \in TransferAmounts :
    account[a].version = 1 =>
      (BucketAdmits(a, m, n) <=> HasCap(account[a].policy.caps, m) /\ Limit(a, m)!Within(n))

\* What the vault holds under one cap.
Holdings(b, a, m) ==
  SumFunctionOnSet(b[a], {asset \in Assets : CapMint(asset) = m})

\* What leaves the vault is charged, once, to the account's bucket of its mint, and
\* unless a root ceremony took effect, to one slot of one of the account's own
\* sessions; nothing is charged for value that stays (transfer.rs, the debit, the
\* VaultDestination checks and check_session_pda).
OutflowIsCharged ==
  [][\A a \in Accounts, m \in Mints :
       account[a].version = 1 =>
       LET out == Holdings(balance, a, m) - Holdings(balance', a, m)
           caps == account[a].policy.caps
           old == account[a].buckets[FindCap(caps, m)]
           new == account'[a].buckets[FindCap(caps, m)]
       IN  /\ out > 0 =>
                /\ HasCap(caps, m)
                /\ new # old
                /\ \/ executed'[a] # executed[a]
                   \/ \E k \in Keys, i \in CapSlots :
                        /\ session[a][k].caps[i].mint = m
                        /\ session'[a][k].lifetime_spent[i] =
                             session[a][k].lifetime_spent[i] + out
           /\ HasCap(caps, m) /\ new # old =>
                RingSum(new) = RingSum(Rolled(old, now)) + out]_vars

\* No value appears or disappears: what all holders have of an asset, plus the rent
\* sitting in live sessions, is what there was at the start, and an account never
\* falls below its own rent (transfer.rs move_lamports, `init`, `close`).
TotalHeld(b, asset) == SumFunctionOnSet([h \in Holders |-> b[h][asset]], Holders)

LiveSessions == {ak \in Accounts \X Keys : Exists(session[ak[1]][ak[2]])}

ValueConserved ==
  /\ \A asset \in Assets :
       TotalHeld(balance, asset)
         + (IF asset = Native THEN SESSION_RENT * Cardinality(LiveSessions) ELSE 0)
       = TotalHeld(InitialFunds, asset)
  /\ \A a \in Accounts : account[a].version = 1 => balance[a][Native] >= RENT_FLOOR

=============================================================================
