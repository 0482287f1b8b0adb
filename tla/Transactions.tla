----------------------------- MODULE Transactions -----------------------------
(***************************************************************************)
(* Smart accounts and the transactions that create and command them, one       *)
(* instruction at a time. The runtime first verifies every precompile           *)
(* instruction, then runs the instructions in order on a working copy, which    *)
(* becomes the state of the ledger if they all succeed and is dropped if one    *)
(* does not. Anybody composes transactions, out of what passkeys have signed    *)
(* and of anything else that fits into instruction data. What the instructions   *)
(* do beyond the root, the nonce and the freeze is in module Warden.            *)
(***************************************************************************)
EXTENDS RootVerify, FiniteSets

CONSTANTS
  Addresses,          \* PDAs of owner seeds
  Passkeys,           \* public keys of passkeys: points on the curve
  OffCurveKeys,       \* well-formed keys nobody can sign for
  MalformedKeys,      \* bytes with a wrong prefix, or an x that is no field element
  Ed25519Keys,
  Origins,            \* everything that can be written as an origin
  CanonicalOrigins,   \* "chrome-extension://" and a 32-letter id: what Chrome emits
  PasskeyOrigin,      \* [passkey -> the extension it was made in]
  ClusterTags, ZeroTag,
  WARDEN_ID,          \* this program
  OtherPrograms,      \* programs anybody deployed
  Ceremonies,         \* ways of signing: [typ, origin, cross_origin_true, flags]
  RootOps,            \* a subset of {"rotate_nonce", "freeze"}
  CreateChoices,      \* CreateAccountArgs tried, less the address
  Composed(_, _),     \* transactions composed from the accounts and the signatures
  ExpiryLeads,        \* how far ahead of the clock ceremonies expire
  MaxTime, MaxSigned  \* bounds: clock, signatures

Keys == Passkeys \cup OffCurveKeys \cup MalformedKeys \cup Ed25519Keys

Root == [kind: {"P256Passkey", "Ed25519"}, pubkey: Keys]

CreateAccountArgs ==
  [root: Root, origin: Origins, rp_id_hash: {Digest(o) : o \in Origins},
   cluster_tag: ClusterTags \cup {ZeroTag}]

ASSUME TransactionsAssumption ==
  /\ CanonicalOrigins \subseteq Origins
  /\ PasskeyOrigin \in [Passkeys -> CanonicalOrigins]
  /\ ZeroTag \notin ClusterTags
  /\ Passkeys \cap (OffCurveKeys \cup MalformedKeys \cup Ed25519Keys) = {}
  /\ SECP256R1_ID # WARDEN_ID /\ {SECP256R1_ID, WARDEN_ID} \cap OtherPrograms = {}
  /\ CreateChoices \subseteq CreateAccountArgs
  /\ RootOps \subseteq {"rotate_nonce", "freeze"}
  /\ ExpiryLeads \subseteq Nat
  /\ MaxTime \in Nat /\ MaxSigned \in Nat

VARIABLES
  now,       \* Clock::get()?.unix_timestamp
  signed,    \* <<key, message>> pairs passkeys have signed
  ledger,    \* the committed state: the accounts, and the root operations each has
             \* carried out, in order (a history)
  tx         \* the transaction under way, or none: its instructions, the next one,
             \* and the state so far

vars == <<now, signed, ledger, tx>>

NoTransaction == [ixs |-> <<>>]
Running == tx # NoTransaction

ZeroAccount ==
  [version |-> 0, root |-> [kind |-> "P256Passkey", pubkey |-> "zero"],
   origin |-> "", rp_id_hash |-> Digest(""), cluster_tag |-> ZeroTag, root_nonce |-> 0,
   frozen |-> FALSE]

Init ==
  /\ now = 0
  /\ signed = {}
  /\ ledger = [account |-> [a \in Addresses |-> ZeroAccount],
               executed |-> [a \in Addresses |-> <<>>]]
  /\ tx = NoTransaction

Tick ==
  /\ ~Running
  /\ now < MaxTime
  /\ now' = now + 1
  /\ UNCHANGED <<signed, ledger, tx>>

-----------------------------------------------------------------------------
(* Passkeys. *)

ClientDataJson(how, challenge) ==
  [typ |-> how.typ, origin |-> how.origin, cross_origin_true |-> how.cross_origin_true,
   challenge |-> challenge]

\* The authenticator puts the hash of the origin the passkey was made for; the
\* browser the page's own origin and the challenge it was given, which the client
\* computes from an account as displayed, or as it will be a root operation later.
Assertion(k, a, op, lead, ahead, how) ==
  LET acct == ledger.account[a]
  IN  <<k, Message(AuthData(Digest(PasskeyOrigin[k]), how.flags),
                   ClientDataJson(how, Transcript(acct.cluster_tag, a, acct.root_nonce + ahead,
                                                  op, now + lead)))>>

Sign ==
  /\ ~Running
  /\ Cardinality(signed) < MaxSigned
  /\ \E k \in Passkeys, a \in Addresses, op \in RootOps, lead \in ExpiryLeads,
        ahead \in 0 .. 1, how \in Ceremonies :
       /\ ledger.account[a].version = 1
       /\ signed' = signed \cup {Assertion(k, a, op, lead, ahead, how)}
  /\ UNCHANGED <<now, ledger, tx>>

-----------------------------------------------------------------------------
(* The instructions, on a state of the ledger. *)

\* Mutant: any key is a root.
AnyRoot(root) == TRUE

\* validate_root: a P-256 key in compressed form. Nobody can tell on chain whether
\* it is on the curve.
ValidRoot(root) ==
  root.kind = "P256Passkey" /\ root.pubkey \in Passkeys \cup OffCurveKeys

\* validate_origin.
ValidOrigin(origin) == origin \in CanonicalOrigins

\* Mutant: an address in use is initialized again.
FreeAnyway(state, ix) == TRUE

\* `init`.
Free(state, ix) == state.account[ix.address].version = 0

CanCreate(state, ix) ==
  /\ Free(state, ix)
  /\ ValidRoot(ix.args.root)
  /\ ValidOrigin(ix.args.origin)
  /\ ix.args.cluster_tag # ZeroTag
  /\ ix.args.rp_id_hash = Digest(ix.args.origin)

\* create_account, less its policy (module Policy).
Created(state, ix) ==
  [state EXCEPT !.account[ix.address] =
     [version |-> 1, root |-> ix.args.root, origin |-> ix.args.origin,
      rp_id_hash |-> Digest(ix.args.origin), cluster_tag |-> ix.args.cluster_tag,
      root_nonce |-> 0, frozen |-> FALSE]]

\* rotate_nonce and freeze verify the assertion first; freeze then refuses an
\* account that is frozen.
CanCommand(state, ixs, n) ==
  /\ state.account[ixs[n].address].version = 1
  /\ VerifyRootAssertion(state.account[ixs[n].address], ixs[n].address, ixs[n].op,
                         ixs, n, ixs[n].args, now)
  /\ ixs[n].op = "freeze" => ~state.account[ixs[n].address].frozen

CommandedAccount(acct, op) ==
  [acct EXCEPT !.root_nonce = @ + 1, !.frozen = @ \/ op = "freeze"]

Commanded(state, ix) ==
  [account |-> [state.account EXCEPT ![ix.address] = CommandedAccount(@, ix.op)],
   executed |-> [state.executed EXCEPT ![ix.address] = Append(@, [op |-> ix.op, at |-> now])]]

\* What Anchor lets through to a handler: the account is at the PDA of its seed.
Decodes(ix) ==
  /\ ix.address \in Addresses
  /\ \/ ix.op = "create_account" /\ ix.args \in CreateAccountArgs
     \/ ix.op \in RootOps

\* Any other program, the precompile and `ping` leave the accounts alone.
Succeeds(state, ixs, n) ==
  ixs[n].program_id = WARDEN_ID =>
    /\ Decodes(ixs[n])
    /\ IF ixs[n].op = "create_account" THEN CanCreate(state, ixs[n])
       ELSE CanCommand(state, ixs, n)

After(state, ix) ==
  IF ix.program_id # WARDEN_ID THEN state
  ELSE IF ix.op = "create_account" THEN Created(state, ix)
  ELSE Commanded(state, ix)

-----------------------------------------------------------------------------
(* Transactions. *)

Submit(ixs) ==
  /\ ~Running
  /\ RuntimeVerifies(ixs, signed)
  /\ tx' = [ixs |-> ixs, next |-> 1, state |-> ledger]
  /\ UNCHANGED <<now, signed, ledger>>

Execute ==
  /\ Running
  /\ tx.next \in DOMAIN tx.ixs
  /\ Succeeds(tx.state, tx.ixs, tx.next)
  /\ tx' = [tx EXCEPT !.next = @ + 1, !.state = After(@, tx.ixs[tx.next])]
  /\ UNCHANGED <<now, signed, ledger>>

Abort ==
  /\ Running
  /\ tx.next \in DOMAIN tx.ixs
  /\ ~Succeeds(tx.state, tx.ixs, tx.next)
  /\ tx' = NoTransaction
  /\ UNCHANGED <<now, signed, ledger>>

Commit ==
  /\ Running
  /\ tx.next \notin DOMAIN tx.ixs
  /\ ledger' = tx.state
  /\ tx' = NoTransaction
  /\ UNCHANGED <<now, signed>>

Next ==
  \/ Tick
  \/ Sign
  \/ \E ixs \in Composed(ledger.account, signed) : Submit(ixs)
  \/ Execute
  \/ Abort
  \/ Commit

Spec == Init /\ [][Next]_vars

-----------------------------------------------------------------------------
(* Properties. *)

Accounts ==
  [version: {1}, root: [kind: {"P256Passkey"}, pubkey: Passkeys \cup OffCurveKeys],
   origin: CanonicalOrigins, rp_id_hash: {Digest(o) : o \in CanonicalOrigins},
   cluster_tag: ClusterTags, root_nonce: Nat, frozen: BOOLEAN]

States ==
  [account: [Addresses -> Accounts \cup {ZeroAccount}],
   executed: [Addresses -> Seq([op: {"rotate_nonce", "freeze"}, at: 0 .. MaxTime])]]

\* The state a running transaction has reached, and the committed one.
Reached == {ledger} \cup (IF Running THEN {tx.state} ELSE {})

\* The types: an account in use has a P-256 root in compressed form, an origin
\* Chrome can emit and a non-zero cluster tag (create_account).
TypeOK ==
  /\ now \in 0 .. MaxTime
  /\ Reached \subseteq States
  /\ \A s \in signed : s[1] \in Passkeys

\* A passkey assertion for a root operation of account a, once its nonce was n.
SignedFor(acct, a, done, n) ==
  \E s \in signed :
    LET auth == s[2][1]
        cdj == s[2][2][2]
    IN  /\ s[1] = acct.root.pubkey
        /\ auth[2] = Digest(acct.origin)
        /\ FLAGS_REQUIRED \subseteq auth[3]
        /\ cdj.typ = "webauthn.get" /\ ~cdj.cross_origin_true /\ cdj.origin = acct.origin
        /\ cdj.challenge = Transcript(acct.cluster_tag, a, n, done.op, cdj.challenge.expiry_ts)
        /\ done.at <= cdj.challenge.expiry_ts
        /\ cdj.challenge.expiry_ts <= done.at + MAX_ROOT_EXPIRY_SECS

EffectsWereSignedIn(state) ==
  \A a \in Addresses :
    LET acct == state.account[a] IN
    /\ acct.root_nonce = Len(state.executed[a])
    /\ \A i \in 1 .. Len(state.executed[a]) : SignedFor(acct, a, state.executed[a][i], i - 1)

\* Whatever transactions are composed of, and at every point of each: the i-th root
\* operation of an account is one its own root passkey signed, with its user present
\* and verified, in the extension the account belongs to, for this account, cluster,
\* operation and the nonce i - 1, to expire soon after it was carried out. So each signature counts once, and commanding an
\* account proves that its root is one's own passkey and no earlier creator's.
EffectsWereSigned == \A state \in Reached : EffectsWereSignedIn(state)

Honest(origin) ==
  {how \in Ceremonies : /\ how.typ = "webauthn.get" /\ how.origin = origin
                        /\ ~how.cross_origin_true /\ FLAGS_REQUIRED \subseteq how.flags}

\* The owner's transaction: the assertion's own precompile instruction, then the command.
PrecompileFor(s, signature) ==
  [program_id |-> SECP256R1_ID, num_signatures |-> 1,
   data |-> <<s[1], signature, s[2][1], s[2][2]>>,
   offsets |-> << [public_key_offset |-> 0, signature_offset |-> 1,
                   message_data_offset |-> 2, message_data_size |-> 2,
                   signature_instruction_index |-> SAME_INSTRUCTION,
                   public_key_instruction_index |-> SAME_INSTRUCTION,
                   message_instruction_index |-> SAME_INSTRUCTION] >>]

CommandWith(message, a, op, ix_index) ==
  [program_id |-> WARDEN_ID, data |-> <<>>, address |-> a, op |-> op,
   args |-> [authenticator_data |-> message[1], client_data_json |-> message[2][2],
             expiry_ts |-> message[2][2].challenge.expiry_ts,
             precompile_ix_index |-> ix_index]]

\* At any time, whatever was signed, executed or created before: the owner of an
\* account whose root is a passkey of the account's own extension can have an
\* operation signed now and it is carried out (a frozen account is not frozen again).
\* An authenticator's other flags (a synced passkey's BE and BS) do not stand in the way.
OwnerCanCommand ==
  \A a \in Addresses, op \in RootOps, lead \in ExpiryLeads :
    LET acct == ledger.account[a] IN
    (/\ lead <= MAX_ROOT_EXPIRY_SECS
     /\ acct.version = 1 /\ acct.root.pubkey \in Passkeys
     /\ PasskeyOrigin[acct.root.pubkey] = acct.origin
     /\ ~(op = "freeze" /\ acct.frozen)) =>
      \A how \in Honest(acct.origin) :
        LET s == Assertion(acct.root.pubkey, a, op, lead, 0, how)
            ixs == <<PrecompileFor(s, "signature"), CommandWith(s[2], a, op, 1)>>
        IN  RuntimeVerifies(ixs, signed \cup {s}) /\ Succeeds(ledger, ixs, 2)

KeepsRoots(old, new) ==
  \A a \in Addresses :
    LET before == old.account[a]
        after == new.account[a]
    IN  before.version = 1 =>
          /\ <<after.version, after.root, after.origin, after.rp_id_hash, after.cluster_tag>> =
               <<1, before.root, before.origin, before.rp_id_hash, before.cluster_tag>>
          /\ after.root_nonce >= before.root_nonce

\* Once an account is in use, no transaction changes its root, its origin or its
\* cluster, nor lowers its nonce: whoever comes second with the same owner seed, in
\* the same transaction or in a later one, is refused.
RootIsForever == [][KeepsRoots(ledger, ledger')]_vars

=============================================================================
