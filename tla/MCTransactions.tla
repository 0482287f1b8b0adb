---------------------------- MODULE MCTransactions ----------------------------
(***************************************************************************)
(* TLC instance of module Transactions: what anybody may put into one         *)
(* transaction. Precompile instructions come first, verifying assertions or    *)
(* pretending to; warden instructions follow, and point at any of them.        *)
(***************************************************************************)
EXTENDS Transactions, TLC

CONSTANTS pk1, pk2, offCurve, malformed, ed25519, other

ext1 == "ext1"   \* canonical origins
ext2 == "ext2"
page == "page"   \* any other origin

MCPasskeys == {pk1, pk2}
MCOrigins == {ext1, ext2, page}
MCPasskeyOrigin == pk1 :> ext1 @@ pk2 :> ext1

Way(typ, origin, cross, extra) ==
  [typ |-> typ, origin |-> origin, cross_origin_true |-> cross, flags |-> extra]

MCCeremonies ==
  {Way("webauthn.get", ext1, FALSE, {"UP", "UV"}),
   Way("webauthn.get", ext1, FALSE, {"UP", "UV", "BE"}),
   Way("webauthn.get", ext1, FALSE, {"UP"}),
   Way("webauthn.get", ext1, TRUE, {"UP", "UV"}),
   Way("webauthn.get", page, FALSE, {"UP", "UV"}),
   Way("webauthn.create", ext1, FALSE, {"UP", "UV"})}

CreateArgs(kind, key, origin, tag, hashed) ==
  [root |-> [kind |-> kind, pubkey |-> key], origin |-> origin,
   rp_id_hash |-> Digest(hashed), cluster_tag |-> tag]

MCCreateChoices ==
  {CreateArgs("P256Passkey", k, ext1, "devnet", ext1) : k \in {pk1, pk2, offCurve, malformed}}
  \cup {CreateArgs("Ed25519", ed25519, ext1, "devnet", ext1),
        CreateArgs("P256Passkey", pk1, page, "devnet", page),
        CreateArgs("P256Passkey", pk1, ext1, "devnet", ext2),
        CreateArgs("P256Passkey", pk1, ext1, "zero", ext1)}

-----------------------------------------------------------------------------

\* The assertion an account would need now, which its root may not have signed.
Forged(account) ==
  {<<account[a].root.pubkey,
     Message(AuthData(Digest(account[a].origin), FLAGS_REQUIRED),
             [typ |-> "webauthn.get", origin |-> account[a].origin,
              cross_origin_true |-> FALSE,
              challenge |-> Transcript(account[a].cluster_tag, a, account[a].root_nonce, op, now)])>> :
     a \in {b \in Addresses : account[b].version = 1}, op \in RootOps}

\* An assertion for rotating the nonce of a1 that need not wait, made as it should
\* be; pk1 may also have been registered with it.
Simple(s) ==
  LET cdj == s[2][2][2] IN
  /\ cdj.challenge.account = "a1" /\ cdj.challenge.op = "rotate_nonce"
  /\ cdj.challenge.expiry_ts = 0
  /\ cdj.typ = "webauthn.get" \/ (s[1] = pk1 /\ cdj.challenge.root_nonce = 0)
  /\ s[2][1][3] = IF cdj.typ = "webauthn.get" THEN {"UP", "UV", "BE"} ELSE {"UP", "UV"}
  /\ ~cdj.cross_origin_true /\ cdj.origin = ext1

Plain(s) == PrecompileFor(s, "signature")

\* What the offsets point at comes behind something else.
Behind(front, s) ==
  [Plain(s) EXCEPT !.data = Plain(front).data \o @,
                   !.offsets[1].public_key_offset = 4, !.offsets[1].signature_offset = 5,
                   !.offsets[1].message_data_offset = 6]

\* No entry is verified.
Empty(s) == [Plain(s) EXCEPT !.num_signatures = 0]

\* What is verified is in instruction n.
Elsewhere(s, n) ==
  [Plain(s) EXCEPT !.offsets[1].signature_instruction_index = n,
                   !.offsets[1].public_key_instruction_index = n,
                   !.offsets[1].message_instruction_index = n]

Lookalike(s) == [Plain(s) EXCEPT !.program_id = other]

RawsOver(claims, made) ==
  {Plain(s) : s \in claims} \cup {Empty(s) : s \in claims} \cup {Lookalike(s) : s \in claims}
  \cup {Behind(f, s) : f \in claims \ made, s \in made}

CreateIx(a, args) ==
  [program_id |-> WARDEN_ID, data |-> <<>>, address |-> a, op |-> "create_account", args |-> args]

\* Several instructions, for the account a1: one or two precompile instructions and
\* a command, or two of each; creations alone, in pairs, and before a command.
ComposedFreely(account, made) ==
  LET claims == made \cup Forged(account)
      raws == RawsOver(claims, made)
      commands(n) == {CommandWith(s[2], "a1", "rotate_nonce", n) : s \in claims}
      creates == {CreateIx("a1", args) : args \in CreateChoices}
      verified(pres) == {p \in pres : RuntimeVerifies(p, made)}
      single == verified({<<r>> : r \in raws})
      double == verified({<<Plain(s), r>> : s \in made, r \in {Plain(t) : t \in made} \cup
                                                     {Elsewhere(c, 1) : c \in claims}})
      one == {p \o <<w>> : p \in single, w \in commands(1)}
             \cup {p \o <<w>> : p \in double, w \in commands(2)}
      after == {<<w, r>> : w \in commands(2), r \in {Plain(s) : s \in made}}
      two == {<<Plain(s), w>> \o q : s \in made, w \in commands(1),
                q \in {<<v>> : v \in commands(1)} \cup
                      {<<Plain(t), v>> : t \in made, v \in commands(3)}}
      founding == {<<c>> : c \in creates} \cup {<<c, d>> : c \in creates, d \in creates}
                  \cup {<<Plain(s), c, w>> : s \in made, c \in creates, w \in commands(1)}
  IN  one \cup after \cup two \cup founding

\* A creation, or a command behind its precompile instruction, in each transaction.
ComposedSimply(account, made) ==
  {<<CreateIx(a, args)>> : a \in Addresses,
      args \in {CreateArgs("P256Passkey", k, ext1, "devnet", ext1) : k \in Passkeys}}
  \cup {<<Plain(s), CommandWith(t[2], a, op, 1)>> :
           s \in made, t \in made \cup Forged(account), a \in Addresses, op \in RootOps}

OneAccount(made) ==
  /\ now = 0
  /\ ledger.account["a2"].version = 0
  /\ \A s \in made : Simple(s)

MCComposed(account, made) ==
  IF OneAccount(made) THEN ComposedFreely(account, made) ELSE ComposedSimply(account, made)

\* Two assertions at once are only simple ones, for one account: TLC leaves the
\* other steps out.
SpecBounded ==
  Init /\ [][Next /\ (Cardinality(signed') < 2 \/ OneAccount(signed)')]_vars

=============================================================================
