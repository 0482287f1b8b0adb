------------------------------ MODULE Transcript ------------------------------
(***************************************************************************)
(* What a passkey signs, byte by byte: root_verify/transcript.rs and the       *)
(* borsh of the arguments it covers, and the TypeScript that mirrors it         *)
(* (packages/core). A byte is a digit to the base RADIX; integers are           *)
(* little-endian and negative ones in two's complement, which is what \div and  *)
(* % make of them. Hashes are not computed: Keccak256 of a document is the       *)
(* document.                                                                *)
(***************************************************************************)
EXTENDS Integers, Sequences, SequencesExt

CONSTANTS
  RADIX,                             \* 256
  U16_LEN, U32_LEN, U64_LEN,         \* bytes of integers: 2, 4, 8
  HASH_LEN, LABEL_LEN,               \* bytes of keys and hashes: 32; of a label: 16
  TRANSCRIPT_DOMAIN

ASSUME TranscriptAssumption ==
  /\ RADIX \in Nat \ {0, 1}
  /\ {U16_LEN, U32_LEN, U64_LEN, HASH_LEN, LABEL_LEN} \subseteq Nat \ {0}
  /\ TRANSCRIPT_DOMAIN \in Seq(0 .. RADIX - 1)

Cells == 0 .. RADIX - 1
Key == [1 .. HASH_LEN -> Cells]

\* How many values so many bytes have.
RadixTo[n \in Nat] == IF n = 0 THEN 1 ELSE RADIX * RadixTo[n - 1]

Unsigned(len) == 0 .. RadixTo[len] - 1
Signed(len) == -(RadixTo[len] \div 2) .. (RadixTo[len] \div 2) - 1

\* to_le_bytes; DataView's setters, which take any integer, and wrap.
Le(v, len) == [i \in 1 .. len |-> (v \div RadixTo[i - 1]) % RADIX]

-----------------------------------------------------------------------------
(* Rust. *)

TranscriptFields ==
  [cluster_tag: Key, program_id: Key, account: Key, generation: Unsigned(U64_LEN),
   policy_version: Unsigned(U32_LEN), root_nonce: Unsigned(U64_LEN),
   expiry_ts: Signed(U64_LEN), action_hash: Key]

\* transcript_hash.
TranscriptBytes(t) ==
  TRANSCRIPT_DOMAIN \o t.cluster_tag \o t.program_id \o t.account
    \o Le(t.generation, U64_LEN) \o Le(t.policy_version, U32_LEN)
    \o Le(t.root_nonce, U64_LEN) \o Le(t.expiry_ts, U64_LEN) \o t.action_hash

\* action_hash.
ActionBytes(op_type, borsh_args) == <<op_type>> \o borsh_args

OpByte(op) ==
  CASE op = "rotate_nonce" -> 0
    [] op = "grant_session" -> 1
    [] op = "revoke_session" -> 2
    [] op = "freeze" -> 3
    [] op = "unfreeze" -> 4
    [] op = "transfer" -> 5

\* Mutant: the elements alone.
BorshVecBare(items) == FlattenSeq(items)

\* Borsh of a Vec, from that of its elements: their number comes first.
BorshVec(items) == Le(Len(items), U32_LEN) \o FlattenSeq(items)

MintCapBytes(c) ==
  c.mint \o Le(c.per_tx, U64_LEN) \o Le(c.per_day, U64_LEN) \o Le(c.per_30d, U64_LEN)

GrantBodyBytes(b) ==
  Le(b.expiry_ts, U64_LEN) \o b.session_pubkey \o <<b.kind>> \o Le(b.ops_mask, U16_LEN)
    \o BorshVec([i \in DOMAIN b.caps |-> MintCapBytes(b.caps[i])])
    \o BorshVec([i \in DOMAIN b.lifetime_cap |-> Le(b.lifetime_cap[i], U64_LEN)])
    \o Le(b.program_allowlist_id, U16_LEN) \o b.label \o b.prior_authority_hash

RevokeBodyBytes(b) == b.session_pubkey \o b.refund_to

TransferBodyBytes(b) ==
  <<IF b.native THEN 1 ELSE 0>> \o b.mint \o b.destination \o Le(b.amount, U64_LEN)

BodyBytes(op, body) ==
  CASE op = "grant_session" -> GrantBodyBytes(body)
    [] op = "revoke_session" -> RevokeBodyBytes(body)
    [] op = "transfer" -> TransferBodyBytes(body)
    [] OTHER -> <<>>

\* The i-th character of the alphabet.
B64URL(i) ==
  IF i < 26 THEN 65 + i
  ELSE IF i < 52 THEN 97 + (i - 26)
  ELSE IF i < 62 THEN 48 + (i - 52)
  ELSE IF i = 62 THEN 45 ELSE 95

\* The sextets of a 24-bit number, from the top.
Sextets(n, count) == [k \in 1 .. count |-> B64URL((n \div 64 ^ (4 - k)) % 64)]

\* Mutant: a rest of two bytes is written as a rest of one.
RestShort(rest) ==
  CASE Len(rest) = 0 -> <<>>
    [] OTHER -> Sextets(rest[1] * 65536, 2)

\* chunks.remainder(): no padding character.
Rest(rest) ==
  CASE Len(rest) = 0 -> <<>>
    [] Len(rest) = 1 -> Sextets(rest[1] * 65536, 2)
    [] Len(rest) = 2 -> Sextets(rest[1] * 65536 + rest[2] * 256, 3)

\* b64url_no_pad.
B64UrlNoPad(bytes) ==
  LET whole == Len(bytes) \div 3
      chunk(k) == Sextets(bytes[3 * k - 2] * 65536 + bytes[3 * k - 1] * 256 + bytes[3 * k], 4)
  IN  FlattenSeq([k \in 1 .. whole |-> chunk(k)]) \o Rest(SubSeq(bytes, 3 * whole + 1, Len(bytes)))

-----------------------------------------------------------------------------
(* TypeScript. *)

Thrown == <<>>

\* Mutant: no assertion; DataView wraps.
AssertUnsignedLess(v, len) == TRUE

\* assertU8, assertU32 and assertU64 (len: bytes).
AssertUnsigned(v, len) == v >= 0 /\ v < RadixTo[len]

AssertI64(v) == v >= -(RadixTo[U64_LEN] \div 2) /\ v < RadixTo[U64_LEN] \div 2

Require32(bytes) == Len(bytes) = HASH_LEN

\* preimage.set(bytes, offset).
Place(buffer, bytes, offset) ==
  [i \in DOMAIN buffer |->
     IF i \in offset + 1 .. offset + Len(bytes) THEN bytes[i - offset] ELSE buffer[i]]

\* transcriptHash: a buffer of the full length, filled field by field at the offset
\* that each field's declared width leads to.
TsTranscriptHash(t) ==
  LET start == Len(TRANSCRIPT_DOMAIN)
      size == start + 4 * HASH_LEN + 3 * U64_LEN + U32_LEN
      p0 == Place([i \in 1 .. size |-> 0], TRANSCRIPT_DOMAIN, 0)
      p1 == Place(p0, t.cluster_tag, start)
      p2 == Place(p1, t.program_id, start + HASH_LEN)
      p3 == Place(p2, t.account, start + 2 * HASH_LEN)
      at == start + 3 * HASH_LEN
      p4 == Place(p3, Le(t.generation, U64_LEN), at)
      p5 == Place(p4, Le(t.policy_version, U32_LEN), at + U64_LEN)
      p6 == Place(p5, Le(t.root_nonce, U64_LEN), at + U64_LEN + U32_LEN)
      p7 == Place(p6, Le(t.expiry_ts, U64_LEN), at + 2 * U64_LEN + U32_LEN)
  IN  IF /\ \A b \in {t.cluster_tag, t.program_id, t.account, t.action_hash} : Require32(b)
         /\ AssertUnsigned(t.generation, U64_LEN) /\ AssertUnsigned(t.policy_version, U32_LEN)
         /\ AssertUnsigned(t.root_nonce, U64_LEN) /\ AssertI64(t.expiry_ts)
      THEN Place(p7, t.action_hash, at + 3 * U64_LEN + U32_LEN)
      ELSE Thrown

\* actionHash.
TsActionHash(op_type, borsh_args) ==
  IF AssertUnsigned(op_type, 1)
  THEN Place([i \in 1 .. 1 + Len(borsh_args) |-> IF i = 1 THEN op_type ELSE 0], borsh_args, 1)
  ELSE Thrown

\* challengeB64Url, from its i-th byte (from 1).
ChallengeB64Url(bytes) ==
  LET n == Len(bytes)
      from[i \in 1 .. n + 1] ==
        IF i + 2 <= n
        THEN Sextets(bytes[i] * 65536 + bytes[i + 1] * 256 + bytes[i + 2], 4) \o from[i + 3]
        ELSE IF n - i + 1 = 1 THEN Sextets(bytes[i] * 65536, 2)
        ELSE IF n - i + 1 = 2 THEN Sextets(bytes[i] * 65536 + bytes[i + 1] * 256, 3)
        ELSE <<>>
  IN  from[1]

=============================================================================
