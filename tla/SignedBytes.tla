------------------------------ MODULE SignedBytes ------------------------------
(***************************************************************************)
(* Which bytes stand for which ceremony: any two documents that a passkey may  *)
(* sign, next to each other, and any values a client may hand to the TypeScript *)
(* encoder (root_verify/transcript.rs; packages/core transcript.ts).           *)
(***************************************************************************)
EXTENDS Transcript

VARIABLES
  first, second,   \* two documents, the second chosen later
  input            \* what the TypeScript encoder is given

documentVars == <<first, second>>

NotChosen == [op |-> "none"]

-----------------------------------------------------------------------------
(* Documents. *)

Label == [1 .. LABEL_LEN -> Cells]

Amounts == Unsigned(U64_LEN)

\* What a ceremony is bound to, beside the operation and its arguments.
Bindings ==
  [cluster_tag: Key, program_id: Key, account: Key, generation: Amounts,
   policy_version: Unsigned(U32_LEN), root_nonce: Amounts, expiry_ts: Signed(U64_LEN)]

CapFields == [mint: Key, per_tx: Amounts, per_day: Amounts, per_30d: Amounts]

\* A Vec holds as many items as its length can count.
Vec(S) == {items \in Seq(S) : Len(items) \in Unsigned(U32_LEN)}

GrantFields ==
  [expiry_ts: Signed(U64_LEN), session_pubkey: Key, kind: Cells, ops_mask: Unsigned(U16_LEN),
   caps: Vec(CapFields), lifetime_cap: Vec(Amounts), program_allowlist_id: Unsigned(U16_LEN),
   label: Label, prior_authority_hash: Key]

RevokeFields == [session_pubkey: Key, refund_to: Key]

TransferFields == [native: BOOLEAN, mint: Key, destination: Key, amount: Amounts]

Documents ==
  [op: {"rotate_nonce", "freeze", "unfreeze"}, body: {<<>>}, t: Bindings]
    \cup [op: {"grant_session"}, body: GrantFields, t: Bindings]
    \cup [op: {"revoke_session"}, body: RevokeFields, t: Bindings]
    \cup [op: {"transfer"}, body: TransferFields, t: Bindings]

\* keccak::hash, in one cell.
Keccak256(bytes) == << <<"Keccak256", bytes>> >>

\* What is hashed for a document.
Encoded(d) ==
  TranscriptBytes([cluster_tag |-> d.t.cluster_tag, program_id |-> d.t.program_id,
    account |-> d.t.account, generation |-> d.t.generation,
    policy_version |-> d.t.policy_version, root_nonce |-> d.t.root_nonce,
    expiry_ts |-> d.t.expiry_ts,
    action_hash |-> Keccak256(ActionBytes(OpByte(d.op), BodyBytes(d.op, d.body)))])

-----------------------------------------------------------------------------
(* Inputs of the mirror: JavaScript's numbers have no width, its arrays any length. *)

MirrorInputs ==
  [cluster_tag: Seq(Cells), program_id: Seq(Cells), account: Seq(Cells), generation: Int,
   policy_version: Int, root_nonce: Int, expiry_ts: Int, action_hash: Seq(Cells)]

-----------------------------------------------------------------------------

AnySigned == first \in Documents /\ second = NotChosen /\ input \in MirrorInputs

\* Another document, out of `documents`.
ChooseDocument(documents) ==
  /\ second = NotChosen
  /\ second' \in documents
  /\ UNCHANGED first

Choose ==
  \/ ChooseDocument(Documents) /\ UNCHANGED input
  \/ input' \in MirrorInputs /\ UNCHANGED documentVars

SignedBytesSpec == AnySigned /\ [][Choose]_<<documentVars, input>>

-----------------------------------------------------------------------------

\* Two ceremonies that differ in any field of the account's state, in the operation
\* or in any argument are signed over different bytes, Vecs of any length next to
\* each other included (transcript.rs: "the concatenation is unambiguous"; GrantBody).
DocumentsDiffer ==
  (second # NotChosen /\ first # second) => Encoded(first) # Encoded(second)

\* The TypeScript encoder throws for what has no Rust counterpart, never wrapping or
\* shifting a field into the next, and otherwise yields the Rust encoder's bytes
\* (transcript.ts: "byte-for-byte identical").
MirrorAgrees ==
  input # NotChosen =>
    LET op_type == input.policy_version
        args == input.account
    IN  /\ TsTranscriptHash(input) =
             IF input \in TranscriptFields THEN TranscriptBytes(input) ELSE Thrown
        /\ TsActionHash(op_type, args) =
             IF op_type \in Cells THEN ActionBytes(op_type, args) ELSE Thrown

=============================================================================
