------------------------------ MODULE RootVerify ------------------------------
(***************************************************************************)
(* verify_root_assertion (root_verify/): what the program checks of a passkey's *)
(* assertion, when it cannot check the signature itself. A secp256r1 precompile *)
(* instruction of the same transaction does, before any instruction runs; the   *)
(* program reads that instruction and must be sure that what was verified there *)
(* is the assertion in its own arguments.                                      *)
(*                                                                         *)
(* Instruction data are sequences of cells: a key, a signature, the two parts   *)
(* of a message, or anything else. Transactions are sequences of instructions.  *)
(***************************************************************************)
EXTENDS Integers, Sequences

CONSTANTS
  SECP256R1_ID,          \* the precompile
  MAX_ROOT_EXPIRY_SECS   \* 600

ASSUME RootVerifyAssumption == MAX_ROOT_EXPIRY_SECS \in Nat

SAME_INSTRUCTION == 0    \* 0xFFFF; instructions are numbered from 1 here
FLAGS_REQUIRED == {"UP", "UV"}

OutOfBounds == <<>>

\* slice_at: len cells from offset off.
SliceAt(d, off, len) ==
  IF off + len <= Len(d) THEN SubSeq(d, off + 1, off + len) ELSE OutOfBounds

\* What a passkey signs: authenticatorData, then the hash of clientDataJSON.
AuthData(rp_id_hash, flags) == <<"authenticatorData", rp_id_hash, flags>>
Digest(cdj) == <<"sha256", cdj>>
Message(auth, cdj) == <<auth, Digest(cdj)>>

-----------------------------------------------------------------------------
(* The runtime. *)

\* The instruction an index of an offsets block points at, from the n-th.
Resolve(ix_index, n) == IF ix_index = SAME_INSTRUCTION THEN n ELSE ix_index

\* One entry: over the message it points at there is a signature, by the key it
\* points at, among those that were ever made.
EntryVerified(ixs, n, e, signed) ==
  LET sig_ix == Resolve(e.signature_instruction_index, n)
      pk_ix == Resolve(e.public_key_instruction_index, n)
      msg_ix == Resolve(e.message_instruction_index, n)
      pk == SliceAt(ixs[pk_ix].data, e.public_key_offset, 1)
      msg == SliceAt(ixs[msg_ix].data, e.message_data_offset, e.message_data_size)
  IN  /\ {sig_ix, pk_ix, msg_ix} \subseteq DOMAIN ixs
      /\ pk # OutOfBounds /\ msg # OutOfBounds
      /\ SliceAt(ixs[sig_ix].data, e.signature_offset, 1) # OutOfBounds
      /\ <<pk[1], msg>> \in signed

\* Every entry of every precompile instruction verifies, or nothing runs.
RuntimeVerifies(ixs, signed) ==
  \A n \in DOMAIN ixs : ixs[n].program_id = SECP256R1_ID =>
    \A k \in 1 .. ixs[n].num_signatures :
      k \in DOMAIN ixs[n].offsets /\ EntryVerified(ixs, n, ixs[n].offsets[k], signed)

-----------------------------------------------------------------------------
(* The program. *)

\* Mutant: no other flag may be set.
CheckAuthDataExactly(auth, expected_rp_id_hash) ==
  auth[2] = expected_rp_id_hash /\ auth[3] = FLAGS_REQUIRED

\* check_auth_data. Other flags and trailing extensions do not matter.
CheckAuthData(auth, expected_rp_id_hash) ==
  /\ auth[2] = expected_rp_id_hash
  /\ FLAGS_REQUIRED \subseteq auth[3]

\* Mutant: an entry may point into other instructions.
BindPrecompileAnyIndex(ixs, current, ix_index, key, message) ==
  /\ ix_index < current /\ ix_index \in DOMAIN ixs
  /\ ixs[ix_index].program_id = SECP256R1_ID
  /\ ixs[ix_index].offsets # <<>>
  /\ ixs[ix_index].num_signatures = 1
  /\ LET d == ixs[ix_index].data
         e == ixs[ix_index].offsets[1]
     IN  /\ SliceAt(d, e.public_key_offset, 1) = <<key>>
         /\ e.message_data_size = Len(message)
         /\ SliceAt(d, e.message_data_offset, e.message_data_size) = message
         /\ SliceAt(d, e.signature_offset, 1) # OutOfBounds

\* bind_precompile: instruction ix_index, before the current one, is a precompile
\* with one entry, self-contained, and verified this key over this message.
BindPrecompile(ixs, current, ix_index, key, message) ==
  /\ ix_index < current /\ ix_index \in DOMAIN ixs
  /\ ixs[ix_index].program_id = SECP256R1_ID
  /\ ixs[ix_index].offsets # <<>>
  /\ ixs[ix_index].num_signatures = 1
  /\ LET d == ixs[ix_index].data
         e == ixs[ix_index].offsets[1]
     IN  /\ {e.signature_instruction_index, e.public_key_instruction_index,
             e.message_instruction_index} = {SAME_INSTRUCTION}
         /\ SliceAt(d, e.public_key_offset, 1) = <<key>>
         /\ e.message_data_size = Len(message)
         /\ SliceAt(d, e.message_data_offset, e.message_data_size) = message
         /\ SliceAt(d, e.signature_offset, 1) # OutOfBounds

\* transcript_hash; base64url changes nothing. Left out: what nothing changes (the
\* program id, the generation, the policy version). For operations without arguments
\* the action hash is the operation.
Transcript(cluster_tag, address, root_nonce, op, expiry_ts) ==
  [cluster_tag |-> cluster_tag, account |-> address, root_nonce |-> root_nonce,
   op |-> op, expiry_ts |-> expiry_ts]

\* Mutant: what came of a registration is taken as well.
ClientDataMatchesAnyType(cdj, origin) == ~cdj.cross_origin_true /\ cdj.origin = origin

\* The comparisons on what parse_strict found (module ClientData).
ClientDataMatches(cdj, origin) ==
  /\ cdj.typ = "webauthn.get"
  /\ ~cdj.cross_origin_true
  /\ cdj.origin = origin

\* Mutant: the last second of the window does not count.
FreshStrictly(expiry_ts, now) == now < expiry_ts /\ expiry_ts <= now + MAX_ROOT_EXPIRY_SECS

\* The expiry is part of what is signed.
Fresh(expiry_ts, now) == now <= expiry_ts /\ expiry_ts <= now + MAX_ROOT_EXPIRY_SECS

\* verify_root_assertion, for instruction `current` of the transaction, with args.
VerifyRootAssertion(acct, address, op, ixs, current, args, now) ==
  /\ acct.root.kind = "P256Passkey"
  /\ CheckAuthData(args.authenticator_data, acct.rp_id_hash)
  /\ ClientDataMatches(args.client_data_json, acct.origin)
  /\ Fresh(args.expiry_ts, now)
  /\ args.client_data_json.challenge =
       Transcript(acct.cluster_tag, address, acct.root_nonce, op, args.expiry_ts)
  /\ BindPrecompile(ixs, current, args.precompile_ix_index, acct.root.pubkey,
                    Message(args.authenticator_data, args.client_data_json))

=============================================================================
