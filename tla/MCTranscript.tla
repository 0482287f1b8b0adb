----------------------------- MODULE MCTranscript -----------------------------
(* The signed documents against each other, and the two encoders against each    *)
(* other, with bytes of two bits.                                              *)
EXTENDS SignedBytes, TLC

VARIABLE changes   \* how often the mirror's input may still change

mirrorVars == <<input, changes>>

-----------------------------------------------------------------------------
(* Documents. *)

K0 == <<0>>
K1 == <<1>>

Base ==
  [cluster_tag |-> K0, program_id |-> K0, account |-> K0, generation |-> 0,
   policy_version |-> 1, root_nonce |-> 0, expiry_ts |-> 1]

Transcripts ==
  {[Base EXCEPT !.cluster_tag = c, !.account = a, !.generation = g, !.policy_version = v,
                !.root_nonce = n, !.expiry_ts = e] :
     c \in {K0, K1}, a \in {K0, K1}, g \in 0 .. 1, v \in 0 .. 1, n \in 0 .. 3, e \in -1 .. 1}

Cap(m, v) == [mint |-> m, per_tx |-> v, per_day |-> v, per_30d |-> v]

MCGrantBodies ==
  {[expiry_ts |-> 1, session_pubkey |-> K0, kind |-> 0, ops_mask |-> ops, caps |-> caps,
    lifetime_cap |-> life, program_allowlist_id |-> 0, label |-> label,
    prior_authority_hash |-> prior] :
     ops \in 0 .. 1, label \in {K0, K1}, prior \in {K0, K1},
     caps \in {<<>>, <<Cap(K0, 0)>>, <<Cap(K1, 3)>>, <<Cap(K0, 0), Cap(K1, 3)>>},
     life \in {<<>>, <<0>>, <<3>>, <<0, 3>>, <<0, 0, 0, 0>>, <<0, 0, 0, 0, 3>>}}

MCRevokeBodies == [session_pubkey: {K0, K1}, refund_to: {K0, K1}]

MCTransferBodies == [native: BOOLEAN, mint: {K0, K1}, destination: {K0, K1}, amount: 0 .. 3]

Ops ==
  {[op |-> op, body |-> <<>>] : op \in {"rotate_nonce", "freeze", "unfreeze"}}
  \cup {[op |-> "grant_session", body |-> b] : b \in MCGrantBodies}
  \cup {[op |-> "revoke_session", body |-> b] : b \in MCRevokeBodies}
  \cup {[op |-> "transfer", body |-> b] : b \in MCTransferBodies}

MCDocuments ==
  {[op |-> o.op, body |-> o.body, t |-> Base] : o \in Ops}
  \cup {[op |-> op, body |-> <<>>, t |-> t] : op \in {"rotate_nonce", "freeze"}, t \in Transcripts}

ASSUME MCDocumentsAssumption == MCDocuments \subseteq Documents

-----------------------------------------------------------------------------
(* Inputs of the mirror: JavaScript's numbers have no width, its arrays any length. *)

Arrays == UNION {[1 .. n -> Cells] : n \in 0 .. HASH_LEN + 1}
Numbers == -(RADIX ^ U32_LEN) - 1 .. RADIX ^ U32_LEN + 1

ArrayFields == {"cluster_tag", "program_id", "account", "action_hash"}
NumberFields == {"generation", "policy_version", "root_nonce", "expiry_ts"}

-----------------------------------------------------------------------------

NoDocument == first = NotChosen /\ second = NotChosen

InitDocument == first \in MCDocuments /\ second = NotChosen

NoInput == input = NotChosen /\ changes = 0

InitMirror == input = [action_hash |-> K1] @@ Base /\ changes = 2

ChangeInput ==
  /\ changes > 0
  /\ changes' = changes - 1
  /\ \/ \E f \in ArrayFields, v \in Arrays : input' = [input EXCEPT ![f] = v]
     \/ \E f \in NumberFields, v \in Numbers : input' = [input EXCEPT ![f] = v]

-----------------------------------------------------------------------------

MCDomain == <<1, 0>>

=============================================================================
