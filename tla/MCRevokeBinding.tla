---------------------------- MODULE MCRevokeBinding ----------------------------
(* Warden, for an owner who revokes a session with several wallets to refund.   *)
EXTENDS MCWarden

RevokeBodyFor(k, refund_to) == [session_pubkey |-> k, refund_to |-> refund_to]

\* The table of operations says a root revocation is hashed over the bare session
\* pubkey; then a revocation that is good is good whoever is refunded
\* (root_verify/transcript.rs OP_REVOKE_SESSION; revoke_session.rs handler_root).
RevokeSignsBareSession ==
  \A a \in Accounts, s \in signed, k \in Keys, p, q \in Outsiders :
    s.transcript.op = "revoke_session" =>
      (Authorizes(s, a, "revoke_session", RevokeBodyFor(k, p))
         <=> Authorizes(s, a, "revoke_session", RevokeBodyFor(k, q)))

=============================================================================
