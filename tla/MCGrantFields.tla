---------------------------- MODULE MCGrantFields ----------------------------
(* Warden, for a client that signs grants by the TypeScript mirror's list of     *)
(* GrantBody's fields.                                                         *)
EXTENDS MCWarden

\* The mirror lists the fields a grant is hashed over, and no session state is
\* among them; then whether a signed grant is good does not depend on what its
\* session has become since (packages/core/src/webauthn/transcript.ts
\* OP_GRANT_SESSION; grant_session.rs GrantBody, prior_authority_hash).
GrantSignsListedFields ==
  \A a \in Accounts, s \in signed :
    (s.transcript.op = "grant_session" /\ Authorizes(s, a, "grant_session", s.transcript.body))
      => LET k == s.transcript.body.session_pubkey
             asFound == [s.transcript.body EXCEPT
                           !.prior_authority_hash = PriorAuthority(session[a][k])]
         IN  Authorizes(s, a, "grant_session", asFound)

=============================================================================
