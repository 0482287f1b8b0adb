------------------------------- MODULE MCWarden -------------------------------
(* Values for the constants of Warden that the runs share: one policy over     *)
(* wrapped SOL (which also caps native SOL) and one SPL token, its ceilings and *)
(* thresholds given in another order than its caps.                             *)
EXTENDS Warden

CONSTANTS A1, A2, K1, K2, O1, O2, WSOL, USDC

\* Two seconds of timelock and recovery, sessions of at most four seconds.
MCCap(mint, tx, day, month) == [mint |-> mint, per_tx |-> tx, per_day |-> day, per_30d |-> month]

MCPolicyArgs ==
  [caps |-> <<MCCap(WSOL, 2, 3, 4), MCCap(USDC, 2, 2, 3)>>,
   session_ceiling |-> <<MCCap(USDC, 1, 2, 3), MCCap(WSOL, 2, 2, 4)>>,
   large_threshold |-> <<MCCap(USDC, 2, 0, 0), MCCap(WSOL, 1, 0, 0)>>,
   timelock_secs |-> 2, recovery_delay_secs |-> 2, max_session_life_secs |-> 4,
   session_ops_ceiling |-> {"transfer", "execute"}]

MCPolicies == {MCPolicyArgs}

\* The same, one that lets no session have USDC, and an invalid one: a ceiling
\* above its cap.
MCPoliciesAndBad ==
  {MCPolicyArgs,
   [MCPolicyArgs EXCEPT !.session_ceiling = <<MCCap(WSOL, 2, 2, 4)>>],
   [MCPolicyArgs EXCEPT !.caps[1] = MCCap(WSOL, 1, 3, 4)]}

MCGrant(k, caps, lifetimes, life) ==
  [session_pubkey |-> k, kind |-> 0, life |-> life, ops_mask |-> {"transfer"},
   caps |-> caps, lifetime_cap |-> lifetimes, program_allowlist_id |-> 0]

\* SOL alone; the token alone (merged in beside it); SOL again with less.
MCGrantSol == MCGrant(K1, <<MCCap(WSOL, 2, 0, 0)>>, <<3>>, 4)
MCGrantUsdc == MCGrant(K1, <<MCCap(USDC, 1, 0, 0)>>, <<2>>, 3)
MCGrantSolLess == MCGrant(K1, <<MCCap(WSOL, 1, 0, 0)>>, <<1>>, 1)

MCGrantsMerge == {MCGrantSol, MCGrantUsdc}
MCNoGrants == {}
MCGrantsSol == {MCGrantSol}
MCGrantsRegrant == {MCGrantSol, MCGrantSolLess, MCGrantUsdc}
MCGrantsTwoKeys == {MCGrantSol, [MCGrantSol EXCEPT !.session_pubkey = K2]}
MCGrantsAll == MCGrantsTwoKeys \cup MCGrantsRegrant

\* Funds: enough for the caps to bite before the vault is empty.
MCFunds(sol, usdc, fees) ==
  [h \in Holders |-> [asset \in Assets |->
     IF h \in Outsiders THEN IF asset = Native THEN fees ELSE 0
     ELSE IF asset = Native THEN sol ELSE usdc]]

MCFundsSmall == MCFunds(4, 2, 1)
MCFundsSolOnly == MCFunds(4, 0, 1)

\* One vault funded before its account exists, the other not.
MCFundsTwoAccounts ==
  [h \in Holders |->
     IF h = A2 THEN [asset \in Assets |-> 0] ELSE MCFunds(3, 0, 2)[h]]

=============================================================================
