------------------------------ MODULE MCScenarios ------------------------------
(* Warden in scenarios: each lets a few kinds of ceremonies, tokens and accounts *)
(* meet for long enough that something could go wrong between them, and a run    *)
(* goes through several. A scenario only leaves steps out.                      *)
EXTENDS MCWarden

CONSTANT Scenarios

VARIABLE scenario   \* the one that this behaviour plays

\* Accounts, policies and tokens in use, amounts that sessions pay, ceremonies signed,
\* how far ahead, and how many that may wait to be submitted; the last second and the
\* last nonce.
Scenario == [accounts: SUBSET Accounts, policies: SUBSET PolicyChoices, tokens: SUBSET Tokens,
             amounts: SUBSET TransferAmounts, ops: SUBSET RootOps,
             grants: SUBSET GrantRequests, leads: SUBSET ExpiryLeads,
             waiting: 0 .. MaxSigned, until: 0 .. MaxTime, root_ops: 0 .. MaxRootOps]

ASSUME ScenariosAssumption == Scenarios \subseteq Scenario

Signable(t, sc) ==
  /\ t.op \in sc.ops
  /\ t.op = "grant_session" =>
       \E g \in sc.grants : g.session_pubkey = t.body.session_pubkey /\ g.caps = t.body.caps
  /\ t.op = "transfer" /\ ~t.body.native => t.body.mint \in sc.tokens

\* Signatures that may still take effect.
Waiting ==
  {s \in signed : /\ now <= s.transcript.expiry_ts
                  /\ s.transcript.root_nonce = account[s.transcript.account].root_nonce}

\* The step stays within the scenario.
Within(sc) ==
  /\ now' <= sc.until
  /\ Cardinality(Waiting') <= sc.waiting
  /\ \A s \in signed' \ signed :
       Signable(s.transcript, sc) /\ s.transcript.expiry_ts - now \in sc.leads
  /\ \A a \in Accounts :
       /\ account'[a].root_nonce <= sc.root_ops
       /\ account'[a].version > account[a].version =>
            a \in sc.accounts /\ \E args \in sc.policies : account'[a].policy = Expand(args)
       /\ a \notin sc.accounts => balance'[a] = balance[a]
       /\ \A token \in Tokens \ sc.tokens : balance'[a][token] = balance[a][token]
       /\ \A k \in Keys, m \in Mints :
            drawn'[a][k][m] > drawn[a][k][m] => drawn'[a][k][m] - drawn[a][k][m] \in sc.amounts

InitScenario == Init /\ scenario \in Scenarios
NextScenario == Next /\ Within(scenario) /\ UNCHANGED scenario
SpecScenarios == InitScenario /\ [][NextScenario]_<<vars, scenario>>

-----------------------------------------------------------------------------
(* Root operations. *)

\* Signatures made ahead, kept, replayed and submitted in any order.
MCCeremonies ==
  [accounts |-> {A1}, policies |-> MCPolicies, tokens |-> {}, amounts |-> {1},
   ops |-> RootOps \ {"transfer"}, grants |-> MCGrantsMerge, leads |-> {0, 2},
   waiting |-> 2, until |-> 2, root_ops |-> 2]

\* Enough root operations to freeze, unfreeze and spend.
MCFreezing ==
  [accounts |-> {A1}, policies |-> MCPolicies, tokens |-> {}, amounts |-> {1},
   ops |-> {"freeze", "unfreeze", "grant_session", "transfer"}, grants |-> MCGrantsSol,
   leads |-> {1}, waiting |-> 1, until |-> 4, root_ops |-> 3]

\* Two accounts with sessions of the same key pay each other.
MCTwoAccounts ==
  [accounts |-> {A1, A2}, policies |-> MCPolicies, tokens |-> {}, amounts |-> {1},
   ops |-> {"grant_session", "transfer"}, grants |-> MCGrantsSol, leads |-> {1},
   waiting |-> 3, until |-> 1, root_ops |-> 2]

MCRootScenarios == {MCCeremonies, MCFreezing, MCTwoAccounts}

-----------------------------------------------------------------------------
(* Spending. *)

\* Two sessions and the root spend SOL over three UTC days.
MCSpending ==
  [accounts |-> {A1}, policies |-> MCPolicies, tokens |-> {}, amounts |-> {2},
   ops |-> {"grant_session", "transfer"}, grants |-> MCGrantsTwoKeys, leads |-> {1},
   waiting |-> 1, until |-> 4, root_ops |-> 3]

\* They spend SOL and wrapped SOL, which share their caps, over two days.
MCWrapped == [MCSpending EXCEPT !.tokens = {WSOL}, !.until = 2]

\* Grants merged into one session in any order, spent from in between.
MCRegrants ==
  [accounts |-> {A1}, policies |-> MCPoliciesAndBad, tokens |-> {USDC}, amounts |-> {1, 2},
   ops |-> {"grant_session", "revoke_session"}, grants |-> MCGrantsRegrant, leads |-> {1},
   waiting |-> 1, until |-> 1, root_ops |-> 3]

MCSpendScenarios == {MCSpending, MCWrapped, MCRegrants}

=============================================================================
