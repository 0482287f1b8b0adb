---------------------------- MODULE MCConservation ----------------------------
(* Conservation with two accounts, of which at most one at a time is either frozen *)
(* or extended.                                                                 *)
EXTENDS Conservation, TLC

CONSTANTS X1, X2, PDA, W1, TOKENKEG, WSOL, USDC, None

\* No address is named in the specification.
AddressSymmetry == Permutations(Addresses)

Unusual(t) == t # Closed /\ (t.state = "frozen" \/ t.tlv = 1)

OneAtATime ==
  /\ Cardinality({x \in Addresses : Unusual(token[x])}) <= 1
  /\ \A x \in Addresses : Unusual(token[x]) => token[x].state = "initialized" \/ token[x].tlv = 0

SpecBounded == Init /\ [][Next /\ OneAtATime']_vars

=============================================================================
