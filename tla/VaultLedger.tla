------------------------------ MODULE VaultLedger ------------------------------
(***************************************************************************)
(* What a vault's token balances amount to: for each mint, one number that     *)
(* others add to and the program takes from, charging what it takes. It is     *)
(* what module Warden keeps of SPL tokens.                                     *)
(***************************************************************************)
EXTENDS Naturals

CONSTANTS Mints

VARIABLES
  held,     \* mint -> what the vault has
  charged   \* mint -> what its caps have been charged with

vars == <<held, charged>>

Init ==
  /\ held \in [Mints -> Nat]
  /\ charged = [m \in Mints |-> 0]

Receive(m) ==
  /\ held'[m] >= held[m]
  /\ held' = [held EXCEPT ![m] = held'[m]]
  /\ UNCHANGED charged

Pay(m) ==
  /\ charged'[m] >= charged[m]
  /\ held'[m] + charged'[m] = held[m] + charged[m]
  /\ held' = [held EXCEPT ![m] = held'[m]]
  /\ charged' = [charged EXCEPT ![m] = charged'[m]]

Next == \E m \in Mints : Receive(m) \/ Pay(m)

Spec == Init /\ [][Next]_vars

=============================================================================
