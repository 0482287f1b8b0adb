---------------------------- MODULE RootAuthority ----------------------------
(***************************************************************************)
(* What a passkey signature is worth, with no nonce, transcript or expiry in *)
(* sight. Each time the passkey signs, the signature records how many root    *)
(* operations of its account had taken effect by then; it can take effect     *)
(* only while that number stands. So it takes effect at most once, never      *)
(* after another root operation of the account got in first, and on no        *)
(* account but its own.                                                      *)
(***************************************************************************)
EXTENDS Naturals, Sequences

CONSTANT Accounts

VARIABLES
  signed,    \* the signatures that exist; anyone may hold them
  executed   \* account -> the signatures that took effect on it, in order

vars == <<signed, executed>>

Init ==
  /\ signed = {}
  /\ executed = [a \in Accounts |-> <<>>]

Sign ==
  \E s \in signed' :
    /\ s.transcript.account \in Accounts
    /\ s.seen.root_ops = Len(executed[s.transcript.account])
    /\ signed' = signed \cup {s}
    /\ UNCHANGED executed

Execute(a) ==
  \E s \in signed :
    /\ s.transcript.account = a
    /\ s.seen.root_ops = Len(executed[a])
    /\ executed' = [executed EXCEPT ![a] = Append(@, s)]
    /\ UNCHANGED signed

Next == Sign \/ \E a \in Accounts : Execute(a)

Spec == Init /\ [][Next]_vars

\* What follows for replays: the n-th root operation of an account is a
\* signature made when n - 1 had taken effect, so no signature appears twice.
NoReplay ==
  \A a \in Accounts : \A i, j \in DOMAIN executed[a] :
    executed[a][i] = executed[a][j] => i = j

=============================================================================
