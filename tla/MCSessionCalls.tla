---------------------------- MODULE MCSessionCalls ----------------------------
(* Warden with the number of transfers each session made of each mint.         *)
EXTENDS MCWarden

VARIABLE calls  \* history: account -> key -> mint -> transfers by the session

CallsInit == calls = [a \in Accounts |-> [k \in Keys |-> [m \in Mints |-> 0]]]

NextWithCalls ==
  \/ /\ \/ Tick
        \/ \E a \in Accounts :
             \/ \E args \in PolicyChoices, p \in Outsiders : CreateAccount(a, args, p)
             \/ Owner(a)
             \/ \E s \in signed : RootInstruction(a, s)
     /\ UNCHANGED calls
  \/ \E a \in Accounts, k \in Keys, asset \in Assets, dest \in Holders, n \in TransferAmounts :
       /\ TransferSession(a, a, k, dest, asset, n)
       /\ calls' = [calls EXCEPT ![a][k][CapMint(asset)] = @ + 1]

SpecWithCalls == Init /\ CallsInit /\ [][NextWithCalls]_<<vars, calls>>

\* The design and the handlers give the bound of a session, exactly, as
\* per_tx x (number of calls) <= lifetime_cap (transfer.rs, grant_session.rs).
CallsTimesPerTx ==
  \A a \in Accounts, k \in Keys, i \in CapSlots :
    LET s == session[a][k]
    IN  s.caps[i].mint # NoMint =>
          s.caps[i].per_tx * calls[a][k][s.caps[i].mint] <= s.lifetime_cap[i]

=============================================================================
