------------------------------ MODULE MCUnfreeze ------------------------------
(* Freezing as time passes, for an owner who wants the account back. The owner *)
(* freezes, unfreezes and rotates the nonce as he likes up to LastWhim and at   *)
(* most MaxWhims times; whoever holds those signatures submits them when they   *)
(* like. Whenever the account is frozen the owner goes on signing an unfreeze   *)
(* as long as none that he signed is still good.                               *)
EXTENDS MCWarden

CONSTANTS
  LastWhim,  \* last second of other ceremonies; the timelock still fits behind it
  MaxWhims   \* how many of them

Whims == {s \in signed : s.transcript.op # "unfreeze"}

SignWhim(a) ==
  /\ now <= LastWhim
  /\ Cardinality(Whims) < MaxWhims
  /\ \E op \in {"freeze", "rotate_nonce"} : SignPlain(a, op)

GoodUnfreeze(a) ==
  \E s \in signed :
    /\ s.transcript.account = a
    /\ s.transcript.op = "unfreeze"
    /\ s.transcript.root_nonce = account[a].root_nonce
    /\ now <= s.transcript.expiry_ts

SignUnfreeze(a) ==
  /\ account[a].frozen = "Root"
  /\ ~ GoodUnfreeze(a)
  /\ SignPlain(a, "unfreeze")

SubmitUnfreeze(a) == \E s \in signed : Unfreeze(a, s)

NextUnfreeze ==
  \/ Tick
  \/ \E a \in Accounts :
       \/ \E args \in PolicyChoices, p \in Outsiders : CreateAccount(a, args, p)
       \/ SignWhim(a)
       \/ SignUnfreeze(a)
       \/ SubmitUnfreeze(a)
       \/ \E s \in signed : RotateNonce(a, s) \/ Freeze(a, s)

\* The clock runs, and the owner keeps at it.
SpecUnfreeze ==
  /\ Init /\ [][NextUnfreeze]_vars
  /\ WF_vars(Tick)
  /\ \A a \in Accounts : WF_vars(SignUnfreeze(a)) /\ WF_vars(SubmitUnfreeze(a))

\* No freeze is for ever: an owner who keeps signing gets the account back, whatever
\* older ceremonies of his are thrown in meanwhile and however often the account is
\* frozen again on the way (freeze.rs, unfreeze.rs, root_verify/mod.rs).
FreezeEnds ==
  \A a \in Accounts : account[a].frozen = "Root" ~> account[a].frozen = "None"

=============================================================================
