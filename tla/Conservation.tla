----------------------------- MODULE Conservation -----------------------------
(***************************************************************************)
(* The snapshots around an inner call of spike 3b (spikes/03-txbudget): a      *)
(* wallet that lets a foreign program act with its signature looks at its token *)
(* accounts before and after, and takes the call back if anything about them   *)
(* changed but the balance. The foreign program is any sequence of what the     *)
(* token programs allow on the accounts that were passed.                       *)
(***************************************************************************)
EXTENDS Integers, FiniteSets, Functions

CONSTANTS
  Addresses,       \* addresses a token account may be at
  Vault, Wallets,  \* the vault's authority, and everybody else
  TokenPrograms,   \* SPL Token and Token-2022
  NATIVE_MINT_ID, OtherMints,
  NoKey,           \* COption::None
  Extensions,      \* contents of the bytes after the first 165
  Supply,          \* bound: what an account holds
  MaxCounted       \* bound: the outflow that is counted

Owners == Wallets \cup {Vault}
Mints == OtherMints \cup {NATIVE_MINT_ID}

\* An account of a token program; what a delegate may take is not limited.
TokenAccount ==
  [program: TokenPrograms, mint: Mints, owner: Owners, amount: 0 .. Supply,
   delegate: Wallets \cup {NoKey}, close_authority: Wallets \cup {NoKey},
   state: {"initialized", "frozen"}, tlv: Extensions]

\* Not a token account (any more).
Closed == [program |-> NoKey]

ASSUME ConservationAssumption ==
  /\ IsFiniteSet(Addresses) /\ Extensions # {}
  /\ Vault \notin Wallets /\ NoKey \notin Owners /\ NoKey \notin TokenPrograms
  /\ NATIVE_MINT_ID \notin OtherMints
  /\ Supply \in Nat /\ MaxCounted \in Nat

VARIABLES
  token,     \* address -> the account there
  before,    \* the snapshots of the accounts passed, while the inner call runs; none else
  counted    \* sol_out, over all calls

vars == <<token, before, counted>>

NoCall == [x \in {} |-> Closed]
InCall == before # NoCall

Fresh(program, mint, owner, amount) ==
  [program |-> program, mint |-> mint, owner |-> owner, amount |-> amount,
   delegate |-> NoKey, close_authority |-> NoKey, state |-> "initialized",
   tlv |-> CHOOSE e \in Extensions : TRUE]

Init ==
  /\ \E x \in Addresses, p \in TokenPrograms :
       token = [y \in Addresses |->
                  IF y = x THEN Fresh(p, NATIVE_MINT_ID, Vault, Supply) ELSE Closed]
  /\ before = NoCall
  /\ counted = 0

-----------------------------------------------------------------------------
(* The token programs. The vault's signature and the accounts passed are there    *)
(* for the inner call only; wallets sign at any time.                           *)

Signers == IF InCall THEN Owners ELSE Wallets
Reachable == IF InCall THEN DOMAIN before ELSE Addresses
Usable(x) == x \in Reachable /\ token[x] # Closed
Thawed(x) == Usable(x) /\ token[x].state = "initialized"
Signed(key) == key \in Signers

\* Mutant: more is moved than is there.
EnoughAnyway(x, n) == TRUE

Enough(x, n) == n <= token[x].amount

Move(x, y, n) ==
  /\ x # y /\ Thawed(x) /\ Thawed(y)
  /\ token[x].mint = token[y].mint /\ token[x].program = token[y].program
  /\ Signed(token[x].owner) \/ Signed(token[x].delegate)
  /\ Enough(x, n) /\ token[y].amount + n <= Supply
  /\ token' = [token EXCEPT ![x].amount = @ - n, ![y].amount = @ + n]

Approve(x, key) ==
  /\ Thawed(x) /\ Signed(token[x].owner)
  /\ token' = [token EXCEPT ![x].delegate = key]

SetCloseAuthority(x, key) ==
  /\ Usable(x)
  /\ Signed(token[x].owner) \/ Signed(token[x].close_authority)
  /\ token' = [token EXCEPT ![x].close_authority = key]

\* Changing hands drops the delegate.
SetOwner(x, key) ==
  /\ Thawed(x) /\ Signed(token[x].owner)
  /\ token' = [token EXCEPT ![x].owner = key, ![x].delegate = NoKey]

\* An empty account, or one of native SOL with what is in it.
Close(x) ==
  /\ Usable(x)
  /\ IF token[x].close_authority = NoKey THEN Signed(token[x].owner)
     ELSE Signed(token[x].close_authority)
  /\ token[x].amount = 0 \/ token[x].mint = NATIVE_MINT_ID
  /\ token' = [token EXCEPT ![x] = Closed]

\* Anybody opens an account for anybody; one of native SOL with some in it.
Open(x, program, mint, owner, amount) ==
  /\ x \in Reachable /\ token[x] = Closed
  /\ amount > 0 => mint = NATIVE_MINT_ID
  /\ token' = [token EXCEPT ![x] = Fresh(program, mint, owner, amount)]

\* By the mint's authority.
SetFrozen(x, state) ==
  /\ Usable(x) /\ token[x].mint # NATIVE_MINT_ID
  /\ token' = [token EXCEPT ![x].state = state]

Extend(x, e) ==
  /\ Usable(x) /\ Signed(token[x].owner)
  /\ token' = [token EXCEPT ![x].tlv = e]

TokenInstruction ==
  /\ \E x \in Addresses :
       \/ \E y \in Addresses, n \in 1 .. Supply : Move(x, y, n)
       \/ \E key \in Wallets \cup {NoKey} : Approve(x, key) \/ SetCloseAuthority(x, key)
       \/ \E key \in Owners : SetOwner(x, key)
       \/ Close(x)
       \/ \E p \in TokenPrograms, m \in Mints, key \in Owners, n \in {0, Supply} :
            Open(x, p, m, key, n)
       \/ \E state \in {"initialized", "frozen"} : SetFrozen(x, state)
       \/ \E e \in Extensions : Extend(x, e)
  /\ UNCHANGED <<before, counted>>

-----------------------------------------------------------------------------
(* The program. *)

\* Mutant: an account that is gone afterwards is skipped.
UntouchedOrGone(b, a) ==
  \/ a = Closed
  \/ /\ [a EXCEPT !.amount = 0] = [b EXCEPT !.amount = 0]
     /\ a.state = "initialized" /\ a.delegate = NoKey /\ a.close_authority = NoKey

\* Everything but the balance is as it was, and nobody else has a hand in it.
Untouched(b, a) ==
  /\ a # Closed
  /\ [a EXCEPT !.amount = 0] = [b EXCEPT !.amount = 0]
  /\ a.state = "initialized" /\ a.delegate = NoKey /\ a.close_authority = NoKey

VaultsOwn(b) == b # Closed /\ b.owner = Vault
VaultsNative(b) == VaultsOwn(b) /\ b.mint = NATIVE_MINT_ID

\* check_vault_invariants, of one account.
CheckVaultInvariants(b, a) == VaultsOwn(b) => Untouched(b, a)

\* What left it; gains do not count against it.
Outflow(b, a) ==
  IF VaultsOwn(b) /\ a # Closed /\ b.amount > a.amount THEN b.amount - a.amount ELSE 0

Enter ==
  /\ ~InCall
  /\ \E passed \in SUBSET Addresses \ {{}} : before' = [x \in passed |-> token[x]]
  /\ UNCHANGED <<token, counted>>

AllUntouched == \A x \in DOMAIN before : CheckVaultInvariants(before[x], token[x])

SolOut ==
  SumFunctionOnSet(
    [x \in DOMAIN before |->
       IF VaultsNative(before[x]) THEN Outflow(before[x], token[x]) ELSE 0],
    DOMAIN before)

Accept ==
  /\ InCall /\ AllUntouched
  /\ counted + SolOut <= MaxCounted
  /\ counted' = counted + SolOut
  /\ before' = NoCall
  /\ UNCHANGED token

\* The transaction fails, because something was touched or because its caller asked
\* for that (data[0] = 1), and the runtime takes it back.
Reject ==
  /\ InCall
  /\ token' = [x \in Addresses |-> IF x \in DOMAIN before THEN before[x] ELSE token[x]]
  /\ before' = NoCall
  /\ UNCHANGED counted

Next == Enter \/ TokenInstruction \/ Accept \/ Reject

Spec == Init /\ [][Next]_vars

-----------------------------------------------------------------------------

TypeOK ==
  /\ token \in [Addresses -> TokenAccount \cup {Closed}]
  /\ \A x \in DOMAIN before : x \in Addresses /\ before[x] \in TokenAccount \cup {Closed}
  /\ counted \in 0 .. MaxCounted

\* The native SOL in an account that only the vault can move.
VaultsAlone(t) ==
  IF /\ VaultsNative(t)
     /\ t.delegate = NoKey /\ t.close_authority = NoKey
  THEN t.amount ELSE 0
Held(accounts) == SumFunctionOnSet([x \in Addresses |-> VaultsAlone(accounts[x])], Addresses)

\* The accounts as they are if the call that runs is taken back.
Committed == [x \in Addresses |-> IF x \in DOMAIN before THEN before[x] ELSE token[x]]

\* Whatever the called program does with the vault's signature, and whatever others
\* do between calls: wrapped SOL that was the vault's alone is still that, or it was
\* counted in sol_out. No delegate, close authority, new owner or closed account is
\* left behind to take it later (check_vault_invariants).
OutflowIsCounted ==
  [][Held(Committed') + counted' >= Held(Committed) + counted]_vars

=============================================================================
