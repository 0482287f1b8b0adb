---------------------------- MODULE TokenTransfers ----------------------------
(***************************************************************************)
(* The SPL branch of transfer (instructions/transfer.rs), down to the token    *)
(* accounts: whoever submits the transfer picks any two accounts on the chain   *)
(* for source and destination, the program reads their bytes, and the token    *)
(* program moves the amount. Around it, others move their own tokens, hand     *)
(* accounts over, have them frozen, and create accounts that only look the part. *)
(***************************************************************************)
EXTENDS Integers, FiniteSets, Functions

CONSTANTS
  Addresses,        \* addresses a token account may be at
  Mints,
  Vault,            \* the smart account PDA
  Wallets,          \* everybody else
  SPL_TOKEN_ID,     \* the token program
  OtherPrograms,    \* programs anybody deployed
  TOKEN_ACCOUNT_LEN,
  OtherLengths,     \* lengths of a mint, a multisig
  Amounts,          \* amounts of a transfer
  Supply,           \* what the first account of a mint is given
  MaxCharged        \* bound: what the caps let out of each mint

Owners == Wallets \cup {Vault}
Programs == {SPL_TOKEN_ID} \cup OtherPrograms

\* An account as its bytes read: where a multisig has a key, a token account has
\* its mint or its owner.
TokenAccount ==
  [program: Programs, len: {TOKEN_ACCOUNT_LEN} \cup OtherLengths,
   mint: Mints, owner: Owners, amount: Nat,
   state: {"uninitialized", "initialized", "frozen"}]

ASSUME TokenTransfersAssumption ==
  /\ IsFiniteSet(Addresses)
  /\ Vault \notin Wallets /\ SPL_TOKEN_ID \notin OtherPrograms
  /\ TOKEN_ACCOUNT_LEN \notin OtherLengths
  /\ Amounts \subseteq Nat /\ Supply \in Nat /\ MaxCharged \in Nat

VARIABLES
  token,    \* address -> the account there
  charged   \* mint -> what the vault's caps have been charged with

vars == <<token, charged>>

\* A token account of the token program, as the token program itself sees it.
Genuine(t) ==
  t.program = SPL_TOKEN_ID /\ t.len = TOKEN_ACCOUNT_LEN /\ t.state # "uninitialized"

Init ==
  /\ token \in [Addresses -> [program: Programs, len: {TOKEN_ACCOUNT_LEN} \cup OtherLengths,
                              mint: Mints, owner: Owners, amount: {0, Supply},
                              state: {"uninitialized", "initialized"}]]
  /\ \A x \in Addresses : token[x].amount > 0 <=> Genuine(token[x])
  /\ charged = [m \in Mints |-> 0]

-----------------------------------------------------------------------------
(* The token program. *)

\* Mutant: more is moved than is there.
CanSplTransferOverdrawn(src, dst, authority, amount) ==
  /\ \A x \in {src, dst} : Genuine(token[x]) /\ token[x].state = "initialized"
  /\ token[src].mint = token[dst].mint
  /\ token[src].owner = authority

\* Transfer: two initialized accounts of one mint, the source's owner signing. An
\* account may be its own destination; then nothing moves.
CanSplTransfer(src, dst, authority, amount) ==
  /\ \A x \in {src, dst} : Genuine(token[x]) /\ token[x].state = "initialized"
  /\ token[src].mint = token[dst].mint
  /\ token[src].owner = authority
  /\ amount <= token[src].amount

SplTransfer(src, dst, amount) ==
  token' = IF src = dst THEN token
           ELSE [token EXCEPT ![src].amount = @ - amount, ![dst].amount = @ + amount]

\* Others move their own tokens, wherever they like.
OthersTransfer(src, dst, wallet, amount) ==
  /\ CanSplTransfer(src, dst, wallet, amount)
  /\ SplTransfer(src, dst, amount)
  /\ UNCHANGED charged

\* SetAuthority: an account changes hands with what is in it.
HandOver(x, wallet, to) ==
  /\ Genuine(token[x]) /\ token[x].state = "initialized"
  /\ token[x].owner = wallet
  /\ token' = [token EXCEPT ![x].owner = to]
  /\ UNCHANGED charged

\* FreezeAccount and ThawAccount, by the mint's authority.
SetFrozen(x, state) ==
  /\ Genuine(token[x])
  /\ token' = [token EXCEPT ![x].state = state]
  /\ UNCHANGED charged

-----------------------------------------------------------------------------
(* The warden program. *)

\* parse_token_account: what is not exactly a token account is not read.
IsTokenAccount(t) ==
  t.program = SPL_TOKEN_ID /\ t.len = TOKEN_ACCOUNT_LEN /\ t.state = "initialized"

\* Mutant: an account of the vault is a destination like any other.
PaysAnybody(src, dst) == dst # src

\* The value leaves the wallet (VaultDestination).
PaysSomebodyElse(src, dst) == token[dst].owner # Vault /\ dst # src

\* transfer of an SPL mint, authorized by a session or the root within the caps of
\* the mint, which are charged first. `token_program` is whatever was passed.
Transfer(mint, src, dst, token_program, amount) ==
  /\ charged[mint] + amount <= MaxCharged
  /\ token_program = SPL_TOKEN_ID
  /\ IsTokenAccount(token[src]) /\ token[src].mint = mint /\ token[src].owner = Vault
  /\ IsTokenAccount(token[dst]) /\ token[dst].mint = mint
  /\ PaysSomebodyElse(src, dst)
  /\ CanSplTransfer(src, dst, Vault, amount)
  /\ SplTransfer(src, dst, amount)
  /\ charged' = [charged EXCEPT ![mint] = @ + amount]

Next ==
  \E x, y \in Addresses, w \in Wallets, n \in Amounts :
    \/ OthersTransfer(x, y, w, n)
    \/ \E to \in Owners : HandOver(x, w, to)
    \/ \E state \in {"initialized", "frozen"} : SetFrozen(x, state)
    \/ \E m \in Mints, p \in Programs : Transfer(m, x, y, p, n)

Spec == Init /\ [][Next]_vars

-----------------------------------------------------------------------------

TypeOK ==
  /\ token \in [Addresses -> TokenAccount]
  /\ charged \in [Mints -> 0 .. MaxCharged]

\* What an account holds of a mint for the vault.
VaultHas(t, m) ==
  IF Genuine(t) /\ t.owner = Vault /\ t.mint = m THEN t.amount ELSE 0
Held ==
  [m \in Mints |-> SumFunctionOnSet([x \in Addresses |-> VaultHas(token[x], m)], Addresses)]

\* Whatever accounts are passed, handed over, frozen or faked, the vault loses of a
\* mint exactly what its caps are charged with for that mint, and gains what others
\* give it (transfer.rs, the checks before the CPI; spec 5.1, VaultDestination).
Ledger == INSTANCE VaultLedger WITH held <- Held
ImplementsVaultLedger == Ledger!Spec

=============================================================================
