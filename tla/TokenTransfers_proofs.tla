------------------------ MODULE TokenTransfers_proofs ------------------------
(***************************************************************************)
(* For any token accounts, owners, mints and amounts: whatever accounts are     *)
(* passed to a transfer, and whatever others do with theirs, the vault's balance  *)
(* of a mint is the one number of VaultLedger. A step changes what two addresses  *)
(* hold at most, so its effect on a sum over all addresses is that on two terms.  *)
(***************************************************************************)
EXTENDS TokenTransfers, Sums_proofs

\* A balance of a token account is a number, and so is what it holds for the vault.
LEMMA BalancesAreNumbers ==
  ASSUME TypeOK, NEW x \in Addresses, NEW m
  PROVE  token[x].amount \in Nat /\ VaultHas(token[x], m) \in Nat
  BY DEF TypeOK, TokenAccount, VaultHas

-----------------------------------------------------------------------------
(* The types. *)

\* Moving what is there leaves token accounts.
LEMMA MovedTyped ==
  ASSUME TypeOK, NEW x \in Addresses, NEW y \in Addresses, NEW n \in Nat,
         n <= token[x].amount, SplTransfer(x, y, n)
  PROVE  token' \in [Addresses -> TokenAccount]
<1>1. CASE x = y
  BY <1>1 DEF SplTransfer, TypeOK
<1>2. CASE x # y
  <2>1. /\ token[x].amount - n \in Nat /\ token[y].amount + n \in Nat
    BY BalancesAreNumbers
  <2>2. /\ [token[x] EXCEPT !.amount = token[x].amount - n] \in TokenAccount
        /\ [token[y] EXCEPT !.amount = token[y].amount + n] \in TokenAccount
    BY <2>1 DEF TypeOK, TokenAccount
  <2>3. token' = [token EXCEPT ![x] = [token[x] EXCEPT !.amount = token[x].amount - n],
                               ![y] = [token[y] EXCEPT !.amount = token[y].amount + n]]
    BY <1>2 DEF SplTransfer, TypeOK
  <2> QED
    BY <2>2, <2>3 DEF TypeOK
<1> QED
  BY <1>1, <1>2

\* Every step keeps the types.
LEMMA NextTyped == TypeOK /\ [Next]_vars => TypeOK'
<1> SUFFICES ASSUME TypeOK, [Next]_vars PROVE TypeOK'
  OBVIOUS
<1>1. ASSUME NEW x \in Addresses, NEW y \in Addresses, NEW w \in Wallets, NEW n \in Amounts,
             OthersTransfer(x, y, w, n)
      PROVE  TypeOK'
  <2>1. n \in Nat /\ n <= token[x].amount /\ SplTransfer(x, y, n) /\ charged' = charged
    BY <1>1, TokenTransfersAssumption DEF OthersTransfer, CanSplTransfer
  <2> QED
    BY <2>1, MovedTyped DEF TypeOK
<1>2. ASSUME NEW x \in Addresses, NEW w \in Wallets, NEW to \in Owners, HandOver(x, w, to)
      PROVE  TypeOK'
  BY <1>2 DEF HandOver, TypeOK, TokenAccount
<1>3. ASSUME NEW x \in Addresses, NEW state \in {"initialized", "frozen"}, SetFrozen(x, state)
      PROVE  TypeOK'
  BY <1>3 DEF SetFrozen, TypeOK, TokenAccount
<1>4. ASSUME NEW x \in Addresses, NEW y \in Addresses, NEW n \in Amounts, NEW m \in Mints,
             NEW p \in Programs, Transfer(m, x, y, p, n)
      PROVE  TypeOK'
  <2>1. /\ n \in Nat /\ n <= token[x].amount /\ SplTransfer(x, y, n)
        /\ charged[m] + n <= MaxCharged /\ charged' = [charged EXCEPT ![m] = @ + n]
    BY <1>4, TokenTransfersAssumption DEF Transfer, CanSplTransfer
  <2>2. charged[m] + n \in 0 .. MaxCharged
    BY <2>1, TokenTransfersAssumption DEF TypeOK
  <2> QED
    BY <2>1, <2>2, MovedTyped DEF TypeOK
<1>5. CASE UNCHANGED vars
  BY <1>5 DEF vars, TypeOK
<1> QED
  BY <1>1, <1>2, <1>3, <1>4, <1>5 DEF Next

\* Balances stay natural numbers and charges within their bound.
THEOREM TypeCorrect == Spec => []TypeOK
<1>1. Init => TypeOK
  BY TokenTransfersAssumption DEF Init, TypeOK, TokenAccount
<1> QED
  BY <1>1, NextTyped, PTL DEF Spec

-----------------------------------------------------------------------------
(* Sums over the addresses. *)

\* What each address holds of a mint for the vault.
Holdings(accounts, m) == [x \in Addresses |-> VaultHas(accounts[x], m)]

\* Only what one address holds changes.
ChangesAt(x, m) ==
  \A y \in Addresses \ {x} : VaultHas(token'[y], m) = VaultHas(token[y], m)

\* Then the sum changes by as much.
LEMMA HeldChanges ==
  ASSUME TypeOK, TypeOK', NEW m \in Mints, NEW x \in Addresses, ChangesAt(x, m)
  PROVE  /\ Held[m] \in Nat /\ Held'[m] \in Nat
         /\ Held'[m] + VaultHas(token[x], m) = Held[m] + VaultHas(token'[x], m)
<1> DEFINE f == Holdings(token, m)
           g == Holdings(token', m)
<1>1. IsFiniteSet(Addresses)
  BY TokenTransfersAssumption
<1>2. \A y \in Addresses : f[y] = VaultHas(token[y], m) /\ g[y] = VaultHas(token'[y], m)
  BY DEF Holdings
<1>3. \A y \in Addresses : VaultHas(token[y], m) \in Nat /\ VaultHas(token'[y], m) \in Nat
  BY DEF TypeOK, TokenAccount, VaultHas
<1>4. Held[m] = SumFunctionOnSet(f, Addresses) /\ Held'[m] = SumFunctionOnSet(g, Addresses)
  BY DEF Held, Holdings
<1> HIDE DEF f, g
<1>5. /\ \A y \in Addresses : f[y] \in Nat /\ g[y] \in Nat
      /\ \A y \in Addresses \ {x} : g[y] = f[y]
  BY <1>2, <1>3 DEF ChangesAt
<1>6. /\ SumFunctionOnSet(g, Addresses) + f[x] = SumFunctionOnSet(f, Addresses) + g[x]
      /\ SumFunctionOnSet(g, Addresses) \in Nat /\ SumFunctionOnSet(f, Addresses) \in Nat
  BY <1>1, <1>5, SumOfChanged
<1> QED
  BY <1>2, <1>4, <1>6

\* If what no address holds changes, neither does the sum.
LEMMA HeldStays ==
  ASSUME NEW m \in Mints, \A y \in Addresses : VaultHas(token'[y], m) = VaultHas(token[y], m)
  PROVE  Held'[m] = Held[m]
<1>1. Holdings(token', m) = Holdings(token, m)
  BY DEF Holdings
<1> QED
  BY <1>1 DEF Held, Holdings

\* Held is one function on the mints.
LEMMA HeldOf ==
  /\ Held = [m \in Mints |-> Held[m]]
  /\ Held' = [m \in Mints |-> Held'[m]]
  BY DEF Held

\* Functions that agree off one mint differ by the value there.
LEMMA HeldExcept ==
  ASSUME NEW m \in Mints, \A k \in Mints \ {m} : Held'[k] = Held[k]
  PROVE  Held' = [Held EXCEPT ![m] = Held'[m]]
  BY HeldOf

-----------------------------------------------------------------------------
(* Steps. *)

\* What an account is given, the vault is given, if the account is the vault's; what
\* others take from their own it does not lose.
LEMMA OthersReceive ==
  ASSUME TypeOK, TypeOK', NEW x \in Addresses, NEW y \in Addresses, NEW w \in Wallets,
         NEW n \in Amounts, OthersTransfer(x, y, w, n)
  PROVE  \E m \in Mints : Ledger!Receive(m)
<1> DEFINE m == token[y].mint
<1>1. /\ n \in Nat /\ token[x].owner # Vault /\ charged' = charged
      /\ token' = IF x = y THEN token
                  ELSE [token EXCEPT ![x].amount = @ - n, ![y].amount = @ + n]
  BY TokenTransfersAssumption DEF OthersTransfer, CanSplTransfer, SplTransfer
<1>2. m \in Mints
  BY DEF TypeOK, TokenAccount
<1>3. \A k \in Mints : ChangesAt(y, k)
  BY <1>1 DEF ChangesAt, VaultHas, TypeOK, TokenAccount, Genuine
<1>4. \A k \in Mints \ {m} : VaultHas(token'[y], k) = VaultHas(token[y], k)
  BY <1>1 DEF VaultHas, TypeOK, TokenAccount, Genuine
<1>5. /\ VaultHas(token[y], m) \in Nat /\ VaultHas(token'[y], m) \in Nat
      /\ VaultHas(token'[y], m) >= VaultHas(token[y], m)
  BY <1>1 DEF VaultHas, TypeOK, TokenAccount, Genuine
<1> HIDE DEF m
<1>6. \A k \in Mints \ {m} : Held'[k] = Held[k]
  BY <1>3, <1>4, HeldStays DEF ChangesAt
<1>7. Held'[m] >= Held[m]
  BY <1>2, <1>3, <1>5, HeldChanges
<1> QED
  BY <1>1, <1>2, <1>6, <1>7, HeldExcept DEF Ledger!Receive

\* An account that is handed over brings what is in it, if it comes to the vault.
LEMMA HandOverReceives ==
  ASSUME TypeOK, TypeOK', NEW x \in Addresses, NEW w \in Wallets, NEW to \in Owners,
         HandOver(x, w, to)
  PROVE  \E m \in Mints : Ledger!Receive(m)
<1> DEFINE m == token[x].mint
<1>1. /\ token[x].owner # Vault /\ charged' = charged
      /\ token' = [token EXCEPT ![x].owner = to]
  BY TokenTransfersAssumption DEF HandOver
<1>2. m \in Mints
  BY DEF TypeOK, TokenAccount
<1>3. \A k \in Mints : ChangesAt(x, k)
  BY <1>1 DEF ChangesAt, TypeOK
<1>4. \A k \in Mints \ {m} : VaultHas(token'[x], k) = VaultHas(token[x], k)
  BY <1>1 DEF VaultHas, TypeOK, TokenAccount, Genuine
<1>5. /\ VaultHas(token[x], m) = 0 /\ VaultHas(token'[x], m) \in Nat
  BY <1>1 DEF VaultHas, TypeOK, TokenAccount
<1> HIDE DEF m
<1>6. \A k \in Mints \ {m} : Held'[k] = Held[k]
  BY <1>3, <1>4, HeldStays DEF ChangesAt
<1>7. Held'[m] >= Held[m]
  BY <1>2, <1>3, <1>5, HeldChanges
<1> QED
  BY <1>1, <1>2, <1>6, <1>7, HeldExcept DEF Ledger!Receive

\* Freezing an account moves nothing.
LEMMA FreezingKeeps ==
  ASSUME TypeOK, NEW x \in Addresses, NEW state \in {"initialized", "frozen"},
         SetFrozen(x, state)
  PROVE  Held' = Held /\ charged' = charged
<1>1. /\ token[x].state # "uninitialized" /\ state # "uninitialized"
      /\ token' = [token EXCEPT ![x].state = state] /\ charged' = charged
  BY DEF SetFrozen, Genuine
<1>2. \A k \in Mints : \A y \in Addresses : VaultHas(token'[y], k) = VaultHas(token[y], k)
  BY <1>1 DEF VaultHas, TypeOK, TokenAccount, Genuine
<1>3. \A k \in Mints : Held'[k] = Held[k]
  BY <1>2, HeldStays
<1> QED
  BY <1>1, <1>3, HeldOf

\* A transfer takes from the vault, of its mint, what it charges: its source is the
\* vault's and its destination somebody else's.
LEMMA TransferPays ==
  ASSUME TypeOK, TypeOK', NEW x \in Addresses, NEW y \in Addresses, NEW n \in Amounts,
         NEW m \in Mints, NEW p \in Programs, Transfer(m, x, y, p, n)
  PROVE  Ledger!Pay(m)
<1>1. /\ n \in Nat /\ x # y /\ n <= token[x].amount
      /\ token[x].owner = Vault /\ token[x].mint = m /\ Genuine(token[x])
      /\ token[y].owner # Vault
      /\ token' = [token EXCEPT ![x].amount = @ - n, ![y].amount = @ + n]
      /\ charged' = [charged EXCEPT ![m] = @ + n]
  BY TokenTransfersAssumption
     DEF Transfer, IsTokenAccount, PaysSomebodyElse, CanSplTransfer, SplTransfer, Genuine
<1>2. \A k \in Mints : ChangesAt(x, k)
  BY <1>1 DEF ChangesAt, VaultHas, TypeOK, TokenAccount, Genuine
<1>3. \A k \in Mints \ {m} : VaultHas(token'[x], k) = VaultHas(token[x], k)
  BY <1>1 DEF VaultHas, TypeOK, TokenAccount, Genuine
<1>4. /\ VaultHas(token[x], m) \in Nat /\ VaultHas(token'[x], m) \in Nat
      /\ VaultHas(token'[x], m) + n = VaultHas(token[x], m)
  BY <1>1 DEF VaultHas, TypeOK, TokenAccount, Genuine
<1>5. \A k \in Mints \ {m} : Held'[k] = Held[k]
  BY <1>2, <1>3, HeldStays DEF ChangesAt
<1>6. Held[m] \in Nat /\ Held'[m] \in Nat /\ Held'[m] + n = Held[m]
  <2>1. /\ Held[m] \in Nat /\ Held'[m] \in Nat
        /\ Held'[m] + VaultHas(token[x], m) = Held[m] + VaultHas(token'[x], m)
    BY <1>2, HeldChanges
  <2>2. \A a, b, c, d \in Nat : a + c = b + d /\ d + n = c => a + n = b
    BY <1>1
  <2> QED
    BY <1>4, <2>1, <2>2
<1>7. charged[m] \in Nat /\ charged'[m] = charged[m] + n
  BY <1>1 DEF TypeOK
<1>8. Held' = [Held EXCEPT ![m] = Held'[m]]
  BY <1>5, HeldExcept
<1>9. charged' = [charged EXCEPT ![m] = charged'[m]]
  BY <1>1, <1>7
<1>10. charged'[m] >= charged[m] /\ Held'[m] + charged'[m] = Held[m] + charged[m]
  BY <1>1, <1>6, <1>7
<1> QED
  BY <1>8, <1>9, <1>10 DEF Ledger!Pay

\* A step of the token accounts is a step of the ledger.
LEMMA LedgerStep == TypeOK /\ TypeOK' /\ [Next]_vars => [Ledger!Next]_(Ledger!vars)
<1> SUFFICES ASSUME TypeOK, TypeOK', [Next]_vars PROVE [Ledger!Next]_(Ledger!vars)
  OBVIOUS
<1>1. CASE \E x, y \in Addresses, w \in Wallets, n \in Amounts : OthersTransfer(x, y, w, n)
  BY <1>1, OthersReceive DEF Ledger!Next
<1>2. CASE \E x \in Addresses, w \in Wallets, to \in Owners : HandOver(x, w, to)
  BY <1>2, HandOverReceives DEF Ledger!Next
<1>3. CASE \E x \in Addresses, state \in {"initialized", "frozen"} : SetFrozen(x, state)
  BY <1>3, FreezingKeeps DEF Ledger!vars
<1>4. CASE \E x, y \in Addresses, n \in Amounts, m \in Mints, p \in Programs :
             Transfer(m, x, y, p, n)
  BY <1>4, TransferPays DEF Ledger!Next
<1>5. CASE UNCHANGED vars
  <2>1. Held' = Held /\ charged' = charged
    BY <1>5 DEF vars, Held
  <2> QED
    BY <2>1 DEF Ledger!vars
<1> QED
  BY <1>1, <1>2, <1>3, <1>4, <1>5 DEF Next

\* What the vault has of each mint, over all token accounts there are, only grows by
\* gifts and only shrinks by what its caps are charged with (transfer.rs, the checks
\* before the CPI).
THEOREM LedgerRefinement == Spec => ImplementsVaultLedger
<1>1. Init /\ TypeOK => Ledger!Init
  <2> SUFFICES ASSUME Init, TypeOK PROVE Ledger!Init
    OBVIOUS
  <2>1. ASSUME NEW m \in Mints PROVE Held[m] \in Nat
    <3>1. \A y \in Addresses : Holdings(token, m)[y] \in Nat
      BY BalancesAreNumbers DEF Holdings
    <3>2. SumFunctionOnSet(Holdings(token, m), Addresses) \in Nat
      BY <3>1, SumIsNatural, TokenTransfersAssumption
    <3> QED
      BY <3>2 DEF Held, Holdings
  <2> QED
    BY <2>1, HeldOf DEF Init, Ledger!Init
<1> QED
  BY <1>1, LedgerStep, TypeCorrect, PTL DEF Spec, ImplementsVaultLedger, Ledger!Spec

=============================================================================
