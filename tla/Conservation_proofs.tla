------------------------- MODULE Conservation_proofs -------------------------
(***************************************************************************)
(* For any accounts, wallets, token programs and sequences of their             *)
(* instructions: wrapped SOL that only the vault can move is still that after a   *)
(* call, or it was counted. Outside calls nobody signs for the vault, so no        *)
(* account loses any; a call that is taken back changes nothing; and of one that    *)
(* is accepted, every account left untouched has what it had less what is counted.  *)
(***************************************************************************)
EXTENDS Conservation, Sums_proofs

-----------------------------------------------------------------------------
(* The types. *)

\* What is not closed is a token account.
LEMMA UsableIsTyped ==
  ASSUME TypeOK, NEW x \in Addresses, Usable(x)
  PROVE  token[x] \in TokenAccount
  BY DEF TypeOK, Usable

\* Closed is no token account, and a token account's parts have their types.
LEMMA AccountsAreOpen ==
  ASSUME NEW t \in TokenAccount
  PROVE  /\ t # Closed /\ t.amount \in Nat /\ t.amount <= Supply
         /\ t.delegate \in Wallets \cup {NoKey} /\ t.close_authority \in Wallets \cup {NoKey}
<1>1. t.program # NoKey /\ t.amount \in Nat /\ t.amount <= Supply
  BY ConservationAssumption DEF TokenAccount
<1> QED
  BY <1>1 DEF Closed, TokenAccount

\* A new account is a token account.
LEMMA FreshTyped ==
  ASSUME NEW p \in TokenPrograms, NEW m \in Mints, NEW key \in Owners, NEW n \in {0, Supply}
  PROVE  Fresh(p, m, key, n) \in TokenAccount
<1>1. (CHOOSE e \in Extensions : TRUE) \in Extensions
  BY ConservationAssumption
<1>2. n \in 0 .. Supply
  BY ConservationAssumption
<1> QED
  BY <1>1, <1>2 DEF Fresh, TokenAccount

\* What left an account is a number.
LEMMA OutflowIsNatural ==
  ASSUME TypeOK, NEW x \in DOMAIN before
  PROVE  Outflow(before[x], token[x]) \in Nat
<1>1. x \in Addresses /\ before[x] \in TokenAccount \cup {Closed}
      /\ token[x] \in TokenAccount \cup {Closed}
  BY DEF TypeOK
<1>2. CASE VaultsOwn(before[x]) /\ token[x] # Closed
  BY <1>1, <1>2, AccountsAreOpen DEF Outflow, VaultsOwn
<1>3. CASE ~ (VaultsOwn(before[x]) /\ token[x] # Closed)
  BY <1>3 DEF Outflow
<1> QED
  BY <1>2, <1>3

\* What each account passed lost of wrapped SOL.
Lost ==
  [x \in DOMAIN before |-> IF VaultsNative(before[x]) THEN Outflow(before[x], token[x]) ELSE 0]

\* So is their sum.
LEMMA SolOutIsNatural ==
  ASSUME TypeOK
  PROVE  /\ IsFiniteSet(DOMAIN before) /\ DOMAIN before \subseteq Addresses
         /\ \A x \in DOMAIN before : Lost[x] \in Nat
         /\ SolOut = SumFunctionOnSet(Lost, DOMAIN before) /\ SolOut \in Nat
<1>1. DOMAIN before \subseteq Addresses /\ IsFiniteSet(DOMAIN before)
  BY ConservationAssumption, FS_Subset DEF TypeOK
<1>2. \A x \in DOMAIN before : Lost[x] \in Nat
  BY OutflowIsNatural DEF Lost
<1>3. SolOut = SumFunctionOnSet(Lost, DOMAIN before)
  BY DEF SolOut, Lost
<1> QED
  BY <1>1, <1>2, <1>3, SumIsNatural

\* Every instruction of the token programs leaves accounts.
LEMMA InstructionTyped ==
  ASSUME TypeOK, TokenInstruction
  PROVE  token' \in [Addresses -> TokenAccount \cup {Closed}]
<1>1. ASSUME NEW x \in Addresses, NEW y \in Addresses, NEW n \in 1 .. Supply, Move(x, y, n)
      PROVE  token' \in [Addresses -> TokenAccount \cup {Closed}]
  <2>1. /\ x # y /\ token[x] \in TokenAccount /\ token[y] \in TokenAccount
        /\ n <= token[x].amount /\ token[y].amount + n <= Supply
        /\ token' = [token EXCEPT ![x].amount = @ - n, ![y].amount = @ + n]
    BY <1>1, UsableIsTyped DEF Move, Thawed, Enough
  <2>2. token[x].amount - n \in 0 .. Supply /\ token[y].amount + n \in 0 .. Supply
    BY <2>1, AccountsAreOpen, ConservationAssumption
  <2>3. /\ [token[x] EXCEPT !.amount = token[x].amount - n] \in TokenAccount
        /\ [token[y] EXCEPT !.amount = token[y].amount + n] \in TokenAccount
    BY <2>1, <2>2 DEF TokenAccount
  <2>4. token' = [token EXCEPT ![x] = [token[x] EXCEPT !.amount = token[x].amount - n],
                               ![y] = [token[y] EXCEPT !.amount = token[y].amount + n]]
    BY <2>1 DEF TypeOK
  <2> QED
    BY <2>3, <2>4 DEF TypeOK
<1>2. ASSUME NEW x \in Addresses, NEW key \in Wallets \cup {NoKey},
             Approve(x, key) \/ SetCloseAuthority(x, key)
      PROVE  token' \in [Addresses -> TokenAccount \cup {Closed}]
  <2>1. token[x] \in TokenAccount
    BY <1>2, UsableIsTyped DEF Approve, SetCloseAuthority, Thawed
  <2> QED
    BY <1>2, <2>1 DEF Approve, SetCloseAuthority, TypeOK, TokenAccount
<1>3. ASSUME NEW x \in Addresses, NEW key \in Owners, SetOwner(x, key)
      PROVE  token' \in [Addresses -> TokenAccount \cup {Closed}]
  <2>1. token[x] \in TokenAccount
    BY <1>3, UsableIsTyped DEF SetOwner, Thawed
  <2> QED
    BY <1>3, <2>1 DEF SetOwner, TypeOK, TokenAccount
<1>4. ASSUME NEW x \in Addresses, Close(x)
      PROVE  token' \in [Addresses -> TokenAccount \cup {Closed}]
  BY <1>4 DEF Close, TypeOK
<1>5. ASSUME NEW x \in Addresses, NEW p \in TokenPrograms, NEW m \in Mints, NEW key \in Owners,
             NEW n \in {0, Supply}, Open(x, p, m, key, n)
      PROVE  token' \in [Addresses -> TokenAccount \cup {Closed}]
  BY <1>5, FreshTyped DEF Open, TypeOK
<1>6. ASSUME NEW x \in Addresses, NEW state \in {"initialized", "frozen"}, SetFrozen(x, state)
      PROVE  token' \in [Addresses -> TokenAccount \cup {Closed}]
  <2>1. token[x] \in TokenAccount
    BY <1>6, UsableIsTyped DEF SetFrozen
  <2> QED
    BY <1>6, <2>1 DEF SetFrozen, TypeOK, TokenAccount
<1>7. ASSUME NEW x \in Addresses, NEW e \in Extensions, Extend(x, e)
      PROVE  token' \in [Addresses -> TokenAccount \cup {Closed}]
  <2>1. token[x] \in TokenAccount
    BY <1>7, UsableIsTyped DEF Extend
  <2> QED
    BY <1>7, <2>1 DEF Extend, TypeOK, TokenAccount
<1> QED
  BY <1>1, <1>2, <1>3, <1>4, <1>5, <1>6, <1>7 DEF TokenInstruction

\* Every step keeps the types.
LEMMA NextTyped == TypeOK /\ [Next]_vars => TypeOK'
<1> SUFFICES ASSUME TypeOK, [Next]_vars PROVE TypeOK'
  OBVIOUS
<1>1. CASE Enter
  <2>1. PICK passed \in SUBSET Addresses : before' = [x \in passed |-> token[x]]
    BY <1>1 DEF Enter
  <2>2. \A x \in DOMAIN before' : x \in Addresses /\ before'[x] \in TokenAccount \cup {Closed}
    BY <2>1 DEF TypeOK
  <2> QED
    BY <1>1, <2>2 DEF Enter, TypeOK
<1>2. CASE TokenInstruction
  <2>1. before' = before /\ counted' = counted
    BY <1>2 DEF TokenInstruction
  <2> QED
    BY <1>2, <2>1, InstructionTyped DEF TypeOK
<1>3. CASE Accept
  <2>1. DOMAIN before' = {} /\ token' = token
    BY <1>3 DEF Accept, NoCall
  <2>2. counted' \in 0 .. MaxCounted
    BY <1>3, SolOutIsNatural DEF Accept, TypeOK
  <2> QED
    BY <2>1, <2>2 DEF TypeOK
<1>4. CASE Reject
  <2>1. DOMAIN before' = {} /\ counted' = counted
    BY <1>4 DEF Reject, NoCall
  <2>2. token' \in [Addresses -> TokenAccount \cup {Closed}]
    BY <1>4 DEF Reject, TypeOK
  <2> QED
    BY <2>1, <2>2 DEF TypeOK
<1>5. CASE UNCHANGED vars
  BY <1>5 DEF vars, TypeOK
<1> QED
  BY <1>1, <1>2, <1>3, <1>4, <1>5 DEF Next

\* Token accounts stay token accounts through any instructions, accepted or taken back.
THEOREM TypeCorrect == Spec => []TypeOK
<1>1. Init => TypeOK
  <2> SUFFICES ASSUME Init PROVE TypeOK
    OBVIOUS
  <2>1. PICK x \in Addresses, p \in TokenPrograms :
          token = [y \in Addresses |->
                     IF y = x THEN Fresh(p, NATIVE_MINT_ID, Vault, Supply) ELSE Closed]
    BY DEF Init
  <2>2. Fresh(p, NATIVE_MINT_ID, Vault, Supply) \in TokenAccount
    BY FreshTyped DEF Mints, Owners
  <2>3. DOMAIN before = {} /\ counted = 0
    BY DEF Init, NoCall
  <2> QED
    BY <2>1, <2>2, <2>3, ConservationAssumption DEF TypeOK
<1> QED
  BY <1>1, NextTyped, PTL DEF Spec

-----------------------------------------------------------------------------
(* Sums over the addresses. *)

\* What each address has that only the vault can move.
Alone(accounts) == [x \in Addresses |-> VaultsAlone(accounts[x])]

Accounts == [Addresses -> TokenAccount \cup {Closed}]

\* What is the vault's alone is a number.
LEMMA AloneIsNatural ==
  ASSUME NEW t \in TokenAccount \cup {Closed}
  PROVE  /\ VaultsAlone(t) \in Nat /\ VaultsAlone(Closed) = 0
         /\ t # Closed => VaultsAlone(t) <= t.amount
  BY AccountsAreOpen DEF VaultsAlone, VaultsNative, VaultsOwn

\* If no address has less, they do not have less together.
LEMMA HeldOfMore ==
  ASSUME NEW a \in Accounts, NEW b \in Accounts,
         \A x \in Addresses : VaultsAlone(a[x]) <= VaultsAlone(b[x])
  PROVE  Held(a) \in Nat /\ Held(b) \in Nat /\ Held(a) <= Held(b)
<1> DEFINE f == Alone(a)
           g == Alone(b)
<1>1. /\ IsFiniteSet(Addresses)
      /\ \A x \in Addresses : f[x] \in Nat /\ g[x] \in Nat /\ f[x] <= g[x]
  BY AloneIsNatural, ConservationAssumption DEF Alone, Accounts
<1>2. Held(a) = SumFunctionOnSet(f, Addresses) /\ Held(b) = SumFunctionOnSet(g, Addresses)
  BY DEF Held, Alone
<1> HIDE DEF f, g
<1> QED
  BY <1>1, <1>2, SumOfSmaller, SumIsNatural

\* If what each address lacks was counted, what they lack together was.
LEMMA HeldAndCounted ==
  ASSUME NEW a \in Accounts, NEW b \in Accounts, NEW D, D \subseteq Addresses,
         NEW lost, \A x \in D : lost[x] \in Nat /\ VaultsAlone(a[x]) <= VaultsAlone(b[x]) + lost[x],
         \A x \in Addresses \ D : VaultsAlone(a[x]) = VaultsAlone(b[x])
  PROVE  /\ Held(a) \in Nat /\ Held(b) \in Nat /\ SumFunctionOnSet(lost, D) \in Nat
         /\ Held(a) <= Held(b) + SumFunctionOnSet(lost, D)
<1> DEFINE f == Alone(a)
           g == Alone(b)
           h == [x \in Addresses |-> IF x \in D THEN lost[x] ELSE 0]
<1>1. /\ IsFiniteSet(Addresses) /\ IsFiniteSet(D)
      /\ \A x \in Addresses : /\ f[x] \in Nat /\ g[x] \in Nat /\ h[x] \in Nat
                              /\ f[x] <= g[x] + h[x]
  BY AloneIsNatural, ConservationAssumption, FS_Subset DEF Alone, Accounts
<1>2. Held(a) = SumFunctionOnSet(f, Addresses) /\ Held(b) = SumFunctionOnSet(g, Addresses)
  BY DEF Held, Alone
<1>3. /\ \A x \in Addresses \ D : h[x] = 0
      /\ \A x \in D : h[x] \in Nat /\ h[x] = lost[x] /\ lost[x] \in Nat
  OBVIOUS
<1> HIDE DEF f, g, h
<1>4. SumFunctionOnSet(h, Addresses) = SumFunctionOnSet(h, D)
  BY <1>1, <1>3, SumOverSupport
<1>5. SumFunctionOnSet(h, D) = SumFunctionOnSet(lost, D)
  BY <1>1, <1>3, SumOfEqual
<1>6. SumFunctionOnSet(f, Addresses)
        <= SumFunctionOnSet(g, Addresses) + SumFunctionOnSet(h, Addresses)
  BY <1>1, SumOfCovered
<1>7. /\ SumFunctionOnSet(f, Addresses) \in Nat /\ SumFunctionOnSet(g, Addresses) \in Nat
      /\ SumFunctionOnSet(lost, D) \in Nat
  BY <1>1, <1>3, SumIsNatural
<1> QED
  BY <1>2, <1>4, <1>5, <1>6, <1>7

-----------------------------------------------------------------------------
(* Between calls nobody signs for the vault. *)

\* No instruction of the token programs takes from an account what is the vault's alone.
LEMMA OthersTakeNothing ==
  ASSUME TypeOK, ~InCall, TokenInstruction
  PROVE  \A z \in Addresses : VaultsAlone(token[z]) <= VaultsAlone(token'[z])
<1> DEFINE Kept(z) == VaultsAlone(token[z]) <= VaultsAlone(token'[z])
<1> SUFFICES ASSUME NEW z \in Addresses PROVE Kept(z)
  OBVIOUS
<1>1. /\ Signers = Wallets /\ Vault \notin Wallets /\ NoKey \notin Wallets
  BY ConservationAssumption DEF Signers, Owners
<1>2. VaultsAlone(token[z]) \in Nat /\ VaultsAlone(token'[z]) \in Nat
  BY AloneIsNatural, InstructionTyped DEF TypeOK
<1>3. ASSUME token'[z] = token[z] PROVE Kept(z)
  BY <1>2, <1>3
<1>4. ASSUME VaultsAlone(token[z]) = 0 PROVE Kept(z)
  BY <1>2, <1>4
<1>5. ASSUME NEW x \in Addresses, NEW y \in Addresses, NEW n \in 1 .. Supply, Move(x, y, n)
      PROVE  Kept(z)
  <2>1. /\ x # y /\ token[y] \in TokenAccount
        /\ token' = [token EXCEPT ![x].amount = @ - n, ![y].amount = @ + n]
        /\ token[x].owner \in Wallets \/ token[x].delegate \in Wallets
    BY <1>1, <1>5, UsableIsTyped DEF Move, Thawed, Signed
  <2>2. CASE z = x
    <3>1. VaultsAlone(token[z]) = 0
      BY <1>1, <2>1, <2>2 DEF VaultsAlone, VaultsNative, VaultsOwn
    <3> QED
      BY <1>4, <3>1
  <2>3. CASE z = y
    <3>1. token'[z] = [token[y] EXCEPT !.amount = token[y].amount + n]
      BY <2>1, <2>3 DEF TypeOK
    <3>2. token[y].amount \in Nat /\ token[y].amount + n \in Nat /\ token[y] # Closed
      BY <2>1, AccountsAreOpen
    <3>3. CASE VaultsAlone(token[z]) = 0
      BY <1>4, <3>3
    <3>4. CASE VaultsAlone(token[z]) # 0
      <4>1. VaultsNative(token[y]) /\ token[y].delegate = NoKey /\ token[y].close_authority = NoKey
            /\ VaultsAlone(token[z]) = token[y].amount
        BY <2>3, <3>4 DEF VaultsAlone
      <4>2. token'[z] \in TokenAccount
        <5>1. token'[z] \in TokenAccount \cup {Closed} /\ token'[z].program = token[y].program
          BY <2>1, <3>1, InstructionTyped DEF TokenAccount
        <5> QED
          BY <2>1, <5>1, ConservationAssumption DEF Closed, TokenAccount
      <4>3. VaultsAlone(token'[z]) = token[y].amount + n
        BY <2>1, <3>1, <4>1, <4>2, AccountsAreOpen
           DEF VaultsAlone, VaultsNative, VaultsOwn, TokenAccount
      <4> QED
        BY <3>2, <4>1, <4>3
    <3> QED
      BY <3>3, <3>4
  <2>4. CASE z # x /\ z # y
    <3>1. token'[z] = token[z]
      BY <2>1, <2>4 DEF TypeOK
    <3> QED
      BY <1>3, <3>1
  <2> QED
    BY <2>2, <2>3, <2>4
<1>6. ASSUME NEW x \in Addresses,
             \/ token[x] = Closed
             \/ token[x].owner \in Wallets
             \/ token[x].close_authority \in Wallets
             \/ token[x].mint # NATIVE_MINT_ID,
             z # x => token'[z] = token[z]
      PROVE  Kept(z)
  <2>1. VaultsAlone(token[x]) = 0
    BY <1>1, <1>6 DEF VaultsAlone, VaultsNative, VaultsOwn
  <2> QED
    BY <1>3, <1>4, <1>6, <2>1
<1>7. ASSUME NEW x \in Addresses, NEW key \in Wallets \cup {NoKey},
             Approve(x, key) \/ SetCloseAuthority(x, key)
      PROVE  Kept(z)
  BY <1>1, <1>6, <1>7 DEF Approve, SetCloseAuthority, Signed, TypeOK
<1>8. ASSUME NEW x \in Addresses, NEW key \in Owners, SetOwner(x, key)
      PROVE  Kept(z)
  BY <1>1, <1>6, <1>8 DEF SetOwner, Signed, TypeOK
<1>9. ASSUME NEW x \in Addresses, Close(x)
      PROVE  Kept(z)
  BY <1>1, <1>6, <1>9 DEF Close, Signed, TypeOK
<1>10. ASSUME NEW x \in Addresses, NEW p \in TokenPrograms, NEW m \in Mints, NEW key \in Owners,
              NEW n \in {0, Supply}, Open(x, p, m, key, n)
       PROVE  Kept(z)
  BY <1>6, <1>10 DEF Open, TypeOK
<1>11. ASSUME NEW x \in Addresses, NEW state \in {"initialized", "frozen"}, SetFrozen(x, state)
       PROVE  Kept(z)
  BY <1>6, <1>11 DEF SetFrozen, TypeOK
<1>12. ASSUME NEW x \in Addresses, NEW e \in Extensions, Extend(x, e)
       PROVE  Kept(z)
  BY <1>1, <1>6, <1>12 DEF Extend, Signed, TypeOK
<1> HIDE DEF Kept
<1> QED
  BY <1>5, <1>7, <1>8, <1>9, <1>10, <1>11, <1>12 DEF TokenInstruction

-----------------------------------------------------------------------------
(* Calls. *)

\* During a call only the accounts that were passed change.
LEMMA OnlyPassedChange ==
  ASSUME TypeOK, InCall, TokenInstruction, NEW z \in Addresses, z \notin DOMAIN before
  PROVE  token'[z] = token[z]
<1>1. Reachable = DOMAIN before
  BY DEF Reachable
<1>2. \A x \in Addresses : Usable(x) \/ x \in Reachable => x # z
  BY <1>1 DEF Usable
<1> QED
  BY <1>2 DEF TokenInstruction, Move, Approve, SetCloseAuthority, SetOwner, Close, Open,
              SetFrozen, Extend, Thawed, TypeOK

\* The accounts as they are if the call is taken back are accounts.
LEMMA CommittedTyped ==
  ASSUME TypeOK
  PROVE  Committed \in Accounts /\ token \in Accounts
  BY DEF TypeOK, Committed, Accounts

\* Of an account left untouched, what was the vault's alone still is, or was counted.
LEMMA UntouchedKeeps ==
  ASSUME NEW b \in TokenAccount \cup {Closed}, NEW a \in TokenAccount \cup {Closed},
         CheckVaultInvariants(b, a),
         NEW lost, lost = IF VaultsNative(b) THEN Outflow(b, a) ELSE 0
  PROVE  VaultsAlone(b) <= VaultsAlone(a) + lost
<1>1. CASE ~ VaultsNative(b)
  BY <1>1, AloneIsNatural DEF VaultsAlone
<1>2. CASE VaultsNative(b)
  <2>1. /\ b # Closed /\ a # Closed /\ b.owner = Vault /\ b.mint = NATIVE_MINT_ID
        /\ [a EXCEPT !.amount = 0] = [b EXCEPT !.amount = 0]
        /\ a.delegate = NoKey /\ a.close_authority = NoKey
    BY <1>2 DEF CheckVaultInvariants, Untouched, VaultsNative, VaultsOwn
  <2>2. a \in TokenAccount /\ b \in TokenAccount
    BY <2>1
  <2>3. a.owner = Vault /\ a.mint = NATIVE_MINT_ID
    <3>1. /\ [a EXCEPT !.amount = 0].owner = a.owner /\ [b EXCEPT !.amount = 0].owner = b.owner
          /\ [a EXCEPT !.amount = 0].mint = a.mint /\ [b EXCEPT !.amount = 0].mint = b.mint
      BY <2>2 DEF TokenAccount
    <3> QED
      BY <2>1, <3>1
  <2>4. VaultsAlone(a) = a.amount
    BY <2>1, <2>3 DEF VaultsAlone, VaultsNative, VaultsOwn
  <2>5. /\ VaultsAlone(b) \in Nat /\ VaultsAlone(b) <= b.amount
        /\ a.amount \in Nat /\ b.amount \in Nat
    BY <2>1, <2>2, AloneIsNatural, AccountsAreOpen
  <2>6. lost = IF b.amount > a.amount THEN b.amount - a.amount ELSE 0
    BY <1>2, <2>1 DEF Outflow, VaultsNative
  <2> QED
    BY <2>4, <2>5, <2>6
<1> QED
  BY <1>1, <1>2

\* A call that is accepted leaves with the vault what it does not count.
LEMMA AcceptCounts ==
  ASSUME TypeOK, Accept
  PROVE  /\ Committed' = token
         /\ Held(Committed) \in Nat /\ Held(token) \in Nat /\ SolOut \in Nat
         /\ Held(Committed) <= Held(token) + SolOut
<1>1. DOMAIN before' = {} /\ token' = token
  BY DEF Accept, NoCall
<1>2. Committed' = token
  BY <1>1 DEF Committed, TypeOK
<1>3. /\ DOMAIN before \subseteq Addresses
      /\ \A x \in DOMAIN before : Lost[x] \in Nat
      /\ SolOut = SumFunctionOnSet(Lost, DOMAIN before)
  BY SolOutIsNatural
<1>4. ASSUME NEW x \in DOMAIN before
      PROVE  VaultsAlone(Committed[x]) <= VaultsAlone(token[x]) + Lost[x]
  <2>1. /\ x \in Addresses /\ before[x] \in TokenAccount \cup {Closed}
        /\ token[x] \in TokenAccount \cup {Closed}
        /\ CheckVaultInvariants(before[x], token[x])
    BY DEF TypeOK, Accept, AllUntouched
  <2>2. Lost[x] = IF VaultsNative(before[x]) THEN Outflow(before[x], token[x]) ELSE 0
    BY DEF Lost
  <2>3. VaultsAlone(before[x]) <= VaultsAlone(token[x]) + Lost[x]
    BY <2>1, <2>2, UntouchedKeeps
  <2>4. Committed[x] = before[x]
    BY <2>1 DEF Committed
  <2> QED
    BY <2>3, <2>4
<1>5. \A x \in Addresses \ DOMAIN before : VaultsAlone(Committed[x]) = VaultsAlone(token[x])
  BY DEF Committed
<1>6. Committed \in Accounts /\ token \in Accounts
  BY CommittedTyped
<1>7. /\ Held(Committed) \in Nat /\ Held(token) \in Nat
      /\ SumFunctionOnSet(Lost, DOMAIN before) \in Nat
      /\ Held(Committed) <= Held(token) + SumFunctionOnSet(Lost, DOMAIN before)
  BY <1>3, <1>4, <1>5, <1>6, HeldAndCounted
<1> QED
  BY <1>2, <1>3, <1>7

\* Whatever the called program does with the vault's signature and others do between
\* calls, wrapped SOL that was the vault's alone still is, or was counted in sol_out
\* (check_vault_invariants).
THEOREM OutflowCounted == Spec => OutflowIsCounted
<1> DEFINE Counted == Held(Committed') + counted' >= Held(Committed) + counted
<1>1. ASSUME TypeOK, TypeOK', [Next]_vars PROVE Counted
  <2>1. counted \in Nat /\ counted' \in Nat
    BY <1>1, ConservationAssumption DEF TypeOK
  <2>2. Committed \in Accounts /\ token \in Accounts /\ Held(Committed) \in Nat
    BY <1>1, CommittedTyped, HeldOfMore, AloneIsNatural DEF Accounts
  <2>3. ASSUME Committed' = Committed, counted' = counted PROVE Counted
    BY <2>1, <2>2, <2>3
  <2>4. CASE Enter
    <3>1. DOMAIN before = {} /\ Committed = token
      BY <1>1, <2>4 DEF Enter, InCall, NoCall, Committed, TypeOK
    <3>2. PICK passed \in SUBSET Addresses : before' = [x \in passed |-> token[x]]
      BY <2>4 DEF Enter
    <3>3. Committed' = token
      BY <1>1, <2>4, <3>2 DEF Enter, Committed, TypeOK
    <3> QED
      BY <2>3, <2>4, <3>1, <3>3 DEF Enter
  <2>5. CASE TokenInstruction /\ InCall
    <3>1. before' = before /\ counted' = counted
      BY <2>5 DEF TokenInstruction
    <3>2. Committed' = Committed
      BY <1>1, <2>5, <3>1, OnlyPassedChange DEF Committed
    <3> QED
      BY <2>3, <3>1, <3>2
  <2>6. CASE TokenInstruction /\ ~InCall
    <3>1. before' = before /\ counted' = counted /\ DOMAIN before = {}
      BY <2>6 DEF TokenInstruction, InCall, NoCall
    <3>2. token' \in Accounts
      BY <1>1, <2>6, InstructionTyped DEF Accounts
    <3>3. Committed = token /\ Committed' = token'
      BY <2>2, <3>1, <3>2 DEF Committed, Accounts
    <3>4. Held(token) \in Nat /\ Held(token') \in Nat /\ Held(token) <= Held(token')
      BY <1>1, <2>2, <2>6, <3>2, OthersTakeNothing, HeldOfMore
    <3> QED
      BY <2>1, <3>1, <3>3, <3>4
  <2>7. CASE Accept
    <3>1. counted' = counted + SolOut
      BY <2>7 DEF Accept
    <3> QED
      BY <1>1, <2>1, <2>7, <3>1, AcceptCounts
  <2>8. CASE Reject
    <3>1. /\ DOMAIN before' = {} /\ counted' = counted
          /\ token' = Committed
      BY <2>8 DEF Reject, NoCall, Committed
    <3>2. Committed' = Committed
      BY <2>2, <3>1 DEF Committed, Accounts
    <3> QED
      BY <2>3, <3>1, <3>2
  <2>9. CASE UNCHANGED vars
    BY <2>3, <2>9 DEF vars, Committed
  <2> QED
    BY <1>1, <2>4, <2>5, <2>6, <2>7, <2>8, <2>9 DEF Next
<1>2. TypeOK /\ TypeOK' /\ [Next]_vars => [Counted]_vars
  BY <1>1
<1> QED
  BY <1>2, TypeCorrect, PTL DEF Spec, OutflowIsCounted

=============================================================================
