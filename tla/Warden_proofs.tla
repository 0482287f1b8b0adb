----------------------------- MODULE Warden_proofs -----------------------------
(***************************************************************************)
(* Theorems about the program, for any number of accounts, keys, holders and  *)
(* mints, any limits and any length of behaviour. First, that it implements what  *)
(* RootAuthority says of signatures. Then what it promises its owner: a freeze     *)
(* holds, a root operation does what was signed, a grant lands on what was shown,  *)
(* sessions stay within the policy, and what they spent is never forgotten. Then   *)
(* where value goes: none appears or disappears, the root and all sessions         *)
(* together stay within the account's caps, and what leaves a vault is charged     *)
(* exactly once.                                                            *)
(***************************************************************************)
EXTENDS Warden, Caps_proofs

-----------------------------------------------------------------------------
(* Types of the parts. *)

\* Consuming the nonce leaves an account.
LEMMA ConsumedIsAnAccount ==
  ASSUME TypeOK, NEW a \in Accounts
  PROVE  Consumed(a) \in SmartAccount
<1>1. account[a] \in SmartAccount
  BY DEF TypeOK
<1>2. Consumed(a) = [account[a] EXCEPT !.root_nonce = account[a].root_nonce + 1]
  BY DEF Consumed
<1> QED
  BY <1>1, <1>2 DEF SmartAccount

\* The zero-filled bucket is a bucket.
LEMMA EmptyBucketsIsABucket == EmptyBuckets \in MintBuckets
  BY CapsAssumption DEF EmptyBuckets, MintBuckets, U64

\* The zero-filled account is an account.
LEMMA ZeroAccountIsAnAccount == ZeroAccount \in SmartAccount
<1>1. EmptyCaps \in CapArray
  BY EmptyCapIsACap DEF EmptyCaps, CapArray
<1>2. EmptyPolicy \in PolicyRecord
  BY <1>1 DEF EmptyPolicy, PolicyRecord, OpsMasks
<1> QED
  BY <1>2, EmptyBucketsIsABucket DEF ZeroAccount, SmartAccount

\* The updates the handlers make to an account.
LEMMA FrozenOrNotIsAnAccount ==
  ASSUME NEW acct \in SmartAccount, NEW f \in {"None", "Root"}, NEW t \in Int
  PROVE  [acct EXCEPT !.frozen = f, !.frozen_at = t] \in SmartAccount
  BY DEF SmartAccount

\* What create_account stores is an account.
LEMMA CreatedIsAnAccount ==
  ASSUME NEW p \in PolicyRecord
  PROVE  [ZeroAccount EXCEPT !.version = 1, !.policy = p] \in SmartAccount
<1>1. 1 \in 0 .. 1
  OBVIOUS
<1>2. \A z \in SmartAccount : [z EXCEPT !.version = 1, !.policy = p] \in SmartAccount
  BY <1>1 DEF SmartAccount
<1> QED
  BY <1>2, ZeroAccountIsAnAccount

\* What takes effect is one of the signatures made.
LEMMA EffectKeepsType ==
  ASSUME TypeOK, NEW a \in Accounts, NEW s \in signed, TakesEffect(a, s), signed' = signed
  PROVE  executed' \in [Accounts -> Seq(signed')]
<1>1. Append(executed[a], s) \in Seq(signed)
  BY DEF TypeOK
<1> QED
  BY <1>1 DEF TakesEffect, TypeOK

\* An account whose bucket is charged within its caps is an account.
LEMMA ChargedIsAnAccount ==
  ASSUME TypeOK, NEW a \in Accounts, NEW acct \in SmartAccount,
         acct.policy = account[a].policy, acct.buckets = account[a].buckets,
         NEW mint, NEW amount \in U64, BucketAdmits(a, mint, amount)
  PROVE  ChargedAccount(acct, mint, amount) \in SmartAccount
<1> DEFINE slot == FindCap(acct.policy.caps, mint)
<1>1. slot \in CapSlots /\ now \in Nat
  BY FindCapFinds, WardenAssumption DEF BucketAdmits, TypeOK
<1>2. acct.buckets[slot] \in MintBuckets
  BY <1>1 DEF SmartAccount
<1>3. Debited(acct.buckets[slot], amount, now) \in MintBuckets
  <2>1. DebitAllowed(acct.buckets[slot], acct.policy.caps[slot], amount, now)
    BY DEF BucketAdmits
  <2> HIDE DEF slot
  <2> QED
    BY <1>1, <1>2, <2>1, DebitedIsABucket
<1>4. ChargedAccount(acct, mint, amount) =
        [acct EXCEPT !.buckets =
           [acct.buckets EXCEPT ![slot] = Debited(acct.buckets[slot], amount, now)]]
  BY DEF ChargedAccount, SmartAccount
<1> HIDE DEF slot
<1>5. [acct.buckets EXCEPT ![slot] = Debited(acct.buckets[slot], amount, now)]
        \in [CapSlots -> MintBuckets]
  BY <1>3 DEF SmartAccount
<1> QED
  BY <1>4, <1>5 DEF SmartAccount

\* Value that moves stays a natural number on both sides.
LEMMA MoveKeepsType ==
  ASSUME TypeOK, NEW a \in Accounts, NEW dest \in Holders, NEW asset \in Assets,
         NEW amount \in U64, Move(a, dest, asset, amount)
  PROVE  balance' \in [Holders -> [Assets -> Nat]]
<1>1. /\ a \in Holders /\ balance[a] \in [Assets -> Nat] /\ balance[dest] \in [Assets -> Nat]
      /\ amount \in Nat /\ RENT_FLOOR \in Nat
  BY CapsAssumption, WardenAssumption DEF TypeOK, Holders, U64
<1>2. balance[a][asset] - amount \in Nat /\ balance[dest][asset] + amount \in Nat
  BY <1>1 DEF Move
<1> QED
  BY <1>1, <1>2 DEF Move, TypeOK

-----------------------------------------------------------------------------
(* Type correctness, action by action. *)

\* Before anything runs, every variable has its type.
LEMMA InitType == Init => TypeOK
<1> SUFFICES ASSUME Init PROVE TypeOK
  OBVIOUS
<1>1. balance \in [Holders -> [Assets -> Nat]]
  BY WardenAssumption DEF Init, U64
<1>2. now \in 0 .. MaxTime
  BY WardenAssumption DEF Init
<1>3. account \in [Accounts -> SmartAccount] /\ session \in [Accounts -> [Keys -> SessionKey]]
  BY ZeroAccountIsAnAccount, ZeroSessionIsASession DEF Init
<1>4. drawn \in [Accounts -> [Keys -> [Mints -> Nat]]]
  BY DEF Init, NothingDrawn
<1>5. paid \in [Accounts -> [Mints -> [Days -> Nat]]]
  BY DEF Init, NoPayments
<1>6. lastFreeze \in [Accounts -> {Never} \cup (0 .. MaxTime)]
  BY DEF Init
<1>7. executed \in [Accounts -> Seq(signed)] /\ \A s \in signed : SignatureOK(s)
  BY DEF Init
<1> QED
  BY <1>1, <1>2, <1>3, <1>4, <1>5, <1>6, <1>7 DEF TypeOK

\* The clock stays within its bound.
LEMMA TickType == ASSUME TypeOK, Tick PROVE TypeOK'
<1>1. now' \in 0 .. MaxTime
  BY WardenAssumption DEF Tick, TypeOK
<1> QED
  BY <1>1 DEF Tick, TypeOK

\* A sequence over a set is one over any larger set.
LEMMA SeqOfMore ==
  ASSUME NEW S, NEW T, S \subseteq T, NEW q \in Seq(S)
  PROVE  q \in Seq(T)
  OBVIOUS

\* Signing adds well-formed signatures.
LEMMA SignType ==
  ASSUME TypeOK, NEW a \in Accounts, NEW op \in RootOps, NEW body, NEW shown \in SessionKey,
         op = "grant_session" => body \in GrantBody,
         op = "revoke_session" => body \in RevokeBody,
         Sign(a, op, body, shown)
  PROVE  TypeOK'
<1>1. PICK lead \in ExpiryLeads :
        signed' = signed \cup
          {[transcript |-> Transcript(a, op, body, now + lead),
            seen |-> [root_ops |-> Len(executed[a]), session |-> shown]]}
  BY DEF Sign
<1> DEFINE new == [transcript |-> Transcript(a, op, body, now + lead),
                   seen |-> [root_ops |-> Len(executed[a]), session |-> shown]]
<1>2. SignatureOK(new)
  <2>1. now + lead \in Int
    BY WardenAssumption DEF TypeOK
  <2>2. Len(executed[a]) \in Nat
    BY DEF TypeOK
  <2> QED
    BY <2>1, <2>2 DEF SignatureOK, Transcript
<1> HIDE DEF new
<1>3. \A s \in signed' : SignatureOK(s)
  BY <1>1, <1>2 DEF TypeOK, new
<1>4. executed' \in [Accounts -> Seq(signed')]
  BY <1>1, SeqOfMore DEF TypeOK, Sign
<1> QED
  BY <1>3, <1>4 DEF TypeOK, Sign

\* Whatever the owner signs is a well-formed signature.
LEMMA OwnerType == ASSUME TypeOK, NEW a \in Accounts, Owner(a) PROVE TypeOK'
<1>1. ASSUME NEW op \in PlainOps, SignPlain(a, op) PROVE TypeOK'
  <2>1. op \in RootOps /\ op \notin {"grant_session", "revoke_session"}
    BY WardenAssumption DEF RootOps
  <2> QED
    BY <1>1, <2>1, SignType, ZeroSessionIsASession DEF SignPlain
<1>2. ASSUME NEW g \in GrantRequests, SignGrant(a, g) PROVE TypeOK'
  <2>1. g \in GrantRequest
    BY WardenAssumption
  <2>2. session[a][g.session_pubkey] \in SessionKey
    BY <2>1 DEF GrantRequest, TypeOK
  <2>3. PriorAuthority(session[a][g.session_pubkey])
          \in [caps: CapArray, lifetime_cap: Counters] \cup {ZeroHash}
    BY <2>2 DEF PriorAuthority, Authority, SessionKey
  <2>4. now + g.life \in Int
    BY <2>1 DEF GrantRequest, TypeOK
  <2>5. GrantBodyFor(a, g) \in GrantBody
    BY <2>1, <2>3, <2>4 DEF GrantBodyFor, GrantBody, GrantRequest
  <2>6. "grant_session" \in RootOps
    BY DEF RootOps
  <2> QED
    BY <1>2, <2>2, <2>5, <2>6, SignType DEF SignGrant
<1>3. ASSUME NEW k \in Keys, NEW p \in RevokePayers, SignRevoke(a, k, p) PROVE TypeOK'
  <2>1. [session_pubkey |-> k, refund_to |-> p] \in RevokeBody /\ "revoke_session" \in RootOps
    BY WardenAssumption DEF RevokeBody, RootOps
  <2> QED
    BY <1>3, <2>1, SignType, ZeroSessionIsASession DEF SignRevoke
<1>4. ASSUME NEW asset \in Assets, NEW dest \in Holders, NEW n \in RootTransferAmounts,
             SignTransfer(a, asset, dest, n)
      PROVE  TypeOK'
  <2>1. "transfer" \in RootOps
    BY DEF RootOps
  <2> QED
    BY <1>4, <2>1, SignType, ZeroSessionIsASession DEF SignTransfer
<1> QED
  BY <1>1, <1>2, <1>3, <1>4 DEF Owner

\* create_account takes no more rent than the payer has.
LEMMA CreateAccountType ==
  ASSUME TypeOK, NEW a \in Accounts, NEW args \in PolicyChoices, NEW p \in Outsiders,
         CreateAccount(a, args, p)
  PROVE  TypeOK'
<1>1. account' \in [Accounts -> SmartAccount]
  <2>1. Expand(args) \in PolicyRecord
    BY WardenAssumption, ExpandIsAPolicy
  <2>2. [ZeroAccount EXCEPT !.version = 1, !.policy = Expand(args)] \in SmartAccount
    BY <2>1, CreatedIsAnAccount
  <2> QED
    BY <2>2 DEF CreateAccount, TypeOK
<1>2. balance' \in [Holders -> [Assets -> Nat]]
  <2> DEFINE held == balance[a][Native]
             rent == IF held >= RENT_FLOOR THEN 0 ELSE RENT_FLOOR - held
  <2>1. /\ a \in Holders /\ p \in Holders /\ a # p /\ Native \in Assets
        /\ balance \in [Holders -> [Assets -> Nat]] /\ RENT_FLOOR \in Nat
    <3>1. RENT_FLOOR \in Nat
      BY WardenAssumption, CapsAssumption DEF U64
    <3>2. a # p
      BY WardenAssumption
    <3> QED
      BY <3>1, <3>2 DEF TypeOK, Holders, Assets
  <2>2. rent \in Nat /\ held \in Nat /\ balance[p][Native] >= rent
    BY <2>1 DEF CreateAccount
  <2>3. balance' = [balance EXCEPT ![p][Native] = @ - rent, ![a][Native] = @ + rent]
    BY DEF CreateAccount
  <2> HIDE DEF rent, held
  <2>4. balance[p][Native] - rent \in Nat /\ balance[a][Native] + rent \in Nat
    BY <2>1, <2>2
  <2> QED
    BY <2>1, <2>3, <2>4
<1> QED
  BY <1>1, <1>2 DEF CreateAccount, TypeOK

\* The instructions without a body only touch the account they are for.
LEMMA PlainType ==
  ASSUME TypeOK, NEW a \in Accounts, NEW s \in signed,
         RotateNonce(a, s) \/ Freeze(a, s) \/ Unfreeze(a, s)
  PROVE  TypeOK'
<1>1. Consumed(a) \in SmartAccount /\ now \in Int /\ now \in 0 .. MaxTime
  BY ConsumedIsAnAccount DEF TypeOK
<1>2. account' \in [Accounts -> SmartAccount]
  <2>1. CASE RotateNonce(a, s)
    BY <1>1, <2>1 DEF RotateNonce, TypeOK
  <2>2. CASE Freeze(a, s)
    <3>1. [Consumed(a) EXCEPT !.frozen = "Root", !.frozen_at = now] \in SmartAccount
      BY <1>1, FrozenOrNotIsAnAccount
    <3> QED
      BY <2>2, <3>1 DEF Freeze, TypeOK
  <2>3. CASE Unfreeze(a, s)
    <3>1. [Consumed(a) EXCEPT !.frozen = "None", !.frozen_at = 0] \in SmartAccount
      <4>1. 0 \in Int /\ "None" \in {"None", "Root"}
        OBVIOUS
      <4> QED
        BY <1>1, <4>1, FrozenOrNotIsAnAccount, Zenon
    <3> QED
      BY <2>3, <3>1 DEF Unfreeze, TypeOK
  <2> QED
    BY <2>1, <2>2, <2>3
<1>3. signed' = signed /\ TakesEffect(a, s)
  BY DEF RotateNonce, Freeze, Unfreeze
<1>4. executed' \in [Accounts -> Seq(signed')]
  BY <1>3, EffectKeepsType
<1>5. lastFreeze' \in [Accounts -> {Never} \cup (0 .. MaxTime)]
  BY <1>1 DEF RotateNonce, Freeze, Unfreeze, TypeOK
<1>6. UNCHANGED <<now, session, balance, signed, drawn, paid>>
  BY DEF RotateNonce, Freeze, Unfreeze
<1> QED
  BY <1>2, <1>4, <1>5, <1>6 DEF TypeOK

\* What an account's session of one key is replaced by has to be a session.
LEMMA OneSessionKeepsType ==
  ASSUME TypeOK, NEW a \in Accounts, NEW k \in Keys, NEW new \in SessionKey
  PROVE  [session EXCEPT ![a][k] = new] \in [Accounts -> [Keys -> SessionKey]]
  BY DEF TypeOK

\* A grant writes a session, and its payer can pay for it.
LEMMA GrantSessionType ==
  ASSUME TypeOK, NEW a \in Accounts, NEW s \in signed, NEW p \in Outsiders,
         s.transcript.op = "grant_session", GrantSession(a, s, p)
  PROVE  TypeOK'
<1> DEFINE body == s.transcript.body
           k == body.session_pubkey
           old == session[a][k]
           rent == IF Exists(old) THEN 0 ELSE SESSION_RENT
<1>1. body \in GrantBody
  BY DEF TypeOK, SignatureOK
<1>2. k \in Keys /\ old \in SessionKey
  BY <1>1 DEF GrantBody, TypeOK
<1>3. Granted(old, body, account[a].generation) \in SessionKey
  <2>1. account[a].generation \in Nat
    BY DEF TypeOK, SmartAccount
  <2>2. /\ body.caps \in Seq(MintCap) /\ body.lifetime_cap \in Seq(U64)
        /\ body.expiry_ts \in Int /\ body.ops_mask \in OpsMasks
    BY <1>1 DEF GrantBody
  <2>3. ValidShape(body) /\ CanMergeCaps(old, body)
    BY DEF GrantSession
  <2> HIDE DEF body, old, k
  <2> QED
    BY <1>2, <2>1, <2>2, <2>3, GrantedIsASession
<1>4. session' \in [Accounts -> [Keys -> SessionKey]]
  <2>1. session' = [session EXCEPT ![a][k] = Granted(old, body, account[a].generation)]
    BY DEF GrantSession
  <2> HIDE DEF body, old, k
  <2> QED
    BY <1>2, <1>3, <2>1, OneSessionKeepsType
<1>5. balance' \in [Holders -> [Assets -> Nat]]
  <2>1. /\ balance[p][Native] >= rent
        /\ balance' = [balance EXCEPT ![p][Native] = @ - rent]
    BY DEF GrantSession
  <2>2. rent \in Nat
    BY WardenAssumption, CapsAssumption DEF U64
  <2>3. p \in Holders /\ Native \in Assets /\ balance \in [Holders -> [Assets -> Nat]]
    BY DEF TypeOK, Holders, Assets
  <2> HIDE DEF rent
  <2>4. balance[p][Native] - rent \in Nat
    BY <2>1, <2>2, <2>3
  <2> QED
    BY <2>1, <2>3, <2>4
<1>6. account' \in [Accounts -> SmartAccount]
  BY ConsumedIsAnAccount DEF GrantSession, TypeOK
<1>7. executed' \in [Accounts -> Seq(signed')]
  BY EffectKeepsType DEF GrantSession
<1> QED
  BY <1>4, <1>5, <1>6, <1>7 DEF GrantSession, TypeOK

\* Closing a session zeroes it and refunds its rent.
LEMMA CloseKeepsType ==
  ASSUME TypeOK, NEW a \in Accounts, NEW k \in Keys, NEW p \in Outsiders, Close(a, k, p)
  PROVE  /\ session' \in [Accounts -> [Keys -> SessionKey]]
         /\ drawn' \in [Accounts -> [Keys -> [Mints -> Nat]]]
         /\ balance' \in [Holders -> [Assets -> Nat]]
<1>1. session' \in [Accounts -> [Keys -> SessionKey]]
  BY OneSessionKeepsType, ZeroSessionIsASession DEF Close
<1>2. drawn' \in [Accounts -> [Keys -> [Mints -> Nat]]]
  BY DEF Close, NothingDrawn, TypeOK
<1>3. balance' \in [Holders -> [Assets -> Nat]]
  <2>1. p \in Holders /\ Native \in Assets /\ SESSION_RENT \in Nat
    BY WardenAssumption, CapsAssumption DEF Holders, Assets, U64
  <2>2. balance[p][Native] + SESSION_RENT \in Nat
    BY <2>1 DEF TypeOK
  <2> QED
    BY <2>1, <2>2 DEF Close, Refund, TypeOK
<1> QED
  BY <1>1, <1>2, <1>3

\* Revocation by the root is a closing and a nonce.
LEMMA RevokeSessionRootType ==
  ASSUME TypeOK, NEW a \in Accounts, NEW s \in signed, NEW p \in Outsiders,
         s.transcript.op = "revoke_session", RevokeSessionRoot(a, s, p)
  PROVE  TypeOK'
<1>1. s.transcript.body.session_pubkey \in Keys
  BY DEF TypeOK, SignatureOK, RevokeBody
<1>2. Close(a, s.transcript.body.session_pubkey, p)
  BY DEF RevokeSessionRoot
<1>3. account' \in [Accounts -> SmartAccount]
  BY ConsumedIsAnAccount DEF RevokeSessionRoot, TypeOK
<1>4. executed' \in [Accounts -> Seq(signed')]
  BY EffectKeepsType DEF RevokeSessionRoot
<1>5. UNCHANGED <<now, signed, paid, lastFreeze>>
  BY DEF RevokeSessionRoot
<1> QED
  BY <1>1, <1>2, <1>3, <1>4, <1>5, CloseKeepsType DEF TypeOK

\* Revocation by the session key is a closing.
LEMMA RevokeSessionSelfType ==
  ASSUME TypeOK, NEW a \in Accounts, NEW k \in Keys, NEW p \in Outsiders,
         RevokeSessionSelf(a, k, p)
  PROVE  TypeOK'
<1>1. Close(a, k, p) /\ UNCHANGED <<now, account, signed, executed, paid, lastFreeze>>
  BY DEF RevokeSessionSelf
<1> QED
  BY <1>1, CloseKeepsType DEF TypeOK

\* SOL too is capped under a mint.
LEMMA CapMintIsAMint == \A asset \in Assets : CapMint(asset) \in Mints
  BY WardenAssumption DEF CapMint, Assets

\* The history of payments stays a table of naturals.
LEMMA PaidKeepsType ==
  ASSUME TypeOK, NEW a \in Accounts, NEW mint \in Mints, NEW amount \in U64,
         Paid(a, mint, amount)
  PROVE  paid' \in [Accounts -> [Mints -> [Days -> Nat]]]
<1> DEFINE day == DayNumber(now)
           h == [paid[a][mint] EXCEPT ![day] = @ + amount]
<1>1. amount \in Nat
  BY CapsAssumption DEF U64
<1>2. h \in [Days -> Nat]
  <2>1. paid[a][mint] \in [Days -> Nat]
    BY DEF TypeOK
  <2> HIDE DEF day
  <2> QED
    BY <1>1, <2>1, AddedInOneSlot
<1>3. paid' = [paid EXCEPT ![a] = [paid[a] EXCEPT ![mint] = h]]
  BY DEF Paid, TypeOK
<1> HIDE DEF h
<1>4. [paid[a] EXCEPT ![mint] = h] \in [Mints -> [Days -> Nat]]
  BY <1>2 DEF TypeOK
<1> QED
  BY <1>3, <1>4 DEF TypeOK

\* A root transfer charges a bucket with what it moves.
LEMMA TransferRootType ==
  ASSUME TypeOK, NEW a \in Accounts, NEW s \in signed, NEW dest \in Holders,
         NEW asset \in Assets, NEW amount \in RootTransferAmounts,
         TransferRoot(a, s, dest, asset, amount)
  PROVE  TypeOK'
<1> DEFINE mint == CapMint(asset)
<1>1. amount \in U64
  BY WardenAssumption
<1>2. /\ account' = [account EXCEPT ![a] = ChargedAccount(Consumed(a), mint, amount)]
      /\ BucketAdmits(a, mint, amount)
      /\ Move(a, dest, asset, amount)
      /\ TakesEffect(a, s)
      /\ Paid(a, mint, amount)
      /\ UNCHANGED <<now, session, signed, drawn, lastFreeze>>
  BY DEF TransferRoot
<1> HIDE DEF mint
<1>3. /\ Consumed(a) \in SmartAccount
      /\ Consumed(a).policy = account[a].policy /\ Consumed(a).buckets = account[a].buckets
  BY ConsumedIsAnAccount DEF Consumed, TypeOK, SmartAccount
<1>4. account' \in [Accounts -> SmartAccount]
  BY <1>1, <1>2, <1>3, ChargedIsAnAccount DEF TypeOK
<1>5. balance' \in [Holders -> [Assets -> Nat]]
  BY <1>1, <1>2, MoveKeepsType
<1>6. paid' \in [Accounts -> [Mints -> [Days -> Nat]]]
  BY <1>1, <1>2, PaidKeepsType, CapMintIsAMint DEF mint
<1>7. executed' \in [Accounts -> Seq(signed')]
  BY <1>2, EffectKeepsType
<1> QED
  BY <1>2, <1>4, <1>5, <1>6, <1>7 DEF TypeOK

\* A session transfer charges a session and a bucket with what it moves.
LEMMA TransferSessionType ==
  ASSUME TypeOK, NEW a \in Accounts, NEW owner \in Accounts, NEW k \in Keys,
         NEW dest \in Holders, NEW asset \in Assets, NEW amount \in TransferAmounts,
         TransferSession(a, owner, k, dest, asset, amount)
  PROVE  TypeOK'
<1> DEFINE mint == CapMint(asset)
<1>1. amount \in U64 /\ amount \in Nat
  BY WardenAssumption, CapsAssumption DEF U64
<1>2. /\ account' = [account EXCEPT ![a] = ChargedAccount(account[a], mint, amount)]
      /\ session' = [session EXCEPT ![owner][k] = Charged(session[owner][k], mint, amount)]
      /\ WithinSessionCaps(session[owner][k], mint, amount)
      /\ BucketAdmits(a, mint, amount)
      /\ Move(a, dest, asset, amount)
      /\ drawn' = [drawn EXCEPT ![owner][k][mint] = @ + amount]
      /\ Paid(a, mint, amount)
      /\ UNCHANGED <<now, signed, executed, lastFreeze>>
  BY DEF TransferSession, TypeOK
<1> HIDE DEF mint
<1>3. account[a] \in SmartAccount /\ session[owner][k] \in SessionKey
  BY DEF TypeOK
<1>4. account' \in [Accounts -> SmartAccount]
  BY <1>1, <1>2, <1>3, ChargedIsAnAccount DEF TypeOK
<1>5. session' \in [Accounts -> [Keys -> SessionKey]]
  BY <1>1, <1>2, <1>3, ChargedIsASession, OneSessionKeepsType
<1>6. balance' \in [Holders -> [Assets -> Nat]]
  BY <1>1, <1>2, MoveKeepsType
<1>7. paid' \in [Accounts -> [Mints -> [Days -> Nat]]]
  BY <1>1, <1>2, PaidKeepsType, CapMintIsAMint DEF mint
<1>8. drawn' \in [Accounts -> [Keys -> [Mints -> Nat]]]
  <2>1. \A f \in [Mints -> Nat] : [f EXCEPT ![mint] = @ + amount] \in [Mints -> Nat]
    BY <1>1, AddedInOneSlot
  <2> QED
    BY <1>2, <2>1 DEF TypeOK
<1> QED
  BY <1>2, <1>4, <1>5, <1>6, <1>7, <1>8 DEF TypeOK

\* Every step keeps every variable in its type.
LEMMA NextType == TypeOK /\ [Next]_vars => TypeOK'
<1> SUFFICES ASSUME TypeOK, [Next]_vars PROVE TypeOK'
  OBVIOUS
<1>1. CASE Tick
  BY <1>1, TickType
<1>2. ASSUME NEW a \in Accounts, NEW args \in PolicyChoices, NEW p \in Outsiders,
             CreateAccount(a, args, p)
      PROVE  TypeOK'
  BY <1>2, CreateAccountType
<1>3. ASSUME NEW a \in Accounts, Owner(a) PROVE TypeOK'
  BY <1>3, OwnerType
<1>4. ASSUME NEW a \in Accounts, NEW s \in signed, RootInstruction(a, s) PROVE TypeOK'
  <2>1. CASE RotateNonce(a, s) \/ Freeze(a, s) \/ Unfreeze(a, s)
    BY <2>1, PlainType
  <2>2. ASSUME s.transcript.op = "grant_session", NEW p \in Outsiders, GrantSession(a, s, p)
        PROVE  TypeOK'
    BY <2>2, GrantSessionType
  <2>3. ASSUME s.transcript.op = "revoke_session", NEW p \in Outsiders,
               RevokeSessionRoot(a, s, p)
        PROVE  TypeOK'
    BY <2>3, RevokeSessionRootType
  <2>4. ASSUME NEW asset \in Assets, NEW dest \in Holders, NEW n \in RootTransferAmounts,
               TransferRoot(a, s, dest, asset, n)
        PROVE  TypeOK'
    BY <2>4, TransferRootType
  <2> QED
    BY <1>4, <2>1, <2>2, <2>3, <2>4 DEF RootInstruction
<1>5. ASSUME NEW a \in Accounts, NEW k \in Keys, SessionInstruction(a, k) PROVE TypeOK'
  <2>1. ASSUME NEW p \in Outsiders, RevokeSessionSelf(a, k, p) PROVE TypeOK'
    BY <2>1, RevokeSessionSelfType
  <2>2. ASSUME NEW owner \in Accounts, NEW asset \in Assets, NEW dest \in Holders,
               NEW n \in TransferAmounts, TransferSession(a, owner, k, dest, asset, n)
        PROVE  TypeOK'
    BY <2>2, TransferSessionType
  <2> QED
    BY <1>5, <2>1, <2>2 DEF SessionInstruction
<1>6. CASE UNCHANGED vars
  BY <1>6 DEF vars, TypeOK
<1> QED
  BY <1>1, <1>2, <1>3, <1>4, <1>5, <1>6 DEF Next

\* Every variable keeps its type: counters, caps and day totals are u64s after any
\* sequence of instructions, and no balance goes below zero.
THEOREM TypeCorrect == Spec => []TypeOK
<1> QED
  BY InitType, NextType, PTL DEF Spec

-----------------------------------------------------------------------------
(* What a passkey signature is worth. The nonce of an account counts the root  *)
(* operations that took effect on it, and a signature records the same number  *)
(* twice: in its transcript, and as what its signer saw.                      *)

RootInv ==
  /\ \A a \in Accounts : account[a].root_nonce = Len(executed[a])
  /\ \A a \in Accounts : account[a].version = 0 => account[a].root_nonce = 0
  /\ \A s \in signed : s.seen.root_ops = s.transcript.root_nonce

\* What every root instruction does, whatever else it does.
ConsumesSignature(a, s) ==
  /\ s.transcript.account = a
  /\ s.transcript.root_nonce = account[a].root_nonce
  /\ TakesEffect(a, s)
  /\ signed' = signed
  /\ account' \in [Accounts -> SmartAccount]
  /\ account'[a].root_nonce = account[a].root_nonce + 1
  /\ account'[a].version = 1
  /\ \A b \in Accounts : b # a => account'[b] = account[b]

\* What every other instruction leaves alone.
LeavesRootAlone ==
  /\ UNCHANGED <<signed, executed>>
  /\ \A a \in Accounts :
       /\ account'[a].root_nonce = account[a].root_nonce
       /\ account'[a].version = 0 => account[a].version = 0

\* A verified signature is one for this account, operation, body and nonce.
LEMMA AuthorizedByItsTranscript ==
  ASSUME NEW s, NEW a, NEW op, NEW body, Authorizes(s, a, op, body)
  PROVE  /\ account[a].version = 1
         /\ s.transcript.account = a
         /\ s.transcript.root_nonce = account[a].root_nonce
         /\ s.transcript.op = op
         /\ s.transcript.body = body
<1>1. s.transcript = Transcript(a, op, body, s.transcript.expiry_ts)
  BY DEF Authorizes
<1>2. /\ Transcript(a, op, body, s.transcript.expiry_ts).account = a
      /\ Transcript(a, op, body, s.transcript.expiry_ts).op = op
      /\ Transcript(a, op, body, s.transcript.expiry_ts).body = body
      /\ Transcript(a, op, body, s.transcript.expiry_ts).root_nonce = account[a].root_nonce
  BY DEF Transcript
<1> QED
  BY <1>1, <1>2 DEF Authorizes

\* Consuming the nonce moves it by one.
LEMMA ConsumedCounts ==
  ASSUME TypeOK, NEW a \in Accounts, account[a].version = 1
  PROVE  /\ Consumed(a) \in SmartAccount
         /\ Consumed(a).root_nonce = account[a].root_nonce + 1
         /\ Consumed(a).version = 1
<1>1. account[a] \in SmartAccount
  BY DEF TypeOK
<1> QED
  BY <1>1, ConsumedIsAnAccount DEF Consumed, SmartAccount

\* Freezing and unfreezing an account does not disturb its nonce.
LEMMA FrozenOrNotKeepsNonce ==
  ASSUME NEW acct \in SmartAccount, NEW f \in {"None", "Root"}, NEW t \in Int,
         NEW new, new = [acct EXCEPT !.frozen = f, !.frozen_at = t]
  PROVE  new \in SmartAccount /\ new.root_nonce = acct.root_nonce /\ new.version = acct.version
  BY DEF SmartAccount

\* Replacing one account by one with the next nonce is consuming a signature.
LEMMA OneAccountConsumes ==
  ASSUME TypeOK, NEW a \in Accounts, NEW s \in signed, NEW op, NEW body,
         Authorizes(s, a, op, body), TakesEffect(a, s), signed' = signed,
         NEW acct \in SmartAccount, account' = [account EXCEPT ![a] = acct],
         acct.root_nonce = Consumed(a).root_nonce, acct.version = 1
  PROVE  ConsumesSignature(a, s)
<1>1. account \in [Accounts -> SmartAccount]
  BY DEF TypeOK
<1> QED
  BY <1>1, AuthorizedByItsTranscript, ConsumedCounts DEF ConsumesSignature

\* Charging a bucket does not disturb the nonce.
LEMMA ChargedKeepsNonce ==
  ASSUME NEW acct \in SmartAccount, NEW mint, NEW amount
  PROVE  /\ ChargedAccount(acct, mint, amount).root_nonce = acct.root_nonce
         /\ ChargedAccount(acct, mint, amount).version = acct.version
  BY DEF ChargedAccount, SmartAccount

\* Every root instruction consumes the signature it was submitted with.
LEMMA RootInstructionConsumes ==
  ASSUME TypeOK, NEW a \in Accounts, NEW s \in signed, RootInstruction(a, s)
  PROVE  ConsumesSignature(a, s)
<1>1. CASE RotateNonce(a, s)
  BY <1>1, OneAccountConsumes, ConsumedCounts, AuthorizedByItsTranscript DEF RotateNonce
<1>2. CASE Freeze(a, s)
  <2> DEFINE acct == [Consumed(a) EXCEPT !.frozen = "Root", !.frozen_at = now]
  <2>1. Authorizes(s, a, "freeze", NoBody) /\ TakesEffect(a, s) /\ signed' = signed
        /\ account' = [account EXCEPT ![a] = acct]
    BY <1>2 DEF Freeze
  <2>2. /\ Consumed(a) \in SmartAccount /\ Consumed(a).version = 1
        /\ now \in Int
    BY <2>1, ConsumedCounts, AuthorizedByItsTranscript DEF TypeOK
  <2>3. acct \in SmartAccount /\ acct.root_nonce = Consumed(a).root_nonce
        /\ acct.version = Consumed(a).version
    <3>1. now \in Int /\ "Root" \in {"None", "Root"}
      BY <2>2
    <3> QED
      BY <2>2, <3>1, FrozenOrNotKeepsNonce, Zenon
  <2> HIDE DEF acct
  <2> QED
    BY <2>1, <2>2, <2>3, OneAccountConsumes
<1>3. CASE Unfreeze(a, s)
  <2> DEFINE acct == [Consumed(a) EXCEPT !.frozen = "None", !.frozen_at = 0]
  <2>1. Authorizes(s, a, "unfreeze", NoBody) /\ TakesEffect(a, s) /\ signed' = signed
        /\ account' = [account EXCEPT ![a] = acct]
    BY <1>3 DEF Unfreeze
  <2>2. Consumed(a) \in SmartAccount /\ Consumed(a).version = 1
    BY <2>1, ConsumedCounts, AuthorizedByItsTranscript
  <2>3. acct \in SmartAccount /\ acct.root_nonce = Consumed(a).root_nonce
        /\ acct.version = Consumed(a).version
    <3>1. 0 \in Int /\ "None" \in {"None", "Root"}
      OBVIOUS
    <3> QED
      BY <2>2, <3>1, FrozenOrNotKeepsNonce, Zenon
  <2> HIDE DEF acct
  <2> QED
    BY <2>1, <2>2, <2>3, OneAccountConsumes
<1>4. ASSUME NEW p \in Outsiders, GrantSession(a, s, p) PROVE ConsumesSignature(a, s)
  <2>1. /\ Authorizes(s, a, "grant_session", s.transcript.body)
        /\ TakesEffect(a, s) /\ signed' = signed
        /\ account' = [account EXCEPT ![a] = Consumed(a)]
    BY <1>4 DEF GrantSession
  <2> QED
    BY <2>1, OneAccountConsumes, ConsumedCounts, AuthorizedByItsTranscript
<1>5. ASSUME NEW p \in Outsiders, RevokeSessionRoot(a, s, p) PROVE ConsumesSignature(a, s)
  <2>1. /\ Authorizes(s, a, "revoke_session", s.transcript.body)
        /\ TakesEffect(a, s) /\ signed' = signed
        /\ account' = [account EXCEPT ![a] = Consumed(a)]
    BY <1>5 DEF RevokeSessionRoot
  <2> QED
    BY <2>1, OneAccountConsumes, ConsumedCounts, AuthorizedByItsTranscript
<1>6. ASSUME NEW asset \in Assets, NEW dest \in Holders, NEW n \in RootTransferAmounts,
             TransferRoot(a, s, dest, asset, n)
      PROVE  ConsumesSignature(a, s)
  <2> DEFINE mint == CapMint(asset)
             acct == ChargedAccount(Consumed(a), mint, n)
  <2>1. /\ Authorizes(s, a, "transfer", TransferBody(asset, dest, n))
        /\ TakesEffect(a, s) /\ signed' = signed
        /\ account' = [account EXCEPT ![a] = acct]
        /\ BucketAdmits(a, mint, n)
    BY <1>6 DEF TransferRoot
  <2>2. /\ Consumed(a) \in SmartAccount /\ Consumed(a).version = 1 /\ n \in U64
        /\ Consumed(a).policy = account[a].policy /\ Consumed(a).buckets = account[a].buckets
    <3>1. n \in U64
      BY WardenAssumption
    <3>2. Consumed(a) \in SmartAccount /\ Consumed(a).version = 1
      BY <2>1, ConsumedCounts, AuthorizedByItsTranscript
    <3>3. Consumed(a).policy = account[a].policy /\ Consumed(a).buckets = account[a].buckets
      BY DEF Consumed, TypeOK, SmartAccount
    <3> QED
      BY <3>1, <3>2, <3>3
  <2> HIDE DEF mint
  <2>3. acct \in SmartAccount
    BY <2>1, <2>2, ChargedIsAnAccount
  <2>4. acct.root_nonce = Consumed(a).root_nonce /\ acct.version = 1
    BY <2>2, ChargedKeepsNonce
  <2> HIDE DEF acct
  <2> QED
    BY <2>1, <2>3, <2>4, OneAccountConsumes
<1> QED
  BY <1>1, <1>2, <1>3, <1>4, <1>5, <1>6 DEF RootInstruction

\* No session instruction moves a nonce.
LEMMA SessionInstructionLeavesRoot ==
  ASSUME TypeOK, NEW a \in Accounts, NEW k \in Keys, SessionInstruction(a, k)
  PROVE  LeavesRootAlone
<1>1. ASSUME NEW p \in Outsiders, RevokeSessionSelf(a, k, p) PROVE LeavesRootAlone
  BY <1>1 DEF RevokeSessionSelf, LeavesRootAlone
<1>2. ASSUME NEW owner \in Accounts, NEW asset \in Assets, NEW dest \in Holders,
             NEW n \in TransferAmounts, TransferSession(a, owner, k, dest, asset, n)
      PROVE  LeavesRootAlone
  <2>1. /\ account' = [account EXCEPT ![a] = ChargedAccount(account[a], CapMint(asset), n)]
        /\ UNCHANGED <<signed, executed>>
    BY <1>2 DEF TransferSession
  <2>2. account \in [Accounts -> SmartAccount]
    BY DEF TypeOK
  <2> QED
    BY <2>1, <2>2, ChargedKeepsNonce DEF LeavesRootAlone
<1> QED
  BY <1>1, <1>2 DEF SessionInstruction

\* An account that is created had no root operation before.
LEMMA CreateAccountLeavesRoot ==
  ASSUME TypeOK, RootInv, NEW a \in Accounts, NEW args \in PolicyChoices, NEW p \in Outsiders,
         CreateAccount(a, args, p)
  PROVE  LeavesRootAlone
<1> DEFINE acct == [ZeroAccount EXCEPT !.version = 1, !.policy = Expand(args)]
<1>1. /\ account' = [account EXCEPT ![a] = acct] /\ UNCHANGED <<signed, executed>>
      /\ account[a].version = 0 /\ account[a].root_nonce = 0
  BY DEF CreateAccount, RootInv
<1>2. acct.root_nonce = 0 /\ acct.version = 1
  BY DEF ZeroAccount
<1> HIDE DEF acct
<1> QED
  BY <1>1, <1>2 DEF TypeOK, LeavesRootAlone

\* Signing adds one signature, whose two counts agree; it moves no nonce.
LEMMA SigningCounts ==
  ASSUME RootInv, NEW a \in Accounts, NEW op, NEW body, NEW shown, Sign(a, op, body, shown)
  PROVE  /\ UNCHANGED <<account, executed>>
         /\ \E new : /\ signed' = signed \cup {new}
                    /\ new.transcript.account = a
                    /\ new.seen.root_ops = Len(executed[a])
                    /\ new.transcript.root_nonce = Len(executed[a])
<1>1. PICK lead \in ExpiryLeads :
        signed' = signed \cup
          {[transcript |-> Transcript(a, op, body, now + lead),
            seen |-> [root_ops |-> Len(executed[a]), session |-> shown]]}
  BY DEF Sign
<1> DEFINE new == [transcript |-> Transcript(a, op, body, now + lead),
                   seen |-> [root_ops |-> Len(executed[a]), session |-> shown]]
<1>2. /\ new.transcript.account = a
      /\ new.seen.root_ops = Len(executed[a])
      /\ new.transcript.root_nonce = account[a].root_nonce
  BY DEF Transcript
<1>3. signed' = signed \cup {new} /\ UNCHANGED <<account, executed>>
  BY <1>1 DEF Sign
<1> HIDE DEF new
<1> QED
  BY <1>2, <1>3 DEF RootInv

\* The owner does nothing on chain: every owner step is a signature like that.
SigningStep ==
  /\ UNCHANGED <<account, executed>>
  /\ \E a \in Accounts : \E new :
       /\ signed' = signed \cup {new}
       /\ new.transcript.account = a
       /\ new.seen.root_ops = Len(executed[a])
       /\ new.transcript.root_nonce = Len(executed[a])

\* Every step signs, consumes a signature, or leaves root authority alone.
LEMMA StepKinds ==
  ASSUME TypeOK, RootInv, [Next]_vars
  PROVE  \/ SigningStep
         \/ \E a \in Accounts, s \in signed : ConsumesSignature(a, s)
         \/ LeavesRootAlone
<1>1. CASE Tick
  BY <1>1 DEF Tick, LeavesRootAlone
<1>2. ASSUME NEW a \in Accounts, NEW args \in PolicyChoices, NEW p \in Outsiders,
             CreateAccount(a, args, p)
      PROVE  LeavesRootAlone
  BY <1>2, CreateAccountLeavesRoot
<1>3. ASSUME NEW a \in Accounts, Owner(a) PROVE SigningStep
  <2>1. PICK op, body, shown : Sign(a, op, body, shown)
    BY <1>3 DEF Owner, SignPlain, SignGrant, SignRevoke, SignTransfer
  <2> QED
    BY <2>1, SigningCounts DEF SigningStep
<1>4. ASSUME NEW a \in Accounts, NEW s \in signed, RootInstruction(a, s)
      PROVE  ConsumesSignature(a, s)
  BY <1>4, RootInstructionConsumes
<1>5. ASSUME NEW a \in Accounts, NEW k \in Keys, SessionInstruction(a, k)
      PROVE  LeavesRootAlone
  BY <1>5, SessionInstructionLeavesRoot
<1>6. CASE UNCHANGED vars
  BY <1>6 DEF vars, LeavesRootAlone
<1> QED
  BY <1>1, <1>2, <1>3, <1>4, <1>5, <1>6 DEF Next

\* The nonce counts the root operations that took effect.
LEMMA RootInvHolds == TypeOK /\ RootInv /\ [Next]_vars => RootInv'
<1> SUFFICES ASSUME TypeOK, RootInv, [Next]_vars PROVE RootInv'
  OBVIOUS
<1>1. CASE SigningStep
  BY <1>1 DEF SigningStep, RootInv
<1>2. ASSUME NEW a \in Accounts, NEW s \in signed, ConsumesSignature(a, s) PROVE RootInv'
  <2>1. Len(executed'[a]) = Len(executed[a]) + 1
    BY <1>2 DEF ConsumesSignature, TakesEffect, TypeOK
  <2>2. \A b \in Accounts : b # a => executed'[b] = executed[b]
    BY <1>2 DEF ConsumesSignature, TakesEffect, TypeOK
  <2> QED
    BY <1>2, <2>1, <2>2 DEF ConsumesSignature, RootInv
<1>3. CASE LeavesRootAlone
  BY <1>3 DEF LeavesRootAlone, RootInv
<1> QED
  BY <1>1, <1>2, <1>3, StepKinds

\* No account, no root operations: the counts start equal.
LEMMA InitRootInv == Init => RootInv
<1> SUFFICES ASSUME Init PROVE RootInv
  OBVIOUS
<1>1. ZeroAccount.root_nonce = 0
  BY DEF ZeroAccount
<1> QED
  BY <1>1 DEF Init, RootInv

\* Each step of the program is a step of RootAuthority or none of its business.
LEMMA RootStep == TypeOK /\ RootInv /\ [Next]_vars => [Root!Next]_(Root!vars)
<1> SUFFICES ASSUME TypeOK, RootInv, [Next]_vars PROVE [Root!Next]_(Root!vars)
  OBVIOUS
<1>1. CASE SigningStep
  BY <1>1 DEF SigningStep, Root!Next, Root!Sign
<1>2. ASSUME NEW a \in Accounts, NEW s \in signed, ConsumesSignature(a, s) PROVE Root!Next
  <2>1. s.seen.root_ops = Len(executed[a]) /\ s.transcript.account = a
    BY <1>2 DEF ConsumesSignature, RootInv
  <2>2. executed' = [executed EXCEPT ![a] = Append(@, s)] /\ UNCHANGED signed
    BY <1>2 DEF ConsumesSignature, TakesEffect
  <2> QED
    BY <2>1, <2>2 DEF Root!Next, Root!Execute
<1>3. CASE LeavesRootAlone
  BY <1>3 DEF LeavesRootAlone, Root!vars
<1> QED
  BY <1>1, <1>2, <1>3, StepKinds

\* The program implements RootAuthority: whatever the accounts, sessions, holders,
\* policies and limits, a passkey signature takes effect at most once, on its own
\* account, and only while no other root operation got in since it was made.
THEOREM RootRefinement == Spec => ImplementsRootAuthority
<1>1. Init => Root!Init
  BY DEF Init, Root!Init
<1> QED
  BY <1>1, InitType, NextType, InitRootInv, RootInvHolds, RootStep, PTL
  DEF Spec, ImplementsRootAuthority, Root!Spec

-----------------------------------------------------------------------------
(* What RootAuthority says of replays. *)

\* The n-th signature to take effect saw n - 1 root operations before it.
InOrder ==
  \A a \in Accounts : \A i \in 1 .. Len(executed[a]) :
    executed[a][i].seen.root_ops = i - 1

OrderInv ==
  /\ executed \in [Accounts -> Seq(signed)]
  /\ InOrder

\* In RootAuthority, signatures take effect in the order of what they saw.
LEMMA EffectsInOrder == Root!Spec => []OrderInv
<1>1. Root!Init => OrderInv
  BY DEF Root!Init, OrderInv, InOrder
<1>2. OrderInv /\ [Root!Next]_(Root!vars) => OrderInv'
  <2> SUFFICES ASSUME OrderInv, [Root!Next]_(Root!vars) PROVE OrderInv'
    OBVIOUS
  <2>1. CASE Root!Sign
    <3>1. signed \subseteq signed' /\ executed' = executed
      BY <2>1 DEF Root!Sign
    <3>2. executed \in [Accounts -> Seq(signed')]
      BY <3>1, SeqOfMore DEF OrderInv
    <3> QED
      BY <3>1, <3>2 DEF OrderInv, InOrder
  <2>2. ASSUME NEW a \in Accounts, Root!Execute(a) PROVE OrderInv'
    <3>1. PICK s \in signed :
            /\ s.seen.root_ops = Len(executed[a])
            /\ executed' = [executed EXCEPT ![a] = Append(@, s)]
            /\ signed' = signed
      BY <2>2 DEF Root!Execute
    <3>2. executed[a] \in Seq(signed)
      BY DEF OrderInv
    <3>3. executed' \in [Accounts -> Seq(signed')]
      BY <3>1, <3>2 DEF OrderInv
    <3>4. ASSUME NEW b \in Accounts, NEW i \in 1 .. Len(executed'[b])
          PROVE  executed'[b][i].seen.root_ops = i - 1
      <4>1. CASE b # a
        BY <3>1, <4>1 DEF OrderInv, InOrder
      <4>2. CASE b = a
        <5>1. executed'[a] = Append(executed[a], s)
          BY <3>1 DEF OrderInv
        <5>2. CASE i = Len(executed[a]) + 1
          BY <3>1, <3>2, <4>2, <5>1, <5>2
        <5>3. CASE i # Len(executed[a]) + 1
          <6>1. i \in 1 .. Len(executed[a]) /\ executed'[a][i] = executed[a][i]
            BY <3>2, <4>2, <5>1, <5>3
          <6> QED
            BY <4>2, <6>1 DEF OrderInv, InOrder
        <5> QED
          BY <5>2, <5>3
      <4> QED
        BY <4>1, <4>2
    <3> QED
      BY <3>3, <3>4 DEF OrderInv, InOrder
  <2>3. CASE UNCHANGED Root!vars
    BY <2>3 DEF OrderInv, InOrder, Root!vars
  <2> QED
    BY <2>1, <2>2, <2>3 DEF Root!Next
<1> QED
  BY <1>1, <1>2, PTL DEF Root!Spec

\* In RootAuthority a signature takes effect at most once.
THEOREM NeverReplayed == Root!Spec => []Root!NoReplay
<1>1. OrderInv => Root!NoReplay
  <2> SUFFICES ASSUME OrderInv, NEW a \in Accounts,
                      NEW i \in DOMAIN executed[a], NEW j \in DOMAIN executed[a],
                      executed[a][i] = executed[a][j]
               PROVE  i = j
    BY DEF Root!NoReplay
  <2>1. DOMAIN executed[a] = 1 .. Len(executed[a])
    BY DEF OrderInv
  <2> QED
    BY <2>1 DEF OrderInv, InOrder
<1> QED
  BY <1>1, EffectsInOrder, PTL

\* No passkey signature takes effect twice, on any account, in any behaviour of the
\* program: RootRefinement, and what RootAuthority says of replays.
THEOREM NoSignatureTwice == Spec => []Root!NoReplay
  BY RootRefinement, NeverReplayed DEF ImplementsRootAuthority


-----------------------------------------------------------------------------
(* What a step does to the parts of one account that decide who may spend.      *)

KeepsControl(b) ==
  /\ account'[b].version = account[b].version
  /\ account'[b].frozen = account[b].frozen
  /\ account'[b].frozen_at = account[b].frozen_at
  /\ account'[b].policy = account[b].policy
  /\ lastFreeze'[b] = lastFreeze[b]

Creates(b) ==
  /\ account[b].version = 0
  /\ account'[b].version = 1
  /\ account'[b].frozen = "None"
  /\ \E args \in PolicyArgs :
       Expandable(args) /\ ValidPolicy(Expand(args)) /\ account'[b].policy = Expand(args)
  /\ lastFreeze'[b] = lastFreeze[b]
  /\ session' = session
  /\ now' = now

KeepsUse(b) ==
  /\ account[b].version = 1 /\ account'[b].version = 1
  /\ account'[b].policy = account[b].policy
  /\ session' = session
  /\ now' = now

Freezes(b) ==
  /\ KeepsUse(b)
  /\ account'[b].frozen = "Root"
  /\ account'[b].frozen_at = now
  /\ lastFreeze'[b] = now

Unfreezes(b) ==
  /\ KeepsUse(b)
  /\ now >= account[b].frozen_at + account[b].policy.timelock_secs
  /\ lastFreeze'[b] = lastFreeze[b]

\* Consuming a nonce leaves these parts alone.
LEMMA ConsumedControl ==
  ASSUME TypeOK, NEW a \in Accounts
  PROVE  /\ Consumed(a).version = account[a].version
         /\ Consumed(a).frozen = account[a].frozen
         /\ Consumed(a).frozen_at = account[a].frozen_at
         /\ Consumed(a).policy = account[a].policy
         /\ Consumed(a) \in SmartAccount
<1>1. account[a] \in SmartAccount
  BY DEF TypeOK
<1> QED
  BY <1>1, ConsumedIsAnAccount DEF Consumed, SmartAccount

\* Charging a bucket changes nothing of an account but the bucket.
LEMMA ChargedControl ==
  ASSUME NEW acct \in SmartAccount, NEW mint, NEW amount
  PROVE  /\ ChargedAccount(acct, mint, amount).version = acct.version
         /\ ChargedAccount(acct, mint, amount).frozen = acct.frozen
         /\ ChargedAccount(acct, mint, amount).frozen_at = acct.frozen_at
         /\ ChargedAccount(acct, mint, amount).policy = acct.policy
  BY DEF ChargedAccount, SmartAccount

\* A handler that writes one account and keeps its control keeps everybody's.
LEMMA OneAccountKeepsControl ==
  ASSUME TypeOK, NEW a \in Accounts, NEW new, account' = [account EXCEPT ![a] = new],
         new.version = account[a].version, new.frozen = account[a].frozen,
         new.frozen_at = account[a].frozen_at, new.policy = account[a].policy,
         lastFreeze' = lastFreeze, NEW b \in Accounts
  PROVE  KeepsControl(b)
  BY DEF TypeOK, KeepsControl

\* Root instructions keep the control of every account, freeze or unfreeze one.
LEMMA RootInstructionControl ==
  ASSUME TypeOK, NEW a \in Accounts, NEW s \in signed, RootInstruction(a, s), NEW b \in Accounts
  PROVE  KeepsControl(b) \/ Freezes(b) \/ Unfreezes(b)
<1>1. CASE RotateNonce(a, s)
  BY <1>1, ConsumedControl, OneAccountKeepsControl DEF RotateNonce
<1>2. CASE Freeze(a, s)
  <2> DEFINE new == [Consumed(a) EXCEPT !.frozen = "Root", !.frozen_at = now]
  <2>1. /\ account' = [account EXCEPT ![a] = new] /\ account[a].version = 1
        /\ lastFreeze' = [lastFreeze EXCEPT ![a] = now]
        /\ session' = session /\ now' = now
    BY <1>2 DEF Freeze, Authorizes
  <2>2. /\ new.version = account[a].version /\ new.policy = account[a].policy
        /\ new.frozen = "Root" /\ new.frozen_at = now
    BY ConsumedControl DEF SmartAccount
  <2> HIDE DEF new
  <2>3. CASE b = a
    BY <2>1, <2>2, <2>3 DEF Freezes, KeepsUse, TypeOK
  <2>4. CASE b # a
    BY <2>1, <2>4 DEF KeepsControl, TypeOK
  <2> QED
    BY <2>3, <2>4
<1>3. CASE Unfreeze(a, s)
  <2> DEFINE new == [Consumed(a) EXCEPT !.frozen = "None", !.frozen_at = 0]
  <2>1. /\ account' = [account EXCEPT ![a] = new] /\ account[a].version = 1
        /\ now >= account[a].frozen_at + account[a].policy.timelock_secs
        /\ lastFreeze' = lastFreeze /\ session' = session /\ now' = now
    BY <1>3 DEF Unfreeze, Authorizes
  <2>2. new.version = account[a].version /\ new.policy = account[a].policy
    BY ConsumedControl DEF SmartAccount
  <2> HIDE DEF new
  <2>3. CASE b = a
    BY <2>1, <2>2, <2>3 DEF Unfreezes, KeepsUse, TypeOK
  <2>4. CASE b # a
    BY <2>1, <2>4 DEF KeepsControl, TypeOK
  <2> QED
    BY <2>3, <2>4
<1>4. ASSUME NEW p \in Outsiders, GrantSession(a, s, p) PROVE KeepsControl(b)
  <2>1. account' = [account EXCEPT ![a] = Consumed(a)] /\ lastFreeze' = lastFreeze
    BY <1>4 DEF GrantSession
  <2> QED
    BY <2>1, ConsumedControl, OneAccountKeepsControl
<1>5. ASSUME NEW p \in Outsiders, RevokeSessionRoot(a, s, p) PROVE KeepsControl(b)
  <2>1. account' = [account EXCEPT ![a] = Consumed(a)] /\ lastFreeze' = lastFreeze
    BY <1>5 DEF RevokeSessionRoot
  <2> QED
    BY <2>1, ConsumedControl, OneAccountKeepsControl
<1>6. ASSUME NEW asset \in Assets, NEW dest \in Holders, NEW n \in RootTransferAmounts,
             TransferRoot(a, s, dest, asset, n)
      PROVE  KeepsControl(b)
  <2> DEFINE new == ChargedAccount(Consumed(a), CapMint(asset), n)
  <2>1. account' = [account EXCEPT ![a] = new] /\ lastFreeze' = lastFreeze
    BY <1>6 DEF TransferRoot
  <2>2. /\ new.version = account[a].version /\ new.frozen = account[a].frozen
        /\ new.frozen_at = account[a].frozen_at /\ new.policy = account[a].policy
    BY ConsumedControl, ChargedControl
  <2> HIDE DEF new
  <2> QED
    BY <2>1, <2>2, OneAccountKeepsControl
<1> QED
  BY <1>1, <1>2, <1>3, <1>4, <1>5, <1>6 DEF RootInstruction

\* Every step keeps the control of an account, creates, freezes or unfreezes it.
LEMMA ControlStep ==
  ASSUME TypeOK, [Next]_vars, NEW b \in Accounts
  PROVE  KeepsControl(b) \/ Creates(b) \/ Freezes(b) \/ Unfreezes(b)
<1>1. CASE Tick
  BY <1>1 DEF Tick, KeepsControl
<1>2. ASSUME NEW a \in Accounts, NEW args \in PolicyChoices, NEW p \in Outsiders,
             CreateAccount(a, args, p)
      PROVE  KeepsControl(b) \/ Creates(b)
  <2> DEFINE new == [ZeroAccount EXCEPT !.version = 1, !.policy = Expand(args)]
  <2>1. /\ account' = [account EXCEPT ![a] = new] /\ account[a].version = 0
        /\ Expandable(args) /\ ValidPolicy(Expand(args))
        /\ lastFreeze' = lastFreeze /\ session' = session /\ now' = now
    BY <1>2 DEF CreateAccount
  <2>2. new.version = 1 /\ new.policy = Expand(args) /\ new.frozen = "None"
    BY DEF ZeroAccount
  <2>3. args \in PolicyArgs
    BY WardenAssumption
  <2> HIDE DEF new
  <2>4. CASE b = a
    BY <2>1, <2>2, <2>3, <2>4 DEF Creates, TypeOK
  <2>5. CASE b # a
    BY <2>1, <2>5 DEF KeepsControl, TypeOK
  <2> QED
    BY <2>4, <2>5
<1>3. ASSUME NEW a \in Accounts, Owner(a) PROVE KeepsControl(b)
  BY <1>3 DEF Owner, SignPlain, SignGrant, SignRevoke, SignTransfer, Sign, KeepsControl
<1>4. ASSUME NEW a \in Accounts, NEW s \in signed, RootInstruction(a, s)
      PROVE  KeepsControl(b) \/ Freezes(b) \/ Unfreezes(b)
  BY <1>4, RootInstructionControl
<1>5. ASSUME NEW a \in Accounts, NEW k \in Keys, NEW p \in Outsiders, RevokeSessionSelf(a, k, p)
      PROVE  KeepsControl(b)
  BY <1>5 DEF RevokeSessionSelf, KeepsControl
<1>6. ASSUME NEW a \in Accounts, NEW k \in Keys, NEW owner \in Accounts, NEW asset \in Assets,
             NEW dest \in Holders, NEW n \in TransferAmounts,
             TransferSession(a, owner, k, dest, asset, n)
      PROVE  KeepsControl(b)
  <2> DEFINE new == ChargedAccount(account[a], CapMint(asset), n)
  <2>1. account' = [account EXCEPT ![a] = new] /\ lastFreeze' = lastFreeze
    BY <1>6 DEF TransferSession
  <2>2. /\ new.version = account[a].version /\ new.frozen = account[a].frozen
        /\ new.frozen_at = account[a].frozen_at /\ new.policy = account[a].policy
    BY ChargedControl DEF TypeOK
  <2> HIDE DEF new
  <2> QED
    BY <2>1, <2>2, OneAccountKeepsControl
<1>7. CASE UNCHANGED vars
  BY <1>7 DEF vars, KeepsControl
<1> QED
  BY <1>1, <1>2, <1>3, <1>4, <1>5, <1>6, <1>7 DEF Next, SessionInstruction

\* The clock never goes back.
LEMMA ClockStep == ASSUME TypeOK, [Next]_vars PROVE now' >= now
<1>1. ASSUME NEW a \in Accounts, Owner(a) PROVE now' = now
  BY <1>1 DEF Owner, SignPlain, SignGrant, SignRevoke, SignTransfer, Sign
<1>2. ASSUME NEW a \in Accounts, NEW s \in signed, RootInstruction(a, s) PROVE now' = now
  BY <1>2 DEF RootInstruction, RotateNonce, Freeze, Unfreeze, GrantSession, RevokeSessionRoot,
              TransferRoot
<1>3. ASSUME NEW a \in Accounts, NEW k \in Keys, SessionInstruction(a, k) PROVE now' = now
  BY <1>3 DEF SessionInstruction, RevokeSessionSelf, TransferSession
<1>4. ASSUME NEW a \in Accounts, NEW args \in PolicyChoices, NEW p \in Outsiders,
             CreateAccount(a, args, p)
      PROVE  now' = now
  BY <1>4 DEF CreateAccount
<1>5. now \in Nat
  BY DEF TypeOK
<1> QED
  BY <1>1, <1>2, <1>3, <1>4, <1>5 DEF Next, Tick, vars

-----------------------------------------------------------------------------
(* A freeze holds. *)

\* While the timelock of a freeze runs, the account is still frozen by it.
FreezeInv ==
  \A a \in Accounts : lastFreeze[a] # Never =>
    /\ account[a].version = 1
    /\ now < lastFreeze[a] + account[a].policy.timelock_secs =>
         account[a].frozen = "Root" /\ account[a].frozen_at = lastFreeze[a]

\* Only an unfreeze ends a freeze, and only after the timelock that it counts from.
LEMMA FreezeInvHolds == TypeOK /\ FreezeInv /\ [Next]_vars => FreezeInv'
<1> SUFFICES ASSUME TypeOK, FreezeInv, [Next]_vars, NEW a \in Accounts, lastFreeze'[a] # Never
             PROVE  /\ account'[a].version = 1
                    /\ now' < lastFreeze'[a] + account'[a].policy.timelock_secs =>
                         account'[a].frozen = "Root" /\ account'[a].frozen_at = lastFreeze'[a]
  BY DEF FreezeInv
<1>1. /\ now \in Int /\ now' \in Int /\ now' >= now /\ lastFreeze[a] \in Int
      /\ account[a].policy.timelock_secs \in Int
  <2>1. now' \in Int
    BY NextType DEF TypeOK
  <2> QED
    BY <2>1, ClockStep DEF TypeOK, SmartAccount, PolicyRecord, Never
<1>2. CASE KeepsControl(a)
  <2>1. lastFreeze[a] # Never
    BY <1>2 DEF KeepsControl
  <2> QED
    BY <1>1, <1>2, <2>1 DEF KeepsControl, FreezeInv
<1>3. CASE Creates(a)
  BY <1>3 DEF Creates, FreezeInv
<1>4. CASE Freezes(a)
  BY <1>4 DEF Freezes, KeepsUse
<1>5. CASE Unfreezes(a)
  BY <1>1, <1>5 DEF Unfreezes, KeepsUse, FreezeInv
<1> QED
  BY <1>2, <1>3, <1>4, <1>5, ControlStep

\* No account has been frozen yet.
LEMMA InitFreezeInv == Init => FreezeInv
  BY DEF Init, FreezeInv

\* What a transfer does to every balance.
LEMMA MoveBalances ==
  ASSUME TypeOK, NEW a \in Accounts, NEW dest \in Holders, NEW asset \in Assets,
         NEW amount \in U64, Move(a, dest, asset, amount)
  PROVE  /\ dest # a
         /\ balance'[a][asset] = balance[a][asset] - amount
         /\ balance'[dest][asset] = balance[dest][asset] + amount
         /\ \A h \in Holders, x \in Assets :
              (h \notin {a, dest} \/ x # asset) => balance'[h][x] = balance[h][x]
<1>1. a \in Holders /\ balance \in [Holders -> [Assets -> Nat]]
  BY DEF Holders, TypeOK
<1> QED
  BY <1>1 DEF Move

\* A fee payer is no account.
LEMMA PayersAreOthers == \A a \in Accounts, p \in Outsiders : a # p
  BY WardenAssumption

\* Rent that outsiders pay or get back leaves accounts what they have.
LEMMA OutsiderPays ==
  ASSUME TypeOK, NEW p \in Outsiders, NEW n, balance' = [balance EXCEPT ![p][Native] = n]
  PROVE  \A a \in Accounts : balance'[a] = balance[a]
<1>1. balance \in [Holders -> [Assets -> Nat]] /\ Accounts \subseteq Holders
  BY DEF TypeOK, Holders
<1> QED
  BY <1>1, PayersAreOthers

\* Creating an account takes nothing from one.
LEMMA CreationTakesNothing ==
  ASSUME TypeOK, NEW b \in Accounts, NEW args \in PolicyChoices, NEW p \in Outsiders,
         CreateAccount(b, args, p), NEW a \in Accounts, NEW x \in Assets
  PROVE  balance'[a][x] >= balance[a][x]
<1> DEFINE held == balance[b][Native]
           rent == IF held >= RENT_FLOOR THEN 0 ELSE RENT_FLOOR - held
<1>1. /\ balance \in [Holders -> [Assets -> Nat]] /\ a \in Holders /\ b \in Holders
      /\ p \in Holders /\ a # p /\ b # p /\ Native \in Assets /\ RENT_FLOOR \in Nat
  <2>1. RENT_FLOOR \in Nat
    BY WardenAssumption, CapsAssumption DEF U64
  <2> QED
    BY <2>1, PayersAreOthers DEF TypeOK, Holders, Assets
<1>2. rent \in Nat
  BY <1>1
<1>3. balance' = [balance EXCEPT ![p][Native] = @ - rent, ![b][Native] = @ + rent]
  BY DEF CreateAccount
<1> HIDE DEF rent, held
<1>4. balance'[a] = IF a = b THEN [balance[b] EXCEPT ![Native] = @ + rent] ELSE balance[a]
  BY <1>1, <1>3
<1>5. balance[a][x] \in Nat /\ balance[a] \in [Assets -> Nat]
  BY <1>1
<1> QED
  BY <1>1, <1>2, <1>4, <1>5

\* What a root instruction takes from an account, and gives one of its sessions.
LEMMA RootInstructionWhileFrozen ==
  ASSUME TypeOK, NEW b \in Accounts, NEW s \in signed, RootInstruction(b, s),
         NEW a \in Accounts, account[a].frozen # "None"
  PROVE  /\ \A x \in Assets : balance'[a][x] >= balance[a][x]
         /\ \A k \in Keys : session'[a][k] \in {session[a][k], ZeroSession}
<1>0. /\ a \in Holders /\ b \in Holders /\ balance \in [Holders -> [Assets -> Nat]]
      /\ session \in [Accounts -> [Keys -> SessionKey]]
      /\ \A x \in Assets : balance[a][x] \in Nat
  BY DEF TypeOK, Holders
<1>1. CASE RotateNonce(b, s) \/ Freeze(b, s) \/ Unfreeze(b, s)
  BY <1>0, <1>1 DEF RotateNonce, Freeze, Unfreeze
<1>2. ASSUME NEW p \in Outsiders, GrantSession(b, s, p), s.transcript.op = "grant_session"
      PROVE  /\ \A x \in Assets : balance'[a][x] >= balance[a][x]
             /\ \A k \in Keys : session'[a][k] \in {session[a][k], ZeroSession}
  <2>1. PICK rent, new : /\ balance' = [balance EXCEPT ![p][Native] = @ - rent]
                         /\ session' = [session EXCEPT ![b][s.transcript.body.session_pubkey] = new]
    BY <1>2 DEF GrantSession
  <2>2. a # b
    BY <1>2 DEF GrantSession
  <2>3. balance'[a] = balance[a]
    BY <2>1, OutsiderPays
  <2> QED
    BY <1>0, <2>1, <2>2, <2>3
<1>3. ASSUME NEW p \in Outsiders, RevokeSessionRoot(b, s, p), s.transcript.op = "revoke_session"
      PROVE  /\ \A x \in Assets : balance'[a][x] >= balance[a][x]
             /\ \A k \in Keys : session'[a][k] \in {session[a][k], ZeroSession}
  <2>1. PICK rent : /\ balance' = [balance EXCEPT ![p][Native] = @ + rent]
                    /\ session' = [session EXCEPT ![b][s.transcript.body.session_pubkey] = ZeroSession]
    BY <1>3 DEF RevokeSessionRoot, Close, Refund
  <2>2. balance'[a] = balance[a]
    BY <2>1, OutsiderPays
  <2> QED
    BY <1>0, <2>1, <2>2
<1>4. ASSUME NEW asset \in Assets, NEW dest \in Holders, NEW n \in RootTransferAmounts,
             TransferRoot(b, s, dest, asset, n)
      PROVE  /\ \A x \in Assets : balance'[a][x] >= balance[a][x]
             /\ \A k \in Keys : session'[a][k] \in {session[a][k], ZeroSession}
  <2>1. a # b /\ session' = session /\ Move(b, dest, asset, n)
    BY <1>4 DEF TransferRoot
  <2>2. n \in U64 /\ n \in Nat
    BY WardenAssumption, CapsAssumption DEF U64
  <2>3. ASSUME NEW x \in Assets PROVE balance'[a][x] >= balance[a][x]
    <3>1. CASE a = dest /\ x = asset
      BY <1>0, <2>1, <2>2, <3>1, MoveBalances
    <3>2. CASE a # dest \/ x # asset
      BY <1>0, <2>1, <2>2, <3>2, MoveBalances
    <3> QED
      BY <3>1, <3>2
  <2> QED
    BY <2>1, <2>3
<1> QED
  BY <1>1, <1>2, <1>3, <1>4 DEF RootInstruction

\* While an account is frozen nothing leaves it and no session of it gains anything.
LEMMA NothingLeavesFrozen ==
  ASSUME TypeOK, [Next]_vars, NEW a \in Accounts, account[a].frozen # "None"
  PROVE  /\ \A x \in Assets : balance'[a][x] >= balance[a][x]
         /\ \A k \in Keys : session'[a][k] \in {session[a][k], ZeroSession}
<1>0. /\ a \in Holders /\ balance \in [Holders -> [Assets -> Nat]]
      /\ session \in [Accounts -> [Keys -> SessionKey]]
      /\ \A x \in Assets : balance[a][x] \in Nat
  BY DEF TypeOK, Holders
<1> DEFINE Goal == /\ \A x \in Assets : balance'[a][x] >= balance[a][x]
                   /\ \A k \in Keys : session'[a][k] \in {session[a][k], ZeroSession}
<1>1. CASE Tick \/ UNCHANGED vars
  BY <1>0, <1>1 DEF Tick, vars
<1>2. ASSUME NEW b \in Accounts, NEW args \in PolicyChoices, NEW p \in Outsiders,
             CreateAccount(b, args, p)
      PROVE  Goal
  <2>1. session' = session
    BY <1>2 DEF CreateAccount
  <2> QED
    BY <1>2, <2>1, CreationTakesNothing
<1>3. ASSUME NEW b \in Accounts, Owner(b) PROVE Goal
  <2>1. balance' = balance /\ session' = session
    BY <1>3 DEF Owner, SignPlain, SignGrant, SignRevoke, SignTransfer, Sign
  <2> QED
    BY <1>0, <2>1
<1>4. ASSUME NEW b \in Accounts, NEW s \in signed, RootInstruction(b, s) PROVE Goal
  BY <1>4, RootInstructionWhileFrozen
<1>5. ASSUME NEW b \in Accounts, NEW k \in Keys, NEW p \in Outsiders, RevokeSessionSelf(b, k, p)
      PROVE  Goal
  <2>1. PICK rent : /\ balance' = [balance EXCEPT ![p][Native] = @ + rent]
                    /\ session' = [session EXCEPT ![b][k] = ZeroSession]
    BY <1>5 DEF RevokeSessionSelf, Close, Refund
  <2>2. balance'[a] = balance[a]
    BY <2>1, OutsiderPays
  <2> QED
    BY <1>0, <2>1, <2>2
<1>6. ASSUME NEW b \in Accounts, NEW k \in Keys, NEW owner \in Accounts, NEW asset \in Assets,
             NEW dest \in Holders, NEW n \in TransferAmounts,
             TransferSession(b, owner, k, dest, asset, n)
      PROVE  Goal
  <2>1. /\ a # b /\ owner = b /\ Move(b, dest, asset, n)
        /\ session' = [session EXCEPT ![owner][k] = Charged(@, CapMint(asset), n)]
    BY <1>6 DEF TransferSession, AuthorizeSession
  <2>2. n \in U64 /\ n \in Nat
    BY WardenAssumption, CapsAssumption DEF U64
  <2>3. ASSUME NEW x \in Assets PROVE balance'[a][x] >= balance[a][x]
    <3>1. CASE a = dest /\ x = asset
      BY <1>0, <2>1, <2>2, <3>1, MoveBalances
    <3>2. CASE a # dest \/ x # asset
      BY <1>0, <2>1, <2>2, <3>2, MoveBalances
    <3> QED
      BY <3>1, <3>2
  <2> QED
    BY <1>0, <2>1, <2>3
<1> QED
  BY <1>1, <1>2, <1>3, <1>4, <1>5, <1>6 DEF Next, SessionInstruction

\* From the moment a freeze takes effect until its timelock has run out nothing leaves
\* the vault by any key and no session gains anything, whatever was signed before.
THEOREM FreezeHolds == Spec => FreezeHoldsForTimelock
<1> DEFINE Step == \A a \in Accounts :
      (lastFreeze[a] # Never /\ now < lastFreeze[a] + account[a].policy.timelock_secs)
        => /\ \A asset \in Assets : balance'[a][asset] >= balance[a][asset]
           /\ \A k \in Keys : session'[a][k] \in {session[a][k], ZeroSession}
<1>1. TypeOK /\ FreezeInv /\ [Next]_vars => Step
  <2> SUFFICES ASSUME TypeOK, FreezeInv, [Next]_vars, NEW a \in Accounts,
                      lastFreeze[a] # Never,
                      now < lastFreeze[a] + account[a].policy.timelock_secs
               PROVE  /\ \A asset \in Assets : balance'[a][asset] >= balance[a][asset]
                      /\ \A k \in Keys : session'[a][k] \in {session[a][k], ZeroSession}
    OBVIOUS
  <2>1. account[a].frozen # "None"
    BY DEF FreezeInv
  <2> QED
    BY <2>1, NothingLeavesFrozen
<1>2. TypeOK /\ FreezeInv /\ [Next]_vars => [Step]_vars
  BY <1>1
<1> QED
  BY <1>2, InitType, NextType, InitFreezeInv, FreezeInvHolds, PTL
  DEF Spec, FreezeHoldsForTimelock

-----------------------------------------------------------------------------
(* A root operation does what was signed. *)

\* An address that is not in use is not frozen and has no sessions.
UnusedInv ==
  \A a \in Accounts : account[a].version = 0 =>
    /\ account[a].frozen = "None"
    /\ \A k \in Keys : session[a][k] = ZeroSession

\* What EffectsAreSigned says of one account and one step.
FreezesAsSigned(a) ==
  account'[a].frozen # account[a].frozen =>
    /\ Len(executed'[a]) = Len(executed[a]) + 1
    /\ executed'[a][Len(executed'[a])].transcript.op =
         IF account'[a].frozen = "Root" THEN "freeze" ELSE "unfreeze"

PaysAsSigned(a) ==
  executed'[a] # executed[a] =>
    LET t == executed'[a][Len(executed'[a])].transcript
    IN  \A asset \in Assets :
          LET signedFor == IF t.body.native THEN Native ELSE t.body.mint
              out == IF t.op = "transfer" /\ asset = signedFor THEN t.body.amount ELSE 0
          IN  /\ balance'[a][asset] = balance[a][asset] - out
              /\ out > 0 => balance'[t.body.destination][asset] =
                              balance[t.body.destination][asset] + out

\* What a signature for something else than a transfer takes from the vault.
LEMMA NothingPaid ==
  ASSUME TypeOK, NEW a \in Accounts, NEW s \in signed,
         executed'[a][Len(executed'[a])] = s, s.transcript.op # "transfer",
         balance'[a] = balance[a]
  PROVE  PaysAsSigned(a)
<1>1. a \in Holders /\ balance[a] \in [Assets -> Nat]
  BY DEF TypeOK, Holders
<1>2. \A asset \in Assets : balance'[a][asset] = balance[a][asset] - 0 /\ ~(0 > 0)
  BY <1>1
<1> QED
  BY <1>2 DEF PaysAsSigned

\* The signature that takes effect is the last of the account's history.
LEMMA EffectIsLast ==
  ASSUME TypeOK, NEW b \in Accounts, NEW s \in signed, TakesEffect(b, s)
  PROVE  /\ Len(executed'[b]) = Len(executed[b]) + 1
         /\ executed'[b][Len(executed'[b])] = s
         /\ \A a \in Accounts : a # b => executed'[a] = executed[a]
<1>1. executed \in [Accounts -> Seq(signed)]
  BY DEF TypeOK
<1> QED
  BY <1>1 DEF TakesEffect

\* A transfer's body says which asset it takes, how much of it and who gets it.
LEMMA TransferBodySays ==
  ASSUME NEW asset, NEW dest, NEW n
  PROVE  LET body == TransferBody(asset, dest, n)
         IN  /\ (IF body.native THEN Native ELSE body.mint) = asset
             /\ body.amount = n
             /\ body.destination = dest
  BY DEF TransferBody

\* Root instructions freeze and pay as signed.
LEMMA RootInstructionAsSigned ==
  ASSUME TypeOK, NEW b \in Accounts, NEW s \in signed, RootInstruction(b, s),
         NEW a \in Accounts
  PROVE  FreezesAsSigned(a) /\ PaysAsSigned(a)
<1>0. /\ account \in [Accounts -> SmartAccount] /\ Accounts \subseteq Holders
      /\ balance \in [Holders -> [Assets -> Nat]]
  BY DEF TypeOK, Holders
<1>1. ConsumesSignature(b, s)
  BY RootInstructionConsumes
<1>2. TakesEffect(b, s) /\ \A c \in Accounts : c # b => account'[c] = account[c]
  BY <1>1 DEF ConsumesSignature
<1>3. CASE a # b
  BY <1>2, <1>3, EffectIsLast DEF FreezesAsSigned, PaysAsSigned
<1>4. CASE a = b
  <2>0. Len(executed'[a]) = Len(executed[a]) + 1 /\ executed'[a][Len(executed'[a])] = s
    BY <1>2, <1>4, EffectIsLast
  <2>1. CASE RotateNonce(a, s)
    <3>1. /\ s.transcript.op = "rotate_nonce" /\ balance' = balance
          /\ account'[a] = Consumed(a)
      BY <1>0, <2>1, AuthorizedByItsTranscript DEF RotateNonce
    <3> QED
      BY <2>0, <3>1, NothingPaid, ConsumedControl DEF FreezesAsSigned
  <2>2. CASE Freeze(a, s)
    <3>1. /\ s.transcript.op = "freeze" /\ balance' = balance
          /\ account'[a] = [Consumed(a) EXCEPT !.frozen = "Root", !.frozen_at = now]
      BY <1>0, <2>2, AuthorizedByItsTranscript DEF Freeze
    <3>2. account'[a].frozen = "Root"
      BY <3>1, ConsumedControl DEF SmartAccount
    <3> QED
      BY <2>0, <3>1, <3>2, NothingPaid DEF FreezesAsSigned
  <2>3. CASE Unfreeze(a, s)
    <3>1. /\ s.transcript.op = "unfreeze" /\ balance' = balance
          /\ account'[a] = [Consumed(a) EXCEPT !.frozen = "None", !.frozen_at = 0]
      BY <1>0, <2>3, AuthorizedByItsTranscript DEF Unfreeze
    <3>2. account'[a].frozen = "None"
      BY <3>1, ConsumedControl DEF SmartAccount
    <3> QED
      BY <2>0, <3>1, <3>2, NothingPaid DEF FreezesAsSigned
  <2>4. ASSUME NEW p \in Outsiders, GrantSession(a, s, p), s.transcript.op = "grant_session"
        PROVE  FreezesAsSigned(a) /\ PaysAsSigned(a)
    <3>1. PICK rent : /\ balance' = [balance EXCEPT ![p][Native] = @ - rent]
                      /\ account'[a] = Consumed(a)
      BY <1>0, <2>4 DEF GrantSession
    <3>2. balance'[a] = balance[a]
      BY <3>1, OutsiderPays
    <3> QED
      BY <2>0, <2>4, <3>1, <3>2, NothingPaid, ConsumedControl DEF FreezesAsSigned
  <2>5. ASSUME NEW p \in Outsiders, RevokeSessionRoot(a, s, p), s.transcript.op = "revoke_session"
        PROVE  FreezesAsSigned(a) /\ PaysAsSigned(a)
    <3>1. PICK rent : /\ balance' = [balance EXCEPT ![p][Native] = @ + rent]
                      /\ account'[a] = Consumed(a)
      BY <1>0, <2>5 DEF RevokeSessionRoot, Close, Refund
    <3>2. balance'[a] = balance[a]
      BY <3>1, OutsiderPays
    <3> QED
      BY <2>0, <2>5, <3>1, <3>2, NothingPaid, ConsumedControl DEF FreezesAsSigned
  <2>6. ASSUME NEW asset \in Assets, NEW dest \in Holders, NEW n \in RootTransferAmounts,
               TransferRoot(a, s, dest, asset, n)
        PROVE  FreezesAsSigned(a) /\ PaysAsSigned(a)
    <3>1. /\ Move(a, dest, asset, n)
          /\ account'[a] = ChargedAccount(Consumed(a), CapMint(asset), n)
          /\ s.transcript.op = "transfer" /\ s.transcript.body = TransferBody(asset, dest, n)
      BY <1>0, <2>6, AuthorizedByItsTranscript DEF TransferRoot
    <3>2. FreezesAsSigned(a)
      BY <3>1, ConsumedControl, ChargedControl DEF FreezesAsSigned
    <3>3. n \in U64 /\ n \in Nat
      BY WardenAssumption, CapsAssumption DEF U64
    <3> DEFINE t == s.transcript
               signedFor == IF t.body.native THEN Native ELSE t.body.mint
    <3>4. /\ signedFor = asset /\ t.body.amount = n /\ t.body.destination = dest
      <4>1. t.body = TransferBody(asset, dest, n)
        BY <3>1
      <4> HIDE DEF t
      <4> QED
        BY <4>1, TransferBodySays
    <3>5. ASSUME NEW x \in Assets
          PROVE  LET out == IF t.op = "transfer" /\ x = signedFor THEN t.body.amount ELSE 0
                 IN  /\ balance'[a][x] = balance[a][x] - out
                     /\ out > 0 => balance'[t.body.destination][x] =
                                     balance[t.body.destination][x] + out
      <4>0. balance[a][x] \in Nat
        BY <1>0
      <4>1. CASE x = asset
        BY <3>1, <3>3, <3>4, <4>1, MoveBalances
      <4>2. CASE x # asset
        BY <1>0, <3>1, <3>3, <3>4, <4>0, <4>2, MoveBalances
      <4> QED
        BY <4>1, <4>2
    <3> QED
      BY <2>0, <3>2, <3>5 DEF PaysAsSigned
  <2> QED
    BY <1>4, <2>1, <2>2, <2>3, <2>4, <2>5, <2>6 DEF RootInstruction
<1> QED
  BY <1>3, <1>4

\* A root operation, and nothing else, adds to an account's history.
LEMMA NothingExecuted ==
  ASSUME executed' = executed, NEW a \in Accounts, account'[a].frozen = account[a].frozen
  PROVE  FreezesAsSigned(a) /\ PaysAsSigned(a)
  BY DEF FreezesAsSigned, PaysAsSigned

\* Every step freezes and pays as signed.
LEMMA StepAsSigned ==
  ASSUME TypeOK, UnusedInv, [Next]_vars, NEW a \in Accounts
  PROVE  FreezesAsSigned(a) /\ PaysAsSigned(a)
<1>1. CASE Tick \/ UNCHANGED vars
  BY <1>1, NothingExecuted DEF Tick, vars
<1>2. ASSUME NEW b \in Accounts, NEW args \in PolicyChoices, NEW p \in Outsiders,
             CreateAccount(b, args, p)
      PROVE  FreezesAsSigned(a) /\ PaysAsSigned(a)
  <2> DEFINE new == [ZeroAccount EXCEPT !.version = 1, !.policy = Expand(args)]
  <2>1. /\ account' = [account EXCEPT ![b] = new] /\ account[b].frozen = "None"
        /\ executed' = executed
    BY <1>2 DEF CreateAccount, UnusedInv
  <2>2. new.frozen = "None"
    BY DEF ZeroAccount
  <2> HIDE DEF new
  <2>3. account'[a].frozen = account[a].frozen
    BY <2>1, <2>2 DEF TypeOK
  <2> QED
    BY <2>1, <2>3, NothingExecuted
<1>3. ASSUME NEW b \in Accounts, Owner(b) PROVE FreezesAsSigned(a) /\ PaysAsSigned(a)
  <2>1. account' = account /\ executed' = executed
    BY <1>3 DEF Owner, SignPlain, SignGrant, SignRevoke, SignTransfer, Sign
  <2> QED
    BY <2>1, NothingExecuted
<1>4. ASSUME NEW b \in Accounts, NEW s \in signed, RootInstruction(b, s)
      PROVE  FreezesAsSigned(a) /\ PaysAsSigned(a)
  BY <1>4, RootInstructionAsSigned
<1>5. ASSUME NEW b \in Accounts, NEW k \in Keys, NEW p \in Outsiders, RevokeSessionSelf(b, k, p)
      PROVE  FreezesAsSigned(a) /\ PaysAsSigned(a)
  BY <1>5, NothingExecuted DEF RevokeSessionSelf
<1>6. ASSUME NEW b \in Accounts, NEW k \in Keys, NEW owner \in Accounts, NEW asset \in Assets,
             NEW dest \in Holders, NEW n \in TransferAmounts,
             TransferSession(b, owner, k, dest, asset, n)
      PROVE  FreezesAsSigned(a) /\ PaysAsSigned(a)
  <2> DEFINE new == ChargedAccount(account[b], CapMint(asset), n)
  <2>1. account' = [account EXCEPT ![b] = new] /\ executed' = executed
    BY <1>6 DEF TransferSession
  <2>2. new.frozen = account[b].frozen
    BY ChargedControl DEF TypeOK
  <2> HIDE DEF new
  <2>3. account'[a].frozen = account[a].frozen
    BY <2>1, <2>2 DEF TypeOK
  <2> QED
    BY <2>1, <2>3, NothingExecuted
<1> QED
  BY <1>1, <1>2, <1>3, <1>4, <1>5, <1>6 DEF Next, SessionInstruction

-----------------------------------------------------------------------------
(* What a step does to one session and to what it has drawn.                    *)

SessionKept(a, k) ==
  session'[a][k] = session[a][k] /\ drawn'[a][k] = drawn[a][k]

SessionClosed(a, k) ==
  session'[a][k] = ZeroSession /\ drawn'[a][k] = NothingDrawn

SessionGranted(a, k) ==
  /\ account[a].version = 1 /\ KeepsControl(a) /\ now' = now
  /\ account'[a] = Consumed(a)
  /\ drawn'[a][k] = drawn[a][k]
  /\ \E body \in GrantBody :
       /\ ValidShape(body) /\ ValidAgainstPolicy(account[a].policy, body, now)
       /\ CanMergeCaps(session[a][k], body)
       /\ session'[a][k] = Granted(session[a][k], body, account[a].generation)

SessionSpends(a, k) ==
  /\ account[a].version = 1 /\ Exists(session[a][k])
  /\ \E mint \in Mints, amount \in U64 :
       /\ WithinSessionCaps(session[a][k], mint, amount)
       /\ session'[a][k] = Charged(session[a][k], mint, amount)
       /\ drawn'[a][k] = [drawn[a][k] EXCEPT ![mint] = @ + amount]

SessionChanges(a, k) ==
  SessionKept(a, k) \/ SessionClosed(a, k) \/ SessionGranted(a, k) \/ SessionSpends(a, k)

Replaces(a, k, s, d) ==
  /\ session' = [session EXCEPT ![a][k] = s]
  /\ drawn' = [drawn EXCEPT ![a][k] = d]

\* A step that replaces one session and what it drew keeps every other one.
LEMMA OtherSessionsKept ==
  ASSUME TypeOK, NEW b \in Accounts, NEW j \in Keys, NEW s, NEW d, Replaces(b, j, s, d),
         NEW a \in Accounts, NEW k \in Keys
  PROVE  \/ SessionKept(a, k)
         \/ a = b /\ k = j /\ session'[a][k] = s /\ drawn'[a][k] = d
  BY DEF TypeOK, Replaces, SessionKept

\* A session gains from a grant its owner signed and that its policy admits, it spends
\* within its caps and exactly what it draws, or it is closed, and nothing else.
LEMMA SessionStep ==
  ASSUME TypeOK, [Next]_vars, NEW a \in Accounts, NEW k \in Keys
  PROVE  SessionChanges(a, k)
<1>0. drawn \in [Accounts -> [Keys -> [Mints -> Nat]]]
  BY DEF TypeOK
<1>1. CASE Tick \/ UNCHANGED vars
  BY <1>1 DEF Tick, vars, SessionChanges, SessionKept
<1>2. ASSUME NEW b \in Accounts, NEW args \in PolicyChoices, NEW p \in Outsiders,
             CreateAccount(b, args, p)
      PROVE  SessionKept(a, k)
  BY <1>2 DEF CreateAccount, SessionKept
<1>3. ASSUME NEW b \in Accounts, Owner(b) PROVE SessionKept(a, k)
  BY <1>3 DEF Owner, SignPlain, SignGrant, SignRevoke, SignTransfer, Sign, SessionKept
<1>4. ASSUME NEW b \in Accounts, NEW s \in signed, RootInstruction(b, s)
      PROVE  SessionChanges(a, k)
  <2>1. CASE RotateNonce(b, s) \/ Freeze(b, s) \/ Unfreeze(b, s)
    BY <2>1 DEF RotateNonce, Freeze, Unfreeze, SessionChanges, SessionKept
  <2>2. ASSUME NEW p \in Outsiders, GrantSession(b, s, p), s.transcript.op = "grant_session"
        PROVE  SessionChanges(a, k)
    <3> DEFINE body == s.transcript.body
               j == body.session_pubkey
               new == Granted(session[b][j], body, account[b].generation)
    <3>1. body \in GrantBody /\ j \in Keys
      BY <2>2 DEF TypeOK, SignatureOK, GrantBody
    <3>2. /\ session' = [session EXCEPT ![b][j] = new] /\ drawn' = drawn /\ now' = now
          /\ account' = [account EXCEPT ![b] = Consumed(b)] /\ lastFreeze' = lastFreeze
          /\ Authorizes(s, b, "grant_session", body)
          /\ ValidShape(body) /\ ValidAgainstPolicy(account[b].policy, body, now)
          /\ CanMergeCaps(session[b][j], body)
      BY <2>2 DEF GrantSession
    <3>3. account[b].version = 1
      BY <3>2, AuthorizedByItsTranscript
    <3>4. KeepsControl(a)
      BY <3>2, ConsumedControl, OneAccountKeepsControl
    <3> HIDE DEF new
    <3>5. CASE a = b /\ k = j
      <4>1. session'[a][k] = new /\ account'[a] = Consumed(a)
        BY <3>1, <3>2, <3>5 DEF TypeOK
      <4>2. SessionGranted(a, k)
        BY <3>1, <3>2, <3>3, <3>4, <3>5, <4>1 DEF new, SessionGranted
      <4> QED
        BY <4>2 DEF SessionChanges
    <3>6. CASE ~(a = b /\ k = j)
      <4> HIDE DEF j
      <4> QED
        BY <3>1, <3>2, <3>6 DEF TypeOK, SessionChanges, SessionKept
    <3> QED
      BY <3>5, <3>6
  <2>3. ASSUME NEW p \in Outsiders, RevokeSessionRoot(b, s, p), s.transcript.op = "revoke_session"
        PROVE  SessionChanges(a, k)
    <3>1. s.transcript.body.session_pubkey \in Keys
      BY <2>3 DEF TypeOK, SignatureOK, RevokeBody
    <3>2. Replaces(b, s.transcript.body.session_pubkey, ZeroSession, NothingDrawn)
      BY <2>3 DEF RevokeSessionRoot, Close, Replaces
    <3> QED
      BY <3>1, <3>2, OtherSessionsKept DEF SessionChanges, SessionClosed
  <2>4. ASSUME NEW asset \in Assets, NEW dest \in Holders, NEW n \in RootTransferAmounts,
               TransferRoot(b, s, dest, asset, n)
        PROVE  SessionChanges(a, k)
    BY <2>4 DEF TransferRoot, SessionChanges, SessionKept
  <2> QED
    BY <1>4, <2>1, <2>2, <2>3, <2>4 DEF RootInstruction
<1>5. ASSUME NEW b \in Accounts, NEW j \in Keys, NEW p \in Outsiders, RevokeSessionSelf(b, j, p)
      PROVE  SessionChanges(a, k)
  <2>1. Replaces(b, j, ZeroSession, NothingDrawn)
    BY <1>5 DEF RevokeSessionSelf, Close, Replaces
  <2> QED
    BY <2>1, OtherSessionsKept DEF SessionChanges, SessionClosed
<1>6. ASSUME NEW b \in Accounts, NEW j \in Keys, NEW owner \in Accounts, NEW asset \in Assets,
             NEW dest \in Holders, NEW n \in TransferAmounts,
             TransferSession(b, owner, j, dest, asset, n)
      PROVE  SessionChanges(a, k)
  <2> DEFINE mint == CapMint(asset)
             new == Charged(session[b][j], mint, n)
             more == [drawn[b][j] EXCEPT ![mint] = @ + n]
  <2>1. /\ owner = b /\ account[b].version = 1 /\ Exists(session[b][j])
        /\ WithinSessionCaps(session[b][j], mint, n)
    BY <1>6 DEF TransferSession, AuthorizeSession, MayTransfer
  <2>2. mint \in Mints /\ n \in U64
    BY WardenAssumption DEF CapMint, Assets
  <2>3. session' = [session EXCEPT ![b][j] = new]
    BY <1>6, <2>1 DEF TransferSession
  <2>4. drawn' = [drawn EXCEPT ![b][j] = more]
    <3>1. drawn' = [drawn EXCEPT ![b][j][mint] = @ + n]
      BY <1>6, <2>1 DEF TransferSession
    <3> HIDE DEF mint
    <3> QED
      BY <1>0, <2>2, <3>1
  <2> HIDE DEF new, more, mint
  <2>5. Replaces(b, j, new, more)
    BY <2>3, <2>4 DEF Replaces
  <2>6. CASE SessionKept(a, k)
    BY <2>6 DEF SessionChanges
  <2>7. CASE a = b /\ k = j /\ session'[a][k] = new /\ drawn'[a][k] = more
    <3>1. SessionSpends(a, k)
      BY <2>1, <2>2, <2>7 DEF SessionSpends, new, more
    <3> QED
      BY <3>1 DEF SessionChanges
  <2> QED
    BY <2>5, <2>6, <2>7, OtherSessionsKept
<1> QED
  BY <1>1, <1>2, <1>3, <1>4, <1>5, <1>6 DEF Next, SessionInstruction, SessionChanges

\* An account's first use comes after its creation.
LEMMA UnusedInvHolds == TypeOK /\ UnusedInv /\ [Next]_vars => UnusedInv'
<1> SUFFICES ASSUME TypeOK, UnusedInv, [Next]_vars, NEW a \in Accounts, account'[a].version = 0
             PROVE  /\ account'[a].frozen = "None"
                    /\ \A k \in Keys : session'[a][k] = ZeroSession
  BY DEF UnusedInv
<1>1. KeepsControl(a)
  BY ControlStep DEF Creates, Freezes, Unfreezes, KeepsUse
<1>2. /\ account[a].version = 0 /\ account'[a].frozen = "None"
      /\ \A k \in Keys : session[a][k] = ZeroSession
  BY <1>1 DEF KeepsControl, UnusedInv
<1>3. ASSUME NEW k \in Keys PROVE session'[a][k] = ZeroSession
  BY <1>2, SessionStep
  DEF SessionChanges, SessionKept, SessionClosed, SessionGranted, SessionSpends
<1> QED
  BY <1>2, <1>3

\* Nothing is in use at first.
LEMMA InitUnusedInv == Init => UnusedInv
<1>1. ZeroAccount.frozen = "None"
  BY DEF ZeroAccount
<1> QED
  BY <1>1 DEF Init, UnusedInv

\* What takes effect is what was signed: an account freezes and unfreezes only by a
\* signature for exactly that, and a root operation takes out of the vault what the
\* signed transfer says, gives it to whom it says, or takes nothing at all.
THEOREM SignedEffects == Spec => EffectsAreSigned
<1> DEFINE Step == \A a \in Accounts :
      /\ account'[a].frozen # account[a].frozen =>
           /\ Len(executed'[a]) = Len(executed[a]) + 1
           /\ executed'[a][Len(executed'[a])].transcript.op =
                IF account'[a].frozen = "Root" THEN "freeze" ELSE "unfreeze"
      /\ executed'[a] # executed[a] =>
           LET t == executed'[a][Len(executed'[a])].transcript
           IN  \A asset \in Assets :
                 LET signedFor == IF t.body.native THEN Native ELSE t.body.mint
                     out == IF t.op = "transfer" /\ asset = signedFor
                              THEN t.body.amount ELSE 0
                 IN  /\ balance'[a][asset] = balance[a][asset] - out
                     /\ out > 0 => balance'[t.body.destination][asset] =
                                     balance[t.body.destination][asset] + out
<1>1. TypeOK /\ UnusedInv /\ [Next]_vars => Step
  <2> SUFFICES ASSUME TypeOK, UnusedInv, [Next]_vars PROVE Step
    OBVIOUS
  <2>1. \A a \in Accounts : FreezesAsSigned(a) /\ PaysAsSigned(a)
    BY StepAsSigned
  <2> QED
    BY <2>1, Zenon DEF FreezesAsSigned, PaysAsSigned
<1>2. TypeOK /\ UnusedInv /\ [Next]_vars => [Step]_vars
  BY <1>1
<1> QED
  BY <1>2, InitType, NextType, InitUnusedInv, UnusedInvHolds, PTL
  DEF Spec, EffectsAreSigned

-----------------------------------------------------------------------------
(* What a session spent is never forgotten. *)

\* What LifetimeAccounting says of one session and what it has drawn.
AccountedFor(s, d) ==
  /\ \A i, j \in CapSlots :
       s.caps[i].mint # NoMint /\ s.caps[i].mint = s.caps[j].mint => i = j
  /\ \A i \in CapSlots : s.caps[i].mint # NoMint =>
       /\ s.lifetime_spent[i] = d[s.caps[i].mint]
       /\ s.lifetime_spent[i] <= s.lifetime_cap[i]
  /\ \A m \in Mints : d[m] > 0 => HasCap(s.caps, m)

\* A new session has spent nothing and has no slots.
LEMMA ZeroSessionAccountedFor == AccountedFor(ZeroSession, NothingDrawn)
<1>1. \A i \in CapSlots : ZeroSession.caps[i].mint = NoMint
  BY DEF ZeroSession, EmptyCaps, EmptyCap
<1>2. \A m \in Mints : ~(NothingDrawn[m] > 0)
  BY DEF NothingDrawn
<1> QED
  BY <1>1, <1>2 DEF AccountedFor

\* The slot a mint is merged into is the only one for it, and every other slot stays.
LEMMA MergeCapSlots ==
  ASSUME NEW s \in SessionKey, NEW cap \in MintCap, NEW lifetime \in U64,
         HasRoom(s, cap.mint), cap.mint # NoMint,
         \A i, j \in CapSlots :
           s.caps[i].mint # NoMint /\ s.caps[i].mint = s.caps[j].mint => i = j
  PROVE  LET slot == MergeSlot(s, cap.mint)
             new == MergeCap(s, cap, lifetime)
         IN  /\ slot \in CapSlots
             /\ new.caps[slot] = cap
             /\ new.lifetime_cap[slot] = lifetime
             /\ new.lifetime_spent[slot] = SpentBefore(s, cap.mint)
             /\ s.caps[slot].mint = IF HasCap(s.caps, cap.mint) THEN cap.mint ELSE NoMint
             /\ \A i \in CapSlots : i # slot =>
                  /\ s.caps[i].mint # cap.mint
                  /\ new.caps[i] = s.caps[i]
                  /\ new.lifetime_cap[i] = s.lifetime_cap[i]
                  /\ new.lifetime_spent[i] = s.lifetime_spent[i]
<1> DEFINE slot == MergeSlot(s, cap.mint)
           new == MergeCap(s, cap, lifetime)
<1>1. /\ slot \in CapSlots
      /\ s.caps[slot].mint = IF HasCap(s.caps, cap.mint) THEN cap.mint ELSE NoMint
  BY FindCapFinds, FirstEmptySlotIsEmpty DEF HasRoom, MergeSlot
<1>2. /\ s.caps \in [CapSlots -> MintCap] /\ s.lifetime_cap \in [CapSlots -> U64]
      /\ s.lifetime_spent \in [CapSlots -> U64]
  BY DEF SessionKey, CapArray, Counters
<1>3. /\ new.caps = [s.caps EXCEPT ![slot] = cap]
      /\ new.lifetime_cap = [s.lifetime_cap EXCEPT ![slot] = lifetime]
      /\ new.lifetime_spent = [s.lifetime_spent EXCEPT ![slot] = SpentBefore(s, cap.mint)]
  BY DEF MergeCap, SessionKey
<1> HIDE DEF slot, new
<1>4. \A i \in CapSlots : i # slot => s.caps[i].mint # cap.mint
  BY <1>1 DEF HasCap
<1> QED
  BY <1>1, <1>2, <1>3, <1>4 DEF slot, new

\* Merging a cap keeps the count of what was spent.
LEMMA MergeCapAccountedFor ==
  ASSUME NEW s \in SessionKey, NEW d \in [Mints -> Nat], AccountedFor(s, d),
         NEW cap \in MintCap, NEW lifetime \in U64, cap.mint # NoMint,
         CanMergeCap(s, cap, lifetime)
  PROVE  AccountedFor(MergeCap(s, cap, lifetime), d)
<1> DEFINE slot == MergeSlot(s, cap.mint)
           new == MergeCap(s, cap, lifetime)
<1>0. HasRoom(s, cap.mint) /\ lifetime >= SpentBefore(s, cap.mint)
  BY DEF CanMergeCap
<1>1. /\ slot \in CapSlots
      /\ new.caps[slot] = cap
      /\ new.lifetime_cap[slot] = lifetime
      /\ new.lifetime_spent[slot] = SpentBefore(s, cap.mint)
      /\ s.caps[slot].mint = IF HasCap(s.caps, cap.mint) THEN cap.mint ELSE NoMint
      /\ \A i \in CapSlots : i # slot =>
           /\ s.caps[i].mint # cap.mint
           /\ new.caps[i] = s.caps[i]
           /\ new.lifetime_cap[i] = s.lifetime_cap[i]
           /\ new.lifetime_spent[i] = s.lifetime_spent[i]
  BY <1>0, MergeCapSlots DEF AccountedFor
<1>2. cap.mint \in Mints
  BY DEF MintCap
<1>3. SpentBefore(s, cap.mint) = d[cap.mint]
  <2>1. CASE HasCap(s.caps, cap.mint)
    <3>1. FindCap(s.caps, cap.mint) \in CapSlots
          /\ s.caps[FindCap(s.caps, cap.mint)].mint = cap.mint
      BY <2>1, FindCapFinds
    <3> QED
      BY <2>1, <3>1 DEF SpentBefore, AccountedFor
  <2>2. CASE ~HasCap(s.caps, cap.mint)
    <3>1. d[cap.mint] \in Nat /\ ~(d[cap.mint] > 0)
      BY <1>2, <2>2 DEF AccountedFor
    <3> QED
      BY <2>2, <3>1 DEF SpentBefore
  <2> QED
    BY <2>1, <2>2
<1> HIDE DEF slot, new
<1>4. ASSUME NEW i \in CapSlots, NEW j \in CapSlots,
             new.caps[i].mint # NoMint, new.caps[i].mint = new.caps[j].mint
      PROVE  i = j
  <2>1. CASE i = slot \/ j = slot
    BY <1>1, <1>4, <2>1
  <2>2. CASE i # slot /\ j # slot
    BY <1>1, <1>4, <2>2 DEF AccountedFor
  <2> QED
    BY <2>1, <2>2
<1>5. ASSUME NEW i \in CapSlots, new.caps[i].mint # NoMint
      PROVE  /\ new.lifetime_spent[i] = d[new.caps[i].mint]
             /\ new.lifetime_spent[i] <= new.lifetime_cap[i]
  <2>1. CASE i = slot
    BY <1>0, <1>1, <1>3, <2>1
  <2>2. CASE i # slot
    BY <1>1, <1>5, <2>2 DEF AccountedFor
  <2> QED
    BY <2>1, <2>2
<1>6. ASSUME NEW m \in Mints, d[m] > 0
      PROVE  HasCap(new.caps, m)
  <2>1. m # NoMint
    BY CapsAssumption
  <2>2. CASE m = cap.mint
    BY <1>1, <2>1, <2>2 DEF HasCap
  <2>3. CASE m # cap.mint
    <3>1. PICK i \in CapSlots : s.caps[i].mint = m
      BY <1>6 DEF AccountedFor, HasCap
    <3>2. i # slot
      BY <1>1, <2>1, <2>3, <3>1
    <3> QED
      BY <1>1, <2>1, <3>1, <3>2 DEF HasCap
  <2> QED
    BY <2>2, <2>3
<1> QED
  BY <1>4, <1>5, <1>6 DEF AccountedFor, new

\* A well-formed grant has no entry, one or two, each for a mint.
LEMMA BodyEntries ==
  ASSUME NEW body \in GrantBody, ValidShape(body)
  PROVE  /\ Len(body.caps) \in {0, 1, 2}
         /\ \A i \in 1 .. Len(body.caps) :
              /\ body.caps[i] \in MintCap /\ body.lifetime_cap[i] \in U64
              /\ body.caps[i].mint # NoMint
<1>1. /\ body.caps \in Seq(MintCap) /\ body.lifetime_cap \in Seq(U64)
  BY DEF GrantBody
<1>2. /\ Len(body.caps) <= 2 /\ Len(body.lifetime_cap) = Len(body.caps)
      /\ \A i \in DOMAIN body.caps : body.caps[i].mint # NoMint
  BY DEF ValidShape, MAX_CAPS_PER_GRANT
<1>3. Len(body.caps) \in {0, 1, 2}
  <2>1. Len(body.caps) \in Nat
    BY <1>1
  <2>2. \A n \in Nat : n <= 2 => n \in {0, 1, 2}
    OBVIOUS
  <2> QED
    BY <1>2, <2>1, <2>2, Zenon
<1>4. \A i \in 1 .. Len(body.caps) : body.caps[i] \in MintCap /\ body.lifetime_cap[i] \in U64
  BY <1>1, <1>2
<1>5. DOMAIN body.caps = 1 .. Len(body.caps)
  BY <1>1
<1> QED
  BY <1>2, <1>3, <1>4, <1>5

\* Merging the entries of a grant keeps the count of what was spent.
LEMMA MergeCapsAccountedFor ==
  ASSUME NEW s \in SessionKey, NEW d \in [Mints -> Nat], AccountedFor(s, d),
         NEW body \in GrantBody, ValidShape(body), CanMergeCaps(s, body)
  PROVE  AccountedFor(MergeCaps(s, body), d)
<1>1. CASE Len(body.caps) = 0
  BY <1>1 DEF MergeCaps
<1>2. ASSUME Len(body.caps) \in {1, 2}
      PROVE  MergedOne(s, body) \in SessionKey /\ AccountedFor(MergedOne(s, body), d)
  <2>1. /\ body.caps[1] \in MintCap /\ body.lifetime_cap[1] \in U64
        /\ body.caps[1].mint # NoMint
    BY <1>2, BodyEntries
  <2>2. CanMergeCap(s, body.caps[1], body.lifetime_cap[1])
    BY <1>2 DEF CanMergeCaps
  <2>3. HasRoom(s, body.caps[1].mint)
    BY <2>2 DEF CanMergeCap
  <2> QED
    BY <2>1, <2>2, <2>3, MergeCapAccountedFor, MergedIsASession DEF MergedOne
<1>3. CASE Len(body.caps) = 1
  BY <1>2, <1>3 DEF MergeCaps
<1>4. CASE Len(body.caps) = 2
  <2>1. /\ body.caps[2] \in MintCap /\ body.lifetime_cap[2] \in U64
        /\ body.caps[2].mint # NoMint
    BY <1>4, BodyEntries
  <2>2. CanMergeCap(MergedOne(s, body), body.caps[2], body.lifetime_cap[2])
    BY <1>4 DEF CanMergeCaps
  <2>3. MergeCaps(s, body) = MergeCap(MergedOne(s, body), body.caps[2], body.lifetime_cap[2])
    BY <1>4 DEF MergeCaps
  <2> QED
    BY <1>2, <1>4, <2>1, <2>2, <2>3, MergeCapAccountedFor
<1> QED
  BY <1>1, <1>3, <1>4, BodyEntries

\* The caps and counters of a granted session are those the merges left.
LEMMA GrantedFields ==
  ASSUME NEW s, NEW body, NEW generation
  PROVE  LET new == Granted(s, body, generation)
             merged == MergeCaps(s, body)
         IN  merged \in SessionKey =>
               /\ new.caps = merged.caps
               /\ new.lifetime_cap = merged.lifetime_cap
               /\ new.lifetime_spent = merged.lifetime_spent
               /\ new.version = 1
               /\ new.expiry_ts = body.expiry_ts
               /\ new.ops_mask = body.ops_mask
<1> DEFINE merged == MergeCaps(s, body)
<1>1. Granted(s, body, generation) =
        [merged EXCEPT !.version = 1, !.expiry_ts = body.expiry_ts,
                       !.ops_mask = body.ops_mask, !.generation_at_grant = generation]
  BY DEF Granted
<1> HIDE DEF merged
<1>2. merged \in SessionKey =>
        /\ Granted(s, body, generation).caps = merged.caps
        /\ Granted(s, body, generation).lifetime_cap = merged.lifetime_cap
        /\ Granted(s, body, generation).lifetime_spent = merged.lifetime_spent
        /\ Granted(s, body, generation).version = 1
        /\ Granted(s, body, generation).expiry_ts = body.expiry_ts
        /\ Granted(s, body, generation).ops_mask = body.ops_mask
  BY <1>1 DEF SessionKey
<1> QED
  BY <1>2 DEF merged

\* What is charged to a session is what it draws, and no other slot is for that mint.
LEMMA ChargedAccountedFor ==
  ASSUME NEW s \in SessionKey, NEW d \in [Mints -> Nat], AccountedFor(s, d),
         NEW mint \in Mints, NEW amount \in U64, WithinSessionCaps(s, mint, amount)
  PROVE  AccountedFor(Charged(s, mint, amount), [d EXCEPT ![mint] = @ + amount])
<1> DEFINE slot == FindCap(s.caps, mint)
           new == Charged(s, mint, amount)
           more == [d EXCEPT ![mint] = @ + amount]
<1>1. slot \in CapSlots /\ s.caps[slot].mint = mint /\ mint # NoMint
  BY FindCapFinds, CapsAssumption DEF WithinSessionCaps
<1>2. s.lifetime_spent[slot] + amount <= s.lifetime_cap[slot]
  BY DEF WithinSessionCaps
<1>3. /\ s.lifetime_spent \in [CapSlots -> U64]
      /\ new.caps = s.caps /\ new.lifetime_cap = s.lifetime_cap
      /\ new.lifetime_spent = [s.lifetime_spent EXCEPT ![slot] = @ + amount]
  BY DEF Charged, SessionKey, Counters
<1>4. /\ more[mint] = d[mint] + amount
      /\ \A m \in Mints : m # mint => more[m] = d[m]
  OBVIOUS
<1> HIDE DEF slot, new, more
<1>5. ASSUME NEW i \in CapSlots, new.caps[i].mint # NoMint
      PROVE  /\ new.lifetime_spent[i] = more[new.caps[i].mint]
             /\ new.lifetime_spent[i] <= new.lifetime_cap[i]
  <2>1. s.lifetime_spent[i] = d[s.caps[i].mint] /\ s.lifetime_spent[i] <= s.lifetime_cap[i]
    BY <1>3, <1>5 DEF AccountedFor
  <2>2. CASE i = slot
    BY <1>1, <1>2, <1>3, <1>4, <2>1, <2>2
  <2>3. CASE i # slot
    <3>1. s.caps[i].mint # mint
      BY <1>1, <2>3 DEF AccountedFor
    <3>2. s.caps[i].mint \in Mints
      BY <1>3, <1>5 DEF SessionKey, CapArray, MintCap
    <3> QED
      BY <1>3, <1>4, <2>1, <2>3, <3>1, <3>2
  <2> QED
    BY <2>2, <2>3
<1>6. ASSUME NEW m \in Mints, more[m] > 0
      PROVE  HasCap(new.caps, m)
  <2>1. CASE m = mint
    BY <1>1, <1>3, <2>1 DEF HasCap
  <2>2. CASE m # mint
    BY <1>3, <1>4, <1>6, <2>2 DEF AccountedFor
  <2> QED
    BY <2>1, <2>2
<1>7. \A i, j \in CapSlots :
        new.caps[i].mint # NoMint /\ new.caps[i].mint = new.caps[j].mint => i = j
  BY <1>3 DEF AccountedFor
<1> QED
  BY <1>5, <1>6, <1>7 DEF AccountedFor, new, more

\* Every step keeps the count of every session.
LEMMA LifetimeAccountingHolds ==
  TypeOK /\ LifetimeAccounting /\ [Next]_vars => LifetimeAccounting'
<1> SUFFICES ASSUME TypeOK, LifetimeAccounting, [Next]_vars, NEW a \in Accounts, NEW k \in Keys
             PROVE  AccountedFor(session'[a][k], drawn'[a][k])
  BY Zenon DEF LifetimeAccounting, AccountedFor
<1>1. /\ session[a][k] \in SessionKey /\ drawn[a][k] \in [Mints -> Nat]
      /\ AccountedFor(session[a][k], drawn[a][k])
  BY DEF TypeOK, LifetimeAccounting, AccountedFor
<1>2. CASE SessionKept(a, k)
  BY <1>1, <1>2 DEF SessionKept
<1>3. CASE SessionClosed(a, k)
  BY <1>3, ZeroSessionAccountedFor DEF SessionClosed
<1>4. CASE SessionGranted(a, k)
  <2>1. PICK body \in GrantBody :
          /\ ValidShape(body) /\ CanMergeCaps(session[a][k], body)
          /\ session'[a][k] = Granted(session[a][k], body, account[a].generation)
          /\ drawn'[a][k] = drawn[a][k]
    BY <1>4 DEF SessionGranted
  <2> DEFINE merged == MergeCaps(session[a][k], body)
  <2>2. AccountedFor(merged, drawn[a][k])
    BY <1>1, <2>1, MergeCapsAccountedFor
  <2>3. merged \in SessionKey
    BY <1>1, <2>1, MergeCapsIsASession DEF GrantBody
  <2>4. /\ session'[a][k].caps = merged.caps
        /\ session'[a][k].lifetime_cap = merged.lifetime_cap
        /\ session'[a][k].lifetime_spent = merged.lifetime_spent
    BY <2>1, <2>3, GrantedFields
  <2> HIDE DEF merged
  <2> QED
    BY <2>1, <2>2, <2>4 DEF AccountedFor
<1>5. CASE SessionSpends(a, k)
  BY <1>1, <1>5, ChargedAccountedFor DEF SessionSpends
<1> QED
  BY <1>2, <1>3, <1>4, <1>5, SessionStep DEF SessionChanges

\* Nothing has been spent at first.
LEMMA InitLifetimeAccounting == Init => LifetimeAccounting
<1> SUFFICES ASSUME Init, NEW a \in Accounts, NEW k \in Keys
             PROVE  AccountedFor(session[a][k], drawn[a][k])
  BY DEF LifetimeAccounting, AccountedFor
<1> QED
  BY ZeroSessionAccountedFor DEF Init

\* What a session has spent of a mint since it was created is what its one slot for the
\* mint says, within the lifetime cap in force, however often the session was granted
\* again, its slots reordered and its caps lowered or raised in between.
THEOREM SpendingIsRemembered == Spec => []LifetimeAccounting
  BY InitType, NextType, InitLifetimeAccounting, LifetimeAccountingHolds, PTL DEF Spec

-----------------------------------------------------------------------------
(* Sessions stay within the policy. *)

\* Every ceiling belongs to a cap that is no lower.
PolicySound(p) ==
  \A m \in Mints : HasCap(p.session_ceiling, m) =>
    /\ HasCap(p.caps, m)
    /\ p.session_ceiling[FindCap(p.session_ceiling, m)].per_tx
         <= p.caps[FindCap(p.caps, m)].per_tx

\* Slot by slot comparison of re-keyed ceilings compares them mint by mint.
LEMMA ExpandedIsSound ==
  ASSUME NEW args \in PolicyArgs, Expandable(args), ValidPolicy(Expand(args))
  PROVE  PolicySound(Expand(args))
<1> DEFINE p == Expand(args)
<1>1. p.caps = Padded(args.caps) /\ p.session_ceiling = KeyByMint(args.session_ceiling, args.caps)
  BY DEF Expand
<1> SUFFICES ASSUME NEW m \in Mints, HasCap(p.session_ceiling, m)
             PROVE  /\ HasCap(p.caps, m)
                    /\ p.session_ceiling[FindCap(p.session_ceiling, m)].per_tx
                         <= p.caps[FindCap(p.caps, m)].per_tx
  BY DEF PolicySound
<1> DEFINE i == FindCap(p.session_ceiling, m)
           j == FindCap(p.caps, m)
           entries == args.session_ceiling
           Owns(e) == entries[e].mint = args.caps[i].mint
<1>2. i \in CapSlots /\ p.session_ceiling[i].mint = m /\ m # NoMint
  BY FindCapFinds, CapsAssumption
<1>3. i \in DOMAIN args.caps /\ args.caps[i].mint = m
  <2>1. p.session_ceiling[i] =
          IF i \in DOMAIN args.caps /\ \E e \in DOMAIN entries : Owns(e)
            THEN entries[CHOOSE e \in DOMAIN entries : Owns(e)]
            ELSE EmptyCap
    BY <1>1, <1>2 DEF KeyByMint
  <2>2. i \in DOMAIN args.caps /\ \E e \in DOMAIN entries : Owns(e)
    BY <1>2, <2>1 DEF EmptyCap
  <2>3. Owns(CHOOSE e \in DOMAIN entries : Owns(e))
    BY <2>2
  <2> QED
    BY <1>2, <2>1, <2>2, <2>3
<1>4. p.caps[i] = args.caps[i]
  BY <1>1, <1>2, <1>3 DEF Padded
<1>5. HasCap(p.caps, m)
  BY <1>2, <1>3, <1>4 DEF HasCap
<1>6. j = i
  <2>1. j \in CapSlots /\ p.caps[j].mint = m
    BY <1>5, FindCapFinds
  <2>2. j \in DOMAIN args.caps /\ args.caps[j].mint = m
    BY <1>1, <1>2, <2>1 DEF Padded, EmptyCap
  <2>3. DistinctMints(args.caps)
    BY DEF Expandable
  <2> HIDE DEF i, j
  <2> QED
    BY <1>3, <2>2, <2>3 DEF DistinctMints
<1>7. AtMost(p.session_ceiling[i], p.caps[i])
  <2>1. p.caps[i].mint # NoMint
    BY <1>2, <1>3, <1>4
  <2> HIDE DEF i
  <2> QED
    BY <1>2, <2>1 DEF ValidPolicy
<1> QED
  BY <1>5, <1>6, <1>7 DEF AtMost

\* What SessionsWithinPolicy says of one cap of a session, and of a session.
CapFits(cap, p) ==
  /\ HasCap(p.session_ceiling, cap.mint)
  /\ cap.per_tx <= p.session_ceiling[FindCap(p.session_ceiling, cap.mint)].per_tx
  /\ HasCap(p.caps, cap.mint)
  /\ cap.per_tx <= p.caps[FindCap(p.caps, cap.mint)].per_tx

SlotsFit(s, p) == \A i \in CapSlots : s.caps[i].mint # NoMint => CapFits(s.caps[i], p)

LifeFits(s, p, t) ==
  Exists(s) => s.ops_mask \subseteq p.session_ops_ceiling
               /\ s.expiry_ts <= t + p.max_session_life_secs

\* No policy is unsound, and no session, granted again or not, exceeds it.
PolicyInv ==
  \A a \in Accounts : account[a].version = 1 =>
    /\ PolicySound(account[a].policy)
    /\ \A k \in Keys : SlotsFit(session[a][k], account[a].policy)
                       /\ LifeFits(session[a][k], account[a].policy, now)

\* A session that does not exist exceeds nothing.
LEMMA ZeroSessionFits ==
  ASSUME NEW p, NEW t
  PROVE  SlotsFit(ZeroSession, p) /\ LifeFits(ZeroSession, p, t)
<1>1. \A i \in CapSlots : ZeroSession.caps[i].mint = NoMint
  BY DEF ZeroSession, EmptyCaps, EmptyCap
<1>2. ~Exists(ZeroSession)
  BY DEF ZeroSession, Exists
<1> QED
  BY <1>1, <1>2 DEF SlotsFit, LifeFits

\* Merging a cap that fits leaves caps that fit.
LEMMA MergeCapFits ==
  ASSUME NEW s \in SessionKey, NEW p, SlotsFit(s, p), NEW cap \in MintCap, CapFits(cap, p),
         NEW lifetime, HasRoom(s, cap.mint)
  PROVE  SlotsFit(MergeCap(s, cap, lifetime), p)
<1> DEFINE slot == MergeSlot(s, cap.mint)
           new == MergeCap(s, cap, lifetime)
<1>1. s.caps \in [CapSlots -> MintCap] /\ new.caps = [s.caps EXCEPT ![slot] = cap]
  BY DEF MergeCap, SessionKey, CapArray
<1> HIDE DEF slot, new
<1>2. \A i \in CapSlots : new.caps[i] = cap \/ new.caps[i] = s.caps[i]
  BY <1>1
<1>3. SlotsFit(new, p)
  BY <1>2 DEF SlotsFit
<1> QED
  BY <1>3 DEF new

\* What the ceiling admits fits a sound policy.
LEMMA AdmittedFits ==
  ASSUME NEW p \in PolicyRecord, PolicySound(p), NEW body \in GrantBody, ValidShape(body),
         NEW t, ValidAgainstPolicy(p, body, t), NEW i \in 1 .. Len(body.caps)
  PROVE  CapFits(body.caps[i], p)
<1> DEFINE cap == body.caps[i]
           c == FindCap(p.session_ceiling, cap.mint)
           d == FindCap(p.caps, cap.mint)
<1>1. cap \in MintCap /\ cap.mint # NoMint /\ i \in DOMAIN body.caps
  BY BodyEntries DEF GrantBody
<1>2. HasCap(p.session_ceiling, cap.mint) /\ cap.per_tx <= p.session_ceiling[c].per_tx
  BY <1>1 DEF ValidAgainstPolicy, AtMost
<1>3. HasCap(p.caps, cap.mint) /\ p.session_ceiling[c].per_tx <= p.caps[d].per_tx
  BY <1>1, <1>2 DEF PolicySound, MintCap
<1>4. c \in CapSlots /\ d \in CapSlots
  BY <1>2, <1>3, FindCapFinds
<1>5. cap.per_tx \in Nat /\ p.session_ceiling[c].per_tx \in Nat /\ p.caps[d].per_tx \in Nat
  <2>1. \A e \in MintCap : e.per_tx \in Nat
    BY CapsAssumption DEF MintCap, U64
  <2>2. p.session_ceiling \in [CapSlots -> MintCap] /\ p.caps \in [CapSlots -> MintCap]
    BY DEF PolicyRecord, CapArray
  <2> HIDE DEF c, d, cap
  <2> QED
    BY <1>1, <1>4, <2>1, <2>2
<1> HIDE DEF c, d, cap
<1>6. cap.per_tx <= p.caps[d].per_tx
  BY <1>2, <1>3, <1>5
<1> QED
  BY <1>2, <1>3, <1>6 DEF CapFits, c, d, cap

\* A granted session fits the policy its grant was checked against.
LEMMA GrantedFits ==
  ASSUME NEW s \in SessionKey, NEW p \in PolicyRecord, PolicySound(p), SlotsFit(s, p),
         NEW body \in GrantBody, ValidShape(body), NEW t, ValidAgainstPolicy(p, body, t),
         CanMergeCaps(s, body), NEW generation
  PROVE  /\ SlotsFit(Granted(s, body, generation), p)
         /\ LifeFits(Granted(s, body, generation), p, t)
<1>1. MergeCaps(s, body) \in SessionKey
  BY MergeCapsIsASession DEF GrantBody
<1>2. ASSUME Len(body.caps) \in {1, 2}
      PROVE  MergedOne(s, body) \in SessionKey /\ SlotsFit(MergedOne(s, body), p)
  <2>1. body.caps[1] \in MintCap /\ body.lifetime_cap[1] \in U64 /\ CapFits(body.caps[1], p)
    BY <1>2, BodyEntries, AdmittedFits
  <2>2. HasRoom(s, body.caps[1].mint)
    BY <1>2 DEF CanMergeCaps, CanMergeCap
  <2> QED
    BY <2>1, <2>2, MergeCapFits, MergedIsASession DEF MergedOne
<1>3. SlotsFit(MergeCaps(s, body), p)
  <2>1. CASE Len(body.caps) = 0
    BY <2>1 DEF MergeCaps
  <2>2. CASE Len(body.caps) = 1
    BY <1>2, <2>2 DEF MergeCaps
  <2>3. CASE Len(body.caps) = 2
    <3>1. body.caps[2] \in MintCap /\ CapFits(body.caps[2], p)
      BY <2>3, BodyEntries, AdmittedFits
    <3>2. HasRoom(MergedOne(s, body), body.caps[2].mint)
      BY <2>3 DEF CanMergeCaps, CanMergeCap
    <3>3. MergeCaps(s, body) = MergeCap(MergedOne(s, body), body.caps[2], body.lifetime_cap[2])
      BY <2>3 DEF MergeCaps
    <3> QED
      BY <1>2, <2>3, <3>1, <3>2, <3>3, MergeCapFits
  <2> QED
    BY <2>1, <2>2, <2>3, BodyEntries
<1> DEFINE new == Granted(s, body, generation)
<1>4. /\ new.caps = MergeCaps(s, body).caps
      /\ new.expiry_ts = body.expiry_ts /\ new.ops_mask = body.ops_mask
  BY <1>1, GrantedFields
<1>5. /\ body.expiry_ts <= t + p.max_session_life_secs
      /\ body.ops_mask \subseteq p.session_ops_ceiling
  BY DEF ValidAgainstPolicy
<1> HIDE DEF new
<1>6. SlotsFit(new, p) /\ LifeFits(new, p, t)
  BY <1>3, <1>4, <1>5 DEF SlotsFit, LifeFits
<1> QED
  BY <1>6 DEF new

\* A charge changes neither what a session may do nor its caps.
LEMMA ChargedFits ==
  ASSUME NEW s \in SessionKey, NEW p, NEW t, SlotsFit(s, p), LifeFits(s, p, t), NEW mint, NEW n
  PROVE  SlotsFit(Charged(s, mint, n), p) /\ LifeFits(Charged(s, mint, n), p, t)
<1> DEFINE new == Charged(s, mint, n)
<1>1. /\ new.caps = s.caps /\ new.expiry_ts = s.expiry_ts /\ new.ops_mask = s.ops_mask
      /\ new.version = s.version
  BY DEF Charged, SessionKey
<1> HIDE DEF new
<1>2. SlotsFit(new, p) /\ LifeFits(new, p, t)
  BY <1>1 DEF SlotsFit, LifeFits, Exists
<1> QED
  BY <1>2 DEF new

\* A session that fits still fits later.
LEMMA LaterFits ==
  ASSUME NEW s \in SessionKey, NEW p \in PolicyRecord, NEW t \in Int, NEW later \in Int,
         t <= later, LifeFits(s, p, t)
  PROVE  LifeFits(s, p, later)
<1>1. s.expiry_ts \in Int /\ p.max_session_life_secs \in Int
  BY DEF SessionKey, PolicyRecord
<1> QED
  BY <1>1 DEF LifeFits

\* Every step keeps every session within its policy.
LEMMA PolicyInvHolds == TypeOK /\ UnusedInv /\ PolicyInv /\ [Next]_vars => PolicyInv'
<1> SUFFICES ASSUME TypeOK, UnusedInv, PolicyInv, [Next]_vars, NEW a \in Accounts,
                    account'[a].version = 1
             PROVE  /\ PolicySound(account'[a].policy)
                    /\ \A k \in Keys : SlotsFit(session'[a][k], account'[a].policy)
                                       /\ LifeFits(session'[a][k], account'[a].policy, now')
  BY DEF PolicyInv
<1>1. CASE Creates(a)
  <2>1. PolicySound(account'[a].policy)
    BY <1>1, ExpandedIsSound DEF Creates
  <2>2. \A k \in Keys : session'[a][k] = ZeroSession
    BY <1>1 DEF Creates, UnusedInv
  <2> QED
    BY <2>1, <2>2, ZeroSessionFits
<1>2. CASE account[a].version = 1 /\ account'[a].policy = account[a].policy
  <2> DEFINE p == account[a].policy
  <2>1. p \in PolicyRecord /\ PolicySound(p)
    BY <1>2 DEF TypeOK, SmartAccount, PolicyInv
  <2>2. now \in Int /\ now' \in Int /\ now <= now'
    <3>1. now' \in Int
      BY NextType DEF TypeOK
    <3> QED
      BY <3>1, ClockStep DEF TypeOK
  <2>3. ASSUME NEW k \in Keys
        PROVE  SlotsFit(session'[a][k], p) /\ LifeFits(session'[a][k], p, now')
    <3>1. /\ session[a][k] \in SessionKey /\ session'[a][k] \in SessionKey
          /\ SlotsFit(session[a][k], p) /\ LifeFits(session[a][k], p, now)
      <4>1. session'[a][k] \in SessionKey
        BY NextType DEF TypeOK
      <4> QED
        BY <1>2, <4>1 DEF TypeOK, PolicyInv
    <3> HIDE DEF p
    <3>2. SlotsFit(session'[a][k], p) /\ LifeFits(session'[a][k], p, now)
      <4>1. CASE SessionKept(a, k)
        BY <3>1, <4>1 DEF SessionKept
      <4>2. CASE SessionClosed(a, k)
        BY <4>2, ZeroSessionFits DEF SessionClosed
      <4>3. CASE SessionGranted(a, k)
        BY <2>1, <3>1, <4>3, GrantedFits DEF SessionGranted, p
      <4>4. CASE SessionSpends(a, k)
        BY <3>1, <4>4, ChargedFits DEF SessionSpends
      <4> QED
        BY <4>1, <4>2, <4>3, <4>4, SessionStep DEF SessionChanges
    <3> QED
      BY <2>1, <2>2, <3>1, <3>2, LaterFits
  <2> QED
    BY <1>2, <2>1, <2>3
<1> QED
  BY <1>1, <1>2, ControlStep DEF KeepsControl, Freezes, Unfreezes, KeepsUse

\* No account has a policy at first.
LEMMA InitPolicyInv == Init => PolicyInv
<1>1. ZeroAccount.version = 0
  BY DEF ZeroAccount
<1> QED
  BY <1>1 DEF Init, PolicyInv

\* Every slot of every live session, those of earlier grants included, is within the
\* policy's ceiling and cap for its mint, and the session can do nothing and outlive
\* nothing the policy does not allow.
THEOREM SessionsFitPolicy == Spec => []SessionsWithinPolicy
<1>1. TypeOK /\ UnusedInv /\ PolicyInv => SessionsWithinPolicy
  <2> SUFFICES ASSUME TypeOK, UnusedInv, PolicyInv, NEW a \in Accounts, NEW k \in Keys,
                      Exists(session[a][k])
               PROVE  /\ SlotsFit(session[a][k], account[a].policy)
                      /\ LifeFits(session[a][k], account[a].policy, now)
    BY DEF SessionsWithinPolicy, SlotsFit, LifeFits, CapFits
  <2>1. account[a].version \in 0 .. 1
    BY DEF TypeOK, SmartAccount
  <2>2. account[a].version # 0
    BY DEF UnusedInv, Exists, ZeroSession
  <2>3. account[a].version = 1
    BY <2>1, <2>2
  <2> QED
    BY <2>3 DEF PolicyInv
<1> QED
  BY <1>1, InitType, NextType, InitUnusedInv, UnusedInvHolds, InitPolicyInv, PolicyInvHolds, PTL
  DEF Spec

-----------------------------------------------------------------------------
(* A session never runs out of slots. *)

\* Each mint of the session has one slot, and a ceiling in the policy.
OneSlotEach(s) ==
  \A i, j \in CapSlots : s.caps[i].mint # NoMint /\ s.caps[i].mint = s.caps[j].mint => i = j

UnderCeiling(s, ceiling) ==
  \A i \in CapSlots : s.caps[i].mint # NoMint => HasCap(ceiling, s.caps[i].mint)

\* A session has as many slots as the policy has ceilings: were all of them taken by other
\* mints than one with a ceiling, two of those would share a ceiling, which names one mint.
LEMMA RoomUnderCeiling ==
  ASSUME NEW s, NEW ceiling, OneSlotEach(s), UnderCeiling(s, ceiling),
         NEW m \in Mints, HasCap(ceiling, m)
  PROVE  HasRoom(s, m)
<1> SUFFICES ASSUME ~HasRoom(s, m) PROVE FALSE
  OBVIOUS
<1> DEFINE CeilingOf(i) == FindCap(ceiling, s.caps[i].mint)
           own == FindCap(ceiling, m)
           others == CapSlots \ {own}
           f == [i \in CapSlots |-> CeilingOf(i)]
<1>1. own \in CapSlots /\ ceiling[own].mint = m
  BY FindCapFinds
<1>2. \A i \in CapSlots : s.caps[i].mint # NoMint /\ s.caps[i].mint # m
  <2>1. m # NoMint
    BY CapsAssumption
  <2> QED
    BY <2>1 DEF HasRoom, HasCap, HasEmptySlot
<1>3. \A i \in CapSlots : CeilingOf(i) \in CapSlots /\ ceiling[CeilingOf(i)].mint = s.caps[i].mint
  BY <1>2, FindCapFinds DEF UnderCeiling
<1>4. IsFiniteSet(CapSlots) /\ Cardinality(CapSlots) = MAX_MINT_CAPS
  <2>1. MAX_MINT_CAPS \in Int /\ MAX_MINT_CAPS >= 1
    BY CapsAssumption
  <2> QED
    BY <2>1, FS_Interval, 1 \in Int DEF CapSlots
<1> HIDE DEF CeilingOf, own
<1>5. IsFiniteSet(others) /\ Cardinality(others) < Cardinality(CapSlots)
  <2>1. IsFiniteSet(others) /\ Cardinality(others) = Cardinality(CapSlots) - 1
    BY <1>1, <1>4, FS_RemoveElement
  <2> QED
    BY <1>4, <2>1, CapsAssumption
<1>6. f \in [CapSlots -> others]
  BY <1>1, <1>2, <1>3
<1>7. \A i \in CapSlots : f[i] = CeilingOf(i)
  OBVIOUS
<1> HIDE DEF others, f
<1>8. PICK i, j \in CapSlots : i # j /\ f[i] = f[j]
  BY <1>4, <1>5, <1>6, FS_PigeonHole
<1>9. s.caps[i].mint = s.caps[j].mint
  BY <1>3, <1>7, <1>8
<1> QED
  BY <1>2, <1>8, <1>9 DEF OneSlotEach

\* Merging a cap for a mint with a ceiling keeps it so.
LEMMA MergeKeepsRoom ==
  ASSUME NEW s \in SessionKey, NEW ceiling, OneSlotEach(s), UnderCeiling(s, ceiling),
         NEW cap \in MintCap, NEW lifetime \in U64, cap.mint # NoMint,
         HasCap(ceiling, cap.mint), HasRoom(s, cap.mint)
  PROVE  /\ OneSlotEach(MergeCap(s, cap, lifetime))
         /\ UnderCeiling(MergeCap(s, cap, lifetime), ceiling)
<1> DEFINE slot == MergeSlot(s, cap.mint)
           new == MergeCap(s, cap, lifetime)
<1>1. /\ slot \in CapSlots /\ new.caps[slot] = cap
      /\ \A i \in CapSlots : i # slot => s.caps[i].mint # cap.mint /\ new.caps[i] = s.caps[i]
  BY MergeCapSlots DEF OneSlotEach
<1> HIDE DEF slot, new
<1>2. OneSlotEach(new)
  BY <1>1 DEF OneSlotEach
<1>3. UnderCeiling(new, ceiling)
  BY <1>1 DEF UnderCeiling
<1> QED
  BY <1>2, <1>3 DEF new

\* A grant is never refused for want of a slot, by any mints a policy has ceilings for and
\* however many slots there are: the reason is that a session has no fewer of them than a
\* policy has ceilings, not how many mints an account may be created with.
THEOREM RoomForEveryGrant == Spec => []SlotsNeverRunOut
<1>1. TypeOK /\ LifetimeAccounting /\ PolicyInv => SlotsNeverRunOut
  <2> SUFFICES ASSUME TypeOK, LifetimeAccounting, PolicyInv, NEW a \in Accounts, NEW k \in Keys,
                      account[a].version = 1
               PROVE  LET s == session[a][k]
                          Grantable == {m \in Mints :
                                          HasCap(account[a].policy.session_ceiling, m)}
                      IN  \A first \in Grantable :
                            /\ HasRoom(s, first)
                            /\ LET merged == MergeCap(s, [EmptyCap EXCEPT !.mint = first], U64_MAX)
                               IN  \A second \in Grantable : HasRoom(merged, second)
    BY DEF SlotsNeverRunOut
  <2> DEFINE s == session[a][k]
             ceiling == account[a].policy.session_ceiling
             NamedCap(m) == [EmptyCap EXCEPT !.mint = m]
             Merged(m) == MergeCap(s, NamedCap(m), U64_MAX)
  <2>1. s \in SessionKey
    BY DEF TypeOK
  <2>2. OneSlotEach(s)
    BY DEF LifetimeAccounting, OneSlotEach
  <2>3. UnderCeiling(s, ceiling)
    BY DEF PolicyInv, SlotsFit, CapFits, UnderCeiling
  <2>4. U64_MAX \in U64
    BY CapsAssumption DEF U64
  <2> HIDE DEF s, ceiling
  <2>5. ASSUME NEW first \in Mints, HasCap(ceiling, first)
        PROVE  /\ HasRoom(s, first)
               /\ \A second \in Mints :
                    HasCap(ceiling, second) => HasRoom(Merged(first), second)
    <3>1. HasRoom(s, first)
      BY <2>2, <2>3, <2>5, RoomUnderCeiling
    <3>2. /\ NamedCap(first) \in MintCap
          /\ NamedCap(first).mint = first /\ first # NoMint
      BY EmptyCapIsACap, CapsAssumption DEF EmptyCap, MintCap
    <3> HIDE DEF NamedCap
    <3>3. OneSlotEach(Merged(first)) /\ UnderCeiling(Merged(first), ceiling)
      BY <2>1, <2>2, <2>3, <2>4, <2>5, <3>1, <3>2, MergeKeepsRoom
    <3> HIDE DEF Merged
    <3> QED
      BY <3>1, <3>3, RoomUnderCeiling
  <2> QED
    BY <2>5 DEF s, ceiling
<1> QED
  BY <1>1, InitType, NextType, InitUnusedInv, UnusedInvHolds, InitPolicyInv, PolicyInvHolds,
     InitLifetimeAccounting, LifetimeAccountingHolds, PTL
  DEF Spec

-----------------------------------------------------------------------------
(* A grant lands on the session its signer saw. *)

\* A session that does not exist has nothing left of an earlier one.
AbsentInv == \A a \in Accounts, k \in Keys : Exists(session[a][k]) \/ session[a][k] = ZeroSession

\* What was shown of a session still holds of it: it only spent since.
StillShown(found, shown) ==
  /\ Exists(shown)
  /\ Authority(found) = Authority(shown)
  /\ \A i \in CapSlots : found.lifetime_spent[i] >= shown.lifetime_spent[i]

\* As long as no root operation took effect on the account since a grant was signed, its
\* session is as it was shown, but for what it spent, or it is gone.
ShownInv(s) ==
  LET a == s.transcript.account
      body == s.transcript.body
      found == session[a][body.session_pubkey]
      shown == s.seen.session
  IN  /\ body.prior_authority_hash = PriorAuthority(shown)
      /\ Exists(shown) \/ shown = ZeroSession
      /\ Exists(found) => StillShown(found, shown)

Fresh(s) == s.transcript.root_nonce = account[s.transcript.account].root_nonce

GrantInv ==
  /\ AbsentInv
  /\ \A s \in signed :
       /\ s.transcript.root_nonce <= account[s.transcript.account].root_nonce
       /\ s.transcript.op = "grant_session" /\ Fresh(s) => ShownInv(s)

\* What is charged shows in what is spent, never in the authority.
LEMMA ChargedStillShown ==
  ASSUME NEW s \in SessionKey, NEW mint, NEW amount \in U64, WithinSessionCaps(s, mint, amount)
  PROVE  /\ Exists(s) => Exists(Charged(s, mint, amount))
         /\ Authority(Charged(s, mint, amount)) = Authority(s)
         /\ \A i \in CapSlots : Charged(s, mint, amount).lifetime_spent[i] >= s.lifetime_spent[i]
<1> DEFINE slot == FindCap(s.caps, mint)
           new == Charged(s, mint, amount)
<1>1. /\ new.version = s.version /\ new.caps = s.caps /\ new.lifetime_cap = s.lifetime_cap
      /\ new.lifetime_spent = [s.lifetime_spent EXCEPT ![slot] = @ + amount]
  BY DEF Charged, SessionKey
<1>2. amount \in Nat /\ s.lifetime_spent \in [CapSlots -> Nat]
  BY CapsAssumption DEF SessionKey, Counters, U64
<1> HIDE DEF slot, new
<1>3. \A i \in CapSlots : new.lifetime_spent[i] >= s.lifetime_spent[i]
  BY <1>1, <1>2
<1>4. /\ Exists(s) => Exists(new)
      /\ Authority(new) = Authority(s)
  BY <1>1 DEF Exists, Authority
<1> QED
  BY <1>3, <1>4 DEF new

\* Absent sessions stay empty.
LEMMA AbsentInvHolds == TypeOK /\ AbsentInv /\ [Next]_vars => AbsentInv'
<1> SUFFICES ASSUME TypeOK, AbsentInv, [Next]_vars, NEW a \in Accounts, NEW k \in Keys
             PROVE  Exists(session'[a][k]) \/ session'[a][k] = ZeroSession
  BY DEF AbsentInv
<1>1. session[a][k] \in SessionKey
  BY DEF TypeOK
<1>2. CASE SessionKept(a, k) \/ SessionClosed(a, k)
  BY <1>2 DEF SessionKept, SessionClosed, AbsentInv
<1>3. CASE SessionGranted(a, k)
  <2>1. PICK body \in GrantBody :
          /\ ValidShape(body) /\ CanMergeCaps(session[a][k], body)
          /\ session'[a][k] = Granted(session[a][k], body, account[a].generation)
    BY <1>3 DEF SessionGranted
  <2>2. MergeCaps(session[a][k], body) \in SessionKey
    BY <1>1, <2>1, MergeCapsIsASession DEF GrantBody
  <2>3. session'[a][k].version = 1
    BY <2>1, <2>2, GrantedFields
  <2> QED
    BY <2>3 DEF Exists
<1>4. CASE SessionSpends(a, k)
  <2>1. PICK mint \in Mints, amount \in U64 :
          /\ WithinSessionCaps(session[a][k], mint, amount)
          /\ session'[a][k] = Charged(session[a][k], mint, amount)
    BY <1>4 DEF SessionSpends
  <2> QED
    BY <1>1, <1>4, <2>1, ChargedStillShown DEF SessionSpends
<1> QED
  BY <1>2, <1>3, <1>4, SessionStep DEF SessionChanges

\* A nonce never goes back.
LEMMA NonceStep ==
  ASSUME TypeOK, RootInv, [Next]_vars, NEW a \in Accounts
  PROVE  /\ account[a].root_nonce \in Nat /\ account'[a].root_nonce \in Nat
         /\ account'[a].root_nonce >= account[a].root_nonce
<1>1. account[a].root_nonce \in Nat /\ account'[a].root_nonce \in Nat
  <2>1. account'[a] \in SmartAccount
    BY NextType DEF TypeOK
  <2> QED
    BY <2>1 DEF TypeOK, SmartAccount
<1>2. CASE SigningStep \/ LeavesRootAlone
  BY <1>1, <1>2 DEF SigningStep, LeavesRootAlone
<1>3. ASSUME NEW b \in Accounts, NEW s \in signed, ConsumesSignature(b, s)
      PROVE  account'[a].root_nonce >= account[a].root_nonce
  BY <1>1, <1>3 DEF ConsumesSignature
<1> QED
  BY <1>1, <1>2, <1>3, StepKinds

\* A step that leaves the nonce leaves the session of a signed grant as it was shown.
LEMMA ShownInvHolds ==
  ASSUME TypeOK, [Next]_vars, NEW s \in signed, s.transcript.op = "grant_session",
         ShownInv(s),
         account'[s.transcript.account].root_nonce = account[s.transcript.account].root_nonce
  PROVE  ShownInv(s)'
<1> DEFINE a == s.transcript.account
           k == s.transcript.body.session_pubkey
           shown == s.seen.session
<1>1. a \in Accounts /\ k \in Keys /\ session[a][k] \in SessionKey /\ shown \in SessionKey
  BY DEF TypeOK, SignatureOK, GrantBody
<1>2. /\ s.transcript.body.prior_authority_hash = PriorAuthority(shown)
      /\ Exists(shown) \/ shown = ZeroSession
      /\ Exists(session[a][k]) => StillShown(session[a][k], shown)
  BY DEF ShownInv
<1>3. account'[a].root_nonce = account[a].root_nonce
  OBVIOUS
<1> HIDE DEF a, k, shown
<1>4. Exists(session'[a][k]) => StillShown(session'[a][k], shown)
  <2>1. CASE SessionKept(a, k)
    BY <1>2, <2>1 DEF SessionKept
  <2>2. CASE SessionClosed(a, k)
    BY <2>2 DEF SessionClosed, Exists, ZeroSession
  <2>3. CASE SessionGranted(a, k)
    <3>1. account'[a].root_nonce = account[a].root_nonce + 1
      BY <1>1, <2>3, ConsumedCounts DEF SessionGranted
    <3>2. account[a].root_nonce \in Nat
      BY <1>1 DEF TypeOK, SmartAccount
    <3> QED
      BY <1>3, <3>1, <3>2
  <2>4. CASE SessionSpends(a, k)
    <3>1. PICK mint \in Mints, amount \in U64 :
            /\ WithinSessionCaps(session[a][k], mint, amount)
            /\ session'[a][k] = Charged(session[a][k], mint, amount)
      BY <2>4 DEF SessionSpends
    <3>2. StillShown(session[a][k], shown)
      BY <1>2, <2>4 DEF SessionSpends
    <3>3. /\ Authority(session'[a][k]) = Authority(session[a][k])
          /\ \A i \in CapSlots :
               session'[a][k].lifetime_spent[i] >= session[a][k].lifetime_spent[i]
      BY <1>1, <3>1, ChargedStillShown
    <3>4. session'[a][k] \in SessionKey
      BY <1>1, NextType DEF TypeOK
    <3>5. \A z \in SessionKey : z.lifetime_spent \in [CapSlots -> Nat]
      BY CapsAssumption DEF SessionKey, Counters, U64
    <3>6. ASSUME NEW i \in CapSlots
          PROVE  session'[a][k].lifetime_spent[i] >= shown.lifetime_spent[i]
      <4>1. /\ session'[a][k].lifetime_spent[i] \in Nat
            /\ session[a][k].lifetime_spent[i] \in Nat /\ shown.lifetime_spent[i] \in Nat
        BY <1>1, <3>4, <3>5
      <4> QED
        BY <3>2, <3>3, <4>1 DEF StillShown
    <3> QED
      BY <3>2, <3>3, <3>6 DEF StillShown
  <2> QED
    BY <1>1, <2>1, <2>2, <2>3, <2>4, SessionStep DEF SessionChanges
<1> QED
  BY <1>2, <1>4 DEF ShownInv, a, k, shown

\* What the owner signs: for the session of the moment when it is a grant.
LEMMA SignedAsShown ==
  ASSUME TypeOK, AbsentInv, NEW a \in Accounts, Owner(a), NEW s \in signed'
  PROVE  \/ s \in signed
         \/ /\ s.transcript.account = a /\ s.transcript.root_nonce = account[a].root_nonce
            /\ s.transcript.op = "grant_session" => ShownInv(s)
<1>1. ASSUME NEW op, NEW body, NEW shown, Sign(a, op, body, shown), s \notin signed
      PROVE  /\ s.transcript.account = a /\ s.transcript.root_nonce = account[a].root_nonce
             /\ s.transcript.op = op /\ s.transcript.body = body /\ s.seen.session = shown
  <2>1. PICK lead \in ExpiryLeads :
          s = [transcript |-> Transcript(a, op, body, now + lead),
               seen |-> [root_ops |-> Len(executed[a]), session |-> shown]]
    BY <1>1 DEF Sign
  <2> QED
    BY <2>1 DEF Transcript
<1>2. ASSUME NEW op \in PlainOps, SignPlain(a, op), s \notin signed
      PROVE  /\ s.transcript.account = a /\ s.transcript.root_nonce = account[a].root_nonce
             /\ s.transcript.op # "grant_session"
  BY <1>1, <1>2, WardenAssumption DEF SignPlain
<1>3. ASSUME NEW g \in GrantRequests, SignGrant(a, g), s \notin signed
      PROVE  /\ s.transcript.account = a /\ s.transcript.root_nonce = account[a].root_nonce
             /\ ShownInv(s)
  <2> DEFINE k == g.session_pubkey
             found == session[a][k]
  <2>1. k \in Keys /\ found \in SessionKey
    BY WardenAssumption DEF GrantRequest, TypeOK
  <2>2. /\ s.transcript.account = a /\ s.transcript.root_nonce = account[a].root_nonce
        /\ s.transcript.body = GrantBodyFor(a, g) /\ s.seen.session = found
    BY <1>1, <1>3 DEF SignGrant
  <2>3. /\ GrantBodyFor(a, g).session_pubkey = k
        /\ GrantBodyFor(a, g).prior_authority_hash = PriorAuthority(found)
    BY DEF GrantBodyFor
  <2>4. Exists(found) \/ found = ZeroSession
    BY <2>1 DEF AbsentInv
  <2>5. Exists(found) => StillShown(found, found)
    <3>1. \A i \in CapSlots : found.lifetime_spent[i] \in Nat
      BY <2>1, CapsAssumption DEF SessionKey, Counters, U64
    <3> QED
      BY <3>1 DEF StillShown
  <2> QED
    BY <2>2, <2>3, <2>4, <2>5 DEF ShownInv
<1>4. ASSUME NEW k \in Keys, NEW p \in RevokePayers, SignRevoke(a, k, p), s \notin signed
      PROVE  /\ s.transcript.account = a /\ s.transcript.root_nonce = account[a].root_nonce
             /\ s.transcript.op # "grant_session"
  BY <1>1, <1>4 DEF SignRevoke
<1>5. ASSUME NEW asset \in Assets, NEW dest \in Holders, NEW n \in RootTransferAmounts,
             SignTransfer(a, asset, dest, n), s \notin signed
      PROVE  /\ s.transcript.account = a /\ s.transcript.root_nonce = account[a].root_nonce
             /\ s.transcript.op # "grant_session"
  BY <1>1, <1>5 DEF SignTransfer
<1> QED
  BY <1>2, <1>3, <1>4, <1>5 DEF Owner

\* Only signing makes signatures.
LEMMA OnlyOwnersSign ==
  ASSUME [Next]_vars
  PROVE  signed' = signed \/ \E a \in Accounts : Owner(a)
<1>1. CASE Tick \/ UNCHANGED vars
  BY <1>1 DEF Tick, vars
<1>2. ASSUME NEW a \in Accounts, NEW args \in PolicyChoices, NEW p \in Outsiders,
             CreateAccount(a, args, p)
      PROVE  signed' = signed
  BY <1>2 DEF CreateAccount
<1>3. ASSUME NEW a \in Accounts, NEW s \in signed, RootInstruction(a, s)
      PROVE  signed' = signed
  BY <1>3 DEF RootInstruction, RotateNonce, Freeze, Unfreeze, GrantSession, RevokeSessionRoot,
              TransferRoot
<1>4. ASSUME NEW a \in Accounts, NEW k \in Keys, SessionInstruction(a, k)
      PROVE  signed' = signed
  BY <1>4 DEF SessionInstruction, RevokeSessionSelf, TransferSession
<1> QED
  BY <1>1, <1>2, <1>3, <1>4 DEF Next

\* Every step keeps what a fresh grant's signer saw true.
LEMMA GrantInvHolds == TypeOK /\ RootInv /\ GrantInv /\ [Next]_vars => GrantInv'
<1> SUFFICES ASSUME TypeOK, RootInv, GrantInv, [Next]_vars PROVE GrantInv'
  OBVIOUS
<1>1. AbsentInv /\ AbsentInv'
  BY AbsentInvHolds DEF GrantInv
<1>2. ASSUME NEW s \in signed
      PROVE  /\ s.transcript.root_nonce <= account'[s.transcript.account].root_nonce
             /\ s.transcript.op = "grant_session" /\ Fresh(s)' => ShownInv(s)'
  <2> DEFINE a == s.transcript.account
  <2>1. /\ a \in Accounts /\ s.transcript.root_nonce <= account[a].root_nonce
        /\ s.transcript.op = "grant_session" /\ Fresh(s) => ShownInv(s)
    BY DEF TypeOK, SignatureOK, GrantInv
  <2>2. /\ account[a].root_nonce \in Nat /\ account'[a].root_nonce \in Nat
        /\ account'[a].root_nonce >= account[a].root_nonce
    BY <2>1, NonceStep
  <2>3. s.transcript.root_nonce \in Nat
    BY DEF RootInv, TypeOK, SignatureOK
  <2>4. s.transcript.root_nonce <= account'[a].root_nonce
    <3> HIDE DEF a
    <3> QED
      BY <2>1, <2>2, <2>3
  <2>5. ASSUME s.transcript.op = "grant_session", Fresh(s)'
        PROVE  ShownInv(s)'
    <3>1. account'[a].root_nonce = s.transcript.root_nonce
      BY <2>5 DEF Fresh
    <3>2. account'[a].root_nonce = account[a].root_nonce /\ Fresh(s)
      BY <2>1, <2>2, <2>3, <3>1 DEF Fresh
    <3> QED
      BY <2>1, <2>5, <3>2, ShownInvHolds
  <2> QED
    BY <2>4, <2>5
<1>3. ASSUME NEW s \in signed', s \notin signed
      PROVE  /\ s.transcript.root_nonce <= account'[s.transcript.account].root_nonce
             /\ s.transcript.op = "grant_session" /\ Fresh(s)' => ShownInv(s)'
  <2>1. PICK a \in Accounts : Owner(a)
    BY <1>3, OnlyOwnersSign
  <2>2. account' = account /\ session' = session
    BY <2>1 DEF Owner, SignPlain, SignGrant, SignRevoke, SignTransfer, Sign
  <2>3. /\ s.transcript.account = a /\ s.transcript.root_nonce = account[a].root_nonce
        /\ s.transcript.op = "grant_session" => ShownInv(s)
    BY <1>1, <1>3, <2>1, SignedAsShown
  <2>4. account[a].root_nonce \in Nat
    BY DEF TypeOK, SmartAccount
  <2> QED
    BY <2>2, <2>3, <2>4 DEF ShownInv
<1> QED
  BY <1>1, <1>2, <1>3 DEF GrantInv

\* Nothing is signed at first.
LEMMA InitGrantInv == Init => GrantInv
  BY DEF Init, GrantInv, AbsentInv

\* A root instruction that takes effect for a grant is grant_session.
LEMMA GrantsTakeEffect ==
  ASSUME TypeOK, NEW a \in Accounts, NEW s \in signed, RootInstruction(a, s),
         s.transcript.op = "grant_session"
  PROVE  \E p \in Outsiders : GrantSession(a, s, p)
<1>1. ~RotateNonce(a, s) /\ ~Freeze(a, s) /\ ~Unfreeze(a, s)
  BY AuthorizedByItsTranscript DEF RotateNonce, Freeze, Unfreeze
<1>2. \A asset \in Assets, dest \in Holders, n \in RootTransferAmounts :
        ~TransferRoot(a, s, dest, asset, n)
  BY AuthorizedByItsTranscript DEF TransferRoot
<1> QED
  BY <1>1, <1>2 DEF RootInstruction

\* What GrantLandsOnWhatWasShown says of one account and one step.
GrantsAsShown(a) ==
  LET n == Len(executed'[a])
  IN  (executed'[a] # executed[a] /\ executed'[a][n].transcript.op = "grant_session")
        => LET shown == executed'[a][n].seen.session
               found == session[a][executed'[a][n].transcript.body.session_pubkey]
           IN  /\ Exists(found) = Exists(shown)
               /\ Authority(found) = Authority(shown)
               /\ \A i \in CapSlots : found.lifetime_spent[i] >= shown.lifetime_spent[i]

\* A grant whose signature is accepted finds the session as it was shown.
LEMMA AcceptedAsShown ==
  ASSUME TypeOK, GrantInv, NEW a \in Accounts, NEW s \in signed, NEW p \in Outsiders,
         s.transcript.op = "grant_session", GrantSession(a, s, p)
  PROVE  LET shown == s.seen.session
             found == session[a][s.transcript.body.session_pubkey]
         IN  /\ Exists(found) = Exists(shown)
             /\ Authority(found) = Authority(shown)
             /\ \A i \in CapSlots : found.lifetime_spent[i] >= shown.lifetime_spent[i]
<1> DEFINE body == s.transcript.body
           shown == s.seen.session
           found == session[a][body.session_pubkey]
<1>1. Authorizes(s, a, "grant_session", body) /\ body.prior_authority_hash = PriorAuthority(found)
  BY DEF GrantSession
<1>2. s.transcript.account = a /\ s.transcript.root_nonce = account[a].root_nonce
  BY <1>1, AuthorizedByItsTranscript
<1>3. /\ body.prior_authority_hash = PriorAuthority(shown)
      /\ Exists(shown) \/ shown = ZeroSession
      /\ Exists(found) => StillShown(found, shown)
  BY <1>2 DEF GrantInv, Fresh, ShownInv
<1>4. body.session_pubkey \in Keys /\ shown \in SessionKey
  BY DEF TypeOK, SignatureOK, GrantBody
<1>5. Exists(found) \/ found = ZeroSession
  BY <1>4 DEF GrantInv, AbsentInv
<1>6. CASE Exists(found)
  BY <1>3, <1>6 DEF StillShown, Exists
<1>7. CASE ~Exists(found)
  <2>1. found = ZeroSession /\ PriorAuthority(shown) = ZeroHash
    BY <1>1, <1>3, <1>5, <1>7 DEF PriorAuthority
  <2>2. Authority(shown) \in [caps: CapArray, lifetime_cap: Counters]
    BY <1>4 DEF Authority, SessionKey
  <2>3. ~Exists(shown)
    BY <2>1, <2>2, SessionsAssumption DEF PriorAuthority
  <2>4. shown = ZeroSession
    BY <1>3, <2>3
  <2>5. \A i \in CapSlots : ZeroSession.lifetime_spent[i] >= ZeroSession.lifetime_spent[i]
    BY DEF ZeroSession, ZeroCounters
  <2> HIDE DEF found, shown
  <2>6. /\ Exists(found) = Exists(shown) /\ Authority(found) = Authority(shown)
        /\ \A i \in CapSlots : found.lifetime_spent[i] >= shown.lifetime_spent[i]
    BY <2>1, <2>4, <2>5
  <2> QED
    BY <2>6 DEF found, shown
<1> QED
  BY <1>6, <1>7

\* Only a root instruction adds to an account's history.
LEMMA OnlyRootExecutes ==
  ASSUME [Next]_vars
  PROVE  executed' = executed \/ \E b \in Accounts, s \in signed : RootInstruction(b, s)
<1>1. CASE Tick \/ UNCHANGED vars
  BY <1>1 DEF Tick, vars
<1>2. ASSUME NEW a \in Accounts, NEW args \in PolicyChoices, NEW p \in Outsiders,
             CreateAccount(a, args, p)
      PROVE  executed' = executed
  BY <1>2 DEF CreateAccount
<1>3. ASSUME NEW a \in Accounts, Owner(a) PROVE executed' = executed
  BY <1>3 DEF Owner, SignPlain, SignGrant, SignRevoke, SignTransfer, Sign
<1>4. ASSUME NEW a \in Accounts, NEW k \in Keys, SessionInstruction(a, k)
      PROVE  executed' = executed
  BY <1>4 DEF SessionInstruction, RevokeSessionSelf, TransferSession
<1> QED
  BY <1>1, <1>2, <1>3, <1>4 DEF Next

\* A grant takes effect only on the session its signer saw: it exists or not as shown,
\* every slot it keeps grants what was shown, and none has more left to spend.
THEOREM GrantsLandAsShown == Spec => GrantLandsOnWhatWasShown
<1> DEFINE Step == \A a \in Accounts :
      LET n == Len(executed'[a])
      IN  (executed'[a] # executed[a] /\ executed'[a][n].transcript.op = "grant_session")
            => LET shown == executed'[a][n].seen.session
                   found == session[a][executed'[a][n].transcript.body.session_pubkey]
               IN  /\ Exists(found) = Exists(shown)
                   /\ Authority(found) = Authority(shown)
                   /\ \A i \in CapSlots :
                        found.lifetime_spent[i] >= shown.lifetime_spent[i]
<1>1. TypeOK /\ GrantInv /\ [Next]_vars => Step
  <2> SUFFICES ASSUME TypeOK, GrantInv, [Next]_vars, NEW a \in Accounts, executed'[a] # executed[a]
               PROVE  GrantsAsShown(a)
    BY Zenon DEF GrantsAsShown
  <2>1. PICK b \in Accounts, s \in signed : RootInstruction(b, s)
    BY OnlyRootExecutes
  <2>2. TakesEffect(b, s)
    BY <2>1, RootInstructionConsumes DEF ConsumesSignature
  <2>3. b = a /\ executed'[a][Len(executed'[a])] = s
    BY <2>2, EffectIsLast
  <2>4. CASE s.transcript.op = "grant_session"
    <3>1. PICK p \in Outsiders : GrantSession(a, s, p)
      BY <2>1, <2>3, <2>4, GrantsTakeEffect
    <3> QED
      BY <2>3, <2>4, <3>1, AcceptedAsShown DEF GrantsAsShown
  <2>5. CASE s.transcript.op # "grant_session"
    BY <2>3, <2>5 DEF GrantsAsShown
  <2> QED
    BY <2>4, <2>5
<1>2. TypeOK /\ GrantInv /\ [Next]_vars => [Step]_vars
  BY <1>1
<1> QED
  BY <1>2, InitType, NextType, InitRootInv, RootInvHolds, InitGrantInv, GrantInvHolds, PTL
  DEF Spec, GrantLandsOnWhatWasShown

-----------------------------------------------------------------------------
(* Where value goes. *)

Balances == [Holders -> [Assets -> Nat]]

-----------------------------------------------------------------------------
(* What all holders have of an asset. *)

SameOf(b, c, x) == b \in Balances /\ \A h \in Holders : c[h][x] = b[h][x]

AddsOf(b, c, x, y, n) ==
  /\ b \in Balances /\ y \in Holders /\ n \in Nat
  /\ c[y][x] = b[y][x] + n
  /\ \A h \in Holders \ {y} : c[h][x] = b[h][x]

MovesOf(b, c, x, y, z) ==
  /\ b \in Balances /\ c \in Balances /\ y \in Holders /\ z \in Holders /\ y # z
  /\ c[y][x] + c[z][x] = b[y][x] + b[z][x]
  /\ \A h \in Holders \ {y, z} : c[h][x] = b[h][x]

\* As long as nobody gains or loses, the total is the same.
LEMMA TotalOfSame ==
  ASSUME NEW b, NEW c, NEW x \in Assets, SameOf(b, c, x)
  PROVE  TotalHeld(c, x) = TotalHeld(b, x)
<1> DEFINE f == [h \in Holders |-> b[h][x]]
           g == [h \in Holders |-> c[h][x]]
<1>1. f = g
  BY DEF SameOf
<1> QED
  BY <1>1 DEF TotalHeld

\* What one gains is added to the total.
LEMMA TotalOfAdded ==
  ASSUME NEW b, NEW c, NEW x \in Assets, NEW y, NEW n, AddsOf(b, c, x, y, n)
  PROVE  TotalHeld(b, x) \in Nat /\ TotalHeld(c, x) = TotalHeld(b, x) + n
<1> DEFINE f == [h \in Holders |-> b[h][x]]
           g == [h \in Holders |-> c[h][x]]
<1>1. AddsAt(f, g, Holders, y, n)
  BY HoldersAssumption DEF AddsOf, AddsAt, Balances
<1> HIDE DEF f, g
<1>2. /\ SumFunctionOnSet(f, Holders) \in Nat
      /\ SumFunctionOnSet(g, Holders) = SumFunctionOnSet(f, Holders) + n
  BY <1>1, SumOfAdded
<1> QED
  BY <1>2 DEF TotalHeld, f, g

\* What one gives and another gets leaves the total.
LEMMA TotalOfMoved ==
  ASSUME NEW b, NEW c, NEW x \in Assets, NEW y, NEW z, MovesOf(b, c, x, y, z)
  PROVE  TotalHeld(c, x) = TotalHeld(b, x)
<1> DEFINE f == [h \in Holders |-> b[h][x]]
           g == [h \in Holders |-> c[h][x]]
<1>1. /\ \A h \in Holders : f[h] \in Nat /\ g[h] \in Nat
      /\ y \in Holders /\ z \in Holders /\ y # z /\ g[y] + g[z] = f[y] + f[z]
      /\ \A h \in Holders \ {y, z} : g[h] = f[h]
  BY DEF MovesOf, Balances
<1> HIDE DEF f, g
<1>2. SumFunctionOnSet(g, Holders) = SumFunctionOnSet(f, Holders)
  BY <1>1, HoldersAssumption, SumOfMoved
<1> QED
  BY <1>2 DEF TotalHeld, f, g

-----------------------------------------------------------------------------
(* What a step does to the value. *)

ValueKept == balance' = balance /\ LiveSessions' = LiveSessions

ValueMoves(x, y, z) ==
  /\ LiveSessions' = LiveSessions
  /\ MovesOf(balance, balance', x, y, z)
  /\ \A w \in Assets \ {x} : SameOf(balance, balance', w)

RentGoesIn(ak, p) ==
  /\ ak \notin LiveSessions /\ LiveSessions' = LiveSessions \cup {ak}
  /\ AddsOf(balance', balance, Native, p, SESSION_RENT)
  /\ \A w \in Assets \ {Native} : SameOf(balance, balance', w)

RentComesOut(ak, p) ==
  /\ ak \in LiveSessions /\ LiveSessions' = LiveSessions \ {ak}
  /\ AddsOf(balance, balance', Native, p, SESSION_RENT)
  /\ \A w \in Assets \ {Native} : SameOf(balance, balance', w)

ValueChanges ==
  \/ ValueKept
  \/ \E x \in Assets : \E y, z : ValueMoves(x, y, z)
  \/ \E ak, p : RentGoesIn(ak, p)
  \/ \E ak, p : RentComesOut(ak, p)

\* The rents are naturals, and SOL an asset.
LEMMA RentTypes ==
  SESSION_RENT \in Nat /\ RENT_FLOOR \in Nat /\ Native \in Assets /\ \A n \in U64 : n \in Nat
  BY WardenAssumption, CapsAssumption DEF U64, Assets

\* Replacing one session makes it live or not, and no other.
LEMMA LiveAfterReplacing ==
  ASSUME TypeOK, NEW a \in Accounts, NEW k \in Keys, NEW s,
         session' = [session EXCEPT ![a][k] = s]
  PROVE  /\ Exists(s) => LiveSessions' = LiveSessions \cup {<<a, k>>}
         /\ ~ Exists(s) => LiveSessions' = LiveSessions \ {<<a, k>>}
         /\ <<a, k>> \in LiveSessions <=> Exists(session[a][k])
<1>1. \A b \in Accounts, j \in Keys :
        session'[b][j] = IF b = a /\ j = k THEN s ELSE session[b][j]
  BY DEF TypeOK
<1>2. \A b \in Accounts, j \in Keys :
        /\ <<b, j>> \in LiveSessions <=> Exists(session[b][j])
        /\ <<b, j>> \in LiveSessions' <=> Exists(session'[b][j])
  BY DEF LiveSessions
<1>3. /\ \A ak \in LiveSessions : \E b \in Accounts, j \in Keys : ak = <<b, j>>
      /\ \A ak \in LiveSessions' : \E b \in Accounts, j \in Keys : ak = <<b, j>>
  BY DEF LiveSessions
<1>6. \A b \in Accounts, j \in Keys : <<b, j>> = <<a, k>> <=> b = a /\ j = k
  OBVIOUS
<1>4. CASE Exists(s)
  <2>1. \A b \in Accounts, j \in Keys :
          <<b, j>> \in LiveSessions' <=> <<b, j>> \in LiveSessions \cup {<<a, k>>}
    <3>1. ASSUME NEW b \in Accounts, NEW j \in Keys
          PROVE  <<b, j>> \in LiveSessions'
                   <=> <<b, j>> \in LiveSessions \/ <<b, j>> = <<a, k>>
      BY <1>1, <1>2, <1>4, <1>6
    <3> QED
      BY <3>1
  <2>2. LiveSessions' = LiveSessions \cup {<<a, k>>}
    BY <1>3, <2>1
  <2> QED
    BY <1>2, <1>4, <2>2
<1>5. CASE ~ Exists(s)
  <2>1. \A b \in Accounts, j \in Keys :
          <<b, j>> \in LiveSessions' <=> <<b, j>> \in LiveSessions \ {<<a, k>>}
    <3>1. ASSUME NEW b \in Accounts, NEW j \in Keys
          PROVE  <<b, j>> \in LiveSessions'
                   <=> <<b, j>> \in LiveSessions /\ <<b, j>> # <<a, k>>
      BY <1>1, <1>2, <1>5, <1>6
    <3> QED
      BY <3>1
  <2>2. LiveSessions' = LiveSessions \ {<<a, k>>}
    BY <1>3, <2>1
  <2> QED
    BY <1>2, <1>5, <2>2
<1> QED
  BY <1>4, <1>5

\* A transfer moves one asset from the vault to somebody else.
LEMMA MoveMovesValue ==
  ASSUME TypeOK, NEW a \in Accounts, NEW dest \in Holders, NEW asset \in Assets,
         NEW amount \in U64, Move(a, dest, asset, amount), LiveSessions' = LiveSessions
  PROVE  ValueMoves(asset, a, dest)
<1>1. /\ a \in Holders /\ balance \in Balances /\ amount \in Nat
  BY RentTypes DEF TypeOK, Holders, Balances
<1>2. balance' \in Balances
  BY MoveKeepsType DEF Balances
<1>3. /\ dest # a
      /\ balance'[a][asset] = balance[a][asset] - amount
      /\ balance'[dest][asset] = balance[dest][asset] + amount
      /\ \A h \in Holders, x \in Assets :
           (h \notin {a, dest} \/ x # asset) => balance'[h][x] = balance[h][x]
  BY MoveBalances
<1>4. balance[a][asset] \in Nat /\ balance[dest][asset] \in Nat
  BY <1>1 DEF Balances
<1>5. MovesOf(balance, balance', asset, a, dest)
  BY <1>1, <1>2, <1>3, <1>4 DEF MovesOf
<1>6. \A w \in Assets \ {asset} : SameOf(balance, balance', w)
  BY <1>1, <1>3 DEF SameOf
<1> QED
  BY <1>5, <1>6 DEF ValueMoves

\* A payment of rent, or a refund, changes what one outsider has of SOL.
LEMMA RentBalances ==
  ASSUME TypeOK, NEW p \in Holders, NEW n, balance' = [balance EXCEPT ![p][Native] = n]
  PROVE  /\ balance'[p][Native] = n
         /\ \A h \in Holders, x \in Assets :
              (h # p \/ x # Native) => balance'[h][x] = balance[h][x]
<1>1. balance \in Balances
  BY DEF TypeOK, Balances
<1> QED
  BY <1>1, RentTypes DEF Balances

\* Closing a session gives its rent back.
LEMMA CloseFreesRent ==
  ASSUME TypeOK, NEW a \in Accounts, NEW k \in Keys, NEW p \in Outsiders,
         Close(a, k, p), Exists(session[a][k])
  PROVE  RentComesOut(<<a, k>>, p)
<1>1. /\ session' = [session EXCEPT ![a][k] = ZeroSession]
      /\ balance' = [balance EXCEPT ![p][Native] = balance[p][Native] + SESSION_RENT]
  BY DEF Close, Refund
<1>2. ~ Exists(ZeroSession)
  BY DEF Exists, ZeroSession
<1>3. p \in Holders /\ balance \in Balances
  BY DEF Holders, TypeOK, Balances
<1>4. LiveSessions' = LiveSessions \ {<<a, k>>} /\ <<a, k>> \in LiveSessions
  BY <1>1, <1>2, LiveAfterReplacing
<1>5. /\ balance'[p][Native] = balance[p][Native] + SESSION_RENT
      /\ \A h \in Holders, x \in Assets :
           (h # p \/ x # Native) => balance'[h][x] = balance[h][x]
  BY <1>1, <1>3, RentBalances
<1>6. AddsOf(balance, balance', Native, p, SESSION_RENT)
  BY <1>3, <1>5, RentTypes DEF AddsOf
<1>7. \A w \in Assets \ {Native} : SameOf(balance, balance', w)
  BY <1>3, <1>5 DEF SameOf
<1> QED
  BY <1>4, <1>6, <1>7 DEF RentComesOut

\* Creating a session puts its rent into it; a re-grant moves nothing.
LEMMA GrantPaysRent ==
  ASSUME TypeOK, TypeOK', NEW a \in Accounts, NEW s \in signed, NEW p \in Outsiders,
         s.transcript.op = "grant_session", GrantSession(a, s, p)
  PROVE  ValueChanges
<1> DEFINE body == s.transcript.body
           k == body.session_pubkey
           old == session[a][k]
           rent == IF Exists(old) THEN 0 ELSE SESSION_RENT
           new == Granted(old, body, account[a].generation)
<1>1. k \in Keys
  BY DEF TypeOK, SignatureOK, GrantBody
<1>2. /\ session' = [session EXCEPT ![a][k] = new]
      /\ balance[p][Native] >= rent
      /\ balance' = [balance EXCEPT ![p][Native] = balance[p][Native] - rent]
  BY DEF GrantSession
<1>3. Exists(new)
  <2>1. /\ old \in SessionKey /\ CanMergeCaps(old, body) /\ ValidShape(body)
        /\ body.caps \in Seq(MintCap) /\ body.lifetime_cap \in Seq(U64)
    BY <1>1 DEF TypeOK, SignatureOK, GrantBody, GrantSession
  <2>2. MergeCaps(old, body) \in SessionKey
    BY <2>1, MergeCapsIsASession
  <2> HIDE DEF old, body
  <2>3. new.version = 1
    BY <2>2, GrantedFields
  <2> QED
    BY <2>3 DEF Exists
<1>4. /\ p \in Holders /\ balance \in Balances /\ balance' \in Balances
      /\ balance[p][Native] \in Nat
  BY RentTypes DEF Holders, TypeOK, Balances
<1> HIDE DEF new, k
<1>5. LiveSessions' = LiveSessions \cup {<<a, k>>}
      /\ (<<a, k>> \in LiveSessions <=> Exists(old))
  BY <1>1, <1>2, <1>3, LiveAfterReplacing
<1>6. /\ balance'[p][Native] = balance[p][Native] - rent
      /\ \A h \in Holders, x \in Assets :
           (h # p \/ x # Native) => balance'[h][x] = balance[h][x]
  <2> HIDE DEF rent
  <2> QED
    BY <1>2, <1>4, RentBalances
<1>7. \A w \in Assets \ {Native} : SameOf(balance, balance', w)
  BY <1>4, <1>6 DEF SameOf
<1>8. CASE Exists(old)
  <2>1. LiveSessions' = LiveSessions
    BY <1>5, <1>8
  <2>2. balance' = balance
    <3>1. balance[p][Native] - rent = balance[p][Native]
      BY <1>4, <1>8
    <3>2. \A h \in Holders : \A x \in Assets : balance'[h][x] = balance[h][x]
      BY <1>6, <3>1
    <3> QED
      BY <1>4, <3>2 DEF Balances
  <2> QED
    BY <2>1, <2>2 DEF ValueChanges, ValueKept
<1>9. CASE ~ Exists(old)
  <2>1. AddsOf(balance', balance, Native, p, SESSION_RENT)
    BY <1>4, <1>6, <1>9, RentTypes DEF AddsOf
  <2>2. RentGoesIn(<<a, k>>, p)
    BY <1>5, <1>7, <1>9, <2>1 DEF RentGoesIn
  <2> QED
    BY <2>2 DEF ValueChanges
<1> QED
  BY <1>8, <1>9

\* Creating an account fills it up to its rent from the payer.
LEMMA CreationMovesRent ==
  ASSUME TypeOK, TypeOK', NEW a \in Accounts, NEW args \in PolicyChoices, NEW p \in Outsiders,
         CreateAccount(a, args, p)
  PROVE  ValueChanges /\ balance'[a][Native] >= RENT_FLOOR
<1> DEFINE held == balance[a][Native]
           rent == IF held >= RENT_FLOOR THEN 0 ELSE RENT_FLOOR - held
<1>1. /\ balance[p][Native] >= rent
      /\ balance' = [balance EXCEPT ![p][Native] = @ - rent, ![a][Native] = @ + rent]
      /\ session' = session
  BY DEF CreateAccount
<1>2. /\ p \in Holders /\ a \in Holders /\ a # p
      /\ balance \in Balances /\ balance' \in Balances
      /\ balance[p][Native] \in Nat /\ held \in Nat
  BY RentTypes, PayersAreOthers DEF Holders, TypeOK, Balances
<1>3. rent \in Nat /\ held + rent >= RENT_FLOOR
  BY <1>2, RentTypes
<1> HIDE DEF rent
<1>4. /\ balance'[p][Native] = balance[p][Native] - rent
      /\ balance'[a][Native] = balance[a][Native] + rent
      /\ \A h \in Holders, x \in Assets :
           (h \notin {a, p} \/ x # Native) => balance'[h][x] = balance[h][x]
  BY <1>1, <1>2, RentTypes DEF Balances
<1>5. MovesOf(balance, balance', Native, p, a)
  <2>1. /\ balance'[p][Native] + balance'[a][Native] = balance[p][Native] + balance[a][Native]
        /\ \A h \in Holders \ {p, a} : balance'[h][Native] = balance[h][Native]
    BY <1>2, <1>3, <1>4, RentTypes
  <2> QED
    BY <1>2, <2>1 DEF MovesOf
<1>6. \A w \in Assets \ {Native} : SameOf(balance, balance', w)
  BY <1>2, <1>4 DEF SameOf
<1>7. LiveSessions' = LiveSessions
  BY <1>1 DEF LiveSessions
<1>8. ValueMoves(Native, p, a)
  BY <1>5, <1>6, <1>7 DEF ValueMoves
<1> QED
  BY <1>3, <1>4, <1>8, RentTypes DEF ValueChanges

FloorKept ==
  \A b \in Accounts :
    account'[b].version = account[b].version
      /\ (balance[b][Native] >= RENT_FLOOR => balance'[b][Native] >= RENT_FLOOR)

\* What outsiders pay or get back leaves accounts above their rent.
LEMMA OutsidersKeepFloor ==
  ASSUME TypeOK, NEW p \in Outsiders, NEW n, balance' = [balance EXCEPT ![p][Native] = n],
         \A b \in Accounts : account'[b].version = account[b].version
  PROVE  FloorKept
  BY OutsiderPays DEF FloorKept

\* A transfer leaves every account above its rent.
LEMMA MoveKeepsFloor ==
  ASSUME TypeOK, NEW a \in Accounts, NEW dest \in Holders, NEW asset \in Assets,
         NEW amount \in U64, Move(a, dest, asset, amount),
         \A b \in Accounts : account'[b].version = account[b].version
  PROVE  FloorKept
<1>1. /\ dest # a
      /\ balance'[a][asset] = balance[a][asset] - amount
      /\ balance'[dest][asset] = balance[dest][asset] + amount
      /\ \A h \in Holders, x \in Assets :
           (h \notin {a, dest} \/ x # asset) => balance'[h][x] = balance[h][x]
  BY MoveBalances
<1>2. amount \in Nat /\ RENT_FLOOR \in Nat /\ Native \in Assets
  BY RentTypes
<1>3. \A b \in Accounts : b \in Holders /\ balance[b][Native] \in Nat
  BY <1>2 DEF Holders, TypeOK
<1>4. asset = Native => balance[a][Native] - amount >= RENT_FLOOR
  BY DEF Move
<1>5. ASSUME NEW b \in Accounts, balance[b][Native] >= RENT_FLOOR
      PROVE  balance'[b][Native] >= RENT_FLOOR
  <2>1. CASE asset = Native /\ b = a
    BY <1>1, <1>4, <2>1
  <2>2. CASE asset = Native /\ b = dest
    BY <1>1, <1>2, <1>3, <1>5, <2>2
  <2>3. CASE asset # Native \/ b \notin {a, dest}
    BY <1>1, <1>2, <1>3, <1>5, <2>3
  <2> QED
    BY <2>1, <2>2, <2>3
<1> QED
  BY <1>5 DEF FloorKept

\* A root instruction moves one asset, the rent of a session, or nothing.
LEMMA RootInstructionValue ==
  ASSUME TypeOK, TypeOK', NEW a \in Accounts, NEW s \in signed, RootInstruction(a, s)
  PROVE  ValueChanges /\ FloorKept
<1>0. \A b \in Accounts : account'[b].version = account[b].version
  BY RootInstructionControl DEF KeepsControl, Freezes, Unfreezes, KeepsUse
<1>1. CASE RotateNonce(a, s) \/ Freeze(a, s) \/ Unfreeze(a, s)
  <2>1. balance' = balance /\ session' = session
    BY <1>1 DEF RotateNonce, Freeze, Unfreeze
  <2> QED
    BY <1>0, <2>1 DEF ValueChanges, ValueKept, LiveSessions, FloorKept
<1>2. ASSUME NEW p \in Outsiders, GrantSession(a, s, p), s.transcript.op = "grant_session"
      PROVE  ValueChanges /\ FloorKept
  <2>1. PICK n : balance' = [balance EXCEPT ![p][Native] = n]
    <3>1. PICK rent : balance' = [balance EXCEPT ![p][Native] = balance[p][Native] - rent]
      BY <1>2 DEF GrantSession
    <3> QED
      BY <3>1
  <2>2. FloorKept
    BY <1>0, <2>1, OutsidersKeepFloor
  <2> QED
    BY <1>2, <2>2, GrantPaysRent
<1>3. ASSUME NEW p \in Outsiders, RevokeSessionRoot(a, s, p), s.transcript.op = "revoke_session"
      PROVE  ValueChanges /\ FloorKept
  <2>1. PICK k \in Keys : Close(a, k, p) /\ Exists(session[a][k])
    BY <1>3 DEF RevokeSessionRoot, TypeOK, SignatureOK, RevokeBody
  <2>2. balance' = [balance EXCEPT ![p][Native] = balance[p][Native] + SESSION_RENT]
    BY <2>1 DEF Close, Refund
  <2>3. FloorKept
    BY <1>0, <2>2, OutsidersKeepFloor
  <2>4. RentComesOut(<<a, k>>, p)
    BY <2>1, CloseFreesRent
  <2> QED
    BY <2>3, <2>4 DEF ValueChanges
<1>4. ASSUME NEW asset \in Assets, NEW dest \in Holders, NEW n \in RootTransferAmounts,
             TransferRoot(a, s, dest, asset, n)
      PROVE  ValueChanges /\ FloorKept
  <2>1. n \in U64 /\ Move(a, dest, asset, n) /\ session' = session
    BY <1>4, WardenAssumption DEF TransferRoot
  <2>2. LiveSessions' = LiveSessions
    BY <2>1 DEF LiveSessions
  <2>3. ValueMoves(asset, a, dest)
    BY <2>1, <2>2, MoveMovesValue
  <2>4. FloorKept
    BY <1>0, <2>1, MoveKeepsFloor
  <2> QED
    BY <2>3, <2>4 DEF ValueChanges
<1> QED
  BY <1>1, <1>2, <1>3, <1>4 DEF RootInstruction

\* A charge does not make a session live or not.
LEMMA ChargedStaysLive ==
  ASSUME TypeOK, NEW a \in Accounts, NEW k \in Keys, NEW mint, NEW amount,
         session' = [session EXCEPT ![a][k] = Charged(@, mint, amount)],
         Exists(session[a][k])
  PROVE  LiveSessions' = LiveSessions
<1>1. PICK new : /\ new = Charged(session[a][k], mint, amount)
                 /\ session' = [session EXCEPT ![a][k] = new]
  BY DEF TypeOK
<1>2. Exists(new)
  BY <1>1 DEF Charged, Exists, TypeOK, SessionKey
<1>3. /\ Exists(new) => LiveSessions' = LiveSessions \cup {<<a, k>>}
      /\ <<a, k>> \in LiveSessions <=> Exists(session[a][k])
  BY <1>1, LiveAfterReplacing
<1> QED
  BY <1>2, <1>3

\* Every step but a creation moves one asset, the rent of a session, or nothing, and
\* leaves every account its own rent; a creation fills the account up to its rent.
LEMMA ValueStep ==
  ASSUME TypeOK, TypeOK', [Next]_vars
  PROVE  /\ ValueChanges
         /\ \/ FloorKept
            \/ \E a \in Accounts :
                 /\ balance'[a][Native] >= RENT_FLOOR
                 /\ \A b \in Accounts \ {a} : account'[b].version = account[b].version
                 /\ \A b \in Accounts : balance'[b][Native] >= balance[b][Native]
<1>1. CASE Tick \/ UNCHANGED vars
  BY <1>1 DEF Tick, vars, ValueChanges, ValueKept, LiveSessions, FloorKept
<1>2. ASSUME NEW a \in Accounts, NEW args \in PolicyChoices, NEW p \in Outsiders,
             CreateAccount(a, args, p)
      PROVE  /\ ValueChanges
             /\ balance'[a][Native] >= RENT_FLOOR
             /\ \A b \in Accounts \ {a} : account'[b].version = account[b].version
             /\ \A b \in Accounts : balance'[b][Native] >= balance[b][Native]
  <2>1. ValueChanges /\ balance'[a][Native] >= RENT_FLOOR
    BY <1>2, CreationMovesRent
  <2>2. \A b \in Accounts : balance'[b][Native] >= balance[b][Native]
    BY <1>2, CreationTakesNothing, RentTypes
  <2>3. \A b \in Accounts \ {a} : account'[b].version = account[b].version
    BY <1>2 DEF CreateAccount, TypeOK
  <2> QED
    BY <2>1, <2>2, <2>3
<1>3. ASSUME NEW a \in Accounts, Owner(a) PROVE ValueChanges /\ FloorKept
  <2>1. balance' = balance /\ session' = session /\ account' = account
    BY <1>3 DEF Owner, SignPlain, SignGrant, SignRevoke, SignTransfer, Sign
  <2> QED
    BY <2>1 DEF ValueChanges, ValueKept, LiveSessions, FloorKept
<1>4. ASSUME NEW a \in Accounts, NEW s \in signed, RootInstruction(a, s)
      PROVE  ValueChanges /\ FloorKept
  BY <1>4, RootInstructionValue
<1>5. ASSUME NEW a \in Accounts, NEW k \in Keys, NEW p \in Outsiders, RevokeSessionSelf(a, k, p)
      PROVE  ValueChanges /\ FloorKept
  <2>1. Close(a, k, p) /\ Exists(session[a][k]) /\ account' = account
    BY <1>5 DEF RevokeSessionSelf
  <2>2. balance' = [balance EXCEPT ![p][Native] = balance[p][Native] + SESSION_RENT]
    BY <2>1 DEF Close, Refund
  <2>3. FloorKept
    BY <2>1, <2>2, OutsidersKeepFloor
  <2>4. RentComesOut(<<a, k>>, p)
    BY <2>1, CloseFreesRent
  <2> QED
    BY <2>3, <2>4 DEF ValueChanges
<1>6. ASSUME NEW a \in Accounts, NEW k \in Keys, NEW owner \in Accounts, NEW asset \in Assets,
             NEW dest \in Holders, NEW n \in TransferAmounts,
             TransferSession(a, owner, k, dest, asset, n)
      PROVE  ValueChanges /\ FloorKept
  <2>1. /\ n \in U64 /\ Move(a, dest, asset, n) /\ Exists(session[owner][k])
        /\ session' = [session EXCEPT ![owner][k] = Charged(@, CapMint(asset), n)]
        /\ account' = [account EXCEPT ![a] = ChargedAccount(account[a], CapMint(asset), n)]
    BY <1>6, WardenAssumption DEF TransferSession, AuthorizeSession, MayTransfer
  <2>2. LiveSessions' = LiveSessions
    BY <2>1, ChargedStaysLive
  <2>3. ValueMoves(asset, a, dest)
    BY <2>1, <2>2, MoveMovesValue
  <2>4. \A b \in Accounts : account'[b].version = account[b].version
    <3>1. ChargedAccount(account[a], CapMint(asset), n).version = account[a].version
      BY ChargedControl DEF TypeOK
    <3> QED
      BY <2>1, <3>1 DEF TypeOK
  <2>5. FloorKept
    BY <2>1, <2>4, MoveKeepsFloor
  <2> QED
    BY <2>3, <2>5 DEF ValueChanges
<1> QED
  BY <1>1, <1>2, <1>3, <1>4, <1>5, <1>6 DEF Next, SessionInstruction

-----------------------------------------------------------------------------
(* Conservation. *)

ValueInv == ValueConserved /\ IsFiniteSet(LiveSessions)

RentIn(live) == SESSION_RENT * Cardinality(live)

\* One more live session holds one more rent.
LEMMA RentOfOneMore ==
  ASSUME NEW live, IsFiniteSet(live), NEW ak, ak \notin live
  PROVE  /\ IsFiniteSet(live \cup {ak})
         /\ RentIn(live) \in Nat
         /\ RentIn(live \cup {ak}) = RentIn(live) + SESSION_RENT
<1>1. /\ IsFiniteSet(live \cup {ak}) /\ Cardinality(live) \in Nat
      /\ Cardinality(live \cup {ak}) = Cardinality(live) + 1
  BY FS_AddElement, FS_CardinalityType
<1>2. SESSION_RENT \in Nat
  BY RentTypes
<1>3. PICK n \in Nat : n = Cardinality(live)
  BY <1>1
<1>4. /\ SESSION_RENT * (n + 1) = SESSION_RENT * n + SESSION_RENT
      /\ SESSION_RENT * n \in Nat
  BY <1>2
<1> QED
  BY <1>1, <1>3, <1>4 DEF RentIn

\* An account above its rent stays above it, a new one starts above it.
LEMMA FloorHolds ==
  ASSUME TypeOK, TypeOK', [Next]_vars, NEW b \in Accounts, account'[b].version = 1,
         account[b].version = 1 => balance[b][Native] >= RENT_FLOOR
  PROVE  balance'[b][Native] >= RENT_FLOOR
<1>1. CASE FloorKept
  BY <1>1 DEF FloorKept
<1>2. ASSUME NEW a \in Accounts, balance'[a][Native] >= RENT_FLOOR,
             \A c \in Accounts \ {a} : account'[c].version = account[c].version,
             \A c \in Accounts : balance'[c][Native] >= balance[c][Native]
      PROVE  balance'[b][Native] >= RENT_FLOOR
  <2>1. /\ b \in Holders /\ balance[b][Native] \in Nat /\ balance'[b][Native] \in Nat
        /\ RENT_FLOOR \in Nat
    BY RentTypes DEF TypeOK, Holders
  <2> QED
    BY <1>2, <2>1
<1> QED
  BY <1>1, <1>2, ValueStep

\* No step creates or destroys value.
LEMMA ValueInvHolds == TypeOK /\ TypeOK' /\ ValueInv /\ [Next]_vars => ValueInv'
<1> SUFFICES ASSUME TypeOK, TypeOK', ValueInv, [Next]_vars PROVE ValueInv'
  OBVIOUS
<1> DEFINE All(x) == TotalHeld(balance, x) + (IF x = Native THEN RentIn(LiveSessions) ELSE 0)
           AllNext(x) ==
             TotalHeld(balance', x) + (IF x = Native THEN RentIn(LiveSessions') ELSE 0)
<1>1. ASSUME NEW b \in Accounts, account'[b].version = 1
      PROVE  balance'[b][Native] >= RENT_FLOOR
  BY <1>1, FloorHolds DEF ValueInv, ValueConserved
<1>2. IsFiniteSet(LiveSessions)
  BY DEF ValueInv
<1>3. Native \in Assets
  BY RentTypes
<1>4. IsFiniteSet(LiveSessions') /\ \A x \in Assets : AllNext(x) = All(x)
  <2>1. CASE ValueKept
    BY <1>2, <2>1 DEF ValueKept
  <2>2. ASSUME NEW x \in Assets, NEW y, NEW z, ValueMoves(x, y, z)
        PROVE  IsFiniteSet(LiveSessions') /\ \A w \in Assets : AllNext(w) = All(w)
    <3>1. ASSUME NEW w \in Assets PROVE TotalHeld(balance', w) = TotalHeld(balance, w)
      <4>1. CASE w = x
        BY <2>2, <4>1, TotalOfMoved DEF ValueMoves
      <4>2. CASE w # x
        BY <2>2, <4>2, TotalOfSame DEF ValueMoves
      <4> QED
        BY <4>1, <4>2
    <3> QED
      BY <1>2, <2>2, <3>1 DEF ValueMoves
  <2>3. ASSUME NEW ak, NEW p, RentGoesIn(ak, p)
        PROVE  IsFiniteSet(LiveSessions') /\ \A w \in Assets : AllNext(w) = All(w)
    <3>1. /\ IsFiniteSet(LiveSessions') /\ RentIn(LiveSessions) \in Nat
          /\ RentIn(LiveSessions') = RentIn(LiveSessions) + SESSION_RENT
      BY <1>2, <2>3, RentOfOneMore DEF RentGoesIn
    <3>2. /\ TotalHeld(balance', Native) \in Nat /\ SESSION_RENT \in Nat
          /\ TotalHeld(balance, Native) = TotalHeld(balance', Native) + SESSION_RENT
      BY <1>3, <2>3, RentTypes, TotalOfAdded DEF RentGoesIn
    <3>3. \A w \in Assets \ {Native} : TotalHeld(balance', w) = TotalHeld(balance, w)
      BY <2>3, TotalOfSame DEF RentGoesIn
    <3>4. AllNext(Native) = All(Native)
      BY <3>1, <3>2
    <3> QED
      BY <3>1, <3>3, <3>4
  <2>4. ASSUME NEW ak, NEW p, RentComesOut(ak, p)
        PROVE  IsFiniteSet(LiveSessions') /\ \A w \in Assets : AllNext(w) = All(w)
    <3>1. /\ IsFiniteSet(LiveSessions') /\ RentIn(LiveSessions') \in Nat
          /\ RentIn(LiveSessions) = RentIn(LiveSessions') + SESSION_RENT
      <4>1. IsFiniteSet(LiveSessions') /\ ak \notin LiveSessions'
            /\ LiveSessions = LiveSessions' \cup {ak}
        BY <1>2, <2>4, FS_RemoveElement DEF RentComesOut
      <4> QED
        BY <4>1, RentOfOneMore
    <3>2. /\ TotalHeld(balance, Native) \in Nat /\ SESSION_RENT \in Nat
          /\ TotalHeld(balance', Native) = TotalHeld(balance, Native) + SESSION_RENT
      BY <1>3, <2>4, RentTypes, TotalOfAdded DEF RentComesOut
    <3>3. \A w \in Assets \ {Native} : TotalHeld(balance', w) = TotalHeld(balance, w)
      BY <2>4, TotalOfSame DEF RentComesOut
    <3>4. AllNext(Native) = All(Native)
      BY <3>1, <3>2
    <3> QED
      BY <3>1, <3>3, <3>4
  <2> HIDE DEF All, AllNext
  <2> QED
    BY <2>1, <2>2, <2>3, <2>4, ValueStep DEF ValueChanges
<1>5. \A x \in Assets : All(x) = TotalHeld(InitialFunds, x)
  BY DEF ValueInv, ValueConserved, RentIn
<1>6. \A x \in Assets : AllNext(x) = TotalHeld(InitialFunds, x)
  BY <1>4, <1>5
<1> QED
  BY <1>1, <1>4, <1>6 DEF ValueInv, ValueConserved, RentIn

\* At the start everything is where it was put, and no session holds rent.
LEMMA InitValueInv == Init => ValueInv
<1> SUFFICES ASSUME Init PROVE ValueInv
  OBVIOUS
<1>1. LiveSessions = {}
  BY DEF Init, LiveSessions, Exists, ZeroSession
<1>2. IsFiniteSet(LiveSessions) /\ RentIn(LiveSessions) = 0
  <2>1. Cardinality(LiveSessions) = 0 /\ IsFiniteSet(LiveSessions)
    BY <1>1, FS_EmptySet
  <2> QED
    BY <2>1, RentTypes DEF RentIn
<1>3. ASSUME NEW x \in Assets
      PROVE  TotalHeld(balance, x) \in Nat /\ balance = InitialFunds
  <2> DEFINE f == [h \in Holders |-> balance[h][x]]
  <2>1. balance = InitialFunds
    BY DEF Init
  <2>2. \A h \in Holders : f[h] \in Nat
    BY <2>1, WardenAssumption, RentTypes
  <2> HIDE DEF f
  <2>3. SumFunctionOnSet(f, Holders) \in Nat
    BY <2>2, HoldersAssumption, SumIsNatural
  <2> QED
    BY <2>1, <2>3 DEF TotalHeld, f
<1>4. \A a \in Accounts : account[a].version = 0
  BY DEF Init, ZeroAccount
<1> QED
  BY <1>2, <1>3, <1>4 DEF ValueInv, ValueConserved, RentIn

\* No value appears or disappears, whatever is transferred, granted, closed or created:
\* what everybody holds and the rent of live sessions is what there was at the start,
\* and no account falls below its own rent (transfer.rs move_lamports, `init`, `close`).
THEOREM NoValueAppears == Spec => []ValueConserved
<1>1. ValueInv => ValueConserved
  BY DEF ValueInv
<1> QED
  BY <1>1, TypeCorrect, InitValueInv, ValueInvHolds, PTL DEF Spec

-----------------------------------------------------------------------------
(* What a step pays out of one vault, and what it charges for it. *)

PaysNothing(a) ==
  /\ account'[a].version = account[a].version
  /\ account'[a].policy = account[a].policy
  /\ account'[a].buckets = account[a].buckets
  /\ paid'[a] = paid[a]
  /\ \A x \in Assets : balance'[a][x] >= balance[a][x]

StartsEmpty(a) ==
  /\ account[a].version = 0
  /\ account'[a].buckets = [i \in CapSlots |-> EmptyBuckets]
  /\ paid' = paid

\* The bucket of the mint is debited, the history and the balance with it.
Pays(a, asset, amount) ==
  /\ account[a].version = 1
  /\ account'[a].policy = account[a].policy
  /\ BucketAdmits(a, CapMint(asset), amount)
  /\ account'[a].buckets =
       [account[a].buckets EXCEPT
          ![FindCap(account[a].policy.caps, CapMint(asset))] = Debited(@, amount, now)]
  /\ paid'[a] = [paid[a] EXCEPT
                   ![CapMint(asset)] =
                      [paid[a][CapMint(asset)] EXCEPT ![DayNumber(now)] = @ + amount]]
  /\ balance'[a][asset] = balance[a][asset] - amount
  /\ \A x \in Assets \ {asset} : balance'[a][x] = balance[a][x]
  /\ now' = now

\* ... by a root operation, or by a session with room for it, which is charged too.
PaidByRoot(a) == executed'[a] # executed[a]

PaidBySession(a, mint, amount) ==
  \E k \in Keys :
    /\ WithinSessionCaps(session[a][k], mint, amount)
    /\ session'[a][k] = Charged(session[a][k], mint, amount)

PaysOut(a) ==
  \E asset \in Assets, amount \in U64 :
    /\ Pays(a, asset, amount)
    /\ PaidByRoot(a) \/ PaidBySession(a, CapMint(asset), amount)

Payment(a) == PaysNothing(a) \/ StartsEmpty(a) \/ PaysOut(a)

\* Balances are naturals.
LEMMA BalanceTypes ==
  ASSUME TypeOK
  PROVE  /\ \A a \in Accounts : a \in Holders
         /\ \A h \in Holders, x \in Assets : balance[h][x] \in Nat
  BY DEF TypeOK, Holders

\* A step that touches neither vaults, accounts nor the history pays nothing.
LEMMA IdlePaysNothing ==
  ASSUME TypeOK, balance' = balance, account' = account, paid' = paid, NEW a \in Accounts
  PROVE  PaysNothing(a)
  BY BalanceTypes DEF PaysNothing

\* Nor does one that only writes an account, its buckets apart, and rents of outsiders.
LEMMA WritingPaysNothing ==
  ASSUME TypeOK, NEW a \in Accounts, NEW b \in Accounts, NEW new,
         account' = [account EXCEPT ![b] = new],
         new.version = account[b].version, new.policy = account[b].policy,
         new.buckets = account[b].buckets,
         paid' = paid, \A c \in Accounts : balance'[c] = balance[c]
  PROVE  PaysNothing(a)
<1>1. account'[a] = IF a = b THEN new ELSE account[a]
  BY DEF TypeOK
<1>2. \A x \in Assets : balance'[a][x] >= balance[a][x]
  BY BalanceTypes
<1> QED
  BY <1>1, <1>2 DEF PaysNothing

\* Consuming a nonce leaves the buckets alone, as do freezing and unfreezing.
LEMMA ConsumedBuckets ==
  ASSUME TypeOK, NEW a \in Accounts, NEW f, NEW t
  PROVE  /\ Consumed(a).buckets = account[a].buckets
         /\ LET new == [Consumed(a) EXCEPT !.frozen = f, !.frozen_at = t]
            IN  /\ new.buckets = account[a].buckets
                /\ new.version = account[a].version
                /\ new.policy = account[a].policy
<1>1. account[a] \in SmartAccount
  BY DEF TypeOK
<1>2. Consumed(a).buckets = account[a].buckets
  BY <1>1 DEF Consumed, SmartAccount
<1> QED
  BY <1>2, ConsumedControl DEF SmartAccount

\* Both transfers, on the account they are submitted for and on every other.
LEMMA TransferPays ==
  ASSUME TypeOK, NEW a \in Accounts, NEW b \in Accounts, NEW acct \in SmartAccount,
         acct.version = account[b].version, acct.policy = account[b].policy,
         acct.buckets = account[b].buckets, account[b].version = 1,
         NEW asset \in Assets, NEW dest \in Holders, NEW amount \in U64,
         BucketAdmits(b, CapMint(asset), amount),
         account' = [account EXCEPT ![b] = ChargedAccount(acct, CapMint(asset), amount)],
         Move(b, dest, asset, amount), Paid(b, CapMint(asset), amount), now' = now
  PROVE  IF a = b THEN Pays(a, asset, amount) ELSE PaysNothing(a)
<1> DEFINE mint == CapMint(asset)
           new == ChargedAccount(acct, mint, amount)
           day == DayNumber(now)
           h == [paid[b][mint] EXCEPT ![day] = @ + amount]
<1>1. /\ new.version = account[b].version /\ new.policy = account[b].policy
      /\ new.buckets = [account[b].buckets EXCEPT
           ![FindCap(account[b].policy.caps, mint)] = Debited(@, amount, now)]
  <2>1. new.version = acct.version /\ new.policy = acct.policy
    BY ChargedControl
  <2>2. new.buckets = [acct.buckets EXCEPT
          ![FindCap(acct.policy.caps, mint)] = Debited(@, amount, now)]
    BY DEF ChargedAccount, SmartAccount
  <2> QED
    BY <2>1, <2>2
<1>2. mint \in Mints /\ amount \in Nat
  BY CapMintIsAMint, RentTypes
<1>3. /\ dest # b
      /\ balance'[b][asset] = balance[b][asset] - amount
      /\ balance'[dest][asset] = balance[dest][asset] + amount
      /\ \A g \in Holders, x \in Assets :
           (g \notin {b, dest} \/ x # asset) => balance'[g][x] = balance[g][x]
  BY MoveBalances
<1>4. paid' = [paid EXCEPT ![b] = [paid[b] EXCEPT ![mint] = h]]
  BY DEF Paid, TypeOK
<1> HIDE DEF new, mint, h
<1>5. /\ account'[a] = IF a = b THEN new ELSE account[a]
      /\ paid'[a] = IF a = b THEN [paid[b] EXCEPT ![mint] = h] ELSE paid[a]
  BY <1>4 DEF TypeOK, new, mint
<1>6. CASE a = b
  <2>1. /\ balance'[a][asset] = balance[a][asset] - amount
        /\ \A x \in Assets \ {asset} : balance'[a][x] = balance[a][x]
    BY <1>3, <1>6, BalanceTypes
  <2> QED
    BY <1>1, <1>5, <1>6, <2>1 DEF Pays, mint, h
<1>7. CASE a # b
  <2>1. ASSUME NEW x \in Assets PROVE balance'[a][x] >= balance[a][x]
    <3>1. CASE a = dest /\ x = asset
      BY <1>2, <1>3, <3>1, BalanceTypes
    <3>2. CASE a # dest \/ x # asset
      BY <1>3, <1>7, <3>2, BalanceTypes
    <3> QED
      BY <3>1, <3>2
  <2> QED
    BY <1>5, <1>7, <2>1 DEF PaysNothing
<1> QED
  BY <1>6, <1>7

\* A root instruction pays what its bucket is charged with, or nothing.
LEMMA RootInstructionPays ==
  ASSUME TypeOK, NEW b \in Accounts, NEW s \in signed, RootInstruction(b, s), NEW a \in Accounts
  PROVE  Payment(a)
<1>0. /\ Consumed(b) \in SmartAccount
      /\ Consumed(b).version = account[b].version /\ Consumed(b).policy = account[b].policy
      /\ Consumed(b).buckets = account[b].buckets
  BY ConsumedControl, ConsumedBuckets
<1>1. CASE RotateNonce(b, s)
  <2>1. account' = [account EXCEPT ![b] = Consumed(b)] /\ paid' = paid /\ balance' = balance
    BY <1>1 DEF RotateNonce
  <2> QED
    BY <1>0, <2>1, WritingPaysNothing DEF Payment
<1>2. CASE Freeze(b, s) \/ Unfreeze(b, s)
  <2>1. PICK f, t : /\ account' = [account EXCEPT
                                     ![b] = [Consumed(b) EXCEPT !.frozen = f, !.frozen_at = t]]
                    /\ paid' = paid /\ balance' = balance
    BY <1>2 DEF Freeze, Unfreeze
  <2>2. PICK new : new = [Consumed(b) EXCEPT !.frozen = f, !.frozen_at = t]
    OBVIOUS
  <2>3. /\ new.version = account[b].version /\ new.policy = account[b].policy
        /\ new.buckets = account[b].buckets
    BY <2>2, ConsumedBuckets
  <2> QED
    BY <2>1, <2>2, <2>3, WritingPaysNothing DEF Payment
<1>3. ASSUME NEW p \in Outsiders, GrantSession(b, s, p) \/ RevokeSessionRoot(b, s, p)
      PROVE  Payment(a)
  <2>1. /\ account' = [account EXCEPT ![b] = Consumed(b)] /\ paid' = paid
        /\ \E n : balance' = [balance EXCEPT ![p][Native] = n]
    <3>1. CASE GrantSession(b, s, p)
      <4>1. PICK rent : balance' = [balance EXCEPT ![p][Native] = balance[p][Native] - rent]
        BY <3>1 DEF GrantSession
      <4> QED
        BY <3>1, <4>1 DEF GrantSession
    <3>2. CASE RevokeSessionRoot(b, s, p)
      <4>1. balance' = [balance EXCEPT ![p][Native] = balance[p][Native] + SESSION_RENT]
        BY <3>2 DEF RevokeSessionRoot, Close, Refund
      <4> QED
        BY <3>2, <4>1 DEF RevokeSessionRoot
    <3> QED
      BY <1>3, <3>1, <3>2
  <2>2. \A c \in Accounts : balance'[c] = balance[c]
    BY <2>1, OutsiderPays
  <2> QED
    BY <1>0, <2>1, <2>2, WritingPaysNothing DEF Payment
<1>4. ASSUME NEW asset \in Assets, NEW dest \in Holders, NEW n \in RootTransferAmounts,
             TransferRoot(b, s, dest, asset, n)
      PROVE  Payment(a)
  <2>1. /\ n \in U64 /\ BucketAdmits(b, CapMint(asset), n) /\ now' = now
        /\ account' = [account EXCEPT ![b] = ChargedAccount(Consumed(b), CapMint(asset), n)]
        /\ Move(b, dest, asset, n) /\ Paid(b, CapMint(asset), n) /\ TakesEffect(b, s)
        /\ Authorizes(s, b, "transfer", TransferBody(asset, dest, n))
    BY <1>4, WardenAssumption DEF TransferRoot
  <2>2. account[b].version = 1
    BY <2>1, AuthorizedByItsTranscript
  <2>3. IF a = b THEN Pays(a, asset, n) ELSE PaysNothing(a)
    BY <1>0, <2>1, <2>2, TransferPays
  <2>4. a = b => PaidByRoot(a)
    <3>1. Len(executed'[b]) = Len(executed[b]) + 1 /\ Len(executed[b]) \in Nat
      BY <2>1, EffectIsLast DEF TypeOK
    <3> QED
      BY <3>1 DEF PaidByRoot
  <2> QED
    BY <2>1, <2>3, <2>4 DEF Payment, PaysOut
<1> QED
  BY <1>1, <1>2, <1>3, <1>4 DEF RootInstruction

\* Every step pays out of a vault what it charges to its bucket, or nothing.
LEMMA PaymentStep ==
  ASSUME TypeOK, [Next]_vars, NEW a \in Accounts
  PROVE  Payment(a)
<1>1. CASE Tick \/ UNCHANGED vars
  BY <1>1, IdlePaysNothing DEF Tick, vars, Payment
<1>2. ASSUME NEW b \in Accounts, NEW args \in PolicyChoices, NEW p \in Outsiders,
             CreateAccount(b, args, p)
      PROVE  Payment(a)
  <2> DEFINE new == [ZeroAccount EXCEPT !.version = 1, !.policy = Expand(args)]
  <2>1. /\ account' = [account EXCEPT ![b] = new] /\ account[b].version = 0 /\ paid' = paid
    BY <1>2 DEF CreateAccount
  <2>2. new.buckets = [i \in CapSlots |-> EmptyBuckets]
    BY DEF ZeroAccount
  <2> HIDE DEF new
  <2>3. CASE a = b
    BY <2>1, <2>2, <2>3 DEF Payment, StartsEmpty, TypeOK
  <2>4. CASE a # b
    <3>1. \A x \in Assets : balance'[a][x] >= balance[a][x]
      BY <1>2, CreationTakesNothing
    <3> QED
      BY <2>1, <2>4, <3>1 DEF Payment, PaysNothing, TypeOK
  <2> QED
    BY <2>3, <2>4
<1>3. ASSUME NEW b \in Accounts, Owner(b) PROVE Payment(a)
  <2>1. balance' = balance /\ account' = account /\ paid' = paid
    BY <1>3 DEF Owner, SignPlain, SignGrant, SignRevoke, SignTransfer, Sign
  <2> QED
    BY <2>1, IdlePaysNothing DEF Payment
<1>4. ASSUME NEW b \in Accounts, NEW s \in signed, RootInstruction(b, s)
      PROVE  Payment(a)
  BY <1>4, RootInstructionPays
<1>5. ASSUME NEW b \in Accounts, NEW k \in Keys, NEW p \in Outsiders, RevokeSessionSelf(b, k, p)
      PROVE  Payment(a)
  <2>1. /\ account' = account /\ paid' = paid
        /\ balance' = [balance EXCEPT ![p][Native] = balance[p][Native] + SESSION_RENT]
    BY <1>5 DEF RevokeSessionSelf, Close, Refund
  <2>2. \A c \in Accounts : balance'[c] = balance[c]
    BY <2>1, OutsiderPays
  <2> QED
    BY <2>1, <2>2, BalanceTypes DEF Payment, PaysNothing
<1>6. ASSUME NEW b \in Accounts, NEW k \in Keys, NEW owner \in Accounts, NEW asset \in Assets,
             NEW dest \in Holders, NEW n \in TransferAmounts,
             TransferSession(b, owner, k, dest, asset, n)
      PROVE  Payment(a)
  <2>1. /\ n \in U64 /\ BucketAdmits(b, CapMint(asset), n) /\ now' = now
        /\ account' = [account EXCEPT ![b] = ChargedAccount(account[b], CapMint(asset), n)]
        /\ Move(b, dest, asset, n) /\ Paid(b, CapMint(asset), n)
        /\ account[b].version = 1 /\ owner = b
        /\ WithinSessionCaps(session[b][k], CapMint(asset), n)
        /\ session' = [session EXCEPT ![b][k] = Charged(@, CapMint(asset), n)]
    BY <1>6, WardenAssumption DEF TransferSession, AuthorizeSession
  <2>2. account[b] \in SmartAccount
    BY DEF TypeOK
  <2>3. IF a = b THEN Pays(a, asset, n) ELSE PaysNothing(a)
    BY <2>1, <2>2, TransferPays
  <2>4. PaidBySession(b, CapMint(asset), n)
    BY <2>1 DEF PaidBySession, TypeOK
  <2> QED
    BY <2>1, <2>3, <2>4 DEF Payment, PaysOut
<1> QED
  BY <1>1, <1>2, <1>3, <1>4, <1>5, <1>6 DEF Next, SessionInstruction

-----------------------------------------------------------------------------
(* The account-wide caps. *)

LastDay == MaxTime \div DAY_SECS

\* What a mint has been paid is what its bucket remembers and its cap allows.
KeepsCount(acct, h, m) ==
  LET i == FindCap(acct.policy.caps, m)
  IN  IF HasCap(acct.policy.caps, m)
        THEN /\ acct.buckets[i].ring_day_index <= DayNumber(now)
             /\ Tracks(acct.buckets[i], h, LastDay)
             /\ Capped(acct.policy.caps[i], h, LastDay)
        ELSE h = [d \in 0 .. LastDay |-> 0]

SpendInv ==
  \A a \in Accounts, m \in Mints :
    /\ account[a].version = 1 => KeepsCount(account[a], paid[a][m], m)
    /\ account[a].version = 0 => paid[a][m] = [d \in 0 .. LastDay |-> 0]

\* The days of the run are those up to its last one, and today is one of them.
LEMMA DaysOfTheRun ==
  /\ LastDay \in Nat /\ Days = 0 .. LastDay
  /\ \A t \in 0 .. MaxTime : t \in Nat /\ DayNumber(t) \in Nat /\ DayNumber(t) <= LastDay
<1>1. MaxTime \in Nat
  BY WardenAssumption
<1>2. LastDay \in Nat /\ DayNumber(MaxTime) = LastDay
  BY <1>1, Midnight DEF LastDay, DayNumber
<1>3. ASSUME NEW t \in 0 .. MaxTime
      PROVE  t \in Nat /\ DayNumber(t) \in Nat /\ DayNumber(t) <= LastDay
  <2>1. t \in Nat /\ t <= MaxTime
    BY <1>1
  <2>2. DayNumber(t) \in Nat /\ DayNumber(t) <= DayNumber(MaxTime)
    BY <1>1, <2>1, LaterDay, Midnight DEF DayNumber
  <2> QED
    BY <1>2, <2>1, <2>2
<1> QED
  BY <1>2, <1>3 DEF Days, LastDay

\* What every account has for a mint, in the terms the lemmas about buckets ask for.
LEMMA CountTypes ==
  ASSUME TypeOK, NEW a \in Accounts, NEW m \in Mints
  PROVE  /\ paid[a][m] \in [0 .. LastDay -> Nat] /\ LastDay \in Nat
         /\ now \in Nat /\ DayNumber(now) \in Nat /\ DayNumber(now) <= LastDay
         /\ account[a].version \in {0, 1}
         /\ \A i \in CapSlots :
              /\ account[a].buckets[i] \in MintBuckets
              /\ account[a].policy.caps[i].per_day \in Nat
              /\ account[a].policy.caps[i].per_30d \in Nat
<1>1. account[a] \in SmartAccount /\ now \in 0 .. MaxTime
      /\ paid[a][m] \in [Days -> Nat]
  BY DEF TypeOK
<1>2. /\ account[a].buckets \in [CapSlots -> MintBuckets] /\ account[a].version \in {0, 1}
      /\ account[a].policy.caps \in [CapSlots -> MintCap]
  BY <1>1 DEF SmartAccount, PolicyRecord, CapArray
<1>3. ASSUME NEW i \in CapSlots
      PROVE  /\ account[a].policy.caps[i].per_day \in Nat
             /\ account[a].policy.caps[i].per_30d \in Nat
  <2>1. account[a].policy.caps[i] \in MintCap
    BY <1>2
  <2> QED
    BY <2>1, RentTypes DEF MintCap
<1> QED
  BY <1>1, <1>2, <1>3, DaysOfTheRun

\* The clock does not disturb the count.
LEMMA CountKept ==
  ASSUME TypeOK, TypeOK', now <= now', NEW a \in Accounts, NEW m \in Mints,
         KeepsCount(account[a], paid[a][m], m),
         account'[a].policy = account[a].policy, account'[a].buckets = account[a].buckets,
         paid'[a] = paid[a]
  PROVE  KeepsCount(account[a], paid[a][m], m)'
<1>1. CASE HasCap(account[a].policy.caps, m)
  <2> DEFINE i == FindCap(account[a].policy.caps, m)
  <2>1. i \in CapSlots
    BY <1>1, FindCapFinds
  <2>2. account[a].buckets[i].ring_day_index <= DayNumber(now')
    <3>1. DayNumber(now) <= DayNumber(now')
      BY CountTypes, DaysOfTheRun, LaterDay DEF TypeOK
    <3>2. DayNumber(now) \in Nat /\ DayNumber(now') \in Nat
          /\ account[a].buckets[i].ring_day_index \in Nat
      BY <2>1, CountTypes, DaysOfTheRun DEF TypeOK, MintBuckets
    <3> QED
      BY <1>1, <3>1, <3>2 DEF KeepsCount
  <2> QED
    BY <1>1, <2>2 DEF KeepsCount
<1>2. CASE ~ HasCap(account[a].policy.caps, m)
  BY <1>2 DEF KeepsCount
<1> QED
  BY <1>1, <1>2

\* A new account's empty buckets count what has been paid: nothing.
LEMMA CountStarts ==
  ASSUME TypeOK, TypeOK', NEW a \in Accounts, NEW m \in Mints, StartsEmpty(a),
         paid[a][m] = [d \in 0 .. LastDay |-> 0]
  PROVE  KeepsCount(account[a], paid[a][m], m)'
<1> DEFINE i == FindCap(account'[a].policy.caps, m)
<1>1. CASE HasCap(account'[a].policy.caps, m)
  <2>1. i \in CapSlots
    BY <1>1, FindCapFinds
  <2>2. account'[a].buckets[i] = EmptyBuckets /\ paid'[a][m] = [d \in 0 .. LastDay |-> 0]
    BY <2>1 DEF StartsEmpty
  <2>3. /\ account'[a].policy.caps[i].per_day \in Nat
        /\ account'[a].policy.caps[i].per_30d \in Nat
        /\ DayNumber(now') \in Nat /\ LastDay \in Nat
    <3>1. account'[a] \in SmartAccount /\ now' \in 0 .. MaxTime
      BY DEF TypeOK
    <3>2. account'[a].policy.caps \in [CapSlots -> MintCap]
      BY <3>1 DEF SmartAccount, PolicyRecord, CapArray
    <3>3. account'[a].policy.caps[i] \in MintCap
      BY <2>1, <3>2
    <3> HIDE DEF i
    <3> QED
      BY <3>1, <3>3, DaysOfTheRun, RentTypes DEF MintCap
  <2> HIDE DEF i
  <2>4. Tracks(EmptyBuckets, [d \in 0 .. LastDay |-> 0], LastDay)
        /\ EmptyBuckets.ring_day_index = 0
    BY <2>3, EmptyTracks
  <2>5. Capped(account'[a].policy.caps[i], [d \in 0 .. LastDay |-> 0], LastDay)
    BY <2>3, NothingPaidIsCapped
  <2> QED
    BY <1>1, <2>2, <2>3, <2>4, <2>5 DEF KeepsCount, i
<1>2. CASE ~ HasCap(account'[a].policy.caps, m)
  BY <1>2 DEF KeepsCount, StartsEmpty
<1> QED
  BY <1>1, <1>2

\* A payment is counted by the bucket of its mint, within its caps, and by no other.
LEMMA PaymentIsCounted ==
  ASSUME TypeOK, NEW a \in Accounts, NEW m \in Mints, NEW asset \in Assets,
         NEW amount \in U64, Pays(a, asset, amount), KeepsCount(account[a], paid[a][m], m)
  PROVE  KeepsCount(account[a], paid[a][m], m)'
<1> DEFINE mint == CapMint(asset)
           caps == account[a].policy.caps
           i == FindCap(caps, m)
           j == FindCap(caps, mint)
           b == account[a].buckets[j]
           h == paid[a][mint]
           day == DayNumber(now)
<1>0. mint \in Mints /\ amount \in Nat
  BY CapMintIsAMint, RentTypes
<1>1. /\ account'[a].policy = account[a].policy /\ now' = now
      /\ HasCap(caps, mint) /\ DebitAllowed(b, caps[j], amount, now)
      /\ account'[a].buckets = [account[a].buckets EXCEPT ![j] = Debited(b, amount, now)]
      /\ paid'[a] = [paid[a] EXCEPT ![mint] = [h EXCEPT ![day] = @ + amount]]
  BY DEF Pays, BucketAdmits
<1>2. /\ j \in CapSlots /\ caps[j].mint = mint
      /\ HasCap(caps, m) => i \in CapSlots /\ caps[i].mint = m
  BY <1>1, FindCapFinds
<1>3. CASE m = mint
  <2>1. KeepsCount(account[a], h, mint)
    BY <1>3
  <2>2. /\ account'[a].buckets[j] = Debited(b, amount, now)
        /\ paid'[a][m] = [h EXCEPT ![day] = @ + amount]
    <3>1. /\ DOMAIN account[a].buckets = CapSlots
          /\ DOMAIN paid[a] = Mints
      BY DEF TypeOK, SmartAccount
    <3> HIDE DEF mint, caps, j, h, b, day
    <3> QED
      BY <1>0, <1>1, <1>2, <1>3, <3>1
  <2>3. /\ h \in [0 .. LastDay -> Nat] /\ LastDay \in Nat /\ b \in MintBuckets
        /\ now \in Nat /\ day \in Nat /\ day <= LastDay
        /\ caps[j].per_day \in Nat /\ caps[j].per_30d \in Nat
    BY <1>0, <1>2, CountTypes
  <2>4. b.ring_day_index <= day /\ Tracks(b, h, LastDay) /\ Capped(caps[j], h, LastDay)
    BY <1>1, <2>1 DEF KeepsCount
  <2> HIDE DEF mint, caps, j, h, b
  <2>5. /\ Debited(b, amount, now).ring_day_index = day
        /\ Tracks(Debited(b, amount, now), [h EXCEPT ![day] = @ + amount], LastDay)
    BY <1>0, <2>3, <2>4, DebitTracks
  <2>6. Capped(caps[j], [h EXCEPT ![day] = @ + amount], LastDay)
    BY <1>0, <1>1, <2>3, <2>4, DebitStaysCapped
  <2>7. /\ account'[a].buckets[j].ring_day_index <= DayNumber(now')
        /\ Tracks(account'[a].buckets[j], paid'[a][m], LastDay)
        /\ Capped(caps[j], paid'[a][m], LastDay)
    BY <1>1, <2>2, <2>3, <2>5, <2>6
  <2> QED
    BY <1>1, <1>3, <2>7 DEF KeepsCount, j, caps
<1>4. CASE m # mint
  <2>1. HasCap(caps, m) => account'[a].buckets[i] = account[a].buckets[i]
    <3>1. DOMAIN account[a].buckets = CapSlots
      BY DEF TypeOK, SmartAccount
    <3>2. HasCap(caps, m) => i # j
      BY <1>2, <1>4
    <3> HIDE DEF mint, caps, i, j, h, b
    <3> QED
      BY <1>1, <1>2, <3>1, <3>2
  <2>2. paid'[a][m] = paid[a][m]
    <3>1. DOMAIN paid[a] = Mints
      BY DEF TypeOK
    <3> HIDE DEF mint, h
    <3> QED
      BY <1>1, <1>4, <3>1
  <2> HIDE DEF mint, j, b, h
  <2> QED
    BY <1>1, <2>1, <2>2 DEF KeepsCount
<1> QED
  BY <1>3, <1>4

\* Every step keeps every count.
LEMMA SpendInvHolds == TypeOK /\ TypeOK' /\ SpendInv /\ [Next]_vars => SpendInv'
<1> SUFFICES ASSUME TypeOK, TypeOK', SpendInv, [Next]_vars, NEW a \in Accounts, NEW m \in Mints
             PROVE  /\ account'[a].version = 1 => KeepsCount(account[a], paid[a][m], m)'
                    /\ account'[a].version = 0 => paid'[a][m] = [d \in 0 .. LastDay |-> 0]
  BY DEF SpendInv
<1>1. now <= now'
  BY ClockStep
<1>2. account[a].version \in {0, 1} /\ paid[a][m] \in [0 .. LastDay -> Nat]
  BY CountTypes
<1>3. CASE PaysNothing(a)
  BY <1>1, <1>3, CountKept DEF PaysNothing, SpendInv
<1>4. CASE StartsEmpty(a)
  <2>1. paid[a][m] = [d \in 0 .. LastDay |-> 0] /\ paid'[a][m] = paid[a][m]
    BY <1>4 DEF StartsEmpty, SpendInv
  <2> QED
    BY <1>4, <2>1, CountStarts
<1>5. ASSUME NEW asset \in Assets, NEW amount \in U64, Pays(a, asset, amount)
      PROVE  account'[a].version = 1 /\ KeepsCount(account[a], paid[a][m], m)'
  <2>1. account[a].version = 1
    BY <1>5 DEF Pays
  <2>2. account'[a].version = 1
    BY <2>1, ControlStep DEF KeepsControl, Creates, Freezes, Unfreezes, KeepsUse
  <2> QED
    BY <1>5, <2>1, <2>2, PaymentIsCounted DEF SpendInv
<1> QED
  BY <1>3, <1>4, <1>5, PaymentStep DEF Payment, PaysOut

\* Nothing has been paid at first.
LEMMA InitSpendInv == Init => SpendInv
<1> SUFFICES ASSUME Init PROVE SpendInv
  OBVIOUS
<1>1. ASSUME NEW a \in Accounts, NEW m \in Mints
      PROVE  account[a].version # 1 /\ paid[a][m] = [d \in 0 .. LastDay |-> 0]
  BY DaysOfTheRun DEF Init, ZeroAccount, NoPayments
<1> QED
  BY <1>1 DEF SpendInv

\* The days of the run that count together up to one of them are its window.
LEMMA WindowInDays ==
  ASSUME NEW day \in Days
  PROVE  {d \in Days : day - RING_DAYS < d /\ d <= day} = Window(day)
  BY DaysOfTheRun, BucketsAssumption DEF Window

\* The count kept, the caps hold.
LEMMA CountedIsCapped == TypeOK /\ SpendInv => AccountWideCaps
<1> SUFFICES ASSUME TypeOK, SpendInv, NEW a \in Accounts, NEW m \in Mints
             PROVE  LET caps == account[a].policy.caps
                    IN  IF HasCap(caps, m)
                          THEN /\ \A d \in Days :
                                    paid[a][m][d] <= caps[FindCap(caps, m)].per_day
                               /\ \A last \in Days :
                                    SumFunctionOnSet(paid[a][m],
                                       {d \in Days : last - RING_DAYS < d /\ d <= last})
                                      <= caps[FindCap(caps, m)].per_30d
                          ELSE \A d \in Days : paid[a][m][d] = 0
  BY DEF AccountWideCaps
<1> DEFINE caps == account[a].policy.caps
           i == FindCap(caps, m)
<1>1. Days = 0 .. LastDay /\ account[a].version \in {0, 1}
  BY DaysOfTheRun, CountTypes
<1>2. CASE paid[a][m] = [d \in 0 .. LastDay |-> 0]
  <2>1. \A d \in Days : paid[a][m][d] = 0
    BY <1>1, <1>2
  <2>2. HasCap(caps, m) => Capped(caps[i], paid[a][m], LastDay)
    <3>1. HasCap(caps, m) => caps[i].per_day \in Nat /\ caps[i].per_30d \in Nat
      BY FindCapFinds, CountTypes
    <3>2. LastDay \in Nat /\ \A d \in 0 .. LastDay : paid[a][m][d] = 0
      BY <1>1, <2>1, DaysOfTheRun
    <3> HIDE DEF caps, i
    <3> QED
      BY <3>1, <3>2, NothingPaidIsCapped
  <2> QED
    BY <1>1, <2>1, <2>2, WindowInDays DEF Capped
<1>3. CASE HasCap(caps, m) /\ Capped(caps[i], paid[a][m], LastDay)
  BY <1>1, <1>3, WindowInDays DEF Capped
<1> QED
  BY <1>1, <1>2, <1>3 DEF SpendInv, KeepsCount

\* The root and all sessions together stay within the account's caps for each mint, on
\* every UTC day and over every RING_DAYS of them, and spend nothing of a mint without
\* a cap: for any clock, however payments fall and whoever makes them (transfer.rs,
\* buckets.rs debit).
THEOREM SpendingIsCapped == Spec => []AccountWideCaps
  BY TypeCorrect, InitSpendInv, SpendInvHolds, CountedIsCapped, PTL DEF Spec

\* The history's days and sums, in the words of SpendLimits.
LEMMA LimitIsTheWindow ==
  ASSUME NEW a \in Accounts, NEW m \in Mints, NEW n \in Nat, DayNumber(now) \in Days
  PROVE  LET cap == account[a].policy.caps[FindCap(account[a].policy.caps, m)]
             today == DayNumber(now)
         IN  Limit(a, m)!Within(n)
               <=> /\ n <= cap.per_tx
                   /\ paid[a][m][today] + n <= cap.per_day
                   /\ SumFunctionOnSet(paid[a][m], Window(today)) + n <= cap.per_30d
<1> DEFINE today == DayNumber(now)
           h == paid[a][m]
<1>1. Limit(a, m)!WindowOf(today) = Window(today)
  BY WindowInDays DEF Limit!WindowOf, Limit!Days, Days
<1>2. Limit(a, m)!WindowSpent(today) = SumFunctionOnSet(h, Limit(a, m)!WindowOf(today))
  BY Zenon DEF Limit!WindowSpent, Limit!SumFunctionOnSet, Limit!FoldFunctionOnSet,
               Limit!MapThenFoldSet, SumFunctionOnSet, FoldFunctionOnSet, MapThenFoldSet
<1>3. now \div DAY_SECS = today
  BY DEF DayNumber
<1> HIDE DEF today, h
<1> QED
  BY <1>1, <1>2, <1>3 DEF Limit!Within, h, today

\* The count kept, a bucket lets through what the account's history has room for.
LEMMA CountedIsExact == TypeOK /\ SpendInv => BucketsAreExact
<1> SUFFICES ASSUME TypeOK, SpendInv, NEW a \in Accounts, NEW m \in Mints,
                    NEW n \in TransferAmounts, account[a].version = 1,
                    HasCap(account[a].policy.caps, m)
             PROVE  BucketAdmits(a, m, n) <=> Limit(a, m)!Within(n)
  BY DEF BucketsAreExact, BucketAdmits
<1> DEFINE caps == account[a].policy.caps
           i == FindCap(caps, m)
           b == account[a].buckets[i]
           h == paid[a][m]
<1>1. i \in CapSlots /\ caps[i].mint = m /\ m # NoMint
  BY FindCapFinds DEF HasCap
<1>2. caps[i] \in MintCap
  BY <1>1 DEF TypeOK, SmartAccount, PolicyRecord, CapArray
<1>3. n \in Nat
  BY WardenAssumption DEF U64
<1>4. /\ b \in MintBuckets /\ h \in [0 .. LastDay -> Nat] /\ LastDay \in Nat
      /\ now \in Nat /\ DayNumber(now) \in Nat /\ DayNumber(now) <= LastDay
  BY <1>1, CountTypes
<1>5. b.ring_day_index <= DayNumber(now) /\ Tracks(b, h, LastDay)
  BY DEF SpendInv, KeepsCount
<1>6. DayNumber(now) \in Days
  BY <1>4, DaysOfTheRun
<1>7. Limit(a, m)!Within(n)
        <=> /\ n <= caps[i].per_tx
            /\ h[DayNumber(now)] + n <= caps[i].per_day
            /\ SumFunctionOnSet(h, Window(DayNumber(now))) + n <= caps[i].per_30d
  BY <1>3, <1>6, LimitIsTheWindow
<1>8. BucketAdmits(a, m, n) <=> DebitAllowed(b, caps[i], n, now)
  BY DEF BucketAdmits
<1> HIDE DEF caps, i, b, h
<1>9. caps[i].mint # NoMint
  BY <1>1
<1>10. DebitAllowed(b, caps[i], n, now)
         <=> /\ n <= caps[i].per_tx
             /\ h[DayNumber(now)] + n <= caps[i].per_day
             /\ SumFunctionOnSet(h, Window(DayNumber(now))) + n <= caps[i].per_30d
  BY <1>2, <1>3, <1>4, <1>5, <1>9, AllowedAsHistory
<1> QED
  BY <1>7, <1>8, <1>10

\* The account's buckets remember neither too much nor too little: at every moment they
\* let through exactly what the whole history of payments leaves room for, today and in
\* the window that ends today (buckets.rs debit, transfer.rs).
THEOREM BucketsRememberRight == Spec => []BucketsAreExact
  BY TypeCorrect, InitSpendInv, SpendInvHolds, CountedIsExact, PTL DEF Spec

-----------------------------------------------------------------------------
(* What leaves is charged. *)

Under(m) == {x \in Assets : CapMint(x) = m}

\* At most two assets are kept under one cap: SOL, and the token of the same mint.
LEMMA UnderIsFinite ==
  ASSUME NEW m
  PROVE  IsFiniteSet(Under(m)) /\ Under(m) \subseteq Assets
<1>1. IsFiniteSet({}) /\ IsFiniteSet({Native})
  BY FS_EmptySet, FS_Singleton
<1>2. IsFiniteSet({Native} \cup {m})
  BY <1>1, FS_AddElement
<1>3. Under(m) \subseteq {Native} \cup {m}
  BY DEF Under, CapMint
<1>4. PICK U : U = Under(m)
  OBVIOUS
<1>5. IsFiniteSet(U)
  BY <1>2, <1>3, <1>4, FS_Subset
<1> QED
  BY <1>4, <1>5 DEF Under

\* A debit adds its amount to the ring as it was rolled, and is seen in the bucket.
LEMMA DebitedRing ==
  ASSUME NEW b \in MintBuckets, NEW t \in Nat, NEW amount \in Nat
  PROVE  /\ RingSum(Debited(b, amount, t)) = RingSum(Rolled(b, t)) + amount
         /\ amount > 0 => Debited(b, amount, t) # b
<1> DEFINE r == Rolled(b, t)
           c == Debited(b, amount, t)
           day == DayNumber(t)
           slot == RingSlot(day)
<1>1. r \in MintBuckets /\ day \in Nat
  BY RolledIsABucket, Midnight DEF DayNumber
<1>2. slot \in RingSlots
  BY <1>1, SlotOfDay
<1>3. IsFiniteSet(RingSlots)
  <2>1. RING_DAYS - 1 \in Int /\ 0 \in Int
    BY BucketsAssumption
  <2> QED
    BY <2>1, FS_Interval DEF RingSlots
<1>4. /\ r.ring \in [RingSlots -> Nat]
      /\ c.ring = [r.ring EXCEPT ![slot] = @ + amount]
      /\ c.ring_day_index = r.ring_day_index
  BY <1>1 DEF Debited, MintBuckets
<1> HIDE DEF c, r, slot
<1>5. AddsAt(r.ring, c.ring, RingSlots, slot, amount)
  BY <1>2, <1>3, <1>4 DEF AddsAt
<1>6. RingSum(c) = RingSum(r) + amount
  <2>1. SumFunctionOnSet(c.ring, RingSlots) = SumFunctionOnSet(r.ring, RingSlots) + amount
    BY <1>5, SumOfAdded
  <2> QED
    BY <2>1 DEF RingSum
<1>7. ASSUME amount > 0 PROVE c # b
  <2> DEFINE d == RollDay(b, t)
  <2>1. d \in MintBuckets /\ d.ring = b.ring /\ d.ring_day_index = b.ring_day_index
    BY RolledDayIsABucket DEF RollDay, MintBuckets
  <2>2. r = RollRing(d, day)
    BY DEF Rolled, r
  <2>3. b.ring_day_index \in Nat
    BY DEF MintBuckets
  <2> HIDE DEF d, day
  <2>4. CASE day > d.ring_day_index
    <3>1. r.ring_day_index = day
      BY <2>1, <2>2, <2>4 DEF RollRing, MintBuckets
    <3> QED
      BY <1>1, <1>4, <2>1, <2>3, <2>4, <3>1
  <2>5. CASE ~ (day > d.ring_day_index)
    <3>1. r = d
      BY <2>2, <2>5 DEF RollRing
    <3>2. c.ring[slot] = b.ring[slot] + amount /\ b.ring[slot] \in Nat
      BY <1>2, <1>4, <2>1, <3>1
    <3> QED
      BY <1>7, <3>2
  <2> QED
    BY <2>4, <2>5
<1> QED
  BY <1>6, <1>7 DEF c, r

Outflow(a, m) == Holdings(balance, a, m) - Holdings(balance', a, m)

ChargesOutflow(a, m) ==
  LET caps == account[a].policy.caps
      old == account[a].buckets[FindCap(caps, m)]
      new == account'[a].buckets[FindCap(caps, m)]
  IN  /\ Outflow(a, m) > 0 =>
           /\ HasCap(caps, m)
           /\ new # old
           /\ \/ executed'[a] # executed[a]
              \/ \E k \in Keys, i \in CapSlots :
                   /\ session[a][k].caps[i].mint = m
                   /\ session'[a][k].lifetime_spent[i] =
                        session[a][k].lifetime_spent[i] + Outflow(a, m)
      /\ HasCap(caps, m) /\ new # old =>
           RingSum(new) = RingSum(Rolled(old, now)) + Outflow(a, m)

\* What a vault holds under a cap is a natural number.
LEMMA HoldingsAreNatural ==
  ASSUME TypeOK, NEW a \in Accounts, NEW m
  PROVE  Holdings(balance, a, m) \in Nat /\ \A x \in Under(m) : balance[a][x] \in Nat
<1>1. \A x \in Under(m) : balance[a][x] \in Nat
  BY BalanceTypes DEF Under
<1>2. SumFunctionOnSet(balance[a], Under(m)) \in Nat
  BY <1>1, UnderIsFinite, SumIsNatural
<1> QED
  BY <1>1, <1>2 DEF Holdings, Under

\* A step that takes nothing charges nothing.
LEMMA NothingIsCharged ==
  ASSUME TypeOK, TypeOK', NEW a \in Accounts, NEW m, PaysNothing(a)
  PROVE  ChargesOutflow(a, m)
<1>1. \A x \in Under(m) : balance[a][x] \in Nat /\ balance'[a][x] \in Nat
                          /\ balance[a][x] <= balance'[a][x]
  <2>1. \A x \in Assets : balance'[a][x] \in Nat
    BY DEF TypeOK, Holders
  <2> QED
    BY <2>1, BalanceTypes DEF PaysNothing, Under
<1>2. PICK f, g : f = balance[a] /\ g = balance'[a]
  OBVIOUS
<1>3. SumFunctionOnSet(f, Under(m)) <= SumFunctionOnSet(g, Under(m))
  BY <1>1, <1>2, UnderIsFinite, SumOfSmaller
<1>4. SumFunctionOnSet(f, Under(m)) \in Nat /\ SumFunctionOnSet(g, Under(m)) \in Nat
  BY <1>1, <1>2, UnderIsFinite, SumIsNatural
<1>5. ~ (Outflow(a, m) > 0)
  BY <1>2, <1>3, <1>4 DEF Outflow, Holdings, Under
<1> QED
  BY <1>5 DEF ChargesOutflow, PaysNothing

\* What a session is charged for a payment goes to its slot for the mint.
LEMMA SessionSlotCharged ==
  ASSUME TypeOK, NEW a \in Accounts, NEW mint, NEW amount \in U64,
         PaidBySession(a, mint, amount)
  PROVE  \E k \in Keys, i \in CapSlots :
           /\ session[a][k].caps[i].mint = mint
           /\ session'[a][k].lifetime_spent[i] = session[a][k].lifetime_spent[i] + amount
<1>1. PICK k \in Keys : /\ WithinSessionCaps(session[a][k], mint, amount)
                        /\ session'[a][k] = Charged(session[a][k], mint, amount)
  BY DEF PaidBySession
<1> DEFINE s == session[a][k]
           i == FindCap(s.caps, mint)
<1>2. i \in CapSlots /\ s.caps[i].mint = mint
  BY <1>1, FindCapFinds DEF WithinSessionCaps
<1>3. s \in SessionKey
  BY DEF TypeOK
<1>4. /\ s.lifetime_spent \in [CapSlots -> U64]
      /\ Charged(s, mint, amount).lifetime_spent = [s.lifetime_spent EXCEPT ![i] = @ + amount]
  BY <1>3 DEF Charged, SessionKey, Counters
<1> HIDE DEF i
<1>5. session'[a][k].lifetime_spent[i] = session[a][k].lifetime_spent[i] + amount
  BY <1>1, <1>2, <1>4
<1> QED
  BY <1>2, <1>5

\* A payment charges what it takes to the bucket and the session it belongs to.
LEMMA PaymentIsCharged ==
  ASSUME TypeOK, TypeOK', NEW a \in Accounts, NEW m \in Mints, NEW asset \in Assets,
         NEW amount \in U64, Pays(a, asset, amount),
         PaidByRoot(a) \/ PaidBySession(a, CapMint(asset), amount)
  PROVE  ChargesOutflow(a, m)
<1> DEFINE mint == CapMint(asset)
           caps == account[a].policy.caps
           i == FindCap(caps, m)
           j == FindCap(caps, mint)
           b == account[a].buckets[j]
<1>0. amount \in Nat /\ now \in Nat /\ mint \in Mints
  BY RentTypes, CountTypes, CapMintIsAMint
<1>1. /\ HasCap(caps, mint)
      /\ account'[a].buckets = [account[a].buckets EXCEPT ![j] = Debited(b, amount, now)]
      /\ balance'[a][asset] = balance[a][asset] - amount
      /\ \A x \in Assets \ {asset} : balance'[a][x] = balance[a][x]
  BY DEF Pays, BucketAdmits
<1>2. /\ j \in CapSlots /\ caps[j].mint = mint
      /\ HasCap(caps, m) => i \in CapSlots /\ caps[i].mint = m
  BY <1>1, FindCapFinds
<1>3. DOMAIN account[a].buckets = CapSlots /\ b \in MintBuckets
  BY <1>0, <1>2, CountTypes DEF TypeOK, SmartAccount
<1>4. PICK f, g : f = balance'[a] /\ g = balance[a]
  OBVIOUS
<1>5. CASE m = mint
  <2>1. account'[a].buckets[j] = Debited(b, amount, now)
    <3> HIDE DEF mint, caps, j, b
    <3> QED
      BY <1>1, <1>2, <1>3
  <2>2. /\ RingSum(Debited(b, amount, now)) = RingSum(Rolled(b, now)) + amount
        /\ amount > 0 => Debited(b, amount, now) # b
    <3> HIDE DEF b
    <3> QED
      BY <1>0, <1>3, DebitedRing
  <2>3. Outflow(a, m) = amount
    <3>1. asset \in Under(m) /\ \A x \in Under(m) : x \in Assets
      BY <1>5 DEF Under
    <3>2. \A x \in Under(m) : f[x] \in Nat
      <4>1. \A x \in Assets : balance'[a][x] \in Nat
        BY DEF TypeOK, Holders
      <4> QED
        BY <1>4, <3>1, <4>1
    <3>3. AddsAt(f, g, Under(m), asset, amount)
      <4>1. g[asset] = f[asset] + amount
        BY <1>0, <1>1, <1>4, BalanceTypes
      <4> QED
        BY <1>0, <1>1, <1>4, <3>1, <3>2, <4>1, UnderIsFinite DEF AddsAt
    <3>4. /\ SumFunctionOnSet(f, Under(m)) \in Nat
          /\ SumFunctionOnSet(g, Under(m)) = SumFunctionOnSet(f, Under(m)) + amount
      BY <3>3, SumOfAdded
    <3> QED
      BY <1>0, <1>4, <3>4 DEF Outflow, Holdings, Under
  <2>4. executed'[a] # executed[a]
          \/ \E k \in Keys, l \in CapSlots :
               /\ session[a][k].caps[l].mint = m
               /\ session'[a][k].lifetime_spent[l] = session[a][k].lifetime_spent[l] + amount
    BY <1>5, SessionSlotCharged DEF PaidByRoot
  <2> HIDE DEF b, mint
  <2>5. i = j
    BY <1>5
  <2> QED
    BY <1>1, <1>5, <2>1, <2>2, <2>3, <2>4, <2>5 DEF ChargesOutflow, b
<1>6. CASE m # mint
  <2>1. HasCap(caps, m) => account'[a].buckets[i] = account[a].buckets[i]
    <3>1. HasCap(caps, m) => i # j
      BY <1>2, <1>6
    <3> HIDE DEF mint, caps, i, j, b
    <3> QED
      BY <1>1, <1>2, <1>3, <3>1
  <2>2. Outflow(a, m) = 0
    <3>1. \A x \in Under(m) : g[x] \in Nat /\ g[x] = f[x]
      BY <1>1, <1>4, <1>6, HoldingsAreNatural DEF Under
    <3>2. SumFunctionOnSet(g, Under(m)) = SumFunctionOnSet(f, Under(m))
      BY <3>1, UnderIsFinite, SumOfEqual
    <3>3. Holdings(balance, a, m) = Holdings(balance', a, m)
      BY <1>4, <3>2 DEF Holdings, Under
    <3> QED
      BY <3>3, HoldingsAreNatural DEF Outflow
  <2> HIDE DEF mint, j, b
  <2> QED
    BY <2>1, <2>2 DEF ChargesOutflow
<1> QED
  BY <1>5, <1>6

\* Every step charges what leaves a vault, once, and nothing for value that stays.
LEMMA StepCharges ==
  ASSUME TypeOK, TypeOK', [Next]_vars, NEW a \in Accounts, NEW m \in Mints,
         account[a].version = 1
  PROVE  ChargesOutflow(a, m)
<1>1. CASE PaysNothing(a)
  BY <1>1, NothingIsCharged
<1>2. ~ StartsEmpty(a)
  BY DEF StartsEmpty
<1>3. CASE PaysOut(a)
  BY <1>3, PaymentIsCharged DEF PaysOut
<1> QED
  BY <1>1, <1>2, <1>3, PaymentStep DEF Payment

\* What leaves the vault is charged, once, to the account's bucket of its mint, and
\* unless a root ceremony took effect, to one slot of one of the account's own sessions;
\* nothing is charged for value that stays (transfer.rs).
THEOREM OutflowCharged == Spec => OutflowIsCharged
<1> DEFINE Step == \A a \in Accounts, m \in Mints :
                     account[a].version = 1 =>
                       LET out == Holdings(balance, a, m) - Holdings(balance', a, m)
                           caps == account[a].policy.caps
                           old == account[a].buckets[FindCap(caps, m)]
                           new == account'[a].buckets[FindCap(caps, m)]
                       IN  /\ out > 0 =>
                                /\ HasCap(caps, m)
                                /\ new # old
                                /\ \/ executed'[a] # executed[a]
                                   \/ \E k \in Keys, i \in CapSlots :
                                        /\ session[a][k].caps[i].mint = m
                                        /\ session'[a][k].lifetime_spent[i] =
                                             session[a][k].lifetime_spent[i] + out
                           /\ HasCap(caps, m) /\ new # old =>
                                RingSum(new) = RingSum(Rolled(old, now)) + out
<1>1. TypeOK /\ TypeOK' /\ [Next]_vars => [Step]_vars
  BY StepCharges DEF ChargesOutflow, Outflow
<1> QED
  BY <1>1, TypeCorrect, PTL DEF Spec, OutflowIsCharged

=============================================================================
