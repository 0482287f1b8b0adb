-------------------------- MODULE Transactions_proofs --------------------------
(***************************************************************************)
(* Whatever anybody composes transactions of: what the program carries out is *)
(* what the account's root passkey signed. The runtime's verification and the  *)
(* program's reading of the precompile instruction are about the same key and  *)
(* message (BoundWasSigned); the transcript ties the message to the nonce, so  *)
(* that the i-th operation has a signature of its own.                          *)
(***************************************************************************)
EXTENDS Transactions, SequenceTheorems, TLAPS

\* What a root instruction is bound to was signed: the entry that the program reads
\* is the one the runtime verified, over the same data.
LEMMA BoundWasSigned ==
  ASSUME NEW ixs, NEW n, NEW i, NEW key, NEW message, NEW S,
         RuntimeVerifies(ixs, S), BindPrecompile(ixs, n, i, key, message),
         message # <<>>
  PROVE  <<key, message>> \in S
<1> DEFINE e == ixs[i].offsets[1]
           pk == SliceAt(ixs[i].data, e.public_key_offset, 1)
           msg == SliceAt(ixs[i].data, e.message_data_offset, e.message_data_size)
<1>1. /\ i \in DOMAIN ixs /\ ixs[i].program_id = SECP256R1_ID
      /\ ixs[i].num_signatures = 1
      /\ e.public_key_instruction_index = SAME_INSTRUCTION
      /\ e.message_instruction_index = SAME_INSTRUCTION
      /\ pk = <<key>> /\ msg = message
  BY DEF BindPrecompile
<1>2. EntryVerified(ixs, i, e, S)
  BY <1>1 DEF RuntimeVerifies
<1>3. <<pk[1], msg>> \in S
  BY <1>1, <1>2 DEF EntryVerified, Resolve
<1> QED
  BY <1>1, <1>3

-----------------------------------------------------------------------------
(* The types. *)

\* A root that create_account accepts is one of those Accounts allows.
LEMMA CreatedTyped ==
  ASSUME NEW state \in States, NEW ix, ix.address \in Addresses,
         ix.args \in CreateAccountArgs, CanCreate(state, ix)
  PROVE  Created(state, ix) \in States
<1>1. ix.args.root \in [kind: {"P256Passkey"}, pubkey: Passkeys \cup OffCurveKeys]
  BY DEF CanCreate, ValidRoot, CreateAccountArgs, Root
<1>2. ix.args.origin \in CanonicalOrigins /\ ix.args.cluster_tag \in ClusterTags
  BY DEF CanCreate, ValidOrigin, CreateAccountArgs
<1>3. [version |-> 1, root |-> ix.args.root, origin |-> ix.args.origin,
       rp_id_hash |-> Digest(ix.args.origin), cluster_tag |-> ix.args.cluster_tag,
       root_nonce |-> 0, frozen |-> FALSE] \in Accounts
  BY <1>1, <1>2 DEF Accounts
<1> QED
  BY <1>3 DEF Created, States

\* A nonce and a freeze are all that commands write.
LEMMA UpdatedTyped ==
  ASSUME NEW acct \in Accounts, NEW nonce \in Nat, NEW f \in BOOLEAN
  PROVE  [acct EXCEPT !.root_nonce = nonce, !.frozen = f] \in Accounts
  BY DEF Accounts

\* An account in use has the fields of one.
LEMMA InUseTyped ==
  ASSUME NEW state \in States, NEW a \in Addresses, state.account[a].version = 1
  PROVE  /\ state.account[a] \in Accounts
         /\ state.executed[a] \in Seq([op: {"rotate_nonce", "freeze"}, at: 0 .. MaxTime])
<1>1. /\ state.account[a] \in Accounts \cup {ZeroAccount}
      /\ state.executed[a] \in Seq([op: {"rotate_nonce", "freeze"}, at: 0 .. MaxTime])
  BY DEF States
<1>2. ZeroAccount.version # 1
  BY DEF ZeroAccount
<1> QED
  BY <1>1, <1>2

\* One more operation on an account leaves the state well-typed.
LEMMA CommandedTyped ==
  ASSUME NEW state \in States, NEW ix, ix.address \in Addresses,
         ix.op \in {"rotate_nonce", "freeze"}, now \in 0 .. MaxTime,
         state.account[ix.address].version = 1
  PROVE  Commanded(state, ix) \in States
<1> DEFINE acct == state.account[ix.address]
           done == [op |-> ix.op, at |-> now]
<1>1. /\ acct \in Accounts
      /\ state.executed[ix.address] \in Seq([op: {"rotate_nonce", "freeze"}, at: 0 .. MaxTime])
  BY InUseTyped
<1>2. acct.root_nonce + 1 \in Nat /\ (acct.frozen \/ ix.op = "freeze") \in BOOLEAN
  BY <1>1 DEF Accounts
<1>3. CommandedAccount(acct, ix.op) \in Accounts
  BY <1>1, <1>2, UpdatedTyped DEF CommandedAccount
<1>4. done \in [op: {"rotate_nonce", "freeze"}, at: 0 .. MaxTime]
  OBVIOUS
<1>5. Append(state.executed[ix.address], done)
        \in Seq([op: {"rotate_nonce", "freeze"}, at: 0 .. MaxTime])
  BY <1>1, <1>4
<1>6. [state.account EXCEPT ![ix.address] = CommandedAccount(acct, ix.op)]
        \in [Addresses -> Accounts \cup {ZeroAccount}]
  BY <1>3 DEF States
<1>7. [state.executed EXCEPT ![ix.address] = Append(state.executed[ix.address], done)]
        \in [Addresses -> Seq([op: {"rotate_nonce", "freeze"}, at: 0 .. MaxTime])]
  BY <1>5 DEF States
<1> QED
  BY <1>6, <1>7 DEF Commanded, States

\* Every instruction that succeeds leaves the state well-typed.
LEMMA AfterTyped ==
  ASSUME NEW state \in States, NEW ixs, NEW n, now \in 0 .. MaxTime,
         Succeeds(state, ixs, n)
  PROVE  After(state, ixs[n]) \in States
<1>1. CASE ixs[n].program_id # WARDEN_ID
  BY <1>1 DEF After
<1>2. CASE ixs[n].program_id = WARDEN_ID /\ ixs[n].op = "create_account"
  <2>1. ixs[n].address \in Addresses /\ ixs[n].args \in CreateAccountArgs
    BY <1>2, TransactionsAssumption DEF Succeeds, Decodes
  <2> QED
    BY <1>2, <2>1, CreatedTyped DEF Succeeds, After
<1>3. CASE ixs[n].program_id = WARDEN_ID /\ ixs[n].op # "create_account"
  <2>1. /\ ixs[n].address \in Addresses /\ ixs[n].op \in {"rotate_nonce", "freeze"}
        /\ state.account[ixs[n].address].version = 1
    BY <1>3, TransactionsAssumption DEF Succeeds, Decodes, CanCommand
  <2> QED
    BY <1>3, <2>1, CommandedTyped DEF After
<1> QED
  BY <1>1, <1>2, <1>3

-----------------------------------------------------------------------------
(* Roots. *)

\* What a command leaves alone.
LEMMA CommandKeeps ==
  ASSUME NEW acct \in Accounts, NEW op
  PROVE  LET new == CommandedAccount(acct, op) IN
         /\ new.version = acct.version /\ new.root = acct.root /\ new.origin = acct.origin
         /\ new.rp_id_hash = acct.rp_id_hash /\ new.cluster_tag = acct.cluster_tag
         /\ new.root_nonce = acct.root_nonce + 1
  BY DEF CommandedAccount, Accounts

\* An instruction that succeeds keeps the roots of the accounts in use.
LEMMA AfterKeeps ==
  ASSUME NEW state \in States, NEW ixs, NEW n, Succeeds(state, ixs, n)
  PROVE  KeepsRoots(state, After(state, ixs[n]))
<1> DEFINE ix == ixs[n]
<1> SUFFICES ASSUME NEW a \in Addresses, state.account[a].version = 1
             PROVE  LET after == After(state, ix).account[a]
                        before == state.account[a]
                    IN /\ after.version = 1 /\ after.root = before.root
                       /\ after.origin = before.origin
                       /\ after.rp_id_hash = before.rp_id_hash
                       /\ after.cluster_tag = before.cluster_tag
                       /\ after.root_nonce >= before.root_nonce
  BY DEF KeepsRoots
<1>1. state.account[a] \in Accounts /\ state.account[a].root_nonce \in Nat
  BY InUseTyped DEF Accounts
<1>2. CASE ix.program_id # WARDEN_ID
  BY <1>1, <1>2 DEF After
<1>3. CASE ix.program_id = WARDEN_ID /\ ix.op = "create_account"
  <2>1. ix.address # a
    BY <1>3 DEF Succeeds, CanCreate, Free
  <2>2. Created(state, ix).account[a] = state.account[a]
    BY <2>1 DEF Created, States
  <2> QED
    BY <1>1, <1>3, <2>2 DEF After
<1>4. CASE ix.program_id = WARDEN_ID /\ ix.op # "create_account"
  <2>1. Commanded(state, ix).account[a] =
          IF ix.address = a THEN CommandedAccount(state.account[a], ix.op)
          ELSE state.account[a]
    BY DEF Commanded, States
  <2> QED
    BY <1>1, <1>4, <2>1, CommandKeeps DEF After
<1> QED
  BY <1>2, <1>3, <1>4

\* Keeping roots composes along the instructions of a transaction.
LEMMA KeepsTransitive ==
  ASSUME NEW s1 \in States, NEW s2 \in States, NEW s3 \in States,
         KeepsRoots(s1, s2), KeepsRoots(s2, s3)
  PROVE  KeepsRoots(s1, s3)
<1> SUFFICES ASSUME NEW a \in Addresses, s1.account[a].version = 1
             PROVE  LET after == s3.account[a]
                        before == s1.account[a]
                    IN /\ after.version = 1 /\ after.root = before.root
                       /\ after.origin = before.origin
                       /\ after.rp_id_hash = before.rp_id_hash
                       /\ after.cluster_tag = before.cluster_tag
                       /\ after.root_nonce >= before.root_nonce
  BY DEF KeepsRoots
<1>1. /\ s2.account[a].version = 1 /\ s2.account[a].root = s1.account[a].root
      /\ s2.account[a].origin = s1.account[a].origin
      /\ s2.account[a].rp_id_hash = s1.account[a].rp_id_hash
      /\ s2.account[a].cluster_tag = s1.account[a].cluster_tag
      /\ s2.account[a].root_nonce >= s1.account[a].root_nonce
  BY DEF KeepsRoots
<1>2. /\ s3.account[a].version = 1 /\ s3.account[a].root = s2.account[a].root
      /\ s3.account[a].origin = s2.account[a].origin
      /\ s3.account[a].rp_id_hash = s2.account[a].rp_id_hash
      /\ s3.account[a].cluster_tag = s2.account[a].cluster_tag
      /\ s3.account[a].root_nonce >= s2.account[a].root_nonce
  BY <1>1 DEF KeepsRoots
<1>3. /\ s1.account[a].root_nonce \in Nat /\ s2.account[a].root_nonce \in Nat
      /\ s3.account[a].root_nonce \in Nat
  BY <1>1, <1>2, InUseTyped DEF Accounts
<1> QED
  BY <1>1, <1>2, <1>3

-----------------------------------------------------------------------------
(* Effects. *)

\* The stored hash is that of the stored origin, as create_account recomputes it.
RpIdHashed(state) ==
  \A a \in Addresses : state.account[a].rp_id_hash = Digest(state.account[a].origin)

\* A signature counts for an operation whatever else its account has done since.
LEMMA SignedForDepends ==
  ASSUME NEW acct, NEW new, NEW a, NEW done, NEW i, SignedFor(acct, a, done, i),
         new.root = acct.root, new.origin = acct.origin, new.cluster_tag = acct.cluster_tag
  PROVE  SignedFor(new, a, done, i)
  BY DEF SignedFor

\* A verified assertion is a signature for the operation it is about to carry out.
LEMMA VerifiedWasSigned ==
  ASSUME NEW ixs, NEW n, NEW acct, NEW a,
         RuntimeVerifies(ixs, signed),
         VerifyRootAssertion(acct, a, ixs[n].op, ixs, n, ixs[n].args, now),
         acct.rp_id_hash = Digest(acct.origin)
  PROVE  SignedFor(acct, a, [op |-> ixs[n].op, at |-> now], acct.root_nonce)
<1> DEFINE auth == ixs[n].args.authenticator_data
           cdj == ixs[n].args.client_data_json
           s == <<acct.root.pubkey, Message(auth, cdj)>>
<1>1. s \in signed
  <2>1. BindPrecompile(ixs, n, ixs[n].args.precompile_ix_index, acct.root.pubkey,
                       Message(auth, cdj))
    BY DEF VerifyRootAssertion
  <2>2. Message(auth, cdj) # <<>>
    BY DEF Message
  <2> QED
    BY <2>1, <2>2, BoundWasSigned
<1>2. s[1] = acct.root.pubkey /\ s[2][1] = auth /\ s[2][2][2] = cdj
  BY DEF Message, Digest
<1>3. /\ auth[2] = Digest(acct.origin) /\ FLAGS_REQUIRED \subseteq auth[3]
      /\ cdj.typ = "webauthn.get" /\ ~cdj.cross_origin_true /\ cdj.origin = acct.origin
  BY DEF VerifyRootAssertion, CheckAuthData, ClientDataMatches
<1>4. cdj.challenge = Transcript(acct.cluster_tag, a, acct.root_nonce, ixs[n].op,
                                 ixs[n].args.expiry_ts)
  BY DEF VerifyRootAssertion
<1>5. cdj.challenge.expiry_ts = ixs[n].args.expiry_ts
  BY <1>4 DEF Transcript
<1>6. now <= ixs[n].args.expiry_ts /\ ixs[n].args.expiry_ts <= now + MAX_ROOT_EXPIRY_SECS
  BY DEF VerifyRootAssertion, Fresh
<1> HIDE DEF s
<1> QED
  BY <1>1, <1>2, <1>3, <1>4, <1>5, <1>6 DEF SignedFor

\* Roots carry the hash of their origin through every instruction.
LEMMA AfterHashed ==
  ASSUME NEW state \in States, NEW ixs, NEW n, Succeeds(state, ixs, n), RpIdHashed(state)
  PROVE  RpIdHashed(After(state, ixs[n]))
<1> DEFINE ix == ixs[n]
<1> SUFFICES ASSUME NEW a \in Addresses
             PROVE  After(state, ix).account[a].rp_id_hash = Digest(After(state, ix).account[a].origin)
  BY DEF RpIdHashed
<1>1. CASE ix.program_id # WARDEN_ID
  BY <1>1 DEF After, RpIdHashed
<1>2. CASE ix.program_id = WARDEN_ID /\ ix.op = "create_account"
  BY <1>2 DEF After, Created, States, RpIdHashed
<1>3. CASE ix.program_id = WARDEN_ID /\ ix.op # "create_account"
  <2>1. Commanded(state, ix).account[a] =
          IF ix.address = a THEN CommandedAccount(state.account[a], ix.op)
          ELSE state.account[a]
    BY DEF Commanded, States
  <2>2. CASE ix.address = a
    <3>1. state.account[a] \in Accounts
      BY <1>3, <2>2, InUseTyped DEF Succeeds, CanCommand
    <3> QED
      BY <1>3, <2>1, <2>2, <3>1, CommandKeeps DEF After, RpIdHashed
  <2> QED
    BY <1>3, <2>1, <2>2 DEF After, RpIdHashed
<1> QED
  BY <1>1, <1>2, <1>3

\* A command is carried out for an assertion over the nonce it finds; all else keeps
\* its own.
LEMMA AfterSigned ==
  ASSUME NEW state \in States, NEW ixs, NEW n, Succeeds(state, ixs, n),
         RuntimeVerifies(ixs, signed), RpIdHashed(state), EffectsWereSignedIn(state)
  PROVE  EffectsWereSignedIn(After(state, ixs[n]))
<1> DEFINE ix == ixs[n]
           after == After(state, ix)
<1> SUFFICES ASSUME NEW a \in Addresses
             PROVE  /\ after.account[a].root_nonce = Len(after.executed[a])
                    /\ \A i \in 1 .. Len(after.executed[a]) :
                         SignedFor(after.account[a], a, after.executed[a][i], i - 1)
  BY DEF EffectsWereSignedIn
<1>1. /\ state.account[a].root_nonce = Len(state.executed[a])
      /\ \A i \in 1 .. Len(state.executed[a]) :
           SignedFor(state.account[a], a, state.executed[a][i], i - 1)
  BY DEF EffectsWereSignedIn
<1>2. CASE ix.program_id # WARDEN_ID
  BY <1>1, <1>2 DEF After
<1>3. CASE ix.program_id = WARDEN_ID /\ ix.op = "create_account"
  <2>1. after = Created(state, ix) /\ CanCreate(state, ix)
    BY <1>3 DEF After, Succeeds
  <2>2. CASE ix.address = a
    <3>1. state.account[a] = ZeroAccount
      BY <2>1, <2>2 DEF CanCreate, Free, States, Accounts
    <3>2. ZeroAccount.root_nonce = 0
      BY DEF ZeroAccount
    <3>3. after.account[a].root_nonce = 0 /\ after.executed[a] = state.executed[a]
      BY <2>1, <2>2 DEF Created, States
    <3>4. Len(after.executed[a]) = 0
      BY <1>1, <3>1, <3>2, <3>3
    <3> QED
      BY <3>3, <3>4
  <2>3. CASE ix.address # a
    <3>1. after.account[a] = state.account[a] /\ after.executed[a] = state.executed[a]
      BY <2>1, <2>3 DEF Created, States
    <3> QED
      BY <1>1, <3>1
  <2> QED
    BY <2>2, <2>3
<1>4. CASE ix.program_id = WARDEN_ID /\ ix.op # "create_account"
  <2>1. after = Commanded(state, ix) /\ CanCommand(state, ixs, n)
    BY <1>4 DEF After, Succeeds
  <2>2. CASE ix.address # a
    <3>1. after.account[a] = state.account[a] /\ after.executed[a] = state.executed[a]
      BY <2>1, <2>2 DEF Commanded, States
    <3> QED
      BY <1>1, <3>1
  <2>3. CASE ix.address = a
    <3> DEFINE old == state.account[a]
               q == state.executed[a]
               done == [op |-> ix.op, at |-> now]
    <3>1. old \in Accounts /\ q \in Seq([op: {"rotate_nonce", "freeze"}, at: 0 .. MaxTime])
      BY <2>1, <2>3, InUseTyped DEF CanCommand
    <3>2. after.account[a] = CommandedAccount(old, ix.op) /\ after.executed[a] = Append(q, done)
      BY <2>1, <2>3 DEF Commanded, States
    <3>3. /\ after.account[a].root = old.root /\ after.account[a].origin = old.origin
          /\ after.account[a].cluster_tag = old.cluster_tag
          /\ after.account[a].root_nonce = old.root_nonce + 1
      BY <3>1, <3>2, CommandKeeps
    <3>4. SignedFor(old, a, done, old.root_nonce)
      <4>1. VerifyRootAssertion(old, a, ix.op, ixs, n, ix.args, now)
        BY <2>1, <2>3 DEF CanCommand
      <4>2. old.rp_id_hash = Digest(old.origin)
        BY DEF RpIdHashed
      <4> QED
        BY <4>1, <4>2, VerifiedWasSigned
    <3>5. Len(after.executed[a]) = Len(q) + 1 /\ after.executed[a][Len(q) + 1] = done
      BY <3>1, <3>2
    <3>6. \A i \in 1 .. Len(q) : after.executed[a][i] = q[i]
      BY <3>1, <3>2
    <3> HIDE DEF old, done, after, q
    <3>7. SignedFor(after.account[a], a, done, old.root_nonce)
      BY <3>3, <3>4, SignedForDepends
    <3>8. ASSUME NEW i \in 1 .. Len(q)
          PROVE  SignedFor(after.account[a], a, q[i], i - 1)
      <4>1. SignedFor(old, a, q[i], i - 1)
        BY <1>1 DEF old, q
      <4> QED
        BY <3>3, <4>1, SignedForDepends
    <3>9. old.root_nonce = Len(q) /\ Len(q) \in Nat
      BY <1>1, <3>1 DEF old, q
    <3>10. ASSUME NEW i \in 1 .. Len(after.executed[a])
           PROVE  SignedFor(after.account[a], a, after.executed[a][i], i - 1)
      <4>1. CASE i = Len(q) + 1
        BY <3>5, <3>7, <3>9, <4>1
      <4>2. CASE i # Len(q) + 1
        <5>1. i \in 1 .. Len(q)
          BY <3>5, <3>9, <4>2
        <5> QED
          BY <3>6, <3>8, <5>1
      <4> QED
        BY <4>1, <4>2
    <3> QED
      BY <3>3, <3>5, <3>9, <3>10
  <2> QED
    BY <2>2, <2>3
<1> QED
  BY <1>2, <1>3, <1>4

-----------------------------------------------------------------------------
(* The specification. *)

\* A transaction under way: its precompile instructions were verified, and it is in a
\* state that keeps the roots of the committed one.
Midway ==
  Running =>
    /\ tx = [ixs |-> tx.ixs, next |-> tx.next, state |-> tx.state]
    /\ RuntimeVerifies(tx.ixs, signed)
    /\ KeepsRoots(ledger, tx.state)

IInv ==
  /\ TypeOK
  /\ \A state \in Reached : RpIdHashed(state)
  /\ EffectsWereSigned
  /\ Midway

\* The first state has neither accounts nor signatures.
LEMMA InitHolds == Init => IInv
<1> SUFFICES ASSUME Init PROVE IInv
  OBVIOUS
<1>1. Reached = {ledger} /\ ~Running
  BY DEF Init, Reached, Running
<1>2. ledger.account = [a \in Addresses |-> ZeroAccount]
      /\ ledger.executed = [a \in Addresses |-> <<>>]
  BY DEF Init
<1>3. ledger \in States
  BY DEF Init, States
<1>4. TypeOK
  BY <1>1, <1>3, TransactionsAssumption DEF Init, TypeOK
<1>5. RpIdHashed(ledger)
  <2>1. ZeroAccount.rp_id_hash = Digest(ZeroAccount.origin)
    BY DEF ZeroAccount
  <2> QED
    BY <1>2, <2>1 DEF RpIdHashed
<1>6. EffectsWereSignedIn(ledger)
  <2>1. ZeroAccount.root_nonce = 0
    BY DEF ZeroAccount
  <2> QED
    BY <1>2, <2>1 DEF EffectsWereSignedIn
<1> QED
  BY <1>1, <1>4, <1>5, <1>6 DEF IInv, EffectsWereSigned, Midway

\* Neither the clock nor a new signature takes anything from the committed state.
LEMMA BetweenHolds ==
  ASSUME IInv, ~Running, now' \in 0 .. MaxTime, signed \subseteq signed',
         \A s \in signed' : s[1] \in Passkeys, UNCHANGED <<ledger, tx>>
  PROVE  IInv'
<1>1. Reached = {ledger} /\ Reached' = {ledger} /\ ~Running'
  BY DEF Reached, Running
<1>2. TypeOK'
  BY <1>1 DEF IInv, TypeOK
<1>3. \A state \in Reached' : RpIdHashed(state)
  BY <1>1 DEF IInv
<1>4. EffectsWereSignedIn(ledger)
  BY <1>1 DEF IInv, EffectsWereSigned
<1>5. EffectsWereSignedIn(ledger)'
  BY <1>4 DEF EffectsWereSignedIn, SignedFor
<1>6. EffectsWereSigned'
  BY <1>1, <1>5 DEF EffectsWereSigned
<1> QED
  BY <1>1, <1>2, <1>3, <1>6 DEF IInv, Midway, RpIdHashed

\* Every step keeps the invariant.
LEMMA StepHolds == IInv /\ [Next]_vars => IInv'
<1> SUFFICES ASSUME IInv, [Next]_vars PROVE IInv'
  OBVIOUS
<1>1. CASE Tick
  <2>1. now' \in 0 .. MaxTime
    BY <1>1, TransactionsAssumption DEF Tick, IInv, TypeOK
  <2> QED
    BY <1>1, <2>1, BetweenHolds DEF Tick, IInv, TypeOK
<1>2. CASE Sign
  <2>1. PICK k \in Passkeys, a \in Addresses, op \in RootOps, lead \in ExpiryLeads,
             ahead \in 0 .. 1, how \in Ceremonies :
               signed' = signed \cup {Assertion(k, a, op, lead, ahead, how)}
    BY <1>2 DEF Sign
  <2>2. Assertion(k, a, op, lead, ahead, how)[1] = k
    BY DEF Assertion
  <2>3. \A s \in signed' : s[1] \in Passkeys
    BY <2>1, <2>2 DEF IInv, TypeOK
  <2> QED
    BY <1>2, <2>1, <2>3, BetweenHolds DEF Sign, IInv, TypeOK
<1>3. ASSUME NEW ixs, Submit(ixs) PROVE IInv'
  <2>1. /\ tx'.ixs = ixs /\ tx'.state = ledger /\ RuntimeVerifies(ixs, signed)
        /\ now' = now /\ signed' = signed /\ ledger' = ledger
    BY <1>3 DEF Submit
  <2>2. Reached' = {ledger} /\ ledger \in Reached
    BY <2>1 DEF Reached
  <2>3. TypeOK'
    BY <2>1, <2>2 DEF IInv, TypeOK
  <2>4. EffectsWereSignedIn(ledger)
    BY <2>2 DEF IInv, EffectsWereSigned
  <2>5. EffectsWereSigned'
    BY <2>1, <2>2, <2>4 DEF EffectsWereSigned, EffectsWereSignedIn, SignedFor
  <2>6. KeepsRoots(ledger, ledger)
    <3> SUFFICES ASSUME NEW a \in Addresses, ledger.account[a].version = 1
                 PROVE  ledger.account[a].root_nonce >= ledger.account[a].root_nonce
      BY DEF KeepsRoots
    <3>1. ledger.account[a] \in Accounts
      BY <2>2, InUseTyped DEF IInv, TypeOK
    <3> QED
      BY <3>1 DEF Accounts
  <2>7. tx' = [ixs |-> tx'.ixs, next |-> tx'.next, state |-> tx'.state]
    BY <1>3 DEF Submit
  <2>8. Midway'
    BY <2>1, <2>6, <2>7 DEF Midway
  <2> QED
    BY <2>2, <2>3, <2>5, <2>8 DEF IInv, RpIdHashed
<1>4. CASE Execute
  <2> DEFINE next == After(tx.state, tx.ixs[tx.next])
  <2>1. /\ Running /\ Succeeds(tx.state, tx.ixs, tx.next)
        /\ now' = now /\ signed' = signed /\ ledger' = ledger
    BY <1>4 DEF Execute
  <2>2. tx = [ixs |-> tx.ixs, next |-> tx.next, state |-> tx.state]
    BY <2>1 DEF IInv, Midway
  <2>3. tx' = [ixs |-> tx.ixs, next |-> tx.next + 1, state |-> next]
    BY <1>4, <2>2 DEF Execute
  <2>4. tx.state \in Reached /\ tx.state \in States /\ ledger \in States
    BY <2>1 DEF Reached, IInv, TypeOK
  <2>5. next \in States
    BY <2>1, <2>4, AfterTyped DEF IInv, TypeOK
  <2>6. RpIdHashed(tx.state) /\ EffectsWereSignedIn(tx.state) /\ RuntimeVerifies(tx.ixs, signed)
    BY <2>1, <2>4 DEF IInv, EffectsWereSigned, Midway
  <2>7. RpIdHashed(next)
    BY <2>1, <2>4, <2>6, AfterHashed
  <2>8. EffectsWereSignedIn(next)
    BY <2>1, <2>4, <2>6, AfterSigned
  <2>9. KeepsRoots(ledger, next)
    <3>1. KeepsRoots(ledger, tx.state) /\ KeepsRoots(tx.state, next)
      BY <2>1, <2>4, AfterKeeps DEF IInv, Midway
    <3> QED
      BY <2>4, <2>5, <3>1, KeepsTransitive
  <2> HIDE DEF next
  <2>10. Reached' \subseteq {ledger, next} /\ ledger \in Reached
    BY <2>1, <2>3 DEF Reached
  <2>11. TypeOK'
    BY <2>1, <2>4, <2>5, <2>10 DEF IInv, TypeOK
  <2>12. \A state \in Reached' : RpIdHashed(state)
    BY <2>7, <2>10 DEF IInv
  <2>13. EffectsWereSignedIn(ledger)
    BY <2>10 DEF IInv, EffectsWereSigned
  <2>14. EffectsWereSigned'
    <3>1. ASSUME NEW state \in {ledger, next} PROVE EffectsWereSignedIn(state)'
      <4>1. EffectsWereSignedIn(state)
        BY <2>8, <2>13
      <4> QED
        BY <2>1, <4>1 DEF EffectsWereSignedIn, SignedFor
    <3> QED
      BY <2>10, <3>1 DEF EffectsWereSigned
  <2>15. Midway'
    BY <2>1, <2>3, <2>6, <2>9 DEF Midway
  <2> QED
    BY <2>11, <2>12, <2>14, <2>15 DEF IInv, RpIdHashed
<1>5. CASE Abort
  <2>1. /\ now' = now /\ signed' = signed /\ ledger' = ledger /\ ~Running'
    BY <1>5 DEF Abort, Running
  <2>2. Reached' = {ledger} /\ ledger \in Reached
    BY <2>1 DEF Reached
  <2> QED
    BY <2>1, <2>2 DEF IInv, TypeOK, EffectsWereSigned, EffectsWereSignedIn, SignedFor,
                      Midway, RpIdHashed
<1>6. CASE Commit
  <2>1. /\ now' = now /\ signed' = signed /\ ledger' = tx.state /\ ~Running' /\ Running
    BY <1>6 DEF Commit, Running
  <2>2. Reached' = {tx.state} /\ tx.state \in Reached
    BY <2>1 DEF Reached
  <2> QED
    BY <2>1, <2>2 DEF IInv, TypeOK, EffectsWereSigned, EffectsWereSignedIn, SignedFor,
                      Midway, RpIdHashed
<1>7. CASE UNCHANGED vars
  <2>1. /\ now' = now /\ signed' = signed /\ ledger' = ledger /\ tx' = tx
    BY <1>7 DEF vars
  <2>2. Reached' = Reached
    BY <2>1 DEF Reached, Running
  <2> QED
    BY <2>1, <2>2 DEF IInv, TypeOK, EffectsWereSigned, EffectsWereSignedIn, SignedFor,
                      Midway, Running, RpIdHashed
<1> QED
  BY <1>1, <1>2, <1>3, <1>4, <1>5, <1>6, <1>7 DEF Next

\* The invariant holds in every behaviour.
THEOREM Invariance == Spec => []IInv
<1> QED
  BY InitHolds, StepHolds, PTL DEF Spec

\* The types, for every way of composing transactions.
THEOREM TypeCorrect == Spec => []TypeOK
<1>1. IInv => TypeOK
  BY DEF IInv
<1> QED
  BY <1>1, Invariance, PTL

\* Whatever is carried out was signed, for every way of composing transactions.
THEOREM EffectsSigned == Spec => []EffectsWereSigned
<1>1. IInv => EffectsWereSigned
  BY DEF IInv
<1> QED
  BY <1>1, Invariance, PTL

\* An account keeps its root through everything.
THEOREM RootKept == Spec => RootIsForever
<1>1. IInv /\ [Next]_vars => [KeepsRoots(ledger, ledger')]_vars
  <2> SUFFICES ASSUME IInv, [Next]_vars, ~UNCHANGED vars
               PROVE  KeepsRoots(ledger, ledger')
    OBVIOUS
  <2>1. KeepsRoots(ledger, ledger)
    <3> SUFFICES ASSUME NEW a \in Addresses, ledger.account[a].version = 1
                 PROVE  ledger.account[a].root_nonce >= ledger.account[a].root_nonce
      BY DEF KeepsRoots
    <3>1. ledger.account[a] \in Accounts
      BY InUseTyped DEF IInv, TypeOK, Reached
    <3> QED
      BY <3>1 DEF Accounts
  <2>2. CASE Commit
    BY <2>2 DEF Commit, IInv, Midway
  <2>3. CASE ~Commit
    <3>1. ledger' = ledger
      BY <2>3 DEF Next, Tick, Sign, Submit, Execute, Abort
    <3> QED
      BY <2>1, <3>1
  <2> QED
    BY <2>2, <2>3
<1> QED
  BY <1>1, Invariance, PTL DEF Spec, RootIsForever

-----------------------------------------------------------------------------
(* Owners. *)

\* What the owner's precompile instruction holds, read at its own offsets.
LEMMA PrecompileSlices ==
  ASSUME NEW k, NEW signature, NEW auth, NEW digest
  PROVE  LET d == <<k, signature, auth, digest>> IN
         /\ SliceAt(d, 0, 1) = <<k>> /\ SliceAt(d, 1, 1) = <<signature>>
         /\ SliceAt(d, 2, 2) = <<auth, digest>>
<1> DEFINE d == <<k, signature, auth, digest>>
           S == {k, signature, auth, digest}
<1>1. /\ Len(d) = 4 /\ \A i \in 1 .. 4 : d[i] \in S
      /\ d[1] = k /\ d[2] = signature /\ d[3] = auth /\ d[4] = digest
  OBVIOUS
<1>2. /\ <<k>> \in Seq(S) /\ Len(<<k>>) = 1 /\ <<k>>[1] = k
      /\ <<signature>> \in Seq(S) /\ Len(<<signature>>) = 1 /\ <<signature>>[1] = signature
  OBVIOUS
<1>3. /\ <<auth, digest>> \in Seq(S) /\ Len(<<auth, digest>>) = 2
      /\ <<auth, digest>>[1] = auth /\ <<auth, digest>>[2] = digest
  OBVIOUS
<1> HIDE DEF d, S
<1>4. SubSeq(d, 1, 1) = <<k>>
  <2>1. /\ SubSeq(d, 1, 1) \in Seq(S) /\ Len(SubSeq(d, 1, 1)) = 1
        /\ SubSeq(d, 1, 1)[1] = d[1]
    BY <1>1, SubSeqProperties
  <2>2. \A i \in 1 .. 1 : SubSeq(d, 1, 1)[i] = <<k>>[i]
    BY <1>1, <1>2, <2>1
  <2> QED
    BY <1>2, <2>1, <2>2, SeqEqual
<1>5. SubSeq(d, 2, 2) = <<signature>>
  <2>1. /\ SubSeq(d, 2, 2) \in Seq(S) /\ Len(SubSeq(d, 2, 2)) = 1
        /\ SubSeq(d, 2, 2)[1] = d[2]
    BY <1>1, SubSeqProperties
  <2>2. \A i \in 1 .. 1 : SubSeq(d, 2, 2)[i] = <<signature>>[i]
    BY <1>1, <1>2, <2>1
  <2> QED
    BY <1>2, <2>1, <2>2, SeqEqual
<1>6. SubSeq(d, 3, 4) = <<auth, digest>>
  <2>1. /\ SubSeq(d, 3, 4) \in Seq(S) /\ Len(SubSeq(d, 3, 4)) = 2
        /\ \A i \in 1 .. 2 : SubSeq(d, 3, 4)[i] = d[3 + i - 1]
    BY <1>1, SubSeqProperties
  <2>2. SubSeq(d, 3, 4)[1] = d[3] /\ SubSeq(d, 3, 4)[2] = d[4]
    BY <2>1
  <2>3. \A i \in 1 .. 2 : SubSeq(d, 3, 4)[i] = <<auth, digest>>[i]
    BY <1>1, <1>3, <2>2
  <2> QED
    BY <1>3, <2>1, <2>3, SeqEqual
<1> QED
  BY <1>1, <1>4, <1>5, <1>6 DEF SliceAt, d

\* The runtime and the program agree on the owner's transaction.
LEMMA OwnersTransactionVerifies ==
  ASSUME NEW k, NEW auth, NEW cdj, NEW S, NEW command,
         command.program_id = WARDEN_ID, <<k, Message(auth, cdj)>> \in S
  PROVE  LET ixs == <<PrecompileFor(<<k, Message(auth, cdj)>>, "signature"), command>> IN
         /\ RuntimeVerifies(ixs, S)
         /\ BindPrecompile(ixs, 2, 1, k, Message(auth, cdj))
<1> DEFINE pre == PrecompileFor(<<k, Message(auth, cdj)>>, "signature")
           ixs == <<pre, command>>
           e == pre.offsets[1]
<1>1. /\ pre.program_id = SECP256R1_ID /\ pre.num_signatures = 1 /\ DOMAIN pre.offsets = {1}
      /\ pre.data = <<k, "signature", auth, Digest(cdj)>>
  BY DEF PrecompileFor, Message
<1>2. /\ e.public_key_offset = 0 /\ e.signature_offset = 1 /\ e.message_data_offset = 2
      /\ e.message_data_size = 2 /\ e.signature_instruction_index = SAME_INSTRUCTION
      /\ e.public_key_instruction_index = SAME_INSTRUCTION
      /\ e.message_instruction_index = SAME_INSTRUCTION
  BY DEF PrecompileFor
<1>3. /\ SliceAt(pre.data, 0, 1) = <<k>> /\ SliceAt(pre.data, 1, 1) = <<"signature">>
      /\ SliceAt(pre.data, 2, 2) = Message(auth, cdj)
  BY <1>1, PrecompileSlices DEF Message
<1>4. ixs[1] = pre /\ ixs[2] = command /\ DOMAIN ixs = {1, 2}
  OBVIOUS
<1>5. /\ <<k>> # <<>> /\ <<"signature">> # <<>> /\ <<k>>[1] = k
      /\ Message(auth, cdj) # <<>> /\ Len(Message(auth, cdj)) = 2
  BY DEF Message
<1>6. pre.offsets # <<>>
  BY DEF PrecompileFor
<1> HIDE DEF pre, ixs
<1>7. EntryVerified(ixs, 1, e, S)
  BY <1>2, <1>3, <1>4, <1>5 DEF EntryVerified, Resolve, OutOfBounds
<1>8. RuntimeVerifies(ixs, S)
  BY <1>1, <1>4, <1>7, TransactionsAssumption DEF RuntimeVerifies
<1>9. BindPrecompile(ixs, 2, 1, k, Message(auth, cdj))
  <2>1. 1 < 2 /\ 1 \in DOMAIN ixs /\ ixs[1] = pre
    BY <1>4
  <2>2. {e.signature_instruction_index, e.public_key_instruction_index,
         e.message_instruction_index} = {SAME_INSTRUCTION}
    BY <1>2
  <2>3. SliceAt(pre.data, e.signature_offset, 1) # OutOfBounds
    BY <1>2, <1>3, <1>5 DEF OutOfBounds
  <2> QED
    BY <1>1, <1>2, <1>3, <1>5, <1>6, <2>1, <2>2, <2>3 DEF BindPrecompile
<1> QED
  BY <1>8, <1>9 DEF ixs, pre

\* The owner's assertion passes every comparison.
LEMMA OwnerAccepted == IInv => OwnerCanCommand
<1> SUFFICES ASSUME IInv, NEW a \in Addresses, NEW op \in RootOps, NEW lead \in ExpiryLeads,
                    lead <= MAX_ROOT_EXPIRY_SECS,
                    ledger.account[a].version = 1,
                    ledger.account[a].root.pubkey \in Passkeys,
                    PasskeyOrigin[ledger.account[a].root.pubkey] = ledger.account[a].origin,
                    ~(op = "freeze" /\ ledger.account[a].frozen),
                    NEW how \in Honest(ledger.account[a].origin)
             PROVE  LET s == Assertion(ledger.account[a].root.pubkey, a, op, lead, 0, how)
                        ixs == <<PrecompileFor(s, "signature"), CommandWith(s[2], a, op, 1)>>
                    IN  RuntimeVerifies(ixs, signed \cup {s}) /\ Succeeds(ledger, ixs, 2)
  BY DEF OwnerCanCommand
<1> DEFINE acct == ledger.account[a]
           k == acct.root.pubkey
           auth == AuthData(Digest(acct.origin), how.flags)
           challenge == Transcript(acct.cluster_tag, a, acct.root_nonce, op, now + lead)
           cdj == ClientDataJson(how, challenge)
           s == <<k, Message(auth, cdj)>>
           ixs == <<PrecompileFor(s, "signature"), CommandWith(s[2], a, op, 1)>>
<1>1. ledger \in States /\ RpIdHashed(ledger) /\ now \in Nat
  BY TransactionsAssumption DEF IInv, TypeOK, Reached
<1>2. acct \in Accounts
  BY <1>1, InUseTyped
<1>3. acct.root_nonce + 0 = acct.root_nonce
  BY <1>2 DEF Accounts
<1>4. Assertion(k, a, op, lead, 0, how) = s
  BY <1>3 DEF Assertion
<1>5. ixs[2].program_id = WARDEN_ID /\ ixs[2].address = a /\ ixs[2].op = op
  BY DEF CommandWith
<1>6. /\ ixs[2].args.authenticator_data = auth /\ ixs[2].args.client_data_json = cdj
      /\ ixs[2].args.expiry_ts = now + lead /\ ixs[2].args.precompile_ix_index = 1
  BY DEF CommandWith, Message, Digest, ClientDataJson, Transcript
<1>7. RuntimeVerifies(ixs, signed \cup {s}) /\ BindPrecompile(ixs, 2, 1, k, Message(auth, cdj))
  <2>1. CommandWith(s[2], a, op, 1).program_id = WARDEN_ID
    BY DEF CommandWith
  <2> QED
    BY <2>1, OwnersTransactionVerifies
<1>8. CheckAuthData(auth, acct.rp_id_hash)
  BY <1>1 DEF CheckAuthData, AuthData, RpIdHashed, Honest
<1>9. ClientDataMatches(cdj, acct.origin) /\ cdj.challenge = challenge
  BY DEF ClientDataMatches, ClientDataJson, Honest
<1>10. Fresh(now + lead, now)
  BY <1>1, TransactionsAssumption, RootVerifyAssumption DEF Fresh
<1>11. acct.root.kind = "P256Passkey"
  BY <1>2 DEF Accounts
<1> HIDE DEF acct, k, auth, challenge, cdj, s, ixs
<1>12. VerifyRootAssertion(acct, a, op, ixs, 2, ixs[2].args, now)
  BY <1>6, <1>7, <1>8, <1>9, <1>10, <1>11 DEF VerifyRootAssertion, k, challenge
<1>13. Succeeds(ledger, ixs, 2)
  BY <1>5, <1>12, TransactionsAssumption DEF Succeeds, Decodes, CanCommand, acct
<1> QED
  BY <1>4, <1>7, <1>13 DEF ixs, k, acct

\* Nothing that anybody does keeps the owner of an account from commanding it.
THEOREM OwnersCommand == Spec => []OwnerCanCommand
<1> QED
  BY OwnerAccepted, Invariance, PTL

=============================================================================
