# A TLA+ verification of the warden program

Warden is a Solana program (Anchor, `programs/warden`) that keeps *smart accounts*: a
vault whose **root** is a passkey and from which **session keys** may spend within caps
enforced on chain. This directory models the program as it stands, Phase 1A, checks the
models with TLC and proves the results that matter most with TLAPS. Every definition is
translated from `programs/warden/src`; `PROJECT.json` maps each to its lines.

Contents: [1 inventory](#1-inventory) · [2 modules](#2-modules-and-the-code) ·
[3 runs](#3-what-each-run-checks) · [4 bounds](#4-bounds) · [5 fairness](#5-fairness) ·
[6 proofs](#6-what-is-proved) · [7 where docs and code
differ](#7-where-the-documents-and-the-code-differ) · [8 abstractions](#8-assumptions-and-abstractions) ·
[9 not modelled](#9-not-modelled) · [10 plan](#10-plan)

## 1. Inventory

### Components

| Component | Code (`programs/warden/src/`) | State | Operations | What makes it correct |
|---|---|---|---|---|
| Account-wide buckets | `buckets.rs` | per capped mint: the UTC day, its running total, a 30-slot ring of day totals and the day it was rolled to | `debit`, `find_cap` | accepts exactly what the whole payment history allows; nothing forgotten while it counts, nothing kept after; no sum wraps; an error leaves the bucket as it was |
| Policy | `state/smart_account.rs`, `instructions/create_account.rs` | caps, session ceilings, root thresholds (8 slots each), timelock, lifetimes, ops mask | `PolicyArgs::expand`, `key_by_mint`, `validate_policy` | ceilings and thresholds reach the slot of their own cap in whatever order they came; the slot-by-slot validation is the one the policy is later read by |
| Session keys | `state/session.rs`, `instructions/grant_session.rs` | expiry, ops, generation, caps, lifetime cap and spending per slot | `authority_hash`, `validate_shape`, `validate_against_policy`, `merge_caps` | what was spent is neither forgotten nor doubled by a re-grant; every slot is within the policy |
| Root ceremonies | `root_verify/mod.rs`, `root_verify/transcript.rs` | the account's `root_nonce` | `verify_root_assertion`, `consume_root_nonce` | a signature takes effect at most once, on its own account, for what it was made for, and not after another root operation got in first |
| Instructions | `instructions/*.rs`, dispatched by `lib.rs` | `SmartAccount`, `SessionKey`, lamports and token balances | `create_account`, `rotate_nonce`, `freeze`, `unfreeze`, `grant_session`, `revoke_session`, `transfer`, `ping` | a freeze stops outflows for the timelock and ends afterwards; all spenders together stay within one set of caps; each outflow is charged exactly once; no value appears or vanishes |
| clientDataJSON scanner | `root_verify/client_data.rs` | a position in the document | `parse_strict`, `Scanner` | accepts exactly one strict JSON object and takes its top-level fields, decoded, once; every document a passkey may sign is accepted |
| Precompile binding | `root_verify/precompile.rs` | none | `bind_precompile` | the assertion that is used is the one the runtime verified, whatever else the transaction holds |
| Authenticator data | `root_verify/auth_data.rs` | none | length, rp id hash, two flag bits | present and verified user, and no owner locked out by another flag |
| Signed bytes | `root_verify/transcript.rs`, `packages/core/src/webauthn/transcript.ts` | none | `transcript_hash`, `action_hash`, `b64url_no_pad` and their TypeScript mirror | different ceremonies hash different bytes; the client throws or hashes what the program does; the challenge survives its trip through the browser |
| Token branch of `transfer` | `instructions/transfer.rs` | token accounts of vault and strangers | `parse_token_account`, the destination checks, the CPI | what leaves the vault of a mint is what that mint's caps are charged |
| Conservation snapshots | `spikes/03-txbudget/onchain` | snapshots around an inner call | `snap`, `check_vault_invariants`, `process` | a called program leaves nothing behind through which value escapes later |
| Other spikes, UI tokens | `spikes/02-webauthn`, `packages/ui-tokens` | none | measurements; design data | no behaviour of the program |
| Phase 1B, 1C | design spec only | – | guardians, recovery, the timelocked queue, execute, swap, set_policy | not written at this commit |

### How they interact

A root instruction carries a passkey assertion. `verify_root_assertion` recomputes the
transcript (operation, hash of the arguments, account, generation, policy version, nonce,
expiry) from the instruction and the account *as it stands*, and compares it with what was
signed; the handler then consumes the nonce. The transcript is made off chain, from what
the chain showed at that moment, and anybody may submit it later. A session transfer
carries no ceremony: the session key signs the transaction, the session's caps are
checked, then `buckets::debit` is called on the account's bucket for the mint, and then
the value moves. A root transfer is bounded by the policy's `large_threshold` and goes
through the same bucket. Native SOL and wrapped SOL share one cap. All processes (owner,
session keys, fee payers, whoever holds a signature) share the accounts and the clock.

### What is hard

There is no concurrency *inside* a transaction: the runtime executes it atomically and
undoes it on error. Within one, an instruction reads others that somebody else composed:
precompile instructions whose offsets point anywhere, several commands, a creation before a
command. Before one, there are bytes: JSON from a browser, hashes over concatenations,
integers that JavaScript does not bound. The rest is hard between instructions: signatures that are kept,
replayed, submitted in another order, or late; state that moves between signing and
landing (a session closed by its own key consumes no nonce); several spenders under one
cap; re-grants that merge into what earlier ceremonies left; a ring reused after long
silences; u64 boundaries; UTC boundaries. `PROJECT.json` lists each hazard at its line with
the properties that would catch it.

## 2. Modules and the code

| Module | Models | State and actions |
|---|---|---|
| `Caps` | `MintCap`, `find_cap`, u64 sums | operators only |
| `Buckets` | `buckets.rs debit` | `RollDay`, `RollRing` (rolling the copy forward), `DebitAllowed` (every check), `Debited` (the copy written back) |
| `SpendLimits` | *abstract*: what an account-wide limit promises | keeps the full history day by day; `Pay`, `Refuse`; `Warden` holds its own buckets to the same `Within` |
| `BucketLedger` | one bucket, the clock, and debits | `Tick`, `Debit`, `DebitRefused`; implements `SpendLimits` |
| `Policy` | `PolicyArgs::expand`, `key_by_mint`, `validate_policy` | operators |
| `AccountPolicy` | the part of `create_account` that stores a policy, for any arguments | `Create`; `MCPolicy` gives it small ones |
| `Sessions` | `SessionKey`, `validate_shape`, `validate_against_policy`, `merge_caps`, `authorize_session` | operators |
| `RootAuthority` | *abstract*: what a passkey signature is worth | `Sign`, `Execute`: no nonce, no transcript, no expiry |
| `RootVerify` | `verify_root_assertion`: `bind_precompile`, `check_auth_data`, the fields of clientDataJSON, expiry; and the runtime's own verification (external) | operators on instructions, whose data are sequences of cells |
| `Transactions` | passkeys, transactions of several instructions, `create_account`'s checks of root and origin, commands | `Sign`, `Submit`, `Execute`, `Abort`, `Commit`: the state so far is dropped or becomes the ledger |
| `Scanner` | the strings and numbers of `client_data.rs`, on bytes | a method of `Scanner` is an operator from position to position, or to `Fail`; a loop is a recursive function of the position |
| `ClientData` | the rest of `client_data.rs` | the same for members, values and the document |
| `JsonLexemes` | *reference*: numbers, escapes and surrogates | said without scanning, by positions |
| `StrictJson` | *reference*: the documents to accept and their meaning | tokens by counting quotes and backslashes, then one condition per token; no scanning |
| `Lexemes` | any text given to the strings and numbers of `Scanner`, any bytes made into a challenge | `Rewrite`: another text, other bytes; `MCLexemes` gives it short ones |
| `Transcript` | the bytes hashed, in Rust and in TypeScript, and both base64url encoders | operators on sequences of digits to the base `RADIX` |
| `SignedBytes` | any two documents a passkey may sign, and any input of the TypeScript encoder | `Choose`: another document, another input; `MCTranscript` gives it small ones |
| `VaultLedger` | *abstract*: what a vault's token balances amount to | `Receive`, `Pay` |
| `TokenTransfers` | the SPL branch of `transfer` among token accounts anybody may fake, freeze, hand over or pass in any role | `Transfer` (the program), `OthersTransfer`, `HandOver`, `SetFrozen` (external); implements `VaultLedger` |
| `Conservation` | spike 3b: snapshots around a call that runs with the vault's signature | `Enter`, `Accept`, `Reject` (the program), `TokenInstruction` (external) |
| `Warden` | the program | one action per instruction that succeeds, the owner's signing, the clock; implements `RootAuthority` |
| `MCScenarios` | *composition of bounds*: several scenarios of `Warden` in one run | a step is one of `Warden`'s that stays `Within` the scenario |
| `MCFunctions` | the functions without state, through `MCPolicy`, `MCClientData`, `MCLexemes`, `MCTranscript` | each behaviour builds up one input of one function |
| `MC...` | values for TLC; `MCUnfreeze`, `MCSessionCalls`, `MCRollingWindow`, `MCRevokeBinding`, `MCGrantFields` also add a driver, a history variable or a property for one question | |
| `Sums_proofs` | induction on finite sets, and what it says of the library's `SumFunctionOnSet` | lemmas only |
| `Caps_proofs` | what the operators of `Caps`, `Policy`, `Sessions` and `Buckets` return and keep | lemmas only |
| `Limits_proofs` | theorems about `BucketLedger` and `AccountPolicy` | |
| `Warden_proofs` | theorems about `Warden`: types and refinement; what the owner is promised and where value goes | |
| `SignedBytes_proofs` | theorems about `SignedBytes` and `Lexemes`, and the lemmas on recursion, integers in bytes and bits, concatenation, Borsh vectors and scans they need | |
| `Transactions_proofs`, `TokenTransfers_proofs`, `Conservation_proofs` | theorems about each | |

In `Warden`:

* `account[a]` is the `SmartAccount` at `a`'s PDA, which is also the vault (`version = 0`
  before `create_account`); `session[a][k]` the `SessionKey` at the PDA of `a` and `k`
  (zero-filled when absent, which is how the program itself tells); `balance` the lamports
  and token amounts; `now` the ledger clock.
* `signed` is the set of passkey signatures that exist. `SignPlain`, `SignGrant`,
  `SignRevoke` and `SignTransfer` are the owner at a client: each records the transcript
  (what the program will compare) and, as history, what was `seen` when it was made.
* An instruction is an action whose guard is the conjunction of the handler's checks and
  whose primed variables are everything it writes, nonce and rent included. A handler that
  returns an error changes nothing, so it is no action. `RootInstruction` lets every
  signature be tried with every instruction and argument.
* `executed`, `drawn`, `paid` and `lastFreeze` are history: no guard reads them.

In `Transactions` an account is only its root, origin, cluster, nonce and freeze; `tx.state`
is the runtime's working copy and `tx.next` the instruction it is at. `executed` is a
history. `Composed` is whatever transactions a run wants tried; the proofs assume nothing
of it. `Warden` takes from this module that a root instruction comes with a signature that
the root made: there `Authorizes` compares transcripts, here `EffectsWereSigned` shows that
bytes, offsets and indices amount to it. `TokenTransfers` stands in the same relation to
`Warden`'s `balance` of a token: `VaultLedger` is the view of it that `Warden` has.

Lines that begin `\* Mutant:` introduce variants of an operator with a plausible bug in
it. No specification uses them; each is there to show that a property notices.

## 3. What each run checks

| Run | Question | Properties |
|---|---|---|
| `bucket_ledger` | Does one bucket accept exactly what history allows, at every second and after every gap, with the ring wrapping and amounts up to the largest u64? | `TypeOK`, `RingMirrorsHistory`, `TodayMirrorsHistory`, `SpendWithinCaps`, refinement `ImplementsSpendLimits` |
| `functions` | Do the functions without state agree with a reference on every small input? Policy arguments; documents one or two byte edits from genuine ones; numbers, strings, escapes; challenges; pairs of ceremonies; inputs of the client | `KeyedByMint`, `CeilingsUnderCaps`, `RefusedOnlyWithReason`, `AcceptsOnlyTheGenuine`, `AcceptsAllTheGenuine`, `NumbersAreJson`, `StringsAgree`, `EscapesSpellUtf8`, `ChallengesSurvive`, `DocumentsDiffer`, `MirrorAgrees` |
| `root_operations` | Signatures made ahead, kept, replayed, submitted in any order; a freeze and an unfreeze with a grant, a session and a root transfer waiting; two accounts with sessions of the same key paying each other: what can they do? | `TypeOK`, `ValueConserved`, refinement `ImplementsRootAuthority`, `EffectsAreSigned`, `GrantLandsOnWhatWasShown`, `FreezeHoldsForTimelock`, `OutflowIsCharged` |
| `spending` | Do two sessions and the root, spending SOL over three UTC days and wrapped SOL with it over two, stay within one set of caps? Three grants merged in any order, spent from in between, revoked and made again, under three policies (one of them invalid): is nothing forgotten, is there a slot for every mint, and is no payment refused that the history has room for? | `AccountWideCaps`, `BucketsAreExact`, `LifetimeAccounting`, `SessionsWithinPolicy`, `SlotsNeverRunOut`, `OutflowIsCharged` |
| `transactions` | Genuine, forged and borrowed precompile instructions, creations and commands in one transaction, committed or rolled back; every way of using a passkey: what takes effect, and is the owner ever locked out? | `TypeOK`, `EffectsWereSigned`, `OwnerCanCommand`, `RootIsForever` |
| `token_transfers` | Token accounts faked, frozen, handed over and passed in any role: does the vault lose what its caps are charged? | `TypeOK`, refinement `ImplementsVaultLedger` |
| `conservation` | Any token instructions inside and between calls: does wrapped SOL that is the vault's alone stay so, or get counted? | `TypeOK`, `OutflowIsCounted` |
| `unfreeze` | Does an owner who goes on signing get a frozen account back? | liveness `FreezeEnds` |
| `rolling_window` | Is the 30-day cap one of a sliding window? | `RollingThirtyDayCap` is violated |
| `session_calls` | Does the lifetime cap bound calls times `per_tx`? | `CallsTimesPerTx` is violated |
| `revoke_binding` | Is a root revocation bound to the session key alone? | `RevokeSignsBareSession` is violated |
| `grant_fields` | Is a grant bound to the fields the client's documentation lists? | `GrantSignsListedFields` is violated |

The last four show where a document says something other than what the code does
(section 7). All the others pass.

What the less obvious ones say:

* `ImplementsSpendLimits` is an equivalence, not a bound: `BucketLedger` records how each
  request ended and `SpendLimits` must agree, so a debit refused that history allows is a
  violation too.
* `ImplementsRootAuthority`: in `RootAuthority` a signature remembers how many root
  operations of its account had taken effect when it was made, and takes effect only while
  that number stands. That the program's nonce, transcript and six handlers amount to this
  is the refinement.
* `GrantLandsOnWhatWasShown`: the authority hash leaves `lifetime_spent` out, so the session
  may have spent more since it was shown, never less; in particular it was not closed
  and created again with a clean count.
* `OutflowIsCharged` relates three pieces of state in one step: what the vault lost, what
  the ring gained and what one slot of one session of *this* account gained.
* `EffectsWereSigned` holds in the middle of a transaction too, and of accounts somebody
  else created: having one's command carried out proves that the root is one's own passkey.
* `OwnerCanCommand` is the other direction: no history of an account, and no flag an
  authenticator adds, makes the program refuse its owner's fresh assertion.
* `AcceptsOnlyTheGenuine` and `AcceptsAllTheGenuine` make `ParseStrict` equal to the
  reference, accepted language and meaning both, on every document tried.
* `StringsAgree` compares the two functions that walk strings, one decoding and one not:
  if they ended at different bytes, what follows a skipped value would be read wrongly.
* `OutflowIsCounted` speaks of the accounts as they are if the running call is taken back,
  so a delegate, a close authority, a new owner or a closed and reopened account that
  survives a call is noticed when it takes something later.
* `SessionsWithinPolicy` covers the slots that an earlier grant merged in and later grants
  did not mention.
* `SlotsNeverRunOut` is what a comment on `merge_caps` claims: its error for a session without
  an unused slot cannot occur. The run makes it as tight as it gets, with as many mints as slots.

## 4. Bounds

TLC runs scale the constants down and keep every comparison they take part in:
`U64_MAX` 7 (15 in `functions`), days of 2 seconds (so that a day has a first and a later
second), rings of 2 or 3 days, sessions of at most 4 s, timelock 2 s, ceremonies good for
1 s, rents of 1 lamport, one or two capped mints; documents of at most 44 bytes with two
levels of nesting and keys of one byte, integers of one or two digits to the base 4.

`root_operations` and `spending` go through scenarios: a behaviour plays one of them from
the start, and `Within` lets only those steps of `Warden` happen that keep to the accounts,
tokens, kinds of ceremonies and bounds of that scenario. Since it only leaves steps out,
what a scenario shows is shown of behaviours of `Warden`; in exchange each goes on long
enough for its parts to meet. `transactions` does the same with `SpecBounded`: two
assertions exist at once only for one account and only simple ones, and free composition
is tried there; all the other ways of signing are tried one at a time. In `conservation`
`SpecBounded` lets at most one account at a time be frozen or carry an extension.
Scenarios also bound how many signatures may be *waiting*: made, not expired and for the nonce
as it stands. Those that can no longer take effect do not count, and go on being tried.

| Run | Bounds that matter | Why they are enough |
|---|---|---|
| `bucket_ledger` | 12 s = 6 days, ring of 3, amounts 0 to `U64_MAX`, caps that are zero, small and maximal; the clock jumps any distance | the ring wraps and every slot is used again, gaps shorter than, as long as and longer than the ring, sums that overflow and caps met exactly |
| `functions`: policy | all vectors of at most 2 entries over 5 caps, 4 ceilings, 2 thresholds, one vector too long, each scalar out of range once | every pair of orders, duplicates, orphans, unused-slot mints and each rule broken alone |
| `functions`: documents | 10 documents with nesting, escaped keys, strings that end in escaped quotes, lists, literals, UTF-8, blanks and the deepest nesting, each with any byte of 29 inserted, deleted or written over; one plain document with any two edits: deletions, and insertions and overwrites with a quote, a comma, a backslash or a closing brace | the 29 bytes hold one of every class the scanner tells apart; documents are as long as the limit or one byte longer after an insertion |
| `functions`: lexemes | numbers of up to 6 bytes and strings of up to 8 over alphabets with one byte of each class, strings up to the first byte after which one ends; all 65536 four-digit escapes, some digits in upper and some in lower case | a sign, a leading zero, a fraction and a signed exponent fit; an escape fits whole in a string, and so does one cut short |
| `functions`: signed bytes | all pairs of documents over small fields, vectors of 0 to 5 entries next to each other; integers from below the smallest to above the largest; hashes too short and too long; challenges of 0 to 4 bytes | vectors of different lengths can trade bytes with their neighbours; every remainder modulo three |
| `root_operations`: ceremonies | clock to 2 s, 2 root operations, 3 signatures of which 2 wait, leads 0 and 2 s | signatures compete for a nonce, and the loser is tried at the next; a lead of 2 s is first refused as too far ahead and good a second later |
| `root_operations`: freezing | clock to 4 s, 3 root operations, 3 signatures of which 1 waits | a freeze, an unfreeze and a spend fit in one behaviour, by the root or by a session granted before; with one root operation less nothing could leave the vault after the unfreeze |
| `root_operations`: two accounts | clock to 1 s, 2 accounts, 3 signatures, one key with a session in each | every confusion of the two that the arguments allow |
| `spending`: caps | SOL over 3 UTC days with a ring of 2, two sessions, a root transfer | a third spender meets a cap the other two used up, and a day leaves the window |
| `spending`: wrapped SOL | the same with WSOL beside SOL, over 2 UTC days | what one asset used up the other finds used, on the same day and the next |
| `spending`: regrants | 3 grants out of three kinds, two mints, clock to 1 s | merge into the same slot, beside it, below what is spent, and after a revocation |
| `transactions` | 2 addresses, 2 passkeys, one key off the curve, one malformed, 6 ways of signing, 2 assertions, up to 4 instructions, clock to 1 s, leads 0 and 2 s | a borrowed signature and a forged message meet in one transaction; a second creation and a second command fail it half-way; an assertion is too early, good, good in its last second, and late |
| `token_transfers` | 3 accounts, 2 mints, one stranger, a fake token program, a record of another length | source, destination and a bystander, in every combination of owner, mint and program |
| `conservation` | 2 accounts (symmetric), 2 mints, one stranger, 1 unit | one account to pass and one to leave out, or both passed; every instruction sequence during and between calls |
| `unfreeze` | clock to 5 s, at most 2 other ceremonies by second 2 | a freeze as late as allowed still has its timelock end before the clock does; the nonce and signature bounds (20, 40) are never reached |

`MaxTime`, `MaxRootOps` and `MaxSigned` bound the clock, the nonce and the signatures in
guards (`Tick`, `Sign`); nothing else is bounded. Because of them a run ends in states with
no step, which is why those configurations say `CHECK_DEADLOCK FALSE`; in `functions` an
input is built up and then done. `bucket_ledger`, `rolling_window` and `transactions` check
for deadlock. Symmetry is used in `conservation` only, between addresses, which that
specification never names.

## 5. Fairness

Only `unfreeze` needs any. It assumes weak fairness of `Tick` (the ledger clock runs), of
`SignUnfreeze` (an owner of a frozen account signs an unfreeze whenever none that he signed
is still good) and of `SubmitUnfreeze` (some transaction carrying a good one lands).
Weak fairness of `SubmitUnfreeze` is enough only because the bounded clock stops: the unfreeze
signed last, in the last seconds, does not expire. On a clock that never stops each signature
is good for a while only, submitting would be enabled again and again instead of always, and the
assumption would have to be strong fairness. In both forms it says the same of the real owner: of
the unfreezes he goes on signing, one reaches the chain before it expires.
Nothing is assumed of any other step: a competing ceremony may land or not, at any time,
and kill the pending unfreeze by taking its nonce. The number of competing ceremonies is
bounded, as a real owner's is; with an endless supply of them the property would be false.
Safety properties assume no fairness.

## 6. What is proved

With TLAPS, for every value of the constants that satisfies the named assumptions
(`CapsAssumption`, `BucketsAssumption`, `PolicyAssumption`, `SessionsAssumption`,
`LedgerAssumption`, `WardenAssumption`, `HoldersAssumption`, `RootVerifyAssumption`,
`TransactionsAssumption`, `TranscriptAssumption`, `TokenTransfersAssumption`,
`ConservationAssumption`:
types, that sentinels are no mints, no authority hashes to zeros, program ids differ,
passkeys are none of the other keys and the vault is no wallet, and that there are
finitely many addresses, an address being 32 bytes):

| Theorem | Statement |
|---|---|
| `Warden_proofs!NeverReplayed` | in the abstract specification no signature takes effect twice |
| `Warden_proofs!TypeCorrect` | `Spec => []TypeOK` for the whole program |
| `Warden_proofs!RootRefinement` | `Spec => ImplementsRootAuthority`: any accounts, keys, holders, policies |
| `Warden_proofs!NoSignatureTwice` | no passkey signature takes effect twice in any behaviour of the program |
| `Warden_proofs!FreezeHolds` | `Spec => FreezeHoldsForTimelock`: nothing leaves a frozen vault before its timelock has run out |
| `Warden_proofs!SignedEffects` | `Spec => EffectsAreSigned`: what takes effect is what was signed |
| `Warden_proofs!GrantsLandAsShown` | `Spec => GrantLandsOnWhatWasShown`: a grant lands on the session its signer saw |
| `Warden_proofs!SpendingIsRemembered` | `Spec => []LifetimeAccounting`: a slot says what the session spent, however often it was granted again |
| `Warden_proofs!SessionsFitPolicy` | `Spec => []SessionsWithinPolicy`: no live session exceeds its policy |
| `Warden_proofs!RoomForEveryGrant` | `Spec => []SlotsNeverRunOut`: no grant fails for want of a slot |
| `Transactions_proofs!TypeCorrect` | every account in use has a P-256 root, a canonical origin and its hash, in the middle of any transaction |
| `Transactions_proofs!EffectsSigned` | every root operation that took effect was signed for it by the account's own root, at its nonce, once |
| `Transactions_proofs!RootKept` | no transaction changes a root, an origin or a cluster, or lowers a nonce |
| `Transactions_proofs!OwnersCommand` | in every reachable state the owner's fresh assertion is verified and accepted |
| `Limits_proofs!TypeCorrect` | types of the ledger; the day's total stays a u64 |
| `Limits_proofs!RingIsTheHistory` | the ring is exactly the history of the days it stands for |
| `Limits_proofs!TodayIsTheHistory` | the running total is the history of its UTC day |
| `Limits_proofs!SpendStaysWithinCaps` | `Spec => []SpendWithinCaps`: no UTC day and no window of `RING_DAYS` days sees more than the caps allow |
| `Limits_proofs!BucketImplementsLimits` | `Spec => ImplementsSpendLimits`: the bucket accepts what a keeper of the whole history would |
| `Limits_proofs!PolicyIsKeyed` | `PolicySpec => []KeyedByMint`: stored arrays, looked up by mint, say what the arguments said |
| `Limits_proofs!CeilingsFitCaps` | `PolicySpec => []CeilingsUnderCaps`: no stored session ceiling is above its mint's cap |
| `Limits_proofs!RefusalsHaveReasons` | `PolicySpec => []RefusedOnlyWithReason`: good arguments are never refused |
| `Warden_proofs!NoValueAppears` | `Spec => []ValueConserved`: no instruction creates or destroys value |
| `Warden_proofs!SpendingIsCapped` | `Spec => []AccountWideCaps`: the root and all sessions together stay within the account's caps |
| `Warden_proofs!BucketsRememberRight` | `Spec => []BucketsAreExact`: in the whole program too, a bucket lets through what `SpendLimits` would, no more and no less |
| `Warden_proofs!OutflowCharged` | `Spec => OutflowIsCharged`: what leaves a vault is charged once, to the right bucket and session |
| `SignedBytes_proofs!DifferentDocuments` | `SignedBytesSpec => []DocumentsDiffer`: ceremonies that differ anywhere are signed over different bytes |
| `SignedBytes_proofs!MirrorIsExact` | `SignedBytesSpec => []MirrorAgrees`: the TypeScript encoder writes the Rust encoder's bytes or throws |
| `SignedBytes_proofs!NumbersAreNumbers` | `LexemesSpec => []NumbersAreJson`: in any text, the scanner takes for a number what JSON's grammar calls one, no less and no more |
| `SignedBytes_proofs!DecoderAndValidatorAgree` | `LexemesSpec => []StringsAgree`: in any text, decoder and validator take the same string to the same byte, but for half a surrogate pair |
| `SignedBytes_proofs!EscapesAreUtf8` | `LexemesSpec => []EscapesSpellUtf8`: a `\u` escape is the UTF-8 of its code point, or refused |
| `SignedBytes_proofs!AnyChallengeSurvives` | `LexemesSpec => []ChallengesSurvive`: program and client write any bytes as the same base64url, RFC 4648's, and the scanner reads it back |
| `TokenTransfers_proofs!TypeCorrect` | balances stay natural numbers, charges within their bound |
| `TokenTransfers_proofs!LedgerRefinement` | `Spec => ImplementsVaultLedger`: the vault's balance of a mint, over all token accounts there are, is one number |
| `Conservation_proofs!TypeCorrect` | token accounts and snapshots stay well-formed through any call |
| `Conservation_proofs!OutflowCounted` | `Spec => OutflowIsCounted`: wrapped SOL that was the vault's alone still is, or was counted |

**Root authority.** The refinement needs two facts that no single handler states. `RootInv`
is their conjunction: an account's nonce is the number of root operations that took effect
on it, and every signature was made when as many had taken effect as the nonce in its
transcript says. Each root handler preserves the first because it consumes exactly one
nonce and appends one signature; the signing actions preserve the second because the
transcript copies the nonce. From both, a signature the program accepts (its transcript is the
one recomputed now) is one the abstract specification accepts. `NeverReplayed` rests on its
own invariant: the n-th entry of `executed[a]` was made when n − 1 had taken effect. Hence two
equal entries have equal positions. `NoSignatureTwice` composes the two.

**What the owner is promised.** Three lemmas of `Warden_proofs` carry six theorems:
`ControlStep` (a step keeps what decides who may spend from an account, creates, freezes or
unfreezes it), `SessionStep` (a session is kept, closed, granted what a policy admits and a
nonce was consumed for, or charged exactly what it draws) and `RootInstructionAsSigned`.
The invariants are what the properties do not say themselves:

* `FreezeInv`: until the timelock has run out since the last freeze, the account is frozen
  and dated by that freeze, so `unfreeze` counts from the moment the property counts from.
* `UnusedInv`: an address without an account is not frozen and has no sessions; without it
  creating an account could change `frozen` with no signature, and hand sessions of before
  to a new policy.
* `GrantInv`: as long as the account's nonce is the one a grant was signed for, its session
  is as displayed but for what it spent since, or gone. Only a grant restores a closed session, and
  a grant consumes the nonce: this is why leaving `lifetime_spent` out of the authority hash
  gives nothing away. A session that is gone is told from one that was shown because no
  authority hashes to zeros (`SessionsAssumption`).
* `LifetimeAccounting` is inductive: its first part (no mint twice) is what makes the slot a
  re-grant writes the slot that was charged, and its third (a mint without a slot has spent nothing)
  what makes a fresh slot start at the truth (`MergeCapAccountedFor`).
* `PolicyInv` adds that every stored policy is sound: its ceilings, which `validate_policy`
  compares with the caps slot by slot, are below them mint by mint, as every later reader
  looks them up (`ExpandedIsSound`, from re-keying and the distinct mints `expand` insists on).
* `RoomForEveryGrant` needs the last two together: one slot for each mint, and a ceiling
  for each mint with a slot. If every slot were taken and a mint with a ceiling had none, two
  mints would share a ceiling (`RoomUnderCeiling`, a pigeonhole). The comment in
  `grant_session.rs` gives another reason, that an account is created with at most four mints,
  and expects the error once policies can grow; the proof does not use that bound, only that
  a session has as many slots as a policy.

**Transactions.** `IInv` joins the types, `EffectsWereSigned` of the committed state and of the
working copy, that an account in use stores the hash of its own origin, and that the working
copy keeps the roots of the committed state (so that `Commit` does). The step that matters
is `Execute`: `BoundWasSigned` says that what `bind_precompile` reads is what the runtime
verified, because both resolve the same offsets in the same data; `VerifiedWasSigned` adds
that the transcript it is over is the one for the nonce as it stands; `AfterSigned` appends
that operation to the history and keeps the older ones, whose evidence only needs the root,
origin and cluster (`SignedForDepends`). Nothing is assumed of `Composed`: transactions are
any sequences whatever. `OwnersCommand` follows from the types and the stored hash, by
computing the four slices of the owner's own precompile instruction.

**Sums.** A library sum over a set is a recursion on the set, and the library's induction
theorems take the property as an operator, which the provers cannot instantiate. Here the
property is a *set*: `LeastNatural` (from well-foundedness of `<`, as a set of pairs) gives
`SubsetsReached`, that a set of subsets which contains the empty one and is closed under
adding an element contains them all. With it `Sums_proofs` shows that the recursion has one solution
(`SumExists`, `SumUnique`) and that any element can be taken out first (`SumTakesOut`); the rest
says how a sum changes: when one term changes (`SumOfChanged`), when value moves between
two (`SumOfMoved`), when places are renamed (`SumOfRenamed`), when every term is covered by two
others (`SumOfCovered`). Each step of the models touches one or two terms.

**The ring.** `RingMirrorsHistory` is not inductive alone: a debit rolls day and ring
together, and the argument needs that the day the bucket is on starts at midnight
(`TodayMirrorsHistory`) and that it is not in the future. `Inv` in `Limits_proofs` is
that conjunction with the types and the caps. The step lemma says that two days less than
`RING_DAYS` apart never share a slot (`SlotsApart`, from uniqueness of remainders,
`OneRemainder`) and that a slot comes round exactly after `RING_DAYS` days
(`SlotComesRound`). `RingIsTheWindow` then renames slots to days: the sum over the rolled
ring *is* the history's sum over the window that ends today. So `debit` compares with the
caps exactly what `SpendLimits` compares (`AllowedIsWithin`, which gives the refinement both ways,
acceptance and refusal), and a payment that passes keeps every window capped: those ending
today by that comparison, earlier ones because they do not contain today, later ones
because nothing has been paid after it (`DebitStaysCapped`).

**Account-wide caps.** `SpendInv` says, of every account and mint with a cap, what `Inv` says
of one bucket, `Tracks` and `Capped`, with the bucket that `find_cap` leads to and `paid` as the
history. Both authorization paths debit that bucket; no other instruction touches it or
the policy that indexes it, and `create_account` zeroes it while nothing was paid yet. So the
lemmas of `Caps_proofs` about one debit carry over to the program. `AllowedAsHistory`, what a
debit computes in terms of the history, serves both: `BucketImplementsLimits`, and
`BucketsAreExact`, which asks of each account and mint whether `SpendLimits`, given `paid` as
its history, would allow what the bucket allows.

**Value.** `ValueInv` adds to `ValueConserved` that the live sessions are finitely many, since
their rent is part of the sum. Each instruction moves value between two holders, or between a
holder and the rent of one session (`TotalOfSame` and its neighbours). For `OutflowCharged`,
`PaymentStep` sorts all steps of an account into three: nothing leaves, the account is created,
or one payment of one asset is made, whose amount went through one bucket and, without a
root ceremony, one slot of one session. Only the last takes from the sum over the assets
that share a cap.

**Policies.** `PolicyInv` in `Limits_proofs` is that what is stored is the expansion of
arguments that expand and validate, and what was refused is not. The rest is about `expand`: a
mint that one entry names is found in the slot of its cap and nowhere else
(`PaddedSays`, `KeyedSays`), so the slot-by-slot comparison is the one by mint. That good arguments are
never refused needs that as many mints as entries means distinct mints
(`CountedMintsAreDistinct`, a surjection between sets of one size is injective).

**Signed bytes.** A document is read back from its bytes: fields of fixed width from the end
(`ReadTail`), then what precedes the Vecs of a grant from the front (`ReadHead`), then
the Vecs. A Vec needs its length in front: with the number of items equal, the
items, all of one width, are as long as their counterparts, so each is read back
(`FlattenRead`) and the next Vec starts where this one ends (`BorshVecRead`). Without that
number the lemma is false, which is the mutant `BorshVecBare`. Integers are read back because
those with the same bytes are a multiple of the number of values apart (`SameBytes`). An operation's
byte comes first in its hash and decides which body to read. `RadixTo`, `FlattenSeq` and the
sums are recursions over naturals; `RecursionExists` gives them a solution by the set-based
induction above. For the mirror, a buffer filled up to an offset and set there is filled up to the next
(`FillNext`), eight times over; `GuardsAreTypes` says that its assertions are the Rust
encoder's types. What remains assumed is that Keccak-256 does not collide.

**Scans.** A loop of the scanner is a recursive function of the position whose value refers
to a later position only, or to `Fail`. That it has a solution at all is `BackwardExists`, of
any such recursion; that something holds at every position is `LastToFirst`, which like the
induction of `Sums_proofs` takes the property as a set. With these:

* `StringsAgree`: `AgreeFrom` says of every position outside an escape that the two loops,
  begun there, end at the same byte unless a `\u` escape names half a pair before. One turn
  keeps it (`ScansAgree`): a turn reads a whole escape or none (`UnitsAreWhole`), so the next
  turn begins outside an escape again, and the `\u` escapes the reference finds by counting
  backslashes are the ones that turns begin at (`EscapedNext`).
* `EscapesSpellUtf8`: four digits are a number up to 65535 (`HexRead`); below 128, below 2048 and
  above, what `push_utf8` writes is one character and numbers it back (`Utf8Numbers`).
* `ChallengesSurvive`: a chunk of three bytes is four sextets of the bits in a row
  (`WholeChunkRead`, from the bits of a byte, `PartsOfByte`), and one or two bytes left over are two or three of
  them, zeros at the end (`RestRead`). The program flattens the chunks, the client runs a
  loop from the first byte on; both write the run of all the bits (`ProgramWritesBits`,
  `ClientWritesBits`). The alphabet holds no quote, backslash or control (`AlphabetIsPlain`), so the scanner
  reads the text unchanged (`PlainTextRead`).
* `NumbersAreJson`: the reference cuts a number into sign, integer, fraction and exponent;
  `NumbersByPosition` says the same by the positions of the cuts. The first byte that is no digit
  is where digits end and the only place (`DigitsHaveAnEnd`). Hence the scanner's
  positions are cuts (`NumbersTaken`), and cuts are where the scanner stops (`NumbersFound`), since after an
  integer without a fraction there is no point, and so on.

**Token accounts.** Types are inductive on their own. For the refinement, the balance of a
mint is a sum over all addresses, of 0 where the account is not the vault's. A transfer by others
changes the sum at its destination alone, because its source has an owner among the wallets;
a hand-over at the account handed over; the program's transfer at its source alone,
because its destination was found to be somebody else's (`PaysSomebodyElse`) and not the source.

**Conservation.** The state to look at is `Committed`, what would be there if the call were
taken back. During a call only accounts passed change, so `Committed` does not
(`OnlyPassedChange`). Between calls nobody signs for the vault, and `OthersTakeNothing`
goes through every token instruction: each needs the owner, the delegate or the close
authority, none of which is a wallet where the account is the vault's alone. At `Accept` every
account left untouched has what it had less what is counted of it (`UntouchedKeeps`), and
`HeldAndCounted` adds that up over the accounts passed.

**Only model-checked**: `AcceptsOnlyTheGenuine` and `AcceptsAllTheGenuine`, because a document nests
and `ParseStrict` is defined by `RECURSIVE` operators over its values, which the prover does
not reason about; and `FreezeEnds`, liveness under fairness. Both are out of its reach. What is
proved of numbers and strings is what those two stand on.

## 7. Where the documents and the code differ

* `rolling_window`: the design spec promises a rolling 30-day cap and gives the ring as the
  way to have it. `debit` sums UTC-day totals, so the window moves at midnight: what left
  late on one day and early on the 30th after it lies within 30 × 86400 seconds and is not
  counted together. In runs of UTC days the cap does hold (`SpendWithinCaps`).
* `session_calls`: comments in `transfer.rs` and `grant_session.rs` and the design spec
  bound a session by `per_tx x (calls) <= lifetime_cap`. The code bounds the sum of the
  amounts, so calls below `per_tx` can be more numerous. The bound on value is the one that
  holds (`LifetimeAccounting`).
* `revoke_binding`: a comment in `transcript.rs` says a root revocation is hashed over the
  session key alone; `revoke_session.rs` hashes the refund account with it, and a signature
  is refused for any other.

* `grant_fields`: the TypeScript transcript lists the fields of `GrantBody` that a client
  encodes, without `prior_authority_hash`; the program hashes it, so a grant over the listed
  fields alone is refused, and a good one becomes bad when the session it was shown changes.

## 8. Assumptions and abstractions

* **Runtime.** An instruction happens as a whole or not at all; accounts are written by one
  at a time; `unix_timestamp` does not go back; `init` fails on an address in use; `close`
  returns the rent. In `Warden` a transaction holds one instruction; `Transactions` shows that
  several, with roll-back, do no more to roots, nonces and freezes. The runtime verifies
  every entry of every precompile instruction before anything runs.
* **A failed transfer.** `transfer` charges the bucket and the session before it moves the
  value, and relies on the runtime to take both back when the move fails. That is the first
  assumption above, so no property here could notice if it were not so.
* **Calls from other programs.** In `Transactions` the instructions of other programs leave the
  accounts alone. On chain another program may also call a root instruction of warden. The
  handler then checks what it always does: `bind_precompile` wants a precompile instruction of the
  transaction that stands before the one that is running (the index of the outer instruction),
  and the transcript wants the nonce as it stands. So such a call needs the same signature and
  uses it up the same way; it is not modelled.
* **Truncated messages.** A passkey signs whole messages only, so a precompile instruction over
  part of one is never verified, and no run reaches `bind_precompile`'s comparison of lengths with one;
  `EffectsSigned` is proved with the comparison in place, for any composition.
* **Cryptography.** Hashes are collision-free and never all zeros, so a hash is the record
  it covers. A passkey
  signature exists if and only if the owner made it (`signed`).
* **Times** are integers: `expiry_ts` bounds and `frozen_at + timelock_secs` are never near
  the ends of i64 here. The saturating and checked additions on them are plain sums.
* **u64.** Amounts the program adds under `checked_add` are checked with `Fits`; the runs
  put `U64_MAX` low enough to be hit.
* **Accounts.** Every holder has one well-formed token account per mint. Session addresses
  start without lamports; a smart account's may be funded before it is created, and is in
  `two_accounts`.
* **Left out because nothing depends on them:** `bump`, events, error codes, the sign counter
  (the program does not read it); in `Warden` also `label`, `program_id`, the cluster tag,
  the root's key and its rotation (no instruction of this version changes `generation`,
  `policy.version` or the root; `RootIsForever`).
* **Bytes.** In `RootVerify` instruction data are cells (a key, a signature, half a message)
  and offsets count cells; clientDataJSON is the record of the fields that are read, and
  `ClientData` shows what parsing does. `ClientData` has one-byte keys and two-byte
  literals; that the real keys differ from each other is an assumption the code's literals
  meet. Whether bytes over 127 form UTF-8 is left to the scanner as in the code.
* **The inner call of the spike** is left out by the spike itself (`lib.rs:222`); the model
  puts it where the comment does, with the vault's signature and the accounts passed.
* **Clients.** A grant or revocation is submitted with the body that was signed; since the
  body's hash is in the transcript, another body is refused, which the other instructions,
  tried with every argument, show. `EffectsAreSigned` covers those.
* `FrozenState::Guardian` exists as a value and no instruction stores it; `unfreeze`
  accepts only `Root`.

## 9. Not modelled

* The token programs, the system program, the precompile and the browser: external, modelled
  by what the code needs of them, each where it is used.
* `packages/core` beyond the transcript (constants, re-exports, the generated IDL): no
  behaviour.
* `spikes/02-webauthn`: an earlier checker that looked for substrings; `root_verify` replaced
  it and is modelled. The rest of `spikes`: measurements.
* UI tokens: data. Phases 1B and 1C: not written.

## 10. Plan

Written, in this order: `Caps`, `Buckets`, `SpendLimits`, `BucketLedger`; `Policy`,
`Sessions`; `RootAuthority`, `Warden`; their runs and proofs; `ClientData`, `StrictJson`;
`TokenTransfers`, `VaultLedger`; `RootVerify`, `Transactions` and their proofs; `Transcript`;
`Conservation`; the rest of `Warden_proofs`; `Sums_proofs` and, on it, the caps, the value and the token
accounts; `AccountPolicy` and its proofs; `SignedBytes`
and its proofs; `Lexemes` and its proofs. Every safety and action property that a passing run
checks is now a theorem, except the two of whole documents.

Open, should the code or the tools move:

1. The document scanner without `RECURSIVE` operators (values as positions with a depth, bounded by
   `MAX_JSON_DEPTH`), to prove `AcceptsOnlyTheGenuine` from the lemmas on strings and numbers.
2. `Transactions` with the bodies of all six root operations, as a refinement to `Warden`'s
   atomic actions.
3. Phases 1B and 1C, when they are written.
