----------------------------- MODULE BucketLedger -----------------------------
(***************************************************************************)
(* One mint's bucket driven by the clock and by debits, beside the history   *)
(* of what it let through. The bucket remembers RING_DAYS day totals in a     *)
(* ring and the current day's total apart; SpendLimits remembers everything. *)
(* The refinement says the two accept exactly the same requests.             *)
(***************************************************************************)
EXTENDS Buckets

CONSTANTS
  CapChoices,  \* the caps policies put on this mint, as validate_policy admits
  Amounts,     \* the amounts that are requested
  MaxTime      \* bound: the last second of the run

ASSUME LedgerAssumption ==
  /\ CapChoices \subseteq MintCap
  /\ \A cap \in CapChoices :
       cap.mint # NoMint /\ cap.per_tx <= cap.per_day /\ cap.per_day <= cap.per_30d
  /\ Amounts \subseteq U64
  /\ MaxTime \in Nat

VARIABLES
  now,      \* Clock::get()?.unix_timestamp
  cap,      \* the account's cap for the mint; nothing changes it once created
  bucket,   \* the account's MintBuckets for the mint
  spent,    \* history: UTC day -> total debited on it
  verdict   \* history: how the last debit ended since the clock moved

vars == <<now, cap, bucket, spent, verdict>>

Days == 0 .. (MaxTime \div DAY_SECS)

\* A bucket is created zeroed, at whatever time the account is created.
Init ==
  /\ now \in 0 .. MaxTime
  /\ cap \in CapChoices
  /\ bucket = EmptyBuckets
  /\ spent = [d \in Days |-> 0]
  /\ verdict = "none"

\* The ledger clock never goes back; between two debits it may move any distance.
Tick ==
  /\ now' \in (now + 1) .. MaxTime
  /\ verdict' = "none"
  /\ UNCHANGED <<cap, bucket, spent>>

Debit(amount) ==
  /\ DebitAllowed(bucket, cap, amount, now)
  /\ bucket' = Debited(bucket, amount, now)
  /\ spent' = [spent EXCEPT ![DayNumber(now)] = @ + amount]
  /\ verdict' = "paid"
  /\ UNCHANGED <<now, cap>>

\* An error return leaves the bucket byte-identical, rollover included.
DebitRefused(amount) ==
  /\ ~ DebitAllowed(bucket, cap, amount, now)
  /\ verdict' = "refused"
  /\ UNCHANGED <<now, cap, bucket, spent>>

Next == Tick \/ \E amount \in Amounts : Debit(amount) \/ DebitRefused(amount)

Spec == Init /\ [][Next]_vars

-----------------------------------------------------------------------------
(* Properties. *)

\* The variables range over what the program can store.
TypeOK ==
  /\ now \in 0 .. MaxTime
  /\ cap \in CapChoices
  /\ bucket \in MintBuckets
  /\ spent \in [Days -> Nat]
  /\ verdict \in {"none", "paid", "refused"}

RememberedDays ==
  {d \in Days : bucket.ring_day_index - RING_DAYS < d /\ d <= bucket.ring_day_index}

\* The ring is exactly the history of the RING_DAYS days it stands for: a slot
\* reused after a wrap or skipped by a long silence holds no older day's total,
\* and nothing was paid after the day the ring was last rolled to
\* (buckets.rs debit, the ring roll).
RingMirrorsHistory ==
  /\ \A d \in RememberedDays : bucket.ring[RingSlot(d)] = spent[d]
  /\ \A s \in RingSlots :
       bucket.ring[s] # 0 => \E d \in RememberedDays : s = RingSlot(d)
  /\ \A d \in Days : d > bucket.ring_day_index => spent[d] = 0

\* The separate running total of the day is the history of the day the bucket
\* is on, and that day starts at UTC midnight (buckets.rs debit, the day roll).
TodayMirrorsHistory ==
  /\ bucket.day_start = bucket.ring_day_index * DAY_SECS
  /\ bucket.spent_today = spent[bucket.ring_day_index]

\* No UTC day, and no RING_DAYS consecutive UTC days whenever they start, saw
\* more paid out than the account's caps allow (debit's per_day and per_30d).
SpendWithinCaps ==
  /\ \A d \in Days : spent[d] <= cap.per_day
  /\ \A last \in Days :
       SumFunctionOnSet(spent, {d \in Days : last - RING_DAYS < d /\ d <= last})
         <= cap.per_30d

\* debit accepts exactly the requests the history-keeping specification
\* accepts, at every time and after every gap: the ring forgets nothing that
\* still counts and keeps nothing that no longer does.
Limits == INSTANCE SpendLimits WITH Limits <- CapChoices, limit <- cap
ImplementsSpendLimits == Limits!Spec

=============================================================================
