---------------------------- MODULE Limits_proofs ----------------------------
(***************************************************************************)
(* What limits are worth, for any day, ring, caps and gaps between debits, and   *)
(* any arguments of create_account. First a bucket: it mirrors the history, keeps *)
(* it within the caps, and lets through exactly what the history-keeping          *)
(* specification lets through. TypeOK, TodayMirrorsHistory, RingMirrorsHistory    *)
(* and SpendWithinCaps together, and that the ring is never ahead of the clock,   *)
(* are inductive. Then the policy the caps come from: it is what the arguments     *)
(* said, mint by mint.                                                        *)
(***************************************************************************)
EXTENDS BucketLedger, AccountPolicy, Caps_proofs

-----------------------------------------------------------------------------
(* Buckets. *)

Inv ==
  /\ TypeOK
  /\ bucket.ring_day_index <= DayNumber(now)
  /\ TodayMirrorsHistory
  /\ RingMirrorsHistory
  /\ SpendWithinCaps

LastDay == MaxTime \div DAY_SECS

-----------------------------------------------------------------------------
(* Days. *)

\* The days of the run are those up to its last one.
LEMMA DaysOfTheRun ==
  /\ LastDay \in Nat /\ Days = 0 .. LastDay
  /\ RING_DAYS \in Nat \ {0} /\ DAY_SECS \in Nat \ {0} /\ MaxTime \in Nat
<1>1. LastDay \in Nat
  BY LedgerAssumption, Midnight DEF LastDay
<1> QED
  BY <1>1, LedgerAssumption, BucketsAssumption DEF Days, LastDay

\* The day of any second of the run is one the history has a total for.
LEMMA DayOfNow ==
  ASSUME NEW t \in 0 .. MaxTime
  PROVE  t \in Nat /\ DayNumber(t) \in Nat /\ DayNumber(t) <= LastDay /\ DayNumber(t) \in Days
<1>1. t \in Nat /\ t <= MaxTime
  BY DaysOfTheRun
<1>2. DayNumber(t) \in Nat /\ DayNumber(t) <= DayNumber(MaxTime)
  BY <1>1, DaysOfTheRun, LaterDay, Midnight DEF DayNumber
<1>3. DayNumber(MaxTime) = LastDay
  BY DEF DayNumber, LastDay
<1> QED
  BY <1>1, <1>2, <1>3, DaysOfTheRun

\* The days up to one of them that count together are its window.
LEMMA WindowInDays ==
  ASSUME NEW day \in Days
  PROVE  {d \in Days : day - RING_DAYS < d /\ d <= day} = Window(day)
  BY DaysOfTheRun DEF Window

-----------------------------------------------------------------------------
(* The invariant, in the words of the lemmas about buckets. *)

\* Inv says that the bucket tracks the history and the history is within the caps.
LEMMA InvTracks ==
  Inv <=> /\ TypeOK
          /\ bucket.ring_day_index <= DayNumber(now)
          /\ Tracks(bucket, spent, LastDay)
          /\ Capped(cap, spent, LastDay)
<1> SUFFICES ASSUME TypeOK, bucket.ring_day_index <= DayNumber(now)
             PROVE  /\ (TodayMirrorsHistory /\ RingMirrorsHistory)
                         <=> Tracks(bucket, spent, LastDay)
                    /\ SpendWithinCaps <=> Capped(cap, spent, LastDay)
  BY DEF Inv
<1>1. bucket.ring_day_index \in Nat /\ bucket.ring_day_index \in Days
  <2>1. bucket.ring_day_index \in Nat
    BY DEF TypeOK, MintBuckets
  <2>2. DayNumber(now) \in Nat /\ DayNumber(now) <= LastDay
    BY DayOfNow DEF TypeOK
  <2> QED
    BY <2>1, <2>2, DaysOfTheRun
<1>2. RememberedDays = Window(bucket.ring_day_index)
  BY <1>1, WindowInDays DEF RememberedDays
<1>3. RingMirrorsHistory <=> Mirrors(bucket, spent, LastDay)
  BY <1>2, DaysOfTheRun DEF RingMirrorsHistory, Mirrors
<1>4. SpendWithinCaps <=> Capped(cap, spent, LastDay)
  <2>1. ASSUME SpendWithinCaps, NEW d \in 0 .. LastDay
        PROVE  spent[d] <= cap.per_day
               /\ SumFunctionOnSet(spent, Window(d)) <= cap.per_30d
    <3>1. d \in Days
      BY DaysOfTheRun
    <3>2. SumFunctionOnSet(spent, {e \in Days : d - RING_DAYS < e /\ e <= d})
            <= cap.per_30d
      BY <2>1, <3>1 DEF SpendWithinCaps
    <3> QED
      BY <2>1, <3>1, <3>2, WindowInDays DEF SpendWithinCaps
  <2>2. ASSUME Capped(cap, spent, LastDay) PROVE SpendWithinCaps
    <3>1. \A d \in Days : spent[d] <= cap.per_day
      BY <2>2, DaysOfTheRun DEF Capped
    <3>2. ASSUME NEW last \in Days
          PROVE  SumFunctionOnSet(spent, {d \in Days : last - RING_DAYS < d /\ d <= last})
                   <= cap.per_30d
      <4>1. SumFunctionOnSet(spent, Window(last)) <= cap.per_30d
        BY <2>2, DaysOfTheRun DEF Capped
      <4> QED
        BY <4>1, WindowInDays
    <3> QED
      BY <3>1, <3>2 DEF SpendWithinCaps
  <2> QED
    BY <2>1, <2>2 DEF Capped
<1> QED
  BY <1>3, <1>4 DEF Tracks, TodayMirrorsHistory

\* What every state of the run has, in the terms the lemmas about buckets ask for.
LEMMA TypesOfTheRun ==
  ASSUME TypeOK
  PROVE  /\ bucket \in MintBuckets /\ spent \in [0 .. LastDay -> Nat]
         /\ now \in Nat /\ DayNumber(now) \in Nat /\ DayNumber(now) <= LastDay
         /\ LastDay \in Nat
         /\ cap.per_day \in U64 /\ cap.per_30d \in U64
         /\ cap.per_day \in Nat /\ cap.per_30d \in Nat
         /\ \A amount \in Amounts : amount \in U64 /\ amount \in Nat
<1>1. cap \in MintCap
  BY LedgerAssumption DEF TypeOK
<1>2. \A n \in U64 : n \in Nat
  BY CapsAssumption DEF U64
<1>3. \A amount \in Amounts : amount \in U64
  BY LedgerAssumption
<1>4. cap.per_day \in U64 /\ cap.per_30d \in U64
  BY <1>1 DEF MintCap
<1> QED
  BY <1>2, <1>3, <1>4, DayOfNow, DaysOfTheRun DEF TypeOK

\* An empty bucket tracks an empty history, whenever it is created.
LEMMA InitInv == Init => Inv
<1> SUFFICES ASSUME Init PROVE Inv
  OBVIOUS
<1>1. bucket = EmptyBuckets /\ spent = [d \in 0 .. LastDay |-> 0] /\ LastDay \in Nat
  BY DaysOfTheRun DEF Init
<1>2. bucket \in MintBuckets /\ bucket.ring_day_index = 0 /\ Tracks(bucket, spent, LastDay)
  BY <1>1, EmptyTracks
<1>3. TypeOK
  BY <1>1, <1>2 DEF Init, TypeOK
<1>4. Capped(cap, spent, LastDay)
  BY <1>1, <1>3, TypesOfTheRun, NothingPaidIsCapped
<1>5. bucket.ring_day_index <= DayNumber(now)
  BY <1>2, <1>3, TypesOfTheRun
<1> QED
  BY <1>2, <1>3, <1>4, <1>5, InvTracks

\* A debit adds the amount to the day it is made on, on both sides, and leaves the
\* history within the caps.
LEMMA DebitKeepsInv ==
  ASSUME Inv, NEW amount \in Amounts, Debit(amount)
  PROVE  Inv'
<1>1. /\ TypeOK
      /\ bucket.ring_day_index <= DayNumber(now)
      /\ Tracks(bucket, spent, LastDay)
      /\ Capped(cap, spent, LastDay)
  BY InvTracks
<1>2. /\ bucket' = Debited(bucket, amount, now)
      /\ spent' = [spent EXCEPT ![DayNumber(now)] = @ + amount]
      /\ verdict' = "paid"
      /\ now' = now /\ cap' = cap
      /\ DebitAllowed(bucket, cap, amount, now)
  BY DEF Debit
<1>3. /\ bucket'.ring_day_index = DayNumber(now)
      /\ Tracks(bucket', spent', LastDay)
  BY <1>1, <1>2, TypesOfTheRun, DebitTracks
<1>4. Capped(cap', spent', LastDay)
  BY <1>1, <1>2, TypesOfTheRun, DebitStaysCapped
<1>5. TypeOK'
  <2>1. bucket' \in MintBuckets
    BY <1>1, <1>2, TypesOfTheRun, DebitedIsABucket
  <2>2. spent' \in [Days -> Nat]
    BY <1>1, <1>2, TypesOfTheRun, AddedInOneSlot DEF TypeOK
  <2> QED
    BY <1>1, <1>2, <2>1, <2>2 DEF TypeOK
<1>6. bucket'.ring_day_index <= DayNumber(now')
  BY <1>1, <1>2, <1>3, TypesOfTheRun
<1>7. (/\ TypeOK
        /\ bucket.ring_day_index <= DayNumber(now)
        /\ Tracks(bucket, spent, LastDay)
        /\ Capped(cap, spent, LastDay))' => Inv'
  BY InvTracks, PTL
<1> QED
  BY <1>3, <1>4, <1>5, <1>6, <1>7

\* No step, refused debits and any jump of the clock included, breaks the invariant.
LEMMA NextInv == Inv /\ [Next]_vars => Inv'
<1> SUFFICES ASSUME Inv, [Next]_vars PROVE Inv'
  OBVIOUS
<1>1. CASE Tick
  <2>1. /\ now \in Nat /\ now' \in 0 .. MaxTime /\ now' \in Nat /\ now <= now'
        /\ bucket' = bucket /\ spent' = spent /\ cap' = cap /\ verdict' = "none"
    BY <1>1, LedgerAssumption DEF Tick, Inv, TypeOK
  <2>2. bucket.ring_day_index <= DayNumber(now')
    <3>1. DayNumber(now) <= DayNumber(now')
      BY <2>1, LaterDay
    <3>2. DayNumber(now) \in Nat /\ DayNumber(now') \in Nat /\ bucket.ring_day_index \in Nat
      BY <2>1, Midnight DEF DayNumber, Inv, TypeOK, MintBuckets
    <3> QED
      BY <3>1, <3>2 DEF Inv
  <2> QED
    BY <2>1, <2>2
       DEF Inv, TypeOK, TodayMirrorsHistory, RingMirrorsHistory, RememberedDays,
           SpendWithinCaps
<1>2. ASSUME NEW amount \in Amounts, Debit(amount) PROVE Inv'
  BY <1>2, DebitKeepsInv
<1>3. ASSUME NEW amount \in Amounts, DebitRefused(amount) PROVE Inv'
  BY <1>3
     DEF DebitRefused, Inv, TypeOK, TodayMirrorsHistory, RingMirrorsHistory,
         RememberedDays, SpendWithinCaps
<1>4. CASE UNCHANGED vars
  BY <1>4
     DEF vars, Inv, TypeOK, TodayMirrorsHistory, RingMirrorsHistory, RememberedDays,
         SpendWithinCaps
<1> QED
  BY <1>1, <1>2, <1>3, <1>4 DEF Next

\* The inductive invariant holds in every behaviour of the bucket.
THEOREM Invariance == Spec => []Inv
<1> QED
  BY InitInv, NextInv, PTL DEF Spec

\* The variables keep their types; the day's total is a u64 whatever is debited.
THEOREM TypeCorrect == Spec => []TypeOK
<1>1. Inv => TypeOK
  BY DEF Inv
<1> QED
  BY <1>1, Invariance, PTL

\* The ring is exactly the history of the days it stands for, after any gap and any
\* number of times round.
THEOREM RingIsTheHistory == Spec => []RingMirrorsHistory
<1>1. Inv => RingMirrorsHistory
  BY DEF Inv
<1> QED
  BY <1>1, Invariance, PTL

\* The day's running total is the history of the UTC day the bucket is on.
THEOREM TodayIsTheHistory == Spec => []TodayMirrorsHistory
<1>1. Inv => TodayMirrorsHistory
  BY DEF Inv
<1> QED
  BY <1>1, Invariance, PTL

\* No UTC day and no RING_DAYS days in a row, whenever they start, see more paid out
\* than the caps allow (debit's per_day and per_30d).
THEOREM SpendStaysWithinCaps == Spec => []SpendWithinCaps
<1>1. Inv => SpendWithinCaps
  BY DEF Inv
<1> QED
  BY <1>1, Invariance, PTL

-----------------------------------------------------------------------------
(* The refinement. *)

\* What debit computes from the bucket is what the history says, so it accepts
\* exactly the requests that are within the history's limits.
LEMMA AllowedIsWithin ==
  ASSUME Inv, NEW amount \in Amounts
  PROVE  DebitAllowed(bucket, cap, amount, now) <=> Limits!Within(amount)
<1> DEFINE today == DayNumber(now)
<1>1. /\ TypeOK
      /\ bucket.ring_day_index <= today
      /\ Tracks(bucket, spent, LastDay)
  BY InvTracks
<1>2. /\ bucket \in MintBuckets /\ spent \in [0 .. LastDay -> Nat]
      /\ now \in Nat /\ today <= LastDay /\ LastDay \in Nat
      /\ amount \in Nat /\ today \in Days
  BY <1>1, TypesOfTheRun, DaysOfTheRun
<1>3. cap \in MintCap /\ cap.mint # NoMint
  BY <1>1, LedgerAssumption DEF TypeOK
<1>4. DebitAllowed(bucket, cap, amount, now)
        <=> /\ amount <= cap.per_tx
            /\ spent[today] + amount <= cap.per_day
            /\ SumFunctionOnSet(spent, Window(today)) + amount <= cap.per_30d
  BY <1>1, <1>2, <1>3, AllowedAsHistory
<1>5. /\ Limits!WindowSpent(today) = SumFunctionOnSet(spent, Window(today))
      /\ now \div DAY_SECS = today
  <2>1. Limits!WindowOf(today) = Window(today)
    BY <1>2, WindowInDays DEF Limits!WindowOf, Limits!Days, Days
  <2>2. Limits!WindowSpent(today) = SumFunctionOnSet(spent, Limits!WindowOf(today))
    BY Zenon DEF Limits!WindowSpent, Limits!SumFunctionOnSet, Limits!FoldFunctionOnSet,
                 Limits!MapThenFoldSet, SumFunctionOnSet, FoldFunctionOnSet, MapThenFoldSet
  <2> QED
    BY <2>1, <2>2 DEF DayNumber
<1>6. Limits!Within(amount)
        <=> /\ amount <= cap.per_tx
            /\ spent[today] + amount <= cap.per_day
            /\ SumFunctionOnSet(spent, Window(today)) + amount <= cap.per_30d
  <2> HIDE DEF today
  <2> QED
    BY <1>5 DEF Limits!Within
<1> QED
  BY <1>4, <1>6

\* A step of the bucket is a step of the history-keeping specification.
LEMMA LimitsStep == Inv /\ [Next]_vars => [Limits!Next]_(Limits!vars)
<1> SUFFICES ASSUME Inv, [Next]_vars PROVE [Limits!Next]_(Limits!vars)
  OBVIOUS
<1>1. CASE Tick
  BY <1>1 DEF Tick, Limits!Next, Limits!Tick
<1>2. ASSUME NEW amount \in Amounts, Debit(amount) PROVE Limits!Next
  <2>1. Limits!Pay(amount)
    BY <1>2, AllowedIsWithin DEF Debit, Limits!Pay, DayNumber
  <2> QED
    BY <2>1 DEF Limits!Next
<1>3. ASSUME NEW amount \in Amounts, DebitRefused(amount) PROVE Limits!Next
  <2>1. Limits!Refuse(amount)
    BY <1>3, AllowedIsWithin DEF DebitRefused, Limits!Refuse
  <2> QED
    BY <2>1 DEF Limits!Next
<1>4. CASE UNCHANGED vars
  BY <1>4 DEF vars, Limits!vars
<1> QED
  BY <1>1, <1>2, <1>3, <1>4 DEF Next

\* The bucket, its ring and its running total, accepts exactly the debits a keeper of
\* the whole history would: it implements SpendLimits (buckets.rs debit).
THEOREM BucketImplementsLimits == Spec => ImplementsSpendLimits
<1>1. Init => Limits!Init
  BY DEF Init, Limits!Init, Days, Limits!Days
<1> QED
  BY <1>1, LimitsStep, Invariance, PTL DEF Spec, ImplementsSpendLimits, Limits!Spec
-----------------------------------------------------------------------------
(* Policies. *)

\* A mint that one slot names is found in that slot.
LEMMA FoundInItsSlot ==
  ASSUME NEW array, NEW m, m # NoMint, NEW i \in CapSlots, array[i].mint = m,
         \A j \in CapSlots : array[j].mint = m => j = i
  PROVE  HasCap(array, m) /\ FindCap(array, m) = i
<1>1. HasCap(array, m)
  BY DEF HasCap
<1> QED
  BY <1>1, FindCapFinds

\* Among distinct mints, the entry for a mint is the one that names it.
LEMMA EntryOfMint ==
  ASSUME NEW entries, DistinctMints(entries), NEW i \in DOMAIN entries
  PROVE  /\ EntryFor(entries, entries[i].mint) = entries[i]
         /\ (CHOOSE j \in DOMAIN entries : entries[j].mint = entries[i].mint) = i
  BY DEF EntryFor, DistinctMints

\* The entries of a vector that expand accepts have slots to go to.
LEMMA EntriesHaveSlots ==
  ASSUME NEW caps \in Seq(MintCap), Len(caps) <= MAX_MINTS_AT_CREATE,
         NEW i \in DOMAIN caps
  PROVE  i \in CapSlots
<1>1. Len(caps) \in Nat /\ i \in 1 .. Len(caps) /\ MAX_MINTS_AT_CREATE \in 1 .. MAX_MINT_CAPS
      /\ MAX_MINT_CAPS \in Nat
  BY PolicyAssumption, CapsAssumption
<1> QED
  BY <1>1 DEF CapSlots

\* What the vectors of accepted arguments have in common.
Vector(caps) ==
  /\ caps \in Seq(MintCap)
  /\ Len(caps) <= MAX_MINTS_AT_CREATE
  /\ DistinctMints(caps)
  /\ \A i \in DOMAIN caps : caps[i].mint # NoMint

\* The stored caps, looked up by mint, are those of the arguments.
LEMMA PaddedSays ==
  ASSUME NEW caps, Vector(caps), NEW m \in Mints
  PROVE  Says(Padded(caps), caps, m)
<1>1. m # NoMint /\ EmptyCap.mint = NoMint
  BY CapsAssumption DEF EmptyCap
<1>2. ASSUME NEW j \in CapSlots, Padded(caps)[j].mint = m
      PROVE  j \in DOMAIN caps /\ caps[j].mint = m
  BY <1>1, <1>2 DEF Padded
<1>3. CASE Mentions(caps, m)
  <2>1. PICK i \in DOMAIN caps : caps[i].mint = m
    BY <1>3 DEF Mentions
  <2>2. i \in CapSlots /\ Padded(caps)[i] = caps[i]
    BY EntriesHaveSlots DEF Vector, Padded
  <2>3. \A j \in CapSlots : Padded(caps)[j].mint = m => j = i
    BY <1>2, <2>1 DEF Vector, DistinctMints
  <2>4. HasCap(Padded(caps), m) /\ FindCap(Padded(caps), m) = i
    BY <1>1, <2>1, <2>2, <2>3, FoundInItsSlot
  <2>5. EntryFor(caps, m) = caps[i]
    BY <2>1, EntryOfMint DEF Vector
  <2> QED
    BY <1>3, <2>2, <2>4, <2>5 DEF Says
<1>4. CASE ~ Mentions(caps, m)
  <2>1. ~ HasCap(Padded(caps), m)
    BY <1>2, <1>4 DEF HasCap, Mentions
  <2> QED
    BY <1>4, <2>1 DEF Says
<1> QED
  BY <1>3, <1>4

\* key_by_mint fills the slot of a cap with the entry for its mint, or leaves it unused.
LEMMA KeyedSlot ==
  ASSUME NEW entries, DistinctMints(entries), NEW caps, NEW i \in CapSlots
  PROVE  /\ \/ KeyByMint(entries, caps)[i] = EmptyCap
            \/ /\ i \in DOMAIN caps
               /\ \E j \in DOMAIN entries : /\ KeyByMint(entries, caps)[i] = entries[j]
                                            /\ entries[j].mint = caps[i].mint
         /\ i \in DOMAIN caps =>
              \A j \in DOMAIN entries :
                entries[j].mint = caps[i].mint => KeyByMint(entries, caps)[i] = entries[j]
<1>1. CASE i \in DOMAIN caps /\ \E j \in DOMAIN entries : entries[j].mint = caps[i].mint
  <2>1. PICK j \in DOMAIN entries : entries[j].mint = caps[i].mint
    BY <1>1
  <2>2. (CHOOSE k \in DOMAIN entries : entries[k].mint = caps[i].mint) = j
    BY <2>1, EntryOfMint
  <2>3. KeyByMint(entries, caps)[i] = entries[j]
    BY <1>1, <2>2 DEF KeyByMint
  <2> QED
    BY <1>1, <2>1, <2>3 DEF DistinctMints
<1>2. CASE ~ (i \in DOMAIN caps /\ \E j \in DOMAIN entries : entries[j].mint = caps[i].mint)
  <2>1. KeyByMint(entries, caps)[i] = EmptyCap
    BY <1>2 DEF KeyByMint
  <2> QED
    BY <1>2, <2>1
<1> QED
  BY <1>1, <1>2

\* The stored ceilings, or thresholds, looked up by mint, are those of the arguments.
LEMMA KeyedSays ==
  ASSUME NEW caps, Vector(caps), NEW entries, KeyableByMint(entries, caps), NEW m \in Mints
  PROVE  Says(KeyByMint(entries, caps), entries, m)
<1> DEFINE array == KeyByMint(entries, caps)
<1>1. m # NoMint /\ EmptyCap.mint = NoMint /\ DistinctMints(entries)
  BY CapsAssumption DEF EmptyCap, KeyableByMint
<1>2. ASSUME NEW j \in CapSlots, array[j].mint = m
      PROVE  j \in DOMAIN caps /\ caps[j].mint = m /\ Mentions(entries, m)
  <2>1. array[j] # EmptyCap
    BY <1>1, <1>2
  <2>2. j \in DOMAIN caps /\ \E k \in DOMAIN entries : array[j] = entries[k]
                                                     /\ entries[k].mint = caps[j].mint
    BY <1>1, <2>1, KeyedSlot
  <2> QED
    BY <1>2, <2>2 DEF Mentions
<1>3. CASE Mentions(entries, m)
  <2>1. PICK e \in DOMAIN entries : entries[e].mint = m
    BY <1>3 DEF Mentions
  <2>2. PICK i \in DOMAIN caps : caps[i].mint = m
    BY <2>1 DEF KeyableByMint
  <2>3. i \in CapSlots
    BY EntriesHaveSlots DEF Vector
  <2>4. array[i] = entries[e]
    BY <1>1, <2>1, <2>2, <2>3, KeyedSlot
  <2>5. \A j \in CapSlots : array[j].mint = m => j = i
    BY <1>2, <2>2 DEF Vector, DistinctMints
  <2>6. HasCap(array, m) /\ FindCap(array, m) = i
    BY <1>1, <2>1, <2>3, <2>4, <2>5, FoundInItsSlot
  <2>7. EntryFor(entries, m) = entries[e]
    BY <1>1, <2>1, EntryOfMint
  <2> QED
    BY <1>3, <2>4, <2>6, <2>7 DEF Says
<1>4. CASE ~ Mentions(entries, m)
  <2>1. ~ HasCap(array, m)
    BY <1>2, <1>4 DEF HasCap
  <2> QED
    BY <1>4, <2>1 DEF Says
<1> QED
  BY <1>3, <1>4

\* A ceiling or threshold sits in the slot of its cap or nowhere.
LEMMA KeyedAtItsCap ==
  ASSUME NEW caps, NEW entries, DistinctMints(entries), NEW i \in CapSlots
  PROVE  KeyByMint(entries, caps)[i].mint \in {Padded(caps)[i].mint, NoMint}
  BY KeyedSlot DEF Padded, EmptyCap

\* Arguments that expand have three vectors it can work with.
LEMMA ExpandableVectors ==
  ASSUME NEW a \in PolicyArgs, Expandable(a)
  PROVE  /\ Vector(a.caps)
         /\ KeyableByMint(a.session_ceiling, a.caps) /\ DistinctMints(a.session_ceiling)
         /\ KeyableByMint(a.large_threshold, a.caps) /\ DistinctMints(a.large_threshold)
  BY DEF Expandable, Vector, PolicyArgs, KeyableByMint

\* What is stored is the expansion of arguments that are valid; what is refused was not.
PolicyInv ==
  /\ args \in PolicyArgs
  /\ outcome \in {"none", "stored", "refused"}
  /\ outcome = "stored" =>
       Expandable(args) /\ ValidPolicy(Expand(args)) /\ policy = Expand(args)
  /\ outcome = "refused" => ~ (Expandable(args) /\ ValidPolicy(Expand(args)))

\* The invariant holds in every behaviour.
LEMMA PolicyInvariance == PolicySpec => []PolicyInv
<1>1. AnyArgs => PolicyInv
  BY DEF AnyArgs, PolicyInv
<1>2. PolicyInv /\ [Create]_policyVars => PolicyInv'
  BY DEF PolicyInv, Create, policyVars
<1> QED
  BY <1>1, <1>2, PTL DEF PolicySpec

\* Whatever arguments create_account is given, the arrays it stores, looked up by mint,
\* say what the arguments said (PolicyArgs::expand, key_by_mint).
THEOREM PolicyIsKeyed == PolicySpec => []KeyedByMint
<1>1. PolicyInv => KeyedByMint
  <2> SUFFICES ASSUME PolicyInv, Stored PROVE KeyedByMint
    BY DEF KeyedByMint
  <2>1. /\ Vector(args.caps)
        /\ KeyableByMint(args.session_ceiling, args.caps) /\ DistinctMints(args.session_ceiling)
        /\ KeyableByMint(args.large_threshold, args.caps) /\ DistinctMints(args.large_threshold)
    BY ExpandableVectors DEF PolicyInv, Stored
  <2>2. /\ policy.caps = Padded(args.caps)
        /\ policy.session_ceiling = KeyByMint(args.session_ceiling, args.caps)
        /\ policy.large_threshold = KeyByMint(args.large_threshold, args.caps)
    BY DEF PolicyInv, Stored, Expand
  <2>3. ASSUME NEW m \in Mints
        PROVE  /\ Says(policy.caps, args.caps, m)
               /\ Says(policy.session_ceiling, args.session_ceiling, m)
               /\ Says(policy.large_threshold, args.large_threshold, m)
    BY <2>1, <2>2, PaddedSays, KeyedSays
  <2>4. ASSUME NEW i \in CapSlots
        PROVE  {policy.session_ceiling[i].mint, policy.large_threshold[i].mint}
                 \subseteq {policy.caps[i].mint, NoMint}
    BY <2>1, <2>2, KeyedAtItsCap
  <2> QED
    BY <2>3, <2>4 DEF KeyedByMint
<1> QED
  BY <1>1, PolicyInvariance, PTL

\* The slot-by-slot comparison of validate_policy is the one by mint: no stored session
\* ceiling is above the cap of its mint.
THEOREM CeilingsFitCaps == PolicySpec => []CeilingsUnderCaps
<1>1. PolicyInv => CeilingsUnderCaps
  <2> SUFFICES ASSUME PolicyInv, Stored, NEW m \in Mints, HasCap(policy.session_ceiling, m)
               PROVE  /\ HasCap(policy.caps, m)
                      /\ AtMost(policy.session_ceiling[FindCap(policy.session_ceiling, m)],
                                policy.caps[FindCap(policy.caps, m)])
    BY DEF CeilingsUnderCaps
  <2> DEFINE i == FindCap(policy.session_ceiling, m)
  <2>1. Vector(args.caps) /\ DistinctMints(args.session_ceiling) /\ ValidPolicy(policy)
    BY ExpandableVectors DEF PolicyInv, Stored
  <2>2. /\ policy.caps = Padded(args.caps)
        /\ policy.session_ceiling = KeyByMint(args.session_ceiling, args.caps)
    BY DEF PolicyInv, Stored, Expand
  <2>3. i \in CapSlots /\ policy.session_ceiling[i].mint = m
    BY FindCapFinds
  <2>4. m # NoMint /\ EmptyCap.mint = NoMint
    BY CapsAssumption DEF EmptyCap
  <2> HIDE DEF i
  <2>5. policy.caps[i].mint = m
    BY <2>1, <2>2, <2>3, <2>4, KeyedAtItsCap
  <2>6. ASSUME NEW j \in CapSlots, policy.caps[j].mint = m
        PROVE  j = i
    BY <2>1, <2>2, <2>3, <2>4, <2>5, <2>6 DEF Padded, Vector, DistinctMints
  <2>7. HasCap(policy.caps, m) /\ FindCap(policy.caps, m) = i
    BY <2>3, <2>4, <2>5, <2>6, FoundInItsSlot
  <2>8. AtMost(policy.session_ceiling[i], policy.caps[i])
    BY <2>1, <2>3, <2>4, <2>5 DEF ValidPolicy
  <2> QED
    BY <2>7, <2>8 DEF i
<1> QED
  BY <1>1, PolicyInvariance, PTL

\* The positions of a sequence are as many as its length.
LEMMA CountingSet ==
  ASSUME NEW n \in Nat
  PROVE  IsFiniteSet(1 .. n) /\ Cardinality(1 .. n) = n
  BY FS_Interval

\* As many mints as entries: no mint comes twice.
LEMMA CountedMintsAreDistinct ==
  ASSUME NEW entries \in Seq(MintCap),
         Cardinality({entries[i].mint : i \in DOMAIN entries}) = Len(entries)
  PROVE  DistinctMints(entries)
<1> DEFINE S == 1 .. Len(entries)
           T == {entries[i].mint : i \in DOMAIN entries}
           f == [i \in S |-> entries[i].mint]
<1>1. DOMAIN entries = S /\ Len(entries) \in Nat
  OBVIOUS
<1>2. IsFiniteSet(S) /\ Cardinality(S) = Len(entries)
  BY <1>1, CountingSet
<1>3. f \in Surjection(S, T)
  <2>1. f \in [S -> T]
    BY <1>1
  <2>2. \A t \in T : \E s \in S : f[s] = t
    BY <1>1
  <2> QED
    BY <2>1, <2>2 DEF Surjection
<1>4. Cardinality(S) = Cardinality(T)
  BY <1>2
<1> HIDE DEF S, T, f
<1>5. f \in Injection(S, T)
  BY <1>2, <1>3, <1>4, FS_SurjSameCardinalityImpliesInj
<1>6. \A a, b \in S : f[a] = f[b] => a = b
  BY <1>5 DEF Injection, IsInjective
<1> QED
  BY <1>1, <1>6 DEF f, DistinctMints

\* Nothing is refused without a reason, for any arguments of any length
\* (PolicyArgs::expand, validate_policy).
THEOREM RefusalsHaveReasons == PolicySpec => []RefusedOnlyWithReason
<1>1. ASSUME PolicyInv, Acceptable PROVE Expandable(args)
  <2>1. /\ args.caps \in Seq(MintCap) /\ args.session_ceiling \in Seq(MintCap)
        /\ args.large_threshold \in Seq(MintCap)
    BY <1>1 DEF PolicyInv, PolicyArgs
  <2>2. ASSUME NEW entries \in Seq(MintCap), WellFormed(entries, args.caps)
        PROVE  /\ Len(entries) <= MAX_MINTS_AT_CREATE
               /\ \A i \in DOMAIN entries : entries[i].mint # NoMint
               /\ KeyableByMint(entries, args.caps) /\ DistinctMints(entries)
    BY <2>2, CountedMintsAreDistinct DEF WellFormed, Mentions, KeyableByMint
  <2> QED
    BY <1>1, <2>1, <2>2 DEF Acceptable, Expandable
<1>2. ASSUME PolicyInv, Acceptable PROVE ValidPolicy(Expand(args))
  <2> DEFINE caps == args.caps
             ceiling == KeyByMint(args.session_ceiling, caps)
  <2>1. Expandable(args) /\ args \in PolicyArgs
    BY <1>1, <1>2 DEF PolicyInv
  <2>2. Vector(caps) /\ DistinctMints(args.session_ceiling)
    BY <2>1, ExpandableVectors
  <2>3. ASSUME NEW i \in CapSlots, Padded(caps)[i].mint # NoMint
        PROVE  OrderedCap(Padded(caps)[i]) /\ AtMost(ceiling[i], Padded(caps)[i])
    <3>1. i \in DOMAIN caps /\ Padded(caps)[i] = caps[i]
      BY <2>3 DEF Padded, EmptyCap
    <3>2. caps[i] \in MintCap
      BY <2>2, <3>1 DEF Vector
    <3>3. CASE ceiling[i] = EmptyCap
      BY <1>2, <3>1, <3>2, <3>3 DEF Acceptable, AtMost, EmptyCap, MintCap, U64
    <3>4. CASE ceiling[i] # EmptyCap
      <4>1. PICK j \in DOMAIN args.session_ceiling :
              /\ ceiling[i] = args.session_ceiling[j]
              /\ args.session_ceiling[j].mint = caps[i].mint
        BY <2>2, <3>4, KeyedSlot
      <4>2. EntryFor(caps, caps[i].mint) = caps[i]
        BY <2>2, <3>1, EntryOfMint DEF Vector
      <4>3. AtMost(args.session_ceiling[j], EntryFor(caps, args.session_ceiling[j].mint))
        BY <1>2 DEF Acceptable
      <4> QED
        BY <1>2, <3>1, <4>1, <4>2, <4>3 DEF Acceptable
    <3> QED
      BY <3>3, <3>4
  <2> QED
    BY <1>2, <2>3 DEF Acceptable, ValidPolicy, Expand
<1>3. PolicyInv => RefusedOnlyWithReason
  BY <1>1, <1>2 DEF PolicyInv, RefusedOnlyWithReason
<1> QED
  BY <1>3, PolicyInvariance, PTL

=============================================================================
