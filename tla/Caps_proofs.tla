------------------------------ MODULE Caps_proofs ------------------------------
(***************************************************************************)
(* What looking up a mint in an array of caps, expanding a policy, merging a    *)
(* grant into a session, rolling a bucket forward and debiting it return and     *)
(* keep.                                                                      *)
(***************************************************************************)
EXTENDS Sessions, Buckets, Sums_proofs

-----------------------------------------------------------------------------
(* Caps, policies and sessions. *)

\* The slot find_cap returns is a slot, and the first one with that mint.
LEMMA FindCapFinds ==
  ASSUME NEW caps, NEW mint, HasCap(caps, mint)
  PROVE  /\ FindCap(caps, mint) \in CapSlots
         /\ caps[FindCap(caps, mint)].mint = mint
         /\ \A j \in CapSlots : caps[j].mint = mint => FindCap(caps, mint) <= j
<1> DEFINE Slots == {i \in CapSlots : caps[i].mint = mint}
<1>1. Slots \subseteq Nat /\ Slots # {}
  BY CapsAssumption DEF HasCap, CapSlots
<1>2. PICK i \in Slots : \A j \in Slots : i <= j
  BY <1>1, LeastNatural
<1>3. \E k \in CapSlots :
        caps[k].mint = mint /\ \A j \in CapSlots : caps[j].mint = mint => k <= j
  BY <1>2
<1> QED
  BY <1>3 DEF FindCap

\* So is the slot merge_caps finds for a mint the session does not have yet.
LEMMA FirstEmptySlotIsEmpty ==
  ASSUME NEW caps, HasEmptySlot(caps)
  PROVE  /\ FirstEmptySlot(caps) \in CapSlots
         /\ caps[FirstEmptySlot(caps)].mint = NoMint
<1> DEFINE Slots == {i \in CapSlots : caps[i].mint = NoMint}
<1>1. Slots \subseteq Nat /\ Slots # {}
  BY CapsAssumption DEF HasEmptySlot, CapSlots
<1>2. PICK i \in Slots : \A j \in Slots : i <= j
  BY <1>1, LeastNatural
<1>3. \E k \in CapSlots :
        caps[k].mint = NoMint /\ \A j \in CapSlots : caps[j].mint = NoMint => k <= j
  BY <1>2
<1> QED
  BY <1>3 DEF FirstEmptySlot

\* The zero-filled cap is a cap.
LEMMA EmptyCapIsACap == EmptyCap \in MintCap /\ 0 \in U64
  BY CapsAssumption DEF EmptyCap, MintCap, U64

\* Arguments padded with unused slots are a caps array.
LEMMA PaddedIsAnArray ==
  ASSUME NEW caps \in Seq(MintCap)
  PROVE  Padded(caps) \in CapArray
  BY EmptyCapIsACap DEF Padded, CapArray

\* key_by_mint leaves a caps array.
LEMMA KeyedIsAnArray ==
  ASSUME NEW entries \in Seq(MintCap), NEW caps
  PROVE  KeyByMint(entries, caps) \in CapArray
<1> SUFFICES ASSUME NEW i \in CapSlots PROVE KeyByMint(entries, caps)[i] \in MintCap
  BY DEF KeyByMint, CapArray
<1> DEFINE Owns(j) == entries[j].mint = caps[i].mint
<1>1. CASE i \in DOMAIN caps /\ \E j \in DOMAIN entries : Owns(j)
  <2>1. (CHOOSE j \in DOMAIN entries : Owns(j)) \in DOMAIN entries
    BY <1>1
  <2> QED
    BY <1>1, <2>1 DEF KeyByMint
<1>2. CASE ~ (i \in DOMAIN caps /\ \E j \in DOMAIN entries : Owns(j))
  BY <1>2, EmptyCapIsACap DEF KeyByMint
<1> QED
  BY <1>1, <1>2

\* expand stores a policy.
LEMMA ExpandIsAPolicy ==
  ASSUME NEW args \in PolicyArgs
  PROVE  Expand(args) \in PolicyRecord
  BY PaddedIsAnArray, KeyedIsAnArray DEF Expand, PolicyArgs, PolicyRecord

\* merge_caps leaves a session whose counters are still u64s.
LEMMA MergedIsASession ==
  ASSUME NEW s \in SessionKey, NEW cap \in MintCap, NEW lifetime \in U64,
         HasRoom(s, cap.mint)
  PROVE  MergeCap(s, cap, lifetime) \in SessionKey
<1>1. MergeSlot(s, cap.mint) \in CapSlots
  BY FindCapFinds, FirstEmptySlotIsEmpty DEF HasRoom, MergeSlot
<1>2. SpentBefore(s, cap.mint) \in U64
  BY FindCapFinds, EmptyCapIsACap DEF SpentBefore, SessionKey, Counters
<1>3. /\ [s.caps EXCEPT ![MergeSlot(s, cap.mint)] = cap] \in CapArray
      /\ [s.lifetime_cap EXCEPT ![MergeSlot(s, cap.mint)] = lifetime] \in Counters
      /\ [s.lifetime_spent EXCEPT ![MergeSlot(s, cap.mint)] = SpentBefore(s, cap.mint)]
           \in Counters
  BY <1>1, <1>2 DEF SessionKey, CapArray, Counters
<1> QED
  BY <1>3 DEF MergeCap, SessionKey

\* So does merging all the entries of a grant.
LEMMA MergeCapsIsASession ==
  ASSUME NEW s \in SessionKey, NEW body,
         body.caps \in Seq(MintCap), body.lifetime_cap \in Seq(U64),
         ValidShape(body), CanMergeCaps(s, body)
  PROVE  MergeCaps(s, body) \in SessionKey
<1>1. Len(body.caps) \in 0 .. 2 /\ Len(body.lifetime_cap) = Len(body.caps)
  <2>1. Len(body.caps) \in Nat
    OBVIOUS
  <2>2. Len(body.caps) <= 2 /\ Len(body.lifetime_cap) = Len(body.caps)
    BY DEF ValidShape, MAX_CAPS_PER_GRANT
  <2>3. \A n \in Nat : n <= 2 => n \in 0 .. 2
    OBVIOUS
  <2> QED
    BY <2>1, <2>2, <2>3, Zenon
<1>2. ASSUME Len(body.caps) >= 1
      PROVE  MergedOne(s, body) \in SessionKey
  <2>1. body.caps[1] \in MintCap /\ body.lifetime_cap[1] \in U64
    BY <1>1, <1>2
  <2>2. HasRoom(s, body.caps[1].mint)
    BY <1>2 DEF CanMergeCaps, CanMergeCap
  <2> QED
    BY <2>1, <2>2, MergedIsASession DEF MergedOne
<1>3. CASE Len(body.caps) = 0
  BY <1>3 DEF MergeCaps
<1>4. CASE Len(body.caps) = 1
  BY <1>2, <1>4 DEF MergeCaps
<1>5. CASE Len(body.caps) = 2
  <2>1. body.caps[2] \in MintCap /\ body.lifetime_cap[2] \in U64
    BY <1>1, <1>5
  <2>2. HasRoom(MergedOne(s, body), body.caps[2].mint)
    BY <1>5 DEF CanMergeCaps, CanMergeCap
  <2> QED
    BY <1>2, <1>5, <2>1, <2>2, MergedIsASession DEF MergeCaps
<1> QED
  BY <1>1, <1>3, <1>4, <1>5

\* So does a grant.
LEMMA GrantedIsASession ==
  ASSUME NEW s \in SessionKey, NEW body, NEW generation \in Nat,
         body.caps \in Seq(MintCap), body.lifetime_cap \in Seq(U64),
         body.expiry_ts \in Int, body.ops_mask \in OpsMasks,
         ValidShape(body), CanMergeCaps(s, body)
  PROVE  Granted(s, body, generation) \in SessionKey
<1> DEFINE m == MergeCaps(s, body)
<1>1. /\ m \in SessionKey /\ 1 \in 0 .. 1
      /\ Granted(s, body, generation) =
           [m EXCEPT !.version = 1, !.expiry_ts = body.expiry_ts,
                     !.ops_mask = body.ops_mask, !.generation_at_grant = generation]
  BY MergeCapsIsASession DEF Granted
<1> HIDE DEF m
<1> QED
  BY <1>1 DEF SessionKey

\* The zero-filled session is a session.
LEMMA ZeroSessionIsASession == ZeroSession \in SessionKey
  BY EmptyCapIsACap
     DEF ZeroSession, SessionKey, EmptyCaps, CapArray, Counters, ZeroCounters, OpsMasks

\* A transfer within the session's caps leaves counters that are still u64s.
LEMMA ChargedIsASession ==
  ASSUME NEW s \in SessionKey, NEW mint, NEW amount \in U64,
         WithinSessionCaps(s, mint, amount)
  PROVE  Charged(s, mint, amount) \in SessionKey
<1> DEFINE slot == FindCap(s.caps, mint)
<1>1. slot \in CapSlots
  BY FindCapFinds DEF WithinSessionCaps
<1>2. s.lifetime_spent[slot] + amount \in U64
  BY <1>1, CapsAssumption DEF WithinSessionCaps, SessionKey, Counters, Fits, U64
<1> HIDE DEF slot
<1>3. [s.lifetime_spent EXCEPT ![slot] = s.lifetime_spent[slot] + amount] \in Counters
  BY <1>2 DEF SessionKey, Counters
<1>4. Charged(s, mint, amount) =
        [s EXCEPT !.lifetime_spent =
           [s.lifetime_spent EXCEPT ![slot] = s.lifetime_spent[slot] + amount]]
  BY DEF Charged, slot, SessionKey
<1> QED
  BY <1>3, <1>4 DEF SessionKey

-----------------------------------------------------------------------------
(* Buckets. *)

\* UTC midnight, as debit computes it, is where the day begins.
LEMMA Midnight ==
  ASSUME NEW t \in Nat
  PROVE  /\ t \div DAY_SECS \in Nat
         /\ t - (t % DAY_SECS) = (t \div DAY_SECS) * DAY_SECS
         /\ t - (t % DAY_SECS) \in Nat
<1>1. DAY_SECS \in Nat \ {0}
  BY BucketsAssumption
<1>2. /\ t % DAY_SECS \in 0 .. DAY_SECS - 1
      /\ t = (t \div DAY_SECS) * DAY_SECS + (t % DAY_SECS)
  BY <1>1
<1>3. t \div DAY_SECS \in Nat
  BY <1>1, <1>2
<1>4. (t \div DAY_SECS) * DAY_SECS \in Nat
  BY <1>1, <1>3
<1> QED
  BY <1>2, <1>3, <1>4

\* Quotient and remainder are unique.
LEMMA OneRemainder ==
  ASSUME NEW n \in Nat \ {0}, NEW p \in Int, NEW q \in Int,
         NEW r \in 0 .. n - 1, NEW s \in 0 .. n - 1, p * n + r = q * n + s
  PROVE  p = q /\ r = s
<1>1. (p - q) * n = s - r
  OBVIOUS
<1>2. CASE p - q >= 1
  <2>1. (p - q) * n >= n
    BY <1>2
  <2> QED
    BY <1>1, <2>1
<1>3. CASE q - p >= 1
  <2>1. (q - p) * n >= n
    BY <1>3
  <2>2. (q - p) * n = r - s
    OBVIOUS
  <2> QED
    BY <2>1, <2>2
<1> QED
  BY <1>1, <1>2, <1>3

\* The day has passed, in seconds, exactly when the day number is larger.
LEMMA DayHasPassed ==
  ASSUME NEW t \in Nat, NEW day \in Nat
  PROVE  t >= day * DAY_SECS + DAY_SECS <=> DayNumber(t) > day
<1> DEFINE q == t \div DAY_SECS
           r == t % DAY_SECS
<1>1. /\ DAY_SECS \in Nat \ {0}
      /\ q \in Nat
      /\ r \in 0 .. DAY_SECS - 1
      /\ t = q * DAY_SECS + r
  BY BucketsAssumption, Midnight
<1> HIDE DEF q, r
<1>2. CASE q > day
  <2>1. q * DAY_SECS >= (day + 1) * DAY_SECS
    BY <1>1, <1>2
  <2> QED
    BY <1>1, <1>2, <2>1 DEF DayNumber, q
<1>3. CASE q <= day
  <2>1. q * DAY_SECS <= day * DAY_SECS
    BY <1>1, <1>3
  <2> QED
    BY <1>1, <1>3, <2>1 DEF DayNumber, q
<1> QED
  BY <1>1, <1>2, <1>3

\* A day has a slot, its remainder by the size of the ring.
LEMMA SlotOfDay ==
  ASSUME NEW day \in Nat
  PROVE  /\ RingSlot(day) \in RingSlots
         /\ \E q \in Nat : day = q * RING_DAYS + RingSlot(day)
<1>1. RING_DAYS \in Nat \ {0}
  BY BucketsAssumption
<1>2. /\ day % RING_DAYS \in 0 .. RING_DAYS - 1
      /\ day = (day \div RING_DAYS) * RING_DAYS + (day % RING_DAYS)
  BY <1>1
<1>3. day \div RING_DAYS \in Nat
  BY <1>1, <1>2
<1> QED
  BY <1>2, <1>3 DEF RingSlot, RingSlots

\* Two days less than a ring apart have different slots.
LEMMA SlotsApart ==
  ASSUME NEW d \in Nat, NEW e \in Nat, e < d, d < e + RING_DAYS
  PROVE  RingSlot(d) # RingSlot(e)
<1> SUFFICES ASSUME RingSlot(d) = RingSlot(e) PROVE FALSE
  OBVIOUS
<1>1. RING_DAYS \in Nat \ {0}
  BY BucketsAssumption
<1>2. PICK p \in Nat : d = p * RING_DAYS + RingSlot(d)
  BY SlotOfDay
<1>3. PICK q \in Nat : e = q * RING_DAYS + RingSlot(e)
  BY SlotOfDay
<1>4. RingSlot(d) \in 0 .. RING_DAYS - 1
  BY SlotOfDay DEF RingSlots
<1>5. d - e = (p - q) * RING_DAYS
  BY <1>1, <1>2, <1>3, <1>4
<1>6. CASE p - q >= 1
  <2>1. (p - q) * RING_DAYS >= RING_DAYS
    BY <1>1, <1>6
  <2> QED
    BY <1>1, <1>5, <2>1
<1>7. CASE p - q <= 0
  <2>1. (p - q) * RING_DAYS <= 0
    BY <1>1, <1>7
  <2> QED
    BY <1>1, <1>5, <2>1
<1> QED
  BY <1>6, <1>7

\* Every slot belongs to one of the RING_DAYS days up to any later day.
LEMMA SlotComesRound ==
  ASSUME NEW d \in Nat, NEW e \in Nat, e <= d
  PROVE  \E f \in e .. d : f > d - RING_DAYS /\ RingSlot(f) = RingSlot(e)
<1> DEFINE k == (d - e) \div RING_DAYS
           f == e + k * RING_DAYS
<1>1. RING_DAYS \in Nat \ {0} /\ d - e \in Nat
  BY BucketsAssumption
<1>2. /\ (d - e) % RING_DAYS \in 0 .. RING_DAYS - 1
      /\ d - e = k * RING_DAYS + ((d - e) % RING_DAYS)
  BY <1>1
<1>3. k \in Nat
  BY <1>1, <1>2
<1>4. k * RING_DAYS \in Nat
  BY <1>1, <1>3
<1>5. f \in e .. d /\ f > d - RING_DAYS /\ f \in Nat
  BY <1>1, <1>2, <1>4
<1>6. PICK p \in Nat : e = p * RING_DAYS + RingSlot(e)
  BY SlotOfDay
<1>7. PICK q \in Nat : f = q * RING_DAYS + RingSlot(f)
  BY <1>5, SlotOfDay
<1>8. RingSlot(e) \in 0 .. RING_DAYS - 1 /\ RingSlot(f) \in 0 .. RING_DAYS - 1
  BY <1>5, SlotOfDay DEF RingSlots
<1>9. (p + k) * RING_DAYS = p * RING_DAYS + k * RING_DAYS
  BY <1>1, <1>3
<1>10. (p + k) * RING_DAYS + RingSlot(e) = q * RING_DAYS + RingSlot(f)
  <2> HIDE DEF k
  <2> QED
    BY <1>1, <1>3, <1>4, <1>6, <1>7, <1>8, <1>9
<1>11. RingSlot(e) = RingSlot(f)
  <2> HIDE DEF k, f
  <2>1. p + k \in Int /\ q \in Int
    BY <1>3
  <2> QED
    BY <1>1, <1>8, <1>10, <2>1, OneRemainder
<1> QED
  BY <1>5, <1>11

\* The day roll leaves a bucket.
LEMMA RolledDayIsABucket ==
  ASSUME NEW b \in MintBuckets, NEW t \in Nat
  PROVE  RollDay(b, t) \in MintBuckets
<1>1. t - (t % DAY_SECS) \in Nat
  BY Midnight
<1>2. 0 \in U64
  BY CapsAssumption DEF U64
<1> QED
  BY <1>1, <1>2 DEF MintBuckets, RollDay

\* The ring roll leaves a bucket.
LEMMA RolledRingIsABucket ==
  ASSUME NEW b \in MintBuckets, NEW day \in Nat
  PROVE  RollRing(b, day) \in MintBuckets
  BY DEF MintBuckets, RollRing

\* Both rolls together leave a bucket.
LEMMA RolledIsABucket ==
  ASSUME NEW b \in MintBuckets, NEW t \in Nat
  PROVE  Rolled(b, t) \in MintBuckets
  BY RolledDayIsABucket, RolledRingIsABucket, Midnight DEF Rolled, DayNumber

\* Adding to one place of a table of naturals leaves one.
LEMMA AddedInOneSlot ==
  ASSUME NEW S, NEW f \in [S -> Nat], NEW i, NEW n \in Nat
  PROVE  [f EXCEPT ![i] = @ + n] \in [S -> Nat]
<1>1. CASE i \in S
  <2>1. f[i] + n \in Nat
    BY <1>1
  <2> QED
    BY <2>1
<1>2. CASE i \notin S
  BY <1>2
<1> QED
  BY <1>1, <1>2

\* A debit that is let through leaves a bucket: its day total is still a u64.
LEMMA DebitedIsABucket ==
  ASSUME NEW b \in MintBuckets, NEW t \in Nat, NEW amount \in U64, NEW cap,
         DebitAllowed(b, cap, amount, t)
  PROVE  Debited(b, amount, t) \in MintBuckets
<1> DEFINE r == Rolled(b, t)
<1>1. r \in MintBuckets
  BY RolledIsABucket
<1>2. r.spent_today + amount \in U64
  BY <1>1, CapsAssumption DEF DebitAllowed, Fits, MintBuckets, U64
<1>3. amount \in Nat
  BY CapsAssumption DEF U64
<1>4. [r.ring EXCEPT ![RingSlot(DayNumber(t))] = @ + amount] \in [RingSlots -> Nat]
  <2>1. r.ring \in [RingSlots -> Nat]
    BY <1>1 DEF MintBuckets
  <2> HIDE DEF r
  <2> QED
    BY <1>3, <2>1, AddedInOneSlot
<1>5. Debited(b, amount, t) =
        [r EXCEPT !.spent_today = r.spent_today + amount,
                  !.ring = [r.ring EXCEPT ![RingSlot(DayNumber(t))] = @ + amount]]
  BY DEF Debited
<1> HIDE DEF r
<1> QED
  BY <1>1, <1>2, <1>4, <1>5 DEF MintBuckets

\* The clock going forward, the day does not go back.
LEMMA LaterDay ==
  ASSUME NEW t \in Nat, NEW u \in Nat, t <= u
  PROVE  DayNumber(t) <= DayNumber(u)
<1>1. DAY_SECS \in Nat \ {0}
  BY BucketsAssumption
<1> DEFINE p == t \div DAY_SECS
           q == u \div DAY_SECS
<1>2. p \in Nat /\ q \in Nat
  BY Midnight
<1>3. p * DAY_SECS <= t /\ u < (q + 1) * DAY_SECS
  BY <1>1
<1> QED
  BY <1>1, <1>2, <1>3 DEF DayNumber

-----------------------------------------------------------------------------
(* A bucket beside a history: h[d] is what was paid on day d, for the days up *)
(* to n. The bucket tracks it when its day total is the history of the day it  *)
(* is on and its ring is the history of the window of that day, with nothing   *)
(* older in it and nothing paid since.                                        *)

\* The days the ring stands for when it is rolled to `day`.
Window(day) == {d \in 0 .. day : day - RING_DAYS < d}

Mirrors(b, h, n) ==
  /\ \A d \in Window(b.ring_day_index) : b.ring[RingSlot(d)] = h[d]
  /\ \A s \in RingSlots :
       b.ring[s] # 0 => \E d \in Window(b.ring_day_index) : s = RingSlot(d)
  /\ \A d \in 0 .. n : d > b.ring_day_index => h[d] = 0

Tracks(b, h, n) ==
  /\ b.day_start = b.ring_day_index * DAY_SECS
  /\ b.spent_today = h[b.ring_day_index]
  /\ Mirrors(b, h, n)

\* The history is within the caps, on every day and over every window.
Capped(cap, h, n) ==
  \A d \in 0 .. n : h[d] <= cap.per_day /\ SumFunctionOnSet(h, Window(d)) <= cap.per_30d

\* A window is finite and has its day in it.
LEMMA WindowIsFinite ==
  ASSUME NEW day \in Nat
  PROVE  /\ IsFiniteSet(Window(day))
         /\ day \in Window(day)
         /\ \A d \in Window(day) : d \in Nat /\ d <= day /\ day < d + RING_DAYS
<1>1. IsFiniteSet(0 .. day)
  BY FS_Interval
<1>2. Window(day) \subseteq 0 .. day
  BY DEF Window
<1>3. IsFiniteSet(Window(day))
  BY <1>1, <1>2, FS_Subset
<1>4. RING_DAYS \in Nat \ {0}
  BY BucketsAssumption
<1> QED
  BY <1>2, <1>3, <1>4 DEF Window

\* Rolling moves the running total to the midnight and the total of the new day.
LEMMA RolledDayMirrors ==
  ASSUME NEW b \in MintBuckets, NEW n \in Nat, NEW h \in [0 .. n -> Nat], NEW t \in Nat,
         DayNumber(t) <= n, b.ring_day_index <= DayNumber(t), Tracks(b, h, n)
  PROVE  /\ Rolled(b, t).day_start = DayNumber(t) * DAY_SECS
         /\ Rolled(b, t).spent_today = h[DayNumber(t)]
<1>1. b.ring_day_index \in Nat /\ DayNumber(t) \in Nat
  BY Midnight DEF MintBuckets, DayNumber
<1>2. /\ Rolled(b, t).day_start = RollDay(b, t).day_start
      /\ Rolled(b, t).spent_today = RollDay(b, t).spent_today
  <2>1. RollDay(b, t) \in MintBuckets
    BY <1>1, RolledDayIsABucket
  <2> QED
    BY <2>1 DEF Rolled, RollRing, MintBuckets
<1>3. t >= b.day_start + DAY_SECS <=> DayNumber(t) > b.ring_day_index
  BY <1>1, DayHasPassed DEF Tracks
<1>4. CASE DayNumber(t) > b.ring_day_index
  <2>1. RollDay(b, t).day_start = t - (t % DAY_SECS) /\ RollDay(b, t).spent_today = 0
    BY <1>3, <1>4 DEF RollDay, MintBuckets
  <2>2. h[DayNumber(t)] = 0
    BY <1>1, <1>4 DEF Tracks, Mirrors
  <2> QED
    BY <1>1, <1>2, <2>1, <2>2, Midnight DEF DayNumber
<1>5. CASE DayNumber(t) = b.ring_day_index
  <2>1. RollDay(b, t) = b
    BY <1>1, <1>3, <1>5 DEF RollDay
  <2> QED
    BY <1>2, <1>5, <2>1 DEF Tracks
<1> QED
  BY <1>1, <1>4, <1>5

\* Rolling moves the ring to the new day: what it gives up was outside the window,
\* or is a day without payments.
LEMMA RolledRingMirrors ==
  ASSUME NEW b \in MintBuckets, NEW n \in Nat, NEW h \in [0 .. n -> Nat], NEW day \in Nat,
         day <= n, b.ring_day_index <= day, Mirrors(b, h, n)
  PROVE  /\ RollRing(b, day).ring_day_index = day
         /\ Mirrors(RollRing(b, day), h, n)
<1>1. /\ b.ring_day_index \in Nat /\ RING_DAYS \in Nat \ {0}
      /\ b.ring \in [RingSlots -> Nat]
  BY BucketsAssumption DEF MintBuckets
<1>2. CASE b.ring_day_index = day
  <2>1. RollRing(b, day) = b
    BY <1>1, <1>2 DEF RollRing
  <2> QED
    BY <1>2, <2>1
<1>3. CASE day > b.ring_day_index
  <2> DEFINE r == RollRing(b, day)
             Skipped == SkippedDays(b, day)
  <2>1. /\ r.ring_day_index = day
        /\ r.ring = [s \in RingSlots |->
                       IF \E d \in Skipped : s = RingSlot(d) THEN 0 ELSE b.ring[s]]
    BY <1>3 DEF RollRing, MintBuckets
  <2>2. \A d : d \in Skipped <=> d \in (b.ring_day_index + 1) .. day /\ d > day - RING_DAYS
    BY DEF SkippedDays
  <2> HIDE DEF r, Skipped
  <2>3. ASSUME NEW d \in Window(day) PROVE r.ring[RingSlot(d)] = h[d]
    <3>1. d \in 0 .. n /\ d \in Nat /\ day - RING_DAYS < d /\ d <= day
          /\ RingSlot(d) \in RingSlots
      <4>1. d \in 0 .. day /\ day - RING_DAYS < d
        BY DEF Window
      <4>2. d \in 0 .. n /\ d \in Nat /\ d <= day
        BY <4>1
      <4>3. RingSlot(d) \in RingSlots
        BY <4>2, SlotOfDay
      <4> QED
        BY <4>1, <4>2, <4>3
    <3>2. CASE d > b.ring_day_index
      <4>1. d \in (b.ring_day_index + 1) .. day
        BY <1>1, <3>1, <3>2
      <4>2. d \in Skipped
        BY <1>1, <2>2, <3>1, <4>1
      <4>3. h[d] = 0
        BY <3>1, <3>2 DEF Mirrors
      <4> QED
        BY <2>1, <3>1, <4>2, <4>3
    <3>3. CASE d <= b.ring_day_index
      <4>1. b.ring[RingSlot(d)] = h[d]
        BY <1>1, <1>3, <3>1, <3>3 DEF Mirrors, Window
      <4>2. ASSUME NEW e \in Skipped PROVE RingSlot(e) # RingSlot(d)
        <5>1. e \in Nat /\ d < e /\ e < d + RING_DAYS
          BY <1>1, <2>2, <3>1, <3>3
        <5> QED
          BY <3>1, <5>1, SlotsApart
      <4> QED
        BY <2>1, <3>1, <4>1, <4>2
    <3> QED
      BY <1>1, <3>1, <3>2, <3>3
  <2>4. ASSUME NEW s \in RingSlots, r.ring[s] # 0
        PROVE  \E d \in Window(day) : s = RingSlot(d)
    <3>1. b.ring[s] # 0 /\ \A e \in Skipped : s # RingSlot(e)
      BY <2>1, <2>4
    <3>2. PICK d \in Window(b.ring_day_index) : s = RingSlot(d)
      BY <3>1 DEF Mirrors
    <3>3. d \in Nat /\ b.ring_day_index - RING_DAYS < d /\ d <= b.ring_day_index
      BY <1>1, <3>2 DEF Window
    <3>4. d <= day
      BY <1>1, <1>3, <3>3
    <3>5. PICK f \in d .. day : f > day - RING_DAYS /\ RingSlot(f) = RingSlot(d)
      BY <1>1, <3>3, <3>4, SlotComesRound
    <3>6. f \notin Skipped
      BY <3>1, <3>2, <3>5
    <3>7. f \in Nat /\ f <= day /\ day - RING_DAYS < f
      BY <1>1, <3>3, <3>5
    <3> QED
      BY <1>1, <3>2, <3>5, <3>7 DEF Window
  <2>5. \A d \in 0 .. n : d > day => h[d] = 0
    BY <1>1, <1>3 DEF Mirrors
  <2> QED
    BY <2>1, <2>3, <2>4, <2>5 DEF Mirrors, r
<1> QED
  BY <1>1, <1>2, <1>3

\* A bucket rolled to a later day tracks the same history on that day.
LEMMA RolledTracks ==
  ASSUME NEW b \in MintBuckets, NEW n \in Nat, NEW h \in [0 .. n -> Nat], NEW t \in Nat,
         DayNumber(t) <= n, b.ring_day_index <= DayNumber(t), Tracks(b, h, n)
  PROVE  /\ Rolled(b, t).ring_day_index = DayNumber(t)
         /\ Tracks(Rolled(b, t), h, n)
<1> DEFINE c == RollDay(b, t)
           day == DayNumber(t)
<1>1. day \in Nat
  BY Midnight DEF DayNumber
<1>2. c \in MintBuckets /\ c.ring_day_index = b.ring_day_index /\ c.ring = b.ring
  BY RolledDayIsABucket DEF RollDay, MintBuckets
<1>3. Mirrors(c, h, n) /\ c.ring_day_index <= day
  BY <1>2 DEF Mirrors, Tracks
<1>4. Rolled(b, t) = RollRing(c, day)
  BY DEF Rolled
<1>5. /\ Rolled(b, t).day_start = day * DAY_SECS
      /\ Rolled(b, t).spent_today = h[day]
  BY RolledDayMirrors
<1> HIDE DEF c, day
<1>6. RollRing(c, day).ring_day_index = day /\ Mirrors(RollRing(c, day), h, n)
  <2>1. day <= n
    BY DEF day
  <2> QED
    BY <1>1, <1>2, <1>3, <2>1, RolledRingMirrors
<1> QED
  BY <1>4, <1>5, <1>6 DEF Tracks, day

\* The sum of the ring, which debit checks, is what the history has for the window.
LEMMA RingIsTheWindow ==
  ASSUME NEW b \in MintBuckets, NEW n \in Nat, NEW h \in [0 .. n -> Nat],
         b.ring_day_index <= n, Mirrors(b, h, n)
  PROVE  /\ RingSum(b) = SumFunctionOnSet(h, Window(b.ring_day_index))
         /\ RingSum(b) \in Nat
<1> DEFINE W == Window(b.ring_day_index)
           m == [d \in W |-> RingSlot(d)]
           T == {RingSlot(d) : d \in W}
<1>1. /\ b.ring \in [RingSlots -> Nat] /\ b.ring_day_index \in Nat
      /\ RING_DAYS \in Nat \ {0}
  BY BucketsAssumption DEF MintBuckets
<1>2. IsFiniteSet(RingSlots) /\ IsFiniteSet(W)
  <2>1. RING_DAYS - 1 \in Int /\ 0 \in Int
    BY <1>1
  <2>2. IsFiniteSet(RingSlots)
    BY <2>1, FS_Interval DEF RingSlots
  <2> QED
    BY <1>1, <2>2, WindowIsFinite
<1>3. \A d \in W : /\ d \in Nat /\ d <= b.ring_day_index
                   /\ b.ring_day_index < d + RING_DAYS /\ d \in 0 .. n
                   /\ RingSlot(d) \in RingSlots /\ b.ring[RingSlot(d)] = h[d]
  <2>1. ASSUME NEW d \in W
        PROVE  /\ d \in Nat /\ d <= b.ring_day_index
               /\ b.ring_day_index < d + RING_DAYS /\ d \in 0 .. n
    BY <1>1 DEF Window
  <2> QED
    BY <2>1, SlotOfDay DEF Mirrors
<1>4. T \subseteq RingSlots /\ IsFiniteSet(T) /\ m \in [W -> T]
  <2>1. T \subseteq RingSlots
    BY <1>3
  <2> QED
    BY <1>2, <2>1, FS_Subset
<1>5. \A s \in RingSlots \ T : b.ring[s] = 0
  BY DEF Mirrors
<1>6. \A d, e \in W : m[d] = m[e] => d = e
  <2>1. ASSUME NEW d \in W, NEW e \in W, RingSlot(d) = RingSlot(e), d # e PROVE FALSE
    <3>1. CASE e < d
      BY <1>1, <1>3, <2>1, <3>1, SlotsApart
    <3>2. CASE d < e
      BY <1>1, <1>3, <2>1, <3>2, SlotsApart
    <3> QED
      BY <1>3, <2>1, <3>1, <3>2
  <2> QED
    BY <2>1
<1>7. \A d \in W : h[d] \in Nat /\ h[d] = b.ring[m[d]]
  BY <1>3
<1>8. \A s \in T : \E d \in W : m[d] = s
  OBVIOUS
<1>9. SumFunctionOnSet(b.ring, RingSlots) = SumFunctionOnSet(b.ring, T)
  <2> HIDE DEF T
  <2> QED
    BY <1>1, <1>2, <1>4, <1>5, SumOverSupport
<1>10. SumFunctionOnSet(h, W) = SumFunctionOnSet(b.ring, T)
  <2> HIDE DEF T, W, m
  <2> QED
    BY <1>2, <1>4, <1>6, <1>7, <1>8, SumOfRenamed
<1>11. SumFunctionOnSet(b.ring, RingSlots) \in Nat
  BY <1>1, <1>2, SumIsNatural
<1> QED
  BY <1>9, <1>10, <1>11 DEF RingSum

\* What debit computes from the bucket is what the history says: it lets through the
\* amounts that are within the cap, the day's and the window's room.
LEMMA AllowedAsHistory ==
  ASSUME NEW b \in MintBuckets, NEW n \in Nat, NEW h \in [0 .. n -> Nat], NEW t \in Nat,
         DayNumber(t) <= n, b.ring_day_index <= DayNumber(t), Tracks(b, h, n),
         NEW cap \in MintCap, cap.mint # NoMint, NEW amount \in Nat
  PROVE  DebitAllowed(b, cap, amount, t)
           <=> /\ amount <= cap.per_tx
               /\ h[DayNumber(t)] + amount <= cap.per_day
               /\ SumFunctionOnSet(h, Window(DayNumber(t))) + amount <= cap.per_30d
<1> DEFINE today == DayNumber(t)
           r == Rolled(b, t)
<1>1. /\ cap.per_day \in U64 /\ cap.per_30d \in U64 /\ U64_MAX \in Nat
      /\ cap.per_day \in Nat /\ cap.per_30d \in Nat /\ today \in Nat
  BY CapsAssumption, Midnight DEF MintCap, U64, DayNumber
<1>2. r \in MintBuckets /\ r.ring_day_index = today /\ Tracks(r, h, n)
  BY RolledIsABucket, RolledTracks
<1>3. /\ r.spent_today = h[today] /\ h[today] \in Nat
      /\ RingSum(r) = SumFunctionOnSet(h, Window(today)) /\ RingSum(r) \in Nat
  <2>1. Mirrors(r, h, n) /\ r.spent_today = h[today] /\ today <= n
    BY <1>2 DEF Tracks
  <2> HIDE DEF r, today
  <2>2. RingSum(r) = SumFunctionOnSet(h, Window(today)) /\ RingSum(r) \in Nat
    BY <1>2, <2>1, RingIsTheWindow
  <2> QED
    BY <1>1, <2>1, <2>2
<1>4. /\ r.spent_today + amount <= cap.per_day => Fits(r.spent_today + amount)
      /\ RingSum(r) + amount <= cap.per_30d => Fits(RingSum(r) + amount)
  <2> HIDE DEF r, today
  <2> QED
    BY <1>1, <1>3 DEF Fits, U64
<1> QED
  BY <1>3, <1>4 DEF DebitAllowed

\* A debit adds its amount to the bucket and to the history's day alike.
LEMMA DebitTracks ==
  ASSUME NEW b \in MintBuckets, NEW n \in Nat, NEW h \in [0 .. n -> Nat], NEW t \in Nat,
         DayNumber(t) <= n, b.ring_day_index <= DayNumber(t), Tracks(b, h, n),
         NEW amount \in Nat
  PROVE  /\ Debited(b, amount, t).ring_day_index = DayNumber(t)
         /\ Tracks(Debited(b, amount, t), [h EXCEPT ![DayNumber(t)] = @ + amount], n)
<1> DEFINE today == DayNumber(t)
           r == Rolled(b, t)
           c == Debited(b, amount, t)
           g == [h EXCEPT ![today] = @ + amount]
<1>1. /\ today \in 0 .. n /\ today \in Nat /\ RING_DAYS \in Nat \ {0}
      /\ r \in MintBuckets /\ r.ring \in [RingSlots -> Nat]
      /\ RingSlot(today) \in RingSlots
  <2>1. today \in Nat
    BY Midnight DEF DayNumber
  <2>2. r \in MintBuckets
    BY RolledIsABucket
  <2>3. RING_DAYS \in Nat \ {0} /\ RingSlot(today) \in RingSlots
    BY <2>1, BucketsAssumption, SlotOfDay
  <2>4. r.ring \in [RingSlots -> Nat]
    BY <2>2 DEF MintBuckets
  <2> QED
    BY <2>1, <2>2, <2>3, <2>4
<1>2. r.ring_day_index = today /\ Tracks(r, h, n)
  BY RolledTracks
<1>3. /\ c.day_start = r.day_start
      /\ c.spent_today = r.spent_today + amount
      /\ c.ring_day_index = r.ring_day_index
      /\ c.ring = [r.ring EXCEPT ![RingSlot(today)] = @ + amount]
  <2>1. c = [r EXCEPT !.spent_today = @ + amount, !.ring[RingSlot(today)] = @ + amount]
    BY DEF Debited
  <2> HIDE DEF c, r, today
  <2> QED
    BY <1>1, <2>1 DEF MintBuckets
<1>4. g \in [0 .. n -> Nat] /\ g[today] = h[today] + amount
      /\ \A d \in 0 .. n : d # today => g[d] = h[d]
  BY <1>1
<1> HIDE DEF c, r, today, g
<1>5. ASSUME NEW d \in Window(today) PROVE c.ring[RingSlot(d)] = g[d]
  <2>1. d \in 0 .. n /\ d \in Nat /\ d <= today /\ today < d + RING_DAYS
        /\ RingSlot(d) \in RingSlots /\ r.ring[RingSlot(d)] = h[d]
    <3>1. d \in Nat /\ d <= today /\ today < d + RING_DAYS
      BY <1>1, WindowIsFinite
    <3>2. r.ring[RingSlot(d)] = h[d]
      BY <1>2 DEF Tracks, Mirrors
    <3>3. RingSlot(d) \in RingSlots
      BY <3>1, SlotOfDay
    <3>4. d \in 0 .. n
      BY <1>1, <3>1
    <3> QED
      BY <3>1, <3>2, <3>3, <3>4
  <2>2. CASE d = today
    BY <1>1, <1>3, <1>4, <2>1, <2>2
  <2>3. CASE d # today
    <3>1. RingSlot(today) # RingSlot(d)
      BY <1>1, <2>1, <2>3, SlotsApart
    <3> QED
      BY <1>1, <1>3, <1>4, <2>1, <2>3, <3>1
  <2> QED
    BY <2>2, <2>3
<1>6. ASSUME NEW s \in RingSlots, c.ring[s] # 0
      PROVE  \E d \in Window(today) : s = RingSlot(d)
  <2>1. CASE s = RingSlot(today)
    BY <1>1, <2>1, WindowIsFinite
  <2>2. CASE s # RingSlot(today)
    <3>1. r.ring[s] # 0
      BY <1>1, <1>3, <1>6, <2>2
    <3> QED
      BY <1>2, <3>1 DEF Tracks, Mirrors
  <2> QED
    BY <2>1, <2>2
<1>7. ASSUME NEW d \in 0 .. n, d > today PROVE g[d] = 0
  BY <1>1, <1>2, <1>4, <1>7 DEF Tracks, Mirrors
<1>8. Mirrors(c, g, n)
  BY <1>2, <1>3, <1>5, <1>6, <1>7 DEF Mirrors
<1>9. c.spent_today = g[today]
  BY <1>2, <1>3, <1>4 DEF Tracks
<1>10. c.ring_day_index = today /\ c.day_start = today * DAY_SECS
  BY <1>2, <1>3 DEF Tracks
<1> QED
  BY <1>8, <1>9, <1>10 DEF Tracks, c, g, today

\* A debit that is let through leaves the history within the caps, the windows of
\* later days, which today's payment is in as well, included.
LEMMA DebitStaysCapped ==
  ASSUME NEW b \in MintBuckets, NEW n \in Nat, NEW h \in [0 .. n -> Nat], NEW t \in Nat,
         DayNumber(t) <= n, b.ring_day_index <= DayNumber(t), Tracks(b, h, n),
         NEW amount \in Nat, NEW cap, cap.per_day \in Nat, cap.per_30d \in Nat,
         Capped(cap, h, n), DebitAllowed(b, cap, amount, t)
  PROVE  Capped(cap, [h EXCEPT ![DayNumber(t)] = @ + amount], n)
<1> DEFINE today == DayNumber(t)
           r == Rolled(b, t)
           g == [h EXCEPT ![today] = @ + amount]
<1>1. today \in 0 .. n /\ today \in Nat /\ r \in MintBuckets
  <2>1. today \in Nat
    BY Midnight DEF DayNumber
  <2> QED
    BY <2>1, RolledIsABucket
<1>2. r.ring_day_index = today /\ Tracks(r, h, n)
  BY RolledTracks
<1>3. g \in [0 .. n -> Nat] /\ g[today] = h[today] + amount
      /\ \A d \in 0 .. n : d # today => g[d] = h[d]
  BY <1>1
<1>4. /\ r.spent_today + amount <= cap.per_day
      /\ RingSum(r) + amount <= cap.per_30d
  BY DEF DebitAllowed
<1> HIDE DEF r, g, today
<1>5. RingSum(r) = SumFunctionOnSet(h, Window(today)) /\ RingSum(r) \in Nat
  <2>1. Mirrors(r, h, n) /\ r.ring_day_index <= n
    BY <1>1, <1>2 DEF Tracks
  <2> QED
    BY <1>1, <1>2, <2>1, RingIsTheWindow
<1>6. SumFunctionOnSet(g, Window(today)) <= cap.per_30d
      /\ SumFunctionOnSet(g, Window(today)) \in Nat
  <2>1. IsFiniteSet(Window(today)) /\ today \in Window(today)
        /\ \A d \in Window(today) : d \in 0 .. n /\ h[d] \in Nat /\ g[d] \in Nat
    <3>1. \A d \in Window(today) : d \in 0 .. n
      BY <1>1, WindowIsFinite
    <3> QED
      BY <1>1, <1>3, <3>1, WindowIsFinite
  <2>2. SumFunctionOnSet(g, Window(today)) = SumFunctionOnSet(h, Window(today)) + amount
        /\ SumFunctionOnSet(h, Window(today)) \in Nat
    <3>1. AddsAt(h, g, Window(today), today, amount)
      BY <1>3, <2>1 DEF AddsAt
    <3> QED
      BY <3>1, SumOfAdded
  <2> QED
    BY <1>4, <1>5, <2>2
<1>7. ASSUME NEW d \in 0 .. n PROVE g[d] <= cap.per_day
  <2>1. CASE d = today
    BY <1>2, <1>3, <1>4, <2>1 DEF Tracks
  <2>2. CASE d # today
    BY <1>3, <2>2 DEF Capped
  <2> QED
    BY <2>1, <2>2
<1>8. ASSUME NEW d \in 0 .. n PROVE SumFunctionOnSet(g, Window(d)) <= cap.per_30d
  <2>1. /\ d \in Nat /\ IsFiniteSet(Window(d))
        /\ \A e \in Window(d) : e \in 0 .. n /\ e <= d /\ d - RING_DAYS < e
                                /\ h[e] \in Nat /\ g[e] \in Nat
    <3>1. d \in Nat /\ RING_DAYS \in Nat
      BY BucketsAssumption
    <3>2. ASSUME NEW e \in Window(d) PROVE e \in 0 .. n /\ e <= d /\ d - RING_DAYS < e
      <4>1. e \in Nat /\ e <= d /\ d < e + RING_DAYS
        BY <3>1, WindowIsFinite
      <4> QED
        BY <3>1, <4>1
    <3> QED
      BY <1>3, <3>1, <3>2, WindowIsFinite
  <2>2. CASE today \notin Window(d)
    <3>1. \A e \in Window(d) : h[e] \in Nat /\ h[e] = g[e]
      BY <1>3, <2>1, <2>2
    <3>2. SumFunctionOnSet(h, Window(d)) = SumFunctionOnSet(g, Window(d))
      BY <2>1, <3>1, SumOfEqual
    <3> QED
      BY <3>2 DEF Capped
  <2>3. CASE today \in Window(d)
    <3> DEFINE T == Window(d) \cap Window(today)
    <3>1. today <= d
      BY <2>1, <2>3
    <3>2. \A e \in Window(d) \ T : g[e] = 0
      <4>1. ASSUME NEW e \in Window(d), e \notin Window(today) PROVE g[e] = 0
        <5>1. e > today
          BY <1>1, <2>1, <3>1, <4>1, BucketsAssumption DEF Window
        <5>2. h[e] = 0
          BY <1>2, <2>1, <5>1 DEF Tracks, Mirrors
        <5> QED
          BY <1>1, <1>3, <2>1, <5>1, <5>2
      <4> QED
        BY <4>1
    <3>3. SumFunctionOnSet(g, Window(d)) = SumFunctionOnSet(g, T)
      <4>1. T \subseteq Window(d)
        OBVIOUS
      <4> HIDE DEF T
      <4> QED
        BY <2>1, <3>2, <4>1, SumOverSupport
    <3>4. SumFunctionOnSet(g, T) <= SumFunctionOnSet(g, Window(today))
          /\ SumFunctionOnSet(g, T) \in Nat
      <4>1. T \subseteq Window(today)
        OBVIOUS
      <4>2. IsFiniteSet(Window(today)) /\ \A e \in Window(today) : g[e] \in Nat
        BY <1>1, <1>3, WindowIsFinite DEF Window
      <4> HIDE DEF T
      <4> QED
        BY <4>1, <4>2, SumOfFewer
    <3> QED
      BY <1>6, <3>3, <3>4
  <2> QED
    BY <2>2, <2>3
<1> QED
  BY <1>7, <1>8 DEF Capped, g, today

\* An empty bucket tracks an empty history, and the history is within any caps.
LEMMA EmptyTracks ==
  ASSUME NEW n \in Nat
  PROVE  /\ EmptyBuckets \in MintBuckets
         /\ EmptyBuckets.ring_day_index = 0
         /\ Tracks(EmptyBuckets, [d \in 0 .. n |-> 0], n)
<1>1. EmptyBuckets \in MintBuckets
  BY CapsAssumption DEF EmptyBuckets, MintBuckets, U64
<1>2. /\ EmptyBuckets.day_start = 0 /\ EmptyBuckets.spent_today = 0
      /\ EmptyBuckets.ring_day_index = 0
      /\ \A s \in RingSlots : EmptyBuckets.ring[s] = 0
  BY DEF EmptyBuckets
<1>3. \A d \in Window(0) : d \in 0 .. n /\ RingSlot(d) \in RingSlots
  BY SlotOfDay DEF Window
<1> QED
  BY <1>1, <1>2, <1>3, BucketsAssumption DEF Tracks, Mirrors

\* A history without payments is within any caps.
LEMMA NothingPaidIsCapped ==
  ASSUME NEW n \in Nat, NEW h, \A d \in 0 .. n : h[d] = 0,
         NEW cap, cap.per_day \in Nat, cap.per_30d \in Nat
  PROVE  Capped(cap, h, n)
<1> SUFFICES ASSUME NEW d \in 0 .. n
             PROVE  h[d] <= cap.per_day /\ SumFunctionOnSet(h, Window(d)) <= cap.per_30d
  BY DEF Capped
<1>1. d \in Nat /\ IsFiniteSet(Window(d))
      /\ \A e \in Window(d) : h[e] \in Nat /\ h[e] = 0
  BY WindowIsFinite DEF Window
<1>2. SumFunctionOnSet(h, Window(d)) = SumFunctionOnSet(h, {})
  BY <1>1, SumOverSupport
<1> QED
  BY <1>2, SumOfNothing

=============================================================================
